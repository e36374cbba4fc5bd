----------------------------- MODULE Subsequence -----------------------------
(***************************************************************************)
(* Order-preserving selection from a sequence, written without recursion   *)
(* so that it can be reasoned about.  Pick(s, I) keeps the elements of s   *)
(* at the indices I, in their order: it is what the loops over runQueue in *)
(* src/src/http/runQueue.ts (splice, filter, push(...named, ...rest)) do.  *)
(***************************************************************************)
EXTENDS Naturals, Sequences, FiniteSets

\* How many indices of I are at most i: the place of i in I, counted from 1.
Rank(I, i) == Cardinality({j \in I : j <= i})

\* The n-th smallest index of I.
Nth(I, n) == CHOOSE i \in I : Rank(I, i) = n

\* The elements of s at the indices I, in the order they have in s.
Pick(s, I) == [n \in 1 .. Cardinality(I) |-> s[Nth(I, n)]]

=============================================================================
