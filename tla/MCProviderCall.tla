--------------------------- MODULE MCProviderCall ---------------------------
(***************************************************************************)
(* Three calls of one key that two pools list and two calls with keys of   *)
(* their own, for a run with a ceiling and a run that lowers the limits.   *)
(***************************************************************************)
EXTENDS ProviderCall

CONSTANTS c1, c2, c3, c4, c5, k1, k2, k3, P, Q, A, B

\* Calls of run A with keys of three kinds; those of run B share the key of the first.
MCKeyOf == [c \in Calls |-> CASE c = c4 -> k2 [] c = c5 -> k3 [] OTHER -> k1]
MCPoolOf == [c \in Calls |-> IF c \in {c3, c5} THEN Q ELSE P]
MCRunOf == [c \in Calls |-> IF c \in {c2, c3} THEN B ELSE A]
MCLimitOf == [r \in Runs |-> IF r = A THEN 2 ELSE 1]
MCPoolLimitOf == [r \in Runs |-> IF r = A THEN 1 ELSE 2]
MCCeiling == [r \in Runs |-> IF r = A THEN 1 ELSE NoLimit]

=============================================================================
