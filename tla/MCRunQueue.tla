----------------------------- MODULE MCRunQueue -----------------------------
(***************************************************************************)
(* RunQueue on small instances.  Where the runs are interchangeable every  *)
(* batch weighs one unit of bytes; where the limit of bytes is the subject *)
(* one of them weighs two.                                                 *)
(***************************************************************************)
EXTENDS RunQueue

CONSTANT Heavy   \* the batch that weighs two units, or NoRun

MCBytes == [r \in Runs |-> IF r = Heavy THEN 2 ELSE 1]

\* The light batches are interchangeable.
Symmetry == Permutations(Runs \ {Heavy})

=============================================================================
