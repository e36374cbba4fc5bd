--------------------------- MODULE MCRunOwnership ---------------------------
(***************************************************************************)
(* RunOwnership with a few processes, all alike.                           *)
(***************************************************************************)
EXTENDS RunOwnership, TLC

Symmetry == Permutations(Processes)

=============================================================================
