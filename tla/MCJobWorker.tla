----------------------------- MODULE MCJobWorker -----------------------------
(***************************************************************************)
(* JobWorker on a small instance: a job of a model that sees and one of a  *)
(* text-only model, over one screenshot.                                   *)
(***************************************************************************)
EXTENDS JobWorker, TLC

CONSTANTS seeing, blind, shot

OneShot == [j \in Jobs |-> shot]

=============================================================================
