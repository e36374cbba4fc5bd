--------------------------- MODULE MCJobScheduler ---------------------------
(***************************************************************************)
(* JobScheduler on a small instance: a pool of one key and a pool with     *)
(* more keys than jobs of it may run at a time.                            *)
(***************************************************************************)
EXTENDS JobScheduler, TLC

CONSTANTS a, b

\* The order of jobs that are built input by input and model by model.
Interleaved == <<a, a, b, b, a, b>>

Sizes == (a :> 1) @@ (b :> 4)

=============================================================================
