--------------------------- MODULE MCSourceUpdate ---------------------------
(***************************************************************************)
(* SourceUpdate on a small instance: a source file, a file the update      *)
(* deletes, and a program.                                                 *)
(***************************************************************************)
EXTENDS SourceUpdate, TLC

CONSTANTS src, gone, prog

History == 0 :> [f \in Files |-> "v0"]
        @@ 1 :> [f \in Files |-> IF f = gone THEN Absent ELSE "v1"]
        @@ 2 :> [f \in Files |-> CASE f = src -> "v2" [] f = gone -> Absent [] f = prog -> "v1"]

=============================================================================
