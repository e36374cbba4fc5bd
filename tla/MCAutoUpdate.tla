--------------------------- MODULE MCAutoUpdate ----------------------------
(***************************************************************************)
(* The installation of AutoUpdate with another process beside the daemon.  *)
(***************************************************************************)
EXTENDS AutoUpdate

CONSTANTS daemon, second

=============================================================================
