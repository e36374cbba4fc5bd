----------------------------- MODULE MCRunFeed -----------------------------
(* A small instance of RunFeed for TLC. *)
EXTENDS RunFeed

CONSTANTS r1, r2

MCRuns == {r1, r2}
=============================================================================
