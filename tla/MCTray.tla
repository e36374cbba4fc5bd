------------------------------- MODULE MCTray -------------------------------
(* A small instance of Tray for TLC. *)
EXTENDS Tray

CONSTANTS d1, d2

MCDaemons == {d1, d2}
=============================================================================
