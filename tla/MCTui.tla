-------------------------------- MODULE MCTui --------------------------------
(* Tui with two processes, of which one is process 1. *)
EXTENDS Tui
=============================================================================
