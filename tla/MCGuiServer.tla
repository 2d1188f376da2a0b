----------------------------- MODULE MCGuiServer -----------------------------
(* GuiServer with a few connections. *)
EXTENDS GuiServer, TLC

CONSTANTS c1, c2, c3

(* Connections are interchangeable. *)
Symmetry == Permutations(Conns)
=============================================================================
