---------------------------- MODULE MCPreloadShim ----------------------------
(* The shim with a buffer of a few chunks and blocks whose addresses differ *)
(* in their alignment.                                                      *)
EXTENDS PreloadShim, TLC

CONSTANTS t1, t2, h1, h2

(* Threads are interchangeable, and so are handles. *)
Symmetry == Permutations(Threads) \cup Permutations(Handles)
=============================================================================
