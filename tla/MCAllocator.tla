----------------------------- MODULE MCAllocator -----------------------------
(* Allocator on heaps of a few blocks.  The thresholds are scaled down so   *)
(* that blocks of three classes and mappings occur at these sizes.          *)
EXTENDS Allocator, TLC

CONSTANTS x1, x2, x3, t1, t2

MCSizeClassLimits == <<96, 160, 512>>

(* Handles are interchangeable, and so are threads. *)
Symmetry == Permutations(Handles) \cup Permutations(Threads)

(* Products that are requests and one that overflows. *)
MCCallocArgs == {<<1, 3>>, <<7, 13>>, <<23, 100>>}
=============================================================================
