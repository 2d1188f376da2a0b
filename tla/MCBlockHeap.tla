----------------------------- MODULE MCBlockHeap -----------------------------
(* BlockHeap on a heap of a few blocks. *)
EXTENDS BlockHeap

MCSizeClassLimits == <<96, 160, 512>>
MCRequests == {0, 1, 32, 100, 1000}
MCBreaks == {8 * i : i \in 0..46}
=============================================================================
