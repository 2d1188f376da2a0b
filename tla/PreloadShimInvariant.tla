------------------------ MODULE PreloadShimInvariant ------------------------
(***************************************************************************)
(* The inductive invariant of the shim, what it says of each pointer, and  *)
(* who holds what when a pointer is added, given up or replaced.           *)
(* PreloadShimProofs shows that every step keeps it.                       *)
(***************************************************************************)
EXTENDS PreloadShimLayout

-----------------------------------------------------------------------------
(* The invariant *)

(* The pointers that are out, and the bytes behind them. *)
Out == OutOf(boot, ah, heap)
SizeAt(p) == SizeOf(boot, ah, heap, p)

(* The tables as they are. *)
LaidOut == Layout(bootstrap_offset, boot, ah, heap)

(* The threads whose realloc has yet to free the block it moved from. *)
Freeing == {t \in Threads : pc[t] # NULL /\ pc[t].op = "free"}

(* A handle holds a pointer that is out, with its size; data may fill it.   *)
HandlesRight ==
    /\ var = [h \in Handles |-> var[h]]
    /\ \A h \in Held :
          /\ var[h] = [p |-> var[h].p, size |-> var[h].size, content |-> var[h].content]
          /\ var[h].p \in Out /\ var[h].size = SizeAt(var[h].p)
          /\ var[h].content \in Nat /\ var[h].content <= var[h].size

(* No two handles hold one pointer. *)
HandlesDistinct == \A h, g \in Held : h # g => var[h].p # var[g].p

(* What a realloc is about to free is an aligned pointer of its own. *)
OldsRight ==
    \A t \in Freeing :
        /\ pc[t].old \in DOMAIN ah /\ pc[t].old >= BOOTSTRAP_BUF_SIZE
        /\ \A h \in Held : var[h].p # pc[t].old
        /\ \A u \in Freeing : u # t => pc[u].old # pc[t].old

(* Nothing that is out is lost. *)
NothingLost ==
    \A p \in Out : (\E h \in Held : var[h].p = p) \/ (\E t \in Freeing : pc[t].old = p)

Owned == HandlesRight /\ HandlesDistinct /\ OldsRight /\ NothingLost

(* A call of my_malloc is for an empty handle, or moves a pointer the       *)
(* library cannot resize and knows how much to copy; a call of my_realloc   *)
(* is for a block.                                                          *)
CallRight(c) ==
    /\ c.op = "malloc" =>
          \/ var[c.h] = NULL /\ ProperRequest(c.req)
          \/ /\ var[c.h] # NULL /\ c.req = Plain(c.req.n) /\ c.req.n \in Nat \ {0}
             /\ is_bootstrap_ptr(var[c.h].p) \/ var[c.h].p \in DOMAIN ah
             /\ c.copied \in Nat /\ c.copied <= c.req.n
             /\ ~AlignedInBuffer(c.h) => c.copied = Min({var[c.h].size, c.req.n})
    /\ c.op = "realloc" =>
          /\ var[c.h] # NULL /\ c.req = Plain(c.req.n) /\ c.req.n \in Nat
          /\ c.copied = c.req.n
          /\ ~is_bootstrap_ptr(var[c.h].p) /\ var[c.h].p \notin DOMAIN ah

(* Calls under way are for handles of their own. *)
CallsRight ==
    /\ \A t \in Threads : pc[t] # NULL => pc[t].h \in Handles /\ CallRight(pc[t])
    /\ \A t, u \in Threads :
          t # u /\ pc[t] # NULL /\ pc[u] # NULL => pc[t].h # pc[u].h

(* A call of the library as Call and LeaveMoved record it. *)
IsCall(c) ==
    \/ /\ c.op \in {"malloc", "realloc"}
       /\ c = [op |-> c.op, h |-> c.h, req |-> c.req, copied |-> c.copied, log |-> c.log]
    \/ c.op = "free" /\ ~c.log

(* A thread in my_malloc or my_realloc has its flag set; one that is about *)
(* to free the block it moved from makes no other call.                    *)
Flagged ==
    \A t \in Threads :
        pc[t] # NULL => IsCall(pc[t]) /\ (pc[t].op # "free" => in_allocator[t])

(* The threads' side of the invariant. *)
TInv ==
    /\ pc = [t \in Threads |-> pc[t]]
    /\ in_allocator \in [Threads -> BOOLEAN]
    /\ Flagged
    /\ NoRecursion

(* What a step has to keep besides the threads' flags. *)
PInv == LaidOut /\ Owned /\ CallsRight /\ ~aborted

(* The inductive invariant. *)
IInv == TInv /\ PInv

-----------------------------------------------------------------------------
(* What it says of each pointer *)

(* What a handle holds. *)
LEMMA PointerFacts ==
    ASSUME PInv, NEW h \in Handles, var[h] # NULL
    PROVE  /\ h \in Held /\ var[h].p \in Out /\ var[h].p \in Nat
           /\ var[h].size = SizeAt(var[h].p) /\ var[h].size \in Nat
           /\ var[h].content \in Nat /\ var[h].content <= var[h].size
  <1>1. /\ h \in Held /\ var[h].p \in Out /\ var[h].size = SizeAt(var[h].p)
        /\ var[h].content \in Nat /\ var[h].content <= var[h].size
    BY DEF PInv, Owned, HandlesRight, Held
  <1>2. var[h].p \in Nat /\ SizeAt(var[h].p) \in Nat
    BY <1>1, OutIsNat DEF PInv, LaidOut, Out, SizeAt
  <1>. QED
    BY <1>1, <1>2

(* A pointer out of the buffer is recognised as aligned when it has a       *)
(* header.                                                                  *)
LEMMA AlignedRecognised ==
    ASSUME LaidOut, NEW p \in DOMAIN ah
    PROVE  ~is_bootstrap_ptr(p) => is_aligned_ptr(p)
  BY ShimAssumption DEF LaidOut, Layout, Tables, HeapLaid, is_bootstrap_ptr, is_aligned_ptr, Base, BaseOf

(* A pointer out of the buffer has its block, with room for it. *)
LEMMA InBlock ==
    ASSUME LaidOut, NEW p \in Out, ~is_bootstrap_ptr(p)
    PROVE  /\ p \in Nat /\ SizeAt(p) \in Nat /\ p \notin DOMAIN boot
           /\ p \in DOMAIN ah =>
                 /\ is_aligned_ptr(p) /\ SizeAt(p) = ah[p].requested_size
                 /\ Base(p) + HeaderSize <= p /\ p < Base(p) + heap[Base(p)]
                 /\ p + SizeAt(p) <= Base(p) + heap[Base(p)]
           /\ p \notin DOMAIN ah => p \in DOMAIN heap /\ SizeAt(p) = heap[p]
  <1>1. p \in Nat /\ SizeAt(p) \in Nat
    BY OutIsNat DEF LaidOut, Out, SizeAt
  <1>2. p \notin DOMAIN boot
    BY <1>1, ShimAssumption DEF LaidOut, Layout, Tables, BufferLaid, is_bootstrap_ptr
  <1>3. p \notin DOMAIN ah => p \in DOMAIN heap /\ SizeAt(p) = heap[p]
    BY <1>2 DEF Out, OutOf, SizeAt, SizeOf
  <1>4. ASSUME p \in DOMAIN ah
        PROVE  /\ is_aligned_ptr(p) /\ SizeAt(p) = ah[p].requested_size
               /\ Base(p) + HeaderSize <= p /\ p < Base(p) + heap[Base(p)]
               /\ p + SizeAt(p) <= Base(p) + heap[Base(p)]
    <2>1. SizeAt(p) = ah[p].requested_size /\ Base(p) = BaseOf(ah, p)
      BY <1>4 DEF SizeAt, SizeOf, Base, BaseOf
    <2>2. p >= BOOTSTRAP_BUF_SIZE
      BY <1>1, ShimAssumption DEF is_bootstrap_ptr
    <2>. QED
      BY <1>4, <2>1, <2>2, Zenon DEF LaidOut, Layout, HeapLaid, is_aligned_ptr
  <1>. QED
    BY <1>1, <1>2, <1>3, <1>4

(* A pointer into the buffer has a header of its own. *)
LEMMA InBuffer ==
    ASSUME LaidOut, NEW p \in Out, is_bootstrap_ptr(p)
    PROVE  /\ p \in BufferOf(boot, ah) /\ p \in Nat /\ SizeAt(p) \in Nat
           /\ p \in DOMAIN boot \/ p \in DOMAIN ah
           /\ HighOf(boot, ah, p) = p + SizeAt(p)
           /\ LowOf(ah, p) \in Nat /\ LowOf(ah, p) <= p /\ p + SizeAt(p) <= BOOTSTRAP_BUF_SIZE
  <1>1. p \in Nat /\ SizeAt(p) \in Nat
    BY OutIsNat DEF LaidOut, Out, SizeAt
  <1>2. p \notin DOMAIN heap
    BY <1>1, ShimAssumption DEF LaidOut, Layout, Tables, is_bootstrap_ptr, HeaderSize
  <1>3. p \in DOMAIN boot \/ p \in DOMAIN ah
    BY <1>2 DEF Out, OutOf
  <1>4. p \in BufferOf(boot, ah) /\ HighOf(boot, ah, p) = p + SizeAt(p)
    BY <1>3 DEF BufferOf, HighOf, SizeAt, SizeOf, is_bootstrap_ptr
  <1>5. /\ LowOf(ah, p) \in Nat /\ LowOf(ah, p) <= p /\ p + SizeAt(p) <= BOOTSTRAP_BUF_SIZE
    BY <1>1, <1>3, ShimAssumption
       DEF LaidOut, Layout, Tables, BufferLaid, LowOf, SizeAt, SizeOf, is_bootstrap_ptr,
           HeaderSize, BootHeader
  <1>. QED
    BY <1>1, <1>3, <1>4, <1>5

(* The block a pointer lies in. *)
BlockOf(p) == IF p \in DOMAIN ah THEN Base(p) ELSE p

(* No two pointers lie in one block. *)
LEMMA BlocksApart ==
    ASSUME LaidOut, NEW p \in Out, NEW q \in Out, p # q,
           ~is_bootstrap_ptr(p), ~is_bootstrap_ptr(q)
    PROVE  BlockOf(p) # BlockOf(q)
  <1>1. /\ p \in Nat /\ q \in Nat /\ p >= BOOTSTRAP_BUF_SIZE /\ q >= BOOTSTRAP_BUF_SIZE
        /\ p \notin DOMAIN boot /\ q \notin DOMAIN boot
    BY InBlock, ShimAssumption DEF is_bootstrap_ptr
  <1>2. /\ p \notin DOMAIN ah => \A r \in DOMAIN ah : Base(r) # p
        /\ q \notin DOMAIN ah => \A r \in DOMAIN ah : Base(r) # q
    BY <1>1 DEF Out, OutOf, Base, BaseOf
  <1>3. p \in DOMAIN ah /\ q \in DOMAIN ah => Base(p) # Base(q)
    BY <1>1, Zenon DEF LaidOut, Layout, HeapLaid, Base, BaseOf
  <1>. QED
    BY <1>2, <1>3 DEF BlockOf

(* What a pointer out of the buffer takes up. *)
LEMMA BlockFootprint ==
    ASSUME PInv, NEW h \in Held, ~is_bootstrap_ptr(var[h].p)
    PROVE  /\ BlockOf(var[h].p) \in DOMAIN heap
           /\ Room(h) = BlockOf(var[h].p)..(BlockOf(var[h].p) + heap[BlockOf(var[h].p)] - 1)
           /\ Footprint(h) \subseteq Room(h)
           /\ BlockOf(var[h].p) \in Nat /\ heap[BlockOf(var[h].p)] \in Nat
           /\ BlockOf(var[h].p) >= BOOTSTRAP_BUF_SIZE
  <1>. DEFINE p == var[h].p
              b == BlockOf(p)
  <1>1. p \in Out /\ var[h].size = SizeAt(p)
    BY PointerFacts DEF Held
  <1>2. /\ p \in Nat /\ SizeAt(p) \in Nat
        /\ p \in DOMAIN ah =>
              /\ is_aligned_ptr(p)
              /\ Base(p) + HeaderSize <= p /\ p < Base(p) + heap[Base(p)]
              /\ p + SizeAt(p) <= Base(p) + heap[Base(p)]
        /\ p \notin DOMAIN ah => p \in DOMAIN heap /\ SizeAt(p) = heap[p] /\ ~is_aligned_ptr(p)
    BY <1>1, InBlock DEF PInv, is_aligned_ptr
  <1>3. b \in DOMAIN heap /\ b = IF is_aligned_ptr(p) THEN Base(p) ELSE p
    BY <1>2 DEF BlockOf, is_aligned_ptr
  <1>4. b \in Nat /\ heap[b] \in Nat /\ b >= BOOTSTRAP_BUF_SIZE
    BY <1>3, ShimAssumption DEF PInv, LaidOut, Layout, Tables, HeaderSize
  <1>5. Room(h) = b..(b + heap[b] - 1)
    BY <1>3 DEF Room
  <1>6. Footprint(h) = (IF is_aligned_ptr(p) THEN p - HeaderSize ELSE p)..(p + SizeAt(p) - 1)
    BY <1>1 DEF Footprint
  <1>7. Footprint(h) \subseteq b..(b + heap[b] - 1)
    <2>1. CASE p \in DOMAIN ah
      <3>1. /\ Footprint(h) = (p - HeaderSize)..(p + SizeAt(p) - 1)
            /\ b + HeaderSize <= p /\ p + SizeAt(p) <= b + heap[b]
        BY <1>2, <1>6, <2>1, Zenon DEF BlockOf
      <3>. QED
        BY <1>2, <1>4, <3>1 DEF HeaderSize
    <2>2. CASE p \notin DOMAIN ah
      BY <1>2, <1>6, <2>2 DEF BlockOf
    <2>. QED
      BY <2>1, <2>2
  <1>. QED
    BY <1>3, <1>4, <1>5, <1>7

(* What a pointer into the buffer takes up. *)
LEMMA BufferFootprint ==
    ASSUME PInv, NEW h \in Held, is_bootstrap_ptr(var[h].p)
    PROVE  /\ Footprint(h) = LowOf(ah, var[h].p)..(HighOf(boot, ah, var[h].p) - 1)
           /\ Room(h) = 0..(BOOTSTRAP_BUF_SIZE - 1)
           /\ LowOf(ah, var[h].p) \in Nat /\ HighOf(boot, ah, var[h].p) \in Nat
           /\ HighOf(boot, ah, var[h].p) <= BOOTSTRAP_BUF_SIZE
  <1>1. var[h].p \in Out /\ var[h].size = SizeAt(var[h].p)
    BY PointerFacts DEF Held
  <1>2. /\ var[h].p \in Nat /\ SizeAt(var[h].p) \in Nat
        /\ HighOf(boot, ah, var[h].p) = var[h].p + SizeAt(var[h].p)
        /\ LowOf(ah, var[h].p) \in Nat /\ var[h].p + SizeAt(var[h].p) <= BOOTSTRAP_BUF_SIZE
    BY <1>1, InBuffer DEF PInv
  <1>. QED
    BY <1>1, <1>2 DEF Footprint, Room, LowOf

(* The layout keeps footprints inside their rooms and apart. *)
LEMMA InvDisjoint == PInv => RegionsDisjoint
  <1>. SUFFICES ASSUME PInv PROVE RegionsDisjoint
    OBVIOUS
  <1>1. ASSUME NEW h \in Held PROVE Footprint(h) \subseteq Room(h)
    <2>1. CASE is_bootstrap_ptr(var[h].p)
      BY <2>1, BufferFootprint, ShimAssumption
    <2>2. CASE ~is_bootstrap_ptr(var[h].p)
      BY <2>2, BlockFootprint
    <2>. QED
      BY <2>1, <2>2
  <1>2. ASSUME NEW h \in Held, NEW g \in Held, h # g
        PROVE  Footprint(h) \cap Footprint(g) = {}
    <2>. DEFINE p == var[h].p
                q == var[g].p
    <2>1. p \in Out /\ q \in Out /\ p # q
      BY <1>2, Zenon DEF PInv, Owned, HandlesRight, HandlesDistinct
    <2>2. CASE is_bootstrap_ptr(p) /\ is_bootstrap_ptr(q)
      <3>1. \/ HighOf(boot, ah, p) <= LowOf(ah, q)
            \/ HighOf(boot, ah, q) <= LowOf(ah, p)
        <4>1. p \in BufferOf(boot, ah) /\ q \in BufferOf(boot, ah)
          BY <2>1, <2>2, InBuffer DEF PInv
        <4>. QED
          BY <2>1, <4>1 DEF PInv, LaidOut, Layout, BufferLaid
      <3>. QED
        BY <2>2, <3>1, BufferFootprint
    <2>3. CASE is_bootstrap_ptr(p) /\ ~is_bootstrap_ptr(q)
      BY <2>3, BufferFootprint, BlockFootprint, ShimAssumption
    <2>4. CASE ~is_bootstrap_ptr(p) /\ is_bootstrap_ptr(q)
      BY <2>4, BufferFootprint, BlockFootprint, ShimAssumption
    <2>5. CASE ~is_bootstrap_ptr(p) /\ ~is_bootstrap_ptr(q)
      <3>. DEFINE b == BlockOf(p)
                  c == BlockOf(q)
      <3>1. b # c
        BY <2>1, <2>5, BlocksApart DEF PInv
      <3>2. /\ b \in DOMAIN heap /\ b \in Nat /\ heap[b] \in Nat
            /\ Footprint(h) \subseteq b..(b + heap[b] - 1)
            /\ c \in DOMAIN heap /\ c \in Nat /\ heap[c] \in Nat
            /\ Footprint(g) \subseteq c..(c + heap[c] - 1)
        BY <2>5, BlockFootprint
      <3>. HIDE DEF b, c
      <3>3. b + heap[b] <= c \/ c + heap[c] <= b
        BY <3>1, <3>2 DEF PInv, LaidOut, Layout, HeapLaid
      <3>4. (b..(b + heap[b] - 1)) \cap (c..(c + heap[c] - 1)) = {}
        BY <3>2, <3>3
      <3>. QED
        BY <3>2, <3>4
    <2>. QED
      BY <2>2, <2>3, <2>4, <2>5
  <1>. QED
    BY <1>1, <1>2 DEF RegionsDisjoint

(* The tables know the size of every pointer, except of an aligned one in   *)
(* the buffer.                                                              *)
LEMMA InvSizes == PInv => SizesKnown
  <1>. SUFFICES ASSUME PInv, NEW h \in Held, ~AlignedInBuffer(h)
                PROVE  malloc_usable_size(var[h].p) = var[h].size
    BY DEF SizesKnown
  <1>1. var[h].p \in Out /\ var[h].size = SizeAt(var[h].p)
    BY PointerFacts DEF Held
  <1>2. CASE is_bootstrap_ptr(var[h].p)
    <2>1. var[h].p \notin DOMAIN ah /\ var[h].p \in DOMAIN boot
      BY <1>1, <1>2, InBuffer DEF PInv, AlignedInBuffer
    <2>. QED
      BY <1>1, <1>2, <2>1 DEF malloc_usable_size, SizeAt, SizeOf
  <1>3. CASE ~is_bootstrap_ptr(var[h].p)
    BY <1>1, <1>3, InBlock DEF PInv, malloc_usable_size, is_aligned_ptr
  <1>. QED
    BY <1>2, <1>3

(* No aligned pointer is the start of a block. *)
LEMMA AlignedIsInside ==
    ASSUME LaidOut, NEW p \in DOMAIN ah
    PROVE  p \notin DOMAIN heap
  <1>. SUFFICES ASSUME p \in DOMAIN heap PROVE FALSE
    OBVIOUS
  <1>1. p \in Nat /\ p >= BOOTSTRAP_BUF_SIZE
    BY ShimAssumption DEF LaidOut, Layout, Tables, HeaderSize
  <1>. DEFINE b == BaseOf(ah, p)
  <1>2. b \in DOMAIN heap /\ b + HeaderSize <= p /\ p < b + heap[b]
    BY <1>1 DEF LaidOut, Layout, HeapLaid
  <1>3. b \in Nat /\ heap[b] \in Nat
    BY <1>2, ShimAssumption DEF LaidOut, Layout, Tables
  <1>. HIDE DEF b
  <1>4. b < p
    BY <1>1, <1>2, <1>3 DEF HeaderSize
  <1>5. b + heap[b] <= p
    BY <1>2, <1>4 DEF LaidOut, Layout, HeapLaid
  <1>. QED
    BY <1>1, <1>2, <1>3, <1>5

(* Every block is behind a pointer that is out, and that is held or about   *)
(* to be freed.                                                             *)
LEMMA InvOwned == PInv => BlocksOwned
  <1>. SUFFICES ASSUME PInv, ~aborted PROVE BlocksOwned
    BY DEF PInv
  <1>. DEFINE ofHandle(h) == IF is_aligned_ptr(var[h].p) THEN Base(var[h].p) ELSE var[h].p
              Holders == {g \in Held : ~is_bootstrap_ptr(var[g].p)}
              Movers == {u \in Threads : Inside(u, "free")}
  <1>1. Movers = Freeing
    BY DEF Inside, Freeing
  <1>2. ASSUME NEW h \in Holders PROVE ofHandle(h) \in DOMAIN heap
    BY <1>2, PointerFacts, InBlock DEF PInv, is_aligned_ptr, Held
  <1>3. ASSUME NEW t \in Freeing PROVE Base(pc[t].old) \in DOMAIN heap
    <2>1. pc[t].old \in DOMAIN ah /\ pc[t].old >= BOOTSTRAP_BUF_SIZE
      BY <1>3 DEF PInv, Owned, OldsRight
    <2>. QED
      BY <2>1 DEF PInv, LaidOut, Layout, HeapLaid, Base, BaseOf
  <1>4. ASSUME NEW b \in DOMAIN heap
        PROVE  (\E h \in Holders : b = ofHandle(h)) \/ (\E t \in Freeing : b = Base(pc[t].old))
    <2>1. b \in Nat /\ b >= BOOTSTRAP_BUF_SIZE
      BY ShimAssumption DEF PInv, LaidOut, Layout, Tables, HeaderSize
    <2>2. CASE \A p \in DOMAIN ah : BaseOf(ah, p) # b
      <3>1. b \in Out /\ b \notin DOMAIN ah
        BY <2>2, AlignedIsInside DEF PInv, Out, OutOf
      <3>2. PICK h \in Held : var[h].p = b
        BY <3>1 DEF PInv, Owned, NothingLost, OldsRight
      <3>3. h \in Holders /\ b = ofHandle(h)
        BY <2>1, <3>1, <3>2, ShimAssumption DEF is_bootstrap_ptr, is_aligned_ptr
      <3>. QED
        BY <3>3
    <2>3. CASE \E p \in DOMAIN ah : BaseOf(ah, p) = b
      <3>1. PICK p \in DOMAIN ah : BaseOf(ah, p) = b
        BY <2>3
      <3>2. p \in Nat /\ ~is_bootstrap_ptr(p) /\ p \in Out /\ Base(p) = b
        BY <2>1, <3>1, ShimAssumption
           DEF PInv, LaidOut, Layout, Tables, HeapLaid, Out, OutOf, is_bootstrap_ptr, HeaderSize, Base, BaseOf
      <3>3. is_aligned_ptr(p)
        BY <3>1, <3>2 DEF is_aligned_ptr
      <3>4. CASE \E h \in Held : var[h].p = p
        <4>1. PICK h \in Held : var[h].p = p
          BY <3>4
        <4>. QED
          BY <3>2, <3>3, <4>1
      <3>5. CASE \E t \in Freeing : pc[t].old = p
        BY <3>2, <3>5
      <3>. QED
        BY <3>2, <3>4, <3>5 DEF PInv, Owned, NothingLost
    <2>. QED
      BY <2>2, <2>3
  <1>5. DOMAIN heap = {ofHandle(h) : h \in Holders} \cup {Base(pc[t].old) : t \in Freeing}
    <2>. HIDE DEF ofHandle, Holders
    <2>. QED
      BY <1>2, <1>3, <1>4
  <1>. QED
    BY <1>1, <1>5 DEF BlocksOwned

-----------------------------------------------------------------------------
(* Who holds what, when a pointer is added, given up or replaced *)

(* What the step adds to the pointers that are out, or drops. *)
AddedNow(p, n) == Added(p, n, boot, ah, heap, boot', ah', heap')
DroppedNow(p) == Dropped(p, boot, ah, heap, boot', ah', heap')

(* The step touches no block that a realloc is about to free. *)
PendingSame == Freeing' = Freeing /\ \A t \in Freeing : pc'[t].old = pc[t].old

(* A handle that holds a pointer is not empty. *)
LEMMA NullIsNoPointer ==
    ASSUME NEW p \in Nat, NEW size \in Nat, NEW content \in Nat
    PROVE  [p |-> p, size |-> size, content |-> content] # NULL
  BY NullAssumption

(* A step that adds a pointer, or drops one, says this of Out. *)
LEMMA AddedFacts ==
    ASSUME NEW p, NEW n, AddedNow(p, n)
    PROVE  /\ Out' = Out \cup {p} /\ p \notin Out /\ SizeAt(p)' = n
           /\ \A q \in Out : /\ SizeOf(boot', ah', heap', q) = SizeAt(q)
                             /\ q \in DOMAIN ah <=> q \in DOMAIN ah'
  BY DEF AddedNow, Added, Kept, Out, SizeAt

(* And one that drops a pointer. *)
LEMMA DroppedFacts ==
    ASSUME NEW p, DroppedNow(p)
    PROVE  /\ Out' = Out \ {p}
           /\ \A q \in Out \ {p} : /\ SizeOf(boot', ah', heap', q) = SizeAt(q)
                                   /\ q \in DOMAIN ah <=> q \in DOMAIN ah'
  BY DEF DroppedNow, Dropped, Kept, Out, SizeAt

(* A pointer is handed to an empty handle. *)
LEMMA Acquire ==
    ASSUME Owned, NEW h \in Handles, var[h] = NULL, NEW p \in Nat, NEW n \in Nat,
           AddedNow(p, n), PendingSame,
           var' = [var EXCEPT ![h] = [p |-> p, size |-> n, content |-> n]]
    PROVE  Owned'
  <1>0. [p |-> p, size |-> n, content |-> n] # NULL
    BY NullIsNoPointer
  <1>1. /\ Held' = Held \cup {h} /\ h \notin Held
        /\ \A g \in Held : var'[g] = var[g]
        /\ var'[h] = [p |-> p, size |-> n, content |-> n]
        /\ var' = [g \in Handles |-> var'[g]]
    BY <1>0 DEF Held, Owned, HandlesRight
  <1>2. /\ Out' = Out \cup {p} /\ p \notin Out /\ SizeAt(p)' = n
        /\ \A q \in Out : /\ SizeOf(boot', ah', heap', q) = SizeAt(q)
                          /\ q \in DOMAIN ah <=> q \in DOMAIN ah'
    BY AddedFacts
  <1>3. DOMAIN ah \subseteq Out
    BY DEF Out, OutOf
  <1>4. HandlesRight'
    <2>1. ASSUME NEW g \in Held'
          PROVE  /\ var'[g] = [p |-> var'[g].p, size |-> var'[g].size,
                               content |-> var'[g].content]
                 /\ var'[g].p \in Out' /\ var'[g].size = SizeOf(boot', ah', heap', var'[g].p)
                 /\ var'[g].content \in Nat /\ var'[g].content <= var'[g].size
      BY <1>1, <1>2 DEF Owned, HandlesRight, SizeAt
    <2>. QED
      BY <1>1, <2>1 DEF HandlesRight, SizeAt
  <1>5. HandlesDistinct'
    <2>1. \A g \in Held : var[g].p \in Out
      BY Zenon DEF Owned, HandlesRight
    <2>2. \A g, k \in Held : g # k => var[g].p # var[k].p
      BY DEF Owned, HandlesDistinct
    <2>3. ASSUME NEW g \in Held', NEW k \in Held', g # k
          PROVE  var'[g].p # var'[k].p
      BY <1>1, <1>2, <2>1, <2>2, <2>3
    <2>. QED
      BY <2>3 DEF HandlesDistinct
  <1>6. OldsRight'
    <2>1. ASSUME NEW u \in Freeing'
          PROVE  /\ pc'[u].old \in DOMAIN ah' /\ pc'[u].old >= BOOTSTRAP_BUF_SIZE
                 /\ \A g \in Held' : var'[g].p # pc'[u].old
                 /\ \A w \in Freeing' : w # u => pc'[w].old # pc'[u].old
      <3>1. pc'[u].old \in DOMAIN ah' /\ pc'[u].old >= BOOTSTRAP_BUF_SIZE
        BY <1>1, <1>2, <1>3 DEF Owned, OldsRight, HandlesRight, PendingSame
      <3>2. \A g \in Held' : var'[g].p # pc'[u].old
        BY <1>1, <1>2, <1>3 DEF Owned, OldsRight, HandlesDistinct, PendingSame
      <3>3. \A w \in Freeing' : w # u => pc'[w].old # pc'[u].old
        BY <1>1, <1>2 DEF Owned, OldsRight, PendingSame
      <3>. QED
        BY <3>1, <3>2, <3>3
    <2>. QED
      BY <2>1 DEF OldsRight
  <1>7. NothingLost'
    <2>1. ASSUME NEW q \in Out'
          PROVE  (\E g \in Held' : var'[g].p = q) \/ (\E u \in Freeing' : pc'[u].old = q)
      BY <1>1, <1>2 DEF Owned, NothingLost, PendingSame
    <2>. QED
      BY <2>1 DEF NothingLost
  <1>. QED
    BY <1>4, <1>5, <1>6, <1>7 DEF Owned

(* A handle gives its pointer up. *)
LEMMA Release ==
    ASSUME Owned, NEW h \in Handles, var[h] # NULL, DroppedNow(var[h].p), PendingSame,
           var' = [var EXCEPT ![h] = NULL]
    PROVE  Owned'
  <1>1. /\ Held' = Held \ {h} /\ h \in Held
        /\ \A g \in Held \ {h} : var'[g] = var[g]
        /\ var' = [g \in Handles |-> var'[g]]
    BY DEF Held, Owned, HandlesRight
  <1>2. /\ Out' = Out \ {var[h].p}
        /\ \A q \in Out \ {var[h].p} : /\ SizeOf(boot', ah', heap', q) = SizeAt(q)
                                       /\ q \in DOMAIN ah <=> q \in DOMAIN ah'
    BY DroppedFacts
  <1>3. DOMAIN ah \subseteq Out
    BY DEF Out, OutOf
  <1>4. HandlesRight'
    <2>1. ASSUME NEW g \in Held'
          PROVE  /\ var'[g] = [p |-> var'[g].p, size |-> var'[g].size,
                               content |-> var'[g].content]
                 /\ var'[g].p \in Out' /\ var'[g].size = SizeOf(boot', ah', heap', var'[g].p)
                 /\ var'[g].content \in Nat /\ var'[g].content <= var'[g].size
      BY <1>1, <1>2 DEF Owned, HandlesRight, HandlesDistinct
    <2>. QED
      BY <1>1, <2>1 DEF HandlesRight, SizeAt
  <1>5. HandlesDistinct'
    BY <1>1, <1>2 DEF Owned, HandlesRight, HandlesDistinct
  <1>6. OldsRight'
    <2>1. ASSUME NEW u \in Freeing'
          PROVE  /\ pc'[u].old \in DOMAIN ah' /\ pc'[u].old >= BOOTSTRAP_BUF_SIZE
                 /\ \A g \in Held' : var'[g].p # pc'[u].old
                 /\ \A w \in Freeing' : w # u => pc'[w].old # pc'[u].old
      <3>1. pc'[u].old \in DOMAIN ah' /\ pc'[u].old >= BOOTSTRAP_BUF_SIZE
        BY <1>1, <1>2, <1>3 DEF Owned, OldsRight, HandlesRight, PendingSame
      <3>2. \A g \in Held' : var'[g].p # pc'[u].old
        BY <1>1, <1>2, <1>3 DEF Owned, OldsRight, HandlesDistinct, PendingSame
      <3>3. \A w \in Freeing' : w # u => pc'[w].old # pc'[u].old
        BY <1>1, <1>2 DEF Owned, OldsRight, PendingSame
      <3>. QED
        BY <3>1, <3>2, <3>3
    <2>. QED
      BY <2>1 DEF OldsRight
  <1>7. NothingLost'
    <2>1. ASSUME NEW q \in Out'
          PROVE  (\E g \in Held' : var'[g].p = q) \/ (\E u \in Freeing' : pc'[u].old = q)
      BY <1>1, <1>2 DEF Owned, NothingLost, PendingSame
    <2>. QED
      BY <2>1 DEF NothingLost
  <1>. QED
    BY <1>4, <1>5, <1>6, <1>7 DEF Owned

(* A handle's pointer is replaced by another: what the tables lost and then *)
(* gained, the handle lost and gained.                                      *)
LEMMA Replace ==
    ASSUME Owned, NEW h \in Handles, var[h] # NULL, NEW B, NEW A, NEW H,
           Dropped(var[h].p, boot, ah, heap, B, A, H),
           NEW p \in Nat, NEW n \in Nat, Added(p, n, B, A, H, boot', ah', heap'),
           NEW c \in Nat, c <= n, PendingSame,
           var' = [var EXCEPT ![h] = [p |-> p, size |-> n, content |-> c]]
    PROVE  Owned'
  <1>0. [p |-> p, size |-> n, content |-> c] # NULL
    BY NullIsNoPointer
  <1>1. /\ Held' = Held /\ h \in Held
        /\ \A g \in Held : g # h => var'[g] = var[g]
        /\ var'[h] = [p |-> p, size |-> n, content |-> c]
        /\ var' = [g \in Handles |-> var'[g]]
    BY <1>0 DEF Held, Owned, HandlesRight
  <1>2. /\ Out' = (Out \ {var[h].p}) \cup {p} /\ p \notin Out \ {var[h].p}
        /\ SizeAt(p)' = n
        /\ \A q \in Out \ {var[h].p} : /\ SizeOf(boot', ah', heap', q) = SizeAt(q)
                                       /\ q \in DOMAIN ah <=> q \in DOMAIN ah'
    BY DEF Added, Dropped, Kept, Out, SizeAt
  <1>3. DOMAIN ah \subseteq Out
    BY DEF Out, OutOf
  <1>4. HandlesRight'
    <2>1. ASSUME NEW g \in Held'
          PROVE  /\ var'[g] = [p |-> var'[g].p, size |-> var'[g].size,
                               content |-> var'[g].content]
                 /\ var'[g].p \in Out' /\ var'[g].size = SizeOf(boot', ah', heap', var'[g].p)
                 /\ var'[g].content \in Nat /\ var'[g].content <= var'[g].size
      BY <1>1, <1>2 DEF Owned, HandlesRight, HandlesDistinct, SizeAt
    <2>. QED
      BY <1>1, <2>1 DEF HandlesRight, SizeAt
  <1>5. HandlesDistinct'
    <2>1. \A g \in Held : var[g].p \in Out
      BY Zenon DEF Owned, HandlesRight
    <2>2. \A g, k \in Held : g # k => var[g].p # var[k].p
      BY DEF Owned, HandlesDistinct
    <2>3. ASSUME NEW g \in Held', NEW k \in Held', g # k
          PROVE  var'[g].p # var'[k].p
      BY <1>1, <1>2, <2>1, <2>2, <2>3
    <2>. QED
      BY <2>3 DEF HandlesDistinct
  <1>6. OldsRight'
    <2>1. ASSUME NEW u \in Freeing'
          PROVE  /\ pc'[u].old \in DOMAIN ah' /\ pc'[u].old >= BOOTSTRAP_BUF_SIZE
                 /\ \A g \in Held' : var'[g].p # pc'[u].old
                 /\ \A w \in Freeing' : w # u => pc'[w].old # pc'[u].old
      <3>1. pc'[u].old \in DOMAIN ah' /\ pc'[u].old >= BOOTSTRAP_BUF_SIZE
        BY <1>1, <1>2, <1>3 DEF Owned, OldsRight, HandlesRight, PendingSame
      <3>2. \A g \in Held' : var'[g].p # pc'[u].old
        BY <1>1, <1>2, <1>3 DEF Owned, OldsRight, HandlesDistinct, PendingSame
      <3>3. \A w \in Freeing' : w # u => pc'[w].old # pc'[u].old
        BY <1>1, <1>2 DEF Owned, OldsRight, PendingSame
      <3>. QED
        BY <3>1, <3>2, <3>3
    <2>. QED
      BY <2>1 DEF OldsRight
  <1>7. NothingLost'
    <2>1. ASSUME NEW q \in Out'
          PROVE  (\E g \in Held' : var'[g].p = q) \/ (\E u \in Freeing' : pc'[u].old = q)
      BY <1>1, <1>2 DEF Owned, NothingLost, PendingSame
    <2>. QED
      BY <2>1 DEF NothingLost
  <1>. QED
    BY <1>4, <1>5, <1>6, <1>7 DEF Owned

(* A handle gets a new pointer while its thread keeps the old one to free. *)
LEMMA Move ==
    ASSUME Owned, NEW h \in Handles, var[h] # NULL,
           var[h].p \in DOMAIN ah, var[h].p >= BOOTSTRAP_BUF_SIZE,
           NEW p \in Nat, NEW n \in Nat, AddedNow(p, n), NEW c \in Nat, c <= n,
           NEW t \in Threads \ Freeing, Freeing' = Freeing \cup {t},
           pc'[t].old = var[h].p, \A u \in Freeing : pc'[u].old = pc[u].old,
           var' = [var EXCEPT ![h] = [p |-> p, size |-> n, content |-> c]]
    PROVE  Owned'
  <1>0. [p |-> p, size |-> n, content |-> c] # NULL
    BY NullIsNoPointer
  <1>1. /\ Held' = Held /\ h \in Held
        /\ \A g \in Held : g # h => var'[g] = var[g]
        /\ var'[h] = [p |-> p, size |-> n, content |-> c]
        /\ var' = [g \in Handles |-> var'[g]]
    BY <1>0 DEF Held, Owned, HandlesRight
  <1>2. /\ Out' = Out \cup {p} /\ p \notin Out /\ SizeAt(p)' = n
        /\ \A q \in Out : /\ SizeOf(boot', ah', heap', q) = SizeAt(q)
                          /\ q \in DOMAIN ah <=> q \in DOMAIN ah'
    BY AddedFacts
  <1>3. DOMAIN ah \subseteq Out
    BY DEF Out, OutOf
  <1>4. HandlesRight'
    <2>1. ASSUME NEW g \in Held'
          PROVE  /\ var'[g] = [p |-> var'[g].p, size |-> var'[g].size,
                               content |-> var'[g].content]
                 /\ var'[g].p \in Out' /\ var'[g].size = SizeOf(boot', ah', heap', var'[g].p)
                 /\ var'[g].content \in Nat /\ var'[g].content <= var'[g].size
      BY <1>1, <1>2 DEF Owned, HandlesRight, SizeAt
    <2>. QED
      BY <1>1, <2>1 DEF HandlesRight, SizeAt
  <1>5. HandlesDistinct'
    <2>1. \A g \in Held : var[g].p \in Out
      BY Zenon DEF Owned, HandlesRight
    <2>2. \A g, k \in Held : g # k => var[g].p # var[k].p
      BY DEF Owned, HandlesDistinct
    <2>3. ASSUME NEW g \in Held', NEW k \in Held', g # k
          PROVE  var'[g].p # var'[k].p
      BY <1>1, <1>2, <2>1, <2>2, <2>3
    <2>. QED
      BY <2>3 DEF HandlesDistinct
  <1>6. OldsRight'
    <2>1. ASSUME NEW u \in Freeing'
          PROVE  /\ pc'[u].old \in DOMAIN ah' /\ pc'[u].old >= BOOTSTRAP_BUF_SIZE
                 /\ \A g \in Held' : var'[g].p # pc'[u].old
                 /\ \A w \in Freeing' : w # u => pc'[w].old # pc'[u].old
      <3>1. pc'[u].old \in DOMAIN ah' /\ pc'[u].old >= BOOTSTRAP_BUF_SIZE
        BY <1>1, <1>2, <1>3 DEF Owned, OldsRight, HandlesRight
      <3>2. \A g \in Held' : var'[g].p # pc'[u].old
        BY <1>1, <1>2, <1>3 DEF Owned, OldsRight, HandlesDistinct
      <3>3. \A w \in Freeing' : w # u => pc'[w].old # pc'[u].old
        BY <1>1, <1>2 DEF Owned, OldsRight
      <3>. QED
        BY <3>1, <3>2, <3>3
    <2>. QED
      BY <2>1 DEF OldsRight
  <1>7. NothingLost'
    <2>1. ASSUME NEW q \in Out'
          PROVE  (\E g \in Held' : var'[g].p = q) \/ (\E u \in Freeing' : pc'[u].old = q)
      BY <1>1, <1>2 DEF Owned, NothingLost
    <2>. QED
      BY <2>1 DEF NothingLost
  <1>. QED
    BY <1>4, <1>5, <1>6, <1>7 DEF Owned

(* A thread frees the old pointer it kept. *)
LEMMA Freed ==
    ASSUME Owned, NEW t \in Freeing, DroppedNow(pc[t].old), Freeing' = Freeing \ {t},
           \A u \in Freeing \ {t} : pc'[u].old = pc[u].old, var' = var
    PROVE  Owned'
  <1>1. /\ Held' = Held /\ \A g \in Held : var'[g] = var[g]
        /\ var' = [g \in Handles |-> var'[g]]
    BY DEF Held, Owned, HandlesRight
  <1>2. /\ Out' = Out \ {pc[t].old}
        /\ \A q \in Out \ {pc[t].old} : /\ SizeOf(boot', ah', heap', q) = SizeAt(q)
                                        /\ q \in DOMAIN ah <=> q \in DOMAIN ah'
    BY DroppedFacts
  <1>3. DOMAIN ah \subseteq Out
    BY DEF Out, OutOf
  <1>4. HandlesRight'
    <2>1. ASSUME NEW g \in Held'
          PROVE  /\ var'[g] = [p |-> var'[g].p, size |-> var'[g].size,
                               content |-> var'[g].content]
                 /\ var'[g].p \in Out' /\ var'[g].size = SizeOf(boot', ah', heap', var'[g].p)
                 /\ var'[g].content \in Nat /\ var'[g].content <= var'[g].size
      BY <1>1, <1>2 DEF Owned, HandlesRight, OldsRight
    <2>. QED
      BY <1>1, <2>1 DEF HandlesRight, SizeAt
  <1>5. HandlesDistinct'
    BY <1>1, <1>2 DEF Owned, HandlesRight, HandlesDistinct
  <1>6. OldsRight'
    <2>1. ASSUME NEW u \in Freeing'
          PROVE  /\ pc'[u].old \in DOMAIN ah' /\ pc'[u].old >= BOOTSTRAP_BUF_SIZE
                 /\ \A g \in Held' : var'[g].p # pc'[u].old
                 /\ \A w \in Freeing' : w # u => pc'[w].old # pc'[u].old
      <3>1. pc'[u].old \in DOMAIN ah' /\ pc'[u].old >= BOOTSTRAP_BUF_SIZE
        BY <1>1, <1>2, <1>3 DEF Owned, OldsRight, HandlesRight
      <3>2. \A g \in Held' : var'[g].p # pc'[u].old
        BY <1>1, <1>2, <1>3 DEF Owned, OldsRight, HandlesDistinct
      <3>3. \A w \in Freeing' : w # u => pc'[w].old # pc'[u].old
        BY <1>1, <1>2 DEF Owned, OldsRight
      <3>. QED
        BY <3>1, <3>2, <3>3
    <2>. QED
      BY <2>1 DEF OldsRight
  <1>7. NothingLost'
    <2>1. ASSUME NEW q \in Out'
          PROVE  (\E g \in Held' : var'[g].p = q) \/ (\E u \in Freeing' : pc'[u].old = q)
      BY <1>1, <1>2 DEF Owned, NothingLost
    <2>. QED
      BY <2>1 DEF NothingLost
  <1>. QED
    BY <1>4, <1>5, <1>6, <1>7 DEF Owned

(* A step that touches no pointer. *)
LEMMA NothingMoves ==
    ASSUME Owned, UNCHANGED <<boot, ah, heap, var>>, PendingSame
    PROVE  Owned'
  <1>1. Held' = Held /\ Out' = Out /\ \A p : SizeAt(p)' = SizeAt(p)
    BY DEF Held, Out, SizeAt
  <1>2. HandlesRight' /\ HandlesDistinct'
    BY <1>1 DEF Owned, HandlesRight, HandlesDistinct, SizeAt
  <1>3. OldsRight'
    BY <1>1 DEF Owned, OldsRight, PendingSame
  <1>4. NothingLost'
    BY <1>1 DEF Owned, NothingLost, PendingSame
  <1>. QED
    BY <1>2, <1>3, <1>4 DEF Owned

-----------------------------------------------------------------------------
(* Calls under way *)

(* The pointers of the other handles are of the kind they were. *)
KindsStay(h) ==
    \A g \in Held : g # h => (var[g].p \in DOMAIN ah <=> var[g].p \in DOMAIN ah')

(* A call whose handle is left alone stays right. *)
LEMMA CallStays ==
    ASSUME CallsRight, NEW t \in Threads, pc[t] # NULL, pc'[t] = pc[t],
           NEW h, pc[t].h # h, \A g \in Handles : g # h => var'[g] = var[g], KindsStay(h)
    PROVE  pc'[t].h \in Handles /\ CallRight(pc[t])'
  <1>. DEFINE g == pc[t].h
  <1>1. g \in Handles /\ var'[g] = var[g] /\ CallRight(pc[t])
    BY DEF CallsRight
  <1>2. var[g] # NULL => (var[g].p \in DOMAIN ah <=> var[g].p \in DOMAIN ah')
    BY <1>1 DEF KindsStay, Held
  <1>3. var[g] # NULL => (AlignedInBuffer(g) <=> AlignedInBuffer(g)')
    BY <1>1, <1>2 DEF AlignedInBuffer, is_bootstrap_ptr
  <1>. QED
    BY <1>1, <1>2, <1>3 DEF CallRight, is_bootstrap_ptr

(* No call begins or ends, and the handle that changes is in no call. *)
LEMMA CallsStay ==
    ASSUME CallsRight, pc' = pc, NEW h, ~Busy(h),
           \A g \in Handles : g # h => var'[g] = var[g], KindsStay(h)
    PROVE  CallsRight'
  <1>1. \A t \in Threads : pc[t] # NULL => pc[t].h # h
    BY DEF Busy
  <1>2. ASSUME NEW t \in Threads, pc'[t] # NULL
        PROVE  pc'[t].h \in Handles /\ CallRight(pc[t])'
    BY <1>1, <1>2, CallStays
  <1>. QED
    BY <1>2 DEF CallsRight

(* A call ends, or only its old block remains to be freed; its handle may   *)
(* have changed.                                                            *)
LEMMA CallEnds ==
    ASSUME CallsRight, NEW t \in Threads, pc[t] # NULL, NEW after,
           pc = [u \in Threads |-> pc[u]], pc' = [pc EXCEPT ![t] = after],
           after # NULL => after.op = "free" /\ after.h = pc[t].h,
           \A g \in Handles : g # pc[t].h => var'[g] = var[g], KindsStay(pc[t].h)
    PROVE  CallsRight'
  <1>1. /\ pc'[t] = after /\ \A u \in Threads : u # t => pc'[u] = pc[u]
    OBVIOUS
  <1>2. \A u \in Threads : u # t /\ pc[u] # NULL => pc[u].h # pc[t].h
    BY DEF CallsRight
  <1>3. ASSUME NEW u \in Threads, pc'[u] # NULL
        PROVE  pc'[u].h \in Handles /\ CallRight(pc[u])'
    <2>1. CASE u = t
      <3>1. pc'[u].op = "free" /\ pc'[u].h = pc[t].h
        BY <1>1, <1>3, <2>1
      <3>. QED
        BY <3>1, Zenon DEF CallsRight, CallRight
    <2>2. CASE u # t
      BY <1>1, <1>2, <1>3, <2>2, CallStays
    <2>. QED
      BY <2>1, <2>2
  <1>4. ASSUME NEW u \in Threads, NEW w \in Threads, u # w, pc'[u] # NULL, pc'[w] # NULL
        PROVE  pc'[u].h # pc'[w].h
    BY <1>1, <1>4 DEF CallsRight
  <1>. QED
    BY <1>3, <1>4 DEF CallsRight

(* A call begins for a handle that is in none. *)
LEMMA CallBegins ==
    ASSUME CallsRight, NEW t \in Threads, NEW c, NEW h \in Handles, ~Busy(h),
           pc = [u \in Threads |-> pc[u]], pc' = [pc EXCEPT ![t] = c],
           c.h = h, CallRight(c), UNCHANGED <<var, ah>>
    PROVE  CallsRight'
  <1>1. /\ pc'[t] = c /\ \A u \in Threads : u # t => pc'[u] = pc[u]
    OBVIOUS
  <1>2. \A u \in Threads : pc[u] # NULL => pc[u].h # h
    BY DEF Busy
  <1>3. CallRight(c)'
    BY DEF CallRight, AlignedInBuffer, is_bootstrap_ptr
  <1>4. KindsStay(h)
    BY DEF KindsStay
  <1>5. ASSUME NEW u \in Threads, pc'[u] # NULL
        PROVE  pc'[u].h \in Handles /\ CallRight(pc[u])'
    <2>1. CASE u = t
      BY <1>1, <1>3, <2>1
    <2>2. CASE u # t
      BY <1>1, <1>2, <1>4, <1>5, <2>2, CallStays
    <2>. QED
      BY <2>1, <2>2
  <1>6. ASSUME NEW u \in Threads, NEW w \in Threads, u # w, pc'[u] # NULL, pc'[w] # NULL
        PROVE  pc'[u].h # pc'[w].h
    BY <1>1, <1>2, <1>6 DEF CallsRight
  <1>. QED
    BY <1>5, <1>6 DEF CallsRight

(* The pointers of other handles keep their kind when one is added, dropped *)
(* or replaced.                                                             *)
LEMMA AddedKeepsKinds ==
    ASSUME Owned, NEW p, NEW n, AddedNow(p, n), NEW h
    PROVE  KindsStay(h)
  BY AddedFacts, Zenon DEF KindsStay, Owned, HandlesRight

(* Dropping a pointer does not change what kind the others are. *)
LEMMA DroppedKeepsKinds ==
    ASSUME Owned, NEW h \in Held, DroppedNow(var[h].p)
    PROVE  KindsStay(h)
  BY DroppedFacts, Zenon DEF KindsStay, Owned, HandlesRight, HandlesDistinct

(* Neither does replacing one. *)
LEMMA ReplacedKeepsKinds ==
    ASSUME Owned, NEW h \in Held, NEW B, NEW A, NEW H,
           Dropped(var[h].p, boot, ah, heap, B, A, H),
           NEW p, NEW n, Added(p, n, B, A, H, boot', ah', heap')
    PROVE  KindsStay(h)
  <1>1. \A q \in Out \ {var[h].p} : q \in DOMAIN ah <=> q \in DOMAIN ah'
    BY DEF Added, Dropped, Kept, Out
  <1>. QED
    BY <1>1, Zenon DEF KindsStay, Owned, HandlesRight, HandlesDistinct

(* What a thread in a call may be doing. *)
LEMMA PendingUnchanged ==
    ASSUME pc' = pc
    PROVE  PendingSame
  BY DEF PendingSame, Freeing

(* A thread that was not about to free an old block and is not now. *)
LEMMA PendingElsewhere ==
    ASSUME NEW t \in Threads, t \notin Freeing, NEW c, c # NULL => c.op # "free",
           pc = [u \in Threads |-> pc[u]], pc' = [pc EXCEPT ![t] = c]
    PROVE  PendingSame
  BY DEF PendingSame, Freeing
=============================================================================
