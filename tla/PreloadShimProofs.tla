------------------------- MODULE PreloadShimProofs --------------------------
(***************************************************************************)
(* Proofs about the shim for any number of threads and pointers, any sizes *)
(* and alignments, any buffer and any addresses the library may return.    *)
(***************************************************************************)
EXTENDS PreloadShimInvariant

-----------------------------------------------------------------------------
(* The threads' flags *)

(* A call that is made outside the library enters it flagged.  One that is  *)
(* made from inside never gets here: its thread logs, so its flag is set.   *)
LEMMA EnterLibraryKeepsTInv ==
    ASSUME TInv, NEW t \in Threads, Calling(t), ~in_allocator[t],
           NEW op \in {"malloc", "realloc"}, NEW h, NEW req, NEW copied,
           EnterLibrary(t, Call(op, h, req, copied))
    PROVE  TInv'
  <1>1. pc[t] = NULL
    BY DEF TInv, Flagged, IsCall, Calling
  <1>. DEFINE call == Call(op, h, req, copied)
  <1>2. Enter(t, call) /\ recursed' = recursed
    BY <1>1 DEF EnterLibrary
  <1>4. IsCall(call) /\ call.op # "free"
    BY DEF Call, IsCall
  <1>. HIDE DEF call
  <1>3. in_allocator' \in [Threads -> BOOLEAN]
    BY <1>2 DEF Enter, TInv
  <1>. QED
    BY <1>2, <1>3, <1>4 DEF Enter, TInv, Flagged, NoRecursion

(* Leaving the library, with or without an old block to free. *)
LEMMA LeaveKeepsTInv ==
    ASSUME TInv, NEW t \in Threads, recursed' = recursed,
           Leave(t) \/ \E old : LeaveMoved(t, old)
    PROVE  TInv'
  <1>1. in_allocator' = [in_allocator EXCEPT ![t] = FALSE]
    BY DEF Leave, LeaveMoved
  <1>2. in_allocator' \in [Threads -> BOOLEAN]
    BY <1>1 DEF TInv
  <1>3. PICK after : /\ pc' = [pc EXCEPT ![t] = after]
                     /\ after # NULL => after.op = "free" /\ ~after.log
    BY DEF Leave, LeaveMoved
  <1>. QED
    BY <1>1, <1>2, <1>3 DEF TInv, Flagged, IsCall, NoRecursion

(* The other steps leave every thread where it was. *)
LEMMA OthersKeepTInv ==
    ASSUME TInv, UNCHANGED <<in_allocator, pc, recursed>>
    PROVE  TInv'
  BY DEF TInv, Flagged, IsCall, NoRecursion

(* At the start no thread is in the library. *)
LEMMA InitTInv == Init => TInv
  <1>. SUFFICES ASSUME Init PROVE TInv
    OBVIOUS
  <1>1. in_allocator \in [Threads -> BOOLEAN]
    BY DEF Init
  <1>. QED
    BY <1>1 DEF Init, TInv, Flagged, NoRecursion

(* Every entry point and every step inside the library preserves the        *)
(* invariant (preload_shim.c:127-221).                                      *)
THEOREM NextKeepsTInv == TInv /\ [Next]_vars => TInv'
  <1>. SUFFICES ASSUME TInv, [Next]_vars PROVE TInv'
    OBVIOUS
  <1>1. CASE UNCHANGED vars
    BY <1>1, OthersKeepTInv DEF vars
  <1>2. ASSUME NEW t \in Threads, Malloc(t) PROVE TInv'
    <2>1. PICK h \in Handles, req \in AllocRequests :
             /\ Calling(t)
             /\ IF in_allocator[t] THEN UNCHANGED <<in_allocator, pc, recursed>>
                ELSE EnterLibrary(t, Call("malloc", h, req, 0))
      BY <1>2 DEF Malloc
    <2>. QED
      BY <2>1, OthersKeepTInv, EnterLibraryKeepsTInv
  <1>3. ASSUME NEW t \in Threads, Free(t) \/ ReallocZero(t) PROVE TInv'
    BY <1>3, OthersKeepTInv DEF Free, ReallocZero
  <1>4. ASSUME NEW t \in Threads, ReallocMove(t) PROVE TInv'
    <2>1. PICK h \in Handles, n \in ReallocSizes :
             /\ Calling(t)
             /\ IF in_allocator[t] THEN UNCHANGED <<in_allocator, pc, recursed>>
                ELSE EnterLibrary(t, Call("malloc", h, Plain(n), copy_size(var[h].p, n)))
      BY <1>4 DEF ReallocMove
    <2>. QED
      BY <2>1, OthersKeepTInv, EnterLibraryKeepsTInv
  <1>5. ASSUME NEW t \in Threads, Realloc(t) PROVE TInv'
    <2>1. PICK h \in Handles, n \in ReallocSizes :
             /\ Calling(t)
             /\ IF in_allocator[t] THEN UNCHANGED <<in_allocator, pc, recursed>>
                ELSE EnterLibrary(t, Call("realloc", h, Plain(n), n))
      BY <1>5 DEF Realloc, vars
    <2>. QED
      BY <2>1, OthersKeepTInv, EnterLibraryKeepsTInv
  <1>6. ASSUME NEW t \in Threads, MallocReturns(t) PROVE TInv'
    BY <1>6, LeaveKeepsTInv DEF MallocReturns
  <1>7. ASSUME NEW t \in Threads, ReallocReturns(t) \/ ReturnsNull(t) PROVE TInv'
    BY <1>7, LeaveKeepsTInv DEF ReallocReturns, ReturnsNull
  <1>8. ASSUME NEW t \in Threads, FreeOld(t) PROVE TInv'
    BY <1>8 DEF FreeOld, TInv, Flagged, IsCall, NoRecursion
  <1>9. ASSUME NEW t \in Threads, LibraryLogs(t) PROVE TInv'
    <2>1. /\ pc' = [pc EXCEPT ![t].log = TRUE]
          /\ UNCHANGED <<in_allocator, recursed>>
          /\ pc[t] # NULL /\ pc[t].op \in {"malloc", "realloc"}
      BY <1>9 DEF LibraryLogs, Inside
    <2>2. in_allocator[t] /\ IsCall(pc[t])
      BY <2>1 DEF TInv, Flagged
    <2>3. pc'[t] = [op |-> pc[t].op, h |-> pc[t].h, req |-> pc[t].req,
                    copied |-> pc[t].copied, log |-> TRUE]
      BY <2>1, <2>2, Zenon DEF IsCall, TInv
    <2>4. IsCall(pc'[t]) /\ in_allocator'[t]
      <3>1. pc'[t].op \in {"malloc", "realloc"}
        BY <2>1, <2>3
      <3>2. pc'[t] = [op |-> pc'[t].op, h |-> pc'[t].h, req |-> pc'[t].req,
                      copied |-> pc'[t].copied, log |-> pc'[t].log]
        BY <2>3
      <3>. QED
        BY <2>1, <2>2, <3>1, <3>2, Zenon DEF IsCall
    <2>5. \A u \in Threads : u # t => pc'[u] = pc[u] /\ in_allocator'[u] = in_allocator[u]
      BY <2>1 DEF TInv
    <2>6. Flagged'
      BY <2>4, <2>5 DEF TInv, Flagged, IsCall
    <2>. QED
      BY <2>1, <2>6, Zenon DEF TInv, NoRecursion
  <1>. QED
    BY <1>1, <1>2, <1>3, <1>4, <1>5, <1>6, <1>7, <1>8, <1>9 DEF Next

(* preload_shim.c:127-135 and 217-219: no thread enters my_malloc or        *)
(* my_realloc from within either, however many threads log refused system   *)
(* calls at once and whatever the log functions allocate, free or resize.   *)
THEOREM AllocationNeverReentered == Spec => []NoRecursion
  <1>1. TInv => NoRecursion
    BY DEF TInv
  <1>. QED
    BY InitTInv, NextKeepsTInv, <1>1, PTL DEF Spec

-----------------------------------------------------------------------------
(* Calls that return at once *)

(* free finds the block of every pointer that is out                        *)
(* (preload_shim.c:138-157), so that my_free never aborts.                  *)
LEMMA FreeIsRight ==
    ASSUME LaidOut, NEW p \in Out, ~aborted, free(p)
    PROVE  heap' = HeapWithout(ah, heap, p) /\ ~aborted'
  <1>1. CASE p < BOOTSTRAP_BUF_SIZE
    BY <1>1 DEF free, is_bootstrap_ptr, HeapWithout
  <1>2. CASE ~(p < BOOTSTRAP_BUF_SIZE) /\ p \in DOMAIN ah
    <2>1. p \in Nat /\ BOOTSTRAP_BUF_SIZE \in Nat
      BY ShimAssumption, OutIsNat DEF LaidOut, Out
    <2>2. Base(p) = BaseOf(ah, p) /\ Base(p) \in DOMAIN heap
      BY <1>2, <2>1 DEF LaidOut, Layout, HeapLaid, Base, BaseOf
    <2>3. my_free(Base(p))
      BY <1>2, <2>2 DEF free, is_bootstrap_ptr, is_aligned_ptr
    <2>. QED
      BY <1>2, <2>2, <2>3, Zenon DEF my_free, HeapWithout
  <1>3. CASE ~(p < BOOTSTRAP_BUF_SIZE) /\ p \notin DOMAIN ah
    <2>1. p \in DOMAIN heap
      BY <1>3, ShimAssumption DEF LaidOut, Layout, Tables, BufferLaid, Out, OutOf
    <2>2. my_free(p)
      BY <1>3 DEF free, is_bootstrap_ptr, is_aligned_ptr
    <2>. QED
      BY <1>3, <2>1, <2>2, Zenon DEF my_free, HeapWithout
  <1>. QED
    BY <1>1, <1>2, <1>3

(* A chunk has room for its header and the bytes asked for. *)
LEMMA ChunkBounds ==
    ASSUME NEW req, Total(req) \in Nat, bootstrap_offset \in Nat
    PROVE  /\ Chunk(req) \in Nat /\ BootHeader + Total(req) <= Chunk(req)
           /\ bootstrap_offset + Chunk(req) \in Nat
  <1>1. ALIGNMENT \in Nat \ {0}
    BY DEF ALIGNMENT
  <1>2. /\ RoundUp(Total(req), ALIGNMENT) \in Nat
        /\ Total(req) <= RoundUp(Total(req), ALIGNMENT)
    BY <1>1, RoundUpBounds
  <1>. QED
    BY <1>2 DEF Chunk, BootHeader

(* A request that does not fit costs at most what is left of the buffer. *)
LEMMA NoRoom ==
    ASSUME PInv, NEW req, ProperRequest(req), NEW h, NEW copied,
           bootstrap_alloc(h, req, copied), ~Fits(req), heap' = heap
    PROVE  LaidOut'
  <1>1. bootstrap_offset \in Nat /\ Total(req) \in Nat
    BY ProperTotal DEF PInv, LaidOut, Layout, Tables
  <1>2. bootstrap_offset' \in Nat /\ bootstrap_offset <= bootstrap_offset'
    BY <1>1, ChunkBounds DEF bootstrap_alloc, Reserve
  <1>3. UNCHANGED <<boot, ah>>
    BY DEF bootstrap_alloc
  <1>. QED
    BY <1>2, <1>3, SkipChunk DEF PInv, LaidOut

(* malloc inside the library: a chunk of the buffer. *)
LEMMA MallocInBuffer ==
    ASSUME PInv, NEW h \in Handles, NEW req, ProperRequest(req), Total(req) # 0,
           ~Busy(h), var[h] = NULL, bootstrap_alloc(h, req, 0),
           UNCHANGED <<heap, pc, aborted>>
    PROVE  PInv'
  <1>. USE DEF PInv
  <1>0. PendingSame
    BY PendingUnchanged
  <1>1. CASE ~Fits(req)
    <2>1. UNCHANGED <<boot, ah, var>>
      BY <1>1 DEF bootstrap_alloc
    <2>2. Owned'
      BY <1>0, <2>1, NothingMoves
    <2>3. CallsRight'
      BY <2>1, CallsStay DEF KindsStay
    <2>. QED
      BY <1>1, <2>2, <2>3, NoRoom
  <1>2. CASE Fits(req)
    <2>. DEFINE o2 == bootstrap_offset + Chunk(req)
    <2>1. bootstrap_offset \in Nat /\ Total(req) \in Nat
      BY ProperTotal DEF LaidOut, Layout, Tables
    <2>2. /\ o2 \in Nat /\ bootstrap_offset + BootHeader + Total(req) <= o2
          /\ o2 <= BOOTSTRAP_BUF_SIZE /\ bootstrap_offset' = o2
          /\ ChunkBase = bootstrap_offset + BootHeader /\ ChunkBase \in Nat
      BY <1>2, <2>1, ChunkBounds, ShimAssumption
         DEF Fits, bootstrap_alloc, Reserve, ChunkBase, BootHeader
    <2>. HIDE DEF o2
    <2>3. GivenUp(boot, h) = boot /\ GivenUp(ah, h) = ah
      BY DEF GivenUp
    <2>4. CASE req.kind = "plain"
      <3>1. req.n \in Nat \ {0} /\ req.req = req.n /\ Total(req) = req.n
        BY <2>4, PlainFacts
      <3>2. /\ boot' = Put(boot, bootstrap_offset + BootHeader, req.n) /\ ah' = ah
            /\ var' = [var EXCEPT ![h] = [p |-> ChunkBase, size |-> req.n, content |-> req.n]]
        BY <1>2, <2>2, <2>3, <2>4, <3>1
           DEF bootstrap_alloc, AlignedHeader, Holding, Place
      <3>3. LaidOut' /\ AddedNow(ChunkBase, req.n)
        BY <2>1, <2>2, <3>1, <3>2, AddChunk DEF LaidOut, AddedNow
      <3>4. Owned'
        BY <1>0, <2>2, <3>1, <3>2, <3>3, Acquire, Zenon
      <3>5. CallsRight'
        BY <3>2, <3>3, AddedKeepsKinds, CallsStay DEF Owned, HandlesRight
      <3>. QED
        BY <3>3, <3>4, <3>5
    <2>5. CASE req.kind # "plain"
      <3>. DEFINE p == Place(req, ChunkBase)
      <3>1. /\ p \in Nat /\ req.req \in Nat
            /\ ChunkBase + HeaderSize <= p /\ p < ChunkBase + Total(req)
            /\ p + req.req <= ChunkBase + Total(req)
        BY <2>2, <2>5, PlaceBounds
      <3>2. /\ boot' = boot
            /\ ah' = Put(ah, p, [offset |-> p - (ChunkBase - HeaderSize),
                                 requested_size |-> req.req])
            /\ var' = [var EXCEPT ![h] = [p |-> p, size |-> req.req, content |-> req.req]]
        BY <1>2, <2>2, <2>3, <2>5
           DEF bootstrap_alloc, AlignedHeader, Holding
      <3>. HIDE DEF p
      <3>3. PICK offset \in Nat : offset = p - (ChunkBase - HeaderSize)
        BY <2>2, <3>1 DEF HeaderSize
      <3>4. /\ bootstrap_offset + BootHeader + HeaderSize <= p
            /\ offset = p - (bootstrap_offset + BootHeader - HeaderSize)
            /\ p < o2 /\ p + req.req <= o2
        BY <2>1, <2>2, <3>1, <3>3 DEF HeaderSize, BootHeader
      <3>5. LaidOut' /\ AddedNow(p, req.req)
        BY <2>2, <3>1, <3>2, <3>3, <3>4, AddAlignedChunk DEF LaidOut, AddedNow
      <3>6. Owned'
        BY <1>0, <3>1, <3>2, <3>5, Acquire, Zenon
      <3>7. CallsRight'
        BY <3>2, <3>5, AddedKeepsKinds, CallsStay DEF Owned, HandlesRight
      <3>. QED
        BY <3>5, <3>6, <3>7
    <2>. QED
      BY <2>4, <2>5
  <1>. QED
    BY <1>1, <1>2

(* free, and realloc to nothing of a pointer the library does not know. *)
LEMMA FreeKeeps ==
    ASSUME PInv, NEW h \in Handles, ~Busy(h), var[h] # NULL,
           free(var[h].p), Forget(var[h].p), var' = [var EXCEPT ![h] = NULL],
           UNCHANGED <<bootstrap_offset, pc>>
    PROVE  PInv'
  <1>. USE DEF PInv
  <1>1. h \in Held /\ var[h].p \in Out
    BY PointerFacts
  <1>2. heap' = HeapWithout(ah, heap, var[h].p) /\ ~aborted'
    BY <1>1, FreeIsRight
  <1>3. boot' = Without(boot, var[h].p) /\ ah' = Without(ah, var[h].p)
    BY DEF Forget
  <1>4. LaidOut' /\ DroppedNow(var[h].p)
    BY <1>1, <1>2, <1>3, GiveUp DEF LaidOut, DroppedNow, Out
  <1>5. Owned'
    BY <1>4, PendingUnchanged, Release, Zenon
  <1>6. CallsRight'
    BY <1>1, <1>4, DroppedKeepsKinds, CallsStay DEF Owned, HandlesRight
  <1>. QED
    BY <1>2, <1>4, <1>5, <1>6

(* What realloc copies is what fits of what was there, unless it does not   *)
(* find out how much that is.                                               *)
LEMMA CopyRight ==
    ASSUME PInv, NEW h \in Handles, var[h] # NULL, NEW n \in Nat,
           is_bootstrap_ptr(var[h].p) \/ is_aligned_ptr(var[h].p)
    PROVE  /\ copy_size(var[h].p, n) \in Nat /\ copy_size(var[h].p, n) <= n
           /\ ~AlignedInBuffer(h) => copy_size(var[h].p, n) = Min({var[h].size, n})
           /\ is_bootstrap_ptr(var[h].p) \/ var[h].p \in DOMAIN ah
  <1>. DEFINE p == var[h].p
  <1>1. p \in Out /\ p \in Nat /\ var[h].size = SizeAt(p) /\ var[h].size \in Nat
    BY PointerFacts
  <1>2. Layout(bootstrap_offset, boot, ah, heap)
    BY DEF PInv, LaidOut
  <1>3. CASE is_bootstrap_ptr(p)
    <2>1. CASE p \in DOMAIN boot
      <3>1. p \notin DOMAIN ah
        BY <1>2, <2>1 DEF Layout, BufferLaid
      <3>2. SizeAt(p) = boot[p] /\ copy_size(p, n) = Min({boot[p], n})
        BY <1>3, <2>1, <3>1 DEF SizeAt, SizeOf, copy_size
      <3>. QED
        BY <1>1, <1>3, <3>2, MinOfTwo
    <2>2. CASE p \notin DOMAIN boot
      <3>1. copy_size(p, n) = 0
        BY <1>3, <2>2 DEF copy_size
      <3>2. p \notin DOMAIN heap
        BY <1>1, <1>2, <1>3, ShimAssumption
           DEF Layout, Tables, is_bootstrap_ptr, HeaderSize
      <3>3. AlignedInBuffer(h)
        BY <1>1, <1>3, <2>2, <3>2 DEF AlignedInBuffer, Out, OutOf
      <3>. QED
        BY <1>3, <3>1, <3>3
    <2>. QED
      BY <2>1, <2>2
  <1>4. CASE ~is_bootstrap_ptr(p)
    <2>1. p \in DOMAIN ah
      BY <1>4 DEF is_aligned_ptr
    <2>2. SizeAt(p) = ah[p].requested_size /\ copy_size(p, n) = Min({ah[p].requested_size, n})
      BY <1>4, <2>1 DEF SizeAt, SizeOf, copy_size
    <2>. QED
      BY <1>1, <2>1, <2>2, MinOfTwo
  <1>. QED
    BY <1>3, <1>4

(* realloc inside the library of a pointer that has to move. *)
LEMMA MoveInBuffer ==
    ASSUME PInv, NEW h \in Handles, ~Busy(h), var[h] # NULL, NEW n \in Nat \ {0},
           NEW copied \in Nat, copied <= n, bootstrap_alloc(h, Plain(n), copied),
           IF Fits(Plain(n)) THEN free(var[h].p) ELSE UNCHANGED <<heap, aborted>>,
           pc' = pc
    PROVE  PInv'
  <1>. USE DEF PInv
  <1>. DEFINE req == Plain(n)
  <1>0. /\ ProperRequest(req) /\ req.kind = "plain" /\ req.n = n /\ Total(req) = n
        /\ PendingSame
    BY PlainProper, PendingUnchanged DEF Plain, Total
  <1>. HIDE DEF req
  <1>1. CASE ~Fits(req)
    <2>1. UNCHANGED <<boot, ah, var, heap, aborted>>
      BY <1>1 DEF bootstrap_alloc, req
    <2>2. Owned'
      BY <1>0, <2>1, NothingMoves
    <2>3. CallsRight'
      BY <2>1, CallsStay DEF KindsStay
    <2>. QED
      BY <1>0, <1>1, <2>1, <2>2, <2>3, NoRoom DEF req
  <1>2. CASE Fits(req)
    <2>1. /\ bootstrap_offset \in Nat /\ h \in Held
          /\ var[h].p \in Out /\ var[h].content \in Nat
      BY PointerFacts DEF LaidOut, Layout, Tables
    <2>. DEFINE o2 == bootstrap_offset + Chunk(req)
                B == Without(boot, var[h].p)
                A == Without(ah, var[h].p)
                c == Min({var[h].content, copied})
    <2>2. /\ o2 \in Nat /\ bootstrap_offset + BootHeader + n <= o2
          /\ o2 <= BOOTSTRAP_BUF_SIZE /\ bootstrap_offset' = o2
          /\ ChunkBase = bootstrap_offset + BootHeader /\ ChunkBase \in Nat
      BY <1>0, <1>2, <2>1, ChunkBounds, ShimAssumption
         DEF Fits, bootstrap_alloc, Reserve, ChunkBase, BootHeader, req
    <2>3. heap' = HeapWithout(ah, heap, var[h].p) /\ ~aborted'
      BY <1>2, <2>1, FreeIsRight DEF req
    <2>4. /\ boot' = Put(B, bootstrap_offset + BootHeader, n) /\ ah' = A
          /\ var' = [var EXCEPT ![h] = [p |-> ChunkBase, size |-> n, content |-> c]]
      BY <1>0, <1>2, <2>2, Zenon
         DEF bootstrap_alloc, AlignedHeader, GivenUp, Holding, req
    <2>. HIDE DEF o2
    <2>5. /\ Layout(bootstrap_offset, B, A, heap')
          /\ Dropped(var[h].p, boot, ah, heap, B, A, heap')
      BY <2>1, <2>3, GiveUp, Zenon DEF LaidOut, Out
    <2>. HIDE DEF A, B
    <2>6. /\ Layout(o2, boot', ah', heap')
          /\ Added(ChunkBase, n, B, A, heap', boot', ah', heap')
      BY <2>1, <2>2, <2>4, <2>5, AddChunk
    <2>7. c \in Nat /\ c <= n
      <3>1. c \in Nat /\ c <= copied
        BY <2>1, MinBounds
      <3>. HIDE DEF c
      <3>. QED
        BY <3>1
    <2>. HIDE DEF c
    <2>9. Owned'
      BY <1>0, <2>2, <2>4, <2>5, <2>6, <2>7, Replace, Zenon
    <2>10. CallsRight'
      BY <2>1, <2>4, <2>5, <2>6, ReplacedKeepsKinds, CallsStay DEF Owned, HandlesRight
    <2>. QED
      BY <2>2, <2>3, <2>6, <2>9, <2>10 DEF LaidOut
  <1>. QED
    BY <1>1, <1>2

-----------------------------------------------------------------------------
(* Calls of the library *)

(* A call enters the library, and nothing else happens yet. *)
LEMMA EnteringKeeps ==
    ASSUME TInv, PInv, NEW t \in Threads, Calling(t), ~in_allocator[t],
           NEW op \in {"malloc", "realloc"}, NEW h \in Handles, ~Busy(h),
           NEW req, NEW copied, CallRight(Call(op, h, req, copied)),
           EnterLibrary(t, Call(op, h, req, copied)),
           UNCHANGED <<shimVars, heap, var, aborted>>
    PROVE  PInv'
  <1>. DEFINE c == Call(op, h, req, copied)
  <1>1. pc[t] = NULL /\ pc = [u \in Threads |-> pc[u]]
    BY DEF TInv, Flagged, IsCall, Calling
  <1>2. pc' = [pc EXCEPT ![t] = c] /\ UNCHANGED <<bootstrap_offset, boot, ah, heap, var, aborted>>
    BY <1>1 DEF EnterLibrary, Enter, shimVars
  <1>3. c.h = h /\ c.op = op
    BY DEF Call
  <1>. HIDE DEF c
  <1>4. PendingSame
    BY <1>1, <1>2, <1>3, PendingElsewhere DEF Freeing
  <1>5. Owned'
    BY <1>2, <1>4, NothingMoves DEF PInv
  <1>6. CallRight(c)
    BY DEF c
  <1>7. CallsRight'
    BY <1>1, <1>2, <1>3, <1>6, CallBegins DEF PInv
  <1>. QED
    BY <1>2, <1>5, <1>7 DEF PInv, LaidOut

(* malloc, calloc and the aligned entry points. *)
LEMMA MallocKeeps ==
    ASSUME TInv, PInv, NEW t \in Threads, Malloc(t)
    PROVE  PInv'
  <1>1. PICK h \in Handles, req \in AllocRequests :
           /\ Calling(t) /\ ~Busy(h) /\ var[h] = NULL
           /\ in_allocator[t] => Total(req) # 0
           /\ IF in_allocator[t]
              THEN /\ bootstrap_alloc(h, req, 0)
                   /\ UNCHANGED <<heap, in_allocator, pc, recursed, aborted>>
              ELSE /\ EnterLibrary(t, Call("malloc", h, req, 0))
                   /\ UNCHANGED <<shimVars, heap, var, aborted>>
    BY DEF Malloc
  <1>2. ProperRequest(req)
    BY RequestsProper
  <1>3. CASE in_allocator[t]
    BY <1>1, <1>2, <1>3, MallocInBuffer
  <1>4. CASE ~in_allocator[t]
    <2>1. CallRight(Call("malloc", h, req, 0))
      BY <1>1, <1>2 DEF CallRight, Call
    <2>. QED
      BY <1>1, <1>4, <2>1, EnteringKeeps
  <1>. QED
    BY <1>3, <1>4

(* realloc of a pointer the library cannot resize. *)
LEMMA ReallocMoveKeeps ==
    ASSUME TInv, PInv, NEW t \in Threads, ReallocMove(t)
    PROVE  PInv'
  <1>1. PICK h \in Handles, n \in ReallocSizes \ {0} :
           /\ Calling(t) /\ ~Busy(h) /\ var[h] # NULL
           /\ is_bootstrap_ptr(var[h].p) \/ is_aligned_ptr(var[h].p)
           /\ IF in_allocator[t]
              THEN /\ bootstrap_alloc(h, Plain(n), copy_size(var[h].p, n))
                   /\ IF Fits(Plain(n)) THEN free(var[h].p)
                      ELSE UNCHANGED <<heap, aborted>>
                   /\ UNCHANGED <<in_allocator, pc, recursed>>
              ELSE /\ EnterLibrary(t, Call("malloc", h, Plain(n), copy_size(var[h].p, n)))
                   /\ UNCHANGED <<shimVars, heap, var, aborted>>
    BY DEF ReallocMove
  <1>. DEFINE copied == copy_size(var[h].p, n)
  <1>2. n \in Nat \ {0}
    BY ReallocSizesAreNat
  <1>3. /\ copied \in Nat /\ copied <= n
        /\ ~AlignedInBuffer(h) => copied = Min({var[h].size, n})
        /\ is_bootstrap_ptr(var[h].p) \/ var[h].p \in DOMAIN ah
    BY <1>1, <1>2, CopyRight
  <1>. HIDE DEF copied
  <1>4. CASE in_allocator[t]
    BY <1>1, <1>2, <1>3, <1>4, MoveInBuffer DEF copied
  <1>5. CASE ~in_allocator[t]
    <2>1. CallRight(Call("malloc", h, Plain(n), copied))
      BY <1>1, <1>2, <1>3, Zenon DEF CallRight, Call, Plain
    <2>. QED
      BY <1>1, <1>5, <2>1, EnteringKeeps DEF copied
  <1>. QED
    BY <1>4, <1>5

(* realloc of a block of the library. *)
LEMMA ReallocKeeps ==
    ASSUME TInv, PInv, NEW t \in Threads, Realloc(t), ~UNCHANGED vars
    PROVE  PInv'
  <1>1. PICK h \in Handles, n \in ReallocSizes :
           /\ Calling(t) /\ ~Busy(h) /\ var[h] # NULL
           /\ ~is_bootstrap_ptr(var[h].p) /\ ~is_aligned_ptr(var[h].p)
           /\ ~in_allocator[t] /\ EnterLibrary(t, Call("realloc", h, Plain(n), n))
           /\ UNCHANGED <<shimVars, heap, var, aborted>>
    BY DEF Realloc
  <1>2. n \in Nat
    BY ReallocSizesAreNat
  <1>3. var[h].p \notin DOMAIN ah
    BY <1>1, AlignedRecognised, Zenon DEF PInv
  <1>4. CallRight(Call("realloc", h, Plain(n), n))
    BY <1>1, <1>2, <1>3, Zenon DEF CallRight, Call, Plain
  <1>. QED
    BY <1>1, <1>4, EnteringKeeps

(* The library's promise about a new block. *)
LEMMA BlockPromise ==
    ASSUME NEW b \in FreeBases, NEW n, Lib!Place(b, n)
    PROVE  /\ b \in HeapBases \ DOMAIN heap /\ b \in Nat /\ n \in Nat \ {0}
           /\ \A c \in DOMAIN heap : b + n <= c \/ c + heap[c] <= b
           /\ heap' = Put(heap, b, n)
  BY ShimAssumption DEF FreeBases, Lib!Place, Lib!Apart, Put

(* my_malloc returns a block for an empty handle. *)
LEMMA NewBlockKeeps ==
    ASSUME PInv, NEW t \in Threads, pc = [u \in Threads |-> pc[u]], pc[t] # NULL,
           t \notin Freeing, NEW h \in Handles, pc[t].h = h, var[h] = NULL,
           NEW req, ProperRequest(req), NEW b \in FreeBases, Lib!Place(b, Total(req)),
           NEW copied, var' = [var EXCEPT ![h] = Holding(h, req, b, copied)],
           boot' = boot, ah' = AlignedHeader(ah, req, b),
           pc' = [pc EXCEPT ![t] = NULL], UNCHANGED <<bootstrap_offset, aborted>>
    PROVE  PInv'
  <1>. USE DEF PInv
  <1>0. PendingSame
    BY PendingElsewhere
  <1>1. /\ b \in HeapBases \ DOMAIN heap /\ b \in Nat /\ Total(req) \in Nat \ {0}
        /\ \A c \in DOMAIN heap : b + Total(req) <= c \/ c + heap[c] <= b
        /\ heap' = Put(heap, b, Total(req))
    BY BlockPromise
  <1>2. PICK p \in Nat, n \in Nat :
           /\ LaidOut' /\ AddedNow(p, n)
           /\ Holding(h, req, b, copied) = [p |-> p, size |-> n, content |-> n]
    <2>1. CASE req.kind = "plain"
      <3>1. req.n \in Nat /\ req.req = req.n /\ Total(req) = req.n
        BY <2>1, PlainFacts
      <3>2. ah' = ah /\ Holding(h, req, b, copied) = [p |-> b, size |-> req.n, content |-> req.n]
        BY <2>1, <3>1 DEF AlignedHeader, Holding, Place
      <3>3. LaidOut' /\ AddedNow(b, req.n)
        BY <1>1, <3>1, <3>2, AddBlock DEF LaidOut, AddedNow
      <3>. QED
        BY <1>1, <3>1, <3>2, <3>3
    <2>2. CASE req.kind # "plain"
      <3>. DEFINE p == Place(req, b)
      <3>1. /\ p \in Nat /\ req.req \in Nat
            /\ b + HeaderSize <= p /\ p < b + Total(req) /\ p + req.req <= b + Total(req)
        BY <1>1, <2>2, PlaceBounds
      <3>2. /\ ah' = Put(ah, p, [offset |-> p - (b - HeaderSize), requested_size |-> req.req])
            /\ Holding(h, req, b, copied)
                  = [p |-> p, size |-> req.req, content |-> req.req]
        BY <2>2 DEF AlignedHeader, Holding
      <3>. HIDE DEF p
      <3>3. PICK offset \in Nat : offset = p - (b - HeaderSize)
        BY <1>1, <3>1 DEF HeaderSize
      <3>4. LaidOut' /\ AddedNow(p, req.req)
        BY <1>1, <3>1, <3>2, <3>3, AddAlignedBlock DEF LaidOut, AddedNow
      <3>. QED
        BY <3>1, <3>2, <3>4
    <2>. QED
      BY <2>1, <2>2
  <1>3. var' = [var EXCEPT ![h] = [p |-> p, size |-> n, content |-> n]]
    BY <1>2
  <1>4. Owned'
    BY <1>0, <1>2, <1>3, Acquire, Zenon
  <1>5. CallsRight'
    <2>1. \A g \in Handles : g # h => var'[g] = var[g]
      BY <1>3 DEF Owned, HandlesRight
    <2>2. KindsStay(h)
      BY <1>2, AddedKeepsKinds
    <2>. QED
      BY <2>1, <2>2, CallEnds
  <1>. QED
    BY <1>2, <1>4, <1>5

(* my_malloc returns the new place of a pointer into the buffer. *)
LEMMA FromBufferKeeps ==
    ASSUME PInv, NEW t \in Threads, pc = [u \in Threads |-> pc[u]], pc[t] # NULL,
           t \notin Freeing, NEW h \in Handles, pc[t].h = h, var[h] # NULL,
           is_bootstrap_ptr(var[h].p), NEW n \in Nat, NEW c \in Nat, c <= n,
           NEW b \in FreeBases, Lib!Place(b, n),
           var' = [var EXCEPT ![h] = [p |-> b, size |-> n, content |-> c]],
           boot' = Without(boot, var[h].p), ah' = Without(ah, var[h].p),
           pc' = [pc EXCEPT ![t] = NULL], UNCHANGED <<bootstrap_offset, aborted>>
    PROVE  PInv'
  <1>. USE DEF PInv
  <1>0. PendingSame
    BY PendingElsewhere
  <1>1. /\ b \in HeapBases \ DOMAIN heap /\ b \in Nat /\ n \in Nat \ {0}
        /\ \A d \in DOMAIN heap : b + n <= d \/ d + heap[d] <= b
        /\ heap' = Put(heap, b, n)
    BY BlockPromise
  <1>2. h \in Held /\ var[h].p \in Out /\ HeapWithout(ah, heap, var[h].p) = heap
    BY PointerFacts DEF HeapWithout, is_bootstrap_ptr
  <1>3. /\ Layout(bootstrap_offset, boot', ah', heap)
        /\ Dropped(var[h].p, boot, ah, heap, boot', ah', heap)
    BY <1>2, GiveUp DEF LaidOut, Out
  <1>4. /\ Layout(bootstrap_offset, boot', ah', heap')
        /\ Added(b, n, boot', ah', heap, boot', ah', heap')
    BY <1>1, <1>3, AddBlock
  <1>5. Owned'
    BY <1>0, <1>1, <1>3, <1>4, Replace, Zenon
  <1>6. CallsRight'
    <2>1. \A g \in Handles : g # h => var'[g] = var[g]
      BY DEF Owned, HandlesRight
    <2>2. KindsStay(h)
      BY <1>2, <1>3, <1>4, ReplacedKeepsKinds
    <2>. QED
      BY <2>1, <2>2, CallEnds
  <1>. QED
    BY <1>4, <1>5, <1>6 DEF LaidOut

(* It returns the new place of an aligned pointer, whose block is next. *)
LEMMA FromAlignedKeeps ==
    ASSUME PInv, NEW t \in Threads, pc = [u \in Threads |-> pc[u]], pc[t] # NULL,
           t \notin Freeing, NEW h \in Handles, pc[t].h = h, var[h] # NULL,
           ~is_bootstrap_ptr(var[h].p), var[h].p \in DOMAIN ah,
           NEW n \in Nat, NEW c \in Nat, c <= n, NEW b \in FreeBases, Lib!Place(b, n),
           var' = [var EXCEPT ![h] = [p |-> b, size |-> n, content |-> c]],
           boot' = Without(boot, var[h].p), ah' = ah,
           pc' = [pc EXCEPT ![t] = [op |-> "free", h |-> h, old |-> var[h].p, log |-> FALSE]],
           UNCHANGED <<bootstrap_offset, aborted>>
    PROVE  PInv'
  <1>. USE DEF PInv
  <1>1. /\ b \in HeapBases \ DOMAIN heap /\ b \in Nat /\ n \in Nat \ {0}
        /\ \A d \in DOMAIN heap : b + n <= d \/ d + heap[d] <= b
        /\ heap' = Put(heap, b, n)
    BY BlockPromise
  <1>2. var[h].p \in Nat /\ h \in Held
    BY PointerFacts
  <1>3. var[h].p >= BOOTSTRAP_BUF_SIZE
    BY <1>2, ShimAssumption DEF is_bootstrap_ptr
  <1>4. boot' = boot
    <2>1. var[h].p \notin DOMAIN boot /\ boot = [y \in DOMAIN boot |-> boot[y]]
      BY DEF LaidOut, Layout, Tables, BufferLaid
    <2>. QED
      BY <2>1, WithoutAbsent
  <1>5. LaidOut' /\ AddedNow(b, n)
    BY <1>1, <1>4, AddBlock DEF LaidOut, AddedNow
  <1>. DEFINE call == [op |-> "free", h |-> h, old |-> var[h].p, log |-> FALSE]
  <1>6. call \in [op : {"free"}, h : Handles, old : Nat, log : {FALSE}]
    BY <1>2
  <1>7. call # NULL /\ call.op = "free" /\ call.h = h /\ call.old = var[h].p
    BY <1>6, NullAssumption, Zenon
  <1>. HIDE DEF call
  <1>8. /\ pc'[t] = call /\ \A u \in Threads : u # t => pc'[u] = pc[u]
    BY DEF call
  <1>9. Freeing' = Freeing \cup {t} /\ \A u \in Freeing : pc'[u].old = pc[u].old
    BY <1>7, <1>8, Zenon DEF Freeing
  <1>10. Owned'
    BY <1>1, <1>3, <1>5, <1>7, <1>8, <1>9, Move, Zenon
  <1>11. CallsRight'
    <2>1. \A g \in Handles : g # h => var'[g] = var[g]
      BY DEF Owned, HandlesRight
    <2>2. KindsStay(h)
      BY <1>5, AddedKeepsKinds
    <2>3. pc' = [pc EXCEPT ![t] = call]
      BY DEF call
    <2>. QED
      BY <1>7, <2>1, <2>2, <2>3, CallEnds
  <1>. QED
    BY <1>5, <1>10, <1>11

(* my_malloc returns a block. *)
LEMMA MallocReturnsKeeps ==
    ASSUME TInv, PInv, NEW t \in Threads, MallocReturns(t)
    PROVE  PInv'
  <1>. DEFINE c == pc[t]
              h == c.h
              old == var[h]
  <1>1. /\ pc = [u \in Threads |-> pc[u]] /\ c # NULL /\ c.op = "malloc" /\ t \notin Freeing
        /\ h \in Handles /\ CallRight(c)
    BY DEF TInv, PInv, CallsRight, MallocReturns, Inside, Freeing
  <1>2. PICK b \in FreeBases :
           /\ Lib!Place(b, Total(c.req)) /\ boot' = GivenUp(boot, h)
           /\ ah' = AlignedHeader(IF old # NULL /\ ~is_bootstrap_ptr(old.p) THEN ah
                                  ELSE GivenUp(ah, h), c.req, b)
           /\ var' = [var EXCEPT ![h] = Holding(h, c.req, b, c.copied)]
    BY Zenon DEF MallocReturns
  <1>3. /\ LeaveMoved(t, old) /\ UNCHANGED <<bootstrap_offset, aborted>>
    BY DEF MallocReturns
  <1>. HIDE DEF c
  <1>4. CASE old = NULL
    <2>1. ProperRequest(c.req)
      BY <1>1, <1>4 DEF CallRight
    <2>2. boot' = boot /\ ah' = AlignedHeader(ah, c.req, b) /\ pc' = [pc EXCEPT ![t] = NULL]
      BY <1>2, <1>3, <1>4 DEF GivenUp, LeaveMoved
    <2>. QED
      BY <1>1, <1>2, <1>3, <1>4, <2>1, <2>2, NewBlockKeeps, Zenon DEF c
  <1>5. CASE old # NULL
    <2>. DEFINE n == c.req.n
                d == Min({old.content, c.copied})
    <2>1. /\ c.req = Plain(n) /\ n \in Nat /\ c.copied \in Nat /\ c.copied <= n
          /\ is_bootstrap_ptr(old.p) \/ old.p \in DOMAIN ah
      BY <1>1, <1>5 DEF CallRight
    <2>2. old.content \in Nat
      BY <1>1, <1>5, PointerFacts
    <2>3. d \in Nat /\ d <= c.copied
      BY <2>1, <2>2, MinBounds
    <2>4. /\ Total(c.req) = n /\ Holding(h, c.req, b, c.copied) = [p |-> b, size |-> n, content |-> d]
          /\ \A headers : AlignedHeader(headers, c.req, b) = headers
      BY <1>5, <2>1 DEF Plain, Total, Holding, AlignedHeader
    <2>. HIDE DEF n, d
    <2>5. /\ d \in Nat /\ d <= n
      BY <2>1, <2>3
    <2>6. /\ boot' = Without(boot, old.p) /\ Lib!Place(b, n)
          /\ var' = [var EXCEPT ![h] = [p |-> b, size |-> n, content |-> d]]
      BY <1>2, <1>5, <2>4, Zenon DEF GivenUp
    <2>7. CASE is_bootstrap_ptr(old.p)
      <3>1. ah' = Without(ah, old.p)
        BY <1>2, <1>5, <2>4, <2>7 DEF GivenUp
      <3>2. pc' = [pc EXCEPT ![t] = NULL]
        BY <1>3, <2>7 DEF LeaveMoved
      <3>. QED
        BY <1>1, <1>3, <1>5, <2>1, <2>5, <2>6, <2>7, <3>1, <3>2, FromBufferKeeps, Zenon DEF c
    <2>8. CASE ~is_bootstrap_ptr(old.p)
      <3>1. ah' = ah
        BY <1>2, <1>5, <2>4, <2>8
      <3>2. pc' = [pc EXCEPT ![t] = [op |-> "free", h |-> h, old |-> old.p, log |-> FALSE]]
        BY <1>3, <1>5, <2>8, Zenon DEF LeaveMoved, c
      <3>. QED
        BY <1>1, <1>3, <1>5, <2>1, <2>5, <2>6, <2>8, <3>1, <3>2, FromAlignedKeeps, Zenon DEF c
    <2>. QED
      BY <2>7, <2>8, Zenon
  <1>. QED
    BY <1>4, <1>5

(* The block an aligned pointer was moved from is freed. *)
LEMMA FreeOldKeeps ==
    ASSUME TInv, PInv, NEW t \in Threads, FreeOld(t)
    PROVE  PInv'
  <1>. USE DEF PInv
  <1>. DEFINE p == pc[t].old
  <1>1. /\ pc = [u \in Threads |-> pc[u]] /\ pc[t] # NULL /\ t \in Freeing
        /\ free(p) /\ Forget(p) /\ pc' = [pc EXCEPT ![t] = NULL]
        /\ UNCHANGED <<bootstrap_offset, var>>
    BY DEF TInv, FreeOld, Inside, Freeing
  <1>2. p \in Out
    BY <1>1 DEF Owned, OldsRight, Out, OutOf
  <1>3. heap' = HeapWithout(ah, heap, p) /\ ~aborted'
    BY <1>1, <1>2, FreeIsRight
  <1>4. boot' = Without(boot, p) /\ ah' = Without(ah, p)
    BY <1>1 DEF Forget
  <1>5. LaidOut' /\ DroppedNow(p)
    BY <1>1, <1>2, <1>3, <1>4, GiveUp DEF LaidOut, DroppedNow, Out
  <1>6. Freeing' = Freeing \ {t} /\ \A u \in Freeing \ {t} : pc'[u].old = pc[u].old
    BY <1>1 DEF Freeing
  <1>7. Owned'
    BY <1>1, <1>5, <1>6, Freed
  <1>8. KindsStay(pc[t].h)
    <2>1. \A g \in Held : var[g].p \in Out \ {p}
      BY <1>1, Zenon DEF Owned, HandlesRight, OldsRight
    <2>. QED
      BY <1>5, <2>1, DroppedFacts DEF KindsStay
  <1>9. CallsRight'
    BY <1>1, <1>8, CallEnds
  <1>. QED
    BY <1>3, <1>5, <1>7, <1>9

(* my_realloc returns. *)
LEMMA ReallocReturnsKeeps ==
    ASSUME TInv, PInv, NEW t \in Threads, ReallocReturns(t)
    PROVE  PInv'
  <1>. USE DEF PInv
  <1>. DEFINE c == pc[t]
              h == c.h
              p == var[h].p
  <1>1. /\ pc = [u \in Threads |-> pc[u]] /\ c # NULL /\ c.op = "realloc" /\ t \notin Freeing
        /\ h \in Handles /\ CallRight(c)
    BY DEF TInv, CallsRight, ReallocReturns, Inside, Freeing
  <1>2. /\ var[h] # NULL /\ c.req = Plain(c.req.n) /\ c.req.n \in Nat
        /\ c.copied = c.req.n /\ ~is_bootstrap_ptr(p) /\ p \notin DOMAIN ah
    BY <1>1 DEF CallRight
  <1>3. h \in Held /\ p \in Out /\ p \in Nat /\ var[h].content \in Nat
    BY <1>1, <1>2, PointerFacts
  <1>4. p \notin DOMAIN boot
    BY <1>2, <1>3, ShimAssumption DEF LaidOut, Layout, Tables, BufferLaid, is_bootstrap_ptr
  <1>5. p \in DOMAIN heap
    BY <1>2, <1>3, <1>4, Zenon DEF Out, OutOf
  <1>6. /\ pc' = [pc EXCEPT ![t] = NULL] /\ UNCHANGED <<bootstrap_offset, boot, ah>>
    BY Zenon DEF ReallocReturns, Leave, shimVars
  <1>7. PendingSame
    BY <1>1, <1>6, PendingElsewhere
  <1>8. CASE c.req.n = 0
    <2>1. my_free(p) /\ var' = [var EXCEPT ![h] = NULL]
      BY <1>5, <1>8, Zenon DEF ReallocReturns
    <2>2. heap' = Without(heap, p) /\ ~aborted'
      BY <1>5, <2>1, Zenon DEF my_free
    <2>3. LaidOut' /\ DroppedNow(p)
      BY <1>2, <1>3, <1>4, <1>6, <2>2, DropBlock, Zenon DEF LaidOut, DroppedNow, Out
    <2>4. Owned'
      BY <1>1, <1>2, <1>7, <2>1, <2>3, Release, Zenon
    <2>5. CallsRight'
      <3>1. \A g \in Handles : g # h => var'[g] = var[g]
        BY <2>1 DEF Owned, HandlesRight
      <3>2. KindsStay(h)
        BY <1>3, <2>3, DroppedKeepsKinds
      <3>. QED
        BY <1>1, <1>6, <3>1, <3>2, CallEnds
    <2>. QED
      BY <2>2, <2>3, <2>4, <2>5
  <1>9. CASE c.req.n # 0
    <2>. DEFINE n == c.req.n
                d == Min({var[h].content, n})
    <2>1. PICK b \in FreeBases \cup {p} :
             /\ Lib!Apart(b, n) /\ heap' = Put(Without(heap, p), b, n)
             /\ var' = [var EXCEPT ![h] = Holding(h, c.req, b, c.copied)]
             /\ UNCHANGED aborted
      BY <1>5, <1>9, Zenon DEF ReallocReturns
    <2>2. Holding(h, c.req, b, c.copied) = [p |-> b, size |-> n, content |-> d]
      BY <1>2 DEF Holding
    <2>3. d \in Nat /\ d <= n /\ n \in Nat \ {0}
      BY <1>2, <1>3, <1>9, MinBounds
    <2>4. /\ DOMAIN Without(heap, p) = DOMAIN heap \ {p}
          /\ \A e \in DOMAIN heap \ {p} : Without(heap, p)[e] = heap[e]
      BY DEF Without
    <2>5. /\ b \in HeapBases \ DOMAIN Without(heap, p) /\ b \in Nat
          /\ \A e \in DOMAIN Without(heap, p) : b + n <= e \/ e + Without(heap, p)[e] <= b
      BY <1>5, <2>1, <2>4, ShimAssumption
         DEF FreeBases, Lib!Apart, LaidOut, Layout, Tables
    <2>. HIDE DEF n, d
    <2>6. /\ Layout(bootstrap_offset, boot, ah, Without(heap, p))
          /\ Dropped(p, boot, ah, heap, boot, ah, Without(heap, p))
      BY <1>2, <1>3, <1>4, DropBlock, Zenon DEF LaidOut, Out
    <2>7. /\ Layout(bootstrap_offset, boot, ah, heap')
          /\ Added(b, n, boot, ah, Without(heap, p), boot, ah, heap')
      BY <2>1, <2>3, <2>5, <2>6, AddBlock
    <2>8. var' = [var EXCEPT ![h] = [p |-> b, size |-> n, content |-> d]]
      BY <2>1, <2>2, Zenon
    <2>9. Added(b, n, boot, ah, Without(heap, p), boot', ah', heap')
      BY <1>6, <2>7, Zenon
    <2>10. Owned'
      BY <1>1, <1>2, <1>7, <2>3, <2>5, <2>6, <2>8, <2>9, Replace, Zenon
    <2>11. CallsRight'
      <3>1. \A g \in Handles : g # h => var'[g] = var[g]
        BY <2>8 DEF Owned, HandlesRight
      <3>2. KindsStay(h)
        BY <1>3, <2>6, <2>9, ReplacedKeepsKinds, Zenon
      <3>. QED
        BY <1>1, <1>6, <3>1, <3>2, CallEnds
    <2>. QED
      BY <1>6, <2>1, <2>7, <2>10, <2>11 DEF LaidOut
  <1>. QED
    BY <1>8, <1>9

(* The library logs a refused call: nothing but the log flag of the call    *)
(* changes.                                                                 *)
LEMMA LibraryLogsKeeps ==
    ASSUME TInv, PInv, NEW t \in Threads, LibraryLogs(t)
    PROVE  PInv'
  <1>. DEFINE c == pc[t]
  <1>1. /\ pc = [u \in Threads |-> pc[u]] /\ c # NULL /\ c.op \in {"malloc", "realloc"}
        /\ pc' = [pc EXCEPT ![t].log = TRUE]
        /\ UNCHANGED <<bootstrap_offset, boot, ah, heap, var, aborted>>
    BY DEF LibraryLogs, Inside, TInv, shimVars
  <1>2. c = [op |-> c.op, h |-> c.h, req |-> c.req, copied |-> c.copied, log |-> c.log]
    BY <1>1 DEF TInv, Flagged, IsCall
  <1>3. /\ pc'[t] = [op |-> c.op, h |-> c.h, req |-> c.req, copied |-> c.copied, log |-> TRUE]
        /\ \A u \in Threads : u # t => pc'[u] = pc[u]
    BY <1>1, <1>2, Zenon
  <1>4. PendingSame
    <2>1. pc' = [pc EXCEPT ![t] = pc'[t]] /\ pc'[t].op # "free"
      BY <1>1, <1>3
    <2>. QED
      BY <1>1, <2>1, PendingElsewhere, Zenon DEF Freeing
  <1>5. Owned'
    BY <1>1, <1>4, NothingMoves DEF PInv
  <1>6. ASSUME NEW u \in Threads, pc'[u] # NULL
        PROVE  pc[u] # NULL /\ pc'[u].h = pc[u].h /\ pc'[u].h \in Handles /\ CallRight(pc[u])'
    <2>1. /\ pc[u] # NULL /\ pc'[u].h = pc[u].h /\ pc'[u].op = pc[u].op
          /\ pc[u].op \in {"malloc", "realloc"} =>
                pc'[u].req = pc[u].req /\ pc'[u].copied = pc[u].copied
      BY <1>1, <1>3, <1>6, Zenon
    <2>2. pc[u].h \in Handles /\ CallRight(pc[u])
      BY <2>1 DEF PInv, CallsRight
    <2>3. AlignedInBuffer(pc[u].h)' <=> AlignedInBuffer(pc[u].h)
      BY <1>1, <2>1 DEF AlignedInBuffer, is_bootstrap_ptr
    <2>. QED
      BY <1>1, <2>1, <2>2, <2>3 DEF CallRight, is_bootstrap_ptr
  <1>7. CallsRight'
    BY <1>6 DEF PInv, CallsRight
  <1>. QED
    BY <1>1, <1>5, <1>7 DEF PInv, LaidOut

(* my_malloc or my_realloc returns NULL: the thread leaves, and no pointer  *)
(* moves.                                                                   *)
LEMMA ReturnsNullKeeps ==
    ASSUME TInv, PInv, NEW t \in Threads, ReturnsNull(t)
    PROVE  PInv'
  <1>1. /\ pc = [u \in Threads |-> pc[u]] /\ pc[t] # NULL /\ t \notin Freeing
        /\ pc' = [pc EXCEPT ![t] = NULL]
        /\ UNCHANGED <<bootstrap_offset, boot, ah, heap, var, aborted>>
    BY DEF ReturnsNull, Inside, Leave, TInv, Freeing, shimVars
  <1>2. Owned'
    BY <1>1, PendingElsewhere, NothingMoves DEF PInv
  <1>3. KindsStay(pc[t].h)
    BY <1>1 DEF KindsStay
  <1>4. CallsRight'
    BY <1>1, <1>3, CallEnds DEF PInv
  <1>. QED
    BY <1>1, <1>2, <1>4 DEF PInv, LaidOut

-----------------------------------------------------------------------------
(* The invariant holds, and what follows *)

(* Nothing happens. *)
LEMMA StutterKeeps ==
    ASSUME PInv, UNCHANGED vars
    PROVE  PInv'
  <1>1. UNCHANGED <<bootstrap_offset, boot, ah, heap, pc, var, aborted>>
    BY DEF vars, shimVars
  <1>2. Owned'
    BY <1>1, PendingUnchanged, NothingMoves DEF PInv
  <1>3. CallsRight'
    BY <1>1, Zenon DEF PInv, CallsRight, CallRight, AlignedInBuffer, is_bootstrap_ptr
  <1>. QED
    BY <1>1, <1>2, <1>3 DEF PInv, LaidOut

(* At the start nothing is out. *)
LEMMA InitPInv == Init => PInv
  <1>. SUFFICES ASSUME Init PROVE PInv
    OBVIOUS
  <1>1. /\ bootstrap_offset = 0 /\ ~aborted
        /\ boot = [x \in {} |-> NULL] /\ ah = [x \in {} |-> NULL] /\ heap = [x \in {} |-> NULL]
        /\ DOMAIN boot = {} /\ DOMAIN ah = {} /\ DOMAIN heap = {}
        /\ Held = {} /\ Freeing = {} /\ var = [h \in Handles |-> var[h]]
        /\ \A t \in Threads : pc[t] = NULL
    BY DEF Init, NoEntries, Held, Freeing
  <1>2. LaidOut
    BY <1>1 DEF LaidOut, Layout, Tables, BufferLaid, HeapLaid, BufferOf
  <1>3. Out = {}
    BY <1>1 DEF Out, OutOf
  <1>4. Owned
    BY <1>1, <1>3 DEF Owned, HandlesRight, HandlesDistinct, OldsRight, NothingLost
  <1>5. CallsRight
    BY <1>1 DEF CallsRight
  <1>. QED
    BY <1>1, <1>2, <1>4, <1>5 DEF PInv

(* Every entry point and every step inside the library preserves the layout *)
(* and the ownership of pointers (preload_shim.c:41-308).                   *)
THEOREM NextKeepsPInv == TInv /\ PInv /\ [Next]_vars => PInv'
  <1>. SUFFICES ASSUME TInv, PInv, [Next]_vars PROVE PInv'
    OBVIOUS
  <1>1. CASE UNCHANGED vars
    BY <1>1, StutterKeeps
  <1>2. ASSUME NEW t \in Threads, Malloc(t) PROVE PInv'
    BY <1>2, MallocKeeps
  <1>3. ASSUME NEW t \in Threads, Free(t) \/ ReallocZero(t) PROVE PInv'
    <2>1. PICK h \in Handles :
             /\ ~Busy(h) /\ var[h] # NULL /\ free(var[h].p) /\ Forget(var[h].p)
             /\ var' = [var EXCEPT ![h] = NULL] /\ UNCHANGED <<bootstrap_offset, pc>>
      BY <1>3 DEF Free, ReallocZero
    <2>. QED
      BY <2>1, FreeKeeps, Zenon
  <1>4. ASSUME NEW t \in Threads, ReallocMove(t) PROVE PInv'
    BY <1>4, ReallocMoveKeeps
  <1>5. ASSUME NEW t \in Threads, Realloc(t) PROVE PInv'
    BY <1>5, ReallocKeeps, StutterKeeps
  <1>6. ASSUME NEW t \in Threads, MallocReturns(t) PROVE PInv'
    BY <1>6, MallocReturnsKeeps
  <1>7. ASSUME NEW t \in Threads, FreeOld(t) PROVE PInv'
    BY <1>7, FreeOldKeeps
  <1>8. ASSUME NEW t \in Threads, ReallocReturns(t) PROVE PInv'
    BY <1>8, ReallocReturnsKeeps
  <1>9. ASSUME NEW t \in Threads, LibraryLogs(t) PROVE PInv'
    BY <1>9, LibraryLogsKeeps
  <1>10. ASSUME NEW t \in Threads, ReturnsNull(t) PROVE PInv'
    BY <1>10, ReturnsNullKeeps
  <1>. QED
    BY <1>1, <1>2, <1>3, <1>4, <1>5, <1>6, <1>7, <1>8, <1>9, <1>10 DEF Next

(* preload_shim.c:41-308: the inductive invariant holds in every reachable  *)
(* state: tables and pointers lie apart, each pointer that is out is held   *)
(* or about to be freed, and each call under way has what it needs to       *)
(* complete.                                                                *)
THEOREM InvariantHolds == Spec => []IInv
  BY InitTInv, InitPInv, NextKeepsTInv, NextKeepsPInv, PTL DEF Spec, IInv

(* preload_shim.c:48-57 and 97-124: for any number of threads and pointers, *)
(* any sizes and alignments and any buffer, pointers never share a byte     *)
(* with one another, with a header of the shim or with anything outside the *)
(* buffer or the block they were placed in.                                 *)
THEOREM RegionsNeverOverlap == Spec => []RegionsDisjoint
  BY InvariantHolds, InvDisjoint, PTL DEF IInv

(* preload_shim.c:137-157 and 178-221: the library is only ever given the   *)
(* base of a live block, so that neither my_free nor my_realloc aborts.     *)
THEOREM LibraryNeverRejects == Spec => []NeverRejected
  <1>1. PInv => NeverRejected
    BY DEF PInv, NeverRejected
  <1>. QED
    BY InvariantHolds, <1>1, PTL DEF IInv

(* preload_shim.c:204-211: every block of the library belongs to a handle   *)
(* or to a realloc that is about to free it.                                *)
THEOREM NoBlockLost == Spec => []BlocksOwned
  BY InvariantHolds, InvOwned, PTL DEF IInv

(* preload_shim.c:270-294: malloc_usable_size finds the size the program    *)
(* was given, aligned pointers into the buffer excepted.                    *)
THEOREM SizesAlwaysKnown == Spec => []SizesKnown
  BY InvariantHolds, InvSizes, PTL DEF IInv

-----------------------------------------------------------------------------
(* What a step may do to the data *)

(* What one step may do to the data of one handle. *)
Keeps(h) ==
    var[h] # NULL /\ var'[h] # NULL /\ ~AlignedInBuffer(h)
        => var'[h].content >= Min({var[h].content, var'[h].size})

(* A handle that keeps its pointer keeps its data. *)
LEMMA SameKept ==
    ASSUME PInv, NEW h \in Handles, var'[h] = var[h]
    PROVE  Keeps(h)
  <1>. SUFFICES ASSUME var[h] # NULL PROVE var[h].content >= Min({var[h].content, var[h].size})
    BY DEF Keeps
  <1>1. var[h].content \in Nat /\ var[h].size \in Nat
    BY PointerFacts
  <1>. QED
    BY <1>1, MinBounds

(* So does one whose data is copied as far as it was there and fits. *)
LEMMA CopyKept ==
    ASSUME PInv, NEW h \in Handles, var[h] # NULL, NEW n \in Nat, NEW copied,
           ~AlignedInBuffer(h) => copied = n \/ copied = Min({var[h].size, n}),
           NEW req, req.n = n, NEW b, var'[h] = Holding(h, req, b, copied)
    PROVE  Keeps(h)
  <1>. SUFFICES ASSUME ~AlignedInBuffer(h)
                PROVE  var'[h].content >= Min({var[h].content, var'[h].size})
    BY DEF Keeps
  <1>1. /\ var[h].content \in Nat /\ var[h].size \in Nat /\ var[h].content <= var[h].size
    BY PointerFacts
  <1>2. var'[h].content = Min({var[h].content, copied}) /\ var'[h].size = n
    BY DEF Holding
  <1>3. /\ Min({var[h].size, n}) = (IF var[h].size <= n THEN var[h].size ELSE n)
        /\ Min({var[h].content, n}) = (IF var[h].content <= n THEN var[h].content ELSE n)
    BY <1>1, MinOfTwo
  <1>4. copied \in Nat /\ (copied = n \/ copied = Min({var[h].size, n}))
    BY <1>1, <1>3
  <1>5. Min({var[h].content, copied}) = (IF var[h].content <= copied THEN var[h].content ELSE copied)
    BY <1>1, <1>4, MinOfTwo
  <1>. DEFINE old == var[h].content
              size == var[h].size
              kept == Min({old, copied})
              fits == Min({old, n})
  <1>6. old \in Nat /\ size \in Nat /\ old <= size /\ copied \in Nat
    BY <1>1, <1>4
  <1>7. /\ copied = n \/ copied = (IF size <= n THEN size ELSE n)
        /\ kept = (IF old <= copied THEN old ELSE copied)
        /\ fits = (IF old <= n THEN old ELSE n)
    BY <1>3, <1>4, <1>5
  <1>. HIDE DEF old, size, kept, fits
  <1>8. kept >= fits
    BY <1>6, <1>7
  <1>. QED
    BY <1>2, <1>8 DEF old, kept, fits

(* A step that moves one handle. *)
LEMMA OneMoves ==
    ASSUME PInv, NEW h \in Handles, NEW v, var' = [var EXCEPT ![h] = v],
           var[h] = NULL \/ v = NULL \/ Keeps(h)
    PROVE  \A g \in Handles : Keeps(g)
  <1>1. var'[h] = v /\ \A g \in Handles : g # h => var'[g] = var[g]
    BY DEF PInv, Owned, HandlesRight
  <1>2. Keeps(h)
    BY <1>1 DEF Keeps
  <1>3. ASSUME NEW g \in Handles, g # h PROVE Keeps(g)
    BY <1>1, <1>3, SameKept
  <1>. QED
    BY <1>2, <1>3

(* A step that moves none. *)
LEMMA NoneMoves ==
    ASSUME PInv, var' = var
    PROVE  \A g \in Handles : Keeps(g)
  BY SameKept

(* A call that is served from the buffer. *)
LEMMA BufferKeepsData ==
    ASSUME PInv, NEW h \in Handles, NEW req, NEW copied, bootstrap_alloc(h, req, copied),
           \/ var[h] = NULL
           \/ /\ var[h] # NULL /\ req.n \in Nat
              /\ ~AlignedInBuffer(h) => copied = Min({var[h].size, req.n})
    PROVE  \A g \in Handles : Keeps(g)
  <1>1. CASE var' = var
    BY <1>1, NoneMoves
  <1>2. CASE var' = [var EXCEPT ![h] = Holding(h, req, ChunkBase, copied)]
    <2>1. var'[h] = Holding(h, req, ChunkBase, copied)
      BY <1>2 DEF PInv, Owned, HandlesRight
    <2>2. var[h] = NULL \/ Keeps(h)
      BY <2>1, CopyKept, Zenon
    <2>. QED
      BY <1>2, <2>2, OneMoves, Zenon
  <1>. QED
    BY <1>1, <1>2 DEF bootstrap_alloc

(* Every entry point and every step inside the library. *)
LEMMA StepKeepsData ==
    ASSUME TInv, PInv, Next
    PROVE  \A g \in Handles : Keeps(g)
  <1>0. CASE var' = var
    BY <1>0, NoneMoves
  <1>1. ASSUME NEW t \in Threads, Malloc(t), var' # var PROVE \A g \in Handles : Keeps(g)
    <2>1. PICK h \in Handles, req \in AllocRequests : var[h] = NULL /\ bootstrap_alloc(h, req, 0)
      BY <1>1 DEF Malloc
    <2>. QED
      BY <2>1, BufferKeepsData, Zenon
  <1>2. ASSUME NEW t \in Threads, Free(t) \/ ReallocZero(t) PROVE \A g \in Handles : Keeps(g)
    <2>1. PICK h \in Handles : var' = [var EXCEPT ![h] = NULL]
      BY <1>2 DEF Free, ReallocZero
    <2>. QED
      BY <2>1, OneMoves, Zenon
  <1>3. ASSUME NEW t \in Threads, ReallocMove(t), var' # var PROVE \A g \in Handles : Keeps(g)
    <2>1. PICK h \in Handles, n \in ReallocSizes :
             /\ var[h] # NULL
             /\ is_bootstrap_ptr(var[h].p) \/ is_aligned_ptr(var[h].p)
             /\ bootstrap_alloc(h, Plain(n), copy_size(var[h].p, n))
      BY <1>3 DEF ReallocMove
    <2>2. n \in Nat /\ Plain(n).n = n
      BY ReallocSizesAreNat DEF Plain
    <2>3. ~AlignedInBuffer(h) => copy_size(var[h].p, n) = Min({var[h].size, n})
      BY <2>1, <2>2, CopyRight, Zenon
    <2>. QED
      BY <2>1, <2>2, <2>3, BufferKeepsData
  <1>4. ASSUME NEW t \in Threads, MallocReturns(t) PROVE \A g \in Handles : Keeps(g)
    <2>. DEFINE c == pc[t]
    <2>1. c.h \in Handles /\ CallRight(c) /\ c.op = "malloc"
      BY <1>4, Zenon DEF PInv, CallsRight, MallocReturns, Inside
    <2>2. PICK b : var' = [var EXCEPT ![c.h] = Holding(c.h, c.req, b, c.copied)]
      BY <1>4, Zenon DEF MallocReturns
    <2>. HIDE DEF c
    <2>3. var'[c.h] = Holding(c.h, c.req, b, c.copied)
      BY <2>1, <2>2 DEF PInv, Owned, HandlesRight
    <2>4. var[c.h] # NULL =>
            c.req.n \in Nat /\ (~AlignedInBuffer(c.h) => c.copied = Min({var[c.h].size, c.req.n}))
      BY <2>1 DEF CallRight
    <2>5. var[c.h] = NULL \/ Keeps(c.h)
      BY <2>1, <2>3, <2>4, CopyKept, Zenon
    <2>. QED
      BY <2>1, <2>2, <2>5, OneMoves, Zenon
  <1>5. ASSUME NEW t \in Threads, ReallocReturns(t), var' # var PROVE \A g \in Handles : Keeps(g)
    <2>. DEFINE c == pc[t]
    <2>1. c.h \in Handles /\ CallRight(c) /\ c.op = "realloc"
      BY <1>5, Zenon DEF PInv, CallsRight, ReallocReturns, Inside
    <2>2. \/ var' = [var EXCEPT ![c.h] = NULL]
          \/ \E b : var' = [var EXCEPT ![c.h] = Holding(c.h, c.req, b, c.copied)]
      BY <1>5, Zenon DEF ReallocReturns
    <2>. HIDE DEF c
    <2>3. CASE var' = [var EXCEPT ![c.h] = NULL]
      BY <2>1, <2>3, OneMoves, Zenon
    <2>4. CASE \E b : var' = [var EXCEPT ![c.h] = Holding(c.h, c.req, b, c.copied)]
      <3>1. PICK b : var' = [var EXCEPT ![c.h] = Holding(c.h, c.req, b, c.copied)]
        BY <2>4, Zenon
      <3>2. var'[c.h] = Holding(c.h, c.req, b, c.copied)
        BY <2>1, <3>1 DEF PInv, Owned, HandlesRight
      <3>3. var[c.h] # NULL /\ c.req.n \in Nat /\ c.copied = c.req.n
        BY <2>1 DEF CallRight
      <3>4. Keeps(c.h)
        BY <2>1, <3>2, <3>3, CopyKept, Zenon
      <3>. QED
        BY <2>1, <3>1, <3>4, OneMoves, Zenon
    <2>. QED
      BY <2>2, <2>3, <2>4
  <1>6. ASSUME NEW t \in Threads,
               Realloc(t) \/ FreeOld(t) \/ LibraryLogs(t) \/ ReturnsNull(t)
        PROVE  var' = var
    BY <1>6 DEF Realloc, FreeOld, LibraryLogs, ReturnsNull, vars
  <1>. QED
    BY <1>0, <1>1, <1>2, <1>3, <1>4, <1>5, <1>6 DEF Next

(* preload_shim.c:186-194 and 205-208: no step loses the program's data as  *)
(* far as it fits the new size, aligned pointers into the buffer excepted.  *)
THEOREM ReallocKeepsData == Spec => DataKept
  <1>1. TInv /\ PInv /\ [Next]_vars =>
          [\A h \in Handles :
             var[h] # NULL /\ var'[h] # NULL /\ ~AlignedInBuffer(h)
                => var'[h].content >= Min({var[h].content, var'[h].size})]_vars
    BY StepKeepsData DEF Keeps
  <1>. QED
    BY InvariantHolds, <1>1, PTL DEF Spec, IInv, DataKept
=============================================================================
