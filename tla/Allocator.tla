------------------------------ MODULE Allocator ------------------------------
(***************************************************************************)
(* The allocator library: allocator.c and free_list.c, at the level of the *)
(* boundary tags and list links it keeps in memory, used by threads that   *)
(* allocate, resize and free.                                              *)
(*                                                                         *)
(* Memory is an array of 16-byte words.  A header takes three words (magic *)
(* with is_free and requested_size; block_size; next with prev), a footer  *)
(* one.  Words keep what was last written to them, so the tags of blocks   *)
(* that were merged or split away stay behind until something overwrites   *)
(* them, as they do in the program.                                        *)
(*                                                                         *)
(* Everything done under alloc_mutex is one step.  What my_free and        *)
(* my_realloc do after they release it (munmap; my_malloc, memcpy and      *)
(* my_free of a relocation) are steps of their own.                        *)
(***************************************************************************)
EXTENDS BlockLayout, FiniteSets, Functions

CONSTANTS
    Threads,      \* the threads of the program
    Handles,      \* the program's pointer variables
    NULL,
    BrkLimit,     \* the kernel refuses to move the break beyond this address
    MmapBases,    \* the addresses mmap may return
    HostGrowth,   \* the increments by which other code calls sbrk
    MaxHost,      \* at most this many of them
    CallocArgs,   \* the arguments <<nmemb, size>> of the calls of my_calloc
    BrkFails,     \* whether the kernel may refuse to lower the break
    SIZE_MOD      \* the counters of allocator_stats_t wrap at this value

ASSUME AllocatorAssumption ==
    /\ BrkLimit \in Nat
    /\ HostGrowth \subseteq Nat \ {0}
    /\ MaxHost \in Nat
    /\ CallocArgs \subseteq Nat \X Nat
    /\ \A a \in CallocArgs : a[1] * a[2] > SIZE_MAX \/ a[1] * a[2] \in Requests
    /\ BrkFails \in BOOLEAN
    /\ SIZE_MOD \in Nat \ {0}
    /\ \A b \in MmapBases : b \in Nat /\ b > BrkLimit
    /\ NULL \notin Nat

VARIABLES
    mem,                   \* the words of the heap
    heads,                 \* segregated_heads
    brk,                   \* the program break (kernel)
    initial_break, heap_start, last_allocator_break,
    stats,                 \* global_stats
    maps,                  \* the mappings made by mmap: base -> block
    ptr,                   \* the pointer each handle holds, or NULL
    filled,                \* how many bytes behind it the program relies on
    pc,                    \* what each thread still has to do outside the lock
    host,                  \* the address ranges other code got from sbrk
    aborted                \* whether fatal_abort has ended the process

allocVars  == <<mem, heads, brk, initial_break, heap_start,
                last_allocator_break, stats, maps>>
clientVars == <<ptr, filled, pc>>
vars == <<allocVars, clientVars, host, aborted>>

-----------------------------------------------------------------------------
(* Words *)

Words == {w \in 0..BrkLimit : w % ALIGNMENT = 0}

MagicWord(is_free, requested_size) ==
    [kind |-> "magic", is_free |-> is_free, requested_size |-> requested_size]
SizeWord(n) == [kind |-> "size", block_size |-> n]
LinkWord(next, prev) == [kind |-> "link", next |-> next, prev |-> prev]
Footer(n) == [kind |-> "footer", block_size |-> n]
Data(x) == [kind |-> "data", of |-> x]

(* The state the library works on; ok is FALSE once fatal_abort was called. *)
Now == [mem |-> mem, heads |-> heads, brk |-> brk,
        initial_break |-> initial_break, heap_start |-> heap_start,
        last_allocator_break |-> last_allocator_break,
        stats |-> stats, maps |-> maps, ok |-> TRUE]

Become(S) ==
    /\ mem' = S.mem /\ heads' = S.heads /\ brk' = S.brk
    /\ initial_break' = S.initial_break /\ heap_start' = S.heap_start
    /\ last_allocator_break' = S.last_allocator_break
    /\ stats' = S.stats /\ maps' = S.maps

Word(S, a) == IF a \in Words THEN S.mem[a] ELSE Data(NULL)

HasMagic(S, b) == Word(S, b).kind = "magic"

(* A size word that was overwritten reads as a size no block can have. *)
block_size(S, b) ==
    IF Word(S, b + 16).kind = "size" THEN S.mem[b + 16].block_size ELSE 0

(* Mutant: the footer's canary is compared and its size is not. *)
FooterCanaryOnly(S, b) ==
    block_size(S, b) >= FooterSize
        /\ Word(S, b + block_size(S, b) - FooterSize).kind = "footer"
HasFooter(S, b) == Word(S, b + block_size(S, b) - FooterSize) = Footer(block_size(S, b))

next(S, b) == IF Word(S, b + 32).kind = "link" THEN S.mem[b + 32].next ELSE NULL
prev(S, b) == IF Word(S, b + 32).kind = "link" THEN S.mem[b + 32].prev ELSE NULL

(* Sets the size of block b in its header and its footer. *)
SetSize(S, b, n) ==
    [S EXCEPT !.mem[b + 16] = SizeWord(n), !.mem[b + n - FooterSize] = Footer(n)]

Count(S, counter, n) == [S EXCEPT !.stats[counter] = (@ + n) % SIZE_MOD]

-----------------------------------------------------------------------------
(* free_list.c *)

free_list_reset(S) == [S EXCEPT !.heads = [i \in Classes |-> NULL]]

(* The block becomes the head of the list of its size class.  Nothing reads *)
(* the requested_size of a free block: it is forgotten.                     *)
free_list_insert(S, b) ==
    LET i    == get_size_class_index(block_size(S, b))
        head == S.heads[i]
        S1   == [S EXCEPT !.mem[b + 32] = LinkWord(head, NULL),
                          !.mem[b] = MagicWord(TRUE, 0),
                          !.heads[i] = b]
    IN  IF head = NULL THEN S1 ELSE [S1 EXCEPT !.mem[head + 32].prev = b]

(* What free_list_remove verifies before it touches a link. *)
Linked(S, b) ==
    /\ block_size(S, b) >= Overhead
    /\ S.mem[b].is_free
    /\ b < S.brk /\ S.brk - b >= block_size(S, b)
    /\ IF prev(S, b) = NULL
       THEN S.heads[get_size_class_index(block_size(S, b))] = b
       ELSE next(S, prev(S, b)) = b
    /\ next(S, b) # NULL => prev(S, next(S, b)) = b
    /\ HasFooter(S, b)

(* Mutant: the block behind is not linked to the block before. *)
RemoveOneSided(S, b) ==
    LET n  == next(S, b)
        p  == prev(S, b)
        S1 == IF p = NULL
              THEN [S EXCEPT !.heads[get_size_class_index(block_size(S, b))] = n]
              ELSE [S EXCEPT !.mem[p + 32].next = n]
    IN  IF ~Linked(S, b) THEN [S EXCEPT !.ok = FALSE]
        ELSE [S1 EXCEPT !.mem[b + 32] = LinkWord(NULL, NULL), !.mem[b].is_free = FALSE]

free_list_remove(S, b) ==
    LET n  == next(S, b)
        p  == prev(S, b)
        S1 == IF p = NULL
              THEN [S EXCEPT !.heads[get_size_class_index(block_size(S, b))] = n]
              ELSE [S EXCEPT !.mem[p + 32].next = n]
        S2 == IF n = NULL THEN S1 ELSE [S1 EXCEPT !.mem[n + 32].prev = p]
    IN  IF ~Linked(S, b) THEN [S EXCEPT !.ok = FALSE]
        ELSE [S2 EXCEPT !.mem[b + 32] = LinkWord(NULL, NULL), !.mem[b].is_free = FALSE]

(* No list, and no heap, has more blocks than there is room for. *)
MaxBlocks == BrkLimit \div Overhead

(* The list that starts at block b: its blocks in order, then NULL. *)
List(S, b) ==
    LET nth[k \in Nat] == IF k = 0 THEN b
                          ELSE IF nth[k - 1] = NULL THEN NULL
                          ELSE next(S, nth[k - 1])
    IN  nth

(* The places of the list that free_list_find_fit looks at: up to an exact *)
(* fit.                                                                    *)
Scanned(S, list, total) ==
    {k \in 0..MaxBlocks :
        list[k] # NULL /\ \A j \in 0..(k - 1) : block_size(S, list[j]) # total}

Take(S, b) == [s |-> free_list_remove(S, b), b |-> b]

(* The first of the smallest blocks at these places of the list. *)
Best(S, list, places) ==
    list[Min({k \in places :
                 \A j \in places : block_size(S, list[k]) <= block_size(S, list[j])})]

(* The classes are searched in order; the best block of the first class that *)
(* has one that fits is taken.                                               *)
FirstFitting(S, total, classes) ==
    LET list(i)   == List(S, S.heads[i])
        places(i) == Scanned(S, list(i), total)
        fit(i)    == {k \in places(i) : block_size(S, list(i)[k]) >= total}
        fitting   == {i \in classes : fit(i) # {}}
        searched  == {i \in classes : \A j \in fitting : i <= j}
        intact    == \A i \in searched : \A k \in places(i) : HasMagic(S, list(i)[k])
        first     == Min(fitting)
    IN  IF ~intact THEN [s |-> [S EXCEPT !.ok = FALSE], b |-> NULL]
        ELSE IF fitting = {} THEN [s |-> S, b |-> NULL]
        ELSE Take(S, Best(S, list(first), fit(first)))

(* Mutant: only the class of the request is searched. *)
FindInOwnClass(S, total) == FirstFitting(S, total, {get_size_class_index(total)})

(* The block to use and the state without it on a list; block NULL if no *)
(* class from that of total upwards has a block that fits.               *)
free_list_find_fit(S, total) ==
    FirstFitting(S, total, get_size_class_index(total)..NUM_SIZE_CLASSES)

-----------------------------------------------------------------------------
(* allocator.c *)

(* What must hold of the memory at b for it to be merged with. *)
is_adjacent_free_block(S, b) ==
    /\ S.heap_start # NULL
    /\ S.heap_start <= b /\ b < S.brk
    /\ S.brk - b >= Overhead
    /\ b % ALIGNMENT = 0
    /\ HasMagic(S, b)
    /\ S.mem[b].is_free
    /\ block_size(S, b) >= Overhead
    /\ block_size(S, b) % ALIGNMENT = 0
    /\ S.brk - b >= block_size(S, b)
    /\ HasFooter(S, b)

(* Block b, which has avail bytes, keeps need of them; a remainder of at *)
(* least min_split bytes becomes a free block.                           *)
Carve(S, b, avail, need) ==
    LET r  == b + need
        S1 == [SetSize(S, b, need) EXCEPT
                  !.mem[r] = MagicWord(TRUE, 0),
                  !.mem[r + 32] = LinkWord(NULL, NULL)]
    IN  IF ~S.ok THEN S
        ELSE IF avail >= need + min_split
        THEN free_list_insert(SetSize(S1, r, avail - need), r)
        ELSE SetSize(S, b, avail)

Outcome(S, p) == [s |-> S, p |-> p]

(* The break is aligned to b and moved; a block appears at b.  When sbrk *)
(* fails, what was set before it stays set.                              *)
GrowAt(S, n, b) ==
    LET total == TotalSize(n)
        first == IF S.initial_break = NULL THEN b ELSE S.initial_break
        S1 == [S EXCEPT !.brk = b, !.initial_break = first,
                        !.heap_start = IF @ = NULL THEN first ELSE @]
        S2 == [S1 EXCEPT !.brk = b + total, !.last_allocator_break = b + total,
                         !.mem[b] = MagicWord(FALSE, n),
                         !.mem[b + 32] = LinkWord(NULL, NULL)]
        S3 == Count(Count(SetSize(S2, b, total), "current_heap_size", total),
                    "sbrk_allocations", 1)
    IN  IF b > BrkLimit THEN Outcome(S, NULL)
        ELSE IF b + total > BrkLimit THEN Outcome(S1, NULL)
        ELSE Outcome(Count(S3, "total_allocated", n), b + HeaderSize)

(* Mutant: the break is assumed to be where the library left it. *)
GrowWhereLeft(S, n) ==
    GrowAt(S, n, IF S.last_allocator_break = NULL THEN ALIGN(S.brk)
                 ELSE S.last_allocator_break)
GrowHeap(S, n) == GrowAt(S, n, ALIGN(S.brk))

(* A mapping of its own for the block, anywhere the kernel puts it. *)
MapBlock(S, n) ==
    {Outcome(S, NULL)} \cup
    {LET block == [block_size |-> TotalSize(n), requested_size |-> n,
                   of |-> NULL, intact |-> 0]
         S1    == [S EXCEPT !.maps = [c \in DOMAIN @ \cup {b} |->
                                         IF c = b THEN block ELSE @[c]]]
     IN  Outcome(Count(Count(S1, "total_allocated", n), "mmap_allocations", 1),
                 b + HeaderSize)
     : b \in MmapBases \ DOMAIN S.maps}

(* The block found on the free lists is split when it is large enough and *)
(* handed out; if there is none the heap grows.                           *)
UseFit(S, fit, n) ==
    IF ~fit.s.ok THEN Outcome(fit.s, NULL)
    ELSE IF fit.b = NULL THEN GrowHeap(S, n)
    ELSE LET S1 == Carve(fit.s, fit.b, block_size(fit.s, fit.b), TotalSize(n))
         IN  Outcome(Count([S1 EXCEPT !.mem[fit.b] = MagicWord(FALSE, n)],
                           "total_allocated", n),
                     fit.b + HeaderSize)

(* A block of the free lists, a new one, or a mapping of its own. *)
my_malloc(S, n) ==
    IF n = 0 \/ n > max_allowed THEN {Outcome(S, NULL)}
    ELSE IF TotalSize(n) >= MMAP_THRESHOLD THEN MapBlock(S, n)
    ELSE {UseFit(S, free_list_find_fit(S, TotalSize(n)), n)}

(* The checks my_free and my_realloc make on the header and the footer of *)
(* the block they are given, before they trust it.                        *)
Accepted(S, b) ==
    \/ /\ b \in DOMAIN S.maps
       /\ S.maps[b].block_size >= MMAP_THRESHOLD
    \/ /\ HasMagic(S, b)
       /\ block_size(S, b) >= Overhead
       /\ S.heap_start # NULL
       /\ S.heap_start <= b /\ b < S.brk
       /\ S.brk - b >= block_size(S, b)
       /\ HasFooter(S, b)
       /\ ~S.mem[b].is_free

Validated(S, b) == IF Accepted(S, b) THEN S ELSE [S EXCEPT !.ok = FALSE]

(* Mutant: the merged block gets no footer. *)
CoalesceNoFooter(S, b) ==
    LET after == b + block_size(S, b)
    IN  IF is_adjacent_free_block(S, after)
        THEN [free_list_remove(S, after) EXCEPT
                 !.mem[b + 16] = SizeWord(block_size(S, b) + block_size(S, after))]
        ELSE S

(* Block b swallows the free block that follows it. *)
CoalesceForward(S, b) ==
    LET after == b + block_size(S, b)
    IN  IF is_adjacent_free_block(S, after)
        THEN LET S1 == free_list_remove(S, after)
             IN  IF S1.ok
                 THEN SetSize(S1, b, block_size(S, b) + block_size(S, after))
                 ELSE S1
        ELSE S

(* Whether the word before b is the footer of a free block. *)
FollowsFree(S, b) ==
    LET footer == Word(S, b - FooterSize)
        before == b - footer.block_size
    IN  /\ b >= S.heap_start + Overhead
        /\ footer.kind = "footer"
        /\ footer.block_size >= Overhead
        /\ footer.block_size <= b - S.heap_start
        /\ footer.block_size % ALIGNMENT = 0
        /\ before % ALIGNMENT = 0
        /\ HasMagic(S, before)
        /\ block_size(S, before) = footer.block_size
        /\ S.mem[before].is_free

(* Mutant: the block that swallowed b is not put on a list again. *)
CoalesceLosesMerged(S, b) ==
    LET before == b - S.mem[b - FooterSize].block_size
        S1     == free_list_remove(S, before)
    IN  IF ~FollowsFree(S, b) THEN free_list_insert(S, b)
        ELSE SetSize(S1, before, block_size(S1, before) + block_size(S, b))

(* The free block before b swallows it; what results is put on a list. *)
CoalesceBackward(S, b) ==
    LET before == b - S.mem[b - FooterSize].block_size
        S1     == free_list_remove(S, before)
    IN  IF ~S.ok THEN S
        ELSE IF ~FollowsFree(S, b) THEN free_list_insert(S, b)
        ELSE IF ~S1.ok THEN S1
        ELSE free_list_insert(
                 SetSize(S1, before, block_size(S1, before) + block_size(S, b)),
                 before)

(* Block b is no longer in use. *)
FreeHeapBlock(S, b) ==
    CoalesceBackward(
        CoalesceForward(Count([S EXCEPT !.mem[b].is_free = TRUE],
                              "total_freed", S.mem[b].requested_size), b), b)

(* What my_free does under the lock. *)
my_free(S, p) ==
    LET b == p - HeaderSize
    IN  IF ~Accepted(S, b) THEN Validated(S, b)
        ELSE IF b \in DOMAIN S.maps
        THEN Count(S, "total_freed", S.maps[b].requested_size)
        ELSE FreeHeapBlock(S, b)

(* Mutant: shrinking in place is not counted. *)
ResizedUncounted(S, b, n) ==
    LET old == S.mem[b].requested_size
        S1  == [S EXCEPT !.mem[b].requested_size = n]
    IN  IF n < old THEN S1 ELSE Count(S1, "total_allocated", n - old)

(* Block b now serves a request of n bytes: the counters follow the change. *)
Resized(S, b, n) ==
    LET old == S.mem[b].requested_size
        S1  == [S EXCEPT !.mem[b].requested_size = n]
    IN  IF n < old THEN Count(S1, "total_freed", old - n)
        ELSE Count(S1, "total_allocated", n - old)

(* my_realloc on a heap block: Path 1 keeps the block, giving back what it *)
(* can spare, Path 2 grows into a free block that follows.  p is NULL when *)
(* neither is possible and the block must move (Path 3).                   *)
ResizeHeapBlock(S, b, n) ==
    LET need  == TotalSize(n)
        have  == block_size(S, b)
        after == b + have
        joins == is_adjacent_free_block(S, after)
        S1    == IF joins THEN free_list_remove(S, after) ELSE S
        avail == IF joins THEN have + block_size(S, after) ELSE have
        S2    == Carve(S1, b, avail, need)
        done(T) == Outcome(IF T.ok THEN Resized(T, b, n) ELSE T, b + HeaderSize)
    IN  IF have >= need + min_split THEN done(S2)
        ELSE IF have >= need THEN done(S)
        ELSE IF need < MMAP_THRESHOLD /\ joins /\ avail >= need THEN done(S2)
        ELSE Outcome(S, NULL)

(* Mutant: what the mapping served before is not counted as freed. *)
RemapUncounted(S, b, n) ==
    {Outcome(Count([S EXCEPT !.maps[b].block_size = TotalSize(n),
                             !.maps[b].requested_size = n], "total_allocated", n),
             b + HeaderSize)}

(* mremap of mapping b to the size for n bytes, at any address. *)
RemapBlock(S, b, n) ==
    LET old   == S.maps[b]
        block == [old EXCEPT !.block_size = TotalSize(n), !.requested_size = n,
                             !.intact = IF n < @ THEN n ELSE @]
        moved(c) == [S EXCEPT !.maps = [d \in (DOMAIN @ \ {b}) \cup {c} |->
                                           IF d = c THEN block ELSE @[d]]]
    IN  {Outcome(Count(Count(moved(c), "total_allocated", n),
                       "total_freed", old.requested_size),
                 c + HeaderSize)
         : c \in (MmapBases \ DOMAIN S.maps) \cup {b}}

(* Writes x's data to the n bytes behind pointer p. *)
Fill(S, p, n, x) ==
    IF p - HeaderSize \in DOMAIN S.maps
    THEN [S EXCEPT !.maps[p - HeaderSize].of = x, !.maps[p - HeaderSize].intact = n]
    ELSE [S EXCEPT !.mem = [w \in Words |-> IF p <= w /\ w < p + n
                                            THEN Data(x) ELSE @[w]]]

(* Of the n bytes behind p, how many from the first on hold x's data. *)
Intact(S, p, n, x) ==
    IF p - HeaderSize \in DOMAIN S.maps
    THEN LET m == S.maps[p - HeaderSize]
         IN  IF m.of # x THEN 0 ELSE IF m.intact < n THEN m.intact ELSE n
    ELSE LET lost == {w \in Words : p <= w /\ w < p + n /\ S.mem[w] # Data(x)}
         IN  IF lost = {} THEN n ELSE Min(lost) - p

(* memcpy of n bytes; between heap blocks it copies whatever the words hold. *)
memcpy(S, new, old, n, x) ==
    LET known == Intact(S, old, n, x)
        source(w) == IF old - HeaderSize \in DOMAIN S.maps
                     THEN IF w < new + known THEN Data(x) ELSE Data(NULL)
                     ELSE S.mem[old + (w - new)]
    IN  IF new - HeaderSize \in DOMAIN S.maps THEN Fill(S, new, known, x)
        ELSE [S EXCEPT !.mem = [w \in Words |-> IF new <= w /\ w < new + n
                                                THEN source(w) ELSE @[w]]]

ZeroStats == [c \in {"total_allocated", "total_freed", "current_heap_size",
                     "mmap_allocations", "sbrk_allocations"} |-> 0]

allocator_init(S) ==
    LET S1  == free_list_reset([S EXCEPT !.stats = ZeroStats])
        cur == ALIGN(S.brk)
        first == IF S.initial_break = NULL THEN cur ELSE S.initial_break
    IN  IF cur > BrkLimit THEN S1
        ELSE [S1 EXCEPT !.brk = cur, !.initial_break = first, !.heap_start = first,
                        !.last_allocator_break = cur]

(* Mutant: allocator_destroy leaves the free lists as they are. *)
DestroyKeepsLists(S) ==
    {[S EXCEPT !.stats = ZeroStats, !.initial_break = NULL, !.heap_start = NULL,
               !.last_allocator_break = NULL,
               !.brk = IF S.initial_break # NULL /\ @ = S.last_allocator_break
                       THEN S.initial_break ELSE @]}

(* The states allocator_destroy can lead to.  The heap is given back only if *)
(* nobody moved the break since the library did so last; when the kernel     *)
(* refuses to take it, the library keeps its bounds.                         *)
allocator_destroy(S) ==
    LET S1 == free_list_reset([S EXCEPT !.stats = ZeroStats])
        S2 == [S1 EXCEPT !.initial_break = NULL, !.heap_start = NULL,
                         !.last_allocator_break = NULL]
    IN  IF S.initial_break # NULL /\ S.brk = S.last_allocator_break
        THEN {[S2 EXCEPT !.brk = S.initial_break]} \cup
             (IF BrkFails THEN {[S1 EXCEPT !.heap_start = S.initial_break]} ELSE {})
        ELSE {S2}

(* free_list_verify_integrity returns 0. *)
free_list_verify_integrity(S) ==
    \A i \in Classes :
        LET list == List(S, S.heads[i])
        IN  \A k \in 0..MaxBlocks : list[k] # NULL =>
                /\ HasMagic(S, list[k]) /\ S.mem[list[k]].is_free
                /\ block_size(S, list[k]) >= Overhead
                /\ list[k] < S.brk /\ S.brk - list[k] >= block_size(S, list[k])
                /\ IF prev(S, list[k]) = NULL THEN S.heads[i] = list[k]
                   ELSE next(S, prev(S, list[k])) = list[k]
                /\ next(S, list[k]) # NULL => prev(S, next(S, list[k])) = list[k]
                /\ HasFooter(S, list[k])

(* Where the walk over the heap is after k blocks. *)
HeapWalk(S) ==
    LET at[k \in Nat] == IF k = 0 THEN S.heap_start
                         ELSE at[k - 1] + block_size(S, at[k - 1])
    IN  at

(* allocator_verify_integrity returns 0. *)
allocator_verify_integrity(S) ==
    /\ free_list_verify_integrity(S)
    /\ S.heap_start # NULL =>
          LET at == HeapWalk(S)
          IN  \A k \in 0..MaxBlocks : at[k] < S.brk =>
                  /\ S.brk - at[k] >= Overhead
                  /\ HasMagic(S, at[k])
                  /\ block_size(S, at[k]) >= Overhead
                  /\ block_size(S, at[k]) % ALIGNMENT = 0
                  /\ S.brk - at[k] >= block_size(S, at[k])
                  /\ HasFooter(S, at[k])

-----------------------------------------------------------------------------
(* The threads *)

Idle == [at |-> "idle"]

(* A handle is busy while a call that was given it has not returned. *)
Busy == {pc[t].x : t \in {u \in Threads : pc[u] # Idle}}

Ready(t, x) == ~aborted /\ pc[t] = Idle /\ x \notin Busy

(* What x's data was elsewhere than in the k bytes behind p is of no *)
(* interest to anybody any more.                                     *)
Forget(S, x, p, k) ==
    [S EXCEPT !.mem = [w \in Words |->
        IF @[w] = Data(x) /\ (p = NULL \/ ~(p <= w /\ w < p + k)) THEN Data(NULL)
        ELSE @[w]]]

(* The library has reached S: handle x holds p, of which the program relies *)
(* on k bytes, and thread t goes on with todo; or the process is aborted.   *)
Return(S, t, x, p, k, todo) ==
    /\ IF S.ok
       THEN /\ Become(Forget(S, x, p, k))
            /\ ptr' = [ptr EXCEPT ![x] = p]
            /\ filled' = [filled EXCEPT ![x] = k]
            /\ pc' = [pc EXCEPT ![t] = todo]
            /\ UNCHANGED aborted
       ELSE /\ aborted' = TRUE
            /\ UNCHANGED <<allocVars, clientVars>>
    /\ UNCHANGED host

(* my_malloc(n), also as my_realloc(NULL, n). *)
Malloc(t, x, n) ==
    /\ Ready(t, x)
    /\ ptr[x] = NULL
    /\ \E o \in my_malloc(Now, n) : Return(o.s, t, x, o.p, 0, Idle)

(* Mutant: the overflow of the product is not checked. *)
CallocUnchecked(t, x, nmemb, n) ==
    /\ Ready(t, x)
    /\ ptr[x] = NULL
    /\ nmemb # 0 /\ n # 0
    /\ LET total == (nmemb * n) % (SIZE_MAX + 1)
       IN  \E o \in my_malloc(Now, total) :
              IF o.p = NULL THEN Return(o.s, t, x, NULL, 0, Idle)
              ELSE Return(Fill(o.s, o.p, total, x), t, x, o.p, nmemb * n, Idle)

(* my_calloc(nmemb, n): the program relies on nmemb * n zeroed bytes, and  *)
(* the product the code computes is that number only if it does not wrap.  *)
Calloc(t, x, nmemb, n) ==
    /\ Ready(t, x)
    /\ ptr[x] = NULL
    /\ nmemb # 0 /\ n # 0 /\ n <= SIZE_MAX \div nmemb
    /\ LET total == (nmemb * n) % (SIZE_MAX + 1)
       IN  \E o \in my_malloc(Now, total) :
              IF o.p = NULL THEN Return(o.s, t, x, NULL, 0, Idle)
              ELSE Return(Fill(o.s, o.p, total, x), t, x, o.p, nmemb * n, Idle)

RequestedSize(p) ==
    IF p - HeaderSize \in DOMAIN maps THEN maps[p - HeaderSize].requested_size
    ELSE mem[p - HeaderSize].requested_size

(* The program writes all the bytes it asked for. *)
Write(t, x) ==
    /\ Ready(t, x)
    /\ ptr[x] # NULL
    /\ Return(Fill(Now, ptr[x], RequestedSize(ptr[x]), x), t, x, ptr[x],
              RequestedSize(ptr[x]), Idle)

(* After the critical section of my_free, a mapping is still to be unmapped. *)
AfterFree(x, p) ==
    IF p - HeaderSize \in DOMAIN maps
    THEN [at |-> "munmap", x |-> x, base |-> p - HeaderSize]
    ELSE Idle

(* my_free(ptr), also as my_realloc(ptr, 0). *)
Free(t, x) ==
    /\ Ready(t, x)
    /\ ptr[x] # NULL
    /\ Return(my_free(Now, ptr[x]), t, x, NULL, 0, AfterFree(x, ptr[x]))

(* munmap, outside the lock; a mapping the kernel fails to remove is leaked. *)
Munmap(t) ==
    /\ ~aborted
    /\ pc[t].at = "munmap"
    /\ \/ maps' = Restrict(maps, DOMAIN maps \ {pc[t].base})
       \/ UNCHANGED maps
    /\ pc' = [pc EXCEPT ![t] = Idle]
    /\ UNCHANGED <<mem, heads, brk, initial_break, heap_start,
                   last_allocator_break, stats, ptr, filled, host, aborted>>

(* What my_realloc still has to do when the block must move. *)
Moving(x, n) == [at |-> "move", x |-> x, n |-> n, old |-> RequestedSize(ptr[x])]

Kept(x, n) == IF filled[x] < n THEN filled[x] ELSE n

(* my_realloc(ptr, n) up to the point where the lock is released. *)
Realloc(t, x, n) ==
    /\ Ready(t, x)
    /\ ptr[x] # NULL
    /\ n # 0 /\ n <= max_allowed
    /\ LET b == ptr[x] - HeaderSize
           S == Validated(Now, b)
           o == ResizeHeapBlock(S, b, n)
       IN  \/ /\ b \notin DOMAIN maps
              /\ IF o.p = NULL
                 THEN Return(o.s, t, x, ptr[x], filled[x], Moving(x, n))
                 ELSE Return(o.s, t, x, o.p, Kept(x, n), Idle)
           \/ /\ b \in DOMAIN maps
              /\ TotalSize(n) >= MMAP_THRESHOLD
              /\ \E r \in RemapBlock(S, b, n) :
                    Return(r.s, t, x, r.p, Kept(x, n), Idle)
           \/ /\ b \in DOMAIN maps
              /\ Return(S, t, x, ptr[x], filled[x], Moving(x, n))

(* The relocation's my_malloc; if it fails the old block stays as it is. *)
MoveAlloc(t) ==
    /\ ~aborted
    /\ pc[t].at = "move"
    /\ LET x == pc[t].x
       IN  \E o \in my_malloc(Now, pc[t].n) :
              Return(o.s, t, x, ptr[x], filled[x],
                     IF o.p = NULL THEN Idle
                     ELSE [at |-> "moved", x |-> x, n |-> pc[t].n,
                           old |-> pc[t].old, new |-> o.p])

(* Mutant: the relocation copies from the header on. *)
MoveFromHeader(t) ==
    /\ ~aborted
    /\ pc[t].at = "moved"
    /\ LET x    == pc[t].x
           copy == IF pc[t].old < pc[t].n THEN pc[t].old ELSE pc[t].n
       IN  Return(my_free(memcpy(Now, pc[t].new, ptr[x] - HeaderSize, copy, x), ptr[x]),
                  t, x, pc[t].new, Kept(x, pc[t].n), AfterFree(x, ptr[x]))

(* The relocation's memcpy and my_free of the old block. *)
MoveFree(t) ==
    /\ ~aborted
    /\ pc[t].at = "moved"
    /\ LET x    == pc[t].x
           copy == IF pc[t].old < pc[t].n THEN pc[t].old ELSE pc[t].n
       IN  Return(my_free(memcpy(Now, pc[t].new, ptr[x], copy, x), ptr[x]),
                  t, x, pc[t].new, Kept(x, pc[t].n), AfterFree(x, ptr[x]))

(* The blocks the program may use or is being handed. *)
Live == {ptr[x] - HeaderSize : x \in {y \in Handles : ptr[y] # NULL}} \cup
        {pc[t].new - HeaderSize : t \in {u \in Threads : pc[u].at = "moved"}}

Quiescent ==
    /\ ~aborted
    /\ \A t \in Threads : pc[t] = Idle
    /\ \A x \in Handles : ptr[x] = NULL

(* allocator_init, called before the first allocation or after a destroy. *)
Initialize ==
    /\ Quiescent
    /\ \A i \in Classes : heads[i] = NULL
    /\ Become(allocator_init(Now))
    /\ UNCHANGED <<clientVars, host, aborted>>

(* allocator_destroy, called when the program holds no pointer any more. *)
Destroy ==
    /\ Quiescent
    /\ \E S \in allocator_destroy(Now) : Become(S)
    /\ UNCHANGED <<clientVars, host, aborted>>

(* Other code of the process moves the break and uses the memory. *)
HostSbrk(k) ==
    /\ ~aborted
    /\ Cardinality(host) < MaxHost
    /\ brk + k <= BrkLimit
    /\ brk' = brk + k
    /\ host' = host \cup {[lo |-> brk, hi |-> brk + k]}
    /\ mem' = [w \in Words |-> IF w + ALIGNMENT > brk /\ w < brk + k
                               THEN Data(NULL) ELSE mem[w]]
    /\ UNCHANGED <<heads, initial_break, heap_start, last_allocator_break,
                   stats, maps, clientVars, aborted>>

Init ==
    /\ mem = [w \in Words |-> Data(NULL)]
    /\ heads = [i \in Classes |-> NULL]
    /\ brk = 0
    /\ initial_break = NULL /\ heap_start = NULL /\ last_allocator_break = NULL
    /\ stats = ZeroStats
    /\ maps = [b \in {} |-> 0]
    /\ ptr = [x \in Handles |-> NULL]
    /\ filled = [x \in Handles |-> 0]
    /\ pc = [t \in Threads |-> Idle]
    /\ host = {}
    /\ aborted = FALSE

Next ==
    \/ \E t \in Threads :
          \/ Munmap(t) \/ MoveAlloc(t) \/ MoveFree(t)
          \/ \E x \in Handles :
                \/ Write(t, x) \/ Free(t, x)
                \/ \E n \in Requests :
                      \/ Malloc(t, x, n) \/ Realloc(t, x, n)
                \/ \E a \in CallocArgs : Calloc(t, x, a[1], a[2])
    \/ Initialize \/ Destroy
    \/ \E k \in HostGrowth : HostSbrk(k)

Spec == Init /\ [][Next]_vars

-----------------------------------------------------------------------------
(* Properties *)

(* The blocks on the free lists. *)
Listed ==
    (UNION {{List(Now, heads[i])[k] : k \in 0..MaxBlocks} : i \in Classes}) \ {NULL}

LiveInHeap == Live \ DOMAIN maps
Blocks == LiveInHeap \cup Listed

(* The heap with its tags and links implements the heap of blocks: every  *)
(* critical section of allocator.c splits, merges, takes or releases      *)
(* blocks as BlockHeap allows, in particular free_list_find_fit finds a   *)
(* smallest fitting block whenever there is a fitting one.                *)
BH == INSTANCE BlockHeap WITH
          size <- [b \in Blocks |-> block_size(Now, b)],
          used <- [b \in LiveInHeap |-> mem[b].requested_size],
          Breaks <- 0..BrkLimit
ImplementsBlockHeap == BH!Spec

(* A program that frees and resizes only what it holds is never aborted:  *)
(* no sequence of calls of any threads makes the linkage and canary tests *)
(* of free_list_remove, free_list_find_fit, my_free or my_realloc fail.   *)
NoSpuriousAbort == ~aborted

(* The heap addresses that my_free and my_realloc accept are those of      *)
(* blocks in use.                                                          *)
AcceptsOnlyLive == \A b \in Words : Accepted(Now, b) => b \in Live

(* my_realloc moves a block with memcpy, whatever the program has written  *)
(* to it.  No tags of former blocks are among the bytes that it copies.    *)
NoTagsCopied ==
    \A t \in Threads : pc[t].at \in {"move", "moved"} =>
        \A w \in Words :
            ptr[pc[t].x] <= w /\ w < ptr[pc[t].x] + pc[t].old
            => mem[w].kind \notin {"magic", "footer"}

(* allocator_verify_integrity finds nothing wrong with a heap that only   *)
(* this library has grown, whatever was done with it.                     *)
IntegrityVerified == host = {} => allocator_verify_integrity(Now)

(* What the program wrote to a block is still there, and still there in   *)
(* the part that remains after my_realloc kept, shrank, grew, remapped or *)
(* moved it, whatever other threads did meanwhile.                        *)
DataKept ==
    \A x \in Handles : ptr[x] # NULL => Intact(Now, ptr[x], filled[x], x) = filled[x]

Total(f) == FoldFunction(+, 0, f)

(* total_allocated - total_freed is the number of bytes the program has   *)
(* requested and not yet freed, modulo the width of the counters.         *)
StatsBalance ==
    (stats["total_allocated"] - stats["total_freed"]) % SIZE_MOD =
        Total([b \in Live |-> RequestedSize(b + HeaderSize)]) % SIZE_MOD

(* current_heap_size is the total size of the blocks in use and on the    *)
(* lists: no byte obtained from sbrk is lost or counted twice.            *)
HeapConserved ==
    stats["current_heap_size"] =
        Total([b \in Blocks |-> block_size(Now, b)]) % SIZE_MOD

(* allocator_destroy gives back only memory that the library obtained: what *)
(* other code got from sbrk stays below the break.                          *)
DestroyKeepsHostMemory == \A r \in host : r.hi <= brk
=============================================================================
