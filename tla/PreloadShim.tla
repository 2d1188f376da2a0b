----------------------------- MODULE PreloadShim -----------------------------
(***************************************************************************)
(* preload_shim.c: malloc, free, realloc and the aligned entry points that *)
(* LD_PRELOAD puts in front of the allocator.                              *)
(*                                                                         *)
(* Three kinds of pointers go through the same free and realloc: blocks of *)
(* the library, aligned pointers into the middle of such a block, and      *)
(* pieces of a static buffer.  The buffer serves a thread that is already  *)
(* inside the library: its calls log a refused system call, and the log    *)
(* functions may themselves allocate (strerror, vsnprintf).                *)
(*                                                                         *)
(* The library is taken at its promise (MemSpec, which BlockHeap is shown  *)
(* to implement): a block is apart from every other live one, and contents *)
(* survive my_realloc.                                                     *)
(***************************************************************************)
EXTENDS Integers, FiniteSetsExt

CONSTANTS
    Threads,
    Handles,             \* the program's pointer variables
    NULL,
    BOOTSTRAP_BUF_SIZE,  \* bytes in bootstrap_buf (128 KiB)
    HeapBases,           \* the addresses my_malloc may return
    Sizes,               \* the sizes the program asks for
    Alignments,          \* the alignments it asks for
    PAGE,                \* sysconf(_SC_PAGESIZE)
    SIZE_MAX,
    MaxOffset            \* bound: nested calls stop once the offset is here

ALIGNMENT  == 16
HeaderSize == 48         \* sizeof(block_header_t), the room for aligned_header_t
BootHeader == 16         \* sizeof(bootstrap_header_t)
PTR        == 8          \* sizeof(void *)

RoundUp(n, a) == ((n + a - 1) \div a) * a

(* The buffer lies apart from the addresses the library returns: below     *)
(* them, without loss of generality.                                       *)
ASSUME ShimAssumption ==
    /\ BOOTSTRAP_BUF_SIZE \in Nat /\ BOOTSTRAP_BUF_SIZE > BootHeader
    /\ Sizes \subseteq Nat
    /\ Alignments \subseteq Nat
    /\ PAGE \in Nat /\ PAGE > ALIGNMENT
    /\ SIZE_MAX \in Nat \ {0} /\ MaxOffset \in Nat
    /\ HeapBases \subseteq Nat
    /\ \A b \in HeapBases : b >= BOOTSTRAP_BUF_SIZE + HeaderSize

(* NULL is neither a pointer with its size nor a call. *)
ASSUME NullAssumption ==
    /\ NULL \notin [p : Nat, size : Nat, content : Nat]
    /\ NULL \notin [op : {"free"}, h : Handles, old : Nat, log : {FALSE}]

VARIABLES
    bootstrap_offset,
    boot,            \* the bootstrap headers in front of pointers: pointer -> size
    ah,              \* the aligned headers with their magic: pointer -> header
    heap,            \* the library's live blocks: base -> requested bytes
    in_allocator,    \* the flag of each thread
    pc,              \* the library call each thread is in, or NULL
    var,             \* what each handle holds: a pointer with its size, or NULL
    recursed,        \* whether a thread entered the library from within it
    aborted          \* whether the library was given a pointer it rejects

shimVars == <<bootstrap_offset, boot, ah>>
vars == <<shimVars, heap, in_allocator, pc, var, recursed, aborted>>

-----------------------------------------------------------------------------
(* Requests: what each entry point makes of its arguments *)

IsPowerOfTwo(a) == \E k \in 0..a : 2^k = a

Refused == [kind |-> "refused"]
Plain(n) == [kind |-> "plain", n |-> n, req |-> n]
Aligned(a, n, req) ==
    IF n > SIZE_MAX - a - HeaderSize THEN Refused
    ELSE [kind |-> "aligned", n |-> n, alignment |-> a, req |-> req]

posix_memalign(a, n) ==
    LET alloc_size == IF n = 0 THEN a ELSE n
    IN  IF a < PTR \/ ~IsPowerOfTwo(a) THEN Refused
        ELSE IF a <= ALIGNMENT THEN Plain(alloc_size)
        ELSE Aligned(a, alloc_size, n)

aligned_alloc(a, n) ==
    IF a = 0 \/ ~IsPowerOfTwo(a) \/ n % a # 0 \/ n = 0 THEN Refused
    ELSE IF a <= ALIGNMENT THEN Plain(n)
    ELSE Aligned(a, n, n)

memalign(a, n) == posix_memalign(Max({a, PTR}), n)
valloc(n) == posix_memalign(PAGE, n)
pvalloc(n) ==
    IF n > SIZE_MAX - PAGE THEN Refused
    ELSE posix_memalign(PAGE, IF n = 0 THEN PAGE ELSE RoundUp(n, PAGE))

(* calloc and reallocarray refuse a product that does not fit in size_t. *)
Overflows(nmemb, size) == nmemb # 0 /\ size > SIZE_MAX \div nmemb
calloc(nmemb, size) ==
    IF Overflows(nmemb, size) THEN Refused ELSE Plain(nmemb * size)

reallocarray(nmemb, size) ==
    IF Overflows(nmemb, size) THEN {} ELSE {nmemb * size}

ReallocSizes == {0} \cup Sizes \cup reallocarray(2, SIZE_MAX)

AllocRequests ==
    LET AlignedSizes == {0} \cup Sizes
    IN  ({Plain(n) : n \in Sizes} \cup {calloc(1, n) : n \in Sizes}
            \cup {calloc(2, SIZE_MAX), pvalloc(SIZE_MAX)}
            \cup {posix_memalign(a, n) : a \in Alignments, n \in AlignedSizes}
            \cup {aligned_alloc(a, n) : a \in Alignments, n \in AlignedSizes}
            \cup {memalign(a, n) : a \in Alignments, n \in AlignedSizes}
            \cup {valloc(n) : n \in AlignedSizes} \cup {pvalloc(n) : n \in AlignedSizes})
        \ {Refused}

-----------------------------------------------------------------------------
(* Pointers and the tables that are kept about them *)

Put(f, x, v) == [y \in DOMAIN f \cup {x} |-> IF y = x THEN v ELSE f[y]]
Without(f, x) == [y \in DOMAIN f \ {x} |-> f[y]]

is_bootstrap_ptr(p) == p < BOOTSTRAP_BUF_SIZE

(* The block an aligned pointer lies in, by the offset its header records. *)
Base(p) == p - ah[p].offset + HeaderSize

is_aligned_ptr(p) == p \in DOMAIN ah /\ Base(p) \in DOMAIN heap

(* Where aligned_alloc_internal puts the pointer in a block, and the bytes  *)
(* it asks for to be sure that it can.                                      *)
Total(req) ==
    IF req.kind = "plain" THEN req.n ELSE req.n + req.alignment + HeaderSize
Place(req, base) ==
    IF req.kind = "plain" THEN base ELSE RoundUp(base + HeaderSize, req.alignment)
(* Mutant: the header records the bytes reserved, not the bytes asked for. *)
HeaderOfReserved(headers, req, base) ==
    IF req.kind = "plain" THEN headers
    ELSE Put(headers, Place(req, base),
             [offset |-> Place(req, base) - (base - HeaderSize), requested_size |-> req.n])
(* The headers with that of a new aligned pointer: the offset to the header *)
(* of its block and the bytes asked for.                                    *)
AlignedHeader(headers, req, base) ==
    IF req.kind = "plain" THEN headers
    ELSE Put(headers, Place(req, base),
             [offset |-> Place(req, base) - (base - HeaderSize), requested_size |-> req.req])

(* Mutant: the size in a bootstrap header is not read. *)
CopyUnsized(p, n) ==
    IF is_bootstrap_ptr(p) THEN 0 ELSE Min({ah[p].requested_size, n})
(* The bytes behind p that realloc copies to a block of n bytes. *)
copy_size(p, n) ==
    IF is_bootstrap_ptr(p)
    THEN IF p \in DOMAIN boot THEN Min({boot[p], n}) ELSE 0
    ELSE Min({ah[p].requested_size, n})

malloc_usable_size(p) ==
    IF is_bootstrap_ptr(p) THEN IF p \in DOMAIN boot THEN boot[p] ELSE 0
    ELSE IF is_aligned_ptr(p) THEN ah[p].requested_size
    ELSE heap[p]

(* What handle h holds once a request is placed in the block at base: the   *)
(* pointer, the bytes the program may use there, and how many of them hold  *)
(* its data.  A fresh block is filled before it is used (by calloc, or by   *)
(* the program).                                                            *)
Holding(h, req, base, copied) ==
    IF var[h] = NULL
    THEN [p |-> Place(req, base), size |-> req.req, content |-> req.req]
    ELSE [p |-> base, size |-> req.n, content |-> Min({var[h].content, copied})]

-----------------------------------------------------------------------------
(* The library, at its promise *)

Lib == INSTANCE MemSpec WITH live <- heap, Requests <- Nat \ {0}, Alignment <- ALIGNMENT

FreeBases == HeapBases \ DOMAIN heap

my_free(b) ==
    /\ heap' = Without(heap, b)
    /\ aborted' = (aborted \/ b \notin DOMAIN heap)

(* Mutant: an aligned pointer is handed to the library as it is. *)
FreeAsGiven(p) ==
    IF is_bootstrap_ptr(p) THEN UNCHANGED <<heap, aborted>> ELSE my_free(p)
(* What free does to the library: nothing for a pointer into the buffer. *)
free(p) ==
    IF is_bootstrap_ptr(p) THEN UNCHANGED <<heap, aborted>>
    ELSE IF is_aligned_ptr(p) THEN my_free(Base(p))
    ELSE my_free(p)

(* The headers without those of a pointer the program gives up.  free       *)
(* clears the magic of an aligned pointer; the headers in the buffer stay,  *)
(* but nothing reads them again.                                            *)
Forget(p) ==
    /\ boot' = Without(boot, p)
    /\ ah' = Without(ah, p)
GivenUp(f, h) == IF var[h] = NULL THEN f ELSE Without(f, var[h].p)

-----------------------------------------------------------------------------
(* The calls.  A thread calls when it is not in the library, or while the   *)
(* library logs a failure on its behalf.                                    *)

Busy(h) == \E t \in Threads : pc[t] # NULL /\ pc[t].h = h
Calling(t) == ~aborted /\ (pc[t] # NULL => pc[t].log)

Chunk(req) == BootHeader + RoundUp(Total(req), ALIGNMENT)

(* Mutant: the end of the chunk is not compared, only its start. *)
FitsByStart(req) ==
    /\ Total(req) <= BOOTSTRAP_BUF_SIZE - BootHeader
    /\ bootstrap_offset <= BOOTSTRAP_BUF_SIZE
Fits(req) ==
    /\ Total(req) <= BOOTSTRAP_BUF_SIZE - BootHeader
    /\ bootstrap_offset + Chunk(req) <= BOOTSTRAP_BUF_SIZE

ChunkBase == bootstrap_offset + BootHeader

(* The chunk is reserved before it is known whether it fits: a request that *)
(* does not takes the rest of the buffer with it.                           *)
Reserve(req) ==
    /\ bootstrap_offset < MaxOffset
    /\ bootstrap_offset' = IF Total(req) > BOOTSTRAP_BUF_SIZE - BootHeader
                           THEN bootstrap_offset
                           ELSE bootstrap_offset + Chunk(req)

(* bootstrap_alloc, with the header that goes with the kind of the pointer. *)
bootstrap_alloc(h, req, copied) ==
    /\ Reserve(req)
    /\ IF ~Fits(req) THEN UNCHANGED <<boot, ah, var>>
       ELSE /\ boot' = IF req.kind = "plain" THEN Put(GivenUp(boot, h), ChunkBase, req.n)
                       ELSE GivenUp(boot, h)
            /\ ah' = AlignedHeader(GivenUp(ah, h), req, ChunkBase)
            /\ var' = [var EXCEPT ![h] = Holding(h, req, ChunkBase, copied)]

(* Mutant: the flag is not raised for the time of the call. *)
EnterUnflagged(t, call) ==
    /\ pc' = [pc EXCEPT ![t] = call]
    /\ UNCHANGED in_allocator
Enter(t, call) ==
    /\ pc' = [pc EXCEPT ![t] = call]
    /\ in_allocator' = [in_allocator EXCEPT ![t] = TRUE]

(* A call of the library: my_malloc for an allocation or for the new place  *)
(* of a pointer the library cannot resize, my_realloc otherwise.            *)
Call(op, h, req, copied) ==
    [op |-> op, h |-> h, req |-> req, copied |-> copied, log |-> FALSE]

EnterLibrary(t, call) ==
    IF pc[t] = NULL
    THEN Enter(t, call) /\ UNCHANGED recursed
    ELSE recursed' = TRUE /\ UNCHANGED <<pc, in_allocator>>

(* malloc, calloc and the aligned entry points.  What the library calls to  *)
(* log a failure asks for a byte or more.                                   *)
Malloc(t) ==
    \E h \in Handles, req \in AllocRequests :
        /\ Calling(t) /\ ~Busy(h) /\ var[h] = NULL
        /\ in_allocator[t] => Total(req) # 0
        /\ IF in_allocator[t]
           THEN /\ bootstrap_alloc(h, req, 0)
                /\ UNCHANGED <<heap, in_allocator, pc, recursed, aborted>>
           ELSE /\ EnterLibrary(t, Call("malloc", h, req, 0))
                /\ UNCHANGED <<shimVars, heap, var, aborted>>

(* free runs without the flag.  my_free logs a refused munmap once its work *)
(* is done, so what that log allocates is a call that follows this one.     *)
Free(t) ==
    \E h \in Handles :
        /\ Calling(t) /\ ~Busy(h) /\ var[h] # NULL
        /\ free(var[h].p)
        /\ Forget(var[h].p)
        /\ var' = [var EXCEPT ![h] = NULL]
        /\ UNCHANGED <<bootstrap_offset, in_allocator, pc, recursed>>

(* realloc to nothing: the pointer is gone, and so is the library's block.  *)
ReallocZero(t) ==
    \E h \in Handles :
        /\ Calling(t) /\ ~Busy(h) /\ var[h] # NULL
        /\ is_bootstrap_ptr(var[h].p) \/ is_aligned_ptr(var[h].p)
        /\ free(var[h].p)
        /\ Forget(var[h].p)
        /\ var' = [var EXCEPT ![h] = NULL]
        /\ UNCHANGED <<bootstrap_offset, in_allocator, pc, recursed>>

(* realloc of a pointer into the buffer or of an aligned one: malloc, then  *)
(* memcpy; an aligned block is freed once its contents are copied.          *)
ReallocMove(t) ==
    \E h \in Handles, n \in ReallocSizes \ {0} :
        LET p == var[h].p
        IN  /\ Calling(t) /\ ~Busy(h) /\ var[h] # NULL
            /\ is_bootstrap_ptr(p) \/ is_aligned_ptr(p)
            /\ IF in_allocator[t]
               THEN /\ bootstrap_alloc(h, Plain(n), copy_size(p, n))
                    /\ IF Fits(Plain(n)) THEN free(p)
                       ELSE UNCHANGED <<heap, aborted>>
                    /\ UNCHANGED <<in_allocator, pc, recursed>>
               ELSE /\ EnterLibrary(t, Call("malloc", h, Plain(n), copy_size(p, n)))
                    /\ UNCHANGED <<shimVars, heap, var, aborted>>

(* realloc of a block of the library; refused inside the library. *)
Realloc(t) ==
    \E h \in Handles, n \in ReallocSizes :
        LET p == var[h].p
        IN  /\ Calling(t) /\ ~Busy(h) /\ var[h] # NULL
            /\ ~is_bootstrap_ptr(p) /\ ~is_aligned_ptr(p)
            /\ IF in_allocator[t] THEN UNCHANGED vars
               ELSE /\ EnterLibrary(t, Call("realloc", h, Plain(n), n))
                    /\ UNCHANGED <<shimVars, heap, var, aborted>>
-----------------------------------------------------------------------------
(* What happens inside the library, and after it *)

Inside(t, op) == ~aborted /\ pc[t] # NULL /\ pc[t].op = op

Leave(t) ==
    /\ pc' = [pc EXCEPT ![t] = NULL]
    /\ in_allocator' = [in_allocator EXCEPT ![t] = FALSE]

(* Mutant: the block the pointer was moved from is forgotten. *)
LeaveForgetting(t, old) == Leave(t)
(* The thread leaves the library; the aligned block it moved from is next.  *)
LeaveMoved(t, old) ==
    /\ pc' = [pc EXCEPT ![t] = IF old = NULL \/ is_bootstrap_ptr(old.p) THEN NULL
                               ELSE [op |-> "free", h |-> pc[t].h,
                                     old |-> old.p, log |-> FALSE]]
    /\ in_allocator' = [in_allocator EXCEPT ![t] = FALSE]

MallocReturns(t) ==
    /\ Inside(t, "malloc") /\ ~pc[t].log /\ Total(pc[t].req) # 0
    /\ \E b \in FreeBases :
          LET c == pc[t]
              old == var[c.h]
          IN  /\ Lib!Place(b, Total(c.req))
              /\ boot' = GivenUp(boot, c.h)
              /\ ah' = AlignedHeader(IF old # NULL /\ ~is_bootstrap_ptr(old.p) THEN ah
                                     ELSE GivenUp(ah, c.h), c.req, b)
              /\ var' = [var EXCEPT ![c.h] = Holding(c.h, c.req, b, c.copied)]
    /\ LeaveMoved(t, var[pc[t].h])
    /\ UNCHANGED <<bootstrap_offset, recursed, aborted>>

FreeOld(t) ==
    /\ Inside(t, "free")
    /\ free(pc[t].old)
    /\ Forget(pc[t].old)
    /\ pc' = [pc EXCEPT ![t] = NULL]
    /\ UNCHANGED <<bootstrap_offset, in_allocator, var, recursed>>

ReallocReturns(t) ==
    /\ Inside(t, "realloc") /\ ~pc[t].log
    /\ LET c == pc[t]
           p == var[c.h].p
       IN  IF p \notin DOMAIN heap THEN aborted' = TRUE /\ UNCHANGED <<heap, var>>
           ELSE IF c.req.n = 0
           THEN my_free(p) /\ var' = [var EXCEPT ![c.h] = NULL]
           ELSE \E b \in FreeBases \cup {p} :
                   /\ b % ALIGNMENT = 0 /\ Lib!Apart(b, c.req.n)
                   /\ heap' = Put(Without(heap, p), b, c.req.n)
                   /\ var' = [var EXCEPT ![c.h] = Holding(c.h, c.req, b, c.copied)]
                   /\ UNCHANGED aborted
    /\ Leave(t)
    /\ UNCHANGED <<shimVars, recursed>>

(* A system call is refused, and the library logs it before it returns. *)
LibraryLogs(t) ==
    /\ Inside(t, "malloc") \/ Inside(t, "realloc")
    /\ ~pc[t].log /\ Total(pc[t].req) # 0
    /\ pc' = [pc EXCEPT ![t].log = TRUE]
    /\ UNCHANGED <<shimVars, heap, in_allocator, var, recursed, aborted>>

(* NULL is returned, and the handle keeps what it held: after a failure, or *)
(* at once for no bytes.                                                    *)
ReturnsNull(t) ==
    /\ Inside(t, "malloc") \/ Inside(t, "realloc")
    /\ pc[t].log = (Total(pc[t].req) # 0)
    /\ pc[t].op = "realloc" => pc[t].log
    /\ Leave(t)
    /\ UNCHANGED <<shimVars, heap, var, recursed, aborted>>

NoEntries == [x \in {} |-> NULL]
Init ==
    /\ bootstrap_offset = 0
    /\ boot = NoEntries /\ ah = NoEntries /\ heap = NoEntries
    /\ in_allocator = [t \in Threads |-> FALSE]
    /\ pc = [t \in Threads |-> NULL]
    /\ var = [h \in Handles |-> NULL]
    /\ recursed = FALSE /\ aborted = FALSE

Next ==
    \E t \in Threads :
        \/ Malloc(t) \/ Free(t) \/ ReallocZero(t) \/ ReallocMove(t) \/ Realloc(t)
        \/ MallocReturns(t) \/ FreeOld(t) \/ ReallocReturns(t)
        \/ LibraryLogs(t) \/ ReturnsNull(t)

Spec == Init /\ [][Next]_vars

-----------------------------------------------------------------------------
(* Properties *)

Held == {h \in Handles : var[h] # NULL}

(* The bytes a handle takes up, the headers the shim wrote included. *)
Footprint(h) ==
    LET p == var[h].p
        e == p + var[h].size - 1
    IN  IF is_bootstrap_ptr(p)
        THEN (IF p \in DOMAIN ah THEN p - HeaderSize - BootHeader
              ELSE p - BootHeader)..e
        ELSE (IF is_aligned_ptr(p) THEN p - HeaderSize ELSE p)..e

(* What a footprint must stay inside: the buffer, or the library's block. *)
Room(h) ==
    LET p == var[h].p
        b == IF is_aligned_ptr(p) THEN Base(p) ELSE p
    IN  IF is_bootstrap_ptr(p) THEN 0..(BOOTSTRAP_BUF_SIZE - 1)
        ELSE IF b \in DOMAIN heap THEN b..(b + heap[b] - 1)
        ELSE {}

(* preload_shim.c:48-57 and 97-124: pointers the program holds never share  *)
(* a byte with one another, with a header of the shim or with anything      *)
(* outside the buffer or the block they were placed in, even when threads   *)
(* reserve chunks past the end of the buffer.                               *)
RegionsDisjoint ==
    /\ \A h \in Held : Footprint(h) \subseteq Room(h)
    /\ \A h, g \in Held : h # g => Footprint(h) \cap Footprint(g) = {}

(* preload_shim.c:137-157 and 178-221: free and realloc recognise every     *)
(* pointer the shim handed out, and the library is only ever given the base *)
(* of a live block.                                                         *)
NeverRejected == ~aborted

(* preload_shim.c:204-211: each block of the library belongs to a handle,   *)
(* or to a realloc that is about to free it: no path loses a block, and     *)
(* none frees one that is still held.                                       *)
BlocksOwned ==
    ~aborted =>
        DOMAIN heap =
            {IF is_aligned_ptr(var[h].p) THEN Base(var[h].p) ELSE var[h].p :
                h \in {g \in Held : ~is_bootstrap_ptr(var[g].p)}}
            \cup {Base(pc[t].old) : t \in {u \in Threads : Inside(u, "free")}}

(* An aligned pointer that was placed in the buffer. *)
AlignedInBuffer(h) ==
    is_bootstrap_ptr(var[h].p) /\ var[h].p \in DOMAIN ah

(* preload_shim.c:186-194 and 205-208: realloc finds the size of what it    *)
(* moves, whichever kind of pointer it is, and the program's data survives  *)
(* as far as it fits.  Excepted are aligned pointers into the buffer: they  *)
(* have no bootstrap header in front of them, and nothing is copied.        *)
DataKept ==
    [][\A h \in Handles :
          var[h] # NULL /\ var'[h] # NULL /\ ~AlignedInBuffer(h)
             => var'[h].content >= Min({var[h].content, var'[h].size})]_vars

(* preload_shim.c:270-294: malloc_usable_size finds the size the program    *)
(* was given, whichever kind of pointer it asks about and however often it  *)
(* was moved; with the same exception.                                      *)
SizesKnown ==
    \A h \in Held : AlignedInBuffer(h) \/ malloc_usable_size(var[h].p) = var[h].size

(* preload_shim.c:127-135 and 217-219: while my_malloc or my_realloc works  *)
(* for a thread, nothing the thread calls enters either of them again; a    *)
(* failing allocation that logs would otherwise recurse without end.        *)
NoRecursion == ~recursed
=============================================================================
