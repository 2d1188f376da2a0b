------------------------- MODULE PreloadShimLayout --------------------------
(***************************************************************************)
(* Where the shim's pointers lie: the layout of its tables, and what       *)
(* adding a pointer to them or giving one up does to it.  Everything here  *)
(* is about tables that are given, not about the steps that change them;   *)
(* PreloadShimProofs applies it to the steps.                              *)
(***************************************************************************)
EXTENDS PreloadShim, TLAPS

-----------------------------------------------------------------------------
(* The layout, as a predicate of the tables: bootstrap_offset o, bootstrap  *)
(* headers B, aligned headers A and live blocks H.                          *)

(* The block of an aligned pointer, as Base finds it. *)
BaseOf(A, p) == p - A[p].offset + HeaderSize

(* The pointers that are out: those with a header of the shim, and the      *)
(* blocks with no aligned pointer in them.                                  *)
OutOf(B, A, H) ==
    DOMAIN B \cup DOMAIN A \cup {b \in DOMAIN H : \A p \in DOMAIN A : BaseOf(A, p) # b}

(* The bytes behind a pointer. *)
SizeOf(B, A, H, p) ==
    IF p \in DOMAIN A THEN A[p].requested_size
    ELSE IF p \in DOMAIN B THEN B[p] ELSE H[p]

(* What a pointer into the buffer takes up, headers included. *)
LowOf(A, p) == IF p \in DOMAIN A THEN p - HeaderSize - BootHeader ELSE p - BootHeader
HighOf(B, A, p) == p + (IF p \in DOMAIN A THEN A[p].requested_size ELSE B[p])
BufferOf(B, A) == DOMAIN B \cup {p \in DOMAIN A : p < BOOTSTRAP_BUF_SIZE}

(* Addresses and sizes are numbers; headers and blocks of no bytes do not   *)
(* occur, but an aligned pointer may be to none.                            *)
Tables(o, B, A, H) ==
    /\ o \in Nat
    /\ B = [p \in DOMAIN B |-> B[p]]
    /\ A = [p \in DOMAIN A |-> A[p]]
    /\ H = [b \in DOMAIN H |-> H[b]]
    /\ \A p \in DOMAIN B : p \in Nat /\ B[p] \in Nat \ {0}
    /\ \A p \in DOMAIN A :
          p \in Nat /\ A[p].offset \in Nat /\ A[p].requested_size \in Nat
    /\ \A b \in DOMAIN H : b \in HeapBases /\ H[b] \in Nat \ {0}

(* Pointers into the buffer end below the offset and the end of the buffer, *)
(* have room for their headers and share no byte.                           *)
BufferLaid(o, B, A) ==
    /\ \A p \in DOMAIN B :
          /\ p \notin DOMAIN A /\ BootHeader <= p
          /\ p + B[p] <= o /\ p + B[p] <= BOOTSTRAP_BUF_SIZE
    /\ \A p \in DOMAIN A :
          p < BOOTSTRAP_BUF_SIZE =>
             /\ HeaderSize + BootHeader <= p
             /\ p + A[p].requested_size <= o
             /\ p + A[p].requested_size <= BOOTSTRAP_BUF_SIZE
    /\ \A p, q \in BufferOf(B, A) :
          p # q => \/ HighOf(B, A, p) <= LowOf(A, q)
                   \/ HighOf(B, A, q) <= LowOf(A, p)

(* Blocks are apart; an aligned pointer lies in a block of its own, with    *)
(* room for its header before it.                                           *)
HeapLaid(A, H) ==
    /\ \A b, c \in DOMAIN H : b < c => b + H[b] <= c
    /\ \A p \in DOMAIN A :
          /\ BaseOf(A, p) + HeaderSize <= p
          /\ p >= BOOTSTRAP_BUF_SIZE =>
                /\ BaseOf(A, p) \in DOMAIN H
                /\ p < BaseOf(A, p) + H[BaseOf(A, p)]
                /\ p + A[p].requested_size <= BaseOf(A, p) + H[BaseOf(A, p)]
    /\ \A p, q \in DOMAIN A :
          p >= BOOTSTRAP_BUF_SIZE /\ q >= BOOTSTRAP_BUF_SIZE /\ p # q
             => BaseOf(A, p) # BaseOf(A, q)

Layout(o, B, A, H) == Tables(o, B, A, H) /\ BufferLaid(o, B, A) /\ HeapLaid(A, H)

-----------------------------------------------------------------------------
(* Requests and sizes *)

(* What the entry points make of any arguments. *)
ProperRequest(req) ==
    \/ req = Plain(req.n) /\ req.n \in Nat
    \/ /\ req = [kind |-> "aligned", n |-> req.n, alignment |-> req.alignment, req |-> req.req]
       /\ req.n \in Nat \ {0} /\ req.alignment \in Nat \ {0} /\ req.req \in Nat
       /\ req.req <= req.n

(* ALIGN (preload_shim.c:45) and the place of an aligned pointer (113): the *)
(* multiple is reached in less than one alignment.                          *)
LEMMA RoundUpBounds ==
    ASSUME NEW n \in Nat, NEW a \in Nat \ {0}
    PROVE  RoundUp(n, a) \in Nat /\ n <= RoundUp(n, a) /\ RoundUp(n, a) < n + a
  BY DEF RoundUp

(* The greater of two. *)
LEMMA MaxOfTwo ==
    ASSUME NEW a \in Int, NEW b \in Int
    PROVE  Max({a, b}) = IF a >= b THEN a ELSE b
  BY DEF Max

(* The lesser of two. *)
LEMMA MinOfTwo ==
    ASSUME NEW a \in Int, NEW b \in Int
    PROVE  Min({a, b}) = IF a <= b THEN a ELSE b
  BY DEF Min

(* It is below both. *)
LEMMA MinBounds ==
    ASSUME NEW a \in Nat, NEW b \in Nat
    PROVE  /\ Min({a, b}) \in Nat /\ Min({a, b}) <= a /\ Min({a, b}) <= b
  BY MinOfTwo

(* malloc, calloc and small alignments ask for the bytes they are given. *)
LEMMA PlainProper ==
    ASSUME NEW n \in Nat
    PROVE  ProperRequest(Plain(n))
  BY DEF ProperRequest, Plain

(* aligned_alloc_internal (preload_shim.c:90-125) asks for at least the     *)
(* bytes the program may use.                                               *)
LEMMA AlignedProper ==
    ASSUME NEW a \in Nat \ {0}, NEW n \in Nat \ {0}, NEW req \in Nat, req <= n,
           Aligned(a, n, req) # Refused
    PROVE  ProperRequest(Aligned(a, n, req))
  BY DEF ProperRequest, Aligned

(* posix_memalign (preload_shim.c:223-243) never asks for zero bytes at a   *)
(* large alignment.                                                         *)
LEMMA MemalignProper ==
    ASSUME NEW a \in Nat, NEW n \in Nat, posix_memalign(a, n) # Refused
    PROVE  ProperRequest(posix_memalign(a, n))
  BY PlainProper, AlignedProper DEF posix_memalign, PTR, ALIGNMENT

(* So does every entry point, whatever its arguments. *)
LEMMA RequestsProper ==
    ASSUME NEW req \in AllocRequests
    PROVE  ProperRequest(req)
  <1>. USE ShimAssumption
  <1>. DEFINE AlignedSizes == {0} \cup Sizes
  <1>1. ASSUME NEW n \in Sizes PROVE ProperRequest(Plain(n))
    BY PlainProper
  <1>2. ASSUME NEW n \in Sizes, calloc(1, n) # Refused PROVE ProperRequest(calloc(1, n))
    BY <1>2, PlainProper DEF calloc
  <1>3. ASSUME calloc(2, SIZE_MAX) # Refused PROVE ProperRequest(calloc(2, SIZE_MAX))
    BY <1>3, PlainProper DEF calloc
  <1>4. ASSUME NEW a \in Alignments, NEW n \in AlignedSizes, aligned_alloc(a, n) # Refused
        PROVE  ProperRequest(aligned_alloc(a, n))
    BY <1>4, PlainProper, AlignedProper DEF aligned_alloc, ALIGNMENT
  <1>5. ASSUME NEW a \in Alignments, NEW n \in AlignedSizes, memalign(a, n) # Refused
        PROVE  ProperRequest(memalign(a, n))
    BY <1>5, MaxOfTwo, MemalignProper DEF memalign, PTR
  <1>6. ASSUME NEW n \in Nat, pvalloc(n) # Refused PROVE ProperRequest(pvalloc(n))
    <2>. DEFINE rounded == IF n = 0 THEN PAGE ELSE RoundUp(n, PAGE)
    <2>1. rounded \in Nat
      BY RoundUpBounds DEF ALIGNMENT
    <2>2. pvalloc(n) = posix_memalign(PAGE, rounded)
      BY <1>6 DEF pvalloc
    <2>. HIDE DEF rounded
    <2>. QED
      BY <1>6, <2>1, <2>2, MemalignProper
  <1>7. ASSUME NEW n \in Nat, valloc(n) # Refused PROVE ProperRequest(valloc(n))
    BY <1>7, MemalignProper DEF valloc
  <1>8. ASSUME NEW a \in Alignments, NEW n \in AlignedSizes, posix_memalign(a, n) # Refused
        PROVE  ProperRequest(posix_memalign(a, n))
    BY <1>8, MemalignProper
  <1>9. AlignedSizes \subseteq Nat /\ SIZE_MAX \in Nat
    OBVIOUS
  <1>. HIDE DEF AlignedSizes
  <1>10. req # Refused
    BY DEF AllocRequests
  <1>11. CASE req \in {Plain(n) : n \in Sizes} \/ req \in {calloc(1, n) : n \in Sizes}
    BY <1>1, <1>2, <1>10, <1>11
  <1>12. CASE req \in {calloc(2, SIZE_MAX), pvalloc(SIZE_MAX)}
    BY <1>3, <1>6, <1>9, <1>10, <1>12
  <1>13. ASSUME NEW a \in Alignments, NEW n \in AlignedSizes,
                req \in {posix_memalign(a, n), aligned_alloc(a, n), memalign(a, n)}
         PROVE  ProperRequest(req)
    BY <1>4, <1>5, <1>8, <1>10, <1>13
  <1>14. ASSUME NEW n \in AlignedSizes, req \in {valloc(n), pvalloc(n)}
         PROVE  ProperRequest(req)
    BY <1>6, <1>7, <1>9, <1>10, <1>14
  <1>. QED
    BY <1>11, <1>12, <1>13, <1>14 DEF AllocRequests, AlignedSizes

(* Bounds of what a request is given: Total is what the library or the      *)
(* buffer is asked for, Place where the pointer comes to lie.               *)
LEMMA PlaceBounds ==
    ASSUME NEW req, ProperRequest(req), req.kind # "plain", NEW base \in Nat
    PROVE  /\ Total(req) \in Nat \ {0} /\ Place(req, base) \in Nat
           /\ req.n \in Nat \ {0} /\ req.req \in Nat
           /\ base + HeaderSize <= Place(req, base)
           /\ Place(req, base) < base + Total(req)
           /\ Place(req, base) + req.req <= base + Total(req)
  <1>1. /\ req.n \in Nat \ {0} /\ req.alignment \in Nat \ {0} /\ req.req \in Nat
        /\ req.req <= req.n
    BY DEF ProperRequest, Plain
  <1>. DEFINE q == RoundUp(base + HeaderSize, req.alignment)
  <1>2. q \in Nat /\ base + HeaderSize <= q /\ q < base + HeaderSize + req.alignment
    <2>1. base + HeaderSize \in Nat
      BY DEF HeaderSize
    <2>. QED
      BY <1>1, <2>1, RoundUpBounds, Zenon
  <1>3. Place(req, base) = q /\ Total(req) = req.n + req.alignment + HeaderSize
    BY DEF Place, Total
  <1>. HIDE DEF q
  <1>. QED
    BY <1>1, <1>2, <1>3 DEF HeaderSize

(* A plain request is for what the program may use. *)
LEMMA PlainFacts ==
    ASSUME NEW req, ProperRequest(req), req.kind = "plain"
    PROVE  req = Plain(req.n) /\ req.n \in Nat /\ req.req = req.n /\ Total(req) = req.n
  BY DEF ProperRequest, Plain, Total

(* What a request comes to is a number of bytes. *)
LEMMA ProperTotal ==
    ASSUME NEW req, ProperRequest(req)
    PROVE  Total(req) \in Nat
  BY DEF ProperRequest, Plain, Total, HeaderSize

(* realloc is never asked for a size below zero. *)
LEMMA ReallocSizesAreNat == ReallocSizes \subseteq Nat
  <1>1. 2 * SIZE_MAX \in Nat
    BY ShimAssumption
  <1>2. reallocarray(2, SIZE_MAX) \subseteq Nat
    <2>1. CASE Overflows(2, SIZE_MAX)
      BY <2>1 DEF reallocarray
    <2>2. CASE ~Overflows(2, SIZE_MAX)
      <3>1. reallocarray(2, SIZE_MAX) = {2 * SIZE_MAX}
        BY <2>2 DEF reallocarray
      <3>. QED
        BY <1>1, <3>1
    <2>. QED
      BY <2>1, <2>2
  <1>. QED
    <2>1. Sizes \subseteq Nat /\ {0} \subseteq Nat
      BY ShimAssumption
    <2>. QED
      BY <1>2, <2>1, Zenon DEF ReallocSizes

-----------------------------------------------------------------------------
(* Adding a pointer, and giving one up *)

(* The pointers in S have the size and the kind they had. *)
Kept(S, B, A, H, B2, A2, H2) ==
    \A q \in S : /\ SizeOf(B2, A2, H2, q) = SizeOf(B, A, H, q)
                 /\ q \in DOMAIN A <=> q \in DOMAIN A2

(* One more pointer is out, with n bytes behind it. *)
Added(p, n, B, A, H, B2, A2, H2) ==
    /\ p \notin OutOf(B, A, H)
    /\ OutOf(B2, A2, H2) = OutOf(B, A, H) \cup {p}
    /\ SizeOf(B2, A2, H2, p) = n
    /\ Kept(OutOf(B, A, H), B, A, H, B2, A2, H2)

(* One less is. *)
Dropped(p, B, A, H, B2, A2, H2) ==
    /\ OutOf(B2, A2, H2) = OutOf(B, A, H) \ {p}
    /\ Kept(OutOf(B, A, H) \ {p}, B, A, H, B2, A2, H2)

(* A pointer that is out is a number; so is its size. *)
LEMMA OutIsNat ==
    ASSUME NEW o, NEW B, NEW A, NEW H, Layout(o, B, A, H), NEW p \in OutOf(B, A, H)
    PROVE  p \in Nat /\ SizeOf(B, A, H, p) \in Nat
  BY ShimAssumption DEF Layout, Tables, OutOf, SizeOf

(* Taking away what is not there. *)
LEMMA WithoutAbsent ==
    ASSUME NEW f, NEW x, f = [y \in DOMAIN f |-> f[y]], x \notin DOMAIN f
    PROVE  Without(f, x) = f
  BY DEF Without

(* A reservation that did not fit: the offset moves and no pointer does. *)
LEMMA SkipChunk ==
    ASSUME NEW o, NEW B, NEW A, NEW H, Layout(o, B, A, H), NEW o2 \in Nat, o <= o2
    PROVE  Layout(o2, B, A, H)
  <1>1. Tables(o2, B, A, H)
    BY DEF Layout, Tables
  <1>2. BufferLaid(o2, B, A)
    BY DEF Layout, BufferLaid, Tables
  <1>. QED
    BY <1>1, <1>2 DEF Layout

(* bootstrap_alloc (preload_shim.c:41-58): a chunk at the offset, its       *)
(* header first, lies behind everything in the buffer.                      *)
LEMMA AddChunk ==
    ASSUME NEW o, NEW B, NEW A, NEW H, Layout(o, B, A, H), NEW n \in Nat \ {0}, NEW o2 \in Nat,
           o + BootHeader + n <= o2, o2 <= BOOTSTRAP_BUF_SIZE
    PROVE  /\ Layout(o2, Put(B, o + BootHeader, n), A, H)
           /\ Added(o + BootHeader, n, B, A, H, Put(B, o + BootHeader, n), A, H)
  <1>. DEFINE p == o + BootHeader
              C == Put(B, p, n)
  <1>. USE ShimAssumption DEF BootHeader, HeaderSize
  <1>p. p \in Nat /\ p = o + 16
    BY DEF Layout, Tables
  <1>. HIDE DEF p
  <1>c. /\ DOMAIN C = DOMAIN B \cup {p} /\ C[p] = n
        /\ \A y \in DOMAIN B : y # p => C[y] = B[y]
        /\ C = [y \in DOMAIN C |-> C[y]]
    BY DEF Put
  <1>. HIDE DEF C
  <1>0. /\ p \in Nat /\ p = o + 16
        /\ DOMAIN C = DOMAIN B \cup {p} /\ C[p] = n
        /\ \A y \in DOMAIN B : y # p => C[y] = B[y]
        /\ C = [y \in DOMAIN C |-> C[y]]
    BY <1>p, <1>c
  <1>1. p \notin OutOf(B, A, H)
    BY <1>0 DEF Layout, Tables, BufferLaid, HeapLaid, OutOf
  <1>2. Tables(o2, C, A, H)
    BY <1>0 DEF Layout, Tables
  <1>3. BufferLaid(o2, C, A)
    <2>1. /\ \A q \in DOMAIN C : 
               /\ q \notin DOMAIN A /\ BootHeader <= q
               /\ q + C[q] <= o2 /\ q + C[q] <= BOOTSTRAP_BUF_SIZE
      BY <1>0, <1>1 DEF Layout, Tables, BufferLaid, OutOf
    <2>2. \A q \in DOMAIN A :
            q < BOOTSTRAP_BUF_SIZE =>
             /\ HeaderSize + BootHeader <= q
             /\ q + A[q].requested_size <= o2
             /\ q + A[q].requested_size <= BOOTSTRAP_BUF_SIZE
      BY <1>0, <1>1 DEF Layout, Tables, BufferLaid
    <2>3. \A q \in BufferOf(B, A) : 
             /\ HighOf(C, A, q) = HighOf(B, A, q) /\ LowOf(A, q) \in Int
             /\ HighOf(B, A, q) \in Int
             /\ HighOf(B, A, q) <= o
      BY <1>0, <1>1 DEF Layout, Tables, BufferLaid, OutOf, HighOf, BufferOf, LowOf
    <2>4. LowOf(A, p) = o /\ HighOf(C, A, p) \in Int
      BY <1>0, <1>1 DEF OutOf, LowOf, HighOf, Layout, Tables
    <2>5. BufferOf(C, A) = BufferOf(B, A) \cup {p}
      BY <1>0 DEF BufferOf
    <2>. QED
      BY <2>1, <2>2, <2>3, <2>4, <2>5 DEF Layout, BufferLaid
  <1>4. OutOf(C, A, H) = OutOf(B, A, H) \cup {p}
    BY <1>0 DEF OutOf
  <1>5. SizeOf(C, A, H, p) = n /\ Kept(OutOf(B, A, H), B, A, H, C, A, H)
    BY <1>0, <1>1 DEF SizeOf, Kept, OutOf
  <1>. QED
    BY <1>1, <1>2, <1>3, <1>4, <1>5 DEF Layout, Added, p, C

(* An aligned pointer into a new chunk, with its own header before it. *)
LEMMA AddAlignedChunk ==
    ASSUME NEW o, NEW B, NEW A, NEW H, Layout(o, B, A, H),
           NEW p \in Nat, NEW r \in Nat, NEW offset \in Nat, NEW o2 \in Nat,
           o + BootHeader + HeaderSize <= p, offset = p - (o + BootHeader - HeaderSize),
           p < o2, p + r <= o2, o2 <= BOOTSTRAP_BUF_SIZE, NEW C,
           C = Put(A, p, [offset |-> offset, requested_size |-> r])
    PROVE  Layout(o2, B, C, H) /\ Added(p, r, B, A, H, B, C, H)
  <1>. USE ShimAssumption DEF BootHeader, HeaderSize
  <1>1. /\ DOMAIN C = DOMAIN A \cup {p}
        /\ C[p].offset = offset /\ C[p].requested_size = r
        /\ \A y \in DOMAIN A : y # p => C[y] = A[y]
        /\ C = [y \in DOMAIN C |-> C[y]]
    BY DEF Put
  <1>2. p \notin OutOf(B, A, H)
    BY DEF Layout, Tables, BufferLaid, HeapLaid, OutOf
  <1>3. /\ BaseOf(C, p) = o + BootHeader
        /\ \A q \in DOMAIN A : C[q] = A[q] /\ BaseOf(C, q) = BaseOf(A, q)
    BY <1>1, <1>2 DEF BaseOf, OutOf, Layout, Tables
  <1>4. Tables(o2, B, C, H)
    BY <1>1, <1>3 DEF Layout, Tables
  <1>5. BufferLaid(o2, B, C)
    <2>1. \A q \in DOMAIN B :
             /\ q \notin DOMAIN C /\ BootHeader <= q
             /\ q + B[q] <= o2 /\ q + B[q] <= BOOTSTRAP_BUF_SIZE
      BY <1>1, <1>2 DEF Layout, Tables, BufferLaid, OutOf
    <2>2. \A q \in DOMAIN C :
             q < BOOTSTRAP_BUF_SIZE =>
                /\ HeaderSize + BootHeader <= q
                /\ q + C[q].requested_size <= o2
                /\ q + C[q].requested_size <= BOOTSTRAP_BUF_SIZE
      BY <1>1, <1>3 DEF Layout, Tables, BufferLaid
    <2>3. \A q \in BufferOf(B, A) :
             /\ HighOf(B, C, q) = HighOf(B, A, q) /\ LowOf(C, q) = LowOf(A, q)
             /\ LowOf(A, q) \in Int /\ HighOf(B, A, q) \in Int
             /\ HighOf(B, A, q) <= o
      BY <1>1, <1>2, <1>3
         DEF Layout, Tables, BufferLaid, OutOf, HighOf, BufferOf, LowOf
    <2>4. o <= LowOf(C, p) /\ LowOf(C, p) \in Int /\ HighOf(B, C, p) \in Int
      BY <1>1 DEF LowOf, HighOf, Layout, Tables
    <2>5. BufferOf(B, C) = BufferOf(B, A) \cup {p}
      BY <1>1 DEF BufferOf
    <2>6. o \in Nat
      BY DEF Layout, Tables
    <2>. QED
      BY <2>1, <2>2, <2>3, <2>4, <2>5, <2>6 DEF Layout, BufferLaid
  <1>6. HeapLaid(C, H)
    BY <1>1, <1>3 DEF Layout, Tables, HeapLaid
  <1>7. \A b \in DOMAIN H : BaseOf(C, p) # b
    BY <1>3 DEF Layout, Tables
  <1>8. OutOf(B, C, H) = OutOf(B, A, H) \cup {p}
    BY <1>1, <1>3, <1>7 DEF OutOf
  <1>9. SizeOf(B, C, H, p) = r /\ Kept(OutOf(B, A, H), B, A, H, B, C, H)
    BY <1>1, <1>2, <1>3 DEF SizeOf, Kept, OutOf
  <1>. QED
    BY <1>2, <1>4, <1>5, <1>6, <1>8, <1>9 DEF Layout, Added

(* A new block of the library. *)
LEMMA AddBlock ==
    ASSUME NEW o, NEW B, NEW A, NEW H, Layout(o, B, A, H),
           NEW b \in HeapBases \ DOMAIN H, NEW n \in Nat \ {0},
           \A c \in DOMAIN H : b + n <= c \/ c + H[c] <= b, NEW G, G = Put(H, b, n)
    PROVE  Layout(o, B, A, G) /\ Added(b, n, B, A, H, B, A, G)
  <1>. USE ShimAssumption DEF BootHeader, HeaderSize
  <1>1. /\ DOMAIN G = DOMAIN H \cup {b} /\ G[b] = n
        /\ \A y \in DOMAIN H : G[y] = H[y]
        /\ G = [y \in DOMAIN G |-> G[y]]
    BY DEF Put
  <1>2. \A p \in DOMAIN A : BaseOf(A, p) # b /\ p # b
    BY DEF Layout, Tables, HeapLaid, BaseOf
  <1>3. b \notin OutOf(B, A, H)
    BY <1>2 DEF Layout, Tables, BufferLaid, OutOf
  <1>4. Tables(o, B, A, G)
    BY <1>1 DEF Layout, Tables
  <1>5. HeapLaid(A, G)
    <2>1. \A c, d \in DOMAIN G : c < d => c + G[c] <= d
      BY <1>1 DEF Layout, Tables, HeapLaid
    <2>. QED
      BY <1>1, <2>1 DEF Layout, HeapLaid
  <1>6. OutOf(B, A, G) = OutOf(B, A, H) \cup {b}
    BY <1>1, <1>2 DEF OutOf
  <1>7. SizeOf(B, A, G, b) = n /\ Kept(OutOf(B, A, H), B, A, H, B, A, G)
    BY <1>1, <1>3 DEF SizeOf, Kept, OutOf
  <1>. QED
    BY <1>3, <1>4, <1>5, <1>6, <1>7 DEF Layout, Added

(* An aligned pointer into a new block of the library                       *)
(* (preload_shim.c:90-125).                                                 *)
LEMMA AddAlignedBlock ==
    ASSUME NEW o, NEW B, NEW A, NEW H, Layout(o, B, A, H),
           NEW b \in HeapBases \ DOMAIN H, NEW n \in Nat \ {0},
           \A c \in DOMAIN H : b + n <= c \/ c + H[c] <= b, NEW G, G = Put(H, b, n),
           NEW p \in Nat, NEW r \in Nat, NEW offset \in Nat,
           b + HeaderSize <= p, offset = p - (b - HeaderSize), p < b + n, p + r <= b + n,
           NEW C, C = Put(A, p, [offset |-> offset, requested_size |-> r])
    PROVE  Layout(o, B, C, G) /\ Added(p, r, B, A, H, B, C, G)
  <1>. USE ShimAssumption DEF BootHeader, HeaderSize
  <1>1. /\ DOMAIN G = DOMAIN H \cup {b} /\ G[b] = n
        /\ \A y \in DOMAIN H : G[y] = H[y]
        /\ G = [y \in DOMAIN G |-> G[y]]
    BY DEF Put
  <1>2. /\ DOMAIN C = DOMAIN A \cup {p}
        /\ C[p].offset = offset /\ C[p].requested_size = r
        /\ \A y \in DOMAIN A : y # p => C[y] = A[y]
        /\ C = [y \in DOMAIN C |-> C[y]]
    BY DEF Put
  <1>3. \A q \in DOMAIN A : BaseOf(A, q) # b /\ q # p
    BY DEF Layout, Tables, HeapLaid, BaseOf
  <1>4. p \notin OutOf(B, A, H)
    BY <1>3 DEF Layout, Tables, BufferLaid, OutOf
  <1>5. /\ BaseOf(C, p) = b
        /\ \A q \in DOMAIN A : C[q] = A[q] /\ BaseOf(C, q) = BaseOf(A, q)
    BY <1>2, <1>3 DEF BaseOf
  <1>6. Tables(o, B, C, G)
    BY <1>1, <1>2, <1>5 DEF Layout, Tables
  <1>7. BufferLaid(o, B, C)
    <2>1. \A q \in DOMAIN B : q \notin DOMAIN C
      BY <1>2, <1>4 DEF Layout, BufferLaid, OutOf
    <2>2. BufferOf(B, C) = BufferOf(B, A)
      BY <1>2 DEF BufferOf, Layout, Tables
    <2>3. \A q \in BufferOf(B, A) :
             HighOf(B, C, q) = HighOf(B, A, q) /\ LowOf(C, q) = LowOf(A, q)
      BY <1>2, <1>4, <1>5 DEF HighOf, LowOf, BufferOf, OutOf
    <2>. QED
      BY <1>2, <1>5, <2>1, <2>2, <2>3 DEF Layout, BufferLaid
  <1>8. HeapLaid(C, G)
    <2>1. \A c, d \in DOMAIN G : c < d => c + G[c] <= d
      BY <1>1 DEF Layout, Tables, HeapLaid
    <2>. QED
      BY <1>1, <1>2, <1>3, <1>5, <2>1 DEF Layout, HeapLaid
  <1>9. OutOf(B, C, G) = OutOf(B, A, H) \cup {p}
    BY <1>1, <1>2, <1>5 DEF OutOf
  <1>10. SizeOf(B, C, G, p) = r /\ Kept(OutOf(B, A, H), B, A, H, B, C, G)
    BY <1>1, <1>2, <1>4, <1>5 DEF SizeOf, Kept, OutOf
  <1>. QED
    BY <1>4, <1>6, <1>7, <1>8, <1>9, <1>10 DEF Layout, Added

(* A pointer into the buffer is given up; its chunk is not used again. *)
LEMMA DropChunk ==
    ASSUME NEW o, NEW B, NEW A, NEW H, Layout(o, B, A, H), NEW p \in DOMAIN B,
           NEW C, C = Without(B, p)
    PROVE  Layout(o, C, A, H) /\ Dropped(p, B, A, H, C, A, H)
  <1>1. /\ DOMAIN C = DOMAIN B \ {p} /\ \A y \in DOMAIN C : C[y] = B[y]
        /\ C = [y \in DOMAIN C |-> C[y]]
    BY DEF Without
  <1>2. p \notin DOMAIN A /\ p \notin DOMAIN H
    BY ShimAssumption DEF Layout, Tables, BufferLaid, HeaderSize
  <1>3. Tables(o, C, A, H)
    BY <1>1 DEF Layout, Tables
  <1>4. BufferLaid(o, C, A)
    <2>1. BufferOf(C, A) = BufferOf(B, A) \ {p}
      BY <1>1, <1>2 DEF BufferOf
    <2>2. \A q \in BufferOf(C, A) : HighOf(C, A, q) = HighOf(B, A, q)
      BY <1>1 DEF HighOf, BufferOf
    <2>. QED
      BY <1>1, <2>1, <2>2 DEF Layout, BufferLaid
  <1>5. OutOf(C, A, H) = OutOf(B, A, H) \ {p}
    BY <1>1, <1>2 DEF OutOf
  <1>6. Kept(OutOf(B, A, H) \ {p}, B, A, H, C, A, H)
    BY <1>1 DEF Kept, SizeOf
  <1>. QED
    BY <1>3, <1>4, <1>5, <1>6 DEF Layout, Dropped

(* An aligned pointer into the buffer is given up. *)
LEMMA DropAlignedChunk ==
    ASSUME NEW o, NEW B, NEW A, NEW H, Layout(o, B, A, H), NEW p \in DOMAIN A,
           p < BOOTSTRAP_BUF_SIZE, NEW C, C = Without(A, p)
    PROVE  Layout(o, B, C, H) /\ Dropped(p, B, A, H, B, C, H)
  <1>1. /\ DOMAIN C = DOMAIN A \ {p} /\ \A y \in DOMAIN C : C[y] = A[y]
        /\ C = [y \in DOMAIN C |-> C[y]]
    BY DEF Without
  <1>2. p \notin DOMAIN B /\ p \notin DOMAIN H /\ BaseOf(A, p) \notin DOMAIN H
    BY ShimAssumption DEF Layout, Tables, BufferLaid, HeapLaid, HeaderSize, BaseOf
  <1>3. \A q \in DOMAIN C : BaseOf(C, q) = BaseOf(A, q)
    BY <1>1 DEF BaseOf
  <1>4. Tables(o, B, C, H)
    BY <1>1 DEF Layout, Tables
  <1>5. BufferLaid(o, B, C)
    <2>1. BufferOf(B, C) = BufferOf(B, A) \ {p}
      BY <1>1, <1>2 DEF BufferOf
    <2>2. \A q \in BufferOf(B, C) :
             HighOf(B, C, q) = HighOf(B, A, q) /\ LowOf(C, q) = LowOf(A, q)
      BY <1>1, <1>2 DEF HighOf, LowOf, BufferOf
    <2>. QED
      BY <1>1, <2>1, <2>2 DEF Layout, BufferLaid
  <1>6. HeapLaid(C, H)
    BY <1>1, <1>3 DEF Layout, HeapLaid
  <1>7. OutOf(B, C, H) = OutOf(B, A, H) \ {p}
    BY <1>1, <1>2, <1>3 DEF OutOf
  <1>8. Kept(OutOf(B, A, H) \ {p}, B, A, H, B, C, H)
    BY <1>1 DEF Kept, SizeOf
  <1>. QED
    BY <1>4, <1>5, <1>6, <1>7, <1>8 DEF Layout, Dropped

(* An aligned pointer is given up with its block. *)
LEMMA DropAlignedBlock ==
    ASSUME NEW o, NEW B, NEW A, NEW H, Layout(o, B, A, H), NEW p \in DOMAIN A,
           p >= BOOTSTRAP_BUF_SIZE,
           NEW C, C = Without(A, p), NEW G, G = Without(H, BaseOf(A, p))
    PROVE  Layout(o, B, C, G) /\ Dropped(p, B, A, H, B, C, G)
  <1>1. /\ DOMAIN C = DOMAIN A \ {p} /\ \A y \in DOMAIN C : C[y] = A[y]
        /\ C = [y \in DOMAIN C |-> C[y]]
    BY DEF Without
  <1>2. /\ DOMAIN G = DOMAIN H \ {BaseOf(A, p)} /\ \A y \in DOMAIN G : G[y] = H[y]
        /\ G = [y \in DOMAIN G |-> G[y]]
    BY DEF Without
  <1>3. p \notin DOMAIN B /\ p \notin DOMAIN H
    <2>1. p \notin DOMAIN B
      BY ShimAssumption DEF Layout, Tables, BufferLaid
    <2>. DEFINE b == BaseOf(A, p)
    <2>2. b \in DOMAIN H /\ b + HeaderSize <= p /\ p < b + H[b]
      BY DEF Layout, HeapLaid
    <2>3. b \in Nat /\ p \in Nat /\ H[b] \in Nat
      BY <2>2, ShimAssumption DEF Layout, Tables
    <2>. HIDE DEF b
    <2>. QED
      BY <2>1, <2>2, <2>3 DEF Layout, HeapLaid, HeaderSize
  <1>4. \A q \in DOMAIN C : BaseOf(C, q) = BaseOf(A, q)
    BY <1>1 DEF BaseOf
  <1>5. Tables(o, B, C, G)
    BY <1>1, <1>2 DEF Layout, Tables
  <1>6. BufferLaid(o, B, C)
    <2>1. BufferOf(B, C) = BufferOf(B, A)
      BY <1>1, ShimAssumption DEF BufferOf, Layout, Tables
    <2>2. \A q \in BufferOf(B, C) :
             HighOf(B, C, q) = HighOf(B, A, q) /\ LowOf(C, q) = LowOf(A, q)
      BY <1>1, <1>3 DEF HighOf, LowOf, BufferOf
    <2>. QED
      BY <1>1, <2>1, <2>2 DEF Layout, BufferLaid
  <1>7. HeapLaid(C, G)
    BY <1>1, <1>2, <1>4 DEF Layout, HeapLaid
  <1>8. OutOf(B, C, G) = OutOf(B, A, H) \ {p}
    BY <1>1, <1>2, <1>3, <1>4 DEF OutOf
  <1>9. Kept(OutOf(B, A, H) \ {p}, B, A, H, B, C, G)
    BY <1>1, <1>2 DEF Kept, SizeOf, OutOf
  <1>. QED
    BY <1>5, <1>6, <1>7, <1>8, <1>9 DEF Layout, Dropped

(* A block is given up. *)
LEMMA DropBlock ==
    ASSUME NEW o, NEW B, NEW A, NEW H, Layout(o, B, A, H), NEW b \in OutOf(B, A, H),
           b \notin DOMAIN B, b \notin DOMAIN A, NEW G, G = Without(H, b)
    PROVE  Layout(o, B, A, G) /\ Dropped(b, B, A, H, B, A, G)
  <1>1. b \in DOMAIN H /\ \A p \in DOMAIN A : BaseOf(A, p) # b
    BY DEF OutOf
  <1>2. /\ DOMAIN G = DOMAIN H \ {b} /\ \A y \in DOMAIN G : G[y] = H[y]
        /\ G = [y \in DOMAIN G |-> G[y]]
    BY DEF Without
  <1>3. Tables(o, B, A, G)
    BY <1>2 DEF Layout, Tables
  <1>4. HeapLaid(A, G)
    BY <1>1, <1>2 DEF Layout, HeapLaid
  <1>5. OutOf(B, A, G) = OutOf(B, A, H) \ {b}
    BY <1>1, <1>2 DEF OutOf
  <1>6. Kept(OutOf(B, A, H) \ {b}, B, A, H, B, A, G)
    BY <1>2 DEF Kept, SizeOf, OutOf
  <1>. QED
    BY <1>3, <1>4, <1>5, <1>6 DEF Layout, Dropped

(* What free takes away with a pointer. *)
HeapWithout(A, H, p) ==
    IF p < BOOTSTRAP_BUF_SIZE THEN H
    ELSE IF p \in DOMAIN A THEN Without(H, BaseOf(A, p)) ELSE Without(H, p)

(* free (preload_shim.c:138-157) of any pointer that is out: it is gone,    *)
(* and every other is where it was.                                         *)
LEMMA GiveUp ==
    ASSUME NEW o, NEW B, NEW A, NEW H, Layout(o, B, A, H), NEW p \in OutOf(B, A, H)
    PROVE  /\ Layout(o, Without(B, p), Without(A, p), HeapWithout(A, H, p))
           /\ Dropped(p, B, A, H, Without(B, p), Without(A, p), HeapWithout(A, H, p))
  <1>1. B = [y \in DOMAIN B |-> B[y]] /\ A = [y \in DOMAIN A |-> A[y]]
    BY DEF Layout, Tables
  <1>2. CASE p \in DOMAIN B
    <2>1. p < BOOTSTRAP_BUF_SIZE /\ p \notin DOMAIN A
      BY <1>2, ShimAssumption DEF Layout, Tables, BufferLaid
    <2>2. Without(A, p) = A
      BY <1>1, <2>1, WithoutAbsent
    <2>. QED
      BY <1>2, <2>1, <2>2, DropChunk DEF HeapWithout
  <1>3. CASE p \notin DOMAIN B /\ p \in DOMAIN A
    <2>1. Without(B, p) = B
      BY <1>1, <1>3, WithoutAbsent
    <2>2. p \in Nat /\ BOOTSTRAP_BUF_SIZE \in Nat
      BY <1>3, ShimAssumption DEF Layout, Tables
    <2>3. CASE p < BOOTSTRAP_BUF_SIZE
      BY <1>3, <2>1, <2>3, DropAlignedChunk DEF HeapWithout
    <2>4. CASE p >= BOOTSTRAP_BUF_SIZE
      BY <1>3, <2>1, <2>2, <2>4, DropAlignedBlock DEF HeapWithout
    <2>. QED
      BY <2>2, <2>3, <2>4
  <1>4. CASE p \notin DOMAIN B /\ p \notin DOMAIN A
    <2>1. Without(B, p) = B /\ Without(A, p) = A
      BY <1>1, <1>4, WithoutAbsent
    <2>2. ~(p < BOOTSTRAP_BUF_SIZE)
      BY <1>4, ShimAssumption DEF Layout, Tables, OutOf, HeaderSize
    <2>. QED
      BY <1>4, <2>1, <2>2, DropBlock DEF HeapWithout
  <1>. QED
    BY <1>2, <1>3, <1>4
=============================================================================
