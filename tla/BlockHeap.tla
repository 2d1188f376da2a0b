------------------------------ MODULE BlockHeap ------------------------------
(***************************************************************************)
(* The sbrk heap of allocator.c seen as a set of blocks, without boundary  *)
(* tags or list links: what every critical section of my_malloc, my_free   *)
(* and my_realloc does to the division of the heap into blocks.  Module    *)
(* Allocator, which has the tags and the links, implements this module.    *)
(***************************************************************************)
EXTENDS BlockLayout

CONSTANT Breaks   \* the values the kernel lets the program break take

ASSUME BreaksAssumption == Breaks \subseteq Nat

VARIABLES
    size,   \* start of each block -> its block_size
    used,   \* start of each allocated block -> its requested_size
    brk     \* the program break, sbrk(0)

vars == <<size, used, brk>>

Starts == DOMAIN size
Free   == Starts \ DOMAIN used
End(a) == a + size[a]

(* f with a mapped to v, whether or not f is defined at a. *)
Put(f, a, v) == [x \in DOMAIN f \cup {a} |-> IF x = a THEN v ELSE f[x]]

(* f without the elements of S. *)
Drop(f, S) == [x \in DOMAIN f \ S |-> f[x]]

(* Mutants: the remainder's size is taken before the block was shortened; *)
(* a remainder of exactly min_split bytes is not split off.               *)
CarveLongRest(f, a, e, need) ==
    IF e - a >= need + min_split
    THEN Put(Put(f, a, need), a + need, e - a)
    ELSE Put(f, a, e - a)
CarveStrict(f, a, e, need) ==
    IF e - a > need + min_split
    THEN Put(Put(f, a, need), a + need, e - (a + need))
    ELSE Put(f, a, e - a)

(* Block a, which now extends to byte e, keeps need bytes; the rest becomes *)
(* a free block when it is large enough to be one.                          *)
Carve(f, a, e, need) ==
    IF e - a >= need + min_split
    THEN Put(Put(f, a, need), a + need, e - (a + need))
    ELSE Put(f, a, e - a)

(* my_malloc, nothing on the free lists fits: the heap grows by one block. *)
Extend(n) ==
    /\ \A b \in Free : size[b] < TotalSize(n)
    /\ TotalSize(n) < MMAP_THRESHOLD
    /\ LET a == ALIGN(brk)
       IN  /\ size' = Put(size, a, TotalSize(n))
           /\ used' = Put(used, a, n)
           /\ brk' = a + TotalSize(n)
           /\ brk' \in Breaks

(* my_malloc, a free block fits: the smallest such block is taken. *)
Take(b, n) ==
    /\ size[b] >= TotalSize(n)
    /\ TotalSize(n) < MMAP_THRESHOLD
    /\ \A c \in Free : size[c] >= TotalSize(n) => size[b] <= size[c]
    /\ size' = Carve(size, b, End(b), TotalSize(n))
    /\ used' = Put(used, b, n)
    /\ UNCHANGED brk

(* Mutant: my_free does not look at the block before. *)
BeforeIgnored(b) == {}

(* The free neighbours of block b: none or one on each side. *)
After(b)  == {c \in Free : End(b) = c}
Before(b) == {c \in Free : End(c) = b}

(* my_free: block b becomes free and swallows, or is swallowed by, its free *)
(* neighbours.  lo and hi bound the block that results.                     *)
Release(b) ==
    /\ \E lo \in Before(b) \cup {b}, hi \in {End(c) : c \in After(b) \cup {b}} :
          /\ Before(b) # {} => lo # b
          /\ After(b) # {} => hi # End(b)
          /\ size' = Put(Drop(size, Before(b) \cup After(b) \cup {b}), lo, hi - lo)
    /\ used' = Drop(used, {b})
    /\ UNCHANGED brk

(* my_realloc Path 1: the block is large enough.  What is split off merges *)
(* with a free block that follows it.                                      *)
ResizeInPlace(b, n) ==
    /\ size[b] >= TotalSize(n)
    /\ IF size[b] >= TotalSize(n) + min_split
       THEN \E hi \in {End(c) : c \in After(b) \cup {b}} :
               /\ After(b) # {} => hi # End(b)
               /\ size' = Carve(Drop(size, After(b)), b, hi, TotalSize(n))
       ELSE UNCHANGED size
    /\ used' = Put(used, b, n)
    /\ UNCHANGED brk

(* Mutant: the free block that is swallowed stays on its list. *)
ExpandOverListed(b, c, n) ==
    /\ c \in After(b)
    /\ size[b] < TotalSize(n)
    /\ End(c) - b >= TotalSize(n)
    /\ TotalSize(n) < MMAP_THRESHOLD
    /\ size' = Carve(size, b, End(c), TotalSize(n))
    /\ used' = Put(used, b, n)
    /\ UNCHANGED brk

(* my_realloc Path 2: the block grows into the free block c that follows. *)
ExpandInPlace(b, c, n) ==
    /\ c \in After(b)
    /\ size[b] < TotalSize(n)
    /\ End(c) - b >= TotalSize(n)
    /\ TotalSize(n) < MMAP_THRESHOLD
    /\ size' = Carve(Drop(size, {c}), b, End(c), TotalSize(n))
    /\ used' = Put(used, b, n)
    /\ UNCHANGED brk

(* The host program moves the break, or ensure_break_aligned pads it. *)
MoveBreak(b) ==
    /\ b >= brk
    /\ brk' = b
    /\ UNCHANGED <<size, used>>

(* allocator_destroy: every block is forgotten; the break stays or goes back. *)
Reset(b) ==
    /\ b <= brk
    /\ brk' = b
    /\ size' = [a \in {} |-> 0]
    /\ used' = [a \in {} |-> 0]

Init ==
    /\ size = [a \in {} |-> 0]
    /\ used = [a \in {} |-> 0]
    /\ brk \in Breaks

Next ==
    \/ \E n \in Servable :
          \/ Extend(n)
          \/ \E b \in Free : Take(b, n)
          \/ \E b \in DOMAIN used :
                \/ ResizeInPlace(b, n)
                \/ \E c \in Free : ExpandInPlace(b, c, n)
    \/ \E b \in DOMAIN used : Release(b)
    \/ \E b \in Breaks : MoveBreak(b) \/ Reset(b)

Spec == Init /\ [][Next]_vars

-----------------------------------------------------------------------------

(* The variables have their types: blocks start at addresses, have sizes, *)
(* and the allocated ones remember the request they serve.                *)
TypeOK ==
    /\ Starts \subseteq Nat
    /\ size \in [Starts -> Nat]
    /\ DOMAIN used \subseteq Starts
    /\ used \in [DOMAIN used -> Servable]
    /\ brk \in Breaks

(* No two blocks share a byte and no block reaches past the break, however *)
(* the heap was split, coalesced and resized (the pointer arithmetic of    *)
(* my_malloc, my_free and my_realloc).                                     *)
BlocksDisjoint ==
    /\ \A a \in Starts : End(a) <= brk
    /\ \A a, b \in Starts : a < b => End(a) <= b

(* Coalescing is complete: two free blocks never touch, because my_free   *)
(* merges in both directions, my_realloc merges what it splits off, and   *)
(* the remainder that my_malloc or Path 2 splits off a free block, which  *)
(* neither tries to merge, never has a free block behind it.              *)
Coalesced == \A a, b \in Free : End(a) # b

(* An allocated block holds the request it serves and wastes less than    *)
(* min_split bytes on it, also after any number of in-place resizes.      *)
TightFit ==
    \A a \in DOMAIN used :
        /\ TotalSize(used[a]) <= size[a]
        /\ size[a] < TotalSize(used[a]) + min_split

(* Every block starts on an ALIGNMENT boundary, is a multiple of it long  *)
(* and has room for its header, its footer and ALIGNMENT bytes: what the  *)
(* checks in is_adjacent_free_block and allocator_verify_integrity need.  *)
WellSized ==
    \A a \in Starts :
        /\ a % ALIGNMENT = 0
        /\ size[a] % ALIGNMENT = 0
        /\ size[a] >= min_split

(* What the program holds: a pointer behind the header of each block in use. *)
Live == [p \in {a + HeaderSize : a \in DOMAIN used} |-> used[p - HeaderSize]]

Memory == INSTANCE MemSpec WITH live <- Live, Requests <- Servable, Alignment <- ALIGNMENT

(* The division into blocks keeps the promise of malloc: each call changes *)
(* at most the one region it is about, and a region it hands out or grows  *)
(* is aligned and apart from every other, through all splits and merges    *)
(* (my_malloc, my_free, my_realloc).                                       *)
ImplementsMemSpec == Memory!Spec
=============================================================================
