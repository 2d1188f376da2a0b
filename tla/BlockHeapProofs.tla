--------------------------- MODULE BlockHeapProofs ---------------------------
(***************************************************************************)
(* Proofs about BlockHeap, for every set of requests, every threshold and  *)
(* every behaviour of the kernel's break.                                  *)
(***************************************************************************)
EXTENDS BlockHeap, TLAPS

(* Rounding up to ALIGNMENT. *)
LEMMA AlignFacts ==
    \A n \in Nat : ALIGN(n) \in Nat /\ ALIGN(n) >= n /\ ALIGN(n) % ALIGNMENT = 0
  BY DEF ALIGN, ALIGNMENT

(* Sums of multiples of ALIGNMENT are multiples of it. *)
LEMMA AlignedSum ==
    \A x, y \in Nat : x % ALIGNMENT = 0 /\ y % ALIGNMENT = 0 => (x + y) % ALIGNMENT = 0
  BY DEF ALIGNMENT

(* A request that is served takes a multiple of ALIGNMENT bytes, at least *)
(* min_split of them.                                                     *)
LEMMA TotalSizeFacts ==
    \A n \in Servable : /\ n \in Nat
                        /\ TotalSize(n) \in Nat
                        /\ TotalSize(n) % ALIGNMENT = 0
                        /\ TotalSize(n) >= min_split
  <1> SUFFICES ASSUME NEW n \in Servable
               PROVE  /\ n \in Nat
                      /\ TotalSize(n) \in Nat
                      /\ TotalSize(n) % ALIGNMENT = 0
                      /\ TotalSize(n) >= min_split
    OBVIOUS
  <1>1. n \in Nat /\ n > 0
    BY LayoutAssumption DEF Servable
  <1>2. ALIGN(n) \in Nat /\ ALIGN(n) >= n /\ ALIGN(n) % ALIGNMENT = 0
    BY <1>1, AlignFacts
  <1>. QED
    BY <1>1, <1>2 DEF TotalSize, min_split, HeaderSize, FooterSize, ALIGNMENT

(* What Put and Drop do to a function. *)
LEMMA PutFacts ==
    ASSUME NEW f, NEW a, NEW v
    PROVE  /\ DOMAIN Put(f, a, v) = DOMAIN f \cup {a}
           /\ Put(f, a, v)[a] = v
           /\ \A x \in DOMAIN f : x # a => Put(f, a, v)[x] = f[x]
           /\ Put(f, a, v) = [x \in DOMAIN Put(f, a, v) |-> Put(f, a, v)[x]]
  BY DEF Put

(* Drop removes elements and keeps the values of the others. *)
LEMMA DropFacts ==
    ASSUME NEW f, NEW S
    PROVE  /\ DOMAIN Drop(f, S) = DOMAIN f \ S
           /\ \A x \in DOMAIN f \ S : Drop(f, S)[x] = f[x]
           /\ Drop(f, S) = [x \in DOMAIN Drop(f, S) |-> Drop(f, S)[x]]
  BY DEF Drop

-----------------------------------------------------------------------------
(***************************************************************************)
(* Every step that changes the division into blocks removes the blocks R,  *)
(* which together cover the bytes lo .. hi - 1, and puts one block there   *)
(* (m = hi) or two that meet at m.  Outside says so of R;                  *)
(* Redivided says so of the new sizes.                                     *)
(***************************************************************************)

Outside(R, lo, hi) == \A c \in Starts \ R : End(c) <= lo \/ hi <= c

Pieces(lo, m, hi) == IF m = hi THEN {lo} ELSE {lo, m}

Redivided(g, R, lo, m, hi) ==
    /\ g = [x \in DOMAIN g |-> g[x]]
    /\ DOMAIN g = (Starts \ R) \cup Pieces(lo, m, hi)
    /\ g[lo] = m - lo
    /\ m # hi => g[m] = hi - m
    /\ \A c \in Starts \ R : g[c] = size[c]

WellCut(lo, m, hi) ==
    /\ lo % ALIGNMENT = 0 /\ m % ALIGNMENT = 0 /\ hi % ALIGNMENT = 0
    /\ m - lo >= min_split
    /\ m = hi \/ hi - m >= min_split

(* Such a step keeps the blocks disjoint and well sized. *)
LEMMA RedivisionKeepsBlocks ==
    ASSUME TypeOK, BlocksDisjoint, WellSized,
           NEW R \in SUBSET Starts, NEW lo \in Nat, NEW m \in Nat, NEW hi \in Nat,
           NEW g, NEW limit \in Nat,
           brk <= limit, hi <= limit,
           Outside(R, lo, hi),
           Redivided(g, R, lo, m, hi),
           WellCut(lo, m, hi)
    PROVE  /\ DOMAIN g \subseteq Nat
           /\ g \in [DOMAIN g -> Nat]
           /\ \A a \in DOMAIN g : a + g[a] <= limit
           /\ \A a, b \in DOMAIN g : a < b => a + g[a] <= b
           /\ \A a \in DOMAIN g : /\ a % ALIGNMENT = 0
                                  /\ g[a] % ALIGNMENT = 0
                                  /\ g[a] >= min_split
  <1>1. Starts \subseteq Nat /\ brk \in Nat /\ \A a \in Starts : size[a] \in Nat
    BY BreaksAssumption DEF TypeOK
  <1>2. lo < m /\ m <= hi /\ m - lo \in Nat /\ hi - m \in Nat
    BY DEF WellCut, min_split, HeaderSize, FooterSize
  <1>3. \A c \in Starts \ R : /\ c \in Nat /\ size[c] \in Nat /\ g[c] = size[c]
                              /\ c + size[c] <= limit
                              /\ c + size[c] <= lo \/ hi <= c
    BY <1>1 DEF BlocksDisjoint, End, Outside, Redivided
  <1>4. \A a \in DOMAIN g : a \in Starts \ R \/ a = lo \/ (a = m /\ m # hi)
    BY DEF Redivided, Pieces
  <1>a. g[lo] = m - lo /\ (m # hi => g[m] = hi - m)
    BY DEF Redivided
  <1>5. DOMAIN g \subseteq Nat /\ \A a \in DOMAIN g : g[a] \in Nat
    BY <1>2, <1>3, <1>4, <1>a
  <1>6. g \in [DOMAIN g -> Nat]
    BY <1>5 DEF Redivided
  <1>7. \A a \in DOMAIN g : a + g[a] <= limit
    BY <1>2, <1>3, <1>4, <1>a
  <1>8. \A a, b \in DOMAIN g : a < b => a + g[a] <= b
    <2> SUFFICES ASSUME NEW a \in DOMAIN g, NEW b \in DOMAIN g, a < b
                 PROVE  a + g[a] <= b
      OBVIOUS
    <2>1. CASE a \in Starts \ R /\ b \in Starts \ R
      BY <2>1, <1>3 DEF BlocksDisjoint, End
    <2>2. CASE a \in Starts \ R /\ b \notin Starts \ R
      BY <2>2, <1>2, <1>3, <1>4
    <2>3. CASE a \notin Starts \ R /\ b \in Starts \ R
      <3>1. size[b] > 0
        BY <2>3, <1>3 DEF WellSized, min_split, HeaderSize, FooterSize
      <3>. QED
        BY <2>3, <3>1, <1>2, <1>3, <1>4, <1>a
    <2>4. CASE a \notin Starts \ R /\ b \notin Starts \ R
      BY <2>4, <1>2, <1>4, <1>a
    <2>. QED
      BY <2>1, <2>2, <2>3, <2>4
  <1>9. \A a \in DOMAIN g : /\ a % ALIGNMENT = 0
                            /\ g[a] % ALIGNMENT = 0
                            /\ g[a] >= min_split
    <2>1. (m - lo) % ALIGNMENT = 0 /\ (hi - m) % ALIGNMENT = 0
      BY <1>2 DEF WellCut, ALIGNMENT
    <2>2. \A c \in Starts \ R : /\ c % ALIGNMENT = 0
                                /\ size[c] % ALIGNMENT = 0
                                /\ size[c] >= min_split
      BY DEF WellSized
    <2>. QED
      BY <2>1, <2>2, <1>3, <1>4, <1>a DEF WellCut
  <1>. QED
    BY <1>5, <1>6, <1>7, <1>8, <1>9

(***************************************************************************)
(* The inductive invariant.  The five invariants need each other: a        *)
(* remainder is only known to have no free block behind it because the     *)
(* block it comes from was coalesced, and what is coalesced only covers    *)
(* its bytes without overlap because the blocks were disjoint.             *)
(***************************************************************************)
IInv == TypeOK /\ BlocksDisjoint /\ Coalesced /\ TightFit /\ WellSized

(* The facts about types that the steps below use. *)
LEMMA TypeFacts ==
    ASSUME TypeOK, WellSized
    PROVE  /\ brk \in Nat /\ brk \in Breaks
           /\ \A a \in Starts : /\ a \in Nat /\ size[a] \in Nat /\ End(a) \in Nat
                                /\ size[a] > 0 /\ a < End(a)
           /\ \A a \in DOMAIN used : a \in Starts /\ used[a] \in Servable
           /\ Free \subseteq Starts
  <1>1. /\ brk \in Nat
        /\ \A a \in Starts : a \in Nat /\ size[a] \in Nat
        /\ \A a \in DOMAIN used : a \in Starts /\ used[a] \in Servable
    BY BreaksAssumption DEF TypeOK
  <1>2. \A a \in Starts : size[a] > 0
    BY <1>1 DEF WellSized, min_split, HeaderSize, FooterSize
  <1>. QED
    BY <1>1, <1>2 DEF TypeOK, End, Free

(***************************************************************************)
(* A step that gives the bytes from b up to m to a request of n bytes, and *)
(* makes a free block of those from m up to e, preserves the invariant.    *)
(* my_malloc and both in-place paths of my_realloc are such steps.         *)
(***************************************************************************)
Serves(b, m, e, n, R) ==
    /\ R \subseteq Starts
    /\ \A c \in R : c = b \/ c \in Free
    /\ Outside(R, b, e)
    /\ WellCut(b, m, e)
    /\ Redivided(size', R, b, m, e)
    /\ TotalSize(n) <= m - b /\ m - b < TotalSize(n) + min_split
    /\ m # e => \A c \in Free \ R : c # e
    /\ used' = Put(used, b, n)
    /\ brk <= brk' /\ e <= brk'
    /\ brk' \in Breaks

(* Such a step, which serves request n with block b, keeps the invariant: *)
(* what each of the serving paths of my_malloc and my_realloc does.       *)
LEMMA ServingKeepsIInv ==
    ASSUME IInv, NEW b \in Nat, NEW m \in Nat, NEW e \in Nat,
           NEW n \in Servable, NEW R, Serves(b, m, e, n, R)
    PROVE  IInv'
  <1>. USE DEF IInv
  <1>1. /\ brk \in Nat /\ brk' \in Nat
        /\ \A a \in Starts : /\ a \in Nat /\ size[a] \in Nat /\ End(a) \in Nat
                             /\ size[a] > 0 /\ a < End(a)
        /\ \A a \in DOMAIN used : a \in Starts /\ used[a] \in Servable
        /\ Free \subseteq Starts
    BY TypeFacts, BreaksAssumption DEF Serves
  <1>2. b < m /\ m <= e /\ m - b \in Nat /\ e - m \in Nat
    BY DEF Serves, WellCut, min_split, HeaderSize, FooterSize
  <1>3. /\ DOMAIN size' \subseteq Nat
        /\ size' \in [DOMAIN size' -> Nat]
        /\ \A a \in DOMAIN size' : a + size'[a] <= brk'
        /\ \A a, c \in DOMAIN size' : a < c => a + size'[a] <= c
        /\ \A a \in DOMAIN size' : /\ a % ALIGNMENT = 0
                                   /\ size'[a] % ALIGNMENT = 0
                                   /\ size'[a] >= min_split
    BY <1>1, RedivisionKeepsBlocks DEF Serves
  <1>4. BlocksDisjoint' /\ WellSized'
    BY <1>3 DEF BlocksDisjoint, WellSized, Starts, End
  <1>5. /\ DOMAIN size' = (Starts \ R) \cup Pieces(b, m, e)
        /\ size'[b] = m - b
        /\ m # e => size'[m] = e - m
        /\ \A c \in Starts \ R : size'[c] = size[c]
    BY DEF Serves, Redivided
  <1>6. /\ DOMAIN used' = DOMAIN used \cup {b}
        /\ used'[b] = n
        /\ \A c \in DOMAIN used : c # b => used'[c] = used[c]
        /\ used' = [c \in DOMAIN used' |-> used'[c]]
    <2>1. used' = Put(used, b, n)
      BY DEF Serves
    <2>. QED
      BY ONLY <2>1 DEF Put
  <1>7. \A c \in DOMAIN used : c # b => c \in Starts \ R
    BY <1>1 DEF Serves, Free
  <1>8. TypeOK'
    <2>1. DOMAIN used' \subseteq DOMAIN size'
      BY <1>5, <1>6, <1>7 DEF Pieces
    <2>2. used' \in [DOMAIN used' -> Servable]
      BY <1>1, <1>6
    <2>. QED
      BY <1>3, <2>1, <2>2 DEF TypeOK, Starts, Serves
  <1>9. TightFit'
    <2>1. \A a \in DOMAIN used' :
             \/ a = b
             \/ a \in DOMAIN used /\ a # b /\ used'[a] = used[a] /\ size'[a] = size[a]
      BY <1>5, <1>6, <1>7
    <2>. QED
      BY <2>1, <1>5, <1>6 DEF TightFit, Serves
  <1>10. Coalesced'
    <2>1. \A a \in Free' : \/ a \in Free \ R /\ size'[a] = size[a]
                           \/ a = m /\ m # e
      BY <1>5, <1>6 DEF Free, Starts, Pieces
    <2> SUFFICES ASSUME NEW a \in Free', NEW c \in Free'
                 PROVE  a + size'[a] # c
      BY DEF Coalesced, End
    <2>2. CASE a \in Free \ R /\ size'[a] = size[a] /\ c \in Free \ R
      BY <2>2 DEF Coalesced, End
    <2>3. CASE a \in Free \ R /\ size'[a] = size[a] /\ c = m /\ m # e
      BY <2>3, <1>1, <1>2 DEF Serves, Outside, End
    <2>4. CASE a = m /\ m # e
      <3>1. a + size'[a] = e
        BY <2>4, <1>2, <1>5
      <3>. QED
        BY <3>1, <2>1, <2>4 DEF Serves
    <2>. QED
      BY <2>1, <2>2, <2>3, <2>4
  <1>. QED
    BY <1>4, <1>8, <1>9, <1>10

(***************************************************************************)
(* Carve redivides: of a region from b up to e, b keeps the bytes up to m, *)
(* where m is b + need or, when the rest is too small for a block, e.      *)
(***************************************************************************)
Cut(b, e, need) == IF e - b >= need + min_split THEN b + need ELSE e

Carvable(f, R, b, e, need) ==
    /\ f = [x \in DOMAIN f |-> f[x]]
    /\ DOMAIN f = (Starts \ R) \cup {b}
    /\ \A c \in Starts \ R : c \in Nat /\ (c < b \/ e <= c) /\ f[c] = size[c]
    /\ b % ALIGNMENT = 0 /\ e % ALIGNMENT = 0 /\ need % ALIGNMENT = 0
    /\ need >= min_split /\ b + need <= e

(* The split of my_malloc and my_realloc divides the bytes from b to e into *)
(* one block or two, and gives b a size that fits.                          *)
LEMMA CarveRedivides ==
    ASSUME NEW f, NEW R, NEW b \in Nat, NEW e \in Nat, NEW need \in Nat,
           Carvable(f, R, b, e, need)
    PROVE  /\ Cut(b, e, need) \in Nat
           /\ WellCut(b, Cut(b, e, need), e)
           /\ Redivided(Carve(f, b, e, need), R, b, Cut(b, e, need), e)
           /\ need <= Cut(b, e, need) - b
           /\ Cut(b, e, need) - b < need + min_split
  <1>1. Cut(b, e, need) \in Nat /\ WellCut(b, Cut(b, e, need), e)
    BY DEF Carvable, Cut, WellCut, ALIGNMENT, min_split, HeaderSize, FooterSize
  <1>2. /\ need <= Cut(b, e, need) - b
        /\ Cut(b, e, need) - b < need + min_split
    BY DEF Carvable, Cut, min_split, HeaderSize, FooterSize
  <1>3. Redivided(Carve(f, b, e, need), R, b, Cut(b, e, need), e)
    <2>a. b < e /\ b + need <= e /\ need > 0
      BY DEF Carvable, min_split, HeaderSize, FooterSize
    <2>b. /\ f = [x \in DOMAIN f |-> f[x]]
          /\ DOMAIN f = (Starts \ R) \cup {b}
          /\ \A c \in Starts \ R : /\ c # b /\ f[c] = size[c]
                                   /\ c \in Nat /\ (c < b \/ e <= c)
      BY <2>a DEF Carvable
    <2>1. CASE e - b >= need + min_split
      <3>1. /\ Cut(b, e, need) = b + need
            /\ b + need # b /\ b + need # e /\ need = (b + need) - b
        BY <2>1, <2>a DEF Cut, min_split, HeaderSize, FooterSize
      <3>a. \A c \in Starts \ R : c # b + need
        BY <2>1, <2>a, <2>b DEF min_split, HeaderSize, FooterSize
      <3>2. Carve(f, b, e, need) = Put(Put(f, b, need), b + need, e - (b + need))
        BY <2>1 DEF Carve
      <3>. DEFINE g == Put(f, b, need)
                  h == Put(g, b + need, e - (b + need))
      <3>3. DOMAIN g = (Starts \ R) \cup {b} /\ g[b] = need
            /\ \A c \in Starts \ R : g[c] = size[c]
        BY <2>b DEF Put
      <3>4. /\ DOMAIN h = (Starts \ R) \cup {b, b + need}
            /\ h[b] = need /\ h[b + need] = e - (b + need)
            /\ \A c \in Starts \ R : h[c] = size[c]
            /\ h = [x \in DOMAIN h |-> h[x]]
        <4>. HIDE DEF g
        <4>. QED
          BY <3>1, <3>a, <3>3 DEF Put
      <3>. QED
        BY <3>1, <3>2, <3>4 DEF Redivided, Pieces
    <2>2. CASE ~(e - b >= need + min_split)
      <3>1. Cut(b, e, need) = e /\ Carve(f, b, e, need) = Put(f, b, e - b)
        BY <2>2 DEF Cut, Carve
      <3>2. LET g == Put(f, b, e - b)
            IN  /\ DOMAIN g = (Starts \ R) \cup {b} /\ g[b] = e - b
                /\ \A c \in Starts \ R : g[c] = size[c]
                /\ g = [x \in DOMAIN g |-> g[x]]
        BY <2>b DEF Put
      <3>. QED
        BY <3>1, <3>2 DEF Redivided, Pieces
    <2>. QED
      BY <2>1, <2>2
  <1>. QED
    BY <1>1, <1>2, <1>3

-----------------------------------------------------------------------------
(* One lemma per action. *)

(* my_malloc, growing the heap, keeps the invariant. *)
LEMMA ExtendKeepsIInv ==
    ASSUME IInv, NEW n \in Servable, Extend(n)
    PROVE  IInv'
  <1>. DEFINE a == ALIGN(brk)
             e == a + TotalSize(n)
  <1>1. /\ brk \in Nat
        /\ \A c \in Starts : /\ c \in Nat /\ size[c] \in Nat /\ End(c) \in Nat
                             /\ size[c] > 0 /\ c < End(c) /\ End(c) <= brk
        /\ Free \subseteq Starts
    BY TypeFacts DEF IInv, BlocksDisjoint
  <1>2. a \in Nat /\ a >= brk /\ a % ALIGNMENT = 0
    BY <1>1, AlignFacts
  <1>3. /\ TotalSize(n) \in Nat /\ TotalSize(n) % ALIGNMENT = 0
        /\ TotalSize(n) >= min_split
    BY TotalSizeFacts
  <1>4. /\ size' = Put(size, a, TotalSize(n))
        /\ used' = Put(used, a, n)
        /\ brk' = e
        /\ brk' \in Breaks
    BY DEF Extend
  <1>. HIDE DEF a
  <1>5. e \in Nat /\ e - a = TotalSize(n) /\ a < e /\ e % ALIGNMENT = 0
    <2>1. e \in Nat /\ e - a = TotalSize(n) /\ a < e
      BY <1>2, <1>3 DEF min_split, HeaderSize, FooterSize
    <2>. QED
      BY <1>2, <1>3, <2>1, AlignedSum
  <1>. HIDE DEF e
  <1>6. Redivided(size', {}, a, e, e)
    <2>1. a \notin Starts
      BY <1>1, <1>2
    <2>2. /\ DOMAIN size' = Starts \cup {a}
          /\ size'[a] = TotalSize(n)
          /\ \A c \in Starts : c # a => size'[c] = size[c]
          /\ size' = [x \in DOMAIN size' |-> size'[x]]
      BY <1>4 DEF Put, Starts
    <2>. QED
      BY <1>5, <2>1, <2>2 DEF Redivided, Pieces
  <1>7. WellCut(a, e, e)
    BY <1>2, <1>3, <1>5 DEF WellCut
  <1>8. Outside({}, a, e)
    BY <1>1, <1>2 DEF Outside
  <1>9. Serves(a, e, e, n, {})
    <2>1. TotalSize(n) <= e - a /\ e - a < TotalSize(n) + min_split
      BY <1>3, <1>5 DEF min_split, HeaderSize, FooterSize
    <2>2. brk <= brk' /\ e <= brk'
      BY <1>1, <1>2, <1>4, <1>5
    <2>. QED
      BY <1>4, <1>6, <1>7, <1>8, <2>1, <2>2 DEF Serves
  <1>. QED
    BY <1>2, <1>5, <1>9, ServingKeepsIInv

(* What the remaining lemmas use of the invariant, and of a request. *)
LEMMA HeapFacts ==
    ASSUME IInv
    PROVE  /\ brk \in Nat /\ brk \in Breaks
           /\ Free \subseteq Starts /\ DOMAIN used \subseteq Starts
           /\ Free \cap DOMAIN used = {}
           /\ \A a \in Starts : /\ a \in Nat /\ size[a] \in Nat /\ End(a) \in Nat
                                /\ End(a) = a + size[a]
                                /\ a < End(a) /\ End(a) <= brk
                                /\ a % ALIGNMENT = 0 /\ End(a) % ALIGNMENT = 0
           /\ \A a, c \in Starts : a < c => End(a) <= c
           /\ \A a, c \in Free : End(a) # c
  <1>1. /\ brk \in Nat /\ brk \in Breaks
        /\ \A a \in Starts : /\ a \in Nat /\ size[a] \in Nat /\ End(a) \in Nat
                             /\ size[a] > 0 /\ a < End(a)
        /\ \A a \in DOMAIN used : a \in Starts /\ used[a] \in Servable
        /\ Free \subseteq Starts
    BY TypeFacts DEF IInv
  <1>2. \A a \in Starts : a % ALIGNMENT = 0 /\ End(a) % ALIGNMENT = 0
    BY <1>1, AlignedSum DEF IInv, WellSized, End
  <1>. QED
    BY <1>1, <1>2 DEF IInv, BlocksDisjoint, Coalesced, Free, End

(***************************************************************************)
(* A step that gives a request of n bytes the start of the region from b   *)
(* up to e, made of b and free blocks, preserves the invariant.  f is size *)
(* without the free blocks of the region.                                  *)
(***************************************************************************)
Carves(f, R, b, e, n) ==
    /\ R \subseteq Starts
    /\ b \in R
    /\ \A c \in R : c = b \/ c \in Free
    /\ f = [x \in DOMAIN f |-> f[x]]
    /\ DOMAIN f = (Starts \ R) \cup {b}
    /\ \A c \in Starts \ R : f[c] = size[c]
    /\ e <= brk /\ e % ALIGNMENT = 0
    /\ b + TotalSize(n) <= e
    /\ Outside(R, b, e)
    /\ \A c \in Free \ R : c # e
    /\ size' = Carve(f, b, e, TotalSize(n))
    /\ used' = Put(used, b, n)
    /\ brk' = brk

(* A step that carves block b out of the bytes from b to e keeps the invariant. *)
LEMMA CarvingKeepsIInv ==
    ASSUME IInv, NEW n \in Servable, NEW f, NEW R, NEW b \in Nat, NEW e \in Nat,
           Carves(f, R, b, e, n)
    PROVE  IInv'
  <1>. DEFINE need == TotalSize(n)
             m == Cut(b, e, need)
  <1>1. b \in Starts /\ b % ALIGNMENT = 0 /\ e % ALIGNMENT = 0 /\ brk \in Nat
    BY HeapFacts DEF Carves
  <1>2. need \in Nat /\ need % ALIGNMENT = 0 /\ need >= min_split /\ b + need <= e
    BY TotalSizeFacts DEF Carves
  <1>3. Carvable(f, R, b, e, need)
    <2>1. \A c \in Starts \ R : c \in Nat /\ (c < b \/ e <= c)
      BY <1>1, HeapFacts DEF Carves, Outside
    <2>. QED
      BY <1>1, <1>2, <2>1 DEF Carves, Carvable
  <1>4. size' = Carve(f, b, e, need)
    BY DEF Carves
  <1>. HIDE DEF need
  <1>5. /\ m \in Nat /\ WellCut(b, m, e) /\ Redivided(size', R, b, m, e)
        /\ need <= m - b /\ m - b < need + min_split
    BY <1>2, <1>3, <1>4, CarveRedivides
  <1>. HIDE DEF m
  <1>6. Serves(b, m, e, n, R)
    BY <1>1, <1>5, HeapFacts DEF Serves, Carves, need
  <1>. QED
    BY <1>5, <1>6, ServingKeepsIInv

(* my_malloc, taking a free block, keeps the invariant. *)
LEMMA TakeKeepsIInv ==
    ASSUME IInv, NEW n \in Servable, NEW b \in Free, Take(b, n)
    PROVE  IInv'
  <1>. DEFINE e == End(b)
  <1>1. /\ b \in Starts /\ b \in Nat /\ e \in Nat /\ e <= brk
        /\ e % ALIGNMENT = 0 /\ e = b + size[b] /\ size[b] \in Nat
    BY HeapFacts
  <1>2. Outside({b}, b, e)
    BY <1>1, HeapFacts DEF Outside
  <1>3. \A c \in Free \ {b} : c # e
    BY HeapFacts
  <1>4. b + TotalSize(n) <= e
    BY <1>1, TotalSizeFacts DEF Take
  <1>5. /\ size = [x \in DOMAIN size |-> size[x]]
        /\ DOMAIN size = (Starts \ {b}) \cup {b}
    BY <1>1 DEF IInv, TypeOK, Starts
  <1>6. Carves(size, {b}, b, e, n)
    BY <1>1, <1>2, <1>3, <1>4, <1>5 DEF Carves, Take
  <1>. QED
    BY <1>1, <1>6, CarvingKeepsIInv

(* Path 2 of my_realloc keeps the invariant. *)
LEMMA ExpandInPlaceKeepsIInv ==
    ASSUME IInv, NEW n \in Servable, NEW b \in DOMAIN used, NEW c \in Free,
           ExpandInPlace(b, c, n)
    PROVE  IInv'
  <1>. DEFINE e == End(c)
             R == {b, c}
             f == Drop(size, {c})
  <1>1. /\ b \in Starts /\ c \in Starts /\ b \in Nat /\ c \in Nat /\ e \in Nat
        /\ e <= brk /\ e % ALIGNMENT = 0 /\ End(b) = c /\ b < c /\ c < e
    BY HeapFacts DEF ExpandInPlace, After
  <1>2. Outside(R, b, e)
    BY <1>1, HeapFacts DEF Outside
  <1>3. \A d \in Free \ R : d # e
    BY HeapFacts
  <1>4. b + TotalSize(n) <= e
    BY <1>1, TotalSizeFacts DEF ExpandInPlace
  <1>5. /\ f = [x \in DOMAIN f |-> f[x]]
        /\ DOMAIN f = (Starts \ R) \cup {b}
        /\ \A d \in Starts \ R : f[d] = size[d]
    BY <1>1 DEF Drop, Starts
  <1>6. Carves(f, R, b, e, n)
    BY <1>1, <1>2, <1>3, <1>4, <1>5 DEF Carves, ExpandInPlace
  <1>. QED
    BY <1>1, <1>6, CarvingKeepsIInv

(* Path 1 of my_realloc keeps the invariant. *)
LEMMA ResizeInPlaceKeepsIInv ==
    ASSUME IInv, NEW n \in Servable, NEW b \in DOMAIN used, ResizeInPlace(b, n)
    PROVE  IInv'
  <1>1. /\ b \in Starts /\ b \in Nat /\ End(b) \in Nat /\ End(b) <= brk
        /\ brk \in Nat /\ brk \in Breaks
        /\ b % ALIGNMENT = 0 /\ End(b) % ALIGNMENT = 0
        /\ End(b) = b + size[b] /\ size[b] \in Nat /\ b < End(b)
        /\ b \notin Free
    BY HeapFacts
  <1>2. TotalSize(n) \in Nat /\ TotalSize(n) <= size[b]
    BY TotalSizeFacts DEF ResizeInPlace
  <1>3. CASE size[b] >= TotalSize(n) + min_split
    <2>1. PICK hi \in {End(c) : c \in After(b) \cup {b}} :
             /\ After(b) # {} => hi # End(b)
             /\ size' = Carve(Drop(size, After(b)), b, hi, TotalSize(n))
      BY <1>3 DEF ResizeInPlace
    <2>. DEFINE R == After(b) \cup {b}
               f == Drop(size, After(b))
    <2>2. PICK l \in R : hi = End(l)
      OBVIOUS
    <2>3. \A c \in After(b) : c \in Free /\ c \in Starts /\ c = End(b)
      BY HeapFacts DEF After
    <2>4. /\ l \in Starts /\ hi \in Nat /\ hi <= brk /\ hi % ALIGNMENT = 0
          /\ l = b \/ l = End(b)
          /\ l = b => After(b) = {}
      BY <1>1, <2>1, <2>2, <2>3, HeapFacts
    <2>5. b + TotalSize(n) <= hi
      BY <1>1, <1>2, <2>2, <2>4, HeapFacts
    <2>6. Outside(R, b, hi)
      <3>1. \A c \in Starts \ R : c # l /\ c # b
        BY <2>2
      <3>. QED
        BY <1>1, <2>2, <2>4, <3>1, HeapFacts DEF Outside
    <2>7. \A c \in Free \ R : c # hi
      <3>1. CASE l = b
        BY <3>1, <2>2, <2>4 DEF After
      <3>2. CASE l \in After(b)
        BY <3>2, <2>2, <2>3, HeapFacts
      <3>. QED
        BY <2>2, <3>1, <3>2
    <2>8. /\ f = [x \in DOMAIN f |-> f[x]]
          /\ DOMAIN f = (Starts \ R) \cup {b}
          /\ \A c \in Starts \ R : f[c] = size[c]
      BY <1>1, <2>3 DEF Drop, Starts
    <2>9. /\ R \subseteq Starts /\ b \in R
          /\ \A c \in R : c = b \/ c \in Free
      BY <1>1, <2>3
    <2>10. Carves(f, R, b, hi, n)
      <3>. HIDE DEF R, f
      <3>1. size' = Carve(f, b, hi, TotalSize(n)) /\ used' = Put(used, b, n) /\ brk' = brk
        BY <2>1 DEF f, ResizeInPlace
      <3>. QED
        BY <2>4, <2>5, <2>6, <2>7, <2>8, <2>9, <3>1 DEF Carves
    <2>. QED
      BY <1>1, <2>4, <2>10, CarvingKeepsIInv
  <1>4. CASE ~(size[b] >= TotalSize(n) + min_split)
    <2>1. size' = size /\ used' = Put(used, b, n) /\ brk' = brk
      BY <1>4 DEF ResizeInPlace
    <2>. DEFINE e == End(b)
    <2>2. Outside({b}, b, e)
      BY <1>1, HeapFacts DEF Outside
    <2>3. Redivided(size', {b}, b, e, e)
      BY <1>1, <2>1 DEF Redivided, Pieces, IInv, TypeOK, Starts
    <2>4. WellCut(b, e, e)
      BY <1>1 DEF WellCut, IInv, WellSized
    <2>5. TotalSize(n) <= e - b /\ e - b < TotalSize(n) + min_split
      BY <1>1, <1>2, <1>4 DEF min_split, HeaderSize, FooterSize
    <2>6. Serves(b, e, e, n, {b})
      BY <1>1, <2>1, <2>2, <2>3, <2>4, <2>5 DEF Serves
    <2>. QED
      BY <1>1, <2>6, ServingKeepsIInv
  <1>. QED
    BY <1>3, <1>4

(* my_free, with its coalescing on both sides, keeps the invariant. *)
LEMMA ReleaseKeepsIInv ==
    ASSUME IInv, NEW b \in DOMAIN used, Release(b)
    PROVE  IInv'
  <1>. DEFINE R == Before(b) \cup After(b) \cup {b}
  <1>1. PICK lo \in Before(b) \cup {b}, hi \in {End(c) : c \in After(b) \cup {b}} :
           /\ Before(b) # {} => lo # b
           /\ After(b) # {} => hi # End(b)
           /\ size' = Put(Drop(size, R), lo, hi - lo)
    BY DEF Release
  <1>2. PICK l \in After(b) \cup {b} : hi = End(l)
    OBVIOUS
  <1>3. used' = Drop(used, {b}) /\ brk' = brk
    BY DEF Release
  <1>4. /\ b \in Starts /\ b \in Nat /\ End(b) \in Nat /\ b < End(b)
        /\ brk \in Nat /\ brk \in Breaks /\ b \notin Free
    BY HeapFacts
  <1>5. \A c \in After(b) : c \in Free /\ c \in Starts /\ c = End(b)
    BY HeapFacts DEF After
  <1>6. \A c \in Before(b) : c \in Free /\ c \in Starts /\ End(c) = b /\ c < b
    BY HeapFacts DEF Before
  <1>7. /\ l \in Starts /\ hi \in Nat /\ hi <= brk /\ hi % ALIGNMENT = 0
        /\ l = b \/ l = End(b)
        /\ l = b => After(b) = {}
        /\ End(b) <= hi
    BY <1>1, <1>2, <1>4, <1>5, HeapFacts
  <1>8. /\ lo \in Starts /\ lo \in Nat /\ lo <= b /\ lo % ALIGNMENT = 0
        /\ lo = b \/ (lo \in Free /\ End(lo) = b)
        /\ lo = b => Before(b) = {}
    BY <1>1, <1>4, <1>6, HeapFacts
  <1>9. /\ lo \in R /\ b \in R /\ R \in SUBSET Starts
        /\ \A c \in R : c = b \/ c \in Free
    BY <1>4, <1>5, <1>6
  <1>10. Outside(R, lo, hi)
    <2>1. \A c \in Starts \ R : c # l /\ c # b /\ c # lo
      BY <1>2, <1>9
    <2>. QED
      BY <1>4, <1>7, <1>8, <1>2, <2>1, HeapFacts DEF Outside
  <1>11. WellCut(lo, hi, hi)
    <2>1. hi - lo >= End(b) - b
      BY <1>4, <1>7, <1>8
    <2>2. size[b] >= min_split /\ End(b) - b = size[b] /\ size[b] \in Nat
      BY <1>4, HeapFacts DEF IInv, WellSized
    <2>3. hi - lo >= min_split
      BY <2>1, <2>2, <1>4, <1>7, <1>8 DEF min_split, HeaderSize, FooterSize
    <2>. QED
      BY <2>3, <1>7, <1>8 DEF WellCut
  <1>12. /\ DOMAIN size' = (Starts \ R) \cup {lo}
         /\ size'[lo] = hi - lo
         /\ \A c \in Starts \ R : size'[c] = size[c]
         /\ size' = [x \in DOMAIN size' |-> size'[x]]
    <2>. HIDE DEF R
    <2>. QED
      BY <1>1, <1>9 DEF Put, Drop, Starts
  <1>13. Redivided(size', R, lo, hi, hi)
    BY <1>12 DEF Redivided, Pieces
  <1>. HIDE DEF R
  <1>14. /\ DOMAIN size' \subseteq Nat
         /\ size' \in [DOMAIN size' -> Nat]
         /\ \A a \in DOMAIN size' : a + size'[a] <= brk
         /\ \A a, c \in DOMAIN size' : a < c => a + size'[a] <= c
         /\ \A a \in DOMAIN size' : /\ a % ALIGNMENT = 0
                                    /\ size'[a] % ALIGNMENT = 0
                                    /\ size'[a] >= min_split
    <2>1. TypeOK /\ BlocksDisjoint /\ WellSized /\ brk <= brk
      BY <1>4 DEF IInv
    <2>. QED
      BY <2>1, <1>4, <1>7, <1>8, <1>9, <1>10, <1>11, <1>13, RedivisionKeepsBlocks
  <1>15. BlocksDisjoint' /\ WellSized'
    BY <1>3, <1>14 DEF BlocksDisjoint, WellSized, Starts, End
  <1>16. /\ DOMAIN used' = DOMAIN used \ {b}
         /\ \A c \in DOMAIN used \ {b} : used'[c] = used[c] /\ c \in Starts \ R
         /\ used' \in [DOMAIN used' -> Servable]
    BY <1>3, <1>9, HeapFacts, TypeFacts DEF Drop, IInv
  <1>17. TypeOK'
    BY <1>3, <1>4, <1>12, <1>14, <1>16 DEF TypeOK, Starts
  <1>18. TightFit'
    BY <1>12, <1>16 DEF TightFit, IInv
  <1>19. Coalesced'
    <2>1. \A a \in Free' : a = lo \/ (a \in Free \ R /\ size'[a] = size[a])
      BY <1>12, <1>16, <1>9 DEF Free, Starts
    <2>2. \A c \in Free \ R : c # hi
      BY <1>2, <1>5, <1>7, HeapFacts DEF After, R
    <2>3. \A c \in Free \ R : End(c) # lo
      BY <1>8, HeapFacts DEF Before, R
    <2> SUFFICES ASSUME NEW a \in Free', NEW c \in Free'
                 PROVE  a + size'[a] # c
      BY DEF Coalesced, End
    <2>4. CASE a = lo
      BY <2>4, <2>1, <2>2, <1>4, <1>7, <1>8, <1>12
    <2>5. CASE a \in Free \ R /\ size'[a] = size[a]
      BY <2>5, <2>1, <2>3, HeapFacts
    <2>. QED
      BY <2>1, <2>4, <2>5
  <1>. QED
    BY <1>15, <1>17, <1>18, <1>19 DEF IInv

-----------------------------------------------------------------------------

(* The invariant is inductive: it holds of an empty heap, and whatever   *)
(* my_malloc, my_free, my_realloc, allocator_destroy and the host's sbrk *)
(* do to the heap preserves it.                                          *)
THEOREM InitEstablishesIInv == Init => IInv
  BY DEF Init, IInv, TypeOK, BlocksDisjoint, Coalesced, TightFit, WellSized,
         Starts, Free

(* Every critical section of the allocator, and every movement of the break *)
(* by the host, preserves the invariant.                                    *)
THEOREM NextKeepsIInv == IInv /\ [Next]_vars => IInv'
  <1>. SUFFICES ASSUME IInv, [Next]_vars PROVE IInv'
    OBVIOUS
  <1>1. ASSUME NEW n \in Servable, Extend(n) PROVE IInv'
    BY <1>1, ExtendKeepsIInv
  <1>2. ASSUME NEW n \in Servable, NEW b \in Free, Take(b, n) PROVE IInv'
    BY <1>2, TakeKeepsIInv
  <1>3. ASSUME NEW n \in Servable, NEW b \in DOMAIN used, ResizeInPlace(b, n) PROVE IInv'
    BY <1>3, ResizeInPlaceKeepsIInv
  <1>4. ASSUME NEW n \in Servable, NEW b \in DOMAIN used, NEW c \in Free,
               ExpandInPlace(b, c, n)
        PROVE  IInv'
    BY <1>4, ExpandInPlaceKeepsIInv
  <1>5. ASSUME NEW b \in DOMAIN used, Release(b) PROVE IInv'
    BY <1>5, ReleaseKeepsIInv
  <1>6. ASSUME NEW b \in Breaks, MoveBreak(b) PROVE IInv'
    <2>1. brk \in Nat /\ brk' \in Nat /\ brk' \in Breaks /\ brk <= brk'
          /\ size' = size /\ used' = used
      BY <1>6, HeapFacts, BreaksAssumption DEF MoveBreak
    <2>2. \A a \in Starts : End(a) \in Nat /\ End(a) <= brk'
      BY <2>1, HeapFacts
    <2>. QED
      BY <2>1, <2>2 DEF IInv, TypeOK, BlocksDisjoint, Coalesced, TightFit, WellSized,
                        Starts, Free, End
  <1>7. ASSUME NEW b \in Breaks, Reset(b) PROVE IInv'
    <2>1. /\ DOMAIN size' = {} /\ DOMAIN used' = {} /\ brk' \in Breaks
          /\ size' \in [{} -> Nat] /\ used' \in [{} -> Servable]
      BY <1>7 DEF Reset
    <2>. QED
      BY <2>1 DEF IInv, TypeOK, BlocksDisjoint, Coalesced, TightFit, WellSized,
                  Starts, Free
  <1>8. CASE UNCHANGED vars
    BY <1>8 DEF vars, IInv, TypeOK, BlocksDisjoint, Coalesced, TightFit, WellSized,
                Starts, Free, End
  <1>. QED
    BY <1>1, <1>2, <1>3, <1>4, <1>5, <1>6, <1>7, <1>8 DEF Next

(* In every reachable heap the blocks are disjoint and below the break,  *)
(* no two free blocks touch, every allocated block fits its request, and *)
(* every block is aligned and large enough for its tags.                 *)
THEOREM HeapCorrect ==
    Spec => [](TypeOK /\ BlocksDisjoint /\ Coalesced /\ TightFit /\ WellSized)
  <1>1. Spec => []IInv
    BY InitEstablishesIInv, NextKeepsIInv, PTL DEF Spec
  <1>. QED
    BY <1>1, PTL DEF IInv

(* No two blocks of the heap ever share a byte or reach past the break: the *)
(* pointer arithmetic of the splits and merges is right.                    *)
THEOREM BlocksStayDisjoint == Spec => []BlocksDisjoint
  BY HeapCorrect, PTL

(* Two free blocks never touch, although the remainders that my_malloc and *)
(* Path 2 of my_realloc split off are not merged with what follows them.   *)
THEOREM CoalescingIsComplete == Spec => []Coalesced
  BY HeapCorrect, PTL

(* An allocated block always holds its request and wastes less than *)
(* min_split bytes, through any series of in-place resizes.         *)
THEOREM RequestsFitTightly == Spec => []TightFit
  BY HeapCorrect, PTL

(* The size a header records always leads to the next header, and leaves    *)
(* room for the tags at both ends, however blocks were split, merged and    *)
(* resized: what the walks from block to block rest on.                     *)
THEOREM BlocksWellSized == Spec => []WellSized
  BY HeapCorrect, PTL

-----------------------------------------------------------------------------
(* BlockHeap implements MemSpec: splitting, merging and resizing blocks     *)
(* gives the program regions of memory that are its own.                    *)

(* Live, for blocks in use u. *)
Regions(u) == [p \in {a + HeaderSize : a \in DOMAIN u} |-> u[p - HeaderSize]]

(* The pointers are those behind the headers of blocks in use. *)
LEMMA RegionsFacts ==
    ASSUME NEW u, \A a \in DOMAIN u : a \in Nat
    PROVE  /\ DOMAIN Regions(u) = {a + HeaderSize : a \in DOMAIN u}
           /\ \A a \in DOMAIN u : Regions(u)[a + HeaderSize] = u[a]
  <1>1. \A a \in DOMAIN u : (a + HeaderSize) - HeaderSize = a
    BY DEF HeaderSize
  <1>. QED
    BY <1>1 DEF Regions

(* A block holds its region, behind the header and before the footer. *)
LEMMA RegionInBlock ==
    ASSUME NEW a \in Nat, NEW s \in Nat, NEW n \in Servable,
           TotalSize(n) <= s, a % ALIGNMENT = 0
    PROVE  /\ n \in Nat /\ (a + HeaderSize) % ALIGNMENT = 0
           /\ a + HeaderSize + n <= a + s
  <1>1. n \in Nat /\ ALIGN(n) \in Nat /\ ALIGN(n) >= n
    BY TotalSizeFacts, AlignFacts
  <1>2. (a + HeaderSize) % ALIGNMENT = 0
    BY DEF HeaderSize, ALIGNMENT
  <1>. QED
    BY <1>1, <1>2 DEF TotalSize, HeaderSize, FooterSize

(* What the invariant says of the blocks in use. *)
LEMMA UsedFacts ==
    ASSUME IInv
    PROVE  \A a \in DOMAIN used : a \in Nat /\ used[a] \in Servable
  BY TypeFacts DEF IInv

(* A block given to a request becomes a region apart from all others:      *)
(* my_malloc and both in-place paths of my_realloc.                        *)
LEMMA ServedIsPlaced ==
    ASSUME IInv, IInv', NEW b \in Nat, NEW n \in Servable, used' = Put(used, b, n)
    PROVE  Memory!Next
  <1>. DEFINE p == b + HeaderSize
  <1>1. /\ DOMAIN used' = DOMAIN used \cup {b} /\ used'[b] = n
        /\ \A x \in DOMAIN used : x # b => used'[x] = used[x]
    BY DEF Put
  <1>2. \A a \in DOMAIN used' : /\ a \in Nat /\ a \in DOMAIN size' /\ size'[a] \in Nat
                                /\ used'[a] \in Servable
                                /\ TotalSize(used'[a]) <= size'[a]
                                /\ a % ALIGNMENT = 0
    BY DEF IInv, TypeOK, TightFit, WellSized, Starts
  <1>3. \A a, c \in DOMAIN size' : a < c => a + size'[a] <= c
    BY DEF IInv, BlocksDisjoint, Starts, End
  <1>4. \A a \in DOMAIN used' : /\ used'[a] \in Nat /\ (a + HeaderSize) % ALIGNMENT = 0
                                /\ a + HeaderSize + used'[a] <= a + size'[a]
    BY <1>2, RegionInBlock
  <1>5. ASSUME NEW a \in DOMAIN used, a # b
        PROVE  p + n <= a + HeaderSize \/ (a + HeaderSize) + used[a] <= p
    <2>1. a \in DOMAIN used' /\ b \in DOMAIN used' /\ used'[a] = used[a] /\ used'[b] = n
      BY <1>1, <1>5
    <2>2. a < b \/ b < a
      BY <1>2, <1>5, <2>1
    <2>. QED
      BY <1>2, <1>3, <1>4, <2>1, <2>2 DEF HeaderSize
  <1>6. /\ DOMAIN Live = {a + HeaderSize : a \in DOMAIN used}
        /\ \A a \in DOMAIN used : Live[a + HeaderSize] = used[a]
    BY UsedFacts, RegionsFacts DEF Live, Regions
  <1>7. /\ Live' = Regions(used')
        /\ DOMAIN Live' = {a + HeaderSize : a \in DOMAIN used'}
        /\ \A a \in DOMAIN used' : Live'[a + HeaderSize] = used'[a]
    <2>1. Live' = Regions(used')
      BY DEF Live, Regions
    <2>. QED
      BY <1>2, <2>1, RegionsFacts
  <1>8. p \in DOMAIN Live' /\ Live'[p] = n
    BY <1>1, <1>7
  <1>9. DOMAIN Live' = DOMAIN Live \cup {p}
    BY <1>1, <1>6, <1>7
  <1>10. ASSUME NEW q \in DOMAIN Live, q # p
         PROVE  Live'[q] = Live[q] /\ (p + n <= q \/ q + Live[q] <= p)
    <2>1. PICK a \in DOMAIN used : q = a + HeaderSize
      BY <1>6, <1>10
    <2>2. a # b
      BY <1>10, <2>1
    <2>3. Live[q] = used[a] /\ Live'[q] = used[a]
      BY <1>1, <1>6, <1>7, <2>1, <2>2
    <2>. QED
      BY <1>5, <2>1, <2>2, <2>3
  <1>11. Live' = [q \in DOMAIN Live \cup {p} |-> IF q = p THEN n ELSE Live[q]]
    BY <1>7, <1>8, <1>9, <1>10 DEF Regions
  <1>12. Memory!Place(p, n)
    <2>1. p % ALIGNMENT = 0
      BY <1>1, <1>4
    <2>2. Memory!Apart(p, n)
      BY <1>10 DEF Memory!Apart
    <2>. QED
      BY <1>11, <2>1, <2>2 DEF Memory!Place
  <1>. QED
    BY <1>8, <1>12 DEF Memory!Next, Memory!Malloc, Memory!Resize

(* A block taken back ends its own region and no other: my_free. *)
LEMMA ReleasedIsFreed ==
    ASSUME IInv, NEW b \in DOMAIN used, used' = Drop(used, {b})
    PROVE  Memory!Next
  <1>. DEFINE p == b + HeaderSize
  <1>1. /\ DOMAIN used' = DOMAIN used \ {b}
        /\ \A x \in DOMAIN used : x # b => used'[x] = used[x]
    BY DEF Drop
  <1>2. \A a \in DOMAIN used : a \in Nat
    BY UsedFacts
  <1>3. /\ DOMAIN Live = {a + HeaderSize : a \in DOMAIN used}
        /\ \A a \in DOMAIN used : Live[a + HeaderSize] = used[a]
    BY <1>2, RegionsFacts DEF Live, Regions
  <1>4. /\ Live' = Regions(used')
        /\ DOMAIN Live' = {a + HeaderSize : a \in DOMAIN used'}
        /\ \A a \in DOMAIN used' : Live'[a + HeaderSize] = used'[a]
    <2>1. Live' = Regions(used')
      BY DEF Live, Regions
    <2>. QED
      BY <1>1, <1>2, <2>1, RegionsFacts
  <1>5. \A a \in DOMAIN used : a + HeaderSize = p => a = b
    BY <1>2 DEF HeaderSize
  <1>6. p \in DOMAIN Live /\ DOMAIN Live' = DOMAIN Live \ {p}
    BY <1>1, <1>3, <1>4, <1>5
  <1>7. ASSUME NEW q \in DOMAIN Live, q # p
        PROVE  Live'[q] = Live[q]
    <2>1. PICK a \in DOMAIN used : q = a + HeaderSize
      BY <1>3, <1>7
    <2>2. a # b
      BY <1>7, <2>1
    <2>. QED
      BY <1>1, <1>3, <1>4, <2>1, <2>2
  <1>8. Live' = [q \in DOMAIN Live \ {p} |-> Live[q]]
    BY <1>4, <1>6, <1>7 DEF Regions
  <1>. QED
    BY <1>6, <1>8 DEF Memory!Next, Memory!Free

(* Each step of the heap is a step of the memory the program sees, or      *)
(* leaves that memory alone.                                               *)
THEOREM StepIsMemoryStep == IInv /\ IInv' /\ [Next]_vars => [Memory!Next]_Live
  <1>. SUFFICES ASSUME IInv, IInv', [Next]_vars PROVE [Memory!Next]_Live
    OBVIOUS
  <1>1. ASSUME NEW n \in Servable, Extend(n) PROVE Memory!Next
    <2>1. ALIGN(brk) \in Nat
      BY AlignFacts, BreaksAssumption DEF IInv, TypeOK
    <2>. QED
      BY <1>1, <2>1, ServedIsPlaced DEF Extend
  <1>2. ASSUME NEW n \in Servable, NEW b \in Free, Take(b, n) PROVE Memory!Next
    BY <1>2, ServedIsPlaced DEF Take, Free, IInv, TypeOK
  <1>3. ASSUME NEW n \in Servable, NEW b \in DOMAIN used, ResizeInPlace(b, n)
        PROVE  Memory!Next
    BY <1>3, UsedFacts, ServedIsPlaced DEF ResizeInPlace
  <1>4. ASSUME NEW n \in Servable, NEW b \in DOMAIN used, NEW c \in Free,
               ExpandInPlace(b, c, n)
        PROVE  Memory!Next
    BY <1>4, UsedFacts, ServedIsPlaced DEF ExpandInPlace
  <1>5. ASSUME NEW b \in DOMAIN used, Release(b) PROVE Memory!Next
    BY <1>5, ReleasedIsFreed DEF Release
  <1>6. ASSUME NEW b \in Breaks, MoveBreak(b) PROVE UNCHANGED Live
    BY <1>6 DEF MoveBreak, Live
  <1>7. ASSUME NEW b \in Breaks, Reset(b) PROVE Memory!Next
    <2>1. DOMAIN used' = {}
      BY <1>7 DEF Reset
    <2>. QED
      BY <2>1 DEF Live, Memory!Next, Memory!Destroy
  <1>8. CASE UNCHANGED vars
    BY <1>8 DEF vars, Live
  <1>. QED
    BY <1>1, <1>2, <1>3, <1>4, <1>5, <1>6, <1>7, <1>8 DEF Next

(* my_malloc, my_free and my_realloc, as they divide the heap into blocks, *)
(* keep the promise of malloc for every set of requests and every          *)
(* behaviour of the break: each region handed out is aligned and apart     *)
(* from the others, and a call changes no region but its own.              *)
THEOREM HeapImplementsMemory == Spec => ImplementsMemSpec
  <1>1. Init => Memory!Init
    BY DEF Init, Memory!Init, Live
  <1>2. Spec => []IInv
    BY InitEstablishesIInv, NextKeepsIInv, PTL DEF Spec
  <1>. QED
    BY <1>1, <1>2, StepIsMemoryStep, PTL DEF Spec, ImplementsMemSpec, Memory!Spec
=============================================================================
