----------------------------- MODULE BlockLayout -----------------------------
(***************************************************************************)
(* Sizes and size classes of the allocator: the ALIGN macro of             *)
(* include/common.h, the structures and constants of include/allocator.h   *)
(* and get_size_class_index of free_list.c.  All quantities are in bytes.  *)
(***************************************************************************)
EXTENDS Integers, Sequences, FiniteSetsExt

CONSTANTS
    MMAP_THRESHOLD,   \* total sizes from here on are served by mmap (128 KiB)
    SizeClassLimits,  \* size_class_limits[]: the upper limit of each class
    SIZE_MAX,         \* the largest size_t
    Requests          \* the sizes the program asks for

ASSUME LayoutAssumption ==
    /\ MMAP_THRESHOLD \in Nat
    /\ SizeClassLimits \in Seq(Nat)
    /\ Len(SizeClassLimits) > 0
    /\ \A i, j \in 1..Len(SizeClassLimits) :
          i < j => SizeClassLimits[i] < SizeClassLimits[j]
    /\ SIZE_MAX \in Nat
    /\ SIZE_MAX > 1024
    /\ Requests \subseteq Nat

ALIGNMENT  == 16
HeaderSize == 48     \* sizeof(block_header_t) on an LP64 target
FooterSize == 16     \* sizeof(block_footer_t)
Overhead   == HeaderSize + FooterSize

(* The smallest remainder for which a block is split. *)
min_split == HeaderSize + FooterSize + 16

max_allowed == SIZE_MAX - 1024

(* The requests my_malloc and my_realloc do not refuse outright. *)
Servable == {n \in Requests : n # 0 /\ n <= max_allowed}

ALIGN(n) == ((n + (ALIGNMENT - 1)) \div ALIGNMENT) * ALIGNMENT

(* Mutant: the payload is not rounded up. *)
TotalUnaligned(n) == HeaderSize + n + FooterSize

(* The bytes a request of n bytes takes: header, aligned payload, footer. *)
TotalSize(n) == HeaderSize + ALIGN(n) + FooterSize

NUM_SIZE_CLASSES == Len(SizeClassLimits)
Classes == 1..NUM_SIZE_CLASSES

(* The first class whose limit holds the block; the last class takes every *)
(* larger block, whatever its own limit says.                              *)
get_size_class_index(size) ==
    LET fits == {i \in 1..(NUM_SIZE_CLASSES - 1) : size <= SizeClassLimits[i]}
    IN  IF fits = {} THEN NUM_SIZE_CLASSES ELSE Min(fits)
=============================================================================
