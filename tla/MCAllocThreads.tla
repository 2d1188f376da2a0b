---------------------------- MODULE MCAllocThreads ----------------------------
(* Allocator for two threads, with a record of whether my_realloc's memcpy  *)
(* has copied tags of former blocks.                                        *)
EXTENDS MCAllocator

VARIABLE copied

InitCopies == Init /\ copied = FALSE
NextCopies == Next /\ copied' = (copied \/ ~NoTagsCopied')
SpecCopies == InitCopies /\ [][NextCopies]_<<vars, copied>>

(* my_free and my_realloc accept no heap address but those of blocks in use: *)
(* freeing memory a second time, also after it was merged, split or handed   *)
(* out again inside another block, is caught, although the old header is     *)
(* still there and free_list_remove cleared its is_free.  It holds until a   *)
(* block moves with tags of former blocks in bytes that the program asked    *)
(* for and did not write: the copy of a whole header and its footer is       *)
(* accepted.                                                                 *)
OnlyLiveAccepted == ~copied => AcceptsOnlyLive
===============================================================================
