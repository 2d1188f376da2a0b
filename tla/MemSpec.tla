------------------------------- MODULE MemSpec -------------------------------
(***************************************************************************)
(* What a program may rely on: the regions of the heap that my_malloc has  *)
(* handed out and not taken back.  Nothing is said of blocks, lists or the *)
(* break.                                                                  *)
(***************************************************************************)
EXTENDS Integers

CONSTANTS
    Requests,    \* the sizes that are served
    Alignment    \* what every pointer is a multiple of

VARIABLE live    \* each pointer the program holds -> the bytes it asked for

(* The bytes from p are apart from every other region. *)
Apart(p, n) == \A q \in DOMAIN live \ {p} : p + n <= q \/ q + live[q] <= p

(* n bytes at p, and no other region, become the program's.  Where p is, is *)
(* the allocator's choice.                                                  *)
Place(p, n) ==
    /\ n \in Requests /\ p % Alignment = 0
    /\ Apart(p, n)
    /\ live' = [q \in DOMAIN live \cup {p} |-> IF q = p THEN n ELSE live[q]]

(* my_malloc, and the first half of a my_realloc that moves. *)
Malloc == \E p \in DOMAIN live' \ DOMAIN live : Place(p, live'[p])

(* my_realloc in place. *)
Resize == \E p \in DOMAIN live' \cap DOMAIN live : Place(p, live'[p])

(* my_free. *)
Free == \E p \in DOMAIN live : live' = [q \in DOMAIN live \ {p} |-> live[q]]

(* allocator_destroy. *)
Destroy == DOMAIN live' = {}

Init == DOMAIN live = {}

Next == Malloc \/ Resize \/ Free \/ Destroy

Spec == Init /\ [][Next]_live
=============================================================================
