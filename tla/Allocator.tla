----------------------------- MODULE Allocator -----------------------------
(***************************************************************************)
(* What an allocator of the standard library promises: the memory of an    *)
(* allocation belongs to no other until it is given back.  Memory is a set *)
(* of cells, an allocation a pointer with the cells that it stands for.    *)
(* Heap and ExpandingArena implement this specification.                   *)
(***************************************************************************)

CONSTANTS
  Pointers,     (* What allocate may return, other than the null pointer.  *)
  Cells         (* The pieces of memory that allocations are made of.      *)

VARIABLE
  allocations   (* The cells of each allocation in use, by pointer.        *)

Used == UNION {allocations[p] : p \in DOMAIN allocations}

(* The allocations that a step leaves alone.                               *)
Keeps(pointers) == \A p \in pointers : allocations'[p] = allocations[p]

Init == /\ DOMAIN allocations = {}
        /\ allocations = [p \in {} |-> {}]

(* Cells that no allocation has become one.                                *)
Allocate ==
  \E p \in Pointers \ DOMAIN allocations :
    /\ DOMAIN allocations' = DOMAIN allocations \cup {p}
    /\ Keeps(DOMAIN allocations)
    /\ allocations'[p] # {}
    /\ allocations'[p] \subseteq Cells
    /\ allocations'[p] \cap Used = {}

Free ==
  \E p \in DOMAIN allocations :
    /\ DOMAIN allocations' = DOMAIN allocations \ {p}
    /\ Keeps(DOMAIN allocations \ {p})

(* An allocation grows or shrinks where it is, or moves.                   *)
Resize ==
  \E p \in DOMAIN allocations :
    \E q \in {p} \cup (Pointers \ DOMAIN allocations) :
      /\ DOMAIN allocations' = (DOMAIN allocations \ {p}) \cup {q}
      /\ Keeps(DOMAIN allocations \ {p})
      /\ allocations'[q] # {}
      /\ allocations'[q] \subseteq Cells
      /\ \A other \in DOMAIN allocations \ {p} :
           allocations'[q] \cap allocations[other] = {}

(* Every allocation is given back at once.                                 *)
Reset == DOMAIN allocations' = {}

Next == Allocate \/ Free \/ Resize \/ Reset

Spec == Init /\ [][Next]_allocations

=============================================================================
