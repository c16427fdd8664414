------------------------------- MODULE MCHeap -------------------------------
(***************************************************************************)
(* An instance of Heap for TLC.  The unit is the alignment (16 bytes); as  *)
(* in the source, the header of an allocation takes one and a subchunk two *)
(* of it.  A chunk has four subchunks instead of 128: three for the header *)
(* of the run and the map, one for allocations; two chunks have three for  *)
(* allocations.                                                            *)
(***************************************************************************)
EXTENDS Heap, TLC

(* Allocations of one subchunk, of two (two sizes) and of three.           *)
RequestedSizes == {1, 2, 3, 4}

(* Which address a run gets makes no difference.                           *)
AnyAddress == Permutations(Runs)

=============================================================================
