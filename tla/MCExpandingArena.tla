-------------------------- MODULE MCExpandingArena --------------------------
(***************************************************************************)
(* Instances of ExpandingArena for TLC.  The unit is half an alignment     *)
(* (8 bytes), a field of a header is one unit, and a chunk is three        *)
(* headers long.                                                           *)
(***************************************************************************)
EXTENDS ExpandingArena

(* Chunks next to each other: a run may reach up to the next.              *)
ArenaRuns == {6, 12}

(* No pointer, one to the second run, and a count that is too large for    *)
(* runs of one chunk.                                                      *)
ArenaData == {0, 2, 12}

(* Less than an alignment, and more than a chunk together with a header.   *)
ArenaSizes == {1, 5}

=============================================================================
