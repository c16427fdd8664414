--------------------------- MODULE ExpandingArena ---------------------------
(***************************************************************************)
(* stdlib/expanding_arena.src: allocations are laid one after the other in *)
(* a run of chunks that starts with a header, in a new run when they do    *)
(* not fit.  They are given back together, by a reset or by destroying the *)
(* arena.                                                                  *)
(*                                                                         *)
(* The client writes to every byte of what it is given.  A reset arena     *)
(* starts over at offset 0, where the header of the run is, so what the    *)
(* client writes may be what the arena reads there afterwards, as a count  *)
(* of chunks or as a pointer.  Memory has one address space: a run whose   *)
(* header promises too much goes on into the next.                         *)
(***************************************************************************)
EXTENDS Integers

CONSTANTS
  Runs,                (* Addresses that map_virtual_memory may return.    *)
  Data,                (* What a field of a header may read as where the   *)
                       (* client has written.                              *)
  Sizes,               (* The sizes that the client asks for.              *)
  largest_alignment,   (* 16 in memory.src.                                *)
  chunk_size,          (* 4096                                             *)
  ChunkRunHeaderSize,  (* size_of(ChunkRunHeader): 16                      *)
  ChunkCountOffset,    (* Where chunk_count is in ChunkRunHeader, after    *)
                       (* next_chunk_run_header: 8                         *)
  MaxChunks,           (* Bound: chunks in a run.                          *)
  MaxOffset            (* Bound: how far from a run the client's counts    *)
                       (* of chunks may lead.                              *)

ASSUME ExpandingArenaAssumption ==
  /\ Runs \subseteq Nat \ {0}
  /\ Data \subseteq Nat /\ 0 \in Data
  /\ Sizes \subseteq Nat \ {0}
  /\ {largest_alignment, chunk_size, ChunkRunHeaderSize, ChunkCountOffset, MaxChunks, MaxOffset}
       \subseteq Nat \ {0}
  /\ ChunkCountOffset < ChunkRunHeaderSize
  /\ MaxChunks * chunk_size <= MaxOffset

VARIABLES
  arena,      (* first_chunk_run_header, current_chunk_run_header and      *)
              (* current_offset.                                           *)
  mapped,     (* The chunks of each mapped run, as the system knows them.  *)
  header,     (* The next_chunk_run_header and the chunk_count that the    *)
              (* arena wrote at the start of a run.                        *)
  given,      (* Memory that the client has been given since it was        *)
              (* mapped.                                                   *)
  live,       (* What the client holds, by pointer: the size asked for,    *)
              (* the largest if the pointer was returned several times.    *)
  was_reset,  (* Whether this arena has been reset.                        *)
  astray,     (* Whether this arena has placed an allocation by a count or *)
              (* a pointer that the client may have written.               *)
  unmapped    (* The last call of unmap_virtual_memory: the pointer, the   *)
              (* length in chunks, and where the walk goes on.             *)

vars == <<arena, mapped, header, given, live, was_reset, astray, unmapped>>

Null == 0

divide_round_up(left, right) == (left + right - 1) \div right

aligned(size) == divide_round_up(size, largest_alignment) * largest_alignment

Bytes(pointer, size) == pointer .. pointer + size - 1

Run(run, count) == Bytes(run, count * chunk_size)

MappedMemory == UNION {Run(r, mapped[r]) : r \in Runs}

(***************************************************************************)
(* What a header reads as, wherever the arena takes one to be              *)
(***************************************************************************)

NextField(address) == Bytes(address, ChunkCountOffset)

CountField(address) == Bytes(address + ChunkCountOffset, ChunkRunHeaderSize - ChunkCountOffset)

AsWritten(address, field) == address \in Runs /\ mapped[address] > 0 /\ field \cap given = {}

(* Reading memory that is not mapped ends the program.                     *)
Elsewhere(field) == IF field \subseteq MappedMemory THEN Data ELSE {}

NextsAt(address) ==
  IF AsWritten(address, NextField(address)) THEN {header[address].next}
  ELSE Elsewhere(NextField(address))

CountsAt(address) ==
  IF AsWritten(address, CountField(address)) THEN {header[address].chunk_count}
  ELSE Elsewhere(CountField(address))

(***************************************************************************)
(* allocate                                                                *)
(***************************************************************************)

(* The client holds the pointer, once more if it has it already.           *)
Hold(pointer, size) ==
  live' = [p \in DOMAIN live \cup {pointer} |->
             IF p # pointer THEN live[p]
             ELSE IF p \notin DOMAIN live THEN [size |-> size, times |-> 1]
             ELSE [size |-> IF live[p].size > size THEN live[p].size ELSE size,
                   times |-> live[p].times + 1]]

Held(p) == Bytes(p, live[p].size)

Fits(size, chunk_count) == arena.current_offset + aligned(size) <= chunk_count * chunk_size

(* Mutant: the offset moves on by the size as it was asked for, less one.  *)
Place_Short(run, size) ==
  /\ arena.current_offset + aligned(size) <= MaxOffset
  /\ arena' = [arena EXCEPT !.current_offset = @ + size - 1]
  /\ Hold(run + arena.current_offset, size)
  /\ given' = given \cup Bytes(run + arena.current_offset, size)

(* At the current offset from the header that has the room.                *)
Place(run, size) ==
  /\ arena.current_offset + aligned(size) <= MaxOffset
  /\ arena' = [arena EXCEPT !.current_offset = @ + aligned(size)]
  /\ Hold(run + arena.current_offset, size)
  /\ given' = given \cup Bytes(run + arena.current_offset, size)

AllocateInRun(size) ==
  /\ unmapped = {}
  /\ arena.current # Null
  /\ \E chunk_count \in CountsAt(arena.current) : Fits(size, chunk_count)
  /\ Place(arena.current, size)
  /\ astray' = (astray \/ ~AsWritten(arena.current, CountField(arena.current)))
  /\ UNCHANGED <<mapped, header, was_reset, unmapped>>

(* The search goes on where the client's data points to.  If it has the    *)
(* room there the run that the arena is at stays the current one.  What it *)
(* could reach in more steps the client's pointer could be at once, and a  *)
(* search in a circle never ends.                                          *)
AllocateElsewhere(size) ==
  \E next \in NextsAt(arena.current) \ {Null} :
    /\ unmapped = {}
    /\ arena.current # Null
    /\ \E chunk_count \in CountsAt(arena.current) : ~Fits(size, chunk_count)
    /\ \E chunk_count \in CountsAt(next) : Fits(size, chunk_count)
    /\ Place(next, size)
    /\ astray' = TRUE
    /\ UNCHANGED <<mapped, header, was_reset, unmapped>>

new_chunk_run_chunk_count(size) ==
  divide_round_up(aligned(ChunkRunHeaderSize) + aligned(size), chunk_size)

(* The search goes to the end of the list without finding room.            *)
NoneFits(size) ==
  arena.current # Null => /\ \E chunk_count \in CountsAt(arena.current) : ~Fits(size, chunk_count)
                          /\ Null \in NextsAt(arena.current)

(* map_virtual_memory finds room for a run.  The client has been given     *)
(* some of it already only if an allocation went astray.                   *)
Map(run, count) ==
  /\ mapped[run] = 0
  /\ count <= MaxChunks
  /\ Run(run, count) \cap MappedMemory = {}
  /\ mapped' = [mapped EXCEPT ![run] = count]
  /\ header' = [header EXCEPT ![run] = [next |-> Null, chunk_count |-> count]]
  /\ given' = (given \ Run(run, count)) \cup UNION {Held(p)' : p \in DOMAIN live'}

(* Mutant: no room is left for the header.                                 *)
AllocateNewRun_NoHeader(size) ==
  \E run \in Runs :
    /\ unmapped = {}
    /\ NoneFits(size)
    /\ arena' = [first |-> run, current |-> run, current_offset |-> aligned(size)]
    /\ Hold(run, size)
    /\ Map(run, new_chunk_run_chunk_count(size))
    /\ UNCHANGED <<was_reset, astray, unmapped>>

(* Mutant: the first run stays the first.                                  *)
AllocateNewRun_KeepsFirst(size) ==
  \E run \in Runs :
    /\ unmapped = {}
    /\ NoneFits(size)
    /\ arena' = [first |-> IF arena.first = Null THEN run ELSE arena.first, current |-> run,
                 current_offset |-> aligned(ChunkRunHeaderSize) + aligned(size)]
    /\ Hold(run + aligned(ChunkRunHeaderSize), size)
    /\ Map(run, new_chunk_run_chunk_count(size))
    /\ UNCHANGED <<was_reset, astray, unmapped>>

(* At the end of the list the header that the search is at is null: the    *)
(* new run becomes the first of the list, not the next of the last.        *)
AllocateNewRun(size) ==
  \E run \in Runs :
    /\ unmapped = {}
    /\ NoneFits(size)
    /\ arena' = [first |-> run, current |-> run,
                 current_offset |-> aligned(ChunkRunHeaderSize) + aligned(size)]
    /\ Hold(run + aligned(ChunkRunHeaderSize), size)
    /\ Map(run, new_chunk_run_chunk_count(size))
    /\ UNCHANGED <<was_reset, astray, unmapped>>

(***************************************************************************)
(* The rest                                                                *)
(***************************************************************************)

Reset ==
  /\ unmapped = {}
  /\ arena' = [arena EXCEPT !.current = arena.first, !.current_offset = 0]
  /\ live' = [p \in {} |-> [size |-> 0, times |-> 0]]
  /\ was_reset' = TRUE
  /\ UNCHANGED <<mapped, header, given, astray, unmapped>>

(* The first run is unmapped with the length that its header holds, and    *)
(* the walk goes on to the run that its header names.                      *)
Destroy ==
  /\ unmapped = {}
  /\ arena.first # Null
  /\ \E count \in CountsAt(arena.first), next \in NextsAt(arena.first) :
       unmapped' = {[pointer |-> arena.first, chunk_count |-> count, next |-> next]}
  /\ live' = [p \in {} |-> [size |-> 0, times |-> 0]]
  /\ UNCHANGED <<arena, mapped, header, given, was_reset, astray>>

NoHeader == [next |-> Null, chunk_count |-> 0]

UnmappedRuns == {call.pointer : call \in unmapped}

IsExact(call) == mapped[call.pointer] = call.chunk_count /\ call.next = Null

(* The client goes on with a new arena, if only what was mapped has been   *)
(* unmapped.  Runs that no arena knows any more stay mapped.               *)
Create ==
  /\ unmapped # {}
  /\ \A call \in unmapped : IsExact(call)
  /\ arena' = [first |-> Null, current |-> Null, current_offset |-> 0]
  /\ mapped' = [r \in Runs |-> IF r \in UnmappedRuns THEN 0 ELSE mapped[r]]
  /\ header' = [r \in Runs |-> IF r \in UnmappedRuns THEN NoHeader ELSE header[r]]
  /\ given' = given \cap MappedMemory'
  /\ was_reset' = FALSE
  /\ astray' = FALSE
  /\ unmapped' = {}
  /\ UNCHANGED live

Init ==
  /\ arena = [first |-> Null, current |-> Null, current_offset |-> 0]
  /\ mapped = [r \in Runs |-> 0]
  /\ header = [r \in Runs |-> NoHeader]
  /\ given = {}
  /\ live = [p \in {} |-> [size |-> 0, times |-> 0]]
  /\ was_reset = FALSE
  /\ astray = FALSE
  /\ unmapped = {}

Next ==
  \/ \E size \in Sizes : AllocateInRun(size) \/ AllocateElsewhere(size) \/ AllocateNewRun(size)
  \/ Reset
  \/ Destroy
  \/ Create

Spec == Init /\ [][Next]_vars

(***************************************************************************)
(* Properties                                                              *)
(***************************************************************************)

TypeOK ==
  /\ arena \in [first : Runs \cup {Null}, current : Runs \cup {Null}, current_offset : Nat]
  /\ mapped \in [Runs -> Nat]
  /\ header \in [Runs -> [next : {Null}, chunk_count : Nat]]
  /\ given \subseteq Nat
  /\ \A p \in DOMAIN live : p \in Nat /\ live[p] \in [size : Sizes, times : Nat \ {0}]
  /\ was_reset \in BOOLEAN /\ astray \in BOOLEAN
  /\ unmapped \subseteq [pointer : Runs, chunk_count : Nat, next : Nat]

(* As long as the arena is not reset, the client's data and the headers    *)
(* stay apart, each within its mapped run, whatever sizes are asked for,   *)
(* and the arena is destroyed with the lengths that were mapped.           *)
SafeUntilReset ==
  ~was_reset =>
    /\ \A p \in DOMAIN live :
         \E r \in Runs : /\ p >= r + ChunkRunHeaderSize
                         /\ p + live[p].size <= r + mapped[r] * chunk_size
    /\ \A call \in unmapped : IsExact(call)

(* Runs are never linked: when the arena grows, its older runs are out of  *)
(* reach of the next reset and of destroy_expanding_arena, and stay mapped *)
(* for good.                                                               *)
OlderRunsAreLost ==
  ~was_reset /\ arena.first # Null =>
    arena.current = arena.first /\ header[arena.first].next = Null

(* unmap_virtual_memory "Must be called with the exact length as a call to *)
(* map_virtual_memory and the exact returned pointer".                     *)
UnmapsExactly == \A call \in unmapped : IsExact(call)

(* The arena as an allocator: allocations in use do not share memory, and  *)
(* no pointer is returned twice, until one is placed by a count of chunks  *)
(* or a pointer that the client may have written over those of a header.   *)
AllocationsOf == [p \in DOMAIN live |-> Held(p)]

Memory == UNION {Bytes(address, MaxOffset) : address \in Runs \cup Data}

A == INSTANCE Allocator WITH Pointers <- Memory, Cells <- Memory, allocations <- AllocationsOf

ImplementsAllocator == A!Init /\ [][A!Allocate \/ A!Reset \/ astray']_live

=============================================================================
