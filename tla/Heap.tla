-------------------------------- MODULE Heap --------------------------------
(***************************************************************************)
(* stdlib/heap.src: a heap of runs of chunks.  A run starts with a header  *)
(* and a map of occupied subchunks, which together take its first          *)
(* subchunks; an allocation takes whole subchunks, the first of which      *)
(* starts with the header of the allocation.  The runs are a doubly linked *)
(* list, new ones at its end; a run without allocations is unmapped.       *)
(*                                                                         *)
(* The client calls allocate, reallocate and deallocate with pointers that *)
(* it holds, and writes to every byte of what it is given.                 *)
(***************************************************************************)
EXTENDS Integers, FiniteSets

CONSTANTS
  Runs,                  (* Addresses that map_virtual_memory may return.  *)
  Null,                  (* The null pointer.                              *)
  Sizes,                 (* The sizes that the client asks for.            *)
  largest_alignment,     (* 16 in memory.src.                              *)
  subchunk_size,         (* 32                                             *)
  subchunks_per_chunk,   (* 128                                            *)
  ChunkRunHeaderSize,    (* size_of(ChunkRunHeader): 24                    *)
  AllocationHeaderSize,  (* size_of(AllocationHeader): 16                  *)
  BoolSize,              (* size_of(bool): 1                               *)
  MaxChunks              (* Bound: chunks in a run.                        *)

(* Overflow is the client's to avoid ("Can overflow, be careful"): sizes   *)
(* and their sums are natural numbers.                                     *)
ASSUME HeapAssumption ==
  /\ IsFiniteSet(Runs)
  /\ Null \notin Runs
  /\ Sizes \subseteq Nat \ {0}
  /\ {largest_alignment, subchunk_size, subchunks_per_chunk,
      ChunkRunHeaderSize, AllocationHeaderSize, BoolSize, MaxChunks}
       \subseteq Nat \ {0}

VARIABLES
  heap,    (* What the memory of the heap holds: the first run, and of each *)
           (* run whether it is mapped, its header and its map; size is the *)
           (* AllocationHeader at each base address that has an intact one. *)
  live,    (* What the client holds: the size asked for, by base address.   *)
  outcome  (* "running", "null_write" when the program has crashed, or      *)
           (* "overlap" when two allocations share memory: what they write  *)
           (* to it is not followed any further.                            *)

vars == <<heap, live, outcome>>

divide_round_up(left, right) == (left + right - 1) \div right

allocation_header_aligned_size ==
  divide_round_up(AllocationHeaderSize, largest_alignment) * largest_alignment

total_size_in_subchunks(size) ==
  divide_round_up(allocation_header_aligned_size + size, subchunk_size)

subchunk_count(chunks) == chunks * subchunks_per_chunk

preamble_subchunk_count(chunks) ==
  divide_round_up(ChunkRunHeaderSize + subchunk_count(chunks) * BoolSize, subchunk_size)

(* The subchunks of a run that allocations are made of.                    *)
DataSubchunks(h, run) ==
  preamble_subchunk_count(h.chunk_count[run]) .. subchunk_count(h.chunk_count[run]) - 1

(* An allocation is identified by its base address: a run and the index of *)
(* a subchunk.  These are the subchunks that one of the size takes.        *)
Span(base, size) == base[2] .. base[2] + total_size_in_subchunks(size) - 1

(***************************************************************************)
(* allocate                                                                *)
(***************************************************************************)

(* Mutant: a scan that does not look at the last subchunk either.          *)
Found_FirstOnly(h, run, n, start) ==
  LET free == DataSubchunks(h, run) \ h.occupied[run]
  IN  /\ start \in free
      /\ \A i \in free : start <= i
      /\ start + n - 1 \in DataSubchunks(h, run)

(* The scan of one run.  in_unoccupied_subchunks is set at the first free  *)
(* subchunk and never reset, since the reset declares another variable of  *)
(* the name: the scan stops at a free subchunk n - 1 after the first one,  *)
(* whatever lies between.                                                  *)
Found(h, run, n, start) ==
  LET free == DataSubchunks(h, run) \ h.occupied[run]
  IN  /\ start \in free
      /\ \A i \in free : start <= i
      /\ start + n - 1 \in free

(* The runs in the order of the list.                                      *)
NthRun(h) ==
  LET nth[k \in 0..Cardinality(Runs)] ==
        IF k = 0 THEN h.first
        ELSE LET before == nth[k - 1]
             IN  IF before = Null THEN Null ELSE h.next[before]
  IN  nth

HasRoom(h, run, n) == \E start \in DataSubchunks(h, run) : Found(h, run, n, start)

(* The run is the first in the list with room for n subchunks.             *)
FirstWithRoom(h, run, n) ==
  LET nth == NthRun(h)
  IN  \E k \in DOMAIN nth :
        /\ nth[k] = run
        /\ HasRoom(h, run, n)
        /\ \A j \in 0..k - 1 : ~HasRoom(h, nth[j], n)

(* The last run of the list, null when there is none: what                 *)
(* previous_chunk_run_header is after the scan.                            *)
IsLast(h, run) ==
  \/ run = Null /\ h.first = Null
  \/ run \in h.mapped /\ h.next[run] = Null /\ \E k \in DOMAIN NthRun(h) : NthRun(h)[k] = run

(* The chunks of a new run: a guess, then one more until there is room.    *)
Available(chunks) == subchunk_count(chunks) - preamble_subchunk_count(chunks)

(* Mutant: the guess is taken for the count.                               *)
new_chunk_run_chunk_count_Guess(n, chunks) ==
  chunks = divide_round_up(divide_round_up(ChunkRunHeaderSize + n * BoolSize, subchunk_size) + n,
                           subchunks_per_chunk)

new_chunk_run_chunk_count(n, chunks) ==
  LET guess == divide_round_up(divide_round_up(ChunkRunHeaderSize + n * BoolSize, subchunk_size) + n,
                               subchunks_per_chunk)
  IN  /\ chunks >= guess
      /\ Available(chunks) >= n
      /\ \A fewer \in guess..chunks - 1 : Available(fewer) < n

(* The subchunks of an allocation are marked, its header is written and    *)
(* then all of its bytes are: no other header within it is left.           *)
Occupy(h, base, size) ==
  LET run == base[1]
      overwritten == {<<run, i>> : i \in Span(base, size)}
  IN  [h EXCEPT
        !.occupied[run] = @ \cup Span(base, size),
        !.size = [b \in (DOMAIN @ \ overwritten) \cup {base} |->
                    IF b = base THEN size ELSE h.size[b]]]

(* A run is mapped, all zero, and becomes the last of the list.            *)
Append(h, run, chunks, last) ==
  [first       |-> IF last = Null THEN run ELSE h.first,
   mapped      |-> h.mapped \cup {run},
   previous    |-> [h.previous EXCEPT ![run] = last],
   next        |-> [r \in Runs |-> IF r = run THEN Null ELSE IF r = last THEN run ELSE h.next[r]],
   chunk_count |-> [h.chunk_count EXCEPT ![run] = chunks],
   occupied    |-> [h.occupied EXCEPT ![run] = {}],
   size        |-> h.size]

(* Where allocate may find a place, for any size: in a run, or in a new    *)
(* one after its preamble.                                                 *)
Bases == Runs \X (0..subchunk_count(MaxChunks) - 1)

(* The place that the scan of the runs finds, if any.                      *)
Places(h, size) ==
  LET n == total_size_in_subchunks(size)
  IN  {b \in Bases : /\ b[1] \in h.mapped
                     /\ Found(h, b[1], n, b[2])
                     /\ FirstWithRoom(h, b[1], n)}

(* What allocate may return, other than null: a base address, and the heap *)
(* as it is then.                                                          *)
FromRun(h, size) == {[base |-> b, heap |-> Occupy(h, b, size)] : b \in Places(h, size)}

FromNewRun(h, size) ==
  LET n == total_size_in_subchunks(size)
  IN  {[base |-> <<run, preamble_subchunk_count(chunks)>>,
        heap |-> Occupy(Append(h, run, chunks, last),
                        <<run, preamble_subchunk_count(chunks)>>, size)] :
         run \in Runs \ h.mapped,
         chunks \in {c \in 1..MaxChunks : new_chunk_run_chunk_count(n, c)},
         last \in {r \in h.mapped \cup {Null} : IsLast(h, r)}}

NeedsNewRun(h, size) == Places(h, size) = {}

allocate(h, size) == IF NeedsNewRun(h, size) THEN FromNewRun(h, size) ELSE FromRun(h, size)

(***************************************************************************)
(* deallocate                                                              *)
(***************************************************************************)

(* Mutant: the next run is not told.                                       *)
Unmap_KeepsPrevious(h, run) ==
  LET before == h.previous[run]
      after == h.next[run]
  IN  [first       |-> IF before = Null THEN after ELSE h.first,
       mapped      |-> h.mapped \ {run},
       previous    |-> [h.previous EXCEPT ![run] = Null],
       next        |-> [r \in Runs |-> IF r = run THEN Null ELSE IF r = before THEN after ELSE h.next[r]],
       chunk_count |-> [h.chunk_count EXCEPT ![run] = 0],
       occupied    |-> [h.occupied EXCEPT ![run] = {}],
       size        |-> [b \in {c \in DOMAIN h.size : c[1] # run} |-> h.size[b]]]

(* A run leaves the list and its memory is unmapped.                       *)
Unmap(h, run) ==
  LET before == h.previous[run]
      after == h.next[run]
  IN  [first       |-> IF before = Null THEN after ELSE h.first,
       mapped      |-> h.mapped \ {run},
       previous    |-> [r \in Runs |-> IF r = run THEN Null ELSE IF r = after THEN before ELSE h.previous[r]],
       next        |-> [r \in Runs |-> IF r = run THEN Null ELSE IF r = before THEN after ELSE h.next[r]],
       chunk_count |-> [h.chunk_count EXCEPT ![run] = 0],
       occupied    |-> [h.occupied EXCEPT ![run] = {}],
       size        |-> [b \in {c \in DOMAIN h.size : c[1] # run} |-> h.size[b]]]

(* Whether anything is occupied beside the subchunks of the allocation.    *)
IsOnlyOne(h, base) ==
  LET run == base[1]
      end == base[2] + total_size_in_subchunks(h.size[base])
  IN  /\ \A i \in 0..base[2] - 1 : i \notin h.occupied[run]
      /\ \A i \in end..subchunk_count(h.chunk_count[run]) - 1 : i \notin h.occupied[run]

deallocate(h, base) ==
  LET run == base[1]
  IN  IF IsOnlyOne(h, base) THEN Unmap(h, run)
      ELSE [h EXCEPT !.occupied[run] = @ \ Span(base, h.size[base]),
                     !.size = [b \in DOMAIN @ \ {base} |-> h.size[b]]]

(***************************************************************************)
(* reallocate                                                              *)
(***************************************************************************)

(* Fewer subchunks, or as many: the rest of them is free.                  *)
Shrinks(h, base, new_size) ==
  total_size_in_subchunks(new_size) <= total_size_in_subchunks(h.size[base])

(* Mutant: the header keeps the old size.                                  *)
Shrink_KeepsSize(h, base, new_size) ==
  [h EXCEPT !.occupied[base[1]] = @ \ (Span(base, h.size[base]) \ Span(base, new_size))]

(* Mutant: the subchunks stay marked.                                      *)
Shrink_KeepsMarks(h, base, new_size) == [h EXCEPT !.size[base] = new_size]

Shrink(h, base, new_size) ==
  [h EXCEPT !.occupied[base[1]] = @ \ (Span(base, h.size[base]) \ Span(base, new_size)),
            !.size[base] = new_size]

(* Mutant: the end of the run is not looked at.                            *)
CanExpand_PastEnd(h, base, new_size) ==
  \A i \in Span(base, new_size) \ Span(base, h.size[base]) : i \notin h.occupied[base[1]]

(* Mutant: the last of the new subchunks is not looked at.                 *)
CanExpand_AllButLast(h, base, new_size) ==
  /\ base[2] + total_size_in_subchunks(new_size) <= subchunk_count(h.chunk_count[base[1]])
  /\ \A i \in Span(base, new_size) \ Span(base, h.size[base]) :
       i \notin h.occupied[base[1]] \/ i = base[2] + total_size_in_subchunks(new_size) - 1

(* More subchunks, when the run has them and they are free.                *)
CanExpand(h, base, new_size) ==
  /\ base[2] + total_size_in_subchunks(new_size) <= subchunk_count(h.chunk_count[base[1]])
  /\ \A i \in Span(base, new_size) \ Span(base, h.size[base]) : i \notin h.occupied[base[1]]

(***************************************************************************)
(* The client                                                              *)
(***************************************************************************)

Disjoint(allocations) ==
  \A p, q \in DOMAIN allocations :
    p # q /\ p[1] = q[1] => Span(p, allocations[p]) \cap Span(q, allocations[q]) = {}

(* What the client holds with base.                                        *)
With(base, size) ==
  [b \in DOMAIN live \cup {base} |-> IF b = base THEN size ELSE live[b]]

Without(allocations, base) == [b \in DOMAIN allocations \ {base} |-> allocations[b]]

(* The client is given base, and writes to it.                             *)
Hold(base, size) ==
  /\ live' = With(base, size)
  /\ outcome' = IF Disjoint(live') THEN "running" ELSE "overlap"

(* What create_heap returns, and no memory mapped.                         *)
Empty == [first |-> Null, mapped |-> {},
          previous |-> [r \in Runs |-> Null],
          next |-> [r \in Runs |-> Null],
          chunk_count |-> [r \in Runs |-> 0],
          occupied |-> [r \in Runs |-> {}],
          size |-> [b \in {} |-> 0]]

Init ==
  /\ heap = Empty
  /\ live = [b \in {} |-> 0]
  /\ outcome = "running"

(* allocate(heap, size), and reallocate(heap, 0, size).  For no bytes,     *)
(* or when map_virtual_memory fails, it returns null and changes nothing.  *)
Allocate(size) ==
  \E allocated \in allocate(heap, size) :
    /\ outcome = "running"
    /\ heap' = allocated.heap
    /\ Hold(allocated.base, size)

(* deallocate(heap, pointer), and reallocate(heap, pointer, 0).            *)
Deallocate(base) ==
  /\ outcome = "running"
  /\ heap' = deallocate(heap, base)
  /\ live' = Without(live, base)
  /\ UNCHANGED outcome

ReallocateShrink(base, new_size) ==
  /\ outcome = "running"
  /\ Shrinks(heap, base, new_size)
  /\ heap' = Shrink(heap, base, new_size)
  /\ Hold(base, new_size)

ReallocateExpand(base, new_size) ==
  /\ outcome = "running"
  /\ ~Shrinks(heap, base, new_size)
  /\ CanExpand(heap, base, new_size)
  /\ heap' = Occupy(heap, base, new_size)
  /\ Hold(base, new_size)

(* The allocation moves: allocate, copy, deallocate.                       *)
MustMove(base, new_size) ==
  ~Shrinks(heap, base, new_size) /\ ~CanExpand(heap, base, new_size)

ReallocateMove(base, new_size) ==
  \E allocated \in allocate(heap, new_size) :
    /\ outcome = "running"
    /\ MustMove(base, new_size)
    /\ IF Disjoint(With(allocated.base, new_size))
       THEN /\ heap' = deallocate(allocated.heap, base)
            /\ live' = Without(With(allocated.base, new_size), base)
            /\ UNCHANGED outcome
       ELSE /\ heap' = allocated.heap
            /\ Hold(allocated.base, new_size)
        
(* The same, when allocate returns null: the copy is written to it.        *)
ReallocateFails(base, new_size) ==
  /\ outcome = "running"
  /\ MustMove(base, new_size)
  /\ NeedsNewRun(heap, new_size)
  /\ outcome' = "null_write"
  /\ UNCHANGED <<heap, live>>

(* destroy_heap unmaps the runs of the list, and the client takes a new    *)
(* heap from create_heap.                                                  *)
Destroy ==
  /\ outcome = "running"
  /\ heap' = [Empty EXCEPT !.mapped =
                heap.mapped \ {NthRun(heap)[k] : k \in DOMAIN NthRun(heap)}]
  /\ live' = [b \in {} |-> 0]
  /\ UNCHANGED outcome

(* The program has crashed, or is not followed any further.                *)
Stopped == outcome # "running" /\ UNCHANGED vars

Next ==
  \/ \E size \in Sizes : Allocate(size)
  \/ \E base \in DOMAIN live : Deallocate(base)
  \/ \E base \in DOMAIN live, new_size \in Sizes :
       \/ ReallocateShrink(base, new_size)
       \/ ReallocateExpand(base, new_size)
       \/ ReallocateMove(base, new_size)
       \/ ReallocateFails(base, new_size)
  \/ Destroy
  \/ Stopped

Spec == Init /\ [][Next]_vars

(***************************************************************************)
(* Properties                                                              *)
(***************************************************************************)

TypeOK ==
  /\ DOMAIN heap = {"first", "mapped", "previous", "next", "chunk_count", "occupied", "size"}
  /\ heap.first \in Runs \cup {Null}
  /\ heap.mapped \in SUBSET Runs
  /\ heap.previous \in [Runs -> Runs \cup {Null}]
  /\ heap.next \in [Runs -> Runs \cup {Null}]
  /\ heap.chunk_count \in [Runs -> 0..MaxChunks]
  /\ heap.occupied \in [Runs -> SUBSET (0..subchunk_count(MaxChunks) - 1)]
  /\ DOMAIN heap.size \subseteq Bases
  /\ \A b \in DOMAIN heap.size : heap.size[b] \in Sizes
  /\ DOMAIN live \subseteq Bases
  /\ \A b \in DOMAIN live : live[b] \in Sizes
  /\ outcome \in {"running", "null_write", "overlap"}

(* An allocation lies in one mapped run, after the preamble and before the *)
(* end: a new run is long enough for it and for a map of that length.      *)
BlocksFit ==
  \A b \in DOMAIN live :
    /\ b[1] \in heap.mapped
    /\ Span(b, live[b]) \subseteq DataSubchunks(heap, b[1])

(* The header that deallocate and reallocate read before the memory they   *)
(* are given is the one that was written for it.                           *)
HeadersAreIntact ==
  outcome # "overlap" =>
    \A b \in DOMAIN live : b \in DOMAIN heap.size /\ heap.size[b] = live[b]

(* A subchunk is marked just when an allocation takes it: nothing is lost  *)
(* when an allocation shrinks or moves, and a run whose last allocation is *)
(* given back is unmapped, so that none is kept for nothing.               *)
NothingIsLost ==
  outcome # "overlap" =>
    \A run \in heap.mapped :
      /\ \E b \in DOMAIN live : b[1] = run
      /\ heap.occupied[run] = UNION {Span(b, live[b]) : b \in {c \in DOMAIN live : c[1] = run}}

(* The runs form one doubly linked list, from the first: runs are appended *)
(* at its end and unlinked anywhere in it.                                 *)
ListIsWellFormed ==
  /\ heap.mapped = {NthRun(heap)[k] : k \in DOMAIN NthRun(heap)} \ {Null}
  /\ \A run \in heap.mapped :
       /\ heap.previous[run] = Null <=> heap.first = run
       /\ heap.next[run] # Null => heap.previous[heap.next[run]] = run
       /\ heap.previous[run] # Null => heap.next[heap.previous[run]] = run

(* The memory of an allocation is its own as long as the client holds it,  *)
(* however other allocations come, go, grow and move, but for one thing:   *)
(* an allocation of three subchunks or more may be laid around another,    *)
(* its first and its last subchunk being free.                             *)
OverlapsSurround ==
  \/ Disjoint(live)
  \/ \E b \in DOMAIN live :
       /\ total_size_in_subchunks(live[b]) > 2
       /\ Disjoint(Without(live, b))
       /\ \A p \in DOMAIN live \ {b} : p[1] = b[1] =>
            {b[2], b[2] + total_size_in_subchunks(live[b]) - 1} \cap Span(p, live[p]) = {}

(* The heap as an allocator: an allocation is its subchunks.               *)
AllocationsOf == [b \in DOMAIN live |-> {b[1]} \X Span(b, live[b])]

A == INSTANCE Allocator WITH Pointers <- Bases, Cells <- Bases, allocations <- AllocationsOf

(* A new allocation of three subchunks or more, between the ends of which  *)
(* there are others.                                                       *)
LaidAround ==
  \E b \in DOMAIN live' \ DOMAIN live :
    /\ DOMAIN live' = DOMAIN live \cup {b}
    /\ total_size_in_subchunks(live'[b]) > 2
    /\ \A p \in DOMAIN live : p[1] = b[1] =>
         {b[2], b[2] + total_size_in_subchunks(live'[b]) - 1} \cap Span(p, live[p]) = {}

(* Whatever the heap does, to expand, shrink, move or give back, is what   *)
(* an allocator may do, but for an allocation that is laid around others.  *)
ImplementsAllocator ==
  A!Init /\ [][A!Next \/ LaidAround]_AllocationsOf

=============================================================================
