----------------------------- MODULE HeapProofs -----------------------------
(***************************************************************************)
(* Theorems about Heap, for any number of runs, any geometry of subchunks  *)
(* and headers, and any sizes that a client asks for.                      *)
(***************************************************************************)
EXTENDS Heap, SetInduction, FiniteSetTheorems, TLAPS

(* A client whose requests take one or two subchunks.                      *)
SmallRequests == \A size \in Sizes : total_size_in_subchunks(size) <= 2

(* The types of the fields of a heap that allocations depend on.           *)
HeapType(h) ==
  /\ DOMAIN h = {"first", "mapped", "previous", "next", "chunk_count", "occupied", "size"}
  /\ h.mapped \subseteq Runs
  /\ h.chunk_count \in [Runs -> 0..MaxChunks]
  /\ h.occupied \in [Runs -> SUBSET Nat]
  /\ DOMAIN h.next = Runs
  /\ DOMAIN h.previous = Runs

(* The client's allocations are bases with sizes it may have asked for.    *)
AllocationsType(allocations) ==
  \A b \in DOMAIN allocations : b \in Runs \X Nat /\ allocations[b] \in Sizes

(* The heap knows an allocation: its header and its subchunks.             *)
Knows(h, b, size) ==
  /\ b[1] \in h.mapped
  /\ Span(b, size) \subseteq DataSubchunks(h, b[1])
  /\ Span(b, size) \subseteq h.occupied[b[1]]
  /\ b \in DOMAIN h.size
  /\ h.size[b] = size

HeapOK(h, allocations) ==
  /\ HeapType(h)
  /\ AllocationsType(allocations)
  /\ Disjoint(allocations)
  /\ \A b \in DOMAIN allocations : Knows(h, b, allocations[b])

(***************************************************************************)
(* Sizes                                                                   *)
(***************************************************************************)

LEMMA RoundUpIsNatural ==
  ASSUME NEW left \in Nat, NEW right \in Nat \ {0}
  PROVE  /\ divide_round_up(left, right) \in Nat
         /\ left > 0 => divide_round_up(left, right) > 0
<1>1. left + right - 1 \in Nat
  OBVIOUS
<1>2. (left + right - 1) \div right \in Nat
  BY <1>1
<1>3. left > 0 => (left + right - 1) \div right > 0
  BY <1>1
<1> QED
  BY <1>2, <1>3 DEF divide_round_up

LEMMA TotalIsPositive ==
  ASSUME NEW size \in Sizes
  PROVE  total_size_in_subchunks(size) \in Nat \ {0}
<1>1. size \in Nat \ {0} /\ AllocationHeaderSize \in Nat \ {0} /\ largest_alignment \in Nat \ {0}
      /\ subchunk_size \in Nat \ {0}
  BY HeapAssumption
<1>2. divide_round_up(AllocationHeaderSize, largest_alignment) \in Nat
  BY <1>1, RoundUpIsNatural
<1>3. allocation_header_aligned_size \in Nat
  BY <1>1, <1>2 DEF allocation_header_aligned_size
<1>4. allocation_header_aligned_size + size \in Nat \ {0}
  BY <1>1, <1>3
<1> QED
  BY <1>1, <1>4, RoundUpIsNatural DEF total_size_in_subchunks

LEMMA CountsAreNatural ==
  ASSUME NEW chunks \in Nat
  PROVE  subchunk_count(chunks) \in Nat /\ preamble_subchunk_count(chunks) \in Nat
<1>1. subchunk_count(chunks) \in Nat
  BY HeapAssumption DEF subchunk_count
<1>2. ChunkRunHeaderSize + subchunk_count(chunks) * BoolSize \in Nat
  BY <1>1, HeapAssumption
<1> QED
  BY <1>1, <1>2, RoundUpIsNatural, HeapAssumption DEF preamble_subchunk_count

LEMMA SpanContainsBase ==
  ASSUME NEW b \in Runs \X Nat, NEW size \in Sizes
  PROVE  b[2] \in Span(b, size) /\ Span(b, size) \subseteq Nat
  BY TotalIsPositive DEF Span

(***************************************************************************)
(* The steps of the heap, one at a time                                    *)
(***************************************************************************)

(* The client's allocations with one more, or with another size for one.   *)
Plus(allocations, base, size) ==
  [b \in DOMAIN allocations \cup {base} |-> IF b = base THEN size ELSE allocations[b]]

(* A place that no allocation takes, but for the one that grows there.     *)
LEMMA OccupyKeepsHeapOK ==
  ASSUME NEW h, NEW allocations, HeapOK(h, allocations),
         NEW base \in Runs \X Nat, base[1] \in h.mapped, NEW size \in Sizes,
         Span(base, size) \subseteq DataSubchunks(h, base[1]),
         \A b \in DOMAIN allocations \ {base} :
           b[1] = base[1] => Span(b, allocations[b]) \cap Span(base, size) = {}
  PROVE  HeapOK(Occupy(h, base, size), Plus(allocations, base, size))
<1> DEFINE h2 == Occupy(h, base, size)
           a2 == Plus(allocations, base, size)
           overwritten == {<<base[1], i>> : i \in Span(base, size)}
<1>0. base[1] \in Runs /\ Span(base, size) \subseteq Nat
  BY SpanContainsBase
<1>1. /\ DOMAIN h2 = DOMAIN h
      /\ h2.mapped = h.mapped
      /\ h2.chunk_count = h.chunk_count
      /\ h2.next = h.next
      /\ h2.previous = h.previous
      /\ h2.occupied = [h.occupied EXCEPT ![base[1]] = @ \cup Span(base, size)]
      /\ h2.size = [b \in (DOMAIN h.size \ overwritten) \cup {base} |->
                      IF b = base THEN size ELSE h.size[b]]
  BY DEF HeapOK, HeapType, Occupy
<1>2. HeapType(h2)
  BY <1>0, <1>1 DEF HeapOK, HeapType
<1>3. AllocationsType(a2)
  BY DEF HeapOK, AllocationsType, Plus
<1>4. Disjoint(a2)
  BY DEF HeapOK, Disjoint, Plus
<1>5. ASSUME NEW b \in DOMAIN a2
      PROVE  Knows(h2, b, a2[b])
  <2>1. DataSubchunks(h2, b[1]) = DataSubchunks(h, b[1])
    BY <1>1 DEF DataSubchunks
  <2>2. CASE b = base
    <3>1. a2[b] = size
      BY <2>2 DEF Plus
    <3>2. Span(base, size) \subseteq h2.occupied[base[1]]
      BY <1>0, <1>1 DEF HeapOK, HeapType
    <3> QED
      BY <1>1, <2>1, <2>2, <3>1, <3>2 DEF Knows
  <2>3. CASE b # base
    <3>1. b \in DOMAIN allocations /\ a2[b] = allocations[b]
      BY <2>3 DEF Plus
    <3>2. Knows(h, b, allocations[b]) /\ b \in Runs \X Nat /\ allocations[b] \in Sizes
      BY <3>1 DEF HeapOK, AllocationsType
    <3>3. b \notin overwritten
      <4>1. SUFFICES ASSUME b[1] = base[1], b[2] \in Span(base, size)
                     PROVE  FALSE
        BY <3>2
      <4>2. b[2] \in Span(b, allocations[b])
        BY <3>2, SpanContainsBase
      <4> QED
        BY <2>3, <3>1, <4>1, <4>2
    <3>4. h.occupied[b[1]] \subseteq h2.occupied[b[1]]
      BY <1>1, <3>2 DEF HeapOK, HeapType
    <3>5. b \in DOMAIN h2.size /\ h2.size[b] = h.size[b]
      BY <1>1, <2>3, <3>2, <3>3 DEF Knows
    <3> QED
      BY <1>1, <2>1, <3>1, <3>2, <3>4, <3>5 DEF Knows
  <2> QED
    BY <2>2, <2>3
<1> QED
  BY <1>2, <1>3, <1>4, <1>5 DEF HeapOK

(* A new run changes nothing for the allocations in the others.            *)
LEMMA AppendKeepsHeapOK ==
  ASSUME NEW h, NEW allocations, HeapOK(h, allocations),
         NEW run \in Runs \ h.mapped, NEW chunks \in 0..MaxChunks, NEW last
  PROVE  HeapOK(Append(h, run, chunks, last), allocations)
<1> DEFINE h2 == Append(h, run, chunks, last)
<1>1. /\ DOMAIN h2 = DOMAIN h
      /\ h2.mapped = h.mapped \cup {run}
      /\ h2.chunk_count = [h.chunk_count EXCEPT ![run] = chunks]
      /\ DOMAIN h2.next = Runs
      /\ DOMAIN h2.previous = DOMAIN h.previous
      /\ h2.occupied = [h.occupied EXCEPT ![run] = {}]
      /\ h2.size = h.size
  BY DEF HeapOK, HeapType, Append
<1>2. HeapType(h2)
  BY <1>1 DEF HeapOK, HeapType
<1>3. ASSUME NEW b \in DOMAIN allocations
      PROVE  Knows(h2, b, allocations[b])
  <2>1. Knows(h, b, allocations[b]) /\ b[1] \in Runs /\ b[1] # run
    BY <1>3 DEF HeapOK, HeapType, Knows
  <2>2. DataSubchunks(h2, b[1]) = DataSubchunks(h, b[1]) /\ h2.occupied[b[1]] = h.occupied[b[1]]
    BY <1>1, <2>1 DEF DataSubchunks, HeapOK, HeapType
  <2> QED
    BY <1>1, <2>1, <2>2 DEF Knows
<1> QED
  BY <1>2, <1>3 DEF HeapOK

(* What the client holds with one more allocation, of which no other       *)
(* allocation has the first or the last subchunk.                          *)
EndsAreFree(allocations, base, size) ==
  \A b \in DOMAIN allocations : b[1] = base[1] =>
    {base[2], base[2] + total_size_in_subchunks(size) - 1} \cap Span(b, allocations[b]) = {}

(* allocate finds a place that is not taken at either end, in a run that   *)
(* is long enough.                                                         *)
LEMMA AllocatePlaces ==
  ASSUME NEW h, NEW allocations, HeapOK(h, allocations),
         NEW size \in Sizes, NEW allocated \in allocate(h, size)
  PROVE  \E h2 :
           /\ HeapOK(h2, allocations)
           /\ allocated.heap = Occupy(h2, allocated.base, size)
           /\ allocated.base \in Runs \X Nat
           /\ allocated.base[1] \in h2.mapped
           /\ Span(allocated.base, size) \subseteq DataSubchunks(h2, allocated.base[1])
           /\ EndsAreFree(allocations, allocated.base, size)
           /\ h2 = h \/ \E chunks \in 1 .. MaxChunks : \E last :
                          /\ IsLast(h, last)
                          /\ allocated.base[1] \in Runs \ h.mapped
                          /\ h2 = Append(h, allocated.base[1], chunks, last)
<1> DEFINE n == total_size_in_subchunks(size)
           base == allocated.base
<1>0. n \in Nat \ {0}
  BY TotalIsPositive
<1>1. CASE allocated \in FromRun(h, size)
  <2>1. base \in Places(h, size) /\ allocated.heap = Occupy(h, base, size)
    BY <1>1 DEF FromRun
  <2>2. base \in Runs \X Nat /\ base[1] \in h.mapped /\ Found(h, base[1], n, base[2])
    <3>1. base \in Bases /\ base[1] \in h.mapped /\ Found(h, base[1], n, base[2])
      BY <2>1 DEF Places
    <3>2. \A i \in 0..subchunk_count(MaxChunks) - 1 : i \in Nat
      OBVIOUS
    <3> QED
      BY <3>1, <3>2 DEF Bases
  <2>3. \A i \in {base[2], base[2] + n - 1} : i \in DataSubchunks(h, base[1]) \ h.occupied[base[1]]
    BY <2>2 DEF Found
  <2>4. Span(base, size) \subseteq DataSubchunks(h, base[1])
    <3>1. h.chunk_count[base[1]] \in Nat
      BY <2>2, HeapAssumption DEF HeapOK, HeapType
    <3> QED
      BY <1>0, <2>2, <2>3, <3>1, CountsAreNatural DEF Span, DataSubchunks
  <2>5. EndsAreFree(allocations, base, size)
    BY <2>3 DEF HeapOK, Knows, EndsAreFree
  <2> QED
    BY <2>1, <2>2, <2>4, <2>5
<1>2. CASE allocated \in FromNewRun(h, size)
  <2>1. PICK run \in Runs \ h.mapped, chunks \in 1..MaxChunks, last \in h.mapped \cup {Null} :
          /\ new_chunk_run_chunk_count(n, chunks)
          /\ IsLast(h, last)
          /\ allocated = [base |-> <<run, preamble_subchunk_count(chunks)>>,
                          heap |-> Occupy(Append(h, run, chunks, last),
                                          <<run, preamble_subchunk_count(chunks)>>, size)]
    BY <1>2 DEF FromNewRun
  <2> DEFINE h2 == Append(h, run, chunks, last)
  <2>2. chunks \in Nat /\ MaxChunks \in Nat
    BY HeapAssumption
  <2>3. HeapOK(h2, allocations)
    BY <2>1, <2>2, AppendKeepsHeapOK
  <2>4. /\ base = <<run, preamble_subchunk_count(chunks)>>
        /\ allocated.heap = Occupy(h2, base, size)
    BY <2>1
  <2>5. base \in Runs \X Nat /\ base[1] = run /\ base[2] = preamble_subchunk_count(chunks)
    BY <2>2, <2>4, CountsAreNatural
  <2>6. h2.mapped = h.mapped \cup {run} /\ h2.chunk_count[run] = chunks
    BY DEF Append, HeapOK, HeapType
  <2>7. Span(base, size) \subseteq DataSubchunks(h2, run)
    <3>1. subchunk_count(chunks) - preamble_subchunk_count(chunks) >= n
      BY <2>1 DEF new_chunk_run_chunk_count, Available
    <3> QED
      BY <1>0, <2>2, <2>5, <2>6, <3>1, CountsAreNatural DEF DataSubchunks, Span
  <2>8. EndsAreFree(allocations, base, size)
    BY <2>5 DEF HeapOK, Knows, EndsAreFree
  <2>9. \E c \in 1 .. MaxChunks : \E l :
          /\ IsLast(h, l)
          /\ base[1] \in Runs \ h.mapped
          /\ h2 = Append(h, base[1], c, l)
    BY <2>1, <2>5
  <2> QED
    BY <2>3, <2>4, <2>5, <2>6, <2>7, <2>8, <2>9
<1> QED
  BY <1>1, <1>2 DEF allocate

LEMMA AllocatedIsNew ==
  ASSUME NEW h, NEW allocations, HeapOK(h, allocations),
         NEW size \in Sizes, NEW base \in Runs \X Nat, EndsAreFree(allocations, base, size)
  PROVE  base \notin DOMAIN allocations
<1>1. SUFFICES ASSUME base \in DOMAIN allocations
               PROVE  FALSE
  OBVIOUS
<1>2. base[2] \in Span(base, allocations[base])
  BY <1>1, SpanContainsBase DEF HeapOK, AllocationsType
<1> QED
  BY <1>1, <1>2 DEF EndsAreFree

(* Nothing lies around an allocation of one or two subchunks.              *)
LEMMA SmallIsDisjoint ==
  ASSUME NEW h, NEW allocations, HeapOK(h, allocations),
         NEW size \in Sizes, NEW base \in Runs \X Nat, EndsAreFree(allocations, base, size),
         total_size_in_subchunks(size) <= 2
  PROVE  Disjoint(Plus(allocations, base, size))
<1>1. \A i \in Span(base, size) : i \in {base[2], base[2] + total_size_in_subchunks(size) - 1}
  BY TotalIsPositive DEF Span
<1>2. \A b \in DOMAIN allocations : b[1] = base[1] => Span(b, allocations[b]) \cap Span(base, size) = {}
  BY <1>1 DEF EndsAreFree
<1> QED
  BY <1>2 DEF HeapOK, Disjoint, Plus

(* The allocations fit in their runs, as BlocksFit says of the client's.   *)
AllFit(h, allocations) ==
  \A b \in DOMAIN allocations :
    b[1] \in h.mapped /\ Span(b, allocations[b]) \subseteq DataSubchunks(h, b[1])

LEMMA AllocateKeepsHeapOK ==
  ASSUME NEW h, NEW allocations, HeapOK(h, allocations),
         NEW size \in Sizes, NEW allocated \in allocate(h, size)
  PROVE  /\ allocated.base \in Runs \X Nat
         /\ allocated.base \notin DOMAIN allocations
         /\ EndsAreFree(allocations, allocated.base, size)
         /\ AllFit(allocated.heap, Plus(allocations, allocated.base, size))
         /\ Disjoint(Plus(allocations, allocated.base, size)) =>
              HeapOK(allocated.heap, Plus(allocations, allocated.base, size))
<1> DEFINE base == allocated.base
           a2 == Plus(allocations, base, size)
<1>1. PICK h2 : /\ HeapOK(h2, allocations)
                /\ allocated.heap = Occupy(h2, base, size)
                /\ base \in Runs \X Nat
                /\ base[1] \in h2.mapped
                /\ Span(base, size) \subseteq DataSubchunks(h2, base[1])
                /\ EndsAreFree(allocations, base, size)
  BY AllocatePlaces
<1>2. base \notin DOMAIN allocations
  BY <1>1, AllocatedIsNew
<1>3. AllFit(allocated.heap, a2)
  <2>1. allocated.heap.mapped = h2.mapped /\ allocated.heap.chunk_count = h2.chunk_count
    BY <1>1 DEF HeapOK, HeapType, Occupy
  <2>2. \A b \in DOMAIN allocations :
          b[1] \in h2.mapped /\ Span(b, allocations[b]) \subseteq DataSubchunks(h2, b[1])
    BY <1>1 DEF HeapOK, Knows
  <2> QED
    BY <1>1, <2>1, <2>2 DEF AllFit, Plus, DataSubchunks
<1>4. ASSUME Disjoint(a2)
      PROVE  HeapOK(allocated.heap, a2)
  <2>1. \A b \in DOMAIN allocations \ {base} :
          b[1] = base[1] => Span(b, allocations[b]) \cap Span(base, size) = {}
    BY <1>4 DEF Disjoint, Plus
  <2> QED
    BY <1>1, <2>1, OccupyKeepsHeapOK
<1> QED
  BY <1>1, <1>2, <1>3, <1>4

(* What deallocate frees was the allocation's alone, and a run that it     *)
(* unmaps has no other.                                                    *)
LEMMA DeallocateKeepsHeapOK ==
  ASSUME NEW h, NEW allocations, HeapOK(h, allocations),
         NEW base \in DOMAIN allocations
  PROVE  HeapOK(deallocate(h, base), Without(allocations, base))
<1> DEFINE size == allocations[base]
           run == base[1]
           h2 == deallocate(h, base)
           a2 == Without(allocations, base)
<1>0. /\ base \in Runs \X Nat /\ size \in Sizes /\ run \in Runs
      /\ h.size[base] = size
      /\ Knows(h, base, size)
  BY DEF HeapOK, AllocationsType, Knows
<1>1. \A b \in DOMAIN a2 : b \in DOMAIN allocations /\ b # base /\ a2[b] = allocations[b]
  BY DEF Without
<1>2. AllocationsType(a2) /\ Disjoint(a2)
  BY <1>1 DEF HeapOK, AllocationsType, Disjoint
<1>3. \A b \in DOMAIN a2 : b[1] = run => Span(b, a2[b]) \cap Span(base, size) = {}
  BY <1>1 DEF HeapOK, Disjoint
<1>4. CASE IsOnlyOne(h, base)
  <2>1. h2 = Unmap(h, run)
    BY <1>4 DEF deallocate
  <2>2. \A b \in DOMAIN a2 : b[1] # run
    <3>1. SUFFICES ASSUME NEW b \in DOMAIN a2, b[1] = run
                   PROVE  FALSE
      OBVIOUS
    <3>2. Knows(h, b, a2[b]) /\ b \in Runs \X Nat /\ a2[b] \in Sizes
      BY <1>1 DEF HeapOK, AllocationsType
    <3>3. b[2] \in Span(b, a2[b]) /\ b[2] \in Nat
      BY <3>2, SpanContainsBase
    <3>4. /\ b[2] \in h.occupied[run]
          /\ b[2] \in DataSubchunks(h, run)
          /\ b[2] \notin Span(base, size)
      BY <1>3, <3>1, <3>2, <3>3 DEF Knows
    <3>5. h.chunk_count[run] \in Nat
      BY <1>0 DEF HeapOK, HeapType
    <3> HIDE DEF size
    <3> QED
      BY <1>0, <1>4, <3>3, <3>4, <3>5, CountsAreNatural, TotalIsPositive
      DEF IsOnlyOne, DataSubchunks, Span
  <2>3. HeapType(h2)
    BY <1>0, <2>1, HeapAssumption DEF Unmap, HeapOK, HeapType
  <2>4. ASSUME NEW b \in DOMAIN a2
        PROVE  Knows(h2, b, a2[b])
    <3>1. Knows(h, b, a2[b]) /\ b[1] \in Runs /\ b[1] # run
      BY <1>1, <2>2 DEF HeapOK, AllocationsType
    <3>2. /\ h2.chunk_count[b[1]] = h.chunk_count[b[1]]
          /\ h2.occupied[b[1]] = h.occupied[b[1]]
          /\ b[1] \in h2.mapped
      BY <2>1, <3>1 DEF Unmap, Knows, HeapOK, HeapType
    <3>3. b \in DOMAIN h2.size /\ h2.size[b] = h.size[b]
      BY <2>1, <3>1 DEF Unmap, Knows
    <3> QED
      BY <3>1, <3>2, <3>3 DEF Knows, DataSubchunks
  <2> QED
    BY <1>2, <2>3, <2>4 DEF HeapOK
<1>5. CASE ~IsOnlyOne(h, base)
  <2>1. h2 = [h EXCEPT !.occupied[run] = @ \ Span(base, size),
                       !.size = [b \in DOMAIN @ \ {base} |-> h.size[b]]]
    BY <1>0, <1>5 DEF deallocate
  <2>2. /\ DOMAIN h2 = DOMAIN h
        /\ h2.mapped = h.mapped
        /\ h2.chunk_count = h.chunk_count
        /\ h2.next = h.next
        /\ h2.previous = h.previous
        /\ h2.occupied = [h.occupied EXCEPT ![run] = @ \ Span(base, size)]
        /\ h2.size = [b \in DOMAIN h.size \ {base} |-> h.size[b]]
    BY <2>1 DEF HeapOK, HeapType
  <2>3. HeapType(h2)
    BY <1>0, <2>2 DEF HeapOK, HeapType
  <2>4. ASSUME NEW b \in DOMAIN a2
        PROVE  Knows(h2, b, a2[b])
    <3>1. Knows(h, b, a2[b]) /\ b[1] \in Runs
      BY <1>1 DEF HeapOK, AllocationsType
    <3>2. Span(b, a2[b]) \subseteq h2.occupied[b[1]]
      BY <1>0, <1>3, <2>2, <3>1 DEF Knows, HeapOK, HeapType
    <3>3. b \in DOMAIN h2.size /\ h2.size[b] = h.size[b]
      BY <1>1, <2>2, <3>1 DEF Knows
    <3> QED
      BY <2>2, <3>1, <3>2, <3>3 DEF Knows, DataSubchunks
  <2> QED
    BY <1>2, <2>3, <2>4 DEF HeapOK
<1> QED
  BY <1>4, <1>5

(* An allocation that shrinks gives up its last subchunks only.            *)
LEMMA ShrinkKeepsHeapOK ==
  ASSUME NEW h, NEW allocations, HeapOK(h, allocations),
         NEW base \in DOMAIN allocations, NEW size \in Sizes, Shrinks(h, base, size)
  PROVE  HeapOK(Shrink(h, base, size), Plus(allocations, base, size))
<1> DEFINE old == allocations[base]
           run == base[1]
           h2 == Shrink(h, base, size)
           a2 == Plus(allocations, base, size)
<1>0. /\ base \in Runs \X Nat /\ old \in Sizes /\ run \in Runs
      /\ h.size[base] = old
      /\ Knows(h, base, old)
  BY DEF HeapOK, AllocationsType, Knows
<1>1. Span(base, size) \subseteq Span(base, old)
  <2>1. total_size_in_subchunks(size) <= total_size_in_subchunks(old)
    BY <1>0 DEF Shrinks
  <2> HIDE DEF old
  <2> QED
    BY <1>0, <2>1, TotalIsPositive DEF Span
<1>2. /\ DOMAIN h2 = DOMAIN h
      /\ h2.mapped = h.mapped
      /\ h2.chunk_count = h.chunk_count
      /\ h2.next = h.next
      /\ h2.previous = h.previous
      /\ h2.occupied = [h.occupied EXCEPT ![run] = @ \ (Span(base, old) \ Span(base, size))]
      /\ h2.size = [h.size EXCEPT ![base] = size]
  BY <1>0 DEF Shrink, HeapOK, HeapType
<1>3. HeapType(h2)
  BY <1>0, <1>2 DEF HeapOK, HeapType
<1>4. DOMAIN a2 = DOMAIN allocations /\ a2[base] = size
      /\ \A b \in DOMAIN a2 \ {base} : a2[b] = allocations[b]
  BY DEF Plus
<1>5. AllocationsType(a2)
  BY <1>4 DEF HeapOK, AllocationsType
<1>6. \A b \in DOMAIN a2 \ {base} : b[1] = run => Span(b, a2[b]) \cap Span(base, old) = {}
  BY <1>4 DEF HeapOK, Disjoint
<1>7. Disjoint(a2)
  BY <1>1, <1>4, <1>6 DEF HeapOK, Disjoint
<1>8. ASSUME NEW b \in DOMAIN a2
      PROVE  Knows(h2, b, a2[b])
  <2>1. Knows(h, b, allocations[b]) /\ b[1] \in Runs
    BY <1>4 DEF HeapOK, AllocationsType
  <2>2. CASE b = base
    BY <1>0, <1>1, <1>2, <1>4, <2>1, <2>2 DEF Knows, DataSubchunks, HeapOK, HeapType
  <2>3. CASE b # base
    <3>1. Span(b, a2[b]) \subseteq h2.occupied[b[1]]
      BY <1>0, <1>2, <1>4, <1>6, <2>1, <2>3 DEF Knows, HeapOK, HeapType
    <3> QED
      BY <1>2, <1>4, <2>1, <2>3, <3>1 DEF Knows, DataSubchunks
  <2> QED
    BY <2>2, <2>3
<1> QED
  BY <1>3, <1>5, <1>7, <1>8 DEF HeapOK

(***************************************************************************)
(* The steps of the client                                                 *)
(***************************************************************************)

(* The inductive invariant: the heap is as it should be until allocations  *)
(* overlap, and then one of them surrounds others.                         *)
IInv ==
  /\ AllocationsType(live)
  /\ BlocksFit
  /\ OverlapsSurround
  /\ outcome # "overlap" => HeapOK(heap, live)
  /\ outcome = "overlap" => ~Disjoint(live)

LEMMA HeapOKIsIInv ==
  HeapOK(heap, live) /\ outcome # "overlap" => IInv
  BY DEF IInv, HeapOK, Knows, BlocksFit, OverlapsSurround

LEMMA HeapOKIsIInvNext ==
  HeapOK(heap', live') /\ outcome' # "overlap" => IInv'
  BY DEF IInv, HeapOK, Knows, BlocksFit, OverlapsSurround, DataSubchunks

LEMMA InitIsOK == Init => IInv
<1>1. SUFFICES ASSUME Init PROVE IInv
  OBVIOUS
<1>2. HeapOK(heap, live)
  BY <1>1, HeapAssumption DEF Init, Empty, HeapOK, HeapType, AllocationsType, Disjoint
<1> QED
  BY <1>1, <1>2, HeapOKIsIInv DEF Init

(* The cells of an allocation.                                             *)
CellsOf(b, size) == {b[1]} \X Span(b, size)

LEMMA CellsAreApart ==
  ASSUME NEW h, NEW allocations, HeapOK(h, allocations)
  PROVE  /\ \A b \in DOMAIN allocations :
              /\ b \in Bases
              /\ CellsOf(b, allocations[b]) # {}
              /\ CellsOf(b, allocations[b]) \subseteq Bases
         /\ \A b, c \in DOMAIN allocations :
              b # c => CellsOf(b, allocations[b]) \cap CellsOf(c, allocations[c]) = {}
<1>1. ASSUME NEW b \in DOMAIN allocations
      PROVE  /\ b \in Bases
             /\ CellsOf(b, allocations[b]) # {}
             /\ CellsOf(b, allocations[b]) \subseteq Bases
  <2>1. /\ b \in Runs \X Nat /\ allocations[b] \in Sizes
        /\ Span(b, allocations[b]) \subseteq DataSubchunks(h, b[1])
    BY DEF HeapOK, AllocationsType, Knows
  <2>2. b[2] \in Span(b, allocations[b])
    BY <2>1, SpanContainsBase
  <2>3. h.chunk_count[b[1]] \in 0..MaxChunks
    BY <2>1 DEF HeapOK, HeapType
  <2>4. subchunk_count(h.chunk_count[b[1]]) <= subchunk_count(MaxChunks)
    <3> DEFINE c == h.chunk_count[b[1]]
    <3>1. c \in Nat /\ MaxChunks \in Nat /\ c <= MaxChunks /\ subchunks_per_chunk \in Nat
      BY <2>3, HeapAssumption
    <3> HIDE DEF c
    <3>2. c * subchunks_per_chunk <= MaxChunks * subchunks_per_chunk
      BY <3>1
    <3> QED
      BY <3>2 DEF c, subchunk_count
  <2>5. DataSubchunks(h, b[1]) \subseteq 0..subchunk_count(MaxChunks) - 1
    <3>1. h.chunk_count[b[1]] \in Nat /\ MaxChunks \in Nat
      BY <2>3, HeapAssumption
    <3> QED
      BY <2>4, <3>1, CountsAreNatural DEF DataSubchunks
  <2> QED
    BY <2>1, <2>2, <2>5 DEF Bases, CellsOf
<1>2. ASSUME NEW b \in DOMAIN allocations, NEW c \in DOMAIN allocations, b # c
      PROVE  CellsOf(b, allocations[b]) \cap CellsOf(c, allocations[c]) = {}
  BY <1>2 DEF HeapOK, Disjoint, CellsOf
<1> QED
  BY <1>1, <1>2

LEMMA MappingOfLive ==
  /\ DOMAIN AllocationsOf = DOMAIN live
  /\ \A b \in DOMAIN live : AllocationsOf[b] = CellsOf(b, live[b])
  BY DEF AllocationsOf, CellsOf

LEMMA MappingOfLiveNext ==
  /\ DOMAIN AllocationsOf' = DOMAIN live'
  /\ \A b \in DOMAIN live' : AllocationsOf'[b] = CellsOf(b, live'[b])
  BY DEF AllocationsOf, CellsOf

(* The client is given an allocation that overlaps another: its ends are   *)
(* free, so that it lies around the other.                                 *)
LEMMA OverlapStep ==
  ASSUME IInv, outcome = "running", NEW size \in Sizes, NEW allocated \in allocate(heap, size),
         heap' = allocated.heap, Hold(allocated.base, size),
         ~Disjoint(Plus(live, allocated.base, size))
  PROVE  IInv' /\ LaidAround
<1> DEFINE base == allocated.base
<1>1. HeapOK(heap, live)
  BY DEF IInv
<1>2. live' = Plus(live, base, size)
  BY DEF Hold, With, Plus
<1>3. /\ base \in Runs \X Nat /\ base \notin DOMAIN live
      /\ EndsAreFree(live, base, size)
      /\ AllFit(heap', live')
  BY <1>1, <1>2, AllocateKeepsHeapOK
<1>4. outcome' = "overlap" /\ ~Disjoint(live')
  BY <1>2 DEF Hold
<1>5. /\ DOMAIN live' = DOMAIN live \cup {base} /\ live'[base] = size
      /\ \A b \in DOMAIN live : live'[b] = live[b]
  BY <1>2, <1>3 DEF Plus
<1>6. AllocationsType(live')
  BY <1>1, <1>3, <1>5 DEF HeapOK, AllocationsType
<1>7. BlocksFit'
  BY <1>3 DEF AllFit, BlocksFit, DataSubchunks
<1>8. total_size_in_subchunks(size) > 2
  <2>1. ~(total_size_in_subchunks(size) <= 2)
    BY <1>1, <1>3, SmallIsDisjoint
  <2> QED
    BY <2>1, TotalIsPositive
<1>9. OverlapsSurround'
  <2>2. Disjoint(Without(live', base))
    BY <1>1, <1>3, <1>5 DEF HeapOK, Disjoint, Without
  <2>3. \A p \in DOMAIN live' \ {base} : p[1] = base[1] =>
          {base[2], base[2] + total_size_in_subchunks(live'[base]) - 1} \cap Span(p, live'[p]) = {}
    BY <1>3, <1>5 DEF EndsAreFree
  <2> QED
    BY <1>5, <1>8, <2>2, <2>3 DEF OverlapsSurround
<1>10. LaidAround
  BY <1>3, <1>5, <1>8 DEF LaidAround, EndsAreFree
<1> QED
  BY <1>4, <1>6, <1>7, <1>9, <1>10 DEF IInv

LEMMA AllocateStep ==
  ASSUME IInv, NEW size \in Sizes, Allocate(size)
  PROVE  IInv' /\ (A!Next \/ LaidAround)
<1>1. PICK allocated \in allocate(heap, size) :
        /\ outcome = "running"
        /\ heap' = allocated.heap
        /\ Hold(allocated.base, size)
  BY DEF Allocate
<1> DEFINE base == allocated.base
<1>2. live' = Plus(live, base, size) /\ HeapOK(heap, live)
  BY <1>1 DEF Hold, With, Plus, IInv
<1>3. CASE ~Disjoint(Plus(live, base, size))
  BY <1>1, <1>3, OverlapStep
<1>4. CASE Disjoint(Plus(live, base, size))
  <2>1. base \in Runs \X Nat /\ base \notin DOMAIN live /\ HeapOK(heap', live')
    BY <1>1, <1>2, <1>4, AllocateKeepsHeapOK
  <2>2. outcome' # "overlap"
    BY <1>1, <1>2, <1>4 DEF Hold
  <2>3. /\ DOMAIN live' = DOMAIN live \cup {base}
        /\ \A b \in DOMAIN live : live'[b] = live[b]
    BY <1>2, <2>1 DEF Plus
  <2>4. A!Allocate
    <3> HIDE DEF base
    <3>1. /\ base \in Bases
          /\ AllocationsOf'[base] # {}
          /\ AllocationsOf'[base] \subseteq Bases
          /\ \A b \in DOMAIN live : AllocationsOf'[base] \cap AllocationsOf[b] = {}
      BY <2>1, <2>3, CellsAreApart, MappingOfLive, MappingOfLiveNext
    <3>2. \A b \in DOMAIN live : AllocationsOf'[b] = AllocationsOf[b]
      BY <2>3, MappingOfLive, MappingOfLiveNext
    <3> QED
      BY <2>1, <2>3, <3>1, <3>2, MappingOfLive, MappingOfLiveNext
      DEF A!Allocate, A!Keeps, A!Used
  <2> QED
    BY <2>1, <2>2, <2>4, HeapOKIsIInvNext DEF A!Next
<1> QED
  BY <1>3, <1>4

LEMMA DeallocateStep ==
  ASSUME IInv, NEW base \in DOMAIN live, Deallocate(base)
  PROVE  IInv' /\ A!Next
<1>1. /\ outcome = "running"
      /\ heap' = deallocate(heap, base)
      /\ live' = Without(live, base)
      /\ outcome' = outcome
  BY DEF Deallocate
<1>2. HeapOK(heap', live')
  BY <1>1, DeallocateKeepsHeapOK DEF IInv
<1>3. /\ DOMAIN live' = DOMAIN live \ {base}
      /\ \A b \in DOMAIN live' : live'[b] = live[b]
  BY <1>1 DEF Without
<1>4. A!Free
  BY <1>3, MappingOfLive, MappingOfLiveNext DEF A!Free, A!Keeps
<1> QED
  BY <1>1, <1>2, <1>4, HeapOKIsIInvNext DEF A!Next

(* An allocation that keeps its base and has its own cells.                *)
LEMMA ResizeInPlace ==
  ASSUME NEW base \in DOMAIN live, NEW size \in Sizes,
         live' = Plus(live, base, size), HeapOK(heap', live')
  PROVE  A!Resize
<1>1. /\ DOMAIN live' = DOMAIN live
      /\ \A b \in DOMAIN live \ {base} : live'[b] = live[b]
  BY DEF Plus
<1>2. /\ AllocationsOf'[base] # {}
      /\ AllocationsOf'[base] \subseteq Bases
      /\ \A b \in DOMAIN live \ {base} : AllocationsOf'[base] \cap AllocationsOf'[b] = {}
  BY <1>1, CellsAreApart, MappingOfLiveNext
<1>3. \A b \in DOMAIN live \ {base} : AllocationsOf'[b] = AllocationsOf[b]
  BY <1>1, MappingOfLive, MappingOfLiveNext
<1>4. DOMAIN AllocationsOf' = (DOMAIN AllocationsOf \ {base}) \cup {base}
  BY <1>1, MappingOfLive, MappingOfLiveNext
<1> QED
  BY <1>2, <1>3, <1>4, MappingOfLive DEF A!Resize, A!Keeps

LEMMA ShrinkStep ==
  ASSUME IInv, NEW base \in DOMAIN live, NEW size \in Sizes, ReallocateShrink(base, size)
  PROVE  IInv' /\ A!Next
<1>1. /\ outcome = "running"
      /\ Shrinks(heap, base, size)
      /\ heap' = Shrink(heap, base, size)
      /\ live' = Plus(live, base, size)
      /\ outcome' = IF Disjoint(live') THEN "running" ELSE "overlap"
  BY DEF ReallocateShrink, Hold, With, Plus
<1>2. HeapOK(heap', live')
  BY <1>1, ShrinkKeepsHeapOK DEF IInv
<1>3. outcome' # "overlap"
  BY <1>1, <1>2 DEF HeapOK
<1>4. A!Resize
  BY <1>1, <1>2, ResizeInPlace
<1> QED
  BY <1>2, <1>3, <1>4, HeapOKIsIInvNext DEF A!Next

LEMMA ExpandStep ==
  ASSUME IInv, NEW base \in DOMAIN live, NEW size \in Sizes, ReallocateExpand(base, size)
  PROVE  IInv' /\ A!Next
<1> DEFINE old == live[base]
<1>1. /\ outcome = "running"
      /\ HeapOK(heap, live)
      /\ CanExpand(heap, base, size)
      /\ heap' = Occupy(heap, base, size)
      /\ live' = Plus(live, base, size)
      /\ outcome' = IF Disjoint(live') THEN "running" ELSE "overlap"
  BY DEF ReallocateExpand, Hold, With, Plus, IInv
<1>2. /\ base \in Runs \X Nat
      /\ old \in Sizes
      /\ heap.size[base] = old
      /\ Knows(heap, base, old)
      /\ heap.chunk_count[base[1]] \in Nat
  BY <1>1, HeapAssumption DEF HeapOK, HeapType, AllocationsType, Knows
<1>3. Span(base, size) \subseteq DataSubchunks(heap, base[1])
  <2>1. base[2] \in DataSubchunks(heap, base[1])
    BY <1>2, SpanContainsBase DEF Knows
  <2>2. base[2] + total_size_in_subchunks(size) <= subchunk_count(heap.chunk_count[base[1]])
    BY <1>1 DEF CanExpand
  <2> QED
    BY <1>2, <2>1, <2>2, TotalIsPositive, CountsAreNatural DEF DataSubchunks, Span
<1>4. ASSUME NEW b \in DOMAIN live \ {base}, b[1] = base[1]
      PROVE  Span(b, live[b]) \cap Span(base, size) = {}
  <2>1. Span(b, live[b]) \subseteq heap.occupied[base[1]]
    BY <1>1, <1>4 DEF HeapOK, Knows
  <2>2. Span(b, live[b]) \cap Span(base, old) = {}
    BY <1>1, <1>4 DEF HeapOK, Disjoint
  <2>3. \A i \in Span(base, size) \ Span(base, old) : i \notin heap.occupied[base[1]]
    BY <1>1, <1>2 DEF CanExpand
  <2> QED
    BY <2>1, <2>2, <2>3
<1>5. HeapOK(heap', live')
  BY <1>1, <1>2, <1>3, <1>4, OccupyKeepsHeapOK DEF Knows
<1>6. outcome' # "overlap"
  BY <1>1, <1>5 DEF HeapOK
<1>7. A!Resize
  BY <1>1, <1>5, ResizeInPlace
<1> QED
  BY <1>5, <1>6, <1>7, HeapOKIsIInvNext DEF A!Next

LEMMA MoveStep ==
  ASSUME IInv, NEW base \in DOMAIN live, NEW size \in Sizes,
         ReallocateMove(base, size)
  PROVE  IInv' /\ (A!Next \/ LaidAround)
<1>1. PICK allocated \in allocate(heap, size) :
        /\ outcome = "running"
        /\ IF Disjoint(With(allocated.base, size))
           THEN /\ heap' = deallocate(allocated.heap, base)
                /\ live' = Without(With(allocated.base, size), base)
                /\ outcome' = outcome
           ELSE heap' = allocated.heap /\ Hold(allocated.base, size)
  BY DEF ReallocateMove
<1> DEFINE new == allocated.base
           both == Plus(live, new, size)
<1>2. With(new, size) = both
  BY DEF With, Plus
<1>3. CASE ~Disjoint(both)
  BY <1>1, <1>2, <1>3, OverlapStep
<1>4. CASE Disjoint(both)
  <2>1. new \in Runs \X Nat /\ new \notin DOMAIN live /\ HeapOK(allocated.heap, both)
    BY <1>1, <1>4, AllocateKeepsHeapOK DEF IInv
  <2>2. /\ heap' = deallocate(allocated.heap, base)
        /\ live' = Without(both, base)
        /\ outcome' = "running"
    BY <1>1, <1>2, <1>4
  <2>3. base \in DOMAIN both
    BY DEF Plus
  <2>4. HeapOK(heap', live')
    BY <2>1, <2>2, <2>3, DeallocateKeepsHeapOK
  <2>5. /\ DOMAIN live' = (DOMAIN live \ {base}) \cup {new}
        /\ \A b \in DOMAIN live \ {base} : live'[b] = live[b]
    BY <2>1, <2>2 DEF Without, Plus
  <2>6. A!Resize
    <3> HIDE DEF new
    <3>1. /\ new \in Bases
          /\ AllocationsOf'[new] # {}
          /\ AllocationsOf'[new] \subseteq Bases
          /\ \A b \in DOMAIN live' \ {new} : AllocationsOf'[new] \cap AllocationsOf'[b] = {}
      BY <2>4, <2>5, CellsAreApart, MappingOfLiveNext
    <3>2. \A b \in DOMAIN live \ {base} : AllocationsOf'[b] = AllocationsOf[b]
      BY <2>5, MappingOfLive, MappingOfLiveNext
    <3> QED
      BY <2>1, <2>5, <3>1, <3>2, MappingOfLive, MappingOfLiveNext DEF A!Resize, A!Keeps
  <2> QED
    BY <2>2, <2>4, <2>6, HeapOKIsIInvNext DEF A!Next
<1> QED
  BY <1>3, <1>4

LEMMA DestroyStep ==
  ASSUME IInv, Destroy
  PROVE  IInv' /\ A!Next
<1>1. /\ outcome = "running"
      /\ heap' = [Empty EXCEPT !.mapped = heap.mapped \ {NthRun(heap)[k] : k \in DOMAIN NthRun(heap)}]
      /\ DOMAIN live' = {}
      /\ outcome' = outcome
  BY DEF Destroy
<1>2. HeapOK(heap', live')
  BY <1>1, HeapAssumption DEF IInv, Empty, HeapOK, HeapType, AllocationsType, Disjoint
<1>3. A!Reset
  BY <1>1, MappingOfLiveNext DEF A!Reset
<1> QED
  BY <1>1, <1>2, <1>3, HeapOKIsIInvNext DEF A!Next

(* Steps that leave the heap and what the client holds alone.              *)
LEMMA OtherSteps ==
  ASSUME IInv, UNCHANGED <<heap, live>>,
         outcome' = outcome \/ (outcome = "running" /\ outcome' = "null_write")
  PROVE  IInv' /\ UNCHANGED AllocationsOf
<1>1. UNCHANGED AllocationsOf
  BY DEF AllocationsOf
<1>2. BlocksFit' /\ OverlapsSurround'
  BY DEF IInv, BlocksFit, OverlapsSurround
<1> QED
  BY <1>1, <1>2 DEF IInv

LEMMA NextKeepsIInv ==
  ASSUME IInv, [Next]_vars
  PROVE  IInv' /\ [A!Next \/ LaidAround]_AllocationsOf
<1>1. ASSUME NEW size \in Sizes, Allocate(size)
      PROVE  IInv' /\ [A!Next \/ LaidAround]_AllocationsOf
  BY <1>1, AllocateStep
<1>2. ASSUME NEW base \in DOMAIN live, Deallocate(base)
      PROVE  IInv' /\ [A!Next \/ LaidAround]_AllocationsOf
  BY <1>2, DeallocateStep
<1>3. ASSUME NEW base \in DOMAIN live, NEW size \in Sizes,
             \/ ReallocateShrink(base, size)
             \/ ReallocateExpand(base, size)
             \/ ReallocateMove(base, size)
             \/ ReallocateFails(base, size)
      PROVE  IInv' /\ [A!Next \/ LaidAround]_AllocationsOf
  <2>1. CASE ReallocateShrink(base, size)
    BY <2>1, ShrinkStep
  <2>2. CASE ReallocateExpand(base, size)
    BY <2>2, ExpandStep
  <2>3. CASE ReallocateMove(base, size)
    BY <2>3, MoveStep
  <2>4. CASE ReallocateFails(base, size)
    BY <2>4, OtherSteps DEF ReallocateFails
  <2> QED
    BY <1>3, <2>1, <2>2, <2>3, <2>4
<1>4. CASE Destroy
  BY <1>4, DestroyStep
<1>5. CASE Stopped \/ UNCHANGED vars
  BY <1>5, OtherSteps DEF Stopped, vars
<1> QED
  BY <1>1, <1>2, <1>3, <1>4, <1>5 DEF Next

(***************************************************************************)
(* Theorems                                                                *)
(***************************************************************************)

LEMMA IInvIsInvariant == Spec => []IInv
<1>1. Init => IInv
  BY InitIsOK
<1>2. IInv /\ [Next]_vars => IInv'
  BY NextKeepsIInv
<1> QED
  BY <1>1, <1>2, PTL DEF Spec

(* Every allocation lies in a mapped run, between the preamble and the     *)
(* end, whatever allocate, reallocate and deallocate are called with.      *)
THEOREM AllocationsFit == Spec => []BlocksFit
<1>1. IInv => BlocksFit
  BY DEF IInv
<1> QED
  BY <1>1, IInvIsInvariant, PTL

(* Allocations share memory in one way only: one of three subchunks or     *)
(* more, whose first and last subchunk are its own, lies around others.    *)
THEOREM OverlapsAreSurrounded == Spec => []OverlapsSurround
<1>1. IInv => OverlapsSurround
  BY DEF IInv
<1> QED
  BY <1>1, IInvIsInvariant, PTL

(* deallocate and reallocate read the header that allocate wrote: no other *)
(* allocation has been laid over it, until one is laid around another.     *)
THEOREM HeadersAreRead == Spec => []HeadersAreIntact
<1>1. IInv => HeadersAreIntact
  BY DEF IInv, HeapOK, Knows, HeadersAreIntact
<1> QED
  BY <1>1, IInvIsInvariant, PTL

(* Every step of the heap is a step of Allocator, or one with which an     *)
(* allocation of three subchunks or more is laid around others.            *)
THEOREM HeapImplementsAllocator == Spec => ImplementsAllocator
<1>1. Init => A!Init
  <2>1. ASSUME Init PROVE A!Init
    BY <2>1 DEF Init, A!Init, AllocationsOf
  <2> QED
    BY <2>1
<1>2. IInv /\ [Next]_vars => [A!Next \/ LaidAround]_AllocationsOf
  BY NextKeepsIInv
<1> QED
  BY <1>1, <1>2, IInvIsInvariant, PTL DEF Spec, ImplementsAllocator

(* A client whose requests take one or two subchunks has an allocator: the *)
(* heap implements Allocator without exception.                            *)
THEOREM SmallRequestsAreSafe ==
  ASSUME SmallRequests
  PROVE  Spec => A!Spec /\ []Disjoint(live)
<1>1. Init => A!Init
  <2>1. ASSUME Init PROVE A!Init
    BY <2>1 DEF Init, A!Init, AllocationsOf
  <2> QED
    BY <2>1
<1>2. IInv => Disjoint(live)
  <2>1. SUFFICES ASSUME IInv PROVE Disjoint(live)
    OBVIOUS
  <2>2. \A b \in DOMAIN live : ~(total_size_in_subchunks(live[b]) > 2)
    <3>1. \A b \in DOMAIN live : live[b] \in Sizes
      BY <2>1 DEF IInv, AllocationsType
    <3> QED
      BY <3>1, TotalIsPositive DEF SmallRequests
  <2> QED
    BY <2>1, <2>2 DEF IInv, OverlapsSurround
<1>3. ASSUME IInv'
      PROVE  ~LaidAround
  <2>1. \A b \in DOMAIN live' : live'[b] \in Sizes
    BY <1>3 DEF IInv, AllocationsType
  <2>2. \A b \in DOMAIN live' : ~(total_size_in_subchunks(live'[b]) > 2)
    BY <2>1, TotalIsPositive DEF SmallRequests
  <2> QED
    BY <2>2 DEF LaidAround
<1>4. IInv /\ [Next]_vars => IInv' /\ [A!Next \/ LaidAround]_AllocationsOf
  BY NextKeepsIInv
<1>5. IInv /\ [Next]_vars => [A!Next]_AllocationsOf
  BY <1>3, <1>4
<1> QED
  BY <1>1, <1>2, <1>5, IInvIsInvariant, PTL DEF Spec, A!Spec

(***************************************************************************)
(* The list of runs                                                        *)
(***************************************************************************)

(* The mapped runs of h are s[1], ..., s[n], each of them once, in the     *)
(* order of the list, which can be walked from either end.                 *)
IsListOf(h, s, n) ==
  /\ s \in [1 .. n -> Runs]
  /\ \A j, k \in 1 .. n : s[j] = s[k] => j = k
  /\ \A run : run \in h.mapped <=> \E k \in 1 .. n : s[k] = run
  /\ h.first = IF n = 0 THEN Null ELSE s[1]
  /\ \A k \in 1 .. n :
       /\ h.next[s[k]] = IF k = n THEN Null ELSE s[k + 1]
       /\ h.previous[s[k]] = IF k = 1 THEN Null ELSE s[k - 1]

Listed(h) ==
  /\ DOMAIN h.next = Runs
  /\ DOMAIN h.previous = Runs
  /\ \E n \in Nat : \E s : IsListOf(h, s, n)

(* A list is not longer than there are runs.                               *)
LEMMA ListIsShort ==
  ASSUME NEW h, NEW n \in Nat, NEW s, IsListOf(h, s, n)
  PROVE  Cardinality(Runs) \in Nat /\ n <= Cardinality(Runs)
<1>1. s \in Injection(1 .. n, Runs)
  BY DEF IsListOf, Injection, IsInjective
<1>2. IsFiniteSet(Runs) /\ IsFiniteSet(1 .. n) /\ Cardinality(1 .. n) = n
  BY HeapAssumption, FS_Interval
<1>3. Cardinality(Runs) \in Nat
  BY <1>2, FS_CardinalityType
<1>4. Cardinality(1 .. n) <= Cardinality(Runs)
  BY <1>1, <1>2, FS_Injection
<1> QED
  BY <1>2, <1>3, <1>4

(* The walk from the first run visits the list, and then null.             *)
LEMMA NthRunOfList ==
  ASSUME NEW h, NEW n \in Nat, NEW s, IsListOf(h, s, n)
  PROVE  NthRun(h) = [k \in 0 .. Cardinality(Runs) |-> IF k < n THEN s[k + 1] ELSE Null]
<1> DEFINE C == Cardinality(Runs)
           walk == [k \in 0 .. C |-> IF k < n THEN s[k + 1] ELSE Null]
           Step(f) == [k \in 0 .. C |->
                         IF k = 0 THEN h.first
                         ELSE IF f[k - 1] = Null THEN Null ELSE h.next[f[k - 1]]]
<1>1. C \in Nat
  BY ListIsShort
<1>2. walk = Step(walk)
  <2>1. ASSUME NEW k \in 0 .. C
        PROVE  walk[k] = Step(walk)[k]
    <3>1. CASE k = 0
      BY <1>1, <3>1 DEF IsListOf
    <3>2. CASE k # 0
      <4>1. k - 1 \in 0 .. C /\ Step(walk)[k] = IF walk[k - 1] = Null THEN Null ELSE h.next[walk[k - 1]]
        BY <1>1, <3>2
      <4>2. CASE k - 1 < n
        <5>1. walk[k - 1] = s[k] /\ k \in 1 .. n /\ s[k] \in Runs
          BY <1>1, <3>2, <4>1, <4>2 DEF IsListOf
        <5>2. h.next[s[k]] = IF k = n THEN Null ELSE s[k + 1]
          BY <5>1 DEF IsListOf
        <5> QED
          BY <1>1, <4>1, <5>1, <5>2, HeapAssumption
      <4>3. CASE ~(k - 1 < n)
        BY <1>1, <3>2, <4>1, <4>3
      <4> QED
        BY <4>2, <4>3
    <3> QED
      BY <3>1, <3>2
  <2> QED
    BY <2>1
<1>3. NthRun(h) = CHOOSE f : f = Step(f)
  BY DEF NthRun
<1> DEFINE nth == NthRun(h)
<1>4. nth = Step(nth)
  <2> HIDE DEF walk, Step
  <2> QED BY <1>2, <1>3
<1>5. \A k \in 0 .. C : nth[k] = walk[k]
  <2> DEFINE U == {k \in 0 .. C : nth[k] = walk[k]}
  <2>1. 0 \in U
    <3>1. nth[0] = Step(nth)[0] /\ walk[0] = Step(walk)[0]
      <4> HIDE DEF Step, walk, nth
      <4> QED BY <1>2, <1>4
    <3> HIDE DEF nth, walk
    <3> QED BY <1>1, <3>1
  <2>2. ASSUME NEW k \in 0 .. C - 1, k \in U
        PROVE  k + 1 \in U
    <3>1. nth[k + 1] = Step(nth)[k + 1] /\ walk[k + 1] = Step(walk)[k + 1]
      <4> HIDE DEF Step, walk, nth
      <4> QED BY <1>2, <1>4
    <3> HIDE DEF nth, walk
    <3>2. k + 1 \in 0 .. C /\ (k + 1) - 1 = k /\ nth[k] = walk[k]
      BY <1>1, <2>2
    <3> QED
      BY <3>1, <3>2
  <2>3. \A k \in 0 .. C : k \in U
    <3> HIDE DEF U
    <3> QED BY <1>1, <2>1, <2>2, IntervalInduction
  <2> QED
    BY <2>3
<1> QED
  <2>1. Step(nth) = [k \in 0 .. C |-> Step(nth)[k]] /\ walk = [k \in 0 .. C |-> walk[k]]
    OBVIOUS
  <2>2. \A k \in 0 .. C : Step(nth)[k] = walk[k]
    BY <1>4, <1>5
  <2>3. Step(nth) = walk
    <3> HIDE DEF Step, walk, nth
    <3> QED BY <2>1, <2>2
  <2> QED
    BY <1>4, <2>3

(* A new run, linked to the last one.                                      *)
LEMMA AppendKeepsList ==
  ASSUME NEW h, Listed(h), NEW run \in Runs \ h.mapped, NEW chunks,
         NEW last, IsLast(h, last)
  PROVE  Listed(Append(h, run, chunks, last))
<1>0. PICK n \in Nat : \E s : IsListOf(h, s, n)
  BY DEF Listed
<1>1. PICK s : IsListOf(h, s, n)
  BY <1>0
<1> DEFINE h2 == Append(h, run, chunks, last)
           s2 == [k \in 1 .. n + 1 |-> IF k = n + 1 THEN run ELSE s[k]]
<1>2. /\ h2.first = IF last = Null THEN run ELSE h.first
      /\ \A r : r \in h2.mapped <=> r \in h.mapped \/ r = run
      /\ DOMAIN h2.next = Runs /\ DOMAIN h2.previous = Runs
      /\ \A r \in Runs : h2.next[r] = IF r = run THEN Null ELSE IF r = last THEN run ELSE h.next[r]
      /\ \A r \in Runs : h2.previous[r] = IF r = run THEN last ELSE h.previous[r]
  BY DEF Append, Listed
<1>3. Null \notin Runs /\ \A k \in 1 .. n : s[k] \in Runs /\ s[k] \in h.mapped /\ s[k] # run
  BY <1>1, HeapAssumption DEF IsListOf
<1>4. last = IF n = 0 THEN Null ELSE s[n]
  <2>1. CASE last = Null /\ h.first = Null
    BY <1>1, <1>3, <2>1 DEF IsListOf
  <2>2. CASE last \in h.mapped /\ h.next[last] = Null
    <3>1. PICK k \in 1 .. n : s[k] = last
      BY <1>1, <2>2 DEF IsListOf
    <3>2. h.next[s[k]] = IF k = n THEN Null ELSE s[k + 1]
      BY <1>1 DEF IsListOf
    <3>3. k # n => s[k + 1] \in Runs
      BY <1>3
    <3> QED
      BY <1>3, <2>2, <3>1, <3>2, <3>3
  <2> QED
    BY <2>1, <2>2 DEF IsLast
<1> HIDE DEF h2
<1>5. s2 \in [1 .. n + 1 -> Runs] /\ s2[n + 1] = run /\ \A k \in 1 .. n : s2[k] = s[k]
  BY <1>3
<1> HIDE DEF s2
<1>6. IsListOf(h2, s2, n + 1)
  <2>1. \A j, k \in 1 .. n + 1 : s2[j] = s2[k] => j = k
    <3>1. ASSUME NEW j \in 1 .. n + 1, NEW k \in 1 .. n + 1, s2[j] = s2[k]
          PROVE  j = k
      <4>1. j \in 1 .. n /\ k \in 1 .. n => j = k
        BY <1>1, <1>5, <3>1 DEF IsListOf
      <4>2. j = n + 1 /\ k \in 1 .. n => FALSE
        BY <1>3, <1>5, <3>1
      <4>3. k = n + 1 /\ j \in 1 .. n => FALSE
        BY <1>3, <1>5, <3>1
      <4> QED
        BY <4>1, <4>2, <4>3
    <3> QED
      BY <3>1
  <2>2. ASSUME NEW r
        PROVE  r \in h2.mapped <=> \E k \in 1 .. n + 1 : s2[k] = r
    <3>1. r \in h.mapped <=> \E k \in 1 .. n : s[k] = r
      BY <1>1 DEF IsListOf
    <3> QED
      BY <1>2, <1>5, <3>1
  <2>3. h2.first = s2[1]
    BY <1>1, <1>2, <1>3, <1>4, <1>5 DEF IsListOf
  <2>4. ASSUME NEW k \in 1 .. n + 1
        PROVE  /\ h2.next[s2[k]] = IF k = n + 1 THEN Null ELSE s2[k + 1]
               /\ h2.previous[s2[k]] = IF k = 1 THEN Null ELSE s2[k - 1]
    <3>1. CASE k = n + 1
      BY <1>2, <1>3, <1>4, <1>5, <3>1
    <3>2. CASE k \in 1 .. n
      <4>1. /\ s2[k] = s[k] /\ s[k] \in Runs /\ s[k] # run
            /\ h.next[s[k]] = IF k = n THEN Null ELSE s[k + 1]
            /\ h.previous[s[k]] = IF k = 1 THEN Null ELSE s[k - 1]
        BY <1>1, <1>3, <1>5, <3>2 DEF IsListOf
      <4>2. s[k] = last <=> k = n
        BY <1>1, <1>4, <3>2 DEF IsListOf
      <4>3. k > 1 => s2[k - 1] = s[k - 1]
        BY <1>5, <3>2
      <4>4. k < n => s2[k + 1] = s[k + 1]
        BY <1>5, <3>2
      <4>5. h2.next[s2[k]] = IF k = n THEN run ELSE h.next[s[k]]
        BY <1>2, <4>1, <4>2
      <4>6. h2.previous[s2[k]] = h.previous[s[k]]
        BY <1>2, <4>1
      <4> QED
        BY <1>5, <3>2, <4>1, <4>3, <4>4, <4>5, <4>6
    <3> QED
      BY <3>1, <3>2
  <2> QED
    BY <1>5, <2>1, <2>2, <2>3, <2>4 DEF IsListOf
<1>7. n + 1 \in Nat
  OBVIOUS
<1> QED
  BY <1>2, <1>6, <1>7 DEF Listed, h2

(* A run leaves the list, wherever it is.                                  *)
LEMMA UnmapKeepsList ==
  ASSUME NEW h, Listed(h), NEW run \in h.mapped
  PROVE  Listed(Unmap(h, run))
<1>0. PICK n \in Nat : \E s : IsListOf(h, s, n)
  BY DEF Listed
<1>1. PICK s : IsListOf(h, s, n)
  BY <1>0
<1>2. PICK m \in 1 .. n : s[m] = run
  BY <1>1 DEF IsListOf
<1> DEFINE h2 == Unmap(h, run)
           s2 == [k \in 1 .. n - 1 |-> IF k < m THEN s[k] ELSE s[k + 1]]
           before == h.previous[run]
           after == h.next[run]
<1>3. /\ h2.first = IF before = Null THEN after ELSE h.first
      /\ \A r : r \in h2.mapped <=> r \in h.mapped /\ r # run
      /\ DOMAIN h2.next = Runs /\ DOMAIN h2.previous = Runs
      /\ \A r \in Runs : h2.next[r] = IF r = run THEN Null ELSE IF r = before THEN after ELSE h.next[r]
      /\ \A r \in Runs : h2.previous[r] = IF r = run THEN Null ELSE IF r = after THEN before ELSE h.previous[r]
  BY DEF Unmap
<1>4. /\ before = IF m = 1 THEN Null ELSE s[m - 1]
      /\ after = IF m = n THEN Null ELSE s[m + 1]
  BY <1>1, <1>2 DEF IsListOf
<1>5. Null \notin Runs /\ \A k \in 1 .. n : s[k] \in Runs
  BY <1>1, HeapAssumption DEF IsListOf
<1>6. \A j, k \in 1 .. n : s[j] = s[k] => j = k
  BY <1>1 DEF IsListOf
<1> HIDE DEF h2, before, after
<1>7. /\ s2 \in [1 .. n - 1 -> Runs]
      /\ \A k \in 1 .. n - 1 : s2[k] = IF k < m THEN s[k] ELSE s[k + 1]
  BY <1>5
<1> HIDE DEF s2
<1>8. IsListOf(h2, s2, n - 1)
  <2>1. \A j, k \in 1 .. n - 1 : s2[j] = s2[k] => j = k
    <3>1. ASSUME NEW j \in 1 .. n - 1, NEW k \in 1 .. n - 1, s2[j] = s2[k]
          PROVE  j = k
      <4>1. PICK a \in 1 .. n : s2[j] = s[a] /\ a = IF j < m THEN j ELSE j + 1
        BY <1>7
      <4>2. PICK b \in 1 .. n : s2[k] = s[b] /\ b = IF k < m THEN k ELSE k + 1
        BY <1>7
      <4>3. a = b
        BY <1>6, <3>1, <4>1, <4>2
      <4> QED
        BY <4>1, <4>2, <4>3
    <3> QED
      BY <3>1
  <2>2. ASSUME NEW r
        PROVE  r \in h2.mapped <=> \E k \in 1 .. n - 1 : s2[k] = r
    <3>1. r \in h.mapped <=> \E k \in 1 .. n : s[k] = r
      BY <1>1 DEF IsListOf
    <3>2. ASSUME NEW k \in 1 .. n - 1, s2[k] = r
          PROVE  r \in h2.mapped
      <4>1. PICK a \in 1 .. n : s2[k] = s[a] /\ a # m
        BY <1>7
      <4>2. s[a] # run
        BY <1>2, <1>6, <4>1
      <4> QED
        BY <1>3, <3>1, <3>2, <4>1, <4>2
    <3>3. ASSUME r \in h2.mapped
          PROVE  \E k \in 1 .. n - 1 : s2[k] = r
      <4>1. PICK a \in 1 .. n : s[a] = r /\ r # run
        BY <1>3, <3>1, <3>3
      <4>2. a # m
        BY <1>2, <4>1
      <4>3. CASE a < m
        BY <1>7, <4>1, <4>3
      <4>4. CASE a > m
        <5>1. a - 1 \in 1 .. n - 1 /\ ~(a - 1 < m) /\ (a - 1) + 1 = a
          BY <4>4
        <5> QED
          BY <1>7, <4>1, <5>1
      <4> QED
        BY <4>2, <4>3, <4>4
    <3> QED
      BY <3>2, <3>3
  <2>3. h2.first = IF n - 1 = 0 THEN Null ELSE s2[1]
    <3>1. h.first = s[1]
      BY <1>1 DEF IsListOf
    <3>2. CASE m = 1
      BY <1>3, <1>4, <1>7, <3>2
    <3>3. CASE m > 1
      BY <1>3, <1>4, <1>5, <1>7, <3>1, <3>3
    <3> QED
      BY <3>2, <3>3
  <2>4. ASSUME NEW k \in 1 .. n - 1
        PROVE  /\ h2.next[s2[k]] = IF k = n - 1 THEN Null ELSE s2[k + 1]
               /\ h2.previous[s2[k]] = IF k = 1 THEN Null ELSE s2[k - 1]
    <3> DEFINE a == IF k < m THEN k ELSE k + 1
    <3>1. a \in 1 .. n /\ a # m /\ s2[k] = s[a]
      BY <1>7
    <3>2. /\ h.next[s[a]] = IF a = n THEN Null ELSE s[a + 1]
          /\ h.previous[s[a]] = IF a = 1 THEN Null ELSE s[a - 1]
          /\ s[a] \in Runs /\ s[a] # run
      <4> HIDE DEF a
      <4> QED BY <1>1, <1>2, <1>5, <1>6, <3>1 DEF IsListOf
    <3>3. s[a] = before <=> a = m - 1
      <4> HIDE DEF a
      <4> QED BY <1>4, <1>5, <1>6, <3>1
    <3>4. s[a] = after <=> a = m + 1
      <4> HIDE DEF a
      <4> QED BY <1>4, <1>5, <1>6, <3>1
    <3>5. h2.next[s2[k]] = IF a = m - 1 THEN after ELSE h.next[s[a]]
      <4> HIDE DEF a
      <4> QED BY <1>3, <3>1, <3>2, <3>3
    <3>6. h2.previous[s2[k]] = IF a = m + 1 THEN before ELSE h.previous[s[a]]
      <4> HIDE DEF a
      <4> QED BY <1>3, <3>1, <3>2, <3>4
    <3>7. k # n - 1 => s2[k + 1] = IF k + 1 < m THEN s[k + 1] ELSE s[k + 2]
      BY <1>7
    <3>8. k # 1 => s2[k - 1] = IF k - 1 < m THEN s[k - 1] ELSE s[k]
      BY <1>7
    <3>9. h2.next[s2[k]] = IF k = n - 1 THEN Null ELSE s2[k + 1]
      <4>1. CASE k < m - 1
        BY <3>2, <3>5, <3>7, <4>1
      <4>2. CASE k = m - 1
        BY <1>4, <3>2, <3>5, <3>7, <4>2
      <4>3. CASE k >= m
        BY <3>2, <3>5, <3>7, <4>3
      <4> QED
        BY <4>1, <4>2, <4>3
    <3>10. h2.previous[s2[k]] = IF k = 1 THEN Null ELSE s2[k - 1]
      <4>1. CASE k < m
        BY <3>2, <3>6, <3>8, <4>1
      <4>2. CASE k = m
        BY <1>4, <3>2, <3>6, <3>8, <4>2
      <4>3. CASE k > m
        BY <3>2, <3>6, <3>8, <4>3
      <4> QED
        BY <4>1, <4>2, <4>3
    <3> QED
      BY <3>9, <3>10
  <2> QED
    BY <1>7, <2>1, <2>2, <2>3, <2>4 DEF IsListOf
<1>9. n - 1 \in Nat
  OBVIOUS
<1> QED
  BY <1>3, <1>8, <1>9 DEF Listed, h2

(* Nothing else changes the list.                                          *)
LEMMA SameLinksKeepList ==
  ASSUME NEW h, Listed(h), NEW h2,
         h2.first = h.first, h2.mapped = h.mapped, h2.next = h.next, h2.previous = h.previous
  PROVE  Listed(h2)
<1>0. PICK n \in Nat : \E s : IsListOf(h, s, n)
  BY DEF Listed
<1>1. PICK s : IsListOf(h, s, n)
  BY <1>0
<1>2. IsListOf(h2, s, n)
  BY <1>1 DEF IsListOf
<1> QED
  BY <1>2 DEF Listed

(* What the run of a list says.                                            *)
LEMMA ListedIsWellFormed ==
  ASSUME Listed(heap)
  PROVE  /\ ListIsWellFormed
         /\ {NthRun(heap)[k] : k \in DOMAIN NthRun(heap)} \subseteq heap.mapped \cup {Null}
         /\ heap.mapped \subseteq {NthRun(heap)[k] : k \in DOMAIN NthRun(heap)}
<1>0. PICK n \in Nat : \E s : IsListOf(heap, s, n)
  BY DEF Listed
<1>1. PICK s : IsListOf(heap, s, n)
  BY <1>0
<1> DEFINE nth == NthRun(heap)
<1>2. /\ Cardinality(Runs) \in Nat /\ n <= Cardinality(Runs)
      /\ DOMAIN nth = 0 .. Cardinality(Runs)
      /\ \A k \in DOMAIN nth : nth[k] = IF k < n THEN s[k + 1] ELSE Null
  BY <1>1, ListIsShort, NthRunOfList
<1> HIDE DEF nth
<1>3. \A k \in 1 .. n : s[k] \in Runs /\ s[k] \in heap.mapped
  BY <1>1 DEF IsListOf
<1>4. \A k \in DOMAIN nth : nth[k] \in heap.mapped \cup {Null}
  BY <1>2, <1>3
<1>5. ASSUME NEW run \in heap.mapped
      PROVE  run # Null /\ \E k \in DOMAIN nth : nth[k] = run
  <2>1. PICK k \in 1 .. n : s[k] = run
    BY <1>1 DEF IsListOf
  <2>2. k - 1 \in DOMAIN nth /\ nth[k - 1] = s[k]
    BY <1>2
  <2> QED
    BY <1>3, <2>1, <2>2, HeapAssumption
<1>6. ASSUME NEW run \in heap.mapped
      PROVE  /\ heap.previous[run] = Null <=> heap.first = run
             /\ heap.next[run] # Null => heap.previous[heap.next[run]] = run
             /\ heap.previous[run] # Null => heap.next[heap.previous[run]] = run
  <2>1. PICK k \in 1 .. n : s[k] = run
    BY <1>1 DEF IsListOf
  <2>2. heap.first = s[1] /\ (s[1] = run <=> k = 1)
    BY <1>1, <2>1 DEF IsListOf
  <2>3. /\ heap.next[run] = IF k = n THEN Null ELSE s[k + 1]
        /\ heap.previous[run] = IF k = 1 THEN Null ELSE s[k - 1]
        /\ k < n => heap.previous[s[k + 1]] = s[k]
        /\ k > 1 => heap.next[s[k - 1]] = s[k]
    BY <1>1, <2>1 DEF IsListOf
  <2>4. k > 1 => s[k - 1] # Null
    BY <1>3, HeapAssumption
  <2> QED
    BY <2>1, <2>2, <2>3, <2>4
<1> QED
  BY <1>4, <1>5, <1>6 DEF ListIsWellFormed, nth

(***************************************************************************)
(* The types, and the marks                                                *)
(***************************************************************************)

HeapTypeOK(h) ==
  /\ DOMAIN h = {"first", "mapped", "previous", "next", "chunk_count", "occupied", "size"}
  /\ h.first \in Runs \cup {Null}
  /\ h.mapped \in SUBSET Runs
  /\ h.previous \in [Runs -> Runs \cup {Null}]
  /\ h.next \in [Runs -> Runs \cup {Null}]
  /\ h.chunk_count \in [Runs -> 0 .. MaxChunks]
  /\ h.occupied \in [Runs -> SUBSET (0 .. subchunk_count(MaxChunks) - 1)]
  /\ DOMAIN h.size \subseteq Bases
  /\ \A b \in DOMAIN h.size : h.size[b] \in Sizes

LEMMA PlacesAreBases ==
  ASSUME NEW h, HeapType(h), NEW base \in Runs \X Nat, NEW size \in Sizes,
         Span(base, size) \subseteq DataSubchunks(h, base[1])
  PROVE  base \in Bases /\ Span(base, size) \subseteq 0 .. subchunk_count(MaxChunks) - 1
<1>1. h.chunk_count[base[1]] \in Nat /\ h.chunk_count[base[1]] <= MaxChunks /\ MaxChunks \in Nat
  BY HeapAssumption DEF HeapType
<1>2. \A c, m, s \in Nat : c <= m => c * s <= m * s
  <2>1. ASSUME NEW c \in Nat, NEW m \in Nat, NEW s \in Nat, c <= m
        PROVE  c * s <= m * s
    <3>1. PICK d \in Nat : m = c + d
      <4>1. m - c \in Nat /\ m = c + (m - c)
        BY <2>1
      <4> QED BY <4>1
    <3>2. m * s = c * s + d * s /\ d * s \in Nat /\ c * s \in Nat
      BY <3>1
    <3> QED
      BY <3>2
  <2> QED BY <2>1
<1>3. subchunk_count(h.chunk_count[base[1]]) <= subchunk_count(MaxChunks)
  BY <1>1, <1>2, HeapAssumption DEF subchunk_count
<1>4. Span(base, size) \subseteq 0 .. subchunk_count(MaxChunks) - 1
  BY <1>1, <1>3, CountsAreNatural DEF DataSubchunks
<1>5. base[2] \in Span(base, size)
  BY SpanContainsBase
<1>6. base = <<base[1], base[2]>> /\ base[1] \in Runs
  OBVIOUS
<1> QED
  BY <1>4, <1>5, <1>6 DEF Bases

LEMMA OccupyKeepsTypes ==
  ASSUME NEW h, HeapTypeOK(h), NEW base \in Bases, NEW size \in Sizes,
         Span(base, size) \subseteq 0 .. subchunk_count(MaxChunks) - 1
  PROVE  HeapTypeOK(Occupy(h, base, size))
<1> DEFINE h2 == Occupy(h, base, size)
           overwritten == {<<base[1], i>> : i \in Span(base, size)}
<1>1. base[1] \in Runs
  BY DEF Bases
<1>2. /\ DOMAIN h2 = DOMAIN h
      /\ h2.first = h.first
      /\ h2.mapped = h.mapped
      /\ h2.chunk_count = h.chunk_count
      /\ h2.next = h.next
      /\ h2.previous = h.previous
      /\ h2.occupied = [h.occupied EXCEPT ![base[1]] = @ \cup Span(base, size)]
      /\ h2.size = [b \in (DOMAIN h.size \ overwritten) \cup {base} |->
                      IF b = base THEN size ELSE h.size[b]]
  BY DEF HeapTypeOK, Occupy
<1>3. h2.occupied \in [Runs -> SUBSET (0 .. subchunk_count(MaxChunks) - 1)]
  BY <1>1, <1>2 DEF HeapTypeOK
<1>4. DOMAIN h2.size \subseteq Bases /\ \A b \in DOMAIN h2.size : h2.size[b] \in Sizes
  BY <1>2 DEF HeapTypeOK
<1> QED
  BY <1>2, <1>3, <1>4 DEF HeapTypeOK

LEMMA AppendKeepsTypes ==
  ASSUME NEW h, HeapTypeOK(h), NEW run \in Runs \ h.mapped,
         NEW chunks \in 0 .. MaxChunks, NEW last, IsLast(h, last)
  PROVE  HeapTypeOK(Append(h, run, chunks, last))
<1>1. last \in Runs \cup {Null}
  BY DEF IsLast, HeapTypeOK
<1> QED
  BY <1>1 DEF Append, HeapTypeOK

LEMMA DeallocateKeepsTypes ==
  ASSUME NEW h, HeapTypeOK(h), NEW base, base[1] \in h.mapped
  PROVE  HeapTypeOK(deallocate(h, base))
<1> DEFINE run == base[1]
           h2 == deallocate(h, base)
<1>1. run \in Runs
  BY DEF HeapTypeOK
<1>2. CASE IsOnlyOne(h, base)
  <2>1. h2 = Unmap(h, run)
    BY <1>2 DEF deallocate
  <2> QED
    BY <1>1, <2>1, HeapAssumption DEF Unmap, HeapTypeOK
<1>3. CASE ~IsOnlyOne(h, base)
  <2> DEFINE freed == Span(base, h.size[base])
  <2>1. h2 = [h EXCEPT !.occupied[run] = @ \ freed,
                       !.size = [b \in DOMAIN @ \ {base} |-> h.size[b]]]
    BY <1>3 DEF deallocate
  <2> HIDE DEF freed
  <2>2. /\ DOMAIN h2 = DOMAIN h
        /\ h2.first = h.first
        /\ h2.mapped = h.mapped
        /\ h2.chunk_count = h.chunk_count
        /\ h2.next = h.next
        /\ h2.previous = h.previous
        /\ h2.occupied = [h.occupied EXCEPT ![run] = @ \ freed]
        /\ h2.size = [b \in DOMAIN h.size \ {base} |-> h.size[b]]
    BY <2>1 DEF HeapTypeOK
  <2>3. h2.occupied \in [Runs -> SUBSET (0 .. subchunk_count(MaxChunks) - 1)]
    BY <1>1, <2>2 DEF HeapTypeOK
  <2> QED
    BY <2>2, <2>3 DEF HeapTypeOK
<1> QED
  BY <1>2, <1>3

LEMMA ShrinkKeepsTypes ==
  ASSUME NEW h, HeapTypeOK(h), NEW base \in DOMAIN h.size, NEW size \in Sizes
  PROVE  HeapTypeOK(Shrink(h, base, size))
<1> DEFINE h2 == Shrink(h, base, size)
           freed == Span(base, h.size[base]) \ Span(base, size)
<1>1. base[1] \in Runs
  BY DEF Bases, HeapTypeOK
<1>2. h2 = [h EXCEPT !.occupied[base[1]] = @ \ freed, !.size[base] = size]
  BY DEF Shrink
<1> HIDE DEF freed
<1>3. /\ DOMAIN h2 = DOMAIN h
      /\ h2.first = h.first
      /\ h2.mapped = h.mapped
      /\ h2.chunk_count = h.chunk_count
      /\ h2.next = h.next
      /\ h2.previous = h.previous
      /\ h2.occupied = [h.occupied EXCEPT ![base[1]] = @ \ freed]
      /\ h2.size = [h.size EXCEPT ![base] = size]
  BY <1>2 DEF HeapTypeOK
<1>4. h2.occupied \in [Runs -> SUBSET (0 .. subchunk_count(MaxChunks) - 1)]
  BY <1>1, <1>3 DEF HeapTypeOK
<1> QED
  BY <1>3, <1>4 DEF HeapTypeOK

(* A subchunk of a mapped run is marked just when an allocation takes it.  *)
Marked(h, allocations) ==
  \A run \in h.mapped : \A i :
    i \in h.occupied[run] <=> \E b \in DOMAIN allocations : b[1] = run /\ i \in Span(b, allocations[b])

(* The mapped runs among these all have an allocation.                     *)
InUse(runs, allocations) ==
  \A run \in runs : \E b \in DOMAIN allocations : b[1] = run

(* A new allocation, or one that grows, is marked.                         *)
LEMMA OccupyKeepsMarks ==
  ASSUME NEW h, HeapType(h), NEW allocations, Marked(h, allocations),
         NEW base, base[1] \in h.mapped, NEW size,
         base \in DOMAIN allocations => Span(base, allocations[base]) \subseteq Span(base, size),
         InUse(h.mapped \ {base[1]}, allocations)
  PROVE  LET h2 == Occupy(h, base, size)
             a2 == Plus(allocations, base, size)
         IN  Marked(h2, a2) /\ InUse(h2.mapped, a2)
<1> DEFINE h2 == Occupy(h, base, size)
           a2 == Plus(allocations, base, size)
<1>1. h2.mapped = h.mapped /\ h2.occupied = [h.occupied EXCEPT ![base[1]] = @ \cup Span(base, size)]
  BY DEF HeapType, Occupy
<1>2. /\ DOMAIN a2 = DOMAIN allocations \cup {base}
      /\ a2[base] = size
      /\ \A b \in DOMAIN allocations \ {base} : a2[b] = allocations[b]
  BY DEF Plus
<1>3. h.mapped \subseteq DOMAIN h.occupied
  BY DEF HeapType
<1> HIDE DEF h2, a2
<1>4. ASSUME NEW run \in h2.mapped, NEW i
      PROVE  i \in h2.occupied[run] <=> \E b \in DOMAIN a2 : b[1] = run /\ i \in Span(b, a2[b])
  <2>1. i \in h.occupied[run] <=> \E b \in DOMAIN allocations : b[1] = run /\ i \in Span(b, allocations[b])
    BY <1>1 DEF Marked
  <2>2. i \in h2.occupied[run] <=> i \in h.occupied[run] \/ (run = base[1] /\ i \in Span(base, size))
    BY <1>1, <1>3
  <2> QED
    BY <1>2, <2>1, <2>2
<1>5. InUse(h2.mapped, a2)
  BY <1>1, <1>2 DEF InUse
<1> QED
  BY <1>4, <1>5 DEF Marked, h2, a2

LEMMA AppendKeepsMarks ==
  ASSUME NEW h, NEW allocations, HeapOK(h, allocations), Marked(h, allocations),
         InUse(h.mapped, allocations),
         NEW run \in Runs \ h.mapped, NEW chunks, NEW last
  PROVE  LET h2 == Append(h, run, chunks, last)
         IN  Marked(h2, allocations) /\ InUse(h2.mapped \ {run}, allocations)
<1> DEFINE h2 == Append(h, run, chunks, last)
<1>1. h2.mapped = h.mapped \cup {run} /\ h2.occupied = [h.occupied EXCEPT ![run] = {}]
  BY DEF Append
<1>2. \A b \in DOMAIN allocations : b[1] # run
  BY DEF HeapOK, Knows
<1>3. DOMAIN h.occupied = Runs
  BY DEF HeapOK, HeapType
<1> HIDE DEF h2
<1>4. ASSUME NEW r \in h2.mapped, NEW i
      PROVE  i \in h2.occupied[r] <=> \E b \in DOMAIN allocations : b[1] = r /\ i \in Span(b, allocations[b])
  <2>1. CASE r = run
    BY <1>1, <1>2, <1>3, <2>1
  <2>2. CASE r # run
    BY <1>1, <1>3, <2>2 DEF Marked
  <2> QED
    BY <2>1, <2>2
<1>5. InUse(h2.mapped \ {run}, allocations)
  BY <1>1 DEF InUse
<1> QED
  BY <1>4, <1>5 DEF Marked, h2

(* The marks of an allocation go with it, and its run with the last one.   *)
LEMMA DeallocateKeepsMarks ==
  ASSUME NEW h, NEW allocations, HeapOK(h, allocations), Marked(h, allocations),
         InUse(h.mapped, allocations), NEW base \in DOMAIN allocations
  PROVE  LET h2 == deallocate(h, base)
             a2 == Without(allocations, base)
         IN  Marked(h2, a2) /\ InUse(h2.mapped, a2)
<1> DEFINE h2 == deallocate(h, base)
           a2 == Without(allocations, base)
           run == base[1]
           span == Span(base, allocations[base])
<1>1. /\ run \in h.mapped /\ run \in Runs /\ base[2] \in Nat
      /\ h.size[base] = allocations[base]
      /\ allocations[base] \in Sizes
      /\ DOMAIN h.occupied = Runs
      /\ h.mapped \subseteq Runs
      /\ h.chunk_count[run] \in Nat
      /\ h.occupied[run] \subseteq Nat
  BY DEF HeapOK, HeapType, AllocationsType, Knows
<1>2. DOMAIN a2 = DOMAIN allocations \ {base} /\ \A b \in DOMAIN a2 : a2[b] = allocations[b]
  BY DEF Without
<1>3. \A b \in DOMAIN a2 : b[1] = run => Span(b, a2[b]) \cap span = {}
  BY <1>2 DEF HeapOK, Disjoint
<1>4. \A r \in h.mapped \ {run} : \E b \in DOMAIN a2 : b[1] = r
  BY <1>2 DEF InUse
<1>5. ASSUME NEW r \in h.mapped \ {run}, NEW i
      PROVE  i \in h.occupied[r] <=> \E b \in DOMAIN a2 : b[1] = r /\ i \in Span(b, a2[b])
  <2>1. i \in h.occupied[r] <=> \E b \in DOMAIN allocations : b[1] = r /\ i \in Span(b, allocations[b])
    BY DEF Marked
  <2> QED
    BY <1>2, <2>1
<1>6. CASE IsOnlyOne(h, base)
  <2>1. h2.mapped = h.mapped \ {run} /\ h2.occupied = [h.occupied EXCEPT ![run] = {}]
    BY <1>6 DEF deallocate, Unmap
  <2> HIDE DEF h2, a2, run
  <2>2. \A r \in h2.mapped : h2.occupied[r] = h.occupied[r]
    BY <1>1, <2>1
  <2>3. Marked(h2, a2)
    BY <1>5, <2>1, <2>2 DEF Marked
  <2>4. InUse(h2.mapped, a2)
    BY <1>4, <2>1 DEF InUse
  <2> QED
    BY <2>3, <2>4 DEF h2, a2
<1>7. CASE ~IsOnlyOne(h, base)
  <2>1. h2 = [h EXCEPT !.occupied[run] = @ \ span,
                       !.size = [b \in DOMAIN @ \ {base} |-> h.size[b]]]
    BY <1>1, <1>7 DEF deallocate
  <2>2. h2.mapped = h.mapped /\ h2.occupied = [h.occupied EXCEPT ![run] = @ \ span]
    BY <2>1 DEF HeapOK, HeapType
  <2>3. \E i \in h.occupied[run] : i \notin span
    <3>1. total_size_in_subchunks(allocations[base]) \in Nat
      BY <1>1, TotalIsPositive
    <3>2. subchunk_count(h.chunk_count[run]) \in Nat
      BY <1>1, CountsAreNatural
    <3> QED
      BY <1>1, <1>7, <3>1, <3>2 DEF IsOnlyOne, Span
  <2> HIDE DEF h2, a2
  <2>4. ASSUME NEW i
        PROVE  i \in h2.occupied[run] <=> \E b \in DOMAIN a2 : b[1] = run /\ i \in Span(b, a2[b])
    <3>1. i \in h.occupied[run] <=> \E b \in DOMAIN allocations : b[1] = run /\ i \in Span(b, allocations[b])
      BY <1>1 DEF Marked
    <3>2. i \in h2.occupied[run] <=> i \in h.occupied[run] /\ i \notin span
      BY <1>1, <2>2
    <3> QED
      BY <1>2, <1>3, <3>1, <3>2
  <2>5. \E b \in DOMAIN a2 : b[1] = run
    <3>1. PICK i \in h2.occupied[run] : TRUE
      BY <1>1, <2>2, <2>3
    <3> QED
      BY <2>4, <3>1
  <2> HIDE DEF run
  <2>6. \A r \in h.mapped \ {run} : h2.occupied[r] = h.occupied[r]
    BY <1>1, <2>2
  <2>7. Marked(h2, a2)
    BY <1>5, <2>2, <2>4, <2>6 DEF Marked
  <2>8. InUse(h2.mapped, a2)
    BY <1>4, <2>2, <2>5 DEF InUse
  <2> QED
    BY <2>7, <2>8 DEF h2, a2
<1> QED
  BY <1>6, <1>7

LEMMA ShrinkKeepsMarks ==
  ASSUME NEW h, NEW allocations, HeapOK(h, allocations), Marked(h, allocations),
         InUse(h.mapped, allocations), NEW base \in DOMAIN allocations,
         NEW size \in Sizes, Shrinks(h, base, size)
  PROVE  LET h2 == Shrink(h, base, size)
             a2 == Plus(allocations, base, size)
         IN  Marked(h2, a2) /\ InUse(h2.mapped, a2)
<1> DEFINE h2 == Shrink(h, base, size)
           a2 == Plus(allocations, base, size)
           run == base[1]
           old == allocations[base]
<1>1. /\ run \in h.mapped /\ base \in Runs \X Nat
      /\ h.size[base] = old
      /\ old \in Sizes
      /\ DOMAIN h.occupied = Runs
      /\ h.mapped \subseteq Runs
  BY DEF HeapOK, HeapType, AllocationsType, Knows
<1>2. Span(base, size) \subseteq Span(base, old)
  <2>1. total_size_in_subchunks(size) <= total_size_in_subchunks(old)
    BY <1>1 DEF Shrinks
  <2> HIDE DEF old
  <2> QED
    BY <1>1, <2>1, TotalIsPositive DEF Span
<1>3. h2.mapped = h.mapped
      /\ h2.occupied = [h.occupied EXCEPT ![run] = @ \ (Span(base, old) \ Span(base, size))]
  BY <1>1 DEF Shrink, HeapOK, HeapType
<1>4. DOMAIN a2 = DOMAIN allocations /\ a2[base] = size
      /\ \A b \in DOMAIN a2 \ {base} : a2[b] = allocations[b]
  BY DEF Plus
<1>5. \A b \in DOMAIN a2 \ {base} : b[1] = run => Span(b, a2[b]) \cap Span(base, old) = {}
  BY <1>4 DEF HeapOK, Disjoint
<1> HIDE DEF h2, a2
<1>6. ASSUME NEW r \in h2.mapped, NEW i
      PROVE  i \in h2.occupied[r] <=> \E b \in DOMAIN a2 : b[1] = r /\ i \in Span(b, a2[b])
  <2>1. i \in h.occupied[r] <=> \E b \in DOMAIN allocations : b[1] = r /\ i \in Span(b, allocations[b])
    BY <1>3 DEF Marked
  <2>2. CASE r # run
    BY <1>1, <1>3, <1>4, <2>1, <2>2
  <2>3. CASE r = run
    <3>1. i \in h2.occupied[r] <=> i \in h.occupied[r] /\ (i \notin Span(base, old) \/ i \in Span(base, size))
      BY <1>1, <1>3, <2>3
    <3> QED
      BY <1>2, <1>4, <1>5, <2>1, <2>3, <3>1
  <2> QED
    BY <2>2, <2>3
<1>7. InUse(h2.mapped, a2)
  BY <1>3, <1>4 DEF InUse
<1> QED
  BY <1>6, <1>7 DEF Marked, h2, a2

(***************************************************************************)
(* The steps, and what they keep of the types, the list and the marks      *)
(***************************************************************************)

(* What IInv does not say of the heap: the types of all of it, the list of *)
(* its runs and, as long as no allocations overlap, its marks.             *)
ListInv ==
  /\ HeapTypeOK(heap)
  /\ Listed(heap)
  /\ DOMAIN live \subseteq Bases
  /\ outcome \in {"running", "null_write", "overlap"}
  /\ outcome # "overlap" => Marked(heap, live) /\ InUse(heap.mapped, live)

LEMMA OccupyKeepsList ==
  ASSUME NEW h, HeapTypeOK(h), Listed(h), NEW base, NEW size
  PROVE  Listed(Occupy(h, base, size))
<1> DEFINE h2 == Occupy(h, base, size)
<1>1. h2.first = h.first /\ h2.mapped = h.mapped /\ h2.next = h.next /\ h2.previous = h.previous
  BY DEF Occupy, HeapTypeOK
<1> HIDE DEF h2
<1>2. Listed(h2)
  BY <1>1, SameLinksKeepList
<1> QED
  BY <1>2 DEF h2

LEMMA DeallocateKeepsList ==
  ASSUME NEW h, HeapTypeOK(h), Listed(h), NEW base, base[1] \in h.mapped
  PROVE  Listed(deallocate(h, base))
<1> DEFINE h2 == deallocate(h, base)
<1>1. CASE IsOnlyOne(h, base)
  <2>1. h2 = Unmap(h, base[1])
    BY <1>1 DEF deallocate
  <2> QED
    BY <2>1, UnmapKeepsList
<1>2. CASE ~IsOnlyOne(h, base)
  <2>1. h2.first = h.first /\ h2.mapped = h.mapped /\ h2.next = h.next /\ h2.previous = h.previous
    BY <1>2 DEF deallocate, HeapTypeOK
  <2> HIDE DEF h2
  <2>2. Listed(h2)
    BY <2>1, SameLinksKeepList
  <2> QED
    BY <2>2 DEF h2
<1> QED
  BY <1>1, <1>2

(* What allocate returns.                                                  *)
LEMMA AllocateIsTidy ==
  ASSUME NEW h, NEW allocations, HeapOK(h, allocations), HeapTypeOK(h), Listed(h),
         Marked(h, allocations), InUse(h.mapped, allocations),
         NEW size \in Sizes, NEW allocated \in allocate(h, size)
  PROVE  LET a2 == Plus(allocations, allocated.base, size)
         IN  /\ HeapTypeOK(allocated.heap)
             /\ Listed(allocated.heap)
             /\ allocated.base \in Bases
             /\ Marked(allocated.heap, a2)
             /\ InUse(allocated.heap.mapped, a2)
<1> DEFINE base == allocated.base
           a2 == Plus(allocations, base, size)
<1>1. PICK h2 : /\ HeapOK(h2, allocations)
                /\ allocated.heap = Occupy(h2, base, size)
                /\ base \in Runs \X Nat
                /\ base[1] \in h2.mapped
                /\ Span(base, size) \subseteq DataSubchunks(h2, base[1])
                /\ EndsAreFree(allocations, base, size)
                /\ h2 = h \/ \E chunks \in 1 .. MaxChunks : \E last :
                               /\ IsLast(h, last)
                               /\ base[1] \in Runs \ h.mapped
                               /\ h2 = Append(h, base[1], chunks, last)
  BY AllocatePlaces, Zenon
<1> HIDE DEF base
<1>2. base \in Bases /\ Span(base, size) \subseteq 0 .. subchunk_count(MaxChunks) - 1
  BY <1>1, PlacesAreBases DEF HeapOK
<1>3. base \notin DOMAIN allocations
  BY <1>1, AllocatedIsNew
<1>4. /\ HeapTypeOK(h2)
      /\ Listed(h2)
      /\ Marked(h2, allocations)
      /\ InUse(h2.mapped \ {base[1]}, allocations)
  <2>1. CASE h2 = h
    BY <2>1 DEF InUse
  <2>2. CASE \E chunks \in 1 .. MaxChunks : \E last :
               /\ IsLast(h, last)
               /\ base[1] \in Runs \ h.mapped
               /\ h2 = Append(h, base[1], chunks, last)
    <3>1. PICK chunks \in 1 .. MaxChunks : \E last :
               /\ IsLast(h, last)
               /\ base[1] \in Runs \ h.mapped
               /\ h2 = Append(h, base[1], chunks, last)
      BY <2>2
    <3>2. PICK last :
               /\ IsLast(h, last)
               /\ base[1] \in Runs \ h.mapped
               /\ h2 = Append(h, base[1], chunks, last)
      BY <3>1
    <3>3. chunks \in 0 .. MaxChunks
      BY HeapAssumption
    <3> QED
      BY <3>2, <3>3, AppendKeepsTypes, AppendKeepsList, AppendKeepsMarks
  <2> QED
    BY <1>1, <2>1, <2>2
<1>5. HeapTypeOK(allocated.heap) /\ Listed(allocated.heap)
  BY <1>1, <1>2, <1>4, OccupyKeepsTypes, OccupyKeepsList
<1>6. HeapType(h2)
  BY <1>1 DEF HeapOK
<1>7. Marked(allocated.heap, a2) /\ InUse(allocated.heap.mapped, a2)
  BY <1>1, <1>3, <1>4, <1>6, OccupyKeepsMarks
<1> QED
  BY <1>2, <1>5, <1>7 DEF base

LEMMA InitIsTidy == Init => ListInv
<1>1. SUFFICES ASSUME Init PROVE ListInv
  OBVIOUS
<1>2. HeapTypeOK(Empty) /\ Empty.mapped = {} /\ Empty.first = Null
      /\ DOMAIN Empty.next = Runs /\ DOMAIN Empty.previous = Runs
  BY HeapAssumption DEF Empty, HeapTypeOK
<1>3. IsListOf(Empty, [k \in 1 .. 0 |-> Null], 0)
  BY <1>2 DEF IsListOf
<1>4. Listed(Empty)
  BY <1>2, <1>3 DEF Listed
<1> QED
  BY <1>1, <1>2, <1>4 DEF Init, ListInv, Marked, InUse

LEMMA NextKeepsListInv ==
  ASSUME IInv, ListInv, [Next]_vars
  PROVE  ListInv'
<1>0. outcome # "overlap" => HeapOK(heap, live)
  BY DEF IInv
<1>1. ASSUME NEW size \in Sizes, Allocate(size)
      PROVE  ListInv'
  <2>1. PICK allocated \in allocate(heap, size) :
          /\ outcome = "running"
          /\ heap' = allocated.heap
          /\ Hold(allocated.base, size)
    BY <1>1 DEF Allocate
  <2>2. live' = Plus(live, allocated.base, size) /\ outcome' \in {"running", "overlap"}
    BY <2>1 DEF Hold, With, Plus
  <2>3. /\ HeapTypeOK(heap')
        /\ Listed(heap')
        /\ allocated.base \in Bases
        /\ Marked(heap', live')
        /\ InUse(heap'.mapped, live')
    BY <1>0, <2>1, <2>2, AllocateIsTidy DEF ListInv
  <2>4. DOMAIN live' \subseteq Bases
    BY <2>2, <2>3 DEF ListInv, Plus
  <2> QED
    BY <2>2, <2>3, <2>4 DEF ListInv
<1>2. ASSUME NEW base \in DOMAIN live, Deallocate(base)
      PROVE  ListInv'
  <2>1. /\ outcome = "running" /\ outcome' = outcome
        /\ heap' = deallocate(heap, base)
        /\ live' = Without(live, base)
        /\ base[1] \in heap.mapped
    BY <1>0, <1>2 DEF Deallocate, HeapOK, Knows
  <2>2. HeapTypeOK(heap') /\ Listed(heap')
    BY <2>1, DeallocateKeepsTypes, DeallocateKeepsList DEF ListInv
  <2>3. Marked(heap', live') /\ InUse(heap'.mapped, live')
    BY <1>0, <2>1, DeallocateKeepsMarks DEF ListInv
  <2>4. DOMAIN live' \subseteq Bases
    BY <2>1 DEF ListInv, Without
  <2> QED
    BY <2>1, <2>2, <2>3, <2>4 DEF ListInv
<1>3. ASSUME NEW base \in DOMAIN live, NEW size \in Sizes, ReallocateShrink(base, size)
      PROVE  ListInv'
  <2>1. /\ outcome = "running" /\ outcome' \in {"running", "overlap"}
        /\ Shrinks(heap, base, size)
        /\ heap' = Shrink(heap, base, size)
        /\ live' = Plus(live, base, size)
        /\ base \in DOMAIN heap.size
    BY <1>0, <1>3 DEF ReallocateShrink, Hold, With, Plus, HeapOK, Knows
  <2>2. HeapTypeOK(heap')
    BY <2>1, ShrinkKeepsTypes DEF ListInv
  <2>3. heap'.first = heap.first /\ heap'.mapped = heap.mapped
        /\ heap'.next = heap.next /\ heap'.previous = heap.previous
    BY <2>1 DEF Shrink, ListInv, HeapTypeOK
  <2>4. Listed(heap')
    BY <2>3, SameLinksKeepList DEF ListInv
  <2>5. Marked(heap', live') /\ InUse(heap'.mapped, live')
    BY <1>0, <2>1, ShrinkKeepsMarks DEF ListInv
  <2>6. DOMAIN live' \subseteq Bases
    BY <2>1 DEF ListInv, Plus
  <2> QED
    BY <2>1, <2>2, <2>4, <2>5, <2>6 DEF ListInv
<1>4. ASSUME NEW base \in DOMAIN live, NEW size \in Sizes, ReallocateExpand(base, size)
      PROVE  ListInv'
  <2>1. /\ outcome = "running" /\ outcome' \in {"running", "overlap"}
        /\ heap' = Occupy(heap, base, size)
        /\ live' = Plus(live, base, size)
        /\ Knows(heap, base, live[base])
        /\ base \in Runs \X Nat /\ live[base] \in Sizes
        /\ HeapType(heap)
        /\ ~Shrinks(heap, base, size) /\ CanExpand(heap, base, size)
    BY <1>0, <1>4 DEF ReallocateExpand, Hold, With, Plus, HeapOK, AllocationsType
  <2>2. Span(base, live[base]) \subseteq Span(base, size)
    BY <2>1, TotalIsPositive DEF Shrinks, Knows, Span
  <2>3. Span(base, size) \subseteq DataSubchunks(heap, base[1])
    <3>1. base[2] \in DataSubchunks(heap, base[1])
      BY <2>1, SpanContainsBase DEF Knows
    <3>2. heap.chunk_count[base[1]] \in Nat
      BY <2>1, HeapAssumption DEF HeapType
    <3> QED
      BY <2>1, <3>1, <3>2, TotalIsPositive, CountsAreNatural DEF CanExpand, DataSubchunks, Span
  <2>4. base \in Bases /\ Span(base, size) \subseteq 0 .. subchunk_count(MaxChunks) - 1
    BY <2>1, <2>3, PlacesAreBases
  <2>5. HeapTypeOK(heap') /\ Listed(heap')
    BY <2>1, <2>4, OccupyKeepsTypes, OccupyKeepsList DEF ListInv
  <2>6. Marked(heap', live') /\ InUse(heap'.mapped, live')
    <3>1. InUse(heap.mapped \ {base[1]}, live) /\ Marked(heap, live) /\ base[1] \in heap.mapped
      BY <2>1 DEF ListInv, InUse, Knows
    <3> QED
      BY <2>1, <2>2, <3>1, OccupyKeepsMarks
  <2>7. DOMAIN live' \subseteq Bases
    BY <2>1 DEF ListInv, Plus
  <2> QED
    BY <2>1, <2>5, <2>6, <2>7 DEF ListInv
<1>5. ASSUME NEW base \in DOMAIN live, NEW size \in Sizes, ReallocateMove(base, size)
      PROVE  ListInv'
  <2>1. PICK allocated \in allocate(heap, size) :
          /\ outcome = "running"
          /\ IF Disjoint(With(allocated.base, size))
             THEN /\ heap' = deallocate(allocated.heap, base)
                  /\ live' = Without(With(allocated.base, size), base)
                  /\ outcome' = outcome
             ELSE heap' = allocated.heap /\ Hold(allocated.base, size)
    BY <1>5 DEF ReallocateMove
  <2> DEFINE both == Plus(live, allocated.base, size)
  <2>2. With(allocated.base, size) = both
    BY DEF With, Plus
  <2>3. /\ HeapTypeOK(allocated.heap)
        /\ Listed(allocated.heap)
        /\ allocated.base \in Bases
        /\ Marked(allocated.heap, both)
        /\ InUse(allocated.heap.mapped, both)
    BY <1>0, <2>1, AllocateIsTidy DEF ListInv
  <2>4. DOMAIN both \subseteq Bases /\ base \in DOMAIN both
    BY <2>3 DEF ListInv, Plus
  <2>5. CASE Disjoint(both)
    <3>1. HeapOK(allocated.heap, both)
      BY <1>0, <2>1, <2>5, AllocateKeepsHeapOK
    <3>2. /\ heap' = deallocate(allocated.heap, base)
          /\ live' = Without(both, base)
          /\ outcome' = "running"
      BY <2>1, <2>2, <2>5
    <3> HIDE DEF both
    <3>3. base[1] \in allocated.heap.mapped
      BY <2>4, <3>1 DEF HeapOK, Knows
    <3>4. HeapTypeOK(heap') /\ Listed(heap')
      BY <2>3, <3>2, <3>3, DeallocateKeepsTypes, DeallocateKeepsList
    <3>5. Marked(heap', live') /\ InUse(heap'.mapped, live')
      BY <2>3, <2>4, <3>1, <3>2, DeallocateKeepsMarks
    <3>6. DOMAIN live' \subseteq Bases
      BY <2>4, <3>2 DEF Without
    <3> QED
      BY <3>2, <3>4, <3>5, <3>6 DEF ListInv
  <2>6. CASE ~Disjoint(both)
    <3>1. heap' = allocated.heap /\ live' = both /\ outcome' = "overlap"
      BY <2>1, <2>2, <2>6 DEF Hold
    <3> QED
      BY <2>3, <2>4, <3>1 DEF ListInv
  <2> QED
    BY <2>5, <2>6
<1>6. CASE Destroy
  <2>1. heap.mapped \ {NthRun(heap)[k] : k \in DOMAIN NthRun(heap)} = {}
    BY ListedIsWellFormed DEF ListInv
  <2>2. heap' = [Empty EXCEPT !.mapped = {}] /\ DOMAIN live' = {} /\ outcome' = outcome
    BY <1>6, <2>1 DEF Destroy
  <2>3. heap' = Empty
    BY <2>2 DEF Empty
  <2>4. HeapTypeOK(Empty) /\ Empty.mapped = {} /\ Empty.first = Null
        /\ DOMAIN Empty.next = Runs /\ DOMAIN Empty.previous = Runs
    BY HeapAssumption DEF Empty, HeapTypeOK
  <2>5. IsListOf(Empty, [k \in 1 .. 0 |-> Null], 0)
    BY <2>4 DEF IsListOf
  <2>6. Listed(Empty)
    BY <2>4, <2>5 DEF Listed
  <2> QED
    BY <2>2, <2>3, <2>4, <2>6 DEF ListInv, Marked, InUse
<1>7. CASE \E base \in DOMAIN live, size \in Sizes : ReallocateFails(base, size)
  BY <1>7 DEF ReallocateFails, ListInv
<1>8. CASE Stopped \/ UNCHANGED vars
  BY <1>8 DEF Stopped, vars, ListInv
<1> QED
  BY <1>1, <1>2, <1>3, <1>4, <1>5, <1>6, <1>7, <1>8 DEF Next

LEMMA ListInvIsInvariant == Spec => []ListInv
<1>1. Init => ListInv
  BY InitIsTidy
<1>2. IInv /\ ListInv /\ [Next]_vars => ListInv'
  BY NextKeepsListInv
<1> QED
  BY <1>1, <1>2, IInvIsInvariant, PTL DEF Spec

(* The variables stay in their types: in particular no index beyond the    *)
(* end of the longest run is ever marked or given out.                     *)
THEOREM HeapIsTyped == Spec => []TypeOK
<1>1. IInv /\ ListInv => TypeOK
  BY DEF IInv, AllocationsType, ListInv, HeapTypeOK, TypeOK
<1> QED
  BY <1>1, IInvIsInvariant, ListInvIsInvariant, PTL

(* The marks of a run are those of its allocations, and every mapped run   *)
(* has one: allocate, reallocate and deallocate lose no subchunk and keep  *)
(* no run for nothing, unless an allocation is laid around another.        *)
THEOREM MarksAreExact == Spec => []NothingIsLost
<1>1. ListInv => NothingIsLost
  <2>1. SUFFICES ASSUME ListInv, outcome # "overlap", NEW run \in heap.mapped
                 PROVE  /\ \E b \in DOMAIN live : b[1] = run
                        /\ heap.occupied[run] =
                             UNION {Span(b, live[b]) : b \in {c \in DOMAIN live : c[1] = run}}
    BY DEF NothingIsLost
  <2>2. \E b \in DOMAIN live : b[1] = run
    BY <2>1 DEF ListInv, InUse
  <2>3. heap.occupied[run] \subseteq Nat
    BY <2>1 DEF ListInv, HeapTypeOK
  <2>4. \A i : i \in heap.occupied[run] <=>
                 i \in UNION {Span(b, live[b]) : b \in {c \in DOMAIN live : c[1] = run}}
    BY <2>1 DEF ListInv, Marked
  <2> QED
    BY <2>2, <2>4
<1> QED
  BY <1>1, ListInvIsInvariant, PTL

(* Appending at the end and unlinking anywhere, the runs stay one doubly   *)
(* linked list, which a walk from the first run visits entirely.           *)
THEOREM RunsAreListed == Spec => []ListIsWellFormed
<1>1. ListInv => ListIsWellFormed
  BY ListedIsWellFormed DEF ListInv
<1> QED
  BY <1>1, ListInvIsInvariant, PTL

=============================================================================
