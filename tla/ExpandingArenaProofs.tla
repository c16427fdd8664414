------------------------ MODULE ExpandingArenaProofs ------------------------
(***************************************************************************)
(* Theorems about ExpandingArena, for any number of runs, any geometry of  *)
(* chunks and headers, and any sizes that a client asks for.               *)
(***************************************************************************)
EXTENDS ExpandingArena, TLAPS

(***************************************************************************)
(* Sizes                                                                   *)
(***************************************************************************)

LEMMA RoundUp ==
  ASSUME NEW left \in Nat, NEW right \in Nat \ {0}
  PROVE  /\ divide_round_up(left, right) \in Nat
         /\ divide_round_up(left, right) * right \in Nat
         /\ divide_round_up(left, right) * right >= left
<1> DEFINE quotient == (left + right - 1) \div right
<1>1. left + right - 1 \in Nat
  OBVIOUS
<1>2. quotient \in Nat /\ left + right - 1 < quotient * right + right
  BY <1>1
<1> HIDE DEF quotient
<1>3. quotient * right \in Nat
  BY <1>2
<1>4. quotient * right >= left
  BY <1>2, <1>3
<1> QED
  BY <1>2, <1>3, <1>4 DEF divide_round_up, quotient

LEMMA ProductGrows ==
  ASSUME NEW a \in Nat, NEW b \in Nat, NEW c \in Nat, a <= b
  PROVE  a * c <= b * c /\ a * c \in Nat /\ b * c \in Nat
<1>1. PICK d \in Nat : b = a + d
  <2>1. b - a \in Nat /\ b = a + (b - a)
    OBVIOUS
  <2> QED
    BY <2>1
<1>2. b * c = a * c + d * c /\ d * c \in Nat /\ a * c \in Nat
  BY <1>1
<1> QED
  BY <1>2

(* An aligned size holds the size, and a new run what is asked for.        *)
LEMMA SizesFit ==
  ASSUME NEW size \in Sizes
  PROVE  /\ size \in Nat \ {0}
         /\ aligned(size) \in Nat /\ aligned(size) >= size
         /\ aligned(ChunkRunHeaderSize) \in Nat
         /\ aligned(ChunkRunHeaderSize) >= ChunkRunHeaderSize
         /\ new_chunk_run_chunk_count(size) \in Nat \ {0}
         /\ aligned(ChunkRunHeaderSize) + aligned(size)
              <= new_chunk_run_chunk_count(size) * chunk_size
<1>1. /\ size \in Nat \ {0} /\ ChunkRunHeaderSize \in Nat \ {0}
      /\ largest_alignment \in Nat \ {0} /\ chunk_size \in Nat \ {0}
  BY ExpandingArenaAssumption
<1>2. aligned(size) \in Nat /\ aligned(size) >= size
  BY <1>1, RoundUp DEF aligned
<1>3. /\ aligned(ChunkRunHeaderSize) \in Nat
      /\ aligned(ChunkRunHeaderSize) >= ChunkRunHeaderSize
  BY <1>1, RoundUp DEF aligned
<1> DEFINE total == aligned(ChunkRunHeaderSize) + aligned(size)
           count == new_chunk_run_chunk_count(size)
<1>4. total \in Nat /\ total > 0
  BY <1>1, <1>2, <1>3
<1> HIDE DEF total
<1>5. count = divide_round_up(total, chunk_size)
  BY DEF new_chunk_run_chunk_count, total
<1>6. count \in Nat /\ count * chunk_size \in Nat /\ count * chunk_size >= total
  BY <1>1, <1>4, <1>5, RoundUp
<1> HIDE DEF count
<1>7. count # 0
  BY <1>1, <1>4, <1>6
<1> QED
  BY <1>1, <1>2, <1>3, <1>6, <1>7 DEF total, count

(***************************************************************************)
(* The invariant                                                           *)
(***************************************************************************)

(* What is mapped at one address is not mapped at another.                 *)
RunsApart ==
  \A r, q \in Runs : r # q => Run(r, mapped[r]) \cap Run(q, mapped[q]) = {}

(* The arena wrote into each header how many chunks it mapped.             *)
CountsWritten == \A r \in Runs : mapped[r] > 0 => header[r].chunk_count = mapped[r]

(* The arena knows mapped runs only, and a destroyed arena has no client.  *)
ArenaIsMapped ==
  /\ arena.first # Null => mapped[arena.first] > 0
  /\ arena.current # Null => mapped[arena.current] > 0
  /\ unmapped # {} => DOMAIN live = {}

(* An allocation is in the memory of a run, and before the current offset  *)
(* if that run is the current one.                                         *)
LiesIn(p, r) ==
  /\ p >= r
  /\ p + live[p].size <= r + mapped[r] * chunk_size
  /\ r = arena.current => p + live[p].size <= r + arena.current_offset

Placed == ~astray => \A p \in DOMAIN live : \E r \in Runs : LiesIn(p, r)

(* Until a reset there is one run that the arena knows, and the client has *)
(* been given none of its header.                                          *)
OneRun ==
  ~was_reset =>
    /\ ~astray
    /\ arena.first = arena.current
    /\ arena.current # Null =>
         /\ arena.current_offset >= ChunkRunHeaderSize
         /\ Bytes(arena.current, ChunkRunHeaderSize) \cap given = {}

IInv ==
  /\ TypeOK
  /\ RunsApart
  /\ CountsWritten
  /\ ArenaIsMapped
  /\ Placed
  /\ OneRun
  /\ SafeUntilReset

LEMMA InitIsOK == Init => IInv
<1> SUFFICES ASSUME Init PROVE IInv
  OBVIOUS
<1>1. /\ arena = [first |-> 0, current |-> 0, current_offset |-> 0]
      /\ DOMAIN live = {} /\ given = {} /\ unmapped = {}
      /\ was_reset = FALSE /\ astray = FALSE
  BY DEF Init, Null
<1>2. \A r \in Runs : mapped[r] = 0
  BY DEF Init
<1>3. TypeOK
  <2>1. arena \in [first : Runs \cup {Null}, current : Runs \cup {Null}, current_offset : Nat]
    BY <1>1 DEF Null
  <2>2. mapped \in [Runs -> Nat] /\ header \in [Runs -> [next : {Null}, chunk_count : Nat]]
    BY DEF Init, NoHeader
  <2> QED
    BY <1>1, <2>1, <2>2 DEF TypeOK
<1>4. RunsApart
  <2>1. ASSUME NEW r \in Runs PROVE Run(r, mapped[r]) = {}
    BY <1>2, ExpandingArenaAssumption DEF Run, Bytes
  <2> QED
    BY <2>1 DEF RunsApart
<1> QED
  BY <1>1, <1>2, <1>3, <1>4
     DEF IInv, CountsWritten, ArenaIsMapped, Placed, OneRun, SafeUntilReset, Null

(***************************************************************************)
(* Reading headers                                                         *)
(***************************************************************************)

(* A field that is as it was written reads as that, and nothing else.      *)
LEMMA WrittenCount ==
  ASSUME IInv, NEW run \in Runs, AsWritten(run, CountField(run)),
         NEW count \in CountsAt(run)
  PROVE  count = mapped[run]
BY DEF IInv, CountsWritten, CountsAt, AsWritten

LEMMA WrittenNext ==
  ASSUME IInv, NEW run \in Runs, AsWritten(run, NextField(run)), NEW next \in NextsAt(run)
  PROVE  next = Null
BY DEF IInv, TypeOK, NextsAt, AsWritten

LEMMA FieldsOfHeader ==
  ASSUME NEW run \in Runs, mapped[run] > 0,
         Bytes(run, ChunkRunHeaderSize) \cap given = {}
  PROVE  AsWritten(run, NextField(run)) /\ AsWritten(run, CountField(run))
<1>1. run \in Nat /\ ChunkCountOffset \in Nat \ {0} /\ ChunkRunHeaderSize \in Nat
      /\ ChunkCountOffset < ChunkRunHeaderSize
  BY ExpandingArenaAssumption
<1>2. NextField(run) \subseteq Bytes(run, ChunkRunHeaderSize)
  BY <1>1 DEF NextField, Bytes
<1>3. CountField(run) \subseteq Bytes(run, ChunkRunHeaderSize)
  BY <1>1 DEF CountField, Bytes
<1> QED
  BY <1>2, <1>3 DEF AsWritten

(* Until a reset the fields of the arena's header are as it wrote them.    *)
LEMMA ReadsItsOwn ==
  ASSUME IInv, ~was_reset, arena.current # Null
  PROVE  /\ arena.current \in Runs /\ mapped[arena.current] > 0
         /\ AsWritten(arena.current, NextField(arena.current))
         /\ AsWritten(arena.current, CountField(arena.current))
<1>1. arena.current \in Runs /\ mapped[arena.current] > 0
  BY DEF IInv, TypeOK, ArenaIsMapped
<1>2. Bytes(arena.current, ChunkRunHeaderSize) \cap given = {}
  BY DEF IInv, OneRun
<1> QED
  BY <1>1, <1>2, FieldsOfHeader

(***************************************************************************)
(* allocate                                                                *)
(***************************************************************************)

LEMMA Holding ==
  ASSUME NEW pointer, NEW size, Hold(pointer, size)
  PROVE  /\ DOMAIN live' = DOMAIN live \cup {pointer}
         /\ \A p \in DOMAIN live : p # pointer => live'[p] = live[p]
         /\ pointer \notin DOMAIN live => live'[pointer] = [size |-> size, times |-> 1]
BY DEF Hold

(* Whatever the pointer, the client holds sizes that it asked for.         *)
LEMMA HoldingIsTyped ==
  ASSUME TypeOK, NEW pointer \in Nat, NEW size \in Sizes, Hold(pointer, size)
  PROVE  \A p \in DOMAIN live' : p \in Nat /\ live'[p] \in [size : Sizes, times : Nat \ {0}]
<1>1. ASSUME NEW p \in DOMAIN live
      PROVE  live[p].size \in Sizes /\ live[p].times + 1 \in Nat \ {0}
  BY DEF TypeOK
<1>2. 1 \in Nat \ {0}
  OBVIOUS
<1> DEFINE Type == [size : Sizes, times : Nat \ {0}]
<1> SUFFICES \A p \in DOMAIN live' : p \in Nat /\ live'[p] \in Type
  OBVIOUS
<1>5. \A p \in DOMAIN live : p \in Nat /\ live[p] \in Type
  BY DEF TypeOK
<1>6. /\ DOMAIN live' = DOMAIN live \cup {pointer}
      /\ \A p \in DOMAIN live : p # pointer => live'[p] = live[p]
      /\ pointer \notin DOMAIN live => live'[pointer] = [size |-> size, times |-> 1]
  BY Holding
<1>3. CASE pointer \notin DOMAIN live
  <2>1. live'[pointer] = [size |-> size, times |-> 1]
    BY <1>3, <1>6
  <2>2. live'[pointer] \in Type
    BY <1>2, <2>1
  <2> HIDE DEF Type
  <2> QED
    BY <1>5, <1>6, <2>2
<1>4. CASE pointer \in DOMAIN live
  <2>1. live'[pointer] =
          [size |-> IF live[pointer].size > size THEN live[pointer].size ELSE size,
           times |-> live[pointer].times + 1]
    BY <1>4 DEF Hold
  <2>2. live'[pointer] \in Type
    BY <1>1, <1>4, <2>1
  <2> HIDE DEF Type
  <2> QED
    BY <1>5, <1>6, <2>2
<1> QED
  BY <1>3, <1>4

LEMMA MappingOfLive ==
  /\ DOMAIN AllocationsOf = DOMAIN live
  /\ \A p \in DOMAIN live : AllocationsOf[p] = Bytes(p, live[p].size)
  BY DEF AllocationsOf, Held

LEMMA MappingOfLiveNext ==
  /\ DOMAIN AllocationsOf' = DOMAIN live'
  /\ \A p \in DOMAIN live' : AllocationsOf'[p] = Bytes(p, live'[p].size)
  BY DEF AllocationsOf, Held

(* A new allocation behind all others of its run, whether that run is the  *)
(* current one or new.                                                     *)
LEMMA PlaceBehind ==
  ASSUME IInv, RunsApart', mapped' \in [Runs -> Nat],
         NEW run \in Runs, NEW offset \in Nat, NEW size \in Sizes,
         Hold(run + offset, size),
         arena'.current = run,
         arena'.current_offset = offset + aligned(size),
         offset + aligned(size) <= mapped'[run] * chunk_size,
         offset + aligned(size) <= MaxOffset,
         \A r \in Runs : mapped[r] > 0 => mapped'[r] = mapped[r],
         \A p \in DOMAIN live : \E r \in Runs :
           LiesIn(p, r) /\ (r = run => p + live[p].size <= run + offset)
  PROVE  /\ run + offset \notin DOMAIN live
         /\ \A p \in DOMAIN live' : \E r \in Runs : LiesIn(p, r)'
         /\ A!Allocate
<1> DEFINE pointer == run + offset
<1>1. /\ size \in Nat \ {0} /\ aligned(size) \in Nat /\ aligned(size) >= size
      /\ run \in Nat \ {0} /\ chunk_size \in Nat \ {0} /\ MaxOffset \in Nat
      /\ mapped \in [Runs -> Nat]
  BY SizesFit, ExpandingArenaAssumption DEF IInv, TypeOK
<1>2. ASSUME NEW p \in DOMAIN live
      PROVE  p \in Nat /\ live[p].size \in Nat \ {0} /\ live[p].size \in Sizes
  BY SizesFit DEF IInv, TypeOK
<1>3. \A n \in Nat : n * chunk_size \in Nat
  BY <1>1
<1>4. ASSUME NEW p \in DOMAIN live
      PROVE  \E r \in Runs : /\ LiesIn(p, r) /\ mapped'[r] = mapped[r]
                             /\ r = run => p + live[p].size <= run + offset
  <2>1. PICK r \in Runs : LiesIn(p, r) /\ (r = run => p + live[p].size <= run + offset)
    OBVIOUS
  <2>2. r \in Nat /\ mapped[r] \in Nat
    BY <1>1, ExpandingArenaAssumption
  <2>3. mapped[r] # 0
    BY <1>2, <2>1, <2>2, <1>1 DEF LiesIn
  <2> QED
    BY <2>1, <2>2, <2>3
<1>5. ASSUME NEW p \in DOMAIN live, NEW b \in Bytes(p, live[p].size) \cap Bytes(pointer, size)
      PROVE  FALSE
  <2>1. PICK r \in Runs : /\ LiesIn(p, r) /\ mapped'[r] = mapped[r]
                          /\ r = run => p + live[p].size <= run + offset
    BY <1>4
  <2>2. /\ b \in Nat /\ b >= p /\ b < p + live[p].size
        /\ b >= run + offset /\ b < run + offset + size
    BY <1>1, <1>2 DEF Bytes
  <2>3. r # run
    BY <2>1, <2>2, <1>1, <1>2
  <2>4. r \in Nat /\ mapped[r] * chunk_size \in Nat /\ mapped'[run] * chunk_size \in Nat
    BY <1>1, <1>3, ExpandingArenaAssumption
  <2>5. b >= r /\ b < r + mapped[r] * chunk_size
    BY <1>2, <2>1, <2>2, <2>4 DEF LiesIn
  <2>6. b >= run /\ b < run + mapped'[run] * chunk_size
    BY <1>1, <2>2, <2>4
  <2>7. b \in Run(r, mapped'[r])
    BY <2>1, <2>2, <2>4, <2>5 DEF Run, Bytes
  <2>8. b \in Run(run, mapped'[run])
    BY <1>1, <2>2, <2>4, <2>6 DEF Run, Bytes
  <2> QED
    BY <2>3, <2>7, <2>8 DEF RunsApart
<1>6. pointer \in Bytes(pointer, size) /\ pointer \in Nat
  BY <1>1 DEF Bytes
<1>7. pointer \notin DOMAIN live
  <2> SUFFICES ASSUME pointer \in DOMAIN live PROVE FALSE
    OBVIOUS
  <2>1. pointer \in Bytes(pointer, live[pointer].size)
    BY <1>2, <1>6 DEF Bytes
  <2> QED
    BY <1>5, <1>6, <2>1
<1>8. /\ DOMAIN live' = DOMAIN live \cup {pointer}
      /\ \A p \in DOMAIN live : live'[p] = live[p]
      /\ live'[pointer].size = size
  <2>1. live'[pointer] = [size |-> size, times |-> 1]
    BY <1>7, Holding
  <2>2. /\ DOMAIN live' = DOMAIN live \cup {pointer}
        /\ \A p \in DOMAIN live : p # pointer => live'[p] = live[p]
    BY Holding
  <2>3. live'[pointer].size = size
    BY <2>1
  <2> QED
    BY <1>7, <2>2, <2>3
<1>9. ASSUME NEW p \in DOMAIN live' PROVE \E r \in Runs : LiesIn(p, r)'
  <2>1. CASE p = pointer
    <3>1. mapped'[run] * chunk_size \in Nat
      BY <1>3
    <3>2. /\ pointer >= run
          /\ pointer + size <= run + mapped'[run] * chunk_size
          /\ pointer + size <= run + (offset + aligned(size))
      BY <1>1, <3>1
    <3>3. LiesIn(p, run)'
      BY <1>8, <2>1, <3>2 DEF LiesIn
    <3> QED
      BY <3>3
  <2>2. CASE p \in DOMAIN live
    <3>1. PICK r \in Runs : /\ LiesIn(p, r) /\ mapped'[r] = mapped[r]
                            /\ r = run => p + live[p].size <= run + offset
      BY <1>4, <2>2
    <3>2. r = run => p + live[p].size <= r + (offset + aligned(size))
      BY <1>1, <1>2, <2>2, <3>1
    <3>3. live'[p] = live[p]
      BY <1>8, <2>2
    <3>4. LiesIn(p, r)'
      BY <3>1, <3>2, <3>3 DEF LiesIn
    <3> QED
      BY <3>4
  <2> QED
    BY <1>8, <2>1, <2>2
<1>10. A!Allocate
  <2>1. Bytes(run, MaxOffset) \subseteq Memory
    BY DEF Memory
  <2>2. Bytes(pointer, size) \subseteq Bytes(run, MaxOffset)
    BY <1>1 DEF Bytes
  <2>3. pointer \in Memory \ DOMAIN AllocationsOf
    BY <1>6, <1>7, <2>1, <2>2, MappingOfLive
  <2>4. AllocationsOf'[pointer] = Bytes(pointer, size)
    BY <1>8, MappingOfLiveNext
  <2>5. A!Keeps(DOMAIN AllocationsOf)
    BY <1>8, MappingOfLive, MappingOfLiveNext DEF A!Keeps
  <2>6. AllocationsOf'[pointer] \cap A!Used = {}
    BY <1>5, <2>4, MappingOfLive DEF A!Used
  <2>7. DOMAIN AllocationsOf' = DOMAIN AllocationsOf \cup {pointer}
    BY <1>8, MappingOfLive, MappingOfLiveNext
  <2> QED
    BY <1>6, <2>1, <2>2, <2>3, <2>4, <2>5, <2>6, <2>7 DEF A!Allocate
<1> QED
  BY <1>7, <1>9, <1>10

(* An allocation where there is room, by the count of a header.            *)
LEMMA PlaceIsTyped ==
  ASSUME IInv, NEW run \in Nat, NEW size \in Sizes, Place(run, size),
         astray' \in BOOLEAN, UNCHANGED <<mapped, header, was_reset, unmapped>>, unmapped = {}
  PROVE  /\ TypeOK' /\ RunsApart' /\ CountsWritten' /\ ArenaIsMapped'
         /\ arena.current_offset \in Nat /\ aligned(size) \in Nat
         /\ arena' = [first |-> arena.first, current |-> arena.current,
                      current_offset |-> arena.current_offset + aligned(size)]
<1>1. /\ arena \in [first : Runs \cup {Null}, current : Runs \cup {Null}, current_offset : Nat]
      /\ size \in Nat /\ aligned(size) \in Nat /\ given \subseteq Nat
  BY SizesFit DEF IInv, TypeOK
<1>2. arena' = [first |-> arena.first, current |-> arena.current,
                current_offset |-> arena.current_offset + aligned(size)]
  BY <1>1 DEF Place
<1>3. arena.current_offset \in Nat /\ run + arena.current_offset \in Nat
  BY <1>1
<1>4. given' \subseteq Nat
  BY <1>1, <1>3 DEF Place, Bytes
<1>5. \A p \in DOMAIN live' : p \in Nat /\ live'[p] \in [size : Sizes, times : Nat \ {0}]
  BY <1>3, HoldingIsTyped DEF Place, IInv
<1>6. arena' \in [first : Runs \cup {Null}, current : Runs \cup {Null}, current_offset : Nat]
  BY <1>1, <1>2
<1>7. TypeOK'
  BY <1>4, <1>5, <1>6 DEF IInv, TypeOK
<1>8. RunsApart' /\ CountsWritten'
  BY DEF IInv, RunsApart, CountsWritten, Run
<1>9. ArenaIsMapped'
  BY <1>2 DEF IInv, ArenaIsMapped
<1> QED
  BY <1>1, <1>2, <1>3, <1>7, <1>8, <1>9

LEMMA InRunStep ==
  ASSUME IInv, NEW size \in Sizes, AllocateInRun(size)
  PROVE  IInv' /\ (A!Allocate \/ astray')
<1> DEFINE run == arena.current
           offset == arena.current_offset
<1>1. /\ run \in Runs /\ run \in Nat /\ mapped[run] > 0
      /\ mapped \in [Runs -> Nat] /\ astray \in BOOLEAN
  <2>1. run \in Runs \cup {Null} /\ run # Null
    BY DEF AllocateInRun, IInv, TypeOK
  <2> QED
    BY <2>1, ExpandingArenaAssumption DEF IInv, TypeOK, ArenaIsMapped
<1>2. /\ Place(run, size) /\ unmapped = {}
      /\ astray' = (astray \/ ~AsWritten(run, CountField(run)))
      /\ UNCHANGED <<mapped, header, was_reset, unmapped>>
  BY DEF AllocateInRun
<1>3. astray' \in BOOLEAN
  BY <1>1, <1>2
<1>4. /\ TypeOK' /\ RunsApart' /\ CountsWritten' /\ ArenaIsMapped'
      /\ offset \in Nat /\ aligned(size) \in Nat
      /\ arena' = [first |-> arena.first, current |-> run,
                   current_offset |-> offset + aligned(size)]
  BY <1>1, <1>2, <1>3, PlaceIsTyped
<1>5. PICK count \in CountsAt(run) : offset + aligned(size) <= count * chunk_size
  BY DEF AllocateInRun, Fits
<1>6. /\ Hold(run + offset, size)
      /\ offset + aligned(size) <= MaxOffset
      /\ given' = given \cup Bytes(run + offset, size)
  BY <1>2 DEF Place
<1>7. ~was_reset => ~astray /\ AsWritten(run, CountField(run))
  BY <1>1, ReadsItsOwn DEF AllocateInRun, IInv, OneRun
<1>8. ASSUME ~astray'
      PROVE  /\ run + offset \notin DOMAIN live
             /\ \A p \in DOMAIN live' : \E r \in Runs : LiesIn(p, r)'
             /\ A!Allocate
             /\ offset + aligned(size) <= mapped[run] * chunk_size
  <2>1. ~astray /\ AsWritten(run, CountField(run))
    BY <1>2, <1>8
  <2>2. offset + aligned(size) <= mapped[run] * chunk_size
    BY <1>1, <1>5, <2>1, WrittenCount
  <2>3. \A p \in DOMAIN live : \E r \in Runs :
          LiesIn(p, r) /\ (r = run => p + live[p].size <= run + offset)
    <3>1. \A p \in DOMAIN live : \E r \in Runs : LiesIn(p, r)
      BY <2>1 DEF IInv, Placed
    <3> QED
      BY <3>1 DEF LiesIn
  <2>4. /\ arena'.current = run /\ arena'.current_offset = offset + aligned(size)
    BY <1>4
  <2>5. mapped' = mapped
    BY <1>2
  <2> HIDE DEF run, offset
  <2> QED
    BY <1>1, <1>4, <1>6, <2>2, <2>3, <2>4, <2>5, PlaceBehind
<1>9. Placed'
  BY <1>8 DEF Placed
<1>10. ASSUME ~was_reset
       PROVE  /\ ~astray' /\ arena.first = run
              /\ offset >= ChunkRunHeaderSize
              /\ Bytes(run, ChunkRunHeaderSize) \cap given = {}
  BY <1>2, <1>7, <1>10 DEF IInv, OneRun, AllocateInRun
<1> HIDE DEF run, offset
<1>11. ASSUME ~was_reset
       PROVE  Bytes(run, ChunkRunHeaderSize) \cap given' = {}
  <2>1. Bytes(run, ChunkRunHeaderSize) \cap Bytes(run + offset, size) = {}
    BY <1>1, <1>4, <1>10, <1>11, SizesFit, ExpandingArenaAssumption DEF Bytes
  <2> QED
    BY <1>6, <1>10, <1>11, <2>1
<1>12. OneRun'
  <2>1. ASSUME ~was_reset PROVE offset + aligned(size) >= ChunkRunHeaderSize
    BY <1>4, <1>10, <2>1, ExpandingArenaAssumption
  <2> QED
    BY <1>2, <1>4, <1>10, <1>11, <2>1 DEF OneRun
<1>13. SafeUntilReset'
  <2>1. ASSUME ~was_reset, NEW p \in DOMAIN live'
        PROVE  \E r \in Runs : /\ p >= r + ChunkRunHeaderSize
                               /\ p + live'[p].size <= r + mapped[r] * chunk_size
    <3>1. CASE p = run + offset
      <4>1. live'[p] = [size |-> size, times |-> 1]
        BY <1>6, <1>8, <1>10, <2>1, <3>1, Holding
      <4>2. live'[p].size = size
        BY <4>1
      <4>3. mapped[run] * chunk_size \in Nat
        BY <1>1, ExpandingArenaAssumption
      <4>4. offset + size <= mapped[run] * chunk_size
        BY <1>4, <1>8, <1>10, <2>1, <4>3, SizesFit
      <4>5. /\ p >= run + ChunkRunHeaderSize
            /\ p + size <= run + mapped[run] * chunk_size
        BY <1>1, <1>4, <1>10, <2>1, <3>1, <4>3, <4>4, SizesFit, ExpandingArenaAssumption
      <4> QED
        BY <1>1, <4>2, <4>5
    <3>2. CASE p # run + offset
      <4>0. /\ DOMAIN live' = DOMAIN live \cup {run + offset}
            /\ \A q \in DOMAIN live : q # run + offset => live'[q] = live[q]
        BY <1>6, Holding
      <4>1. p \in DOMAIN live /\ live'[p] = live[p]
        BY <3>2, <4>0
      <4> QED
        BY <2>1, <4>1 DEF IInv, SafeUntilReset
    <3> QED
      BY <3>1, <3>2
  <2> QED
    BY <1>2, <2>1 DEF SafeUntilReset
<1> QED
  BY <1>4, <1>8, <1>9, <1>12, <1>13 DEF IInv

(* The search goes beyond the arena's run only if the client may have      *)
(* written there.                                                          *)
LEMMA ElsewhereStep ==
  ASSUME IInv, NEW size \in Sizes, AllocateElsewhere(size)
  PROVE  IInv' /\ astray'
<1>1. PICK next \in NextsAt(arena.current) \ {Null} :
        /\ unmapped = {} /\ arena.current # Null
        /\ Place(next, size)
        /\ astray' = TRUE
        /\ UNCHANGED <<mapped, header, was_reset, unmapped>>
  BY DEF AllocateElsewhere
<1>2. was_reset
  <2> SUFFICES ASSUME ~was_reset PROVE FALSE
    OBVIOUS
  <2> QED
    BY <1>1, ReadsItsOwn, WrittenNext
<1>3. next \in Nat
  <2>1. arena.current \in Runs /\ mapped[arena.current] > 0
    BY <1>1 DEF IInv, TypeOK, ArenaIsMapped
  <2>2. ~AsWritten(arena.current, NextField(arena.current))
    BY <1>1, <2>1, WrittenNext
  <2> QED
    BY <1>1, <2>2, ExpandingArenaAssumption DEF NextsAt, Elsewhere
<1>4. TypeOK' /\ RunsApart' /\ CountsWritten' /\ ArenaIsMapped'
  BY <1>1, <1>3, PlaceIsTyped
<1>5. Placed' /\ OneRun' /\ SafeUntilReset'
  BY <1>1, <1>2 DEF Placed, OneRun, SafeUntilReset
<1> QED
  BY <1>1, <1>4, <1>5 DEF IInv

LEMMA NewRunStep ==
  ASSUME IInv, NEW size \in Sizes, AllocateNewRun(size)
  PROVE  IInv' /\ (A!Allocate \/ astray')
<1> DEFINE offset == aligned(ChunkRunHeaderSize)
           count == new_chunk_run_chunk_count(size)
<1>1. PICK run \in Runs :
        /\ unmapped = {}
        /\ arena' = [first |-> run, current |-> run, current_offset |-> offset + aligned(size)]
        /\ Hold(run + offset, size)
        /\ Map(run, count)
        /\ UNCHANGED <<was_reset, astray, unmapped>>
  BY DEF AllocateNewRun
<1>2. /\ offset \in Nat /\ offset >= ChunkRunHeaderSize
      /\ count \in Nat \ {0} /\ offset + aligned(size) <= count * chunk_size
      /\ aligned(size) \in Nat /\ aligned(size) >= size /\ size \in Nat \ {0}
      /\ run \in Nat /\ run # Null
  BY SizesFit, ExpandingArenaAssumption DEF Null
<1> HIDE DEF offset, count
<1>3. /\ mapped[run] = 0 /\ count <= MaxChunks
      /\ Run(run, count) \cap MappedMemory = {}
      /\ mapped' = [mapped EXCEPT ![run] = count]
      /\ header' = [header EXCEPT ![run] = [next |-> Null, chunk_count |-> count]]
      /\ given' = (given \ Run(run, count)) \cup UNION {Held(p)' : p \in DOMAIN live'}
  BY <1>1 DEF Map
<1>4. /\ arena'.first = run /\ arena'.current = run
      /\ arena'.current_offset = offset + aligned(size)
      /\ arena' \in [first : Runs \cup {Null}, current : Runs \cup {Null}, current_offset : Nat]
  BY <1>1, <1>2
<1>5. /\ mapped \in [Runs -> Nat] /\ header \in [Runs -> [next : {Null}, chunk_count : Nat]]
      /\ given \subseteq Nat
  BY DEF IInv, TypeOK
<1>6. /\ mapped' \in [Runs -> Nat] /\ mapped'[run] = count
      /\ \A r \in Runs : r # run => mapped'[r] = mapped[r]
  BY <1>2, <1>3, <1>5
<1>7. /\ header' \in [Runs -> [next : {Null}, chunk_count : Nat]]
      /\ header'[run].chunk_count = count
      /\ \A r \in Runs : r # run => header'[r] = header[r]
  BY <1>2, <1>3, <1>5
<1>8. \A p \in DOMAIN live' : p \in Nat /\ live'[p] \in [size : Sizes, times : Nat \ {0}]
  BY <1>1, <1>2, HoldingIsTyped DEF IInv
<1>9. TypeOK'
  <2>1. ASSUME NEW p \in DOMAIN live' PROVE Held(p)' \subseteq Nat
    <3>1. p \in Nat /\ live'[p].size \in Nat
      BY <1>8, SizesFit
    <3> QED
      BY <3>1 DEF Held, Bytes
  <2>2. given' \subseteq Nat
    BY <1>3, <1>5, <2>1
  <2> QED
    BY <1>1, <1>4, <1>6, <1>7, <1>8, <2>2 DEF IInv, TypeOK
<1>10. RunsApart'
  <2>1. ASSUME NEW r \in Runs, r # run PROVE Run(r, mapped[r]) \cap Run(run, count) = {}
    BY <1>3 DEF MappedMemory
  <2>2. \A r, q \in Runs : r # q => Run(r, mapped[r]) \cap Run(q, mapped[q]) = {}
    BY DEF IInv, RunsApart
  <2> SUFFICES ASSUME NEW r \in Runs, NEW q \in Runs, r # q
               PROVE  Run(r, mapped'[r]) \cap Run(q, mapped'[q]) = {}
    BY DEF RunsApart, Run
  <2>3. CASE r = run
    BY <1>6, <2>1, <2>3
  <2>4. CASE q = run
    BY <1>6, <2>1, <2>4
  <2>5. CASE r # run /\ q # run
    BY <1>6, <2>2, <2>5
  <2> QED
    BY <2>3, <2>4, <2>5
<1>11. CountsWritten' /\ ArenaIsMapped'
  <2>1. CountsWritten'
    BY <1>6, <1>7 DEF IInv, CountsWritten
  <2> QED
    BY <1>1, <1>2, <1>4, <1>6, <2>1 DEF ArenaIsMapped
<1>12. ASSUME ~astray
       PROVE  /\ run + offset \notin DOMAIN live
              /\ \A p \in DOMAIN live' : \E r \in Runs : LiesIn(p, r)'
              /\ A!Allocate
  <2>1. offset + aligned(size) <= MaxOffset
    <3>1. count * chunk_size <= MaxChunks * chunk_size /\ count * chunk_size \in Nat
          /\ MaxChunks * chunk_size \in Nat
      BY <1>2, <1>3, ProductGrows, ExpandingArenaAssumption
    <3> QED
      BY <1>2, <3>1, ExpandingArenaAssumption
  <2>2. ASSUME NEW p \in DOMAIN live
        PROVE  \E r \in Runs : LiesIn(p, r) /\ (r = run => p + live[p].size <= run + offset)
    <3>1. PICK r \in Runs : LiesIn(p, r)
      BY <1>12 DEF IInv, Placed
    <3>2. p \in Nat /\ live[p].size \in Nat \ {0}
      BY SizesFit DEF IInv, TypeOK
    <3>3. r # run
      BY <1>2, <1>3, <3>1, <3>2, ExpandingArenaAssumption DEF LiesIn
    <3> QED
      BY <3>1, <3>3
  <2>3. \A r \in Runs : mapped[r] > 0 => mapped'[r] = mapped[r]
    BY <1>3, <1>6
  <2> QED
    BY <1>1, <1>2, <1>4, <1>6, <1>10, <2>1, <2>2, <2>3, PlaceBehind
<1>13. Placed'
  BY <1>1, <1>12 DEF Placed
<1>14. ASSUME ~astray
       PROVE  Bytes(run, ChunkRunHeaderSize) \cap given' = {}
  <2>0. /\ DOMAIN live' = DOMAIN live \cup {run + offset}
        /\ \A p \in DOMAIN live : p # run + offset => live'[p] = live[p]
        /\ live'[run + offset] = [size |-> size, times |-> 1]
    BY <1>1, <1>12, <1>14, Holding
  <2>1. ASSUME NEW p \in DOMAIN live', NEW b \in Held(p)',
               b \in Bytes(run, ChunkRunHeaderSize)
        PROVE  FALSE
    <3>1. ChunkRunHeaderSize \in Nat /\ chunk_size \in Nat \ {0}
      BY ExpandingArenaAssumption
    <3>2. b \in Nat /\ b >= run /\ b < run + ChunkRunHeaderSize
      BY <1>2, <2>1, <3>1 DEF Bytes
    <3>3. b >= p /\ b < p + live'[p].size /\ p \in Nat /\ live'[p].size \in Nat
      BY <1>8, <2>1, SizesFit DEF Held, Bytes
    <3>4. CASE p = run + offset
      BY <1>2, <3>1, <3>2, <3>3, <3>4
    <3>5. CASE p # run + offset
      <4>1. p \in DOMAIN live /\ live'[p] = live[p]
        BY <2>0, <3>5
      <4>2. PICK r \in Runs : LiesIn(p, r)
        BY <1>14, <4>1 DEF IInv, Placed
      <4>3. r \in Nat /\ mapped[r] \in Nat /\ mapped[r] * chunk_size \in Nat
        BY <1>5, <3>1, ExpandingArenaAssumption
      <4>4. b \in Run(r, mapped[r])
        BY <3>2, <3>3, <4>1, <4>2, <4>3 DEF LiesIn, Run, Bytes
      <4>5. b \in Run(run, count)
        <5>1. count * chunk_size \in Nat /\ ChunkRunHeaderSize <= count * chunk_size
          BY <1>2, <3>1
        <5> QED
          BY <1>2, <3>1, <3>2, <5>1 DEF Run, Bytes
      <4> QED
        BY <1>3, <4>4, <4>5 DEF MappedMemory
    <3> QED
      BY <3>4, <3>5
  <2>2. Bytes(run, ChunkRunHeaderSize) \subseteq Run(run, count)
    <3>1. count * chunk_size \in Nat /\ ChunkRunHeaderSize <= count * chunk_size
      BY <1>2, ExpandingArenaAssumption
    <3> QED
      BY <1>2, <3>1, ExpandingArenaAssumption DEF Run, Bytes
  <2> QED
    BY <1>3, <2>1, <2>2
<1>15. OneRun'
  <2>1. offset + aligned(size) >= ChunkRunHeaderSize
    BY <1>2, ExpandingArenaAssumption
  <2>2. ~was_reset => ~astray
    BY DEF IInv, OneRun
  <2> QED
    BY <1>1, <1>4, <1>14, <2>1, <2>2 DEF OneRun
<1>16. SafeUntilReset'
  <2>1. ASSUME ~was_reset, NEW p \in DOMAIN live'
        PROVE  \E r \in Runs : /\ p >= r + ChunkRunHeaderSize
                               /\ p + live'[p].size <= r + mapped'[r] * chunk_size
    <3>0. ~astray
      BY <2>1 DEF IInv, OneRun
    <3>1. /\ DOMAIN live' = DOMAIN live \cup {run + offset}
          /\ \A q \in DOMAIN live : q # run + offset => live'[q] = live[q]
          /\ live'[run + offset] = [size |-> size, times |-> 1]
      BY <1>1, <1>12, <3>0, Holding
    <3>2. CASE p = run + offset
      <4>1. live'[p].size = size
        BY <3>1, <3>2
      <4>2. count * chunk_size \in Nat /\ ChunkRunHeaderSize \in Nat
        BY <1>2, ExpandingArenaAssumption
      <4>3. p >= run + ChunkRunHeaderSize /\ p + size <= run + count * chunk_size
        BY <1>2, <3>2, <4>2
      <4> QED
        BY <1>6, <4>1, <4>3
    <3>3. CASE p # run + offset
      <4>1. p \in DOMAIN live /\ live'[p] = live[p]
        BY <3>1, <3>3
      <4>2. PICK r \in Runs : /\ p >= r + ChunkRunHeaderSize
                              /\ p + live[p].size <= r + mapped[r] * chunk_size
        BY <2>1, <4>1 DEF IInv, SafeUntilReset
      <4>3. r # run
        <5>1. p \in Nat /\ live[p].size \in Nat \ {0} /\ ChunkRunHeaderSize \in Nat
              /\ chunk_size \in Nat
          BY <4>1, SizesFit, ExpandingArenaAssumption DEF IInv, TypeOK
        <5> QED
          BY <1>2, <1>3, <4>2, <5>1
      <4> QED
        BY <1>6, <4>1, <4>2, <4>3
    <3> QED
      BY <3>2, <3>3
  <2> QED
    BY <1>1, <2>1 DEF SafeUntilReset
<1> QED
  BY <1>1, <1>9, <1>10, <1>11, <1>12, <1>13, <1>15, <1>16 DEF IInv

(***************************************************************************)
(* reset, destroy and the next arena                                       *)
(***************************************************************************)

LEMMA ResetStep ==
  ASSUME IInv, Reset
  PROVE  IInv' /\ A!Reset
<1>1. /\ arena' = [first |-> arena.first, current |-> arena.first, current_offset |-> 0]
      /\ DOMAIN live' = {} /\ was_reset' = TRUE
      /\ UNCHANGED <<mapped, header, given, astray, unmapped>>
  BY DEF Reset, IInv, TypeOK
<1>2. TypeOK'
  BY <1>1 DEF IInv, TypeOK
<1>3. RunsApart' /\ CountsWritten' /\ ArenaIsMapped'
  BY <1>1 DEF IInv, RunsApart, CountsWritten, ArenaIsMapped, Run
<1>4. Placed' /\ OneRun' /\ SafeUntilReset'
  BY <1>1 DEF Placed, OneRun, SafeUntilReset
<1>5. A!Reset
  BY <1>1, MappingOfLiveNext DEF A!Reset
<1> QED
  BY <1>2, <1>3, <1>4, <1>5 DEF IInv

LEMMA DestroyStep ==
  ASSUME IInv, Destroy
  PROVE  IInv' /\ A!Reset
<1>1. /\ DOMAIN live' = {} /\ UNCHANGED <<arena, mapped, header, given, was_reset, astray>>
      /\ arena.first \in Runs /\ arena.first # Null
      /\ mapped[arena.first] > 0
  BY DEF Destroy, IInv, TypeOK, ArenaIsMapped
<1>2. PICK count \in CountsAt(arena.first), next \in NextsAt(arena.first) :
        unmapped' = {[pointer |-> arena.first, chunk_count |-> count, next |-> next]}
  BY DEF Destroy
<1>3. count \in Nat /\ next \in Nat
  <2>1. header[arena.first].next \in Nat /\ header[arena.first].chunk_count \in Nat
    BY <1>1 DEF IInv, TypeOK, Null
  <2> QED
    BY <1>2, <2>1, ExpandingArenaAssumption DEF CountsAt, NextsAt, Elsewhere
<1>4. TypeOK'
  BY <1>1, <1>2, <1>3 DEF IInv, TypeOK
<1>5. ASSUME ~was_reset
      PROVE  count = mapped[arena.first] /\ next = Null
  <2>1. arena.first = arena.current
    BY <1>5 DEF IInv, OneRun
  <2>2. AsWritten(arena.first, NextField(arena.first)) /\ AsWritten(arena.first, CountField(arena.first))
    BY <1>1, <1>5, <2>1, ReadsItsOwn
  <2> QED
    BY <1>1, <1>2, <2>2, WrittenCount, WrittenNext
<1>6. SafeUntilReset'
  BY <1>1, <1>2, <1>5 DEF SafeUntilReset, IsExact
<1>7. RunsApart' /\ CountsWritten' /\ ArenaIsMapped' /\ Placed' /\ OneRun'
  BY <1>1 DEF IInv, RunsApart, CountsWritten, ArenaIsMapped, Placed, OneRun, Run
<1>8. A!Reset
  BY <1>1, MappingOfLiveNext DEF A!Reset
<1> QED
  BY <1>4, <1>6, <1>7, <1>8 DEF IInv

LEMMA CreateStep ==
  ASSUME IInv, Create
  PROVE  IInv' /\ UNCHANGED live
<1>1. /\ arena' = [first |-> Null, current |-> Null, current_offset |-> 0]
      /\ live' = live /\ DOMAIN live = {}
      /\ was_reset' = FALSE /\ astray' = FALSE /\ unmapped' = {}
  BY DEF Create, IInv, ArenaIsMapped
<1>2. /\ mapped \in [Runs -> Nat] /\ header \in [Runs -> [next : {Null}, chunk_count : Nat]]
      /\ given \subseteq Nat
  BY DEF IInv, TypeOK
<1>3. /\ mapped' \in [Runs -> Nat]
      /\ \A r \in Runs : mapped'[r] = 0 \/ (mapped'[r] = mapped[r] /\ header'[r] = header[r])
      /\ header' \in [Runs -> [next : {Null}, chunk_count : Nat]]
      /\ given' \subseteq Nat
  BY <1>2 DEF Create, NoHeader
<1>4. TypeOK'
  BY <1>1, <1>3 DEF TypeOK
<1>5. RunsApart'
  <2>1. \A r \in Runs : Run(r, 0) = {}
    BY ExpandingArenaAssumption DEF Run, Bytes
  <2>2. \A r, q \in Runs : r # q => Run(r, mapped[r]) \cap Run(q, mapped[q]) = {}
    BY DEF IInv, RunsApart
  <2>3. \A r \in Runs : mapped'[r] = 0 \/ mapped'[r] = mapped[r]
    BY <1>3
  <2> SUFFICES ASSUME NEW r \in Runs, NEW q \in Runs, r # q
               PROVE  Run(r, mapped'[r]) \cap Run(q, mapped'[q]) = {}
    BY DEF RunsApart, Run
  <2> QED
    BY <2>1, <2>2, <2>3
<1>6. CountsWritten'
  BY <1>3 DEF IInv, CountsWritten
<1>7. ArenaIsMapped' /\ Placed' /\ OneRun' /\ SafeUntilReset'
  BY <1>1 DEF ArenaIsMapped, Placed, OneRun, SafeUntilReset
<1> QED
  BY <1>1, <1>4, <1>5, <1>6, <1>7 DEF IInv

LEMMA NextKeepsIInv ==
  IInv /\ [Next]_vars => IInv' /\ (A!Allocate \/ A!Reset \/ astray' \/ UNCHANGED live)
<1> SUFFICES ASSUME IInv, [Next]_vars
             PROVE  IInv' /\ (A!Allocate \/ A!Reset \/ astray' \/ UNCHANGED live)
  OBVIOUS
<1>1. ASSUME NEW size \in Sizes, AllocateInRun(size)
      PROVE  IInv' /\ (A!Allocate \/ astray')
  BY <1>1, InRunStep
<1>2. ASSUME NEW size \in Sizes, AllocateElsewhere(size)
      PROVE  IInv' /\ astray'
  BY <1>2, ElsewhereStep
<1>3. ASSUME NEW size \in Sizes, AllocateNewRun(size)
      PROVE  IInv' /\ (A!Allocate \/ astray')
  BY <1>3, NewRunStep
<1>4. CASE Reset
  BY <1>4, ResetStep
<1>5. CASE Destroy
  BY <1>5, DestroyStep
<1>6. CASE Create
  BY <1>6, CreateStep
<1>7. CASE UNCHANGED vars
  BY <1>7 DEF vars, IInv, TypeOK, RunsApart, CountsWritten, ArenaIsMapped, Placed, LiesIn,
              OneRun, SafeUntilReset, IsExact, Run
<1> QED
  BY <1>1, <1>2, <1>3, <1>4, <1>5, <1>6, <1>7 DEF Next

LEMMA IInvIsInvariant == Spec => []IInv
<1>1. Init => IInv
  BY InitIsOK
<1>2. IInv /\ [Next]_vars => IInv'
  BY NextKeepsIInv
<1> QED
  BY <1>1, <1>2, PTL DEF Spec

(* Until an arena is reset, allocations lie in mapped memory behind the    *)
(* header of their run, whatever is asked for, and destroying the arena    *)
(* unmaps just what it mapped.                                             *)
THEOREM HeadersAreSafe == Spec => []SafeUntilReset
<1>1. IInv => SafeUntilReset
  BY DEF IInv
<1> QED
  BY <1>1, IInvIsInvariant, PTL

(* An arena that was not reset knows one run only, however many it grew    *)
(* by: the others can neither be used again nor be unmapped.               *)
THEOREM RunsAreLost == Spec => []OlderRunsAreLost
<1>1. IInv => OlderRunsAreLost
  BY DEF IInv, TypeOK, OneRun, OlderRunsAreLost
<1> QED
  BY <1>1, IInvIsInvariant, PTL

(* Allocations of an arena share no memory and none is returned twice,     *)
(* across new runs, resets and arenas, until the arena places one by a     *)
(* count or a pointer that the client may have written over a header.      *)
THEOREM ArenaImplementsAllocator == Spec => ImplementsAllocator
<1>1. Init => A!Init
  BY DEF Init, A!Init, AllocationsOf
<1>2. IInv /\ [Next]_vars => [A!Allocate \/ A!Reset \/ astray']_live
  BY NextKeepsIInv
<1> QED
  BY <1>1, <1>2, IInvIsInvariant, PTL DEF Spec, ImplementsAllocator

=============================================================================
