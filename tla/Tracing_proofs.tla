---------------------------- MODULE Tracing_proofs ----------------------------
(***************************************************************************)
(* For every number of recorders, buckets and blocks, and for strings of   *)
(* any number of blocks, as long as each string has had the room it needs  *)
(* and the report came between no two steps of a recorder: no block is     *)
(* given to two recorders, no event is dropped while there is room, and a  *)
(* report has every event once.  The first invariant is about who owns a   *)
(* block, the second one about what the blocks and the counters say.       *)
(***************************************************************************)
EXTENDS Tracing, FiniteSetTheorems, TLAPS

CONSTANT MaxBlocks  \* the blocks of the longest string

\* What the code relies on: the counter has room for the additions that are about to be undone.
ProgramAssumption ==
  /\ IsFiniteSet(Recorder)
  /\ MaxBlocks \in Nat \ {0} /\ \A size \in StringSizes : BlocksFor(size) <= MaxBlocks
  /\ Capacity + Cardinality(Recorder) * MaxBlocks < WordMod

-----------------------------------------------------------------------------
(* The invariant *)

Slots == 0..(Capacity - 1)
Block == [type : {"EVENT_BLOCK", "STR_BLOCK", "text"}, id : Nat,
          str : {"none", "callers", "copy", "OutOfArgMemory"}, strAt : Nat]
Call  == [pc : {"grow", "undo", "stamp", "copy"}, what : {"event", "string"}, id : Nat,
          size : StringSizes, start : Buckets, tries : Nat, n : 1..MaxBlocks, at : Nat, event : Slots]
Report == [pc : {"load", "store", "collect", "reset"}, bucket : Buckets,
           records_per_bucket : [Buckets -> Nat], report : SUBSET (Buckets \X Slots),
           reported : BOOLEAN]

Types == /\ initialized \in BOOLEAN /\ tracing_p \in BOOLEAN
         /\ blocks_next \in [Buckets -> 0..(WordMod - 1)]
         /\ blocks \in [Buckets -> [Slots -> Block]]
         /\ recorder \in [Recorder -> {Idle} \cup Call]
         /\ finish \in {Idle} \cup Report
         /\ events \in Nat /\ recorded \subseteq 1..events /\ dropped \subseteq 1..events
         /\ overran \in BOOLEAN /\ overtaken \in BOOLEAN

\* When nobody records
Resetting == finish.pc = "reset" /\ finish.bucket > 0
Phases == /\ ~initialized => Quiet
          /\ finish # Idle => initialized /\ ~tracing_p
          /\ finish.pc = "collect" => finish.bucket = 0
          /\ Resetting => Quiet

\* The counter of a bucket counts the blocks that were given out, and, once these
\* are all, the blocks of the additions that are about to be undone: none of these is ever
\* followed by an addition that finds room.
Undoes(r, b) == r.pc = "undo" /\ Bucket(r) = b
PendingOf(f, b) == {p \in Recorder \X (1..MaxBlocks) : Undoes(f[p[1]], b) /\ p[2] <= f[p[1]].n}
Pending(b) == PendingOf(recorder, b)
Counters == \A b \in Buckets :
  \/ blocks_next[b] <= Capacity /\ Pending(b) = {}
  \/ blocks_next[b] = Capacity + Cardinality(Pending(b))

\* A recorder owns the blocks it is to write, and the event whose string it is to copy.
Given(r) == r.at..(r.at + r.n - 1)
Owns(r, b, i) == /\ b = Bucket(r)
                 /\ \/ r.pc \in {"stamp", "copy"} /\ i \in Given(r)
                    \/ r.pc # "idle" /\ r.what = "string" /\ i = r.event
Ownership ==
  /\ \A t \in Recorder : \A b, i : Owns(recorder[t], b, i) => i \in Slots /\ i < blocks_next[b]
  /\ \A t, u \in Recorder : t # u => \A b, i : ~(Owns(recorder[t], b, i) /\ Owns(recorder[u], b, i))
  /\ \A t \in Recorder : recorder[t].pc \in {"stamp", "copy"} /\ recorder[t].what = "string"
                           => recorder[t].event \notin Given(recorder[t])

\* The blocks that a call takes, once it has them, have the room that it needs.
Room(r) == r # Idle => /\ r.what = "event" => r.n = 1
                       /\ r.what = "string" => r.n = BlocksFor(r.size)
                       /\ r.pc \in {"stamp", "copy"} => HasRoom(r, r.at)
Rooms == \A t \in Recorder : Room(recorder[t])

\* An event in progress is new: it is nowhere but in the block its recorder owns.
Identities ==
  /\ \A t \in Recorder : recorder[t] # Idle => recorder[t].id \in (1..events) \ recorded
  /\ \A t, u \in Recorder : t # u /\ recorder[t] # Idle /\ recorder[u] # Idle
                              => recorder[t].id # recorder[u].id
  /\ \A b \in Buckets, i \in Slots :
       /\ blocks[b][i].id <= events
       /\ \A t \in Recorder : recorder[t] # Idle /\ blocks[b][i].id = recorder[t].id
            => recorder[t].what = "string" /\ b = Bucket(recorder[t]) /\ i = recorder[t].event

\* What is given out, or is about to be, holds nothing that is recorded.
Fresh ==
  /\ \A t \in Recorder : recorder[t].pc \in {"stamp", "copy"} =>
       \A j \in Given(recorder[t]) : blocks[Bucket(recorder[t])][j].id \notin recorded
  /\ ~Resetting => \A b \in Buckets, i \in Slots : i >= blocks_next[b] => blocks[b][i].id \notin recorded

IInv == Types /\ Phases /\ Counters /\ Ownership /\ Rooms /\ Identities /\ Fresh

-----------------------------------------------------------------------------
(* Buckets *)

LEMMA Remainder ==
  ASSUME NEW x \in Nat, NEW n \in Nat \ {0} PROVE x % n \in 0..(n - 1)
  BY SMT

LEMMA RoundTrip ==
  ASSUME NEW n \in Nat \ {0}, NEW c \in 0..(n - 1)
  PROVE  c % n = c /\ (c + n) % n = c
  BY SMT

LEMMA BucketInRange ==
  ASSUME NEW r \in Call PROVE Bucket(r) \in Buckets
<1>1. r.start + r.tries \in Nat /\ BUCKET_COUNT \in Nat \ {0}
  BY TracingAssumption DEF Call, Buckets
<1> QED
  BY <1>1, Remainder DEF Bucket, Buckets

LEMMA SameBucket ==
  ASSUME NEW r, NEW s, r.start = s.start, r.tries = s.tries PROVE Bucket(r) = Bucket(s)
  BY DEF Bucket

LEMMA IdleIsNoCall == Idle.pc = "idle" /\ \A r \in Call : r.pc # "idle" /\ r # Idle
<1>1. Idle.pc = "idle"
  BY DEF Idle
<1>2. \A r \in Call : r.pc # "idle"
  BY DEF Call
<1> QED
  BY <1>1, <1>2

LEMMA IdleOwnsNothing == \A b, i : ~Owns(Idle, b, i)
  BY IdleIsNoCall DEF Owns

\* The blocks of the additions that are to be undone fit a word.
LEMMA PendingFinite ==
  ASSUME ProgramAssumption, NEW f, NEW b
  PROVE  /\ IsFiniteSet(PendingOf(f, b)) /\ Cardinality(PendingOf(f, b)) \in Nat
         /\ Capacity + Cardinality(PendingOf(f, b)) < WordMod
<1>1. MaxBlocks \in Nat /\ IsFiniteSet(1..MaxBlocks) /\ Cardinality(1..MaxBlocks) = MaxBlocks
  BY FS_Interval DEF ProgramAssumption
<1>2. /\ IsFiniteSet(Recorder \X (1..MaxBlocks))
      /\ Cardinality(Recorder \X (1..MaxBlocks)) = Cardinality(Recorder) * MaxBlocks
  BY <1>1, FS_Product DEF ProgramAssumption
<1>3. PendingOf(f, b) \subseteq Recorder \X (1..MaxBlocks)
  BY DEF PendingOf
<1>4. /\ IsFiniteSet(PendingOf(f, b)) /\ Cardinality(PendingOf(f, b)) \in Nat
      /\ Cardinality(PendingOf(f, b)) <= Cardinality(Recorder) * MaxBlocks
  BY <1>2, <1>3, FS_Subset, FS_CardinalityType
<1>5. PICK most : most = Cardinality(Recorder) * MaxBlocks
  OBVIOUS
<1>6. most \in Nat
  BY <1>2, <1>5, FS_CardinalityType
<1> QED
  BY <1>4, <1>5, <1>6, TracingAssumption DEF ProgramAssumption

\* Where the caller has nothing to undo, neither before nor after, all stays.
LEMMA PendingSame ==
  ASSUME NEW f, NEW g, NEW t \in Recorder, \A u \in Recorder : u # t => g[u] = f[u],
         NEW c, ~Undoes(f[t], c), ~Undoes(g[t], c)
  PROVE  PendingOf(g, c) = PendingOf(f, c)
<1>1. \A p \in Recorder \X (1..MaxBlocks) : p \in PendingOf(g, c) <=> p \in PendingOf(f, c)
  <2> TAKE p \in Recorder \X (1..MaxBlocks)
  <2>1. CASE p[1] = t
    BY <2>1 DEF PendingOf
  <2>2. CASE p[1] # t
    BY <2>2 DEF PendingOf
  <2> QED
    BY <2>1, <2>2
<1> QED
  BY <1>1 DEF PendingOf

\* Where the caller joins, it adds the blocks it took.
LEMMA PendingJoined ==
  ASSUME ProgramAssumption,
         NEW f, NEW g, NEW t \in Recorder, \A u \in Recorder : u # t => g[u] = f[u],
         NEW c, ~Undoes(f[t], c), Undoes(g[t], c), g[t].n \in 1..MaxBlocks
  PROVE  Cardinality(PendingOf(g, c)) = Cardinality(PendingOf(f, c)) + g[t].n
<1> DEFINE mine == {t} \X (1..g[t].n)
<1>1. PendingOf(g, c) = PendingOf(f, c) \cup mine
  <2>1. \A p \in Recorder \X (1..MaxBlocks) :
          p \in PendingOf(g, c) <=> p \in PendingOf(f, c) \/ p \in mine
    <3> TAKE p \in Recorder \X (1..MaxBlocks)
    <3>1. p = <<p[1], p[2]>> /\ p[2] \in 1..MaxBlocks
      OBVIOUS
    <3>2. CASE p[1] = t
      <4>1. p \notin PendingOf(f, c)
        BY <3>2 DEF PendingOf
      <4>2. p \in PendingOf(g, c) <=> p[2] <= g[t].n
        BY <3>2 DEF PendingOf
      <4>3. p \in mine <=> p[2] \in 1..g[t].n
        BY <3>1, <3>2
      <4>4. p[2] \in 1..g[t].n <=> p[2] <= g[t].n
        BY <3>1
      <4> QED
        BY <4>1, <4>2, <4>3, <4>4
    <3>3. CASE p[1] # t
      BY <3>1, <3>3 DEF PendingOf
    <3> QED
      BY <3>2, <3>3
  <2>2. mine \subseteq Recorder \X (1..MaxBlocks)
    <3>1. \A k \in 1..g[t].n : k \in 1..MaxBlocks
      BY DEF ProgramAssumption
    <3> QED
      BY <3>1
  <2> QED
    BY <2>1, <2>2 DEF PendingOf
<1>2. PendingOf(f, c) \cap mine = {}
  BY DEF PendingOf
<1>3. IsFiniteSet(mine) /\ Cardinality(mine) = g[t].n
  <2>0. ASSUME NEW n \in 1..MaxBlocks PROVE IsFiniteSet(1..n) /\ Cardinality(1..n) = n
    <3>1. n \in Int /\ n >= 1
      OBVIOUS
    <3> QED
      BY <3>1, FS_Interval
  <2>2. IsFiniteSet(1..g[t].n) /\ Cardinality(1..g[t].n) = g[t].n /\ g[t].n \in Int
    BY <2>0
  <2>3. IsFiniteSet({t}) /\ Cardinality({t}) = 1
    BY FS_Singleton
  <2>4. Cardinality(mine) = 1 * g[t].n /\ IsFiniteSet(mine)
    BY <2>2, <2>3, FS_Product
  <2> QED
    BY <2>2, <2>4
<1> HIDE DEF mine
<1>4. Cardinality(PendingOf(f, c) \cup mine) =
        Cardinality(PendingOf(f, c)) + Cardinality(mine) - Cardinality(PendingOf(f, c) \cap mine)
  BY <1>3, PendingFinite, FS_Union
<1>5. Cardinality({}) = 0
  BY FS_EmptySet
<1>6. Cardinality(PendingOf(f, c)) \in Nat
  BY PendingFinite
<1>7. Cardinality(PendingOf(g, c)) = Cardinality(PendingOf(f, c)) + Cardinality(mine) - 0
  BY <1>1, <1>2, <1>4, <1>5
<1>8. g[t].n \in Int
  OBVIOUS
<1> QED
  BY <1>3, <1>6, <1>7, <1>8

\* If everybody is idle, nothing is owned and nothing pending.
LEMMA QuietFacts ==
  ASSUME Quiet
  PROVE  /\ \A b : Pending(b) = {}
         /\ \A t \in Recorder : \A b, i : ~Owns(recorder[t], b, i)
         /\ \A t \in Recorder : recorder[t] = Idle /\ recorder[t].pc = "idle"
<1>1. \A t \in Recorder : recorder[t] = Idle /\ recorder[t].pc = "idle"
  BY IdleIsNoCall DEF Quiet
<1> QED
  BY <1>1, IdleOwnsNothing DEF Pending, PendingOf, Undoes

-----------------------------------------------------------------------------
\* A recorder holds blocks that Owns() names; they are given out, and nothing recorded is in them.
LEMMA InvariantIsExclusive == IInv => BlocksAreExclusive
<1> SUFFICES ASSUME IInv PROVE BlocksAreExclusive
  OBVIOUS
<1>1. ASSUME NEW t \in Recorder, NEW p \in Held(t)
      PROVE  /\ recorder[t].pc \in {"stamp", "copy"}
             /\ p[1] = Bucket(recorder[t]) /\ p[2] \in Given(recorder[t])
             /\ Owns(recorder[t], p[1], p[2])
  <2>1. recorder[t].pc \in {"stamp", "copy"}
    BY <1>1 DEF Held
  <2>2. p \in {Bucket(recorder[t])} \X Given(recorder[t])
    BY <1>1, <2>1 DEF Held, Given
  <2> QED
    BY <2>1, <2>2 DEF Owns
<1>2. ASSUME NEW t \in Recorder, NEW p \in Held(t) PROVE p[2] < Capacity /\ p \notin InUse
  <2>1. p[2] \in Slots
    BY <1>1, <1>2 DEF IInv, Ownership
  <2>2. blocks[p[1]][p[2]].id \notin recorded
    BY <1>1, <1>2 DEF IInv, Fresh
  <2>3. p \notin InUse
    BY <2>2 DEF InUse
  <2> QED
    BY <2>1, <2>3, TracingAssumption DEF Slots
<1>3. ASSUME NEW t \in Recorder, NEW u \in Recorder \ {t} PROVE Held(t) \cap Held(u) = {}
  <2> SUFFICES ASSUME NEW p \in Held(t), p \in Held(u) PROVE FALSE
    OBVIOUS
  <2>1. Owns(recorder[t], p[1], p[2]) /\ Owns(recorder[u], p[1], p[2])
    BY <1>1
  <2> QED
    BY <2>1 DEF IInv, Ownership
<1>4. TypeOK
  BY DEF IInv, Types, TypeOK
<1> QED
  BY <1>2, <1>3, <1>4 DEF BlocksAreExclusive

-----------------------------------------------------------------------------
(* What the steps of a recorder have in common *)

\* A recorder that is in a call: its place, and that nobody else resets meanwhile.
LEMMA ActiveFacts ==
  ASSUME IInv, NEW t \in Recorder, recorder[t].pc # "idle"
  PROVE  /\ recorder[t] \in Call /\ recorder[t] # Idle /\ Bucket(recorder[t]) \in Buckets
         /\ blocks_next[Bucket(recorder[t])] \in Nat
         /\ ~Quiet /\ ~Resetting /\ initialized
<1>1. recorder[t] \in Call
  BY IdleIsNoCall DEF IInv, Types
<1>2. Bucket(recorder[t]) \in Buckets
  BY <1>1, BucketInRange
<1>3. ~Quiet
  BY <1>1, IdleIsNoCall DEF Quiet
<1> QED
  BY <1>1, <1>2, <1>3, IdleIsNoCall, TracingAssumption DEF IInv, Types, Phases

OnlyCaller(t) == \A u \in Recorder \ {t} : recorder'[u] = recorder[u]

\* Only the caller itself can join or leave those that have an addition to undo.
LEMMA PendingChange ==
  ASSUME ProgramAssumption, IInv, NEW t \in Recorder, OnlyCaller(t), NEW c
  PROVE  /\ ~Undoes(recorder[t], c) /\ ~Undoes(recorder'[t], c) => Pending(c)' = Pending(c)
         /\ ~Undoes(recorder[t], c) /\ Undoes(recorder'[t], c) /\ recorder'[t].n \in 1..MaxBlocks
              => Cardinality(Pending(c)') = Cardinality(Pending(c)) + recorder'[t].n
         /\ Undoes(recorder[t], c) /\ ~Undoes(recorder'[t], c)
              => Cardinality(Pending(c)') = Cardinality(Pending(c)) - recorder[t].n
         /\ Cardinality(Pending(c)) \in Nat /\ Cardinality(Pending(c)') \in Nat
         /\ Capacity + Cardinality(Pending(c)') < WordMod
<1>1. Pending(c) = PendingOf(recorder, c) /\ Pending(c)' = PendingOf(recorder', c)
  BY DEF Pending, PendingOf, Undoes
<1>2. PICK f, g : f = recorder /\ g = recorder'
  OBVIOUS
<1>3. \A u \in Recorder : u # t => g[u] = f[u] /\ f[u] = g[u]
  BY <1>2 DEF OnlyCaller
<1>4. /\ Cardinality(PendingOf(f, c)) \in Nat /\ Cardinality(PendingOf(g, c)) \in Nat
      /\ Capacity + Cardinality(PendingOf(g, c)) < WordMod
  BY PendingFinite
<1>5. ~Undoes(f[t], c) /\ ~Undoes(g[t], c) => PendingOf(g, c) = PendingOf(f, c)
  BY <1>3, PendingSame
<1>6. ~Undoes(f[t], c) /\ Undoes(g[t], c) /\ g[t].n \in 1..MaxBlocks
        => Cardinality(PendingOf(g, c)) = Cardinality(PendingOf(f, c)) + g[t].n
  BY <1>3, PendingJoined
<1>7. Undoes(f[t], c) /\ ~Undoes(g[t], c)
        => /\ f[t].n \in 1..MaxBlocks
           /\ Cardinality(PendingOf(f, c)) = Cardinality(PendingOf(g, c)) + f[t].n
  <2> HAVE Undoes(f[t], c) /\ ~Undoes(g[t], c)
  <2>1. f[t] \in Call
    BY <1>2, IdleIsNoCall DEF Undoes, IInv, Types
  <2>2. f[t].n \in 1..MaxBlocks
    BY <2>1 DEF Call
  <2> QED
    BY <1>3, <2>2, PendingJoined
<1>8. Undoes(f[t], c) /\ ~Undoes(g[t], c)
        => Cardinality(PendingOf(g, c)) = Cardinality(PendingOf(f, c)) - f[t].n
  BY <1>4, <1>7
<1> QED
  BY <1>1, <1>2, <1>4, <1>5, <1>6, <1>8

\* What is in a block of a bucket
LEMMA BlockType ==
  ASSUME IInv, NEW b \in Buckets, NEW i \in Slots
  PROVE  blocks[b][i] \in Block /\ blocks[b][i].id \in Nat /\ blocks[b][i].id <= events
<1>1. blocks[b][i] \in Block
  BY DEF IInv, Types
<1>2. \A block \in Block : block.id \in Nat
  BY Zenon DEF Block
<1> QED
  BY <1>1, <1>2 DEF IInv, Identities

\* When the caller's event counts as recorded, no other recorder's block has it.
LEMMA NobodyElseHas ==
  ASSUME IInv, NEW t \in Recorder, recorder[t] # Idle,
         NEW u \in Recorder \ {t}, recorder[u].pc \in {"stamp", "copy"}, NEW i \in Given(recorder[u])
  PROVE  blocks[Bucket(recorder[u])][i].id # recorder[t].id
<1> SUFFICES ASSUME blocks[Bucket(recorder[u])][i].id = recorder[t].id PROVE FALSE
  OBVIOUS
<1> DEFINE c == Bucket(recorder[u])
<1>1. c \in Buckets /\ i \in Slots /\ Owns(recorder[u], c, i)
  BY ActiveFacts DEF IInv, Ownership, Owns
<1>2. recorder[t].what = "string" /\ c = Bucket(recorder[t]) /\ i = recorder[t].event
  BY <1>1 DEF IInv, Identities
<1>3. Owns(recorder[t], c, i)
  BY <1>2, IdleIsNoCall DEF IInv, Types, Owns
<1> QED
  BY <1>1, <1>3 DEF IInv, Ownership

-----------------------------------------------------------------------------
(* The steps of a recorder *)

\* An event that begins gets a new id, and owns nothing yet.
LEMMA RecordStep ==
  ASSUME ProgramAssumption, IInv, NEW t \in Recorder, NEW start \in Buckets, NEW size \in StringSizes,
         Record(t, start, size)
  PROVE  IInv'
<1> DEFINE s == [pc |-> "grow", what |-> "event", id |-> events + 1, size |-> size,
                 start |-> start, tries |-> 0, n |-> 1, at |-> 0, event |-> 0]
<1>1. /\ recorder' = [recorder EXCEPT ![t] = s] /\ recorder[t] = Idle
      /\ initialized /\ tracing_p /\ finish = Idle
      /\ events' = events + 1
      /\ UNCHANGED <<initialized, tracing_p, blocks_next, blocks, finish, recorded, dropped>>
      /\ UNCHANGED <<overran, overtaken>>
  BY DEF Record, shared, history, IInv, Phases
<1>2. s \in Call
  <2>1. 1 \in 1..MaxBlocks
    BY DEF ProgramAssumption
  <2> QED
    BY <2>1, TracingAssumption DEF IInv, Types, Call, Slots
<1>3. recorder'[t] = s /\ OnlyCaller(t)
  BY <1>1 DEF IInv, Types, OnlyCaller
<1> HIDE DEF s
<1>s. s.pc = "grow" /\ s.what = "event" /\ s.id = events + 1 /\ s.n = 1
  BY DEF s
<1>4. Types'
  BY <1>1, <1>2 DEF IInv, Types
<1>5. Phases'
  BY <1>1, IdleIsNoCall DEF Phases, Resetting, Idle
<1>6. Counters'
  <2>1. \A c : Pending(c)' = Pending(c)
    BY <1>1, <1>3, <1>s, PendingChange, IdleIsNoCall DEF Undoes
  <2> QED
    BY <1>1, <2>1 DEF IInv, Counters
<1>7. \A b, i : ~Owns(s, b, i)
  BY <1>s DEF Owns
<1>8. Ownership'
  BY <1>1, <1>3, <1>7, <1>s DEF IInv, Ownership, OnlyCaller
<1>r. Rooms'
  BY <1>3, <1>s DEF IInv, Rooms, Room, OnlyCaller
<1>9. Identities'
  <2>1. \A u \in Recorder : recorder'[u] # Idle /\ u # t => recorder'[u].id \in (1..events) \ recorded
    BY <1>3 DEF IInv, Identities, OnlyCaller
  <2>2. /\ s.id \in (1..events') \ recorded'
        /\ \A u \in Recorder \ {t} : recorder'[u] # Idle => recorder'[u].id # s.id
    BY <1>1, <1>s, <2>1 DEF IInv, Types
  <2>3. \A u \in Recorder : recorder'[u] # Idle => recorder'[u].id \in (1..events') \ recorded'
    BY <1>1, <1>3, <2>1, <2>2 DEF IInv, Types
  <2>4. ASSUME NEW u \in Recorder, NEW v \in Recorder, u # v, recorder'[u] # Idle, recorder'[v] # Idle
        PROVE  recorder'[u].id # recorder'[v].id
    BY <1>3, <2>2, <2>4 DEF IInv, Identities, OnlyCaller
  <2>5. ASSUME NEW b \in Buckets, NEW i \in Slots
        PROVE  blocks'[b][i].id <= events' /\ blocks'[b][i].id # s.id
    <3>1. blocks[b][i].id <= events /\ blocks[b][i].id \in Nat
      BY BlockType
    <3> QED
      BY <1>1, <1>s, <3>1 DEF IInv, Types
  <2>6. ASSUME NEW b \in Buckets, NEW i \in Slots, NEW u \in Recorder, recorder'[u] # Idle,
               blocks'[b][i].id = recorder'[u].id
        PROVE  recorder'[u].what = "string" /\ b = Bucket(recorder'[u]) /\ i = recorder'[u].event
    <3>1. u # t
      BY <1>3, <2>5, <2>6
    <3>2. recorder'[u] = recorder[u] /\ blocks' = blocks
      BY <1>1, <1>3, <3>1 DEF OnlyCaller
    <3>3. recorder[u] # Idle /\ blocks[b][i].id = recorder[u].id
      BY <2>6, <3>2
    <3>4. recorder[u].what = "string" /\ b = Bucket(recorder[u]) /\ i = recorder[u].event
      BY <3>3 DEF IInv, Identities
    <3> QED
      BY <3>2, <3>4
  <2> QED
    BY <2>3, <2>4, <2>5, <2>6 DEF Identities
<1>10. Fresh'
  <2>1. \A u \in Recorder : recorder'[u].pc \in {"stamp", "copy"} => u # t /\ recorder'[u] = recorder[u]
    BY <1>3, <1>s DEF OnlyCaller
  <2> QED
    BY <1>1, <2>1 DEF IInv, Fresh, Resetting
<1> QED
  BY <1>4, <1>5, <1>6, <1>8, <1>r, <1>9, <1>10 DEF IInv

\* The addition gives out the blocks from the counter on, or joins those that are about to be undone.
LEMMA GrowFacts ==
  ASSUME ProgramAssumption, IInv, NEW t \in Recorder, Grow(t), Intact',
         NEW r, NEW s, NEW b, NEW i,
         r = recorder[t], s = recorder'[t], b = Bucket(r), i = blocks_next[b]
  PROVE  /\ r.pc = "grow" /\ r \in Call /\ b \in Buckets /\ i \in Nat /\ r # Idle
         /\ ~Quiet /\ ~Resetting /\ initialized
         /\ UNCHANGED <<initialized, tracing_p, blocks, finish, events, recorded, dropped, overtaken>>
         /\ OnlyCaller(t) /\ recorder' \in [Recorder -> {Idle} \cup Call]
         /\ s \in Call /\ s.pc = (IF i < Capacity THEN "stamp" ELSE "undo") /\ (i < Capacity => s.at = i)
         /\ s.what = r.what /\ s.event = r.event /\ s.id = r.id /\ s.n = r.n /\ r.n \in 1..MaxBlocks
         /\ s.start = r.start /\ s.tries = r.tries /\ Bucket(s) = b
         /\ Room(s) /\ (i < Capacity => i + r.n <= Capacity)
         /\ blocks_next' \in [Buckets -> 0..(WordMod - 1)]
         /\ \A c \in Buckets : blocks_next'[c] = IF c = b THEN i + r.n ELSE blocks_next[c]
         /\ Counters'
<1>1. /\ r.pc = "grow" /\ r \in Call /\ b \in Buckets /\ i \in Nat /\ r # Idle
      /\ ~Quiet /\ ~Resetting /\ initialized
  BY ActiveFacts DEF Grow
<1>2. /\ UNCHANGED <<initialized, tracing_p, blocks, finish, events, recorded, dropped, overtaken>>
      /\ OnlyCaller(t)
      /\ s = [r EXCEPT !.pc = IF i < Capacity THEN "stamp" ELSE "undo",
                       !.at = IF i < Capacity THEN i ELSE 0]
  BY DEF Grow, Fits, IInv, Types, OnlyCaller
<1>3. /\ s \in Call /\ s.pc = (IF i < Capacity THEN "stamp" ELSE "undo") /\ (i < Capacity => s.at = i)
      /\ s.what = r.what /\ s.event = r.event /\ s.id = r.id /\ s.n = r.n /\ s.size = r.size
      /\ s.start = r.start /\ s.tries = r.tries /\ r.n \in 1..MaxBlocks
      /\ r.what \in {"event", "string"}
  <2>1. PICK pc, at : /\ pc = (IF i < Capacity THEN "stamp" ELSE "undo")
                      /\ at = (IF i < Capacity THEN i ELSE 0)
    OBVIOUS
  <2>2. s = [r EXCEPT !.pc = pc, !.at = at]
    BY <1>2, <2>1
  <2>3. pc \in {"undo", "stamp"} /\ at \in Nat
    BY <1>1, <2>1
  <2>4. /\ s \in Call /\ s.pc = pc /\ s.at = at
        /\ s.what = r.what /\ s.event = r.event /\ s.id = r.id /\ s.n = r.n /\ s.size = r.size
        /\ s.start = r.start /\ s.tries = r.tries /\ r.n \in 1..MaxBlocks
        /\ r.what \in {"event", "string"}
    BY <1>1, <2>2, <2>3 DEF Call
  <2> QED
    BY <2>1, <2>4
<1>4. Bucket(s) = b
  BY <1>3, SameBucket
<1>5. i < Capacity => HasRoom(r, i)
  BY DEF Grow, Fits, Intact
<1>6. /\ r.what = "event" => r.n = 1
      /\ r.what = "string" => r.n = BlocksFor(r.size)
  BY <1>1 DEF IInv, Rooms, Room
<1>7. i < Capacity => i + r.n <= Capacity
  <2>1. CASE r.what = "event"
    BY <1>1, <1>6, <2>1, TracingAssumption
  <2>2. CASE r.what = "string"
    BY <1>5, <2>2 DEF HasRoom
  <2> QED
    BY <1>3, <2>1, <2>2
<1>8. Room(s)
  BY <1>3, <1>5, <1>6 DEF Room, HasRoom
<1>9. recorder' \in [Recorder -> {Idle} \cup Call]
  BY <1>2, <1>3 DEF Grow, IInv, Types, OnlyCaller
\* the counter
<1>10. PICK n : n = r.n
  OBVIOUS
<1>11. n \in Nat /\ n > 0
  BY <1>3, <1>10 DEF ProgramAssumption
<1>12. \/ i <= Capacity /\ Pending(b) = {}
       \/ i = Capacity + Cardinality(Pending(b))
  BY <1>1 DEF IInv, Counters
<1>13. ~Undoes(recorder[t], b)
  BY <1>1 DEF Undoes
<1>14. ~(i < Capacity) => /\ i + n = Capacity + Cardinality(Pending(b)') /\ i + n < WordMod
  <2> HAVE ~(i < Capacity)
  <2>1. Undoes(recorder'[t], b)
    BY <1>3, <1>4 DEF Undoes
  <2>2. /\ Cardinality(Pending(b)') = Cardinality(Pending(b)) + n
        /\ Cardinality(Pending(b)) \in Nat /\ Capacity + Cardinality(Pending(b)') < WordMod
    <3>1. OnlyCaller(t)
      BY <1>2
    <3>2. recorder'[t].n = n /\ recorder'[t].n \in 1..MaxBlocks
      BY <1>3, <1>10
    <3> QED
      BY <1>13, <2>1, <3>1, <3>2, PendingChange
  <2>3. Pending(b) = {} => Cardinality(Pending(b)) = 0
    BY FS_EmptySet
  <2>4. i = Capacity + Cardinality(Pending(b))
    BY <1>1, <1>12, <2>3, TracingAssumption
  <2> QED
    BY <1>11, <2>2, <2>4, TracingAssumption
<1>15. i + n \in 0..(WordMod - 1)
  BY <1>1, <1>7, <1>10, <1>11, <1>14, TracingAssumption
<1>16. /\ blocks_next' \in [Buckets -> 0..(WordMod - 1)]
       /\ \A c \in Buckets : blocks_next'[c] = IF c = b THEN i + n ELSE blocks_next[c]
  <2>1. (i + n) % WordMod = i + n
    <3>1. WordMod \in Nat \ {0}
      BY TracingAssumption
    <3> QED
      BY <1>15, <3>1, RoundTrip
  <2>2. blocks_next' = [blocks_next EXCEPT ![b] = (i + n) % WordMod]
    BY <1>10 DEF Grow, Increment
  <2>3. blocks_next' = [blocks_next EXCEPT ![b] = i + n]
    BY <2>1, <2>2
  <2> QED
    BY <1>1, <1>15, <2>3 DEF IInv, Types
<1>17. Counters'
  <2> SUFFICES ASSUME NEW c \in Buckets
               PROVE  \/ blocks_next'[c] <= Capacity /\ Pending(c)' = {}
                      \/ blocks_next'[c] = Capacity + Cardinality(Pending(c)')
    BY DEF Counters
  <2>1. CASE c # b
    <3>1. ~Undoes(recorder[t], c) /\ ~Undoes(recorder'[t], c)
      BY <1>4, <2>1 DEF Undoes
    <3>2. Pending(c)' = Pending(c)
      BY <1>2, <3>1, PendingChange
    <3> QED
      BY <1>16, <2>1, <3>2 DEF IInv, Counters
  <2>2. CASE c = b /\ i < Capacity
    <3>1. ~Undoes(recorder'[t], c)
      BY <1>3, <2>2 DEF Undoes
    <3>2. Pending(c)' = Pending(c)
      BY <1>2, <1>13, <2>2, <3>1, PendingChange
    <3>3. Pending(c) = {}
      <4>1. i = Capacity + Cardinality(Pending(b)) => Cardinality(Pending(b)) \notin Nat
        BY <1>1, <2>2, TracingAssumption
      <4>2. Cardinality(Pending(b)) \in Nat
        BY PendingFinite DEF Pending
      <4> QED
        BY <1>12, <2>2, <4>1, <4>2
    <3> QED
      BY <1>7, <1>10, <1>16, <2>2, <3>2, <3>3
  <2>3. CASE c = b /\ ~(i < Capacity)
    BY <1>14, <1>16, <2>3
  <2> QED
    BY <2>1, <2>2, <2>3
<1> QED
  BY <1>1, <1>2, <1>3, <1>4, <1>7, <1>8, <1>9, <1>10, <1>16, <1>17

LEMMA GrowStep ==
  ASSUME ProgramAssumption, IInv, NEW t \in Recorder, Grow(t), Intact'
  PROVE  IInv'
<1>r. PICK r, s, b, i : r = recorder[t] /\ s = recorder'[t] /\ b = Bucket(r) /\ i = blocks_next[b]
  OBVIOUS
<1>1. /\ r.pc = "grow" /\ r \in Call /\ b \in Buckets /\ i \in Nat /\ r # Idle
      /\ ~Quiet /\ ~Resetting /\ initialized
  BY <1>r, GrowFacts
<1>2. /\ UNCHANGED <<initialized, tracing_p, blocks, finish, events, recorded, dropped, overtaken>>
      /\ OnlyCaller(t) /\ recorder' \in [Recorder -> {Idle} \cup Call] /\ Room(s)
  BY <1>r, GrowFacts
<1>3. /\ s \in Call /\ s.pc = (IF i < Capacity THEN "stamp" ELSE "undo") /\ (i < Capacity => s.at = i)
      /\ s.what = r.what /\ s.event = r.event /\ s.id = r.id /\ s.n = r.n /\ r.n \in 1..MaxBlocks
      /\ Bucket(s) = b
  BY <1>r, GrowFacts
<1>4. /\ i < Capacity => i + r.n <= Capacity
      /\ blocks_next' \in [Buckets -> 0..(WordMod - 1)]
      /\ \A c \in Buckets : blocks_next'[c] = IF c = b THEN i + r.n ELSE blocks_next[c]
      /\ Counters'
  BY <1>r, GrowFacts
<1>n. PICK n : n = r.n /\ n \in Nat /\ n > 0
  BY <1>3 DEF ProgramAssumption
<1>7. Types'
  BY <1>2, <1>4 DEF IInv, Types, Grow
<1>8. Phases'
  BY <1>1, <1>2 DEF IInv, Phases, Resetting
<1>9. \A c \in Buckets, j \in Slots : j < blocks_next[c] => j < blocks_next'[c]
  BY <1>1, <1>4, <1>n, <1>r, TracingAssumption DEF Slots
\* what t owns now is the blocks from i on, or it owned it before
<1>10. \A c, j : Owns(s, c, j) => c = b /\ ((i < Capacity /\ j \in i..(i + n - 1)) \/ Owns(r, c, j))
  BY <1>1, <1>3, <1>n, <1>r DEF Owns, Given
<1>11. Ownership'
  <2>1. ASSUME NEW u \in Recorder, NEW c, NEW j, Owns(recorder'[u], c, j)
        PROVE  j \in Slots /\ j < blocks_next'[c]
    <3>1. ASSUME Owns(recorder[u], c, j) PROVE j \in Slots /\ j < blocks_next'[c]
      <4>1. j \in Slots /\ j < blocks_next[c]
        BY <3>1 DEF IInv, Ownership
      <4>2. c \in Buckets
        <5>1. recorder[u].pc # "idle"
          BY <3>1 DEF Owns
        <5> QED
          BY <3>1, <5>1, ActiveFacts DEF Owns
      <4> QED
        BY <1>9, <4>1, <4>2
    <3>2. CASE u # t
      BY <1>2, <2>1, <3>1, <3>2 DEF OnlyCaller
    <3>3. CASE u = t
      <4>1. CASE Owns(r, c, j)
        BY <1>r, <3>1, <3>3, <4>1
      <4>2. CASE c = b /\ i < Capacity /\ j \in i..(i + n - 1)
        <5>1. blocks_next'[c] = i + n /\ i + n <= Capacity
          BY <1>1, <1>4, <1>n, <4>2
        <5> QED
          BY <1>1, <1>n, <4>2, <5>1, TracingAssumption DEF Slots
      <4> QED
        BY <1>10, <1>r, <2>1, <3>3, <4>1, <4>2
    <3> QED
      BY <3>2, <3>3
  <2>2. ASSUME NEW u \in Recorder \ {t}, NEW c, NEW j, Owns(s, c, j), Owns(recorder[u], c, j)
        PROVE  FALSE
    <3>1. CASE c = b /\ j \in i..(i + n - 1)
      <4>1. j \in Slots /\ j < blocks_next[c]
        BY <2>2 DEF IInv, Ownership
      <4> QED
        BY <1>1, <1>n, <1>r, <3>1, <4>1
    <3>2. CASE Owns(r, c, j)
      BY <1>r, <2>2, <3>2 DEF IInv, Ownership
    <3> QED
      BY <1>10, <2>2, <3>1, <3>2
  <2>3. ASSUME NEW u \in Recorder, NEW v \in Recorder, u # v, NEW c, NEW j
        PROVE  ~(Owns(recorder'[u], c, j) /\ Owns(recorder'[v], c, j))
    BY <1>2, <1>r, <2>2, <2>3 DEF IInv, Ownership, OnlyCaller
  <2>4. ASSUME NEW u \in Recorder, recorder'[u].pc \in {"stamp", "copy"}, recorder'[u].what = "string"
        PROVE  recorder'[u].event \notin Given(recorder'[u])
    <3>1. CASE u # t
      BY <1>2, <2>4, <3>1 DEF IInv, Ownership, OnlyCaller
    <3>2. CASE u = t
      <4>1. Owns(r, b, r.event)
        BY <1>1, <1>3, <1>r, <2>4, <3>2 DEF Owns
      <4>2. r.event < i /\ r.event \in Slots
        BY <1>r, <4>1 DEF IInv, Ownership
      <4>3. recorder'[u].event = r.event /\ Given(recorder'[u]) = i..(i + n - 1)
        BY <1>3, <1>n, <1>r, <2>4, <3>2 DEF Given
      <4> QED
        BY <1>1, <1>n, <4>2, <4>3 DEF Slots
    <3> QED
      BY <3>1, <3>2
  <2> QED
    BY <2>1, <2>3, <2>4 DEF Ownership
<1>5. Rooms'
  BY <1>2, <1>r DEF IInv, Rooms, OnlyCaller
<1>12. Identities'
  <2>1. \A u \in Recorder : /\ recorder'[u] # Idle => recorder[u] # Idle
                            /\ recorder[u] # Idle =>
                                 /\ recorder'[u].id = recorder[u].id
                                 /\ recorder'[u].what = recorder[u].what
                                 /\ recorder'[u].event = recorder[u].event
                                 /\ Bucket(recorder'[u]) = Bucket(recorder[u])
    BY <1>1, <1>2, <1>3, <1>r DEF OnlyCaller
  <2> QED
    BY <1>2, <2>1 DEF IInv, Identities
<1>13. Fresh'
  <2>1. ASSUME NEW u \in Recorder, recorder'[u].pc \in {"stamp", "copy"}, NEW j \in Given(recorder'[u])
        PROVE  blocks[Bucket(recorder'[u])][j].id \notin recorded
    <3>1. CASE u # t
      BY <1>2, <2>1, <3>1 DEF IInv, Fresh, OnlyCaller
    <3>2. CASE u = t
      <4>1. i < Capacity /\ Bucket(recorder'[u]) = b /\ j \in i..(i + n - 1)
        BY <1>3, <1>n, <1>r, <2>1, <3>2 DEF Given
      <4>2. j \in Slots /\ j >= blocks_next[b]
        BY <1>1, <1>4, <1>n, <1>r, <4>1, TracingAssumption DEF Slots
      <4> QED
        BY <1>1, <4>1, <4>2 DEF IInv, Fresh
    <3> QED
      BY <3>1, <3>2
  <2>2. ASSUME NEW c \in Buckets, NEW j \in Slots, j >= blocks_next'[c]
        PROVE  blocks[c][j].id \notin recorded
    <3>1. j >= blocks_next[c]
      BY <1>1, <1>4, <1>n, <1>r, <2>2 DEF Slots
    <3> QED
      BY <1>1, <3>1 DEF IInv, Fresh
  <2> QED
    BY <1>2, <2>1, <2>2 DEF Fresh
<1> QED
  BY <1>4, <1>7, <1>8, <1>11, <1>5, <1>12, <1>13 DEF IInv

\* What the other steps of a call have in common: no counter falls below a block that was
\* given out, and the caller writes its event to blocks it owns and does not get another one.
Keeps == \A c \in Buckets, j \in Slots : j < blocks_next[c] => j < blocks_next'[c]
WritesOwn(t) == \A c \in Buckets, j \in Slots :
  \/ blocks'[c][j].id = blocks[c][j].id
  \/ Owns(recorder[t], c, j) /\ blocks'[c][j].id = recorder[t].id
GoesOn(t, r, s) == /\ s # Idle /\ s.id = r.id /\ recorded' = recorded
                   /\ \A c \in Buckets, j \in Slots : blocks'[c][j].id = r.id
                        => s.what = "string" /\ c = Bucket(s) /\ j = s.event
Returns(t, r, s) == s = Idle /\ recorded' \subseteq recorded \cup {r.id}
SamePlace(r, s) == /\ r.pc \in {"stamp", "copy"} /\ s.at = r.at /\ s.what = r.what
                   /\ s.event = r.event /\ Bucket(s) = Bucket(r) /\ Given(s) = Given(r)
                   /\ \A j \in Given(r) : blocks'[Bucket(r)][j].id = blocks[Bucket(r)][j].id

LEMMA CallerStep ==
  ASSUME IInv, NEW t \in Recorder, recorder[t].pc # "idle", OnlyCaller(t),
         UNCHANGED <<initialized, tracing_p, finish, events>>,
         Types', Counters', Keeps, WritesOwn(t), Room(recorder'[t]),
         \A c, j : Owns(recorder'[t], c, j) => Owns(recorder[t], c, j),
         recorder'[t].pc \in {"stamp", "copy"} => SamePlace(recorder[t], recorder'[t]),
         GoesOn(t, recorder[t], recorder'[t]) \/ Returns(t, recorder[t], recorder'[t])
  PROVE  IInv'
<1>1. /\ recorder[t] # Idle /\ ~Quiet /\ ~Resetting /\ initialized
      /\ recorder[t].id \in (1..events) \ recorded
  BY ActiveFacts DEF IInv, Identities
<1>2. \A u \in Recorder : u # t => recorder'[u] = recorder[u]
  BY DEF OnlyCaller
<1>3. Phases'
  BY <1>1 DEF IInv, Phases, Resetting
<1>4. \A u \in Recorder : \A c, j : Owns(recorder'[u], c, j) => Owns(recorder[u], c, j)
  BY <1>2
<1>5. ASSUME NEW u \in Recorder, NEW c, NEW j, Owns(recorder[u], c, j)
      PROVE  c \in Buckets /\ j \in Slots /\ j < blocks_next[c]
  <2>1. recorder[u].pc # "idle" /\ c = Bucket(recorder[u])
    BY <1>5 DEF Owns
  <2> QED
    BY <1>5, <2>1, ActiveFacts DEF IInv, Ownership
<1>6. Ownership'
  <2>1. ASSUME NEW u \in Recorder, recorder'[u].pc \in {"stamp", "copy"}, recorder'[u].what = "string"
        PROVE  recorder'[u].event \notin Given(recorder'[u])
    <3>1. /\ recorder[u].pc \in {"stamp", "copy"} /\ recorder'[u].what = recorder[u].what
          /\ recorder'[u].event = recorder[u].event /\ Given(recorder'[u]) = Given(recorder[u])
      BY <1>2, <2>1 DEF SamePlace
    <3> QED
      BY <2>1, <3>1 DEF IInv, Ownership
  <2>2. ASSUME NEW u \in Recorder, NEW c, NEW j, Owns(recorder'[u], c, j)
        PROVE  j \in Slots /\ j < blocks_next'[c]
    BY <1>4, <1>5, <2>2 DEF Keeps
  <2>3. ASSUME NEW u \in Recorder, NEW v \in Recorder, u # v, NEW c, NEW j
        PROVE  ~(Owns(recorder'[u], c, j) /\ Owns(recorder'[v], c, j))
    BY <1>4, <2>3 DEF IInv, Ownership
  <2> QED
    BY <2>1, <2>2, <2>3 DEF Ownership
<1>10. Rooms'
  BY <1>2 DEF IInv, Rooms
\* the ids of other recorders
<1>7. ASSUME NEW u \in Recorder, u # t, recorder[u] # Idle
      PROVE  recorder[u].id # recorder[t].id /\ recorder[u].id \in (1..events) \ recorded'
  BY <1>1, <1>7 DEF IInv, Identities, GoesOn, Returns
<1>8. Identities'
  <2>1. \A u \in Recorder : recorder'[u] # Idle => recorder'[u].id \in (1..events) \ recorded'
    BY <1>1, <1>2, <1>7 DEF GoesOn, Returns
  <2>2. ASSUME NEW u \in Recorder, NEW v \in Recorder, u # v, recorder'[u] # Idle, recorder'[v] # Idle
        PROVE  recorder'[u].id # recorder'[v].id
    <3>1. /\ recorder[u] # Idle /\ recorder'[u].id = recorder[u].id
          /\ recorder[v] # Idle /\ recorder'[v].id = recorder[v].id
      BY <1>1, <1>2, <2>2 DEF GoesOn, Returns
    <3> QED
      BY <2>2, <3>1 DEF IInv, Identities
  <2>3. ASSUME NEW c \in Buckets, NEW j \in Slots PROVE blocks'[c][j].id <= events
    BY <1>1, BlockType DEF WritesOwn, IInv, Types
  <2>4. ASSUME NEW c \in Buckets, NEW j \in Slots, NEW u \in Recorder, recorder'[u] # Idle,
               blocks'[c][j].id = recorder'[u].id
        PROVE  recorder'[u].what = "string" /\ c = Bucket(recorder'[u]) /\ j = recorder'[u].event
    <3>1. CASE u = t
      BY <2>4, <3>1 DEF GoesOn, Returns
    <3>2. CASE u # t
      <4>1. recorder'[u] = recorder[u]
        BY <1>2, <3>2
      <4>2. recorder[u] # Idle /\ recorder[u].id # recorder[t].id
        BY <1>7, <2>4, <3>2, <4>1
      <4>3. blocks[c][j].id = recorder[u].id
        BY <2>4, <4>1, <4>2 DEF WritesOwn
      <4> QED
        BY <4>1, <4>2, <4>3 DEF IInv, Identities
    <3> QED
      BY <3>1, <3>2
  <2> QED
    BY <2>1, <2>2, <2>3, <2>4 DEF Identities
<1>9. Fresh'
  <2>1. ASSUME NEW u \in Recorder, recorder'[u].pc \in {"stamp", "copy"}, NEW j \in Given(recorder'[u])
        PROVE  blocks'[Bucket(recorder'[u])][j].id \notin recorded'
    <3>1. CASE u = t
      <4>1. recorder'[t] # Idle
        BY <2>1, <3>1, IdleIsNoCall
      <4>2. recorded' = recorded
        BY <4>1 DEF GoesOn, Returns
      <4>3. SamePlace(recorder[t], recorder'[t])
        BY <2>1, <3>1
      <4> QED
        BY <2>1, <3>1, <4>2, <4>3 DEF IInv, Fresh, SamePlace
    <3>2. CASE u # t
      <4> DEFINE c == Bucket(recorder[u])
      <4>1. /\ recorder'[u] = recorder[u] /\ recorder[u].pc \in {"stamp", "copy"}
            /\ j \in Given(recorder[u])
        BY <1>2, <2>1, <3>2
      <4>2. Owns(recorder[u], c, j)
        BY <4>1 DEF Owns
      <4>3. c \in Buckets /\ j \in Slots /\ ~Owns(recorder[t], c, j)
        BY <1>5, <3>2, <4>2 DEF IInv, Ownership
      <4>4. blocks'[c][j].id = blocks[c][j].id
        BY <4>3 DEF WritesOwn
      <4>5. blocks[c][j].id \notin recorded
        BY <4>1 DEF IInv, Fresh
      <4>6. blocks[c][j].id # recorder[t].id
        BY <1>1, <3>2, <4>1, NobodyElseHas
      <4> QED
        BY <4>1, <4>4, <4>5, <4>6 DEF GoesOn, Returns
    <3> QED
      BY <3>1, <3>2
  <2>2. ASSUME NEW c \in Buckets, NEW j \in Slots, j >= blocks_next'[c]
        PROVE  blocks'[c][j].id \notin recorded'
    <3>1. j >= blocks_next[c] /\ ~(j < blocks_next[c])
      BY <2>2, TracingAssumption DEF Keeps, IInv, Types, Slots
    <3>2. ~Owns(recorder[t], c, j)
      BY <1>5, <3>1
    <3>3. blocks'[c][j].id = blocks[c][j].id
      BY <3>2 DEF WritesOwn
    <3>4. blocks[c][j].id \notin recorded
      BY <1>1, <3>1 DEF IInv, Fresh
    <3>5. blocks[c][j].id # recorder[t].id
      <4>1. blocks[c][j].id = recorder[t].id => Owns(recorder[t], c, j)
        BY <1>1 DEF IInv, Identities, Owns
      <4> QED
        BY <3>2, <4>1
    <3> QED
      BY <3>3, <3>4, <3>5 DEF GoesOn, Returns
  <2> QED
    BY <2>1, <2>2 DEF Fresh
<1> QED
  BY <1>3, <1>6, <1>8, <1>9, <1>10 DEF IInv

\* where the counters and those who are to undo an addition stay the same
LEMMA CountersKept ==
  ASSUME ProgramAssumption, IInv, NEW t \in Recorder, OnlyCaller(t), blocks_next' = blocks_next,
         recorder[t].pc # "undo", recorder'[t].pc # "undo"
  PROVE  Counters' /\ Keeps
<1>1. \A c : ~Undoes(recorder[t], c) /\ ~Undoes(recorder'[t], c)
  BY DEF Undoes
<1>2. ASSUME NEW c PROVE Pending(c)' = Pending(c)
  BY <1>1, PendingChange
<1> QED
  BY <1>2 DEF IInv, Counters, Keeps

\* the types of what a step of a call changes
LEMMA CallerTypes ==
  ASSUME IInv, NEW t \in Recorder, NEW s \in {Idle} \cup Call,
         recorder' = [recorder EXCEPT ![t] = s],
         UNCHANGED <<initialized, tracing_p, finish, events>>,
         blocks_next' \in [Buckets -> 0..(WordMod - 1)],
         blocks' \in [Buckets -> [Slots -> Block]],
         recorded' \subseteq 1..events, dropped' \subseteq 1..events,
         UNCHANGED history
  PROVE  Types' /\ OnlyCaller(t) /\ recorder'[t] = s
  BY DEF IInv, Types, OnlyCaller, history

\* The event of a call counts among the events.
LEMMA CallerIds ==
  ASSUME IInv, NEW t \in Recorder, recorder[t].pc # "idle"
  PROVE  /\ recorder[t].id \in Nat /\ recorder[t].id \in 1..events
         /\ recorded \cup {recorder[t].id} \subseteq 1..events
         /\ dropped \cup {recorder[t].id} \subseteq 1..events
<1>1. recorder[t].id \in 1..events
  BY ActiveFacts DEF IInv, Identities
<1>2. events \in Nat /\ recorded \subseteq 1..events /\ dropped \subseteq 1..events
  BY DEF IInv, Types
<1>3. recorder[t].id \in Nat
  BY <1>1, <1>2
<1>4. \A S : S \subseteq 1..events => S \cup {recorder[t].id} \subseteq 1..events
  BY <1>1
<1> QED
  BY <1>1, <1>2, <1>3, <1>4

\* Writing to one block of one bucket
LEMMA BlockUpdate ==
  ASSUME NEW f \in [Buckets -> [Slots -> Block]], NEW b \in Buckets, NEW i \in Slots,
         NEW new \in Block, NEW g, g = [f EXCEPT ![b] = [f[b] EXCEPT ![i] = new]]
  PROVE  /\ g \in [Buckets -> [Slots -> Block]]
         /\ \A c \in Buckets, j \in Slots : g[c][j] = IF c = b /\ j = i THEN new ELSE f[c][j]
<1>1. [f[b] EXCEPT ![i] = new] \in [Slots -> Block]
  OBVIOUS
<1> QED
  BY <1>1

\* The counter stays at or above the capacity, also when the last addition is undone.
MoreTries(r) == r.what = "event" /\ r.tries + 1 < BUCKET_COUNT
UndoEffect(t, r, b, i) ==
  /\ r.pc = "undo" /\ r \in Call /\ b \in Buckets /\ r # Idle
  /\ r.event \in Slots /\ r.tries \in Nat /\ r.what \in {"event", "string"}
  /\ UNCHANGED <<initialized, tracing_p, finish, events, history>> /\ OnlyCaller(t)
  /\ recorder' \in [Recorder -> {Idle} \cup Call]
  /\ MoreTries(r) => /\ recorder'[t] # Idle /\ recorder'[t].pc = "grow"
                     /\ recorder'[t].what = "event" /\ recorder'[t].id = r.id
                     /\ recorder'[t].n = 1 /\ recorder'[t].start = r.start
                     /\ recorder'[t].tries = r.tries + 1
  /\ ~MoreTries(r) => recorder'[t] = Idle /\ recorder'[t].pc = "idle"
  /\ r.what = "event" => /\ blocks' = blocks /\ recorded' = recorded
                         /\ dropped' = IF MoreTries(r) THEN dropped ELSE dropped \cup {r.id}
  /\ r.what = "string" =>
       /\ recorded' = recorded \cup {r.id} /\ dropped' = dropped
       /\ blocks' = [blocks EXCEPT ![b] = [blocks[b] EXCEPT ![r.event] =
                       [blocks[b][r.event] EXCEPT !.str = "OutOfArgMemory"]]]
  /\ i \in Nat /\ i >= Capacity
  /\ blocks_next' \in [Buckets -> 0..(WordMod - 1)]
  /\ blocks_next'[b] >= Capacity /\ blocks_next'[b] <= i
  /\ \A c \in Buckets : c # b => blocks_next'[c] = blocks_next[c]
  /\ Counters'

LEMMA UndoFacts ==
  ASSUME ProgramAssumption, IInv, NEW t \in Recorder, Undo(t),
         NEW r, NEW b, NEW i, r = recorder[t], b = Bucket(r), i = blocks_next[b]
  PROVE  UndoEffect(t, r, b, i)
<1>1. /\ r.pc = "undo" /\ r \in Call /\ b \in Buckets /\ r # Idle /\ i \in Nat
  BY ActiveFacts DEF Undo
<1>2. /\ r.event \in Slots /\ r.tries \in Nat /\ r.what \in {"event", "string"}
      /\ r.n \in 1..MaxBlocks
  BY <1>1 DEF Call
<1>3. r.what = "event" => r.n = 1
  BY <1>1 DEF IInv, Rooms, Room
<1>4. /\ UNCHANGED <<initialized, tracing_p, finish, events, history>> /\ OnlyCaller(t)
      /\ recorder' = [recorder EXCEPT ![t] =
                        IF MoreTries(r) THEN [r EXCEPT !.pc = "grow", !.tries = r.tries + 1] ELSE Idle]
  <2>1. recorder' = [recorder EXCEPT ![t] =
                       IF MoreTries(r) THEN [r EXCEPT !.pc = "grow", !.tries = r.tries + 1] ELSE Idle]
    BY Zenon DEF Undo, NextTry, MoreTries
  <2>2. OnlyCaller(t)
    BY <2>1 DEF IInv, Types, OnlyCaller
  <2>3. UNCHANGED <<initialized, tracing_p, finish, events, history>>
    BY DEF Undo
  <2> QED
    BY <2>1, <2>2, <2>3
<1>n. PICK n, more : n = r.tries + 1 /\ more = [r EXCEPT !.pc = "grow", !.tries = n]
  BY Zenon
<1>6. /\ more \in Call /\ more.pc = "grow" /\ more.what = r.what /\ more.id = r.id /\ more.n = r.n
      /\ more.start = r.start /\ more.tries = n
  <2>1. n \in Nat
    BY <1>2, <1>n
  <2> QED
    BY <1>1, <1>n, <2>1 DEF Call
<1>7. recorder'[t] = (IF MoreTries(r) THEN more ELSE Idle)
  BY <1>4, <1>n DEF IInv, Types
<1>8. recorder' \in [Recorder -> {Idle} \cup Call]
  BY <1>4, <1>n, <1>6 DEF IInv, Types
<1>9. /\ MoreTries(r) => /\ recorder'[t] # Idle /\ recorder'[t].pc = "grow"
                         /\ recorder'[t].what = "event" /\ recorder'[t].id = r.id
                         /\ recorder'[t].n = 1 /\ recorder'[t].start = r.start
                         /\ recorder'[t].tries = r.tries + 1
      /\ ~MoreTries(r) => recorder'[t] = Idle /\ recorder'[t].pc = "idle"
  <2>1. CASE MoreTries(r)
    BY <1>3, <1>n, <1>6, <1>7, <2>1, IdleIsNoCall DEF MoreTries
  <2>2. CASE ~MoreTries(r)
    BY <1>7, <2>2, IdleIsNoCall
  <2> QED
    BY <2>1, <2>2
<1>10. /\ r.what = "event" => /\ blocks' = blocks /\ recorded' = recorded
                              /\ dropped' = IF MoreTries(r) THEN dropped ELSE dropped \cup {r.id}
       /\ r.what = "string" =>
            /\ recorded' = recorded \cup {r.id} /\ dropped' = dropped
            /\ blocks' = [blocks EXCEPT ![b] = [blocks[b] EXCEPT ![r.event] =
                            [blocks[b][r.event] EXCEPT !.str = "OutOfArgMemory"]]]
  BY DEF Undo, NextTry, MoreTries
\* the counter
<1>11. PICK k : k = r.n
  OBVIOUS
<1>12. k \in Nat /\ k > 0
  BY <1>2, <1>11 DEF ProgramAssumption
<1>13. recorder'[t].pc # "undo" /\ recorder[t].pc = "undo"
  BY <1>1, <1>9
<1>14. /\ Cardinality(Pending(b)') = Cardinality(Pending(b)) - k
       /\ Cardinality(Pending(b)) \in Nat /\ Cardinality(Pending(b)') \in Nat
  <2>1. Undoes(recorder[t], b) /\ ~Undoes(recorder'[t], b) /\ OnlyCaller(t)
    BY <1>4, <1>13 DEF Undoes
  <2>2. recorder[t].n = k
    BY <1>11
  <2> QED
    BY <2>1, <2>2, PendingChange
<1>15. i = Capacity + Cardinality(Pending(b))
  <2>1. Cardinality(Pending(b)) # 0
    BY <1>12, <1>14
  <2>2. Pending(b) # {}
    BY <2>1, FS_EmptySet
  <2> QED
    BY <1>1, <2>2 DEF IInv, Counters
<1>16. /\ i - k = Capacity + Cardinality(Pending(b)') /\ i - k \in 0..(WordMod - 1)
       /\ i - k >= Capacity /\ i - k <= i /\ i >= Capacity
  <2>1. i \in 0..(WordMod - 1)
    BY <1>1 DEF IInv, Types
  <2> QED
    BY <1>12, <1>14, <1>15, <2>1, TracingAssumption
<1>17. /\ blocks_next' \in [Buckets -> 0..(WordMod - 1)]
       /\ \A c \in Buckets : blocks_next'[c] = IF c = b THEN i - k ELSE blocks_next[c]
  <2>1. (i - k) % WordMod = i - k
    <3>1. WordMod \in Nat \ {0}
      BY TracingAssumption
    <3> QED
      BY <1>16, <3>1, RoundTrip
  <2>2. blocks_next' = [blocks_next EXCEPT ![b] = (i - k) % WordMod]
    BY <1>11 DEF Undo, GiveBack
  <2>3. blocks_next' = [blocks_next EXCEPT ![b] = i - k]
    BY <2>1, <2>2
  <2> QED
    BY <1>1, <1>16, <2>3 DEF IInv, Types
<1>18. Counters'
  <2> SUFFICES ASSUME NEW c \in Buckets
               PROVE  \/ blocks_next'[c] <= Capacity /\ Pending(c)' = {}
                      \/ blocks_next'[c] = Capacity + Cardinality(Pending(c)')
    BY DEF Counters
  <2>1. CASE c = b
    <3>1. blocks_next'[b] = Capacity + Cardinality(Pending(b)')
      BY <1>1, <1>16, <1>17
    <3>2. Pending(c)' = Pending(b)'
      BY <2>1 DEF Pending, PendingOf, Undoes
    <3> QED
      BY <2>1, <3>1, <3>2
  <2>2. CASE c # b
    <3>1. ~Undoes(recorder[t], c) /\ ~Undoes(recorder'[t], c) /\ OnlyCaller(t)
      BY <1>4, <1>13, <2>2 DEF Undoes
    <3>2. Pending(c)' = Pending(c)
      BY <3>1, PendingChange
    <3> QED
      BY <1>17, <2>2, <3>2 DEF IInv, Counters
  <2> QED
    BY <2>1, <2>2
<1>19. /\ blocks_next'[b] >= Capacity /\ blocks_next'[b] <= i
       /\ \A c \in Buckets : c # b => blocks_next'[c] = blocks_next[c]
  BY <1>1, <1>16, <1>17
<1> QED
  BY <1>1, <1>2, <1>4, <1>8, <1>9, <1>10, <1>16, <1>17, <1>18, <1>19 DEF UndoEffect

LEMMA UndoStep ==
  ASSUME ProgramAssumption, IInv, NEW t \in Recorder, Undo(t)
  PROVE  IInv'
<1>r. PICK r, b, i : r = recorder[t] /\ b = Bucket(r) /\ i = blocks_next[b]
  OBVIOUS
<1>f. UndoEffect(t, r, b, i)
  BY <1>r, UndoFacts
<1>1. /\ r.pc = "undo" /\ r \in Call /\ b \in Buckets /\ r # Idle
      /\ r.event \in Slots /\ r.what \in {"event", "string"}
      /\ UNCHANGED <<initialized, tracing_p, finish, events, history>> /\ OnlyCaller(t)
  BY <1>f DEF UndoEffect
<1>2. /\ MoreTries(r) => /\ recorder'[t] # Idle /\ recorder'[t].pc = "grow"
                         /\ recorder'[t].what = "event" /\ recorder'[t].id = r.id
                         /\ recorder'[t].n = 1
      /\ ~MoreTries(r) => recorder'[t] = Idle /\ recorder'[t].pc = "idle"
  BY <1>f DEF UndoEffect
<1>3. /\ r.what = "event" => /\ blocks' = blocks /\ recorded' = recorded
                             /\ dropped' = IF MoreTries(r) THEN dropped ELSE dropped \cup {r.id}
      /\ r.what = "string" =>
           /\ recorded' = recorded \cup {r.id} /\ dropped' = dropped
           /\ blocks' = [blocks EXCEPT ![b] = [blocks[b] EXCEPT ![r.event] =
                           [blocks[b][r.event] EXCEPT !.str = "OutOfArgMemory"]]]
  BY <1>f DEF UndoEffect
<1>4. /\ blocks_next' \in [Buckets -> 0..(WordMod - 1)] /\ blocks_next'[b] >= Capacity
      /\ \A c \in Buckets : c # b => blocks_next'[c] = blocks_next[c]
      /\ recorder' \in [Recorder -> {Idle} \cup Call] /\ Counters'
  BY <1>f DEF UndoEffect
<1>5. blocks \in [Buckets -> [Slots -> Block]]
  BY DEF IInv, Types
<1>6. /\ blocks' \in [Buckets -> [Slots -> Block]]
      /\ \A c \in Buckets, j \in Slots : blocks'[c][j].id = blocks[c][j].id
  <2>1. CASE r.what = "event"
    BY <1>3, <1>5, <2>1
  <2>2. CASE r.what = "string"
    <3>1. PICK new : new = [blocks[b][r.event] EXCEPT !.str = "OutOfArgMemory"]
      OBVIOUS
    <3>2. blocks[b][r.event] \in Block
      BY <1>1, <1>5
    <3>3. new \in Block /\ new.id = blocks[b][r.event].id
      BY <3>1, <3>2 DEF Block
    <3>4. blocks' = [blocks EXCEPT ![b] = [blocks[b] EXCEPT ![r.event] = new]]
      BY <1>3, <2>2, <3>1
    <3>5. /\ blocks' \in [Buckets -> [Slots -> Block]]
          /\ \A c \in Buckets, j \in Slots :
               blocks'[c][j] = IF c = b /\ j = r.event THEN new ELSE blocks[c][j]
      BY <1>1, <1>5, <3>3, <3>4, BlockUpdate
    <3> QED
      BY <3>3, <3>5
  <2> QED
    BY <1>1, <2>1, <2>2
<1>7. Types'
  <2>1. recorded' \subseteq 1..events /\ dropped' \subseteq 1..events
    <3>1. recorded' \subseteq recorded \cup {r.id} /\ dropped' \subseteq dropped \cup {r.id}
      BY <1>1, <1>3
    <3> QED
      BY <1>1, <1>r, <3>1, CallerIds
  <2> QED
    BY <1>1, <1>4, <1>6, <2>1 DEF IInv, Types, history
<1>8. Keeps
  <2>1. ASSUME NEW j \in Slots PROVE j < blocks_next'[b]
    <3>1. blocks_next'[b] \in Nat /\ blocks_next'[b] >= Capacity
      BY <1>1, <1>4
    <3> QED
      BY <3>1, TracingAssumption DEF Slots
  <2> QED
    BY <1>4, <2>1 DEF Keeps
<1>9. \A c, j : ~Owns(recorder'[t], c, j)
  BY <1>2, IdleOwnsNothing DEF Owns
<1>10. WritesOwn(t)
  BY <1>6 DEF WritesOwn
<1>11. GoesOn(t, r, recorder'[t]) \/ Returns(t, r, recorder'[t])
  <2>1. CASE MoreTries(r)
    <3>1. r.what = "event"
      BY <2>1 DEF MoreTries
    <3>2. \A c \in Buckets, j \in Slots : blocks'[c][j].id # r.id
      BY <1>1, <1>6, <1>r, <3>1 DEF IInv, Identities
    <3> QED
      BY <1>2, <1>3, <2>1, <3>1, <3>2 DEF GoesOn
  <2>2. CASE ~MoreTries(r)
    <3>1. recorded' \subseteq recorded \cup {r.id}
      BY <1>1, <1>3
    <3> QED
      BY <1>2, <2>2, <3>1 DEF Returns
  <2> QED
    BY <2>1, <2>2
<1>12. Room(recorder'[t])
  BY <1>2 DEF Room
<1>13. recorder'[t].pc \notin {"stamp", "copy"} /\ recorder[t].pc # "idle"
  BY <1>1, <1>2, <1>r
<1> QED
  BY <1>1, <1>4, <1>7, <1>8, <1>9, <1>10, <1>11, <1>12, <1>13, <1>r, CallerStep

\* What the caller is given, it owns, and the first block is among it.
LEMMA GivenFacts ==
  ASSUME IInv, NEW t \in Recorder, recorder[t].pc \in {"stamp", "copy"}, NEW r, r = recorder[t]
  PROVE  /\ r \in Call /\ r # Idle /\ Bucket(r) \in Buckets /\ r.n \in Nat \ {0} /\ r.at \in Given(r)
         /\ r.event \in Slots /\ r.at \in Nat
         /\ \A j \in Given(r) : j \in Slots /\ Owns(r, Bucket(r), j)
         /\ r.what = "event" => r.n = 1 /\ Given(r) = {r.at}
         /\ r.what = "string" => r.n = BlocksFor(r.size) /\ HeaderSize + r.size <= r.n * BlockSize
<1>1. r \in Call /\ r # Idle /\ Bucket(r) \in Buckets
  BY ActiveFacts
<1>2. r.n \in 1..MaxBlocks /\ r.at \in Nat /\ r.event \in Slots
  BY <1>1 DEF Call
<1>3. r.n \in Nat \ {0}
  BY <1>2
<1>4. \A j \in Given(r) : Owns(r, Bucket(r), j)
  BY DEF Owns
<1>5. \A j \in Given(r) : j \in Slots
  BY <1>4 DEF IInv, Ownership
<1>6. /\ r.what = "event" => r.n = 1
      /\ r.what = "string" => r.n = BlocksFor(r.size) /\ HeaderSize + r.size <= r.n * BlockSize
  BY <1>1 DEF IInv, Rooms, Room, HasRoom
<1>7. r.at \in Given(r) /\ (r.n = 1 => Given(r) = {r.at})
  BY <1>2, <1>3 DEF Given
<1> QED
  BY <1>1, <1>2, <1>3, <1>4, <1>5, <1>6, <1>7

\* The header is part of the block that the caller owns.
LEMMA StampFacts ==
  ASSUME IInv, NEW t \in Recorder, Stamp(t), NEW r, NEW b, r = recorder[t], b = Bucket(r),
         NEW s, s = [r EXCEPT !.pc = "copy"]
  PROVE  /\ r.pc = "stamp" /\ r \in Call /\ b \in Buckets
         /\ s \in Call /\ s # Idle /\ s.pc = "copy" /\ s.id = r.id /\ s.what = r.what
         /\ s.event = r.event /\ s.at = r.at /\ s.n = r.n /\ s.size = r.size
         /\ s.start = r.start /\ s.tries = r.tries /\ Bucket(s) = b /\ Given(s) = Given(r)
         /\ blocks' \in [Buckets -> [Slots -> Block]]
         /\ \A c \in Buckets, j \in Slots : blocks'[c][j].id = blocks[c][j].id
         /\ \A c \in Buckets, j \in Slots : c # b \/ j # r.at => blocks'[c][j] = blocks[c][j]
         /\ blocks'[b][r.at].type = IF r.what = "event" THEN "EVENT_BLOCK" ELSE "STR_BLOCK"
<1>1. r.pc = "stamp"
  BY DEF Stamp
<1>2. r \in Call /\ b \in Buckets /\ r.at \in Slots
  BY <1>1, GivenFacts
<1>3. /\ s \in Call /\ s.pc = "copy" /\ s.id = r.id /\ s.what = r.what
      /\ s.event = r.event /\ s.at = r.at /\ s.n = r.n /\ s.size = r.size
      /\ s.start = r.start /\ s.tries = r.tries
  BY <1>2 DEF Call
<1>4. Bucket(s) = b /\ Given(s) = Given(r) /\ s # Idle
  <2>1. Bucket(s) = b
    <3>1. s.start = r.start /\ s.tries = r.tries
      BY <1>3
    <3>2. Bucket(s) = Bucket(r)
      BY ONLY <3>1, SameBucket
    <3> QED
      BY <3>2
  <2>2. Given(s) = Given(r)
    BY <1>3 DEF Given
  <2> QED
    BY <1>3, <2>1, <2>2, IdleIsNoCall
<1>5. PICK type, new : /\ type = (IF r.what = "event" THEN "EVENT_BLOCK" ELSE "STR_BLOCK")
                       /\ new = [blocks[b][r.at] EXCEPT !.type = type]
  BY Zenon
<1>6. blocks' = [blocks EXCEPT ![b] = [blocks[b] EXCEPT ![r.at] = new]]
  BY <1>5 DEF Stamp
<1>7. blocks \in [Buckets -> [Slots -> Block]]
  BY DEF IInv, Types
<1>8. blocks[b][r.at] \in Block /\ type \in {"EVENT_BLOCK", "STR_BLOCK"}
  BY <1>2, <1>5, <1>7
<1>9. new \in Block /\ new.type = type /\ new.id = blocks[b][r.at].id
  BY <1>5, <1>8 DEF Block
<1>10. /\ blocks' \in [Buckets -> [Slots -> Block]]
       /\ \A c \in Buckets, j \in Slots : blocks'[c][j] = IF c = b /\ j = r.at THEN new ELSE blocks[c][j]
  BY <1>2, <1>6, <1>7, <1>9, BlockUpdate
<1>11. \A c \in Buckets, j \in Slots : c # b \/ j # r.at => blocks'[c][j] = blocks[c][j]
  BY <1>10
<1>12. blocks'[b][r.at] = new
  BY <1>2, <1>10
<1>13. \A c \in Buckets, j \in Slots : blocks'[c][j].id = blocks[c][j].id
  BY <1>9, <1>11, <1>12
<1>14. blocks'[b][r.at].type = IF r.what = "event" THEN "EVENT_BLOCK" ELSE "STR_BLOCK"
  BY <1>5, <1>9, <1>12
<1> QED
  BY <1>1, <1>2, <1>3, <1>4, <1>10, <1>11, <1>13, <1>14

LEMMA StampStep ==
  ASSUME ProgramAssumption, IInv, NEW t \in Recorder, Stamp(t)
  PROVE  IInv'
<1>r. PICK r, b, s : r = recorder[t] /\ b = Bucket(r) /\ s = [r EXCEPT !.pc = "copy"]
  BY Zenon
<1>1. r.pc = "stamp" /\ r \in Call /\ b \in Buckets
  BY <1>r, StampFacts
<1>2. /\ UNCHANGED <<initialized, tracing_p, finish, events, blocks_next, recorded, dropped, history>>
      /\ recorder' = [recorder EXCEPT ![t] = s]
  BY <1>r DEF Stamp, ghosts
<1>3. /\ s \in Call /\ s # Idle /\ s.pc = "copy" /\ s.id = r.id /\ s.what = r.what
      /\ s.event = r.event /\ s.at = r.at /\ s.n = r.n /\ s.size = r.size
      /\ Bucket(s) = b /\ Given(s) = Given(r)
  BY <1>r, StampFacts
<1>4. /\ blocks' \in [Buckets -> [Slots -> Block]]
      /\ \A c \in Buckets, j \in Slots : blocks'[c][j].id = blocks[c][j].id
  BY <1>r, StampFacts
<1>5. \A j \in Given(r) : j \in Slots
  BY <1>1, <1>r, GivenFacts
<1>7. Types' /\ OnlyCaller(t) /\ recorder'[t] = s
  <2>1. /\ blocks_next' \in [Buckets -> 0..(WordMod - 1)]
        /\ recorded' \subseteq 1..events /\ dropped' \subseteq 1..events
    BY <1>2 DEF IInv, Types
  <2> QED
    BY <1>2, <1>3, <1>4, <2>1, CallerTypes
<1>8. Counters' /\ Keeps
  BY <1>1, <1>2, <1>3, <1>7, <1>r, CountersKept
<1>9. \A c, j : Owns(s, c, j) => Owns(r, c, j)
  BY <1>1, <1>3, <1>r DEF Owns
<1>10. WritesOwn(t)
  BY <1>4 DEF WritesOwn
<1>11. SamePlace(r, s)
  BY <1>1, <1>3, <1>4, <1>5, <1>r DEF SamePlace
<1>12. GoesOn(t, r, s)
  <2>1. \A c \in Buckets, j \in Slots : blocks[c][j].id = r.id
          => r.what = "string" /\ c = b /\ j = r.event
    BY <1>1, <1>r, ActiveFacts DEF IInv, Identities
  <2> QED
    BY <1>2, <1>3, <1>4, <2>1 DEF GoesOn
<1>13. Room(recorder'[t])
  <2>1. Room(r) /\ r # Idle
    BY <1>1, <1>r, IdleIsNoCall DEF IInv, Rooms
  <2>2. HasRoom(s, s.at)
    BY <1>1, <1>3, <2>1 DEF Room, HasRoom
  <2> QED
    BY <1>3, <1>7, <2>1, <2>2 DEF Room
<1>14. recorder[t].pc # "idle"
  BY <1>1, <1>r
<1> QED
  BY <1>2, <1>7, <1>8, <1>9, <1>10, <1>11, <1>12, <1>13, <1>14, <1>r, CallerStep

\* A string asks for as many blocks as its bytes begin, without the header.
LEMMA BlocksForFacts ==
  ASSUME NEW size \in Nat
  PROVE  /\ BlocksFor(size) \in Nat \ {0}
         /\ (BlocksFor(size) - 1) * BlockSize <= size
<1>1. BlockSize \in Nat \ {0}
  BY TracingAssumption
<1>2. ASSUME NEW x \in Nat, NEW m \in Nat \ {0} PROVE x \div m \in Nat /\ (x \div m) * m <= x
  BY <1>2, SMT
<1>3. PICK k : k = size \div BlockSize
  OBVIOUS
<1>4. k \in Nat /\ k * BlockSize <= size
  BY <1>1, <1>2, <1>3
<1>5. BlocksFor(size) = 1 + k
  BY <1>3 DEF BlocksFor
<1>6. BlocksFor(size) - 1 = k
  BY <1>4, <1>5
<1> QED
  BY <1>4, <1>5, <1>6

StringCall(r, e) == [r EXCEPT !.pc = "grow", !.what = "string", !.event = e, !.at = 0,
                              !.n = BlocksFor(r.size)]
LEMMA StringCallIsCall ==
  ASSUME ProgramAssumption, NEW r \in Call, NEW e \in Slots
  PROVE  /\ StringCall(r, e) \in Call /\ StringCall(r, e).pc = "grow"
         /\ StringCall(r, e).what = "string" /\ StringCall(r, e).event = e
         /\ StringCall(r, e).id = r.id /\ Bucket(StringCall(r, e)) = Bucket(r)
         /\ StringCall(r, e).size = r.size /\ StringCall(r, e).n = BlocksFor(r.size)
         /\ StringCall(r, e).start = r.start /\ StringCall(r, e).tries = r.tries
<1>1. PICK n : n = BlocksFor(r.size)
  OBVIOUS
<1>2. n \in 1..MaxBlocks
  <2>1. r.size \in StringSizes /\ r.size \in Nat
    BY TracingAssumption DEF Call
  <2>2. n \in Nat \ {0} /\ n <= MaxBlocks /\ MaxBlocks \in Nat
    BY <1>1, <2>1, BlocksForFacts DEF ProgramAssumption
  <2> QED
    BY <2>2
<1>3. PICK s : s = [r EXCEPT !.pc = "grow", !.what = "string", !.event = e, !.at = 0, !.n = n]
  BY Zenon
<1>4. StringCall(r, e) = s
  BY <1>1, <1>3 DEF StringCall
<1>5. /\ s \in Call /\ s.pc = "grow" /\ s.what = "string" /\ s.event = e /\ s.id = r.id
      /\ s.size = r.size /\ s.n = n /\ s.start = r.start /\ s.tries = r.tries
  BY <1>2, <1>3 DEF Call
<1>6. Bucket(s) = Bucket(r)
  BY <1>5, SameBucket
<1> QED
  BY <1>1, <1>4, <1>5, <1>6

\* An event with a string goes on for the blocks of the string, and keeps its own.
CopyEventEffect(t, r, b) ==
  /\ r.pc = "copy" /\ r.what = "event" /\ r \in Call /\ b \in Buckets /\ r.at \in Slots
  /\ \A c, j : Owns(r, c, j) <=> c = b /\ j = r.at
  /\ UNCHANGED <<initialized, tracing_p, finish, events, blocks_next, dropped, history>>
  /\ OnlyCaller(t) /\ recorder' \in [Recorder -> {Idle} \cup Call]
  /\ r.size = 0 => /\ recorder'[t] = Idle /\ recorder'[t].pc = "idle"
                   /\ recorded' = recorded \cup {r.id}
  /\ r.size # 0 => /\ recorder'[t] # Idle /\ recorder'[t].pc = "grow" /\ recorder'[t].what = "string"
                   /\ recorder'[t].event = r.at /\ recorder'[t].id = r.id
                   /\ recorder'[t].n = BlocksFor(recorder'[t].size) /\ Bucket(recorder'[t]) = b
                   /\ recorded' = recorded
  /\ blocks' \in [Buckets -> [Slots -> Block]]
  /\ \A c \in Buckets, j \in Slots : c # b \/ j # r.at => blocks'[c][j] = blocks[c][j]
  /\ blocks'[b][r.at].id = r.id /\ blocks'[b][r.at].type = blocks[b][r.at].type
  /\ r.size = 0 => blocks'[b][r.at].str = "none"

LEMMA CopyEventFacts ==
  ASSUME ProgramAssumption, IInv, NEW t \in Recorder, CopyEvent(t),
         NEW r, NEW b, r = recorder[t], b = Bucket(r)
  PROVE  CopyEventEffect(t, r, b)
<1>1. r.pc = "copy" /\ r.what = "event"
  BY DEF CopyEvent
<1>2. r \in Call /\ b \in Buckets /\ r.at \in Slots /\ Given(r) = {r.at}
  BY <1>1, GivenFacts
<1>3. \A c, j : Owns(r, c, j) <=> c = b /\ j = r.at
  BY <1>1, <1>2 DEF Owns
<1>4. r.id \in Nat
  BY <1>1, CallerIds
<1>5. PICK s : s = IF r.size = 0 THEN Idle ELSE StringCall(r, r.at)
  OBVIOUS
<1>6. /\ UNCHANGED <<initialized, tracing_p, finish, events, blocks_next, dropped, history>>
      /\ recorder' = [recorder EXCEPT ![t] = s]
      /\ recorded' = IF r.size = 0 THEN recorded \cup {r.id} ELSE recorded
  <2>1. CASE r.size = 0
    BY <1>5, <2>1 DEF CopyEvent
  <2>2. CASE r.size # 0
    <3>1. recorder' = [recorder EXCEPT ![t] = StringCall(recorder[t], recorder[t].at)]
      BY <2>2, Zenon DEF CopyEvent, StringCall
    <3> QED
      BY <1>5, <2>2, <3>1 DEF CopyEvent
  <2> QED
    BY <2>1, <2>2
<1>7. /\ s \in {Idle} \cup Call
      /\ r.size = 0 => s = Idle /\ s.pc = "idle"
      /\ r.size # 0 => /\ s # Idle /\ s.pc = "grow" /\ s.what = "string" /\ s.event = r.at
                       /\ s.id = r.id /\ s.n = BlocksFor(s.size) /\ Bucket(s) = b
  <2>1. CASE r.size = 0
    BY <1>5, <2>1, IdleIsNoCall
  <2>2. CASE r.size # 0
    BY <1>2, <1>5, <2>2, StringCallIsCall, IdleIsNoCall
  <2> QED
    BY <2>1, <2>2
<1>8. OnlyCaller(t) /\ recorder' \in [Recorder -> {Idle} \cup Call] /\ recorder'[t] = s
  BY <1>6, <1>7 DEF IInv, Types, OnlyCaller
<1>9. PICK str, first, g, second :
        /\ str = (IF r.size = 0 THEN "none" ELSE "callers")
        /\ first = [blocks[b][r.at] EXCEPT !.id = r.id]
        /\ g = [blocks EXCEPT ![b] = [blocks[b] EXCEPT ![r.at] = first]]
        /\ second = [g[b][r.at] EXCEPT !.str = str]
  BY Zenon
<1>10. blocks' = [g EXCEPT ![b] = [g[b] EXCEPT ![r.at] = second]]
  BY <1>9 DEF CopyEvent
<1>11. blocks \in [Buckets -> [Slots -> Block]]
  BY DEF IInv, Types
<1>12. blocks[b][r.at] \in Block
  BY <1>2, <1>11
<1>13. first \in Block /\ first.id = r.id /\ first.type = blocks[b][r.at].type
  BY <1>4, <1>9, <1>12 DEF Block
<1>14. /\ g \in [Buckets -> [Slots -> Block]]
       /\ \A c \in Buckets, j \in Slots : g[c][j] = IF c = b /\ j = r.at THEN first ELSE blocks[c][j]
  <2>1. g = [blocks EXCEPT ![b] = [blocks[b] EXCEPT ![r.at] = first]]
    BY <1>9
  <2> QED
    BY <1>2, <1>11, <1>13, <2>1, BlockUpdate
<1>15. g[b][r.at] = first /\ str \in {"none", "callers"}
  BY <1>2, <1>9, <1>14
<1>16. second = [first EXCEPT !.str = str]
  BY <1>9, <1>15
<1>17. second \in Block /\ second.id = r.id /\ second.type = blocks[b][r.at].type /\ second.str = str
  BY <1>13, <1>15, <1>16 DEF Block
<1>18. /\ blocks' \in [Buckets -> [Slots -> Block]]
       /\ \A c \in Buckets, j \in Slots : blocks'[c][j] = IF c = b /\ j = r.at THEN second ELSE g[c][j]
  BY <1>2, <1>10, <1>14, <1>17, BlockUpdate
<1>19. \A c \in Buckets, j \in Slots : c # b \/ j # r.at => blocks'[c][j] = blocks[c][j]
  BY <1>14, <1>18
<1>20. blocks'[b][r.at] = second /\ (r.size = 0 => str = "none")
  BY <1>2, <1>9, <1>18
<1> QED
  BY <1>1, <1>2, <1>3, <1>6, <1>7, <1>8, <1>17, <1>18, <1>19, <1>20 DEF CopyEventEffect

LEMMA CopyEventStep ==
  ASSUME ProgramAssumption, IInv, NEW t \in Recorder, CopyEvent(t)
  PROVE  IInv'
<1>r. PICK r, b : r = recorder[t] /\ b = Bucket(r)
  OBVIOUS
<1>f. CopyEventEffect(t, r, b)
  BY <1>r, CopyEventFacts
<1>1. /\ r.pc = "copy" /\ r.what = "event" /\ r \in Call /\ b \in Buckets /\ r.at \in Slots
      /\ \A c, j : Owns(r, c, j) <=> c = b /\ j = r.at
  BY <1>f DEF CopyEventEffect
<1>2. /\ UNCHANGED <<initialized, tracing_p, finish, events, blocks_next, dropped, history>>
      /\ OnlyCaller(t) /\ recorder' \in [Recorder -> {Idle} \cup Call]
  BY <1>f DEF CopyEventEffect
<1>3. /\ r.size = 0 => /\ recorder'[t] = Idle /\ recorder'[t].pc = "idle"
                       /\ recorded' = recorded \cup {r.id}
      /\ r.size # 0 => /\ recorder'[t] # Idle /\ recorder'[t].pc = "grow" /\ recorder'[t].what = "string"
                       /\ recorder'[t].event = r.at /\ recorder'[t].id = r.id
                       /\ recorder'[t].n = BlocksFor(recorder'[t].size) /\ Bucket(recorder'[t]) = b
                       /\ recorded' = recorded
  BY <1>f DEF CopyEventEffect
<1>4. /\ blocks' \in [Buckets -> [Slots -> Block]] /\ blocks'[b][r.at].id = r.id
      /\ \A c \in Buckets, j \in Slots : c # b \/ j # r.at => blocks'[c][j] = blocks[c][j]
  BY <1>f DEF CopyEventEffect
<1>5. Types'
  <2>1. recorded' \subseteq 1..events /\ dropped' \subseteq 1..events
    <3>1. recorded' \subseteq recorded \cup {r.id}
      BY <1>3
    <3>2. dropped' \subseteq 1..events
      BY <1>2 DEF IInv, Types
    <3> QED
      BY <1>1, <1>r, <3>1, <3>2, CallerIds
  <2> QED
    BY <1>2, <1>4, <2>1 DEF IInv, Types, history
<1>6. recorder'[t].pc \notin {"stamp", "copy", "undo"} /\ recorder[t].pc # "idle" /\ recorder[t].pc # "undo"
  BY <1>1, <1>3, <1>r
<1>7. Counters' /\ Keeps
  BY <1>2, <1>6, CountersKept
<1>8. \A c, j : Owns(recorder'[t], c, j) => Owns(r, c, j)
  <2>1. CASE r.size = 0
    BY <1>3, <2>1, IdleOwnsNothing
  <2>2. CASE r.size # 0
    BY <1>1, <1>3, <2>2 DEF Owns
  <2> QED
    BY <2>1, <2>2
<1>9. WritesOwn(t)
  BY <1>1, <1>4, <1>r DEF WritesOwn
<1>10. GoesOn(t, r, recorder'[t]) \/ Returns(t, r, recorder'[t])
  <2>1. CASE r.size = 0
    BY <1>3, <2>1 DEF Returns
  <2>2. CASE r.size # 0
    <3>1. \A c \in Buckets, j \in Slots : blocks[c][j].id # r.id
      BY <1>1, <1>r, IdleIsNoCall DEF IInv, Identities
    <3>2. \A c \in Buckets, j \in Slots : blocks'[c][j].id = r.id => c = b /\ j = r.at
      BY <1>4, <3>1
    <3> QED
      BY <1>3, <2>2, <3>2 DEF GoesOn
  <2> QED
    BY <2>1, <2>2
<1>11. Room(recorder'[t])
  BY <1>3, <1>6 DEF Room
<1> QED
  BY <1>2, <1>5, <1>6, <1>7, <1>8, <1>9, <1>10, <1>11, <1>r, CallerStep

\* A string that has the room it needs fills the blocks it was given, the last one included,
\* and no header of a block behind these.
LEMMA StringRoom ==
  ASSUME NEW size \in Nat, NEW n \in Nat \ {0}, n = BlocksFor(size),
         HeaderSize + size <= n * BlockSize
  PROVE  /\ (HeaderSize + size - 1) \div BlockSize = n - 1
         /\ \A k \in 0..(n - 1) : HeaderSize + size # k * BlockSize + 1
<1>1. BlockSize \in Nat \ {0} /\ HeaderSize \in Nat /\ HeaderSize > 1
  BY TracingAssumption
<1>2. (n - 1) * BlockSize <= size
  BY BlocksForFacts
<1>3. ASSUME NEW x \in Nat, NEW m \in Nat \ {0}, NEW k \in Nat, NEW l, l = k * m, l <= x, x < l + m
      PROVE  x \div m = k
  BY <1>3, SMT
<1>4. PICK l : l = (n - 1) * BlockSize
  OBVIOUS
<1>5. l \in Nat /\ n * BlockSize = l + BlockSize
  <2>1. ASSUME NEW m \in Nat, NEW k \in Nat PROVE k * m \in Nat /\ (k + 1) * m = k * m + m
    BY <2>1, SMT
  <2>2. PICK k \in Nat : k = n - 1 /\ n = k + 1
    OBVIOUS
  <2> QED
    BY <1>1, <1>4, <2>1, <2>2
<1>6. (HeaderSize + size - 1) \div BlockSize = n - 1
  <2>1. HeaderSize + size - 1 \in Nat /\ l <= HeaderSize + size - 1 /\ HeaderSize + size - 1 < l + BlockSize
    BY <1>1, <1>2, <1>4, <1>5
  <2>2. n - 1 \in Nat
    OBVIOUS
  <2> QED
    BY <1>1, <1>3, <1>4, <2>1, <2>2
<1>7. ASSUME NEW k \in 0..(n - 1) PROVE HeaderSize + size # k * BlockSize + 1
  <2>1. ASSUME NEW m \in Nat, NEW j \in Nat, NEW i \in Nat, i <= j PROVE i * m <= j * m /\ i * m \in Nat
    BY <2>1, SMT
  <2>2. n - 1 \in Nat /\ k \in Nat /\ k <= n - 1
    OBVIOUS
  <2>3. k * BlockSize <= l /\ k * BlockSize \in Nat
    BY <1>1, <1>4, <2>1, <2>2
  <2> QED
    BY <1>1, <1>2, <1>4, <1>5, <2>3
<1> QED
  BY <1>6, <1>7

\* The string is written to the blocks given out for it, and the event points to the first.
CopyStringEffect(t, r, b) ==
  /\ r.pc = "copy" /\ r.what = "string" /\ r \in Call /\ b \in Buckets
  /\ r.event \in Slots /\ r.event \notin Given(r) /\ r.at \in Given(r) /\ Given(r) \subseteq Slots
  /\ \A c, j : Owns(r, c, j) <=> c = b /\ (j \in Given(r) \/ j = r.event)
  /\ UNCHANGED <<initialized, tracing_p, finish, events, blocks_next, dropped, history>>
  /\ OnlyCaller(t) /\ recorder' \in [Recorder -> {Idle} \cup Call]
  /\ recorder'[t] = Idle /\ recorder'[t].pc = "idle" /\ recorded' = recorded \cup {r.id}
  /\ blocks' \in [Buckets -> [Slots -> Block]]
  /\ \A c \in Buckets, j \in Slots :
       c # b \/ (j \notin Given(r) /\ j # r.event) => blocks'[c][j] = blocks[c][j]
  /\ \A j \in Given(r) : /\ blocks'[b][j].id = r.id
                         /\ blocks'[b][j].type = IF j = r.at THEN blocks[b][j].type ELSE "text"
  /\ blocks'[b][r.event].id = blocks[b][r.event].id
  /\ blocks'[b][r.event].type = blocks[b][r.event].type
  /\ blocks'[b][r.event].str = "copy" /\ blocks'[b][r.event].strAt = r.at

\* what CopyString() makes of a block where the string has the room it needs
BlockAfter(r, j, old) ==
  IF j \in Given(r)
  THEN [old EXCEPT !.type = IF j = r.at THEN old.type ELSE "text", !.id = r.id]
  ELSE IF j = r.event THEN [old EXCEPT !.str = "copy", !.strAt = r.at] ELSE old
StringCopied(f, r, b) == [f EXCEPT ![b] = [j \in DOMAIN f[b] |-> CopiedTo(r, j, f[b][j])]]

LEMMA CopyStringFacts ==
  ASSUME IInv, NEW t \in Recorder, CopyString(t), NEW r, NEW b, r = recorder[t], b = Bucket(r)
  PROVE  CopyStringEffect(t, r, b)
<1>1. r.pc = "copy" /\ r.what = "string"
  BY Zenon DEF CopyString
<1>2. /\ r \in Call /\ b \in Buckets /\ r.event \in Slots /\ r.at \in Given(r) /\ Given(r) \subseteq Slots
      /\ r.at \in Nat /\ r.n \in Nat \ {0}
      /\ r.n = BlocksFor(r.size) /\ HeaderSize + r.size <= r.n * BlockSize
  BY <1>1, GivenFacts
<1>3. r.event \notin Given(r)
  BY <1>1 DEF IInv, Ownership
<1>4. \A c, j : Owns(r, c, j) <=> c = b /\ (j \in Given(r) \/ j = r.event)
  BY <1>1 DEF Owns
<1>5. r.id \in Nat /\ r.size \in Nat /\ r.at \in Nat
  <2>1. r.id \in Nat
    BY <1>1, CallerIds
  <2>2. r.size \in StringSizes
    BY <1>2 DEF Call
  <2> QED
    BY <1>2, <2>1, <2>2, TracingAssumption
<1>6. /\ UNCHANGED <<initialized, tracing_p, finish, events, blocks_next, dropped, history>>
      /\ OnlyCaller(t) /\ recorder' \in [Recorder -> {Idle} \cup Call]
      /\ recorder'[t] = Idle /\ recorder'[t].pc = "idle" /\ recorded' = recorded \cup {r.id}
  <2>1. /\ UNCHANGED <<initialized, tracing_p, finish, events, blocks_next, dropped, history>>
        /\ recorder' = [recorder EXCEPT ![t] = Idle] /\ recorded' = recorded \cup {r.id}
    BY Zenon DEF CopyString
  <2> QED
    BY <2>1, IdleIsNoCall DEF IInv, Types, OnlyCaller
<1>7. /\ (HeaderSize + r.size - 1) \div BlockSize = r.n - 1
      /\ \A k \in 0..(r.n - 1) : HeaderSize + r.size # k * BlockSize + 1
  BY <1>2, <1>5, StringRoom
<1>8. Touched(r) = Given(r)
  <2>1. Touched(r) = r.at..(r.at + (r.n - 1))
    BY <1>7 DEF Touched
  <2>2. r.at + (r.n - 1) = r.at + r.n - 1
    BY <1>2
  <2> QED
    BY <2>1, <2>2 DEF Given
<1>9. ASSUME NEW j \in Given(r), NEW type
      PROVE  TypeAfter(r, j, type) = (IF j = r.at THEN type ELSE "text") /\ j < r.at + r.n
  <2>1. j - r.at \in 0..(r.n - 1) /\ j < r.at + r.n
    BY <1>2 DEF Given
  <2>2. HeaderSize + r.size # (j - r.at) * BlockSize + 1
    BY <1>7, <2>1
  <2> QED
    BY <2>1, <2>2 DEF TypeAfter
<1>10. blocks' = StringCopied(blocks, r, b)
  <2>1. blocks' = StringCopied(blocks, recorder[t], Bucket(recorder[t]))
    BY DEF CopyString, StringCopied
  <2> QED
    BY <2>1, Zenon
<1>11. blocks \in [Buckets -> [Slots -> Block]]
  BY DEF IInv, Types
<1>12. PICK new : new = [j \in Slots |-> BlockAfter(r, j, blocks[b][j])]
  OBVIOUS
<1>13. blocks' = [blocks EXCEPT ![b] = new]
  <2>1. DOMAIN blocks[b] = Slots
    BY <1>2, <1>11
  <2>2. blocks' = [blocks EXCEPT ![b] = [j \in Slots |-> CopiedTo(r, j, blocks[b][j])]]
    BY <1>10, <2>1 DEF StringCopied
  <2>3. ASSUME NEW j \in Slots, NEW old PROVE CopiedTo(r, j, old) = BlockAfter(r, j, old)
    <3>1. CASE j \in Given(r)
      <4>1. TypeAfter(r, j, old.type) = (IF j = r.at THEN old.type ELSE "text") /\ j < r.at + r.n
        BY <1>9, <3>1
      <4> QED
        BY <1>8, <3>1, <4>1, Zenon DEF CopiedTo, BlockAfter
    <3>2. CASE j \notin Given(r)
      BY <1>8, <3>2, Zenon DEF CopiedTo, BlockAfter
    <3> QED
      BY <3>1, <3>2
  <2>4. [j \in Slots |-> CopiedTo(r, j, blocks[b][j])] = new
    BY <1>12, <2>3
  <2> QED
    BY <2>2, <2>4
<1>14. ASSUME NEW j \in Slots
       PROVE  /\ new[j] \in Block
              /\ j \in Given(r) => /\ new[j].id = r.id
                                   /\ new[j].type = IF j = r.at THEN blocks[b][j].type ELSE "text"
              /\ j = r.event => /\ new[j].id = blocks[b][j].id /\ new[j].type = blocks[b][j].type
                                /\ new[j].str = "copy" /\ new[j].strAt = r.at
              /\ j \notin Given(r) /\ j # r.event => new[j] = blocks[b][j]
  <2>0. new[j] = BlockAfter(r, j, blocks[b][j])
    BY <1>12
  <2>1. blocks[b][j] \in Block
    BY <1>2, <1>11
  <2>2. PICK old, type : old = blocks[b][j] /\ type = IF j = r.at THEN old.type ELSE "text"
    BY Zenon
  <2>3. old \in Block /\ type \in {"EVENT_BLOCK", "STR_BLOCK", "text"}
    BY <2>1, <2>2 DEF Block
  <2>4. CASE j \in Given(r)
    <3>1. new[j] = [old EXCEPT !.type = type, !.id = r.id]
      BY <2>0, <2>2, <2>4, Zenon DEF BlockAfter
    <3>2. new[j] \in Block /\ new[j].id = r.id /\ new[j].type = type
      BY <1>5, <2>3, <3>1 DEF Block
    <3> QED
      BY <1>3, <2>2, <2>4, <3>2
  <2>5. CASE j \notin Given(r) /\ j = r.event
    <3>1. new[j] = [old EXCEPT !.str = "copy", !.strAt = r.at]
      BY <2>0, <2>2, <2>5, Zenon DEF BlockAfter
    <3>2. /\ new[j] \in Block /\ new[j].id = old.id /\ new[j].type = old.type
          /\ new[j].str = "copy" /\ new[j].strAt = r.at
      BY <1>5, <2>3, <3>1 DEF Block
    <3> QED
      BY <2>2, <2>5, <3>2
  <2>6. CASE j \notin Given(r) /\ j # r.event
    <3>1. new[j] = blocks[b][j]
      BY <2>0, <2>6, Zenon DEF BlockAfter
    <3> QED
      BY <2>1, <2>6, <3>1
  <2> QED
    BY <2>4, <2>5, <2>6
<1>15. new \in [Slots -> Block]
  BY <1>12, <1>14
<1>16. /\ blocks' \in [Buckets -> [Slots -> Block]] /\ blocks'[b] = new
       /\ \A c \in Buckets : c # b => blocks'[c] = blocks[c]
  BY <1>2, <1>11, <1>13, <1>15
<1>17. \A c \in Buckets, j \in Slots :
         c # b \/ (j \notin Given(r) /\ j # r.event) => blocks'[c][j] = blocks[c][j]
  BY <1>14, <1>16
<1>18. \A j \in Given(r) : /\ blocks'[b][j].id = r.id
                           /\ blocks'[b][j].type = IF j = r.at THEN blocks[b][j].type ELSE "text"
  BY <1>2, <1>14, <1>16
<1>19. /\ blocks'[b][r.event].id = blocks[b][r.event].id
       /\ blocks'[b][r.event].type = blocks[b][r.event].type
       /\ blocks'[b][r.event].str = "copy" /\ blocks'[b][r.event].strAt = r.at
  BY <1>2, <1>14, <1>16
<1> QED
  BY <1>1, <1>2, <1>3, <1>4, <1>6, <1>16, <1>17, <1>18, <1>19 DEF CopyStringEffect

LEMMA CopyStringStep ==
  ASSUME ProgramAssumption, IInv, NEW t \in Recorder, CopyString(t)
  PROVE  IInv'
<1>r. PICK r, b : r = recorder[t] /\ b = Bucket(r)
  OBVIOUS
<1>f. CopyStringEffect(t, r, b)
  BY <1>r, CopyStringFacts
<1>1. /\ r.pc = "copy" /\ r.what = "string" /\ b \in Buckets
      /\ \A c, j : Owns(r, c, j) <=> c = b /\ (j \in Given(r) \/ j = r.event)
  BY <1>f DEF CopyStringEffect
<1>2. /\ UNCHANGED <<initialized, tracing_p, finish, events, blocks_next, dropped, history>>
      /\ OnlyCaller(t) /\ recorder' \in [Recorder -> {Idle} \cup Call]
      /\ recorder'[t] = Idle /\ recorder'[t].pc = "idle" /\ recorded' = recorded \cup {r.id}
  BY <1>f DEF CopyStringEffect
<1>3. /\ blocks' \in [Buckets -> [Slots -> Block]]
      /\ \A c \in Buckets, j \in Slots :
           c # b \/ (j \notin Given(r) /\ j # r.event) => blocks'[c][j] = blocks[c][j]
      /\ \A j \in Given(r) : blocks'[b][j].id = r.id
      /\ blocks'[b][r.event].id = blocks[b][r.event].id
  BY <1>f DEF CopyStringEffect
<1>4. Types'
  <2>1. recorded' \subseteq 1..events /\ dropped' \subseteq 1..events
    <3>1. dropped' \subseteq 1..events
      BY <1>2 DEF IInv, Types
    <3> QED
      BY <1>1, <1>2, <1>r, <3>1, CallerIds
  <2> QED
    BY <1>2, <1>3, <2>1 DEF IInv, Types, history
<1>5. recorder'[t].pc \notin {"stamp", "copy", "undo"} /\ recorder[t].pc # "idle" /\ recorder[t].pc # "undo"
  BY <1>1, <1>2, <1>r
<1>6. Counters' /\ Keeps
  BY <1>2, <1>5, CountersKept
<1>7. WritesOwn(t)
  BY <1>1, <1>3, <1>r DEF WritesOwn
<1>8. Returns(t, r, Idle)
  BY <1>2 DEF Returns
<1>9. Room(recorder'[t])
  BY <1>2 DEF Room
<1> QED
  BY <1>2, <1>4, <1>5, <1>6, <1>7, <1>8, <1>9, <1>r, IdleOwnsNothing, CallerStep

-----------------------------------------------------------------------------
(* The steps of the controlling thread *)

\* a step that leaves recorders, blocks and events alone
LEMMA ControlStep ==
  ASSUME IInv, UNCHANGED <<recorder, blocks_next, blocks, events, recorded>>,
         Types', Phases', ~Resetting
  PROVE  IInv'
<1>1. \A b : Pending(b)' = Pending(b)
  BY DEF Pending, PendingOf, Undoes
<1>2. Counters'
  BY <1>1 DEF IInv, Counters
<1>3. Ownership' /\ Rooms'
  BY DEF IInv, Ownership, Rooms
<1>4. Identities'
  BY DEF IInv, Identities
<1>5. Fresh'
  BY DEF IInv, Fresh
<1> QED
  BY <1>2, <1>3, <1>4, <1>5 DEF IInv

\* a step that changes the counters while nobody records
LEMMA QuietStep ==
  ASSUME IInv, Quiet, UNCHANGED <<recorder, events>>, Types', Phases',
         \A b \in Buckets : blocks_next'[b] <= Capacity,
         \A b \in Buckets, i \in Slots :
           /\ blocks'[b][i].id <= events
           /\ i >= blocks_next'[b] /\ ~Resetting' => blocks'[b][i].id \notin recorded'
  PROVE  IInv'
<1>1. \A b : Pending(b)' = {}
  BY QuietFacts DEF Pending, PendingOf, Undoes
<1>2. \A t \in Recorder : recorder'[t] = Idle /\ recorder'[t].pc = "idle"
  BY QuietFacts
<1>3. Counters'
  BY <1>1 DEF Counters
<1>4. Ownership' /\ Rooms'
  BY <1>2, IdleOwnsNothing DEF Ownership, Rooms, Room
<1>5. Identities'
  BY <1>2 DEF Identities
<1>6. Fresh'
  BY <1>2 DEF Fresh
<1> QED
  BY <1>3, <1>4, <1>5, <1>6 DEF IInv

\* Without an addition to undo, no counter exceeds the capacity.
LEMMA QuietCounters ==
  ASSUME IInv, Quiet
  PROVE  \A b \in Buckets : blocks_next[b] \in 0..(WordMod - 1) /\ blocks_next[b] <= Capacity
<1>1. \A b \in Buckets : blocks_next[b] <= Capacity \/ blocks_next[b] = Capacity + Cardinality({})
  BY QuietFacts DEF IInv, Counters
<1>2. Cardinality({}) = 0
  BY FS_EmptySet
<1> QED
  BY <1>1, <1>2, TracingAssumption DEF IInv, Types

LEMMA FinishFacts ==
  ASSUME IInv, finish.pc \in {"load", "store", "collect", "reset"}
  PROVE  /\ finish \in Report /\ finish # Idle /\ initialized /\ ~tracing_p
         /\ finish.bucket \in Buckets
<1>1. finish # Idle
  BY DEF Idle
<1>2. finish \in Report
  BY <1>1 DEF IInv, Types
<1> QED
  BY <1>1, <1>2 DEF IInv, Phases, Report

LEMMA EmptyBucketsFacts ==
  /\ EmptyBuckets \in [Buckets -> [Slots -> Block]]
  /\ \A b \in Buckets, i \in Slots : EmptyBuckets[b][i].id = 0
<1>1. EmptyBlock \in Block /\ EmptyBlock.id = 0
  BY DEF EmptyBlock, Block
<1> QED
  BY <1>1 DEF EmptyBuckets, Slots

LEMMA InitStep ==
  ASSUME IInv, init PROVE IInv'
<1>1. /\ Quiet /\ finish = Idle /\ initialized' = TRUE
      /\ UNCHANGED <<tracing_p, recorder, finish, events, recorded, dropped, overran, overtaken>>
      /\ blocks_next' = [b \in Buckets |-> 0] /\ blocks' = EmptyBuckets
  BY DEF init, ghosts, history, IInv, Phases
<1>2. Types'
  BY <1>1, EmptyBucketsFacts, TracingAssumption DEF IInv, Types
<1>3. Phases'
  BY <1>1, IdleIsNoCall DEF Phases, Resetting
<1>4. \A b \in Buckets, i \in Slots : blocks'[b][i].id = 0
  BY <1>1, EmptyBucketsFacts
<1>5. events \in Nat /\ 0 \notin recorded
  BY DEF IInv, Types
<1>6. \A b \in Buckets : blocks_next'[b] <= Capacity
  BY <1>1, TracingAssumption
<1> QED
  BY <1>1, <1>2, <1>3, <1>4, <1>5, <1>6, QuietStep

LEMMA DestroyStep ==
  ASSUME IInv, destroy PROVE IInv'
<1>1. /\ Quiet /\ finish = Idle /\ initialized' = FALSE /\ tracing_p' = FALSE
      /\ UNCHANGED <<recorder, finish, events, overran, overtaken>>
      /\ blocks_next' = [b \in Buckets |-> 0] /\ blocks' = EmptyBuckets
      /\ recorded' = {} /\ dropped' = {}
  BY DEF destroy, history
<1>2. Types'
  <2>1. blocks_next' \in [Buckets -> 0..(WordMod - 1)]
    BY <1>1, TracingAssumption
  <2>2. blocks' \in [Buckets -> [Slots -> Block]]
    BY <1>1, EmptyBucketsFacts
  <2> QED
    BY <1>1, <2>1, <2>2 DEF IInv, Types
<1>3. Phases'
  BY <1>1, IdleIsNoCall DEF Phases, Resetting, Quiet
<1>4. \A b \in Buckets, i \in Slots : blocks'[b][i].id = 0
  BY <1>1, EmptyBucketsFacts
<1>5. events \in Nat
  BY DEF IInv, Types
<1>6. \A b \in Buckets : blocks_next'[b] <= Capacity
  BY <1>1, TracingAssumption
<1> QED
  BY <1>1, <1>2, <1>3, <1>4, <1>5, <1>6, QuietStep

LEMMA SetStartedStep ==
  ASSUME IInv, NEW started \in BOOLEAN, setStarted(started) PROVE IInv'
<1>1. /\ finish = Idle /\ tracing_p' = started
      /\ UNCHANGED <<initialized, recorder, finish, blocks_next, blocks, events, recorded, dropped>>
      /\ UNCHANGED <<overran, overtaken>>
  BY DEF setStarted, shared, ghosts, history
<1>2. Types'
  BY <1>1 DEF IInv, Types
<1>3. Phases'
  BY <1>1, IdleIsNoCall DEF IInv, Phases, Resetting, Quiet
<1> QED
  BY <1>1, <1>2, <1>3, ControlStep, IdleIsNoCall DEF Resetting

LEMMA FinishStep ==
  ASSUME IInv, NEW good \in BOOLEAN, Finish(good) PROVE IInv'
<1> DEFINE f == [pc |-> IF good THEN "load" ELSE "reset", bucket |-> 0,
                 records_per_bucket |-> [b \in Buckets |-> 0], report |-> {}, reported |-> FALSE]
<1>1. /\ initialized /\ finish = Idle /\ tracing_p' = FALSE /\ finish' = f
      /\ UNCHANGED <<initialized, recorder, blocks_next, blocks, events, recorded, dropped>>
      /\ UNCHANGED <<overran, overtaken>>
  BY DEF Finish, shared, ghosts, history
<1>2. f \in Report /\ f.pc \in {"load", "reset"} /\ f.bucket = 0
  BY TracingAssumption DEF Report, Buckets
<1> HIDE DEF f
<1>3. Types'
  BY <1>1, <1>2 DEF IInv, Types
<1>4. Phases'
  BY <1>1, <1>2 DEF Phases, Resetting
<1> QED
  BY <1>1, <1>3, <1>4, ControlStep, IdleIsNoCall DEF Resetting

LEMMA LoadNextStep ==
  ASSUME IInv, LoadNext PROVE IInv'
<1> DEFINE f == [finish EXCEPT !.pc = "store",
                               !.records_per_bucket[finish.bucket] = blocks_next[finish.bucket]]
<1>1. /\ finish.pc = "load" /\ finish' = f
      /\ UNCHANGED <<initialized, tracing_p, recorder, blocks_next, blocks, events, recorded, dropped>>
      /\ UNCHANGED <<overran, overtaken>>
  BY DEF LoadNext, shared, ghosts, history
<1>2. finish \in Report /\ finish # Idle /\ initialized /\ ~tracing_p /\ finish.bucket \in Buckets
  BY <1>1, FinishFacts
<1>3. blocks_next[finish.bucket] \in Nat
  BY <1>2, TracingAssumption DEF IInv, Types
<1>4. f \in Report /\ f.pc = "store"
  BY <1>2, <1>3 DEF Report
<1> HIDE DEF f
<1>5. Types'
  BY <1>1, <1>4 DEF IInv, Types
<1>6. Phases'
  BY <1>1, <1>2, <1>4 DEF Phases, Resetting, Quiet
<1> QED
  BY <1>1, <1>5, <1>6, ControlStep DEF Resetting

\* Raising a counter to the capacity gives out nothing; nobody is to undo an addition to it.
StoreEffect(b) ==
  /\ finish.pc = "store" /\ finish \in Report /\ finish # Idle /\ b = finish.bucket /\ b \in Buckets
  /\ initialized /\ ~tracing_p /\ ~Resetting
  /\ UNCHANGED <<initialized, tracing_p, recorder, blocks, events, recorded, dropped>>
  /\ finish' \in Report /\ finish' # Idle
  /\ finish'.pc = (IF b + 1 = BUCKET_COUNT THEN "collect" ELSE "load")
  /\ finish'.bucket = (IF b + 1 = BUCKET_COUNT THEN 0 ELSE b + 1)
  /\ finish'.reported = finish.reported /\ finish'.records_per_bucket = finish.records_per_bucket
  /\ \A c \in Buckets : blocks_next'[c] = IF c = b THEN Capacity ELSE blocks_next[c]
  /\ blocks_next' \in [Buckets -> 0..(WordMod - 1)]
  /\ overtaken' = (overtaken \/ CounterInUse(b)) /\ overran' = overran

LEMMA StoreFacts ==
  ASSUME IInv, StoreCapacity, NEW b, b = finish.bucket PROVE StoreEffect(b)
<1>1. PICK next, pc : /\ next = (IF b + 1 = BUCKET_COUNT THEN 0 ELSE b + 1)
                      /\ pc = (IF b + 1 = BUCKET_COUNT THEN "collect" ELSE "load")
  OBVIOUS
<1>2. /\ finish.pc = "store" /\ finish' = [finish EXCEPT !.pc = pc, !.bucket = next]
      /\ blocks_next' = [blocks_next EXCEPT ![b] = Capacity]
      /\ UNCHANGED <<initialized, tracing_p, recorder, blocks, events, recorded, dropped>>
      /\ overtaken' = (overtaken \/ CounterInUse(b)) /\ overran' = overran
  BY <1>1 DEF StoreCapacity
<1>3. finish \in Report /\ finish # Idle /\ initialized /\ ~tracing_p /\ b \in Buckets
  BY <1>2, FinishFacts
<1>4. next \in Buckets /\ pc \in {"collect", "load"}
  BY <1>1, <1>3, TracingAssumption DEF Buckets
<1>5. /\ finish' \in Report /\ finish'.pc = pc /\ finish'.bucket = next
      /\ finish'.reported = finish.reported /\ finish'.records_per_bucket = finish.records_per_bucket
  BY <1>2, <1>3, <1>4 DEF Report
<1>6. finish' # Idle
  BY <1>4, <1>5, IdleIsNoCall
<1>7. Capacity \in 0..(WordMod - 1)
  BY TracingAssumption
<1>8. /\ blocks_next' \in [Buckets -> 0..(WordMod - 1)]
      /\ \A c \in Buckets : blocks_next'[c] = IF c = b THEN Capacity ELSE blocks_next[c]
  BY <1>2, <1>3, <1>7 DEF IInv, Types
<1>9. ~Resetting
  BY <1>2 DEF Resetting
<1> QED
  BY <1>1, <1>2, <1>3, <1>5, <1>6, <1>8, <1>9 DEF StoreEffect

LEMMA StoreCapacityStep ==
  ASSUME IInv, StoreCapacity, Intact' PROVE IInv'
<1>r. PICK b : b = finish.bucket
  OBVIOUS
<1>f. StoreEffect(b)
  BY <1>r, StoreFacts
<1>1. /\ b \in Buckets /\ initialized /\ ~tracing_p /\ ~Resetting
      /\ UNCHANGED <<initialized, tracing_p, recorder, blocks, events, recorded, dropped>>
      /\ finish' \in Report /\ finish'.pc # "reset"
      /\ finish'.pc = "collect" => finish'.bucket = 0
      /\ blocks_next' \in [Buckets -> 0..(WordMod - 1)]
      /\ \A c \in Buckets : blocks_next'[c] = IF c = b THEN Capacity ELSE blocks_next[c]
      /\ overtaken' = (overtaken \/ CounterInUse(b)) /\ overran' = overran
  BY <1>f DEF StoreEffect
<1>2. ~CounterInUse(b)
  BY <1>1 DEF Intact
<1>3. Types'
  BY <1>1, <1>2 DEF IInv, Types
<1>4. Phases'
  BY <1>1 DEF IInv, Phases, Resetting, Quiet
<1>5. Counters'
  <2>1. \A c : Pending(c)' = Pending(c)
    BY <1>1 DEF Pending, PendingOf, Undoes
  <2>2. Pending(b) = {}
    BY <1>2 DEF CounterInUse, Pending, PendingOf, Undoes
  <2>3. Capacity <= Capacity
    BY TracingAssumption
  <2> QED
    BY <1>1, <2>1, <2>2, <2>3 DEF IInv, Counters
<1>6. \A c \in Buckets, i \in Slots : i < blocks_next[c] => i < blocks_next'[c]
  BY <1>1, TracingAssumption DEF Slots
<1>7. Ownership'
  <2>1. ASSUME NEW t \in Recorder, NEW c, NEW i, Owns(recorder[t], c, i)
        PROVE  i \in Slots /\ i < blocks_next'[c]
    <3>1. recorder[t].pc # "idle" /\ c = Bucket(recorder[t])
      BY <2>1 DEF Owns
    <3>2. c \in Buckets /\ i \in Slots /\ i < blocks_next[c]
      BY <2>1, <3>1, ActiveFacts DEF IInv, Ownership
    <3> QED
      BY <1>6, <3>2
  <2> QED
    BY <1>1, <2>1 DEF IInv, Ownership
<1>8. Rooms' /\ Identities'
  BY <1>1 DEF IInv, Rooms, Identities
<1>9. Fresh'
  <2>1. \A c \in Buckets, i \in Slots : i >= blocks_next'[c] => i >= blocks_next[c]
    BY <1>1, TracingAssumption DEF Slots
  <2> QED
    BY <1>1, <2>1 DEF IInv, Fresh
<1> QED
  BY <1>3, <1>4, <1>5, <1>7, <1>8, <1>9 DEF IInv

LEMMA CollectStep ==
  ASSUME IInv, Collect PROVE IInv'
<1> DEFINE places == {place \in Buckets \X (0..(Capacity - 1)) :
                        /\ place[2] < RecordCount(place[1])
                        /\ blocks[place[1]][place[2]].type = "EVENT_BLOCK"}
           f == [finish EXCEPT !.pc = "reset", !.reported = TRUE, !.report = places]
<1>1. /\ finish.pc = "collect" /\ finish' = f
      /\ UNCHANGED <<initialized, tracing_p, recorder, blocks_next, blocks, events, recorded, dropped>>
      /\ overran' = overran /\ overtaken' \in BOOLEAN
  BY DEF Collect, shared, IInv, Types
<1>2. finish \in Report /\ finish # Idle /\ initialized /\ ~tracing_p /\ finish.bucket \in Buckets
  BY <1>1, FinishFacts
<1>3. ~Resetting
  BY <1>1 DEF Resetting
<1>4. places \in SUBSET (Buckets \X Slots)
  BY DEF Slots
<1> HIDE DEF places
<1>5. f \in Report /\ f.bucket = finish.bucket
  BY <1>2, <1>4 DEF Report
<1> HIDE DEF f
<1>6. Types'
  BY <1>1, <1>5 DEF IInv, Types
<1>7. Phases'
  BY <1>1, <1>2, <1>5 DEF IInv, Phases, Resetting, Quiet
<1> QED
  BY <1>1, <1>3, <1>6, <1>7, ControlStep

\* The counters fall bucket by bucket; the last step forgets what was recorded.
LEMMA ResetStep ==
  ASSUME IInv, Reset, Intact' PROVE IInv'
<1> DEFINE last == finish.bucket + 1 = BUCKET_COUNT
           f == [finish EXCEPT !.bucket = finish.bucket + 1]
<1>1. /\ finish.pc = "reset" /\ Quiet
      /\ finish' = IF last THEN Idle ELSE f
      /\ blocks_next' = [blocks_next EXCEPT ![finish.bucket] = 0]
      /\ recorded' = (IF last THEN {} ELSE recorded) /\ dropped' = (IF last THEN {} ELSE dropped)
      /\ UNCHANGED <<initialized, tracing_p, recorder, blocks, events>>
      /\ overran' = overran /\ overtaken' \in BOOLEAN
  BY DEF Reset, Following, Intact, IInv, Types
<1>2. finish \in Report /\ finish # Idle /\ initialized /\ ~tracing_p /\ finish.bucket \in Buckets
  BY <1>1, FinishFacts
<1>3. ~last => f \in Report /\ f.pc = "reset" /\ f.bucket = finish.bucket + 1 /\ f.bucket > 0
  <2>1. ~last => finish.bucket + 1 \in Buckets
    BY <1>2, TracingAssumption DEF Buckets
  <2>2. finish.bucket + 1 > 0
    BY <1>2, TracingAssumption DEF Buckets
  <2> QED
    BY <1>1, <1>2, <2>1, <2>2 DEF Report
<1> HIDE DEF f
<1>4. /\ blocks_next' \in [Buckets -> 0..(WordMod - 1)]
      /\ \A b \in Buckets : blocks_next'[b] = IF b = finish.bucket THEN 0 ELSE blocks_next[b]
  BY <1>1, <1>2, TracingAssumption DEF IInv, Types
<1>5. Types'
  BY <1>1, <1>3, <1>4 DEF IInv, Types
<1>6. Phases'
  <2>1. CASE last
    BY <1>1, <1>2, <2>1, IdleIsNoCall DEF Phases, Resetting, Quiet
  <2>2. CASE ~last
    BY <1>1, <1>2, <1>3, <2>2 DEF Phases, Quiet
  <2> QED
    BY <2>1, <2>2
<1>7. \A b \in Buckets : blocks_next'[b] <= Capacity
  BY <1>1, <1>4, QuietCounters, TracingAssumption
<1>8. ~Resetting' => recorded' = {}
  BY <1>1, <1>3 DEF Resetting
<1>9. \A b \in Buckets, i \in Slots : blocks'[b][i].id <= events
  BY <1>1, BlockType
<1> QED
  BY <1>1, <1>5, <1>6, <1>7, <1>8, <1>9, QuietStep

-----------------------------------------------------------------------------
LEMMA Initially ==
  ASSUME Init PROVE IInv
<1>1. Quiet
  BY DEF Init, Quiet
<1>2. Types
  <2>1. blocks_next \in [Buckets -> 0..(WordMod - 1)]
    BY TracingAssumption DEF Init
  <2>2. blocks \in [Buckets -> [Slots -> Block]]
    BY EmptyBucketsFacts DEF Init
  <2>3. recorder \in [Recorder -> {Idle} \cup Call] /\ finish \in {Idle} \cup Report
    BY DEF Init
  <2> QED
    BY <2>1, <2>2, <2>3 DEF Init, Types
<1>3. Phases
  BY <1>1, IdleIsNoCall DEF Init, Phases, Resetting
<1>4. Counters
  BY <1>1, QuietFacts, TracingAssumption DEF Init, Counters
<1>5. Ownership /\ Rooms
  BY <1>1, QuietFacts DEF Ownership, Rooms, Room
<1>6. Identities
  BY <1>1, QuietFacts, EmptyBucketsFacts DEF Init, Identities
<1>7. Fresh
  BY <1>1, QuietFacts DEF Init, Fresh
<1> QED
  BY <1>2, <1>3, <1>4, <1>5, <1>6, <1>7 DEF IInv

\* What has come between the steps of a recorder, or was given less room, is remembered.
LEMMA OnceIntact ==
  ASSUME [Next]_vars, Intact' PROVE Intact
<1>1. ASSUME NEW t \in Recorder, Recording(t) PROVE Intact
  <2>1. CASE Grow(t)
    BY <2>1 DEF Grow, Intact
  <2>2. CASE Undo(t)
    BY <2>2 DEF Undo, Intact, history
  <2>3. CASE Stamp(t)
    BY <2>3 DEF Stamp, Intact, ghosts, history
  <2>4. CASE CopyEvent(t)
    BY <2>4 DEF CopyEvent, Intact, history
  <2>5. CASE CopyString(t)
    BY <2>5 DEF CopyString, Intact, history
  <2> QED
    BY <1>1, <2>1, <2>2, <2>3, <2>4, <2>5 DEF Recording
<1>2. ASSUME NEW t \in Recorder, NEW start \in Buckets, NEW size \in StringSizes,
             Record(t, start, size)
      PROVE  Intact
  BY <1>2 DEF Record, Intact, history
<1>8. CASE init
  BY <1>8 DEF init, Intact, ghosts, history
<1>9. CASE destroy
  BY <1>9 DEF destroy, Intact, history
<1>3. ASSUME NEW started \in BOOLEAN, setStarted(started) PROVE Intact
  BY <1>3 DEF setStarted, Intact, ghosts, history
<1>4. ASSUME NEW good \in BOOLEAN, Finish(good) PROVE Intact
  BY <1>4 DEF Finish, Intact, ghosts, history
<1>5. CASE LoadNext
  BY <1>5 DEF LoadNext, Intact, ghosts, history
<1>6. CASE StoreCapacity
  BY <1>6 DEF StoreCapacity, Intact
<1>10. CASE Collect
  BY <1>10 DEF Collect, Intact
<1>11. CASE Reset
  BY <1>11 DEF Reset, Intact
<1>7. CASE UNCHANGED vars
  BY <1>7 DEF vars, ghosts, history, Intact
<1> QED
  BY <1>1, <1>2, <1>3, <1>4, <1>5, <1>6, <1>7, <1>8, <1>9, <1>10, <1>11
  DEF Next, Calling, Finishing

LEMMA Invariance ==
  ASSUME ProgramAssumption, IInv, [Next]_vars, Intact' PROVE IInv'
<1>1. ASSUME NEW t \in Recorder, Recording(t) PROVE IInv'
  BY <1>1, GrowStep, UndoStep, StampStep, CopyEventStep, CopyStringStep DEF Recording
<1>2. ASSUME NEW t \in Recorder, NEW start \in Buckets, NEW size \in StringSizes,
             Record(t, start, size)
      PROVE  IInv'
  BY <1>2, RecordStep
<1>3. ASSUME init \/ destroy \/ Finishing PROVE IInv'
  BY <1>3, InitStep, DestroyStep, LoadNextStep, StoreCapacityStep, CollectStep, ResetStep DEF Finishing
<1>4. ASSUME NEW started \in BOOLEAN, setStarted(started) PROVE IInv'
  BY <1>4, SetStartedStep
<1>5. ASSUME NEW good \in BOOLEAN, Finish(good) PROVE IInv'
  BY <1>5, FinishStep
<1>6. ASSUME UNCHANGED vars PROVE IInv'
  <2>1. /\ UNCHANGED <<initialized, tracing_p, blocks_next, blocks, recorder, finish>>
        /\ UNCHANGED <<events, recorded, dropped, overran, overtaken>>
    BY <1>6 DEF vars, shared, ghosts, history
  <2>2. \A b : Pending(b)' = Pending(b)
    BY <2>1 DEF Pending, PendingOf, Undoes
  <2>3. Types' /\ Phases'
    BY <2>1 DEF IInv, Types, Phases, Resetting, Quiet
  <2>4. Counters'
    BY <2>1, <2>2 DEF IInv, Counters
  <2>5. Ownership' /\ Rooms' /\ Identities' /\ Fresh'
    BY <2>1 DEF IInv, Ownership, Rooms, Identities, Fresh, Resetting
  <2> QED
    BY <2>3, <2>4, <2>5 DEF IInv
<1> QED
  BY <1>1, <1>2, <1>3, <1>4, <1>5, <1>6 DEF Next, Calling

\* A block that a recorder is writing belongs to no other recorder and to no event that
\* is already recorded: the additions in growblocks_until() hand out every block once, also
\* while others undo theirs and while a report stores the capacity, as long as
\* strings have the room they need and nothing came between steps that belong together.
THEOREM Exclusion ==
  ASSUME ProgramAssumption PROVE Spec => []BlocksAreExclusive
<1>1. Init => (Intact => IInv)
  BY Initially
<1>2. (Intact => IInv) /\ [Next]_vars => (Intact => IInv)'
  BY Invariance, OnceIntact
<1>3. (Intact => IInv) => BlocksAreExclusive
  BY InvariantIsExclusive DEF BlocksAreExclusive
<1> QED
  BY <1>1, <1>2, <1>3, PTL DEF Spec

-----------------------------------------------------------------------------
(* The second invariant: what the counters say of the blocks below them, and *)
(* what the blocks say of the events.  It rests on the first one.            *)

\* Where a bucket's counter has been replaced by its capacity, the report has the counter.
Stored(b) == \/ finish.pc = "collect"
             \/ finish.pc = "reset" /\ finish.reported
             \/ finish.pc \in {"load", "store"} /\ b < finish.bucket
Used(b) == IF Stored(b) THEN finish.records_per_bucket[b] ELSE blocks_next[b]

Full(b) == blocks_next[b] >= Capacity

\* The stages of the report: what is stored is full until the reset, and no event is being written
\* any more when the report has collected the blocks.
NobodyWrites == \A t \in Recorder : \A b, i : ~Owns(recorder[t], b, i)
Stages == /\ ~initialized => recorded = {} /\ dropped = {}
          /\ finish # Idle /\ finish.reported => finish.pc = "reset" /\ NobodyWrites
          /\ finish.pc = "reset" => \A b \in Buckets : b < finish.bucket => blocks_next[b] = 0
          /\ ~Resetting => \A b \in Buckets : Stored(b) => Full(b)

\* Behind a recorder that looks for a block, and behind an event that was dropped, all is full.
Searching(r) == r.pc # "idle" /\ r.what = "event" =>
  /\ r.tries < BUCKET_COUNT
  /\ \A k \in 0..(BUCKET_COUNT - 1) : k < r.tries => Full((r.start + k) % BUCKET_COUNT)
Searches == /\ \A t \in Recorder : Searching(recorder[t])
            /\ dropped # {} /\ ~Resetting => \A b \in Buckets : Full(b)

\* A block below the counter is of a recorded event, or a recorder is about to write it;
\* what the report has stored counts these, too.
Filled == initialized /\ ~Resetting => \A b \in Buckets, i \in Slots :
  /\ i < Used(b) => \/ blocks[b][i].id \in recorded
                    \/ \E t \in Recorder : Owns(recorder[t], b, i)
  /\ i >= Used(b) => /\ blocks[b][i].id \notin recorded
                     /\ \A t \in Recorder : ~Owns(recorder[t], b, i)

\* What a recorder has written of its event so far
Written(r) ==
  /\ r.pc = "copy" => blocks[Bucket(r)][r.at].type =
                        IF r.what = "event" THEN "EVENT_BLOCK" ELSE "STR_BLOCK"
  /\ r.pc # "idle" /\ r.what = "string" =>
       blocks[Bucket(r)][r.event].type = "EVENT_BLOCK" /\ blocks[Bucket(r)][r.event].id = r.id

\* A recorded event has one block, which tells where its string is.
EventAt(b, i, id) == blocks[b][i].type = "EVENT_BLOCK" /\ blocks[b][i].id = id
StringOf(b, i) ==
  LET event == blocks[b][i]
  IN \/ event.str \in {"none", "OutOfArgMemory"}
     \/ /\ event.str = "copy" /\ event.strAt \in Slots
        /\ blocks[b][event.strAt].type = "STR_BLOCK" /\ blocks[b][event.strAt].id = event.id
HasOneBlock(id) == \E b \in Buckets, i \in Slots :
  /\ EventAt(b, i, id) /\ StringOf(b, i)
  /\ \A c \in Buckets, j \in Slots : EventAt(c, j, id) => c = b /\ j = i
Contents == /\ \A t \in Recorder : Written(recorder[t])
            /\ \A id \in recorded : HasOneBlock(id)

Reports == finish # Idle /\ finish.reported => ReportIsRight

Accounts == Stages /\ Searches /\ Filled /\ Contents /\ Reports

-----------------------------------------------------------------------------
(* What the steps of a recorder have in common, again *)

\* What a recorder owns is not of a recorded event.
LEMMA OwnedIsNotRecorded ==
  ASSUME IInv, Accounts, NEW t \in Recorder, NEW b, NEW i, Owns(recorder[t], b, i)
  PROVE  /\ recorder[t].pc # "idle" /\ b \in Buckets /\ i \in Slots /\ i < blocks_next[b]
         /\ blocks[b][i].id \notin recorded
<1>1. recorder[t].pc # "idle" /\ b = Bucket(recorder[t])
  BY DEF Owns
<1>2. b \in Buckets /\ i \in Slots /\ i < blocks_next[b]
  BY <1>1, ActiveFacts DEF IInv, Ownership
<1>3. CASE recorder[t].pc \in {"stamp", "copy"} /\ i \in Given(recorder[t])
  BY <1>1, <1>2, <1>3 DEF IInv, Fresh
<1>4. CASE recorder[t].what = "string" /\ i = recorder[t].event
  BY <1>1, <1>2, <1>4, ActiveFacts DEF Accounts, Contents, Written, IInv, Identities
<1> QED
  BY <1>1, <1>2, <1>3, <1>4 DEF Owns

\* A recorder writes only what it owns, and no id but that of its event.
Touches(t) == \A c \in Buckets, j \in Slots :
  \/ blocks'[c][j] = blocks[c][j]
  \/ Owns(recorder[t], c, j) /\ blocks'[c][j].id \in {blocks[c][j].id, recorder[t].id}

\* So the block of a recorded event, and that of its string, stay as they are.
LEMMA RecordedStays ==
  ASSUME IInv, Accounts, NEW t \in Recorder, recorder[t].pc # "idle", Touches(t)
  PROVE  /\ \A c \in Buckets, j \in Slots :
              /\ blocks[c][j].id \in recorded => blocks'[c][j] = blocks[c][j]
              /\ blocks'[c][j].id \in recorded => blocks'[c][j] = blocks[c][j]
         /\ \A id \in recorded : HasOneBlock(id)'
<1>1. recorder[t].id \notin recorded
  BY ActiveFacts DEF IInv, Identities
<1>2. ASSUME NEW c \in Buckets, NEW j \in Slots
      PROVE  /\ blocks[c][j].id \in recorded => blocks'[c][j] = blocks[c][j]
             /\ blocks'[c][j].id \in recorded => blocks'[c][j] = blocks[c][j]
  BY <1>1, OwnedIsNotRecorded DEF Touches
<1>3. ASSUME NEW id \in recorded PROVE HasOneBlock(id)'
  <2>1. PICK b \in Buckets, i \in Slots :
          /\ EventAt(b, i, id) /\ StringOf(b, i)
          /\ \A c \in Buckets, j \in Slots : EventAt(c, j, id) => c = b /\ j = i
    BY DEF Accounts, Contents, HasOneBlock
  <2>2. blocks'[b][i] = blocks[b][i]
    BY <1>2, <2>1 DEF EventAt
  <2>3. EventAt(b, i, id)'
    BY <2>1, <2>2 DEF EventAt
  <2>4. StringOf(b, i)'
    <3>1. CASE blocks[b][i].str \in {"none", "OutOfArgMemory"}
      BY <2>2, <3>1 DEF StringOf
    <3>2. CASE /\ blocks[b][i].str = "copy" /\ blocks[b][i].strAt \in Slots
               /\ blocks[b][blocks[b][i].strAt].type = "STR_BLOCK"
               /\ blocks[b][blocks[b][i].strAt].id = blocks[b][i].id
      <4>1. blocks'[b][blocks[b][i].strAt] = blocks[b][blocks[b][i].strAt]
        BY <1>2, <2>1, <3>2 DEF EventAt
      <4> QED
        BY <2>2, <3>2, <4>1 DEF StringOf
    <3> QED
      BY <2>1, <3>1, <3>2 DEF StringOf
  <2>5. ASSUME NEW c \in Buckets, NEW j \in Slots, EventAt(c, j, id)' PROVE c = b /\ j = i
    <3>1. blocks'[c][j] = blocks[c][j]
      BY <1>2, <2>5 DEF EventAt
    <3> QED
      BY <2>1, <2>5, <3>1 DEF EventAt
  <2> QED
    BY <2>3, <2>4, <2>5 DEF HasOneBlock
<1> QED
  BY <1>2, <1>3

\* A full bucket stays full.
LEMMA StaysFull ==
  ASSUME IInv, Types', Keeps
  PROVE  \A b \in Buckets : Full(b) => Full(b)'
<1> SUFFICES ASSUME NEW b \in Buckets, Full(b) PROVE Full(b)'
  OBVIOUS
<1>1. Capacity - 1 \in Slots /\ blocks_next[b] \in Nat /\ blocks_next'[b] \in Nat /\ Capacity \in Nat
  BY TracingAssumption DEF IInv, Types, Slots
<1>2. Capacity - 1 < blocks_next'[b]
  BY <1>1 DEF Full, Keeps
<1> QED
  BY <1>1, <1>2 DEF Full

LEMMA TriedInRange ==
  ASSUME NEW r \in Call, NEW k \in Nat
  PROVE  (r.start + k) % BUCKET_COUNT \in Buckets
<1>1. r.start + k \in Nat /\ BUCKET_COUNT \in Nat \ {0}
  BY TracingAssumption DEF Call, Buckets
<1> QED
  BY <1>1, Remainder DEF Buckets

\* The search of a recorder that is not at its end stays where it was.
LEMMA SearchingStays ==
  ASSUME IInv, Types', Keeps, NEW u \in Recorder, recorder[u] \in Call, recorder'[u] = recorder[u],
         Searching(recorder[u])
  PROVE  Searching(recorder[u])'
<1>1. \A k \in 0..(BUCKET_COUNT - 1) : (recorder[u].start + k) % BUCKET_COUNT \in Buckets
  BY TriedInRange, TracingAssumption
<1> QED
  BY <1>1, StaysFull DEF Searching

-----------------------------------------------------------------------------
LEMMA RecorderAccounts ==
  ASSUME IInv, IInv', Accounts, NEW t \in Recorder, recorder[t].pc # "idle", OnlyCaller(t),
         UNCHANGED <<initialized, finish>>, Keeps, Touches(t),
         recorded \subseteq recorded', recorded' \subseteq recorded \cup {recorder[t].id},
         \A id \in recorded' : id = recorder[t].id => HasOneBlock(id)',
         \A c, j : Owns(recorder[t], c, j)
           => Owns(recorder'[t], c, j) \/ blocks'[c][j].id \in recorded',
         \A c, j : Owns(recorder'[t], c, j)
           => c \in Buckets /\ (Owns(recorder[t], c, j) \/ ~Full(c)),
         \A c \in Buckets : Full(c) \/ (\A j \in Slots : j < blocks_next'[c]
           => j < blocks_next[c] \/ Owns(recorder'[t], c, j)),
         Searching(recorder[t])', Written(recorder[t])',
         dropped' = dropped \/ \A b \in Buckets : Full(b)'
  PROVE  Accounts'
<1>1. /\ ~Quiet /\ ~Resetting /\ initialized /\ recorder[t].id \in (1..events) \ recorded
      /\ recorder[t] # Idle
  BY ActiveFacts DEF IInv, Identities
<1>2. \A b \in Buckets : Full(b) => Full(b)'
  BY StaysFull DEF IInv
<1>3. \A b \in Buckets : Stored(b)' = Stored(b) /\ (Stored(b) => Full(b))
  BY <1>1 DEF Stored, Accounts, Stages
<1>4. finish # Idle /\ finish.reported => finish.pc = "reset" /\ NobodyWrites /\ \A b \in Buckets : Full(b)
  BY <1>3 DEF Accounts, Stages, Stored
<1>5. ASSUME NEW u \in Recorder, NEW b, NEW i, Owns(recorder'[u], b, i)
      PROVE  b \in Buckets /\ i \in Slots /\ (Owns(recorder[u], b, i) \/ ~Full(b))
  <2>1. recorder'[u].pc # "idle" /\ i \in Slots
    BY <1>5 DEF Owns, IInv, Ownership
  <2>2. CASE u = t
    BY <1>5, <2>1, <2>2
  <2>3. CASE u # t
    <3>1. Owns(recorder[u], b, i)
      BY <1>5, <2>3 DEF OnlyCaller
    <3> QED
      BY <2>1, <3>1, OwnedIsNotRecorded
  <2> QED
    BY <2>2, <2>3
<1>6. Stages'
  <2>1. finish # Idle /\ finish.reported => NobodyWrites'
    BY <1>4, <1>5 DEF NobodyWrites
  <2>2. finish.pc = "reset" => \A b \in Buckets : ~(b < finish.bucket)
    <3> HAVE finish.pc = "reset"
    <3>1. finish.bucket \in Buckets /\ ~(finish.bucket > 0)
      BY <1>1, FinishFacts DEF Resetting
    <3> QED
      BY <3>1 DEF Buckets
  <2> QED
    BY <1>1, <1>2, <1>3, <1>4, <2>1, <2>2 DEF Stages
<1>7. Searches'
  <2>1. ASSUME NEW u \in Recorder PROVE Searching(recorder[u])'
    <3>1. CASE u = t
      BY <3>1
    <3>2. CASE u # t
      <4>1. recorder'[u] = recorder[u]
        BY <3>2 DEF OnlyCaller
      <4>2. CASE recorder[u] = Idle
        BY <4>1, <4>2, IdleIsNoCall DEF Searching
      <4>3. CASE recorder[u] \in Call
        BY <4>1, <4>3, SearchingStays DEF IInv, Accounts, Searches
      <4> QED
        BY <4>2, <4>3 DEF IInv, Types
    <3> QED
      BY <3>1, <3>2
  <2>2. dropped' # {} => \A b \in Buckets : Full(b)'
    BY <1>1, <1>2 DEF Accounts, Searches
  <2> QED
    BY <2>1, <2>2 DEF Searches
<1>8. Filled'
  <2>1. ASSUME NEW b \in Buckets, NEW i \in Slots, i < Used(b)'
        PROVE  blocks'[b][i].id \in recorded' \/ \E u \in Recorder : Owns(recorder'[u], b, i)
    <3>1. CASE Owns(recorder'[t], b, i) \/ Owns(recorder[t], b, i)
      BY <3>1
    <3>2. CASE ~Owns(recorder'[t], b, i) /\ ~Owns(recorder[t], b, i)
      <4>1. i < Used(b)
        <5>1. CASE Stored(b)
          BY <1>3, <2>1, <5>1 DEF Used
        <5>2. CASE ~Stored(b) /\ Full(b)
          <6>1. blocks_next[b] \in Nat /\ blocks_next[b] >= Capacity
            BY <5>2, TracingAssumption DEF Full, IInv, Types
          <6> QED
            BY <5>2, <6>1, TracingAssumption DEF Used, Slots
        <5>3. CASE ~Stored(b) /\ ~Full(b)
          BY <1>3, <2>1, <3>2, <5>3 DEF Used
        <5> QED
          BY <5>1, <5>2, <5>3
      <4>2. blocks'[b][i] = blocks[b][i]
        BY <3>2 DEF Touches
      <4>3. blocks[b][i].id \in recorded \/ \E u \in Recorder : Owns(recorder[u], b, i)
        BY <1>1, <4>1 DEF Accounts, Filled
      <4>4. ASSUME NEW u \in Recorder, Owns(recorder[u], b, i) PROVE Owns(recorder'[u], b, i)
        BY <3>2, <4>4 DEF OnlyCaller
      <4> QED
        BY <4>2, <4>3, <4>4
    <3> QED
      BY <3>1, <3>2
  <2>2. ASSUME NEW b \in Buckets, NEW i \in Slots, i >= Used(b)'
        PROVE  blocks'[b][i].id \notin recorded' /\ \A u \in Recorder : ~Owns(recorder'[u], b, i)
    <3>1. CASE Stored(b)
      <4>1. i >= Used(b) /\ Full(b)
        BY <1>3, <2>2, <3>1 DEF Used
      <4>2. blocks[b][i].id \notin recorded /\ \A u \in Recorder : ~Owns(recorder[u], b, i)
        BY <1>1, <4>1 DEF Accounts, Filled
      <4>3. \A u \in Recorder : ~Owns(recorder'[u], b, i)
        BY <1>5, <4>1, <4>2
      <4>4. blocks'[b][i] = blocks[b][i]
        BY <4>2 DEF Touches
      <4>5. blocks[b][i].id # recorder[t].id
        <5>1. blocks[b][i].id = recorder[t].id => Owns(recorder[t], b, i)
          BY <1>1 DEF IInv, Identities, Owns
        <5> QED
          BY <4>2, <5>1
      <4> QED
        BY <4>2, <4>3, <4>4, <4>5
    <3>2. CASE ~Stored(b)
      <4>1. i >= blocks_next'[b]
        BY <1>3, <2>2, <3>2 DEF Used
      <4>2. blocks'[b][i].id \notin recorded'
        BY <1>1, <4>1 DEF IInv, Fresh, Resetting
      <4>3. ~(i < blocks_next'[b])
        BY <4>1, TracingAssumption DEF IInv, Types, Slots
      <4> QED
        BY <4>2, <4>3 DEF IInv, Ownership
    <3> QED
      BY <3>1, <3>2
  <2> QED
    BY <2>1, <2>2 DEF Filled
<1>9. \A id \in recorded' : HasOneBlock(id)'
  <2>1. \A id \in recorded : HasOneBlock(id)'
    BY RecordedStays
  <2> QED
    BY <2>1
<1>10. Contents'
  <2>1. ASSUME NEW u \in Recorder PROVE Written(recorder[u])'
    <3>1. CASE u = t
      BY <3>1
    <3>2. CASE u # t
      <4>r. PICK r, c : r = recorder[u] /\ c = Bucket(r)
        OBVIOUS
      <4>1. recorder'[u] = r /\ Written(r)
        BY <3>2, <4>r DEF OnlyCaller, Accounts, Contents
      <4>2. ASSUME NEW j, Owns(r, c, j) PROVE blocks'[c][j] = blocks[c][j]
        <5>1. ~Owns(recorder[t], c, j)
          BY <3>2, <4>2, <4>r DEF IInv, Ownership
        <5>2. c \in Buckets /\ j \in Slots
          BY <4>2, <4>r, OwnedIsNotRecorded
        <5> QED
          BY <5>1, <5>2 DEF Touches
      <4>3. r.pc = "copy" => Owns(r, c, r.at)
        BY <4>r, GivenFacts
      <4>4. r.pc # "idle" /\ r.what = "string" => Owns(r, c, r.event)
        BY <4>r DEF Owns
      <4> QED
        BY <4>1, <4>2, <4>3, <4>4, <4>r DEF Written
    <3> QED
      BY <3>1, <3>2
  <2> QED
    BY <1>9, <2>1 DEF Contents
\* Once there is a report, the recorders that are left only find that there is no room.
<1>11. Reports'
  <2> SUFFICES ASSUME finish # Idle, finish.reported PROVE ReportIsRight'
    BY DEF Reports
  <2>1. ReportIsRight /\ \A u \in Recorder : \A b, i : ~Owns(recorder[u], b, i)
    BY <1>4 DEF Accounts, Reports, NobodyWrites
  <2>2. \A c \in Buckets, j \in Slots : blocks'[c][j] = blocks[c][j]
    BY <2>1 DEF Touches
  <2>3. blocks' = blocks
    <3>1. blocks \in [Buckets -> [Slots -> Block]] /\ blocks' \in [Buckets -> [Slots -> Block]]
      BY DEF IInv, Types
    <3>2. ASSUME NEW f \in [Buckets -> [Slots -> Block]], NEW g \in [Buckets -> [Slots -> Block]],
                 \A c \in Buckets, j \in Slots : f[c][j] = g[c][j]
          PROVE  f = g
      <4>1. \A c \in Buckets : f[c] = g[c]
        BY <3>2
      <4> QED
        BY <4>1
    <3> QED
      BY <2>2, <3>1, <3>2
  <2>4. recorded' = recorded
    <3> SUFFICES ASSUME recorder[t].id \in recorded' PROVE FALSE
      OBVIOUS
    <3>1. PICK b \in Buckets, i \in Slots : blocks'[b][i].id = recorder[t].id
      BY <1>9 DEF HasOneBlock, EventAt
    <3>2. blocks[b][i].id = recorder[t].id
      BY <2>2, <3>1
    <3>3. Owns(recorder[t], b, i)
      BY <1>1, <3>2 DEF IInv, Identities, Owns
    <3> QED
      BY <2>1, <3>3
  <2> QED
    BY <2>1, <2>3, <2>4 DEF ReportIsRight
<1> QED
  BY <1>6, <1>7, <1>8, <1>10, <1>11 DEF Accounts

-----------------------------------------------------------------------------
(* The steps of a recorder *)

\* An event that begins has tried no bucket.
LEMMA RecordAccounts ==
  ASSUME IInv, IInv', Accounts, NEW t \in Recorder, NEW start \in Buckets, NEW size \in StringSizes,
         Record(t, start, size)
  PROVE  Accounts'
<1>1. /\ recorder[t] = Idle /\ initialized /\ finish = Idle
      /\ UNCHANGED <<initialized, blocks_next, blocks, finish, recorded, dropped>>
      /\ OnlyCaller(t)
      /\ recorder'[t].pc = "grow" /\ recorder'[t].what = "event" /\ recorder'[t].tries = 0
  BY DEF Record, shared, IInv, Phases, Types, OnlyCaller
<1>2. finish.pc = "idle"
  BY <1>1, IdleIsNoCall
<1>3. \A b : ~Stored(b) /\ ~Stored(b)' /\ Used(b) = blocks_next[b] /\ Used(b)' = blocks_next'[b]
  BY <1>1, <1>2 DEF Stored, Used
<1>4. Stages'
  BY <1>1, <1>2, <1>3 DEF Stages
<1>5. \A u \in Recorder : u # t => recorder'[u] = recorder[u]
  BY <1>1 DEF OnlyCaller
<1>6. Searches'
  <2>1. ASSUME NEW u \in Recorder PROVE Searching(recorder[u])'
    <3>1. CASE u = t
      BY <1>1, <3>1, TracingAssumption DEF Searching
    <3>2. CASE u # t
      BY <1>1, <1>5, <3>2 DEF Accounts, Searches, Searching, Full
    <3> QED
      BY <3>1, <3>2
  <2>2. dropped # {} => \A b \in Buckets : Full(b)
    BY <1>2 DEF Accounts, Searches, Resetting
  <2> QED
    BY <1>1, <2>1, <2>2 DEF Searches, Full
<1>7. Filled'
  <2>1. ASSUME NEW b \in Buckets, NEW i \in Slots, NEW u \in Recorder, Owns(recorder[u], b, i)
        PROVE  Owns(recorder'[u], b, i)
    BY <1>1, <1>5, <2>1, IdleOwnsNothing
  <2>2. ~Resetting
    BY <1>2 DEF Resetting
  <2>3. ASSUME NEW b \in Buckets, NEW i \in Slots, NEW u \in Recorder, Owns(recorder'[u], b, i)
        PROVE  Owns(recorder[u], b, i)
    BY <1>1, <1>5, <2>3 DEF Owns
  <2> QED
    BY <1>1, <1>3, <2>1, <2>2, <2>3 DEF Accounts, Filled
<1>8. Contents'
  <2>1. ASSUME NEW u \in Recorder PROVE Written(recorder[u])'
    <3>1. CASE u = t
      BY <1>1, <3>1 DEF Written
    <3>2. CASE u # t
      BY <1>1, <1>5, <3>2 DEF Accounts, Contents, Written
    <3> QED
      BY <3>1, <3>2
  <2>2. \A id : HasOneBlock(id)' = HasOneBlock(id)
    BY <1>1 DEF HasOneBlock, EventAt, StringOf
  <2> QED
    BY <1>1, <2>1, <2>2 DEF Accounts, Contents
<1>9. Reports'
  BY <1>1 DEF Reports
<1> QED
  BY <1>4, <1>6, <1>7, <1>8, <1>9 DEF Accounts

\* The block that a recorder was given is its own from then on.
LEMMA GrowAccounts ==
  ASSUME ProgramAssumption, IInv, IInv', Accounts, NEW t \in Recorder, Grow(t), Intact'
  PROVE  Accounts'
<1>r. PICK r, s, b, i : r = recorder[t] /\ s = recorder'[t] /\ b = Bucket(r) /\ i = blocks_next[b]
  OBVIOUS
<1>1. /\ r.pc = "grow" /\ r \in Call /\ b \in Buckets /\ i \in Nat /\ r # Idle
      /\ OnlyCaller(t)
      /\ UNCHANGED <<initialized, tracing_p, blocks, finish, events, recorded, dropped, overtaken>>
  BY <1>r, GrowFacts
<1>2. /\ s.pc = (IF i < Capacity THEN "stamp" ELSE "undo") /\ (i < Capacity => s.at = i)
      /\ s.what = r.what /\ s.event = r.event /\ s.id = r.id /\ s.n = r.n /\ r.n \in 1..MaxBlocks
      /\ s.start = r.start /\ s.tries = r.tries /\ Bucket(s) = b
  BY <1>r, GrowFacts
<1>3. \A c \in Buckets : blocks_next'[c] = IF c = b THEN i + r.n ELSE blocks_next[c]
  BY <1>r, GrowFacts
<1>n. PICK n : n = r.n /\ n \in Nat /\ n > 0
  BY <1>2 DEF ProgramAssumption
<1>4. Keeps
  BY <1>1, <1>3, <1>n, <1>r, TracingAssumption DEF Keeps, Slots
<1>5. Touches(t)
  BY <1>1 DEF Touches
<1>6. \A c, j : Owns(recorder[t], c, j) => Owns(recorder'[t], c, j)
  BY <1>1, <1>2, <1>r DEF Owns
<1>7. \A c, j : Owns(recorder'[t], c, j) => c \in Buckets /\ (Owns(recorder[t], c, j) \/ ~Full(c))
  <2>1. i < Capacity => ~Full(b)
    BY <1>1, <1>r, TracingAssumption DEF Full
  <2> QED
    BY <1>1, <1>2, <1>r, <2>1 DEF Owns
<1>8. ASSUME NEW c \in Buckets, ~Full(c), NEW j \in Slots, j < blocks_next'[c]
      PROVE  j < blocks_next[c] \/ Owns(recorder'[t], c, j)
  <2>1. CASE c # b
    BY <1>3, <1>8, <2>1
  <2>2. CASE c = b
    <3>1. i < Capacity
      BY <1>1, <1>8, <1>r, <2>2, TracingAssumption DEF Full
    <3>2. j < i \/ j \in i..(i + n - 1)
      BY <1>1, <1>3, <1>8, <1>n, <2>2 DEF Slots
    <3>3. j \in i..(i + n - 1) => Owns(s, c, j)
      BY <1>1, <1>2, <1>n, <2>2, <3>1 DEF Owns, Given
    <3> QED
      BY <1>r, <2>2, <3>2, <3>3
  <2> QED
    BY <2>1, <2>2
<1>9. Searching(recorder[t])'
  <2>1. Searching(recorder[t])
    BY DEF Accounts, Searches
  <2>2. \A k \in 0..(BUCKET_COUNT - 1) : (r.start + k) % BUCKET_COUNT \in Buckets
    BY <1>1, TriedInRange, TracingAssumption
  <2>3. \A c \in Buckets : Full(c) => Full(c)'
    BY <1>4, StaysFull DEF IInv
  <2> QED
    BY <1>1, <1>2, <1>r, <2>1, <2>2, <2>3 DEF Searching, Full
<1>10. Written(recorder[t])'
  <2>1. r.what = "string" => blocks[b][r.event].type = "EVENT_BLOCK" /\ blocks[b][r.event].id = r.id
    BY <1>1, <1>r DEF Accounts, Contents, Written
  <2>2. recorder'[t].what = "string" => /\ blocks'[Bucket(recorder'[t])][recorder'[t].event].type = "EVENT_BLOCK"
                             /\ blocks'[Bucket(recorder'[t])][recorder'[t].event].id = recorder'[t].id
    BY <1>1, <1>2, <1>r, <2>1
  <2>3. recorder'[t].pc # "copy"
    BY <1>2, <1>r
  <2> QED
    BY <2>2, <2>3 DEF Written
<1>11. recorder[t].id \notin recorded /\ recorder[t].pc # "idle"
  BY <1>1, <1>r DEF IInv, Identities
<1> QED
  BY <1>1, <1>4, <1>5, <1>6, <1>7, <1>8, <1>9, <1>10, <1>11, RecorderAccounts

\* A search over BUCKET_COUNT buckets has tried each.
LEMMA AllTried ==
  ASSUME NEW r \in Call, NEW c \in Buckets
  PROVE  \E k \in 0..(BUCKET_COUNT - 1) : (r.start + k) % BUCKET_COUNT = c
<1>1. r.start \in 0..(BUCKET_COUNT - 1) /\ c \in 0..(BUCKET_COUNT - 1) /\ BUCKET_COUNT \in Nat \ {0}
  BY TracingAssumption DEF Call, Buckets
<1>2. c % BUCKET_COUNT = c /\ (c + BUCKET_COUNT) % BUCKET_COUNT = c
  BY <1>1, RoundTrip
<1>3. CASE c >= r.start
  <2>1. c - r.start \in 0..(BUCKET_COUNT - 1) /\ r.start + (c - r.start) = c
    BY <1>1, <1>3
  <2> QED
    BY <1>2, <2>1
<1>4. CASE c < r.start
  <2>1. /\ c - r.start + BUCKET_COUNT \in 0..(BUCKET_COUNT - 1)
        /\ r.start + (c - r.start + BUCKET_COUNT) = c + BUCKET_COUNT
    BY <1>1, <1>4
  <2> QED
    BY <1>2, <2>1
<1> QED
  BY <1>1, <1>3, <1>4

\* The bucket whose addition is undone remains full: an event goes on to the next one or, if
\* that was the last, is dropped; a string gives its event the constant.
LEMMA UndoAccounts ==
  ASSUME ProgramAssumption, IInv, IInv', Accounts, NEW t \in Recorder, Undo(t)
  PROVE  Accounts'
<1>r. PICK r, b, i : r = recorder[t] /\ b = Bucket(r) /\ i = blocks_next[b]
  OBVIOUS
<1>f. UndoEffect(t, r, b, i)
  BY <1>r, UndoFacts
<1>1. /\ r.pc = "undo" /\ r \in Call /\ b \in Buckets /\ r # Idle
      /\ r.event \in Slots /\ r.tries \in Nat /\ r.what \in {"event", "string"}
      /\ UNCHANGED <<initialized, tracing_p, finish, events, history>> /\ OnlyCaller(t)
  BY <1>f DEF UndoEffect
<1>2. /\ MoreTries(r) => /\ recorder'[t].pc = "grow" /\ recorder'[t].what = "event"
                         /\ recorder'[t].start = r.start /\ recorder'[t].tries = r.tries + 1
      /\ ~MoreTries(r) => recorder'[t].pc = "idle"
  BY <1>f DEF UndoEffect
<1>3. /\ i \in Nat /\ i >= Capacity /\ blocks_next'[b] >= Capacity /\ blocks_next'[b] <= i
      /\ \A c \in Buckets : c # b => blocks_next'[c] = blocks_next[c]
  BY <1>f DEF UndoEffect
<1>4. /\ r.what = "event" => blocks' = blocks /\ recorded' = recorded
                             /\ dropped' = IF MoreTries(r) THEN dropped ELSE dropped \cup {r.id}
      /\ r.what = "string" => recorded' = recorded \cup {r.id} /\ dropped' = dropped
  BY <1>f DEF UndoEffect
<1>5. r.id \notin recorded /\ recorder[t].pc # "idle"
  BY <1>1, <1>r DEF IInv, Identities
<1>7. \A c \in Buckets : c = b => Full(c)'
  BY <1>3 DEF Full
<1>9. r.what = "string" =>
        /\ \A c \in Buckets, j \in Slots : c # b \/ j # r.event => blocks'[c][j] = blocks[c][j]
        /\ blocks'[b][r.event].type = "EVENT_BLOCK" /\ blocks'[b][r.event].id = r.id
        /\ blocks'[b][r.event].str = "OutOfArgMemory"
        /\ blocks[b][r.event].id = r.id
  <2> HAVE r.what = "string"
  <2>0. PICK new : new = [blocks[b][r.event] EXCEPT !.str = "OutOfArgMemory"]
    OBVIOUS
  <2>1. blocks' = [blocks EXCEPT ![b] = [blocks[b] EXCEPT ![r.event] = new]]
    BY <1>f, <2>0 DEF UndoEffect
  <2>2. blocks \in [Buckets -> [Slots -> Block]]
    BY DEF IInv, Types
  <2>3. blocks[b][r.event].type = "EVENT_BLOCK" /\ blocks[b][r.event].id = r.id
    BY <1>1, <1>r DEF Accounts, Contents, Written
  <2>4. blocks[b][r.event] \in Block
    BY <1>1, <2>2
  <2>5. new \in Block /\ new.type = "EVENT_BLOCK" /\ new.id = r.id /\ new.str = "OutOfArgMemory"
    BY <2>0, <2>3, <2>4 DEF Block
  <2> QED
    BY <1>1, <2>1, <2>2, <2>3, <2>5, BlockUpdate
<1>10. Keeps
  <2>1. ASSUME NEW j \in Slots PROVE j < blocks_next'[b]
    <3>1. blocks_next'[b] \in Nat /\ blocks_next'[b] >= Capacity
      BY <1>1, <1>3, TracingAssumption DEF IInv, Types
    <3> QED
      BY <3>1, TracingAssumption DEF Slots
  <2> QED
    BY <1>3, <2>1 DEF Keeps
<1>11. \A c, j : Owns(r, c, j) <=> c = b /\ r.what = "string" /\ j = r.event
  BY <1>1, <1>r DEF Owns
<1>12. Touches(t)
  BY <1>1, <1>4, <1>9, <1>11, <1>r DEF Touches
<1>13. \A c, j : Owns(recorder[t], c, j) => blocks'[c][j].id \in recorded'
  <2> SUFFICES ASSUME NEW c, NEW j, Owns(r, c, j) PROVE blocks'[c][j].id \in recorded'
    BY <1>r
  <2>1. c = b /\ j = r.event /\ r.what = "string"
    BY <1>11
  <2> QED
    BY <1>4, <1>9, <2>1
<1>14. \A c, j : ~Owns(recorder'[t], c, j)
  BY <1>2 DEF Owns
<1>6. \A c \in Buckets : Full(c) \/ \A j \in Slots : j < blocks_next'[c] => j < blocks_next[c]
  BY <1>3, <1>r DEF Full
<1>15. \A c \in Buckets : Full(c) => Full(c)'
  BY <1>10, StaysFull DEF IInv
<1>16. Searching(r)
  BY <1>r DEF Accounts, Searches
<1>17. Searching(recorder[t])'
  <2>1. \A k \in 0..(BUCKET_COUNT - 1) : (r.start + k) % BUCKET_COUNT \in Buckets
    BY <1>1, TriedInRange, TracingAssumption
  <2>2. \A k \in 0..(BUCKET_COUNT - 1) : k < r.tries + 1 /\ MoreTries(r)
          => Full((r.start + k) % BUCKET_COUNT)'
    <3> SUFFICES ASSUME NEW k \in 0..(BUCKET_COUNT - 1), k < r.tries + 1, MoreTries(r),
                        NEW c \in Buckets, c = (r.start + k) % BUCKET_COUNT
                 PROVE  Full(c)'
      BY <2>1 DEF Full
    <3>0. r.what = "event"
      BY DEF MoreTries
    <3>1. CASE k < r.tries
      BY <1>1, <1>15, <1>16, <3>0, <3>1 DEF Searching
    <3>2. CASE k = r.tries
      BY <1>7, <1>r, <3>2 DEF Bucket
    <3> QED
      BY <1>1, <3>1, <3>2
  <2>3. MoreTries(r) => r.tries + 1 < BUCKET_COUNT
    BY DEF MoreTries
  <2> QED
    BY <1>2, <2>2, <2>3 DEF Searching, Full
<1>18. dropped' = dropped \/ \A c \in Buckets : Full(c)'
  <2> SUFFICES ASSUME r.what = "event", ~MoreTries(r), NEW c \in Buckets PROVE Full(c)'
    BY <1>1, <1>4
  <2>1. r.tries = BUCKET_COUNT - 1
    BY <1>1, <1>16, TracingAssumption DEF Searching, MoreTries
  <2>2. PICK k \in 0..(BUCKET_COUNT - 1) : (r.start + k) % BUCKET_COUNT = c
    BY <1>1, AllTried
  <2>3. CASE k < r.tries
    BY <1>1, <1>15, <1>16, <2>2, <2>3 DEF Searching
  <2>4. CASE k = r.tries
    BY <1>7, <1>r, <2>2, <2>4 DEF Bucket
  <2> QED
    BY <2>1, <2>3, <2>4, TracingAssumption
<1>19. Written(recorder[t])'
  BY <1>2 DEF Written
<1>20. ASSUME NEW id \in recorded', id = recorder[t].id PROVE HasOneBlock(id)'
  <2>1. r.what = "string"
    BY <1>1, <1>4, <1>5, <1>20, <1>r
  <2>2. EventAt(b, r.event, id)' /\ StringOf(b, r.event)'
    BY <1>9, <1>20, <1>r, <2>1 DEF EventAt, StringOf
  <2>3. ASSUME NEW c \in Buckets, NEW j \in Slots, EventAt(c, j, id)' PROVE c = b /\ j = r.event
    <3> SUFFICES ASSUME c # b \/ j # r.event PROVE FALSE
      OBVIOUS
    <3>1. blocks[c][j].id = r.id
      BY <1>9, <1>20, <1>r, <2>1, <2>3 DEF EventAt
    <3> QED
      BY <1>1, <1>r, <3>1 DEF IInv, Identities
  <2> QED
    BY <1>1, <2>2, <2>3 DEF HasOneBlock
<1>21. recorded \subseteq recorded' /\ recorded' \subseteq recorded \cup {recorder[t].id}
  BY <1>1, <1>4, <1>r
<1> QED
  BY <1>1, <1>5, <1>6, <1>10, <1>12, <1>13, <1>14, <1>17, <1>18, <1>19, <1>20, <1>21, RecorderAccounts

\* The header says what the block is for.
LEMMA StampAccounts ==
  ASSUME IInv, IInv', Accounts, NEW t \in Recorder, Stamp(t)
  PROVE  Accounts'
<1>r. PICK r, b, s : r = recorder[t] /\ b = Bucket(r) /\ s = [r EXCEPT !.pc = "copy"]
  BY Zenon
<1>1. r.pc = "stamp" /\ r \in Call /\ b \in Buckets /\ r.at \in Given(r)
  BY <1>r, StampFacts, GivenFacts
<1>2. /\ UNCHANGED <<initialized, finish, events, blocks_next, recorded, dropped>>
      /\ OnlyCaller(t) /\ recorder'[t] = s
  BY <1>r DEF Stamp, ghosts, IInv, Types, OnlyCaller
<1>3. /\ s.pc = "copy" /\ s.id = r.id /\ s.what = r.what /\ s.event = r.event /\ s.at = r.at
      /\ s.start = r.start /\ s.tries = r.tries /\ Bucket(s) = b /\ Given(s) = Given(r)
  BY <1>r, StampFacts
<1>4. /\ \A c \in Buckets, j \in Slots : blocks'[c][j].id = blocks[c][j].id
      /\ \A c \in Buckets, j \in Slots : c # b \/ j # r.at => blocks'[c][j] = blocks[c][j]
      /\ blocks'[b][r.at].type = IF r.what = "event" THEN "EVENT_BLOCK" ELSE "STR_BLOCK"
  BY <1>r, StampFacts
<1>5. \A c, j : Owns(recorder'[t], c, j) <=> Owns(recorder[t], c, j)
  BY <1>1, <1>2, <1>3, <1>r DEF Owns
<1>6. Keeps
  BY <1>2 DEF Keeps
<1>7. Touches(t)
  BY <1>1, <1>4, <1>r DEF Touches, Owns
<1>8. \A c, j : Owns(recorder'[t], c, j) => c \in Buckets
  BY <1>1, <1>5, <1>r DEF Owns
<1>9. Searching(recorder[t])'
  <2>1. Searching(r)
    BY <1>r DEF Accounts, Searches
  <2> QED
    BY <1>1, <1>2, <1>3, <2>1 DEF Searching, Full
<1>10. Written(recorder[t])'
  <2>1. r.what = "string" => /\ blocks[b][r.event].type = "EVENT_BLOCK" /\ blocks[b][r.event].id = r.id
                             /\ r.event # r.at /\ r.event \in Slots
    BY <1>1, <1>r, GivenFacts DEF Accounts, Contents, Written, IInv, Ownership
  <2>2. r.what = "string" => blocks'[b][r.event] = blocks[b][r.event]
    BY <1>1, <1>4, <2>1
  <2> QED
    BY <1>2, <1>3, <1>4, <2>1, <2>2 DEF Written
<1>11. \A c \in Buckets, j \in Slots : j < blocks_next'[c] => j < blocks_next[c]
  BY <1>2
<1>12. recorder[t].pc # "idle" /\ recorder[t].id \notin recorded
  BY <1>1, <1>r, IdleIsNoCall DEF IInv, Identities
<1> QED
  BY <1>2, <1>5, <1>6, <1>7, <1>8, <1>9, <1>10, <1>11, <1>12, RecorderAccounts

\* An event without a string is recorded; one with a string keeps its block.
LEMMA CopyEventAccounts ==
  ASSUME ProgramAssumption, IInv, IInv', Accounts, NEW t \in Recorder, CopyEvent(t)
  PROVE  Accounts'
<1>r. PICK r, b : r = recorder[t] /\ b = Bucket(r)
  OBVIOUS
<1>f. CopyEventEffect(t, r, b)
  BY <1>r, CopyEventFacts
<1>1. /\ r.pc = "copy" /\ r.what = "event" /\ r \in Call /\ b \in Buckets /\ r.at \in Slots
      /\ \A c, j : Owns(r, c, j) <=> c = b /\ j = r.at
  BY <1>f DEF CopyEventEffect
<1>2. UNCHANGED <<initialized, finish, events, blocks_next, dropped>> /\ OnlyCaller(t)
  BY <1>f DEF CopyEventEffect
<1>3. /\ r.size = 0 => recorder'[t].pc = "idle" /\ recorded' = recorded \cup {r.id}
      /\ r.size # 0 => /\ recorder'[t].pc = "grow" /\ recorder'[t].what = "string"
                       /\ recorder'[t].event = r.at /\ recorder'[t].id = r.id
                       /\ Bucket(recorder'[t]) = b /\ recorded' = recorded
  BY <1>f DEF CopyEventEffect
<1>4. /\ \A c \in Buckets, j \in Slots : c # b \/ j # r.at => blocks'[c][j] = blocks[c][j]
      /\ blocks'[b][r.at].id = r.id /\ blocks'[b][r.at].type = blocks[b][r.at].type
      /\ r.size = 0 => blocks'[b][r.at].str = "none"
  BY <1>f DEF CopyEventEffect
<1>5. blocks'[b][r.at].type = "EVENT_BLOCK"
  BY <1>1, <1>4, <1>r DEF Accounts, Contents, Written
<1>6. Keeps
  BY <1>2 DEF Keeps
<1>7. Touches(t)
  BY <1>1, <1>4, <1>r DEF Touches
<1>8. ASSUME NEW c, NEW j, Owns(recorder[t], c, j)
      PROVE  Owns(recorder'[t], c, j) \/ blocks'[c][j].id \in recorded'
  <2>1. c = b /\ j = r.at
    BY <1>1, <1>8, <1>r
  <2>2. CASE r.size = 0
    BY <1>3, <1>4, <2>1, <2>2
  <2>3. CASE r.size # 0
    BY <1>3, <2>1, <2>3 DEF Owns
  <2> QED
    BY <2>2, <2>3
<1>9. \A c, j : Owns(recorder'[t], c, j) => c \in Buckets /\ Owns(recorder[t], c, j)
  BY <1>1, <1>3, <1>r DEF Owns
<1>10. Searching(recorder[t])' /\ Written(recorder[t])'
  BY <1>1, <1>3, <1>4, <1>5 DEF Searching, Written
<1>11. ASSUME NEW id \in recorded', id = recorder[t].id PROVE HasOneBlock(id)'
  <2>0. recorder[t] # Idle /\ r.id \notin recorded
    BY <1>1, <1>r, IdleIsNoCall DEF IInv, Identities
  <2>1. r.size = 0
    BY <1>3, <1>11, <1>r, <2>0
  <2>2. EventAt(b, r.at, id)' /\ StringOf(b, r.at)'
    BY <1>4, <1>5, <1>11, <1>r, <2>1 DEF EventAt, StringOf
  <2>3. ASSUME NEW c \in Buckets, NEW j \in Slots, EventAt(c, j, id)' PROVE c = b /\ j = r.at
    <3> SUFFICES ASSUME c # b \/ j # r.at PROVE FALSE
      OBVIOUS
    <3>1. blocks[c][j].id = r.id
      BY <1>4, <1>11, <1>r, <2>3 DEF EventAt
    <3> QED
      BY <1>1, <1>r, <2>0, <3>1 DEF IInv, Identities
  <2> QED
    BY <1>1, <2>2, <2>3 DEF HasOneBlock
<1>12. recorded \subseteq recorded' /\ recorded' \subseteq recorded \cup {recorder[t].id}
  BY <1>3, <1>r
<1>13. recorder[t].pc # "idle" /\ \A c \in Buckets, j \in Slots : j < blocks_next'[c] => j < blocks_next[c]
  BY <1>1, <1>2, <1>r
<1> QED
  BY <1>2, <1>6, <1>7, <1>8, <1>9, <1>10, <1>11, <1>12, <1>13, RecorderAccounts

\* The string has blocks of its own, to the first of which the event points.
LEMMA CopyStringAccounts ==
  ASSUME IInv, IInv', Accounts, NEW t \in Recorder, CopyString(t)
  PROVE  Accounts'
<1>r. PICK r, b : r = recorder[t] /\ b = Bucket(r)
  OBVIOUS
<1>f. CopyStringEffect(t, r, b)
  BY <1>r, CopyStringFacts
<1>1. /\ r.pc = "copy" /\ r.what = "string" /\ r \in Call /\ b \in Buckets
      /\ r.event \in Slots /\ r.event \notin Given(r) /\ r.at \in Given(r) /\ Given(r) \subseteq Slots
      /\ \A c, j : Owns(r, c, j) <=> c = b /\ (j \in Given(r) \/ j = r.event)
  BY <1>f DEF CopyStringEffect
<1>2. /\ UNCHANGED <<initialized, finish, events, blocks_next, dropped>> /\ OnlyCaller(t)
      /\ recorder'[t] = Idle /\ recorder'[t].pc = "idle" /\ recorded' = recorded \cup {r.id}
  BY <1>f DEF CopyStringEffect
<1>3. /\ blocks[b][r.event].type = "EVENT_BLOCK" /\ blocks[b][r.event].id = r.id
      /\ blocks[b][r.at].type = "STR_BLOCK"
  <2>1. Written(r)
    BY <1>r DEF Accounts, Contents
  <2> QED
    BY <1>1, <1>r, <2>1 DEF Written
<1>4. \A c \in Buckets, j \in Slots :
        c # b \/ (j \notin Given(r) /\ j # r.event) => blocks'[c][j] = blocks[c][j]
  BY <1>f DEF CopyStringEffect
<1>5. \A j \in Given(r) : /\ blocks'[b][j].id = r.id
                          /\ blocks'[b][j].type = IF j = r.at THEN blocks[b][j].type ELSE "text"
  BY <1>f DEF CopyStringEffect
<1>6. /\ blocks'[b][r.event].type = "EVENT_BLOCK" /\ blocks'[b][r.event].id = r.id
      /\ blocks'[b][r.event].str = "copy" /\ blocks'[b][r.event].strAt = r.at
  BY <1>3, <1>f DEF CopyStringEffect
<1>7. Keeps
  BY <1>2 DEF Keeps
<1>8. Touches(t)
  <2> SUFFICES ASSUME NEW c \in Buckets, NEW j \in Slots, blocks'[c][j] # blocks[c][j]
               PROVE  Owns(recorder[t], c, j) /\ blocks'[c][j].id = recorder[t].id
    BY DEF Touches
  <2>1. c = b /\ (j \in Given(r) \/ j = r.event)
    BY <1>4
  <2> QED
    BY <1>1, <1>5, <1>6, <1>r, <2>1
<1>9. ASSUME NEW c, NEW j, Owns(recorder[t], c, j) PROVE blocks'[c][j].id \in recorded'
  <2>1. c = b /\ (j \in Given(r) \/ j = r.event)
    BY <1>1, <1>9, <1>r
  <2> QED
    BY <1>2, <1>5, <1>6, <2>1
<1>10. Searching(recorder[t])' /\ Written(recorder[t])'
  BY <1>2 DEF Searching, Written
<1>11. ASSUME NEW id \in recorded', id = recorder[t].id PROVE HasOneBlock(id)'
  <2>1. StringOf(b, r.event)'
    BY <1>1, <1>3, <1>5, <1>6 DEF StringOf
  <2>2. EventAt(b, r.event, id)'
    BY <1>6, <1>11, <1>r DEF EventAt
  <2>3. ASSUME NEW c \in Buckets, NEW j \in Slots, EventAt(c, j, id)' PROVE c = b /\ j = r.event
    <3>1. CASE c = b /\ j \in Given(r)
      BY <1>3, <1>5, <2>3, <3>1 DEF EventAt
    <3>2. CASE c # b \/ j \notin Given(r)
      <4> SUFFICES ASSUME c # b \/ j # r.event PROVE FALSE
        OBVIOUS
      <4>1. blocks[c][j].id = r.id
        BY <1>4, <1>11, <1>r, <2>3, <3>2 DEF EventAt
      <4>2. recorder[t] # Idle
        BY <1>1, <1>r, IdleIsNoCall
      <4> QED
        BY <1>r, <4>1, <4>2 DEF IInv, Identities
    <3> QED
      BY <3>1, <3>2
  <2> QED
    BY <1>1, <2>1, <2>2, <2>3 DEF HasOneBlock
<1>12. recorded \subseteq recorded' /\ recorded' \subseteq recorded \cup {recorder[t].id}
  BY <1>2, <1>r
<1>13. \A c, j : ~Owns(recorder'[t], c, j)
  BY <1>2 DEF Owns
<1>14. recorder[t].pc # "idle" /\ \A c \in Buckets, j \in Slots : j < blocks_next'[c] => j < blocks_next[c]
  BY <1>1, <1>2, <1>r
<1> QED
  BY <1>2, <1>7, <1>8, <1>9, <1>10, <1>11, <1>12, <1>13, <1>14, RecorderAccounts

-----------------------------------------------------------------------------
(* The steps of the controlling thread *)

\* Whoever looks for the next block while nothing but the report moves on finds all as before.
LEMMA ControlAccounts ==
  ASSUME IInv, IInv', Accounts, UNCHANGED <<initialized, recorder, blocks, recorded, dropped>>,
         ~Resetting, Keeps, \A b \in Buckets : Used(b)' = Used(b), Stages', Reports'
  PROVE  Accounts'
<1>1. \A b \in Buckets : Full(b) => Full(b)'
  BY StaysFull DEF IInv
<1>2. Searches'
  <2>1. ASSUME NEW t \in Recorder PROVE Searching(recorder[t])'
    <3>1. CASE recorder[t] = Idle
      BY <3>1, IdleIsNoCall DEF Searching
    <3>2. CASE recorder[t] \in Call
      BY <3>2, SearchingStays DEF IInv, Accounts, Searches
    <3> QED
      BY <3>1, <3>2 DEF IInv, Types
  <2> QED
    BY <1>1, <2>1 DEF Accounts, Searches
<1>3. Filled'
  BY DEF Accounts, Filled
<1>4. Contents'
  <2>1. \A id : HasOneBlock(id)' = HasOneBlock(id)
    BY DEF HasOneBlock, EventAt, StringOf
  <2>2. \A t \in Recorder : Written(recorder[t])'
    BY DEF Accounts, Contents, Written
  <2> QED
    BY <2>1, <2>2 DEF Accounts, Contents
<1> QED
  BY <1>2, <1>3, <1>4 DEF Accounts

\* Where the report is not about to begin or to end
LEMMA IdleUsed ==
  ASSUME finish = Idle PROVE finish.pc = "idle" /\ ~Resetting /\ \A b : Used(b) = blocks_next[b]
  BY IdleIsNoCall DEF Used, Stored, Resetting

LEMMA SetStartedAccounts ==
  ASSUME IInv, IInv', Accounts, NEW started \in BOOLEAN, setStarted(started) PROVE Accounts'
<1>1. /\ finish = Idle
      /\ UNCHANGED <<initialized, recorder, finish, blocks_next, blocks, recorded, dropped>>
  BY DEF setStarted, shared, ghosts
<1>2. Keeps
  BY <1>1 DEF Keeps
<1>3. Stages'
  BY <1>1, IdleUsed DEF Accounts, Stages, Stored
<1>4. Reports'
  BY <1>1 DEF Reports
<1>5. \A b \in Buckets : Used(b)' = Used(b)
  BY <1>1 DEF Used, Stored
<1> QED
  BY <1>1, <1>2, <1>3, <1>4, <1>5, IdleUsed, ControlAccounts

LEMMA FinishAccounts ==
  ASSUME IInv, IInv', Accounts, NEW good \in BOOLEAN, Finish(good) PROVE Accounts'
<1>1. /\ finish = Idle /\ initialized
      /\ finish'.pc \in {"load", "reset"} /\ finish'.bucket = 0 /\ ~finish'.reported
      /\ UNCHANGED <<initialized, recorder, blocks_next, blocks, recorded, dropped>>
  BY DEF Finish, shared, ghosts
<1>2. Keeps
  BY <1>1 DEF Keeps
<1>3. \A b \in Buckets : ~(b < 0)
  BY DEF Buckets
<1>5. Reports'
  BY <1>1 DEF Reports
<1>6. \A b \in Buckets : ~Stored(b)'
  BY <1>1, <1>3 DEF Stored
<1>4. Stages'
  BY <1>1, <1>3, <1>6 DEF Stages
<1>7. \A b \in Buckets : Used(b)' = Used(b)
  BY <1>1, <1>6, IdleUsed DEF Used
<1> QED
  BY <1>1, <1>2, <1>4, <1>5, <1>7, IdleUsed, ControlAccounts

\* The report remembers the counter it is about to replace.
LEMMA LoadNextAccounts ==
  ASSUME IInv, IInv', Accounts, LoadNext PROVE Accounts'
<1>1. /\ finish.pc = "load"
      /\ finish' = [finish EXCEPT !.pc = "store",
                                  !.records_per_bucket[finish.bucket] = blocks_next[finish.bucket]]
      /\ UNCHANGED <<initialized, recorder, blocks_next, blocks, recorded, dropped>>
  BY DEF LoadNext, shared, ghosts
<1>2. finish \in Report /\ finish # Idle /\ initialized /\ finish.bucket \in Buckets /\ ~finish.reported
  BY <1>1, FinishFacts DEF Accounts, Stages
<1>3. /\ finish'.pc = "store" /\ finish'.bucket = finish.bucket /\ finish'.reported = finish.reported
      /\ \A b \in Buckets : b # finish.bucket
           => finish'.records_per_bucket[b] = finish.records_per_bucket[b]
  BY <1>1, <1>2 DEF Report
<1>4. \A b \in Buckets : /\ Stored(b) <=> b < finish.bucket
                         /\ Stored(b)' <=> b < finish.bucket
  BY <1>1, <1>3 DEF Stored
<1>5. Stages'
  BY <1>1, <1>2, <1>3, <1>4 DEF Accounts, Stages, Full, Resetting
<1>6. Reports'
  BY <1>2, <1>3 DEF Reports
<1>7. \A b \in Buckets : b < finish.bucket => b # finish.bucket
  BY <1>2 DEF Buckets
<1>8. \A b \in Buckets : Used(b)' = Used(b)
  BY <1>1, <1>3, <1>4, <1>7 DEF Used
<1>9. Keeps
  BY <1>1 DEF Keeps
<1> QED
  BY <1>1, <1>5, <1>6, <1>8, <1>9, ControlAccounts DEF Resetting

\* The counter is replaced, what the report remembers of it is not.
LEMMA StoreCapacityAccounts ==
  ASSUME IInv, IInv', Accounts, StoreCapacity, Intact' PROVE Accounts'
<1>r. PICK b : b = finish.bucket
  OBVIOUS
<1>f. StoreEffect(b)
  BY <1>r, StoreFacts
<1>1. /\ finish.pc = "store" /\ b = finish.bucket /\ b \in Buckets /\ initialized /\ ~Resetting
      /\ UNCHANGED <<initialized, recorder, blocks, recorded, dropped>>
      /\ finish'.pc = (IF b + 1 = BUCKET_COUNT THEN "collect" ELSE "load")
      /\ finish'.bucket = (IF b + 1 = BUCKET_COUNT THEN 0 ELSE b + 1)
      /\ finish'.reported = finish.reported /\ finish'.records_per_bucket = finish.records_per_bucket
  BY <1>f DEF StoreEffect
<1>2. \A c \in Buckets : blocks_next'[c] = IF c = b THEN Capacity ELSE blocks_next[c]
  BY <1>f DEF StoreEffect
<1>3. finish.records_per_bucket[b] = blocks_next[b]
  BY <1>1, <1>f DEF StoreEffect, Intact, CounterInUse
<1>4. ~finish.reported
  BY <1>1, FinishFacts DEF Accounts, Stages
<1>5. \A c \in Buckets : /\ Stored(c) <=> c < b
                         /\ Stored(c)' <=> c < b \/ c = b
  BY <1>1 DEF Stored, Buckets
<1>6. Stages'
  <2>1. \A c \in Buckets : Stored(c)' => Full(c)'
    BY <1>1, <1>2, <1>5, TracingAssumption DEF Accounts, Stages, Full
  <2> QED
    BY <1>1, <1>4, <2>1 DEF Stages
<1>7. Reports'
  BY <1>1, <1>4 DEF Reports
<1>8. \A c \in Buckets : c < b => c # b
  BY <1>1 DEF Buckets
<1>9. \A c \in Buckets : Used(c)' = Used(c)
  BY <1>1, <1>2, <1>3, <1>5, <1>8 DEF Used
<1>10. Keeps
  BY <1>2, TracingAssumption DEF Keeps, Slots
<1> QED
  BY <1>1, <1>6, <1>7, <1>9, <1>10, ControlAccounts

\* The blocks that a report takes for events are those of the recorded events, one each.
LEMMA CollectedEvents ==
  ASSUME IInv, Accounts, NobodyWrites, initialized, ~Resetting,
         NEW R, R = {place \in Buckets \X Slots :
                       place[2] < Used(place[1]) /\ blocks[place[1]][place[2]].type = "EVENT_BLOCK"}
  PROVE  /\ {blocks[place[1]][place[2]].id : place \in R} = recorded
         /\ Cardinality(R) = Cardinality(recorded)
         /\ \A place \in R : StringOf(place[1], place[2])
<1> DEFINE f == [place \in R |-> blocks[place[1]][place[2]].id]
<1>1. ASSUME NEW b \in Buckets, NEW i \in Slots
      PROVE  /\ i < Used(b) => blocks[b][i].id \in recorded
             /\ i >= Used(b) => blocks[b][i].id \notin recorded
  BY DEF Accounts, Filled, NobodyWrites
<1>2. \A b \in Buckets, i \in Slots : i < Used(b) \/ i >= Used(b)
  <2>1. \A b \in Buckets : blocks_next[b] \in Nat
    BY TracingAssumption DEF IInv, Types
  <2>2. \A b \in Buckets : Stored(b) => finish.records_per_bucket[b] \in Nat
    <3>1. \A b \in Buckets : Stored(b) => finish \in Report
      BY FinishFacts DEF Stored
    <3> QED
      BY <3>1 DEF Report
  <2> QED
    BY <2>1, <2>2 DEF Used, Slots
<1>3. ASSUME NEW place \in R
      PROVE  /\ place[1] \in Buckets /\ place[2] \in Slots
             /\ place = <<place[1], place[2]>>
             /\ blocks[place[1]][place[2]].id \in recorded
             /\ EventAt(place[1], place[2], blocks[place[1]][place[2]].id)
  BY <1>1, <1>3 DEF EventAt
<1>4. ASSUME NEW place \in R, NEW other \in R,
             blocks[place[1]][place[2]].id = blocks[other[1]][other[2]].id
      PROVE  place = other /\ StringOf(place[1], place[2])
  <2>1. PICK id \in recorded : id = blocks[place[1]][place[2]].id
    BY <1>3
  <2>2. PICK b \in Buckets, i \in Slots :
          /\ StringOf(b, i)
          /\ \A c \in Buckets, j \in Slots : EventAt(c, j, id) => c = b /\ j = i
    BY DEF Accounts, Contents, HasOneBlock
  <2>3. place[1] = b /\ place[2] = i /\ other[1] = b /\ other[2] = i
    BY <1>3, <1>4, <2>1, <2>2
  <2> QED
    BY <1>3, <2>2, <2>3
<1>5. ASSUME NEW id \in recorded PROVE \E place \in R : blocks[place[1]][place[2]].id = id
  <2>1. PICK b \in Buckets, i \in Slots : EventAt(b, i, id)
    BY DEF Accounts, Contents, HasOneBlock
  <2>2. i < Used(b)
    BY <1>1, <1>2, <2>1 DEF EventAt
  <2>3. <<b, i>> \in R
    BY <2>1, <2>2 DEF EventAt
  <2> WITNESS <<b, i>> \in R
  <2> QED
    BY <2>1 DEF EventAt
<1>6. f \in Bijection(R, recorded)
  <2>1. f \in [R -> recorded]
    BY <1>3
  <2>2. \A place, other \in R : f[place] = f[other] => place = other
    BY <1>4
  <2>3. \A id \in recorded : \E place \in R : f[place] = id
    BY <1>5
  <2> QED
    BY <2>1, <2>2, <2>3 DEF Bijection, Injection, Surjection, IsInjective
<1>7. Cardinality(R) = Cardinality(recorded)
  <2>1. IsFiniteSet(R)
    <3>1. IsFiniteSet(Buckets) /\ IsFiniteSet(Slots)
      BY FS_Interval, TracingAssumption DEF Buckets, Slots
    <3>2. IsFiniteSet(Buckets \X Slots)
      BY <3>1, FS_Product
    <3> QED
      BY <3>2, FS_Subset
  <2>2. ExistsBijection(R, recorded)
    BY <1>6 DEF ExistsBijection
  <2> QED
    BY <2>1, <2>2, FS_Bijection
<1> QED
  BY <1>3, <1>4, <1>5, <1>7

LEMMA CollectAccounts ==
  ASSUME IInv, IInv', Accounts, Collect, Intact' PROVE Accounts'
<1> DEFINE R == {place \in Buckets \X Slots :
                   place[2] < Used(place[1]) /\ blocks[place[1]][place[2]].type = "EVENT_BLOCK"}
           places == {place \in Buckets \X (0..(Capacity - 1)) :
                        /\ place[2] < RecordCount(place[1])
                        /\ blocks[place[1]][place[2]].type = "EVENT_BLOCK"}
<1>1. /\ finish.pc = "collect" /\ ~Resetting
      /\ finish' = [finish EXCEPT !.pc = "reset", !.reported = TRUE, !.report = places]
      /\ UNCHANGED <<initialized, recorder, blocks_next, blocks, recorded, dropped>>
      /\ \A t \in Recorder : ~Writing(t)
  BY DEF Collect, shared, Intact, Resetting
<1>2. finish \in Report /\ finish # Idle /\ initialized
  BY <1>1, FinishFacts
<1> HIDE DEF places
<1>3. /\ finish'.pc = "reset" /\ finish'.bucket = finish.bucket /\ finish'.reported
      /\ finish'.records_per_bucket = finish.records_per_bucket /\ finish'.report = places
  BY <1>1, <1>2 DEF Report
<1>4. \A b \in Buckets : Used(b) = finish.records_per_bucket[b] /\ Used(b)' = Used(b)
  BY <1>1, <1>3 DEF Used, Stored
<1>5. places = R
  BY <1>4 DEF RecordCount, Slots, places
<1>6. PICK S : S = R
  OBVIOUS
<1>11. NobodyWrites
  BY <1>1 DEF NobodyWrites, Writing, Owns
<1>7. /\ {blocks[place[1]][place[2]].id : place \in S} = recorded
      /\ Cardinality(S) = Cardinality(recorded)
      /\ \A place \in S : StringOf(place[1], place[2])
  BY <1>1, <1>2, <1>6, <1>11, CollectedEvents
<1>8. Reports'
  <2>1. finish'.report = S
    BY <1>3, <1>5, <1>6
  <2> QED
    BY <1>1, <1>7, <2>1 DEF Reports, ReportIsRight, StringOf
<1>9. Stages'
  <2>1. finish.bucket = 0 /\ \A b \in Buckets : ~(b < 0)
    BY <1>1 DEF IInv, Phases, Buckets
  <2>2. \A b \in Buckets : Full(b)
    BY <1>1 DEF Accounts, Stages, Stored
  <2>3. NobodyWrites'
    BY <1>1, <1>11 DEF NobodyWrites
  <2> QED
    BY <1>1, <1>2, <1>3, <2>1, <2>2, <2>3 DEF Stages, Full
<1>10. Keeps
  BY <1>1 DEF Keeps
<1> QED
  BY <1>1, <1>4, <1>8, <1>9, <1>10, ControlAccounts

LEMMA InitAccounts ==
  ASSUME IInv, IInv', Accounts, init PROVE Accounts'
<1>1. /\ Quiet /\ finish = Idle /\ recorded = {} /\ dropped = {}
      /\ UNCHANGED <<recorder, finish, recorded, dropped>>
      /\ blocks_next' = [b \in Buckets |-> 0]
  BY DEF init, ghosts, IInv, Phases, Accounts, Stages
<1>2. \A t \in Recorder : recorder'[t] = Idle /\ recorder'[t].pc = "idle"
  BY <1>1, QuietFacts
<1>3. finish'.pc = "idle" /\ \A b : ~Stored(b)'
  BY <1>1, IdleUsed DEF Stored
<1>4. Stages'
  BY <1>1, <1>3 DEF Stages
<1>5. Searches'
  BY <1>1, <1>2 DEF Searches, Searching
<1>6. Filled'
  <2>1. \A b \in Buckets : Used(b)' = 0
    BY <1>1, <1>3 DEF Used
  <2> QED
    BY <1>1, <1>2, <2>1, IdleOwnsNothing DEF Filled, Slots
<1>7. Contents'
  BY <1>1, <1>2 DEF Contents, Written
<1>8. Reports'
  BY <1>1 DEF Reports
<1> QED
  BY <1>4, <1>5, <1>6, <1>7, <1>8 DEF Accounts

LEMMA DestroyAccounts ==
  ASSUME IInv, IInv', Accounts, destroy PROVE Accounts'
<1>1. /\ Quiet /\ finish = Idle /\ ~initialized' /\ recorded' = {} /\ dropped' = {}
      /\ UNCHANGED <<recorder, finish>>
  BY DEF destroy
<1>2. \A t \in Recorder : recorder'[t] = Idle /\ recorder'[t].pc = "idle"
  BY <1>1, QuietFacts
<1>3. finish'.pc = "idle" /\ \A b : ~Stored(b)'
  BY <1>1, IdleUsed DEF Stored
<1>4. Stages'
  BY <1>1, <1>3 DEF Stages
<1>5. Searches'
  BY <1>1, <1>2 DEF Searches, Searching
<1>6. Filled'
  BY <1>1 DEF Filled
<1>7. Contents'
  BY <1>1, <1>2 DEF Contents, Written
<1>8. Reports'
  BY <1>1 DEF Reports
<1> QED
  BY <1>4, <1>5, <1>6, <1>7, <1>8 DEF Accounts

\* The reset empties one bucket after the other; with the last one, all is as after init.
LEMMA ResetAccounts ==
  ASSUME IInv, IInv', Accounts, Reset, Intact' PROVE Accounts'
<1> DEFINE last == finish.bucket + 1 = BUCKET_COUNT
<1>1. /\ finish.pc = "reset" /\ Quiet
      /\ finish' = IF last THEN Idle ELSE [finish EXCEPT !.bucket = finish.bucket + 1]
      /\ blocks_next' = [blocks_next EXCEPT ![finish.bucket] = 0]
      /\ recorded' = (IF last THEN {} ELSE recorded) /\ dropped' = (IF last THEN {} ELSE dropped)
      /\ UNCHANGED <<initialized, recorder, blocks>>
  BY DEF Reset, Following, Intact
<1>2. finish \in Report /\ finish # Idle /\ initialized /\ finish.bucket \in Buckets
  BY <1>1, FinishFacts
<1>3. \A t \in Recorder : recorder'[t] = Idle /\ recorder'[t].pc = "idle"
  BY <1>1, QuietFacts
<1>4. ~last => /\ finish'.pc = "reset" /\ finish'.bucket = finish.bucket + 1
               /\ finish'.reported = finish.reported /\ finish'.report = finish.report
  BY <1>1, <1>2 DEF Report
<1>5. last => finish' = Idle /\ finish'.pc = "idle"
  BY <1>1, IdleIsNoCall
<1>6. \A b \in Buckets : b <= finish.bucket => blocks_next'[b] = 0
  <2>1. \A b \in Buckets : blocks_next'[b] = IF b = finish.bucket THEN 0 ELSE blocks_next[b]
    BY <1>1, <1>2 DEF IInv, Types
  <2>2. \A b \in Buckets : b < finish.bucket => blocks_next[b] = 0
    BY <1>1 DEF Accounts, Stages
  <2> QED
    BY <1>2, <2>1, <2>2 DEF Buckets
<1>8. ~last => Resetting'
  BY <1>2, <1>4 DEF Resetting, Buckets
<1>7. Stages'
  <2>1. \A b \in Buckets : b < finish.bucket + 1 => b <= finish.bucket
    BY <1>2 DEF Buckets
  <2> QED
    BY <1>1, <1>2, <1>3, <1>4, <1>5, <1>6, <1>8, <2>1, IdleOwnsNothing DEF Stages, NobodyWrites, Stored
<1>9. Searches'
  BY <1>1, <1>3, <1>8 DEF Searches, Searching
<1>10. Filled'
  <2>1. CASE last
    <3>1. \A b \in Buckets : b <= finish.bucket
      BY <1>2, <2>1 DEF Buckets
    <3>2. \A b \in Buckets : Used(b)' = 0
      BY <1>5, <1>6, <2>1, <3>1 DEF Used, Stored
    <3> QED
      BY <1>1, <1>3, <2>1, <3>2, IdleOwnsNothing DEF Filled, Slots
  <2>2. CASE ~last
    BY <1>8, <2>2 DEF Filled
  <2> QED
    BY <2>1, <2>2
<1>11. Contents'
  <2>1. \A id : HasOneBlock(id)' = HasOneBlock(id)
    BY <1>1 DEF HasOneBlock, EventAt, StringOf
  <2>2. \A id \in recorded' : HasOneBlock(id)
    BY <1>1 DEF Accounts, Contents
  <2> QED
    BY <1>3, <2>1, <2>2 DEF Contents, Written
<1>12. Reports'
  <2>1. CASE last
    BY <1>5, <2>1 DEF Reports
  <2>2. CASE ~last
    BY <1>1, <1>2, <1>4, <2>2 DEF Accounts, Reports, ReportIsRight
  <2> QED
    BY <2>1, <2>2
<1> QED
  BY <1>7, <1>9, <1>10, <1>11, <1>12 DEF Accounts

-----------------------------------------------------------------------------
LEMMA InitiallyAccounts ==
  ASSUME Init PROVE Accounts
<1>1. Quiet /\ finish = Idle /\ ~initialized /\ recorded = {} /\ dropped = {}
  BY DEF Init, Quiet
<1>2. finish.pc = "idle" /\ \A t \in Recorder : recorder[t].pc = "idle"
  BY <1>1, IdleUsed, QuietFacts
<1> QED
  BY <1>1, <1>2 DEF Accounts, Stages, Searches, Searching, Filled, Contents, Written, Reports, Stored

LEMMA AccountsInvariance ==
  ASSUME ProgramAssumption, IInv, IInv', Accounts, [Next]_vars, Intact' PROVE Accounts'
<1>1. ASSUME NEW t \in Recorder, Recording(t) PROVE Accounts'
  BY <1>1, GrowAccounts, UndoAccounts, StampAccounts, CopyEventAccounts, CopyStringAccounts DEF Recording
<1>2. ASSUME NEW t \in Recorder, NEW start \in Buckets, NEW size \in StringSizes,
             Record(t, start, size)
      PROVE  Accounts'
  BY <1>2, RecordAccounts
<1>3. ASSUME init \/ destroy \/ Finishing PROVE Accounts'
  BY <1>3, InitAccounts, DestroyAccounts, LoadNextAccounts, StoreCapacityAccounts, CollectAccounts,
     ResetAccounts DEF Finishing
<1>4. ASSUME NEW started \in BOOLEAN, setStarted(started) PROVE Accounts'
  BY <1>4, SetStartedAccounts
<1>5. ASSUME NEW good \in BOOLEAN, Finish(good) PROVE Accounts'
  BY <1>5, FinishAccounts
<1>6. ASSUME UNCHANGED vars PROVE Accounts'
  <2>1. UNCHANGED <<initialized, blocks_next, blocks, recorder, finish, recorded, dropped>>
    BY <1>6 DEF vars, shared, ghosts
  <2>2. Stages' /\ Filled'
    BY <2>1 DEF Accounts, Stages, NobodyWrites, Full, Filled, Used, Stored, Resetting
  <2>3. Searches'
    BY <2>1 DEF Accounts, Searches, Searching, Full, Resetting
  <2>4. Contents'
    <3>1. \A id : HasOneBlock(id)' = HasOneBlock(id)
      BY <2>1 DEF HasOneBlock, EventAt, StringOf
    <3>2. \A t \in Recorder : Written(recorder[t])'
      BY <2>1 DEF Accounts, Contents, Written
    <3> QED
      BY <2>1, <3>1, <3>2 DEF Accounts, Contents
  <2>5. Reports'
    BY <2>1 DEF Accounts, Reports, ReportIsRight
  <2> QED
    BY <2>2, <2>3, <2>4, <2>5 DEF Accounts
<1> QED
  BY <1>1, <1>2, <1>3, <1>4, <1>5, <1>6 DEF Next, Calling

\* While nobody records, the counter of a bucket is the number of its blocks in use.
LEMMA CountersCount ==
  ASSUME IInv, Accounts, Quiet, finish = Idle, initialized, NEW b \in Buckets
  PROVE  blocks_next[b] = Cardinality({use \in InUse : use[1] = b})
<1> DEFINE S == {use \in InUse : use[1] = b}
           I == 0..(blocks_next[b] - 1)
           f == [i \in I |-> <<b, i>>]
<1>1. blocks_next[b] \in Nat /\ blocks_next[b] <= Capacity
  BY QuietCounters
<1>2. \A i \in Slots : i < blocks_next[b] => blocks[b][i].id \in recorded
  BY IdleUsed, QuietFacts DEF Accounts, Filled
<1>3. I \subseteq Slots /\ \A i \in I : i < blocks_next[b]
  BY <1>1, TracingAssumption DEF Slots
<1>4. \A i \in I : <<b, i>> \in S
  BY <1>2, <1>3 DEF InUse, Slots
<1>5. \A use \in S : use[2] \in I /\ use = <<b, use[2]>>
  BY <1>1 DEF InUse
<1>6. f \in Bijection(I, S)
  <2>1. f \in [I -> S]
    BY <1>4
  <2>2. \A i, j \in I : f[i] = f[j] => i = j
    OBVIOUS
  <2>3. \A use \in S : \E i \in I : f[i] = use
    BY <1>5
  <2> QED
    BY <2>1, <2>2, <2>3 DEF Bijection, Injection, Surjection, IsInjective
<1>7. IsFiniteSet(I) /\ Cardinality(I) = blocks_next[b]
  BY <1>1, FS_Interval
<1>8. ExistsBijection(I, S)
  BY <1>6 DEF ExistsBijection
<1> QED
  BY <1>7, <1>8, FS_Bijection

LEMMA AccountsAreRight ==
  ASSUME IInv, Accounts PROVE DroppedWhenFull /\ ReportIsComplete
<1>1. dropped # {} /\ finish = Idle => \A b \in Buckets : blocks_next[b] >= Capacity
  BY IdleUsed DEF Accounts, Searches, Full
<1> QED
  BY <1>1, CountersCount DEF DroppedWhenFull, ReportIsComplete, Accounts, Reports

LEMMA BothInvariant ==
  ASSUME ProgramAssumption PROVE Spec => [](Intact => IInv /\ Accounts)
<1>1. Init => (Intact => IInv /\ Accounts)
  BY Initially, InitiallyAccounts
<1>2. (Intact => IInv /\ Accounts) /\ [Next]_vars => (Intact => IInv /\ Accounts)'
  BY OnceIntact, Invariance, AccountsInvariance
<1> QED
  BY <1>1, <1>2, PTL DEF Spec

\* An event is dropped only where every bucket is full, and an addition that was undone leaves
\* the counter of its bucket with the blocks in use: however recorders contend for the
\* last blocks, none is lost and none is counted twice.
THEOREM NothingLost ==
  ASSUME ProgramAssumption PROVE Spec => []DroppedWhenFull
<1>1. (Intact => IInv /\ Accounts) => DroppedWhenFull
  BY AccountsAreRight DEF DroppedWhenFull
<1> QED
  BY <1>1, BothInvariant, PTL

\* A report has each event once that was recorded before it, with its string or the constant for
\* it, and nothing of an earlier report.  Recorders may run all the time: they may look for a block,
\* and give back what they took in vain, but for a bucket whose counter the report is replacing.
THEOREM CompleteReport ==
  ASSUME ProgramAssumption PROVE Spec => []ReportIsComplete
<1>1. (Intact => IInv /\ Accounts) => ReportIsComplete
  BY AccountsAreRight DEF ReportIsComplete
<1> QED
  BY <1>1, BothInvariant, PTL

\* "blocks all further recording" (spdr.c:796) where no addition to a counter was still to be
\* undone when the report replaced the counter: then no recorder, however many of them go on
\* with additions to it, is given a block of that bucket before the reset.
BlockedIfIntact ==
  Intact' => \A t \in Recorder : recorder[t].pc = "grow" /\ recorder'[t].pc = "stamp"
                                   => ~Blocked(Bucket(recorder[t]))
THEOREM RecordingBlocked ==
  ASSUME ProgramAssumption PROVE Spec => [][BlockedIfIntact]_vars
<1>1. ASSUME IInv, Accounts, [Next]_vars, NEW t \in Recorder,
             recorder[t].pc = "grow", recorder'[t].pc = "stamp"
      PROVE  Grow(t)
  <2>1. recorder \in [Recorder -> {Idle} \cup Call]
    BY <1>1 DEF IInv, Types
  <2>2. ASSUME NEW u \in Recorder, Recording(u) PROVE Grow(t)
    <3>1. CASE Grow(u)
      BY <1>1, <2>1, <3>1 DEF Grow
    <3>2. CASE Undo(u)
      BY <1>1, <2>1, <3>2 DEF Undo
    <3>3. CASE Stamp(u)
      BY <1>1, <2>1, <3>3 DEF Stamp
    <3>4. CASE CopyEvent(u)
      <4>1. recorder[u].pc = "copy" /\ OnlyCaller(u)
        BY <2>1, <3>4, Zenon DEF CopyEvent, OnlyCaller
      <4> QED
        BY <1>1, <4>1 DEF OnlyCaller
    <3>5. CASE CopyString(u)
      BY <1>1, <2>1, <3>5 DEF CopyString
    <3> QED
      BY <2>2, <3>1, <3>2, <3>3, <3>4, <3>5 DEF Recording
  <2>3. ASSUME NEW u \in Recorder, NEW start \in Buckets, NEW size \in StringSizes,
               Record(u, start, size)
        PROVE  Grow(t)
    BY <1>1, <2>1, <2>3, IdleIsNoCall DEF Record
  <2>4. ASSUME UNCHANGED recorder PROVE Grow(t)
    BY <1>1, <2>4
  <2>5. init \/ destroy \/ LoadNext \/ StoreCapacity \/ UNCHANGED vars => UNCHANGED recorder
    BY DEF init, destroy, LoadNext, StoreCapacity, vars
  <2>7. Collect \/ Reset => UNCHANGED recorder
    BY Zenon DEF Collect, Reset
  <2>6. /\ \A started \in BOOLEAN : setStarted(started) => UNCHANGED recorder
        /\ \A good \in BOOLEAN : Finish(good) => UNCHANGED recorder
    BY DEF setStarted, Finish
  <2> QED
    BY <1>1, <2>2, <2>3, <2>4, <2>5, <2>6, <2>7 DEF Next, Calling, Finishing
<1>2. ASSUME IInv, Accounts, NEW t \in Recorder, Grow(t), recorder'[t].pc = "stamp", Intact'
      PROVE  ~Blocked(Bucket(recorder[t]))
  <2>r. PICK r, s, b, i : r = recorder[t] /\ s = recorder'[t] /\ b = Bucket(r) /\ i = blocks_next[b]
    OBVIOUS
  <2>1. /\ b \in Buckets /\ i \in Nat
        /\ s.pc = (IF i < Capacity THEN "stamp" ELSE "undo")
    BY <1>2, <2>r, GrowFacts
  <2>2. ~Full(b)
    BY <1>2, <2>1, <2>r, TracingAssumption DEF Full
  <2>3. Blocked(b) => Stored(b) /\ ~Resetting
    BY DEF Blocked, Stored, Resetting
  <2> QED
    BY <1>2, <2>1, <2>2, <2>3, <2>r DEF Accounts, Stages
<1>3. (Intact => IInv /\ Accounts) /\ [Next]_vars => [BlockedIfIntact]_vars
  BY <1>1, <1>2, OnceIntact DEF BlockedIfIntact
<1> QED
  BY <1>3, BothInvariant, PTL DEF Spec

=============================================================================
