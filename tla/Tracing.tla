------------------------------ MODULE Tracing ------------------------------
(***************************************************************************)
(* Event recording of src/debug/tracing.cpp on uu.spdr: recording threads  *)
(* take blocks of a bucket with an atomic addition, which they undo where  *)
(* the bucket is full; one thread starts and stops recording, reports and  *)
(* resets.  A thread takes one step per access to shared memory.           *)
(***************************************************************************)
EXTENDS Integers, FiniteSets

CONSTANTS Recorder,     \* the recording threads
          BUCKET_COUNT,
          Capacity,     \* blocks_capacity of a bucket
          BlockSize,    \* sizeof(SPDR_Block)
          HeaderSize,   \* of these, the bytes before its data: type and count
          StringSizes,  \* strlen() + 1 of an event's string argument, 0 if it has none
          WordMod,      \* values of AO_t
          MaxEvents,    \* bound: events in total
          Aftermath     \* bound: where Intact has become false, whether more happens than that
                        \* recorders end the calls they are in

ASSUME TracingAssumption == /\ BUCKET_COUNT \in Nat \ {0} /\ Capacity \in Nat \ {0}
                            /\ HeaderSize \in Nat /\ 1 < HeaderSize
                            /\ BlockSize \in Nat /\ HeaderSize < BlockSize
                            /\ StringSizes \subseteq Nat
                            /\ WordMod \in Nat /\ WordMod > Capacity
                            /\ MaxEvents \in Nat /\ Aftermath \in BOOLEAN

VARIABLES initialized,  \* gSpdrContext is not null
          tracing_p,
          blocks_next,
          blocks,       \* the blocks of each bucket: their type and the event they are of
          recorder,     \* what each recording thread is about to do
          finish,       \* what finishAndWriteToPathPrefix() is about to do
          events,       \* number of events so far
          recorded, dropped,  \* of these, since the last reset
          overran,      \* whether a string was given less room than it needs
          overtaken     \* whether the report or the reset came between the steps of a recorder

shared  == <<blocks_next, blocks>>
history == <<overran, overtaken>>
ghosts  == <<events, recorded, dropped, history>>
vars    == <<initialized, tracing_p, shared, recorder, finish, ghosts>>

Buckets == 0..(BUCKET_COUNT - 1)

\* Each string has had the room it needs, and the report and the reset came between no two
\* steps of a recorder that belong together: the code leaves both to the program.
Intact == ~overran /\ ~overtaken

Idle  == [pc |-> "idle"]
Quiet == \A t \in Recorder : recorder[t] = Idle

\* the new buffer is all zeros, and 0 is EVENT_BLOCK
EmptyBlock   == [type |-> "EVENT_BLOCK", id |-> 0, str |-> "none", strAt |-> 0]
EmptyBuckets == [b \in Buckets |-> [i \in 0..(Capacity - 1) |-> EmptyBlock]]

Init == /\ initialized = FALSE /\ tracing_p = FALSE
        /\ blocks_next = [b \in Buckets |-> 0]
        /\ blocks = EmptyBuckets
        /\ recorder = [t \in Recorder |-> Idle]
        /\ finish = Idle
        /\ events = 0 /\ recorded = {} /\ dropped = {}
        /\ overran = FALSE /\ overtaken = FALSE

-----------------------------------------------------------------------------
(* uu_spdr_record().  The state of a recording thread is a record: it is   *)
(* about to do pc for n blocks, which it takes for "what": an event, or    *)
(* the string of the event at block "event".                               *)

\* UU_SPDR_TRACE(): start is the bucket that the hash of thread and time selects
Record(t, start, size) ==
  /\ initialized /\ tracing_p
  /\ recorder[t] = Idle
  /\ events < MaxEvents
  /\ events' = events + 1
  /\ recorder' = [recorder EXCEPT ![t] =
       [pc |-> "grow", what |-> "event", id |-> events + 1, size |-> size,
        start |-> start, tries |-> 0, n |-> 1, at |-> 0, event |-> 0]]
  /\ UNCHANGED <<initialized, tracing_p, shared, finish, recorded, dropped, history>>

\* (mutant of Bucket: the search for room never leaves the first bucket)
BucketStart(r) == r.start
Bucket(r) == (r.start + r.tries) % BUCKET_COUNT

\* (mutant of Fits: the block behind the last one passes for one of the bucket)
FitsOneMore(i) == i <= Capacity
\* growblocks_until() compares the first block only
Fits(i) == i < Capacity

\* bucket_alloc() counts the blocks of a string as if it filled them, header and all
BlocksFor(size) == 1 + size \div BlockSize
HasRoom(r, i) ==
  r.what = "string" => i + r.n <= Capacity /\ HeaderSize + r.size <= r.n * BlockSize

\* (mutant of Increment: takes the first block of a string only)
IncrementOne(r) == 1
Increment(r) == r.n

\* growblocks_until(): the atomic addition, and whether there was room
Grow(t) ==
  LET r == recorder[t]
      i == blocks_next[Bucket(r)]
  IN /\ r.pc = "grow"
     /\ blocks_next' = [blocks_next EXCEPT ![Bucket(r)] = (@ + Increment(r)) % WordMod]
     /\ recorder' = [recorder EXCEPT ![t].pc = IF Fits(i) THEN "stamp" ELSE "undo",
                                     ![t].at = IF Fits(i) THEN i ELSE 0]
     /\ overran' = (overran \/ (Fits(i) /\ ~HasRoom(r, i)))
     /\ UNCHANGED <<initialized, tracing_p, blocks, finish, events, recorded, dropped, overtaken>>

\* (mutant of GiveBack: what did not fit stays taken)
GiveBackNothing(r) == 0
GiveBack(r) == r.n

\* (mutant of NextTry: the loop over the buckets does not advance)
NextTrySame(r) == r.tries
NextTry(r) == r.tries + 1

\* An event goes on to the next bucket, a string is replaced by the constant
\* "<Out of arg. memory>", here OutOfArgMemory.
Undo(t) ==
  LET r == recorder[t]
      more == r.what = "event" /\ NextTry(r) < BUCKET_COUNT
  IN /\ r.pc = "undo"
     /\ blocks_next' = [blocks_next EXCEPT ![Bucket(r)] = (@ - GiveBack(r)) % WordMod]
     /\ recorder' = [recorder EXCEPT ![t] =
          IF more THEN [r EXCEPT !.pc = "grow", !.tries = NextTry(r)] ELSE Idle]
     /\ blocks' = IF r.what = "event" THEN blocks
                  ELSE [blocks EXCEPT ![Bucket(r)][r.event].str = "OutOfArgMemory"]
     /\ dropped' = IF r.what = "event" /\ ~more THEN dropped \cup {r.id} ELSE dropped
     /\ recorded' = IF r.what = "event" THEN recorded ELSE recorded \cup {r.id}
     /\ UNCHANGED <<initialized, tracing_p, finish, events, history>>

\* the header of the block: its type and its count
Stamp(t) ==
  LET r == recorder[t]
  IN /\ r.pc = "stamp"
     /\ blocks' = [blocks EXCEPT ![Bucket(r)][r.at].type =
          IF r.what = "event" THEN "EVENT_BLOCK" ELSE "STR_BLOCK"]
     /\ recorder' = [recorder EXCEPT ![t].pc = "copy"]
     /\ UNCHANGED <<initialized, tracing_p, blocks_next, finish, ghosts>>

\* memcpy() of the event, whose string is still the caller's
CopyEvent(t) ==
  LET r == recorder[t]
  IN /\ r.pc = "copy" /\ r.what = "event"
     /\ blocks' = [blocks EXCEPT ![Bucket(r)][r.at].id = r.id,
                                 ![Bucket(r)][r.at].str =
                                    IF r.size = 0 THEN "none" ELSE "callers"]
     /\ IF r.size = 0
        THEN /\ recorder' = [recorder EXCEPT ![t] = Idle]
             /\ recorded' = recorded \cup {r.id}
        ELSE /\ recorder' = [recorder EXCEPT ![t] =
                  [r EXCEPT !.pc = "grow", !.what = "string", !.event = r.at, !.at = 0,
                            !.n = BlocksFor(r.size)]]
             /\ UNCHANGED recorded
     /\ UNCHANGED <<initialized, tracing_p, blocks_next, finish, events, dropped, history>>

\* The bytes of a string begin behind the header of its first block and go on over those
\* of the following ones, of which the last may be another's: it gets at most a header.
Touched(r) == r.at..(r.at + (HeaderSize + r.size - 1) \div BlockSize)

\* (mutant of TypeAfter: the headers of the following blocks stay as they were)
TypeAfterKept(r, i, type) == type
\* A type is 0, EVENT_BLOCK, where all that reaches it is the NUL of the string.
TypeAfter(r, i, type) ==
  LET nulAlone == HeaderSize + r.size = (i - r.at) * BlockSize + 1
  IN IF i = r.at THEN type
     ELSE IF nulAlone /\ type # "text" THEN "EVENT_BLOCK" ELSE "text"

\* what a block of the bucket is then: one of the string, the event that points to it, or as before
CopiedTo(r, i, block) ==
  IF i \in Touched(r)
  THEN [block EXCEPT !.type = TypeAfter(r, i, @), !.id = IF i < r.at + r.n THEN r.id ELSE @]
  ELSE IF i = r.event THEN [block EXCEPT !.str = "copy", !.strAt = r.at] ELSE block

\* memcpy() of the string, as far as the bucket goes, and the pointer to it
CopyString(t) ==
  LET r == recorder[t]
  IN /\ r.pc = "copy" /\ r.what = "string"
     /\ blocks' = [blocks EXCEPT ![Bucket(r)] = [i \in DOMAIN @ |-> CopiedTo(r, i, @[i])]]
     /\ recorder' = [recorder EXCEPT ![t] = Idle]
     /\ recorded' = recorded \cup {r.id}
     /\ UNCHANGED <<initialized, tracing_p, blocks_next, finish, events, dropped, history>>

Recording(t) == Grow(t) \/ Undo(t) \/ Stamp(t) \/ CopyEvent(t) \/ CopyString(t)

-----------------------------------------------------------------------------
(* The thread that controls tracing *)

init ==
  /\ ~initialized /\ finish = Idle
  /\ initialized' = TRUE
  /\ blocks_next' = [b \in Buckets |-> 0] /\ blocks' = EmptyBuckets
  /\ UNCHANGED <<tracing_p, recorder, finish, ghosts>>

\* no thread may be inside a recording call
destroy ==
  /\ initialized /\ finish = Idle /\ Quiet
  /\ initialized' = FALSE /\ tracing_p' = FALSE
  /\ blocks_next' = [b \in Buckets |-> 0] /\ blocks' = EmptyBuckets  \* there are none now
  /\ recorded' = {} /\ dropped' = {}
  /\ UNCHANGED <<recorder, finish, events, history>>

setStarted(started) ==
  /\ initialized /\ finish = Idle
  /\ tracing_p' = started
  /\ UNCHANGED <<initialized, shared, recorder, finish, ghosts>>

\* finishAndWriteToPathPrefix(); without a file to write to there is no report
Finish(good) ==
  /\ initialized /\ finish = Idle
  /\ tracing_p' = FALSE
  /\ finish' = [pc |-> IF good THEN "load" ELSE "reset", bucket |-> 0,
                records_per_bucket |-> [b \in Buckets |-> 0], report |-> {}, reported |-> FALSE]
  /\ UNCHANGED <<initialized, shared, recorder, ghosts>>

\* spdr_report().  It waits for nobody: where it finds a recorder between two steps that it
\* must not come between, it goes on, and "overtaken" says so.
LoadNext ==
  /\ finish.pc = "load"
  /\ finish' = [finish EXCEPT !.pc = "store",
                              !.records_per_bucket[finish.bucket] = blocks_next[finish.bucket]]
  /\ UNCHANGED <<initialized, tracing_p, shared, recorder, ghosts>>

\* The counter has changed since it was read, or will be changed by a recorder's undo.
CounterInUse(b) == \/ blocks_next[b] # finish.records_per_bucket[b]
                   \/ \E t \in Recorder : recorder[t].pc = "undo" /\ Bucket(recorder[t]) = b

StoreCapacity ==
  LET last == finish.bucket + 1 = BUCKET_COUNT
  IN /\ finish.pc = "store"
     /\ blocks_next' = [blocks_next EXCEPT ![finish.bucket] = Capacity]
     /\ finish' = [finish EXCEPT !.pc = IF last THEN "collect" ELSE "load",
                                 !.bucket = IF last THEN 0 ELSE @ + 1]
     /\ overtaken' = (overtaken \/ CounterInUse(finish.bucket))
     /\ UNCHANGED <<initialized, tracing_p, blocks, recorder, events, recorded, dropped, overran>>

\* (mutant of RecordCount: reports the whole bucket)
RecordCountFull(b) == Capacity
RecordCount(b) == finish.records_per_bucket[b]

\* A recorder has a block and has not finished the event.
Writing(t) == \/ recorder[t].pc \in {"stamp", "copy"}
              \/ recorder[t].pc # "idle" /\ recorder[t].what = "string"

\* the blocks a report takes for events, as far as they are in the bucket
Collect ==
  /\ finish.pc = "collect"
  /\ finish' = [finish EXCEPT !.pc = "reset", !.reported = TRUE,
       !.report = {place \in Buckets \X (0..(Capacity - 1)) :
                     /\ place[2] < RecordCount(place[1])
                     /\ blocks[place[1]][place[2]].type = "EVENT_BLOCK"}]
  /\ overtaken' = (overtaken \/ \E t \in Recorder : Writing(t))
  /\ UNCHANGED <<initialized, tracing_p, shared, recorder, events, recorded, dropped, overran>>

\* (mutant of Following: the loop over the buckets does not advance)
FollowingNot(bucket) == bucket
Following(bucket) == bucket + 1

\* spdr_reset()
Reset ==
  LET last == Following(finish.bucket) = BUCKET_COUNT
  IN /\ finish.pc = "reset"
     /\ blocks_next' = [blocks_next EXCEPT ![finish.bucket] = 0]
     /\ finish' = IF last THEN Idle ELSE [finish EXCEPT !.bucket = Following(@)]
     /\ recorded' = (IF last THEN {} ELSE recorded) /\ dropped' = (IF last THEN {} ELSE dropped)
     /\ overtaken' = (overtaken \/ ~Quiet)
     /\ UNCHANGED <<initialized, tracing_p, blocks, recorder, events, overran>>

Finishing == /\ Intact \/ Aftermath
             /\ LoadNext \/ StoreCapacity \/ Collect \/ Reset

Calling == /\ Intact \/ Aftermath
           /\ \/ \E t \in Recorder, start \in Buckets, size \in StringSizes : Record(t, start, size)
              \/ init \/ destroy
              \/ \E started \in BOOLEAN : setStarted(started)
              \/ \E good \in BOOLEAN : Finish(good)

Next == Calling \/ Finishing \/ \E t \in Recorder : Recording(t)

Spec == Init /\ [][Next]_vars

\* the scheduler runs every thread that is inside a call
Fairness == (\A t \in Recorder : WF_vars(Recording(t))) /\ WF_vars(Finishing)
FairSpec == Spec /\ Fairness

-----------------------------------------------------------------------------
(* Properties *)

\* Between Grow and the end of memcpy(), a recorder holds blocks.
Held(t) == IF recorder[t].pc \in {"stamp", "copy"}
           THEN {Bucket(recorder[t])} \X (recorder[t].at..(recorder[t].at + recorder[t].n - 1))
           ELSE {}

\* The blocks of events that were recorded since the last reset, and of their strings.
InUse == {place \in Buckets \X (0..(Capacity - 1)) :
            /\ place[2] < blocks_next[place[1]]
            /\ blocks[place[1]][place[2]].id \in recorded}

TypeOK ==
  /\ initialized \in BOOLEAN /\ tracing_p \in BOOLEAN
  /\ blocks_next \in [Buckets -> 0..(WordMod - 1)]
  /\ overran \in BOOLEAN /\ overtaken \in BOOLEAN
  /\ recorded \subseteq 1..events /\ dropped \subseteq 1..events

\* Blocks have one owner: what a recorder is writing is in the bucket, no other
\* one writes it, and it is not part of an event that is already recorded.
BlocksAreExclusive == Intact =>
  /\ TypeOK
  /\ \A t \in Recorder :
       /\ \A block \in Held(t) : block[2] < Capacity /\ block \notin InUse
       /\ \A u \in Recorder \ {t} : Held(t) \cap Held(u) = {}

\* "we've evidently reached full capacity" (spdr.c:653): an event is dropped only
\* if no bucket has room any more, although the addition that finds out makes
\* a bucket look full to others.  Attempts that fail leave no trace: a bucket that
\* nobody is using counts the blocks in use.
DroppedWhenFull == Intact =>
  /\ dropped # {} /\ finish = Idle => \A b \in Buckets : blocks_next[b] >= Capacity
  /\ Quiet /\ finish = Idle /\ initialized =>
       \A b \in Buckets : blocks_next[b] = Cardinality({use \in InUse : use[1] = b})

ReportIsRight ==
  LET block(place) == blocks[place[1]][place[2]]
  IN /\ {block(place).id : place \in finish.report} = recorded
     /\ Cardinality(finish.report) = Cardinality(recorded)
     /\ \A place \in finish.report :
          LET str == blocks[place[1]][block(place).strAt]
          IN \/ block(place).str \in {"none", "OutOfArgMemory"}
             \/ /\ block(place).str = "copy"
                /\ str.type = "STR_BLOCK" /\ str.id = block(place).id

\* The report has every event that was recorded since the last one, once, and
\* nothing else, with its string or the constant for it.
ReportIsComplete == Intact /\ finish # Idle /\ finish.reported => ReportIsRight

\* Recording does not wait for anybody, and a report comes to its end: again and again,
\* each recorder and the controlling thread are in no call.
CallsReturn == /\ \A t \in Recorder : []<>(recorder[t] = Idle)
               /\ []<>(finish = Idle \/ ~Intact)

\* "blocks all further recording" (spdr.c:796): once the report has stored the
\* capacity, no recorder takes a block of that bucket before the reset.
Blocked(b) == \/ finish.pc = "collect"
              \/ finish.pc \in {"load", "store"} /\ b < finish.bucket
BlocksFurtherRecording ==
  [][\A t \in Recorder : recorder[t].pc = "grow" /\ recorder'[t].pc = "stamp"
                           => ~Blocked(Bucket(recorder[t]))]_vars
=============================================================================
