# v1util: specification and verification

v1util is a C++17 toolbelt: containers, callables, signal processing, wave files, tracing.
This directory holds TLA+ models of it that are translated from the code under `src/`, TLC
configurations that check them on small instances, and TLAPS proofs of what matters most
for every value of the constants.  `PROJECT.json` lists the components, the runs, the
source lines every definition stands for, the hazards, the findings and the theorems.

Check a module with `tlc -config MCRingBuffer.cfg MCRingBuffer.tla`, a proof with
`tlapm ChunkedRingBuffer_proofs.tla`.

## 1. Inventory

v1util is a library without a main loop.  Its parts are called by one program, from one or
several threads; they interact by calls and callbacks, hardly ever with each other: the peak
finders keep their candidates in `FixedSizeDeque`, which shares its array and pointers with
`ChunkedRingBuffer`, and compare stream positions with the ring comparisons of
`base/math.hpp`; time stamps are compared alike; signals and observers list each other;
tracing sits on top of `uu.spdr`.

| Component | State | Operations | What is hard | What makes it correct |
|---|---|---|---|---|
| `container/ringbuffer.hpp` `ChunkedRingBuffer` | array, head, tail, capacity | `setCapacity fillFrom drainTo push pop peek peekPtr drop get`, size queries, move, destruction | two threads without a lock; wrap-around; full versus empty; references that outlive the release of their slot; objects without an array | it is a bounded FIFO, without data races and without waiting; every array has one owner |
| `FixedSizeDeque` | the same | push, pop, access at both ends | both pointers wrap in both directions | it is a bounded deque |
| `RingIterator` | offset, position | `++ -- += -= - ==` | the position is computed in two ways; negative remainders | equal offsets, equal elements |
| `dsp/peakfinder.hpp` `StreamingPeakFinder`, `StreamingPeakDetector` | plateau registers, two deques of candidates, positions | `process()` per block | results must not depend on how the stream is cut; queues of fixed size; positions that roll over | it finds what a slow reference finds |
| `SlidingWindowLocalMaximaFinder` | one deque, counters | `add finalize` | the window in rolling positions; initial phase | the maximum of every window |
| `callable/function.hpp` `Function` | two words; a counted heap object | construct, bind, copy, move, assign, swap, compare, call, destroy | counts shared by threads; callables that own Functions, so that freeing recurses and aliases; flags in the bits of a code address | every object is deleted once, by its last owner; a call enters what the Function was made for |
| `callable/delegate.hpp`, `base/cppvtable.hpp` `Delegate` | two words | bind (fast, safe), copy, swap, call | virtual functions of objects under construction; Windows' calling convention | a call runs what a direct call runs |
| `callable/signal-slot.hpp` on `nano-signal-slot` | lists of connections on both sides, trackers | connect, disconnect, fire, destroy | reentrancy: slots that connect, fire and destroy; reuse of addresses | nobody runs in a dead object, everybody alive is called, no dangling connection |
| `debug/tracing.cpp` on `uu.spdr` | buckets of blocks, one counter each, an on/off flag | init, record, start, stop, report, reset, destroy | recorders take blocks with an addition they undo; they race the report and the reset | blocks are given out once; a report has every event once |
| `dsp/waveIo.cpp` `WaveReader`, `WaveWriter` | the stream, sample counters, header | open, taste, read, write, move, release, close | one stream that passes from object to object; writes that fail in the middle; a header that is written last | what is written is what the header says and what is read |
| `container/result.hpp` `Result` | value or error in one storage | construct, copy, move, assign, `apply` | lifetimes in one storage, aliasing assignment | it holds what it was given; each value is destroyed once |
| `utility/atomic.hpp`, `scope.hpp` | a saved value, a count | enter, leave | overlapping scopes of several threads | the original value is back in the end |
| `dsp/audioBuffer.hpp`, `audioBlock.hpp` | two heap arrays | resize, copy, move, access, destroy | sizes of zero, moved-from objects, debug and release builds | arrays have one owner; buffers are values |
| `container/array_view.hpp`, `span.hpp`, `range.hpp` | two pointers | parts, comparison, copy, fill | unsigned arithmetic, empty views, overlaps | a view shows the part that was asked for |
| `base/bitop.hpp`, `base/math.hpp`, `base/time.*` | none | alignment, powers of two, rounding division, ring comparison, ticks | widths, signs, zero | equality with the mathematical definition |
| MIDI numbers, chirps, statistics, smoothing | none, or accumulators | formulas | floating point | not a matter of state |
| platform services, `third-party`, build files, tests | | | | system calls; vendored; tests are read as statements about the program |

The hazards of `PROJECT.json` name the lines where this goes wrong, with the properties
that notice, or the reason why none does.

## 2. Plan

Order: what several threads share first, then what keeps state over a long sequence of
calls, then reentrancy, then input and output, then ownership, then numbers.

1. **Done.** `ChunkedRingBuffer` and its specification `BoundedFifo`, proofs.
2. **Done.** `RingMath`, `PeakIsolator`, `PeakFinder` (composed of the two), `PeakDetector`,
   `LocalMaxima`; `FixedSizeDeque` and `BoundedDeque`, which they run on; `RingIterator`;
   the tables of the repository's tests in `PeakVectors`; proofs of the ring comparisons, of
   the deque, of the iterator and of the window maxima.
3. **Done.** `Function`, `FunctionStorage`, `Delegate`, `SignalSlot`.  Proofs of the counts of
   `Function`, of `FunctionStorage`, of `Delegate` and of `SignalSlot`.
4. **Done.** `Tracing`: recorders that run during the report and the reset, also against the
   comment "blocks all further recording" (`spdr.c:796`).  Proofs, for
   any number of recorders, of all its safety properties.
5. **Done.** `WaveIo`: a file as words, readers and writers, failing writes.  Proofs of who
   owns the stream.
6. **Done.** `Result` and `ValueOrError`, `Scopes`, `RingBufferOwner`, `AudioBuffer` and
   `BufferValues`, `Views`, `Numbers`, `Bits`; proofs of all but `Bits`.
7. **Done.** The proofs of what several modules of `MCObjects` promise together, with a
   refinement of `BufferValues`.  What TLC alone shows is listed in section 5.

## 3. Modules

**ChunkedRingBuffer** has one step per access to shared memory: `fillFrom()` is `FillFrom`
(the assertion in front, the caller's obligation), `FillSnapshot` (the debug build's old
size), a `FillCopy` per element, `FillPublish` (the store to `mpHead`), `FillReturn` (the
assertions behind it); `drainTo()`, `push()`, `pop()` and `drop()` are cut likewise.  `peek`,
`peekPtr` and `get` are one step each, plus the caller's use of the reference they
returned.  Pointers are offsets.  Stores become visible in program order: the code restricts
itself to x64 for that reason.  `BoundedFifo` is what it promises: a call's chunk appears
or disappears at once, exactly once between the call and its return.  It knows which call
is running (`in` on the producer's side, `call` and `want` on the consumer's), so that a
chunk that is never published, an element that is handed out and stays, or one that leaves
unseen is no behaviour of it; only `peek()` may look without taking.  The refinement maps
the window between tail and head to the queue, the chunk of the running `fillFrom()` or
`push()` to `in` and the consumer's program counter to `call`; the linearization points are
`FillPublish`/`PushPublish` and the consumer's stores to `mpTail`.

**RingBufferOwner** is the same class outside of that phase: which object owns which heap
array, through `setCapacity()`, moves and destruction, in both builds (`V1_DEBUG`).
**AudioBuffer** is written alike; an address of a deleted array is used again, and the
samples are reached through the channel pointers.  `BufferValues` is what it promises.

**FixedSizeDeque**, **BoundedDeque**: the deque inherits that array; `mpTail` is its back.
Every operation is an action; a read and a write through `front()` or `back()` are, too.

**RingIterator**: `++` and `--` change the position stepwise, `+=` and `-=` compute it from the
offset with the remainder of C++.

**RingMath**, **DequeLoops**: the ring comparisons over `PosMod` values, and the
`while(...) pop` loops of the peak finders.

**PeakIsolator** is a record and pure operators on it, one per method; `ok` is the
conjunction of all its assertions.  **PeakFinder** feeds it: one `Sample` step per sample
of `process()` (detector and isolator), one `EndBlock` step for the purge behind the loop.
That way TLC cuts each stream into blocks in every way.  `ReferencePeaks` is the reference
finder of `dsp/tst_peakfinder.cpp`.  **PeakDetector** is the detector class by itself,
**LocalMaxima** the maxima finder (`added` and `returned` are for the properties).
**PeakVectors** replays the rows of the tests' tables with the actions of these modules and
compares what comes out; it instantiates them with the row's parameters.

**Function**: a location (variable, capture of a heap object, temporary of `swap()`) is dead,
empty, inline, or refers to a heap object.  A call begins with its effect on the Function
itself and leaves in `todo` what it still has to do, so that other threads run between the
decrement of a count, the deleter and the end of the block, as in `freeHeapObject()`.
The callable may capture a Function: deleting it frees another, and a callable that runs
may assign to the very Function it is called through (`Reachable`).  Moves from a capture
that is shared are excluded, since they are data races of the program.
**FunctionStorage** is the representation: a word and a code address with two flags in it.

**Delegate** has objects in the stages that C++ gives them (under construction, whole, under
destruction) and the classes of the repository's tests; a member function pointer is the
class it is looked up in and a method, a pointer to an object its place and the part it
points to.

**SignalSlot**: `connections` are the sorted lists of both sides; a weak pointer is a place
and the generation of the object that lives there, so that an object may be replaced by
another at its address.  The calls in progress are frames on `stack`: an emission with its
copy of the list, or a destructor that waits for lingering references.  The program's code
runs at the top of it, also inside a slot, and may do anything it could do outside.  An
emission also keeps a record for `DeliversToAllAlive`: what was connected when it began and
what it has called since.

**Tracing**: a recording thread is at a `pc` between two accesses to shared memory: the
fetch-and-add on a bucket (`Grow`), its undo where the bucket is full (`GiveBack`), the next
bucket, the stamps, the copy of the event and of its string.  The text of a string begins
behind the header of its first block (`HeaderSize`) and goes over the headers of the others
(`Touched`), where the report reads a `type` that is text, or the NUL (`TypeAfter`).  `finish` is
the same for `finishAndWriteToPathPrefix()`: load and store of the counters bucket by bucket,
the collection of the blocks, the reset; recorders go on meanwhile.  Counters are `AO_t` modulo
`WordMod`.  `recorded` and `dropped` are history, and so are the two flags that end what the
properties promise: `overran`, a string was given less room than it needs; `overtaken`, the
report replaced a counter that had changed since it read it or that a recorder was to lower
again, or read the blocks while a recorder held one, or the reset came while one was in a
call.  Until then the model is `Intact`; with `Aftermath = FALSE`, recorders only end the calls
that they are in after that.

**WaveIo**: the file is a sequence of words, each one item of an `fwrite()`: a chunk header, the
format, a sample.  Writing can stop in the middle (`faults`), reading meets the end.  Formats
that `read()` and `write()` do not convert (`V1_INVALID()`, which stops debug builds only)
can be created and opened all the same.  A sample is converted as the code does it, on a scaled range (`FullScale`).  `Slot`s are the
program's readers and writers, `caller` the program that holds a released stream.

**Result**: a storage and a flag; placement new over a value that was not destroyed is
recorded in `lost`, a destructor run on something else in `misdestroyed`.  `ValueOrError` is
what an object holds after each operation, a function of the operation alone; every step of
`Result` takes that step on the history `given`, too, and `HoldsWhatWasGiven` compares the
two.  Assignment of an object to itself is among the operations: the value is then lost, and
`Indeterminate` stands for what the code reads from where it was.  **Scopes**: the two steps of `AtomicValueScope`'s constructor, and
counting scopes, nested in several threads; `overlapped` is history: whether value
scopes of two threads were ever open at once.  **Views**: parts of an array as pairs of
addresses, with the list of the elements they are to show as history; `copy()` is the loop
it is in the code, one element per step, with what it was called for and how far it has come in
`loop`.  **Numbers**: divisions, stamps and conversions of time, pure functions of
one argument (`arg`) that a state has.  **Bits**: alignment and powers of two, likewise.

**MCStreams** and **MCObjects** put the parts that know nothing of each other into one run
each: `part` chooses which one a behaviour is about, and the others stay where they are.
`MCStreams` extends `FixedSizeDeque`, `RingIterator`, `LocalMaxima` and `Numbers`, so that the run
checks the very properties that `Streams_proofs` is about; the peak finder is instantiated
twice.  `MCObjects` extends `Function` and `Result` (`Objects_proofs`) and instantiates the other
classes with constants of its own, restricted by `StorageAssumed` and `ObjectsAssumption`.
What differs between platforms or builds is a parameter of the instance: `Delegates(windows,
large)` for calling conventions, `Ring(debug)` and `Audio(debug)` for `V1_DEBUG`.  Its properties
(`OwnsItsArrays`, `ScopesNest`, ...) say of each part what it promises;
`MCObjects_proofs` is about these.

## 4. Runs

Numbers are distinct states.  All passing runs are exhaustive within the bounds.

| Run | Bounds | Shows |
|---|---|---|
| `ring_buffer` (71 616) | capacity 2 (3 slots), 2 values, any chunk | every interleaving implements the FIFO (`ImplementsFifo`); `NoDataRace`; the assertions hold although the other side moves (`AssertionsHold`); `get()`'s reference survives its release (`GottenRefStaysValid`); both sides are wait-free (`CallsComplete`) |
| `streams` (870 070) | deque of 3; ring of 5, offsets to ±60, jumps to ±13; peak finder with lockout distance 2, streams to 8 samples of 3 values, 3 thresholds, and with distance 1, streams to 15 samples of 2 values, positions modulo 16 from 6 on; window maxima of 3, 9 samples of 4 values, modulo 8; all test tables; integers from −60 to 300, 13 tick rates, times and ticks of 28 bits | the deque implements `BoundedDeque`, offset determines element, finder and window maxima equal their references for every cut into blocks, no assertion fires and no queue overflows (`StaysInBounds`), the tests' tables hold and bit operations align and find powers of two (`VectorsMatch`), integer helpers round and order as their definitions say (`NumbersRound`, `TimeFollowsTheRing`) |
| `objects` (205 323) | Function: 2 threads, 2 variables, 3 heap objects; storage: 3 Functions, 2 of each kind of address; Delegate: 2 holders, one object, two platforms; Result: 3 objects, 2 values; Scopes: 2 threads, depth 2; ring and audio buffers: 2 objects, 3 addresses, capacities to 2, two channels of one sample, both builds; views: 2 on 3 elements, counts modulo 8 | counts equal owners, one deletion, no use of a dead object, `swap` exchanges, a call enters its target, a delegate calls what a direct call does, a Result implements `ValueOrError` and destroys every value once, scopes nest, arrays have one owner, audio buffers are values, views show their part, `copy()` copies |
| `signal_slot` (1 373 814) | 2 signals, an observer, a functor, 4 keys, 2 generations of a signal and of the observer, lists of up to 3, 1 and 2 connections, nesting 2 | no slot runs without its object (`RunningSlotHasObject`), what was connected when an emission began is called once and in order, but for those that died (`DeliversToAllAlive`), no connection dangles (`AutomaticDisconnect`), both sides agree (`KnownBothWays`) |
| `tracing` (696 990) | 2 recorders, 2 buckets of 3 blocks, no string or one of two blocks, 3 events, counters modulo 16; recorders run during the report | while `Intact`: blocks have one owner (`BlocksAreExclusive`), events are dropped only when all is full and leave no trace (`DroppedWhenFull`), every event is reported once with its string (`ReportIsComplete`); nobody waits (`CallsReturn`) |
| `wave_io` (16 499) | 2 readers, 2 writers, 4 frames of up to 2 channels, three formats that are converted and one of 24 bits, one fault, a file of another program | the stream has one owner and is closed before it has none (`OneOwner`, `NeverLost`), header and samples are the recording (`FileHoldsRecording`), it is read as it was written (`HearsRecording`), reading until `empty()` ends and has read what the header announces, if the format is converted and the stream holds that much (`ReadLoopEnds`) |
| `peak_finder_quiet` (violation) | distance 1, positions modulo 16 | the purge announced at `peakfinder.hpp:328` is not reached on a quiet stream |
| `function_move_inside` (violation) | 2 objects | moving a Function out of the callable it replaces releases an object twice |
| `signal_slot_own_slot` (violation) | 1 signal, 1 observer | an observer that dies in its own slot waits for ever |
| `signal_slot_stale` (violation) | 2 signals of one signature | disconnecting from one signal makes the observer forget the other |
| `tracing_race` (violation) | 1 bucket of 1 block, recorders run on | a recorder is given a block after the report has blocked the bucket |
| `wave_read_overrun` (violation) | a buffer smaller than the read | `read()` returns more frames than its target has |

Why the bounds are enough.  *Ring buffer, deque*: with two or three free slots every
relation of head, tail and chunk to the end of the array occurs, chunks are split by the
wrap, and the buffer is full and empty at every position; the proofs cover the other
capacities.  *Iterator*: offsets of more than ten rounds in both directions, multiples of the
size included.  *Peak finder*: with distance 2 a window has 5 samples and the longest
accepted plateau 3; 8 samples hold a plateau that is too long, peaks that lock each other
out on either side, and three samples behind them; three values are a peak, what dominates
it, and the ground; the tables add longer streams.  *Local maxima*: a strictly decreasing
run fills the queue, and three windows follow each other across the roll-over.  *Numbers*:
at 8 bits all values of one operand are enumerated.  *Function*: two objects make chains and
cycles of ownership, the third one is what a thread replaces them with; the hand-over is at
its worst with two threads on the last two references.  *Delegate*: one object goes through
all stages of every class; a second holder is what copies and swaps need.  *Result,
buffers*: two objects alias each other in every way, a third one is between them; an address
more than there are owners shows a leak.  *Scopes*: two scopes in each of two threads overlap
in every order.  *Signals*: nesting 2 has a slot that fires what fires it, and a destructor
inside either; a second generation (of an observer and a signal) is the object that takes the
address of the first; three connections are the one whose slot destroys an object, that
object's, and one behind it that must still be called.
*Tracing*: two events with strings fill the six blocks, the third one finds none, so that
additions, undos and the search for room in the other bucket all meet; a string of two blocks
has a header in its midst and can begin in the last block of a bucket.  The invariants were also
checked with four lengths of strings, among them one that overruns the only block it is given,
for two events (`StringSizes = {0, 2, 3, 4}`, 248 029 states).  *Wave files*: a recording is
longer than a read and than the conversion buffer; values need rounding and reach full scale
on either side.  The failing write leaves headers that announce fewer frames than follow, and
more: `ReadLoopEnds` fails if it is asked of these, or of the 24-bit format, too.

Deadlock is checked except where a model stops at a bound of its input (streams, events,
generations, recordings) or where a part has no steps left.

**Fairness.** `ring_buffer` and `tracing` assume weak fairness of each thread's running call:
the scheduler runs all threads.  Nothing is assumed about new calls, nor about other
threads.  `wave_io` assumes that a program with a reader goes on reading; that it then ends
is up to `read()` and `empty()`.  `signal_slot_own_slot` assumes it of destructors and
emissions, which run on, and of slots, which return; the destructor fails to return all the
same.

**What the violations show.**

- `function_move_inside`: move assignment frees the old object at `function.hpp:54` and clears
  the source after that.  When the source lives inside the old object's callable, its
  destruction releases what was just moved.  All other aliasing, which the run `objects`
  contains, is handled.
- `peak_finder_quiet`: `purgeUpUntil()` returns early because an empty queue counts as
  young.  The entry of the left dominance memory survives until half the ring has passed.
- `signal_slot_own_slot`: "reentrant-safe for dying class instances" holds for instances other
  than those whose slot is running; these spin in their destructor.
- `signal_slot_stale`: keys do not name the signal, so that `disconnect()` removes from the
  observer all connections of one slot function to signals of one signature.
- `tracing_race`: a recorder that undoes its addition to a full bucket (`spdr.c:54`) after the
  report stored the capacity makes room in it.
- `wave_read_overrun`: `readDeinterleaveConvert()` reads and converts a whole buffer in its last
  round, too.

Observed while modelling, without a run of their own:

- *Signals.* Connections are called in the order of their addresses (`nano_observer.hpp:55`),
  while `tst_signal_slot.cpp:66` is titled "signal-slot calls slots in connection order".
- *Peak finder.* A stream that starts with a plateau of `numeric_limits<Value>::max()` is taken
  for "no sample yet" (`peakfinder.hpp:185`) and its end locks nothing out: 2, 2, 0, 1, 0, 0 with
  a distance of 2 when 2 is the maximum.  The runs keep the samples below that value.  The
  isolator's last purge starts at position -1, all ones (`:420`, debug build): a first block
  whose `streamPosAtStart` lies in the upper half of the positions trips an assertion.  An
  empty first block reads `data.front()` (`:481`).  `SlidingWindowLocalMaximaFinder` returns
  `numeric_limits::min()` before it has a maximum: for floating point that is a positive
  number (`:204` promises "the smallest value").
- *Ring buffer.* A default-constructed one has a capacity of 2^64-1 and `push()` writes through a
  null pointer; in release builds a moved-from one looks non-empty (`NonEmptyOwnsArray` holds
  in debug builds only).  `ItRange::size()` returns a bool and `ItRange::last()` skips.
- *Function.* A moved-from Function keeps its word (`function.hpp:51-55`) and is not equal to
  a new one unless that word was 0, while `function.hpp:299-300` promises that `==` "works
  reliably" for empty ones; `EqualsTarget` states what it does with them instead.  Fast
  binding needs code that is aligned to 4 (`:75`).  The callable is placed behind the header
  and may be misaligned (`function.cpp:55`).
- *Delegate.* What was bound fast in a base class's constructor keeps calling the base's method.
- *Tracing.* `bucket_alloc()` counts the blocks of a string without the header of the first
  (`spdr.c:89,101`), so that a string whose size is 193 to 207, or that plus a multiple of 208, runs
  over the header of the block behind it, which may be another recorder's; and only the first
  block is compared with the capacity (`spdr.c:53`), so that one of several blocks at the end of a
  bucket runs over the bucket.  `spdr_types.h:45-51` says that contiguous blocks "are allocated of
  exactly" the size.  Both set `overran`: without it `BlocksAreExclusive`
  or `ReportIsComplete` fails (section 5).  An undo between the steps of the report, or after those of the reset,
  makes room in a full bucket or leaves a counter of 2^64-1; an event that is being copied while
  the report reads the blocks is reported in part.  They set `overtaken`.
  `gWasStarted` survives `destroy()`; `destroy()` behind a failed `spdr_init()` dereferences a
  null pointer; an array is freed with plain `delete` (`tracing.cpp:31`).
- *Wave files.* The constructor from a path leaks the stream when the file is no wave file; a
  format of 8 bits drops the stream unclosed; `write()` counts frames also when it fails
  (`waveIo.cpp:454`) or when it does not convert the format (`:451`); `seekToChunk()` ignores the padding of odd chunks; the RIFF size is 12 too
  small for 32-bit formats (`:102`).  `empty()` compares counts (`waveIo.hpp:46`: "Returns whether
  all input has been read"): on a stream that holds fewer frames than its header announces,
  and in release builds on a format that is neither 16 nor 32 bits (`waveIo.cpp:350`), `read()`
  returns 0 for ever and `empty()` stays false, so that a loop until `empty()` does not end.
  `ReadLoopEnds` has these two conditions.
- *Result.* Assignment from itself destroys the value first: a copy then ends with an
  indeterminate error (`result.hpp:75-84`), a move with the empty one, and constructs a value
  that is never destroyed (`:86-97`).  A moved-from value is not destroyed either.
- *Audio buffers.* `resize(n, 0)` and copies of empty buffers leak; an `AudioBuffer` of 0 channels
  fails the assertion `audioBlock.hpp:17`; in release builds `clear()` and `channel()` of a
  moved-from buffer read deleted arrays.
- *Scopes.* Value scopes of two threads that overlap do not restore the original value; an inner
  `RefCountingScope<bool>` clears the flag of the outer one.
- *Numbers.* `alignUp(uint16_t, uint16_t)` truncates to eight bits (`bitop.hpp:14`).  Negative times
  are rounded the wrong way, and a divisor is 0 where a tick is longer than half the unit.
  `us * tscTicksPerSecond()` and its like (`time.cpp:132,138,144`) overflow `int64_t` from
  2^63 / `tscTicksPerSecond()` units on: at 3 GHz, microseconds from 51 minutes, milliseconds
  from 35 days.  The conversions wrap there (`Wrapped`); `TimeComesBack` excludes these times
  by name (`StaysInRange`), at a width that a third of the run's products exceed.
  The divisions of `math.hpp` are on integers without limit when signed.

## 5. Proofs

All are checked to the last leaf by TLAPS, for every value of the constants that the named
assumption of the module admits: any capacity, any non-empty set of elements, any size, any
even number of positions, any finite sets of threads, variables and heap objects, any number
of recorders, any signals and observers with any nesting of slots, any number of readers and
writers.  Some theorems have one more hypothesis; it is named in the theorem, and a run or a
line of the code shows that it is needed.

**ChunkedRingBuffer_proofs** (`BufferAssumption`).  `TypeOK` and the properties are not
inductive: that a slot is still free when it is written follows from the check at the
start of the call, many steps earlier.  The invariant `IInv` therefore remembers it
(`ProducerInv`, `ConsumerInv`): while a producer's call runs, size plus chunk fit the
capacity, and what was copied is in the array; while a consumer's call runs, size is at
least what it wants, and what it copied is still in the array; the sizes noted by the
debug build bound the present size from the right side, since the other thread can only
move it in one direction.  `InitIInv`, and one lemma per part for the step, with a case
per action, give `Invariance`; from it follow `TypeCorrect`, `DataRaceFreedom` (producer's
and consumer's slots are disjoint parts of the ring), `Assertions` and `GottenRef` (the slot
left free is the one `get()` released).  `Refinement` shows step by step that `BoundedFifo` is
implemented, on lemmas about windows of the array (`EnqueueStep`, `AdvanceStep`,
`DequeueStep`, `StoreStep`).

**Streams_proofs** has five parts.  *Ring comparisons* (`PosModAssumption`).
`RollOverKeepsOrder`: positions less than half the ring apart are ordered by all ring
comparisons as the unbounded positions they stand for.  This is the ground the peak finders
stand on; that they stay within the half ring is model-checked.  *Iterator*
(`IteratorAssumption`).  `OffsetDetermines`: the property is inductive; the work is the
remainder of negative offsets.  *Window maxima* (`MaximaAssumption`).  `MaximaReturned` is not
inductive: which maximum is at the front of the queue depends on what was dropped.
`MaximaInv` says that candidates are samples of the stream at their positions (`AreSamples`),
that they are ordered by age and fall in value (`Descend`), and that every sample of the
window is a candidate or not above a later one (`Dominate`).  Positions are compared modulo
`SizeMod`; a window is shorter than that, so ages are told apart.  `QueueSuffices`: ages of
candidates are distinct and at most the window's size, so that `push_back()` never overflows
the queue.  *Deque* (`DequeAssumption`).  `TypeCorrect`, and `Refinement` of `BoundedDeque` from
lemmas on how a window grows and shrinks at each end.  *Numbers* (`NumbersAssumption`).
`DivisionsRound` reduces each division to that of magnitudes, by the signs of the operands
(`SignedRounding`, `SignedCeiling`).  `TimeIsKept` shows that stamps less than half the ring apart
are ordered as their difference (`StampsInOrder`), and adds the errors of the three roundings
between a time, its ticks and the time that comes back (`ErrorOfRoundTrip`).  Excluded are a
unit that is shorter than a tick, since `toUs()` divides by 0 then, and times whose products
overflow `int64_t` (`StaysInRange`); all others do not wrap (`FittingStays`).

**Objects_proofs** has two parts.

*Function* (`FunctionAssumption`: finite, disjoint sets; hypothesis `MoveFromInside = FALSE`).
`OwnersCounted`, `ObjectsDieOnce`, `CanaryHolds` and `SwapSwaps` hold whatever the threads do
between the decrement of a count, the deleter and the release of the block.  None of the
properties is inductive: what a count has to be depends on what the calls in progress still
have to do.  `IInv` says so.  What remains of a call has one of few shapes
(`Ordered`), and returns a block once (`FreesOnce`).  A location that a call is about to
clear counts as empty already (`Val`), and a reference about to be released counts although
no location has it (`Rel`): with these, `Counted` is an equation for every object at every
step.  `SourcesLive` (a source about to be cleared is a location of that thread, still alive),
`Lives` (the block is valid while there is a count, afterwards exactly one call deletes
and returns it) and `SwapsProceed` (how far each swap is) complete it.  On these stand lemmas on
cardinalities of preimages (`CountUpdate`), on lists of remaining steps (`Popped`, `Pushed`), on
what other threads cannot disturb (`Others`), and one per step (`ProceedRelease`, ...,
`MoveAssignStep`); `FreeingStep` is where the last owner goes and the captures of the object
are released in turn.  The hypothesis excludes moving a Function out of the callable that the
assignment replaces; the run `function_move_inside` shows two releases then.

*Result* (no assumption).  `DestroysEveryValue` is not inductive: whether `destroy()` runs the
right destructor depends on the flag.  Together with `HoldsWhatWasGiven` (the flag and the
storage of each object are what it was given) it is, and `ResultInvariant` has a lemma per way
to change a storage (`HoldStep`, `CopyFromStep`, `MoveFromStep`, `ApplyStep`, `WriteStep`,
`RemoveStep`).  `Destroys` and `HoldsTheGiven` follow.

**SignalSlot_proofs** (`SignalAssumption`: signals and observers are different objects,
`KeyOrder` lists the keys that are used).  There are two invariants.  `Frames` is about the stack: an
emission that is in a slot holds the object its copied connection is about, which is
tracked or is being destroyed at the top of the stack (`Holding`, `DestructorsOnTop`); a weak
pointer is of a generation that exists or has existed, so that what has expired stays expired
when another object takes the address (`Known`); and an emission has called, up to where it
is, exactly what was connected and had not expired, in that order (`Delivering`, with a map
from calls to connections in `Placed`).  `SlotsHaveObjects` and `DeliveryIsComplete` follow,
whatever is in the lists: only `Fired` shortens the stack under an emission
(`EndsWhenDelivered`).  `Lists` relates the lists of both sides: what is not alive
has none (`Empties`), a connection is with the object that lives at its place now and of the
signal's signature (`Belonging`), signal and observer list each other equally often under
every key (`Agreeing`, counted by `Often`).  `InsertStep` and `WithoutStep` say what sorted
insertion and removal do to such counts, and there is a lemma per step and invariant
(`ConnectLists`, ..., `ClearLists`).  `DisconnectsAutomatically` and `KnownOnBothSides` follow, under
`SignaturesDiffer`: no slot function is connected to two signals.  Without it the observer
forgets connections that the other signal still has; that is the run `signal_slot_stale`.

**WaveIo_proofs** (no assumption but the module's).  `Ownership`: one object at most, or the
program, has the stream, and only while it is open.  The invariant speaks of the objects
pair by pair (`Exclusive`) and ties ownership to `open` (`Owned`).  `StreamIsClosed` is the action
property `NeverLost`: no step takes the stream from its last owner without closing it, when no
format has 8 bits.  The hypothesis is the code's: `read()` and `write()` stop at `V1_CODEMISSING()`
for such a format and drop the file unclosed (section 4).

**Tracing_proofs** (`ProgramAssumption`: finitely many recorders and a longest string; the
counter has room above the capacity for the blocks of one addition of each recorder).  Everything
is proved for any number of recorders, buckets and blocks and for strings of any number of blocks,
`Intact =>`: as long as each string has the room it needs and the report and the reset came
between no two steps of a recorder that belong together.  TLC refutes the properties without
either: a string at the end of a bucket is given a block that does not exist, one that overruns
its block takes the next one's event from the report (`StringSizes = {0, 3}`, `HeaderSize = 3`), and
a report or reset between a recorder's steps gives a block two owners.  `OnceIntact`: what was lost is never regained, so that the
steps need the invariant only of intact states.

`Exclusion`: blocks have one owner (`BlocksAreExclusive`).  The property says nothing of the
counters, and is not inductive.  `IInv` adds why the additions give out each block once: a
counter is at most the capacity with nothing to undo, or it is the capacity plus the blocks of
the additions about to be undone (`Counters`), so that none of these is followed by an addition
that finds room; what is owned lies below the counter and has one owner, the event whose string
is being copied included (`Ownership`); a string that has room fills its blocks to the last one
and no header behind them (`Rooms`, `StringRoom`); an event in progress is nowhere but in the
block its recorder owns (`Identities`); nothing recorded is in a block that is not given out yet,
except while the reset passes over the buckets (`Fresh`, `Phases`).  `CallerStep` is the part the
steps of a call share; each step of a recorder and of the controlling thread has a lemma
(`GrowStep`, `UndoStep`, ..., `ResetStep`).

A second invariant, `Accounts`, says where every event is: how far the report and the reset
have come (`Stages`), that the buckets a recorder has searched so far are still full
(`Searches`: outside of a reset, a counter falls only by additions to a full bucket that are
undone), that the blocks below the counter the report has stored are of recorded events or of
recorders that are about to write them, and the others of neither (`Filled`), that a recorded
event has one block, which points to its string (`Contents`), and that the report is what the
buckets held (`Reports`): once they are read, the recorders that are left only find that there is
no room.  `NothingLost` (`DroppedWhenFull`) and `CompleteReport` (`ReportIsComplete`) follow.
`RecordingBlocked` is the property that the run `tracing_race` refutes, where the report replaced
no counter that was still to be lowered: recorders that run on add to the counter of a blocked
bucket and undo that, in any number, and none is ever given a block of it.

**FunctionStorage_proofs** (`StorageAssumption`: the code of members is aligned to 4 and
apart from the trampolines).  The invariant says which words stand for which target
(`Stands`); `Flags` and `SetTrampoline` show that the two bits can be told from the address,
and `CallsTheTarget` that a call enters what the Function was made for.  `EqualsTheTarget`:
`operator==` has no false positives, knows free and fast-bound member functions again, and of
empty Functions compares the words that they were left with.

**MCObjects_proofs** (`StorageAssumed`, `ObjectsAssumption`) proves six properties of the run
`objects`.  Each invariant is about one part and holds trivially where a behaviour is about
another one.

- `CallsTheTarget` transfers the proofs of `FunctionStorage_proofs` to the instance
  (`StorageBehaves`).
- `OwnsTheirArrays`.  For ring buffers, `RingInv`: an object with an array is its sole owner
  and its pointers lie in it; which of the pointers a moved-from object keeps differs
  between builds.  For audio buffers, `AudioInv` says the same of both arrays and of the
  channel pointers.  `BuffersAreValues` is the refinement of `BufferValues`: the value of a buffer
  is cut out of its array (`Cut`, `Cell`), and an operation changes cells of its own array only,
  also when the address of a deleted array is used again.
- `ScopesAreNested`: `ScopeInv` counts the open scopes of all threads and, as long as none have
  overlapped, says that each saved value is that of the scope around it.
- `ViewsShowTheirParts`: `ViewsInv` says that each view is a part of the array and shows the
  elements it is to show; `SliceIsPart` is the unsigned arithmetic of subsets, and
  `SubsetTestsHold` the rows of the repository's test.
- `RangesAreCopied`: `CopyInv` says how far `copy()` has come: the elements before the current one
  are copied, unless the target overtakes the source, and no others are changed
  (`CopiedSoFar`); `CopiedNext` shows that the next element of the source is not yet overwritten.
- `DelegatesCallDirectly`: whether a delegate calls what a direct call does depends on when it
  was bound.  `HoldsBound` says that its code is an interposer, a thunk, or the method of
  the dynamic type that its object had then (`LookedUp`), and that the object is alive.
  `FastRuns`, `SafeRuns` and `CallRuns` say what each of these runs, on either platform and for
  every class of the tests.

**Only model-checked.**

- Liveness (`CallsComplete`, `CallsReturn`, `ReadLoopEnds`), which TLAPS 1.4.5 does not reach.
- The agreement of the peak finder with its reference (`FindsReferencePeaks`), its assertions
  and ranges (`StaysInBounds`): the isolator's operators and the reference are folds and
  loops over streams, so that this is induction over data, and `DequeLoops` takes operators
  as arguments.  `StaysInBounds` of the deque and of the window maxima is proved
  (`TypeCorrect`, `QueueSuffices`).
- The tables of the tests (`VectorsMatch`), which are finite, and `Bits`, which uses `Bitwise`.
- What is in a wave file and what is heard of it (`FileHoldsRecording`, `HearsRecording`): the
  loops over the buffers of a write or read and the search for a chunk are recursive
  functions, again induction over data.

## 6. Not modelled

Weak memory models (the code excludes them).  Element types whose constructors throw.  The
machine code of trampolines and vtables (platform ABI), but for what they call.  Floating
point: MIDI numbers, chirps, statistics, smoothing and interpolation are formulas over it
that TLC cannot evaluate; samples of the models are integers.  The formatting of reports and
their order, sample rates, byte orders.  Of `range.hpp`, the functions that forward to one
`std` algorithm each; `ItRange` adds none of its own state.  Platform services (threads'
names and priorities, debug output, file paths) are system calls.  The disabled second
implementation in `signal-slot.hpp` is not compiled.  Vendored code other than the parts
named above; builds and test drivers.
