---------------------------- MODULE AudioBuffer ----------------------------
(***************************************************************************)
(* AudioBuffer (src/dsp/audioBuffer.hpp): an array of samples and one of   *)
(* pointers to the channels in it, both on the heap, and the blocks        *)
(* (src/dsp/audioBlock.hpp) its users read and write them through.  A      *)
(* pointer is an address, 0 for nullptr; a channel is an array's address   *)
(* and an offset.  Addresses of deleted arrays are used again.             *)
(***************************************************************************)
EXTENDS Naturals, Sequences, FiniteSetsExt

CONSTANTS Objects,      \* the variables of type AudioBuffer
          V1_DEBUG,
          Samples,      \* what is written to a channel, besides 0
          Addresses,    \* bound: arrays on the heap at once
          MaxChannels, MaxSamples   \* bounds: the arguments of resize()

VARIABLES channelArrays,  \* the heap: address of mppChannels |-> channel pointers
          sampleArrays,   \* the heap: address of mpBuffer |-> samples
          buffers         \* the objects that exist

vars == <<channelArrays, sampleArrays, buffers>>

Exists(o) == o \in DOMAIN buffers

NewBuffer == [mppChannels |-> 0, mpBuffer |-> 0, mNumChannels |-> 0, mNumSamples |-> 0]

Init == /\ channelArrays = [a \in {} |-> << >>]
        /\ sampleArrays = [a \in {} |-> << >>]
        /\ buffers = [o \in {} |-> NewBuffer]

With(f, o, x)  == [p \in DOMAIN f \cup {o} |-> IF p = o THEN x ELSE f[p]]
Without(f, ps) == [p \in DOMAIN f \ ps |-> f[p]]
Free(arrays)   == Addresses \ DOMAIN arrays

-----------------------------------------------------------------------------
(* destroy() and resize() as operators on the heap and one buffer *)

\* the addresses destroy() deletes, where b holds them
Deletes(b, pointer) == IF b.mNumSamples = 0 THEN {} ELSE {pointer}

Destroyed(b) == IF b.mNumSamples = 0 THEN b
                ELSE IF V1_DEBUG THEN NewBuffer ELSE [b EXCEPT !.mNumSamples = 0]

\* the i-th channel starts behind i channels of samples
ChannelPointers(buffer, channels, samples) ==
  [c \in 1..channels |-> [array |-> buffer, offset |-> (c - 1) * samples]]

\* resize(), with the samples that are copied into the new array by memcpy()
Allocate(o, channels, samples, contents) ==
  LET old == IF Exists(o) THEN buffers[o] ELSE NewBuffer
      chs == Without(channelArrays, Deletes(old, old.mppChannels))
      smp == Without(sampleArrays, Deletes(old, old.mpBuffer))
  IN /\ Free(chs) # {} /\ Free(smp) # {}
     /\ LET p == Min(Free(chs))
            b == Min(Free(smp))
        IN /\ channelArrays' = With(chs, p, ChannelPointers(b, channels, samples))
           /\ sampleArrays' = With(smp, b, contents)
           /\ buffers' = With(buffers, o, [mppChannels |-> p, mpBuffer |-> b,
                                           mNumChannels |-> channels, mNumSamples |-> samples])

resize(o, channels, samples) ==
  Allocate(o, channels, samples, [i \in 1..(channels * samples) |-> 0])

-----------------------------------------------------------------------------
(* Constructors, destructor and assignments *)

Construct(o) ==
  /\ ~Exists(o)
  /\ buffers' = With(buffers, o, NewBuffer)
  /\ UNCHANGED <<channelArrays, sampleArrays>>

\* what destroy() does to the heap
DeleteArrays(o) ==
  /\ channelArrays' = Without(channelArrays, Deletes(buffers[o], buffers[o].mppChannels))
  /\ sampleArrays' = Without(sampleArrays, Deletes(buffers[o], buffers[o].mpBuffer))

destroy(o)  == DeleteArrays(o) /\ buffers' = [buffers EXCEPT ![o] = Destroyed(@)]
Destruct(o) == DeleteArrays(o) /\ buffers' = Without(buffers, {o})

SharesArray(o, src) ==
  /\ Exists(o) /\ buffers[o].mNumSamples > 0 /\ buffers[src].mNumSamples > 0
  /\ buffers[o].mpBuffer = buffers[src].mpBuffer

\* (mutant of Copy: copies pointers as the compiler's own copy constructor would)
CopyShallow(o, src) ==
  /\ Exists(src) /\ o # src
  /\ buffers' = With(buffers, o, buffers[src])
  /\ UNCHANGED <<channelArrays, sampleArrays>>

\* copyFrom(): copy constructor and copy assignment.  An array of no samples at
\* all is the only thing that is copied from a source without samples.
Copy(o, src) ==
  /\ Exists(src)
  /\ IF SharesArray(o, src) THEN UNCHANGED vars
     ELSE Allocate(o, buffers[src].mNumChannels, buffers[src].mNumSamples,
                   IF buffers[src].mNumSamples = 0 THEN << >>
                   ELSE sampleArrays[buffers[src].mpBuffer])

\* what a move leaves behind
MovedFrom(b) == IF V1_DEBUG THEN NewBuffer ELSE [b EXCEPT !.mNumSamples = 0]

\* (mutant of Move: does not delete what the target owns)
MoveWithoutDestroy(o, src) ==
  /\ Exists(src)
  /\ buffers' = With(With(buffers, o, buffers[src]), src, MovedFrom(buffers[src]))
  /\ UNCHANGED <<channelArrays, sampleArrays>>

\* move constructor and move assignment, also of a buffer to itself
Move(o, src) ==
  LET old   == IF Exists(o) THEN buffers[o] ELSE NewBuffer
      moved == IF o = src THEN Destroyed(old) ELSE buffers[src]
  IN /\ Exists(src)
     /\ channelArrays' = Without(channelArrays, Deletes(old, old.mppChannels))
     /\ sampleArrays' = Without(sampleArrays, Deletes(old, old.mpBuffer))
     /\ buffers' = With(With(buffers, o, moved), src, MovedFrom(moved))

-----------------------------------------------------------------------------
(* Access through an AudioBlock, which asserts that a block without        *)
(* channels has neither samples nor a pointer.  The array of a buffer that *)
(* was moved from or destroyed is no more valid, in release builds.        *)

HasBlock(b) == IF b.mNumChannels = 0 THEN b.mNumSamples = 0 /\ b.mppChannels = 0
               ELSE b.mNumSamples > 0

Channel(b, c) == channelArrays[b.mppChannels][c]

\* channel(c)[i - 1] = s
Write(o, c, i, s) ==
  LET b == buffers[o]
      p == Channel(b, c)
  IN /\ HasBlock(b) /\ c <= b.mNumChannels /\ i <= b.mNumSamples
     /\ sampleArrays' = [sampleArrays EXCEPT ![p.array][p.offset + i] = s]
     /\ UNCHANGED <<channelArrays, buffers>>

\* clear(), fill() and applyGain() of one channel or of all: a function of each
\* sample, through its channel's pointer
apply(o, channels, change) ==
  LET b  == buffers[o]
      ps == {Channel(b, c) : c \in channels}
  IN /\ HasBlock(b) /\ channels \subseteq 1..b.mNumChannels
     /\ sampleArrays' =
          [a \in DOMAIN sampleArrays |->
             [k \in DOMAIN sampleArrays[a] |->
                IF \E p \in ps : p.array = a /\ k - p.offset \in 1..b.mNumSamples
                THEN change[sampleArrays[a][k]] ELSE sampleArrays[a][k]]]
     /\ UNCHANGED <<channelArrays, buffers>>

Next == \E o \in Objects :
          \/ Construct(o)
          \/ \E channels \in 0..MaxChannels, samples \in 0..MaxSamples : resize(o, channels, samples)
          \/ \E src \in Objects : Copy(o, src) \/ Move(o, src)
          \/ /\ Exists(o)
             /\ \/ destroy(o) \/ Destruct(o)
                \/ \E c \in 1..MaxChannels, s \in Samples \cup {0} :
                     \E channels \in {{c}, 1..buffers[o].mNumChannels} :
                       apply(o, channels, [x \in Samples \cup {0} |-> s])
                \/ \E c \in 1..MaxChannels, i \in 1..MaxSamples, s \in Samples : Write(o, c, i, s)

Spec == Init /\ [][Next]_vars

-----------------------------------------------------------------------------
(* Properties *)

\* A buffer with samples is the only owner of its two arrays; a moved-from one
\* owns none.  No array outlives its owner but those that resize(n, 0) and a
\* copy of an empty buffer allocate, which destroy() takes for none.
Owns(o) == Exists(o) /\ buffers[o].mNumSamples > 0
OwnsItsArrays ==
  /\ \A o \in Objects : Owns(o) => /\ buffers[o].mppChannels \in DOMAIN channelArrays
                                   /\ buffers[o].mpBuffer \in DOMAIN sampleArrays
  /\ \A o, p \in Objects : Owns(o) /\ Owns(p) /\ o # p => buffers[o].mpBuffer # buffers[p].mpBuffer
                                                       /\ buffers[o].mppChannels # buffers[p].mppChannels
  /\ \A a \in DOMAIN sampleArrays :
       sampleArrays[a] = << >> \/ \E o \in Objects : Owns(o) /\ buffers[o].mpBuffer = a

-----------------------------------------------------------------------------
(* What the blocks of a buffer show, channel by channel: the value that     *)
(* BufferValues says it has                                                *)

ChannelSamples(b, c) == LET p == Channel(b, c)
                        IN [i \in 1..b.mNumSamples |-> sampleArrays[p.array][p.offset + i]]
HasArrays(b) ==
  /\ b.mppChannels \in DOMAIN channelArrays /\ Len(channelArrays[b.mppChannels]) = b.mNumChannels
  /\ \A c \in 1..b.mNumChannels :
       LET p == Channel(b, c)
       IN p.array \in DOMAIN sampleArrays /\ p.offset + b.mNumSamples <= Len(sampleArrays[p.array])
Contents(b) == IF b.mNumSamples = 0 \/ ~HasArrays(b) THEN << >>
               ELSE [c \in 1..b.mNumChannels |-> ChannelSamples(b, c)]
=============================================================================
