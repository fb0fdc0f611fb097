--------------------------- MODULE MCObjects_proofs ---------------------------
(***************************************************************************)
(* What the run "objects" checks of the classes MCObjects instantiates     *)
(* holds for any threads, variables, objects, addresses, sizes and depths: *)
(* arrays have one owner, audio buffers are values, a Function's words     *)
(* stand for what it was made of, scopes nest, views show their part, and  *)
(* delegates call what a direct call does.  Each section has the invariant *)
(* of one class, what its steps keep, and the theorem about ObjectsSpec.   *)
(***************************************************************************)
EXTENDS MCObjects, FiniteSetTheorems, NaturalsInduction, WellFoundedInduction, TLAPS

-----------------------------------------------------------------------------
(* Ring buffers and their arrays *)

Pointers == [array : Int, offset : Int]

\* A ring buffer that owns an array owns it alone, and points into it.
OwnsAlone(o) ==
  LET ring == rings[o] IN
  /\ ring.mpData \in DOMAIN arrays /\ arrays[ring.mpData] = ring.mCapacity
  /\ \A p \in {ring.mpHead, ring.mpTail} : p.array = ring.mpData /\ p.offset \in 0..(ring.mCapacity - 1)
  /\ \A p \in DOMAIN rings \ {o} : rings[p].mpData # ring.mpData

RingTypeOK ==
  /\ rings \in [DOMAIN rings -> [mCapacity : Int, mpData : Int, mpHead : Pointers, mpTail : Pointers]]
  /\ DOMAIN arrays \subseteq Addresses /\ arrays = [a \in DOMAIN arrays |-> arrays[a]]

RingInv(debug) ==
  /\ RingTypeOK
  /\ \A o \in DOMAIN rings : rings[o].mpData # 0 => OwnsAlone(o)
  /\ \A a \in DOMAIN arrays : \E o \in DOMAIN rings : rings[o].mpData = a
  /\ debug => \A o \in DOMAIN rings : rings[o].mpData = 0 => rings[o].mpHead = rings[o].mpTail

LEMMA LeastAddress ==
  ASSUME NEW S \in SUBSET Nat, S # {}
  PROVE  (CHOOSE x \in S : \A y \in S : x <= y) \in S
<1>1. \E x \in S : \A y \in Nat : y < x => y \notin S
  <2>1. \E x \in S : \A y \in SetLessThan(x, OpToRel(<, Nat), Nat) : y \notin S
    BY WFMin, NatLessThanWellFounded DEF SetLessThan
  <2> QED
    BY <2>1 DEF SetLessThan, OpToRel
<1>2. \E x \in S : \A y \in S : x <= y
  BY <1>1
<1> QED
  BY <1>2

\* f is g but at o, where it is x
Puts(g, f, o, x) ==
  /\ DOMAIN g = DOMAIN f \cup {o} /\ g[o] = x /\ \A p \in DOMAIN f \ {o} : g[p] = f[p]
  /\ g = [p \in DOMAIN g |-> g[p]]

LEMMA RingWith ==
  ASSUME NEW debug, NEW f, NEW o, NEW x
  PROVE  Puts(Ring(debug)!With(f, o, x), f, o, x)
  BY DEF Puts, Ring!With

LEMMA RingStep ==
  ASSUME Addresses \subseteq Nat \ {0}, Capacities \subseteq Nat, NEW debug \in BOOLEAN, RingInv(debug), Ring(debug)!Next
  PROVE  RingInv(debug)'
<1>1. ASSUME NEW o \in Var, Ring(debug)!Construct(o) PROVE RingInv(debug)'
  <2>1. Puts(rings', rings, o, Ring(debug)!NewRing) /\ o \notin DOMAIN rings /\ arrays' = arrays
    BY <1>1, RingWith DEF Ring!Construct, Ring!Exists
  <2>2. Ring(debug)!NewRing = [mCapacity |-> 0, mpData |-> 0, mpHead |-> [array |-> 0, offset |-> 0], mpTail |-> [array |-> 0, offset |-> 0]]
    BY DEF Ring!NewRing, Ring!NullPointer
  <2>3. RingTypeOK'
    BY <2>1, <2>2 DEF RingInv, RingTypeOK, Puts, Pointers
  <2>4. ASSUME NEW p \in DOMAIN rings', rings'[p].mpData # 0
        PROVE  OwnsAlone(p)'
    BY <2>1, <2>2, <2>4 DEF RingInv, RingTypeOK, Puts, OwnsAlone
  <2>5. \A a \in DOMAIN arrays' : \E p \in DOMAIN rings' : rings'[p].mpData = a
    BY <2>1, <2>2 DEF RingInv, RingTypeOK, Puts
  <2>6. debug => \A p \in DOMAIN rings' : rings'[p].mpData = 0 => rings'[p].mpHead = rings'[p].mpTail
    BY <2>1, <2>2 DEF RingInv, RingTypeOK, Puts
  <2> QED
    BY <2>3, <2>4, <2>5, <2>6 DEF RingInv
<1>2. ASSUME NEW o \in Var, Ring(debug)!Destruct(o) PROVE RingInv(debug)'
  <2>1. /\ o \in DOMAIN rings /\ DOMAIN rings' = DOMAIN rings \ {o}
        /\ rings' = [p \in DOMAIN rings' |-> rings[p]]
        /\ DOMAIN arrays' = DOMAIN arrays \ {rings[o].mpData}
        /\ arrays' = [a \in DOMAIN arrays' |-> arrays[a]]
    BY <1>2 DEF Ring!Destruct, Ring!Exists, Ring!Without
  <2>2. RingTypeOK'
    BY <2>1 DEF RingInv, RingTypeOK
  <2>3. ASSUME NEW p \in DOMAIN rings', rings'[p].mpData # 0
        PROVE  OwnsAlone(p)'
    <3>1. OwnsAlone(p) /\ rings'[p] = rings[p]
      BY <2>1, <2>3 DEF RingInv
    <3>2. rings[p].mpData # rings[o].mpData
      BY <2>1, <2>3, <3>1 DEF OwnsAlone
    <3> QED
      BY <2>1, <3>1, <3>2 DEF OwnsAlone
  <2>4. \A a \in DOMAIN arrays' : \E p \in DOMAIN rings' : rings'[p].mpData = a
    BY <2>1 DEF RingInv, RingTypeOK
  <2>5. debug => \A p \in DOMAIN rings' : rings'[p].mpData = 0 => rings'[p].mpHead = rings'[p].mpTail
    BY <2>1 DEF RingInv
  <2> QED
    BY <2>2, <2>3, <2>4, <2>5 DEF RingInv
<1>3. ASSUME NEW o \in Var, NEW capacity \in Capacities, Ring(debug)!setCapacity(o, capacity)
      PROVE  RingInv(debug)'
  <2> DEFINE old  == rings[o].mpData
             new == Ring(debug)!Min(Addresses \ (DOMAIN arrays \ {old}))
             ring == [mCapacity |-> capacity + 1, mpData |-> new,
                      mpHead |-> [array |-> new, offset |-> 0], mpTail |-> [array |-> new, offset |-> 0]]
  <2>1. /\ o \in DOMAIN rings
        /\ Addresses \ (DOMAIN arrays \ {old}) # {}
        /\ arrays' = Ring(debug)!With(Ring(debug)!Without(arrays, old), new, capacity + 1)
        /\ rings' = [rings EXCEPT ![o] = ring]
    BY <1>3 DEF Ring!setCapacity, Ring!Exists, Ring!Without
  <2>2. new \in Addresses \ (DOMAIN arrays \ {old}) /\ new \in Nat \ {0}
    <3>1. Addresses \ (DOMAIN arrays \ {old}) \in SUBSET Nat
      OBVIOUS
    <3> QED
      BY <2>1, <3>1, LeastAddress DEF Ring!Min
  <2>3. /\ DOMAIN arrays' = (DOMAIN arrays \ {old}) \cup {new} /\ arrays'[new] = capacity + 1
        /\ \A a \in DOMAIN arrays \ {old} : arrays'[a] = arrays[a]
        /\ arrays' = [a \in DOMAIN arrays' |-> arrays'[a]]
    <3> HIDE DEF new, old
    <3>1. /\ DOMAIN Ring(debug)!Without(arrays, old) = DOMAIN arrays \ {old}
          /\ \A a \in DOMAIN arrays \ {old} : Ring(debug)!Without(arrays, old)[a] = arrays[a]
      BY DEF Ring!Without
    <3>2. Puts(arrays', Ring(debug)!Without(arrays, old), new, capacity + 1)
      BY <2>1, RingWith
    <3> QED
      BY <2>2, <3>1, <3>2 DEF Puts
  <2>4. rings' \in [DOMAIN rings -> [mCapacity : Int, mpData : Int, mpHead : Pointers, mpTail : Pointers]]
    <3>1. ring \in [mCapacity : Int, mpData : Int, mpHead : Pointers, mpTail : Pointers]
      BY <2>2 DEF Pointers
    <3> QED
      BY <2>1, <3>1 DEF RingInv, RingTypeOK
  <2>5. DOMAIN rings' = DOMAIN rings /\ rings'[o] = ring /\ \A p \in DOMAIN rings \ {o} : rings'[p] = rings[p]
    BY <2>1
  <2> HIDE DEF new, old
  <2>6. ASSUME NEW p \in DOMAIN rings \ {o}, rings[p].mpData # 0
        PROVE  OwnsAlone(p) /\ rings[p].mpData # old /\ rings[p].mpData # new
    BY <2>1, <2>2, <2>6 DEF RingInv, OwnsAlone, old
  <2>7. ASSUME NEW p \in DOMAIN rings', rings'[p].mpData # 0
        PROVE  OwnsAlone(p)'
    <3>1. CASE p = o
      <4>1. \A q \in DOMAIN rings' \ {o} : rings'[q].mpData # new
        BY <2>2, <2>5, <2>6
      <4> QED
        BY <2>3, <2>5, <3>1, <4>1 DEF OwnsAlone
    <3>2. CASE p # o
      <4>1. OwnsAlone(p) /\ rings'[p] = rings[p] /\ rings[p].mpData # old /\ rings[p].mpData # new
        BY <2>5, <2>6, <2>7, <3>2
      <4> QED
        BY <2>3, <2>5, <4>1 DEF OwnsAlone
    <3> QED
      BY <3>1, <3>2
  <2>8. \A a \in DOMAIN arrays' : \E p \in DOMAIN rings' : rings'[p].mpData = a
    BY <2>1, <2>3, <2>5 DEF RingInv, old
  <2>9. debug => \A p \in DOMAIN rings' : rings'[p].mpData = 0 => rings'[p].mpHead = rings'[p].mpTail
    BY <2>5 DEF RingInv
  <2>10. RingTypeOK'
    BY <2>2, <2>3, <2>4 DEF RingInv, RingTypeOK
  <2> QED
    BY <2>7, <2>8, <2>9, <2>10 DEF RingInv
<1>4. ASSUME NEW o \in Var, NEW src \in Var, Ring(debug)!Move(o, src) PROVE RingInv(debug)'
  <2> DEFINE left == Ring(debug)!MovedFrom(rings[src])
  <2>1. /\ src \in DOMAIN rings
        /\ arrays' = IF o \in DOMAIN rings THEN Ring(debug)!Without(arrays, rings[o].mpData) ELSE arrays
        /\ rings' = Ring(debug)!With(Ring(debug)!With(rings, o, rings[src]), src, left)
    BY <1>4 DEF Ring!Move, Ring!Exists
  <2>2. /\ left \in [mCapacity : Int, mpData : Int, mpHead : Pointers, mpTail : Pointers]
        /\ left.mpData = 0
        /\ debug => left.mpHead = left.mpTail
    BY <2>1 DEF Ring!MovedFrom, Ring!WipedRing, Ring!NewRing, Ring!NullPointer, Ring!kUnset,
       Pointers,
                RingInv, RingTypeOK
  <2> HIDE DEF left
  <2>3. /\ DOMAIN rings' = DOMAIN rings \cup {o} /\ rings'[src] = left
        /\ o # src => rings'[o] = rings[src]
        /\ \A p \in DOMAIN rings \ {o, src} : rings'[p] = rings[p]
        /\ rings' = [p \in DOMAIN rings' |-> rings'[p]]
    BY <2>1 DEF Ring!With
  <2>4. /\ DOMAIN arrays' = IF o \in DOMAIN rings THEN DOMAIN arrays \ {rings[o].mpData} ELSE DOMAIN arrays
        /\ arrays' = [a \in DOMAIN arrays' |-> arrays[a]]
    BY <2>1 DEF Ring!Without, RingInv, RingTypeOK
  <2>5. RingTypeOK'
    BY <2>1, <2>2, <2>3, <2>4 DEF RingInv, RingTypeOK
  \* what p owns afterwards, r owned before
  <2>6. ASSUME NEW p \in DOMAIN rings', rings'[p].mpData # 0
        PROVE  \E r \in DOMAIN rings \ {o} : /\ rings'[p] = rings[r] /\ OwnsAlone(r)
                                             /\ p = IF r = src THEN o ELSE r
    <3>1. p # src
      BY <2>2, <2>3, <2>6
    <3>2. CASE p = o
      BY <2>1, <2>3, <2>6, <3>1, <3>2 DEF RingInv
    <3>3. CASE p # o
      BY <2>3, <2>6, <3>1, <3>3 DEF RingInv
    <3> QED
      BY <3>2, <3>3
  <2>7. ASSUME NEW p \in DOMAIN rings', rings'[p].mpData # 0
        PROVE  OwnsAlone(p)'
    <3>1. PICK r \in DOMAIN rings \ {o} : /\ rings'[p] = rings[r] /\ OwnsAlone(r)
                                          /\ p = IF r = src THEN o ELSE r
      BY <2>6, <2>7
    <3>2. rings[r].mpData \in DOMAIN arrays' /\ arrays'[rings[r].mpData] = arrays[rings[r].mpData]
      BY <2>4, <3>1 DEF OwnsAlone
    <3>3. ASSUME NEW q \in DOMAIN rings' \ {p} PROVE rings'[q].mpData # rings'[p].mpData
      <4>1. CASE rings'[q].mpData = 0
        BY <2>7, <4>1
      <4>2. CASE rings'[q].mpData # 0
        <5>1. PICK t \in DOMAIN rings \ {o} : /\ rings'[q] = rings[t] /\ OwnsAlone(t)
                                              /\ q = IF t = src THEN o ELSE t
          BY <2>6, <4>2
        <5> QED
          BY <3>1, <3>3, <5>1 DEF OwnsAlone
      <4> QED
        BY <4>1, <4>2
    <3> QED
      BY <3>1, <3>2, <3>3 DEF OwnsAlone
  <2>8. ASSUME NEW a \in DOMAIN arrays' PROVE \E p \in DOMAIN rings' : rings'[p].mpData = a
    <3>1. PICK r \in DOMAIN rings : rings[r].mpData = a
      BY <2>4 DEF RingInv
    <3>2. r # o
      BY <2>4, <3>1
    <3> QED
      BY <2>1, <2>3, <3>1, <3>2
  <2>9. ASSUME debug, NEW p \in DOMAIN rings', rings'[p].mpData = 0
        PROVE  rings'[p].mpHead = rings'[p].mpTail
    <3>1. CASE p = src
      BY <2>2, <2>3, <2>9, <3>1
    <3>2. CASE p # src
      <4>1. PICK r \in DOMAIN rings : rings'[p] = rings[r]
        BY <2>1, <2>3, <2>9, <3>2
      <4> QED
        BY <2>9, <4>1 DEF RingInv
    <3> QED
      BY <3>1, <3>2
  <2> QED
    BY <2>5, <2>7, <2>8, <2>9 DEF RingInv
<1>5. ASSUME NEW o \in Var, Ring(debug)!push(o) \/ Ring(debug)!drop(o) PROVE RingInv(debug)'
  <2> DEFINE ring == rings[o]
             Advanced(p) == Ring(debug)!Advanced(ring, p)
  <2>1. /\ o \in DOMAIN rings /\ ring.mpData # 0 /\ arrays' = arrays
        /\ \/ rings' = [rings EXCEPT ![o].mpHead = Advanced(@)]
           \/ rings' = [rings EXCEPT ![o].mpTail = Advanced(@)]
    BY <1>5 DEF Ring!push, Ring!drop, Ring!Usable, Ring!Exists
  <2>2. /\ OwnsAlone(o) /\ ring \in [mCapacity : Int, mpData : Int, mpHead : Pointers, mpTail : Pointers]
    BY <2>1 DEF RingInv, RingTypeOK
  <2>3. ASSUME NEW p \in {ring.mpHead, ring.mpTail}
        PROVE  /\ Advanced(p) \in Pointers /\ Advanced(p).array = ring.mpData
               /\ Advanced(p).offset \in 0..(ring.mCapacity - 1)
    BY <2>2 DEF Ring!Advanced, OwnsAlone, Pointers
  <2> HIDE DEF Advanced
  <2>4. /\ DOMAIN rings' = DOMAIN rings /\ \A p \in DOMAIN rings \ {o} : rings'[p] = rings[p]
        /\ rings'[o] = [ring EXCEPT !.mpHead = Advanced(@)] \/ rings'[o] = [ring EXCEPT !.mpTail = Advanced(@)]
        /\ rings' = [p \in DOMAIN rings' |-> rings'[p]]
    BY <2>1
  <2>5. /\ rings'[o] \in [mCapacity : Int, mpData : Int, mpHead : Pointers, mpTail : Pointers]
        /\ rings'[o].mpData = ring.mpData /\ rings'[o].mCapacity = ring.mCapacity
        /\ \A p \in {rings'[o].mpHead, rings'[o].mpTail} : p.array = ring.mpData /\ p.offset \in 0..(ring.mCapacity - 1)
    BY <2>2, <2>3, <2>4 DEF OwnsAlone
  <2>6. RingTypeOK'
    BY <2>1, <2>4, <2>5 DEF RingInv, RingTypeOK
  <2>7. ASSUME NEW p \in DOMAIN rings', rings'[p].mpData # 0 PROVE OwnsAlone(p)'
    <3>1. OwnsAlone(p) /\ rings'[p].mpData = rings[p].mpData
      BY <2>2, <2>4, <2>5, <2>7 DEF RingInv
    <3>2. \A q \in DOMAIN rings : rings'[q].mpData = rings[q].mpData
      BY <2>4, <2>5
    <3>3. CASE p = o
      BY <2>1, <2>4, <2>5, <3>1, <3>2, <3>3 DEF OwnsAlone
    <3>4. CASE p # o
      BY <2>1, <2>4, <3>1, <3>2, <3>4 DEF OwnsAlone
    <3> QED
      BY <3>3, <3>4
  <2>8. \A a \in DOMAIN arrays' : \E p \in DOMAIN rings' : rings'[p].mpData = a
    BY <2>1, <2>4, <2>5 DEF RingInv
  <2>9. debug => \A p \in DOMAIN rings' : rings'[p].mpData = 0 => rings'[p].mpHead = rings'[p].mpTail
    BY <2>1, <2>4, <2>5 DEF RingInv
  <2> QED
    BY <2>6, <2>7, <2>8, <2>9 DEF RingInv
<1> QED
  BY <1>1, <1>2, <1>3, <1>4, <1>5 DEF Ring!Next

LEMMA RingOwns ==
  \A debug \in BOOLEAN :
    RingInv(debug) => Ring(debug)!OwnsItsArray /\ (debug => Ring(debug)!NonEmptyOwnsArray)
<1> SUFFICES ASSUME NEW debug \in BOOLEAN, RingInv(debug)
             PROVE  Ring(debug)!OwnsItsArray /\ (debug => Ring(debug)!NonEmptyOwnsArray)
  OBVIOUS
<1>1. debug => Ring(debug)!NonEmptyOwnsArray
  BY DEF RingInv, Ring!NonEmptyOwnsArray, Ring!empty
<1>2. ASSUME NEW o \in DOMAIN rings, rings[o].mpData # 0
      PROVE  LET ring == rings[o] IN
             /\ ring.mpData \in DOMAIN arrays /\ arrays[ring.mpData] = ring.mCapacity
             /\ \A p \in {ring.mpHead, ring.mpTail} : p.array = ring.mpData /\ p.offset < ring.mCapacity
             /\ \A p \in DOMAIN rings \ {o} : rings[p].mpData # ring.mpData
  <2>1. rings[o].mCapacity \in Int
    BY DEF RingInv, RingTypeOK
  <2> QED
    BY <1>2, <2>1 DEF RingInv, OwnsAlone
<1> QED
  BY <1>1, <1>2 DEF Ring!OwnsItsArray, RingInv

-----------------------------------------------------------------------------
(* Audio buffers and their arrays *)

\* where the i-th sample of channel c is, in an array with n samples for each channel
Cell(c, i, n) == (c - 1) * n + i

LEMMA CellInArray ==
  ASSUME NEW n \in Nat, NEW channels \in Nat, NEW c \in 1..channels, NEW i \in 1..n
  PROVE  Cell(c, i, n) \in 1..(channels * n)
<1>1. /\ (c - 1) * n \in Nat /\ (channels - c) * n \in Nat /\ channels * n \in Nat
      /\ channels * n = (c - 1) * n + n + (channels - c) * n
  BY SMT
<1> QED
  BY <1>1 DEF Cell

\* Channels do not overlap.
LEMMA CellsApart ==
  ASSUME NEW n \in Nat, NEW c \in Nat \ {0}, NEW d \in Nat \ {0}, NEW i \in 1..n,
         Cell(c, i, n) - (d - 1) * n \in 1..n
  PROVE  c = d
<1> DEFINE x == (c - 1) * n
           y == (d - 1) * n
<1>1. x \in Nat /\ y \in Nat /\ x + i - y \in 1..n
  BY SMT DEF Cell
<1>2. CASE c > d
  <2>1. (c - 1 - d) * n \in Nat /\ x - y = n + (c - 1 - d) * n
    BY <1>2, SMT
  <2> QED
    BY <1>1, <2>1
<1>3. CASE c < d
  <2>1. (d - 1 - c) * n \in Nat /\ y - x = n + (d - 1 - c) * n
    BY <1>3, SMT
  <2> QED
    BY <1>1, <2>1
<1> QED
  BY <1>2, <1>3

\* the pointers to the channels in an array
ChannelsIn(array, channels, n) == [c \in 1..channels |-> [array |-> array, offset |-> (c - 1) * n]]

BufferRecords == [mppChannels : Nat, mpBuffer : Nat, mNumChannels : 0..MaxChannels, mNumSamples : 0..MaxSamples]
Owning(o) == o \in DOMAIN buffers /\ buffers[o].mNumSamples > 0

AudioTypeOK ==
  /\ buffers \in [DOMAIN buffers -> BufferRecords] /\ DOMAIN buffers \subseteq Var
  /\ DOMAIN channelArrays \subseteq Addresses /\ channelArrays = [a \in DOMAIN channelArrays |-> channelArrays[a]]
  /\ DOMAIN sampleArrays \subseteq Addresses /\ sampleArrays \in [DOMAIN sampleArrays -> Seq(Samples \cup {0})]

\* A buffer with samples has them, and pointers to the channels, on the heap.
HasItsArrays(o) ==
  LET b == buffers[o] IN
  /\ b.mppChannels \in DOMAIN channelArrays
  /\ channelArrays[b.mppChannels] = ChannelsIn(b.mpBuffer, b.mNumChannels, b.mNumSamples)
  /\ b.mpBuffer \in DOMAIN sampleArrays
  /\ Len(sampleArrays[b.mpBuffer]) = b.mNumChannels * b.mNumSamples

AudioInv ==
  /\ AudioTypeOK
  /\ \A o \in DOMAIN buffers : Owning(o) => HasItsArrays(o)
  /\ \A o, p \in DOMAIN buffers : Owning(o) /\ Owning(p) /\ o # p =>
       buffers[o].mpBuffer # buffers[p].mpBuffer /\ buffers[o].mppChannels # buffers[p].mppChannels
  /\ \A a \in DOMAIN sampleArrays :
       sampleArrays[a] = << >> \/ \E o \in DOMAIN buffers : Owning(o) /\ buffers[o].mpBuffer = a

LEMMA AudioOwns == \A debug \in BOOLEAN : AudioInv => Audio(debug)!OwnsItsArrays
<1> SUFFICES ASSUME NEW debug \in BOOLEAN, AudioInv PROVE Audio(debug)!OwnsItsArrays
  OBVIOUS
<1>1. \A o : Audio(debug)!Owns(o) <=> Owning(o)
  BY DEF Owning, Audio!Owns, Audio!Exists
<1> QED
  BY <1>1, Zenon DEF Audio!OwnsItsArrays, AudioInv, HasItsArrays, AudioTypeOK, Owning

\* An array of samples, by channels; what a buffer shows; and all of them
Cut(samples, channels, n) ==
  IF n = 0 THEN << >> ELSE [c \in 1..channels |-> [i \in 1..n |-> samples[Cell(c, i, n)]]]
Value(o) == Audio(FALSE)!Contents(buffers[o])
ValuesOfAll == [o \in DOMAIN buffers |-> Value(o)]

LEMMA ChannelInArray ==
  ASSUME NEW debug, NEW o, HasItsArrays(o), NEW c \in 1..buffers[o].mNumChannels
  PROVE  /\ Audio(debug)!Channel(buffers[o], c).array = buffers[o].mpBuffer
         /\ Audio(debug)!Channel(buffers[o], c).offset = (c - 1) * buffers[o].mNumSamples
<1> DEFINE b == buffers[o]
           n == b.mNumSamples
           x == (c - 1) * n
<1>1. Audio(debug)!Channel(b, c) = ChannelsIn(b.mpBuffer, b.mNumChannels, n)[c]
  BY DEF HasItsArrays, Audio!Channel
<1>2. ChannelsIn(b.mpBuffer, b.mNumChannels, n)[c] = [array |-> b.mpBuffer, offset |-> x]
  BY Zenon DEF ChannelsIn
<1> HIDE DEF x
<1>3. Audio(debug)!Channel(b, c).array = b.mpBuffer /\ Audio(debug)!Channel(b, c).offset = x
  BY <1>1, <1>2
<1> QED
  BY <1>3 DEF x

LEMMA ContentsAreCut ==
  ASSUME NEW debug, MaxChannels \in Nat, MaxSamples \in Nat, AudioInv, NEW o \in DOMAIN buffers
  PROVE  Audio(debug)!Contents(buffers[o])
           = Cut(sampleArrays[buffers[o].mpBuffer], buffers[o].mNumChannels, buffers[o].mNumSamples)
<1> DEFINE b == buffers[o]
           n == b.mNumSamples
<1>1. b \in BufferRecords /\ n \in Nat /\ b.mNumChannels \in Nat
  BY DEF AudioInv, AudioTypeOK, BufferRecords
<1>2. CASE n = 0
  BY <1>2 DEF Cut, Audio!Contents
<1>3. CASE n # 0
  <2>1. HasItsArrays(o) /\ sampleArrays[b.mpBuffer] \in Seq(Samples \cup {0})
    <3>1. Owning(o)
      BY <1>1, <1>3 DEF Owning
    <3>2. HasItsArrays(o)
      BY <3>1 DEF AudioInv
    <3> QED
      BY <3>2 DEF AudioInv, HasItsArrays, AudioTypeOK
  <2>2. ASSUME NEW c \in 1..b.mNumChannels
        PROVE  /\ Audio(debug)!Channel(b, c).array = b.mpBuffer
               /\ Audio(debug)!Channel(b, c).offset = (c - 1) * n
    BY <2>1, ChannelInArray
  <2>3. Len(channelArrays[b.mppChannels]) = b.mNumChannels
    BY <1>1, <2>1 DEF HasItsArrays, ChannelsIn
  <2>4. ASSUME NEW c \in 1..b.mNumChannels
        PROVE  (c - 1) * n + n <= Len(sampleArrays[b.mpBuffer])
    <3>1. Cell(c, n, n) \in 1..(b.mNumChannels * n)
      BY <1>1, <1>3, CellInArray
    <3> QED
      BY <2>1, <3>1 DEF Cell, HasItsArrays
  <2>5. Audio(debug)!HasArrays(b)
    <3>1. b.mppChannels \in DOMAIN channelArrays /\ b.mpBuffer \in DOMAIN sampleArrays
      BY <2>1 DEF HasItsArrays
    <3> QED
      BY <2>2, <2>3, <2>4, <3>1, Zenon DEF Audio!HasArrays
  <2>6. \A c \in 1..b.mNumChannels :
          Audio(debug)!ChannelSamples(b, c) = [i \in 1..n |-> sampleArrays[b.mpBuffer][Cell(c, i, n)]]
    BY <2>2, Zenon DEF Audio!ChannelSamples, Cell
  <2> QED
    BY <1>3, <2>5, <2>6 DEF Cut, Audio!Contents
<1> QED
  BY <1>2, <1>3

ValuesAreCut == \A o \in DOMAIN buffers :
  Value(o) = Cut(sampleArrays[buffers[o].mpBuffer], buffers[o].mNumChannels, buffers[o].mNumSamples)

LEMMA ValueIsCut == MaxChannels \in Nat /\ MaxSamples \in Nat /\ AudioInv => ValuesAreCut
  BY ContentsAreCut DEF ValuesAreCut, Value

LEMMA AudioWith ==
  ASSUME NEW debug, NEW f, NEW o, NEW x
  PROVE  Puts(Audio(debug)!With(f, o, x), f, o, x)
  BY DEF Puts, Audio!With

\* what o holds on the heap
Pointed(o, pointer) == IF Owning(o) THEN {pointer} ELSE {}

\* resize() and the copy: o's arrays are replaced by new ones, with these contents
LEMMA AllocateStep ==
  ASSUME MaxChannels \in Nat, MaxSamples \in Nat, Addresses \subseteq Nat \ {0},
         NEW debug \in BOOLEAN, AudioInv, NEW o \in Var,
         NEW channels \in 0..MaxChannels, NEW samples \in 0..MaxSamples,
         NEW contents \in Seq(Samples \cup {0}), Len(contents) = channels * samples,
         Audio(debug)!Allocate(o, channels, samples, contents)
  PROVE  /\ AudioInv'
         /\ ValuesOfAll' = Audio(debug)!With(ValuesOfAll, o, Cut(contents, channels, samples))
<1> DEFINE old == IF o \in DOMAIN buffers THEN buffers[o] ELSE Audio(debug)!NewBuffer
           chs == Audio(debug)!Without(channelArrays, Audio(debug)!Deletes(old, old.mppChannels))
           smp == Audio(debug)!Without(sampleArrays, Audio(debug)!Deletes(old, old.mpBuffer))
           p   == Audio(debug)!Min(Addresses \ DOMAIN chs)
           b   == Audio(debug)!Min(Addresses \ DOMAIN smp)
           new == [mppChannels |-> p, mpBuffer |-> b, mNumChannels |-> channels, mNumSamples |-> samples]
<1>1. /\ Addresses \ DOMAIN chs # {} /\ Addresses \ DOMAIN smp # {}
      /\ channelArrays' = Audio(debug)!With(chs, p, Audio(debug)!ChannelPointers(b, channels, samples))
      /\ sampleArrays' = Audio(debug)!With(smp, b, contents)
      /\ buffers' = Audio(debug)!With(buffers, o, new)
  BY DEF Audio!Allocate, Audio!Exists, Audio!Free
<1>2. /\ chs = [a \in DOMAIN channelArrays \ Pointed(o, old.mppChannels) |-> channelArrays[a]]
      /\ smp = [a \in DOMAIN sampleArrays \ Pointed(o, old.mpBuffer) |-> sampleArrays[a]]
      /\ Owning(o) => old = buffers[o]
  <2>1. Owning(o) <=> old.mNumSamples # 0
    BY DEF Owning, Audio!NewBuffer, AudioInv, AudioTypeOK, BufferRecords
  <2> QED
    BY <2>1 DEF Owning, Pointed, Audio!Without, Audio!Deletes
<1> HIDE DEF old, chs, smp
<1>3. p \in Addresses \ DOMAIN chs /\ b \in Addresses \ DOMAIN smp /\ p \in Nat /\ b \in Nat
  <2>1. Addresses \ DOMAIN chs \in SUBSET Nat /\ Addresses \ DOMAIN smp \in SUBSET Nat
    OBVIOUS
  <2>2. p \in Addresses \ DOMAIN chs
    BY <1>1, <2>1, LeastAddress DEF Audio!Min
  <2>3. b \in Addresses \ DOMAIN smp
    BY <1>1, <2>1, LeastAddress DEF Audio!Min
  <2> QED
    BY <2>2, <2>3
<1> HIDE DEF p, b
<1>4. /\ Puts(channelArrays', chs, p, Audio(debug)!ChannelPointers(b, channels, samples))
      /\ Puts(sampleArrays', smp, b, contents)
      /\ Puts(buffers', buffers, o, new)
  BY <1>1, AudioWith
<1>5. Audio(debug)!ChannelPointers(b, channels, samples) = ChannelsIn(b, channels, samples)
  BY DEF Audio!ChannelPointers, ChannelsIn
<1>6. AudioTypeOK'
  <2>1. new \in BufferRecords
    BY <1>3 DEF BufferRecords
  <2>2. buffers' \in [DOMAIN buffers' -> BufferRecords] /\ DOMAIN buffers' \subseteq Var
    BY <1>4, <2>1 DEF Puts, AudioInv, AudioTypeOK
  <2>3. DOMAIN channelArrays' \subseteq Addresses /\ channelArrays' = [a \in DOMAIN channelArrays' |-> channelArrays'[a]]
    BY <1>2, <1>3, <1>4 DEF Puts, AudioInv, AudioTypeOK
  <2>4. DOMAIN sampleArrays' \subseteq Addresses /\ sampleArrays' \in [DOMAIN sampleArrays' -> Seq(Samples \cup {0})]
    BY <1>2, <1>3, <1>4 DEF Puts, AudioInv, AudioTypeOK
  <2> QED
    BY <2>2, <2>3, <2>4 DEF AudioTypeOK
\* the other buffers
<1>7. ASSUME NEW q \in DOMAIN buffers \ {o}
      PROVE  /\ q \in DOMAIN buffers' /\ buffers'[q] = buffers[q]
             /\ Owning(q) => /\ buffers[q].mppChannels \in DOMAIN chs /\ buffers[q].mpBuffer \in DOMAIN smp
                             /\ buffers[q].mppChannels # p /\ buffers[q].mpBuffer # b
                             /\ channelArrays'[buffers[q].mppChannels] = channelArrays[buffers[q].mppChannels]
                             /\ sampleArrays'[buffers[q].mpBuffer] = sampleArrays[buffers[q].mpBuffer]
  <2>1. q \in DOMAIN buffers' /\ buffers'[q] = buffers[q]
    BY <1>4 DEF Puts
  <2>2. ASSUME Owning(q)
        PROVE  buffers[q].mppChannels \in DOMAIN chs /\ buffers[q].mpBuffer \in DOMAIN smp
    <3>1. HasItsArrays(q)
      BY <2>2 DEF AudioInv
    <3>2. Owning(o) => buffers[o].mpBuffer # buffers[q].mpBuffer /\ buffers[o].mppChannels # buffers[q].mppChannels
      BY <2>2 DEF AudioInv, Owning
    <3> QED
      BY <1>2, <3>1, <3>2 DEF HasItsArrays, Pointed
  <2> QED
    BY <1>2, <1>3, <1>4, <2>1, <2>2 DEF Puts
<1>8. buffers'[o] = new /\ o \in DOMAIN buffers' /\ DOMAIN buffers' = DOMAIN buffers \cup {o}
  BY <1>4 DEF Puts
<1> HIDE DEF new
<1>9. /\ new.mppChannels = p /\ new.mpBuffer = b /\ new.mNumChannels = channels /\ new.mNumSamples = samples
      /\ p \in DOMAIN channelArrays' /\ channelArrays'[p] = ChannelsIn(b, channels, samples)
      /\ b \in DOMAIN sampleArrays' /\ sampleArrays'[b] = contents
  BY <1>4, <1>5 DEF Puts, new
<1>10. ASSUME NEW q \in DOMAIN buffers', Owning(q)' PROVE HasItsArrays(q)'
  <2>1. CASE q = o
    BY <1>8, <1>9, <2>1 DEF HasItsArrays
  <2>2. CASE q # o
    <3>1. q \in DOMAIN buffers \ {o} /\ Owning(q)
      BY <1>7, <1>8, <1>10, <2>2 DEF Owning
    <3>2. HasItsArrays(q)
      BY <3>1 DEF AudioInv
    <3> QED
      BY <1>4, <1>7, <3>1, <3>2 DEF HasItsArrays, Puts
  <2> QED
    BY <2>1, <2>2
<1>11. ASSUME NEW q \in DOMAIN buffers', NEW r \in DOMAIN buffers', Owning(q)', Owning(r)', q # r
       PROVE  buffers'[q].mpBuffer # buffers'[r].mpBuffer /\ buffers'[q].mppChannels # buffers'[r].mppChannels
  <2>1. ASSUME NEW t \in DOMAIN buffers' \ {o}, Owning(t)'
        PROVE  /\ t \in DOMAIN buffers /\ Owning(t) /\ buffers'[t] = buffers[t]
               /\ buffers[t].mppChannels # p /\ buffers[t].mpBuffer # b
    BY <1>7, <1>8, <2>1 DEF Owning
  <2>2. CASE q = o
    BY <1>8, <1>9, <1>11, <2>1, <2>2
  <2>3. CASE r = o
    BY <1>8, <1>9, <1>11, <2>1, <2>3
  <2>4. CASE q # o /\ r # o
    BY <1>11, <2>1, <2>4 DEF AudioInv
  <2> QED
    BY <2>2, <2>3, <2>4
<1>12. ASSUME NEW a \in DOMAIN sampleArrays'
       PROVE  sampleArrays'[a] = << >> \/ \E q \in DOMAIN buffers' : Owning(q)' /\ buffers'[q].mpBuffer = a
  <2>1. CASE a = b
    <3>1. CASE samples = 0
      <4>1. Len(contents) = 0
        BY <3>1
      <4>2. contents = << >>
        BY <4>1
      <4> QED
        BY <1>9, <2>1, <4>2
    <3>2. CASE samples # 0
      BY <1>8, <1>9, <2>1, <3>2 DEF Owning
    <3> QED
      BY <3>1, <3>2
  <2>2. CASE a # b
    <3>1. a \in DOMAIN smp /\ sampleArrays'[a] = smp[a]
      BY <1>4, <2>2 DEF Puts
    <3>2. a \in DOMAIN sampleArrays /\ sampleArrays'[a] = sampleArrays[a]
          /\ (Owning(o) => a # buffers[o].mpBuffer)
      BY <1>2, <3>1 DEF Pointed
    <3>3. CASE sampleArrays[a] = << >>
      BY <3>2, <3>3
    <3>4. CASE \E q \in DOMAIN buffers : Owning(q) /\ buffers[q].mpBuffer = a
      <4>1. PICK q \in DOMAIN buffers : Owning(q) /\ buffers[q].mpBuffer = a
        BY <3>4
      <4>2. q # o /\ Owning(q)' /\ buffers'[q] = buffers[q] /\ q \in DOMAIN buffers'
        BY <1>7, <3>2, <4>1 DEF Owning
      <4> QED
        BY <4>1, <4>2
    <3> QED
      BY <3>2, <3>3, <3>4 DEF AudioInv
  <2> QED
    BY <2>1, <2>2
<1>13. AudioInv'
  BY <1>6, <1>10, <1>11, <1>12 DEF AudioInv
<1>14. \A q \in DOMAIN buffers' :
         Value(q)' = Cut(sampleArrays'[buffers'[q].mpBuffer], buffers'[q].mNumChannels, buffers'[q].mNumSamples)
  <2>1. (MaxChannels \in Nat /\ MaxSamples \in Nat /\ AudioInv => ValuesAreCut)'
    BY ValueIsCut, PTL
  <2> QED
    BY <1>13, <2>1 DEF ValuesAreCut
<1>15. Value(o)' = Cut(contents, channels, samples)
  BY <1>8, <1>9, <1>14
<1>16. ASSUME NEW q \in DOMAIN buffers \ {o} PROVE Value(q)' = Value(q)
  <2>1. /\ Value(q) = Cut(sampleArrays[buffers[q].mpBuffer], buffers[q].mNumChannels, buffers[q].mNumSamples)
        /\ Value(q)' = Cut(sampleArrays'[buffers[q].mpBuffer], buffers[q].mNumChannels, buffers[q].mNumSamples)
    BY <1>7, <1>14, ValueIsCut DEF ValuesAreCut
  <2>2. CASE Owning(q)
    BY <1>7, <2>1, <2>2
  <2>3. CASE ~Owning(q)
    <3>1. buffers[q].mNumSamples = 0
      BY <2>3 DEF Owning, AudioInv, AudioTypeOK, BufferRecords
    <3> QED
      BY <2>1, <3>1 DEF Cut
  <2> QED
    BY <2>2, <2>3
<1>17. ValuesOfAll' = Audio(debug)!With(ValuesOfAll, o, Cut(contents, channels, samples))
  BY <1>8, <1>15, <1>16 DEF ValuesOfAll, Audio!With
<1> QED
  BY <1>13, <1>17

\* A buffer without samples shows nothing.
EmptiesShowNothing == \A o \in DOMAIN buffers : ~Owning(o) => Value(o) = << >>

LEMMA EmptyValue == MaxChannels \in Nat /\ MaxSamples \in Nat /\ AudioInv => EmptiesShowNothing
<1>1. AudioInv => \A o \in DOMAIN buffers : ~Owning(o) => buffers[o].mNumSamples = 0
  BY DEF Owning, AudioInv, AudioTypeOK, BufferRecords
<1> QED
  BY <1>1, ValueIsCut DEF EmptiesShowNothing, ValuesAreCut, Cut

\* destroy() and moves: o's arrays are deleted, the others keep theirs or pass them on,
\* where q takes over those of from[q].
LEMMA ReleaseStep ==
  ASSUME MaxChannels \in Nat, MaxSamples \in Nat, AudioInv, NEW o \in Var, NEW from,
         channelArrays' = [a \in DOMAIN channelArrays \ Pointed(o, buffers[o].mppChannels) |-> channelArrays[a]],
         sampleArrays' = [a \in DOMAIN sampleArrays \ Pointed(o, buffers[o].mpBuffer) |-> sampleArrays[a]],
         buffers' \in [DOMAIN buffers' -> BufferRecords], DOMAIN buffers' \subseteq Var,
         \A q \in DOMAIN buffers' : Owning(q)' =>
           from[q] \in DOMAIN buffers \ {o} /\ buffers'[q] = buffers[from[q]],
         \A q, r \in DOMAIN buffers' : Owning(q)' /\ Owning(r)' /\ q # r => from[q] # from[r],
         \A r \in DOMAIN buffers \ {o} : Owning(r) => \E q \in DOMAIN buffers' : buffers'[q] = buffers[r]
  PROVE  /\ AudioInv'
         /\ \A q \in DOMAIN buffers' : Value(q)' = IF Owning(q)' THEN Value(from[q]) ELSE << >>
<1>1. AudioTypeOK'
  BY DEF AudioTypeOK, AudioInv
<1>2. ASSUME NEW r \in DOMAIN buffers \ {o}, Owning(r)
      PROVE  /\ HasItsArrays(r)
             /\ buffers[r].mpBuffer \in DOMAIN sampleArrays'
             /\ sampleArrays'[buffers[r].mpBuffer] = sampleArrays[buffers[r].mpBuffer]
             /\ buffers[r].mppChannels \in DOMAIN channelArrays'
             /\ channelArrays'[buffers[r].mppChannels] = channelArrays[buffers[r].mppChannels]
  <2>1. HasItsArrays(r)
    BY <1>2 DEF AudioInv
  <2>2. Owning(o) => buffers[o].mpBuffer # buffers[r].mpBuffer /\ buffers[o].mppChannels # buffers[r].mppChannels
    BY <1>2 DEF AudioInv, Owning
  <2> QED
    BY <2>1, <2>2 DEF HasItsArrays, Pointed
<1>3. ASSUME NEW q \in DOMAIN buffers', Owning(q)'
      PROVE  from[q] \in DOMAIN buffers \ {o} /\ buffers'[q] = buffers[from[q]] /\ Owning(from[q])
  BY <1>3 DEF Owning
<1>4. ASSUME NEW q \in DOMAIN buffers', Owning(q)' PROVE HasItsArrays(q)'
  <2>1. PICK r \in DOMAIN buffers \ {o} : buffers'[q] = buffers[r] /\ Owning(r)
    BY <1>3, <1>4
  <2> QED
    BY <1>2, <2>1 DEF HasItsArrays
<1>5. ASSUME NEW q \in DOMAIN buffers', NEW r \in DOMAIN buffers', Owning(q)', Owning(r)', q # r
      PROVE  buffers'[q].mpBuffer # buffers'[r].mpBuffer /\ buffers'[q].mppChannels # buffers'[r].mppChannels
  <2>1. from[q] # from[r]
    BY <1>5
  <2> QED
    BY <1>3, <1>5, <2>1 DEF AudioInv
<1>6. ASSUME NEW a \in DOMAIN sampleArrays'
      PROVE  sampleArrays'[a] = << >> \/ \E q \in DOMAIN buffers' : Owning(q)' /\ buffers'[q].mpBuffer = a
  <2>1. a \in DOMAIN sampleArrays /\ sampleArrays'[a] = sampleArrays[a] /\ (Owning(o) => a # buffers[o].mpBuffer)
    BY DEF Pointed
  <2>2. CASE \E r \in DOMAIN buffers : Owning(r) /\ buffers[r].mpBuffer = a
    <3>1. PICK r \in DOMAIN buffers : Owning(r) /\ buffers[r].mpBuffer = a
      BY <2>2
    <3>2. PICK q \in DOMAIN buffers' : buffers'[q] = buffers[r]
      BY <2>1, <3>1
    <3> QED
      BY <3>1, <3>2 DEF Owning
  <2> QED
    BY <2>1, <2>2 DEF AudioInv
<1>7. AudioInv'
  BY <1>1, <1>4, <1>5, <1>6 DEF AudioInv
<1>8. ValuesAreCut' /\ \A q \in DOMAIN buffers' : ~Owning(q)' => Value(q)' = << >>
  <2>1. (MaxChannels \in Nat /\ MaxSamples \in Nat /\ AudioInv => ValuesAreCut)'
    BY ValueIsCut, PTL
  <2>2. (MaxChannels \in Nat /\ MaxSamples \in Nat /\ AudioInv => EmptiesShowNothing)'
    BY EmptyValue, PTL
  <2> QED
    BY <1>7, <2>1, <2>2 DEF EmptiesShowNothing
<1>9. ASSUME NEW q \in DOMAIN buffers', Owning(q)' PROVE Value(q)' = Value(from[q])
  <2>1. PICK r \in DOMAIN buffers \ {o} : r = from[q] /\ buffers'[q] = buffers[r] /\ Owning(r)
    BY <1>3, <1>9
  <2>2. sampleArrays'[buffers[r].mpBuffer] = sampleArrays[buffers[r].mpBuffer]
    BY <1>2, <2>1
  <2>3. Value(r) = Cut(sampleArrays[buffers[r].mpBuffer], buffers[r].mNumChannels, buffers[r].mNumSamples)
    BY ValueIsCut DEF ValuesAreCut
  <2>4. Value(q)' = Cut(sampleArrays'[buffers'[q].mpBuffer], buffers'[q].mNumChannels, buffers'[q].mNumSamples)
    BY <1>8 DEF ValuesAreCut
  <2> QED
    BY <2>1, <2>2, <2>3, <2>4
<1> QED
  BY <1>7, <1>8, <1>9

\* writing samples of o's array, or of none
LEMMA WriteStep ==
  ASSUME MaxChannels \in Nat, MaxSamples \in Nat, AudioInv, NEW o \in DOMAIN buffers, Owning(o),
         buffers' = buffers, channelArrays' = channelArrays,
         sampleArrays' \in [DOMAIN sampleArrays -> Seq(Samples \cup {0})],
         \A a \in DOMAIN sampleArrays : Len(sampleArrays'[a]) = Len(sampleArrays[a]),
         \A a \in DOMAIN sampleArrays \ {buffers[o].mpBuffer} : sampleArrays'[a] = sampleArrays[a]
  PROVE  /\ AudioInv'
         /\ ValuesOfAll' = [ValuesOfAll EXCEPT ![o] =
              Cut(sampleArrays'[buffers[o].mpBuffer], buffers[o].mNumChannels, buffers[o].mNumSamples)]
<1>1. \A q : Owning(q)' <=> Owning(q)
  BY DEF Owning
<1>2. AudioTypeOK'
  BY DEF AudioTypeOK, AudioInv
<1>3. ASSUME NEW q \in DOMAIN buffers', Owning(q)' PROVE HasItsArrays(q)'
  <2>1. HasItsArrays(q)
    BY <1>1, <1>3 DEF AudioInv
  <2> QED
    BY <2>1 DEF HasItsArrays
<1>4. ASSUME NEW a \in DOMAIN sampleArrays'
      PROVE  sampleArrays'[a] = << >> \/ \E q \in DOMAIN buffers' : Owning(q)' /\ buffers'[q].mpBuffer = a
  <2>1. CASE a = buffers[o].mpBuffer
    BY <1>1, <2>1
  <2>2. CASE a # buffers[o].mpBuffer
    BY <1>1, <2>2 DEF AudioInv
  <2> QED
    BY <2>1, <2>2
<1>5. AudioInv'
  BY <1>1, <1>2, <1>3, <1>4 DEF AudioInv
<1>6. ValuesAreCut' /\ ValuesAreCut
  <2>1. (MaxChannels \in Nat /\ MaxSamples \in Nat /\ AudioInv => ValuesAreCut)'
    BY ValueIsCut, PTL
  <2> QED
    BY <1>5, <2>1, ValueIsCut
<1>7. Value(o)' = Cut(sampleArrays'[buffers[o].mpBuffer], buffers[o].mNumChannels, buffers[o].mNumSamples)
  BY <1>6 DEF ValuesAreCut
<1>8. ASSUME NEW q \in DOMAIN buffers \ {o} PROVE Value(q)' = Value(q)
  <2>1. /\ Value(q)' = Cut(sampleArrays'[buffers[q].mpBuffer], buffers[q].mNumChannels, buffers[q].mNumSamples)
        /\ Value(q) = Cut(sampleArrays[buffers[q].mpBuffer], buffers[q].mNumChannels, buffers[q].mNumSamples)
    BY <1>6 DEF ValuesAreCut
  <2>2. CASE Owning(q)
    <3>1. HasItsArrays(q) /\ buffers[q].mpBuffer # buffers[o].mpBuffer
      BY <2>2 DEF AudioInv
    <3> QED
      BY <2>1, <3>1 DEF HasItsArrays
  <2>3. CASE ~Owning(q)
    <3>1. buffers[q].mNumSamples = 0
      BY <2>3 DEF Owning, AudioInv, AudioTypeOK, BufferRecords
    <3> QED
      BY <2>1, <3>1 DEF Cut
  <2> QED
    BY <2>2, <2>3
<1>9. ValuesOfAll' = [ValuesOfAll EXCEPT ![o] = Value(o)']
  BY <1>8 DEF ValuesOfAll
<1> QED
  BY <1>5, <1>7, <1>9

LEMMA AudioUnchanged ==
  ASSUME MaxChannels \in Nat, MaxSamples \in Nat, AudioInv, UNCHANGED audioVars
  PROVE  AudioInv' /\ ValuesOfAll' = ValuesOfAll
<1>1. buffers' = buffers /\ channelArrays' = channelArrays /\ sampleArrays' = sampleArrays
  BY DEF audioVars
<1>2. AudioTypeOK' /\ \A o : (Owning(o)' <=> Owning(o)) /\ (HasItsArrays(o)' <=> HasItsArrays(o))
  BY <1>1 DEF AudioInv, AudioTypeOK, Owning, HasItsArrays
<1>3. AudioInv'
  BY <1>1, <1>2 DEF AudioInv
<1>4. ValuesAreCut' /\ ValuesAreCut
  <2>1. (MaxChannels \in Nat /\ MaxSamples \in Nat /\ AudioInv => ValuesAreCut)'
    BY ValueIsCut, PTL
  <2> QED
    BY <1>3, <2>1, ValueIsCut
<1>5. \A o \in DOMAIN buffers : Value(o)' = Value(o)
  BY <1>1, <1>4 DEF ValuesAreCut
<1> QED
  BY <1>1, <1>3, <1>5 DEF ValuesOfAll

\* clear() and fill(): channels of o get the value s
Filled(o, channels, s) ==
  /\ channels \subseteq DOMAIN Value(o)
  /\ ValuesOfAll' = [ValuesOfAll EXCEPT ![o] = [c \in DOMAIN @ |->
        [i \in DOMAIN @[c] |-> IF c \in channels THEN s ELSE @[c][i]]]]

ToSample(s) == [x \in Samples \cup {0} |-> s]

LEMMA ApplyStep ==
  ASSUME MaxChannels \in Nat, MaxSamples \in Nat, NEW debug \in BOOLEAN, AudioInv,
         NEW o \in DOMAIN buffers, NEW channels, NEW s \in Samples \cup {0},
         Audio(debug)!apply(o, channels, ToSample(s))
  PROVE  AudioInv' /\ (ValuesOfAll' = ValuesOfAll \/ Filled(o, channels, s))
<1> DEFINE b  == buffers[o]
           n  == b.mNumSamples
           ps == {Audio(debug)!Channel(b, c) : c \in channels}
           hit(a, k) == \E p \in ps : p.array = a /\ k - p.offset \in 1..n
<1>1. /\ Audio(debug)!HasBlock(b) /\ channels \subseteq 1..b.mNumChannels
      /\ sampleArrays' = [a \in DOMAIN sampleArrays |->
             [k \in DOMAIN sampleArrays[a] |->
                IF hit(a, k) THEN [x \in Samples \cup {0} |-> s][sampleArrays[a][k]] ELSE sampleArrays[a][k]]]
      /\ channelArrays' = channelArrays /\ buffers' = buffers
  BY Zenon DEF Audio!apply, ToSample
<1>2. /\ b \in BufferRecords /\ n \in Nat /\ b.mNumChannels \in Nat
      /\ sampleArrays \in [DOMAIN sampleArrays -> Seq(Samples \cup {0})]
  BY DEF AudioInv, AudioTypeOK, BufferRecords
<1>3. /\ sampleArrays' \in [DOMAIN sampleArrays -> Seq(Samples \cup {0})]
      /\ \A a \in DOMAIN sampleArrays :
           /\ Len(sampleArrays'[a]) = Len(sampleArrays[a])
           /\ \A k \in 1..Len(sampleArrays[a]) :
                sampleArrays'[a][k] = IF hit(a, k) THEN s ELSE sampleArrays[a][k]
  <2> HIDE DEF hit
  <2>1. ASSUME NEW a \in DOMAIN sampleArrays
        PROVE  /\ sampleArrays'[a] \in Seq(Samples \cup {0})
               /\ Len(sampleArrays'[a]) = Len(sampleArrays[a])
               /\ \A k \in 1..Len(sampleArrays[a]) :
                    sampleArrays'[a][k] = IF hit(a, k) THEN s ELSE sampleArrays[a][k]
    <3>1. /\ Len(sampleArrays[a]) \in Nat /\ DOMAIN sampleArrays[a] = 1..Len(sampleArrays[a])
          /\ \A k \in 1..Len(sampleArrays[a]) : sampleArrays[a][k] \in Samples \cup {0}
      BY <1>2
    <3>2. sampleArrays'[a] = [k \in 1..Len(sampleArrays[a]) |-> IF hit(a, k) THEN s ELSE sampleArrays[a][k]]
      BY <1>1, <3>1
    <3>3. sampleArrays'[a] \in Seq(Samples \cup {0}) /\ Len(sampleArrays'[a]) = Len(sampleArrays[a])
      BY <3>1, <3>2
    <3> QED
      BY <3>2, <3>3
  <2> QED
    BY <1>1, <2>1
<1> HIDE DEF hit, ps
<1>4. CASE channels = {}
  <2>1. \A a, k : ~hit(a, k)
    BY <1>4 DEF hit, ps
  <2>2. sampleArrays' = sampleArrays
    BY <1>1, <1>2, <2>1
  <2>3. AudioInv' /\ ValuesOfAll' = ValuesOfAll
    BY <1>1, <2>2, AudioUnchanged DEF audioVars
  <2> QED
    BY <2>3
<1>5. CASE channels # {}
  <2>1. Owning(o)
    BY <1>1, <1>2, <1>5 DEF Audio!HasBlock, Owning
  <2>2. HasItsArrays(o)
    BY <2>1 DEF AudioInv
  <2>3. \A c \in channels : /\ Audio(debug)!Channel(b, c).array = b.mpBuffer
                            /\ Audio(debug)!Channel(b, c).offset = (c - 1) * n
    BY <1>1, <2>2, ChannelInArray
  <2>4. ASSUME NEW c \in 1..b.mNumChannels, NEW i \in 1..n
        PROVE  hit(b.mpBuffer, Cell(c, i, n)) <=> c \in channels
    <3>1. ASSUME hit(b.mpBuffer, Cell(c, i, n)) PROVE c \in channels
      <4>1. PICK d \in channels : Cell(c, i, n) - Audio(debug)!Channel(b, d).offset \in 1..n
        BY <3>1 DEF hit, ps
      <4>2. Cell(c, i, n) - (d - 1) * n \in 1..n /\ d \in 1..b.mNumChannels
        BY <1>1, <2>3, <4>1
      <4>3. c \in Nat \ {0} /\ d \in Nat \ {0}
        BY <1>2, <4>2
      <4> HIDE DEF b, n
      <4>4. c = d
        BY <1>2, <4>2, <4>3, CellsApart
      <4> QED
        BY <4>4
    <3>2. ASSUME c \in channels PROVE hit(b.mpBuffer, Cell(c, i, n))
      <4>1. Cell(c, i, n) - (c - 1) * n = i
        BY <1>2 DEF Cell
      <4> QED
        BY <2>3, <3>2, <4>1, Zenon DEF hit, ps
    <3> QED
      BY <3>1, <3>2
  <2>5. ASSUME NEW a \in DOMAIN sampleArrays \ {b.mpBuffer} PROVE sampleArrays'[a] = sampleArrays[a]
    <3>1. \A k : ~hit(a, k)
      BY <2>3 DEF hit, ps
    <3> QED
      BY <1>1, <1>2, <3>1
  <2>6. /\ AudioInv'
        /\ ValuesOfAll' = [ValuesOfAll EXCEPT ![o] = Cut(sampleArrays'[b.mpBuffer], b.mNumChannels, n)]
    BY <1>1, <1>3, <2>1, <2>5, WriteStep
  <2>7. Value(o) = Cut(sampleArrays[b.mpBuffer], b.mNumChannels, n) /\ n # 0
    BY <2>1, ValueIsCut DEF ValuesAreCut, Owning
  <2>8. ASSUME NEW c \in 1..b.mNumChannels, NEW i \in 1..n
        PROVE  sampleArrays'[b.mpBuffer][Cell(c, i, n)]
                 = IF c \in channels THEN s ELSE sampleArrays[b.mpBuffer][Cell(c, i, n)]
    <3>1. Cell(c, i, n) \in 1..Len(sampleArrays[b.mpBuffer]) /\ b.mpBuffer \in DOMAIN sampleArrays
      BY <1>2, <2>2, CellInArray DEF HasItsArrays
    <3> QED
      BY <1>3, <2>4, <3>1
  <2>9. Cut(sampleArrays'[b.mpBuffer], b.mNumChannels, n)
          = [c \in 1..b.mNumChannels |->
               [i \in 1..n |-> IF c \in channels THEN s ELSE sampleArrays[b.mpBuffer][Cell(c, i, n)]]]
    BY <2>7, <2>8 DEF Cut
  <2>10. /\ DOMAIN Value(o) = 1..b.mNumChannels
         /\ \A c \in 1..b.mNumChannels : /\ DOMAIN Value(o)[c] = 1..n
                                         /\ \A i \in 1..n : Value(o)[c][i] = sampleArrays[b.mpBuffer][Cell(c, i, n)]
    BY <2>7 DEF Cut
  <2>11. Cut(sampleArrays'[b.mpBuffer], b.mNumChannels, n)
           = [c \in DOMAIN Value(o) |->
                [i \in DOMAIN Value(o)[c] |-> IF c \in channels THEN s ELSE Value(o)[c][i]]]
    BY <2>9, <2>10
  <2>12. o \in DOMAIN ValuesOfAll /\ ValuesOfAll[o] = Value(o)
    BY DEF ValuesOfAll
  <2> QED
    BY <1>1, <2>6, <2>10, <2>11, <2>12 DEF Filled
<1> QED
  BY <1>4, <1>5

\* channel(c)[i - 1] = s
LEMMA WriteSampleStep ==
  ASSUME MaxChannels \in Nat, MaxSamples \in Nat, NEW debug \in BOOLEAN, AudioInv,
         NEW o \in DOMAIN buffers, NEW c \in 1..MaxChannels, NEW i \in 1..MaxSamples, NEW s \in Samples,
         Audio(debug)!Write(o, c, i, s)
  PROVE  /\ AudioInv'
         /\ c \in DOMAIN Value(o) /\ i \in DOMAIN Value(o)[c]
         /\ ValuesOfAll' = [ValuesOfAll EXCEPT ![o][c][i] = s]
<1> DEFINE b == buffers[o]
           n == b.mNumSamples
           a == b.mpBuffer
           x == (c - 1) * n
           k == Cell(c, i, n)
<1>1. /\ Audio(debug)!HasBlock(b) /\ c <= b.mNumChannels /\ i <= n
      /\ sampleArrays' = [sampleArrays EXCEPT
           ![Audio(debug)!Channel(b, c).array][Audio(debug)!Channel(b, c).offset + i] = s]
      /\ channelArrays' = channelArrays /\ buffers' = buffers
  BY Zenon DEF Audio!Write
<1>2. /\ b \in BufferRecords /\ n \in Nat /\ b.mNumChannels \in Nat
      /\ sampleArrays \in [DOMAIN sampleArrays -> Seq(Samples \cup {0})]
  BY DEF AudioInv, AudioTypeOK, BufferRecords
<1>3. Owning(o) /\ c \in 1..b.mNumChannels /\ i \in 1..n
  BY <1>1, <1>2 DEF Audio!HasBlock, Owning
<1>4. HasItsArrays(o)
  BY <1>3 DEF AudioInv
<1>5. /\ Audio(debug)!Channel(b, c).array = a /\ Audio(debug)!Channel(b, c).offset + i = k
  <2>1. /\ Audio(debug)!Channel(b, c).array = a
        /\ Audio(debug)!Channel(b, c).offset = (c - 1) * n
    BY <1>3, <1>4, ChannelInArray
  <2> QED
    BY <2>1 DEF Cell
<1>6. a \in DOMAIN sampleArrays /\ k \in 1..Len(sampleArrays[a])
  BY <1>2, <1>3, <1>4, CellInArray DEF HasItsArrays
<1> HIDE DEF k
<1>7. sampleArrays' = [sampleArrays EXCEPT ![a][k] = s]
  BY <1>1, <1>5
<1> HIDE DEF a, n, b
<1>8. /\ sampleArrays'[a] = [sampleArrays[a] EXCEPT ![k] = s]
      /\ DOMAIN sampleArrays' = DOMAIN sampleArrays
      /\ \A d \in DOMAIN sampleArrays \ {a} : sampleArrays'[d] = sampleArrays[d]
      /\ sampleArrays' = [d \in DOMAIN sampleArrays |-> sampleArrays'[d]]
  BY <1>2, <1>6, <1>7
<1>9. /\ [sampleArrays[a] EXCEPT ![k] = s] \in Seq(Samples \cup {0})
      /\ Len([sampleArrays[a] EXCEPT ![k] = s]) = Len(sampleArrays[a])
      /\ \A d \in 1..Len(sampleArrays[a]) :
           [sampleArrays[a] EXCEPT ![k] = s][d] = IF d = k THEN s ELSE sampleArrays[a][d]
  <2>1. sampleArrays[a] \in Seq(Samples \cup {0})
    BY <1>2, <1>6
  <2> QED
    BY <1>6, <2>1
<1>10. /\ sampleArrays' \in [DOMAIN sampleArrays -> Seq(Samples \cup {0})]
       /\ \A d \in DOMAIN sampleArrays : Len(sampleArrays'[d]) = Len(sampleArrays[d])
  BY <1>2, <1>8, <1>9
<1>11. /\ AudioInv'
       /\ ValuesOfAll' = [ValuesOfAll EXCEPT ![o] = Cut(sampleArrays'[a], b.mNumChannels, n)]
  BY <1>1, <1>3, <1>8, <1>10, WriteStep DEF a, b, n
<1>12. Value(o) = Cut(sampleArrays[a], b.mNumChannels, n) /\ n # 0
  BY <1>3, ValueIsCut DEF ValuesAreCut, Owning, a, b, n
<1>13. ASSUME NEW d \in 1..b.mNumChannels, NEW j \in 1..n
       PROVE  sampleArrays'[a][Cell(d, j, n)]
                = IF d = c /\ j = i THEN s ELSE sampleArrays[a][Cell(d, j, n)]
  <2>1. Cell(d, j, n) \in 1..Len(sampleArrays[a])
    BY <1>2, <1>4, CellInArray DEF HasItsArrays, a, b, n
  <2>2. Cell(d, j, n) = k <=> d = c /\ j = i
    <3>1. ASSUME Cell(d, j, n) = k PROVE d = c /\ j = i
      <4>1. x \in Int /\ k = x + i
        BY <1>2, <1>3 DEF k, Cell, x, n
      <4>2. Cell(d, j, n) - x \in 1..n
        BY <1>3, <3>1, <4>1
      <4>3. c \in Nat \ {0} /\ d \in Nat \ {0} /\ n \in Nat
        BY <1>2, <1>3 DEF n, b
      <4>4. d = c
        BY <4>2, <4>3, CellsApart
      <4>5. Cell(d, j, n) = x + j
        BY <4>4 DEF Cell
      <4> QED
        BY <1>3, <3>1, <4>1, <4>4, <4>5
    <3> QED
      BY <3>1 DEF k
  <2> QED
    BY <1>8, <1>9, <2>1, <2>2
<1> DEFINE Row(d) == [j \in 1..n |-> sampleArrays[a][Cell(d, j, n)]]
           NewRow(d) == [j \in 1..n |-> IF d = c /\ j = i THEN s ELSE sampleArrays[a][Cell(d, j, n)]]
<1>14. Value(o) = [d \in 1..b.mNumChannels |-> Row(d)]
  BY <1>12 DEF Cut
<1>15. Cut(sampleArrays'[a], b.mNumChannels, n) = [d \in 1..b.mNumChannels |-> NewRow(d)]
  BY <1>12, <1>13 DEF Cut
<1>16. Cut(sampleArrays'[a], b.mNumChannels, n) = [Value(o) EXCEPT ![c][i] = s]
  <2>1. ASSUME NEW d \in 1..b.mNumChannels, d # c PROVE NewRow(d) = Row(d)
    BY <2>1
  <2>2. NewRow(c) = [Row(c) EXCEPT ![i] = s]
    <3> DEFINE Before(j) == sampleArrays[a][Cell(c, j, n)]
    <3>1. NewRow(c) = [j \in 1..n |-> IF j = i THEN s ELSE Before(j)]
      OBVIOUS
    <3>2. Row(c) = [j \in 1..n |-> Before(j)]
      OBVIOUS
    <3> HIDE DEF Row, NewRow, Before
    <3> QED
      BY <1>3, <3>1, <3>2
  <2> HIDE DEF Row, NewRow
  <2>3. [Value(o) EXCEPT ![c][i] = s] = [Value(o) EXCEPT ![c] = [Row(c) EXCEPT ![i] = s]]
    BY <1>3, <1>14
  <2> DEFINE row == [Row(c) EXCEPT ![i] = s]
  <2>4. \A d \in 1..b.mNumChannels : NewRow(d) = IF d = c THEN row ELSE Row(d)
    BY <2>1, <2>2
  <2> HIDE DEF row
  <2>5. [Value(o) EXCEPT ![c] = row] = [d \in 1..b.mNumChannels |-> NewRow(d)]
    BY <1>3, <1>14, <2>4
  <2> QED
    BY <1>15, <2>3, <2>5 DEF row
<1>19. c \in DOMAIN Value(o) /\ i \in DOMAIN Value(o)[c]
  <2>1. DOMAIN Row(c) = 1..n
    OBVIOUS
  <2> HIDE DEF Row
  <2> QED
    BY <1>3, <1>14, <2>1
<1>17. o \in DOMAIN ValuesOfAll /\ ValuesOfAll[o] = Value(o)
  BY DEF ValuesOfAll
<1>18. [ValuesOfAll EXCEPT ![o] = [Value(o) EXCEPT ![c][i] = s]] = [ValuesOfAll EXCEPT ![o][c][i] = s]
  BY <1>17
<1> QED
  BY <1>11, <1>16, <1>18, <1>19

\* what the abstract specification sees of a step
LEMMA AbstractSteps ==
  ASSUME NEW o \in Var
  PROVE  /\ \A channels \in 0..MaxChannels, samples \in 0..MaxSamples :
              ValuesOfAll' = BufferVals!With(ValuesOfAll, o, BufferVals!Silence(channels, samples))
                => BufferVals!Next
         /\ \A src \in DOMAIN ValuesOfAll :
              ValuesOfAll' \in {BufferVals!With(ValuesOfAll, o, ValuesOfAll[src]),
                               BufferVals!With(BufferVals!With(ValuesOfAll, o, ValuesOfAll[src]), src, << >>)}
                => BufferVals!Next
         /\ o \in DOMAIN ValuesOfAll =>
              (ValuesOfAll' = [p \in DOMAIN ValuesOfAll \ {o} |-> ValuesOfAll[p]] => BufferVals!Next)
         /\ o \in DOMAIN ValuesOfAll => \A c \in DOMAIN ValuesOfAll[o] : \A i \in DOMAIN ValuesOfAll[o][c], s \in Samples :
              ValuesOfAll' = [ValuesOfAll EXCEPT ![o][c][i] = s] => BufferVals!Next
         /\ o \in DOMAIN ValuesOfAll => \A cs \in SUBSET DOMAIN ValuesOfAll[o], s \in Samples \cup {0} :
              ValuesOfAll' = [ValuesOfAll EXCEPT ![o] = [c \in DOMAIN @ |->
                                [i \in DOMAIN @[c] |-> IF c \in cs THEN s ELSE @[c][i]]]] => BufferVals!Next
<1>1. ASSUME BufferVals!Resize(o) \/ BufferVals!Copy(o) \/ BufferVals!Move(o)
             \/ (o \in DOMAIN ValuesOfAll /\ (BufferVals!Write(o) \/ BufferVals!Fill(o) \/ BufferVals!Remove(o)))
      PROVE  BufferVals!Next
  BY <1>1, Zenon DEF BufferVals!Next, ValuesOfAll, Value
<1>2. ASSUME NEW channels \in 0..MaxChannels, NEW samples \in 0..MaxSamples,
             ValuesOfAll' = BufferVals!With(ValuesOfAll, o, BufferVals!Silence(channels, samples))
      PROVE  BufferVals!Resize(o)
  BY <1>2, Zenon DEF BufferVals!Resize, ValuesOfAll, Value
<1>3. ASSUME NEW src \in DOMAIN ValuesOfAll, ValuesOfAll' = BufferVals!With(ValuesOfAll, o, ValuesOfAll[src])
      PROVE  BufferVals!Copy(o)
  BY <1>3, Zenon DEF BufferVals!Copy, ValuesOfAll, Value
<1>4. ASSUME NEW src \in DOMAIN ValuesOfAll,
             ValuesOfAll' = BufferVals!With(BufferVals!With(ValuesOfAll, o, ValuesOfAll[src]), src, << >>)
      PROVE  BufferVals!Move(o)
  BY <1>4, Zenon DEF BufferVals!Move, ValuesOfAll, Value
<1>5. ASSUME ValuesOfAll' = [p \in DOMAIN ValuesOfAll \ {o} |-> ValuesOfAll[p]]
      PROVE  BufferVals!Remove(o)
  BY <1>5, Zenon DEF BufferVals!Remove, ValuesOfAll, Value
<1>6. ASSUME NEW c \in DOMAIN ValuesOfAll[o], NEW i \in DOMAIN ValuesOfAll[o][c], NEW s \in Samples,
             ValuesOfAll' = [ValuesOfAll EXCEPT ![o][c][i] = s]
      PROVE  BufferVals!Write(o)
  <2>1. \E d \in DOMAIN ValuesOfAll[o] : \E j \in DOMAIN ValuesOfAll[o][d], x \in Samples :
          ValuesOfAll' = [ValuesOfAll EXCEPT ![o][d][j] = x]
    BY <1>6
  <2> QED
    BY <2>1 DEF BufferVals!Write, ValuesOfAll, Value
<1>7. ASSUME NEW cs \in SUBSET DOMAIN ValuesOfAll[o], NEW s \in Samples \cup {0},
             ValuesOfAll' = [ValuesOfAll EXCEPT ![o] = [c \in DOMAIN @ |->
                               [i \in DOMAIN @[c] |-> IF c \in cs THEN s ELSE @[c][i]]]]
      PROVE  BufferVals!Fill(o)
  BY <1>7, Zenon DEF BufferVals!Fill, ValuesOfAll, Value
<1> QED
  BY <1>1, <1>2, <1>3, <1>4, <1>5, <1>6, <1>7

\* a constructed, destroyed or moved-from o: its arrays, if it had some, are deleted
LEMMA EmptyStep ==
  ASSUME MaxChannels \in Nat, MaxSamples \in Nat, AudioInv, NEW o \in Var, NEW b \in BufferRecords,
         b.mNumSamples = 0, Puts(buffers', buffers, o, b),
         channelArrays' = [a \in DOMAIN channelArrays \ Pointed(o, buffers[o].mppChannels) |-> channelArrays[a]],
         sampleArrays' = [a \in DOMAIN sampleArrays \ Pointed(o, buffers[o].mpBuffer) |-> sampleArrays[a]]
  PROVE  AudioInv' /\ BufferVals!Next
<1> DEFINE from == [q \in DOMAIN buffers' |-> q]
<1>1. /\ buffers' \in [DOMAIN buffers' -> BufferRecords] /\ DOMAIN buffers' \subseteq Var
      /\ \A q \in DOMAIN buffers' : Owning(q)' => q \in DOMAIN buffers \ {o} /\ buffers'[q] = buffers[q]
      /\ \A q \in DOMAIN buffers \ {o} : q \in DOMAIN buffers' /\ buffers'[q] = buffers[q]
      /\ DOMAIN buffers' = DOMAIN buffers \cup {o} /\ o \in DOMAIN buffers' /\ buffers'[o] = b
  BY DEF Puts, AudioInv, AudioTypeOK, Owning
<1>2. \A q \in DOMAIN buffers' : from[q] = q
  OBVIOUS
<1> HIDE DEF from
<1>3. /\ AudioInv'
      /\ \A q \in DOMAIN buffers' : Value(q)' = IF Owning(q)' THEN Value(from[q]) ELSE << >>
  <2>1. /\ \A q \in DOMAIN buffers' : Owning(q)' =>
             from[q] \in DOMAIN buffers \ {o} /\ buffers'[q] = buffers[from[q]]
        /\ \A q, r \in DOMAIN buffers' : Owning(q)' /\ Owning(r)' /\ q # r => from[q] # from[r]
        /\ \A r \in DOMAIN buffers \ {o} : Owning(r) => \E q \in DOMAIN buffers' : buffers'[q] = buffers[r]
    BY <1>1, <1>2
  <2> QED
    BY <1>1, <2>1, ReleaseStep
<1>4. ASSUME NEW q \in DOMAIN buffers'
      PROVE  Value(q)' = IF q = o THEN << >> ELSE Value(q)
  <2>1. CASE q = o
    <3>1. ~ Owning(q)'
      BY <1>1, <2>1 DEF Owning
    <3> QED
      BY <1>3, <2>1, <3>1
  <2>2. CASE q # o
    <3>1. q \in DOMAIN buffers /\ (Owning(q)' <=> Owning(q))
      BY <1>1, <2>2 DEF Owning
    <3> QED
      BY <1>2, <1>3, <2>2, <3>1, EmptyValue DEF EmptiesShowNothing
  <2> QED
    BY <2>1, <2>2
<1>5. ValuesOfAll' = BufferVals!With(ValuesOfAll, o, BufferVals!Silence(0, 0))
  <2>1. BufferVals!Silence(0, 0) = << >>
    BY DEF BufferVals!Silence
  <2>2. ValuesOfAll' = [q \in DOMAIN buffers \cup {o} |-> IF q = o THEN << >> ELSE Value(q)]
    BY <1>1, <1>4 DEF ValuesOfAll
  <2>3. BufferVals!With(ValuesOfAll, o, << >>) = [q \in DOMAIN buffers \cup {o} |-> IF q = o THEN << >> ELSE Value(q)]
    BY Zenon DEF BufferVals!With, ValuesOfAll
  <2> QED
    BY <2>1, <2>2, <2>3
<1>6. 0 \in 0..MaxChannels /\ 0 \in 0..MaxSamples
  OBVIOUS
<1>7. ValuesOfAll' = BufferVals!With(ValuesOfAll, o, BufferVals!Silence(0, 0)) => BufferVals!Next
  BY ONLY <1>6, AbstractSteps, o \in Var
<1> QED
  BY <1>3, <1>5, <1>7

\* a move from another buffer
LEMMA MoveStep ==
  ASSUME MaxChannels \in Nat, MaxSamples \in Nat, AudioInv, NEW o \in Var,
         NEW src \in DOMAIN buffers \ {o}, NEW b \in BufferRecords, b.mNumSamples = 0,
         NEW between, Puts(between, buffers, o, buffers[src]), Puts(buffers', between, src, b),
         channelArrays' = [a \in DOMAIN channelArrays \ Pointed(o, buffers[o].mppChannels) |-> channelArrays[a]],
         sampleArrays' = [a \in DOMAIN sampleArrays \ Pointed(o, buffers[o].mpBuffer) |-> sampleArrays[a]]
  PROVE  AudioInv' /\ BufferVals!Next
<1> DEFINE from == [q \in DOMAIN buffers' |-> IF q = o THEN src ELSE q]
<1>1. /\ DOMAIN buffers' = DOMAIN buffers \cup {o} /\ o \in DOMAIN buffers' /\ src \in DOMAIN buffers'
      /\ buffers'[o] = buffers[src] /\ buffers'[src] = b
      /\ \A q \in DOMAIN buffers \ {o, src} : q \in DOMAIN buffers' /\ buffers'[q] = buffers[q]
      /\ buffers' = [q \in DOMAIN buffers' |-> buffers'[q]]
  BY DEF Puts
<1>2. /\ buffers' \in [DOMAIN buffers' -> BufferRecords] /\ DOMAIN buffers' \subseteq Var
      /\ \A q \in DOMAIN buffers' : Owning(q)' => q # src
  BY <1>1 DEF AudioInv, AudioTypeOK, Owning
<1>3. \A q \in DOMAIN buffers' : from[q] = IF q = o THEN src ELSE q
  OBVIOUS
<1> HIDE DEF from
<1>4. /\ AudioInv'
      /\ \A q \in DOMAIN buffers' : Value(q)' = IF Owning(q)' THEN Value(from[q]) ELSE << >>
  <2>1. /\ \A q \in DOMAIN buffers' : Owning(q)' =>
             from[q] \in DOMAIN buffers \ {o} /\ buffers'[q] = buffers[from[q]]
        /\ \A q, r \in DOMAIN buffers' : Owning(q)' /\ Owning(r)' /\ q # r => from[q] # from[r]
        /\ \A r \in DOMAIN buffers \ {o} : Owning(r) => \E q \in DOMAIN buffers' : buffers'[q] = buffers[r]
    BY <1>1, <1>2, <1>3
  <2> QED
    BY <1>2, <2>1, ReleaseStep
<1>5. ASSUME NEW q \in DOMAIN buffers'
      PROVE  Value(q)' = IF q = src THEN << >> ELSE IF q = o THEN Value(src) ELSE Value(q)
  <2>1. CASE q = src
    BY <1>2, <1>4, <2>1
  <2>2. CASE q = o
    <3>1. Owning(o)' <=> Owning(src)
      BY <1>1 DEF Owning
    <3> QED
      BY <1>1, <1>3, <1>4, <2>2, <3>1, EmptyValue DEF EmptiesShowNothing
  <2>3. CASE q # o /\ q # src
    <3>1. q \in DOMAIN buffers /\ (Owning(q)' <=> Owning(q))
      BY <1>1, <2>3 DEF Owning
    <3> QED
      BY <1>3, <1>4, <2>3, <3>1, EmptyValue DEF EmptiesShowNothing
  <2> QED
    BY <2>1, <2>2, <2>3
<1>6. ValuesOfAll' = BufferVals!With(BufferVals!With(ValuesOfAll, o, ValuesOfAll[src]), src, << >>)
  <2> DEFINE moved == [q \in DOMAIN buffers \cup {o} |->
                         IF q = src THEN << >> ELSE IF q = o THEN Value(src) ELSE Value(q)]
  <2>1. ValuesOfAll' = moved
    BY <1>1, <1>5 DEF ValuesOfAll
  <2>2. ValuesOfAll[src] = Value(src) /\ DOMAIN ValuesOfAll = DOMAIN buffers
        /\ \A q \in DOMAIN buffers : ValuesOfAll[q] = Value(q)
    BY DEF ValuesOfAll
  <2>3. DOMAIN buffers \cup {o} = (DOMAIN buffers \cup {o}) \cup {src}
    OBVIOUS
  <2>4. BufferVals!With(BufferVals!With(ValuesOfAll, o, ValuesOfAll[src]), src, << >>) = moved
    BY <2>2, <2>3 DEF BufferVals!With
  <2> QED
    BY <2>1, <2>4
<1>7. src \in DOMAIN ValuesOfAll
  BY DEF ValuesOfAll
<1> QED
  BY <1>4, <1>6, <1>7, AbstractSteps

LEMMA CopyStep ==
  ASSUME MaxChannels \in Nat, MaxSamples \in Nat, Addresses \subseteq Nat \ {0},
         NEW debug \in BOOLEAN, AudioInv, NEW o \in Var, NEW src \in Var, Audio(debug)!Copy(o, src)
  PROVE  AudioInv' /\ (BufferVals!Next \/ ValuesOfAll' = ValuesOfAll)
<1> DEFINE b == buffers[src]
           n == b.mNumSamples
           contents == IF n = 0 THEN << >> ELSE sampleArrays[b.mpBuffer]
<1>1. src \in DOMAIN buffers /\ b \in BufferRecords
  BY DEF Audio!Copy, Audio!Exists, AudioInv, AudioTypeOK
<1>2. CASE UNCHANGED <<channelArrays, sampleArrays, buffers>>
  BY <1>2, AudioUnchanged DEF audioVars
<1>3. CASE Audio(debug)!Allocate(o, b.mNumChannels, n, contents)
  <2>1. n \in 0..MaxSamples /\ b.mNumChannels \in 0..MaxChannels
    BY <1>1 DEF BufferRecords
  <2>2. /\ contents \in Seq(Samples \cup {0}) /\ Len(contents) = b.mNumChannels * n
        /\ Cut(contents, b.mNumChannels, n) = Value(src)
    <3>1. Value(src) = Cut(sampleArrays[b.mpBuffer], b.mNumChannels, n)
      BY <1>1, ValueIsCut DEF ValuesAreCut
    <3>2. CASE n = 0
      <4>1. contents = << >>
        BY <3>2
      <4>2. << >> \in Seq(Samples \cup {0}) /\ Len(<< >>) = b.mNumChannels * 0
        BY <2>1
      <4> HIDE DEF contents
      <4> QED
        BY <3>1, <3>2, <4>1, <4>2 DEF Cut
    <3>3. CASE n # 0
      <4>1. contents = sampleArrays[b.mpBuffer]
        BY <3>3
      <4>2. HasItsArrays(src)
        BY <1>1, <2>1, <3>3 DEF AudioInv, Owning
      <4>3. sampleArrays[b.mpBuffer] \in Seq(Samples \cup {0}) /\ Len(sampleArrays[b.mpBuffer]) = b.mNumChannels * n
        BY <4>2 DEF HasItsArrays, AudioInv, AudioTypeOK
      <4> HIDE DEF contents, n
      <4> QED
        BY <3>1, <4>1, <4>3
    <3> QED
      BY <3>2, <3>3
  <2> HIDE DEF contents, n
  <2>3. AudioInv' /\ ValuesOfAll' = Audio(debug)!With(ValuesOfAll, o, Value(src))
    BY <1>3, <2>1, <2>2, AllocateStep
  <2>4. ValuesOfAll' = BufferVals!With(ValuesOfAll, o, ValuesOfAll[src]) /\ src \in DOMAIN ValuesOfAll
    BY <1>1, <2>3, Zenon DEF Audio!With, BufferVals!With, ValuesOfAll
  <2> QED
    BY <2>3, <2>4, AbstractSteps
<1> QED
  BY <1>2, <1>3 DEF Audio!Copy, Audio!vars

LEMMA ResizeStep ==
  ASSUME MaxChannels \in Nat, MaxSamples \in Nat, Addresses \subseteq Nat \ {0},
         NEW debug \in BOOLEAN, AudioInv, NEW o \in Var,
         NEW channels \in 0..MaxChannels, NEW samples \in 0..MaxSamples,
         Audio(debug)!resize(o, channels, samples)
  PROVE  AudioInv' /\ BufferVals!Next
<1> DEFINE size  == channels * samples
           zeros == [i \in 1..size |-> 0]
<1>1. size \in Nat
  OBVIOUS
<1>2. Audio(debug)!Allocate(o, channels, samples, zeros)
  BY DEF Audio!resize
<1>3. Cut(zeros, channels, samples) = BufferVals!Silence(channels, samples)
  <2>1. ASSUME NEW c \in 1..channels, NEW i \in 1..samples
        PROVE  zeros[Cell(c, i, samples)] = 0
    <3>1. Cell(c, i, samples) \in 1..size
      <4>1. channels \in Nat /\ samples \in Nat
        OBVIOUS
      <4> QED
        BY <4>1, CellInArray
    <3> HIDE DEF size
    <3> QED
      BY <3>1
  <2> HIDE DEF zeros
  <2> QED
    BY <2>1 DEF Cut, BufferVals!Silence
<1>4. zeros \in Seq(Samples \cup {0}) /\ Len(zeros) = size
  <2> HIDE DEF size
  <2> QED
    BY <1>1
<1> HIDE DEF zeros
<1>5. AudioInv' /\ ValuesOfAll' = Audio(debug)!With(ValuesOfAll, o, BufferVals!Silence(channels, samples))
  BY <1>2, <1>3, <1>4, AllocateStep
<1>6. ValuesOfAll' = BufferVals!With(ValuesOfAll, o, BufferVals!Silence(channels, samples))
  BY <1>5, Zenon DEF Audio!With, BufferVals!With
<1> QED
  BY <1>5, <1>6, AbstractSteps

LEMMA AudioStep ==
  ASSUME MaxChannels \in Nat, MaxSamples \in Nat, Addresses \subseteq Nat \ {0},
         NEW debug \in BOOLEAN, AudioInv, Audio(debug)!Next
  PROVE  AudioInv' /\ (BufferVals!Next \/ ValuesOfAll' = ValuesOfAll)
<1>a. /\ \A p \in DOMAIN buffers : buffers[p] \in BufferRecords
      /\ Audio(debug)!NewBuffer = [mppChannels |-> 0, mpBuffer |-> 0, mNumChannels |-> 0, mNumSamples |-> 0]
      /\ Audio(debug)!NewBuffer \in BufferRecords
      /\ DOMAIN buffers \subseteq Var
  BY DEF AudioInv, AudioTypeOK, BufferRecords, Audio!NewBuffer
\* what destroy() deletes, and how the moved-from buffer is left
<1>b. ASSUME NEW p \in DOMAIN buffers
      PROVE  /\ Audio(debug)!Deletes(buffers[p], buffers[p].mppChannels) = Pointed(p, buffers[p].mppChannels)
             /\ Audio(debug)!Deletes(buffers[p], buffers[p].mpBuffer) = Pointed(p, buffers[p].mpBuffer)
             /\ Audio(debug)!Destroyed(buffers[p]) \in BufferRecords
             /\ Audio(debug)!Destroyed(buffers[p]).mNumSamples = 0
  <2>1. buffers[p].mNumSamples \in Nat /\ buffers[p] \in BufferRecords
    BY <1>a DEF BufferRecords
  <2>2. Owning(p) <=> buffers[p].mNumSamples # 0
    BY <2>1 DEF Owning
  <2>3. [buffers[p] EXCEPT !.mNumSamples = 0] \in BufferRecords /\ [buffers[p] EXCEPT !.mNumSamples = 0].mNumSamples = 0
    BY <2>1 DEF BufferRecords
  <2> QED
    BY <1>a, <2>1, <2>2, <2>3 DEF Audio!Deletes, Audio!Destroyed, Pointed
<1>c. ASSUME NEW b \in BufferRecords
      PROVE  Audio(debug)!MovedFrom(b) \in BufferRecords /\ Audio(debug)!MovedFrom(b).mNumSamples = 0
  BY <1>a DEF BufferRecords, Audio!MovedFrom
<1>d. /\ channelArrays = [a \in DOMAIN channelArrays |-> channelArrays[a]]
      /\ sampleArrays = [a \in DOMAIN sampleArrays |-> sampleArrays[a]]
  BY DEF AudioInv, AudioTypeOK
<1>1. ASSUME NEW o \in Var, Audio(debug)!Construct(o) PROVE AudioInv' /\ BufferVals!Next
  <2>1. /\ o \notin DOMAIN buffers /\ Puts(buffers', buffers, o, Audio(debug)!NewBuffer)
        /\ channelArrays' = channelArrays /\ sampleArrays' = sampleArrays
    BY <1>1, AudioWith DEF Audio!Construct, Audio!Exists
  <2>2. Pointed(o, buffers[o].mppChannels) = {} /\ Pointed(o, buffers[o].mpBuffer) = {}
    BY <2>1 DEF Pointed, Owning
  <2>3. /\ channelArrays' = [a \in DOMAIN channelArrays \ Pointed(o, buffers[o].mppChannels) |-> channelArrays[a]]
        /\ sampleArrays' = [a \in DOMAIN sampleArrays \ Pointed(o, buffers[o].mpBuffer) |-> sampleArrays[a]]
    BY <1>d, <2>1, <2>2
  <2>4. Audio(debug)!NewBuffer.mNumSamples = 0
    BY <1>a
  <2> QED
    BY <1>a, <2>1, <2>3, <2>4, EmptyStep
<1>2. ASSUME NEW o \in Var, NEW src \in Var, Audio(debug)!Move(o, src) PROVE AudioInv' /\ BufferVals!Next
  <2> DEFINE old   == IF Audio(debug)!Exists(o) THEN buffers[o] ELSE Audio(debug)!NewBuffer
             moved == IF o = src THEN Audio(debug)!Destroyed(old) ELSE buffers[src]
             between == Audio(debug)!With(buffers, o, moved)
  <2>1. /\ src \in DOMAIN buffers
        /\ channelArrays' = Audio(debug)!Without(channelArrays, Audio(debug)!Deletes(old, old.mppChannels))
        /\ sampleArrays' = Audio(debug)!Without(sampleArrays, Audio(debug)!Deletes(old, old.mpBuffer))
        /\ buffers' = Audio(debug)!With(between, src, Audio(debug)!MovedFrom(moved))
    BY <1>2 DEF Audio!Move, Audio!Exists
  <2>2. /\ Audio(debug)!Deletes(old, old.mppChannels) = Pointed(o, buffers[o].mppChannels)
        /\ Audio(debug)!Deletes(old, old.mpBuffer) = Pointed(o, buffers[o].mpBuffer)
    <3>1. CASE o \in DOMAIN buffers
      BY <1>b, <3>1 DEF Audio!Exists
    <3>2. CASE o \notin DOMAIN buffers
      BY <1>a, <3>2 DEF Audio!Exists, Audio!Deletes, Pointed, Owning
    <3> QED
      BY <3>1, <3>2
  <2>3. /\ channelArrays' = [a \in DOMAIN channelArrays \ Pointed(o, buffers[o].mppChannels) |-> channelArrays[a]]
        /\ sampleArrays' = [a \in DOMAIN sampleArrays \ Pointed(o, buffers[o].mpBuffer) |-> sampleArrays[a]]
    BY <2>1, <2>2 DEF Audio!Without
  <2>4. moved \in BufferRecords
    BY <1>a, <1>b, <2>1 DEF Audio!Exists
  <2>5. Puts(between, buffers, o, moved) /\ Puts(buffers', between, src, Audio(debug)!MovedFrom(moved))
    BY <2>1, AudioWith
  <2>6. o # src => moved = buffers[src]
    OBVIOUS
  <2> HIDE DEF between, moved
  <2>7. CASE o = src
    <3>1. Puts(buffers', buffers, o, Audio(debug)!MovedFrom(moved))
      BY <2>5, <2>7 DEF Puts
    <3> QED
      BY <1>c, <2>3, <2>4, <3>1, EmptyStep
  <2>8. CASE o # src
    <3>1. src \in DOMAIN buffers \ {o}
      BY <2>1, <2>8
    <3> QED
      BY <1>c, <2>3, <2>4, <2>5, <2>6, <2>8, <3>1, MoveStep
  <2> QED
    BY <2>7, <2>8
<1>3. ASSUME NEW o \in Var, o \in DOMAIN buffers, Audio(debug)!destroy(o) PROVE AudioInv' /\ BufferVals!Next
  <2> DEFINE b == Audio(debug)!Destroyed(buffers[o])
  <2>1. Puts(buffers', buffers, o, b)
    BY <1>3 DEF Audio!destroy, Puts
  <2>2. /\ channelArrays' = [a \in DOMAIN channelArrays \ Pointed(o, buffers[o].mppChannels) |-> channelArrays[a]]
        /\ sampleArrays' = [a \in DOMAIN sampleArrays \ Pointed(o, buffers[o].mpBuffer) |-> sampleArrays[a]]
    BY <1>3, <1>b DEF Audio!destroy, Audio!DeleteArrays, Audio!Without
  <2> QED
    BY <1>3, <1>b, <2>1, <2>2, EmptyStep
<1>4. ASSUME NEW o \in Var, o \in DOMAIN buffers, Audio(debug)!Destruct(o) PROVE AudioInv' /\ BufferVals!Next
  <2> DEFINE from == [q \in DOMAIN buffers' |-> q]
  <2>1. /\ DOMAIN buffers' = DOMAIN buffers \ {o} /\ buffers' = [q \in DOMAIN buffers' |-> buffers[q]]
        /\ channelArrays' = [a \in DOMAIN channelArrays \ Pointed(o, buffers[o].mppChannels) |-> channelArrays[a]]
        /\ sampleArrays' = [a \in DOMAIN sampleArrays \ Pointed(o, buffers[o].mpBuffer) |-> sampleArrays[a]]
    BY <1>4, <1>b DEF Audio!Destruct, Audio!DeleteArrays, Audio!Without
  <2>2. /\ buffers' \in [DOMAIN buffers' -> BufferRecords] /\ DOMAIN buffers' \subseteq Var
        /\ \A q \in DOMAIN buffers' : from[q] = q /\ q \in DOMAIN buffers \ {o} /\ buffers'[q] = buffers[q]
    BY <1>a, <2>1
  <2> HIDE DEF from
  <2>3. /\ AudioInv'
        /\ \A q \in DOMAIN buffers' : Value(q)' = IF Owning(q)' THEN Value(from[q]) ELSE << >>
    <3>1. /\ \A q \in DOMAIN buffers' : Owning(q)' =>
               from[q] \in DOMAIN buffers \ {o} /\ buffers'[q] = buffers[from[q]]
          /\ \A q, r \in DOMAIN buffers' : Owning(q)' /\ Owning(r)' /\ q # r => from[q] # from[r]
          /\ \A r \in DOMAIN buffers \ {o} : Owning(r) => \E q \in DOMAIN buffers' : buffers'[q] = buffers[r]
      BY <2>1, <2>2
    <3> QED
      BY <2>1, <2>2, <3>1, ReleaseStep
  <2>4. ASSUME NEW q \in DOMAIN buffers' PROVE Value(q)' = Value(q)
    <3>1. q \in DOMAIN buffers /\ (Owning(q)' <=> Owning(q))
      BY <2>2 DEF Owning
    <3> QED
      BY <2>2, <2>3, <3>1, EmptyValue DEF EmptiesShowNothing
  <2>5. ValuesOfAll' = [q \in DOMAIN ValuesOfAll \ {o} |-> ValuesOfAll[q]] /\ o \in DOMAIN ValuesOfAll
    BY <1>4, <2>1, <2>4 DEF ValuesOfAll
  <2> QED
    BY <2>3, <2>5, AbstractSteps
<1>5. ASSUME NEW o \in Var, o \in DOMAIN buffers, NEW s \in Samples \cup {0}, NEW channels,
             Audio(debug)!apply(o, channels, ToSample(s))
      PROVE  AudioInv' /\ (BufferVals!Next \/ ValuesOfAll' = ValuesOfAll)
  <2>1. o \in DOMAIN ValuesOfAll /\ ValuesOfAll[o] = Value(o)
    BY <1>5 DEF ValuesOfAll
  <2>2. AudioInv' /\ (ValuesOfAll' = ValuesOfAll \/ Filled(o, channels, s))
    BY <1>5, ApplyStep
  <2>3. ASSUME Filled(o, channels, s) PROVE BufferVals!Next
    <3>1. /\ channels \in SUBSET DOMAIN ValuesOfAll[o]
          /\ ValuesOfAll' = [ValuesOfAll EXCEPT ![o] = [d \in DOMAIN @ |->
                [i \in DOMAIN @[d] |-> IF d \in channels THEN s ELSE @[d][i]]]]
      BY <2>1, <2>3 DEF Filled
    <3> QED
      BY <2>1, <3>1, AbstractSteps
  <2> QED
    BY <2>2, <2>3
<1>6. ASSUME NEW o \in Var, o \in DOMAIN buffers, NEW c \in 1..MaxChannels, NEW i \in 1..MaxSamples,
             NEW s \in Samples, Audio(debug)!Write(o, c, i, s)
      PROVE  AudioInv' /\ BufferVals!Next
  <2>1. o \in DOMAIN ValuesOfAll /\ ValuesOfAll[o] = Value(o)
    BY <1>6 DEF ValuesOfAll
  <2>2. /\ AudioInv' /\ c \in DOMAIN ValuesOfAll[o] /\ i \in DOMAIN ValuesOfAll[o][c]
        /\ ValuesOfAll' = [ValuesOfAll EXCEPT ![o][c][i] = s]
    BY <1>6, <2>1, WriteSampleStep
  <2> QED
    BY <2>1, <2>2, AbstractSteps
<1> DEFINE Constructs(o) == Audio(debug)!Construct(o)
           Resizes(o)  == \E channels \in 0..MaxChannels, samples \in 0..MaxSamples :
                            Audio(debug)!resize(o, channels, samples)
           Assigns(o)  == \E src \in Var : Audio(debug)!Copy(o, src) \/ Audio(debug)!Move(o, src)
           Releases(o) == o \in DOMAIN buffers /\ (Audio(debug)!destroy(o) \/ Audio(debug)!Destruct(o))
           Applies(o)  == o \in DOMAIN buffers /\
                            \E c \in 1..MaxChannels, s \in Samples \cup {0} :
                              \E channels \in {{c}, 1..buffers[o].mNumChannels} :
                                Audio(debug)!apply(o, channels, ToSample(s))
           Writes(o)   == o \in DOMAIN buffers /\
                            \E c \in 1..MaxChannels, i \in 1..MaxSamples, s \in Samples :
                              Audio(debug)!Write(o, c, i, s)
           Kept        == AudioInv' /\ (BufferVals!Next \/ ValuesOfAll' = ValuesOfAll)
<1>7. \E o \in Var : Constructs(o) \/ Resizes(o) \/ Assigns(o) \/ Releases(o) \/ Applies(o) \/ Writes(o)
  BY Zenon DEF Audio!Next, Audio!Exists, ToSample
<1>8. \A o \in Var : (Constructs(o) \/ Releases(o)) => Kept
  BY <1>1, <1>3, <1>4, Zenon
<1>9. \A o \in Var : Resizes(o) => Kept
  <2>1. \A o \in Var, channels \in 0..MaxChannels, samples \in 0..MaxSamples :
          Audio(debug)!resize(o, channels, samples) => AudioInv' /\ BufferVals!Next
    BY ResizeStep
  <2> QED
    BY <2>1, Zenon
<1>10. \A o \in Var : Assigns(o) => Kept
  <2>1. \A o, src \in Var :
          Audio(debug)!Copy(o, src) => AudioInv' /\ (BufferVals!Next \/ ValuesOfAll' = ValuesOfAll)
    BY CopyStep
  <2> QED
    BY <1>2, <2>1, Zenon
<1>11. \A o \in Var : Applies(o) => Kept
  <2> SUFFICES ASSUME NEW o \in Var, Applies(o) PROVE Kept
    OBVIOUS
  <2>1. PICK s \in Samples \cup {0} : \E channels : Audio(debug)!apply(o, channels, ToSample(s))
    BY Zenon
  <2>2. PICK channels : Audio(debug)!apply(o, channels, ToSample(s))
    BY <2>1, Zenon
  <2>3. o \in DOMAIN buffers
    OBVIOUS
  <2>4. AudioInv' /\ (BufferVals!Next \/ ValuesOfAll' = ValuesOfAll)
    BY <1>5, <2>2, <2>3
  <2> QED
    BY <2>4
<1>12. \A o \in Var : Writes(o) => Kept
  BY <1>6, Zenon
<1> HIDE DEF Constructs, Resizes, Assigns, Releases, Applies, Writes, Kept
<1>13. Kept
  BY <1>7, <1>8, <1>9, <1>10, <1>11, <1>12, Zenon
<1> QED
  BY <1>13 DEF Kept

-----------------------------------------------------------------------------
(* The behaviours of MCObjects.  Each class's variables change only by the  *)
(* steps of the class the behaviour is about.                               *)

allVars == <<part, functionVars, storageVars, delegateVars, resultVars, scopeVars, ringVars, audioVars, viewVars>>

\* the part that runs a class in this build
RingPart(debug)  == part = IF debug THEN "ringDebug" ELSE "ringRelease"
AudioPart(debug) == part = IF debug THEN "audioDebug" ELSE "audioRelease"

OwnersInv == /\ \A debug \in BOOLEAN : RingPart(debug) => RingInv(debug)
             /\ AudioInv

LEMMA InitialOwners == ObjectsInit => OwnersInv /\ BufferVals!Init
<1> SUFFICES ASSUME ObjectsInit PROVE OwnersInv /\ BufferVals!Init
  OBVIOUS
<1>1. ASSUME NEW debug \in BOOLEAN PROVE RingInv(debug)
  <2>1. arrays = [a \in {} |-> 0] /\ DOMAIN rings = {} /\ rings = [o \in {} |-> Ring(TRUE)!NewRing]
    BY DEF ObjectsInit, Ring!Init
  <2> QED
    BY <2>1 DEF RingInv, RingTypeOK
<1>2. /\ channelArrays = [a \in {} |-> << >>] /\ sampleArrays = [a \in {} |-> << >>]
      /\ buffers = [o \in {} |-> Audio(TRUE)!NewBuffer]
  BY DEF ObjectsInit, Audio!Init
<1>3. AudioInv
  BY <1>2 DEF AudioInv, AudioTypeOK
<1>4. BufferVals!Init
  BY <1>2 DEF BufferVals!Init
<1> QED
  BY <1>1, <1>3, <1>4 DEF OwnersInv

LEMMA OwnersStep ==
  OwnersInv /\ [ObjectsNext]_allVars => OwnersInv' /\ (BufferVals!Next \/ ValuesOfAll' = ValuesOfAll)
<1> SUFFICES ASSUME OwnersInv, [ObjectsNext]_allVars
             PROVE  OwnersInv' /\ (BufferVals!Next \/ ValuesOfAll' = ValuesOfAll)
  OBVIOUS
<1>1. part' = part
  BY DEF ObjectsNext, allVars
<1>2. \A debug \in BOOLEAN : (RingPart(debug) => RingInv(debug))'
  <2> SUFFICES ASSUME NEW debug \in BOOLEAN, RingPart(debug) PROVE RingInv(debug)'
    BY <1>1 DEF RingPart
  <2>1. CASE Ring(debug)!Next
    BY <2>1, RingStep, ObjectsAssumption DEF OwnersInv
  <2>2. CASE UNCHANGED ringVars
    BY <2>2 DEF OwnersInv, ringVars, RingInv, RingTypeOK, OwnsAlone
  <2>3. Ring(debug)!Next \/ UNCHANGED ringVars
    BY Zenon DEF ObjectsNext, allVars, FunctionNext, StorageNext, DelegateNext, ValueNext,
       ScopeNext, RingNext,
         AudioNext, ViewNext, RingPart
  <2> QED
    BY <2>1, <2>2, <2>3
<1>3. AudioInv' /\ (BufferVals!Next \/ ValuesOfAll' = ValuesOfAll)
  <2>1. (\E debug \in BOOLEAN : Audio(debug)!Next) \/ UNCHANGED audioVars
    BY Zenon DEF ObjectsNext, allVars, FunctionNext, StorageNext, DelegateNext, ValueNext,
       ScopeNext, RingNext,
         AudioNext, ViewNext
  <2>2. ASSUME NEW debug \in BOOLEAN, Audio(debug)!Next
        PROVE  AudioInv' /\ (BufferVals!Next \/ ValuesOfAll' = ValuesOfAll)
    BY <2>2, AudioStep, ObjectsAssumption DEF OwnersInv
  <2>3. CASE UNCHANGED audioVars
    BY <2>3, AudioUnchanged, ObjectsAssumption DEF OwnersInv
  <2> QED
    BY <2>1, <2>2, <2>3
<1> QED
  BY <1>2, <1>3 DEF OwnersInv

LEMMA OwnersInvariance == ObjectsSpec => []OwnersInv
  BY InitialOwners, OwnersStep, PTL DEF ObjectsSpec, allVars

\* Arrays have one owner, whatever is constructed, resized, moved, copied, destroyed and
\* allocated at an address used before (RingBufferOwner, AudioBuffer).
THEOREM OwnsTheirArrays == ObjectsSpec => []OwnsItsArrays
<1>1. OwnersInv => OwnsItsArrays
  <2> SUFFICES ASSUME OwnersInv PROVE OwnsItsArrays
    OBVIOUS
  <2>1. ASSUME NEW debug \in BOOLEAN, RingPart(debug)
        PROVE  Ring(debug)!OwnsItsArray /\ (debug => Ring(debug)!NonEmptyOwnsArray)
    BY <2>1, RingOwns, ObjectsAssumption DEF OwnersInv
  <2>2. \A debug \in BOOLEAN : Audio(debug)!OwnsItsArrays
    BY AudioOwns DEF OwnersInv
  <2> QED
    BY <2>1, <2>2, Zenon DEF OwnsItsArrays, RingPart
<1> QED
  BY <1>1, OwnersInvariance, PTL

\* Buffers are values: every step of an AudioBuffer is one of BufferValues.
THEOREM BuffersAreValues == ObjectsSpec => ImplementsValues
<1>1. ObjectsInit => BufferVals!Init
  BY InitialOwners
<1>2. OwnersInv /\ [ObjectsNext]_allVars
        => [BufferVals!Next]_([o \in DOMAIN buffers |-> Audio(FALSE)!Contents(buffers[o])])
  BY OwnersStep DEF ValuesOfAll, Value
<1> QED
  BY <1>1, <1>2, OwnersInvariance, PTL DEF ObjectsSpec, allVars, ImplementsValues,
     BufferVals!ValuesSpec

-----------------------------------------------------------------------------
(* The two words of a Function: FunctionStorage_proofs proves what its      *)
(* specification implies, and a behaviour of MCObjects is one of it.        *)

Words == INSTANCE FunctionStorage_proofs WITH fn <- representation, Functions <- Objects, Objects <- Places

LEMMA StorageBehaves == ObjectsSpec => Words!Spec
<1>1. ObjectsInit => Words!Init
  BY Zenon DEF ObjectsInit, Storage!Init, Storage!Default, Storage!Represents, Storage!Nothing,
       Storage!Emptied, Storage!Target,
       Words!Init, Words!Default, Words!Represents, Words!Nothing, Words!Emptied, Words!Target
<1>2. Storage!Next => Words!Next
  BY Zenon DEF Storage!Next, Storage!Construct, Storage!Bind, Storage!Copy, Storage!Move,
     Storage!swap, Storage!Make,
       Storage!Default, Storage!Represents, Storage!Nothing, Storage!Emptied, Storage!FromFunction,
       Storage!FromInvocable,
       Storage!FromHeapObject, Storage!FastBound, Storage!SafeBound, Storage!Target, Storage!setTrampoline,
       Storage!hasHeapObject, Storage!kFunction, Storage!kInvocable, Storage!kHeap, Storage!kMember,
       Words!Next, Words!Construct, Words!Bind, Words!Copy, Words!Move, Words!swap, Words!Make,
       Words!Default, Words!Represents, Words!Nothing, Words!Emptied, Words!FromFunction, Words!FromInvocable,
       Words!FromHeapObject, Words!FastBound, Words!SafeBound, Words!Target, Words!setTrampoline,
       Words!hasHeapObject, Words!kFunction, Words!kInvocable, Words!kHeap, Words!kMember
<1>3. [ObjectsNext]_allVars => [Words!Next]_(<<representation, target>>)
  BY <1>2, Zenon DEF ObjectsNext, allVars, FunctionNext, StorageNext, DelegateNext, ValueNext,
     ScopeNext, RingNext,
       AudioNext, ViewNext, storageVars
<1> QED
  BY <1>1, <1>3, PTL DEF ObjectsSpec, allVars, Words!Spec, Words!vars

\* A Function's words stand for what it was made to call, and operator== tells them apart
\* (FunctionStorage).
THEOREM CallsTheTarget == ObjectsSpec => []CallsTarget
<1>1. Words!StorageAssumption
  BY StorageAssumed DEF Storage!StorageAssumption, Words!StorageAssumption, Storage!kMember,
     Words!kMember
<1>2. ObjectsSpec => [](Words!CallsTarget /\ Words!EqualsTarget)
  <2>1. Words!Spec => []Words!CallsTarget
    BY <1>1, Words!CallsTheTarget
  <2>2. Words!Spec => []Words!EqualsTarget
    BY <1>1, Words!EqualsTheTarget
  <2> QED
    BY <2>1, <2>2, StorageBehaves, PTL
<1>3. Words!CallsTarget => Storage!CallsTarget
  BY Zenon DEF Words!CallsTarget, Storage!CallsTarget, Words!Calls,
     Storage!Calls,
       Words!hasHeapObject, Storage!hasHeapObject, Words!hasEmbeddedStorage, Storage!hasEmbeddedStorage,
       Words!isHeapBased, Storage!isHeapBased, Words!kHeap, Storage!kHeap, Words!trampoline, Storage!trampoline
<1>4. Words!EqualsTarget => Storage!EqualsTarget
  <2>1. /\ \A a, b : Words!Equals(a, b) <=> Storage!Equals(a, b)
        /\ Words!kFunction = Storage!kFunction
    BY Zenon DEF Words!Equals, Storage!Equals, Words!kFunction, Storage!kFunction
  <2>2. /\ Words!Default = Storage!Default
        /\ \A f : Words!FromFunction(f) = Storage!FromFunction(f)
        /\ \A o, code : Words!FastBound(o, code) = Storage!FastBound(o, code)
    BY Zenon DEF Words!kFunction, Storage!kFunction, Words!Default, Storage!Default,
         Words!Represents, Storage!Represents, Words!FromFunction, Storage!FromFunction,
         Words!FastBound, Storage!FastBound, Words!setTrampoline, Storage!setTrampoline
  <2>3. Words!equalTests = Storage!equalTests
    BY <2>2 DEF Words!equalTests, Storage!equalTests
  <2>4. \A f, g, k, j, c, d : Words!unequalTests(f, g, k, j, c, d) = Storage!unequalTests(f, g, k, j, c, d)
    BY <2>2 DEF Words!unequalTests, Storage!unequalTests
  <2> QED
    BY <2>1, <2>3, <2>4 DEF Words!EqualsTarget, Storage!EqualsTarget
<1>5. Words!CallsTarget /\ Words!EqualsTarget => CallsTarget
  BY <1>3, <1>4 DEF CallsTarget
<1> QED
  BY <1>2, <1>5, PTL
-----------------------------------------------------------------------------
(* Scopes.  As long as no two threads' scopes of the variable overlap, at    *)
(* most one uses it, each of its scopes remembers what the scopes around it  *)
(* gave, and a constructor has loaded what it will still find.               *)

Held == Values \cup {Original}
ScopeRecords == [kind : {"value", "count"}, mOldValue : Held, newValue : Held]

ScopeTypeOK ==
  /\ value \in Held
  /\ scopes \in [Thread -> Seq(ScopeRecords)]
  /\ entering \in [Thread -> Seq(Held)]
  /\ \A t \in Thread : Len(scopes[t]) + Len(entering[t]) <= MaxDepth /\ Len(entering[t]) <= 1

Nested ==
  /\ \A t, u \in Thread : Scope!UsesValue(t) /\ Scope!UsesValue(u) => t = u
  /\ \A t \in Thread : entering[t] # << >> => entering[t] = <<value>>
  /\ \A t \in Thread : \A i \in 1..Len(scopes[t]) :
       scopes[t][i].kind = "value" => Scope!Gives(scopes[t], i - 1, scopes[t][i].mOldValue)
  /\ \A t \in Thread : (\A u \in Thread \ {t} : ~Scope!HasKind(u, "value"))
                         => Scope!Gives(scopes[t], Len(scopes[t]), value)

ScopeInv == ScopeTypeOK /\ Scope!CountsScopes /\ (~overlapped => Nested)

\* what the first n scopes give depends on them only, and not on scopes that count
LEMMA GivesSame ==
  ASSUME NEW s, NEW r, NEW n \in Nat, \A i \in 1..n : r[i] = s[i], NEW v
  PROVE  Scope!Gives(r, n, v) <=> Scope!Gives(s, n, v)
  BY DEF Scope!Gives

LEMMA GivesCounted ==
  ASSUME NEW s, NEW n \in Nat \ {0}, s[n].kind # "value", NEW v
  PROVE  Scope!Gives(s, n, v) <=> Scope!Gives(s, n - 1, v)
<1>1. ASSUME Scope!Gives(s, n, v) PROVE Scope!Gives(s, n - 1, v)
  BY <1>1 DEF Scope!Gives
<1>2. ASSUME Scope!Gives(s, n - 1, v) PROVE Scope!Gives(s, n, v)
  BY <1>2 DEF Scope!Gives
<1> QED
  BY <1>1, <1>2

LEMMA SameCardinality == \A S : Scope!Cardinality(S) = Cardinality(S)
  BY Zenon DEF Scope!Cardinality, Cardinality

LEMMA CountingFinite ==
  MaxDepth \in Nat => IsFiniteSet(Scope!Counting) /\ Cardinality(Scope!Counting) \in Nat
<1> SUFFICES ASSUME MaxDepth \in Nat
             PROVE  IsFiniteSet(Scope!Counting) /\ Cardinality(Scope!Counting) \in Nat
  OBVIOUS
<1>1. IsFiniteSet(Thread) /\ IsFiniteSet(1..MaxDepth)
  BY FS_Interval, FunctionAssumption DEF FunctionAssumption
<1>2. IsFiniteSet(Thread \X (1..MaxDepth))
  BY <1>1, FS_Product
<1>3. Scope!Counting \subseteq Thread \X (1..MaxDepth)
  BY DEF Scope!Counting
<1>4. IsFiniteSet(Scope!Counting)
  BY <1>2, <1>3, FS_Subset
<1> QED
  BY <1>4, FS_CardinalityType

LEMMA LoadStep ==
  ASSUME ScopeInv, NEW t \in Thread, Scope!LoadValue(t)
  PROVE  ScopeInv'
<1>1. /\ entering[t] = << >> /\ Len(scopes[t]) < MaxDepth
      /\ entering' = [entering EXCEPT ![t] = <<value>>]
      /\ overlapped' = (overlapped \/ \E u \in Thread \ {t} : Scope!UsesValue(u))
      /\ value' = value /\ count' = count /\ scopes' = scopes
  BY DEF Scope!LoadValue, Scope!MayOpen, Scope!Ready
<1>2. ScopeTypeOK'
  BY <1>1, ObjectsAssumption DEF ScopeInv, ScopeTypeOK
<1>3. Scope!CountsScopes'
  BY <1>1 DEF ScopeInv, Scope!CountsScopes, Scope!Counting
<1>4. \A u \in Thread : \A k : (Scope!HasKind(u, k)' <=> Scope!HasKind(u, k)) 
  BY <1>1 DEF Scope!HasKind
<1>5. ASSUME ~overlapped' PROVE Nested'
  <2>1. Nested /\ \A u \in Thread \ {t} : ~Scope!UsesValue(u)
    BY <1>1, <1>5 DEF ScopeInv
  <2>2. \A u \in Thread : u # t => ~Scope!UsesValue(u)'
    BY <1>1, <1>4, <2>1 DEF Scope!UsesValue, ScopeInv, ScopeTypeOK
  <2>3. \A u \in Thread : entering'[u] # << >> => entering'[u] = <<value'>>
    BY <1>1, <2>1 DEF Nested, ScopeInv, ScopeTypeOK
  <2>4. \A u \in Thread : \A i \in 1..Len(scopes'[u]) :
          scopes'[u][i].kind = "value" => Scope!Gives(scopes'[u], i - 1, scopes'[u][i].mOldValue)
    BY <1>1, <2>1 DEF Nested
  <2>5. \A u \in Thread : (\A w \in Thread \ {u} : ~Scope!HasKind(w, "value")')
                            => Scope!Gives(scopes'[u], Len(scopes'[u]), value')
    BY <1>1, <1>4, <2>1 DEF Nested
  <2> QED
    BY <2>2, <2>3, <2>4, <2>5 DEF Nested
<1> QED
  BY <1>2, <1>3, <1>5 DEF ScopeInv
LEMMA StoreStep ==
  ASSUME ScopeInv, NEW t \in Thread, NEW newValue \in Values, Scope!StoreValue(t, newValue)
  PROVE  ScopeInv'
<1> DEFINE n == Len(scopes[t])
           scope == [kind |-> "value", mOldValue |-> entering[t][1], newValue |-> newValue]
           s == Append(scopes[t], scope)
<1>1. /\ entering[t] # << >> /\ value' = newValue
      /\ scopes' = [scopes EXCEPT ![t] = s]
      /\ entering' = [entering EXCEPT ![t] = << >>]
      /\ count' = count /\ overlapped' = overlapped
  BY DEF Scope!StoreValue, Scope!Opens
<1>2. ScopeTypeOK
  BY DEF ScopeInv
<1>3. n \in Nat /\ Len(entering[t]) = 1 /\ entering[t][1] \in Held /\ scope \in ScopeRecords /\ scopes[t] \in Seq(ScopeRecords)
  <2>1. /\ entering[t] \in Seq(Held) /\ Len(entering[t]) <= 1 /\ entering[t] # << >>
        /\ scopes[t] \in Seq(ScopeRecords)
    BY <1>1, <1>2 DEF ScopeTypeOK
  <2>a. Len(entering[t]) # 0 /\ Len(entering[t]) \in Nat
    BY <2>1
  <2>b. \A k \in Nat : k # 0 /\ k <= 1 => k = 1
    OBVIOUS
  <2>c. Len(entering[t]) = 1
    BY <2>1, <2>a, <2>b, Zenon
  <2>2. Len(entering[t]) = 1 /\ entering[t][1] \in Held /\ n \in Nat
    BY <2>1, <2>c
  <2>3. scope \in ScopeRecords
    BY <2>2 DEF ScopeRecords, Held
  <2> QED
    BY <2>1, <2>2, <2>3
<1>b. scope.kind = "value" /\ scope.mOldValue = entering[t][1] /\ scope.newValue = newValue
  OBVIOUS
<1> HIDE DEF scope
<1>4. s \in Seq(ScopeRecords) /\ Len(s) = n + 1 /\ s[n + 1] = scope /\ \A i \in 1..n : s[i] = scopes[t][i]
  BY <1>3
<1> HIDE DEF s
<1>5. ScopeTypeOK'
  <2>1. value' \in Held /\ scopes' \in [Thread -> Seq(ScopeRecords)] /\ entering' \in [Thread -> Seq(Held)]
    BY <1>1, <1>2, <1>4 DEF ScopeTypeOK, Held
  <2>2. ASSUME NEW u \in Thread
        PROVE  Len(scopes'[u]) + Len(entering'[u]) <= MaxDepth /\ Len(entering'[u]) <= 1
    BY <1>1, <1>2, <1>3, <1>4 DEF ScopeTypeOK
  <2> QED
    BY <2>1, <2>2 DEF ScopeTypeOK
<1>6. Scope!CountsScopes'
  <2>1. ASSUME NEW u \in Thread, NEW i \in 1..MaxDepth
        PROVE  (i \in DOMAIN scopes'[u] /\ scopes'[u][i].kind = "count")
                 <=> (i \in DOMAIN scopes[u] /\ scopes[u][i].kind = "count")
    <3>1. CASE u # t
      BY <1>1, <1>2, <3>1 DEF ScopeTypeOK
    <3>2. CASE u = t
      <4>1. scopes'[u] = s /\ DOMAIN s = 1..(n + 1) /\ DOMAIN scopes[u] = 1..n
        BY <1>1, <1>2, <1>3, <1>4, <3>2 DEF ScopeTypeOK
      <4>2. s[n + 1].kind # "count"
        BY <1>4, <1>b
      <4> HIDE DEF n
      <4> QED
        BY <1>3, <1>4, <3>2, <4>1, <4>2
    <3> QED
      BY <3>1, <3>2
  <2>2. Scope!Counting' = Scope!Counting
    BY <2>1 DEF Scope!Counting
  <2> QED
    BY <1>1, <2>2 DEF Scope!CountsScopes, ScopeInv
<1>7. ASSUME ~overlapped' PROVE Nested'
  <2>1. Nested /\ \A u \in Thread \ {t} : ~Scope!UsesValue(u)
    BY <1>1, <1>7 DEF ScopeInv, Nested, Scope!UsesValue
  <2>2. \A u \in Thread \ {t} : scopes'[u] = scopes[u] /\ entering'[u] = entering[u]
    BY <1>1, <1>2 DEF ScopeTypeOK
  <2>3. \A u \in Thread \ {t} : ~Scope!UsesValue(u)' /\ ~Scope!HasKind(u, "value") /\ ~Scope!HasKind(u, "value")'
    BY <2>1, <2>2 DEF Scope!UsesValue, Scope!HasKind
  <2>4. \A u \in Thread : entering'[u] # << >> => entering'[u] = <<value'>>
    BY <1>1, <1>2, <2>3 DEF ScopeTypeOK, Scope!UsesValue
  <2>5. Scope!Gives(scopes[t], n, value) /\ entering[t][1] = value
    BY <1>1, <2>1, <2>3 DEF Nested
  <2>6. ASSUME NEW u \in Thread, NEW i \in 1..Len(scopes'[u]), scopes'[u][i].kind = "value"
        PROVE  Scope!Gives(scopes'[u], i - 1, scopes'[u][i].mOldValue)
    <3>1. CASE u # t
      BY <2>1, <2>2, <2>6, <3>1 DEF Nested
    <3>2. CASE u = t
      <4>1. scopes'[t] = s /\ i \in 1..(n + 1) /\ i - 1 \in Nat /\ \A j \in 1..(i - 1) : s[j] = scopes[t][j]
        <5>1. scopes'[t] = s
          BY <1>1, <1>2 DEF ScopeTypeOK
        <5>2. i \in 1..(n + 1)
          BY <1>4, <2>6, <3>2, <5>1
        <5> HIDE DEF n
        <5> QED
          BY <1>3, <1>4, <5>1, <5>2
      <4>2. Scope!Gives(scopes[t], i - 1, s[i].mOldValue)
        <5>1. CASE i = n + 1
          <6>1. i - 1 = n
            BY <1>3, <5>1
          <6> QED
            BY <1>b, <1>4, <2>5, <5>1, <6>1
        <5>2. CASE i \in 1..n
          BY <1>4, <2>1, <2>6, <3>2, <4>1, <5>2 DEF Nested
        <5>3. i = n + 1 \/ i \in 1..n
          BY <1>3, <4>1
        <5> QED
          BY <5>1, <5>2, <5>3
      <4> QED
        BY <3>2, <4>1, <4>2, GivesSame
    <3> QED
      BY <3>1, <3>2
  <2>7. ASSUME NEW u \in Thread, \A w \in Thread \ {u} : ~Scope!HasKind(w, "value")'
        PROVE  Scope!Gives(scopes'[u], Len(scopes'[u]), value')
    <3>1. scopes'[t] = s /\ n + 1 \in DOMAIN s /\ s[n + 1].kind = "value"
      BY <1>1, <1>b, <1>2, <1>3, <1>4 DEF ScopeTypeOK
    <3>2. u = t
      BY <2>7, <3>1 DEF Scope!HasKind
    <3>3. Scope!Gives(s, n + 1, newValue)
      BY <1>3, <1>b, <1>4 DEF Scope!Gives
    <3> QED
      BY <1>1, <1>4, <3>1, <3>2, <3>3
  <2> QED
    BY <2>3, <2>4, <2>6, <2>7 DEF Nested
<1> QED
  BY <1>5, <1>6, <1>7 DEF ScopeInv

\* what a destructor does to the scopes of its thread
Dropped(t, n, s) ==
  /\ n = Len(scopes[t]) /\ n \in Nat \ {0} /\ scopes[t] \in Seq(ScopeRecords)
  /\ entering[t] = << >> /\ scopes' = [scopes EXCEPT ![t] = s]
  /\ s \in Seq(ScopeRecords) /\ Len(s) = n - 1 /\ \A i \in 1..(n - 1) : s[i] = scopes[t][i]

LEMMA ClosesDrops ==
  ASSUME ScopeTypeOK, NEW t \in Thread, NEW kind, Scope!Closes(t, kind)
  PROVE  /\ Dropped(t, Len(scopes[t]), SubSeq(scopes[t], 1, Len(scopes[t]) - 1))
         /\ scopes[t][Len(scopes[t])].kind = kind
<1> DEFINE n == Len(scopes[t])
<1>1. /\ entering[t] = << >> /\ scopes[t] # << >> /\ scopes[t][n].kind = kind
      /\ scopes' = [scopes EXCEPT ![t] = SubSeq(scopes[t], 1, n - 1)]
  BY DEF Scope!Closes, Scope!Ready
<1>2. scopes[t] \in Seq(ScopeRecords) /\ n \in Nat \ {0}
  BY <1>1 DEF ScopeTypeOK
<1>3. /\ SubSeq(scopes[t], 1, n - 1) \in Seq(ScopeRecords) /\ Len(SubSeq(scopes[t], 1, n - 1)) = n - 1
      /\ \A i \in 1..(n - 1) : SubSeq(scopes[t], 1, n - 1)[i] = scopes[t][i]
  BY <1>2
<1> QED
  BY <1>1, <1>2, <1>3 DEF Dropped

\* the conjuncts that both destructors keep
LEMMA DroppedKeeps ==
  ASSUME ScopeTypeOK, NEW t \in Thread, NEW n, NEW s, Dropped(t, n, s), entering' = entering, value' \in Held
  PROVE  /\ ScopeTypeOK'
         /\ Nested => \A u \in Thread : \A i \in 1..Len(scopes'[u]) :
              scopes'[u][i].kind = "value" => Scope!Gives(scopes'[u], i - 1, scopes'[u][i].mOldValue)
         /\ \A u \in Thread : \A k : Scope!HasKind(u, k)' => Scope!HasKind(u, k)
         /\ \A u \in Thread : Scope!UsesValue(u)' => Scope!UsesValue(u)
         /\ scopes'[t] = s /\ \A u \in Thread \ {t} : scopes'[u] = scopes[u]
<1>1. scopes'[t] = s /\ \A u \in Thread \ {t} : scopes'[u] = scopes[u]
  BY DEF Dropped, ScopeTypeOK
<1>2. ScopeTypeOK'
  <2>1. scopes' \in [Thread -> Seq(ScopeRecords)]
    BY DEF Dropped, ScopeTypeOK
  <2>2. ASSUME NEW u \in Thread
        PROVE  Len(scopes'[u]) + Len(entering'[u]) <= MaxDepth /\ Len(entering'[u]) <= 1
    BY <1>1, ObjectsAssumption DEF Dropped, ScopeTypeOK
  <2> QED
    BY <2>1, <2>2 DEF ScopeTypeOK
<1>3. \A u \in Thread : \A k : Scope!HasKind(u, k)' => Scope!HasKind(u, k)
  <2> SUFFICES ASSUME NEW u \in Thread, NEW k, NEW i \in DOMAIN scopes'[u], scopes'[u][i].kind = k
               PROVE  \E j \in DOMAIN scopes[u] : scopes[u][j].kind = k
    BY DEF Scope!HasKind
  <2>1. CASE u # t
    BY <1>1, <2>1
  <2>2. CASE u = t
    <3>1. i \in 1..(n - 1) /\ scopes[u][i].kind = k /\ i \in DOMAIN scopes[u]
      BY <1>1, <2>2 DEF Dropped
    <3> QED
      BY <3>1
  <2> QED
    BY <2>1, <2>2
<1>4. \A u \in Thread : Scope!UsesValue(u)' => Scope!UsesValue(u)
  BY <1>3 DEF Scope!UsesValue
<1>5. ASSUME Nested, NEW u \in Thread, NEW i \in 1..Len(scopes'[u]), scopes'[u][i].kind = "value"
      PROVE  Scope!Gives(scopes'[u], i - 1, scopes'[u][i].mOldValue)
  <2>1. CASE u # t
    BY <1>1, <1>5, <2>1 DEF Nested
  <2>2. CASE u = t
    <3>1. i \in 1..(n - 1) /\ s[i] = scopes[t][i] /\ scopes[t][i].kind = "value" /\ i \in 1..Len(scopes[t])
      BY <1>1, <1>5, <2>2 DEF Dropped
    <3>2. Scope!Gives(scopes[t], i - 1, s[i].mOldValue)
      BY <1>5, <3>1 DEF Nested
    <3>3. i - 1 \in Nat /\ \A j \in 1..(i - 1) : s[j] = scopes[t][j]
      BY <3>1 DEF Dropped
    <3> QED
      BY <1>1, <2>2, <3>2, <3>3, GivesSame
  <2> QED
    BY <2>1, <2>2
<1> QED
  BY <1>1, <1>2, <1>3, <1>4, <1>5

LEMMA RestoreStep ==
  ASSUME ScopeInv, NEW t \in Thread, Scope!RestoreValue(t)
  PROVE  ScopeInv'
<1> DEFINE n == Len(scopes[t])
           s == SubSeq(scopes[t], 1, n - 1)
<1>1. /\ Scope!Closes(t, "value") /\ value' = scopes[t][n].mOldValue
      /\ count' = count /\ entering' = entering /\ overlapped' = overlapped
  BY DEF Scope!RestoreValue
<1>2. ScopeTypeOK /\ Dropped(t, n, s) /\ scopes[t][n].kind = "value"
  BY <1>1, ClosesDrops DEF ScopeInv
<1> HIDE DEF n, s
<1>3. value' \in Held /\ n \in 1..Len(scopes[t])
  <2>1. n = Len(scopes[t]) /\ n \in Nat \ {0} /\ scopes[t] \in Seq(ScopeRecords)
    BY <1>2 DEF Dropped
  <2>2. n \in 1..Len(scopes[t]) /\ scopes[t][n] \in ScopeRecords
    BY <2>1
  <2> QED
    BY <1>1, <2>2 DEF ScopeRecords
<1>4. /\ ScopeTypeOK'
      /\ Nested => \A u \in Thread : \A i \in 1..Len(scopes'[u]) :
           scopes'[u][i].kind = "value" => Scope!Gives(scopes'[u], i - 1, scopes'[u][i].mOldValue)
      /\ \A u \in Thread : Scope!UsesValue(u)' => Scope!UsesValue(u)
      /\ scopes'[t] = s /\ \A u \in Thread \ {t} : scopes'[u] = scopes[u]
  BY <1>1, <1>2, <1>3, DroppedKeeps
<1>5. Scope!CountsScopes'
  <2>1. ASSUME NEW u \in Thread, NEW i \in 1..MaxDepth
        PROVE  (i \in DOMAIN scopes'[u] /\ scopes'[u][i].kind = "count")
                 <=> (i \in DOMAIN scopes[u] /\ scopes[u][i].kind = "count")
    <3>1. CASE u # t
      BY <1>4, <3>1
    <3>2. CASE u = t
      <4>1. scopes'[u] = s /\ DOMAIN s = 1..(n - 1) /\ DOMAIN scopes[u] = 1..n /\ n \in Nat
        BY <1>2, <1>4, <3>2 DEF Dropped
      <4>2. \A k \in 1..(n - 1) : s[k] = scopes[u][k]
        BY <1>2, <3>2 DEF Dropped
      <4> QED
        BY <1>2, <3>2, <4>1, <4>2
    <3> QED
      BY <3>1, <3>2
  <2>2. Scope!Counting' = Scope!Counting
    BY <2>1 DEF Scope!Counting
  <2> QED
    BY <1>1, <2>2 DEF Scope!CountsScopes, ScopeInv
<1>6. ASSUME ~overlapped' PROVE Nested'
  <2>1. Nested /\ \A u \in Thread \ {t} : ~Scope!UsesValue(u)
    BY <1>1, <1>2, <1>3, <1>6 DEF ScopeInv, Nested, Scope!UsesValue, Scope!HasKind
  <2>2. \A u, w \in Thread : Scope!UsesValue(u)' /\ Scope!UsesValue(w)' => u = w
    BY <1>4, <2>1 DEF Nested
  <2>3. \A u \in Thread : entering'[u] = << >>
    BY <1>1, <1>2, <2>1 DEF Scope!UsesValue, Dropped
  <2>4. Scope!Gives(s, n - 1, value')
    <3>1. Scope!Gives(scopes[t], n - 1, value')
      BY <1>1, <1>2, <1>3, <2>1 DEF Nested
    <3>2. n - 1 \in Nat /\ \A j \in 1..(n - 1) : s[j] = scopes[t][j]
      BY <1>2 DEF Dropped
    <3> QED
      BY <3>1, <3>2, GivesSame
  <2>5. ASSUME NEW u \in Thread, \A w \in Thread \ {u} : ~Scope!HasKind(w, "value")'
        PROVE  Scope!Gives(scopes'[u], Len(scopes'[u]), value')
    <3>1. CASE u = t
      BY <1>2, <1>4, <2>4, <3>1 DEF Dropped
    <3>2. CASE u # t
      <4>1. \A j \in 1..(n - 1) : s[j].kind # "value"
        BY <1>2, <1>4, <2>5, <3>2 DEF Scope!HasKind, Dropped
      <4>2. value' = Original
        BY <1>2, <2>4, <4>1 DEF Scope!Gives, Dropped
      <4>3. \A j \in 1..Len(scopes'[u]) : scopes'[u][j].kind # "value"
        BY <1>2, <1>4, <2>1, <3>2 DEF Scope!UsesValue, Scope!HasKind, ScopeTypeOK
      <4> QED
        BY <4>2, <4>3 DEF Scope!Gives
    <3> QED
      BY <3>1, <3>2
  <2> QED
    BY <1>4, <2>1, <2>2, <2>3, <2>5 DEF Nested
<1> QED
  BY <1>4, <1>5, <1>6 DEF ScopeInv

LEMMA CountStep ==
  ASSUME ScopeInv, NEW t \in Thread, Scope!Count(t)
  PROVE  ScopeInv'
<1> DEFINE n == Len(scopes[t])
           scope == [kind |-> "count", mOldValue |-> Original, newValue |-> Original]
           s == Append(scopes[t], scope)
<1>1. /\ entering[t] = << >> /\ n < MaxDepth /\ count' = count + 1
      /\ scopes' = [scopes EXCEPT ![t] = s]
      /\ value' = value /\ entering' = entering /\ overlapped' = overlapped
  BY DEF Scope!Count, Scope!Opens, Scope!MayOpen, Scope!Ready
<1>2. ScopeTypeOK
  BY DEF ScopeInv
<1>3. n \in Nat /\ scope \in ScopeRecords /\ scopes[t] \in Seq(ScopeRecords) /\ scope.kind = "count"
  <2>1. scope \in ScopeRecords /\ scope.kind = "count"
    BY DEF ScopeRecords, Held
  <2>2. scopes[t] \in Seq(ScopeRecords)
    BY <1>2 DEF ScopeTypeOK
  <2> QED
    BY <2>1, <2>2
<1> HIDE DEF scope
<1>4. s \in Seq(ScopeRecords) /\ Len(s) = n + 1 /\ s[n + 1] = scope /\ \A i \in 1..n : s[i] = scopes[t][i]
  BY <1>3
<1> HIDE DEF s
<1>5. scopes'[t] = s /\ \A u \in Thread \ {t} : scopes'[u] = scopes[u]
  BY <1>1, <1>2 DEF ScopeTypeOK
<1>6. ScopeTypeOK'
  <2>1. value' \in Held /\ scopes' \in [Thread -> Seq(ScopeRecords)] /\ entering' \in [Thread -> Seq(Held)]
    BY <1>1, <1>2, <1>4 DEF ScopeTypeOK, Held
  <2>2. ASSUME NEW u \in Thread
        PROVE  Len(scopes'[u]) + Len(entering'[u]) <= MaxDepth /\ Len(entering'[u]) <= 1
    <3>1. CASE u # t
      BY <1>1, <1>2, <1>5, <3>1 DEF ScopeTypeOK
    <3>2. CASE u = t
      <4>1. Len(scopes'[u]) = n + 1 /\ Len(entering'[u]) = 0
        BY <1>1, <1>4, <1>5, <3>2
      <4> HIDE DEF n
      <4> QED
        BY <1>1, <1>3, <4>1, ObjectsAssumption
    <3> QED
      BY <3>1, <3>2
  <2> QED
    BY <2>1, <2>2 DEF ScopeTypeOK
<1>7. Scope!CountsScopes'
  <2>1. ASSUME NEW u \in Thread, NEW i \in 1..MaxDepth
        PROVE  (i \in DOMAIN scopes'[u] /\ scopes'[u][i].kind = "count")
                 <=> (i \in DOMAIN scopes[u] /\ scopes[u][i].kind = "count") \/ (u = t /\ i = n + 1)
    <3>1. CASE u # t
      BY <1>5, <3>1
    <3>2. CASE u = t
      <4>1. scopes'[u] = s /\ DOMAIN s = 1..(n + 1) /\ DOMAIN scopes[u] = 1..n
        BY <1>3, <1>4, <1>5, <3>2
      <4> HIDE DEF n
      <4> QED
        BY <1>3, <1>4, <3>2, <4>1
    <3> QED
      BY <3>1, <3>2
  <2>2. n + 1 \in 1..MaxDepth /\ n + 1 \notin DOMAIN scopes[t]
    BY <1>1, <1>3, ObjectsAssumption
  <2> HIDE DEF n
  <2>3. Scope!Counting' = Scope!Counting \cup {<<t, n + 1>>} /\ <<t, n + 1>> \notin Scope!Counting
    BY <2>1, <2>2 DEF Scope!Counting
  <2>4. Cardinality(Scope!Counting') = Cardinality(Scope!Counting) + 1
    BY <2>3, CountingFinite, FS_AddElement, ObjectsAssumption
  <2>5. count = Cardinality(Scope!Counting)
    BY SameCardinality, Zenon DEF Scope!CountsScopes, ScopeInv
  <2>6. count' = Cardinality(Scope!Counting')
    BY <1>1, <2>4, <2>5, Zenon
  <2> QED
    BY <2>6, SameCardinality, Zenon DEF Scope!CountsScopes
<1>8. \A u \in Thread : (Scope!HasKind(u, "value")' <=> Scope!HasKind(u, "value"))
  <2> SUFFICES ASSUME NEW u \in Thread PROVE Scope!HasKind(u, "value")' <=> Scope!HasKind(u, "value")
    OBVIOUS
  <2>1. CASE u # t
    BY <1>5, <2>1 DEF Scope!HasKind
  <2>2. CASE u = t
    <3>1. scopes'[u] = s /\ DOMAIN s = 1..(n + 1) /\ DOMAIN scopes[u] = 1..n
      BY <1>3, <1>4, <1>5, <2>2
    <3> HIDE DEF n
    <3> QED
      BY <1>3, <1>4, <2>2, <3>1 DEF Scope!HasKind
  <2> QED
    BY <2>1, <2>2
<1>9. ASSUME ~overlapped' PROVE Nested'
  <2>1. Nested
    BY <1>1, <1>9 DEF ScopeInv
  <2>2. \A u, w \in Thread : Scope!UsesValue(u)' /\ Scope!UsesValue(w)' => u = w
    BY <1>1, <1>8, <2>1 DEF Nested, Scope!UsesValue
  <2>3. \A u \in Thread : entering'[u] # << >> => entering'[u] = <<value'>>
    BY <1>1, <2>1 DEF Nested
  <2>4. ASSUME NEW u \in Thread, NEW i \in 1..Len(scopes'[u]), scopes'[u][i].kind = "value"
        PROVE  Scope!Gives(scopes'[u], i - 1, scopes'[u][i].mOldValue)
    <3>1. CASE u # t
      BY <1>5, <2>1, <2>4, <3>1 DEF Nested
    <3>2. CASE u = t
      <4>1. i \in 1..n /\ s[i] = scopes[t][i] /\ scopes[t][i].kind = "value"
        <5>1. i \in 1..(n + 1) /\ s[i].kind = "value"
          BY <1>4, <1>5, <2>4, <3>2
        <5>2. i # n + 1
          BY <1>3, <1>4, <5>1
        <5> HIDE DEF n
        <5>3. i \in 1..n
          BY <1>3, <5>1, <5>2
        <5> QED
          BY <1>4, <5>1, <5>3
      <4>2. Scope!Gives(scopes[t], i - 1, s[i].mOldValue)
        BY <2>1, <4>1 DEF Nested
      <4>3. i - 1 \in Nat /\ \A j \in 1..(i - 1) : s[j] = scopes[t][j]
        <5> HIDE DEF n
        <5>1. i \in 1..n /\ \A j \in 1..n : s[j] = scopes[t][j]
          BY <1>4, <4>1
        <5> QED
          BY <1>3, <5>1
      <4> QED
        BY <1>5, <3>2, <4>2, <4>3, GivesSame
    <3> QED
      BY <3>1, <3>2
  <2>5. ASSUME NEW u \in Thread, \A w \in Thread \ {u} : ~Scope!HasKind(w, "value")'
        PROVE  Scope!Gives(scopes'[u], Len(scopes'[u]), value')
    <3>1. Scope!Gives(scopes[u], Len(scopes[u]), value)
      BY <1>8, <2>1, <2>5 DEF Nested
    <3>2. CASE u # t
      BY <1>1, <1>5, <3>1, <3>2
    <3>3. CASE u = t
      <4>1. Scope!Gives(s, n, value)
        BY <1>3, <1>4, <3>1, <3>3, GivesSame
      <4>2. n + 1 \in Nat \ {0} /\ (n + 1) - 1 = n /\ s[n + 1].kind # "value"
        BY <1>3, <1>4
      <4>3. Scope!Gives(s, n + 1, value)
        BY <4>1, <4>2, GivesCounted
      <4> QED
        BY <1>1, <1>4, <1>5, <3>3, <4>3
    <3> QED
      BY <3>2, <3>3
  <2> QED
    BY <2>2, <2>3, <2>4, <2>5 DEF Nested
<1> QED
  BY <1>6, <1>7, <1>9 DEF ScopeInv

LEMMA UncountStep ==
  ASSUME ScopeInv, NEW t \in Thread, Scope!Uncount(t)
  PROVE  ScopeInv'
<1> DEFINE n == Len(scopes[t])
           s == SubSeq(scopes[t], 1, n - 1)
<1>1. /\ Scope!Closes(t, "count") /\ value' = value
      /\ count' = count - 1 /\ entering' = entering /\ overlapped' = overlapped
  BY DEF Scope!Uncount
<1>2. ScopeTypeOK /\ Dropped(t, n, s) /\ scopes[t][n].kind = "count"
  BY <1>1, ClosesDrops DEF ScopeInv
<1> HIDE DEF n, s
<1>3. value' \in Held /\ n \in 1..Len(scopes[t]) /\ n \in Nat \ {0} /\ n = Len(scopes[t])
  BY <1>1, <1>2 DEF Dropped, ScopeTypeOK
<1>4. /\ ScopeTypeOK'
      /\ Nested => \A u \in Thread : \A i \in 1..Len(scopes'[u]) :
           scopes'[u][i].kind = "value" => Scope!Gives(scopes'[u], i - 1, scopes'[u][i].mOldValue)
      /\ \A u \in Thread : Scope!UsesValue(u)' => Scope!UsesValue(u)
      /\ scopes'[t] = s /\ \A u \in Thread \ {t} : scopes'[u] = scopes[u]
  BY <1>1, <1>2, <1>3, DroppedKeeps
<1>5. DOMAIN s = 1..(n - 1) /\ Len(s) = n - 1 /\ DOMAIN scopes[t] = 1..n /\ \A k \in 1..(n - 1) : s[k] = scopes[t][k]
  <2>1. /\ n = Len(scopes[t]) /\ n \in Nat \ {0} /\ scopes[t] \in Seq(ScopeRecords)
        /\ s \in Seq(ScopeRecords) /\ Len(s) = n - 1 /\ \A k \in 1..(n - 1) : s[k] = scopes[t][k]
    BY <1>2 DEF Dropped
  <2> QED
    BY <2>1
<1>6. Scope!CountsScopes'
  <2>1. ASSUME NEW u \in Thread, NEW i \in 1..MaxDepth
        PROVE  (i \in DOMAIN scopes'[u] /\ scopes'[u][i].kind = "count")
                 <=> (i \in DOMAIN scopes[u] /\ scopes[u][i].kind = "count") /\ ~(u = t /\ i = n)
    <3>1. CASE u # t
      BY <1>4, <3>1
    <3>2. CASE u = t
      BY <1>3, <1>4, <1>5, <3>2
    <3> QED
      BY <3>1, <3>2
  <2>2. n \in 1..MaxDepth /\ n \in DOMAIN scopes[t] /\ scopes[t][n].kind = "count"
    <3>1. Len(scopes[t]) + Len(entering[t]) <= MaxDepth /\ Len(entering[t]) = 0
      BY <1>2 DEF ScopeTypeOK, Dropped
    <3> QED
      BY <1>2, <1>3, <1>5, <3>1, ObjectsAssumption
  <2>3. Scope!Counting' = Scope!Counting \ {<<t, n>>} /\ <<t, n>> \in Scope!Counting
    BY <2>1, <2>2 DEF Scope!Counting
  <2>4. Cardinality(Scope!Counting') = Cardinality(Scope!Counting) - 1
    BY <2>3, CountingFinite, FS_RemoveElement, ObjectsAssumption
  <2>5. count = Cardinality(Scope!Counting)
    BY SameCardinality, Zenon DEF Scope!CountsScopes, ScopeInv
  <2>6. count' = Cardinality(Scope!Counting')
    BY <1>1, <2>4, <2>5, Zenon
  <2> QED
    BY <2>6, SameCardinality, Zenon DEF Scope!CountsScopes
<1>7. \A u \in Thread : Scope!HasKind(u, "value") => Scope!HasKind(u, "value")'
  <2> SUFFICES ASSUME NEW u \in Thread, NEW i \in DOMAIN scopes[u], scopes[u][i].kind = "value"
               PROVE  \E j \in DOMAIN scopes'[u] : scopes'[u][j].kind = "value"
    BY DEF Scope!HasKind
  <2>1. CASE u # t
    BY <1>4, <2>1
  <2>2. CASE u = t
    <3>1. i \in 1..n /\ i # n
      BY <1>2, <1>5, <2>2
    <3>2. i \in 1..(n - 1)
      BY <1>3, <3>1
    <3> QED
      BY <1>4, <1>5, <2>2, <3>2
  <2> QED
    BY <2>1, <2>2
<1>8. ASSUME ~overlapped' PROVE Nested'
  <2>1. Nested
    BY <1>1, <1>8 DEF ScopeInv
  <2>2. \A u, w \in Thread : Scope!UsesValue(u)' /\ Scope!UsesValue(w)' => u = w
    BY <1>4, <2>1 DEF Nested
  <2>3. \A u \in Thread : entering'[u] # << >> => entering'[u] = <<value'>>
    BY <1>1, <2>1 DEF Nested
  <2>4. ASSUME NEW u \in Thread, \A w \in Thread \ {u} : ~Scope!HasKind(w, "value")'
        PROVE  Scope!Gives(scopes'[u], Len(scopes'[u]), value')
    <3>1. Scope!Gives(scopes[u], Len(scopes[u]), value)
      BY <1>7, <2>1, <2>4 DEF Nested
    <3>2. CASE u # t
      BY <1>1, <1>4, <3>1, <3>2
    <3>3. CASE u = t
      <4>1. Scope!Gives(scopes[t], n - 1, value)
        BY <1>2, <1>3, <3>1, <3>3, GivesCounted
      <4>2. n - 1 \in Nat
        BY <1>3
      <4>3. Scope!Gives(s, n - 1, value)
        BY <1>5, <4>1, <4>2, GivesSame
      <4> QED
        BY <1>1, <1>4, <1>5, <3>3, <4>3
    <3> QED
      BY <3>2, <3>3
  <2> QED
    BY <1>4, <2>1, <2>2, <2>3, <2>4 DEF Nested
<1> QED
  BY <1>4, <1>6, <1>8 DEF ScopeInv

LEMMA InitialScopes == ObjectsInit => ScopeInv
<1> SUFFICES ASSUME ObjectsInit PROVE ScopeInv
  OBVIOUS
<1>1. /\ value = Original /\ count = 0
      /\ scopes = [t \in Thread |-> << >>] /\ entering = [t \in Thread |-> << >>]
  BY DEF ObjectsInit, Scope!Init
<1>2. ScopeTypeOK
  BY <1>1, ObjectsAssumption DEF ScopeTypeOK, Held
<1>3. Scope!CountsScopes
  <2>1. Scope!Counting = {}
    BY <1>1 DEF Scope!Counting
  <2> QED
    BY <1>1, <2>1, SameCardinality, FS_EmptySet, Zenon DEF Scope!CountsScopes
<1>4. \A t \in Thread : ~Scope!UsesValue(t)
  BY <1>1 DEF Scope!UsesValue, Scope!HasKind
<1>5. \A t \in Thread : Scope!Gives(scopes[t], Len(scopes[t]), value)
  BY <1>1 DEF Scope!Gives
<1>6. Nested
  BY <1>1, <1>4, <1>5 DEF Nested
<1> QED
  BY <1>2, <1>3, <1>6 DEF ScopeInv

LEMMA ScopeStep == ScopeInv /\ [ObjectsNext]_allVars => ScopeInv'
<1> SUFFICES ASSUME ScopeInv, [ObjectsNext]_allVars PROVE ScopeInv'
  OBVIOUS
<1>1. CASE Scope!Next
  BY <1>1, LoadStep, StoreStep, RestoreStep, CountStep, UncountStep DEF Scope!Next
<1>2. CASE UNCHANGED scopeVars
  <2>1. value' = value /\ count' = count /\ scopes' = scopes /\ entering' = entering /\ overlapped' = overlapped
    BY <1>2 DEF scopeVars
  <2>2. ScopeTypeOK'
    BY <2>1 DEF ScopeInv, ScopeTypeOK
  <2>3. Scope!CountsScopes'
    BY <2>1 DEF ScopeInv, Scope!CountsScopes, Scope!Counting
  <2>4. ~overlapped' => Nested'
    BY <2>1 DEF ScopeInv, Nested, Scope!UsesValue, Scope!HasKind
  <2> QED
    BY <2>2, <2>3, <2>4 DEF ScopeInv
<1>3. Scope!Next \/ UNCHANGED scopeVars
  BY Zenon DEF ObjectsNext, allVars, FunctionNext, StorageNext, DelegateNext, ValueNext, ScopeNext,
     RingNext,
       AudioNext, ViewNext
<1> QED
  BY <1>1, <1>2, <1>3

\* The variable has what the innermost scope gave it, as long as no two threads' scopes
\* overlap, and the counter counts the scopes of all threads (Scopes).
THEOREM ScopesAreNested == ObjectsSpec => []ScopesNest
<1>1. ScopeInv => ScopesNest
  <2> SUFFICES ASSUME ScopeInv PROVE Scope!RestoresInnermost /\ Scope!CountsScopes
    BY DEF ScopesNest
  <2> QED
    BY DEF ScopeInv, Nested, Scope!RestoresInnermost
<1> QED
  BY <1>1, InitialScopes, ScopeStep, PTL DEF ObjectsSpec, allVars

-----------------------------------------------------------------------------
(* Views.  A view is a part of the array, or a null pointer's empty range.   *)

IsPart(v) ==
  /\ v \in [mpBegin : Nat, mpEnd : Nat]
  /\ \/ v = ArrayViews!Nothing
     \/ Begin <= v.mpBegin /\ v.mpBegin <= v.mpEnd /\ v.mpEnd <= Begin + Size

ViewsInv ==
  /\ DOMAIN views = Var /\ DOMAIN shown = Var
  /\ \A v \in Var : IsPart(views[v]) /\ shown[v] = ArrayViews!Elements(views[v])

LEMMA SizeOfPart ==
  ASSUME NEW v, IsPart(v)
  PROVE  /\ v.mpBegin \in Nat /\ v.mpEnd \in Nat
         /\ ArrayViews!size(v) \in 0..Size /\ v.mpBegin + ArrayViews!size(v) = v.mpEnd
  BY ObjectsAssumption DEF IsPart, ArrayViews!size, ArrayViews!Nothing, ArrayViews!Between,
     ArrayViews!null

\* what a range of pointers shows
LEMMA ShownBetween ==
  ASSUME NEW b \in Int, NEW e \in Int
  PROVE  ArrayViews!Elements(ArrayViews!Between(b, e)) = [k \in 1..(e - b) |-> b + k - Begin]
<1>1. ArrayViews!Between(b, e).mpBegin = b /\ ArrayViews!Between(b, e).mpEnd = e
  BY DEF ArrayViews!Between
<1>2. \A k \in 1..(e - b) : ArrayViews!At(b + k - 1) = b + k - Begin
  BY ObjectsAssumption DEF ArrayViews!At
<1> QED
  BY <1>1, <1>2 DEF ArrayViews!Elements, ArrayViews!size

LEMMA ShownPart ==
  ASSUME NEW v, IsPart(v)
  PROVE  ArrayViews!Elements(v) = [k \in 1..ArrayViews!size(v) |-> v.mpBegin + k - Begin]
<1>1. v = ArrayViews!Between(v.mpBegin, v.mpEnd) /\ v.mpBegin \in Int /\ v.mpEnd \in Int
  BY DEF IsPart, ArrayViews!Between
<1>2. ArrayViews!size(v) = v.mpEnd - v.mpBegin
  BY DEF ArrayViews!size
<1> QED
  BY <1>1, <1>2, ShownBetween

\* A slice of what a part shows is what the part of the part shows.
LEMMA SliceIsPart ==
  ASSUME NEW v, IsPart(v), NEW from \in Nat, NEW to \in Nat,
         from <= to, to <= ArrayViews!size(v)
  PROVE  LET part_ == ArrayViews!Between(v.mpBegin + from, v.mpBegin + to)
         IN  /\ IsPart(part_)
             /\ ArrayViews!Elements(part_) = ArrayViews!Slice(ArrayViews!Elements(v), from + 1, to)
<1> DEFINE n == ArrayViews!size(v)
           b == v.mpBegin
           p == ArrayViews!Between(b + from, b + to)
           l == ArrayViews!Elements(v)
<1>1. b \in Nat /\ v.mpEnd \in Nat /\ n \in 0..Size /\ b + n = v.mpEnd
  BY SizeOfPart
<1> HIDE DEF n
<1>2. IsPart(p)
  <2>1. CASE v = ArrayViews!Nothing
    <3>1. b = 0 /\ v.mpEnd = 0
      BY <2>1 DEF ArrayViews!Nothing, ArrayViews!Between, ArrayViews!null
    <3>2. from = 0 /\ to = 0
      BY <1>1, <3>1 DEF n
    <3> QED
      BY <3>1, <3>2 DEF IsPart, ArrayViews!Nothing, ArrayViews!Between, ArrayViews!null
  <2>2. CASE v # ArrayViews!Nothing
    <3>1. Begin <= b /\ v.mpEnd <= Begin + Size
      BY <2>2 DEF IsPart
    <3>2. b + from \in Nat /\ b + to \in Nat /\ Begin <= b + from /\ b + from <= b + to /\ b + to <= Begin + Size
      BY <1>1, <3>1, ObjectsAssumption DEF n
    <3> HIDE DEF b
    <3> QED
      BY <3>2 DEF IsPart, ArrayViews!Between
  <2> QED
    BY <2>1, <2>2
<1>3. l = [k \in 1..n |-> b + k - Begin]
  BY ShownPart DEF n
<1>4. ArrayViews!Elements(p) = [k \in 1..(to - from) |-> b + from + k - Begin]
  <2>1. b + from \in Int /\ b + to \in Int /\ (b + to) - (b + from) = to - from
    BY <1>1
  <2>2. \A k \in 1..(to - from) : (b + from) + k - Begin = b + from + k - Begin
    BY <1>1, ObjectsAssumption
  <2> QED
    BY <2>1, <2>2, ShownBetween
<1>5. ArrayViews!Slice(l, from + 1, to) = [k \in 1..(to - from) |-> l[from + k]]
  <2>1. to - (from + 1) + 1 = to - from
    OBVIOUS
  <2>2. \A k \in 1..(to - from) : (from + 1) + k - 1 = from + k /\ from + k \in 1..n
    BY <1>1 DEF n
  <2>3. DOMAIN l = 1..n
    BY <1>3
  <2> HIDE DEF l, p, b
  <2> QED
    BY <2>1, <2>2, <2>3 DEF ArrayViews!Slice
<1>6. \A k \in 1..(to - from) : l[from + k] = b + from + k - Begin
  <2>1. \A k \in 1..(to - from) : from + k \in 1..n /\ b + (from + k) - Begin = b + from + k - Begin
    BY <1>1, ObjectsAssumption DEF n
  <2> HIDE DEF l, b
  <2> QED
    BY <1>3, <2>1
<1> QED
  BY <1>2, <1>4, <1>5, <1>6

NothingShown == IsPart(ArrayViews!Nothing) /\ ArrayViews!Elements(ArrayViews!Nothing) = << >>

LEMMA NothingIsPart == NothingShown
<1>1. IsPart(ArrayViews!Nothing)
  BY DEF IsPart, ArrayViews!Nothing, ArrayViews!Between, ArrayViews!null
<1>2. ArrayViews!Elements(ArrayViews!Nothing) = [k \in 1..(0 - 0) |-> 0 + k - Begin]
  BY ShownBetween DEF ArrayViews!Nothing, ArrayViews!null
<1> QED
  BY <1>1, <1>2 DEF NothingShown

LEMMA SetStep ==
  ASSUME ViewsInv, NEW v \in Var, NEW part_, IsPart(part_), ArrayViews!Set(v, part_, ArrayViews!Elements(part_))
  PROVE  ViewsInv'
<1>1. views' = [views EXCEPT ![v] = part_] /\ shown' = [shown EXCEPT ![v] = ArrayViews!Elements(part_)]
  BY DEF ArrayViews!Set
<1>2. ASSUME NEW w \in Var PROVE IsPart(views'[w]) /\ shown'[w] = ArrayViews!Elements(views'[w])
  BY <1>1 DEF ViewsInv
<1> QED
  BY <1>1, <1>2 DEF ViewsInv, IsPart, ArrayViews!Elements, ArrayViews!size, ArrayViews!At,
     ArrayViews!Nothing,
     ArrayViews!Between, ArrayViews!null

LEMMA MakeStep ==
  ASSUME ViewsInv, NEW v \in Var, ArrayViews!Make(v)
  PROVE  ViewsInv'
<1>1. CASE ArrayViews!Set(v, ArrayViews!Nothing, << >>)
  <2>1. ArrayViews!Set(v, ArrayViews!Nothing, ArrayViews!Elements(ArrayViews!Nothing)) /\ IsPart(ArrayViews!Nothing)
    BY <1>1, NothingIsPart DEF NothingShown
  <2> QED
    BY <2>1, SetStep
<1>2. ASSUME NEW from \in 0..Size, NEW to \in 0..Size, from <= to,
             \/ ArrayViews!Set(v, ArrayViews!FromPointer(Begin + from, to - from), [k \in 1..(to - from) |-> from + k])
             \/ ArrayViews!Set(v, ArrayViews!FromIterators(from, to), [k \in 1..(to - from) |-> from + k])
      PROVE  ViewsInv'
  <2> DEFINE p == ArrayViews!Between(Begin + from, Begin + to)
             list == [k \in 1..(to - from) |-> from + k]
  <2>1. IsPart(p)
    BY <1>2, ObjectsAssumption DEF IsPart, ArrayViews!Between
  <2>2. ArrayViews!Elements(p) = list
    <3>1. /\ Begin + from \in Int /\ Begin + to \in Int /\ (Begin + to) - (Begin + from) = to - from
          /\ \A k \in 1..(to - from) : (Begin + from) + k - Begin = from + k
      BY ObjectsAssumption
    <3>2. ArrayViews!Elements(p) = [k \in 1..((Begin + to) - (Begin + from)) |-> (Begin + from) + k - Begin]
      BY <3>1, ShownBetween
    <3> HIDE DEF p
    <3> QED
      BY <3>1, <3>2
  <2>3. ArrayViews!FromPointer(Begin + from, to - from) = p
    BY ObjectsAssumption DEF ArrayViews!FromPointer
  <2>4. from = to => ArrayViews!FromIterators(from, to) = ArrayViews!Nothing /\ list = << >>
    BY DEF ArrayViews!FromIterators
  <2>5. from # to => ArrayViews!FromIterators(from, to) = p
    BY DEF ArrayViews!FromIterators
  <2> HIDE DEF p, list
  <2>6. CASE ArrayViews!Set(v, p, list)
    BY <2>1, <2>2, <2>6, SetStep
  <2>7. CASE ArrayViews!Set(v, ArrayViews!Nothing, << >>)
    BY <1>1, <2>7
  <2> QED
    BY <1>2, <2>3, <2>4, <2>5, <2>6, <2>7, Zenon DEF list
<1> QED
  BY <1>1, <1>2, Zenon DEF ArrayViews!Make

LEMMA PartStep ==
  ASSUME ViewsInv, NEW v \in Var, NEW w \in Var, ArrayViews!Part(v, w)
  PROVE  ViewsInv'
<1> DEFINE x == views[w]
           n == ArrayViews!size(x)
           b == x.mpBegin
           l == shown[w]
           sub(from, to) == ArrayViews!Between(b + from, b + to)
<1>1. IsPart(x) /\ l = ArrayViews!Elements(x)
  BY DEF ViewsInv
<1>2. b \in Nat /\ x.mpEnd \in Nat /\ n \in 0..Size /\ b + n = x.mpEnd
  BY <1>1, SizeOfPart
<1>3. Len(l) = n
  <2>1. l = [k \in 1..n |-> b + k - Begin]
    BY <1>1, ShownPart
  <2> HIDE DEF n, b
  <2> QED
    BY <1>2, <2>1
<1> HIDE DEF x, n, l
<1>4. ASSUME NEW from \in Nat, NEW to \in Nat, from <= to, to <= n,
             ArrayViews!Set(v, sub(from, to), ArrayViews!Slice(l, from + 1, to))
      PROVE  ViewsInv'
  <2>1. IsPart(sub(from, to)) /\ ArrayViews!Elements(sub(from, to)) = ArrayViews!Slice(l, from + 1, to)
    BY <1>1, <1>4, SliceIsPart DEF n
  <2> HIDE DEF sub
  <2> QED
    BY <1>4, <2>1, SetStep
<1> HIDE DEF b
<1>5. ASSUME NEW count_ \in ArrayViews!Sizes, count_ <= n,
             \/ ArrayViews!Set(v, ArrayViews!first(x, count_), ArrayViews!Slice(l, 1, count_))
             \/ ArrayViews!Set(v, ArrayViews!skip(x, count_), ArrayViews!Slice(l, count_ + 1, Len(l)))
             \/ ArrayViews!Set(v, ArrayViews!last(x, count_), ArrayViews!Slice(l, Len(l) - count_ + 1, Len(l)))
             \/ ArrayViews!Set(v, ArrayViews!shrink(x, count_), ArrayViews!Slice(l, 1, Len(l) - count_))
      PROVE  ViewsInv'
  <2>1. count_ \in Nat /\ n - count_ \in Nat
    BY <1>2, <1>5, ObjectsAssumption DEF ArrayViews!Sizes
  <2>2. /\ ArrayViews!first(x, count_) = sub(0, count_)
        /\ ArrayViews!skip(x, count_) = sub(count_, n)
        /\ ArrayViews!last(x, count_) = sub(n - count_, n)
        /\ ArrayViews!shrink(x, count_) = sub(0, n - count_)
    <3>1. b + 0 = b /\ b + n = x.mpEnd /\ b + (n - count_) = x.mpEnd - count_
      BY <1>2, <2>1
    <3> QED
      BY <3>1, Zenon DEF ArrayViews!first, ArrayViews!skip, ArrayViews!last, ArrayViews!shrink, b, n
  <2> HIDE DEF sub
  <2>3. 0 \in Nat /\ 0 + 1 = 1 /\ n \in Nat /\ 0 <= count_ /\ n - count_ <= n /\ 0 <= n - count_ /\ n <= n
    BY <1>2, <2>1
  <2>4. CASE ArrayViews!Set(v, sub(0, count_), ArrayViews!Slice(l, 0 + 1, count_))
    BY <1>4, <1>5, <2>1, <2>3, <2>4
  <2>5. CASE ArrayViews!Set(v, sub(count_, n), ArrayViews!Slice(l, count_ + 1, n))
    BY <1>4, <1>5, <2>1, <2>3, <2>5
  <2>6. CASE ArrayViews!Set(v, sub(n - count_, n), ArrayViews!Slice(l, (n - count_) + 1, n))
    BY <1>4, <1>5, <2>1, <2>3, <2>6
  <2>7. CASE ArrayViews!Set(v, sub(0, n - count_), ArrayViews!Slice(l, 0 + 1, n - count_))
    BY <1>4, <1>5, <2>1, <2>3, <2>7
  <2> QED
    BY <1>3, <1>5, <2>2, <2>3, <2>4, <2>5, <2>6, <2>7, Zenon
<1>6. ASSUME NEW start \in ArrayViews!Sizes, NEW count_ \in ArrayViews!Sizes, ArrayViews!SubviewAllowed(x, start, count_),
             ArrayViews!Set(v, ArrayViews!subview(x, start, count_), ArrayViews!Slice(l, start + 1, start + count_))
      PROVE  ViewsInv'
  <2>1. start \in Nat /\ count_ \in Nat /\ start <= n /\ count_ <= n /\ (start + count_) % SizeMod <= n
    BY <1>6, ObjectsAssumption DEF ArrayViews!Sizes, ArrayViews!SubviewAllowed, n
  <2>2. start + count_ \in 0..(SizeMod - 1)
    BY <1>2, <2>1, ObjectsAssumption
  <2>3. (start + count_) % SizeMod = start + count_
    BY <2>2, ObjectsAssumption
  <2>4. start + count_ \in Nat /\ start <= start + count_ /\ start + count_ <= n
    BY <2>1, <2>3
  <2>5. ArrayViews!subview(x, start, count_) = sub(start, start + count_)
    BY <1>2, <2>1 DEF ArrayViews!subview, b
  <2> HIDE DEF sub
  <2> QED
    BY <1>4, <1>6, <2>1, <2>4, <2>5
<1> QED
  BY <1>5, <1>6, Zenon DEF ArrayViews!Part, x, n, l

LEMMA ViewsStep == ViewsInv /\ [ObjectsNext]_allVars => ViewsInv'
<1> SUFFICES ASSUME ViewsInv, [ObjectsNext]_allVars PROVE ViewsInv'
  OBVIOUS
\* the definitions that no step changes
<1>a. \A v : /\ IsPart(v)' <=> IsPart(v)
             /\ ArrayViews!Elements(v)' = ArrayViews!Elements(v)
  BY DEF IsPart, ArrayViews!Elements, ArrayViews!size, ArrayViews!At, ArrayViews!Nothing,
     ArrayViews!Between, ArrayViews!null
<1>1. ASSUME NEW v \in Var, NEW w \in Var, ArrayViews!Copy(v, w) PROVE ViewsInv'
  <2>1. /\ IsPart(views[w]) /\ ArrayViews!Set(v, views[w], ArrayViews!Elements(views[w]))
    BY <1>1 DEF ViewsInv, ArrayViews!Copy
  <2> QED
    BY <2>1, SetStep
<1>2. ASSUME NEW v \in Var, NEW w \in Var, ArrayViews!Move(v, w) PROVE ViewsInv'
  <2>1. /\ views' = [views EXCEPT ![v] = views[w], ![w] = ArrayViews!Nothing]
        /\ shown' = [shown EXCEPT ![v] = shown[w], ![w] = << >>]
    BY <1>2 DEF ArrayViews!Move
  <2>2. ASSUME NEW u \in Var PROVE IsPart(views'[u]) /\ shown'[u] = ArrayViews!Elements(views'[u])
    BY <2>1, NothingIsPart DEF ViewsInv, NothingShown
  <2> QED
    BY <1>a, <2>1, <2>2 DEF ViewsInv
<1>3. ASSUME NEW v \in Var, NEW w \in Var, ArrayViews!swap(v, w) PROVE ViewsInv'
  <2>1. /\ views' = [views EXCEPT ![v] = views[w], ![w] = views[v]]
        /\ shown' = [shown EXCEPT ![v] = shown[w], ![w] = shown[v]]
    BY <1>3 DEF ArrayViews!swap
  <2>2. ASSUME NEW u \in Var PROVE IsPart(views'[u]) /\ shown'[u] = ArrayViews!Elements(views'[u])
    BY <2>1 DEF ViewsInv
  <2> QED
    BY <1>a, <2>1, <2>2 DEF ViewsInv
<1>4. CASE views' = views /\ shown' = shown
  BY <1>4, <1>a DEF ViewsInv
<1>5. ASSUME ArrayViews!Next PROVE ViewsInv'
  <2>1. ASSUME NEW v \in Var, NEW w \in Var,
               \/ ArrayViews!Make(v) \/ ArrayViews!Part(v, w) \/ ArrayViews!Copy(v, w)
               \/ ArrayViews!Move(v, w) \/ ArrayViews!swap(v, w)
        PROVE  ViewsInv'
    BY <1>1, <1>2, <1>3, <2>1, MakeStep, PartStep
  <2>2. \/ views' = views /\ shown' = shown
        \/ \E v, w \in Var : \/ ArrayViews!Make(v) \/ ArrayViews!Part(v, w) \/ ArrayViews!Copy(v, w)
                             \/ ArrayViews!Move(v, w) \/ ArrayViews!swap(v, w)
    BY <1>5, Zenon DEF ArrayViews!Next, ArrayViews!Call, ArrayViews!CopyRange, ArrayViews!Fill,
       ArrayViews!CopyElement, ArrayViews!CopyNth, ArrayViews!CopyReturn
  <2> QED
    BY <1>4, <2>1, <2>2
<1>6. ArrayViews!Next \/ (views' = views /\ shown' = shown)
  BY Zenon DEF ObjectsNext, allVars, FunctionNext, StorageNext, DelegateNext, ValueNext, ScopeNext,
     RingNext,
       AudioNext, ViewNext, viewVars
<1> QED
  BY <1>4, <1>5, <1>6

LEMMA InitialViews == ObjectsInit => ViewsInv
<1> SUFFICES ASSUME ObjectsInit PROVE ViewsInv
  OBVIOUS
<1>1. views = [v \in Var |-> ArrayViews!Nothing] /\ shown = [v \in Var |-> << >>]
  BY DEF ObjectsInit, ArrayViews!Init
<1> QED
  BY <1>1, NothingIsPart DEF ViewsInv, NothingShown

\* The test "array_view-subset": each view is from..to of 1, 2, 3, 4.
LEMMA SubsetTestsHold ==
  \A t \in ArrayViews!subsetTests : ArrayViews!Elements(t[1]) = [k \in 1..(t[3] - t[2] + 1) |-> t[2] + k - 1]
<1> DEFINE range(from, to) == <<ArrayViews!Between(Begin + (from - 1), Begin + to), from, to>>
<1>1. ASSUME NEW from \in Int, NEW to \in Int
      PROVE  ArrayViews!Elements(range(from, to)[1]) =
               [k \in 1..(range(from, to)[3] - range(from, to)[2] + 1) |-> range(from, to)[2] + k - 1]
  <2>1. /\ Begin + (from - 1) \in Int /\ Begin + to \in Int
        /\ (Begin + to) - (Begin + (from - 1)) = to - from + 1
        /\ \A k \in 1..(to - from + 1) : (Begin + (from - 1)) + k - Begin = from + k - 1
    BY ObjectsAssumption
  <2>2. ArrayViews!Elements(ArrayViews!Between(Begin + (from - 1), Begin + to))
          = [k \in 1..((Begin + to) - (Begin + (from - 1))) |-> (Begin + (from - 1)) + k - Begin]
    BY <2>1, ShownBetween
  <2>3. ArrayViews!Elements(ArrayViews!Between(Begin + (from - 1), Begin + to))
          = [k \in 1..(to - from + 1) |-> from + k - 1]
    BY <2>1, <2>2
  <2> QED
    BY <2>3
<1>2. ASSUME NEW t \in ArrayViews!subsetTests
      PROVE  \E from, to \in Int : t = range(from, to)
  <2> DEFINE view == ArrayViews!FromPointer(Begin, 4)
  <2>1. /\ view.mpBegin = Begin /\ view.mpEnd = Begin + 4
        /\ view = ArrayViews!Between(Begin, Begin + 4) /\ ArrayViews!size(view) = 4
    BY ObjectsAssumption DEF ArrayViews!FromPointer, ArrayViews!Between, ArrayViews!size
  <2>2. ASSUME NEW a \in Int, NEW b \in Int
        PROVE  /\ ArrayViews!subview(view, a, b) = ArrayViews!Between(Begin + ((a + 1) - 1), Begin + (a + b))
               /\ ArrayViews!first(view, b) = ArrayViews!Between(Begin + (1 - 1), Begin + b)
               /\ ArrayViews!skip(view, b) = ArrayViews!Between(Begin + ((b + 1) - 1), Begin + 4)
               /\ ArrayViews!last(view, b) = ArrayViews!Between(Begin + ((5 - b) - 1), Begin + 4)
               /\ ArrayViews!shrink(view, b) = ArrayViews!Between(Begin + (1 - 1), Begin + (4 - b))
    <3>1. /\ Begin + ((a + 1) - 1) = Begin + a /\ Begin + (a + b) = Begin + a + b /\ Begin + (1 - 1) = Begin
          /\ Begin + ((b + 1) - 1) = Begin + b /\ Begin + ((5 - b) - 1) = Begin + (4 - b)
          /\ Begin + (4 - b) = (Begin + 4) - b
      BY ObjectsAssumption
    <3> HIDE DEF view
    <3> QED
      BY <2>1, <3>1, Zenon DEF ArrayViews!subview, ArrayViews!first, ArrayViews!skip,
         ArrayViews!last, ArrayViews!shrink
  <2>3. view = ArrayViews!Between(Begin + (1 - 1), Begin + 4)
    BY <2>1, ObjectsAssumption
  <2>4. t \in {<<view, 1, 4>>, <<ArrayViews!subview(view, 0, 4), 1, 4>>, <<ArrayViews!subview(view, 1, 3), 2, 4>>,
               <<ArrayViews!subview(view, 1, 2), 2, 3>>, <<ArrayViews!subview(view, 2, 2), 3, 4>>,
               <<ArrayViews!subview(view, 2, 0), 3, 2>>, <<ArrayViews!subview(view, 4, 0), 5, 4>>}
        \/ \E n \in {0, 1, 2, 4} : t \in {<<ArrayViews!first(view, n), 1, n>>, <<ArrayViews!skip(view, n), n + 1, 4>>,
                                          <<ArrayViews!last(view, n), 5 - n, 4>>, <<ArrayViews!shrink(view, n), 1, 4 - n>>}
    BY DEF ArrayViews!subsetTests
  <2> HIDE DEF view
  <2>5. ASSUME NEW a \in 0..4, NEW b \in 0..4, t = <<ArrayViews!subview(view, a, b), a + 1, a + b>>
        PROVE  \E from, to \in Int : t = range(from, to)
    <3>1. t = range(a + 1, a + b)
      BY <2>2, <2>5
    <3> QED
      BY <3>1
  <2>6. ASSUME NEW n \in {0, 1, 2, 4},
               t \in {<<ArrayViews!first(view, n), 1, n>>, <<ArrayViews!skip(view, n), n + 1, 4>>,
                      <<ArrayViews!last(view, n), 5 - n, 4>>, <<ArrayViews!shrink(view, n), 1, 4 - n>>}
        PROVE  \E from, to \in Int : t = range(from, to)
    <3>1. n \in Int /\ 0 \in Int
      BY <2>6
    <3>2. /\ <<ArrayViews!first(view, n), 1, n>> = range(1, n)
          /\ <<ArrayViews!skip(view, n), n + 1, 4>> = range(n + 1, 4)
          /\ <<ArrayViews!last(view, n), 5 - n, 4>> = range(5 - n, 4)
          /\ <<ArrayViews!shrink(view, n), 1, 4 - n>> = range(1, 4 - n)
      BY <2>2, <3>1, Zenon
    <3>3. t \in {range(1, n), range(n + 1, 4), range(5 - n, 4), range(1, 4 - n)}
      BY <2>6, <3>2, Zenon
    <3>4. 1 \in Int /\ n + 1 \in Int /\ 4 \in Int /\ 5 - n \in Int /\ 4 - n \in Int
      BY <3>1
    <3> HIDE DEF range
    <3> QED
      BY <3>1, <3>3, <3>4
  <2>7. CASE t = <<view, 1, 4>>
    BY <2>3, <2>7
  <2>8. /\ 0 + 1 = 1 /\ 0 + 4 = 4 /\ 1 + 1 = 2 /\ 1 + 3 = 4 /\ 1 + 2 = 3 /\ 2 + 1 = 3 /\ 2 + 2 = 4 /\ 2 + 0 = 2
        /\ 4 + 1 = 5 /\ 4 + 0 = 4 /\ \A k \in {0, 1, 2, 3, 4} : k \in 0..4
    OBVIOUS
  <2> HIDE DEF range
  <2>9. CASE \E a, b \in 0..4 : t = <<ArrayViews!subview(view, a, b), a + 1, a + b>>
    BY <2>5, <2>9
  <2> QED
    BY <2>4, <2>6, <2>7, <2>8, <2>9
<1> QED
  <2> TAKE t \in ArrayViews!subsetTests
  <2>1. PICK from \in Int, to \in Int : t = range(from, to)
    BY <1>2
  <2> HIDE DEF range
  <2> QED
    BY <1>1, <2>1

\* Views show the parts of the array that their calls ask for, and are ordered (Views).
THEOREM ViewsShowTheirParts == ObjectsSpec => []ShowsItsPart
<1>1. ASSUME ViewsInv, NEW v \in Var, NEW w \in Var
      PROVE  /\ Cardinality({i \in 1..3 : <<ArrayViews!Less(views[v], views[w]), ArrayViews!Less(views[w], views[v]),
                                           ArrayViews!Equals(views[v], views[w])>>[i]}) = 1
             /\ shown[v] # << >> => (ArrayViews!Equals(views[v], views[w]) <=> shown[v] = shown[w])
  <2> DEFINE a == views[v]
             b == views[w]
             less == ArrayViews!Less(a, b)
             more == ArrayViews!Less(b, a)
             same == ArrayViews!Equals(a, b)
             which == {i \in 1..3 : <<less, more, same>>[i]}
  <2>1. IsPart(a) /\ IsPart(b) /\ shown[v] = ArrayViews!Elements(a) /\ shown[w] = ArrayViews!Elements(b)
    BY <1>1 DEF ViewsInv
  <2>2. a.mpBegin \in Nat /\ a.mpEnd \in Nat /\ b.mpBegin \in Nat /\ b.mpEnd \in Nat
    BY <2>1, SizeOfPart
  <2>3. which = {1} \/ which = {2} \/ which = {3}
    <3>1. \/ less /\ ~more /\ ~same
          \/ ~less /\ more /\ ~same
          \/ ~less /\ ~more /\ same
      BY <2>2 DEF ArrayViews!Less, ArrayViews!Equals
    <3> HIDE DEF less, more, same
    <3>2. \A i : i \in which <=> (i = 1 /\ less) \/ (i = 2 /\ more) \/ (i = 3 /\ same)
      OBVIOUS
    <3> HIDE DEF which
    <3> QED
      BY <3>1, <3>2
  <2>4. Cardinality(which) = 1
    BY <2>3, FS_Singleton
  <2>5. shown[v] # << >> => (same <=> shown[v] = shown[w])
    <3>1. /\ shown[v] = [k \in 1..ArrayViews!size(a) |-> a.mpBegin + k - Begin]
          /\ shown[w] = [k \in 1..ArrayViews!size(b) |-> b.mpBegin + k - Begin]
      BY <2>1, ShownPart
    <3>2. ArrayViews!size(a) \in Nat /\ ArrayViews!size(b) \in Nat
      BY <2>1, SizeOfPart
    <3>3. a.mpBegin + ArrayViews!size(a) = a.mpEnd /\ b.mpBegin + ArrayViews!size(b) = b.mpEnd
      BY <2>1, SizeOfPart
    <3>4. same <=> a.mpBegin = b.mpBegin /\ a.mpEnd = b.mpEnd
      BY DEF ArrayViews!Equals
    <3> HIDE DEF a, b, same
    <3>5. ASSUME same PROVE shown[v] = shown[w]
      <4>1. ArrayViews!size(a) = ArrayViews!size(b)
        BY <2>2, <3>2, <3>3, <3>4, <3>5
      <4> QED
        BY <3>1, <3>4, <3>5, <4>1
    <3>6. ASSUME shown[v] # << >>, shown[v] = shown[w] PROVE same
      <4>1. ArrayViews!size(a) # 0
        BY <3>1, <3>6
      <4>2. 1..ArrayViews!size(a) = 1..ArrayViews!size(b)
        BY <3>1, <3>6
      <4>3. ArrayViews!size(a) = ArrayViews!size(b)
        BY <3>2, <4>1, <4>2
      <4>4. 1 \in 1..ArrayViews!size(a) /\ 1 \in 1..ArrayViews!size(b)
        BY <3>2, <4>1, <4>3
      <4>5. a.mpBegin + 1 - Begin = b.mpBegin + 1 - Begin
        BY <3>1, <3>6, <4>4
      <4> QED
        BY <2>2, <3>3, <3>4, <4>3, <4>5, ObjectsAssumption
    <3> QED
      BY <3>5, <3>6
  <2> QED
    BY <2>4, <2>5
<1>2. ViewsInv => ShowsItsPart
  <2> SUFFICES ASSUME ViewsInv PROVE ArrayViews!ShowsItsPart /\ ArrayViews!OrdersViews
    BY DEF ShowsItsPart
  <2>1. ArrayViews!ShowsItsPart
    BY SubsetTestsHold DEF ViewsInv, ArrayViews!ShowsItsPart
  <2>2. \A S : ArrayViews!Cardinality(S) = Cardinality(S)
    BY Zenon DEF ArrayViews!Cardinality, Cardinality
  <2>3. ArrayViews!OrdersViews
    BY <1>1, <2>2, Zenon DEF ArrayViews!OrdersViews
  <2> QED
    BY <2>1, <2>3
<1> QED
  BY <1>2, InitialViews, ViewsStep, PTL DEF ObjectsSpec, allVars

-----------------------------------------------------------------------------
(* copy().  While its loop runs, the elements before the one it has come to  *)
(* are copied, and no others are changed.                                    *)

CopiedSoFar(in, out, done, before, after) ==
  /\ ~ArrayViews!Overtakes(in, out) =>
       \A k \in 0..(done - 1) :
         after[ArrayViews!At(out.mpBegin + k)] = before[ArrayViews!At(in.mpBegin + k)]
  /\ \A i \in 1..Size :
       (\A k \in 0..(done - 1) : i # ArrayViews!At(out.mpBegin + k)) => after[i] = before[i]

CopyInv ==
  /\ DOMAIN data = 1..Size
  /\ loop = [running |-> loop.running, in |-> loop.in, out |-> loop.out, done |-> loop.done,
             before |-> loop.before]
  /\ loop.running =>
       /\ IsPart(loop.in) /\ IsPart(loop.out) /\ ArrayViews!size(loop.in) <= ArrayViews!size(loop.out)
       /\ loop.done \in 0..ArrayViews!size(loop.in)
       /\ CopiedSoFar(loop.in, loop.out, loop.done, loop.before, data)

LEMMA PartInArray ==
  ASSUME NEW v, IsPart(v), NEW k \in Nat, k < ArrayViews!size(v)
  PROVE  /\ ArrayViews!At(v.mpBegin + k) = v.mpBegin + k - Begin + 1
         /\ ArrayViews!At(v.mpBegin + k) \in 1..Size
<1>1. v.mpBegin \in Nat /\ v.mpEnd \in Nat /\ v.mpBegin + ArrayViews!size(v) = v.mpEnd
      /\ ArrayViews!size(v) \in 0..Size
  BY SizeOfPart
<1>2. v # ArrayViews!Nothing
  <2>1. ArrayViews!size(ArrayViews!Nothing) = 0
    BY DEF ArrayViews!size, ArrayViews!Nothing, ArrayViews!Between, ArrayViews!null
  <2> QED
    BY <1>1, <2>1
<1>3. Begin <= v.mpBegin /\ v.mpEnd <= Begin + Size
  BY <1>2 DEF IsPart
<1> QED
  BY <1>1, <1>3, ObjectsAssumption DEF ArrayViews!At

\* One more element is copied: it is not yet overwritten, unless the target overtakes the source.
LEMMA CopiedNext ==
  ASSUME NEW in, NEW out, IsPart(in), IsPart(out), ArrayViews!size(in) <= ArrayViews!size(out),
         NEW done \in Nat, done < ArrayViews!size(in), NEW before,
         NEW now, DOMAIN now = 1..Size, CopiedSoFar(in, out, done, before, now)
  PROVE  CopiedSoFar(in, out, done + 1, before,
                     [now EXCEPT ![ArrayViews!At(out.mpBegin + done)]
                                   = now[ArrayViews!At(in.mpBegin + done)]])
<1> DEFINE a == in.mpBegin
           b == out.mpBegin
           From(k) == ArrayViews!At(a + k)
           To(k)   == ArrayViews!At(b + k)
           after == [now EXCEPT ![To(done)] = now[From(done)]]
<1>1. a \in Nat /\ b \in Nat /\ a + ArrayViews!size(in) = in.mpEnd /\ ArrayViews!size(in) \in Nat
      /\ ArrayViews!size(out) \in Nat
  BY SizeOfPart
<1>2. ASSUME NEW k \in 0..done
      PROVE  /\ From(k) = a + k - Begin + 1 /\ From(k) \in 1..Size
             /\ To(k) = b + k - Begin + 1 /\ To(k) \in 1..Size
  <2>1. k \in Nat /\ k < ArrayViews!size(in) /\ k < ArrayViews!size(out)
    BY <1>1
  <2> QED
    BY <2>1, PartInArray
<1>3. done \in 0..done /\ Begin \in Int
  BY ObjectsAssumption
<1>4. \A i \in 1..Size : i # To(done) => after[i] = now[i]
  OBVIOUS
<1>5. after[To(done)] = now[From(done)]
  BY <1>2, <1>3
<1>9. a \in Int /\ b \in Int /\ done \in Int
  BY <1>1
<1> HIDE DEF From, To, after, a, b
<1>6. ASSUME ~ArrayViews!Overtakes(in, out), NEW k \in 0..done
      PROVE  after[To(k)] = before[From(k)]
  <2>1. \A j \in 0..(done - 1) : now[To(j)] = before[From(j)]
    BY <1>6 DEF CopiedSoFar, From, To, a, b
  <2>2. CASE k = done
    <3>1. ASSUME NEW j \in 0..(done - 1) PROVE From(done) # To(j)
      <4>1. j \in 0..done
        OBVIOUS
      <4>2. SUFFICES ASSUME From(done) = To(j) PROVE FALSE
        OBVIOUS
      <4>3. From(done) = a + done - Begin + 1 /\ To(j) = b + j - Begin + 1
        BY <1>2, <1>3, <4>1
      <4>4. j \in Int /\ b = a + (done - j)
        <5>1. a + done - Begin + 1 = b + j - Begin + 1
          BY <4>2, <4>3
        <5> QED
          BY <1>3, <1>9, <5>1
      <4>5. a < b /\ b < in.mpEnd
        <5> DEFINE n == ArrayViews!size(in)
        <5>1. n \in Nat /\ a + n = in.mpEnd /\ done < n
          BY <1>1 DEF a
        <5> HIDE DEF n
        <5> QED
          BY <1>9, <4>1, <4>4, <5>1
      <4> QED
        BY <1>6, <4>5 DEF ArrayViews!Overtakes, a, b
    <3>2. now[From(done)] = before[From(done)]
      <4>1. From(done) \in 1..Size
        BY <1>2, <1>3
      <4> QED
        BY <3>1, <4>1 DEF CopiedSoFar, To, b
    <3> QED
      BY <1>5, <2>2, <3>2
  <2>3. CASE k # done
    <3>1. k \in 0..(done - 1)
      BY <2>3
    <3>2. To(k) # To(done) /\ To(k) \in 1..Size
      <4>1. To(k) = b + k - Begin + 1 /\ To(done) = b + done - Begin + 1 /\ To(k) \in 1..Size
        BY <1>2, <1>3
      <4> QED
        BY <1>3, <1>9, <2>3, <4>1
    <3> QED
      BY <1>4, <2>1, <3>1, <3>2
  <2> QED
    BY <2>2, <2>3
<1>7. ASSUME NEW i \in 1..Size, \A k \in 0..done : i # To(k)
      PROVE  after[i] = before[i]
  <2>1. i # To(done) /\ \A k \in 0..(done - 1) : i # To(k)
    BY <1>3, <1>7
  <2>2. now[i] = before[i]
    BY <2>1 DEF CopiedSoFar, To, b
  <2> QED
    BY <1>4, <2>1, <2>2
<1>8. (done + 1) - 1 = done
  OBVIOUS
<1> QED
  BY <1>6, <1>7, <1>8 DEF CopiedSoFar, From, To, after, a, b

LEMMA CopyElementStep == CopyInv /\ ArrayViews!CopyElement => CopyInv'
<1> SUFFICES ASSUME CopyInv, ArrayViews!CopyElement PROVE CopyInv'
  OBVIOUS
<1> DEFINE in  == loop.in
           out == loop.out
           done == loop.done
           to == ArrayViews!At(out.mpBegin + done)
           after == [data EXCEPT ![to] = data[ArrayViews!At(in.mpBegin + done)]]
<1>1. loop.running /\ done < ArrayViews!size(in) /\ data' = after /\ loop' = [loop EXCEPT !.done = done + 1]
  BY Zenon DEF ArrayViews!CopyElement, ArrayViews!CopyNth
<1>2. /\ DOMAIN data = 1..Size
      /\ IsPart(in) /\ IsPart(out) /\ ArrayViews!size(in) <= ArrayViews!size(out)
      /\ done \in 0..ArrayViews!size(in)
      /\ CopiedSoFar(in, out, done, loop.before, data)
  BY <1>1 DEF CopyInv
<1>3. /\ ArrayViews!size(in) \in Nat
  BY <1>2, SizeOfPart
<1>4. done \in Nat /\ done + 1 \in 0..ArrayViews!size(in)
  BY <1>1, <1>2, <1>3
<1>5. CopiedSoFar(in, out, done + 1, loop.before, after)
  BY <1>1, <1>2, <1>4, CopiedNext
<1>6. DOMAIN after = 1..Size
  BY <1>2
<1>7. loop' = [running |-> loop.running, in |-> in, out |-> out, done |-> done + 1, before |-> loop.before]
  BY <1>1 DEF CopyInv
<1>8. /\ loop'.running = loop.running /\ loop'.in = in /\ loop'.out = out /\ loop'.done = done + 1
      /\ loop'.before = loop.before
  BY <1>7
<1> HIDE DEF after, in, out, done
<1> QED
  BY <1>1, <1>2, <1>4, <1>5, <1>6, <1>7, <1>8 DEF CopyInv

LEMMA RangeCopyStep == ViewsInv /\ CopyInv /\ [ObjectsNext]_allVars => CopyInv'
<1> SUFFICES ASSUME ViewsInv, CopyInv, [ObjectsNext]_allVars PROVE CopyInv'
  OBVIOUS
<1>1. CASE data' = data /\ loop' = loop
  BY <1>1 DEF CopyInv
<1>2. ASSUME NEW in \in Var, NEW out \in Var, ArrayViews!CopyRange(in, out) PROVE CopyInv'
  <2>1. /\ ArrayViews!size(views[in]) <= ArrayViews!size(views[out]) /\ data' = data
        /\ loop' = [running |-> TRUE, in |-> views[in], out |-> views[out], done |-> 0, before |-> data]
    BY <1>2, SizeOfPart DEF ArrayViews!CopyRange, ViewsInv
  <2>2. /\ IsPart(views[in]) /\ IsPart(views[out])
        /\ 0 \in 0..ArrayViews!size(views[in])
    BY SizeOfPart DEF ViewsInv
  <2>3. CopiedSoFar(views[in], views[out], 0, data, data)
    BY DEF CopiedSoFar
  <2>4. DOMAIN data = 1..Size
    BY DEF CopyInv
  <2> QED
    BY <2>1, <2>2, <2>3, <2>4 DEF CopyInv
<1>3. ASSUME NEW out \in Var, ~loop.running, ArrayViews!Fill(out, 0) PROVE CopyInv'
  <2>1. DOMAIN data' = 1..Size /\ loop' = loop
    BY <1>3 DEF ArrayViews!Fill, ArrayViews!Indices
  <2> QED
    BY <1>3, <2>1 DEF CopyInv
<1>4. ASSUME ArrayViews!CopyReturn PROVE CopyInv'
  <2>1. data' = data /\ loop' = ArrayViews!NoLoop
    BY <1>4 DEF ArrayViews!CopyReturn
  <2> QED
    BY <2>1 DEF CopyInv, ArrayViews!NoLoop
<1>5. ASSUME NEW v \in Var, NEW w \in Var,
             \/ ArrayViews!Make(v) \/ ArrayViews!Part(v, w) \/ ArrayViews!Copy(v, w)
             \/ ArrayViews!Move(v, w) \/ ArrayViews!swap(v, w)
      PROVE  CopyInv'
  <2>1. data' = data /\ loop' = loop
    BY <1>5, Zenon DEF ArrayViews!Make, ArrayViews!Part, ArrayViews!Copy, ArrayViews!Move,
       ArrayViews!swap, ArrayViews!Set
  <2> QED
    BY <1>1, <2>1
<1>6. ASSUME ArrayViews!Next PROVE CopyInv'
  <2>1. CASE \E v, w \in Var : ~loop.running /\ ArrayViews!Call(v, w)
    <3>1. PICK v \in Var, w \in Var : ~loop.running /\ ArrayViews!Call(v, w)
      BY <2>1
    <3> QED
      BY <1>2, <1>3, <1>5, <3>1, Zenon DEF ArrayViews!Call
  <2>2. CASE ArrayViews!CopyElement
    BY <2>2, CopyElementStep
  <2> QED
    BY <1>4, <1>6, <2>1, <2>2, Zenon DEF ArrayViews!Next
<1>7. ArrayViews!Next \/ (data' = data /\ loop' = loop)
  BY Zenon DEF ObjectsNext, allVars, FunctionNext, StorageNext, DelegateNext, ValueNext, ScopeNext,
     RingNext, AudioNext, ViewNext, viewVars
<1> QED
  BY <1>1, <1>6, <1>7

\* Views: for every array, copy() leaves the target with the elements the source had, and
\* the rest of the array as it was, unless the target begins within the source.
THEOREM RangesAreCopied == ObjectsSpec => []CopiesRange
<1>1. ObjectsInit => CopyInv
  <2> SUFFICES ASSUME ObjectsInit PROVE CopyInv
    OBVIOUS
  <2>1. data = [i \in 1..Size |-> i] /\ loop = ArrayViews!NoLoop
    BY Zenon DEF ObjectsInit, ArrayViews!Init, ArrayViews!Indices
  <2> QED
    BY <2>1 DEF CopyInv, ArrayViews!NoLoop
<1>2. CopyInv => CopiesRange
  BY Zenon DEF CopyInv, CopiedSoFar, CopiesRange, ArrayViews!CopiesRange, ArrayViews!Indices
<1> QED
  BY <1>1, <1>2, RangeCopyStep, InitialViews, ViewsStep, PTL DEF ObjectsSpec, allVars

-----------------------------------------------------------------------------
(* Delegates.  What a delegate was bound to tells what it holds: an          *)
(* interposer, a thunk, or the code that the object's dynamic type had when  *)
(* it was bound.                                                             *)

\* the type whose code is held, if the method was looked up when it was bound
LookedUp(windows, large, b, d, whole) ==
  \E type \in {"Base", whole} :
    /\ d = Delegates(windows, large)!bindMemFnFast(type, b.object, type, b.m)
    /\ b.whole => type = whole

HoldsBound(windows, large, h) ==
  LET b == bound[h]
      d == delegate[h]
  IN /\ b.how = "function" => d = Delegates(windows, large)!FreeFunction
     /\ b.how = "invocable" => d = Delegates(windows, large)!Invocable(b.object)
     /\ b.how = "safe" => d = Delegates(windows, large)!bindMemFnSafe(b.object, b.m)
     /\ b.how = "fast" => IF windows /\ h \in large THEN d = Delegates(windows, large)!bindMemFnSafe(b.object, b.m)
                          ELSE LookedUp(windows, large, b, d, class[b.object])
     /\ b.how \in {"fast", "safe", "invocable"} => b.object \in Object /\ stage[b.object] # "dead"

DelegateInv(windows, large) ==
  /\ DOMAIN class = Object /\ DOMAIN stage = Object /\ DOMAIN delegate = Var /\ DOMAIN bound = Var
  /\ \A h \in Var : HoldsBound(windows, large, h)

\* what h holds stays what it was bound to if its object lives on
LEMMA StaysBound ==
  ASSUME NEW windows \in BOOLEAN, NEW large, NEW h, NEW g, HoldsBound(windows, large, g),
         (h \in large) <=> (g \in large), bound'[h] = bound[g], delegate'[h] = delegate[g],
         bound[g].how \in {"fast", "safe", "invocable"} =>
           stage'[bound[g].object] # "dead" /\ class'[bound[g].object] = class[bound[g].object]
  PROVE  HoldsBound(windows, large, h)'
  BY Zenon DEF HoldsBound, LookedUp, Delegates!bindMemFnFast, Delegates!bindMemFnSafe,
     Delegates!FreeFunction,
     Delegates!Invocable, Delegates!Holds, Delegates!Pointer, Delegates!Offset, Delegates!isVirtual,
     Delegates!Dispatch, Delegates!Code, Delegates!Member, Delegates!Direct

LEMMA MovesBound ==
  ASSUME NEW windows \in BOOLEAN, NEW large, DelegateInv(windows, large),
         NEW h \in Var, NEW g \in Var, (h \in large) <=> (g \in large), bound'[h] = bound[g], delegate'[h] = delegate[g],
         class' = class, stage' = stage
  PROVE  HoldsBound(windows, large, h)'
<1>1. HoldsBound(windows, large, g)
  BY DEF DelegateInv
<1>2. bound[g].how \in {"fast", "safe", "invocable"} => stage[bound[g].object] # "dead"
  BY <1>1 DEF HoldsBound
<1> QED
  BY <1>1, <1>2, StaysBound

\* a new binding of h: the others stay
LEMMA SetBinds ==
  ASSUME NEW windows \in BOOLEAN, NEW large, DelegateInv(windows, large), NEW h \in Var, NEW d, NEW b,
         delegate' = [delegate EXCEPT ![h] = d], bound' = [bound EXCEPT ![h] = b],
         class' = class, stage' = stage, HoldsBound(windows, large, h)'
  PROVE  DelegateInv(windows, large)'
<1>1. ASSUME NEW g \in Var PROVE HoldsBound(windows, large, g)'
  <2>1. CASE g = h
    BY <2>1
  <2>2. CASE g # h
    <3>1. bound'[g] = bound[g] /\ delegate'[g] = delegate[g]
      BY <2>2 DEF DelegateInv
    <3> QED
      BY <3>1, MovesBound
  <2> QED
    BY <2>1, <2>2
<1>2. (DOMAIN class = Object /\ DOMAIN stage = Object /\ DOMAIN delegate = Var /\ DOMAIN bound = Var)'
  BY DEF DelegateInv
<1> QED
  BY <1>1, <1>2 DEF DelegateInv

LEMMA BindHolds ==
  ASSUME NEW windows \in BOOLEAN, NEW large, DelegateInv(windows, large), NEW h \in Var, NEW o \in Object,
         NEW from, NEW m, Delegates(windows, large)!BindMember(h, o, from, m)
  PROVE  DelegateInv(windows, large)'
<1> DEFINE type == Delegates(windows, large)!dynamic[o]
           binding(how) == [how |-> how, object |-> o, m |-> m, whole |-> o \in Object /\ stage[o] = "whole"]
           fast == Delegates(windows, large)!bindMemFnFast(type, o, from, m)
           safe == Delegates(windows, large)!bindMemFnSafe(o, m)
<1>1. stage[o] # "dead" /\ class' = class /\ stage' = stage
  BY DEF Delegates!BindMember, Delegates!Set
<1>2. \/ ~(windows /\ h \in large) /\ delegate' = [delegate EXCEPT ![h] = fast]
                                   /\ bound' = [bound EXCEPT ![h] = binding("fast")]
      \/ (windows /\ h \in large) /\ delegate' = [delegate EXCEPT ![h] = safe]
                                  /\ bound' = [bound EXCEPT ![h] = binding("fast")]
      \/ delegate' = [delegate EXCEPT ![h] = safe] /\ bound' = [bound EXCEPT ![h] = binding("safe")]
  BY Zenon DEF Delegates!BindMember, Delegates!Set, Delegates!bind
<1>3. type \in {"Base", class[o]} /\ (stage[o] = "whole" => type = class[o])
  <2>1. type = IF stage[o] \in {"building", "dying"} THEN "Base" ELSE class[o]
    BY DEF Delegates!dynamic
  <2> QED
    BY <2>1
<1>4. fast = Delegates(windows, large)!bindMemFnFast(type, o, type, m)
  BY Zenon DEF Delegates!bindMemFnFast
<1>5. h \in DOMAIN delegate /\ h \in DOMAIN bound
  BY DEF DelegateInv
<1> HIDE DEF type, fast, safe
<1>6. CASE ~(windows /\ h \in large) /\ delegate' = [delegate EXCEPT ![h] = fast]
           /\ bound' = [bound EXCEPT ![h] = binding("fast")]
  <2>1. bound'[h] = binding("fast") /\ delegate'[h] = fast
    BY <1>5, <1>6, Zenon
  <2>2. /\ binding("fast").how = "fast" /\ binding("fast").object = o /\ binding("fast").m = m
        /\ binding("fast").whole = (o \in Object /\ stage[o] = "whole")
    BY Zenon
  <2>3. LookedUp(windows, large, binding("fast"), fast, class[o])
    BY <1>3, <1>4, <2>2, Zenon DEF LookedUp
  <2> HIDE DEF binding
  <2>4. HoldsBound(windows, large, h)'
    <3>1. LookedUp(windows, large, bound'[h], delegate'[h], class'[o])
      BY <1>1, <2>1, <2>3, Zenon
    <3>2. bound'[h].how = "fast" /\ bound'[h].object = o /\ stage'[o] # "dead"
      BY <1>1, <2>1, <2>2
    <3>3. /\ "fast" # "function" /\ "fast" # "invocable" /\ "fast" # "safe"
      OBVIOUS
    <3> QED
      BY <1>6, <3>1, <3>2, <3>3, Zenon DEF HoldsBound
  <2> QED
    BY <1>1, <1>6, <2>4, SetBinds
<1>7. ASSUME NEW how \in {"fast", "safe"}, how = "safe" \/ (windows /\ h \in large),
             delegate' = [delegate EXCEPT ![h] = safe], bound' = [bound EXCEPT ![h] = binding(how)]
      PROVE  DelegateInv(windows, large)'
  <2>1. bound'[h] = binding(how) /\ delegate'[h] = safe
    BY <1>5, <1>7, Zenon
  <2>2. binding(how).how = how /\ binding(how).object = o /\ binding(how).m = m
    BY Zenon
  <2> HIDE DEF binding
  <2>3. HoldsBound(windows, large, h)'
    <3>1. bound'[h].how = how /\ bound'[h].object = o /\ bound'[h].m = m /\ stage'[o] # "dead"
      BY <1>1, <2>1, <2>2
    <3>2. how # "function" /\ how # "invocable" /\ (how = "fast" => windows /\ h \in large)
      BY <1>7
    <3>3. delegate'[h] = Delegates(windows, large)!bindMemFnSafe(bound'[h].object, bound'[h].m)
      BY <2>1, <3>1, Zenon DEF safe
    <3> QED
      BY <3>1, <3>2, <3>3, Zenon DEF HoldsBound
  <2> QED
    BY <1>1, <1>7, <2>3, SetBinds
<1> QED
  BY <1>2, <1>6, <1>7

LEMMA OtherBindings ==
  ASSUME NEW windows \in BOOLEAN, NEW large, DelegateInv(windows, large), NEW h \in Var,
         \/ \E o \in Object : Delegates(windows, large)!BindInvocable(h, o)
         \/ Delegates(windows, large)!BindFunction(h)
         \/ Delegates(windows, large)!Reset(h)
  PROVE  DelegateInv(windows, large)'
<1>1. h \in DOMAIN delegate /\ h \in DOMAIN bound
  BY DEF DelegateInv
<1>2. ASSUME NEW o \in Object, Delegates(windows, large)!BindInvocable(h, o) PROVE DelegateInv(windows, large)'
  <2> DEFINE b == [how |-> "invocable", object |-> o, m |-> Delegates(windows, large)!Member("", ""),
                   whole |-> o \in Object /\ stage[o] = "whole"]
             d == Delegates(windows, large)!Invocable(o)
  <2>1. /\ class' = class /\ stage' = stage /\ stage[o] = "whole"
        /\ delegate' = [delegate EXCEPT ![h] = d] /\ bound' = [bound EXCEPT ![h] = b]
    BY <1>2, Zenon DEF Delegates!BindInvocable, Delegates!Set
  <2> HIDE DEF d
  <2>2. bound'[h] = b /\ delegate'[h] = d
    BY <1>1, <2>1, Zenon
  <2>3. b.how = "invocable" /\ b.object = o
    BY Zenon
  <2> HIDE DEF b
  <2>4. HoldsBound(windows, large, h)'
    <3>1. bound'[h].how = "invocable" /\ bound'[h].object = o /\ stage'[o] # "dead"
      BY <2>1, <2>2, <2>3
    <3>2. /\ "invocable" # "function" /\ "invocable" # "fast" /\ "invocable" # "safe"
      OBVIOUS
    <3> QED
      BY <2>2, <3>1, <3>2, Zenon DEF HoldsBound, d
  <2> QED
    BY <2>1, <2>4, SetBinds
<1>3. CASE Delegates(windows, large)!BindFunction(h)
  <2> DEFINE b == [how |-> "function", object |-> "null", m |-> Delegates(windows, large)!Member("", ""),
                   whole |-> "null" \in Object /\ stage["null"] = "whole"]
             d == Delegates(windows, large)!FreeFunction
  <2>1. /\ class' = class /\ stage' = stage
        /\ delegate' = [delegate EXCEPT ![h] = d] /\ bound' = [bound EXCEPT ![h] = b]
    BY <1>3, Zenon DEF Delegates!BindFunction, Delegates!Set
  <2> HIDE DEF d
  <2>2. bound'[h] = b /\ delegate'[h] = d
    BY <1>1, <2>1, Zenon
  <2>3. b.how = "function"
    BY Zenon
  <2> HIDE DEF b
  <2>4. HoldsBound(windows, large, h)'
    <3>1. bound'[h].how = "function"
      BY <2>2, <2>3
    <3>2. /\ "function" # "invocable" /\ "function" # "fast" /\ "function" # "safe"
      OBVIOUS
    <3> QED
      BY <2>2, <3>1, <3>2, Zenon DEF HoldsBound, d
  <2> QED
    BY <2>1, <2>4, SetBinds
<1>4. CASE Delegates(windows, large)!Reset(h)
  <2> DEFINE b == Delegates(windows, large)!NotBound
  <2>1. /\ class' = class /\ stage' = stage /\ bound' = [bound EXCEPT ![h] = b]
        /\ delegate' = [delegate EXCEPT ![h] = Delegates(windows, large)!Empty]
    BY <1>4, Zenon DEF Delegates!Reset
  <2>2. bound'[h] = b
    BY <1>1, <2>1, Zenon
  <2>3. b.how = "no"
    BY DEF Delegates!NotBound
  <2> HIDE DEF b
  <2>4. HoldsBound(windows, large, h)'
    <3>1. bound'[h].how = "no"
      BY <2>2, <2>3
    <3>2. /\ "no" # "invocable" /\ "no" # "fast" /\ "no" # "safe" /\ "no" # "function"
      OBVIOUS
    <3> QED
      BY <3>1, <3>2, Zenon DEF HoldsBound
  <2> QED
    BY <2>1, <2>4, SetBinds
<1> QED
  BY <1>2, <1>3, <1>4

\* objects come and go; what is bound to one that is no more is not bound
LEMMA ObjectsLive ==
  ASSUME NEW windows \in BOOLEAN, NEW large, DelegateInv(windows, large), NEW o \in Object,
         \/ \E c : Delegates(windows, large)!Construct(o, c)
         \/ Delegates(windows, large)!Proceed(o)
  PROVE  DelegateInv(windows, large)'
<1>1. CASE \E c : Delegates(windows, large)!Construct(o, c)
  <2>1. PICK c : Delegates(windows, large)!Construct(o, c)
    BY <1>1
  <2>2. /\ stage[o] = "dead" /\ class' = [class EXCEPT ![o] = c] /\ delegate' = delegate /\ bound' = bound
        /\ stage' = [stage EXCEPT ![o] = Delegates(windows, large)!NextStage(c)["dead"]]
    BY <2>1, Zenon DEF Delegates!Construct
  <2>3. ASSUME NEW h \in Var PROVE HoldsBound(windows, large, h)'
    <3>1. HoldsBound(windows, large, h)
      BY DEF DelegateInv
    <3>2. ASSUME bound[h].how \in {"fast", "safe", "invocable"}
          PROVE  stage'[bound[h].object] # "dead" /\ class'[bound[h].object] = class[bound[h].object]
      <4>1. bound[h].object \in Object /\ stage[bound[h].object] # "dead"
        BY <3>1, <3>2, Zenon DEF HoldsBound
      <4>2. bound[h].object # o
        BY <2>2, <4>1
      <4> QED
        BY <2>2, <4>1, <4>2 DEF DelegateInv
    <3> QED
      BY <2>2, <3>1, <3>2, StaysBound
  <2> QED
    BY <2>2, <2>3 DEF DelegateInv
<1>2. CASE Delegates(windows, large)!Proceed(o)
  <2>1. /\ stage[o] # "dead" /\ class' = class /\ delegate' = delegate
        /\ stage' = [stage EXCEPT ![o] = Delegates(windows, large)!NextStage(class[o])[stage[o]]]
        /\ bound' = [h \in Var |-> IF stage'[o] = "dead" /\ bound[h].object = o
                                   THEN Delegates(windows, large)!NotBound ELSE bound[h]]
    BY <1>2, Zenon DEF Delegates!Proceed
  <2>2. ASSUME NEW h \in Var PROVE HoldsBound(windows, large, h)'
    <3>1. HoldsBound(windows, large, h)
      BY DEF DelegateInv
    <3>2. CASE stage'[o] = "dead" /\ bound[h].object = o
      <4>1. bound'[h].how = "no"
        BY <2>1, <3>2 DEF Delegates!NotBound
      <4>2. /\ "no" # "invocable" /\ "no" # "fast" /\ "no" # "safe" /\ "no" # "function"
        OBVIOUS
      <4> QED
        BY <4>1, <4>2, Zenon DEF HoldsBound
    <3>3. CASE ~(stage'[o] = "dead" /\ bound[h].object = o)
      <4>1. bound'[h] = bound[h]
        BY <2>1, <3>3
      <4>2. ASSUME bound[h].how \in {"fast", "safe", "invocable"} PROVE stage'[bound[h].object] # "dead"
        <5>1. bound[h].object \in Object /\ stage[bound[h].object] # "dead"
          BY <3>1, <4>2, Zenon DEF HoldsBound
        <5> QED
          BY <2>1, <3>3, <5>1 DEF DelegateInv
      <4> QED
        BY <2>1, <3>1, <4>1, <4>2, StaysBound
    <3> QED
      BY <3>2, <3>3
  <2> QED
    BY <2>1, <2>2 DEF DelegateInv
<1> QED
  BY <1>1, <1>2

LEMMA HoldersExchange ==
  ASSUME NEW windows \in BOOLEAN, NEW large, DelegateInv(windows, large), NEW h \in Var, NEW g \in Var,
         Delegates(windows, large)!Assign(h, g) \/ Delegates(windows, large)!swap(h, g)
  PROVE  DelegateInv(windows, large)'
<1>1. CASE Delegates(windows, large)!Assign(h, g)
  <2>1. /\ (h \in large) = (g \in large) /\ class' = class /\ stage' = stage
        /\ delegate' = [delegate EXCEPT ![h] = delegate[g]] /\ bound' = [bound EXCEPT ![h] = bound[g]]
    BY <1>1, Zenon DEF Delegates!Assign
  <2>2. bound'[h] = bound[g] /\ delegate'[h] = delegate[g]
    BY <2>1 DEF DelegateInv
  <2>3. HoldsBound(windows, large, h)'
    BY <2>1, <2>2, MovesBound
  <2> QED
    BY <2>1, <2>3, SetBinds
<1>2. CASE Delegates(windows, large)!swap(h, g)
  <2>1. /\ (h \in large) = (g \in large) /\ class' = class /\ stage' = stage
        /\ delegate' = [delegate EXCEPT ![h] = delegate[g], ![g] = delegate[h]]
        /\ bound' = [bound EXCEPT ![h] = bound[g], ![g] = bound[h]]
    BY <1>2, Zenon DEF Delegates!swap
  <2>2. ASSUME NEW k \in Var
        PROVE  \E from \in Var : /\ (k \in large) <=> (from \in large)
                                 /\ bound'[k] = bound[from] /\ delegate'[k] = delegate[from]
    <3>1. CASE k = h
      BY <2>1, <3>1 DEF DelegateInv
    <3>2. CASE k = g
      BY <2>1, <3>2 DEF DelegateInv
    <3>3. CASE k # h /\ k # g
      BY <2>1, <3>3 DEF DelegateInv
    <3> QED
      BY <3>1, <3>2, <3>3
  <2>3. ASSUME NEW k \in Var PROVE HoldsBound(windows, large, k)'
    <3>1. PICK from \in Var : /\ (k \in large) <=> (from \in large)
                              /\ bound'[k] = bound[from] /\ delegate'[k] = delegate[from]
      BY <2>2
    <3> QED
      BY <2>1, <3>1, MovesBound
  <2> QED
    BY <2>1, <2>3 DEF DelegateInv
<1> QED
  BY <1>1, <1>2

LEMMA DelegateNextStep ==
  ASSUME NEW windows \in BOOLEAN, NEW large, DelegateInv(windows, large), Delegates(windows, large)!Next
  PROVE  DelegateInv(windows, large)'
<1>1. \/ \E o \in Object : \/ \E c : Delegates(windows, large)!Construct(o, c)
                           \/ Delegates(windows, large)!Proceed(o)
      \/ \E h \in Var : \/ \E o \in Object : Delegates(windows, large)!BindInvocable(h, o)
                        \/ Delegates(windows, large)!BindFunction(h)
                        \/ Delegates(windows, large)!Reset(h)
      \/ \E h \in Var, o \in Object : \E from, m : Delegates(windows, large)!BindMember(h, o, from, m)
      \/ \E h, g \in Var : Delegates(windows, large)!Assign(h, g) \/ Delegates(windows, large)!swap(h, g)
  BY ZenonT(30) DEF Delegates!Next
<1>2. ASSUME NEW h \in Var, NEW o \in Object, NEW from, NEW m, Delegates(windows, large)!BindMember(h, o, from, m)
      PROVE  DelegateInv(windows, large)'
  BY <1>2, BindHolds
<1> QED
  BY <1>1, <1>2, ObjectsLive, OtherBindings, HoldersExchange, Zenon

LEMMA DelegateStays ==
  ASSUME NEW windows \in BOOLEAN, NEW large, DelegateInv(windows, large),
         class' = class, stage' = stage, delegate' = delegate, bound' = bound
  PROVE  DelegateInv(windows, large)'
<1>1. ASSUME NEW h \in Var PROVE HoldsBound(windows, large, h)'
  BY MovesBound
<1> QED
  BY <1>1 DEF DelegateInv

LEMMA InitialDelegates ==
  ASSUME NEW windows \in BOOLEAN, NEW large, Delegates(windows, large)!Init
  PROVE  DelegateInv(windows, large)
<1>1. /\ class = [o \in Object |-> "Base"] /\ stage = [o \in Object |-> "dead"]
      /\ delegate = [h \in Var |-> Delegates(windows, large)!Empty]
      /\ bound = [h \in Var |-> Delegates(windows, large)!NotBound]
  BY DEF Delegates!Init
<1>2. ASSUME NEW h \in Var PROVE HoldsBound(windows, large, h)
  <2>1. bound[h] = Delegates(windows, large)!NotBound
    BY <1>1
  <2>2. Delegates(windows, large)!NotBound.how = "no"
    BY Zenon DEF Delegates!NotBound
  <2>3. bound[h].how = "no"
    BY <2>1, <2>2
  <2>4. /\ "no" # "invocable" /\ "no" # "fast" /\ "no" # "safe" /\ "no" # "function"
    OBVIOUS
  <2> QED
    BY <2>3, <2>4, Zenon DEF HoldsBound
<1> QED
  BY <1>1, <1>2 DEF DelegateInv

\* bindMemFnFast() looks the method up for the type that the object has then, a thunk for
\* the type that it has now
LEMMA FastRuns ==
  ASSUME NEW windows \in BOOLEAN, NEW large, NEW type, NEW now, NEW from, NEW m, NEW h, NEW o
  PROVE  Delegates(windows, large)!Runs(h, now, Delegates(windows, large)!bindMemFnFast(type, o, from, m))
           = [letter |-> IF Delegates(windows, large)!isVirtual(m) /\ windows
                         THEN Delegates(windows, large)!Direct(now, m)
                         ELSE Delegates(windows, large)!Direct(type, m),
              this |-> IF windows /\ h \in large THEN Delegates(windows, large)!Null
                       ELSE Delegates(windows, large)!Pointer(o, m.class)]
<1> DEFINE d == Delegates(windows, large)!bindMemFnFast(type, o, from, m)
           letter == Delegates(windows, large)!Direct(type, m)
           letterNow == Delegates(windows, large)!Direct(now, m)
           this == Delegates(windows, large)!Pointer(o, m.class)
           virtual == Delegates(windows, large)!isVirtual(m)
           thunk == Delegates(windows, large)!Dispatch("thunk", m)
           code == Delegates(windows, large)!Code(letter)
<1>0. /\ thunk.kind = "thunk" /\ thunk.m = m /\ code.kind = "code" /\ code.letter = letter
  BY Zenon DEF Delegates!Dispatch, Delegates!Code
<1> HIDE DEF letter, letterNow, this, virtual, thunk, code
<1>1. /\ d.mpObject = this
      /\ virtual /\ windows => d.mpTrampoline = thunk
      /\ ~(virtual /\ windows) => d.mpTrampoline = code
  BY Zenon DEF Delegates!bindMemFnFast, Delegates!Holds, letter, this, virtual, thunk, code
<1> HIDE DEF d
<1> DEFINE runs == [letter |-> IF virtual /\ windows THEN letterNow ELSE letter,
                    this |-> IF windows /\ h \in large THEN Delegates(windows, large)!Null ELSE this]
<1>2. CASE virtual /\ windows
  <2>1. d.mpTrampoline.kind = "thunk" /\ d.mpTrampoline.m = m
    BY <1>0, <1>1, <1>2, Zenon
  <2>2. Delegates(windows, large)!Runs(h, now, d) = runs
    BY <1>1, <1>2, <2>1 DEF Delegates!Runs, letterNow
  <2> QED
    BY <2>2, Zenon DEF d, letter, letterNow, this, virtual
<1>3. CASE ~(virtual /\ windows)
  <2>1. d.mpTrampoline.kind = "code" /\ d.mpTrampoline.letter = letter
    BY <1>0, <1>1, <1>3, Zenon
  <2>2. Delegates(windows, large)!Runs(h, now, d) = runs
    BY <1>1, <1>3, <2>1 DEF Delegates!Runs
  <2> QED
    BY <2>2, Zenon DEF d, letter, letterNow, this, virtual
<1> QED
  BY <1>2, <1>3

\* bindMemFnSafe() dispatches when it is called, with the object it was given
LEMMA SafeRuns ==
  ASSUME NEW windows \in BOOLEAN, NEW large, NEW type, NEW m, NEW h, NEW o
  PROVE  Delegates(windows, large)!Runs(h, type, Delegates(windows, large)!bindMemFnSafe(o, m))
           = [letter |-> Delegates(windows, large)!Direct(type, m),
              this |-> Delegates(windows, large)!Pointer(o, m.class)]
<1> DEFINE d == Delegates(windows, large)!bindMemFnSafe(o, m)
           letter == Delegates(windows, large)!Direct(type, m)
           this == Delegates(windows, large)!Pointer(o, m.class)
           interposer == Delegates(windows, large)!Dispatch("interposer", m)
<1>0. interposer.kind = "interposer" /\ interposer.m = m
  BY Zenon DEF Delegates!Dispatch
<1> HIDE DEF letter, this, interposer
<1>1. d.mpObject = this /\ d.mpTrampoline = interposer
  BY Zenon DEF Delegates!bindMemFnSafe, Delegates!Holds, this, interposer
<1> HIDE DEF d
<1>2. d.mpTrampoline.kind = "interposer" /\ d.mpTrampoline.m = m
  BY <1>0, <1>1
<1>3. Delegates(windows, large)!Runs(h, type, d) = [letter |-> letter, this |-> this]
  BY <1>1, <1>2 DEF Delegates!Runs, letter
<1> QED
  BY <1>3, Zenon DEF d, letter, this

\* what a delegate calls that is bound to a member function
LEMMA CallRuns ==
  ASSUME NEW windows \in BOOLEAN, NEW large, DelegateInv(windows, large), NEW h \in Var,
         bound[h].how \in {"fast", "safe"}
  PROVE  LET b == bound[h]
             now == Delegates(windows, large)!dynamic[b.object]
         IN /\ now \in {"Base", class[b.object]}
            /\ stage[b.object] = "whole" => now = class[b.object]
            /\ delegate[h].mpObject = Delegates(windows, large)!Pointer(b.object, b.m.class)
            /\ Delegates(windows, large)!Call(h).this = Delegates(windows, large)!Pointer(b.object, b.m.class)
            /\ \E type \in {"Base", class[b.object]} :
                 /\ Delegates(windows, large)!Call(h)
                      = [letter |-> Delegates(windows, large)!Direct(type, b.m),
                         this |-> Delegates(windows, large)!Pointer(b.object, b.m.class)]
                 /\ b.how = "safe" \/ (b.whole /\ stage[b.object] = "whole") => type = now
<1> DEFINE b == bound[h]
           d == delegate[h]
           now == Delegates(windows, large)!dynamic[b.object]
           this == Delegates(windows, large)!Pointer(b.object, b.m.class)
           call == Delegates(windows, large)!Runs(h, now, d)
           direct(type) == [letter |-> Delegates(windows, large)!Direct(type, b.m), this |-> this]
<1>1. HoldsBound(windows, large, h) /\ b.object \in Object
  BY DEF DelegateInv, HoldsBound
<1>2. now \in {"Base", class[b.object]} /\ (stage[b.object] = "whole" => now = class[b.object])
  <2>1. now = IF stage[b.object] \in {"building", "dying"} THEN "Base" ELSE class[b.object]
    BY <1>1 DEF Delegates!dynamic
  <2> QED
    BY <2>1
<1>3. Delegates(windows, large)!Call(h) = call
  BY Zenon DEF Delegates!Call
<1>4. ASSUME NEW type PROVE direct(type).this = this
  BY Zenon
<1> HIDE DEF now, this, call
<1>5. CASE d = Delegates(windows, large)!bindMemFnSafe(b.object, b.m)
  <2> DEFINE safe == Delegates(windows, large)!bindMemFnSafe(b.object, b.m)
  <2>1. safe.mpObject = this
    BY Zenon DEF Delegates!bindMemFnSafe, Delegates!Holds, this
  <2>2. Delegates(windows, large)!Runs(h, now, safe) = direct(now)
    BY SafeRuns DEF this
  <2> HIDE DEF safe
  <2>3. d = safe
    BY <1>5, Zenon DEF safe
  <2>4. d.mpObject = this
    BY <2>1, <2>3, Zenon
  <2>5. call = direct(now)
    BY <2>2, <2>3, Zenon DEF call
  <2> QED
    BY <1>2, <1>3, <1>4, <2>4, <2>5, Zenon DEF now, this
<1>6. CASE /\ b.how # "safe" /\ ~(windows /\ h \in large)
           /\ LookedUp(windows, large, b, d, class[b.object])
  <2>1. PICK type \in {"Base", class[b.object]} :
          /\ d = Delegates(windows, large)!bindMemFnFast(type, b.object, type, b.m)
          /\ b.whole => type = class[b.object]
    BY <1>6, Zenon DEF LookedUp
  <2> DEFINE fast == Delegates(windows, large)!bindMemFnFast(type, b.object, type, b.m)
  <2>2. fast.mpObject = this
    BY Zenon DEF Delegates!bindMemFnFast, Delegates!Holds, this
  <2> DEFINE virtual == Delegates(windows, large)!isVirtual(b.m) /\ windows
           runs == [letter |-> IF virtual THEN Delegates(windows, large)!Direct(now, b.m)
                               ELSE Delegates(windows, large)!Direct(type, b.m),
                    this |-> IF windows /\ h \in large THEN Delegates(windows, large)!Null ELSE this]
  <2>3. Delegates(windows, large)!Runs(h, now, fast) = runs
    BY FastRuns DEF this
  <2> HIDE DEF fast
  <2>4. d = fast
    BY <2>1, Zenon DEF fast
  <2>5. d.mpObject = this
    BY <2>2, <2>4, Zenon
  <2>6. call = runs
    BY <2>3, <2>4, Zenon DEF call
  <2> HIDE DEF virtual
  <2>7. CASE virtual
    <3>1. call = direct(now)
      BY <1>6, <2>6, <2>7, Zenon
    <3> QED
      BY <1>2, <1>3, <1>4, <2>5, <3>1, Zenon DEF now, this
  <2>8. CASE ~virtual
    <3>1. call = direct(type)
      BY <1>6, <2>6, <2>8, Zenon
    <3>2. b.how = "safe" \/ (b.whole /\ stage[b.object] = "whole") => type = now
      BY <1>2, <1>6, <2>1, Zenon
    <3> QED
      BY <1>2, <1>3, <1>4, <2>1, <2>5, <3>1, <3>2, Zenon DEF now, this
  <2> QED
    BY <2>7, <2>8
<1>7. /\ b.how = "safe" => d = Delegates(windows, large)!bindMemFnSafe(b.object, b.m)
      /\ b.how = "fast" => IF windows /\ h \in large THEN d = Delegates(windows, large)!bindMemFnSafe(b.object, b.m)
                           ELSE LookedUp(windows, large, b, d, class[b.object])
  BY <1>1, Zenon DEF HoldsBound
<1>8. b.how \in {"fast", "safe"} /\ "fast" # "safe"
  OBVIOUS
<1> HIDE DEF b, d
<1> QED
  <2>1. d = Delegates(windows, large)!bindMemFnSafe(b.object, b.m)
        \/ (b.how # "safe" /\ ~(windows /\ h \in large) /\ LookedUp(windows, large, b, d, class[b.object]))
    BY <1>7, <1>8, Zenon
  <2> QED
    BY <1>5, <1>6, <2>1, Zenon DEF b, d

LEMMA CallsAsBound ==
  ASSUME NEW windows \in BOOLEAN, NEW large, DelegateInv(windows, large)
  PROVE  /\ Delegates(windows, large)!CallsDirectly
         /\ Delegates(windows, large)!CallsBaseOrDerived
         /\ Delegates(windows, large)!HoldsWhatWasBound
<1>1. ASSUME NEW h \in Var, Delegates(windows, large)!Callable(h) PROVE bound[h].how \in {"fast", "safe"}
  BY <1>1, Zenon DEF Delegates!Callable
<1>2. Delegates(windows, large)!CallsDirectly
  <2> SUFFICES ASSUME NEW h \in Var, Delegates(windows, large)!Callable(h),
                      bound[h].how = "safe" \/ (bound[h].whole /\ stage[bound[h].object] = "whole")
               PROVE  Delegates(windows, large)!Call(h)
                        = [letter |-> Delegates(windows, large)!Direct(
                                        Delegates(windows, large)!dynamic[bound[h].object], bound[h].m),
                           this |-> Delegates(windows, large)!Pointer(bound[h].object, bound[h].m.class)]
    BY Zenon DEF Delegates!CallsDirectly
  <2>1. PICK type \in {"Base", class[bound[h].object]} :
          /\ Delegates(windows, large)!Call(h)
               = [letter |-> Delegates(windows, large)!Direct(type, bound[h].m),
                  this |-> Delegates(windows, large)!Pointer(bound[h].object, bound[h].m.class)]
          /\ bound[h].how = "safe" \/ (bound[h].whole /\ stage[bound[h].object] = "whole")
               => type = Delegates(windows, large)!dynamic[bound[h].object]
    BY <1>1, CallRuns
  <2> QED
    BY <2>1, Zenon
<1>3. Delegates(windows, large)!CallsBaseOrDerived
  <2> SUFFICES ASSUME NEW h \in Var, Delegates(windows, large)!Callable(h)
               PROVE  /\ \E type \in {"Base", class[bound[h].object]} :
                           Delegates(windows, large)!Call(h).letter
                             = Delegates(windows, large)!Direct(type, bound[h].m)
                      /\ Delegates(windows, large)!Call(h).this
                           = Delegates(windows, large)!Pointer(bound[h].object, bound[h].m.class)
    BY Zenon DEF Delegates!CallsBaseOrDerived
  <2>1. /\ Delegates(windows, large)!Call(h).this
             = Delegates(windows, large)!Pointer(bound[h].object, bound[h].m.class)
        /\ \E type \in {"Base", class[bound[h].object]} :
             Delegates(windows, large)!Call(h)
               = [letter |-> Delegates(windows, large)!Direct(type, bound[h].m),
                  this |-> Delegates(windows, large)!Pointer(bound[h].object, bound[h].m.class)]
    BY <1>1, CallRuns
  <2>2. ASSUME NEW letter, NEW this PROVE [letter |-> letter, this |-> this].letter = letter
    OBVIOUS
  <2> QED
    BY <2>1, <2>2
<1>4. Delegates(windows, large)!HoldsWhatWasBound
  <2> SUFFICES ASSUME NEW h \in Var
               PROVE  /\ bound[h].how = "function" => delegate[h] = Delegates(windows, large)!FreeFunction
                      /\ bound[h].how = "invocable"
                           => delegate[h] = Delegates(windows, large)!Invocable(bound[h].object)
                      /\ bound[h].how \in {"fast", "safe"}
                           => delegate[h].mpObject
                                = Delegates(windows, large)!Pointer(bound[h].object, bound[h].m.class)
    BY Zenon DEF Delegates!HoldsWhatWasBound
  <2>1. bound[h].how \in {"fast", "safe"}
          => delegate[h].mpObject = Delegates(windows, large)!Pointer(bound[h].object, bound[h].m.class)
    BY CallRuns
  <2>2. HoldsBound(windows, large, h)
    BY DEF DelegateInv
  <2> QED
    BY <2>1, <2>2, Zenon DEF HoldsBound
<1> QED
  BY <1>2, <1>3, <1>4

\* The tables of src/callable/tst_delegate.cpp and src/base/tst_cppvtable.cpp.
LEMMA DelegateTestsHold ==
  ASSUME NEW windows \in BOOLEAN, NEW large
  PROVE  Delegates(windows, large)!TestsHold
<1>1. ASSUME NEW t \in Delegates(windows, large)!resolveTests, NEW h \in Var, NEW o \in Object
      PROVE  Delegates(windows, large)!Runs(h, t[1], Delegates(windows, large)!bindMemFnFast(t[1], o, t[2], t[3]))
               = [letter |-> Delegates(windows, large)!Direct(t[1], t[3]),
                  this |-> IF windows /\ h \in large THEN Delegates(windows, large)!Null
                           ELSE Delegates(windows, large)!Pointer(o, t[3].class)]
  BY FastRuns
<1>2. ASSUME NEW t \in Delegates(windows, large)!inheritanceTests
      PROVE  Delegates(windows, large)!Direct(t[1], t[3]) = t[4]
  <2>1. ASSUME NEW c, NEW method PROVE Delegates(windows, large)!Member(c, method).method = method
    BY DEF Delegates!Member
  <2>2. \/ t[1] = "VirtualFirst" /\ t[3].method = "nonvirtualMethod" /\ t[4] = "M"
        \/ t[3].method = "nonvirtualBaseMethod" /\ t[4] = "U"
        \/ t[3].method = "virtualMethod"
           /\ \/ t[1] = "Base" /\ t[4] = "B"
              \/ t[1] = "VirtualFirst" /\ t[4] = "F"
              \/ t[1] = "VirtualSecond" /\ t[4] = "S"
    BY <2>1 DEF Delegates!inheritanceTests
  <2> QED
    BY <2>2 DEF Delegates!Direct
<1>3. ASSUME NEW t \in Delegates(windows, large)!inheritanceTests, NEW h \in Var, NEW o \in Object,
             NEW d \in {Delegates(windows, large)!bind(h, t[1], o, t[2], t[3]),
                        Delegates(windows, large)!bindMemFnFast(t[1], o, t[2], t[3]),
                        Delegates(windows, large)!bindMemFnSafe(o, t[3])}
      PROVE  Delegates(windows, large)!Runs(h, t[1], d).letter = t[4]
  <2> DEFINE fast == Delegates(windows, large)!bindMemFnFast(t[1], o, t[2], t[3])
             safe == Delegates(windows, large)!bindMemFnSafe(o, t[3])
             letter == Delegates(windows, large)!Direct(t[1], t[3])
  <2>1. ASSUME NEW x, NEW this PROVE [letter |-> x, this |-> this].letter = x
    OBVIOUS
  <2>2. Delegates(windows, large)!Runs(h, t[1], fast).letter = letter
    BY <2>1, FastRuns
  <2>3. Delegates(windows, large)!Runs(h, t[1], safe).letter = letter
    BY <2>1, SafeRuns
  <2>4. letter = t[4]
    BY <1>2
  <2> HIDE DEF fast, safe, letter
  <2>5. d = fast \/ d = safe
    BY <1>3, Zenon DEF Delegates!bind, fast, safe
  <2> QED
    BY <2>2, <2>3, <2>4, <2>5, Zenon
<1> QED
  BY <1>1, <1>3, Zenon DEF Delegates!TestsHold

DelegatesInv == /\ part = "posix"   => DelegateInv(FALSE, {})
                /\ part = "windows" => DelegateInv(TRUE, LargeResult)

LEMMA DelegatesStep ==
  ASSUME DelegatesInv, ObjectsNext \/ UNCHANGED allVars
  PROVE  DelegatesInv'
<1>1. part' = part
  BY Zenon DEF ObjectsNext, allVars
<1>2. ASSUME NEW windows \in BOOLEAN, NEW large, DelegateInv(windows, large),
             \/ Delegates(windows, large)!Next
             \/ class' = class /\ stage' = stage /\ delegate' = delegate /\ bound' = bound
      PROVE  DelegateInv(windows, large)'
  BY <1>2, DelegateNextStep, DelegateStays
<1>3. "posix" # "windows"
  OBVIOUS
<1>4. \/ part = "posix" /\ Delegates(FALSE, {})!Next
      \/ part = "windows" /\ Delegates(TRUE, LargeResult)!Next
      \/ class' = class /\ stage' = stage /\ delegate' = delegate /\ bound' = bound
  BY Zenon DEF ObjectsNext, allVars, FunctionNext, StorageNext, DelegateNext, ValueNext, ScopeNext,
     RingNext,
       AudioNext, ViewNext, delegateVars
<1>5. ASSUME part' = "posix" PROVE DelegateInv(FALSE, {})'
  <2>1. /\ DelegateInv(FALSE, {}) /\ FALSE \in BOOLEAN
        /\ \/ Delegates(FALSE, {})!Next
           \/ class' = class /\ stage' = stage /\ delegate' = delegate /\ bound' = bound
    BY <1>1, <1>3, <1>4, <1>5, Zenon DEF DelegatesInv
  <2> QED
    BY <1>2, <2>1, Zenon
<1>6. ASSUME part' = "windows" PROVE DelegateInv(TRUE, LargeResult)'
  <2>1. /\ DelegateInv(TRUE, LargeResult) /\ TRUE \in BOOLEAN
        /\ \/ Delegates(TRUE, LargeResult)!Next
           \/ class' = class /\ stage' = stage /\ delegate' = delegate /\ bound' = bound
    BY <1>1, <1>3, <1>4, <1>6, Zenon DEF DelegatesInv
  <2> QED
    BY <1>2, <2>1, Zenon
<1> QED
  BY <1>5, <1>6, Zenon DEF DelegatesInv

LEMMA DelegatesInit == ObjectsInit => DelegatesInv
<1> SUFFICES ASSUME ObjectsInit PROVE DelegatesInv
  OBVIOUS
<1>1. ASSUME NEW windows \in BOOLEAN, NEW large, Delegates(windows, large)!Init
      PROVE  DelegateInv(windows, large)
  BY <1>1, InitialDelegates
<1>2. /\ part = "windows" => Delegates(TRUE, LargeResult)!Init
      /\ part # "windows" => Delegates(FALSE, {})!Init
  BY Zenon DEF ObjectsInit
<1>3. TRUE \in BOOLEAN /\ FALSE \in BOOLEAN
  OBVIOUS
<1>4. part = "windows" => DelegateInv(TRUE, LargeResult)
  BY <1>1, <1>2, <1>3, Zenon
<1>5. part = "posix" => DelegateInv(FALSE, {})
  <2>1. "posix" # "windows"
    OBVIOUS
  <2> QED
    BY <1>1, <1>2, <1>3, <2>1, Zenon
<1> QED
  BY <1>4, <1>5, Zenon DEF DelegatesInv

\* A delegate, a copied or swapped one, too, calls what a direct call runs, or the base
\* class's method while the object is constructed or destroyed, whatever the objects and the
\* results that Windows returns in memory (Delegate).
THEOREM DelegatesCallDirectly == ObjectsSpec => []CallsDirectly
<1>1. DelegatesInv => CallsDirectly
  <2> SUFFICES ASSUME DelegatesInv PROVE CallsDirectly
    OBVIOUS
  <2>1. ASSUME NEW windows \in BOOLEAN, NEW large
        PROVE  /\ Delegates(windows, large)!TestsHold
               /\ DelegateInv(windows, large) => /\ Delegates(windows, large)!CallsDirectly
                                                 /\ Delegates(windows, large)!CallsBaseOrDerived
                                                 /\ Delegates(windows, large)!HoldsWhatWasBound
    BY CallsAsBound, DelegateTestsHold
  <2>2. TRUE \in BOOLEAN /\ FALSE \in BOOLEAN
    OBVIOUS
  <2> QED
    BY <2>1, <2>2, Zenon DEF DelegatesInv, CallsDirectly
<1> QED
  BY <1>1, DelegatesInit, DelegatesStep, PTL DEF ObjectsSpec, allVars
=============================================================================
