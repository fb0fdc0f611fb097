---------------------------- MODULE WaveIo_proofs ----------------------------
(***************************************************************************)
(* For any number of reader and writer objects, whatever is in the file    *)
(* and wherever writing fails: an open stream has one owner, and is not    *)
(* lost by it.                                                             *)
(***************************************************************************)
EXTENDS WaveIo, FiniteSetTheorems, TLAPS

\* At most one object, or the program, has the stream.
Exclusive(w, r, c) ==
  /\ \A s, t \in Slot : w[s].mpFile /\ w[t].mpFile => s = t
  /\ \A s, t \in Slot : r[s].mpFile /\ r[t].mpFile => s = t
  /\ \A s, t \in Slot : ~(w[s].mpFile /\ r[t].mpFile)
  /\ \A s \in Slot : c => ~w[s].mpFile /\ ~r[s].mpFile

Owned(w, r, c) == c \/ \E s \in Slot : w[s].mpFile \/ r[s].mpFile

\* all that the steps need to know of an object: it has a file or not
Handles(f) == /\ DOMAIN f = Slot
              /\ \A s \in Slot : "mpFile" \in DOMAIN f[s] /\ f[s].mpFile \in BOOLEAN

IInv == /\ Handles(writers) /\ Handles(readers) /\ caller \in BOOLEAN
        /\ format \in Formats
        /\ Exclusive(writers, readers, caller)
        /\ Owned(writers, readers, caller) => open

-----------------------------------------------------------------------------
LEMMA OwnersOwn ==
  ASSUME caller \in BOOLEAN
  PROVE  Owners # {} <=> Owned(writers, readers, caller)
  BY DEF Owners, Owned

LEMMA InvariantIsOneOwner == IInv => OneOwner
<1> SUFFICES ASSUME IInv PROVE OneOwner
  OBVIOUS
<1>1. \A o, p \in Owners : o = p
  BY DEF IInv, Exclusive, Owners
<1>2. Cardinality(Owners) <= 1
  <2>1. CASE Owners = {}
    BY <2>1, FS_EmptySet
  <2>2. CASE Owners # {}
    <3>1. PICK o : o \in Owners
      BY <2>2
    <3>2. Owners = {o}
      BY <1>1, <3>1
    <3>3. Cardinality({o}) = 1
      BY FS_Singleton
    <3> QED
      BY <3>2, <3>3
  <2> QED
    BY <2>1, <2>2
<1> QED
  BY <1>2, OwnersOwn DEF IInv, OneOwner

-----------------------------------------------------------------------------
LEMMA NoFiles == /\ "mpFile" \in DOMAIN NoWriter /\ NoWriter.mpFile = FALSE
                 /\ "mpFile" \in DOMAIN NoReader /\ NoReader.mpFile = FALSE
  BY DEF NoWriter, NoReader

-----------------------------------------------------------------------------
(* What a step keeps: the invariant, and that an owned stream is closed    *)
(* before it has no owner                                                  *)

NotLost == open /\ Owned(writers, readers, caller) /\ ~Owned(writers', readers', caller') => ~open'

\* read() and write() drop the file unclosed when they cannot convert its format.
Keeps == IInv' /\ (format.bits # 8 => NotLost)

LEMMA CreateWriterStep ==
  ASSUME IInv, NEW s \in Slot, NEW overwrite \in BOOLEAN, CreateWriter(s, overwrite) PROVE Keeps
<1>1. PICK new \in {NoWriter, [mpFile |-> TRUE, mInfo |-> format]} : writers' = [writers EXCEPT ![s] = new]
  BY DEF CreateWriter
<1>2. /\ ~open /\ open' /\ UNCHANGED <<format, readers, caller>>
  BY DEF CreateWriter
<1> "mpFile" \in DOMAIN new /\ new.mpFile \in BOOLEAN
  <2>1. CASE new = NoWriter
    BY <2>1, NoFiles
  <2>2. CASE new = [mpFile |-> TRUE, mInfo |-> format]
    BY <2>2
  <2> QED
    BY <2>1, <2>2
<1>3. Handles(writers') /\ \A u \in Slot : u # s => writers'[u].mpFile = writers[u].mpFile
  BY <1>1 DEF IInv, Handles
<1>4. ~Owned(writers, readers, caller)
  BY <1>2 DEF IInv
<1>5. Exclusive(writers', readers', caller')
  BY <1>2, <1>3, <1>4 DEF Exclusive, Owned
<1> QED
  BY <1>2, <1>3, <1>4, <1>5 DEF IInv, Keeps, NotLost

LEMMA WriterFromFileStep ==
  ASSUME IInv, NEW s \in Slot, WriterFromFile(s) PROVE Keeps
<1>1. PICK ok \in BOOLEAN :
        /\ writers' = [writers EXCEPT ![s] = IF ok THEN [mpFile |-> TRUE, mInfo |-> format] ELSE NoWriter]
        /\ caller' = ~ok
  BY DEF WriterFromFile
<1>2. caller /\ UNCHANGED <<format, readers, open>>
  BY DEF WriterFromFile
<1> DEFINE new == IF ok THEN [mpFile |-> TRUE, mInfo |-> format] ELSE NoWriter
<1>3. "mpFile" \in DOMAIN new /\ new.mpFile = ok
  BY NoFiles
<1> HIDE DEF new
<1>4. /\ Handles(writers')
      /\ \A u \in Slot : writers'[u].mpFile = IF u = s THEN ok ELSE writers[u].mpFile
  BY <1>1, <1>3, NoFiles DEF IInv, Handles, new
<1>5. open /\ Owned(writers', readers', caller')
  BY <1>1, <1>2, <1>4 DEF IInv, Owned
<1>6. Exclusive(writers', readers', caller')
  BY <1>1, <1>2, <1>4 DEF IInv, Exclusive
<1> QED
  BY <1>1, <1>2, <1>4, <1>5, <1>6 DEF IInv, Keeps, NotLost

\* destruction and release() of a writer: it has no file then, and the stream is closed or the program's
LEMMA WriterEndsStep ==
  ASSUME IInv, NEW s \in Slot, DestroyWriter(s) \/ ReleaseWriter(s) PROVE Keeps
<1>1. /\ writers[s].mpFile /\ writers' = [writers EXCEPT ![s] = NoWriter]
      /\ UNCHANGED <<format, readers>>
      /\ \/ ~open' /\ caller' = caller
         \/ open' /\ caller' = TRUE
  BY DEF DestroyWriter, ReleaseWriter, FinishFile
<1>2. /\ Handles(writers')
      /\ \A u \in Slot : writers'[u].mpFile = IF u = s THEN FALSE ELSE writers[u].mpFile
  BY <1>1, NoFiles DEF IInv, Handles
<1>3. \A u \in Slot : ~writers'[u].mpFile /\ ~readers'[u].mpFile
  BY <1>1, <1>2 DEF IInv, Exclusive
<1>4. ~caller
  BY <1>1 DEF IInv, Exclusive
<1>5. Exclusive(writers', readers', caller') /\ (Owned(writers', readers', caller') <=> caller')
  BY <1>3 DEF Exclusive, Owned
<1>6. caller' \in BOOLEAN
  BY <1>1 DEF IInv
<1>7. caller' <=> open'
  BY <1>1, <1>4
<1> QED
  BY <1>1, <1>2, <1>5, <1>6, <1>7 DEF IInv, Keeps, NotLost

LEMMA WriterAssignStep ==
  ASSUME IInv, NEW s \in Slot, NEW t \in Slot, WriterAssign(s, t) PROVE Keeps
<1>1. /\ writers' = [writers EXCEPT ![t] = NoWriter, ![s] = IF s = t THEN NoWriter ELSE writers[t]]
      /\ UNCHANGED <<format, readers, caller>>
      /\ writers[s].mpFile => ~open'
      /\ ~writers[s].mpFile => open' = open
  BY DEF WriterAssign, FinishFile
<1>2. /\ Handles(writers')
      /\ \A u \in Slot : writers'[u].mpFile = IF u = t \/ (u = s /\ s = t) THEN FALSE
                                              ELSE IF u = s THEN writers[t].mpFile ELSE writers[u].mpFile
  BY <1>1, NoFiles DEF IInv, Handles
<1>3. Exclusive(writers', readers', caller')
  BY <1>1, <1>2 DEF IInv, Exclusive
<1>4. CASE writers[s].mpFile
  <2>1. ~Owned(writers', readers', caller')
    BY <1>1, <1>2, <1>4 DEF IInv, Exclusive, Owned
  <2> QED
    BY <1>1, <1>2, <1>3, <1>4, <2>1 DEF IInv, Keeps, NotLost
<1>5. CASE ~writers[s].mpFile
  <2>1. Owned(writers', readers', caller') <=> Owned(writers, readers, caller)
    BY <1>1, <1>2, <1>5 DEF Owned
  <2> QED
    BY <1>1, <1>2, <1>3, <1>5, <2>1 DEF IInv, Keeps, NotLost
<1> QED
  BY <1>4, <1>5

\* A format that cannot be converted lets go of the file.
LEMMA WriteStep ==
  ASSUME IInv, NEW s \in Slot, NEW n, Write(s, n) PROVE Keeps
<1> DEFINE new == [writers[s] EXCEPT !.mInfo.numSamples = Advance(@, n), !.mpFile = format.bits # 8]
<1>1. /\ writers[s].mpFile /\ UNCHANGED <<open, format, readers, caller>>
      /\ writers' = [writers EXCEPT ![s] = new]
  BY DEF Write, IInv, Handles
<1>2. "mpFile" \in DOMAIN new /\ new.mpFile = (format.bits # 8)
  BY DEF IInv, Handles
<1> HIDE DEF new
<1>3. /\ Handles(writers')
      /\ \A u \in Slot : writers'[u].mpFile = IF u = s THEN format.bits # 8 ELSE writers[u].mpFile
  BY <1>1, <1>2, NoFiles DEF IInv, Handles
<1>4. /\ Exclusive(writers', readers', caller') /\ open
      /\ format.bits # 8 => Owned(writers', readers', caller')
  BY <1>1, <1>3 DEF IInv, Exclusive, Owned
<1> QED
  BY <1>1, <1>3, <1>4 DEF IInv, Keeps, NotLost

-----------------------------------------------------------------------------
\* A reader of a file that is no wave does not keep it.
LEMMA NewReaderHandles ==
  ASSUME IInv, NEW s \in Slot, NEW begin, NewReader(s, begin)
  PROVE  /\ Handles(readers')
         /\ \A u \in Slot : u # s => readers'[u].mpFile = readers[u].mpFile
         /\ UNCHANGED <<format, writers>>
<1> DEFINE wave == readInfo(begin)
           new  == [mpFile |-> isValid(wave.info), mInfo |-> wave.info, mSamplePos |-> 0]
<1>1. /\ readers' = [readers EXCEPT ![s] = new]
      /\ "mpFile" \in DOMAIN new /\ new.mpFile \in BOOLEAN
  BY DEF NewReader, isValid
<1> HIDE DEF new, wave
<1> QED
  BY <1>1 DEF Handles, IInv, NewReader

LEMMA OpenReaderStep ==
  ASSUME IInv, NEW s \in Slot, OpenReader(s) PROVE Keeps
<1>1. ~open /\ open' /\ UNCHANGED caller /\ NewReader(s, 1)
  BY DEF OpenReader
<1>2. ~Owned(writers, readers, caller)
  BY <1>1 DEF IInv
<1>3. Exclusive(writers', readers', caller')
  BY <1>1, <1>2, NewReaderHandles DEF Exclusive, Owned
<1> QED
  BY <1>1, <1>2, <1>3, NewReaderHandles DEF IInv, Keeps, NotLost

LEMMA ReaderFromFileStep ==
  ASSUME IInv, NEW s \in Slot, ReaderFromFile(s) PROVE Keeps
<1>1. caller /\ caller' = ~readers'[s].mpFile /\ UNCHANGED open /\ NewReader(s, pos)
  BY DEF ReaderFromFile
<1>2. readers'[s].mpFile \in BOOLEAN
  BY <1>1, NewReaderHandles DEF Handles
<1>3. open /\ Owned(writers', readers', caller')
  BY <1>1, <1>2 DEF IInv, Owned
<1>4. Exclusive(writers', readers', caller')
  BY <1>1, NewReaderHandles DEF IInv, Exclusive
<1> QED
  BY <1>1, <1>3, <1>4, NewReaderHandles DEF IInv, Keeps, NotLost

LEMMA ReaderEndsStep ==
  ASSUME IInv, NEW s \in Slot, DestroyReader(s) \/ ReleaseReader(s) PROVE Keeps
<1>1. /\ readers[s].mpFile /\ readers' = [readers EXCEPT ![s] = NoReader]
      /\ UNCHANGED <<format, writers>>
      /\ \/ ~open' /\ caller' = caller
         \/ open' = open /\ caller' = TRUE
  BY DEF DestroyReader, ReleaseReader
<1>2. /\ Handles(readers')
      /\ \A u \in Slot : readers'[u].mpFile = IF u = s THEN FALSE ELSE readers[u].mpFile
  BY <1>1, NoFiles DEF IInv, Handles
<1>3. \A u \in Slot : ~writers'[u].mpFile /\ ~readers'[u].mpFile
  BY <1>1, <1>2 DEF IInv, Exclusive
<1>4. ~caller /\ open
  BY <1>1 DEF IInv, Exclusive, Owned
<1>5. Exclusive(writers', readers', caller') /\ (Owned(writers', readers', caller') <=> caller')
  BY <1>3 DEF Exclusive, Owned
<1>6. caller' \in BOOLEAN
  BY <1>1 DEF IInv
<1>7. caller' <=> open'
  <2>1. CASE ~open' /\ caller' = caller
    BY <2>1, <1>4, Zenon
  <2>2. CASE open' = open /\ caller' = TRUE
    BY <2>2, <1>4, Zenon
  <2> QED
    BY <1>1, <2>1, <2>2, Zenon
<1> QED
  BY <1>1, <1>2, <1>5, <1>6, <1>7 DEF IInv, Keeps, NotLost

LEMMA ReaderAssignStep ==
  ASSUME IInv, NEW s \in Slot, NEW t \in Slot, ReaderAssign(s, t) PROVE Keeps
<1>1. /\ readers' = [readers EXCEPT ![t] = NoReader, ![s] = IF s = t THEN NoReader ELSE readers[t]]
      /\ UNCHANGED <<format, writers, caller>>
      /\ open' = (open /\ ~readers[s].mpFile)
  BY DEF ReaderAssign
<1>2. /\ Handles(readers')
      /\ \A u \in Slot : readers'[u].mpFile = IF u = t \/ (u = s /\ s = t) THEN FALSE
                                              ELSE IF u = s THEN readers[t].mpFile ELSE readers[u].mpFile
  BY <1>1, NoFiles DEF IInv, Handles
<1>3. Exclusive(writers', readers', caller')
  BY <1>1, <1>2 DEF IInv, Exclusive
<1>4. CASE readers[s].mpFile
  <2>1. ~Owned(writers', readers', caller')
    BY <1>1, <1>2, <1>4 DEF IInv, Exclusive, Owned
  <2> QED
    BY <1>1, <1>2, <1>3, <1>4, <2>1 DEF IInv, Keeps, NotLost
<1>5. CASE ~readers[s].mpFile
  <2>1. Owned(writers', readers', caller') <=> Owned(writers, readers, caller)
    BY <1>1, <1>2, <1>5 DEF Owned
  <2> QED
    BY <1>1, <1>2, <1>3, <1>5, <2>1 DEF IInv, Keeps, NotLost
<1> QED
  BY <1>4, <1>5

LEMMA ReadStep ==
  ASSUME IInv, NEW s \in Slot, NEW n, NEW c, Read(s, n, c) PROVE Keeps
<1>1. PICK samples : readers' = [readers EXCEPT ![s].mSamplePos = Advance(@, samples),
                                                ![s].mpFile = format.bits # 8]
  BY DEF Read
<1> DEFINE new == [readers[s] EXCEPT !.mSamplePos = Advance(@, samples), !.mpFile = format.bits # 8]
<1>2. /\ readers[s].mpFile /\ UNCHANGED <<open, format, writers, caller>>
      /\ readers' = [readers EXCEPT ![s] = new]
  BY <1>1 DEF Read, IInv, Handles
<1>3. "mpFile" \in DOMAIN new /\ new.mpFile = (format.bits # 8)
  BY DEF IInv, Handles
<1> HIDE DEF new
<1>4. /\ Handles(readers')
      /\ \A u \in Slot : readers'[u].mpFile = IF u = s THEN format.bits # 8 ELSE readers[u].mpFile
  BY <1>2, <1>3, NoFiles DEF IInv, Handles
<1>5. /\ Exclusive(writers', readers', caller') /\ open
      /\ format.bits # 8 => Owned(writers', readers', caller')
  BY <1>2, <1>4 DEF IInv, Exclusive, Owned
<1> QED
  BY <1>2, <1>4, <1>5 DEF IInv, Keeps, NotLost

-----------------------------------------------------------------------------
LEMMA Initially == Init => IInv
  BY NoFiles DEF Init, IInv, Handles, Exclusive, Owned

LEMMA Steps ==
  ASSUME IInv, [Next]_vars PROVE Keeps
<1>1. ASSUME NEW s \in Slot, NEW overwrite \in BOOLEAN, CreateWriter(s, overwrite) PROVE Keeps
  BY <1>1, CreateWriterStep
<1>2. ASSUME NEW s \in Slot, WriterFromFile(s) \/ DestroyWriter(s) \/ ReleaseWriter(s) PROVE Keeps
  BY <1>2, WriterFromFileStep, WriterEndsStep
<1>3. ASSUME NEW s \in Slot, NEW t \in Slot, WriterAssign(s, t) \/ ReaderAssign(s, t) PROVE Keeps
  BY <1>3, WriterAssignStep, ReaderAssignStep
<1>4. ASSUME NEW s \in Slot, NEW n, Write(s, n) PROVE Keeps
  BY <1>4, WriteStep
<1>5. ASSUME NEW s \in Slot,
             OpenReader(s) \/ ReaderFromFile(s) \/ DestroyReader(s) \/ ReleaseReader(s)
      PROVE  Keeps
  BY <1>5, OpenReaderStep, ReaderFromFileStep, ReaderEndsStep
<1>6. ASSUME ReadSome PROVE Keeps
  BY <1>6, ReadStep DEF ReadSome
<1>7. ASSUME Rewind \/ UNCHANGED vars PROVE Keeps
  <2>1. UNCHANGED <<open, format, writers, readers, caller>>
    BY <1>7 DEF Rewind, vars, objects
  <2> QED
    BY <2>1 DEF Keeps, NotLost, IInv
<1>8. ASSUME Close PROVE Keeps
  <2>1. caller /\ ~open' /\ caller' = FALSE /\ UNCHANGED <<format, writers, readers>>
    BY <1>8 DEF Close
  <2> QED
    BY <2>1 DEF Keeps, NotLost, IInv, Exclusive, Owned
<1> QED
  BY <1>1, <1>2, <1>3, <1>4, <1>5, <1>6, <1>7, <1>8 DEF Next

\* However readers and writers are constructed, moved onto each other, released and destroyed,
\* and wherever a write fails: at most one of them has the stream, and only while it is open.
THEOREM Ownership == Spec => []OneOwner
<1>1. IInv /\ [Next]_vars => IInv'
  BY Steps DEF Keeps
<1> QED
  BY <1>1, Initially, InvariantIsOneOwner, PTL DEF Spec

\* The last owner of a stream closes it or hands it on, as long as the format is one that
\* read() and write() convert: for others they drop the file unclosed.
THEOREM StreamIsClosed ==
  ASSUME \A f \in Formats : f.bits # 8 PROVE Spec => NeverLost
<1>1. IInv /\ [Next]_vars => IInv'
  BY Steps DEF Keeps
<1>2. IInv /\ [Next]_vars => [open /\ Owners # {} /\ Owners' = {} => ~open']_vars
  <2> SUFFICES ASSUME IInv, [Next]_vars, open, Owners # {}, Owners' = {} PROVE ~open'
    OBVIOUS
  <2>1. Keeps
    BY Steps
  <2>2. Owned(writers, readers, caller)
    BY OwnersOwn DEF IInv
  <2>3. caller' \in BOOLEAN
    BY <2>1 DEF Keeps, IInv
  <2>4. ~Owned(writers', readers', caller')
    <3>1. ~caller'
      BY <2>3 DEF Owners
    <3>2. ASSUME NEW s \in Slot PROVE ~writers'[s].mpFile /\ ~readers'[s].mpFile
      <4>1. writers'[s].mpFile => <<"writer", s>> \in Owners'
        BY DEF Owners
      <4>2. readers'[s].mpFile => <<"reader", s>> \in Owners'
        BY DEF Owners
      <4> QED
        BY <4>1, <4>2
    <3> QED
      BY <3>1, <3>2 DEF Owned
  <2> QED
    BY <2>1, <2>2, <2>4 DEF Keeps, NotLost, IInv
<1> QED
  BY <1>1, <1>2, Initially, PTL DEF Spec, NeverLost
=============================================================================
