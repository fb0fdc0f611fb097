------------------------------- MODULE WaveIo -------------------------------
(***************************************************************************)
(* WaveReader and WaveWriter (src/dsp/waveIo.cpp): one file, its one       *)
(* stream, and the objects that hand the stream to each other.  A file is  *)
(* a sequence of words, each what the code passes to fwrite() as one item: *)
(* a chunk header, the format, a sample value.  Steps of writing may fail  *)
(* in the middle.  Counts are unsigned, modulo PosMod.  The sample rate    *)
(* and byte orders are left out.                                           *)
(***************************************************************************)
EXTENDS RingMath, Sequences, FiniteSets, FiniteSetsExt

CONSTANTS
  Formats,       \* WaveInfos with 0 samples
  Source,        \* Source[c][i]: the program's recording, in units of 1/(2 FullScale)
  FullScale,     \* FullScaleValue: the integer that stands for 1.0
  kMaxBufferSize,  \* in bytes
  Slot,          \* the reader and writer objects
  Foreign,       \* BOOLEAN: there may be a file of another program
  WholeReads,    \* BOOLEAN: the program reads blocks that fit the conversion buffer
  MaxRead,       \* bound: frames per read()
  MaxFaults      \* bound: writing steps that fail

ASSUME WaveAssumption == /\ FullScale \in Nat \ {0} /\ kMaxBufferSize \in Nat \ {0}
                         /\ MaxRead \in Nat /\ MaxFaults \in Nat
                         /\ Foreign \in BOOLEAN /\ WholeReads \in BOOLEAN

VARIABLES
  file, pos, open,   \* the file, the stream's position in it, and whether it is open
  format,            \* what this behaviour records
  writers, readers,  \* per slot: mpFile # nullptr, mInfo (and mSamplePos)
  caller,            \* the program holds the FILE* that release() gave it
  faults,
  next, accepted, intact,  \* what was recorded: next frame of Source, frames given
                           \* to write(), and how many of them before a fault
  heard, overrun     \* frames read() returned since the reader was made; it ever
                     \* returned more than it was asked for

objects == <<writers, readers, caller>>
history == <<next, accepted, intact>>
vars == <<file, pos, open, format, objects, faults, history, heard, overrun>>

NoInfo == [numChannels |-> 0, bits |-> 0, float |-> FALSE, numSamples |-> 0]
isValid(info) == info.numChannels > 0
NoWriter == [mpFile |-> FALSE, mInfo |-> NoInfo]
NoReader == [mpFile |-> FALSE, mInfo |-> NoInfo, mSamplePos |-> 0]

-----------------------------------------------------------------------------
(* Words and sample values *)

Chunk(id, size) == [kind |-> "chunk", id |-> id, bytes |-> 8, size |-> size, v |-> 0]
Word(kind, bytes, v) == [kind |-> kind, bytes |-> bytes, v |-> v]

\* what writeWaveInfo() puts in front of the samples
WaveWords(info) ==
  LET sampleBytes   == info.numChannels * info.numSamples * (info.bits \div 8)
      waveChunkSize == 16 + (IF info.bits > 16 THEN 2 ELSE 0)
      subchunksSize == 8 + ((sampleBytes + 1) \div 2) * 2 + 12 + waveChunkSize
  IN <<Chunk("RIFF", subchunksSize), Word("WAVE", 4, 0),
       Chunk("fmt ", waveChunkSize), Word("format", 16, [info EXCEPT !.numSamples = 0])>>
     \o (IF info.bits > 16 THEN <<Word("extraSize", 2, 0)>> ELSE << >>)
     \o (IF info.bits > 16 \/ info.float
         THEN <<Chunk("fact", 4), Word("numSamples", 4, info.numSamples)>> ELSE << >>)
     \o <<Chunk("data", sampleBytes)>>

\* C's conversion of float to integer drops the fraction; the integer is stored
\* in two's complement.
Truncated(x) == IF x >= 0 THEN x \div 2 ELSE -((-x) \div 2)
Encode(x) == IF format.float THEN x ELSE Truncated(x) % (2 * (FullScale + 1))
Decode(v) == IF format.float THEN v
             ELSE 2 * (IF v > FullScale THEN v - 2 * (FullScale + 1) ELSE v)

channels == format.numChannels
valueBytes == format.bits \div 8

\* what read() and write() convert.  With 8 bits they drop the file, with others they
\* do nothing, time and again (V1_INVALID() stops debug builds only)
Convertible == format.bits \in {16, 32}

framesPerBuffer(wanted) == Max({1, Min({(kMaxBufferSize \div valueBytes) \div channels, wanted})})

\* (mutant of interleaved: the values of one channel follow each other)
interleavedByChannel(from, n) ==
  [i \in 1..(n * channels) |->
     Word("value", valueBytes, Encode(Source[((i - 1) \div n) + 1][from + ((i - 1) % n)]))]

\* convertAndInterleaveAudio() of n frames of the source
interleaved(from, n) ==
  [i \in 1..(n * channels) |->
     Word("value", valueBytes, Encode(Source[((i - 1) % channels) + 1][from + ((i - 1) \div channels)]))]

\* deinterleaveAndConvertAudio() of the values that begin at p, into targetChannels
deinterleaved(p, n, targetChannels) ==
  [i \in 1..n |-> [c \in 1..targetChannels |-> Decode(file[p + (i - 1) * channels + c - 1].v)]]

-----------------------------------------------------------------------------
(* The stream *)

Overwritten(p, words) ==
  [i \in 1..Max({Len(file), p - 1 + Len(words)}) |->
     IF i \in p..(p - 1 + Len(words)) THEN words[i - p + 1] ELSE file[i]]

\* how many of n words get written: all, or fewer if the step fails
Outcomes(n) == IF faults < MaxFaults THEN 0..n ELSE {n}

\* writeWaveInfo(), of which "done" words succeed
WriteInfo(info, done) ==
  /\ file' = Overwritten(1, SubSeq(WaveWords(info), 1, done))
  /\ pos' = done + 1
  /\ faults' = faults + IF done < Len(WaveWords(info)) THEN 1 ELSE 0

InfoOutcomes(info) == Outcomes(Len(WaveWords(info)))

\* where each word begins, in bytes
Offset == [i \in 1..(Len(file) + 1) |-> MapThenSumSet(LAMBDA j : file[j].bytes, 1..(i - 1))]

\* fseek(n, SEEK_CUR): the word n bytes behind p, 0 if there is none
Skip(p, n) ==
  LET targets == {q \in p..(Len(file) + 1) : Offset[q] = Offset[p] + n}
  IN IF targets = {} THEN 0 ELSE Min(targets)

\* the word of the next chunk header with this id, 0 if there is none
seekToChunk(begin, chunkId) ==
  LET seek[p \in 0..(Len(file) + 1)] ==
        IF p \notin DOMAIN file \/ file[p].kind # "chunk" THEN 0
        ELSE IF file[p].id = chunkId THEN p ELSE seek[Skip(p + 1, file[p].size)]
  IN seek[begin]

\* readInfo() from the current position: what it returns, and where the samples begin
readInfo(begin) ==
  LET isWave == /\ begin + 1 \in DOMAIN file
                /\ file[begin].kind = "chunk" /\ file[begin].id = "RIFF"
                /\ file[begin + 1].kind = "WAVE"
      fmt    == IF isWave THEN seekToChunk(begin + 2, "fmt ") ELSE 0
      isFmt  == fmt + 1 \in DOMAIN file /\ file[fmt + 1].kind = "format"
      data   == IF fmt > 0 /\ isFmt THEN seekToChunk(Skip(fmt + 1, file[fmt].size), "data") ELSE 0
      info   == file[fmt + 1].v
  IN IF data = 0 THEN [info |-> NoInfo, samples |-> Len(file) + 1]
     ELSE [info    |-> [info EXCEPT !.numSamples =
                          file[data].size \div ((info.bits * info.numChannels) \div 8)],
           samples |-> data + 1]

taste == readInfo(1).info

-----------------------------------------------------------------------------
(* WaveWriter *)

exists == file # << >>

\* the constructor from a path: a new file, or one that is overwritten
CreateWriter(s, overwrite) ==
  /\ ~open /\ ~writers[s].mpFile /\ (overwrite \/ ~exists)
  /\ open' = TRUE
  /\ \E done \in InfoOutcomes(format) :
       LET words == WaveWords(format) IN
       /\ file' = SubSeq(words, 1, done) /\ pos' = done + 1
       /\ faults' = faults + IF done < Len(words) THEN 1 ELSE 0
       /\ writers' = [writers EXCEPT ![s] = IF done < Len(words) THEN NoWriter
                                            ELSE [mpFile |-> TRUE, mInfo |-> format]]
  /\ accepted' = << >> /\ intact' = 0 /\ heard' = << >>
  /\ UNCHANGED <<format, readers, caller, next, overrun>>

\* the constructor from a FILE*, which the program has from release() (bound: not
\* one of another program)
WriterFromFile(s) ==
  /\ caller /\ ~writers[s].mpFile /\ file[3].id = "fmt "
  /\ \E done \in InfoOutcomes(format) :
       LET ok == done = Len(WaveWords(format)) IN
       /\ WriteInfo(format, done)
       /\ writers' = [writers EXCEPT ![s] = IF ok THEN [mpFile |-> TRUE, mInfo |-> format]
                                            ELSE NoWriter]
       /\ caller' = ~ok
  /\ accepted' = << >> /\ intact' = 0 /\ heard' = << >>
  /\ UNCHANGED <<open, format, readers, next, overrun>>

\* (mutant of FinishFile: the header keeps the sample count of the constructor)
FinishFileStale(s, isOpen) == /\ WriteInfo([writers[s].mInfo EXCEPT !.numSamples = 0],
                                           Len(WaveWords(writers[s].mInfo)))
                             /\ open' = isOpen

\* "Overwrite the previous header, now with the right sample count"
FinishFile(s, isOpen) == /\ \E done \in InfoOutcomes(writers[s].mInfo) :
                              WriteInfo(writers[s].mInfo, done)
                         /\ open' = isOpen

\* s = std::move(t), s and t may be the same.  What t still says about its format
\* is left out.
WriterAssign(s, t) ==
  /\ IF writers[s].mpFile THEN FinishFile(s, FALSE) ELSE UNCHANGED <<file, pos, faults, open>>
  /\ writers' = [writers EXCEPT ![t] = NoWriter,
                                ![s] = IF s = t THEN NoWriter ELSE writers[t]]
  /\ UNCHANGED <<format, readers, caller, history, heard, overrun>>

DestroyWriter(s) ==
  /\ writers[s].mpFile
  /\ FinishFile(s, FALSE)
  /\ writers' = [writers EXCEPT ![s] = NoWriter]
  /\ UNCHANGED <<format, readers, caller, history, heard, overrun>>

ReleaseWriter(s) ==
  /\ writers[s].mpFile
  /\ FinishFile(s, TRUE)
  /\ writers' = [writers EXCEPT ![s] = NoWriter]
  /\ caller' = TRUE
  /\ UNCHANGED <<format, readers, history, heard, overrun>>

\* the loop of convertInterleaveWrite(), a buffer at a time
buffersOf(n) ==
  LET write[k \in 0..n] ==
        LET frames == Min({framesPerBuffer(n), n - k})
        IN IF k = n THEN << >> ELSE interleaved(next + k, frames) \o write[k + frames]
  IN write[0]

\* write() of the next n frames; it counts them also when writing them fails, or when
\* it cannot convert them
Write(s, n) ==
  /\ writers[s].mpFile /\ next + n - 1 \in DOMAIN Source[1]
  /\ \E done \in IF Convertible THEN Outcomes(n * channels) ELSE {0} :
       /\ file' = Overwritten(pos, SubSeq(buffersOf(n), 1, done)) /\ pos' = pos + done
       /\ faults' = faults + IF Convertible /\ done < n * channels THEN 1 ELSE 0
       /\ intact' = intact + IF faults = 0 THEN done \div channels ELSE 0
  /\ writers' = [writers EXCEPT ![s].mInfo.numSamples = Advance(@, n),
                                ![s].mpFile = format.bits # 8]
  /\ accepted' = accepted \o [i \in 1..n |-> next + i - 1] /\ next' = next + n
  /\ UNCHANGED <<open, format, readers, caller, heard, overrun>>

-----------------------------------------------------------------------------
(* WaveReader *)

\* mpFile is set only if the file is a wave: else the program keeps a FILE* it
\* passed, and a stream the constructor opened stays open
NewReader(s, begin) ==
  LET wave == readInfo(begin) IN
  /\ readers' = [readers EXCEPT ![s] = [mpFile |-> isValid(wave.info), mInfo |-> wave.info,
                                        mSamplePos |-> 0]]
  /\ pos' = wave.samples
  /\ heard' = << >>
  /\ UNCHANGED <<file, format, writers, faults, history, overrun>>

OpenReader(s) == /\ ~open /\ exists /\ ~readers[s].mpFile
                 /\ NewReader(s, 1)
                 /\ open' = TRUE /\ UNCHANGED caller

ReaderFromFile(s) == /\ caller /\ ~readers[s].mpFile
                     /\ NewReader(s, pos)
                     /\ caller' = ~readers'[s].mpFile /\ UNCHANGED open

\* (mutant of ReaderAssign: the file of the target stays open)
ReaderAssignOver(s, t) ==
  /\ readers' = [readers EXCEPT ![t] = NoReader,
                                ![s] = IF s = t THEN NoReader ELSE readers[t]]
  /\ UNCHANGED <<file, pos, open, format, writers, caller, faults, history, heard, overrun>>

\* (mutant of ReaderAssign: the source keeps its file)
ReaderAssignCopy(s, t) ==
  /\ open' = (open /\ ~readers[s].mpFile)
  /\ readers' = [readers EXCEPT ![s] = readers[t]]
  /\ UNCHANGED <<file, pos, format, writers, caller, faults, history, heard, overrun>>

\* s = std::move(t)
ReaderAssign(s, t) ==
  /\ open' = (open /\ ~readers[s].mpFile)
  /\ readers' = [readers EXCEPT ![t] = NoReader,
                                ![s] = IF s = t THEN NoReader ELSE readers[t]]
  /\ UNCHANGED <<file, pos, format, writers, caller, faults, history, heard, overrun>>

DestroyReader(s) ==
  /\ readers[s].mpFile
  /\ open' = FALSE
  /\ readers' = [readers EXCEPT ![s] = NoReader]
  /\ UNCHANGED <<file, pos, format, writers, caller, faults, history, heard, overrun>>

ReleaseReader(s) ==
  /\ readers[s].mpFile
  /\ readers' = [readers EXCEPT ![s] = NoReader]
  /\ caller' = TRUE
  /\ UNCHANGED <<file, pos, open, format, writers, faults, history, heard, overrun>>

numSamplesToRead(r, n) == Min({Forward(r.mInfo.numSamples, r.mSamplePos), n})

\* readDeinterleaveConvert(): where the stream is in the end.  Every round fills
\* the whole buffer, the last one too.
endOfRead(wanted) ==
  LET read[p \in pos..(Len(file) + 1)] ==
        LET end == Min({p + framesPerBuffer(wanted) * channels, Len(file) + 1})
        IN IF (p - pos) \div channels >= wanted THEN p
           ELSE IF end - p < channels THEN end ELSE read[end]
  IN read[pos]

\* (mutant of Read: the position counts calls that were cut short in full)
ReadAsked(s, n, targetChannels) ==
  LET wanted  == numSamplesToRead(readers[s], n)
      samples == IF Convertible THEN (endOfRead(wanted) - pos) \div channels ELSE 0
  IN /\ readers[s].mpFile /\ (WholeReads => n * channels * valueBytes <= kMaxBufferSize)
     /\ readers' = [readers EXCEPT ![s].mSamplePos = Advance(@, n),
                                   ![s].mpFile = format.bits # 8]
     /\ pos' = IF Convertible THEN endOfRead(wanted) ELSE pos
     /\ heard' = heard \o deinterleaved(pos, samples, targetChannels)
     /\ overrun' = (overrun \/ samples > n)
     /\ UNCHANGED <<file, open, format, writers, caller, faults, history>>

\* read() into a block of n frames, of all or of fewer channels
Read(s, n, targetChannels) ==
  LET wanted  == numSamplesToRead(readers[s], n)
      samples == IF Convertible THEN (endOfRead(wanted) - pos) \div channels ELSE 0
  IN /\ readers[s].mpFile /\ (WholeReads => n * channels * valueBytes <= kMaxBufferSize)
     /\ readers' = [readers EXCEPT ![s].mSamplePos = Advance(@, samples),
                                   ![s].mpFile = format.bits # 8]
     /\ pos' = IF Convertible THEN endOfRead(wanted) ELSE pos
     /\ heard' = heard \o deinterleaved(pos, samples, targetChannels)
     /\ overrun' = (overrun \/ samples > n)
     /\ UNCHANGED <<file, open, format, writers, caller, faults, history>>

-----------------------------------------------------------------------------
(* The program with the FILE* of release() *)

Rewind == /\ caller /\ pos # 1
          /\ pos' = 1
          /\ UNCHANGED <<file, open, format, objects, faults, history, heard, overrun>>

Close == /\ caller
         /\ open' = FALSE /\ caller' = FALSE
         /\ UNCHANGED <<file, pos, format, writers, readers, faults, history, heard, overrun>>

-----------------------------------------------------------------------------

\* a file with chunks that the reader does not know, around two frames
ForeignFile ==
  LET other == <<Chunk("LIST", 4), Word("other", 4, 0)>>
  IN <<Chunk("RIFF", 0), Word("WAVE", 4, 0)>> \o other
     \o <<Chunk("fmt ", 16), Word("format", 16, format)>> \o other
     \o <<Chunk("data", 2 * channels * valueBytes)>> \o interleaved(1, 2) \o other

Init == /\ format \in Formats
        /\ \/ file = << >> /\ accepted = << >> /\ intact = 0 /\ next = 1
           \/ Foreign /\ file = ForeignFile /\ accepted = <<1, 2>> /\ intact = 2 /\ next = 3
        /\ pos = 1 /\ open = FALSE
        /\ writers = [s \in Slot |-> NoWriter] /\ readers = [s \in Slot |-> NoReader]
        /\ caller = FALSE /\ faults = 0
        /\ heard = << >> /\ overrun = FALSE

ReadSome == \E s \in Slot, n \in 1..MaxRead, c \in 1..channels : Read(s, n, c)

Next == \/ \E s \in Slot, overwrite \in BOOLEAN : CreateWriter(s, overwrite)
        \/ \E s \in Slot : WriterFromFile(s) \/ DestroyWriter(s) \/ ReleaseWriter(s)
        \/ \E s, t \in Slot : WriterAssign(s, t)
        \/ \E s \in Slot, n \in DOMAIN Source[1] : Write(s, n)
        \/ \E s \in Slot : OpenReader(s) \/ ReaderFromFile(s) \/ DestroyReader(s)
                          \/ ReleaseReader(s)
        \/ \E s, t \in Slot : ReaderAssign(s, t)
        \/ ReadSome \/ Rewind \/ Close

Spec == Init /\ [][Next]_vars

\* a program that has a reader goes on reading
FairSpec == Spec /\ WF_vars(ReadSome)

-----------------------------------------------------------------------------
(* Properties *)

Owners == {<<"writer", s>> : s \in {s \in Slot : writers[s].mpFile}}
          \cup {<<"reader", s>> : s \in {s \in Slot : readers[s].mpFile}}
          \cup (IF caller THEN {<<"caller">>} ELSE {})

TypeOK == /\ pos \in 1..(Len(file) + 1) /\ open \in BOOLEAN /\ caller \in BOOLEAN
          /\ format \in Formats /\ faults \in 0..MaxFaults
          /\ \A s \in Slot : /\ writers[s].mInfo.numSamples \in Pos
                             /\ readers[s].mSamplePos \in 0..readers[s].mInfo.numSamples
          /\ intact \in 0..Len(accepted)

\* Through construction, moves, release() and destruction, an open stream has at
\* most one owner, and nobody holds a closed one, which would be closed twice.
OneOwner == Cardinality(Owners) <= 1 /\ (Owners # {} => open)

\* A stream that somebody owns is closed before nobody owns it.
NeverLost == [][open /\ Owners # {} /\ Owners' = {} => ~open']_vars

\* Unless a step failed or the format is not converted, the header of a file that no
\* writer has any more announces all frames that write() took, and they follow it.
FileHoldsRecording ==
  faults = 0 /\ Convertible /\ exists /\ (\A s \in Slot : ~writers[s].mpFile) =>
    LET wave == readInfo(1) IN
    /\ wave.info = [format EXCEPT !.numSamples = Len(accepted)]
    /\ \A i \in DOMAIN accepted, c \in 1..channels :
         Encode(Source[c][accepted[i]]) = file[wave.samples + (i - 1) * channels + c - 1].v

\* What read() returns is what was recorded, in order, channel by channel and to
\* less than one step of the format; after a failed step still for all that was
\* written before it.
HearsRecording ==
  /\ TypeOK
  /\ \A i \in 1..Min({Len(heard), intact}) : \A c \in DOMAIN heard[i] :
       LET error == heard[i][c] - Source[c][accepted[i]]
       IN IF format.float THEN error = 0 ELSE error \in -1..1

\* (mutant of empty: one sample more is expected)
emptyLate(s) == readers[s].mpFile /\ readers[s].mSamplePos > readers[s].mInfo.numSamples
empty(s) == readers[s].mpFile /\ readers[s].mSamplePos >= readers[s].mInfo.numSamples

\* A loop that reads until empty() ends and has read all that the header announces
\* then ("Returns whether all input has been read"), whatever failed when the file was
\* written, if the format is converted and the stream holds what the reader lacks.
Reading == \E s \in Slot : readers[s].mpFile
Complete == \E s \in Slot :
  /\ readers[s].mpFile
  /\ (Len(file) + 1 - pos) \div channels >= Forward(readers[s].mInfo.numSamples, readers[s].mSamplePos)
AllRead == \E s \in Slot : empty(s) /\ Len(heard) = readers[s].mInfo.numSamples
ReadLoopEnds == Convertible /\ Complete ~> AllRead \/ ~Reading

\* "Reads samples into target": never more than it has room for.
ReadsIntoTarget == ~overrun
=============================================================================
