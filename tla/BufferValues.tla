---------------------------- MODULE BufferValues ----------------------------
(* What AudioBuffer promises: every object has samples of its own.         *)
EXTENDS Naturals, Sequences

CONSTANTS Objects, Samples, MaxChannels, MaxSamples

VARIABLE audio   \* of the objects that exist: one sequence of samples per channel

With(f, o, x) == [p \in DOMAIN f \cup {o} |-> IF p = o THEN x ELSE f[p]]

Silence(channels, samples) == IF samples = 0 THEN << >>
                              ELSE [c \in 1..channels |-> [i \in 1..samples |-> 0]]

Init == audio = [o \in {} |-> << >>]

Resize(o) == \E channels \in 0..MaxChannels, samples \in 0..MaxSamples :
               audio' = With(audio, o, Silence(channels, samples))
Copy(o)   == \E src \in DOMAIN audio : audio' = With(audio, o, audio[src])
Move(o)   == \E src \in DOMAIN audio : audio' = With(With(audio, o, audio[src]), src, << >>)
Write(o)  == \E c \in DOMAIN audio[o] : \E i \in DOMAIN audio[o][c], s \in Samples :
               audio' = [audio EXCEPT ![o][c][i] = s]
Fill(o)   == \E cs \in SUBSET DOMAIN audio[o], s \in Samples \cup {0} :
               audio' = [audio EXCEPT ![o] = [c \in DOMAIN @ |->
                           [i \in DOMAIN @[c] |-> IF c \in cs THEN s ELSE @[c][i]]]]
Remove(o) == audio' = [p \in DOMAIN audio \ {o} |-> audio[p]]

Next == \E o \in Objects : \/ Resize(o) \/ Copy(o) \/ Move(o)
                           \/ o \in DOMAIN audio /\ (Write(o) \/ Fill(o) \/ Remove(o))

ValuesSpec == Init /\ [][Next]_audio
=============================================================================
