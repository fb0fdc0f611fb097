------------------------------ MODULE MCWaveIo ------------------------------
EXTENDS WaveIo

Pcm16Mono     == [numChannels |-> 1, bits |-> 16, float |-> FALSE, numSamples |-> 0]
Pcm16Stereo   == [Pcm16Mono EXCEPT !.numChannels = 2]
Float32Mono   == [Pcm16Mono EXCEPT !.bits = 32, !.float = TRUE]
Pcm32Mono     == [Pcm16Mono EXCEPT !.bits = 32]
Pcm24Mono     == [Pcm16Mono EXCEPT !.bits = 24]
AllFormats    == {Pcm16Stereo, Float32Mono, Pcm32Mono, Pcm24Mono}
OneFormat     == {Pcm16Mono}

\* with FullScale 7: full scale of either sign, values that need rounding
Recording == << <<14, -3, 4, 9>>, <<-14, 7, -5, 2>> >>
=============================================================================
