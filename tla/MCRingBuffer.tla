---------------------------- MODULE MCRingBuffer ----------------------------
EXTENDS ChunkedRingBuffer
CONSTANTS a, b
MCValue == {a, b}
=============================================================================
