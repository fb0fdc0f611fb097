------------------------------ MODULE MCTracing ------------------------------
EXTENDS Tracing
CONSTANTS r1, r2
=============================================================================
