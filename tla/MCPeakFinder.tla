---------------------------- MODULE MCPeakFinder ----------------------------
EXTENDS PeakFinder
Lowest == -9          \* int: below every sample
=============================================================================
