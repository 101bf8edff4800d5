---------------------------- MODULE MCMemStream ----------------------------
\* A buffer of three bytes that grows by two, up to eight.
EXTENDS MemStream
CONSTANTS a1, a2

MCOffsets == {-2, -1, 0, 1, 5}
=============================================================================
