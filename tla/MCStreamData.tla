---------------------------- MODULE MCStreamData ----------------------------
EXTENDS StreamData
MCOffsets == -1..1
=============================================================================
