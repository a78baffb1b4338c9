------------------------- MODULE MC_BufferPoolManager -------------------------
EXTENDS BufferPoolManager
=============================================================================
