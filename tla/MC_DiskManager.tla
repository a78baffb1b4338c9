---------------------------- MODULE MC_DiskManager ----------------------------
EXTENDS DiskManager
=============================================================================
