----------------------------- MODULE MC_BPlusTree -----------------------------
EXTENDS BPlusTree
=============================================================================
