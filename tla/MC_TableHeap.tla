---------------------------- MODULE MC_TableHeap ----------------------------
EXTENDS TableHeap
MC_INVALID == -1
MC_ZeroPage == [next |-> 0, prev |-> 0, slots |-> <<>>]
=============================================================================
