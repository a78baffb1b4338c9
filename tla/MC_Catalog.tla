------------------------------ MODULE MC_Catalog ------------------------------
EXTENDS Catalog

CONSTANTS t1, i1, i2, db1

MC_TableNames == {t1}
MC_IndexNames == {i1, i2}
MC_KeyVals == {1, 2}
====
