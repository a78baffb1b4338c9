CONSTANTS
    t1 = t1
    i1 = i1
    i2 = i2
    TableNames <- MC_TableNames
    IndexNames <- MC_IndexNames
    KeyVals <- MC_KeyVals
    MaxRows = 2
    MaxTableId = 2
    MaxIndexId = 2
    MaxEntries = 3
    db1 = db1
    DbName = db1
SPECIFICATION Spec
INVARIANT IndexMatchesTable
