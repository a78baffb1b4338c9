------------------------------- MODULE Catalog -------------------------------
(***************************************************************************)
(* The catalog of src/src/catalog/catalog.cpp with the statements that    *)
(* change tables and indexes: InsertExecutor, DeleteExecutor and           *)
(* UpdateExecutor (their Init does all the work), and ExecuteEngine's      *)
(* CREATE/DROP TABLE and CREATE/DROP INDEX.                                *)
(*                                                                         *)
(* In memory, as in CatalogManager: table_names_, tables_, index_names_,  *)
(* indexes_, catalog_meta_ (the id sets of table_meta_pages_ and          *)
(* index_meta_pages_), next_table_id_ and next_index_id_.  On disk: the   *)
(* catalog meta page, the TableMetadata and IndexMetadata pages, the      *)
(* table heaps and the index-roots page with the trees it names.           *)
(*                                                                         *)
(* A table has one column; each of its indexes is keyed on it.  A heap is *)
(* the bag of the keys of its live rows (RowIds and the page chain are    *)
(* left out) and a B+ tree the bag of the keys it holds: BPlusTree.tla    *)
(* shows the tree implements a key set, LeafPage::Insert puts a present   *)
(* key in once more and Remove takes one entry out.  A tree exists in the *)
(* index-roots page from its first insertion (StartNewTree) on, also      *)
(* after it is emptied, and nothing removes it: DropIndex never calls     *)
(* BPlusTree::Destroy.                                                    *)
(***************************************************************************)
EXTENDS Naturals, FiniteSets, FiniteSetsExt, Bags, Functions

CONSTANTS
    TableNames,  \* table names a statement may use
    IndexNames,  \* index names a statement may use
    KeyVals,     \* values of the key column
    MaxRows,     \* bound on the rows of one heap
    MaxTableId,  \* bound on next_table_id_
    MaxIndexId,  \* bound on next_index_id_
    MaxEntries,  \* bound on the entries of a tree a new index takes over
    DbName       \* the one database name a statement may use

NoName == "none"   \* a metadata page never written
NoDb == "none"     \* current_db_ empty: no USE has run

TableIds == 0 .. MaxTableId - 1
IndexIds == 0 .. MaxIndexId - 1

VARIABLES
    table_names,     \* table_names_: table name -> table id
    tables,          \* tables_: table id -> the name in its TableInfo
    index_names,     \* index_names_: table name -> (index name -> index id)
    indexes,         \* indexes_: index id -> [name, table] of its IndexInfo
    catalog_meta,    \* catalog_meta_: [tables, indexes], the ids it holds
    next_table_id,   \* next_table_id_
    next_index_id,   \* next_index_id_
    meta_page,       \* the catalog meta page on disk
    table_meta_page, \* TableMetadata pages on disk: table id -> name
    index_meta_page, \* IndexMetadata pages on disk: index id -> [name, table]
    heap,            \* the rows of each table heap: table id -> bag of keys
    roots,           \* the trees of the index-roots page: index id -> bag
    in_dbs,          \* DbName is a key of ExecuteEngine's dbs_ (and has a file)
    current_db       \* ExecuteEngine's current_db_

catalogVars == <<table_names, tables, index_names, indexes, catalog_meta,
                 next_table_id, next_index_id, meta_page, table_meta_page,
                 index_meta_page, heap, roots>>
vars == <<catalogVars, in_dbs, current_db>>

\* The tree of an index id, empty when the index-roots page has none.
IndexTree(r, iid) == IF iid \in DOMAIN r THEN r[iid] ELSE EmptyBag

\* InsertEntry of every key of b into each index of S: the first key
\* starts a tree (StartNewTree registers its root).
AddToIndexes(r, S, b) ==
    IF b = EmptyBag THEN r
    ELSE [x \in DOMAIN r \cup S |->
            IF x \in S THEN IndexTree(r, x) (+) b ELSE r[x]]

\* Mutant: an entry is counted down whether or not the tree has it.
RemoveFromIndexesNoFloor(r, S, b) ==
    [x \in DOMAIN r |->
        IF x \in S THEN [e \in DOMAIN r[x] |-> r[x][e] - CopiesIn(e, b)]
        ELSE r[x]]

\* RemoveEntry of every key of b from each index of S: an absent key
\* changes nothing, an emptied tree keeps its root.
RemoveFromIndexes(r, S, b) ==
    [x \in DOMAIN r |-> IF x \in S THEN r[x] (-) b ELSE r[x]]

\* TableHeap::InsertTuple, MarkDelete and UpdateTuple on the live rows
\* of a heap.  Which page takes a row (the last page, the first with room
\* or a new one) is left out.  A row that no longer fits its page on
\* update is deleted and inserted again, which leaves the same live rows.
InsertTuples(h, b) == h (+) b
MarkDeletes(h, b) == h (-) b
UpdateTuples(h, old, new) == (h (-) old) (+) new

\* The constructor's loops: next id is one above the largest id read.
NextIdAfter(S) == IF S = {} THEN 0 ELSE Max(S) + 1

\* GetTableIndexes: the ids in index_names_[table_name].
TableIndexes(tname) ==
    IF tname \in DOMAIN index_names THEN Range(index_names[tname]) ELSE {}

\* The catalog the constructor builds from meta m and the metadata pages.
TablesFrom(m) == [tid \in m.tables |-> table_meta_page[tid]]
IndexNamesFrom(m) ==
    LET tname(iid) == table_meta_page[index_meta_page[iid].table]
    IN  [t \in {tname(iid) : iid \in m.indexes} |->
          [i \in {index_meta_page[iid].name :
                    iid \in {j \in m.indexes : tname(j) = t}} |->
            CHOOSE iid \in m.indexes :
                tname(iid) = t /\ index_meta_page[iid].name = i]]

\* CatalogManager(init = true), in a new DBStorageEngine: nothing yet.
Fresh == [maps |-> << >>,
          meta |-> [tables |-> {}, indexes |-> {}],
          tmeta |-> [tid \in TableIds |-> NoName],
          imeta |-> [iid \in IndexIds |-> [name |-> NoName, table |-> 0]],
          heap |-> [tid \in TableIds |-> EmptyBag]]

\* The catalog variables set to a fresh catalog, and the same next-state.
EmptyCatalog ==
    /\ table_names = Fresh.maps /\ tables = Fresh.maps
    /\ index_names = Fresh.maps /\ indexes = Fresh.maps
    /\ catalog_meta = Fresh.meta /\ meta_page = Fresh.meta
    /\ next_table_id = 0 /\ next_index_id = 0
    /\ table_meta_page = Fresh.tmeta /\ index_meta_page = Fresh.imeta
    /\ heap = Fresh.heap /\ roots = Fresh.maps
FreshCatalog ==
    /\ table_names' = Fresh.maps /\ tables' = Fresh.maps
    /\ index_names' = Fresh.maps /\ indexes' = Fresh.maps
    /\ catalog_meta' = Fresh.meta /\ meta_page' = Fresh.meta
    /\ next_table_id' = 0 /\ next_index_id' = 0
    /\ table_meta_page' = Fresh.tmeta /\ index_meta_page' = Fresh.imeta
    /\ heap' = Fresh.heap /\ roots' = Fresh.maps

\* The ExecuteEngine constructor opens every file of ./databases; the
\* database may or may not exist, and no USE has run yet.
Init ==
    /\ EmptyCatalog
    /\ in_dbs \in BOOLEAN
    /\ current_db = NoDb

\* The prologue of Execute and the dbs_.find(current_db_) test of every
\* catalog statement: the current database is open.
DbUsable == current_db = DbName /\ in_dbs
-----------------------------------------------------------------------------
\* CatalogManager::CreateTable: a new id, a TableMetadata page written and
\* flushed, a new empty heap, and the catalog meta page flushed.
CreateTable(tname) ==
    /\ tname \notin DOMAIN table_names
    /\ next_table_id < MaxTableId
    /\ LET tid == next_table_id IN
       /\ table_names' = table_names @@ (tname :> tid)
       /\ tables' = tables @@ (tid :> tname)
       /\ table_meta_page' = [table_meta_page EXCEPT ![tid] = tname]
       /\ heap' = [heap EXCEPT ![tid] = EmptyBag]
       /\ catalog_meta' = [catalog_meta EXCEPT !.tables = @ \cup {tid}]
       /\ next_table_id' = tid + 1
       /\ meta_page' = catalog_meta'
    /\ UNCHANGED <<index_names, indexes, next_index_id, index_meta_page, roots>>

\* Mutant: the loop over the table's indexes never runs.
DroppedWithTableNone(tname) == {}

\* The loop at the end of DropTable: DropIndex of each index in a copy
\* of index_names_[table_name].
DroppedWithTable(tname) == TableIndexes(tname)

\* CatalogManager::DropTable: the DeletePage of the metadata page fails
\* (CreateTable left it pinned), the heap's pages stay, then the indexes
\* go.  Nothing is flushed.
DropTable(tname) ==
    /\ tname \in DOMAIN table_names
    /\ LET tid == table_names[tname]
           dropped == DroppedWithTable(tname)
       IN
       /\ catalog_meta' = [tables |-> catalog_meta.tables \ {tid},
                           indexes |-> catalog_meta.indexes \ dropped]
       /\ table_names' = Restrict(table_names, DOMAIN table_names \ {tname})
       /\ tables' = Restrict(tables, DOMAIN tables \ {tid})
       /\ index_names' = Restrict(index_names, DOMAIN index_names \ {tname})
       /\ indexes' = Restrict(indexes, DOMAIN indexes \ dropped)
    /\ UNCHANGED <<next_table_id, next_index_id, meta_page, table_meta_page,
                   index_meta_page, heap, roots>>

\* Mutant: the rows already in the table are not inserted.
BuildIndexSkipRows(r, iid, rows) == r

\* The end of CreateIndex: the new BPlusTree takes over the root the
\* index-roots page holds for its id, if any (its constructor), and the
\* table iterator loop calls InsertEntry for every row.
BuildIndex(r, iid, rows) == AddToIndexes(r, {iid}, rows)

\* CatalogManager::CreateIndex, the key column found: a new id, an
\* IndexMetadata page written and flushed, the IndexInfo, the tree built.
\* The catalog meta page is not flushed.
CreateIndex(tname, iname) ==
    /\ tname \in DOMAIN table_names
    /\ iname \notin DOMAIN (IF tname \in DOMAIN index_names
                            THEN index_names[tname] ELSE << >>)
    /\ next_index_id < MaxIndexId
    /\ LET iid == next_index_id
           tid == table_names[tname]
       IN
       /\ BagCardinality(IndexTree(roots, iid) (+) heap[tid]) <= MaxEntries
       /\ index_names' =
            IF tname \in DOMAIN index_names
            THEN [index_names EXCEPT ![tname] = @ @@ (iname :> iid)]
            ELSE index_names @@ (tname :> (iname :> iid))
       /\ catalog_meta' = [catalog_meta EXCEPT !.indexes = @ \cup {iid}]
       /\ index_meta_page' =
            [index_meta_page EXCEPT ![iid] = [name |-> iname, table |-> tid]]
       /\ indexes' = indexes @@ (iid :> [name |-> iname, table |-> tid])
       /\ next_index_id' = iid + 1
       /\ roots' = BuildIndex(roots, iid, heap[tid])
    /\ UNCHANGED <<table_names, tables, next_table_id, meta_page,
                   table_meta_page, heap>>

\* The loop of ExecuteDropIndex over GetTables: the tables whose map in
\* index_names_ has the name (DropIndex leaves the others as they were).
TablesWithIndex(iname) ==
    {t \in Range(tables) \cap DOMAIN index_names : iname \in DOMAIN index_names[t]}

\* ExecuteEngine::ExecuteDropIndex: CatalogManager::DropIndex of the name
\* on every table of GetTables; each takes the table's map out of
\* index_names_ and puts it back without the index unless it is empty.
\* The IndexMetadata pages and the trees stay (no DeletePage, no
\* Destroy); nothing is flushed.
DropIndex(iname) ==
    LET onTables == TablesWithIndex(iname)
        emptied == {t \in onTables : DOMAIN index_names[t] = {iname}}
        dropped == {index_names[t][iname] : t \in onTables}
    IN
    /\ onTables # {}
    /\ index_names' =
         [t \in DOMAIN index_names \ emptied |->
            IF t \in onTables
            THEN Restrict(index_names[t], DOMAIN index_names[t] \ {iname})
            ELSE index_names[t]]
    /\ catalog_meta' = [catalog_meta EXCEPT !.indexes = @ \ dropped]
    /\ indexes' = Restrict(indexes, DOMAIN indexes \ dropped)
    /\ UNCHANGED <<table_names, tables, next_table_id, next_index_id,
                   meta_page, table_meta_page, index_meta_page, heap, roots>>

\* InsertExecutor::CheckUniqueInvalid: ScanKey finds the key in no index.
CheckUniqueInvalid(S, k) == \A iid \in S : ~BagIn(k, IndexTree(roots, iid))

\* InsertExecutor::Init for INSERT of the rows of batch: GetTable,
\* GetTableIndexes, GetInsertTuples (any row failing CheckUniqueInvalid
\* throws before anything is written), InsertTuple of every row, then
\* UpdateIndexes.  Each row is checked against the indexes only, not
\* against the rows before it in the batch.
Insert(tname, batch) ==
    /\ tname \in DOMAIN table_names
    /\ LET tid == table_names[tname]
           idx == TableIndexes(tname)
       IN
       /\ \A k \in BagToSet(batch) : CheckUniqueInvalid(idx, k)
       /\ BagCardinality(heap[tid] (+) batch) <= MaxRows
       /\ heap' = [heap EXCEPT ![tid] = InsertTuples(@, batch)]
       /\ roots' = AddToIndexes(roots, idx, batch)
    /\ UNCHANGED <<table_names, tables, index_names, indexes, catalog_meta,
                   next_table_id, next_index_id, meta_page, table_meta_page,
                   index_meta_page>>

\* The rows of the heap a WHERE key = k selects (the child scan).
Selected(tid, k) == [x \in {k} |-> CopiesIn(k, heap[tid])]

\* DeleteExecutor::Init for DELETE ... WHERE key = k: MarkDelete of every
\* selected row, then RemoveEntry of its key from every index.
Delete(tname, k) ==
    /\ tname \in DOMAIN table_names
    /\ LET tid == table_names[tname]
           rows == Selected(tid, k)
       IN
       /\ BagIn(k, heap[tid])
       /\ heap' = [heap EXCEPT ![tid] = MarkDeletes(@, rows)]
       /\ roots' = RemoveFromIndexes(roots, TableIndexes(tname), rows)
    /\ UNCHANGED <<table_names, tables, index_names, indexes, catalog_meta,
                   next_table_id, next_index_id, meta_page, table_meta_page,
                   index_meta_page>>

\* UpdateExecutor::UpdateIndexes: for each index, RemoveEntry of every
\* old key, then InsertEntry of every new key.
UpdateIndexes(r, S, old, new) ==
    AddToIndexes(RemoveFromIndexes(r, S, old), S, new)

\* UpdateExecutor::Init for UPDATE ... SET key = k2 WHERE key = k:
\* GenerateUpdatedTuple and UpdateTuple for every selected row, then
\* UpdateIndexes.  No uniqueness check is made.
Update(tname, k, k2) ==
    /\ tname \in DOMAIN table_names
    /\ k # k2
    /\ LET tid == table_names[tname]
           old == Selected(tid, k)
           new == [x \in {k2} |-> old[k]]
       IN
       /\ BagIn(k, heap[tid])
       /\ heap' = [heap EXCEPT ![tid] = UpdateTuples(@, old, new)]
       /\ roots' = UpdateIndexes(roots, TableIndexes(tname), old, new)
    /\ UNCHANGED <<table_names, tables, index_names, indexes, catalog_meta,
                   next_table_id, next_index_id, meta_page, table_meta_page,
                   index_meta_page>>

\* ~CatalogManager flushes the catalog meta page, and CatalogManager(init
\* = false) reads it back with the metadata pages, numbering new tables
\* and indexes from one above the largest id it read.  Heaps and trees
\* are on disk.
ReopenCatalog ==
    LET m == catalog_meta IN
    /\ meta_page' = m
    /\ catalog_meta' = m
    /\ tables' = TablesFrom(m)
    /\ table_names' = [t \in Range(TablesFrom(m)) |->
                         CHOOSE tid \in m.tables : table_meta_page[tid] = t]
    /\ next_table_id' = NextIdAfter(m.tables)
    /\ indexes' = [iid \in m.indexes |-> index_meta_page[iid]]
    /\ index_names' = IndexNamesFrom(m)
    /\ next_index_id' = NextIdAfter(m.indexes)
    /\ UNCHANGED <<table_meta_page, index_meta_page, heap, roots>>

\* Row batches of one statement.
Batches == {b \in UNION {[D -> 1 .. MaxRows] : D \in SUBSET KeyVals} :
               BagCardinality(b) \in 1 .. MaxRows}

\* The prologue of Execute, run for every statement: with current_db_
\* set, dbs_[current_db_]->MakeExecuteContext.  operator[] inserts a null
\* engine for a name dbs_ no longer has and the call dereferences it.
PrologueCrashes == current_db = DbName /\ ~in_dbs

\* ExecuteCreateDatabase: a new DBStorageEngine(name, true) with a fresh
\* file and catalog; DB_ALREADY_EXIST if dbs_ has the name.
CreateDatabase ==
    /\ ~in_dbs
    /\ in_dbs' = TRUE
    /\ FreshCatalog
    /\ UNCHANGED current_db

\* ExecuteDropDatabase: the entry is erased from dbs_ and the file
\* removed; the engine is never deleted but nothing can reach it again,
\* so the model forgets its catalog.  current_db_ is left as it was.
DropDatabase ==
    /\ in_dbs
    /\ in_dbs' = FALSE
    /\ FreshCatalog
    /\ UNCHANGED current_db

\* ExecuteUseDatabase: current_db_ is set if dbs_ has the name.
UseDatabase ==
    /\ in_dbs
    /\ current_db' = DbName
    /\ UNCHANGED <<catalogVars, in_dbs>>

\* A statement whose prologue survives and that changes the databases.
DbStatement ==
    /\ ~PrologueCrashes
    /\ CreateDatabase \/ DropDatabase \/ UseDatabase

\* Any statement after the current database was dropped: the prologue
\* crashes the process, which is started again.  The constructor opens
\* the files of ./databases, which no longer hold DbName.
CrashAndRestart ==
    /\ PrologueCrashes
    /\ current_db' = NoDb
    /\ UNCHANGED <<catalogVars, in_dbs>>

\* QUIT (its prologue survives) and a new ExecuteEngine: ~DBStorageEngine
\* and DBStorageEngine(name, false) reopen the catalog of an open
\* database; no USE has run in the new process.
Reopen ==
    /\ ~PrologueCrashes
    /\ current_db' = NoDb
    /\ UNCHANGED in_dbs
    /\ \/ in_dbs /\ ReopenCatalog
       \/ ~in_dbs /\ UNCHANGED catalogVars

\* ExecuteCreateTable: the column list becomes the schema (here the one
\* key column; a primary key names its column unique); a bad column list
\* returns before the catalog is touched.
ExecuteCreateTable(t) == CreateTable(t)

\* ExecuteDropTable: CatalogManager::DropTable of the name.
ExecuteDropTable(t) == DropTable(t)

\* ExecuteCreateIndex: DB_TABLE_NOT_EXIST unless GetTable finds the
\* table, then CatalogManager::CreateIndex on the key list.
ExecuteCreateIndex(t, i) == CreateIndex(t, i)

\* One SQL statement on the tables of the current database that changes
\* the catalog or the data: Execute's switch to its Execute* handler, or
\* the planner and ExecutePlan for INSERT, DELETE and UPDATE.
Statement ==
    /\ DbUsable
    /\ UNCHANGED <<in_dbs, current_db>>
    /\ \/ \E t \in TableNames : ExecuteCreateTable(t) \/ ExecuteDropTable(t)
       \/ \E t \in TableNames, i \in IndexNames : ExecuteCreateIndex(t, i)
       \/ \E i \in IndexNames : DropIndex(i)
       \/ \E t \in TableNames, b \in Batches : Insert(t, b)
       \/ \E t \in TableNames, k \in KeyVals : Delete(t, k)
       \/ \E t \in TableNames, k, k2 \in KeyVals : Update(t, k, k2)

Next == Statement \/ DbStatement \/ CrashAndRestart \/ Reopen

Spec == Init /\ [][Next]_vars
-----------------------------------------------------------------------------
IndexInfo == [name : IndexNames \cup {NoName}, table : TableIds]

TypeOK ==
    /\ table_names \in [DOMAIN table_names -> TableIds]
    /\ DOMAIN table_names \subseteq TableNames
    /\ DOMAIN tables \subseteq TableIds /\ Range(tables) \subseteq TableNames
    /\ DOMAIN indexes \subseteq IndexIds /\ Range(indexes) \subseteq IndexInfo
    /\ catalog_meta \in [tables : SUBSET TableIds, indexes : SUBSET IndexIds]
    /\ meta_page \in [tables : SUBSET TableIds, indexes : SUBSET IndexIds]
    /\ next_table_id \in 0 .. MaxTableId /\ next_index_id \in 0 .. MaxIndexId
    /\ table_meta_page \in [TableIds -> TableNames \cup {NoName}]
    /\ index_meta_page \in [IndexIds -> IndexInfo]
    /\ \A tid \in TableIds : IsABag(heap[tid]) /\ BagToSet(heap[tid]) \subseteq KeyVals
    /\ DOMAIN roots \subseteq IndexIds
    /\ \A iid \in DOMAIN roots : IsABag(roots[iid])
    /\ in_dbs \in BOOLEAN /\ current_db \in {NoDb, DbName}

(* The catalog agrees with itself and with its metadata pages, across     *)
(* CreateTable, DropTable (with the DropIndex loop), CreateIndex,         *)
(* ExecuteDropIndex over all tables, and the rebuild in the constructor:  *)
(* table_names_ and tables_ are inverse maps over the ids of catalog_meta_,*)
(* every index of indexes_ is in catalog_meta_, is named in index_names_  *)
(* under its own table's name, and belongs to a table that exists; the    *)
(* metadata pages describe the live tables and indexes; every live id is  *)
(* below the next id to be handed out.                                    *)
CatalogConsistent ==
    /\ DOMAIN tables = catalog_meta.tables
    /\ \A t \in DOMAIN table_names :
          table_names[t] \in DOMAIN tables /\ tables[table_names[t]] = t
    /\ Cardinality(DOMAIN table_names) = Cardinality(DOMAIN tables)
    /\ DOMAIN indexes = catalog_meta.indexes
    /\ \A iid \in DOMAIN indexes :
          LET tid == indexes[iid].table IN
          /\ tid \in DOMAIN tables
          /\ tables[tid] \in DOMAIN index_names
          /\ index_names[tables[tid]][indexes[iid].name] = iid
    /\ \A t \in DOMAIN index_names :
          /\ t \in DOMAIN table_names
          /\ \A i \in DOMAIN index_names[t] : index_names[t][i] \in DOMAIN indexes
    /\ \A tid \in DOMAIN tables : table_meta_page[tid] = tables[tid]
    /\ \A iid \in DOMAIN indexes : index_meta_page[iid] = indexes[iid]
    /\ \A tid \in DOMAIN tables : tid < next_table_id
    /\ \A iid \in DOMAIN indexes : iid < next_index_id

(* Every row of a table is in each of its indexes (as often as it is in  *)
(* the heap), whatever sequence of INSERT, DELETE, UPDATE, CREATE INDEX,  *)
(* drops and restarts ran: an index lookup never misses a row.            *)
IndexComplete ==
    \A iid \in DOMAIN indexes :
        heap[indexes[iid].table] \sqsubseteq IndexTree(roots, iid)

\* IndexScanExecutor::IndexFilterRows for WHERE key = k with one index
\* matched: ScanKey's point lookup, BPlusTree::GetValue, finds the leaf
\* and pushes the one RowId Lookup returns, if the leaf has k.  Every
\* RowId becomes a row of the result (GetTuple's result is not checked).
IndexScan(iid, k) == IF BagIn(k, IndexTree(roots, iid)) THEN {k} ELSE {}

(* spec.md 4.5: an index holds exactly the keys of its table's rows,      *)
(* CreateIndex filling it from the rows already there, so a SELECT ...    *)
(* WHERE key = k answered by IndexScanExecutor finds a row exactly when a *)
(* sequential scan does.  Its tree comes from the index-roots entry of    *)
(* its id; a dropped index's entry is never removed, and after a restart  *)
(* next_index_id_ may hand out its id again.                              *)
IndexMatchesTable ==
    \A iid \in DOMAIN indexes, k \in KeyVals :
        IndexScan(iid, k) = {x \in {k} : BagIn(x, heap[indexes[iid].table])}

(* A statement always finds the database it runs in: once USE has set    *)
(* current_db_, Execute's prologue and every Execute* handler find an     *)
(* open DBStorageEngine under it in dbs_, also after DROP DATABASE.       *)
CurrentDatabaseOpen == current_db # NoDb => in_dbs
====
