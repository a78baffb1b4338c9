# TLA+ models of SQL-construct's storage engine

This directory holds TLA+ models of SQL-construct (MiniSQL) under `src/src`. The models cover:
- the page replacers and the buffer pool;
- the disk manager's page allocator;
- the B+ tree index with its page algorithms;
- the table heap, its iterator and the sequential scan, over the buffer pool;
- the catalog, with the statements that change tables and indexes.

TLC checks each model against invariants and action properties taken from `spec.md`, from comments in the code, and from the tests.

## The system and how its parts interact

| Part | Source | Role |
|---|---|---|
| LRU replacer | `buffer/lru_replacer.cpp` | Tracks pinned and unpinned frames. `Victim` returns the frame unpinned longest ago. |
| Clock replacer | `buffer/clock_replacer.cpp` | An alternative replacer using second chance. The buffer pool does not use it. |
| Buffer pool manager | `buffer/buffer_pool_manager.cpp` | Maps page ids to frames. `FetchPage`/`NewPage` pin a page, `UnpinPage` releases it, `DeletePage` frees it, `FlushPage` writes it to disk. It builds an `LRUReplacer` and uses the disk manager for I/O and for allocating ids. Its destructor flushes every page. |
| Disk manager, bitmap pages | `storage/disk_manager.cpp`, `page/bitmap_page.cpp` | Allocates page ids with extent bitmaps. Holds the meta page, which it writes only in `Close`. |
| B+ tree pages | `page/b_plus_tree_*page.cpp` | Searches within a page and moves entries between pages. |
| B+ tree | `index/b_plus_tree.cpp` | A unique-key index on buffer-pool pages. It records its root in the index-roots page under its index id. A new `BPlusTree` takes over the root registered for its id. |
| Table heap, iterator | `storage/table_heap.cpp`, `storage/table_iterator.cpp` | A doubly linked chain of table pages holding rows. `InsertTuple` appends at `last_page_id_`, or, when that is INVALID (every heap the catalog reopens), walks the chain from the first page and then loops on `NewPage` until it gets a page. `Begin` and `operator++` walk the live rows in chain order. Every page access is a `FetchPage`/`UnpinPage` pair on the buffer pool, or should be. |
| Catalog | `catalog/catalog.cpp` | Tables and indexes, their metadata pages and the catalog meta page. `CreateIndex` fills a new index from the rows already in the table. After a restart, the constructor rebuilds everything from disk. |
| Executors, engine | `executor/*.cpp` | Run SQL. `ExecuteEngine` keeps one `DBStorageEngine` per file of `./databases` in `dbs_`, together with the name `USE` chose. Every statement's prologue builds its context from `dbs_[current_db_]`. `InsertExecutor` checks key uniqueness against every index, then inserts rows and index entries. `DeleteExecutor` and `UpdateExecutor` change the heap and then every index. |
| Records | `record/*.cpp` | Serialise rows, columns and schemas to bytes. |

The engine is single-threaded (spec.md 5), so nothing interleaves inside a single call. The hazards lie in how sequences of calls interact through shared state:
- pins taken by one caller and released by another;
- frames reused between calls;
- page structures rewritten by several steps of one split or merge;
- catalog state that a restart rebuilds from what reached the disk.

The models therefore make each public operation, or each SQL statement, one atomic step. The model checker explores every order of these steps.

## Modules

- **`LRUReplacer.tla`** models `LRUReplacer`.
  - State: one record of `lru_unpin_list` (a sequence, front first), `lru_pin_set` and `lru_unpin_set`.
  - `VictimR`, `PinR` and `UnpinR` are functions on that record. This lets the buffer pool apply them inside its own steps.
- **`ClockReplacer.tla`** models `ClockReplacer`.
  - State: `second_chance` (one of EMPTY/ACCESSED/UNUSED per frame) and `pointer`.
  - The two loops of `Victim` are the recursive operators `FirstPass` and `SecondPass`. They keep the code's use of frame id 0 as "nothing found".
- **`MC_Replacers.tla`** drives both replacers with any sequence of `Victim`, `Pin` and `Unpin` over the same frames. The two share no state.
- **`PagePool.tla`** restates `FetchPage`, `NewPage` and `UnpinPage` as functions from a pool record to a pool record, for callers that make several calls in one operation.
  - The record holds `page_table_` (`pt`), each frame's `page_id_`, `pin_count_`, `is_dirty_` and contents, the free list, the LRU replacer (through `LRUReplacer`'s functions), the disk and the number of ids allocated.
  - Page contents are whatever the caller keeps in a page. Ids are handed out in order from `FirstId`, as the allocator does when nothing is freed.
  - The hit path calls the replacer's `Pin` and leaves `pin_count_` alone; `NewPage` does not write a dirty victim back; `UnpinPage` ignores a page with pin count 0. All three are as in the code.
- **`TableHeap.tla`** models `TableHeap` with its iterator, driven by the executors.
  - State: the `pool` record, `first_page_id_`, `last_page_id_`, `ins` (an `InsertTuple` waiting in the `NewPage` loop), the scan (`scanning`, the iterator `it`, the rows `seen` so far), `halt` (the process stopped on a failed `ASSERT` or a null page) and `stmt`, the statement completed last.
  - A table page is a record `[next, prev, slots]`, each slot a value and a delete mark. `TablePage` is not part of the repository, so its operations (`Fits`, `AddTuple`, `MarkSlot`, `NextSlot`, `FirstSlot`, `NewTablePage`) follow its use in `table_heap.cpp` and `table_iterator.cpp`.
  - Actions: `InsertTuple` (both branches up to the `NewPage` loop), `InsertNewPage` (one pass of that loop: a failed `NewPage` sleeps and leaves everything as it was), `MarkDelete`, `UpdateTuple` (in place, or `MarkDelete`, unpin and `InsertTuple`), `GetTuple`, `ScanBegin` (`SeqScanExecutor::Init`, which calls `Begin`) and `ScanNext` (`SeqScanExecutor::Next`: `operator*`, then `operator++(int)`).
  - The recursive operators `InsertWalk`, `BeginFrom` and `AdvanceFrom` are the loops of those functions, with each fetch and unpin where the code makes it: `Begin` unpins `first_page_id_` rather than the page it fetched, and `operator++(int)` never unpins the page it starts from.
  - `Init` is a heap as `TableHeap::Create` leaves it (first page allocated and unpinned dirty), or as the catalog reopens it (only its first page id known, `last_page_id_` INVALID, nothing resident).
- **`RowBag.tla`** is the abstract specification of a table heap: a multiset of rows with `Insert`, `Delete` and `Update`. `TableHeap` refines it under `rows <- LiveRows(pool) (+) PendingOld`: the live rows of the chain, plus the old row of an `UpdateTuple` whose new row is still waiting for a page.
- **`DiskManager.tla`** models `DiskManager::AllocatePage`, `DeAllocatePage` and `IsPageFree`, with the extent bitmaps of `BitmapPage`.
  - The operations are functions on a record of `meta` (`num_allocated_pages_`, `num_extents_`, `extent_used_page_`) and `bitmap` (the set bits of each extent).
  - Counters are `uint32_t`, so arithmetic is modulo `Word`.
  - A failed bitmap allocation leaves the offset at `0xFFFFFFFF`, and the returned id is then extent*N - 1.
  - The standalone specification adds:
    - `Close`, the only write of the meta page;
    - `Restart`, in which the constructor reads the meta page back.
  - Its callers free only pages they were given.
- **`BufferPoolManager.tla`** models `BufferPoolManager`, composed with the LRU replacer (`INSTANCE LRUReplacer`) and the allocator (`INSTANCE DiskManager`).
  - State:
    - `page_table`;
    - the per-frame fields `page_id`, `pin_count`, `is_dirty` and `data`;
    - `free_list` and `replacer`;
    - the allocator record `dm`.
  - Page contents are abstracted to version numbers. The disk is a map from page to version.
  - Callers are ghost state:
    - `held`: the outstanding borrows per page and frame;
    - `latest`: the last version a caller wrote;
    - `live`: the pages callers own;
    - `fresh`: pages not written yet.
  - Actions:
    - `FetchPage` (= `FetchHit` or `FetchMiss`);
    - `NewPage`;
    - `Release`: a caller writes through its pointer and then calls `UnpinPage`;
    - `DeletePage` and `FlushPage`.
  - The use-after-erase at `DeletePage` line 133 is the constant `Garbage`: the set of values the read may yield besides the right one. The bpm runs set it to `{}`, the outcome of an allocator that leaves the freed hash node intact.
- **`BPlusTreePage.tla`** holds constant operators for the page algorithms:
  - `KeyIndex`, `KeyFind`, `LeafInsert` (`LeafPage::Insert`) and `LeafRemove` (`RemoveAndDeleteRecord`);
  - `Lookup` and `ValueIndex` (internal page), `GetMinSize`, and the moves between pages.
  - A key array is a sequence, and code offset i is position i+1. The binary searches are recursive operators, one call per loop iteration.
- **`BPlusTree.tla`** models `BPlusTree` over the buffer pool: its constructor, `GetValue`, `Insert` and `Remove`, as the actions `TreeGetValue`, `TreeInsert` and `TreeRemove`, plus a clean `Restart`.
  - State:
    - `pages`: page id to page record `[leaf, parent, keys, children, next]`;
    - `root_page_id`;
    - `registry`: this index's entry in the index-roots page;
    - `bp`: what the buffer pool knows of these pages: `res` (resident), `pin` (pin count 1) and `alloc` (allocated ids, with `RootsPage`);
    - `restarts`: the restarts taken, at most `MaxRestarts`.
    - `leaf_max_size`: `leaf_max_size_`, chosen by `Init` from `LeafMaxSizes` (a constructor argument) and never changed.
  - Each recursive helper is a function from a tree record to a tree record, with the same branches as the code: `InsertIntoParent`, `SplitLeaf`, `SplitInternal`, `CoalesceOrRedistribute`, `Coalesce`, `RedistributeLeaf`/`RedistributeInternal` and `AdjustRoot`.
  - Each helper makes every `FetchPage`, `UnpinPage`, `NewPage` and `DeletePage` call the code makes, in the code's order. This includes the fetch and unpin of every child that `CopyNFrom`, `PushBack` and `PushFront` re-home (`AdoptFetched`), and the walk of `FindLeafPage` (`LeafFetched`).
  - The pool is taken to have a frame per page id, so nothing is evicted; eviction is `BufferPoolManager.tla`'s subject. The calls then act as that model shows:
    - a fetch hit pins nothing, and a miss pins;
    - `DeletePage` refuses a pinned page;
    - `DeletePage` keeps the id of a page that is not resident.
  - `Restart` is `~BufferPoolManager` (every page flushed) followed by a new pool and the `BPlusTree` constructor. The constructor unpins the index-roots page only when the index has an entry.
  - RowIds travel with their keys and are left out. Page ids come from the lowest free id, as `DiskManager::AllocatePage` hands them out.
  - `CallerChecksUnique` says whether callers insert only absent keys.
- **`Index.tla`** is the abstract specification of the index: a set of keys with `Insert` (of an absent key) and `Remove`. `BPlusTree` refines it under the mapping `index <- AllKeys`, the keys held by the leaves.
- **`Catalog.tla`** models `CatalogManager` with the statements that change it or the data.
  - In-memory state mirrors the fields: `table_names`, `tables`, `index_names`, `indexes`, `catalog_meta` (the id sets), `next_table_id` and `next_index_id`.
  - On-disk state:
    - `meta_page`, `table_meta_page` and `index_meta_page`;
    - `heap`: the live rows of each table heap;
    - `roots`: the trees the index-roots page names.
  - Tables have one column, and every index is keyed on it. A heap is the bag of its rows' keys, and a tree is the bag of the keys it holds. `BPlusTree` shows the tree implements a key set. A duplicate key adds one more entry, and `Remove` takes one out.
  - The `TableHeap` calls become operations on the bag: `InsertTuples`, `MarkDeletes` and `UpdateTuples`.
  - Actions:
    - `CreateTable` and `DropTable`;
    - `CreateIndex`, whose `BuildIndex` step has the new `BPlusTree` take over any root registered for its id and then inserts every row;
    - `DropIndex`: `ExecuteDropIndex` over all tables;
    - `Insert`, `Delete` and `Update`: the executors' `Init`, with a `WHERE key = k` scan;
    - `Reopen`, a clean restart after `QUIT`: the destructors flush the catalog meta page and every buffer-pool page (`ReopenCatalog`), then the constructor rebuilds the maps and sets each next id to one above the largest id read.
  - The engine's database layer, for the one name `DbName`:
    - `in_dbs`: `dbs_` has the name. `ExecuteDropDatabase` removes the file along with the entry, so this one variable also stands for the file.
    - `current_db`: `current_db_`.
    - `Init` is the `ExecuteEngine` constructor, with the database present or not.
    - `CreateDatabase`, `DropDatabase` and `UseDatabase` (`DbStatement`).
    - `Statement`: the `ExecuteCreateTable`, `ExecuteDropTable` and `ExecuteCreateIndex` handlers and the planner path, guarded by their `dbs_.find(current_db_)` test (`DbUsable`).
    - `CrashAndRestart`: any statement whose prologue dereferences the null engine (`PrologueCrashes`), after which the program is started again.
    - A dropped database's `DBStorageEngine` is leaked, but nothing can reach it, so `DropDatabase` resets the catalog variables (`FreshCatalog`), as `CreateDatabase` does.
    - The schema parsing of `ExecuteCreateTable` is abstracted to the one key column.
  - `IndexScan` is `IndexScanExecutor::IndexFilterRows` for `WHERE key = k` with one matched index. Its point lookup `BPlusTree::GetValue` returns at most one RowId, so the scan finds the key or nothing. It is used only by the property `IndexMatchesTable`, since a scan changes nothing.

## Runs

Every run uses an `MC_*` module that extends the model (or, for the replacers, instantiates it), and a `.cfg` that gives its constants.

### Passing runs

| Run | Config | Properties | Result |
|---|---|---|---|
| replacers | `Replacers.cfg`: 4 frames | `TypeOK`, `ListMatchesSet`, `VictimWasUnpinned` | passes, 36,288 states |
| bpm | `BufferPoolManager.cfg`: 2 frames, 3 pages, ≤2 borrows per page, 1 write, 2 extents of 2 pages | `TypeOK`, `FrameTableConsistent`, `AllUnpinnedWhenNoneHeld`, `AllocatorConsistent`, `EvictOnlyUnpinned` | passes, about 1M states |
| btree_deep | `BPlusTree_deep.cfg`: leaf 2 or 4, internal 3, keys 1..6, 12 page ids, 1 restart | `TypeOK`, `BalancedTree`, `GetValueCorrect`, `PageSearchCorrect`, `LeafChainSorted`, `RootRegistered`, `CheckAllUnpinned`, `IndexSpec` | passes, 198,988 states in about 50 s |
| tableheap | `TableHeap.cfg`: 3 frames, 3 page ids from 2, 2 slots per page, values {1} | `TypeOK`, `ChainWellFormed`, `ScanReturnsLiveRows`, `ScanEnds`, `RowBagRefined` | passes, 7,873 states in about a minute |
| catalog | `Catalog.cfg`: 1 database name, 1 table name, 2 index names, keys {1, 2}, ≤2 rows per heap, 2 table ids, 2 index ids, ≤3 entries in a tree taken over | `TypeOK`, `CatalogConsistent`, `IndexComplete` | passes, 6.0M states in about 95 s |

The bounds:
- **bpm:**
  - 2 frames with 3 pages force eviction.
  - 2 borrows per page reach the fetch-hit path on a pinned page.
  - 2 extents of 2 pages reach a second extent and the reuse of an extent.
  - `Word` = 256 stands in for 2^32. The counts stay far below it, and the wrap-around of a counter decremented at 0 behaves the same.
- **btree_deep:** builds the tree with a `leaf_max_size_` of 2 or 4 (`LeafMaxSizes`), with internal pages of 3. At leaf size 2 (or 3), an underflowing leaf is empty, and it always fits into its neighbour, so every leaf underflow is a merge. At leaf size 4 the minimum is 2, and a leaf of 1 beside a full neighbour of 4 redistributes, so leaf redistribution (`b_plus_tree.cpp:372`) is reached there. At leaf size 2, six keys reach height 3 with leaf and internal splits, internal redistribution from the right neighbour, leaf and internal merges, and root collapse. These paths run both before and after the one restart, when every page must be fetched again. Twelve ids suffice because an insert is taken only when the ids left cover a split at every level. An internal page borrowing from its left neighbour (`InternalMoveLastToFrontOf`) needs 7 keys and 11 or more ids. With a restart that instance runs past ten minutes: the residency and pin sets after a restart multiply the state space. So it was checked without a restart (`MaxRestarts = 0`, keys 1..7, 14 ids, leaf size 2), where every property of the run holds over 123,015 states in 40 seconds. The test's page sizes (4/4) reach the same paths only with far more keys.
- **tableheap:**
  - 2 slots per page and 3 page ids give a chain of three pages, so the traversal passes a full page, `Begin` skips an empty first page, and `operator++` crosses pages.
  - 3 frames let every page be resident; with fewer, the frame leak starves the pool, which is the separate run `tableheap_spin`.
  - One value suffices: rows are told apart by their RowId, and the multiset refinement counts them. A second value multiplies the states sixty-fold and puts the liveness check out of reach.
- **catalog:**
  - One database name is enough for `DROP DATABASE` of the database in use, and for creating it again. Several databases would each need a catalog of their own, which multiplies the states.
  - One table name is enough for a table to be dropped and created again under a reused id.
  - Two index names let `DROP INDEX` leave a sibling in place.
  - Two keys and two rows give duplicates, an `UPDATE` onto another key, and a delete of several rows.
  - Both index ids can be reused after a restart.
  - `MaxEntries` bounds how large a tree grows when it is taken over again after each restart. It is only a guard on `CreateIndex`, so `Reopen` stays enabled and nothing deadlocks.

The properties:
- **`ListMatchesSet`:** the LRU list and the unpinned set name the same frames.
- **`VictimWasUnpinned`:** the clock never hands out a frame that was not unpinned.
- **`FrameTableConsistent`:** the page table, frames, free list and replacer agree.
- **`EvictOnlyUnpinned`:** only unpinned frames are reused.
- **`AllUnpinnedWhenNoneHeld`:** every pin count returns to 0 once no caller holds the page.
- **`AllocatorConsistent`:** the meta page's counters agree with the bitmaps, and every page a caller owns is allocated.
- **`BalancedTree`:** the pages are exactly those reachable from the root. Parent links agree with child pointers, all leaves are at one depth, and every page is within its min and max size.
- **`GetValueCorrect`:** searching through `Lookup` and `KeyFind` finds exactly the stored keys.
- **`PageSearchCorrect`:** on every page the tree builds, the binary searches agree with linear definitions for every probe.
- **`LeafChainSorted`:** the leaf chain visits every leaf once, and the keys along it are strictly ascending.
- **`RootRegistered`:** the index-roots entry equals `root_page_id_`.
- **`CheckAllUnpinned`:** what `b_plus_tree_test` asserts with `Check()`: until a restart, no tree page stays pinned and the allocated ids are exactly the tree's pages.
- **`IndexSpec`:** the refinement to `Index`.
- **`CatalogConsistent`:**
  - `table_names_` and `tables_` are inverse maps over the table ids of `catalog_meta_`.
  - Every index is in `catalog_meta_` and is named in `index_names_` under its own live table.
  - The metadata pages describe the live tables and indexes.
  - Every live id is below the next id to be handed out.
- **`IndexComplete`:** every row of a table is in each of its indexes.
- **`ChainWellFormed`:** following `next` from `first_page_id_` visits every allocated page once, in allocation order, each `prev` naming the page before, and `last_page_id_` is INVALID or the tail.
- **`ScanReturnsLiveRows`:** a scan never returns a row twice, and when it ends it has returned exactly the live rows.
- **`ScanEnds`:** every scan that starts reaches End.
- **`RowBagRefined`:** the refinement to `RowBag`: each statement changes the live rows as its abstract counterpart does, and nothing else changes them.

### Violation runs

Each violation run checks one property, stated from the spec or a comment, that the code breaks:

| Run | Property | What the counterexample shows |
|---|---|---|
| bpm_borrow | `BorrowedFrameStable` | a fetch hit does not pin, so a page still held can be deleted; the same hit on an unpinned page drops its frame from the replacer for good |
| bpm_lost_write | `PageContentsIntact` | NewPage evicts a dirty page without writing it back |
| disk_restart | `NeverDoubleAllocated` | the meta page is written only in `Close`; after a restart without it, page 0 is handed out again while its owner holds it |
| btree_pins | `PagesReturned` | Trace: three inserts give two leaves under a root. After a restart, Remove(1) underflows the left leaf. `CoalesceOrRedistribute` fetches the right leaf (a miss, so it is pinned) and never unpins it. `Coalesce`'s `DeletePage` of that leaf then fails, so its id stays allocated and its frame pinned. Without a restart every tree page is resident from its `NewPage`, every fetch is a pinless hit, and the leak cannot show. The same holds for `GetValue`, which never unpins its leaf. |
| tableheap_spin | `InsertReturns` | On a reopened heap with 2 frames and 2 slots a page. An `INSERT` puts a row on page 2. Two `UPDATE`s of the row follow. The first re-inserts it on page 2 through a fetch hit on its pin-0 frame. The second finds page 2 full and moves the row to a new page 3 in the other frame. An `INSERT` then fills page 3 through a hit on that frame. Each hit takes its frame out of the replacer, and the unpin that follows does nothing. The last `INSERT` finds every page full and no free or evictable frame, and its `NewPage` loop sleeps forever. |
| catalog_reuse | `IndexMatchesTable` | `DropIndex`, also inside `DropTable`, never destroys the tree, and after a restart the next ids are recomputed from the catalog meta page alone. Trace: CREATE TABLE t, CREATE INDEX, INSERT 1, DROP TABLE t, restart, USE, CREATE TABLE t, CREATE INDEX. The new table gets table id 0 again and a new, empty heap. The new index gets index id 0 again, and its `BPlusTree` takes over the old tree, which still holds key 1. `SELECT ... WHERE key = 1` through the index then finds a RowId although the table has no row. `DropTable` frees no heap page, so `GetTuple` reads the dropped table's row, and the scan returns it. |
| catalog_dropdb | `CurrentDatabaseOpen` | Trace: USE, DROP DATABASE. `ExecuteDropDatabase` erases the entry from `dbs_` but leaves `current_db_`. The prologue of the next statement, whatever it is, then evaluates `dbs_[current_db_]`, which inserts a null pointer, and calls `MakeExecuteContext` through it. The handlers' own `dbs_.find` tests would have returned `DB_NOT_EXIST`. |

`PROJECT.json` records each of these as a finding, with the code line it traces to.

An earlier run, `bpm_delete_ub`, set `Garbage = {GARBAGE}`: the read through the erased iterator at `DeletePage` line 133 then puts a bogus frame on the free list and `FrameTableConsistent` fails in a few steps. It was dropped for `btree_pins`. The line is still a hazard in `PROJECT.json`, but it is no longer a finding.

An earlier run, `btree_duplicate`, set `CallerChecksUnique = FALSE` on the `btree_pins` bounds. `LeafChainSorted` fails after two inserts of the same key, because `Insert` into a non-empty tree never calls `KeyFind` (`b_plus_tree.cpp:110`). Its comment and spec.md 4.4 say a duplicate returns false. `CreateIndex` and a batch `INSERT` with equal keys reach that path. The run was dropped for `catalog_dropdb`. `btree_deep` keeps `CallerChecksUnique = TRUE`, which is the callers' discipline.

An earlier run showed that `ClockReplacer::Victim`, using frame 0 as "not found", does not always pick the first UNUSED frame of its sweep (`clock_replacer.cpp:34`, against its comment and spec.md 4.2). It was dropped to keep the number of runs small, since the buffer pool constructs only the LRU replacer; `VictimWasUnpinned` still shows the pick is safe.

### Mutants

Every property of a passing run has a mutant: an operator defined just before the one it replaces, modelling a plausible slip in that code. TLC finds the property violated under the mutant. Examples:
- a dropped erase;
- a `>` for a `>=`;
- a missing re-parenting of moved children;
- a separator that is not rewritten;
- the wrong extent for a page id;
- a `DropTable` whose index loop never runs;
- a `CreateIndex` that does not insert the existing rows.

## Fairness

The buffer pool, tree and catalog runs check safety only. Nothing in the code obliges a caller to ever unpin, fetch, remove or restart.

`TableHeap` assumes weak fairness of two actions, both loops that the code runs without waiting for anyone:
- `InsertNewPage`: `InsertTuple` retries `NewPage` in `while (true)` for as long as it returns nullptr;
- `ScanNext`: `ExecuteEngine::ExecutePlan` calls `Next` until it returns false (`execute_engine.cpp:102`).

No other action is assumed to happen. Under this fairness:
- `ScanEnds` holds;
- `InsertReturns` (every `InsertTuple` that enters the loop returns) fails, which is the run `tableheap_spin`.

## Not modelled yet, and the plan

One known divergence has no run. `GetMinSize` returns 0 for a root leaf (`b_plus_tree_page.cpp:56`), so removing the last key leaves an empty root leaf, which stays allocated and registered. spec.md 4.4 says the tree is removed. `AdjustRoot`'s size-0 branch is unreachable for that reason, and the model keeps it as the code has it.

1. **Catalog over the buffer pool:**
   - `CreateTable`, `CreateIndex` and `FlushCatalogMetaPage` never unpin the pages they fetch.
   - A crash restart belongs here too, since `CreateIndex`, `DropTable` and `DropIndex` do not flush the catalog meta page. What survives a crash depends on which buffer-pool pages were evicted.
2. **Table heap under the catalog:** `Catalog` keeps each heap as a bag of keys. Composing it with `TableHeap` would show `UpdateTuple`'s delete-and-reinsert giving a row a new RowId while `UpdateExecutor` indexes the old one. It would also let the catalog's own leaked pins starve the heap.
   - `TableHeap` leaves out `DeleteTable`, `ApplyDelete` and `RollbackDelete`, which nothing under `src/` calls, and `operator++()` and `operator->`, which no caller uses.
   - A write through a fetch hit on an unpinned page loses its dirty flag, since `UnpinPage` returns early. It has no run: such a frame is never evicted again, and the destructor's `FlushPage` writes it regardless of the flag.
3. **Begin/IndexIterator and index scans.** `IndexIterator` and `ScanKey` are not in the repository, and neither is the planner that decides whether `DELETE` or `UPDATE` reads through an index. Several matched indexes meet in `std::set_intersection`, which needs sorted input. The `FindLeafPage(key, false, txn)` calls pass the transaction as `leftMost`, but every caller under `src/` passes a null transaction, so the mix-up is latent and has no hazard entry.
4. **Eviction under the tree:** `BPlusTree` assumes a frame per page id. With a smaller pool, a split whose `NewPage` finds every frame pinned is `LOG(FATAL)`, and the leaked pins of `btree_pins` bring that closer.

Out of scope:
- the record layer and the catalog's metadata serialisation, which are pure byte conversion;
- SQL parsing, result printing, the SHOW statements and `EXECFILE` in `execute_engine.cpp`; the engine's transactions are no-ops;
- the Graphviz output of `ToGraph`/`ToString`.
