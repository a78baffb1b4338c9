-------------------------- MODULE BufferPoolManager --------------------------
(***************************************************************************)
(* The buffer pool of src/src/buffer/buffer_pool_manager.cpp with the LRU *)
(* replacer it constructs, driven by callers that fetch, create, release, *)
(* delete and flush pages.                                                 *)
(*                                                                         *)
(* Pool state, as in the code: page_table_ (a partial function from page  *)
(* ids to frames), the per-frame Page fields page_id_, pin_count_,        *)
(* is_dirty_ and data_, the free_list_ (front first) and the replacer.    *)
(* Page contents are abstracted to a version number: 0 for a zeroed page, *)
(* k for the k-th write any caller made.  The disk is a map from page id  *)
(* to the version last written there.  Page ids come from the disk      *)
(* manager's allocator (DiskManager.tla), whose state is dm.              *)
(*                                                                         *)
(* Callers (the B+ tree, the table heap, the catalog) are represented by  *)
(* ghost state only: held counts the outstanding borrows of page p made   *)
(* through frame f (a FetchPage or NewPage result not yet unpinned),      *)
(* latest is the version a caller last wrote to each page, live the pages *)
(* callers believe exist, fresh the new pages nobody has written yet.     *)
(***************************************************************************)
EXTENDS Naturals, Sequences, FiniteSets, Functions, TLC

CONSTANTS
    PoolSize,   \* pool_size_
    Pages,      \* the logical page ids the disk manager can hand out
    INVALID,    \* INVALID_PAGE_ID
    MaxPins,    \* bound on the outstanding borrows of one page
    MaxWrites,  \* bound on the number of writes by callers
    Garbage,    \* what a read of a freed hash node may yield besides its
                \* old value (empty when the allocator leaves it intact)
    N, MaxExtents, Word   \* of the disk manager

ASSUME /\ PoolSize \in Nat \ {0}
       /\ Pages \subseteq Nat /\ INVALID \notin Pages
       /\ MaxPins \in Nat /\ MaxWrites \in Nat

Frames == 0 .. PoolSize - 1

VARIABLES
    page_table, page_id, pin_count, is_dirty, data, free_list, replacer,
    disk, dm,
    held, latest, live, fresh, writes

pool == <<page_table, page_id, pin_count, is_dirty, data, free_list, replacer>>
ghost == <<held, latest, live, fresh, writes>>
vars == <<pool, disk, dm, ghost>>

LRU == INSTANCE LRUReplacer WITH Frames <- Frames, max_pages <- PoolSize

\* std::unordered_map::erase and ::emplace; emplace keeps an existing entry.
Erase(m, k) == [x \in DOMAIN m \ {k} |-> m[x]]
Emplace(m, k, v) == IF k \in DOMAIN m THEN m ELSE m @@ (k :> v)

DM == INSTANCE DiskManager WITH meta_on_disk <- dm.meta, owned <- live

\* BufferPoolManager::AllocatePage and ::DeallocatePage forward to the
\* disk manager.
AllocatePage == DM!AllocatedId(dm)
DeallocatePage(p) == dm' = DM!DeAllocatePage(dm, p)

Init ==
    /\ page_table = <<>>
    /\ page_id = [f \in Frames |-> INVALID]
    /\ pin_count = [f \in Frames |-> 0]
    /\ is_dirty = [f \in Frames |-> FALSE]
    /\ data = [f \in Frames |-> 0]
    /\ free_list = [i \in 1 .. PoolSize |-> i - 1]
    /\ replacer = LRU!InitReplacer
    /\ disk = [p \in Pages |-> 0]
    /\ dm = DM!InitDisk
    /\ held = [pf \in Pages \X Frames |-> 0]
    /\ latest = [p \in Pages |-> 0]
    /\ live = {}
    /\ fresh = {}
    /\ writes = 0

\* The frame FetchPage and NewPage reuse: the front of the free list if it
\* is not empty, else the replacer's victim, provided UnpinSize() > 0.
FromFreeList == free_list # <<>>
CanAcquire == FromFreeList \/ LRU!UnpinSize(replacer) > 0
Acquired == IF FromFreeList THEN Head(free_list) ELSE LRU!VictimFrame(replacer)
FreeListAfter == IF FromFreeList THEN Tail(free_list) ELSE free_list
ReplacerAfter == IF FromFreeList THEN replacer ELSE LRU!VictimR(replacer)
\* Mutant: the victim's page stays in page_table_.
TableAfterNoErase == page_table

TableAfter == IF FromFreeList THEN page_table
              ELSE Erase(page_table, page_id[Acquired])

Borrow(p, f) == held' = [held EXCEPT ![<<p, f>>] = @ + 1]
HeldCount(p) == SumFunctionOnSet(held, {p} \X Frames)

\* FetchPage on a page of the table: the replacer is told to pin the frame
\* and the frame is returned; pin_count_ is left as it is.
FetchHit(p) ==
    LET f == page_table[p] IN
    /\ p \in DOMAIN page_table
    /\ replacer' = LRU!PinR(replacer, f)
    /\ Borrow(p, f)
    /\ UNCHANGED <<page_table, page_id, pin_count, is_dirty, data, free_list,
                   disk, dm, latest, live, fresh, writes>>

\* FetchPage on a page not in the table: take a frame, write the victim
\* back if it is dirty, remap, read the page, pin.
FetchMiss(p) ==
    LET f == Acquired
        old == page_id[f]
        disk1 == IF ~FromFreeList /\ is_dirty[f]
                 THEN [disk EXCEPT ![old] = data[f]] ELSE disk
    IN
    /\ p \notin DOMAIN page_table
    /\ CanAcquire
    /\ free_list' = FreeListAfter
    /\ disk' = disk1
    /\ page_table' = Emplace(TableAfter, p, f)
    /\ data' = [data EXCEPT ![f] = disk1[p]]
    /\ page_id' = [page_id EXCEPT ![f] = p]
    /\ is_dirty' = [is_dirty EXCEPT ![f] = FALSE]
    /\ pin_count' = [pin_count EXCEPT ![f] = @ + 1]
    /\ replacer' = IF pin_count[f] = 0 THEN LRU!PinR(ReplacerAfter, f)
                   ELSE ReplacerAfter
    /\ Borrow(p, f)
    /\ UNCHANGED <<dm, latest, live, fresh, writes>>

\* A caller fetches one of its pages (FetchPage returning nullptr when no
\* frame can be had changes nothing and is not a step).
FetchPage(p) ==
    /\ p \in live
    /\ HeldCount(p) < MaxPins
    /\ FetchHit(p) \/ FetchMiss(p)

\* NewPage: take a frame (a victim is not written back), allocate an id,
\* zero the frame, map it and pin it.
NewPage ==
    LET f == Acquired
        p == AllocatePage
    IN
    /\ CanAcquire
    /\ DM!CanAllocate(dm)
    /\ p \in Pages
    /\ HeldCount(p) < MaxPins
    /\ free_list' = FreeListAfter
    /\ dm' = DM!AllocatePage(dm)
    /\ page_table' = Emplace(TableAfter, p, f)
    /\ data' = [data EXCEPT ![f] = 0]
    /\ page_id' = [page_id EXCEPT ![f] = p]
    /\ is_dirty' = [is_dirty EXCEPT ![f] = FALSE]
    /\ pin_count' = [pin_count EXCEPT ![f] = 1]
    /\ replacer' = LRU!PinR(ReplacerAfter, f)
    /\ Borrow(p, f)
    /\ live' = live \cup {p}
    /\ fresh' = fresh \cup {p}
    /\ latest' = [latest EXCEPT ![p] = 0]
    /\ UNCHANGED <<disk, writes>>

\* Mutants of UnpinPage: without the pin_count_ > 0 check; decrementing
\* only above 1.
UnpinPageNoGuard(p, dirty) ==
    IF p \notin DOMAIN page_table
    THEN UNCHANGED <<pin_count, is_dirty, replacer>>
    ELSE LET f == page_table[p] IN
         /\ pin_count' = [pin_count EXCEPT ![f] = @ - 1]
         /\ is_dirty' = IF dirty THEN [is_dirty EXCEPT ![f] = TRUE] ELSE is_dirty
         /\ replacer' = IF pin_count[f] - 1 = 0 THEN LRU!UnpinR(replacer, f)
                        ELSE replacer
UnpinPageAboveOne(p, dirty) ==
    IF p \notin DOMAIN page_table \/ pin_count[page_table[p]] <= 1
    THEN UNCHANGED <<pin_count, is_dirty, replacer>>
    ELSE LET f == page_table[p] IN
         /\ pin_count' = [pin_count EXCEPT ![f] = @ - 1]
         /\ is_dirty' = IF dirty THEN [is_dirty EXCEPT ![f] = TRUE] ELSE is_dirty
         /\ replacer' = IF pin_count[f] - 1 = 0 THEN LRU!UnpinR(replacer, f)
                        ELSE replacer

\* UnpinPage(p, is_dirty) on the pool state: nothing for a page not in
\* the table or with pin count 0; otherwise decrement, or in the dirty
\* flag, and hand the frame to the replacer when the count reaches 0.
UnpinPage(p, dirty) ==
    IF p \notin DOMAIN page_table \/ pin_count[page_table[p]] = 0
    THEN UNCHANGED <<pin_count, is_dirty, replacer>>
    ELSE LET f == page_table[p] IN
         /\ pin_count' = [pin_count EXCEPT ![f] = @ - 1]
         /\ is_dirty' = IF dirty THEN [is_dirty EXCEPT ![f] = TRUE] ELSE is_dirty
         /\ replacer' = IF pin_count[f] - 1 = 0 THEN LRU!UnpinR(replacer, f)
                        ELSE replacer

\* A caller that borrowed page p through frame f is done with it.  If it
\* modified the page it wrote through its pointer into frame f and says
\* so to UnpinPage (spec.md 4.3: mutate => is_dirty = true).
Release(p, f, write) ==
    /\ held[<<p, f>>] > 0
    /\ held' = [held EXCEPT ![<<p, f>>] = @ - 1]
    /\ IF write
       THEN /\ writes < MaxWrites
            /\ writes' = writes + 1
            /\ data' = [data EXCEPT ![f] = writes + 1]
            /\ latest' = [latest EXCEPT ![p] = writes + 1]
            /\ fresh' = fresh \ {p}
       ELSE UNCHANGED <<data, latest, fresh, writes>>
    /\ UnpinPage(p, write)
    /\ UNCHANGED <<page_table, page_id, free_list, disk, dm, live>>

\* Mutant: DeletePage without the pin_count_ > 0 check.
DeletePageIgnoresPins(p) ==
    /\ p \in live
    /\ \/ /\ p \notin DOMAIN page_table
          /\ live' = live \ {p}
          /\ UNCHANGED <<pool, disk, dm, held, latest, fresh, writes>>
       \/ LET f == page_table[p] IN
          /\ p \in DOMAIN page_table
          /\ disk' = IF is_dirty[f] THEN [disk EXCEPT ![p] = data[f]] ELSE disk
          /\ page_table' = Erase(page_table, p)
          /\ page_id' = [page_id EXCEPT ![f] = INVALID]
          /\ pin_count' = [pin_count EXCEPT ![f] = 0]
          /\ is_dirty' = [is_dirty EXCEPT ![f] = FALSE]
          /\ \E g \in {f} \cup Garbage : free_list' = Append(free_list, g)
          /\ DeallocatePage(p)
          /\ live' = live \ {p}
          /\ UNCHANGED <<data, replacer, held, latest, fresh, writes>>

\* DeletePage on a page of the table with pin count 0: flush it if dirty,
\* unmap it, reset the frame, put the frame id read through the erased
\* iterator on the free list, deallocate the id.  On a page not in the
\* table it returns true and does nothing; on a pinned page it returns
\* false and does nothing (not a step).
DeletePage(p) ==
    /\ p \in live
    /\ \/ /\ p \notin DOMAIN page_table
          /\ live' = live \ {p}
          /\ UNCHANGED <<pool, disk, dm, held, latest, fresh, writes>>
       \/ LET f == page_table[p] IN
          /\ p \in DOMAIN page_table
          /\ pin_count[f] = 0
          /\ disk' = IF is_dirty[f] THEN [disk EXCEPT ![p] = data[f]] ELSE disk
          /\ page_table' = Erase(page_table, p)
          /\ page_id' = [page_id EXCEPT ![f] = INVALID]
          /\ pin_count' = [pin_count EXCEPT ![f] = 0]
          /\ is_dirty' = [is_dirty EXCEPT ![f] = FALSE]
          /\ \E g \in {f} \cup Garbage : free_list' = Append(free_list, g)
          /\ DeallocatePage(p)
          /\ live' = live \ {p}
          /\ UNCHANGED <<data, replacer, held, latest, fresh, writes>>

\* FlushPage writes a page of the table to disk whatever its dirty flag,
\* and leaves the flag set.
FlushPage(p) ==
    /\ p \in DOMAIN page_table
    /\ disk' = [disk EXCEPT ![p] = data[page_table[p]]]
    /\ UNCHANGED <<pool, dm, ghost>>

Next ==
    \/ NewPage
    \/ \E p \in Pages : FetchPage(p) \/ DeletePage(p) \/ FlushPage(p)
    \/ \E p \in Pages, f \in Frames, w \in BOOLEAN : Release(p, f, w)

Spec == Init /\ [][Next]_vars

-----------------------------------------------------------------------------
TypeOK ==
    /\ DOMAIN page_table \subseteq Pages
    /\ \A p \in DOMAIN page_table : page_table[p] \in Frames
    /\ page_id \in [Frames -> Pages \cup {INVALID}]
    /\ pin_count \in [Frames -> Nat]
    /\ is_dirty \in [Frames -> BOOLEAN]
    /\ data \in [Frames -> 0 .. MaxWrites]
    /\ free_list \in Seq(Frames \cup Garbage)
    /\ disk \in [Pages -> 0 .. MaxWrites]
    /\ held \in [Pages \X Frames -> 0 .. MaxPins]
    /\ dm.bitmap \in [DM!Extents -> SUBSET DM!Offsets]

\* The content a reader of page p would get now: the frame's if the page
\* is in the table, the disk's otherwise.
Content(p) == IF p \in DOMAIN page_table THEN data[page_table[p]] ELSE disk[p]
NoneHeld == \A pf \in Pages \X Frames : held[pf] = 0

(* At most one resident copy per page (spec.md 4.3): page_table_ and the  *)
(* frames' page_id_ are inverse to each other, every frame is either      *)
(* mapped or on the free list (exactly once), and only allocated pages    *)
(* are resident.  FetchPage, NewPage and DeletePage each rewrite several  *)
(* of these structures and an omitted erase or a reused frame breaks it. *)
FrameTableConsistent ==
    /\ \A p \in DOMAIN page_table : page_id[page_table[p]] = p
    /\ \A f \in Frames : page_id[f] # INVALID =>
                           /\ page_id[f] \in DOMAIN page_table
                           /\ page_table[page_id[f]] = f
    /\ \A i \in DOMAIN free_list :
          /\ free_list[i] \in Frames
          /\ page_id[free_list[i]] = INVALID
          /\ \A j \in DOMAIN free_list : free_list[j] = free_list[i] => i = j
    /\ \A f \in Frames : page_id[f] = INVALID =>
                           \E i \in DOMAIN free_list : free_list[i] = f
    /\ \A p \in DOMAIN page_table : ~DM!IsPageFree(dm, p)

(* Pin/eviction invariant (spec.md 8), as the pool counts pins: a page    *)
(* leaves the pool, by eviction in FetchPage or NewPage or by DeletePage, *)
(* only from a frame whose pin_count_ is 0.  It rests on the replacer     *)
(* holding only frames the pool has unpinned down to zero.                *)
EvictOnlyUnpinned ==
    [][\A p \in DOMAIN page_table :
          p \notin DOMAIN page_table' => pin_count[page_table[p]] = 0]_vars

(* CheckAllUnpinned holds once every fetch has a matching unpin           *)
(* (spec.md 8): with no borrow outstanding every pin count is 0, however  *)
(* fetches, evictions and unpins of stale borrows were interleaved.       *)
AllUnpinnedWhenNoneHeld ==
    NoneHeld => \A f \in Frames : pin_count[f] = 0

(* The allocator stays exact under the pool (spec.md 8, allocator round- *)
(* trip): the meta page's counters agree with the extent bitmaps, and    *)
(* every page a caller owns is marked used, so IsPageFree is false for it *)
(* and AllocatePage cannot hand it out again.  NewPage and DeletePage are *)
(* the only callers of the allocator and each updates counters and a bit  *)
(* in different places.                                                   *)
AllocatorConsistent ==
    /\ DM!MetaMatchesBitmap(dm)
    /\ \A p \in live : ~DM!IsPageFree(dm, p)

(* Whoever holds a page from FetchPage or NewPage holds the frame that    *)
(* page is in (spec.md 5: the frame is not reused while the borrow lasts).*)
BorrowedFrameStable ==
    \A p \in Pages, f \in Frames :
        held[<<p, f>>] > 0 => page_id[f] = p

(* A page reads back what was last written to it (spec.md 4.3: write      *)
(* back on eviction, write-back-before-reuse), for every page callers     *)
(* still own and have written at least once.                              *)
PageContentsIntact ==
    \A p \in live \ fresh : Content(p) = latest[p]
=============================================================================
