------------------------------ MODULE PagePool ------------------------------
(***************************************************************************)
(* The calls of src/src/buffer/buffer_pool_manager.cpp as functions from a *)
(* pool record to a pool record, for callers (the table heap) that make    *)
(* several calls in one of their own operations.  The record holds what    *)
(* BufferPoolManager.tla keeps in separate variables: page_table_ (pt),    *)
(* the frames' page_id_, pin_count_, is_dirty_ and data_, the free list,   *)
(* the LRU replacer, and the disk.  Page contents are whatever the caller  *)
(* stores in a page; a zeroed page is ZeroPage.  Page ids are handed out   *)
(* in order from FirstId: nothing the callers modelled here deallocates,   *)
(* so the disk manager's bitmap allocator yields consecutive ids.          *)
(***************************************************************************)
EXTENDS Naturals, Sequences, FiniteSets, Functions, TLC

CONSTANTS
    PoolSize,   \* pool_size_
    FirstId,    \* the first page id the allocator gives these callers
    MaxPages,   \* bound on the pages allocated
    INVALID,    \* INVALID_PAGE_ID
    ZeroPage    \* the contents of a page of zeros

Frames == 0 .. PoolSize - 1
PageIds == FirstId .. FirstId + MaxPages - 1

LRU == INSTANCE LRUReplacer WITH max_pages <- PoolSize, replacer <- <<>>

EmptyPool(disk) ==
    [pt |-> <<>>, pid |-> [f \in Frames |-> INVALID],
     pin |-> [f \in Frames |-> 0], dirty |-> [f \in Frames |-> FALSE],
     data |-> [f \in Frames |-> ZeroPage],
     free |-> [i \in 1 .. PoolSize |-> i - 1],
     repl |-> LRU!InitReplacer, disk |-> disk, nalloc |-> 0]

Fail(P) == [ok |-> FALSE, pool |-> P]

\* std::unordered_map::erase and ::emplace.
EraseKey(m, k) == [x \in DOMAIN m \ {k} |-> m[x]]
Emplace(m, k, v) == IF k \in DOMAIN m THEN m ELSE m @@ (k :> v)

\* The frame FetchPage and NewPage take: the front of the free list, else
\* the replacer's victim when UnpinSize() > 0; the victim's page leaves
\* page_table_.
FromFreeList(P) == P.free # <<>>
CanAcquire(P) == FromFreeList(P) \/ LRU!UnpinSize(P.repl) > 0
Acquired(P) == IF FromFreeList(P) THEN Head(P.free) ELSE LRU!VictimFrame(P.repl)
Taken(P) ==
    IF FromFreeList(P) THEN [P EXCEPT !.free = Tail(@)]
    ELSE [P EXCEPT !.repl = LRU!VictimR(@), !.pt = EraseKey(@, P.pid[Acquired(P)])]

\* BufferPoolManager::FetchPage.  A hit tells the replacer to pin the frame
\* and leaves pin_count_ as it is; a miss writes a dirty victim back, reads
\* the page and pins it.
FetchR(P, p) ==
    IF p = INVALID THEN Fail(P)
    ELSE IF p \in DOMAIN P.pt
    THEN [ok |-> TRUE, pool |-> [P EXCEPT !.repl = LRU!PinR(@, P.pt[p])]]
    ELSE IF ~CanAcquire(P) THEN Fail(P)
    ELSE LET f == Acquired(P)
             disk1 == IF ~FromFreeList(P) /\ P.dirty[f]
                      THEN [P.disk EXCEPT ![P.pid[f]] = P.data[f]] ELSE P.disk
         IN [ok |-> TRUE,
             pool |-> [Taken(P) EXCEPT !.disk = disk1, !.pt = Emplace(@, p, f),
                          !.data[f] = disk1[p], !.pid[f] = p,
                          !.dirty[f] = FALSE, !.pin[f] = @ + 1,
                          !.repl = IF P.pin[f] = 0 THEN LRU!PinR(@, f) ELSE @]]

\* Room for one more page id (the bound MaxPages on the model).
CanAllocate(P) == P.nalloc < MaxPages

\* BufferPoolManager::NewPage: take a frame (a dirty victim is not written
\* back), allocate the next id, zero the frame, map it, pin it.
NewR(P) ==
    IF ~CanAcquire(P) THEN [ok |-> FALSE, id |-> INVALID, pool |-> P]
    ELSE LET f == Acquired(P)
             p == FirstId + P.nalloc
         IN [ok |-> TRUE, id |-> p,
             pool |-> [Taken(P) EXCEPT !.nalloc = @ + 1, !.pt = Emplace(@, p, f),
                          !.data[f] = ZeroPage, !.pid[f] = p,
                          !.dirty[f] = FALSE, !.pin[f] = 1,
                          !.repl = LRU!PinR(@, f)]]

\* BufferPoolManager::UnpinPage: nothing for a page not resident or with
\* pin count 0; else decrement, or in the dirty flag, and hand the frame to
\* the replacer when the count reaches 0.
\* Mutant: UnpinPage without the pin_count_ > 0 check.
UnpinRNoGuard(P, p, d) ==
    IF p \notin DOMAIN P.pt THEN P
    ELSE LET f == P.pt[p] IN
         [P EXCEPT !.pin[f] = @ - 1, !.dirty[f] = @ \/ d,
                   !.repl = IF P.pin[f] = 1 THEN LRU!UnpinR(@, f) ELSE @]
UnpinR(P, p, d) ==
    IF p \notin DOMAIN P.pt \/ P.pin[P.pt[p]] = 0 THEN P
    ELSE LET f == P.pt[p] IN
         [P EXCEPT !.pin[f] = @ - 1, !.dirty[f] = @ \/ d,
                   !.repl = IF P.pin[f] = 1 THEN LRU!UnpinR(@, f) ELSE @]

\* What a caller reads and writes through the pointer it was given.
PageIn(P, p) == P.data[P.pt[p]]
WritePage(P, p, c) == [P EXCEPT !.data[P.pt[p]] = c]

\* The page as the next reader would see it: its frame if resident, else
\* the disk.
Content(P, p) == IF p \in DOMAIN P.pt THEN P.data[P.pt[p]] ELSE P.disk[p]
=============================================================================
