------------------------------ MODULE TableHeap ------------------------------
(***************************************************************************)
(* The table heap of src/src/storage/table_heap.cpp, its iterator          *)
(* (table_iterator.cpp) as the sequential scan drives it                  *)
(* (executor/seq_scan_executor.cpp), over the buffer pool (PagePool.tla). *)
(*                                                                         *)
(* A table page is a record [next, prev, slots]: slots is the sequence of *)
(* tuples, each a value and a delete mark.  TablePage itself is not part  *)
(* of the repository; it is modelled as the page every caller here        *)
(* assumes: InsertTuple appends while fewer than SlotsPerPage tuples are  *)
(* stored (slots are freed only by ApplyDelete, which nothing calls),     *)
(* MarkDelete sets the mark, and GetFirstTupleRid / GetNextTupleRid       *)
(* return the first unmarked slot from a position on.                     *)
(*                                                                         *)
(* The engine runs one statement at a time, so an operation of the heap   *)
(* is one step, except InsertTuple's loop that sleeps and retries NewPage *)
(* (pending insert ins) and a scan, which advances one row per call of   *)
(* SeqScanExecutor::Next.  A null page dereferenced, or an ASSERT that    *)
(* fails, stops the process (halt = "crash"); reading a page that is not  *)
(* a table page as one is undefined (halt = "corrupt").                   *)
(***************************************************************************)
EXTENDS PagePool, Bags, FiniteSetsExt

CONSTANTS
    Vals,           \* the row values
    SlotsPerPage    \* the tuples a page holds

NoVal == 0
ASSUME NoVal \notin Vals

Page == [next : PageIds \cup {INVALID, 0}, prev : PageIds \cup {INVALID, 0},
         slots : Seq([v : Vals, del : BOOLEAN])]

VARIABLES
    pool,           \* the buffer pool (PagePool record)
    first_page_id,  \* TableHeap::first_page_id_
    last_page_id,   \* TableHeap::last_page_id_
    ins,            \* an InsertTuple inside its NewPage retry loop, or NoIns
    scanning,       \* SeqScanExecutor::is_init
    it,             \* the scan's TableIterator: <<page, slot>> or End
    seen,           \* the row ids the scan has returned
    halt,           \* "none", "crash" or "corrupt"
    stmt            \* the statement that completed last (for RowBag)

vars == <<pool, first_page_id, last_page_id, ins, scanning, it, seen, halt, stmt>>

NoIns == [v |-> NoVal]
End == <<INVALID, 0>>
Foreign(p) == p \notin PageIds \cup {INVALID}
Stop(kind) == [halt |-> kind]

\* TablePage::InsertTuple succeeds on a page with a free slot.
Fits(c) == Len(c.slots) < SlotsPerPage
AddTuple(c, v) == [c EXCEPT !.slots = Append(@, [v |-> v, del |-> FALSE])]
\* TablePage::MarkDelete.
MarkSlot(c, s) == [c EXCEPT !.slots[s].del = TRUE]
\* TablePage::GetNextTupleRid (from slot s on) and ::GetFirstTupleRid;
\* 0 when there is none.
LiveFrom(c, s) == {i \in s .. Len(c.slots) : ~c.slots[i].del}
\* Mutant: the search starts one slot too far.
NextSlotSkipOne(c, s) == IF LiveFrom(c, s + 2) = {} THEN 0 ELSE Min(LiveFrom(c, s + 2))
NextSlot(c, s) == IF LiveFrom(c, s + 1) = {} THEN 0 ELSE Min(LiveFrom(c, s + 1))
FirstSlot(c) == NextSlot(c, 0)
\* Mutant: the new page is initialised without its predecessor.
NewTablePageNoPrev(prev, v) == [next |-> INVALID, prev |-> INVALID,
                                slots |-> <<[v |-> v, del |-> FALSE]>>]
\* TablePage::Init.
NewTablePage(prev, v) == [next |-> INVALID, prev |-> prev,
                          slots |-> <<[v |-> v, del |-> FALSE]>>]

-----------------------------------------------------------------------------
(* InsertTuple                                                             *)

\* The loop of the else branch: fetch each page from the first, insert
\* into the first with room, else unpin it and go on; stop at the last
\* page.  d bounds the walk (a chain longer than MaxPages has a cycle).
RECURSIVE InsertWalk(_, _, _, _)
InsertWalk(P, p, v, d) ==
    IF d > MaxPages \/ Foreign(p) THEN Stop("corrupt")
    ELSE LET r == FetchR(P, p) IN
    IF ~r.ok THEN Stop("crash")
    ELSE LET c == PageIn(r.pool, p) IN
    IF Fits(c)
    THEN [halt |-> "none", done |-> TRUE,
          pool |-> UnpinR(WritePage(r.pool, p, AddTuple(c, v)), p, TRUE)]
    ELSE IF c.next # INVALID
    THEN InsertWalk(UnpinR(r.pool, p, FALSE), c.next, v, d + 1)
    ELSE [halt |-> "none", done |-> FALSE, rear |-> p,
          pool |-> UnpinR(r.pool, p, FALSE)]

\* TableHeap::InsertTuple up to the NewPage loop, from pool P; old is the
\* value an UpdateTuple that moves its row replaces (NoVal otherwise).
\* The result names the heap fields it sets.
InsertOn(P, v, old) ==
    IF last_page_id # INVALID
    THEN LET r == FetchR(P, last_page_id) IN
         IF ~r.ok THEN Stop("crash")
         ELSE LET c == PageIn(r.pool, last_page_id) IN
         IF Fits(c)
         THEN [halt |-> "none", ins |-> NoIns, last |-> last_page_id,
               pool |-> UnpinR(WritePage(r.pool, last_page_id, AddTuple(c, v)),
                               last_page_id, TRUE)]
         ELSE LET n == NewR(r.pool) IN
         IF ~n.ok THEN Stop("crash")
         ELSE LET P1 == WritePage(n.pool, n.id, NewTablePage(last_page_id, v))
                  P2 == WritePage(P1, last_page_id, [c EXCEPT !.next = n.id])
              IN [halt |-> "none", ins |-> NoIns, last |-> n.id,
                  pool |-> UnpinR(UnpinR(P2, last_page_id, TRUE), n.id, TRUE)]
    ELSE LET w == IF first_page_id = INVALID
                  THEN [halt |-> "none", done |-> FALSE, rear |-> INVALID, pool |-> P]
                  ELSE InsertWalk(P, first_page_id, v, 0)
         IN IF w.halt # "none" THEN w
            ELSE [halt |-> "none", last |-> last_page_id, pool |-> w.pool,
                  ins |-> IF w.done THEN NoIns
                          ELSE [v |-> v, rear |-> w.rear, old |-> old]]

Ready ==
    /\ halt = "none"
    /\ ins = NoIns
    /\ ~scanning

\* The statement a completed insert finishes.
Done(v, old) == IF old = NoVal THEN <<"insert", v>> ELSE <<"update", old, v>>

\* Apply the result o of InsertOn: a halt, a completed insert, or an
\* insert now inside the NewPage loop.
ApplyInsert(o, v, old) ==
    IF o.halt # "none"
    THEN /\ halt' = o.halt
         /\ UNCHANGED <<pool, last_page_id, ins, stmt>>
    ELSE /\ pool' = o.pool
         /\ last_page_id' = o.last
         /\ ins' = o.ins
         /\ stmt' = IF o.ins = NoIns THEN Done(v, old) ELSE stmt
         /\ UNCHANGED halt

InsertTuple(v) ==
    /\ Ready
    /\ CanAllocate(pool)
    /\ ApplyInsert(InsertOn(pool, v, NoVal), v, NoVal)
    /\ UNCHANGED <<first_page_id, scanning, it, seen>>

\* One pass of the loop: NewPage; on nullptr sleep(1) and retry (the pool
\* is unchanged); else init the page after the rear page, insert, link
\* the rear page to it (fetching it again) and unpin both.
InsertNewPage ==
    LET n == NewR(pool)
        rear == ins.rear
        P1 == WritePage(n.pool, n.id, NewTablePage(rear, ins.v))
        r == FetchR(P1, rear)
    IN
    /\ ins # NoIns
    /\ halt = "none"
    /\ IF ~n.ok THEN UNCHANGED vars
       ELSE /\ IF rear = INVALID
               THEN /\ first_page_id' = n.id
                    /\ last_page_id' = n.id
               ELSE UNCHANGED <<first_page_id, last_page_id>>
            /\ IF ~r.ok
               THEN /\ halt' = "crash"
                    /\ UNCHANGED <<pool, ins, stmt>>
               ELSE /\ pool' = UnpinR(UnpinR(WritePage(r.pool, rear,
                                 [PageIn(r.pool, rear) EXCEPT !.next = n.id]),
                                 rear, TRUE), n.id, TRUE)
                    /\ ins' = NoIns
                    /\ stmt' = Done(ins.v, ins.old)
                    /\ UNCHANGED halt
            /\ UNCHANGED <<scanning, it, seen>>

-----------------------------------------------------------------------------
(* MarkDelete, UpdateTuple, GetTuple                                       *)

\* Mutant: the page is fetched and unpinned but the tuple is not marked.
MarkDeleteOnNoMark(P, p, s) ==
    LET r == FetchR(P, p) IN
    IF ~r.ok THEN Fail(P) ELSE [ok |-> TRUE, pool |-> UnpinR(r.pool, p, TRUE)]

\* TableHeap::MarkDelete on row <<p, s>>: fetch the page (false on
\* nullptr), mark the tuple, unpin dirty.
MarkDeleteOn(P, p, s) ==
    LET r == FetchR(P, p) IN
    IF ~r.ok THEN Fail(P)
    ELSE [ok |-> TRUE,
          pool |-> UnpinR(WritePage(r.pool, p, MarkSlot(PageIn(r.pool, p), s)), p, TRUE)]

\* The rows the executors hand to the heap: those a scan would return.
Chain(P) ==
    LET RECURSIVE From(_, _)
        From(p, d) == IF p = INVALID \/ Foreign(p) \/ d > MaxPages THEN {}
                      ELSE {p} \cup From(Content(P, p).next, d + 1)
    IN From(first_page_id, 0)
LiveRids(P) ==
    {<<p, s>> \in Chain(P) \X (1 .. SlotsPerPage) :
        s \in LiveFrom(Content(P, p), 1)}
ValueAt(P, rid) == Content(P, rid[1]).slots[rid[2]].v

\* DeleteExecutor::Init: MarkDelete must return true (ASSERT).
MarkDelete(rid) ==
    LET r == MarkDeleteOn(pool, rid[1], rid[2]) IN
    /\ Ready
    /\ IF r.ok
       THEN /\ pool' = r.pool
            /\ stmt' = <<"delete", ValueAt(pool, rid)>>
            /\ UNCHANGED halt
       ELSE /\ halt' = "crash"
            /\ UNCHANGED <<pool, stmt>>
    /\ UNCHANGED <<first_page_id, last_page_id, ins, scanning, it, seen>>

\* TableHeap::UpdateTuple(w, rid) from UpdateExecutor::Init.  TablePage's
\* UpdateTuple returns 0 when the new tuple fits in place (fits) and a
\* larger code when it does not (it returns 1 only for a deleted tuple,
\* which a scan does not return); then the row is marked deleted (a second
\* fetch), the page unpinned and w inserted as a new row.  A false result
\* fails the executor's ASSERT.
UpdateTuple(rid, w, fits) ==
    LET p == rid[1]
        v == ValueAt(pool, rid)
        r == FetchR(pool, p)
        c == PageIn(r.pool, p)
        m == MarkDeleteOn(r.pool, p, rid[2])
    IN
    /\ Ready
    /\ CanAllocate(pool)
    /\ IF ~r.ok
       THEN /\ halt' = "crash"
            /\ UNCHANGED <<pool, last_page_id, ins, stmt>>
       ELSE IF fits
       THEN /\ pool' = UnpinR(WritePage(r.pool, p,
                          [c EXCEPT !.slots[rid[2]].v = w]), p, TRUE)
            /\ stmt' = <<"update", v, w>>
            /\ UNCHANGED <<last_page_id, ins, halt>>
       ELSE ApplyInsert(InsertOn(UnpinR(m.pool, p, TRUE), w, v), w, v)
    /\ UNCHANGED <<first_page_id, scanning, it, seen>>

\* TableHeap::GetTuple (IndexScanExecutor): fetch, read, unpin clean.
GetTuple(rid) ==
    LET r == FetchR(pool, rid[1]) IN
    /\ Ready
    /\ pool' = IF r.ok THEN UnpinR(r.pool, rid[1], FALSE) ELSE pool
    /\ UNCHANGED <<first_page_id, last_page_id, ins, scanning, it, seen, halt, stmt>>

-----------------------------------------------------------------------------
(* The sequential scan                                                     *)

\* The loop of TableHeap::Begin, with page p just fetched (ok false for a
\* nullptr): on a page without a live tuple it unpins first_page_id_ (not
\* the page it fetched) and fetches the next page; nullptr gives End.
RECURSIVE BeginFrom(_, _, _, _)
BeginFrom(P, ok, p, d) ==
    IF ~ok THEN [halt |-> "none", pool |-> P, it |-> End]
    ELSE LET c == PageIn(P, p)
             P2 == UnpinR(P, first_page_id, FALSE)
         IN IF FirstSlot(c) # 0
            THEN [halt |-> "none", pool |-> P2, it |-> <<p, FirstSlot(c)>>]
            ELSE IF d > MaxPages \/ Foreign(c.next) THEN Stop("corrupt")
            ELSE LET r == FetchR(P2, c.next) IN BeginFrom(r.pool, r.ok, c.next, d + 1)

\* TableHeap::Begin.
Begin(P) ==
    IF first_page_id = INVALID THEN [halt |-> "none", pool |-> P, it |-> End]
    ELSE LET r == FetchR(P, first_page_id) IN BeginFrom(r.pool, r.ok, first_page_id, 0)

\* The loop of TableIterator::operator++(int) once the current page has no
\* further live tuple: fetch each following page and stop at the first with
\* a live tuple, unpinning each; End after the last page.
RECURSIVE AdvanceFrom(_, _, _)
AdvanceFrom(P, p, d) ==
    IF p = INVALID THEN [halt |-> "none", pool |-> P, it |-> End]
    ELSE IF d > MaxPages \/ Foreign(p) THEN Stop("corrupt")
    ELSE LET r == FetchR(P, p) IN
    IF ~r.ok THEN Stop("crash")
    ELSE LET c == PageIn(r.pool, p) IN
    IF FirstSlot(c) # 0
    THEN [halt |-> "none", pool |-> UnpinR(r.pool, p, FALSE), it |-> <<p, FirstSlot(c)>>]
    ELSE AdvanceFrom(UnpinR(r.pool, p, FALSE), c.next, d + 1)

\* Mutant: at the end of a page the iterator goes back to the page's first
\* live tuple instead of on to the next page.
AdvanceRestartsPage(P) ==
    LET r == FetchR(P, it[1])
        c == PageIn(r.pool, it[1])
    IN IF ~r.ok THEN Stop("crash")
       ELSE IF NextSlot(c, it[2]) # 0
       THEN [halt |-> "none", pool |-> r.pool, it |-> <<it[1], NextSlot(c, it[2])>>]
       ELSE [halt |-> "none", pool |-> r.pool, it |-> <<it[1], FirstSlot(c)>>]

\* TableIterator::operator++(int) from pool P: fetch the current page
\* (never unpinned), move to its next live slot or on along the chain.
Advance(P) ==
    LET r == FetchR(P, it[1])
        c == PageIn(r.pool, it[1])
    IN IF ~r.ok THEN Stop("crash")
       ELSE IF NextSlot(c, it[2]) # 0
       THEN [halt |-> "none", pool |-> r.pool, it |-> <<it[1], NextSlot(c, it[2])>>]
       ELSE AdvanceFrom(r.pool, c.next, 0)

\* Apply a scan result: a halt, or the new pool and iterator.
ApplyScan(o) ==
    IF o.halt # "none"
    THEN /\ halt' = o.halt
         /\ UNCHANGED <<pool, it>>
    ELSE /\ pool' = o.pool
         /\ it' = o.it
         /\ UNCHANGED halt

\* SeqScanExecutor::Init: table_iterator_ = Begin().
ScanBegin ==
    /\ Ready
    /\ scanning' = TRUE
    /\ seen' = {}
    /\ ApplyScan(Begin(pool))
    /\ UNCHANGED <<first_page_id, last_page_id, ins, stmt>>

\* SeqScanExecutor::Next without a predicate: false at End; else read the
\* row (operator*: fetch, GetTuple, unpin clean) and advance.
ScanNext ==
    LET r == FetchR(pool, it[1]) IN
    /\ scanning
    /\ halt = "none"
    /\ IF it = End
       THEN /\ scanning' = FALSE
            /\ UNCHANGED <<pool, it, seen, halt>>
       ELSE IF ~r.ok
       THEN /\ halt' = "crash"
            /\ UNCHANGED <<pool, it, seen, scanning>>
       ELSE /\ seen' = seen \cup {it}
            /\ ApplyScan(Advance(UnpinR(r.pool, it[1], FALSE)))
            /\ UNCHANGED scanning
    /\ UNCHANGED <<first_page_id, last_page_id, ins, stmt>>

-----------------------------------------------------------------------------
\* A table heap as TableHeap::Create leaves it (its first page allocated,
\* initialised and unpinned dirty, last_page_id_ set to it), or as it is
\* after a restart, built from the first page id alone (last_page_id_
\* INVALID, nothing resident).  TableHeap's constructors are not part of
\* the repository; these are the two states InsertTuple's branches are
\* written for.
EmptyTablePage == [next |-> INVALID, prev |-> INVALID, slots |-> <<>>]
Created ==
    LET n == NewR(EmptyPool([p \in PageIds |-> ZeroPage])) IN
    UnpinR(WritePage(n.pool, FirstId, EmptyTablePage), FirstId, TRUE)
Reopened ==
    [EmptyPool([p \in PageIds |-> IF p = FirstId THEN EmptyTablePage ELSE ZeroPage])
        EXCEPT !.nalloc = 1]

Init ==
    /\ first_page_id = FirstId
    /\ \/ pool = Created /\ last_page_id = FirstId
       \/ pool = Reopened /\ last_page_id = INVALID
    /\ ins = NoIns
    /\ scanning = FALSE
    /\ it = End
    /\ seen = {}
    /\ halt = "none"
    /\ stmt = <<"none">>

Next ==
    \/ \E v \in Vals : InsertTuple(v)
    \/ InsertNewPage
    \/ \E rid \in LiveRids(pool) :
          \/ MarkDelete(rid)
          \/ GetTuple(rid)
          \/ \E w \in Vals, fits \in BOOLEAN : UpdateTuple(rid, w, fits)
    \/ ScanBegin
    \/ ScanNext

\* The NewPage loop retries for as long as it runs, and the engine calls
\* Next on the scan until it returns false.
Fairness == WF_vars(InsertNewPage) /\ WF_vars(ScanNext)

Spec == Init /\ [][Next]_vars /\ Fairness

-----------------------------------------------------------------------------
\* The rows of the heap: live tuples on the pages of the chain.
LiveRows(P) ==
    LET L == LiveRids(P) IN
    [x \in {ValueAt(P, r) : r \in L} |-> Cardinality({r \in L : ValueAt(P, r) = x})]

\* An UPDATE that moved its row and waits in the NewPage loop has removed
\* the old row and not yet added the new one; it still counts the old.
PendingOld == IF ins # NoIns /\ ins.old # NoVal THEN SetToBag({ins.old}) ELSE EmptyBag

TypeOK ==
    /\ first_page_id \in PageIds \cup {INVALID}
    /\ last_page_id \in PageIds \cup {INVALID}
    /\ pool.pin \in [Frames -> Nat]
    /\ pool.free \in Seq(Frames)
    /\ pool.data \in [Frames -> Page]
    /\ pool.disk \in [PageIds -> Page]
    /\ ins = NoIns \/ ins \in [v : Vals, rear : PageIds \cup {INVALID}, old : Vals \cup {NoVal}]
    /\ scanning \in BOOLEAN
    /\ it = End \/ it \in PageIds \X (1 .. SlotsPerPage)
    /\ seen \subseteq PageIds \X (1 .. SlotsPerPage)
    /\ halt \in {"none", "crash", "corrupt"}

(* The page chain stays a list (spec.md 4.4): from first_page_id_ the     *)
(* next links reach INVALID through every allocated page once, each      *)
(* page's prev names the page before it, and last_page_id_, when set, is  *)
(* the tail.  InsertTuple links a new page in three writes spread over    *)
(* two pool calls and, on the restart branch, a second fetch of the rear  *)
(* page; an eviction between them loses a link.                           *)
ChainWellFormed ==
    LET RECURSIVE Walk(_, _, _)
        Walk(p, prev, d) ==
            IF p = INVALID THEN <<>>
            ELSE IF d > MaxPages \/ Foreign(p) \/ Content(pool, p).prev # prev THEN <<0>>
            ELSE <<p>> \o Walk(Content(pool, p).next, p, d + 1)
        w == Walk(first_page_id, INVALID, 1)
    IN halt = "none" =>
       /\ \A i \in DOMAIN w : w[i] = FirstId + i - 1
       /\ Len(w) = pool.nalloc
       /\ last_page_id \in {INVALID, w[Len(w)]}

(* A scan returns every row of the table once (spec.md 4.4): no call of  *)
(* SeqScanExecutor::Next returns a row id it returned before, and when it *)
(* reports the end, the row ids it returned are the live rows of the      *)
(* heap.  Begin skips pages without a live tuple and                      *)
(* operator++ crosses page boundaries in a loop of its own, and either    *)
(* can end the scan early or skip a page; a nullptr from the pool makes   *)
(* Begin return End at once.                                              *)
ScanReturnsLiveRows ==
    [][/\ scanning /\ ~scanning' => seen = LiveRids(pool)
       /\ scanning /\ it # End => it \notin seen]_vars

(* Every scan the engine starts ends: the iterator reaches End after      *)
(* finitely many calls of Next.                                           *)
ScanEnds == scanning ~> ~scanning

(* An InsertTuple that enters the NewPage retry loop of its restart       *)
(* branch leaves it: NewPage eventually returns a page, since the loop    *)
(* sleeps and retries for ever and nothing else runs meanwhile.           *)
InsertReturns == ins # NoIns ~> (ins = NoIns \/ halt # "none")

(* The heap implements RowBag: as seen by the executors, every INSERT,    *)
(* DELETE and UPDATE changes the live rows as its multiset counterpart,   *)
(* including an UPDATE that does not fit in place and is carried out as  *)
(* MarkDelete followed by InsertTuple.                                    *)
Bag == INSTANCE RowBag WITH rows <- LiveRows(pool) (+) PendingOld
RowBagRefined == Bag!Spec
=============================================================================
