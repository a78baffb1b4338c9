----------------------------- MODULE DiskManager -----------------------------
(***************************************************************************)
(* The page allocator of src/src/storage/disk_manager.cpp with the extent *)
(* bitmaps of src/src/page/bitmap_page.cpp.                                *)
(*                                                                         *)
(* The allocator's state is one record: meta, the DiskFileMetaPage the    *)
(* manager keeps in memory (num_allocated_pages_, num_extents_ and        *)
(* extent_used_page_), and bitmap, the set bits of every extent's bitmap  *)
(* page as it is on disk (AllocatePage and DeAllocatePage read the page,  *)
(* change it and write it back within the call).  The operations are      *)
(* functions on that record so that the buffer pool can apply them inside *)
(* its own steps.  The counters are uint32_t: arithmetic is modulo Word.  *)
(*                                                                         *)
(* The meta page reaches the disk only in DiskManager::Close; the         *)
(* constructor reads it back.  The standalone specification at the end   *)
(* drives the allocator with callers that free only what they were given, *)
(* and with restarts, clean (after Close) or not.                         *)
(***************************************************************************)
EXTENDS Naturals, Integers, FiniteSets, FiniteSetsExt, Functions

CONSTANTS
    N,          \* BitmapPage<4096>::GetMaxSupportedSize(): pages per extent
    MaxExtents, \* bound on num_extents_
    Word        \* the range of uint32_t; any power of 2 above the counts
                \* reached behaves as 2^32 does here

ASSUME N \in Nat \ {0} /\ MaxExtents \in Nat \ {0} /\ Word > MaxExtents * N

Extents == 0 .. MaxExtents - 1
Offsets == 0 .. N - 1

\* A zero-filled meta page: what the constructor reads from a new file.
ZeroMeta == [num_allocated |-> 0, num_extents |-> 0,
             extent_used |-> [e \in Extents |-> 0]]
InitDisk == [meta |-> ZeroMeta, bitmap |-> [e \in Extents |-> {}]]

Inc(n) == (n + 1) % Word
Dec(n) == (n + Word - 1) % Word

\* The loop over extents in AllocatePage: the first one whose
\* extent_used_page_ is below N, or num_extents_ when there is none.
AllocExtent(D) ==
    LET open == {e \in 0 .. D.meta.num_extents - 1 : D.meta.extent_used[e] < N}
    IN  IF open = {} THEN D.meta.num_extents ELSE Min(open)

NewExtent(D) == AllocExtent(D) = D.meta.num_extents

\* The bitmap page read back: a new extent was just written zeroed.
AllocBits(D) == IF NewExtent(D) THEN {} ELSE D.bitmap[AllocExtent(D)]

\* BitmapPage::AllocatePage: the first clear bit.  When every bit is set
\* it fails and leaves the caller's offset at its initial value, -1 as an
\* uint32_t.
BitmapFull(bits) == Offsets \subseteq bits
AllocOffset(D) ==
    IF BitmapFull(AllocBits(D)) THEN Word - 1 ELSE Min(Offsets \ AllocBits(D))

\* The page id AllocatePage returns: extent * N + offset in uint32_t,
\* converted to page_id_t (a 32-bit int).
AllocatedId(D) ==
    LET raw == (AllocExtent(D) * N + AllocOffset(D)) % Word
    IN  IF raw >= Word \div 2 THEN raw - Word ELSE raw

\* BitmapPage::DeAllocatePage: clear the bit; a clear bit stays clear (it
\* returns false).  BitmapPage::IsPageFree: the bit is clear.
BitmapDeAllocate(bits, offset) == bits \ {offset}
BitmapIsPageFree(bits, offset) == offset \notin bits

\* DiskManager::AllocatePage: append a zeroed extent if none has room,
\* set the bit, count the page in both counters, write the bitmap back.
AllocatePage(D) ==
    LET e == AllocExtent(D)
        used == IF NewExtent(D) THEN 0 ELSE D.meta.extent_used[e]
        bits == IF BitmapFull(AllocBits(D)) THEN AllocBits(D)
                ELSE AllocBits(D) \cup {AllocOffset(D)}
    IN  [meta |-> [D.meta EXCEPT
                     !.num_allocated = Inc(@),
                     !.num_extents = IF NewExtent(D) THEN @ + 1 ELSE @,
                     !.extent_used[e] = Inc(used)],
         bitmap |-> [D.bitmap EXCEPT ![e] = bits]]

\* AllocatePage can run within the bound on extents.
CanAllocate(D) == ~NewExtent(D) \/ D.meta.num_extents < MaxExtents

\* The ASSERT of DeAllocatePage: the id's extent must exist.
CanDeAllocate(D, id) == id \div N < D.meta.num_extents

\* Mutant: the extent is taken as id % N instead of id / N.
DeAllocatePageWrongExtent(D, id) ==
    LET e == id % N IN
    [meta |-> [D.meta EXCEPT !.num_allocated = Dec(@),
                             !.extent_used[e] = Dec(@)],
     bitmap |-> [D.bitmap EXCEPT ![e] = @ \ {id % N}]]

\* DiskManager::DeAllocatePage: clear the bit (BitmapPage::DeAllocatePage,
\* whose false for a clear bit is ignored), decrement both counters
\* anyway, write the bitmap back.
DeAllocatePage(D, id) ==
    LET e == id \div N IN
    [meta |-> [D.meta EXCEPT !.num_allocated = Dec(@),
                             !.extent_used[e] = Dec(@)],
     bitmap |-> [D.bitmap EXCEPT ![e] = BitmapDeAllocate(@, id % N)]]

\* DiskManager::IsPageFree with BitmapPage::IsPageFree.
IsPageFree(D, id) ==
    \/ id \div N >= D.meta.num_extents
    \/ BitmapIsPageFree(D.bitmap[id \div N], id % N)

\* The counters of the meta page agree with the bitmaps.
MetaMatchesBitmap(D) ==
    /\ D.meta.num_extents <= MaxExtents
    /\ \A e \in Extents :
          IF e < D.meta.num_extents
          THEN D.meta.extent_used[e] = Cardinality(D.bitmap[e])
          ELSE D.bitmap[e] = {}
    /\ D.meta.num_allocated = SumFunction(D.meta.extent_used)

-----------------------------------------------------------------------------
(* The allocator on its own.  dm is the manager's state (meta in memory,  *)
(* bitmaps on disk), meta_on_disk the meta page in the file, and owned    *)
(* the ids callers were given and have not freed (the pages they wrote).  *)

VARIABLES dm, meta_on_disk, owned

vars == <<dm, meta_on_disk, owned>>

Init ==
    /\ dm = InitDisk
    /\ meta_on_disk = ZeroMeta
    /\ owned = {}

\* A caller asks for a page.  An id that is not a page (the -1 of a
\* failed bitmap) is not kept.
Allocate ==
    /\ CanAllocate(dm)
    /\ dm' = AllocatePage(dm)
    /\ owned' = IF AllocatedId(dm) >= 0 THEN owned \cup {AllocatedId(dm)}
                ELSE owned
    /\ UNCHANGED meta_on_disk

\* A caller frees one of its pages.
DeAllocate(id) ==
    /\ id \in owned
    /\ CanDeAllocate(dm, id)
    /\ dm' = DeAllocatePage(dm, id)
    /\ owned' = owned \ {id}
    /\ UNCHANGED meta_on_disk

\* DiskManager::Close writes the meta page.
Close ==
    /\ meta_on_disk' = dm.meta
    /\ UNCHANGED <<dm, owned>>

\* The process stops, after Close or not (an ASSERT, a kill), and a new
\* DiskManager on the same file reads the meta page in its constructor.
\* The bitmaps and the callers' pages are on disk already.
Restart ==
    /\ dm' = [dm EXCEPT !.meta = meta_on_disk]
    /\ UNCHANGED <<meta_on_disk, owned>>

Next == Allocate \/ Close \/ Restart \/ \E id \in owned : DeAllocate(id)

Spec == Init /\ [][Next]_vars

-----------------------------------------------------------------------------
(* spec.md 8, allocator round-trip: ids are never double-allocated before *)
(* being freed.  AllocatePage writes the bitmap page at once but the meta *)
(* page only in Close, while spec.md 4.1 says AllocatePage persists both; *)
(* a restart without Close in between must still not hand out a page a    *)
(* caller holds.                                                          *)
NeverDoubleAllocated ==
    [][Allocate => AllocatedId(dm) \notin owned]_vars
====
