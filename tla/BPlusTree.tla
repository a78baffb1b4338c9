------------------------------ MODULE BPlusTree ------------------------------
(***************************************************************************)
(* The B+ tree of src/src/index/b_plus_tree.cpp on its pages.             *)
(*                                                                         *)
(* pages maps every page id of the tree to its content as the page        *)
(* classes lay it out: the page type, parent_page_id_, the key array and, *)
(* for an internal page, the child page ids (offset 0's key is the zeroed *)
(* key NoKey), for a leaf next_page_id_.  RowIds travel with their keys   *)
(* and are left out.  root_page_id is root_page_id_ and registry the      *)
(* entry of this index in the index-roots page.                           *)
(*                                                                         *)
(* Insert, Remove and GetValue are each one step: the tree is            *)
(* single-threaded (spec.md 5), so nothing interleaves inside them.       *)
(* Their recursive helpers are functions from a tree record               *)
(* T = [pages, root, reg, bp] to the record after the call.               *)
(*                                                                         *)
(* bp is what the buffer pool knows of the tree's pages, with every       *)
(* FetchPage, UnpinPage, NewPage and DeletePage the code makes, in its    *)
(* order: res the resident pages, pin those with pin_count_ 1 and alloc   *)
(* the allocated page ids.  The pool is taken to have a frame for every   *)
(* page id (BufferPoolManager.tla models eviction), and then its calls    *)
(* do what BufferPoolManager.tla shows: a FetchPage hit only pins in the  *)
(* replacer, so pin counts are 0 or 1; a miss reads the page and pins it; *)
(* UnpinPage clears the pin; NewPage takes the lowest free id, pinned;    *)
(* DeletePage of a pinned page fails and of a page not resident returns   *)
(* true without DeallocatePage.  Restart is a clean shutdown and reopen:  *)
(* the pool's destructor flushes every page, and the new BPlusTree reads  *)
(* its root from the index-roots page (RootsPage).                        *)
(***************************************************************************)
EXTENDS BPlusTreePage, Naturals, FiniteSets, Functions, TLC

CONSTANTS
    Keys,               \* the key values callers insert and remove
    PageIds,            \* the page ids NewPage can return to the tree
    LeafMaxSizes,       \* the leaf_max_size_ values a tree may be built with
    InternalMax,        \* internal_max_size_
    INVALID,            \* INVALID_PAGE_ID
    NoKey,              \* the zeroed key of offset 0 of an internal page
    RootsPage,          \* INDEX_ROOTS_PAGE_ID
    CallerChecksUnique, \* whether callers insert only keys not yet present
    MaxRestarts         \* the number of restarts a behaviour may take

ASSUME /\ Keys \subseteq Nat /\ PageIds \subseteq Nat \ {0}
       /\ LeafMaxSizes \subseteq Nat \ {0, 1} /\ InternalMax \in Nat \ {0, 1, 2}
       /\ RootsPage \notin PageIds
       /\ CallerChecksUnique \in BOOLEAN /\ MaxRestarts \in Nat

VARIABLES pages, root_page_id, registry, bp, restarts,
          leaf_max_size  \* leaf_max_size_, fixed by the constructor
vars == <<pages, root_page_id, registry, bp, restarts, leaf_max_size>>

Tree == [pages |-> pages, root |-> root_page_id, reg |-> registry, bp |-> bp]
Apply(T) == /\ pages' = T.pages
            /\ root_page_id' = T.root
            /\ registry' = T.reg
            /\ bp' = T.bp

Size(pg) == Len(pg.keys)
MaxSizeOf(pg) == IF pg.leaf THEN leaf_max_size ELSE InternalMax
IsRootPage(pg) == pg.parent = INVALID
MinSize(pg) == GetMinSize(IsRootPage(pg), pg.leaf, MaxSizeOf(pg))

\* BufferPoolManager::FetchPage, UnpinPage and NewPage (the allocator
\* hands out the lowest free id) as the tree sees them.
FetchPage(T, p) ==
    IF p \in T.bp.res THEN T
    ELSE [T EXCEPT !.bp.res = @ \cup {p}, !.bp.pin = @ \cup {p}]
UnpinPage(T, p) == [T EXCEPT !.bp.pin = @ \ {p}]
FreePageIds(T) == PageIds \ T.bp.alloc
NewPageId(T) == CHOOSE p \in FreePageIds(T) : \A q \in FreePageIds(T) : p <= q
NewPage(T, p) ==
    [T EXCEPT !.bp.res = @ \cup {p}, !.bp.pin = @ \cup {p}, !.bp.alloc = @ \cup {p}]
AddPage(T, p, pg) == [T EXCEPT !.pages = (p :> pg) @@ @]

\* DeletePage(p) on a page the tree has unlinked: the page leaves the
\* tree; the pool frees and deallocates it only when it is resident and
\* unpinned.
DeletePage(T, p) ==
    LET T1 == [T EXCEPT !.pages = Restrict(@, DOMAIN @ \ {p})] IN
    IF p \in T.bp.res \ T.bp.pin
    THEN [T1 EXCEPT !.bp.res = @ \ {p}, !.bp.alloc = @ \ {p}]
    ELSE T1

\* child->SetParentPageId(p) for every child page in cs.
Adopt(T, cs, p) ==
    [T EXCEPT !.pages = [q \in DOMAIN @ |->
                            IF q \in cs THEN [@[q] EXCEPT !.parent = p] ELSE @[q]]]

\* CopyNFrom, PushBack and PushFront re-home each moved child through the
\* pool: FetchPage(child), SetParentPageId, UnpinPage(child).
AdoptFetched(T, cs, p) ==
    [Adopt(T, cs, p) EXCEPT !.bp.res = @ \cup cs, !.bp.pin = @ \ cs]

\* FindLeafPage(key, ..., leftMost = false): descend by Lookup.
RECURSIVE Descend(_, _, _)
Descend(P, p, key) ==
    IF P[p].leaf THEN p
    ELSE Descend(P, P[p].children[Lookup(P[p].keys, key) + 1], key)
FindLeafPage(T, key) == Descend(T.pages, T.root, key)

\* The pool after FindLeafPage: FetchPage(root), then for each internal
\* page UnpinPage(it) and FetchPage(the child); the leaf stays fetched.
RECURSIVE DescendFetching(_, _, _)
DescendFetching(T, p, key) ==
    IF T.pages[p].leaf THEN T
    ELSE LET c == T.pages[p].children[Lookup(T.pages[p].keys, key) + 1]
         IN DescendFetching(FetchPage(UnpinPage(T, p), c), c, key)
LeafFetched(T, key) == DescendFetching(FetchPage(T, T.root), T.root, key)

\* BPlusTree::GetValue: on a non-empty tree, LeafPage::Lookup (KeyFind) in
\* the leaf FindLeafPage picks.
GetValue(T, key) ==
    /\ T.root # INVALID
    /\ KeyFind(T.pages[FindLeafPage(T, key)].keys, key) # -1

\* InternalPage::SetKeyAt(index, key); a null key is the zeroed NoKey.
SetKeyAt(T, p, i, key) == [T EXCEPT !.pages[p].keys[i + 1] = key]

\* LeafPage::Init and InternalPage::Init on the zeroed frame NewPage
\* returns: no entries; a leaf's next_page_id_ is not set and stays 0.
LeafInit(T, p, parent) ==
    AddPage(T, p, [leaf |-> TRUE, parent |-> parent, keys |-> <<>>,
                   children |-> <<>>, next |-> 0])
InternalInit(T, p, parent) ==
    AddPage(T, p, [leaf |-> FALSE, parent |-> parent, keys |-> <<>>,
                   children |-> <<>>, next |-> INVALID])

\* Mutant: StartNewTree without SetNextPageId(INVALID_PAGE_ID).
StartNewTreeNoNext(T, key) ==
    LET r == NewPageId(T)
        T1 == [LeafInit(NewPage(T, r), r, INVALID) EXCEPT !.root = r]
        T2 == [FetchPage(T1, RootsPage) EXCEPT !.reg = r]
        T3 == UnpinPage([FetchPage(T2, r) EXCEPT !.pages[r].keys = LeafInsert(@, key)], r)
    IN UnpinPage(UnpinPage(T3, RootsPage), r)

\* StartNewTree: NewPage(root_page_id_), Init, SetNextPageId(INVALID);
\* FetchPage(roots) and register the root; InsertIntoLeaf (FindLeafPage
\* on the one leaf, no duplicate, no split, UnpinPage(leaf)); then
\* UnpinPage(roots) and UnpinPage(root).
StartNewTree(T, key) ==
    LET r == NewPageId(T)
        T1 == [LeafInit(NewPage(T, r), r, INVALID) EXCEPT !.pages[r].next = INVALID,
                                                          !.root = r]
        T2 == [FetchPage(T1, RootsPage) EXCEPT !.reg = r]
        T3 == UnpinPage([FetchPage(T2, r) EXCEPT !.pages[r].keys = LeafInsert(@, key)], r)
    IN UnpinPage(UnpinPage(T3, RootsPage), r)

\* InternalPage::PopulateNewRoot and InsertNodeAfter (old_value present).
PopulateNewRoot(T, r, old, key, new) ==
    [T EXCEPT !.pages[r].keys = <<NoKey, key>>, !.pages[r].children = <<old, new>>]
InsertNodeAfter(T, p, old, key, new) ==
    LET at == ValueIndex(T.pages[p].children, old) + 2 IN
    [T EXCEPT !.pages[p].keys = InsertAt(@, at, key),
              !.pages[p].children = InsertAt(@, at, new)]

\* Mutant: the split leaf keeps its old next_page_id_.
LeafMoveHalfToEmptyNoLink(T, n, r) ==
    LET pg == T.pages[n]
        half == Size(pg) \div 2
    IN [T EXCEPT !.pages[r].keys = @ \o SubSeq(pg.keys, half + 1, Size(pg)),
                 !.pages[r].next = pg.next,
                 !.pages[n].keys = SubSeq(@, 1, half)]

\* LeafPage::MoveHalfToEmpty: the upper Size - Size \div 2 entries go to
\* the empty recipient, which is linked into the leaf chain after n.
LeafMoveHalfToEmpty(T, n, r) ==
    LET pg == T.pages[n]
        half == Size(pg) \div 2
    IN [T EXCEPT !.pages[r].keys = @ \o SubSeq(pg.keys, half + 1, Size(pg)),
                 !.pages[r].next = pg.next,
                 !.pages[n].keys = SubSeq(@, 1, half),
                 !.pages[n].next = r]

\* Mutant: CopyNFrom without re-homing the moved children.
InternalCopyNFromNoAdopt(T, p, ks, cs) ==
    [T EXCEPT !.pages[p].keys = @ \o ks, !.pages[p].children = @ \o cs]

\* InternalPage::CopyNFrom: append the entries and re-home their children.
InternalCopyNFrom(T, p, ks, cs) ==
    AdoptFetched([T EXCEPT !.pages[p].keys = @ \o ks, !.pages[p].children = @ \o cs],
          ToSet(cs), p)

\* InternalPage::MoveHalfToEmpty; the moved offset-0 key is the middle key.
InternalMoveHalfToEmpty(T, n, r) ==
    LET pg == T.pages[n]
        half == Size(pg) \div 2
    IN InternalCopyNFrom([T EXCEPT !.pages[n].keys = SubSeq(@, 1, half),
                                   !.pages[n].children = SubSeq(@, 1, half)],
                         r, SubSeq(pg.keys, half + 1, Size(pg)),
                         SubSeq(pg.children, half + 1, Size(pg)))

\* Split(LeafPage*) and Split(InternalPage*): NewPage r, Init with n's
\* parent, and r takes the upper half of n; r is returned pinned.
SplitLeaf(T, n, r) ==
    LeafMoveHalfToEmpty(LeafInit(NewPage(T, r), r, T.pages[n].parent), n, r)
SplitInternal(T, n, r) ==
    InternalMoveHalfToEmpty(InternalInit(NewPage(T, r), r, T.pages[n].parent), n, r)

\* InsertIntoParent(old, key, new): at the root, NewPage a root over old
\* and new, register it (FetchPage and UnpinPage of roots) and unpin it.
\* Else FetchPage(parent) and InsertNodeAfter; if the parent was full,
\* split it, recurse with the split-off page, clear that page's offset-0
\* key and unpin both halves; else unpin the parent.
RECURSIVE InsertIntoParent(_, _, _, _)
InsertIntoParent(T, old, key, new) ==
    LET par == T.pages[old].parent IN
    IF par = INVALID
    THEN LET r == NewPageId(T)
             T1 == PopulateNewRoot(InternalInit(NewPage(T, r), r, INVALID), r, old, key, new)
             T2 == [FetchPage([Adopt(T1, {old, new}, r) EXCEPT !.root = r], RootsPage)
                       EXCEPT !.reg = r]
         IN UnpinPage(UnpinPage(T2, RootsPage), r)
    ELSE LET T1 == InsertNodeAfter(FetchPage(T, par), par, old, key, new)
         IN IF Size(T.pages[par]) < MaxSizeOf(T.pages[par])
            THEN UnpinPage(T1, par)
            ELSE LET r == NewPageId(T1)
                     T2 == SplitInternal(T1, par, r)
                     T3 == InsertIntoParent(T2, par, T2.pages[r].keys[1], r)
                 IN UnpinPage(UnpinPage(SetKeyAt(T3, r, 0, NoKey), par), r)

\* Mutant: Insert never unpins the page its leaf split returned.
InsertKeyKeepsSplitPinned(T, key) ==
    IF T.root = INVALID THEN StartNewTree(T, key)
    ELSE LET n == FindLeafPage(T, key)
             T1 == [LeafFetched(T, key) EXCEPT !.pages[n].keys = LeafInsert(@, key)]
         IN IF Size(T.pages[n]) < leaf_max_size
            THEN UnpinPage(T1, n)
            ELSE LET r == NewPageId(T1)
                     T2 == SplitLeaf(T1, n, r)
                 IN UnpinPage(InsertIntoParent(T2, n, T2.pages[r].keys[1], r), n)

\* BPlusTree::Insert: start a tree, or insert into the leaf FindLeafPage
\* fetched (without a duplicate check), splitting it if it was full, and
\* unpin the leaf and the split-off page.
InsertKey(T, key) ==
    IF T.root = INVALID THEN StartNewTree(T, key)
    ELSE LET n == FindLeafPage(T, key)
             T1 == [LeafFetched(T, key) EXCEPT !.pages[n].keys = LeafInsert(@, key)]
         IN IF Size(T.pages[n]) < leaf_max_size
            THEN UnpinPage(T1, n)
            ELSE LET r == NewPageId(T1)
                     T2 == SplitLeaf(T1, n, r)
                     T3 == InsertIntoParent(T2, n, T2.pages[r].keys[1], r)
                 IN UnpinPage(UnpinPage(T3, n), r)

\* LeafPage::MoveFirstToEndOf (PushBack, Remove(0)) and MoveLastToFrontOf
\* (PushFront, Remove(size-1)), from page f to page t.
LeafMoveFirstToEndOf(T, f, t) ==
    [T EXCEPT !.pages[t].keys = Append(@, T.pages[f].keys[1]),
              !.pages[f].keys = Tail(@)]
LeafMoveLastToFrontOf(T, f, t) ==
    [T EXCEPT !.pages[t].keys = <<Last(T.pages[f].keys)>> \o @,
              !.pages[f].keys = Front(@)]

\* InternalPage::MoveFirstToEndOf: PushBack(middle_key, ValueAt(0)), which
\* re-homes the child, then Remove(0).
InternalMoveFirstToEndOf(T, f, t, middle) ==
    LET c == T.pages[f].children[1] IN
    AdoptFetched([T EXCEPT !.pages[t].keys = Append(@, middle),
                    !.pages[t].children = Append(@, c),
                    !.pages[f].keys = Tail(@),
                    !.pages[f].children = Tail(@)], {c}, t)

\* InternalPage::MoveLastToFrontOf: SetKeyAt(0, middle_key) on the
\* recipient, PushFront of the last child (whose key slot is zeroed),
\* then Remove(size-1).
InternalMoveLastToFrontOf(T, f, t, middle) ==
    LET c == Last(T.pages[f].children) IN
    AdoptFetched([T EXCEPT !.pages[t].keys = <<NoKey, middle>> \o Tail(@),
                    !.pages[t].children = <<c>> \o @,
                    !.pages[f].keys = Front(@),
                    !.pages[f].children = Front(@)], {c}, t)

\* LeafPage::MoveAllToLeft and InternalPage::MoveAllToLeft: every entry of
\* f is appended to t; a leaf passes on its next_page_id_, an internal
\* page's offset-0 slot gets the parent's middle key.
LeafMoveAllToLeft(T, f, t) ==
    [T EXCEPT !.pages[t].keys = @ \o T.pages[f].keys,
              !.pages[t].next = T.pages[f].next,
              !.pages[f].keys = <<>>]
InternalMoveAllToLeft(T, f, t, middle) ==
    LET T1 == InternalCopyNFrom(T, t, T.pages[f].keys, T.pages[f].children) IN
    [SetKeyAt(T1, t, Size(T.pages[t]), middle)
        EXCEPT !.pages[f].keys = <<>>, !.pages[f].children = <<>>]

\* InternalPage::Remove(index).
InternalRemove(T, p, index) ==
    [T EXCEPT !.pages[p].keys = RemoveAt(@, index + 1),
              !.pages[p].children = RemoveAt(@, index + 1)]

\* Mutants of Redistribute: the parent's separator is not rewritten.
RedistributeLeafKeepsSeparator(T, nb, n, index) ==
    IF index = 0 THEN LeafMoveFirstToEndOf(T, nb, n)
    ELSE LeafMoveLastToFrontOf(T, nb, n)
RedistributeInternalKeepsSeparator(T, nb, n, index) ==
    LET par == T.pages[n].parent IN
    IF index = 0
    THEN LET T1 == InternalMoveFirstToEndOf(T, nb, n,
                       T.pages[par].keys[ValueIndex(T.pages[par].children, nb) + 1])
         IN SetKeyAt(T1, nb, 0, NoKey)
    ELSE InternalMoveLastToFrontOf(T, nb, n,
             T.pages[par].keys[ValueIndex(T.pages[par].children, n) + 1])

\* Redistribute(neighbor, node, index) for leaves: FetchPage(parent)
\* (never unpinned), then index = 0 means node is the leftmost child and
\* takes its right neighbour's first entry, else node takes its left
\* neighbour's last entry; the key the move returns becomes the parent's
\* separator of the right one of the two.
RedistributeLeaf(T, nb, n, index) ==
    LET par == T.pages[n].parent
        T0 == FetchPage(T, par)
    IN IF index = 0
       THEN LET mki == ValueIndex(T.pages[par].children, nb)
                T1 == LeafMoveFirstToEndOf(T0, nb, n)
            IN SetKeyAt(T1, par, mki, T1.pages[nb].keys[1])
       ELSE LET mki == ValueIndex(T.pages[par].children, n)
                T1 == LeafMoveLastToFrontOf(T0, nb, n)
            IN SetKeyAt(T1, par, mki, T1.pages[n].keys[1])

\* The internal version rotates through the parent: the old separator
\* comes down into node and the key the move returns goes up; the
\* neighbour's new offset-0 key is cleared.
RedistributeInternal(T, nb, n, index) ==
    LET par == T.pages[n].parent
        T0 == FetchPage(T, par)
    IN IF index = 0
       THEN LET mki == ValueIndex(T.pages[par].children, nb)
                T1 == InternalMoveFirstToEndOf(T0, nb, n, T.pages[par].keys[mki + 1])
            IN SetKeyAt(SetKeyAt(T1, par, mki, T1.pages[nb].keys[1]), nb, 0, NoKey)
       ELSE LET mki == ValueIndex(T.pages[par].children, n)
                T1 == InternalMoveLastToFrontOf(T0, nb, n, T.pages[par].keys[mki + 1])
            IN SetKeyAt(T1, par, mki, Last(T.pages[nb].keys))

\* Mutant: the merge unlinks and deletes the right page without moving
\* its entries.
CoalesceDropsRight(T, nb, n, par, index) ==
    IF index = 0 THEN DeletePage(InternalRemove(T, par, 1), nb)
    ELSE DeletePage(InternalRemove(T, par, index), n)

\* Coalesce(neighbor, node, parent, index): the right one of the pair
\* moves all to the left one, its entry is removed from the parent and
\* the page deleted.
Coalesce(T, nb, n, par, index) ==
    LET Move(f, t, middle) ==
            IF T.pages[n].leaf THEN LeafMoveAllToLeft(T, f, t)
            ELSE InternalMoveAllToLeft(T, f, t, middle)
    IN IF index = 0
       THEN DeletePage(InternalRemove(Move(nb, n, T.pages[par].keys[2]), par, 1), nb)
       ELSE DeletePage(InternalRemove(Move(n, nb, T.pages[par].keys[index + 1]), par, index), n)

\* Mutant: AdjustRoot without UpdateRootPageId.
AdjustRootNoUpdate(T, r) ==
    LET pg == T.pages[r] IN
    CASE Size(pg) = 0 ->
           UnpinPage([FetchPage(T, RootsPage) EXCEPT !.reg = INVALID], RootsPage)
      [] Size(pg) = 1 ->
           LET c == pg.children[1]
               T1 == [FetchPage([T EXCEPT !.root = c], c) EXCEPT !.pages[c].parent = INVALID]
           IN UnpinPage(DeletePage(T1, r), c)
      [] OTHER -> T

\* AdjustRoot: an emptied root drops the registry entry (FetchPage and
\* UnpinPage of roots); an internal root left with one child
\* (RemoveAndReturnOnlyChild) hands root_page_id_ to the child, which is
\* fetched and made parentless, the old root is deleted, the child
\* unpinned, and UpdateRootPageId re-registers it.
AdjustRoot(T, r) ==
    LET pg == T.pages[r] IN
    CASE Size(pg) = 0 ->
           UnpinPage([FetchPage(T, RootsPage) EXCEPT !.reg = INVALID], RootsPage)
      [] Size(pg) = 1 ->
           LET c == pg.children[1]
               T1 == [FetchPage([T EXCEPT !.root = c], c) EXCEPT !.pages[c].parent = INVALID]
               T2 == UnpinPage(DeletePage(T1, r), c)
           IN UnpinPage([FetchPage(T2, RootsPage) EXCEPT !.reg = c], RootsPage)
      [] OTHER -> T

\* CoalesceOrRedistribute(node): AdjustRoot at the root; else FetchPage
\* the parent and the neighbour (neither is ever unpinned), the right one
\* for the leftmost child, else the left one; redistribute when the two
\* do not fit in one page, else merge and look at the parent.
RECURSIVE CoalesceOrRedistribute(_, _)
CoalesceOrRedistribute(T, n) ==
    LET pg == T.pages[n]
        par == pg.parent
        index == ValueIndex(T.pages[par].children, n)
        nb == T.pages[par].children[(IF index = 0 THEN 1 ELSE index - 1) + 1]
        T0 == FetchPage(FetchPage(T, par), nb)
        T1 == Coalesce(T0, nb, n, par, index)
    IN IF IsRootPage(pg) THEN AdjustRoot(T, n)
       ELSE IF Size(T.pages[nb]) + Size(pg) > MaxSizeOf(pg)
       THEN IF pg.leaf THEN RedistributeLeaf(T0, nb, n, index)
            ELSE RedistributeInternal(T0, nb, n, index)
       ELSE IF Size(T1.pages[par]) < MinSize(T1.pages[par])
            THEN CoalesceOrRedistribute(T1, par)
            ELSE T1

\* Mutant: Remove never rebalances.
RemoveKeyNoRebalance(T, key) ==
    LET n == FindLeafPage(T, key) IN
    UnpinPage([LeafFetched(T, key) EXCEPT !.pages[n].keys = LeafRemove(@, key)], n)

\* BPlusTree::Remove on a non-empty tree: FindLeafPage; an empty leaf
\* returns at once, still pinned; else remove the key from the leaf,
\* rebalance on underflow and UnpinPage(leaf).
RemoveKey(T, key) ==
    LET n == FindLeafPage(T, key)
        T0 == LeafFetched(T, key)
        T1 == [T0 EXCEPT !.pages[n].keys = LeafRemove(@, key)]
    IN IF Size(T.pages[n]) = 0 THEN T0
       ELSE UnpinPage(IF Size(T1.pages[n]) < MinSize(T1.pages[n])
                      THEN CoalesceOrRedistribute(T1, n)
                      ELSE T1, n)

-----------------------------------------------------------------------------
\* The keys of every leaf page, and the tree's height.
AllKeys == UNION {ToSet(pages[p].keys) : p \in {q \in DOMAIN pages : pages[q].leaf}}
RECURSIVE DepthOf(_, _)
DepthOf(P, p) == IF P[p].leaf THEN 1 ELSE 1 + DepthOf(P, P[p].children[1])
Height == IF root_page_id = INVALID THEN 0 ELSE DepthOf(pages, root_page_id)

\* The BPlusTree constructor: FetchPage(roots) and GetRootId; only when
\* the index has an entry is root_page_id_ set and roots unpinned.
Construct(T) ==
    LET T0 == FetchPage(T, RootsPage) IN
    IF T.reg # INVALID THEN UnpinPage([T0 EXCEPT !.root = T.reg], RootsPage)
    ELSE [T0 EXCEPT !.root = INVALID]

\* A new index, built with a leaf_max_size_ of LeafMaxSizes, on a pool
\* that holds the allocated index-roots page, which may or may not be
\* resident when the constructor fetches it.
Init ==
    /\ leaf_max_size \in LeafMaxSizes
    /\ pages = <<>>
    /\ registry = INVALID
    /\ restarts = 0
    /\ \E res \in {{}, {RootsPage}} :
          LET T == Construct([pages |-> <<>>, root |-> INVALID, reg |-> INVALID,
                              bp |-> [res |-> res, pin |-> {}, alloc |-> {RootsPage}]])
          IN /\ root_page_id = T.root
             /\ bp = T.bp

\* An insert through the index.  The insert executor checks with ScanKey
\* that the key is absent first (CallerChecksUnique); a split that finds
\* no page to allocate is LOG(FATAL), so the model only takes inserts for
\* which enough ids are left (at most one new page per level, plus a root).
TreeInsert(key) ==
    /\ CallerChecksUnique => key \notin AllKeys
    /\ Cardinality(FreePageIds(Tree)) > Height
    /\ Apply(InsertKey(Tree, key))
    /\ UNCHANGED restarts

\* A remove through the index; on an empty tree it returns at once.
TreeRemove(key) ==
    /\ root_page_id # INVALID
    /\ Apply(RemoveKey(Tree, key))
    /\ UNCHANGED restarts

\* BPlusTree::GetValue (ScanKey): on a non-empty tree, FindLeafPage and a
\* Lookup in the leaf, which is never unpinned.
TreeGetValue(key) ==
    /\ root_page_id # INVALID
    /\ bp' = LeafFetched(Tree, key).bp
    /\ UNCHANGED <<pages, root_page_id, registry, restarts>>

\* A clean shutdown and reopen: ~BufferPoolManager flushes every resident
\* page (the pages keep their content), the new pool is empty, and the
\* index's BPlusTree is constructed again.
Restart ==
    /\ restarts < MaxRestarts
    /\ restarts' = restarts + 1
    /\ Apply(Construct([Tree EXCEPT !.bp.res = {}, !.bp.pin = {}]))

Next == /\ UNCHANGED leaf_max_size
        /\ \/ \E key \in Keys : TreeInsert(key) \/ TreeRemove(key) \/ TreeGetValue(key)
           \/ Restart

Spec == Init /\ [][Next]_vars

-----------------------------------------------------------------------------
TypeOK ==
    /\ DOMAIN pages \subseteq PageIds
    /\ root_page_id \in PageIds \cup {INVALID}
    /\ registry \in PageIds \cup {INVALID}
    /\ bp \in [res : SUBSET (PageIds \cup {RootsPage}), pin : SUBSET (PageIds \cup {RootsPage}),
               alloc : SUBSET (PageIds \cup {RootsPage})]
    /\ bp.pin \subseteq bp.res
    /\ restarts \in 0 .. MaxRestarts
    /\ leaf_max_size \in LeafMaxSizes
    /\ \A p \in DOMAIN pages :
          /\ pages[p].leaf \in BOOLEAN
          /\ pages[p].parent \in PageIds \cup {INVALID}
          /\ pages[p].next \in PageIds \cup {INVALID}
          /\ pages[p].keys \in Seq(Keys \cup {NoKey})
          /\ pages[p].children \in Seq(PageIds)

\* The pages reachable from p through child pointers, and the depths of
\* the leaves below p.
RECURSIVE Subtree(_, _)
Subtree(P, p) ==
    {p} \cup UNION {Subtree(P, c) : c \in ToSet(P[p].children) \cap DOMAIN P}
RECURSIVE LeafDepths(_, _)
LeafDepths(P, p) ==
    IF P[p].leaf THEN {1}
    ELSE {d + 1 : d \in UNION {LeafDepths(P, c) : c \in ToSet(P[p].children)}}

(* Balance invariant (spec.md 8 and 4.4 (b)): after any sequence of       *)
(* inserts and removes the pages of the tree are exactly those reachable  *)
(* from root_page_id_, every child's parent_page_id_ names the page that  *)
(* points to it (CopyNFrom/PushBack/PushFront re-home moved children),    *)
(* all leaves are at one depth, and every page holds GetMinSize() ..      *)
(* GetMaxSize() entries.  Split, redistribute, coalesce and AdjustRoot    *)
(* each rewrite several pages, and a mistake in one shows only after a    *)
(* later operation walks the damaged part.                                *)
BalancedTree ==
    root_page_id # INVALID =>
      LET P == pages IN
      /\ root_page_id \in DOMAIN P
      /\ IsRootPage(P[root_page_id])
      /\ \A p \in DOMAIN P : ~P[p].leaf =>
            /\ Len(P[p].children) = Size(P[p])
            /\ \A c \in ToSet(P[p].children) : c \in DOMAIN P /\ P[c].parent = p
      /\ DOMAIN P = Subtree(P, root_page_id)
      /\ Cardinality(LeafDepths(P, root_page_id)) = 1
      /\ \A p \in DOMAIN P : MinSize(P[p]) <= Size(P[p]) /\ Size(P[p]) <= MaxSizeOf(P[p])

(* GetValue round trip (spec.md 8): descending by InternalPage::Lookup    *)
(* and searching the leaf with KeyFind finds a key exactly when some leaf *)
(* holds it.  It fails when a separator pushed up by a split or rewritten *)
(* by a redistribution no longer bounds the subtrees beside it.           *)
GetValueCorrect ==
    \A k \in Keys : GetValue(Tree, k) <=> k \in AllKeys

\* Reference definitions of the page searches: the first offset holding a
\* key >= k (-1 if none), and the last separator offset (from 1) holding a
\* key <= k (0 if none).  Probes are the keys and the values around them.
FirstGE(a, k) ==
    IF \E i \in 1 .. Len(a) : a[i] >= k
    THEN (CHOOSE i \in 1 .. Len(a) : a[i] >= k /\ \A j \in 1 .. i - 1 : a[j] < k) - 1
    ELSE -1
LastLE(a, k) ==
    IF \E i \in 2 .. Len(a) : a[i] <= k
    THEN (CHOOSE i \in 2 .. Len(a) : a[i] <= k /\ \A j \in i + 1 .. Len(a) : a[j] > k) - 1
    ELSE 0
Probes == UNION {{k - 1, k, k + 1} : k \in Keys}

(* The binary searches agree with their linear definitions on every page  *)
(* the tree builds: LeafPage::KeyIndex returns the first offset holding a *)
(* key >= the probe (where Insert puts a key and Begin(key) starts) and   *)
(* KeyFind that offset only when it holds the probe; InternalPage::Lookup *)
(* returns the child left of the first separator above the probe, never   *)
(* reading offset 0.  Each halving loop must neither skip nor overrun the *)
(* boundary, for every page size splits and merges leave.                 *)
PageSearchCorrect ==
    \A p \in DOMAIN pages, k \in Probes :
        LET ks == pages[p].keys IN
        IF pages[p].leaf
        THEN /\ KeyIndex(ks, k) = FirstGE(ks, k)
             /\ KeyFind(ks, k) = IF k \in ToSet(ks) THEN FirstGE(ks, k) ELSE -1
        ELSE Lookup(ks, k) = LastLE(ks, k)

\* The leaf pages, and the pages visited by following next_page_id_ from
\* the leftmost leaf (cut after fuel pages, so a cycle shows up as a chain
\* longer than the number of leaves).
Leaves == {p \in DOMAIN pages : pages[p].leaf}
RECURSIVE LeftmostLeaf(_, _)
LeftmostLeaf(P, p) == IF P[p].leaf THEN p ELSE LeftmostLeaf(P, P[p].children[1])
RECURSIVE Chain(_, _, _)
Chain(P, p, fuel) ==
    IF p = INVALID \/ fuel = 0 THEN <<>>
    ELSE <<p>> \o (IF p \in DOMAIN P /\ P[p].leaf THEN Chain(P, P[p].next, fuel - 1)
                   ELSE <<>>)

(* Leaf chain (spec.md 8 and 4.4 (d)): next_page_id_ links, from the      *)
(* leftmost leaf, every leaf exactly once and ends in INVALID_PAGE_ID,    *)
(* and the concatenated keys are strictly ascending: what an index        *)
(* iterator scan returns.  Split and coalesce relink the chain.           *)
LeafChainSorted ==
    root_page_id # INVALID =>
      LET ch == Chain(pages, LeftmostLeaf(pages, root_page_id), Cardinality(Leaves) + 1)
      IN /\ ToSet(ch) = Leaves
         /\ Len(ch) = Cardinality(Leaves)
         /\ LET ks == FlattenSeq([i \in 1 .. Len(ch) |-> pages[ch[i]].keys])
            IN \A i \in 1 .. Len(ks) - 1 : ks[i] < ks[i + 1]

(* The root page id survives a restart (spec.md 4.4 (e)): the index-roots *)
(* entry names the current root after every root split and root collapse. *)
RootRegistered == registry = root_page_id

(* Pages returned (spec.md 3, B+ Tree lifecycle): a page that Coalesce   *)
(* or AdjustRoot takes out of the tree is given back to the disk manager  *)
(* by DeletePage, so the allocated page ids are exactly the tree's pages  *)
(* and the index-roots page.  DeletePage refuses a pinned page and keeps  *)
(* the id of one that is not resident, so this rests on every FetchPage   *)
(* of the tree having been unpinned before the merge deletes the page.    *)
PagesReturned == bp.alloc = DOMAIN pages \cup {RootsPage}

(* What b_plus_tree_test asserts with Check() (CheckAllUnpinned) after    *)
(* its inserts, lookups and removes, in one run of the pool: no page of   *)
(* the tree is left pinned and no page id leaks.  Every FetchPage and     *)
(* NewPage of a split cascade, of InsertIntoParent and of the            *)
(* redistribute and merge paths must be matched by an UnpinPage, or be a  *)
(* hit on a page already resident.                                        *)
CheckAllUnpinned ==
    restarts = 0 => /\ bp.pin \subseteq {RootsPage}
                    /\ PagesReturned

(* What the index promises its callers (Index.tla): a set of unique keys  *)
(* to which Insert adds its key and from which Remove takes exactly its   *)
(* key, however many pages split, borrow or merge on the way.             *)
Abstract == INSTANCE Index WITH index <- AllKeys
IndexSpec == Abstract!Spec
=============================================================================
