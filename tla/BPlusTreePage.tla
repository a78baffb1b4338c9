---------------------------- MODULE BPlusTreePage ----------------------------
(***************************************************************************)
(* The per-page algorithms of the B+ tree pages, as constant operators:   *)
(* src/src/page/b_plus_tree_leaf_page.cpp, b_plus_tree_internal_page.cpp  *)
(* and b_plus_tree_page.cpp.                                               *)
(*                                                                         *)
(* A page's key array is a sequence; the code's array offset i is the     *)
(* sequence position i + 1, and the code's "not found" -1 is kept as -1.  *)
(* Keys are naturals compared with <= (KeyManager::CompareKeys); the      *)
(* first key of an internal page is the zeroed key, never compared.       *)
(***************************************************************************)
EXTENDS Integers, Sequences, SequencesExt

\* KeyAt(index) on a key array.
KeyAt(ks, i) == ks[i + 1]

\* Mutant: the loop compares with > instead of >=.
RECURSIVE KeyIndexLoopStrict(_, _, _, _, _)
KeyIndexLoopStrict(ks, key, left, right, found) ==
    IF left > right THEN found
    ELSE LET mid == (left + right) \div 2 IN
         IF KeyAt(ks, mid) > key
         THEN KeyIndexLoopStrict(ks, key, left, mid - 1, mid)
         ELSE KeyIndexLoopStrict(ks, key, mid + 1, right, found)

\* LeafPage::KeyIndex: binary search for the first offset whose key is
\* >= key, -1 if there is none.  One call is one iteration of the loop.
RECURSIVE KeyIndexLoop(_, _, _, _, _)
KeyIndexLoop(ks, key, left, right, found) ==
    IF left > right THEN found
    ELSE LET mid == (left + right) \div 2 IN
         IF KeyAt(ks, mid) >= key
         THEN KeyIndexLoop(ks, key, left, mid - 1, mid)
         ELSE KeyIndexLoop(ks, key, mid + 1, right, found)

KeyIndex(ks, key) == KeyIndexLoop(ks, key, 0, Len(ks) - 1, -1)

\* LeafPage::KeyFind: the offset holding exactly key, or -1.
KeyFind(ks, key) ==
    LET idx == KeyIndex(ks, key) IN
    IF idx = -1 \/ KeyAt(ks, idx) # key THEN -1 ELSE idx

\* LeafPage::Insert: in front of the first key >= key, or at the end.  It
\* inserts even when key is already there.
LeafInsert(ks, key) ==
    LET index == KeyIndex(ks, key) IN
    IF index = -1
    THEN Append(ks, key)
    ELSE InsertAt(ks, index + 1, key)

\* LeafPage::RemoveAndDeleteRecord: drop the entry holding key, if any.
LeafRemove(ks, key) ==
    LET found == KeyFind(ks, key) IN
    IF found = -1 THEN ks ELSE RemoveAt(ks, found + 1)

\* Mutant: the loop compares with < instead of <=.
RECURSIVE LookupLoopStrict(_, _, _, _, _)
LookupLoopStrict(ks, key, left, right, found) ==
    IF left > right THEN found
    ELSE LET mid == (left + right) \div 2 IN
         IF KeyAt(ks, mid) < key
         THEN LookupLoopStrict(ks, key, mid + 1, right, mid)
         ELSE LookupLoopStrict(ks, key, left, mid - 1, found)

\* InternalPage::Lookup: binary search over offsets 1 .. size-1 for the
\* last separator <= key; offset 0 when every separator is greater.
RECURSIVE LookupLoop(_, _, _, _, _)
LookupLoop(ks, key, left, right, found) ==
    IF left > right THEN found
    ELSE LET mid == (left + right) \div 2 IN
         IF KeyAt(ks, mid) <= key
         THEN LookupLoop(ks, key, mid + 1, right, mid)
         ELSE LookupLoop(ks, key, left, mid - 1, found)

Lookup(ks, key) == LookupLoop(ks, key, 1, Len(ks) - 1, 0)

\* InternalPage::ValueIndex: the offset of a child page id, -1 if absent.
ValueIndex(vs, v) ==
    IF \E i \in 1 .. Len(vs) : vs[i] = v
    THEN (CHOOSE i \in 1 .. Len(vs) : vs[i] = v) - 1
    ELSE -1

\* BPlusTreePage::GetMinSize for a page of the given kind and max size;
\* a page is the root when it has no parent.
GetMinSize(isRoot, isLeaf, max) ==
    CASE isRoot /\ ~isLeaf -> 2
      [] isRoot /\ isLeaf  -> 0
      [] ~isRoot /\ ~isLeaf -> (max + 1) \div 2
      [] OTHER -> max \div 2
=============================================================================
