-------------------------------- MODULE Index --------------------------------
(***************************************************************************)
(* What the B+ tree index promises (spec.md 4.4): a set of unique keys.   *)
(* Insert adds a key not yet present, Remove takes a key out (nothing if  *)
(* it is absent), and a lookup answers membership.                        *)
(***************************************************************************)
CONSTANT Keys
VARIABLE index

Init == index = {}

Insert(k) == /\ k \notin index
             /\ index' = index \cup {k}

Remove(k) == index' = index \ {k}

Next == \E k \in Keys : Insert(k) \/ Remove(k)

Spec == Init /\ [][Next]_index
=============================================================================
