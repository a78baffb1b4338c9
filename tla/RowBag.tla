------------------------------- MODULE RowBag -------------------------------
(***************************************************************************)
(* What a table heap promises its executors: the rows of a table form a    *)
(* multiset.  An INSERT adds a row, a DELETE removes one present row, an   *)
(* UPDATE replaces one present row by another; nothing else changes it.   *)
(* stmt names the statement that completed last, so that a step is read   *)
(* as the statement that caused it.  Catalog.tla keeps a table's heap at  *)
(* this level.                                                             *)
(***************************************************************************)
EXTENDS Bags

CONSTANT Vals

VARIABLES rows, stmt

One(v) == SetToBag({v})

Init == rows = EmptyBag /\ stmt = <<"none">>

Insert(v) ==
    /\ rows' = rows (+) One(v)
    /\ stmt' = <<"insert", v>>

Delete(v) ==
    /\ BagIn(v, rows)
    /\ rows' = rows (-) One(v)
    /\ stmt' = <<"delete", v>>

Update(v, w) ==
    /\ BagIn(v, rows)
    /\ rows' = (rows (-) One(v)) (+) One(w)
    /\ stmt' = <<"update", v, w>>

Next == \E v, w \in Vals : Insert(v) \/ Delete(v) \/ Update(v, w)

Spec == Init /\ [][Next]_<<rows, stmt>>
=============================================================================
