----------------------------- MODULE LRUReplacer -----------------------------
(***************************************************************************)
(* The LRU replacer of src/src/buffer/lru_replacer.cpp.                    *)
(*                                                                         *)
(* Its state (lru_replacer.h) is one record: the list lru_unpin_list,     *)
(* kept as a sequence whose first element is the list's front (Unpin      *)
(* pushes there) and whose last element is its back (Victim pops there),  *)
(* and the two hash sets lru_pin_set and lru_unpin_set.  Every operation  *)
(* is a function from a replacer record to a replacer record, so that the *)
(* buffer pool can apply several of them in one of its own steps.         *)
(***************************************************************************)
EXTENDS Naturals, Sequences, FiniteSets

CONSTANTS
    Frames,     \* the frame ids the buffer pool hands to the replacer
    max_pages   \* the capacity given to the constructor (the pool size)

ASSUME max_pages \in Nat /\ Cardinality(Frames) <= max_pages

VARIABLE replacer

\* LRUReplacer::LRUReplacer: all three containers start empty.
InitReplacer == [list |-> <<>>, pin |-> {}, unpin |-> {}]

\* LRUReplacer::Size and LRUReplacer::UnpinSize.
Size(r) == Cardinality(r.pin) + Cardinality(r.unpin)
UnpinSize(r) == Cardinality(r.unpin)

\* Mutant: Victim pops the list but leaves the frame in lru_unpin_set.
VictimKeepsSet(r) == [r EXCEPT !.list = SubSeq(@, 1, Len(@) - 1)]

\* LRUReplacer::Victim: the frame at the back of the list, i.e. the one
\* unpinned longest ago.  Only meaningful when the list is not empty.
VictimFrame(r) == r.list[Len(r.list)]
VictimR(r) ==
    [r EXCEPT !.unpin = @ \ {VictimFrame(r)},
              !.list  = SubSeq(@, 1, Len(@) - 1)]

\* LRUReplacer::Pin.  list::remove drops every occurrence of the frame.
PinR(r, f) ==
    IF f \in r.unpin
    THEN [r EXCEPT !.unpin = @ \ {f},
                   !.list  = SelectSeq(@, LAMBDA g : g # f),
                   !.pin   = @ \cup {f}]
    ELSE IF Size(r) = max_pages THEN r
    ELSE [r EXCEPT !.pin = @ \cup {f}]

\* Mutant: Unpin without the check that the frame is already listed.
UnpinPushesTwice(r, f) ==
    LET r1 == IF f \in r.pin THEN [r EXCEPT !.pin = @ \ {f}] ELSE r
    IN  IF f \notin r.pin /\ Size(r) = max_pages THEN r
        ELSE [r1 EXCEPT !.unpin = @ \cup {f}, !.list = <<f>> \o @]

\* LRUReplacer::Unpin: leave the pinned set, then join the front of the
\* list unless the frame is already there.
UnpinR(r, f) ==
    LET r1 == IF f \in r.pin THEN [r EXCEPT !.pin = @ \ {f}] ELSE r
    IN  IF f \notin r.pin /\ Size(r) = max_pages THEN r
        ELSE IF f \in r1.unpin THEN r1
        ELSE [r1 EXCEPT !.unpin = @ \cup {f}, !.list = <<f>> \o @]

-----------------------------------------------------------------------------
(* The replacer on its own, driven by any sequence of calls.              *)

Init == replacer = InitReplacer

Victim ==
    /\ replacer.list # <<>>
    /\ replacer' = VictimR(replacer)

Pin(f) == replacer' = PinR(replacer, f)

Unpin(f) == replacer' = UnpinR(replacer, f)

Next == Victim \/ \E f \in Frames : Pin(f) \/ Unpin(f)

Spec == Init /\ [][Next]_replacer

-----------------------------------------------------------------------------
TypeOK ==
    /\ replacer.list \in Seq(Frames)
    /\ Len(replacer.list) <= max_pages
    /\ replacer.pin \subseteq Frames
    /\ replacer.unpin \subseteq Frames

(* The list and the set lru_unpin_set describe the same frames, each once *)
(* in the list and never also in lru_pin_set: Victim trusts the list and  *)
(* UnpinSize trusts the set, and the buffer pool calls Victim only when   *)
(* UnpinSize says there is something to evict.                            *)
ListMatchesSet ==
    /\ {replacer.list[i] : i \in DOMAIN replacer.list} = replacer.unpin
    /\ Len(replacer.list) = Cardinality(replacer.unpin)
    /\ replacer.pin \cap replacer.unpin = {}
=============================================================================
