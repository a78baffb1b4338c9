----------------------------- MODULE MC_Replacers -----------------------------
(***************************************************************************)
(* Both replacers of src/src/buffer, each driven by any sequence of       *)
(* Victim, Pin and Unpin calls over the same frames.  They share no state: *)
(* a step moves one of them and leaves the other alone.                   *)
(***************************************************************************)
EXTENDS Naturals

CONSTANT NumFrames   \* num_pages given to either constructor

VARIABLES replacer, second_chance, pointer

LRU == INSTANCE LRUReplacer WITH Frames <- 0 .. NumFrames - 1,
                                 max_pages <- NumFrames
Clock == INSTANCE ClockReplacer WITH capacity <- NumFrames

vars == <<replacer, second_chance, pointer>>

Init == LRU!Init /\ Clock!Init

Next ==
    \/ LRU!Next /\ UNCHANGED <<second_chance, pointer>>
    \/ Clock!Next /\ UNCHANGED replacer

Spec == Init /\ [][Next]_vars

TypeOK == LRU!TypeOK /\ Clock!TypeOK

(* LRUReplacer: lru_unpin_list and lru_unpin_set name the same frames,   *)
(* each once, never also in lru_pin_set (LRUReplacer!ListMatchesSet).     *)
ListMatchesSet == LRU!ListMatchesSet

(* ClockReplacer: whichever loop of Victim picks the frame, it was not   *)
(* EMPTY when Victim was called (ClockReplacer!VictimWasUnpinned).        *)
VictimWasUnpinned == Clock!VictimWasUnpinned
====
