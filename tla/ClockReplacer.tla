---------------------------- MODULE ClockReplacer ----------------------------
(***************************************************************************)
(* The clock (second chance) replacer of src/src/buffer/clock_replacer.cpp *)
(*                                                                         *)
(* second_chance holds one of EMPTY, ACCESSED, UNUSED per frame and       *)
(* pointer is where the next sweep starts.  Victim is one step: the two   *)
(* loops of ClockReplacer::Victim are the operators FirstPass and         *)
(* SecondPass below, written position by position so that the code's use *)
(* of frame id 0 as "no victim found yet" is kept.                        *)
(***************************************************************************)
EXTENDS Naturals

CONSTANT capacity   \* num_pages given to the constructor

ASSUME capacity \in Nat \ {0}

EMPTY == "EMPTY"
ACCESSED == "ACCESSED"
UNUSED == "UNUSED"

Frames == 0 .. capacity - 1

VARIABLES second_chance, pointer

vars == <<second_chance, pointer>>

\* The frame the sweep visits at its i-th position.
IdCheck(i) == (pointer + i) % capacity

\* The first loop of Victim, from position i on with the victim found so
\* far v: an UNUSED frame becomes the victim only while v is still 0.
RECURSIVE FirstPass(_, _)
FirstPass(i, v) ==
    IF i = capacity THEN v
    ELSE FirstPass(i + 1,
                   IF second_chance[IdCheck(i)] = UNUSED /\ v = 0
                   THEN IdCheck(i) ELSE v)

\* The second loop: the first UNUSED frame after the first loop has turned
\* every ACCESSED frame into UNUSED, i.e. the first frame that is not EMPTY.
RECURSIVE SecondPass(_)
SecondPass(i) ==
    IF second_chance[IdCheck(i)] # EMPTY THEN IdCheck(i) ELSE SecondPass(i + 1)

CountNonEmpty == \E f \in Frames : second_chance[f] # EMPTY

\* Mutant: the first loop's result is used as is, without the second loop.
VictimIdFirstPassOnly == FirstPass(0, 0)

VictimId ==
    LET v == FirstPass(0, 0) IN IF v = 0 THEN SecondPass(0) ELSE v

Init ==
    /\ second_chance = [f \in Frames |-> EMPTY]
    /\ pointer = 0

\* ClockReplacer::Victim when some frame is not EMPTY: every ACCESSED frame
\* is demoted, the victim becomes EMPTY and the pointer stays on it.
\* With every frame EMPTY it returns false and changes nothing.
Victim ==
    /\ CountNonEmpty
    /\ second_chance' =
         [f \in Frames |-> IF f = VictimId THEN EMPTY
                           ELSE IF second_chance[f] = ACCESSED THEN UNUSED
                           ELSE second_chance[f]]
    /\ pointer' = VictimId

\* ClockReplacer::Pin and ClockReplacer::Unpin.
Pin(f) ==
    /\ second_chance' = [second_chance EXCEPT ![f % capacity] = EMPTY]
    /\ UNCHANGED pointer

Unpin(f) ==
    /\ second_chance' = [second_chance EXCEPT ![f % capacity] = ACCESSED]
    /\ UNCHANGED pointer

Next == Victim \/ \E f \in Frames : Pin(f) \/ Unpin(f)

Spec == Init /\ [][Next]_vars

-----------------------------------------------------------------------------
TypeOK ==
    /\ second_chance \in [Frames -> {EMPTY, ACCESSED, UNUSED}]
    /\ pointer \in Frames

(* A victim is a frame the buffer pool had unpinned (spec.md 8: no       *)
(* pinned frame is selected): whichever of the two loops of Victim picks *)
(* it, and even when frame 0, the loops' "nothing found yet" value, is   *)
(* EMPTY, the frame handed out was not EMPTY when Victim was called.     *)
VictimWasUnpinned == [][Victim => second_chance[pointer'] # EMPTY]_vars
=============================================================================
