---------------------------- MODULE ReplayWindow ----------------------------
(***************************************************************************)
(* The sliding anti-replay window of an established session                *)
(* (meshstar-core/src/crypto/replay.rs).  The 64-bit bitmap is the set of  *)
(* its set bit positions: position d stands for the counter top - d.       *)
(***************************************************************************)
EXTENDS Integers

CONSTANT SIZE          \* ReplayWindow::SIZE, the number of bitmap positions

ASSUME SizeAssumption == SIZE \in Nat \ {0}

Positions == 0 .. SIZE - 1

Window == [top : Nat, bitmap : SUBSET Positions, accepted_any : BOOLEAN]

NewWindow == [top |-> 0, bitmap |-> {}, accepted_any |-> FALSE]

\* May ctr be accepted?  Nothing is recorded.
check(w, ctr) ==
    \/ ~w.accepted_any
    \/ ctr > w.top
    \/ /\ w.top - ctr < SIZE
       /\ w.top - ctr \notin w.bitmap

\* bitmap << shift: positions pushed past the last one are forgotten.
ShiftedBitmap(bitmap, shift) == {d \in Positions : d - shift \in bitmap}

\* Mutant: an advance does not record the new top itself.
Recorded_NotTop(w, ctr) ==
    IF ~w.accepted_any
    THEN [top |-> ctr, bitmap |-> {0}, accepted_any |-> TRUE]
    ELSE IF ctr > w.top
         THEN [w EXCEPT !.top = ctr, !.bitmap = ShiftedBitmap(w.bitmap, ctr - w.top)]
         ELSE [w EXCEPT !.bitmap = @ \cup {w.top - ctr}]

\* The window after recording a counter that passed check.
Recorded(w, ctr) ==
    IF ~w.accepted_any
    THEN [top |-> ctr, bitmap |-> {0}, accepted_any |-> TRUE]
    ELSE IF ctr > w.top
         THEN [w EXCEPT !.top = ctr,
                        !.bitmap = ShiftedBitmap(w.bitmap, ctr - w.top) \cup {0}]
         ELSE [w EXCEPT !.bitmap = @ \cup {w.top - ctr}]

\* accept: check and record; a rejected counter leaves the window alone.
accept(w, ctr) == IF check(w, ctr) THEN Recorded(w, ctr) ELSE w
=============================================================================
