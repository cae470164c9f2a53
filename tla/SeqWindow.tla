----------------------------- MODULE SeqWindow -----------------------------
(***************************************************************************)
(* The per-peer receive window over 16-bit message sequence numbers        *)
(* (SeqWindow in meshstar-core/src/transport/mod.rs).  Unlike the replay   *)
(* window it wraps around, and a number too far behind counts as new.  The *)
(* bitmap is the set of its set positions: d stands for top - d.           *)
(***************************************************************************)
EXTENDS Integers

CONSTANTS SeqSpace,     \* 2^16: values of the sequence field
          WINDOW        \* 64: bitmap positions

ASSUME SeqAssumption ==
    /\ SeqSpace \in Nat \ {0, 1}
    /\ WINDOW \in Nat \ {0}

SeqPositions == 0 .. WINDOW - 1

EmptySeqWindow == [top |-> 0, bitmap |-> {}, any |-> FALSE]

\* wrapping_sub
Minus(x, y) == (x - y) % SeqSpace

Newer(w, seq) == Minus(seq, w.top) # 0 /\ Minus(seq, w.top) < SeqSpace \div 2

\* What accept returns: is seq new?
Fresh(w, seq) ==
    \/ ~w.any
    \/ Newer(w, seq)
    \/ Minus(w.top, seq) >= WINDOW
    \/ Minus(w.top, seq) \notin w.bitmap

\* The window after accept.
AfterAccept(w, seq) ==
    IF ~w.any
    THEN [top |-> seq, bitmap |-> {0}, any |-> TRUE]
    ELSE IF Newer(w, seq)
    THEN [w EXCEPT !.top = seq,
                   !.bitmap = {d \in SeqPositions : d - Minus(seq, w.top) \in w.bitmap} \cup {0}]
    ELSE IF Minus(w.top, seq) >= WINDOW THEN w
    ELSE [w EXCEPT !.bitmap = @ \cup {Minus(w.top, seq)}]
=============================================================================
