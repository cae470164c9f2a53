----------------------------- MODULE AtMostOnce -----------------------------
(***************************************************************************)
(* What one direction of a session promises the layer above it: plaintexts *)
(* are handed over in order, at most Limit of them; each is opened at most *)
(* once, only after it was handed over, in any order, or never.            *)
(***************************************************************************)
EXTENDS Integers

CONSTANT Limit

VARIABLES handed,     \* plaintexts 0 .. handed - 1 were given to the session
          opened      \* how often the peer opened each plaintext

vars == <<handed, opened>>

Init == /\ handed = 0
        /\ opened = [p \in 0 .. Limit - 1 |-> 0]

Hand == /\ handed < Limit
        /\ handed' = handed + 1
        /\ UNCHANGED opened

Open(p) == /\ p < handed
           /\ opened[p] = 0
           /\ opened' = [opened EXCEPT ![p] = 1]
           /\ UNCHANGED handed

Next == Hand \/ \E p \in 0 .. Limit - 1 : Open(p)

Spec == Init /\ [][Next]_vars
=============================================================================
