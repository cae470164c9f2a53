-------------------------- MODULE SessionTransport --------------------------
(***************************************************************************)
(* One direction of an established Noise session                           *)
(* (meshstar-core/src/crypto/session.rs): the sender encrypts with an      *)
(* explicit counter, the radio network loses, repeats, reorders and        *)
(* damages frames, the receiver decrypts behind its replay window.         *)
(*                                                                         *)
(* A frame on the air carries the counter in a 24-bit field (CtrSpace is   *)
(* 2^24 in the code) next to the ciphertext of one plaintext; plaintexts   *)
(* are named by the order they were handed to encrypt.  A frame that is    *)
(* not intact fails authentication.                                        *)
(***************************************************************************)
EXTENDS ReplayWindow

CONSTANTS CtrSpace,                \* values of the wire counter field
          COUNTER_REKEY_THRESHOLD  \* encrypt refuses from this counter on

ASSUME CounterAssumption ==
    /\ CtrSpace \in Nat \ {0}
    /\ COUNTER_REKEY_THRESHOLD \in Nat
    /\ COUNTER_REKEY_THRESHOLD <= CtrSpace

VARIABLES send_ctr,   \* the sender's next counter
          air,        \* frames that may (still, or again) reach the receiver
          replay,     \* the receiver's replay window
          opened      \* history: how often each plaintext was handed up

vars == <<send_ctr, air, replay, opened>>

Plaintexts == 0 .. COUNTER_REKEY_THRESHOLD - 1

Frames == [ctr : 0 .. CtrSpace - 1, plain : Plaintexts, intact : BOOLEAN]

\* Mutant: the field is narrower than the rekey threshold allows for.
WireCounter_Narrow(ctr) == ctr % (CtrSpace - 1)

\* The wire counter: the low three bytes of the 64-bit send counter.
WireCounter(ctr) == ctr % CtrSpace

Init == /\ send_ctr = 0
        /\ air = {}
        /\ replay = NewWindow
        /\ opened = [p \in Plaintexts |-> 0]

\* Session::encrypt: refuse at the threshold, otherwise use the counter once.
encrypt ==
    /\ send_ctr < COUNTER_REKEY_THRESHOLD
    /\ send_ctr' = send_ctr + 1
    /\ air' = air \cup {[ctr |-> WireCounter(send_ctr), plain |-> send_ctr, intact |-> TRUE]}
    /\ UNCHANGED <<replay, opened>>

\* Session::decrypt on a frame that authenticates.
decrypt(f) ==
    /\ check(replay, f.ctr)
    /\ f.intact
    /\ replay' = accept(replay, f.ctr)
    /\ opened' = [opened EXCEPT ![f.plain] = @ + 1]
    /\ UNCHANGED <<send_ctr, air>>

\* Mutant: the counter is recorded before the frame is authenticated.
decryptFails_Records(f) ==
    /\ check(replay, f.ctr) => ~f.intact
    /\ replay' = accept(replay, f.ctr)
    /\ UNCHANGED <<send_ctr, air, opened>>

\* Session::decrypt on a frame that does not: the window is not touched.
decryptFails(f) ==
    /\ check(replay, f.ctr) => ~f.intact
    /\ UNCHANGED vars

\* The medium damages a copy of a frame, or stops carrying a frame.
Damage(f) == /\ f.intact
             /\ air' = air \cup {[f EXCEPT !.intact = FALSE]}
             /\ UNCHANGED <<send_ctr, replay, opened>>

Lose(f) == /\ air' = air \ {f}
           /\ UNCHANGED <<send_ctr, replay, opened>>

Next == \/ encrypt
        \/ \E f \in air : decrypt(f) \/ decryptFails(f) \/ Damage(f) \/ Lose(f)

Spec == Init /\ [][Next]_vars

-----------------------------------------------------------------------------
(* Properties                                                              *)

TypeOK ==
    /\ send_ctr \in 0 .. COUNTER_REKEY_THRESHOLD
    /\ air \subseteq Frames
    /\ replay \in Window
    /\ opened \in [Plaintexts -> Nat]

\* No frame, however often the air repeats it, is opened twice: decrypt
\* consults the replay window before it authenticates and records after.
NoReplay == \A p \in Plaintexts : opened[p] <= 1

\* The window is exact: once something was accepted, the receiver refuses a
\* counter only because it was opened before or lies SIZE or more behind the
\* highest one.  A damaged copy that arrives first must not use it up.
WindowExact ==
    replay.accepted_any =>
        \A p \in Plaintexts :
            check(replay, p) <=> (opened[p] = 0 /\ p > replay.top - SIZE)

\* No two plaintexts are ever encrypted under the same wire counter: encrypt
\* refuses before the 24-bit field wraps.
NonceUnique == \A f, g \in air : f.ctr = g.ctr => f.plain = g.plain

\* The session implements at-most-once delivery to the layer above.
Promise == INSTANCE AtMostOnce WITH Limit <- COUNTER_REKEY_THRESHOLD, handed <- send_ctr

ImplementsAtMostOnce == Promise!Spec
=============================================================================
