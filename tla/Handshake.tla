------------------------------ MODULE Handshake ------------------------------
(***************************************************************************)
(* Session set-up, rekey and tear-down between two nodes                   *)
(* (meshstar-core/src/node/session.rs, the session parts of node/mod.rs,   *)
(* node/rx.rs and node/tx.rs, and the step machine of crypto/noise.rs).    *)
(*                                                                         *)
(* Addresses are 1 and 2; each node holds at most one pending handshake    *)
(* and one session with the other.  Ephemeral keys are numbered in the     *)
(* order they are drawn, and the keys of a session are named by the pair   *)
(* (initiator's ephemeral, responder's ephemeral): two ends can read each  *)
(* other exactly when their pairs are equal.                               *)
(*                                                                         *)
(* The air only grows: every frame ever sent may arrive late, again, or    *)
(* never, in any order.  Timers (handshake timeout, idle timeout, rekey    *)
(* age, retransmission delay) may run out at any moment.                   *)
(***************************************************************************)
EXTENDS Integers, Sequences, FiniteSets

CONSTANTS Handles1,       \* application sends of node 1
          Handles2,       \* application sends of node 2
          MaxEphemerals,  \* bound: HandshakeXX::new calls explored
          EpochSpace,     \* 256: the epoch is a u8
          QueueLimit,     \* 8: sends queued behind one handshake
          M1Attempts,     \* 3: message 1 transmissions
          NoticeAttempts, \* 4: NO_SESSION notices while waiting for message 3
          M3Resends       \* 3: message 3 retransmissions per session

ASSUME HandshakeAssumption ==
    /\ Handles1 \subseteq Nat /\ IsFiniteSet(Handles1)
    /\ Handles2 \subseteq Nat /\ IsFiniteSet(Handles2)
    /\ Handles1 \cap Handles2 = {}
    /\ {MaxEphemerals, EpochSpace, QueueLimit, M1Attempts, NoticeAttempts, M3Resends} \subseteq Nat \ {0}

Nodes == {1, 2}
Peer(n) == 3 - n
Handles == Handles1 \cup Handles2
HandlesOf(n) == IF n = 1 THEN Handles1 ELSE Handles2
Keys == (1 .. MaxEphemerals) \X (1 .. MaxEphemerals)
NoHandshake == [role |-> "None"]
NoSession == [key |-> <<>>]

VARIABLES hs,        \* Node.handshakes: the pending handshake with the peer
          sess,      \* Node.sessions: the session with the peer
          air,       \* every frame sent so far
          drawn,     \* ephemeral keys drawn so far
          status,    \* history: what became of each application send
          installed, \* history: the session keys each node installed, in order
          staleM1    \* history: a message 1 was answered that its sender had given up

vars == <<hs, sess, air, drawn, status, installed, staleM1>>

Pending(n) == hs[n] # NoHandshake
Connected(n) == sess[n] # NoSession

(* Frames.  Message 2 and 3 are bound to both ephemerals by the transcript. *)
M1(n, e, epoch) == [kind |-> "m1", to |-> Peer(n), e |-> e, epoch |-> epoch]
M2(n, e, r) == [kind |-> "m2", to |-> Peer(n), e |-> e, r |-> r]
M3(n, e, r) == [kind |-> "m3", to |-> Peer(n), e |-> e, r |-> r]
Sealed(n, kind) == [kind |-> kind, to |-> Peer(n), key |-> sess[n].key, epoch |-> sess[n].epoch]
Notice(n) == [kind |-> "no_session", to |-> Peer(n)]

Init == /\ hs = [n \in Nodes |-> NoHandshake]
        /\ sess = [n \in Nodes |-> NoSession]
        /\ air = {}
        /\ drawn = 0
        /\ status = [h \in Handles |-> "new"]
        /\ installed = [n \in Nodes |-> <<>>]
        /\ staleM1 = FALSE

-----------------------------------------------------------------------------
(* Starting: start_handshake, and the application's send_or_queue          *)

NextEpoch(n) == IF Connected(n) THEN (sess[n].epoch + 1) % EpochSpace ELSE 0

InitiatorState(e, epoch, queued) ==
    [role |-> "Initiator", e |-> e, re |-> 0, epoch |-> epoch, queued |-> queued,
     attempts |-> 1, garbled |-> FALSE]

ResponderState(e, re, epoch, queued) ==
    [role |-> "Responder", e |-> e, re |-> re, epoch |-> epoch, queued |-> queued,
     attempts |-> 1, garbled |-> FALSE]

\* start_handshake when none is pending: a fresh ephemeral, message 1 goes out.
start_handshake(n, queued) ==
    /\ ~Pending(n)
    /\ drawn < MaxEphemerals
    /\ drawn' = drawn + 1
    /\ hs' = [hs EXCEPT ![n] = InitiatorState(drawn + 1, NextEpoch(n), queued)]
    /\ air' = air \cup {M1(n, drawn + 1, NextEpoch(n))}

\* send_or_queue for an unreliable or acknowledged message.
SendInSession(n, h) ==
    /\ Connected(n)
    /\ air' = air \cup {Sealed(n, "data")}
    /\ status' = [status EXCEPT ![h] = "sent"]
    /\ UNCHANGED <<hs, sess, drawn, installed, staleM1>>

SendQueued(n, h) ==
    /\ ~Connected(n)
    /\ Pending(n)
    /\ IF Cardinality(hs[n].queued) < QueueLimit
       THEN /\ hs' = [hs EXCEPT ![n].queued = @ \cup {h}]
            /\ status' = [status EXCEPT ![h] = "queued"]
       ELSE /\ status' = [status EXCEPT ![h] = "failed"]
            /\ UNCHANGED hs
    /\ UNCHANGED <<sess, air, drawn, installed, staleM1>>

SendStarts(n, h) ==
    /\ ~Connected(n)
    /\ start_handshake(n, {h})
    /\ status' = [status EXCEPT ![h] = "queued"]
    /\ UNCHANGED <<sess, installed, staleM1>>

send_or_queue(n) ==
    \E h \in HandlesOf(n) :
        /\ status[h] = "new"
        /\ \A g \in HandlesOf(n) : g < h => status[g] # "new"     \* handles count up
        /\ SendInSession(n, h) \/ SendQueued(n, h) \/ SendStarts(n, h)

\* retry_outstanding of an unacknowledged send whose session vanished.
retry_outstanding(n) ==
    \E h \in HandlesOf(n) :
        /\ status[h] = "sent"
        /\ SendQueued(n, h) \/ SendStarts(n, h)

\* Traffic of the running session that belongs to no application send.
session_traffic(n) ==
    /\ Connected(n)
    /\ air' = air \cup {Sealed(n, "data")}
    /\ UNCHANGED <<hs, sess, drawn, status, installed, staleM1>>

-----------------------------------------------------------------------------
(* Receiving: handle_handshake                                             *)

\* install_session then drain_queued: what waited behind the handshake is
\* sent in the new session.
Install(n, key, epoch, m3, out) ==
    LET s == [key |-> key, epoch |-> epoch, m3 |-> m3, m3_resends |-> 0, rekey |-> FALSE]
        drained == IF hs[n].queued = {} THEN {}
                   ELSE {[kind |-> "data", to |-> Peer(n), key |-> key, epoch |-> epoch]}
    IN  /\ sess' = [sess EXCEPT ![n] = s]
        /\ installed' = [installed EXCEPT ![n] = Append(@, key)]
        /\ status' = [h \in Handles |-> IF h \in hs[n].queued THEN "sent" ELSE status[h]]
        /\ hs' = [hs EXCEPT ![n] = NoHandshake]
        /\ air' = air \cup out \cup drained

\* responder_start on message 1.  Simultaneous open: the lower address keeps
\* its own handshake, the higher one yields and answers.
KeepsOwn_Never(n) == FALSE          \* mutant: whoever hears message 1 yields
KeepsOwn(n) == hs[n].role = "Initiator" /\ n < Peer(n)
Retransmitted(n, m) == hs[n].role = "Responder" /\ hs[n].re = m.e

\* Message 1 was given up by its sender, and the node that answers it is not
\* the one whose own handshake has precedence.
GivenUp(n, m) ==
    /\ ~(hs[Peer(n)].role = "Initiator" /\ hs[Peer(n)].e = m.e)
    /\ ~(hs[n].role = "Initiator" /\ n < Peer(n))

\* A fresh handshake in the responder's role, and message 2.
Respond(n, m, epoch, queued) ==
    /\ ~KeepsOwn(n)
    /\ ~Retransmitted(n, m)
    /\ drawn < MaxEphemerals
    /\ drawn' = drawn + 1
    /\ hs' = [hs EXCEPT ![n] = ResponderState(drawn + 1, m.e, epoch, queued)]
    /\ air' = air \cup {M2(n, m.e, drawn + 1)}
    /\ staleM1' = (staleM1 \/ GivenUp(n, m))
    /\ UNCHANGED <<sess, status, installed>>

QueuedBehind(n) == IF Pending(n) THEN hs[n].queued ELSE {}

\* Mutant: the responder counts its own epoch instead of taking the one
\* message 1 carries.
responder_start_OwnEpoch(n, m) == Respond(n, m, NextEpoch(n), QueuedBehind(n))

responder_start(n, m) == Respond(n, m, m.epoch, QueuedBehind(n))

\* A retransmitted message 1 is answered with the same message 2.
answer_again(n, m) ==
    /\ Retransmitted(n, m)
    /\ air' = air \cup {M2(n, hs[n].re, hs[n].e)}
    /\ UNCHANGED <<hs, sess, drawn, status, installed, staleM1>>

keep_ours(n, m) == KeepsOwn(n) /\ UNCHANGED vars

\* initiator_continue on message 2.  read_message_2 mixes the responder's
\* ephemeral into the transcript before it authenticates, so a message 2 of
\* another handshake leaves a state that no later message 2 can match.
Readable2(n, m) == hs[n].e = m.e /\ ~hs[n].garbled

initiator_continue(n, m) ==
    /\ hs[n].role = "Initiator"
    /\ IF Readable2(n, m)
       THEN /\ Install(n, <<m.e, m.r>>, hs[n].epoch, TRUE, {M3(n, m.e, m.r)})
            /\ UNCHANGED <<drawn, staleM1>>
       ELSE /\ hs' = [hs EXCEPT ![n].garbled = TRUE]
            /\ UNCHANGED <<sess, air, drawn, status, installed, staleM1>>

\* Mutant: the pending handshake survives its message 3.
responder_finish_Keeps(n, m) ==
    /\ hs[n].role = "Responder"
    /\ hs[n].re = m.e /\ hs[n].e = m.r
    /\ Len(installed[n]) < 2 * MaxEphemerals
    /\ sess' = [sess EXCEPT ![n] = [key |-> <<m.e, m.r>>, epoch |-> hs[n].epoch, m3 |-> FALSE,
                                    m3_resends |-> 0, rekey |-> FALSE]]
    /\ installed' = [installed EXCEPT ![n] = Append(@, <<m.e, m.r>>)]
    /\ UNCHANGED <<hs, air, drawn, status, staleM1>>

\* Message 3 at the responder; one of another handshake fails to decrypt
\* before it changes anything.
responder_finish(n, m) ==
    /\ hs[n].role = "Responder"
    /\ hs[n].re = m.e /\ hs[n].e = m.r
    /\ Install(n, <<m.e, m.r>>, hs[n].epoch, FALSE, {})
    /\ UNCHANGED <<drawn, staleM1>>

handle_handshake(n) ==
    \E m \in air :
        /\ m.to = n
        /\ \/ m.kind = "m1" /\ (responder_start(n, m) \/ answer_again(n, m) \/ keep_ours(n, m))
           \/ m.kind = "m2" /\ initiator_continue(n, m)
           \/ m.kind = "m3" /\ responder_finish(n, m)

-----------------------------------------------------------------------------
(* Receiving: session payloads and notices                                 *)

Opens(n, m) == Connected(n) /\ m.epoch = sess[n].epoch /\ m.key = sess[n].key

\* open_session_payload without a session: a node waiting for message 3 says
\* so, a bounded number of times.
notify_no_session(n) ==
    /\ \E m \in air : m.to = n /\ m.kind \in {"data", "close"}
    /\ ~Connected(n)
    /\ hs[n].role = "Responder"
    /\ hs[n].attempts < NoticeAttempts
    /\ hs' = [hs EXCEPT ![n].attempts = @ + 1]
    /\ air' = air \cup {Notice(n)}
    /\ UNCHANGED <<sess, drawn, status, installed, staleM1>>

\* SESSION_CLOSE, opened in the session.
peer_closed(n) ==
    /\ \E m \in air : m.to = n /\ m.kind = "close" /\ Opens(n, m)
    /\ sess' = [sess EXCEPT ![n] = NoSession]
    /\ UNCHANGED <<hs, air, drawn, status, installed, staleM1>>

\* on_no_session_notice: resend message 3 while the session is young and the
\* budget lasts, otherwise drop the session and start over: the acknowledged
\* sends still in flight go through send_or_queue again.
resend_m3(n) ==
    /\ sess[n].m3
    /\ sess[n].m3_resends < M3Resends
    /\ sess' = [sess EXCEPT ![n].m3_resends = @ + 1]
    /\ air' = air \cup {M3(n, sess[n].key[1], sess[n].key[2])}
    /\ UNCHANGED <<hs, drawn, status, installed, staleM1>>

Requeue(n, S) ==
    LET prior == IF Pending(n) THEN hs[n].queued ELSE {}
        room == QueueLimit - Cardinality(prior)
    IN  \E kept \in SUBSET S :
            /\ Cardinality(kept) = IF Cardinality(S) < room THEN Cardinality(S) ELSE room
            /\ status' = [h \in Handles |-> IF h \in kept THEN "queued"
                                          ELSE IF h \in S THEN "failed" ELSE status[h]]
            /\ \/ /\ Pending(n)
                  /\ hs' = [hs EXCEPT ![n].queued = @ \cup kept]
                  /\ UNCHANGED <<air, drawn>>
               \/ /\ drawn < MaxEphemerals
                  /\ ~Pending(n)
                  /\ drawn' = drawn + 1
                  /\ hs' = [hs EXCEPT ![n] = InitiatorState(drawn + 1, 0, kept)]
                  /\ air' = air \cup {M1(n, drawn + 1, 0)}

drop_session(n) ==
    /\ sess' = [sess EXCEPT ![n] = NoSession]
    /\ \E S \in SUBSET {h \in HandlesOf(n) : status[h] = "sent"} :
           IF S = {} THEN UNCHANGED <<hs, air, drawn, status>> ELSE Requeue(n, S)
    /\ UNCHANGED <<installed, staleM1>>

on_no_session_notice(n) ==
    /\ \E m \in air : m.to = n /\ m.kind = "no_session"
    /\ Connected(n)
    /\ resend_m3(n) \/ drop_session(n)

-----------------------------------------------------------------------------
(* Timers (poll, housekeeping), close_session, and a reboot                *)

resend_m1(n) ==
    /\ hs[n].role = "Initiator"
    /\ hs[n].attempts < M1Attempts
    /\ hs' = [hs EXCEPT ![n].attempts = @ + 1]
    /\ air' = air \cup {M1(n, hs[n].e, hs[n].epoch)}
    /\ UNCHANGED <<sess, drawn, status, installed, staleM1>>

\* Mutant: only initiators time out.
expire_handshake_InitiatorOnly(n) ==
    /\ hs[n].role = "Initiator"
    /\ status' = [h \in Handles |-> IF h \in hs[n].queued THEN "failed" ELSE status[h]]
    /\ hs' = [hs EXCEPT ![n] = NoHandshake]
    /\ UNCHANGED <<sess, air, drawn, installed, staleM1>>

\* The handshake timeout: everything queued behind it is reported failed.
expire_handshake(n) ==
    /\ Pending(n)
    /\ status' = [h \in Handles |-> IF h \in hs[n].queued THEN "failed" ELSE status[h]]
    /\ hs' = [hs EXCEPT ![n] = NoHandshake]
    /\ UNCHANGED <<sess, air, drawn, installed, staleM1>>

expire_session(n) ==
    /\ Connected(n)
    /\ sess' = [sess EXCEPT ![n] = NoSession]
    /\ UNCHANGED <<hs, air, drawn, status, installed, staleM1>>

close_session(n) ==
    /\ Connected(n)
    /\ air' = air \cup {Sealed(n, "close")}
    /\ sess' = [sess EXCEPT ![n] = NoSession]
    /\ UNCHANGED <<hs, drawn, status, installed, staleM1>>

\* housekeeping: an old session starts a new handshake; the flag is set even
\* when one is already pending and start_handshake does nothing.
rekey(n) ==
    /\ Connected(n)
    /\ ~sess[n].rekey
    /\ sess' = [sess EXCEPT ![n].rekey = TRUE]
    /\ IF Pending(n) THEN UNCHANGED <<hs, air, drawn>> ELSE start_handshake(n, {})
    /\ UNCHANGED <<status, installed, staleM1>>

\* A reboot keeps the identity and nothing else (Node::new).
reboot(n) ==
    /\ Pending(n) \/ Connected(n)
    /\ hs' = [hs EXCEPT ![n] = NoHandshake]
    /\ sess' = [sess EXCEPT ![n] = NoSession]
    /\ status' = [h \in Handles |-> IF Pending(n) /\ h \in hs[n].queued THEN "rebooted" ELSE status[h]]
    /\ UNCHANGED <<air, drawn, installed, staleM1>>

Next == \E n \in Nodes :
            \/ send_or_queue(n)
            \/ retry_outstanding(n)
            \/ session_traffic(n)
            \/ handle_handshake(n)
            \/ notify_no_session(n)
            \/ peer_closed(n)
            \/ on_no_session_notice(n)
            \/ resend_m1(n)
            \/ expire_handshake(n)
            \/ expire_session(n)
            \/ close_session(n)
            \/ rekey(n)
            \/ reboot(n)

Spec == Init /\ [][Next]_vars

\* poll runs the handshake timers for ever, whatever the air does.
FairSpec == Spec /\ \A n \in Nodes : WF_vars(expire_handshake(n))

-----------------------------------------------------------------------------
(* Properties                                                              *)

\* A node never installs the same session keys twice.  Session::new starts
\* its send counter at zero, so a second install would reuse every nonce:
\* repeated, late and resent message 2 and message 3 must all be refused.
KeysInstalledOnce ==
    \A n \in Nodes : \A i, j \in DOMAIN installed[n] :
        installed[n][i] = installed[n][j] => i = j

\* The responder never runs a session its initiator did not install, and the
\* two ends of one session agree on its epoch byte (decrypt compares it).
EndsAgree ==
    \A n \in Nodes : Connected(n) =>
        /\ ~sess[n].m3 => \E i \in DOMAIN installed[Peer(n)] : installed[Peer(n)][i] = sess[n].key
        /\ Connected(Peer(n)) /\ sess[Peer(n)].key = sess[n].key =>
               /\ sess[Peer(n)].epoch = sess[n].epoch
               /\ sess[Peer(n)].m3 # sess[n].m3

\* A simultaneous open is resolved: both ends wait for a message 3 at the
\* same time only after one of them answered an abandoned message 1.
CrossedOpenResolved ==
    (\A n \in Nodes : hs[n].role = "Responder") => staleM1

\* Sends that are queued are eventually all sent in a session or reported
\* failed (or their node reboots): the handshake timeout covers every pending
\* handshake, the responder's too.
QueuedResolves ==
    (\E h \in Handles : status[h] = "queued") ~> (\A h \in Handles : status[h] # "queued")
=============================================================================
