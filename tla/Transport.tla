----------------------------- MODULE Transport -----------------------------
(***************************************************************************)
(* End-to-end reliability of acknowledged messages from one node to        *)
(* another (meshstar-core/src/transport/mod.rs with its callers            *)
(* send_or_queue, send_data_in_session, retry_outstanding in node/tx.rs,   *)
(* handle_unicast_data and handle_ack in node/rx.rs, drain_queued and      *)
(* on_no_session_notice in node/session.rs, and the timers of node/mod.rs).*)
(*                                                                         *)
(* Sessions are numbered; a frame opens only in the session it was sealed  *)
(* in (module Handshake models how they come about).  A frame on the air   *)
(* arrives at most once, since each transmission has its own counter, or   *)
(* never.                                                                  *)
(***************************************************************************)
EXTENDS SeqWindow, FiniteSets

CONSTANTS Handles,       \* the messages the application sends
          MaxAttempts,   \* TransportConfig::max_attempts
          MaxInFlight,   \* TransportConfig::max_in_flight
          QueueLimit,    \* 8: sends queued behind one handshake
          MaxSessions,   \* bound: sessions established, rekeys included
          MaxSkips,      \* bound: sequence numbers spent on other traffic
          MaxFaults      \* bound: session losses and sender reboots explored

ASSUME TransportAssumption ==
    /\ IsFiniteSet(Handles)
    /\ {MaxAttempts, MaxInFlight, QueueLimit} \subseteq Nat \ {0}
    /\ {MaxSessions, MaxSkips, MaxFaults} \subseteq Nat

VARIABLES next_seq,     \* sender: Transport.next_seq
          outstanding,  \* sender: messages awaiting their acknowledgement
          queued,       \* sender: messages waiting for a session
          session,      \* sender: its session with the receiver, 0 if none
          peerSession,  \* receiver: its session with the sender, 0 if none
          window,       \* receiver: the SeqWindow kept for the sender
          air,          \* frames on their way
          sessions,     \* sessions established so far
          skips, losses, reboots,
          report,       \* history: the event each message ended in
          received      \* history: MessageReceived events per message

vars == <<next_seq, outstanding, queued, session, peerSession, window, air, sessions,
          skips, losses, reboots, report, received>>

senderVars == <<next_seq, outstanding, queued, session>>
receiverVars == <<peerSession, window, received>>
bounds == <<sessions, skips, losses, reboots>>

Data(s, seq, h) == [kind |-> "data", session |-> s, seq |-> seq, handle |-> h]
Ack(s, seq) == [kind |-> "ack", session |-> s, seq |-> seq]
Notice == [kind |-> "notice"]

\* next_seq after handing out k numbers: wrapping_add skips zero.
SeqAfter(seq, k) == ((seq - 1 + k) % (SeqSpace - 1)) + 1

Init == /\ next_seq \in {q \in 1 .. SeqSpace - 1 : q % 2 = 1}
        /\ outstanding = {}
        /\ queued = {}
        /\ session = 0
        /\ peerSession = 0
        /\ window = EmptySeqWindow
        /\ air = {}
        /\ sessions = 0 /\ skips = 0 /\ losses = 0 /\ reboots = 0
        /\ report = [h \in Handles |-> "unsent"]
        /\ received = [h \in Handles |-> 0]

-----------------------------------------------------------------------------
(* Sender                                                                  *)

HandlesOf(O) == {o.handle : o \in O}
Reported(H, what) == [h \in Handles |-> IF h \in H THEN what ELSE report[h]]

\* send_data_in_session for each message of H in some order.  A packet that
\* finds no route (not in ok) fails at once; of the packets sent the first
\* ones are tracked while there is room, the others are reported failed.
SendAll(H, s) ==
    \E place \in [H -> 0 .. Cardinality(H) - 1], ok \in SUBSET H :
        LET seq(h) == SeqAfter(next_seq, place[h])
            earlier(h) == {g \in ok : place[g] < place[h]}
            tracked == {h \in ok : Cardinality(outstanding) + Cardinality(earlier(h)) < MaxInFlight}
        IN  /\ \A g, h \in H : place[g] = place[h] => g = h
            /\ next_seq' = SeqAfter(next_seq, Cardinality(H))
            /\ air' = air \cup {Data(s, seq(h), h) : h \in ok}
            /\ outstanding' = outstanding \cup
                   {[handle |-> h, seq |-> seq(h), attempts |-> 1] : h \in tracked}
            /\ report' = [h \in Handles |-> IF h \notin H THEN report[h]
                                           ELSE IF h \in tracked THEN "pending" ELSE "failed"]

\* send_message / send_or_queue.
send_message(h) ==
    /\ report[h] = "unsent"
    /\ IF session # 0
       THEN SendAll({h}, session) /\ UNCHANGED queued
       ELSE /\ IF Cardinality(queued) < QueueLimit
               THEN queued' = queued \cup {h} /\ report' = Reported({h}, "pending")
               ELSE report' = Reported({h}, "failed") /\ UNCHANGED queued
            /\ UNCHANGED <<next_seq, outstanding, air>>
    /\ UNCHANGED <<session, receiverVars, bounds>>

\* Acknowledgements, control packets and messages to other peers take their
\* numbers from the same counter.
other_traffic ==
    /\ skips < MaxSkips
    /\ skips' = skips + 1
    /\ next_seq' = SeqAfter(next_seq, 1)
    /\ UNCHANGED <<outstanding, queued, session, air, report, receiverVars, sessions, losses, reboots>>

\* A handshake completes at both ends: the one send_or_queue started, a rekey
\* or one of the peer's.  install_session replaces the session and leaves the
\* receive window alone; drain_queued follows.
establish_ResetsWindow ==     \* mutant
    /\ sessions < MaxSessions
    /\ sessions' = sessions + 1
    /\ session' = sessions + 1
    /\ peerSession' = sessions + 1
    /\ window' = EmptySeqWindow
    /\ SendAll(queued, sessions + 1)
    /\ queued' = {}
    /\ UNCHANGED <<received, skips, losses, reboots>>

establish_KeepsQueue ==       \* mutant: drained from a copy of the queue
    /\ sessions < MaxSessions
    /\ sessions' = sessions + 1
    /\ session' = sessions + 1
    /\ peerSession' = sessions + 1
    /\ SendAll(queued, sessions + 1)
    /\ UNCHANGED <<queued, window, received, skips, losses, reboots>>

establish ==
    /\ sessions < MaxSessions
    /\ sessions' = sessions + 1
    /\ session' = sessions + 1
    /\ peerSession' = sessions + 1
    /\ SendAll(queued, sessions + 1)
    /\ queued' = {}
    /\ UNCHANGED <<window, received, skips, losses, reboots>>

\* The handshake times out: everything queued behind it is reported failed.
handshake_expired ==
    /\ queued # {}
    /\ report' = Reported(queued, "failed")
    /\ queued' = {}
    /\ UNCHANGED <<next_seq, outstanding, session, air, receiverVars, bounds>>

\* on_discovery_failed: no route to the peer, everything is reported failed.
on_discovery_failed ==
    /\ queued # {} \/ outstanding # {}
    /\ report' = Reported(queued \cup HandlesOf(outstanding), "failed")
    /\ queued' = {}
    /\ outstanding' = {}
    /\ UNCHANGED <<next_seq, session, air, receiverVars, bounds>>

\* The messages H go through send_or_queue again without a session; others,
\* besides those the queue has no room for, are reported failed.
Requeue(H, others) ==
    \E fits \in SUBSET H :
        /\ Cardinality(fits) = IF Cardinality(queued) + Cardinality(H) <= QueueLimit
                               THEN Cardinality(H) ELSE QueueLimit - Cardinality(queued)
        /\ queued' = queued \cup fits
        /\ report' = Reported((H \ fits) \cup others, "failed")

Exhausted(o) == o.attempts >= MaxAttempts
Again(O) == {[o EXCEPT !.attempts = @ + 1] : o \in O}

\* Transport::tick and retry_outstanding for the messages that are due.
tick_in_session_Restarts(due) ==     \* mutant: a retry restarts the count
    LET retry == {o \in due : ~Exhausted(o)}
    IN  /\ session # 0
        /\ outstanding' = outstanding \ (due \ retry)
        /\ air' = air \cup {Data(session, o.seq, o.handle) : o \in retry}
        /\ report' = Reported(HandlesOf(due \ retry), "failed")
        /\ UNCHANGED <<next_seq, queued, session, receiverVars, bounds>>

tick_in_session(due) ==
    LET retry == {o \in due : ~Exhausted(o)}
    IN  /\ session # 0
        /\ outstanding' = (outstanding \ due) \cup Again(retry)
        /\ air' = air \cup {Data(session, o.seq, o.handle) : o \in retry}
        /\ report' = Reported(HandlesOf(due \ retry), "failed")
        /\ UNCHANGED <<next_seq, queued, session, receiverVars, bounds>>

\* Without a session the due ones are queued behind a handshake, after
\* fail_all_to has taken every other message to that peer off the list.
tick_without_session(due) ==
    LET retry == {o \in due : ~Exhausted(o)}
    IN  /\ session = 0
        /\ retry # {}
        /\ outstanding' = {}
        /\ Requeue(HandlesOf(retry), HandlesOf(due \ retry))
        /\ UNCHANGED <<next_seq, session, air, receiverVars, bounds>>

tick_gives_up(due) ==
    /\ session = 0
    /\ \A o \in due : Exhausted(o)
    /\ outstanding' = outstanding \ due
    /\ report' = Reported(HandlesOf(due), "failed")
    /\ UNCHANGED <<next_seq, queued, session, air, receiverVars, bounds>>

tick == \E due \in SUBSET outstanding :
            /\ due # {}
            /\ tick_in_session(due) \/ tick_without_session(due) \/ tick_gives_up(due)

\* handle_ack / on_ack, for an acknowledgement that opens.
OnAck_AnySeq(f) == outstanding     \* mutant: matched by peer alone
OnAck(f) == {o \in outstanding : o.seq = f.seq}

handle_ack ==
    \E f \in air :
        /\ f.kind = "ack"
        /\ f.session = session
        /\ air' = air \ {f}
        /\ outstanding' = outstanding \ OnAck(f)
        /\ report' = Reported(HandlesOf(OnAck(f)), "delivered")
        /\ UNCHANGED <<next_seq, queued, session, receiverVars, bounds>>

-----------------------------------------------------------------------------
(* Receiver                                                                *)

\* handle_unicast_data: acknowledge in any case, hand up if the number is new.
handle_unicast_data ==
    \E f \in air :
        /\ f.kind = "data"
        /\ f.session = peerSession
        /\ window' = AfterAccept(window, f.seq)
        /\ received' = IF Fresh(window, f.seq) THEN [received EXCEPT ![f.handle] = @ + 1] ELSE received
        /\ air' = (air \ {f}) \cup {Ack(peerSession, f.seq)}
        /\ UNCHANGED <<senderVars, peerSession, report, bounds>>

\* open_session_payload without a session: tell the sender.
notify_no_session ==
    /\ peerSession = 0
    /\ \E f \in air : f.kind = "data" /\ air' = (air \ {f}) \cup {Notice}
    /\ UNCHANGED <<senderVars, receiverVars, report, bounds>>

-----------------------------------------------------------------------------
(* Session loss at either end, and a reboot of the sender                  *)

\* Idle expiry, or a SESSION_CLOSE from the peer: what is in flight stays
\* tracked and is retried.
sender_loses_session ==
    /\ losses + reboots < MaxFaults
    /\ session # 0
    /\ losses' = losses + 1
    /\ session' = 0
    /\ UNCHANGED <<next_seq, outstanding, queued, air, report, receiverVars, sessions, skips, reboots>>

\* The same at the receiver, where reset_peer also forgets the window.
receiver_loses_session ==
    /\ losses + reboots < MaxFaults
    /\ peerSession # 0
    /\ losses' = losses + 1
    /\ peerSession' = 0
    /\ window' = EmptySeqWindow
    /\ UNCHANGED <<senderVars, air, report, received, sessions, skips, reboots>>

\* on_no_session_notice, possibly long after the peer sent it: while
\* message 3 may be resent nothing changes here, afterwards the session is
\* dropped and everything in flight is queued again.
on_no_session_notice ==
    /\ session # 0
    /\ Notice \in air
    /\ air' = air \ {Notice}
    /\ \/ UNCHANGED <<session, outstanding, queued, report>>
       \/ /\ session' = 0
          /\ outstanding' = {}
          /\ Requeue(HandlesOf(outstanding), {})
    /\ UNCHANGED <<next_seq, receiverVars, bounds>>

\* A reboot loses everything but the identity; the sequence numbers start
\* again at a random odd one.  The application forgets its messages too.
reboot ==
    /\ losses + reboots < MaxFaults
    /\ reboots' = reboots + 1
    /\ next_seq' \in {q \in 1 .. SeqSpace - 1 : q % 2 = 1}
    /\ outstanding' = {}
    /\ queued' = {}
    /\ session' = 0
    /\ report' = [h \in Handles |-> IF report[h] = "pending" THEN "rebooted" ELSE report[h]]
    /\ UNCHANGED <<air, receiverVars, sessions, skips, losses>>

Next == \/ \E h \in Handles : send_message(h)
        \/ other_traffic
        \/ establish
        \/ handshake_expired
        \/ on_discovery_failed
        \/ tick
        \/ handle_ack
        \/ handle_unicast_data
        \/ notify_no_session
        \/ sender_loses_session
        \/ receiver_loses_session
        \/ on_no_session_notice
        \/ reboot

Spec == Init /\ [][Next]_vars

\* The platform polls for ever: retry timers and handshake timeouts run.
FairSpec == Spec /\ WF_vars(tick) /\ WF_vars(handshake_expired)

-----------------------------------------------------------------------------
(* Properties                                                              *)

\* Delivered is never reported for a message the peer's application did not
\* get: acknowledgements match by sequence number only, across retries,
\* re-queueing under a new number, session changes and late frames.  Only a
\* reboot of the sender breaks this: the receiver's window is kept and may
\* take a number of the new life for a duplicate, acknowledge and drop it.
DeliveredWasReceived ==
    reboots = 0 => \A h \in Handles : report[h] = "delivered" => received[h] > 0

\* A message is handed to the application at most once, although every retry
\* is a new packet (PROTOCOL.md, reliability classes: "deliver once"), across
\* rekeys, wrap-around and numbers spent on other traffic.  A lost session
\* ends this (the window is forgotten, or the message gets a new number), and
\* so does a reboot.
ReceivedOnce == losses = 0 /\ reboots = 0 => \A h \in Handles : received[h] <= 1

\* A message is queued for a session or tracked for retry, never both and
\* never after its report; while no session is lost every message without a
\* report is one of the two.
Accounted ==
    \A h \in Handles :
        /\ h \notin queued \cap HandlesOf(outstanding)
        /\ h \in queued \cup HandlesOf(outstanding) => report[h] = "pending"
        /\ losses = 0 /\ report[h] = "pending" => h \in queued \cup HandlesOf(outstanding)

\* The retry promise of transport/mod.rs without that exception: a message is
\* retried until it is acknowledged or reported failed.
NeverForgotten ==
    \A h \in Handles : report[h] = "pending" => h \in queued \cup HandlesOf(outstanding)

\* The application hears of a message once: a final report is never followed
\* by another one, not even by a late acknowledgement.
ReportedOnce ==
    [][\A h \in Handles : report[h] \in {"delivered", "failed", "rebooted"}
                              => h \notin queued' \cup HandlesOf(outstanding') /\ report'[h] = report[h]]_vars

\* Every acknowledged message is eventually reported, whatever frames are
\* lost, unless a session is.
EventuallyReported ==
    \A h \in Handles : report[h] = "pending" ~> (report[h] # "pending" \/ losses > 0)
=============================================================================
