------------------------------ MODULE Mailbox ------------------------------
(***************************************************************************)
(* Store-and-forward of sealed envelopes for one sleeping LEAF: the sender *)
(* (seal_and_send_envelope, deliver_envelope, retry_outstanding in         *)
(* node/tx.rs), the hosts' mailboxes (meshstar-core/src/store_forward,     *)
(* handle_store, handle_fetch, handle_control in node/rx.rs, hand-off and  *)
(* collection in housekeeping of node/mod.rs) and the leaf                 *)
(* (handle_unicast_data).                                                  *)
(*                                                                         *)
(* Frames arrive late, in any order or never; STORE, its answers and       *)
(* MAILBOX_ACK travel in sessions, so a transmission arrives once.  That   *)
(* the leaf sleeps shows only in what it does not receive.                 *)
(***************************************************************************)
EXTENDS Integers, Sequences

CONSTANTS Hosts,               \* nodes with a mailbox
          Envelopes,           \* envelope ids, all for the leaf
          Sender,              \* the node that seals them
          Nobody,              \* no known host
          max_delivery_attempts, \* MailboxConfig
          MaxAttempts,         \* TransportConfig::max_attempts
          OpenedLimit,         \* 64: envelope ids the leaf remembers
          MaxMoves             \* bound: changes of who hears the leaf

ASSUME MailboxAssumption ==
    /\ Sender \notin Hosts
    /\ Nobody \notin Hosts \cup {Sender}
    /\ {max_delivery_attempts, MaxAttempts, OpenedLimit} \subseteq Nat \ {0}
    /\ MaxMoves \in Nat

VARIABLES mailbox,     \* per host: delivery attempts of each envelope it keeps
          hears,       \* per host: the leaf is in its neighbour table
          anchor_for,  \* per host: the zone table's host for the leaf
          sent,        \* sender: state and attempts of each envelope
          opened,      \* leaf: opened_envelopes
          air,
          moves,
          received,    \* history: MessageReceived events at the leaf
          discarded,   \* history: envelopes some host collected
          handedOff    \* history: envelopes some host passed to another

vars == <<mailbox, hears, anchor_for, sent, opened, air, moves, received, discarded, handedOff>>

leafVars == <<opened, received>>
zoneVars == <<hears, anchor_for, moves>>

Empty == [e \in {} |-> 0]
Kept(h) == DOMAIN mailbox[h]
Without(m, S) == [e \in DOMAIN m \ S |-> m[e]]
With(m, e) == [x \in DOMAIN m \cup {e} |-> IF x = e THEN 0 ELSE m[x]]

Frame(kind, from, to, e) == [kind |-> kind, from |-> from, to |-> to, env |-> e]
Store(from, to, e) == Frame("STORE", from, to, e)
Data(from, e) == Frame("DATA", from, Nobody, e)

Init == /\ mailbox = [h \in Hosts |-> Empty]
        /\ hears \in [Hosts -> BOOLEAN]
        /\ anchor_for = [h \in Hosts |-> Nobody]
        /\ sent = [e \in Envelopes |-> [state |-> "new", attempts |-> 0]]
        /\ opened = <<>>
        /\ air = {}
        /\ moves = 0
        /\ received = [e \in Envelopes |-> 0]
        /\ discarded = {}
        /\ handedOff = {}

-----------------------------------------------------------------------------
(* Sender                                                                  *)

\* deliver_envelope: a deposit at the host it knows, or the leaf itself.
deliver_envelope(e) ==
    \/ \E h \in Hosts : air' = air \cup {Store(Sender, h, e)}
    \/ air' = air \cup {Data(Sender, e)}

seal_and_send_envelope(e) ==
    /\ sent[e].state = "new"
    /\ sent' = [sent EXCEPT ![e] = [state |-> "waiting", attempts |-> 1]]
    /\ deliver_envelope(e)
    /\ UNCHANGED <<mailbox, zoneVars, leafVars, discarded, handedOff>>

\* Transport::tick: retry, give up, or stop waiting for a stored one.
tick(e) ==
    /\ \/ /\ sent[e].state = "waiting" /\ sent[e].attempts < MaxAttempts
          /\ sent' = [sent EXCEPT ![e].attempts = @ + 1]
          /\ deliver_envelope(e)
       \/ /\ sent[e].state = "waiting" /\ sent[e].attempts >= MaxAttempts
          /\ sent' = [sent EXCEPT ![e].state = "failed"]
          /\ UNCHANGED air
       \/ /\ sent[e].state = "stored"
          /\ sent' = [sent EXCEPT ![e].state = "lapsed"]
          /\ UNCHANGED air
    /\ UNCHANGED <<mailbox, zoneVars, leafVars, discarded, handedOff>>

\* fail_all_to in retry_outstanding and on_no_session_notice, when the session
\* with the leaf is gone: sealed messages that no host has confirmed are
\* dropped with the others and not queued again.
session_dropped(e) ==
    /\ sent[e].state = "waiting"
    /\ sent' = [sent EXCEPT ![e].state = "forgotten"]
    /\ UNCHANGED <<mailbox, zoneVars, leafVars, air, discarded, handedOff>>

\* No route to the leaf: an envelope parked for the discovery is deposited at
\* the best host, if there is one, and fail_all_to reports it Failed anyway.
on_discovery_failed(e) ==
    /\ sent[e].state = "waiting"
    /\ sent' = [sent EXCEPT ![e].state = "failed"]
    /\ air' \in {air} \cup {air \cup {Store(Sender, h, e)} : h \in Hosts}
    /\ UNCHANGED <<mailbox, zoneVars, leafVars, discarded, handedOff>>

\* STORE_ACCEPTED, STORE_REJECTED and the leaf's sealed ACK at the sender.
AckedStates_AnyAnswer(kind) == IF kind = "STORE_REJECTED" THEN "failed" ELSE "delivered"  \* mutant
AckedStates(kind) ==
    CASE kind = "STORE_ACCEPTED" -> "stored"
      [] kind = "STORE_REJECTED" -> "failed"
      [] kind = "ACK" -> "delivered"

sender_answered ==
    \E f \in air :
        /\ f.to = Sender
        /\ air' = air \ {f}
        /\ sent' = IF sent[f.env].state \in {"waiting", "stored"}
                   THEN [sent EXCEPT ![f.env].state = AckedStates(f.kind)] ELSE sent
        /\ UNCHANGED <<mailbox, zoneVars, leafVars, discarded, handedOff>>

-----------------------------------------------------------------------------
(* Hosts                                                                   *)

\* take_deliverable: entries with attempts left, those tried moments ago left out.
DeliverableIn(m) == {e \in DOMAIN m : m[e] < max_delivery_attempts}
Deliverable(h) == DeliverableIn(mailbox[h])
Tried(m, S) == [e \in DOMAIN m |-> IF e \in S THEN m[e] + 1 ELSE m[e]]

\* flush_mailbox_to, on the leaf's FETCH or a beacon of a leaf already known
\* (handle_fetch, handle_beacon) or a housekeeping tick.
flush_mailbox_to(h) ==
    /\ hears[h]
    /\ \E S \in SUBSET Deliverable(h) :
           /\ S # {}
           /\ mailbox' = [mailbox EXCEPT ![h] = Tried(@, S)]
           /\ air' = air \cup {Data(h, e) : e \in S}
    /\ UNCHANGED <<zoneVars, sent, leafVars, discarded, handedOff>>

\* Mutant: a full mailbox is not told apart from a duplicate.
StoreResults_AcceptsFull(h, e) == IF e \in Kept(h) THEN {"STORE_ACCEPTED"} ELSE {"STORED", "STORE_ACCEPTED"}

\* Mailbox::store: a duplicate counts as accepted; mail for others, which is
\* not modelled, may have used up the entries, the bytes or the room per
\* destination.
StoreResults(h, e) == IF e \in Kept(h) THEN {"STORE_ACCEPTED"} ELSE {"STORED", "STORE_REJECTED"}

\* handle_store; a stored envelope is tried at once if the leaf is awake.
handle_store(h) ==
    \E f \in air : \E result \in StoreResults(h, f.env) :
        /\ f.kind = "STORE" /\ f.to = h
        /\ LET m == With(mailbox[h], f.env)
               reply == Frame(IF result = "STORED" THEN "STORE_ACCEPTED" ELSE result, h, f.from, f.env)
           IN  \/ /\ result # "STORED"
                  /\ air' = (air \ {f}) \cup {reply}
                  /\ UNCHANGED mailbox
               \/ /\ result = "STORED"
                  /\ \E S \in IF hears[h] THEN SUBSET DeliverableIn(m) ELSE {{}} :
                         /\ mailbox' = [mailbox EXCEPT ![h] = Tried(m, S)]
                         /\ air' = (air \ {f}) \cup {reply} \cup {Data(h, e) : e \in S}
        /\ UNCHANGED <<zoneVars, sent, leafVars, discarded, handedOff>>

\* Housekeeping: the leaf is not ours any more, hand its mail to its host.
hand_off(h) ==
    /\ ~hears[h]
    /\ anchor_for[h] \in Hosts \ {h}
    /\ \E S \in SUBSET Deliverable(h) :
           /\ S # {}
           /\ mailbox' = [mailbox EXCEPT ![h] = Tried(@, S)]
           /\ air' = air \cup {Store(h, anchor_for[h], e) : e \in S}
           /\ handedOff' = handedOff \cup S
    /\ UNCHANGED <<zoneVars, sent, leafVars, discarded>>

\* STORE_ACCEPTED for mail handed off, MAILBOX_ACK from the leaf: delete.
\* STORE_REJECTED leaves it.
Deletes == {"STORE_ACCEPTED", "MAILBOX_ACK"}

host_answered(h) ==
    \E f \in air :
        /\ f.to = h /\ f.kind # "STORE"
        /\ air' = air \ {f}
        /\ mailbox' = IF f.kind \in Deletes THEN [mailbox EXCEPT ![h] = Without(@, {f.env})] ELSE mailbox
        /\ UNCHANGED <<zoneVars, sent, leafVars, discarded, handedOff>>

\* Mailbox::gc: exhausted envelopes, and expired ones (any, time is abstracted).
gc(h) ==
    \E S \in SUBSET Kept(h) :
        /\ S # {}
        /\ Kept(h) \ Deliverable(h) \subseteq S
        /\ mailbox' = [mailbox EXCEPT ![h] = Without(@, S)]
        /\ discarded' = discarded \cup S
        /\ UNCHANGED <<zoneVars, sent, leafVars, air, handedOff>>

\* handle_beacon, from the leaf: it is a neighbour, and awake.
leaf_beacon(h) ==
    /\ ~hears[h]
    /\ moves < MaxMoves
    /\ moves' = moves + 1
    /\ hears' = [hears EXCEPT ![h] = TRUE]
    /\ \E S \in SUBSET Deliverable(h) :
           /\ mailbox' = [mailbox EXCEPT ![h] = Tried(@, S)]
           /\ air' = air \cup {Data(h, e) : e \in S}
    /\ UNCHANGED <<anchor_for, sent, leafVars, discarded, handedOff>>

\* on_neighbor_lost, for the leaf.
leaf_lost(h) ==
    /\ hears[h]
    /\ moves < MaxMoves
    /\ moves' = moves + 1
    /\ hears' = [hears EXCEPT ![h] = FALSE]
    /\ UNCHANGED <<mailbox, anchor_for, sent, leafVars, air, discarded, handedOff>>

\* The zone table learns of another host from that host's beacon, which lists
\* the leaves it hears; the entry may outlive the fact, and expires.
zone_update(h) ==
    /\ moves < MaxMoves
    /\ moves' = moves + 1
    /\ \E g \in (Hosts \ {h}) \cup {Nobody} :
           /\ g # anchor_for[h]
           /\ g \in Hosts => hears[g]
           /\ anchor_for' = [anchor_for EXCEPT ![h] = g]
    /\ UNCHANGED <<mailbox, hears, sent, leafVars, air, discarded, handedOff>>

-----------------------------------------------------------------------------
(* Leaf                                                                    *)

\* handle_unicast_data, envelope branch: hand up once, answer both.
contains(ids, e) == \E i \in 1 .. Len(ids) : ids[i] = e

Remember(ids, e) == IF Len(ids) >= OpenedLimit THEN Append(Tail(ids), e) ELSE Append(ids, e)

open_envelope_NoDedup ==   \* mutant
    \E f \in air :
        /\ f.kind = "DATA"
        /\ opened' = Remember(opened, f.env)
        /\ received' = [received EXCEPT ![f.env] = @ + 1]
        /\ air' = (air \ {f}) \cup {Frame("ACK", Nobody, Sender, f.env)}
                  \cup {Frame("MAILBOX_ACK", Nobody, h, f.env) : h \in {f.from} \ {Sender}}
        /\ UNCHANGED <<mailbox, zoneVars, sent, discarded, handedOff>>

open_envelope ==
    \E f \in air :
        /\ f.kind = "DATA"
        /\ IF contains(opened, f.env)
           THEN UNCHANGED leafVars
           ELSE /\ opened' = Remember(opened, f.env)
                /\ received' = [received EXCEPT ![f.env] = @ + 1]
        /\ air' = (air \ {f}) \cup {Frame("ACK", Nobody, Sender, f.env)}
                  \cup {Frame("MAILBOX_ACK", Nobody, h, f.env) : h \in {f.from} \ {Sender}}
        /\ UNCHANGED <<mailbox, zoneVars, sent, discarded, handedOff>>

Next == \/ \E e \in Envelopes : \/ seal_and_send_envelope(e)
                                \/ tick(e)
                                \/ session_dropped(e)
                                \/ on_discovery_failed(e)
        \/ sender_answered
        \/ \E h \in Hosts : \/ flush_mailbox_to(h)
                            \/ handle_store(h)
                            \/ hand_off(h)
                            \/ host_answered(h)
                            \/ gc(h)
                            \/ leaf_beacon(h)
                            \/ leaf_lost(h)
                            \/ zone_update(h)
        \/ open_envelope

Spec == Init /\ [][Next]_vars

-----------------------------------------------------------------------------
(* Properties                                                              *)

SentStates == {"new", "waiting", "stored", "delivered", "failed", "lapsed", "forgotten"}

Parties == Hosts \cup {Sender, Nobody}
Frames == [kind : {"STORE", "DATA", "STORE_ACCEPTED", "STORE_REJECTED", "ACK", "MAILBOX_ACK"},
           from : Parties, to : Parties, env : Envelopes]
Boxes == UNION {[S -> 0 .. max_delivery_attempts] : S \in SUBSET Envelopes}

TypeOK ==
    /\ mailbox \in [Hosts -> Boxes]
    /\ hears \in [Hosts -> BOOLEAN]
    /\ anchor_for \in [Hosts -> Hosts \cup {Nobody}]
    /\ sent \in [Envelopes -> [state : SentStates, attempts : 0 .. MaxAttempts]]
    /\ opened \in Seq(Envelopes)
    /\ air \subseteq Frames
    /\ received \in [Envelopes -> Nat]
    /\ discarded \subseteq Envelopes
    /\ handedOff \subseteq Envelopes

\* The leaf's application sees an envelope once, although the sender and
\* several hosts may each send it several times.
OpenedOnce == \A e \in Envelopes : received[e] <= 1

\* Delivered is reported only for an envelope the leaf opened, never for one
\* that a host merely stored or passed on.
DeliveredWasOpened == \A e \in Envelopes : sent[e].state = "delivered" => received[e] > 0

Missing(e) == /\ sent[e].state = "stored"
              /\ received[e] = 0
              /\ e \notin discarded
              /\ \A h \in Hosts : e \notin Kept(h)

\* Stored mail is safe until it is handed off: an envelope reported stored
\* that the leaf has not opened is in some mailbox, unless a host collected
\* it (expired, exhausted).
StoredIsKept == \A e \in Envelopes : Missing(e) => e \in handedOff
=============================================================================
