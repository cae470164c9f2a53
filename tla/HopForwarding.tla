---------------------------- MODULE HopForwarding ----------------------------
(***************************************************************************)
(* Hop-by-hop reliability of one unicast packet                            *)
(* (meshstar-core/src/node: on_radio_rx, forward_unicast, track_hop,       *)
(* hop_confirmed, send_link_ack, and the hop retransmission loop of poll;  *)
(* relay/mod.rs repeats the same handlers for the bare relay).             *)
(*                                                                         *)
(* The radio is a broadcast medium: a frame may reach any node in range of *)
(* its transmitter, named as next hop or not, soon, late or never, so the  *)
(* air keeps every frame sent.  The packet key (source, packet id) never   *)
(* changes, so one packet is modelled; the seen cache neither evicts nor   *)
(* expires it while the packet lives.                                      *)
(*                                                                         *)
(* usable[n] are the next hops next_hop_for may return for Dst at n.  The  *)
(* link and route costs that choose among them are abstracted to a free    *)
(* choice; failures and loops may remove an entry.                         *)
(***************************************************************************)
EXTENDS Integers, FiniteSets

CONSTANTS Nodes, Src, Dst,
          Adjacent,      \* the links: a set of two-element sets of nodes
          Routes,        \* the next hops towards Dst each node knows at first
          HopRetries,    \* cfg.hop_retries: retransmissions per hop
          MaxTtl         \* the TTL the source puts in the header

ASSUME HopAssumption ==
    /\ IsFiniteSet(Nodes)
    /\ Src \in Nodes /\ Dst \in Nodes /\ Src # Dst
    /\ \A l \in Adjacent : l \subseteq Nodes
    /\ Routes \in [Nodes -> SUBSET Nodes]
    /\ \A n \in Nodes : \A m \in Routes[n] : m # n /\ {m, n} \in Adjacent
    /\ HopRetries \in Nat \ {0}
    /\ MaxTtl \in Nat \ {0}

Hears(n) == {m \in Nodes : m # n /\ {m, n} \in Adjacent}
NoPending == [nh |-> "None"]

VARIABLES usable,       \* next hops towards Dst that n may choose
          seen,         \* SeenCache: n has observed the packet key
          pending,      \* n's HopPending entry for the packet
          air,          \* every frame transmitted so far
          outcome,      \* history: what n did with the packet when it was new to it
          transmissions,\* history: copies of the packet n queued
          confirmedBy   \* history: next hops whose confirmation n accepted

vars == <<usable, seen, pending, air, outcome, transmissions, confirmedBy>>

Copy(nh, by, hops, ttl) == [kind |-> "packet", nh |-> nh, by |-> by, hops |-> hops, ttl |-> ttl]
LinkAck(to, by) == [kind |-> "ack", nh |-> to, by |-> by, hops |-> 0, ttl |-> 1]

IsPending(n) == pending[n] # NoPending

\* Source and relays start with routes; nothing has been sent.
Init == /\ usable = Routes
        /\ seen = [n \in Nodes |-> FALSE]
        /\ pending = [n \in Nodes |-> NoPending]
        /\ air = {}
        /\ outcome = [n \in Nodes |-> "unseen"]
        /\ transmissions = [n \in Nodes |-> 0]
        /\ confirmedBy = [n \in Nodes |-> {}]

-----------------------------------------------------------------------------
(* Sending                                                                 *)

\* track_hop and enqueue_packet of copy f at n towards f.nh.
SendTracked(n, f, rerouted) ==
    /\ pending' = [pending EXCEPT ![n] = [nh |-> f.nh, packet |-> f, attempts |-> 1, rerouted |-> rerouted]]
    /\ air' = air \cup {f}
    /\ transmissions' = [transmissions EXCEPT ![n] = @ + 1]

\* route_unicast at the source.
route_unicast ==
    /\ outcome[Src] = "unseen"
    /\ \E nh \in usable[Src] : SendTracked(Src, Copy(nh, Src, 0, MaxTtl), FALSE)
    /\ outcome' = [outcome EXCEPT ![Src] = "sent"]
    /\ UNCHANGED <<usable, seen, confirmedBy>>

-----------------------------------------------------------------------------
(* on_radio_rx                                                             *)

Confirms_Anyone(n, by) == IsPending(n)     \* mutant: whoever confirms

\* hop_confirmed: only the hop the packet was last sent to can confirm it.
Confirms(n, by) == IsPending(n) /\ pending[n].nh = by

hop_confirmed(n, by) ==
    IF Confirms(n, by)
    THEN /\ pending' = [pending EXCEPT ![n] = NoPending]
         /\ confirmedBy' = [confirmedBy EXCEPT ![n] = @ \cup {pending[n].nh}]
    ELSE UNCHANGED <<pending, confirmedBy>>

\* LINK_ACK addressed to n; anybody else drops it.
rx_link_ack(n, f) ==
    /\ f.kind = "ack"
    /\ f.nh = n
    /\ hop_confirmed(n, f.by)
    /\ UNCHANGED <<usable, seen, air, outcome, transmissions>>

\* The source drops copies of its own packet before anything else.
rx_own(n, f) ==
    /\ f.kind = "packet"
    /\ n = Src
    /\ UNCHANGED <<usable, seen, pending, air, outcome, transmissions, confirmedBy>>

\* A relayed copy (hops > 0) by the pending next hop is an implicit
\* confirmation; a duplicate that names n (or is for n) is answered with a
\* LINK_ACK.
rx_duplicate(n, f) ==
    /\ f.kind = "packet"
    /\ n # Src
    /\ seen[n]
    /\ IF f.hops > 0 THEN hop_confirmed(n, f.by) ELSE UNCHANGED <<pending, confirmedBy>>
    /\ air' = IF n = Dst \/ f.nh = n THEN air \cup {LinkAck(f.by, n)} ELSE air
    /\ UNCHANGED <<usable, seen, outcome, transmissions>>

Outcome(n, o) == outcome' = [outcome EXCEPT ![n] = o]
NoSend == UNCHANGED <<pending, air, transmissions>>

\* forward_unicast at a relay that sees the packet for the first time.  A new
\* packet cannot confirm anything: n has not sent it yet.
not_our_job(n, f) == f.nh # n /\ Outcome(n, "overheard") /\ NoSend /\ UNCHANGED usable

ttl_exhausted(n, f) == f.nh = n /\ f.ttl <= 1 /\ Outcome(n, "expired") /\ NoSend /\ UNCHANGED usable

no_route(n, f) ==
    f.nh = n /\ f.ttl > 1 /\ usable[n] = {} /\ Outcome(n, "noroute") /\ NoSend /\ UNCHANGED usable

\* The only way on is back: the route is marked failed, a ROUTE_ERROR goes out.
loop_detected(n, f) ==
    /\ f.nh = n /\ f.ttl > 1
    /\ f.by \in usable[n]
    /\ Outcome(n, "rerr")
    /\ usable' \in {usable, [usable EXCEPT ![n] = @ \ {f.by}]}
    /\ NoSend

relay_on_KeepsTtl(n, f) ==     \* mutant
    /\ f.nh = n /\ f.ttl > 1
    /\ \E nh \in usable[n] \ {f.by} : SendTracked(n, Copy(nh, n, f.hops + 1, f.ttl), FALSE)
    /\ Outcome(n, "forwarded")
    /\ UNCHANGED usable

relay_on(n, f) ==
    /\ f.nh = n /\ f.ttl > 1
    /\ \E nh \in usable[n] \ {f.by} : SendTracked(n, Copy(nh, n, f.hops + 1, f.ttl - 1), FALSE)
    /\ Outcome(n, "forwarded")
    /\ UNCHANGED usable

rx_forward(n, f) ==
    /\ f.kind = "packet"
    /\ n \notin {Src, Dst}
    /\ ~seen[n]
    /\ seen' = [seen EXCEPT ![n] = TRUE]
    /\ UNCHANGED confirmedBy
    /\ \/ not_our_job(n, f)
       \/ ttl_exhausted(n, f)
       \/ no_route(n, f)
       \/ loop_detected(n, f)
       \/ relay_on(n, f)

\* The destination takes the first copy it hears and confirms to its sender.
rx_deliver(n, f) ==
    /\ f.kind = "packet"
    /\ n = Dst
    /\ ~seen[n]
    /\ seen' = [seen EXCEPT ![n] = TRUE]
    /\ Outcome(n, "delivered")
    /\ air' = air \cup {LinkAck(f.by, n)}
    /\ UNCHANGED <<usable, pending, transmissions, confirmedBy>>

on_radio_rx(n) ==
    \E f \in {g \in air : g.by \in Hears(n)} :
        \/ rx_link_ack(n, f)
        \/ rx_own(n, f)
        \/ rx_duplicate(n, f)
        \/ rx_forward(n, f)
        \/ rx_deliver(n, f)

-----------------------------------------------------------------------------
(* poll: the hop retransmission loop                                       *)

retransmit(n) ==
    /\ IsPending(n)
    /\ pending[n].attempts <= HopRetries
    /\ pending' = [pending EXCEPT ![n].attempts = @ + 1]
    /\ air' = air \cup {pending[n].packet}
    /\ transmissions' = [transmissions EXCEPT ![n] = @ + 1]
    /\ UNCHANGED <<usable, seen, outcome, confirmedBy>>

\* Mutant: that the packet was rerouted is not remembered.
hop_failed_ReroutesAgain(n) ==
    /\ IsPending(n)
    /\ pending[n].attempts > HopRetries
    /\ usable' \in {usable, [usable EXCEPT ![n] = @ \ {pending[n].nh}]}
    /\ LET alternatives == usable'[n] \ {pending[n].nh}
       IN  \/ \E alt \in alternatives : SendTracked(n, [pending[n].packet EXCEPT !.nh = alt], FALSE)
           \/ /\ usable'[n] = {} \/ pending[n].nh \in usable'[n]
              /\ pending' = [pending EXCEPT ![n] = NoPending]
              /\ UNCHANGED <<air, transmissions>>
    /\ UNCHANGED <<seen, outcome, confirmedBy>>

\* Retries used up: the link or route may be given up, and the packet is sent
\* once more through a different neighbour unless that was done before.
hop_failed(n) ==
    /\ IsPending(n)
    /\ pending[n].attempts > HopRetries
    /\ usable' \in {usable, [usable EXCEPT ![n] = @ \ {pending[n].nh}]}
    /\ LET alternatives == usable'[n] \ {pending[n].nh}
       IN  \/ /\ ~pending[n].rerouted
              /\ \E alt \in alternatives : SendTracked(n, [pending[n].packet EXCEPT !.nh = alt], TRUE)
           \/ /\ pending[n].rerouted \/ usable'[n] = {} \/ pending[n].nh \in usable'[n]
              /\ pending' = [pending EXCEPT ![n] = NoPending]
              /\ UNCHANGED <<air, transmissions>>
    /\ UNCHANGED <<seen, outcome, confirmedBy>>

\* A route or neighbour entry expires, or a ROUTE_ERROR removes it.
route_lost(n) ==
    /\ \E nh \in usable[n] : usable' = [usable EXCEPT ![n] = @ \ {nh}]
    /\ UNCHANGED <<seen, pending, air, outcome, transmissions, confirmedBy>>

Next == \/ route_unicast
        \/ \E n \in Nodes : on_radio_rx(n) \/ retransmit(n) \/ hop_failed(n) \/ route_lost(n)

Spec == Init /\ [][Next]_vars

-----------------------------------------------------------------------------
(* Properties                                                              *)

Copies == [kind : {"packet"}, nh : Nodes, by : Nodes, hops : 0 .. MaxTtl, ttl : 1 .. MaxTtl]
Acks == [kind : {"ack"}, nh : Nodes, by : Nodes, hops : {0}, ttl : {1}]
PendingHops == [nh : Nodes, packet : Copies, attempts : 1 .. HopRetries + 1, rerouted : BOOLEAN]

TypeOK ==
    /\ usable \in [Nodes -> SUBSET Nodes]
    /\ seen \in [Nodes -> BOOLEAN]
    /\ pending \in [Nodes -> PendingHops \cup {NoPending}]
    /\ air \subseteq Copies \cup Acks
    /\ outcome \in [Nodes -> {"unseen", "sent", "overheard", "expired", "noroute", "rerr", "forwarded", "delivered"}]
    /\ transmissions \in [Nodes -> Nat]
    /\ confirmedBy \in [Nodes -> SUBSET Nodes]

\* A node transmits a packet at most (1 + retries) times per next hop and
\* reroutes it at most once: a packet can neither circulate nor be retried
\* for ever, whatever is lost and however the routes point.
TransmissionsBounded ==
    \A n \in Nodes : transmissions[n] <= 2 * (1 + HopRetries)

\* A confirmation is never false: a node stops retransmitting because of one
\* only if the next hop it is attributed to has the packet.
ConfirmedWasHeard ==
    \A n \in Nodes : \A by \in confirmedBy[n] : outcome[by] # "unseen"

\* Every copy on its way was made by a node that took the packet on, has as
\* many hops as TTL used up, and no relay is its own predecessor.
CopiesHaveCustody ==
    \A f \in air :
        f.kind = "packet" => /\ outcome[f.by] \in {"sent", "forwarded"}
                             /\ f.hops + f.ttl = MaxTtl
                             /\ f.nh # f.by
=============================================================================
