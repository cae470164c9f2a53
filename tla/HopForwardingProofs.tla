------------------------ MODULE HopForwardingProofs ------------------------
(***************************************************************************)
(* Proofs, for every mesh, every table of routes and every retry budget,   *)
(* of the three safety properties of HopForwarding.                        *)
(***************************************************************************)
EXTENDS HopForwarding, TLAPS

\* Time for the provers.
USE ZenonT(10), SMTT(15)

TakenOn == {"sent", "forwarded"}

\* Who has not handled the packet has sent nothing of it, and the seen cache
\* of everyone but the source knows who has.
FreshInv ==
    \A n \in Nodes :
        /\ outcome[n] = "unseen" => transmissions[n] = 0
        /\ n # Src => (seen[n] <=> outcome[n] # "unseen")
        /\ n \notin usable[n]

\* What a frame on the air says of its transmitter.
AirInv ==
    \A f \in air : /\ outcome[f.by] # "unseen"
                   /\ f.kind = "packet" => /\ outcome[f.by] \in TakenOn
                                           /\ f.hops + f.ttl = MaxTtl
                                           /\ f.nh # f.by

\* A pending hop holds the node's own copy, and its count of attempts and the
\* reroute flag account for every transmission made so far.
PendingInv ==
    \A n \in Nodes :
        IF IsPending(n)
        THEN /\ pending[n].packet \in air
             /\ pending[n].packet.by = n
             /\ pending[n].packet.nh = pending[n].nh
             /\ transmissions[n] <= pending[n].attempts + (IF pending[n].rerouted THEN 1 + HopRetries ELSE 0)
        ELSE transmissions[n] <= 2 * (1 + HopRetries)

\* The inductive invariant: the bound alone does not say how much of the
\* budget a pending hop has used.
IInv == TypeOK /\ FreshInv /\ AirInv /\ PendingInv /\ ConfirmedWasHeard

LEMMA InitIInv == Init => IInv
<1> SUFFICES ASSUME Init PROVE IInv
    OBVIOUS
<1> USE HopAssumption DEF Init
<1>1. TypeOK
    BY DEF TypeOK
<1>2. FreshInv
    BY DEF FreshInv
<1>3. AirInv /\ ConfirmedWasHeard
    BY DEF AirInv, ConfirmedWasHeard
<1>4. PendingInv
    BY SMTT(15) DEF PendingInv, IsPending
<1> QED BY <1>1, <1>2, <1>3, <1>4 DEF IInv

\* What hop_confirmed leaves of the invariant, given that the node that
\* confirms has handled the packet.
LEMMA HopConfirmedKeeps ==
    ASSUME IInv, NEW n \in Nodes, NEW by \in Nodes, outcome[by] # "unseen",
           hop_confirmed(n, by), UNCHANGED <<transmissions, outcome>>, air \subseteq air'
    PROVE  /\ pending' \in [Nodes -> PendingHops \cup {NoPending}]
           /\ confirmedBy' \in [Nodes -> SUBSET Nodes]
           /\ PendingInv'
           /\ ConfirmedWasHeard'
<1> USE HopAssumption DEF IInv
<1>1. CASE Confirms(n, by)
  <2>1. /\ IsPending(n) /\ pending[n].nh = by
        /\ pending' = [pending EXCEPT ![n] = NoPending]
        /\ confirmedBy' = [confirmedBy EXCEPT ![n] = @ \cup {by}]
      BY <1>1 DEF Confirms, hop_confirmed
  <2>2. pending[n] \in PendingHops
      BY <2>1 DEF TypeOK, IsPending
  <2>3. transmissions[n] <= 2 * (1 + HopRetries)
      BY <2>1, <2>2, SMTT(15) DEF PendingInv, PendingHops, TypeOK
  <2>4. PendingInv'
      BY <2>1, <2>3 DEF PendingInv, IsPending, TypeOK
  <2>5. ConfirmedWasHeard'
      BY <2>1 DEF ConfirmedWasHeard, TypeOK
  <2> QED BY <2>1, <2>4, <2>5 DEF TypeOK
<1>2. CASE ~Confirms(n, by)
    BY <1>2 DEF hop_confirmed, PendingInv, IsPending, ConfirmedWasHeard, TypeOK
<1> QED BY <1>1, <1>2

\* Sending a new copy, at a node whose budget has room for one more hop.
LEMMA SendTrackedKeeps ==
    ASSUME IInv, NEW n \in Nodes, NEW f \in Copies, NEW rr \in BOOLEAN,
           SendTracked(n, f, rr), f.by = n, f.nh # n, f.hops + f.ttl = MaxTtl,
           transmissions[n] <= (IF rr THEN 1 + HopRetries ELSE 0),
           outcome'[n] \in TakenOn, \A m \in Nodes \ {n} : outcome'[m] = outcome[m]
    PROVE  /\ pending' \in [Nodes -> PendingHops \cup {NoPending}]
           /\ air' \subseteq Copies \cup Acks
           /\ transmissions' \in [Nodes -> Nat]
           /\ AirInv'
           /\ PendingInv'
<1> USE HopAssumption DEF IInv, SendTracked
<1> DEFINE p == [nh |-> f.nh, packet |-> f, attempts |-> 1, rerouted |-> rr]
<1>1. p \in PendingHops
    BY SMTT(15) DEF PendingHops, Copies
<1>2. pending' = [pending EXCEPT ![n] = p] /\ air' = air \cup {f}
      /\ transmissions' = [transmissions EXCEPT ![n] = @ + 1]
    OBVIOUS
<1>3. \A g \in air : g.by \in Nodes
    BY DEF TypeOK, Copies, Acks
<1>4. AirInv'
  <2> SUFFICES ASSUME NEW g \in air'
               PROVE  /\ outcome'[g.by] # "unseen"
                      /\ g.kind = "packet" => outcome'[g.by] \in TakenOn /\ g.hops + g.ttl = MaxTtl /\ g.nh # g.by
      BY DEF AirInv
  <2>1. CASE g = f
      BY <2>1 DEF TakenOn
  <2>2. CASE g \in air /\ g.by # n
      BY <2>2, <1>3 DEF AirInv
  <2>3. CASE g \in air /\ g.by = n
      BY <2>3 DEF AirInv, TakenOn
  <2> QED BY <2>1, <2>2, <2>3, <1>2
<1>5. p # NoPending
  <2>1. p.nh \in Nodes /\ "packet" \in DOMAIN p
      BY DEF Copies
  <2>2. "packet" \notin DOMAIN NoPending
      BY DEF NoPending
  <2> QED BY <2>1, <2>2
<1>6. PendingInv'
  <2> SUFFICES ASSUME NEW m \in Nodes
               PROVE  IF pending'[m] # NoPending
                      THEN /\ pending'[m].packet \in air'
                           /\ pending'[m].packet.by = m
                           /\ pending'[m].packet.nh = pending'[m].nh
                           /\ transmissions'[m] <= pending'[m].attempts + (IF pending'[m].rerouted THEN 1 + HopRetries ELSE 0)
                      ELSE transmissions'[m] <= 2 * (1 + HopRetries)
      BY DEF PendingInv, IsPending
  <2>1. CASE m = n
    <3>1. pending'[m] = p /\ transmissions'[m] = transmissions[n] + 1
        BY <1>2, <2>1 DEF TypeOK
    <3> QED BY <3>1, <1>5, <1>2, <2>1, SMTT(15) DEF TypeOK
  <2>2. CASE m # n
      BY <2>2, <1>2, SMTT(15) DEF PendingInv, IsPending, TypeOK
  <2> QED BY <2>1, <2>2
<1>7. pending' \in [Nodes -> PendingHops \cup {NoPending}]
    BY <1>1, <1>2, SMTT(15) DEF TypeOK
<1>8. air' \subseteq Copies \cup Acks /\ transmissions' \in [Nodes -> Nat]
    BY <1>2, SMTT(15) DEF TypeOK
<1> QED BY <1>4, <1>6, <1>7, <1>8

\* A frame that n receives: its transmitter is a node that handled the packet.
LEMMA HeardFrame ==
    ASSUME IInv, NEW f \in air
    PROVE  /\ f \in Copies \cup Acks
           /\ f.by \in Nodes /\ f.nh \in Nodes /\ f.kind \in {"packet", "ack"}
           /\ outcome[f.by] # "unseen"
           /\ f.kind = "packet" => f \in Copies /\ outcome[f.by] \in TakenOn /\ f.hops + f.ttl = MaxTtl
    BY DEF IInv, TypeOK, AirInv, Copies, Acks

LEMMA AckTyped ==
    ASSUME NEW m \in Nodes, NEW n \in Nodes
    PROVE  LinkAck(m, n) \in Acks /\ LinkAck(m, n).by = n /\ LinkAck(m, n).kind = "ack"
    BY DEF LinkAck, Acks

\* The invariant, piece by piece, as the actions establish it.
LEMMA Pieces ==
    ASSUME usable' \in [Nodes -> SUBSET Nodes], seen' \in [Nodes -> BOOLEAN],
           pending' \in [Nodes -> PendingHops \cup {NoPending}], air' \subseteq Copies \cup Acks,
           outcome' \in [Nodes -> {"unseen", "sent", "overheard", "expired", "noroute", "rerr", "forwarded", "delivered"}],
           transmissions' \in [Nodes -> Nat], confirmedBy' \in [Nodes -> SUBSET Nodes],
           FreshInv', AirInv', PendingInv', ConfirmedWasHeard'
    PROVE  IInv'
    BY DEF IInv, TypeOK

LEMMA RouteUnicastKeeps == IInv /\ route_unicast => IInv'
<1> SUFFICES ASSUME IInv, route_unicast PROVE IInv'
    OBVIOUS
<1> USE HopAssumption
<1>1. PICK nh \in usable[Src] : SendTracked(Src, Copy(nh, Src, 0, MaxTtl), FALSE)
    BY DEF route_unicast
<1> DEFINE f == Copy(nh, Src, 0, MaxTtl)
<1>2. nh \in Nodes /\ nh # Src
    BY DEF IInv, TypeOK, FreshInv
<1>3. f \in Copies /\ f.by = Src /\ f.nh # Src /\ f.hops + f.ttl = MaxTtl
    BY <1>2, SMTT(15) DEF Copy, Copies
<1>4. transmissions[Src] = 0 /\ outcome[Src] = "unseen"
    BY DEF IInv, FreshInv, route_unicast
<1>5. outcome' = [outcome EXCEPT ![Src] = "sent"] /\ UNCHANGED <<usable, seen, confirmedBy>>
    BY DEF route_unicast
<1>6. outcome'[Src] = "sent" /\ \A m \in Nodes \ {Src} : outcome'[m] = outcome[m]
    BY <1>5 DEF IInv, TypeOK
<1>7. /\ pending' \in [Nodes -> PendingHops \cup {NoPending}]
      /\ air' \subseteq Copies \cup Acks
      /\ transmissions' \in [Nodes -> Nat]
      /\ AirInv'
      /\ PendingInv'
  <2>1. transmissions[Src] <= (IF FALSE THEN 1 + HopRetries ELSE 0) /\ outcome'[Src] \in TakenOn
      BY <1>4, <1>6, SMTT(15) DEF TakenOn
  <2> QED BY <1>1, <1>3, <1>6, <2>1, SendTrackedKeeps, Zenon
<1>8. FreshInv'
    BY <1>1, <1>5, <1>6, SMTT(15) DEF IInv, TypeOK, FreshInv, SendTracked
<1>9. ConfirmedWasHeard'
    BY <1>5, <1>6 DEF IInv, TypeOK, ConfirmedWasHeard
<1> QED BY <1>5, <1>7, <1>8, <1>9, Pieces DEF IInv, TypeOK

\* Frames that change nothing but what is pending, and perhaps answer.
LEMMA ReceiptKeeps ==
    ASSUME IInv, NEW n \in Nodes, NEW f \in air, rx_link_ack(n, f) \/ rx_own(n, f) \/ rx_duplicate(n, f)
    PROVE  IInv'
<1> USE HopAssumption
<1>1. /\ f.by \in Nodes /\ f.nh \in Nodes /\ outcome[f.by] # "unseen"
    BY HeardFrame
<1>2. CASE rx_link_ack(n, f)
  <2>1. hop_confirmed(n, f.by) /\ UNCHANGED <<usable, seen, air, outcome, transmissions>>
      BY <1>2 DEF rx_link_ack
  <2>2. /\ pending' \in [Nodes -> PendingHops \cup {NoPending}]
        /\ confirmedBy' \in [Nodes -> SUBSET Nodes]
        /\ PendingInv' /\ ConfirmedWasHeard'
      BY <1>1, <2>1, HopConfirmedKeeps
  <2>3. FreshInv' /\ AirInv'
      BY <2>1 DEF IInv, FreshInv, AirInv
  <2> QED BY <2>1, <2>2, <2>3, Pieces DEF IInv, TypeOK
<1>3. CASE rx_own(n, f)
    BY <1>3 DEF rx_own, IInv, TypeOK, FreshInv, AirInv, PendingInv, IsPending, ConfirmedWasHeard
<1>4. CASE rx_duplicate(n, f)
  <2>1. /\ n # Src /\ seen[n] /\ UNCHANGED <<usable, seen, outcome, transmissions>>
        /\ air' \in {air, air \cup {LinkAck(f.by, n)}}
      BY <1>4 DEF rx_duplicate
  <2>2. outcome[n] # "unseen"
      BY <2>1 DEF IInv, FreshInv
  <2>3. LinkAck(f.by, n) \in Acks /\ LinkAck(f.by, n).by = n /\ LinkAck(f.by, n).kind = "ack"
      BY <1>1, AckTyped
  <2>4. AirInv' /\ air' \subseteq Copies \cup Acks /\ air \subseteq air'
      BY <2>1, <2>2, <2>3 DEF IInv, TypeOK, AirInv
  <2>5. FreshInv'
      BY <2>1 DEF IInv, FreshInv
  <2>6. /\ pending' \in [Nodes -> PendingHops \cup {NoPending}]
        /\ confirmedBy' \in [Nodes -> SUBSET Nodes]
        /\ PendingInv' /\ ConfirmedWasHeard'
    <3>1. CASE f.hops > 0
      <4>1. hop_confirmed(n, f.by)
          BY <3>1, <1>4 DEF rx_duplicate
      <4> QED BY <4>1, <1>1, <2>1, <2>4, HopConfirmedKeeps
    <3>2. CASE ~(f.hops > 0)
      <4>1. UNCHANGED <<pending, confirmedBy>>
          BY <3>2, <1>4 DEF rx_duplicate
      <4> QED BY <4>1, <2>1, <2>4 DEF IInv, TypeOK, PendingInv, IsPending, ConfirmedWasHeard
    <3> QED BY <3>1, <3>2
  <2> QED BY <2>1, <2>4, <2>5, <2>6, Pieces DEF IInv, TypeOK
<1> QED BY <1>2, <1>3, <1>4

\* The first copy at a relay.
LEMMA ForwardKeeps ==
    ASSUME IInv, NEW n \in Nodes, NEW f \in air, rx_forward(n, f)
    PROVE  IInv'
<1> USE HopAssumption
<1>1. /\ f \in Copies /\ f.by \in Nodes /\ f.hops + f.ttl = MaxTtl
    BY HeardFrame DEF rx_forward
<1>2. /\ n # Src /\ outcome[n] = "unseen" /\ transmissions[n] = 0
      /\ seen' = [seen EXCEPT ![n] = TRUE] /\ confirmedBy' = confirmedBy
    BY DEF rx_forward, IInv, FreshInv
<1>3. \A g \in air : g.by # n /\ g.by \in Nodes
    BY <1>2, HeardFrame
<1> DEFINE Others == {"overheard", "expired", "noroute", "rerr"}
<1>4. CASE relay_on(n, f)
  <2>1. PICK nh \in usable[n] \ {f.by} : SendTracked(n, Copy(nh, n, f.hops + 1, f.ttl - 1), FALSE)
      BY <1>4 DEF relay_on
  <2> DEFINE g == Copy(nh, n, f.hops + 1, f.ttl - 1)
  <2>2. nh \in Nodes /\ nh # n
      BY DEF IInv, TypeOK, FreshInv
  <2>3. f.hops \in 0 .. MaxTtl /\ f.ttl \in 1 .. MaxTtl /\ f.ttl > 1
      BY <1>1, <1>4 DEF relay_on, Copies
  <2>4. g \in Copies /\ g.by = n /\ g.nh # n /\ g.hops + g.ttl = MaxTtl
      BY <1>1, <2>2, <2>3, SMTT(15) DEF Copy, Copies
  <2>5. outcome' = [outcome EXCEPT ![n] = "forwarded"] /\ usable' = usable
      BY <1>4 DEF relay_on, Outcome
  <2>6. outcome'[n] = "forwarded" /\ \A m \in Nodes \ {n} : outcome'[m] = outcome[m]
      BY <2>5 DEF IInv, TypeOK
  <2>7. /\ pending' \in [Nodes -> PendingHops \cup {NoPending}]
        /\ air' \subseteq Copies \cup Acks
        /\ transmissions' \in [Nodes -> Nat]
        /\ AirInv' /\ PendingInv'
    <3>1. transmissions[n] <= (IF FALSE THEN 1 + HopRetries ELSE 0) /\ outcome'[n] \in TakenOn
        BY <1>2, <2>6, SMTT(15) DEF TakenOn
    <3> QED BY <2>1, <2>4, <2>6, <3>1, SendTrackedKeeps, Zenon
  <2>8. FreshInv'
      BY <2>1, <2>5, <2>6, <1>2, SMTT(15) DEF IInv, TypeOK, FreshInv, SendTracked
  <2>9. ConfirmedWasHeard'
      BY <2>5, <2>6, <1>2 DEF IInv, TypeOK, ConfirmedWasHeard
  <2> QED BY <2>5, <2>7, <2>8, <2>9, <1>2, Pieces DEF IInv, TypeOK
<1>5. CASE not_our_job(n, f) \/ ttl_exhausted(n, f) \/ no_route(n, f) \/ loop_detected(n, f)
  <2>1. PICK o \in Others : outcome' = [outcome EXCEPT ![n] = o]
      BY <1>5 DEF not_our_job, ttl_exhausted, no_route, loop_detected, Outcome
  <2>2. UNCHANGED <<pending, air, transmissions>>
      BY <1>5 DEF not_our_job, ttl_exhausted, no_route, loop_detected, NoSend
  <2>3. usable' \in {usable, [usable EXCEPT ![n] = @ \ {f.by}]}
      BY <1>5 DEF not_our_job, ttl_exhausted, no_route, loop_detected
  <2>4. outcome'[n] = o /\ \A m \in Nodes \ {n} : outcome'[m] = outcome[m]
      BY <2>1 DEF IInv, TypeOK
  <2>5. usable' \in [Nodes -> SUBSET Nodes] /\ \A m \in Nodes : usable'[m] \subseteq usable[m]
      BY <2>3, SMTT(15) DEF IInv, TypeOK
  <2>6. FreshInv'
      BY <2>2, <2>4, <2>5, <1>2 DEF IInv, TypeOK, FreshInv
  <2>7. AirInv'
      BY <2>2, <2>4, <1>3 DEF IInv, AirInv
  <2>8. PendingInv' /\ ConfirmedWasHeard'
      BY <2>2, <2>4, <1>2 DEF IInv, TypeOK, PendingInv, IsPending, ConfirmedWasHeard
  <2> QED BY <2>1, <2>2, <2>5, <2>6, <2>7, <2>8, <1>2, Pieces DEF IInv, TypeOK
<1> QED BY <1>4, <1>5 DEF rx_forward

\* The first copy at the destination.
LEMMA DeliverKeeps ==
    ASSUME IInv, NEW n \in Nodes, NEW f \in air, rx_deliver(n, f)
    PROVE  IInv'
<1> USE HopAssumption
<1>1. f.by \in Nodes
    BY HeardFrame
<1>2. /\ n # Src /\ outcome[n] = "unseen" /\ seen' = [seen EXCEPT ![n] = TRUE]
      /\ outcome' = [outcome EXCEPT ![n] = "delivered"]
      /\ air' = air \cup {LinkAck(f.by, n)}
      /\ UNCHANGED <<usable, pending, transmissions, confirmedBy>>
    BY DEF rx_deliver, Outcome, IInv, FreshInv
<1>3. \A g \in air : g.by # n /\ g.by \in Nodes
    BY <1>2, HeardFrame
<1>4. LinkAck(f.by, n) \in Acks /\ LinkAck(f.by, n).by = n /\ LinkAck(f.by, n).kind = "ack"
    BY <1>1, AckTyped
<1>5. outcome'[n] = "delivered" /\ \A m \in Nodes \ {n} : outcome'[m] = outcome[m]
    BY <1>2 DEF IInv, TypeOK
<1>6. FreshInv'
    BY <1>2, <1>5 DEF IInv, TypeOK, FreshInv
<1>7. AirInv'
    BY <1>2, <1>3, <1>4, <1>5 DEF IInv, AirInv
<1>8. PendingInv' /\ ConfirmedWasHeard'
    BY <1>2, <1>5 DEF IInv, TypeOK, PendingInv, IsPending, ConfirmedWasHeard
<1> QED BY <1>2, <1>4, <1>6, <1>7, <1>8, Pieces DEF IInv, TypeOK

\* What a pending hop holds.
LEMMA PendingHop ==
    ASSUME IInv, NEW n \in Nodes, IsPending(n)
    PROVE  /\ pending[n] \in PendingHops
           /\ pending[n].packet \in air /\ pending[n].packet \in Copies
           /\ pending[n].packet.by = n
           /\ pending[n].packet.hops + pending[n].packet.ttl = MaxTtl
           /\ outcome[n] \in TakenOn
           /\ pending[n].attempts \in 1 .. HopRetries + 1
           /\ transmissions[n] <= pending[n].attempts + (IF pending[n].rerouted THEN 1 + HopRetries ELSE 0)
<1>1. pending[n] \in PendingHops
    BY DEF IInv, TypeOK, IsPending
<1>2. /\ pending[n].packet \in air /\ pending[n].packet.by = n
      /\ transmissions[n] <= pending[n].attempts + (IF pending[n].rerouted THEN 1 + HopRetries ELSE 0)
    BY DEF IInv, PendingInv
<1>3. pending[n].packet \in Copies /\ pending[n].attempts \in 1 .. HopRetries + 1
    BY <1>1 DEF PendingHops
<1>4. pending[n].packet.kind = "packet"
    BY <1>3 DEF Copies
<1> QED BY <1>1, <1>2, <1>3, <1>4, HeardFrame

LEMMA RetransmitKeeps ==
    ASSUME IInv, NEW n \in Nodes, retransmit(n)
    PROVE  IInv'
<1> USE HopAssumption
<1> DEFINE old == pending[n]
           new == [old EXCEPT !.attempts = @ + 1]
<1>1. /\ IsPending(n) /\ old.attempts <= HopRetries
      /\ pending' = [pending EXCEPT ![n] = new]
      /\ air' = air \cup {old.packet}
      /\ transmissions' = [transmissions EXCEPT ![n] = @ + 1]
      /\ UNCHANGED <<usable, seen, outcome, confirmedBy>>
    BY DEF retransmit
<1>2. /\ old \in PendingHops /\ old.packet \in air /\ old.packet.by = n
      /\ outcome[n] \in TakenOn /\ old.packet.nh = old.nh
      /\ transmissions[n] <= old.attempts + (IF old.rerouted THEN 1 + HopRetries ELSE 0)
    BY <1>1, PendingHop DEF IInv, PendingInv
<1>3. /\ new \in PendingHops /\ new.packet = old.packet /\ new.nh = old.nh
      /\ new.attempts = old.attempts + 1 /\ new.rerouted = old.rerouted /\ old.attempts \in Nat
    BY <1>1, <1>2, SMTT(15) DEF PendingHops
<1>4. air' = air
    BY <1>1, <1>2
<1>5. new # NoPending
  <2>1. "packet" \in DOMAIN new
      BY <1>3 DEF PendingHops
  <2>2. "packet" \notin DOMAIN NoPending
      BY DEF NoPending
  <2> QED BY <2>1, <2>2
<1>6. transmissions'[n] <= new.attempts + (IF new.rerouted THEN 1 + HopRetries ELSE 0)
    BY <1>1, <1>2, <1>3, SMTT(15) DEF IInv, TypeOK, PendingHops
<1>7. PendingInv'
  <2> SUFFICES ASSUME NEW m \in Nodes
               PROVE  IF pending'[m] # NoPending
                      THEN /\ pending'[m].packet \in air'
                           /\ pending'[m].packet.by = m
                           /\ pending'[m].packet.nh = pending'[m].nh
                           /\ transmissions'[m] <= pending'[m].attempts + (IF pending'[m].rerouted THEN 1 + HopRetries ELSE 0)
                      ELSE transmissions'[m] <= 2 * (1 + HopRetries)
      BY DEF PendingInv, IsPending
  <2>1. CASE m = n
    <3>1. pending'[m] = new
        BY <1>1, <2>1 DEF IInv, TypeOK
    <3> HIDE DEF new
    <3> QED BY <3>1, <2>1, <1>2, <1>3, <1>4, <1>5, <1>6
  <2>2. CASE m # n
      BY <2>2, <1>1, <1>4 DEF IInv, PendingInv, IsPending, TypeOK
  <2> QED BY <2>1, <2>2
<1>8. /\ pending' \in [Nodes -> PendingHops \cup {NoPending}]
      /\ transmissions' \in [Nodes -> Nat]
    BY <1>1, <1>3, SMTT(15) DEF IInv, TypeOK
<1>9. FreshInv'
    BY <1>1, <1>2, <1>4 DEF IInv, TypeOK, FreshInv, TakenOn
<1>10. AirInv' /\ ConfirmedWasHeard'
    BY <1>1, <1>4 DEF IInv, AirInv, ConfirmedWasHeard
<1> QED BY <1>1, <1>4, <1>7, <1>8, <1>9, <1>10, Pieces DEF IInv, TypeOK

LEMMA HopFailedKeeps ==
    ASSUME IInv, NEW n \in Nodes, hop_failed(n)
    PROVE  IInv'
<1> USE HopAssumption
<1>1. /\ IsPending(n) /\ pending[n].attempts > HopRetries
      /\ usable' \in {usable, [usable EXCEPT ![n] = @ \ {pending[n].nh}]}
      /\ UNCHANGED <<seen, outcome, confirmedBy>>
    BY DEF hop_failed
<1>2. /\ pending[n] \in PendingHops /\ pending[n].packet \in Copies /\ pending[n].packet.by = n
      /\ pending[n].packet.hops + pending[n].packet.ttl = MaxTtl
      /\ outcome[n] \in TakenOn
      /\ pending[n].attempts \in 1 .. HopRetries + 1
      /\ transmissions[n] <= pending[n].attempts + (IF pending[n].rerouted THEN 1 + HopRetries ELSE 0)
    BY <1>1, PendingHop
<1>3. usable' \in [Nodes -> SUBSET Nodes] /\ \A m \in Nodes : usable'[m] \subseteq usable[m]
    BY <1>1, SMTT(15) DEF IInv, TypeOK
<1>4. CASE ~pending[n].rerouted /\ \E alt \in usable'[n] \ {pending[n].nh} :
               SendTracked(n, [pending[n].packet EXCEPT !.nh = alt], TRUE)
  <2>1. PICK alt \in usable'[n] \ {pending[n].nh} : SendTracked(n, [pending[n].packet EXCEPT !.nh = alt], TRUE)
      BY <1>4
  <2> DEFINE g == [pending[n].packet EXCEPT !.nh = alt]
  <2>2. alt \in Nodes /\ alt # n
      BY <1>3, <2>1 DEF IInv, FreshInv
  <2>3. g \in Copies /\ g.by = n /\ g.nh # n /\ g.hops + g.ttl = MaxTtl
      BY <1>2, <2>2 DEF Copies
  <2>4. transmissions[n] <= (IF TRUE THEN 1 + HopRetries ELSE 0)
      BY <1>2, <1>4, SMTT(15) DEF IInv, TypeOK
  <2>5. outcome'[n] \in TakenOn /\ \A m \in Nodes \ {n} : outcome'[m] = outcome[m]
      BY <1>1, <1>2
  <2>6. /\ pending' \in [Nodes -> PendingHops \cup {NoPending}]
        /\ air' \subseteq Copies \cup Acks
        /\ transmissions' \in [Nodes -> Nat]
        /\ AirInv' /\ PendingInv'
      BY <2>1, <2>3, <2>4, <2>5, SendTrackedKeeps, Zenon
  <2>7. FreshInv'
      BY <2>1, <1>1, <1>2, <1>3, SMTT(15) DEF IInv, TypeOK, FreshInv, SendTracked, TakenOn
  <2>8. ConfirmedWasHeard'
      BY <1>1 DEF IInv, ConfirmedWasHeard
  <2> QED BY <1>1, <1>3, <2>6, <2>7, <2>8, Pieces DEF IInv, TypeOK
<1>5. CASE pending' = [pending EXCEPT ![n] = NoPending] /\ UNCHANGED <<air, transmissions>>
  <2>1. transmissions[n] <= 2 * (1 + HopRetries)
      BY <1>2, SMTT(15) DEF IInv, TypeOK
  <2>2. PendingInv'
      BY <1>5, <2>1 DEF IInv, PendingInv, IsPending, TypeOK
  <2>3. FreshInv' /\ AirInv' /\ ConfirmedWasHeard'
      BY <1>1, <1>3, <1>5 DEF IInv, FreshInv, AirInv, ConfirmedWasHeard
  <2> QED BY <1>1, <1>3, <1>5, <2>2, <2>3, Pieces DEF IInv, TypeOK
<1> QED BY <1>4, <1>5 DEF hop_failed

LEMMA RouteLostKeeps ==
    ASSUME IInv, NEW n \in Nodes, route_lost(n)
    PROVE  IInv'
<1>1. /\ usable' \in [Nodes -> SUBSET Nodes] /\ \A m \in Nodes : usable'[m] \subseteq usable[m]
      /\ UNCHANGED <<seen, pending, air, outcome, transmissions, confirmedBy>>
    BY SMTT(15) DEF route_lost, IInv, TypeOK
<1> QED BY <1>1 DEF IInv, TypeOK, FreshInv, AirInv, PendingInv, IsPending, ConfirmedWasHeard

\* The invariant is kept by every action, one lemma each.
LEMMA NextIInv == IInv /\ [Next]_vars => IInv'
<1> SUFFICES ASSUME IInv, [Next]_vars PROVE IInv'
    OBVIOUS
<1>1. CASE route_unicast
    BY <1>1, RouteUnicastKeeps
<1>2. ASSUME NEW n \in Nodes, on_radio_rx(n) PROVE IInv'
    BY <1>2, ReceiptKeeps, ForwardKeeps, DeliverKeeps DEF on_radio_rx
<1>3. ASSUME NEW n \in Nodes, retransmit(n) PROVE IInv'
    BY <1>3, RetransmitKeeps
<1>4. ASSUME NEW n \in Nodes, hop_failed(n) PROVE IInv'
    BY <1>4, HopFailedKeeps
<1>5. ASSUME NEW n \in Nodes, route_lost(n) PROVE IInv'
    BY <1>5, RouteLostKeeps
<1>6. CASE UNCHANGED vars
    BY <1>6 DEF vars, IInv, TypeOK, FreshInv, AirInv, PendingInv, IsPending, ConfirmedWasHeard
<1> QED BY <1>1, <1>2, <1>3, <1>4, <1>5, <1>6 DEF Next

LEMMA Inductive == Spec => []IInv
    BY InitIInv, NextIInv, PTL DEF Spec

\* A node queues a packet at most 2 * (1 + retries) times, whatever the mesh
\* looks like, whatever is lost and whichever routes fail (track_hop, the
\* retransmission loop of poll).
THEOREM TransmissionsBoundedHolds == Spec => []TransmissionsBounded
<1>1. IInv => TransmissionsBounded
  <2> SUFFICES ASSUME IInv, NEW n \in Nodes PROVE transmissions[n] <= 2 * (1 + HopRetries)
      BY DEF TransmissionsBounded
  <2>1. CASE IsPending(n)
      BY <2>1, PendingHop, HopAssumption, SMTT(15) DEF IInv, TypeOK
  <2>2. CASE ~IsPending(n)
      BY <2>2 DEF IInv, PendingInv
  <2> QED BY <2>1, <2>2
<1> QED BY <1>1, Inductive, PTL

\* A node stops retransmitting only because of a confirmation by the next hop
\* itself, and that hop has seen the packet (hop_confirmed, send_link_ack).
THEOREM ConfirmedWasHeardHolds == Spec => []ConfirmedWasHeard
<1>1. IInv => ConfirmedWasHeard
    BY DEF IInv
<1> QED BY <1>1, Inductive, PTL

\* Every copy on the air was made by a node that took the packet on, has used
\* one TTL per hop and does not name its own transmitter (forward_unicast).
THEOREM CopiesHaveCustodyHolds == Spec => []CopiesHaveCustody
<1>1. IInv => CopiesHaveCustody
    BY DEF IInv, AirInv, CopiesHaveCustody, TakenOn
<1> QED BY <1>1, Inductive, PTL
=============================================================================
