------------------------ MODULE RouteDiscoveryProofs ------------------------
(***************************************************************************)
(* Proofs, for every network, number of packets and limits of a discovery, *)
(* that copies name their transmitter unless they were parked for a        *)
(* repair, that a request is answered once by a node, and that a node      *)
(* relays it twice at most and then much more cheaply.                     *)
(***************************************************************************)
EXTENDS RouteDiscovery, FiniteSetTheorems, SequenceTheorems, TLAPS

\* Time for the provers.
USE ZenonT(10), SMTT(15)

-----------------------------------------------------------------------------
(* What is on the air and in the tables, with rep for repaired.            *)

IsRequest(f) ==
    f \in [kind : {"rreq"}, id : {f.id}, target : {f.target}, by : {f.by}, hops : {f.hops},
           ttl : {f.ttl}, cost : {f.cost}]

IsUnicast(f) ==
    f \in [kind : {"rrep", "rerr"}, from : {f.from}, to : {f.to}, id : {f.id}, target : {f.target},
           by : {f.by}, nh : {f.nh}, hops : {f.hops}, ttl : {f.ttl}, h2t : {f.h2t}, cost : {f.cost}]

\* n may transmit f: it bears n's name, or it was parked at n.
Names(f, n, rep) == f.by = n \/ <<n, Key(f)>> \in rep

\* A packet in the hands of n.
Parcel(p, n, rep) == p.kind = "data" \/ (IsUnicast(p) /\ Names(p, n, rep))

CopyOK(x, rep) ==
    \/ IsRequest(x.f) /\ x.f.cost \in Nat /\ x.f.by = x.tx
    \/ IsUnicast(x.f) /\ Names(x.f, x.tx, rep)

AirOK(a, rep) == \A x \in a : CopyOK(x, rep)

\* A discovery at n, with the packets that wait for it.
PendingOK(e, n, rep) ==
    /\ e \in [attempt : {e.attempt}, queued : {e.queued}]
    /\ e.queued \in Seq(Range(e.queued))
    /\ \A q \in Range(e.queued) : Parcel(q, n, rep)

DiscOK(D, rep) ==
    /\ DOMAIN D = Nodes
    /\ \A n \in Nodes : \A d \in DOMAIN D[n] : PendingOK(D[n][d], n, rep)

RrepOK == /\ DOMAIN rrep = Nodes
          /\ \A n \in Nodes : \A p \in rrep[n] : IsUnicast(p) /\ p.by = n

SchedOK == /\ DOMAIN sched = Nodes
           /\ \A n \in Nodes : \A r \in sched[n] :
                 /\ r \in [f : {r.f}, heard : {r.heard}]
                 /\ IsRequest(r.f) /\ r.f.cost \in Nat /\ r.f.by = n

TablesOK == net \in Networks /\ nbrs \in [Nodes -> SUBSET Nodes]

\* The inductive invariant of OnlyRepairsMisname.
NamesInv == TablesOK /\ AirOK(air, repaired) /\ DiscOK(disc, repaired) /\ RrepOK /\ SchedOK

LEMMA Cheap == ASSUME TablesOK, NEW n \in Nodes, NEW f, f.cost \in Nat
               PROVE  RequestCost(n, f) \in Nat
<1>1. link \in [Nodes -> [Nodes -> Nat]]
    BY DiscoveryAssumption DEF TablesOK, link
<1>2. ASSUME NEW m PROVE link_cost_to(n, m) \in Nat
    BY <1>1 DEF link_cost_to, UnknownLink, TablesOK
<1> QED BY <1>2 DEF RequestCost, UnknownRelay

LEMMA RequestCopies ==
    ASSUME NEW n, NEW f, IsRequest(f), f.cost \in Nat, f.by = n, NEW rep
    PROVE  AirOK(Copies(n, f), rep)
BY SMTT(15) DEF AirOK, CopyOK, Copies

LEMMA UnicastCopies ==
    ASSUME NEW n, NEW f, IsUnicast(f), NEW rep, Names(f, n, rep)
    PROVE  AirOK(Copies(n, f), rep)
<1>1. \A x \in Copies(n, f) : x.f = f /\ x.tx = n
    BY DEF Copies
<1> QED BY <1>1 DEF AirOK, CopyOK

LEMMA Addressed ==
    ASSUME NEW n, NEW p, IsUnicast(p), NEW rep, Names(p, n, rep), NEW nh
    PROVE  AirOK(Copies(n, [p EXCEPT !.nh = nh]), rep)
<1> DEFINE f == [p EXCEPT !.nh = nh]
<1>1. IsUnicast(f) /\ f.by = p.by /\ Key(f) = Key(p)
    BY DEF IsUnicast, Key
<1>2. Names(f, n, rep)
    BY <1>1 DEF Names
<1> QED BY <1>1, <1>2, UnicastCopies

\* More repairs excuse more.
LEMMA MoreRepairs ==
    ASSUME NEW a, NEW D, NEW rep, NEW more, rep \subseteq more
    PROVE  /\ AirOK(a, rep) => AirOK(a, more)
           /\ DiscOK(D, rep) => DiscOK(D, more)
<1>1. \A f, n : Names(f, n, rep) => Names(f, n, more)
    BY DEF Names
<1>2. \A p, n : Parcel(p, n, rep) => Parcel(p, n, more)
    BY <1>1 DEF Parcel
<1>3. \A e, n : PendingOK(e, n, rep) => PendingOK(e, n, more)
    BY <1>2 DEF PendingOK
<1>4. \A x : CopyOK(x, rep) => CopyOK(x, more)
    BY <1>1 DEF CopyOK
<1> QED BY <1>3, <1>4 DEF AirOK, DiscOK

LEMMA Appended ==
    ASSUME NEW s, s \in Seq(Range(s)), NEW p
    PROVE  /\ Append(s, p) \in Seq(Range(Append(s, p)))
           /\ Range(Append(s, p)) = Range(s) \cup {p}
<1>1. Range(Append(s, p)) = Range(s) \cup {p}
    <2>1. /\ Len(s) \in Nat /\ DOMAIN s = 1..Len(s) /\ DOMAIN Append(s, p) = 1..(Len(s) + 1)
          /\ Append(s, p)[Len(s) + 1] = p
          /\ \A i \in 1..Len(s) : Append(s, p)[i] = s[i]
        OBVIOUS
    <2>2. DOMAIN Append(s, p) = DOMAIN s \cup {Len(s) + 1}
        BY <2>1, SMTT(15)
    <2> QED BY <2>1, <2>2, ZenonT(40) DEF Range
<1> QED BY <1>1

\* route_unicast puts n's packets on the air under n's name, or parks them.
LEMMA Routed ==
    ASSUME NEW n \in Nodes, NEW p, NEW rt, NEW a, NEW rep,
           AirOK(a, rep), DiscOK(disc, rep), Parcel(p, n, rep),
           Sends(n, p, rt, a) \/ Parks(n, p, rt, a) \/ Starts(n, p, rt, a) \/ Refuses(n, p, rt, a)
    PROVE  AirOK(air', rep) /\ DiscOK(disc', rep)
<1>1. CASE Sends(n, p, rt, a)
    <2>1. p.kind # "data" => IsUnicast(p) /\ Names(p, n, rep)
        BY DEF Parcel
    <2>2. p.kind # "data" => AirOK(Copies(n, [p EXCEPT !.nh = next_hop_for(rt, n, p.to)]), rep)
        BY <2>1, Addressed
    <2>3. AirOK(air', rep)
        BY <1>1, <2>2 DEF Sends, AirOK
    <2> QED BY <1>1, <2>3 DEF Sends
<1>2. CASE Parks(n, p, rt, a)
    <2> DEFINE e == disc[n][p.to]
               g == [e EXCEPT !.queued = Append(e.queued, p)]
    <2>1. PendingOK(e, n, rep) /\ p.to \in DOMAIN disc[n]
        BY <1>2 DEF Parks, Waits, DiscOK
    <2>2. g \in [attempt : {g.attempt}, queued : {g.queued}] /\ g.queued = Append(e.queued, p)
        BY <2>1 DEF PendingOK
    <2>3. PendingOK(g, n, rep)
        <3>1. e.queued \in Seq(Range(e.queued)) /\ \A q \in Range(e.queued) : Parcel(q, n, rep)
            BY <2>1 DEF PendingOK
        <3> HIDE DEF g, e
        <3>2. /\ g.queued \in Seq(Range(g.queued))
              /\ Range(g.queued) = Range(e.queued) \cup {p}
            BY <2>2, <3>1, Appended
        <3> QED BY <2>2, <3>1, <3>2 DEF PendingOK
    <2>4. disc' = [disc EXCEPT ![n] = [disc[n] EXCEPT ![p.to] = g]]
        BY <1>2 DEF Parks
    <2> HIDE DEF g, e
    <2>5. DiscOK(disc', rep)
        BY <2>1, <2>3, <2>4 DEF DiscOK
    <2> QED BY <1>2, <2>5 DEF Parks
<1>3. CASE Starts(n, p, rt, a)
    <2> DEFINE g == [attempt |-> 1, queued |-> <<p>>]
               id == <<n, nextReq[n] + 1>>
               f == Request(n, p.to, id, TtlSteps[1])
    <2>1. PendingOK(g, n, rep)
        <3>1. Range(<<p>>) = {p} /\ <<p>> \in Seq({p})
            BY DEF Range
        <3> QED BY <3>1 DEF PendingOK
    <2>2. disc' = [disc EXCEPT ![n] = Put(disc[n], p.to, g)]
        BY <1>3 DEF Starts
    <2> HIDE DEF g
    <2>3. DiscOK(disc', rep)
        BY <2>1, <2>2 DEF DiscOK, Put
    <2>4. AirOK(Copies(n, f), rep)
        <3>1. IsRequest(f) /\ f.cost \in Nat /\ f.by = n
            BY DEF Request, IsRequest
        <3> QED BY <3>1, RequestCopies
    <2>5. air' = a \cup Copies(n, f)
        BY <1>3 DEF Starts
    <2> QED BY <2>3, <2>4, <2>5 DEF AirOK
<1>4. CASE Refuses(n, p, rt, a)
    BY <1>4 DEF Refuses
<1> QED BY <1>1, <1>2, <1>3, <1>4
LEMMA ErrorSent ==
    ASSUME NEW n \in Nodes, NEW p, NEW rt, NEW a, AirOK(a, repaired), DiscOK(disc, repaired),
           send_route_error(n, p, rt, a)
    PROVE  repaired' = repaired /\ AirOK(air', repaired) /\ DiscOK(disc', repaired)
<1> DEFINE nh == next_hop_for(rt, n, p.from)
           e == [kind |-> "rerr", from |-> n, to |-> p.from, id |-> p.id, target |-> p.to, by |-> n,
                 nh |-> nh, hops |-> 0, ttl |-> ttl_for(rt, n, p.from), h2t |-> 0, cost |-> 0]
<1>1. IsUnicast(e) /\ Names(e, n, repaired)
    BY DEF IsUnicast, Names
<1>2. AirOK(Copies(n, e), repaired)
    BY <1>1, UnicastCopies
<1>3. air' = a \/ air' = a \cup Copies(n, e)
    BY DEF send_route_error
<1>4. AirOK(air', repaired)
    BY <1>2, <1>3 DEF AirOK
<1> QED BY <1>4 DEF send_route_error

\* A packet of others goes on under n's name, is parked, or is answered with
\* an error of n's own.
LEMMA Forwarded ==
    ASSUME NEW n \in Nodes, NEW p, NEW rt, NEW a, IsUnicast(p),
           AirOK(a, repaired), DiscOK(disc, repaired), forward_unicast(n, p, rt, a)
    PROVE  AirOK(air', repaired') /\ DiscOK(disc', repaired')
<1> DEFINE nh == next_hop_for(rt, n, p.to)
<1>1. CASE air' = a /\ UNCHANGED <<disc, nextReq, repaired>>
    BY <1>1
<1>2. CASE send_route_error(n, p, routes', a) \/ send_route_error(n, p, rt, a)
    BY <1>2, ErrorSent
<1>3. CASE Sends(n, Onward(n, p), rt, a) /\ UNCHANGED repaired
    <2>1. IsUnicast(Onward(n, p)) /\ Onward(n, p).by = n
        BY DEF IsUnicast, Onward
    <2>2. Parcel(Onward(n, p), n, repaired)
        BY <2>1 DEF Parcel, Names
    <2> QED BY <1>3, <2>2, Routed
<1>4. CASE repair(n, p, rt, a)
    <2> DEFINE rep == repaired \cup {<<n, Key(p)>>}
    <2>1. Parcel(p, n, rep)
        BY DEF Parcel, Names
    <2>2. AirOK(a, rep) /\ DiscOK(disc, rep)
        BY MoreRepairs
    <2>3. repaired' = rep /\ (Parks(n, p, rt, a) \/ Starts(n, p, rt, a))
        BY <1>4 DEF repair
    <2> HIDE DEF rep
    <2> QED BY <2>1, <2>2, <2>3, Routed
<1>5. CASE Refuses(n, p, rt, a) /\ UNCHANGED repaired
    BY <1>5 DEF Refuses
<1> QED BY <1>1, <1>2, <1>3, <1>4, <1>5 DEF forward_unicast
-----------------------------------------------------------------------------
(* The steps.                                                              *)

LEMMA NamesInitially == Init => NamesInv
<1> SUFFICES ASSUME Init PROVE NamesInv
    OBVIOUS
<1>1. TablesOK
    BY DEF Init, TablesOK, Linked
<1> QED BY <1>1 DEF Init, NamesInv, AirOK, DiscOK, RrepOK, SchedOK

LEMMA NamesAtOrigin ==
    ASSUME NamesInv, NEW h, route_unicast(h)
    PROVE  NamesInv'
<1>1. Parcel(Data(h), Origin, repaired)
    BY DEF Parcel, Data
<1>2. AirOK(air', repaired) /\ DiscOK(disc', repaired)
    BY <1>1, Routed, DiscoveryAssumption DEF route_unicast, NamesInv
<1> QED BY <1>2 DEF route_unicast, NamesInv, TablesOK, RrepOK, SchedOK, tables, history

LEMMA NamesInRequest ==
    ASSUME NamesInv, NEW n \in Nodes, NEW x \in air, handle_route_request(n, x)
    PROVE  NamesInv'
<1>0. IsRequest(x.f) /\ x.f.cost \in Nat
    BY DEF NamesInv, AirOK, CopyOK, handle_route_request, IsUnicast
<1>1. AirOK(air \ {x}, repaired)
    BY DEF NamesInv, AirOK
<1>2. RequestCost(n, x.f) \in Nat
    BY <1>0, Cheap DEF NamesInv
<1>3. CASE rreq_duplicate(n, x)
    <2>1. SchedOK'
        <3> DEFINE late(r) == IF r.f.id = x.f.id THEN [r EXCEPT !.heard = IF @ < Threshold THEN @ + 1 ELSE @] ELSE r
        <3>1. sched' = [sched EXCEPT ![n] = {late(r) : r \in sched[n]}]
            BY <1>3 DEF rreq_duplicate
        <3>2. ASSUME NEW r \in sched[n]
              PROVE  late(r) \in [f : {late(r).f}, heard : {late(r).heard}] /\ late(r).f = r.f
            BY SMTT(15) DEF NamesInv, SchedOK
        <3> HIDE DEF late
        <3> QED BY <3>1, <3>2, SMTT(15) DEF NamesInv, SchedOK
    <2> QED BY <1>1, <1>3, <2>1 DEF rreq_duplicate, NamesInv, TablesOK, RrepOK, tables, history
<1>4. CASE rreq_answer(n, x)
    <2>1. PICK p : /\ IsUnicast(p) /\ p.by = n
                   /\ rrep' = [rrep EXCEPT ![n] = @ \cup {p}] \/ rrep' = [rrep EXCEPT ![n] = @]
        <3> DEFINE rt == RoutesAfter(n, x.f)
                   reply(a) == [kind |-> "rrep", from |-> n, to |-> x.f.id[1], id |-> x.f.id, target |-> x.f.target,
                                by |-> n, nh |-> n, hops |-> 0, ttl |-> ttl_for(rt, n, x.f.id[1]),
                                h2t |-> a.h2t, cost |-> a.cost]
        <3>1. PICK a : \/ rrep' = [rrep EXCEPT ![n] = @ \cup {reply(a)}]
                       \/ rrep' = [rrep EXCEPT ![n] = @]
            BY <1>4 DEF rreq_answer
        <3>2. IsUnicast(reply(a)) /\ reply(a).by = n
            BY DEF IsUnicast
        <3> HIDE DEF reply
        <3> QED BY <3>1, <3>2
    <2>2. RrepOK'
        BY <2>1, SMTT(15) DEF NamesInv, RrepOK
    <2> QED BY <1>1, <1>4, <2>2 DEF rreq_answer, NamesInv, TablesOK, SchedOK, tables
<1>5. CASE rreq_relay(n, x)
    <2> DEFINE f == x.f
               cost == RequestCost(n, f)
               g == [f EXCEPT !.by = n, !.hops = @ + 1, !.ttl = @ - 1, !.cost = cost]
               copy == [f |-> g, heard |-> 1]
    <2>1. IsRequest(g) /\ g.by = n /\ g.cost = cost
        BY <1>0 DEF IsRequest
    <2>2. \/ sched' = sched
          \/ sched' = [sched EXCEPT ![n] = (@ \ {r \in sched[n] : r.f.id = f.id}) \cup {copy}]
        BY <1>5 DEF rreq_relay
    <2> HIDE DEF g
    <2>3. copy \in [f : {copy.f}, heard : {copy.heard}] /\ IsRequest(copy.f) /\ copy.f.by = n /\ copy.f.cost \in Nat
        BY <1>2, <2>1
    <2> HIDE DEF copy
    <2>4. SchedOK'
        BY <2>2, <2>3, SMTT(15) DEF NamesInv, SchedOK
    <2> QED BY <1>1, <1>5, <2>4 DEF rreq_relay, NamesInv, TablesOK, RrepOK, tables, history
<1> QED BY <1>3, <1>4, <1>5 DEF handle_route_request

LEMMA NamesInRelay ==
    ASSUME NamesInv, NEW n \in Nodes, relay_due(n)
    PROVE  NamesInv'
<1>1. PICK r \in sched[n] :
           /\ sched' = [sched EXCEPT ![n] = @ \ {r}]
           /\ air' = air \/ air' = air \cup Copies(n, r.f)
           /\ UNCHANGED <<tables, rrep, disc, repaired>>
    BY DEF relay_due
<1>2. AirOK(Copies(n, r.f), repaired)
    BY RequestCopies DEF NamesInv, SchedOK
<1>3. AirOK(air', repaired)
    BY <1>1, <1>2 DEF NamesInv, AirOK
<1>4. SchedOK'
    BY <1>1 DEF NamesInv, SchedOK
<1> QED BY <1>1, <1>3, <1>4 DEF NamesInv, TablesOK, RrepOK, tables
LEMMA NamesInUnicast ==
    ASSUME NamesInv, NEW n \in Nodes, NEW x \in air, rx_unicast(n, x)
    PROVE  NamesInv'
<1> DEFINE p == x.f
           a == NotSeen(n, x)
<1>0. IsUnicast(p)
    BY DEF NamesInv, AirOK, CopyOK, rx_unicast, IsRequest
<1>1. AirOK(a, repaired)
    BY DEF NamesInv, AirOK, NotSeen
<1>2. RrepOK'
    BY ZenonT(40) DEF rx_unicast, NamesInv, RrepOK, Unsuppressed
<1>3. TablesOK' /\ SchedOK'
    BY DEF rx_unicast, NamesInv, TablesOK, SchedOK, tables
<1> HIDE DEF p, a
<1>4. CASE handle_route_reply(n, p, a)
    <2> DEFINE rt == absorb_route_reply(GuessReverse(n, p, p.from), n, p)
               nh == next_hop_for(rt, n, p.target)
               queued == IF Waits(n, p.target) THEN Range(disc[n][p.target].queued) ELSE {}
               sent == {q \in queued : q.kind # "data" /\ nh # None}
    <2>1. \A q \in queued : Parcel(q, n, repaired)
        BY DEF NamesInv, DiscOK, PendingOK, Waits
    <2>2. /\ air' = a \cup UNION {Copies(n, [q EXCEPT !.nh = nh]) : q \in sent}
          /\ disc' = [disc EXCEPT ![n] = Finished(@, p.target)]
          /\ repaired' = repaired
        BY <1>4 DEF handle_route_reply
    <2> HIDE DEF queued, nh
    <2>3. \A q \in sent : AirOK(Copies(n, [q EXCEPT !.nh = nh]), repaired)
        BY <2>1, Addressed DEF Parcel
    <2> HIDE DEF sent
    <2>4. AirOK(air', repaired)
        BY <1>1, <2>2, <2>3 DEF AirOK
    <2>5. DiscOK(disc', repaired)
        BY <2>2 DEF NamesInv, DiscOK, Finished
    <2> QED BY <1>2, <1>3, <2>2, <2>4, <2>5 DEF NamesInv
<1>5. CASE forward_route_reply(n, p, a)
    <2> DEFINE rt == absorb_route_reply(GuessReverse(n, p, p.from), n, p)
               c == link_cost_to(n, IF Prev(n, p) = None THEN p.from ELSE Prev(n, p))
               r == [p EXCEPT !.cost = @ + c]
    <2>1. forward_unicast(n, r, rt, a)
        BY <1>5 DEF forward_route_reply
    <2> HIDE DEF c, rt
    <2>2. IsUnicast(r)
        BY <1>0 DEF IsUnicast
    <2> HIDE DEF r
    <2> QED BY <1>1, <1>2, <1>3, <2>1, <2>2, Forwarded DEF NamesInv
<1>6. CASE handle_route_error(n, p, a)
    BY <1>1, <1>2, <1>3, <1>6 DEF handle_route_error, NamesInv
<1>7. CASE forward_route_error(n, p, a)
    BY <1>0, <1>1, <1>2, <1>3, <1>7, Forwarded DEF forward_route_error, NamesInv
<1> QED BY <1>4, <1>5, <1>6, <1>7 DEF rx_unicast, p, a

LEMMA NamesInReply ==
    ASSUME NamesInv, NEW n \in Nodes, reply_due(n)
    PROVE  NamesInv'
<1>1. PICK p \in rrep[n] :
           /\ rrep' = [rrep EXCEPT ![n] = @ \ {p}]
           /\ Sends(n, p, routes, air) \/ Parks(n, p, routes, air)
                \/ Starts(n, p, routes, air) \/ Refuses(n, p, routes, air)
           /\ UNCHANGED <<tables, sched, history>>
    BY DEF reply_due
<1>2. Parcel(p, n, repaired)
    BY DEF NamesInv, RrepOK, Parcel, Names
<1>3. AirOK(air', repaired) /\ DiscOK(disc', repaired)
    BY <1>1, <1>2, Routed DEF NamesInv
<1> QED BY <1>1, <1>3 DEF NamesInv, RrepOK, TablesOK, SchedOK, tables, history

LEMMA NamesInTick ==
    ASSUME NamesInv, NEW n \in Nodes, NEW d, tick(n, d)
    PROVE  NamesInv'
<1>1. CASE tick_retry(n, d)
    <2> DEFINE f == Request(n, d, <<n, nextReq[n] + 1>>, TtlSteps[disc[n][d].attempt + 1])
               e == disc[n][d]
               g == [e EXCEPT !.attempt = @ + 1]
    <2>1. PendingOK(e, n, repaired) /\ d \in DOMAIN disc[n]
        BY <1>1 DEF tick_retry, NamesInv, DiscOK, Waits
    <2>2. g \in [attempt : {g.attempt}, queued : {g.queued}] /\ g.queued = e.queued
        BY <2>1 DEF PendingOK
    <2>3. disc' = [disc EXCEPT ![n] = [disc[n] EXCEPT ![d] = g]]
        BY <1>1 DEF tick_retry
    <2> HIDE DEF e, g
    <2>4. PendingOK(g, n, repaired)
        BY <2>1, <2>2 DEF PendingOK
    <2>5. DiscOK(disc', repaired)
        BY <2>1, <2>3, <2>4 DEF NamesInv, DiscOK
    <2>6. AirOK(Copies(n, f), repaired)
        <3>1. IsRequest(f) /\ f.cost \in Nat /\ f.by = n
            BY DEF Request, IsRequest
        <3> QED BY <3>1, RequestCopies
    <2>7. air' = air \cup Copies(n, f)
        BY <1>1 DEF tick_retry
    <2>8. AirOK(air', repaired)
        BY <2>6, <2>7 DEF NamesInv, AirOK
    <2> QED BY <1>1, <2>5, <2>8 DEF tick_retry, NamesInv, TablesOK, RrepOK, SchedOK, tables, history
<1>2. CASE tick_fail(n, d)
    <2>1. DiscOK(disc', repaired)
        BY <1>2 DEF tick_fail, NamesInv, DiscOK, Finished
    <2> QED BY <1>2, <2>1 DEF tick_fail, NamesInv, TablesOK, RrepOK, SchedOK, tables, history
<1> QED BY <1>1, <1>2 DEF tick

LEMMA NamesInNeighbours ==
    ASSUME NamesInv, NEW n \in Nodes, NEW m \in Nodes,
           on_neighbor_lost(n, m) \/ handle_beacon(n, m)
    PROVE  NamesInv'
BY SMTT(15) DEF NamesInv, TablesOK, AirOK, DiscOK, RrepOK, SchedOK, on_neighbor_lost, handle_beacon, history

LEMMA NamesInStutter ==
    ASSUME NamesInv, (\E n, d \in Nodes : holdoff_over(n, d)) \/ UNCHANGED vars
    PROVE  NamesInv'
BY ZenonT(40) DEF NamesInv, TablesOK, AirOK, DiscOK, RrepOK, SchedOK, holdoff_over, vars, tables, history

LEMMA NamesStep == NamesInv /\ [Next]_vars => NamesInv'
<1> SUFFICES ASSUME NamesInv, [Next]_vars PROVE NamesInv'
    OBVIOUS
<1>1. \A nm \in net.flaky \cup net.beacons : nm[1] \in Nodes /\ nm[2] \in Nodes
    BY DiscoveryAssumption DEF NamesInv, TablesOK
<1>2. ASSUME NEW n \in Nodes, on_radio_rx(n) PROVE NamesInv'
    BY <1>2, NamesInRequest, NamesInUnicast DEF on_radio_rx
<1> QED BY <1>1, <1>2, NamesAtOrigin, NamesInRelay, NamesInReply, NamesInTick, NamesInNeighbours,
           NamesInStutter DEF Next

\* For every network and all losses, repairs and retries, a copy on the air
\* bears the name of its transmitter unless it was parked for a repair
\* (forward_unicast rewrites the relay, route_unicast does not).
THEOREM OnlyRepairsMisnameHolds == Spec => []OnlyRepairsMisname
<1>1. NamesInv => OnlyRepairsMisname
    BY DEF NamesInv, AirOK, CopyOK, Names, OnlyRepairsMisname
<1> QED BY <1>1, NamesInitially, NamesStep, PTL DEF Spec
-----------------------------------------------------------------------------
(* The table of requests: one entry for each that n has seen.              *)

Entry == [best : Nat, relays : 1..2, replied : BOOLEAN]

SeenOK == /\ DOMAIN seenReq = Nodes
          /\ \A n \in Nodes : \A id \in DOMAIN seenReq[n] : seenReq[n][id] \in Entry

\* n has answered what is in its history, and knows it.
AnswersOK ==
    \A r \in answers : /\ r.nth = 1 /\ r.by \in Nodes
                       /\ r.id \in DOMAIN seenReq[r.by] /\ seenReq[r.by][r.id].replied = TRUE

Known(n, id) == id \in DOMAIN seenReq[n]

\* g is the entry of a request after a copy that brought nothing.
Kept(n, id, g) ==
    /\ Known(n, id)
    /\ g.best <= seenReq[n][id].best
    /\ g.relays = seenReq[n][id].relays
    /\ g.replied = seenReq[n][id].replied

\* g is the entry of a request after a copy with the cost c was processed.
Renewed(n, id, g, c) ==
    /\ g.best = c
    /\ \/ ~Known(n, id) /\ g.relays = 1
       \/ /\ Known(n, id) /\ seenReq[n][id].relays = 1 /\ g.relays = 2
          /\ MuchBetter(c, seenReq[n][id].best)
          /\ seenReq[n][id].replied = TRUE => g.replied = TRUE

LEMMA DuplicateSeen ==
    ASSUME NamesInv, SeenOK, NEW n \in Nodes, NEW x \in air, x.f.kind = "rreq", rreq_duplicate(n, x)
    PROVE  \E g \in Entry : /\ seenReq' = [seenReq EXCEPT ![n] = Put(@, x.f.id, g)]
                            /\ Kept(n, x.f.id, g)
<1> DEFINE id == x.f.id
           cost == RequestCost(n, x.f)
           s == seenReq[n][id]
           g == [s EXCEPT !.best = IF cost < @ THEN cost ELSE @]
<1>1. Known(n, id)
    BY DEF rreq_duplicate, Fresh, Known
<1>2. s \in Entry
    BY <1>1 DEF SeenOK, Known
<1>3. cost \in Nat
    BY Cheap DEF NamesInv, AirOK, CopyOK, IsUnicast
<1>4. seenReq' = [seenReq EXCEPT ![n] = [seenReq[n] EXCEPT ![id] = g]]
    BY DEF rreq_duplicate
<1> HIDE DEF cost
<1>5. g \in Entry /\ Kept(n, id, g)
    BY <1>1, <1>2, <1>3, SMTT(40) DEF Entry, Kept
<1> HIDE DEF g
<1>6. seenReq' = [seenReq EXCEPT ![n] = Put(@, id, g)]
    BY <1>1, <1>4 DEF Put, Known
<1> QED BY <1>5, <1>6

LEMMA SecondCopy ==
    ASSUME NEW s \in Entry, NEW c \in Nat, s.relays = 1
    PROVE  LET g == [s EXCEPT !.best = c, !.relays = @ + 1]
           IN  g \in Entry /\ g.best = c /\ g.relays = 2 /\ g.replied = s.replied
<1> DEFINE g == [s EXCEPT !.best = c, !.relays = @ + 1]
<1>1. g.best = c /\ g.relays = 2 /\ g.replied = s.replied
    BY SMTT(15) DEF Entry
<1>2. ASSUME NEW d \in 1..2 PROVE [s EXCEPT !.best = c, !.relays = d] \in Entry
    BY DEF Entry
<1>3. g \in Entry
    <2>1. s.relays + 1 \in 1..2
        OBVIOUS
    <2> QED BY <1>2, <2>1
<1> QED BY <1>1, <1>3 DEF g

LEMMA FreshSeen ==
    ASSUME NamesInv, SeenOK, NEW n \in Nodes, NEW x \in air, x.f.kind = "rreq",
           Fresh(n, x.f.id, RequestCost(n, x.f))
    PROVE  LET g == Observed(n, x.f.id, RequestCost(n, x.f))
           IN  /\ g \in Entry
               /\ Renewed(n, x.f.id, g, RequestCost(n, x.f))
               /\ g.replied = IF Known(n, x.f.id) THEN seenReq[n][x.f.id].replied ELSE FALSE
<1> DEFINE id == x.f.id
           cost == RequestCost(n, x.f)
           s == seenReq[n][id]
<1>1. cost \in Nat
    BY Cheap DEF NamesInv, AirOK, CopyOK, IsUnicast
<1> HIDE DEF cost
<1>2. CASE Known(n, id)
    <2>1. s \in Entry /\ s.relays = 1 /\ MuchBetter(cost, s.best)
        BY <1>2, SMTT(15) DEF SeenOK, Known, Fresh, Entry, cost
    <2>2. Observed(n, id, cost) = [s EXCEPT !.best = cost, !.relays = @ + 1]
        BY <1>2 DEF Observed, Known
    <2> HIDE DEF s
    <2> DEFINE g == [s EXCEPT !.best = cost, !.relays = @ + 1]
    <2>3. g \in Entry /\ g.best = cost /\ g.relays = 2 /\ g.replied = s.replied
        BY <1>1, <2>1, SecondCopy
    <2> HIDE DEF g
    <2> QED BY <1>2, <2>1, <2>2, <2>3 DEF Renewed, cost, s, g
<1>3. CASE ~Known(n, id)
    <2> DEFINE g == [best |-> cost, relays |-> 1, replied |-> FALSE]
    <2>1. Observed(n, id, cost) = g
        BY <1>3 DEF Observed, Known
    <2>2. g \in Entry /\ g.best = cost /\ g.relays = 1 /\ g.replied = FALSE
        BY <1>1 DEF Entry
    <2> HIDE DEF g
    <2> QED BY <1>3, <2>1, <2>2 DEF Renewed, cost
<1> QED BY <1>2, <1>3

LEMMA AnswerSeen ==
    ASSUME NamesInv, SeenOK, NEW n \in Nodes, NEW x \in air, x.f.kind = "rreq", rreq_answer(n, x)
    PROVE  \E g \in Entry :
              /\ seenReq' = [seenReq EXCEPT ![n] = Put(@, x.f.id, g)]
              /\ Renewed(n, x.f.id, g, RequestCost(n, x.f))
              /\ \/ answers' = answers
                 \/ /\ answers' = answers \cup {[by |-> n, id |-> x.f.id, nth |-> Cardinality(Of(answers, n, x.f.id)) + 1]}
                    /\ g.replied = TRUE
                    /\ Known(n, x.f.id) => seenReq[n][x.f.id].replied = FALSE
<1> DEFINE id == x.f.id
           cost == RequestCost(n, x.f)
           s == Observed(n, id, cost)
           replies == next_hop_for(RoutesAfter(n, x.f), n, id[1]) # None /\ mark_replied(n, x.f)
           g == [s EXCEPT !.replied = @ \/ replies]
<1>1. s \in Entry /\ Renewed(n, id, s, cost) /\ s.replied = IF Known(n, id) THEN seenReq[n][id].replied ELSE FALSE
    BY FreshSeen DEF rreq_answer
<1>2. /\ seenReq' = [seenReq EXCEPT ![n] = Put(@, id, g)]
      /\ answers' = IF replies
                    THEN answers \cup {[by |-> n, id |-> id, nth |-> Cardinality(Of(answers, n, id)) + 1]}
                    ELSE answers
    BY DEF rreq_answer
<1>3. replies => (Known(n, id) => seenReq[n][id].replied = FALSE)
    BY DEF mark_replied, Known, SeenOK, Entry
<1> HIDE DEF s, cost, id
<1>4. CASE replies
    <2> DEFINE h == [s EXCEPT !.replied = TRUE]
    <2>1. g = h
        BY <1>4
    <2>2. h \in Entry /\ h.best = s.best /\ h.relays = s.relays /\ h.replied = TRUE
        BY <1>1 DEF Entry
    <2> HIDE DEF replies, h, g
    <2>3. Renewed(n, id, h, cost)
        BY <1>1, <2>2 DEF Renewed
    <2> QED BY <1>2, <1>3, <1>4, <2>1, <2>2, <2>3 DEF id, cost
<1>5. CASE ~replies
    <2> HIDE DEF replies
    <2>1. (s.replied \/ replies) = s.replied
        BY <1>1, <1>5 DEF Entry
    <2>2. g = [s EXCEPT !.replied = s.replied]
        BY <2>1
    <2>3. g \in Entry /\ g.best = s.best /\ g.relays = s.relays /\ g.replied = s.replied
        BY <1>1, <2>2 DEF Entry
    <2> HIDE DEF g
    <2>4. Renewed(n, id, g, cost)
        BY <1>1, <2>3 DEF Renewed
    <2> QED BY <1>2, <1>5, <2>3, <2>4 DEF id, cost
<1> QED BY <1>4, <1>5
\* No other step touches the table, the slots or the histories of requests.
LEMMA OnlyRequests ==
    ASSUME [Next]_vars
    PROVE  \/ UNCHANGED <<seenReq, sched, relays, answers>>
           \/ \E n \in Nodes : relay_due(n)
           \/ \E n \in Nodes : \E x \in air : handle_route_request(n, x)
<1>1. CASE \E h \in Handles : route_unicast(h)
    BY <1>1 DEF route_unicast, history
<1>2. CASE \E n \in Nodes : on_radio_rx(n)
    BY <1>2 DEF on_radio_rx, rx_unicast
<1>3. CASE \E n \in Nodes : reply_due(n)
    BY <1>3 DEF reply_due, history
<1>4. CASE \E n, d \in Nodes : tick(n, d) \/ holdoff_over(n, d)
    BY <1>4, ZenonT(40) DEF tick, tick_retry, tick_fail, holdoff_over, history
<1>5. CASE \E nm \in net.flaky : on_neighbor_lost(nm[1], nm[2])
    BY <1>5 DEF on_neighbor_lost, history
<1>6. CASE \E nm \in net.beacons : handle_beacon(nm[1], nm[2])
    BY <1>6 DEF handle_beacon, history
<1>7. CASE UNCHANGED vars
    BY <1>7 DEF vars
<1> QED BY <1>1, <1>2, <1>3, <1>4, <1>5, <1>6, <1>7 DEF Next

\* A copy changes one entry: it is kept or renewed.
LEMMA RequestSeen ==
    ASSUME NamesInv, SeenOK, NEW n \in Nodes, NEW x \in air, handle_route_request(n, x)
    PROVE  \E g \in Entry :
              /\ seenReq' = [seenReq EXCEPT ![n] = Put(@, x.f.id, g)]
              /\ \/ Kept(n, x.f.id, g) /\ rreq_duplicate(n, x) /\ UNCHANGED answers
                 \/ /\ Renewed(n, x.f.id, g, RequestCost(n, x.f))
                    /\ rreq_answer(n, x) \/ rreq_relay(n, x)
                    /\ \/ answers' = answers
                       \/ /\ answers' = answers \cup {[by |-> n, id |-> x.f.id, nth |-> Cardinality(Of(answers, n, x.f.id)) + 1]}
                          /\ g.replied = TRUE
                          /\ Known(n, x.f.id) => seenReq[n][x.f.id].replied = FALSE
<1>1. CASE rreq_duplicate(n, x)
    BY <1>1, DuplicateSeen DEF handle_route_request, rreq_duplicate, history
<1>2. CASE rreq_answer(n, x)
    BY <1>2, AnswerSeen DEF handle_route_request
<1>3. CASE rreq_relay(n, x)
    <2>1. /\ Fresh(n, x.f.id, RequestCost(n, x.f))
          /\ seenReq' = [seenReq EXCEPT ![n] = Put(@, x.f.id, Observed(n, x.f.id, RequestCost(n, x.f)))]
          /\ UNCHANGED answers
        BY <1>3 DEF rreq_relay, history
    <2> QED BY <1>3, <2>1, FreshSeen DEF handle_route_request
<1> QED BY <1>1, <1>2, <1>3 DEF handle_route_request

LEMMA SeenStep == NamesInv /\ SeenOK /\ [Next]_vars => SeenOK'
<1> SUFFICES ASSUME NamesInv, SeenOK, [Next]_vars PROVE SeenOK'
    OBVIOUS
<1>1. CASE UNCHANGED seenReq
    BY <1>1 DEF SeenOK
<1>2. ASSUME NEW n \in Nodes, NEW x \in air, handle_route_request(n, x) PROVE SeenOK'
    <2>1. PICK g \in Entry : seenReq' = [seenReq EXCEPT ![n] = Put(@, x.f.id, g)]
        BY <1>2, RequestSeen, ZenonT(40)
    <2> QED BY <2>1 DEF SeenOK, Put
<1> QED BY <1>1, <1>2, OnlyRequests DEF relay_due

LEMMA AnswersStep == NamesInv /\ SeenOK /\ AnswersOK /\ [Next]_vars => AnswersOK'
<1> SUFFICES ASSUME NamesInv, SeenOK, AnswersOK, [Next]_vars PROVE AnswersOK'
    OBVIOUS
<1>1. CASE UNCHANGED <<seenReq, answers>>
    BY <1>1 DEF AnswersOK
<1>2. ASSUME NEW n \in Nodes, NEW x \in air, handle_route_request(n, x) PROVE AnswersOK'
    <2> DEFINE id == x.f.id
               new == [by |-> n, id |-> id, nth |-> Cardinality(Of(answers, n, id)) + 1]
    <2>0. PICK g \in Entry :
              /\ seenReq' = [seenReq EXCEPT ![n] = Put(@, id, g)]
              /\ Kept(n, id, g) \/ Renewed(n, id, g, RequestCost(n, x.f))
              /\ \/ answers' = answers
                 \/ /\ answers' = answers \cup {new}
                    /\ g.replied = TRUE
                    /\ Known(n, id) => seenReq[n][id].replied = FALSE
        BY <1>2, RequestSeen, ZenonT(40)
    <2>1. Known(n, id) /\ seenReq[n][id].replied = TRUE => g.replied = TRUE
        BY <2>0 DEF Kept, Renewed
    <2>2. ASSUME NEW r \in answers
          PROVE  r.nth = 1 /\ r.by \in Nodes /\ r.id \in DOMAIN seenReq'[r.by] /\ seenReq'[r.by][r.id].replied = TRUE
        BY <2>0, <2>1 DEF AnswersOK, SeenOK, Known, Put
    <2>3. CASE answers' = answers
        BY <2>2, <2>3 DEF AnswersOK
    <2>4. CASE /\ answers' = answers \cup {new}
               /\ g.replied = TRUE
               /\ Known(n, id) => seenReq[n][id].replied = FALSE
        <3>1. Of(answers, n, id) = {}
            BY <2>4 DEF AnswersOK, Of, Known
        <3>2. Cardinality(Of(answers, n, id)) + 1 = 1
            BY <3>1, FS_EmptySet, SMTT(15)
        <3>3. id \in DOMAIN seenReq'[n] /\ seenReq'[n][id].replied = TRUE
            BY <2>0, <2>4 DEF SeenOK, Put
        <3>4. new.by = n /\ new.id = id /\ new.nth = 1
            BY <3>2
        <3> HIDE DEF new, id
        <3> QED BY <2>2, <2>4, <3>3, <3>4 DEF AnswersOK
    <2> QED BY <2>0, <2>3, <2>4
<1> QED BY <1>1, <1>2, OnlyRequests DEF relay_due

\* However many cheaper copies of a request reach a node, and in whatever
\* order, the node answers it once (mark_replied survives observe_request).
THEOREM AnsweredOnceHolds == Spec => []AnsweredOnce
<1>1. Init => SeenOK /\ AnswersOK
    BY SMTT(15) DEF Init, SeenOK, AnswersOK
<1>2. AnswersOK => AnsweredOnce
    BY DEF AnswersOK, AnsweredOnce
<1> QED BY <1>1, <1>2, NamesInitially, NamesStep, SeenStep, AnswersStep, PTL DEF Spec
-----------------------------------------------------------------------------
(* The relays of a request: R were sent, W wait for their slot, s is the    *)
(* entry of the request.                                                   *)

Waiting(n, id) == {r \in sched[n] : r.f.id = id}

Story(R, W, s) ==
    /\ \A e \in R : e.cost \in Nat
    /\ \A w \in W : w.f.cost \in Nat
    /\ s.relays = 1 => (\A e \in R : s.best <= e.cost) /\ (\A w \in W : s.best <= w.f.cost)
    /\ \/ R = {}
       \/ \E e : /\ R = {e} /\ e.nth = 1
                 /\ W = {} \/ (s.relays = 2 /\ \A w \in W : MuchBetter(w.f.cost, e.cost))
       \/ \E e, g : /\ R = {e, g} /\ e.nth = 1 /\ g.nth = 2 /\ MuchBetter(g.cost, e.cost)
                    /\ s.relays = 2 /\ W = {}

RelaysOK ==
    /\ \A r \in relays : r.by \in Nodes
    /\ \A n \in Nodes : \A id :
          /\ \A v, w \in Waiting(n, id) : v = w
          /\ ~Known(n, id) => Of(relays, n, id) = {} /\ Waiting(n, id) = {}
          /\ Known(n, id) => Story(Of(relays, n, id), Waiting(n, id), seenReq[n][id])

\* A copy that brought nothing: the slots are those of before.
LEMMA StoryKept ==
    ASSUME NEW R, NEW W, NEW X, NEW s \in Entry, NEW g \in Entry, Story(R, W, s),
           g.best <= s.best, g.relays = s.relays, \A y \in X : \E w \in W : y.f = w.f
    PROVE  Story(R, X, g)
<1>1. W = {} => X = {}
    OBVIOUS
<1>2. /\ \A y \in X : y.f.cost \in Nat
      /\ g.relays = 1 => (\A e \in R : g.best <= e.cost) /\ (\A y \in X : g.best <= y.f.cost)
    BY SMTT(15) DEF Story, Entry
<1>3. ASSUME NEW e, \A w \in W : MuchBetter(w.f.cost, e.cost)
      PROVE  \A y \in X : MuchBetter(y.f.cost, e.cost)
    BY <1>3
<1> QED BY <1>1, <1>2, <1>3 DEF Story

\* The first copy: nothing was sent, and what waits has its cost.
LEMMA StoryBegins ==
    ASSUME NEW X, NEW g \in Entry, \A y \in X : y.f.cost = g.best
    PROVE  Story({}, X, g)
BY DEF Story, Entry

\* The second copy: what was sent was much dearer.
LEMMA StoryRenewed ==
    ASSUME NEW R, NEW W, NEW X, NEW s \in Entry, NEW g \in Entry, Story(R, W, s),
           s.relays = 1, g.relays = 2, MuchBetter(g.best, s.best),
           X = W \/ \A y \in X : y.f.cost = g.best
    PROVE  Story(R, X, g)
<1>1. \A e \in R : MuchBetter(g.best, e.cost)
    BY SMTT(15) DEF Story, Entry, MuchBetter, BetterPercent
<1>2. \A y \in X : y.f.cost \in Nat
    BY DEF Story, Entry
<1>3. CASE R = {}
    BY <1>2, <1>3 DEF Story
<1>4. CASE \E e : R = {e} /\ e.nth = 1 /\ W = {}
    <2>1. PICK e : R = {e} /\ e.nth = 1 /\ W = {}
        BY <1>4
    <2>2. X = {} \/ \A y \in X : MuchBetter(y.f.cost, e.cost)
        BY <1>1, <2>1
    <2> QED BY <1>2, <2>1, <2>2, SMTT(15) DEF Story
<1> QED BY <1>3, <1>4, SMTT(15) DEF Story

\* The slot of the one copy that waits has come.
LEMMA StorySent ==
    ASSUME NEW R, NEW W, NEW s, NEW r, Story(R, W, s), W = {r},
           NEW g, g.nth = Cardinality(R) + 1, g.cost = r.f.cost
    PROVE  Story(R, {}, s) /\ Story(R \cup {g}, {}, s)
<1>1. \A e \in R \cup {g} : e.cost \in Nat
    BY DEF Story
<1>2. s.relays = 1 => \A e \in R \cup {g} : s.best <= e.cost
    BY DEF Story
<1>3. CASE R = {}
    <2>1. g.nth = 1
        BY <1>3, FS_EmptySet, SMTT(15)
    <2>2. R \cup {g} = {g}
        BY <1>3
    <2> QED BY <1>1, <1>2, <1>3, <2>1, <2>2 DEF Story
<1>4. CASE \E e : R = {e} /\ e.nth = 1 /\ s.relays = 2 /\ MuchBetter(r.f.cost, e.cost)
    <2>1. PICK e : R = {e} /\ e.nth = 1 /\ s.relays = 2 /\ MuchBetter(r.f.cost, e.cost)
        BY <1>4
    <2>2. g.nth = 2
        <3>1. Cardinality({e}) = 1
            BY FS_Singleton
        <3> QED BY <2>1, <3>1
    <2>3. R \cup {g} = {e, g} /\ MuchBetter(g.cost, e.cost)
        BY <2>1
    <2> QED BY <1>1, <1>2, <2>1, <2>2, <2>3 DEF Story
<1> QED BY <1>3, <1>4 DEF Story
\* What a copy of a request does to the slots of n.
LEMMA RequestSlots ==
    ASSUME NamesInv, NEW n \in Nodes, NEW x \in air, handle_route_request(n, x)
    PROVE  /\ \A m \in Nodes : \A id : m # n \/ id # x.f.id => Waiting(m, id)' = Waiting(m, id)
           /\ rreq_duplicate(n, x) => \A y \in Waiting(n, x.f.id)' : \E w \in Waiting(n, x.f.id) : y.f = w.f
           /\ rreq_duplicate(n, x) => ((\A v, w \in Waiting(n, x.f.id) : v = w)
                                        => \A v, w \in Waiting(n, x.f.id)' : v = w)
           /\ rreq_answer(n, x) => UNCHANGED sched
           /\ rreq_relay(n, x) => \/ UNCHANGED sched
                                  \/ \E y : Waiting(n, x.f.id)' = {y} /\ y.f.cost = RequestCost(n, x.f)
<1> DEFINE id0 == x.f.id
<1>1. CASE rreq_duplicate(n, x)
    <2> DEFINE late(r) == IF r.f.id = id0 THEN [r EXCEPT !.heard = IF @ < Threshold THEN @ + 1 ELSE @] ELSE r
    <2>1. sched' = [sched EXCEPT ![n] = {late(r) : r \in sched[n]}]
        BY <1>1 DEF rreq_duplicate
    <2>2. ASSUME NEW r \in sched[n] PROVE late(r).f = r.f
        BY SMTT(15) DEF NamesInv, SchedOK
    <2>3. ASSUME NEW r, r.f.id # id0 PROVE late(r) = r
        BY <2>3
    <2> HIDE DEF late
    <2>4. sched'[n] = {late(r) : r \in sched[n]} /\ \A m \in Nodes : m # n => sched'[m] = sched[m]
        BY <2>1 DEF NamesInv, SchedOK
    <2>5. Waiting(n, id0)' = {late(w) : w \in Waiting(n, id0)}
        BY <2>2, <2>4, SMTT(15) DEF Waiting
    <2>6. ASSUME NEW id, id # id0 PROVE Waiting(n, id)' = Waiting(n, id)
        BY <2>2, <2>3, <2>4, <2>6, SMTT(15) DEF Waiting
    <2>7. \A m \in Nodes : \A id : m # n \/ id # id0 => Waiting(m, id)' = Waiting(m, id)
        BY <2>4, <2>6 DEF Waiting
    <2>8. \A y \in Waiting(n, id0)' : \E w \in Waiting(n, id0) : y.f = w.f
        BY <2>2, <2>5 DEF Waiting
    <2>9. ASSUME \A v, w \in Waiting(n, id0) : v = w PROVE \A v, w \in Waiting(n, id0)' : v = w
        BY <2>5, <2>9
    <2> QED BY <1>1, <2>7, <2>8, <2>9 DEF rreq_duplicate, rreq_answer, rreq_relay
<1>2. CASE rreq_answer(n, x)
    <2>1. UNCHANGED sched /\ ~rreq_duplicate(n, x)
        BY <1>2 DEF rreq_answer, rreq_duplicate
    <2> QED BY <2>1 DEF Waiting
<1>3. CASE rreq_relay(n, x)
    <2> DEFINE f == x.f
               cost == RequestCost(n, f)
               g == [f EXCEPT !.by = n, !.hops = @ + 1, !.ttl = @ - 1, !.cost = cost]
               copy == [f |-> g, heard |-> 1]
    <2>0. IsRequest(f)
        BY DEF NamesInv, AirOK, CopyOK, handle_route_request, IsUnicast
    <2>1. g.id = id0 /\ g.cost = cost
        BY <2>0 DEF IsRequest
    <2>2. \/ sched' = sched
          \/ sched' = [sched EXCEPT ![n] = (@ \ {r \in sched[n] : r.f.id = id0}) \cup {copy}]
        BY <1>3 DEF rreq_relay
    <2>3. copy.f.id = id0 /\ copy.f.cost = cost
        BY <2>1
    <2> HIDE DEF g, copy
    <2>4. CASE sched' = [sched EXCEPT ![n] = (@ \ {r \in sched[n] : r.f.id = id0}) \cup {copy}]
        <3>1. /\ sched'[n] = (sched[n] \ {r \in sched[n] : r.f.id = id0}) \cup {copy}
              /\ \A m \in Nodes : m # n => sched'[m] = sched[m]
            BY <2>4 DEF NamesInv, SchedOK
        <3>2. Waiting(n, id0)' = {copy}
            BY <2>3, <3>1 DEF Waiting
        <3>3. \A m \in Nodes : \A id : m # n \/ id # id0 => Waiting(m, id)' = Waiting(m, id)
            BY <2>3, <3>1 DEF Waiting
        <3>4. ~rreq_duplicate(n, x) /\ (rreq_answer(n, x) => UNCHANGED sched)
            BY <1>3 DEF rreq_duplicate, rreq_relay, rreq_answer
        <3> QED BY <2>3, <3>2, <3>3, <3>4
    <2>5. CASE sched' = sched
        <3>1. ~rreq_duplicate(n, x)
            BY <1>3 DEF rreq_duplicate, rreq_relay
        <3> QED BY <2>5, <3>1 DEF Waiting
    <2> QED BY <2>2, <2>4, <2>5
<1> QED BY <1>1, <1>2, <1>3 DEF handle_route_request
LEMMA RelaysInRequest ==
    ASSUME NamesInv, SeenOK, RelaysOK, NEW n \in Nodes, NEW x \in air, handle_route_request(n, x)
    PROVE  RelaysOK'
<1> DEFINE id0 == x.f.id
           cost == RequestCost(n, x.f)
           R == Of(relays, n, id0)
           W == Waiting(n, id0)
           X == Waiting(n, id0)'
           s == seenReq[n][id0]
<1>1. relays' = relays
    BY DEF handle_route_request, rreq_duplicate, rreq_answer, rreq_relay, history
<1>2. PICK g \in Entry :
          /\ seenReq' = [seenReq EXCEPT ![n] = Put(@, id0, g)]
          /\ \/ Kept(n, id0, g) /\ rreq_duplicate(n, x)
             \/ Renewed(n, id0, g, cost) /\ (rreq_answer(n, x) \/ rreq_relay(n, x))
    BY RequestSeen
<1>3. /\ Known(n, id0)' /\ seenReq'[n][id0] = g
      /\ \A m \in Nodes : \A id : m # n \/ id # id0 =>
            Known(m, id)' = Known(m, id) /\ (Known(m, id) => seenReq'[m][id] = seenReq[m][id])
    BY <1>2, SMTT(15) DEF SeenOK, Put, Known
<1>4. \A m \in Nodes : \A id : m # n \/ id # id0 => Waiting(m, id)' = Waiting(m, id)
    BY RequestSlots
<1>5. ASSUME NEW m \in Nodes, NEW id, m # n \/ id # id0
      PROVE  /\ \A v, w \in Waiting(m, id)' : v = w
             /\ ~Known(m, id)' => Of(relays, m, id) = {} /\ Waiting(m, id)' = {}
             /\ Known(m, id)' => Story(Of(relays, m, id), Waiting(m, id)', seenReq'[m][id])
    BY <1>3, <1>4, <1>5, SMTT(15) DEF RelaysOK
<1>6. /\ \A v, w \in W : v = w
      /\ ~Known(n, id0) => R = {} /\ W = {}
      /\ Known(n, id0) => Story(R, W, s) /\ s \in Entry
    BY DEF RelaysOK, SeenOK, Known
<1>7. (\A v, w \in X : v = w) /\ Story(R, X, g)
    <2>1. CASE Kept(n, id0, g) /\ rreq_duplicate(n, x)
        <3>1. /\ \A y \in X : \E w \in W : y.f = w.f
              /\ \A v, w \in X : v = w
            BY <1>6, <2>1, RequestSlots
        <3> HIDE DEF X, W, R, s
        <3> QED BY <1>6, <2>1, <3>1, StoryKept, SMTT(15) DEF Kept, s
    <2>2. CASE Renewed(n, id0, g, cost) /\ (rreq_answer(n, x) \/ rreq_relay(n, x))
        <3>1. X = W \/ \E y : X = {y} /\ y.f.cost = cost
            BY <2>2, RequestSlots, SMTT(15) DEF Waiting
        <3>2. g.best = cost
            BY <2>2 DEF Renewed
        <3>3. X = W \/ \A y \in X : y.f.cost = g.best
            BY <3>1, <3>2
        <3>4. \A v, w \in X : v = w
            BY <1>6, <3>1
        <3>5. CASE ~Known(n, id0)
            <4>1. R = {} /\ \A y \in X : y.f.cost = g.best
                BY <1>6, <3>3, <3>5
            <4> HIDE DEF X, R
            <4> QED BY <3>4, <4>1, StoryBegins
        <3>6. CASE Known(n, id0)
            <4>1. s.relays = 1 /\ g.relays = 2 /\ MuchBetter(g.best, s.best)
                BY <2>2, <3>2, <3>6 DEF Renewed
            <4> HIDE DEF X, W, R, s
            <4> QED BY <1>6, <3>3, <3>4, <3>6, <4>1, StoryRenewed
        <3> QED BY <3>5, <3>6
    <2> QED BY <1>2, <2>1, <2>2
<1>8. ASSUME NEW m \in Nodes, NEW id
      PROVE  /\ \A v, w \in Waiting(m, id)' : v = w
             /\ ~Known(m, id)' => Of(relays, m, id) = {} /\ Waiting(m, id)' = {}
             /\ Known(m, id)' => Story(Of(relays, m, id), Waiting(m, id)', seenReq'[m][id])
    <2>1. CASE m = n /\ id = id0
        BY <1>3, <1>7, <2>1
    <2> QED BY <1>5, <2>1
<1> QED BY <1>1, <1>8 DEF RelaysOK

LEMMA RelaysInSlot ==
    ASSUME NamesInv, SeenOK, RelaysOK, NEW n \in Nodes, relay_due(n)
    PROVE  RelaysOK'
<1>1. PICK r \in sched[n] :
          /\ sched' = [sched EXCEPT ![n] = @ \ {r}]
          /\ \/ relays' = relays
             \/ relays' = relays \cup {[by |-> n, id |-> r.f.id, nth |-> Cardinality(Of(relays, n, r.f.id)) + 1,
                                        cost |-> r.f.cost]}
          /\ UNCHANGED seenReq
    BY DEF relay_due
<1> DEFINE id0 == r.f.id
           R == Of(relays, n, id0)
           g == [by |-> n, id |-> id0, nth |-> Cardinality(R) + 1, cost |-> r.f.cost]
           s == seenReq[n][id0]
<1>2. g.by = n /\ g.id = id0 /\ g.nth = Cardinality(R) + 1 /\ g.cost = r.f.cost
    OBVIOUS
<1>3. relays' = relays \/ relays' = relays \cup {g}
    BY <1>1
<1> HIDE DEF g
<1>4. /\ sched'[n] = sched[n] \ {r}
      /\ \A m \in Nodes : m # n => sched'[m] = sched[m]
    BY <1>1 DEF NamesInv, SchedOK
<1>5. ASSUME NEW m \in Nodes, NEW id, m # n \/ id # id0
      PROVE  Waiting(m, id)' = Waiting(m, id) /\ Of(relays', m, id) = Of(relays, m, id)
    BY <1>2, <1>3, <1>4, <1>5 DEF Waiting, Of
<1>6. Waiting(n, id0) = {r}
    BY DEF RelaysOK, Waiting
<1>7. Waiting(n, id0)' = {}
    BY <1>4, <1>6 DEF Waiting
<1>8. Known(n, id0) /\ Story(R, {r}, s)
    BY <1>6, SMTT(15) DEF RelaysOK
<1>9. Of(relays', n, id0) = R \/ Of(relays', n, id0) = R \cup {g}
    BY <1>2, <1>3 DEF Of
<1>10. Story(Of(relays', n, id0), {}, s)
    <2> HIDE DEF R, s
    <2>1. Story(R, {}, s) /\ Story(R \cup {g}, {}, s)
        BY <1>2, <1>8, StorySent
    <2> QED BY <1>9, <2>1
<1>11. ASSUME NEW m \in Nodes, NEW id
       PROVE  /\ \A v, w \in Waiting(m, id)' : v = w
              /\ ~Known(m, id)' => Of(relays', m, id) = {} /\ Waiting(m, id)' = {}
              /\ Known(m, id)' => Story(Of(relays', m, id), Waiting(m, id)', seenReq'[m][id])
    <2>1. CASE m = n /\ id = id0
        BY <1>1, <1>7, <1>8, <1>10, <2>1 DEF Known
    <2>2. CASE m # n \/ id # id0
        BY <1>1, <1>5, <2>2, SMTT(15) DEF Known, RelaysOK
    <2> QED BY <2>1, <2>2
<1>12. \A e \in relays' : e.by \in Nodes
    BY <1>2, <1>3 DEF RelaysOK
<1> QED BY <1>11, <1>12 DEF RelaysOK

LEMMA RelaysStep == NamesInv /\ SeenOK /\ RelaysOK /\ [Next]_vars => RelaysOK'
<1> SUFFICES ASSUME NamesInv, SeenOK, RelaysOK, [Next]_vars PROVE RelaysOK'
    OBVIOUS
<1>1. CASE UNCHANGED <<seenReq, sched, relays, answers>>
    BY <1>1, ZenonT(40) DEF RelaysOK, Waiting, Known
<1> QED BY <1>1, RelaysInRequest, RelaysInSlot, OnlyRequests

LEMMA RelaysShown == RelaysOK => RelaysImprove
<1> SUFFICES ASSUME RelaysOK, NEW r \in relays
             PROVE  r.nth <= 2 /\ \A e \in Of(relays, r.by, r.id) : r.nth < e.nth => MuchBetter(e.cost, r.cost)
    BY DEF RelaysImprove
<1> DEFINE R == Of(relays, r.by, r.id)
<1>1. r \in R /\ r.by \in Nodes
    BY DEF Of, RelaysOK
<1>2. \E W, s : Story(R, W, s)
    BY <1>1 DEF RelaysOK
<1> HIDE DEF R
<1>3. CASE \E e : R = {e} /\ e.nth = 1
    BY <1>1, <1>3, SMTT(15) DEF R
<1>4. CASE \E e, g : R = {e, g} /\ e.nth = 1 /\ g.nth = 2 /\ MuchBetter(g.cost, e.cost)
    BY <1>1, <1>4, SMTT(15) DEF R
<1> QED BY <1>1, <1>2, <1>3, <1>4 DEF Story

\* For every network and every order of copies, slots, overheard duplicates
\* and suppressed relays, a node relays a request at most twice, and the
\* second time at a cost at least 30 % below the first (observe_request, and
\* the scheduler that lets a cheaper copy take the place of a waiting one).
THEOREM RelaysImproveHolds == Spec => []RelaysImprove
<1>1. Init => SeenOK /\ RelaysOK
    BY SMTT(15) DEF Init, SeenOK, RelaysOK, Waiting, Known, Of
<1> QED BY <1>1, RelaysShown, NamesInitially, NamesStep, SeenStep, RelaysStep, PTL DEF Spec
=============================================================================
