--------------------------- MODULE RouteDiscovery ---------------------------
(***************************************************************************)
(* On-demand route discovery (meshstar-core zrp, routing, node): a node    *)
(* that has packets for a destination without a route floods a             *)
(* ROUTE_REQUEST with a growing TTL; the target, or a node with a fresh    *)
(* discovered route, answers with one ROUTE_REPLY that travels back along  *)
(* the reverse routes the request left behind.                             *)
(*                                                                         *)
(* The zone radius is 1 (a zone is the neighbourhood), every node relays   *)
(* and no target sleeps.  Link costs are those of link_cost in hundreds,   *)
(* without congestion.  Data packets leave the model when they are sent:   *)
(* HopForwarding follows them.  Time is abstract: timers expire at any     *)
(* moment; routes neither age nor expire.                                  *)
(***************************************************************************)
EXTENDS Naturals, Sequences, FiniteSets, FiniteSetsExt

CONSTANTS Nodes, Origin, Target,
          Networks,        \* link: costs, 0 is no link; flaky: <<n, m>> if n may lose neighbour m;
                           \* beacons: <<n, m>> if n hears beacons of m all along;
                           \* packets: the Handles the origin uses;
                           \* ids: bound, request ids of a node;
                           \* rings: DISCOVERY_TTL_STEPS, one per attempt
          MaxQueued,       \* max_queued_per_discovery
          Threshold,       \* counter_threshold of the storm protection
          MaxLosses,       \* bound: neighbours lost
          Handles,         \* bound: packets of the origin for the target
          None

BetterPercent == 70        \* better_cost_percent
Alternatives == 2          \* routes kept per destination
UnknownLink == 7           \* link_cost of the default quality 96
UnknownRelay == 4          \* cost when the transmitter is not known
DefaultTtl == 32           \* default_ttl

ASSUME DiscoveryAssumption == /\ Origin \in Nodes /\ Target \in Nodes /\ Origin # Target
                              /\ None \notin Nodes
                              /\ \A w \in Networks : /\ w.link \in [Nodes -> [Nodes -> Nat]]
                                                     /\ w.flaky \cup w.beacons \subseteq Nodes \X Nodes
                                                     /\ w.rings # <<>> /\ w.ids \in Nat
                              /\ MaxLosses \in Nat /\ MaxQueued \in Nat \ {0}

\* The entries of a history for n and request id.
Of(log, n, id) == {e \in log : e.by = n /\ e.id = id}

\* A table with v under the key k.
Put(table, k, v) == [x \in DOMAIN table \cup {k} |-> IF x = k THEN v ELSE table[x]]

VARIABLES net,        \* the network of this behaviour
          nbrs,       \* NeighborTable: the addresses n knows as neighbours
          routes,     \* RouteCache: routes[n][d], best first
          seenReq,    \* Ierp.seen_requests
          seen,       \* SeenCache, the unicast packets handled
          sched,      \* RebroadcastScheduler: requests waiting for their slot
          rrep,       \* PendingReplies
          disc,       \* Ierp.pending: disc[n][d]
          held,       \* Ierp.last_finished: no new discovery for d yet
          nextReq,    \* request ids used
          air,        \* copies on their way to a receiver
          fate,       \* of each packet of the origin
          relays,     \* history: costs of the relays n sent per request
          answers,    \* history: replies n scheduled per request
          losses,     \* history: neighbours lost so far
          repaired    \* history: packets of others parked behind a discovery

vars == <<net, nbrs, routes, seenReq, seen, sched, rrep, disc, held, nextReq, air, fate,
          relays, answers, losses, repaired>>
tables == <<net, nbrs, losses>>
history == <<relays, answers, repaired>>

link == net.link
TtlSteps == net.rings
Linked(n) == {m \in Nodes : link[n][m] > 0}

Source(f) == IF f.kind = "rreq" THEN f.id[1] ELSE f.from

\* What n transmits reaches any of the nodes in range, at any time or never.
\* The source drops copies of its own packets.
Copies(n, f) == {[to |-> m, tx |-> n, f |-> f] : m \in Linked(n) \ {Source(f)}}

-----------------------------------------------------------------------------
(* RouteCache                                                              *)

\* sort_by_key is stable.
ByCost(list) ==
    LET place(e, sorted) == SelectSeq(sorted, LAMBDA x : x.cost <= e.cost) \o <<e>>
                              \o SelectSeq(sorted, LAMBDA x : x.cost > e.cost)
    IN  MapThenFoldSet(place, <<>>, LAMBDA i : list[i], Max, DOMAIN list)

\* insert: a discovered route replaces the one through the same neighbour, any
\* other only if it is not dearer.
insert(list, e) ==
    IF \E i \in DOMAIN list : list[i].nh = e.nh
    THEN ByCost([i \in DOMAIN list |->
             IF list[i].nh = e.nh /\ (e.cost <= list[i].cost \/ e.source = "Discovery") THEN e ELSE list[i]])
    ELSE LET sorted == ByCost(Append(list, e))
         IN  SubSeq(sorted, 1, IF Len(sorted) > Alternatives THEN Alternatives ELSE Len(sorted))

\* learn_route at n into the table rt.
learn_route(rt, n, d, nh, hops, cost, source) ==
    IF d = n \/ nh = n THEN rt
    ELSE [rt EXCEPT ![n][d] = insert(@, [nh |-> nh, hops |-> hops, cost |-> cost, source |-> source])]

\* invalidate_via, and mark_failure until the route is gone.
Without(list, nh) == SelectSeq(list, LAMBDA e : e.nh # nh)

-----------------------------------------------------------------------------
(* Next hops                                                               *)

link_cost_to(n, m) == IF m \in nbrs[n] THEN link[n][m] ELSE UnknownLink

\* next_hop_for: the direct link, or the best cached route if it is cheaper
\* and its next hop is a neighbour or the destination itself.
next_hop_for(rt, n, d) ==
    LET best == IF rt[n][d] = <<>> THEN None ELSE rt[n][d][1]
        usable == best # None /\ (best.nh \in nbrs[n] \/ best.hops <= 1)
    IN  IF d \in nbrs[n] /\ ~(usable /\ best.cost < link[n][d] /\ link_cost_to(n, best.nh) < link[n][d])
        THEN d
        ELSE IF usable THEN best.nh ELSE None

\* The neighbour that transmitted f: the source itself, or the relay if the
\* table resolves its short id.
Prev(n, f) == IF f.hops = 0 \/ f.by \in nbrs[n] THEN f.by ELSE None

\* on_radio_rx: a route back to the source, guessed from the hop count, if
\* there is none.
GuessReverse_Always(n, f, src) ==
    LET pv == Prev(n, f)
    IN  IF pv = None THEN routes
        ELSE learn_route(routes, n, src, pv, f.hops + 1, (f.hops + 1) * link_cost_to(n, pv), "Reverse")
GuessReverse(n, f, src) ==
    LET pv == Prev(n, f)
    IN  IF pv # None /\ routes[n][src] = <<>> /\ src \notin nbrs[n]
        THEN learn_route(routes, n, src, pv, f.hops + 1, (f.hops + 1) * link_cost_to(n, pv), "Reverse")
        ELSE routes

ttl_for(rt, n, d) == IF d \in nbrs[n] THEN 2
                     ELSE IF rt[n][d] # <<>> THEN rt[n][d][1].hops + 4 ELSE DefaultTtl

-----------------------------------------------------------------------------
(* route_unicast: n routes packet p by the table rt; a is what is already   *)
(* on the air.                                                             *)

Sends(n, p, rt, a) ==
    /\ next_hop_for(rt, n, p.to) # None
    /\ air' = IF p.kind = "data" THEN a
              ELSE a \cup Copies(n, [p EXCEPT !.nh = next_hop_for(rt, n, p.to)])
    /\ UNCHANGED <<disc, nextReq>>

Finished(pending, d) == [e \in DOMAIN pending \ {d} |-> pending[e]]
Waits(n, d) == d \in DOMAIN disc[n]

\* Ierp.queue
Parks(n, p, rt, a) ==
    /\ next_hop_for(rt, n, p.to) = None
    /\ Waits(n, p.to)
    /\ Len(disc[n][p.to].queued) < MaxQueued
    /\ disc' = [disc EXCEPT ![n][p.to].queued = Append(@, p)]
    /\ air' = a
    /\ UNCHANGED nextReq

may_start(n, d) == ~Waits(n, d) /\ d \notin held[n]

Request(n, d, id, ttl) ==
    [kind |-> "rreq", id |-> id, target |-> d, by |-> n, hops |-> 0, ttl |-> ttl, cost |-> 0]

\* There are ids for every attempt.
IdsLeft(n) == nextReq[n] + Len(TtlSteps) <= net.ids

\* Ierp.start, queue and send_route_request.
Starts(n, p, rt, a) ==
    /\ next_hop_for(rt, n, p.to) = None
    /\ may_start(n, p.to)
    /\ IdsLeft(n)
    /\ LET id == <<n, nextReq[n] + 1>>
       IN  /\ disc' = [disc EXCEPT ![n] = Put(@, p.to, [attempt |-> 1, queued |-> <<p>>])]
           /\ air' = a \cup Copies(n, Request(n, p.to, id, TtlSteps[1]))
    /\ nextReq' = [nextReq EXCEPT ![n] = @ + 1]

\* Error::Full, or Error::NoRoute during the holdoff.
Refuses(n, p, rt, a) ==
    /\ next_hop_for(rt, n, p.to) = None
    /\ IF Waits(n, p.to) THEN Len(disc[n][p.to].queued) >= MaxQueued ELSE p.to \in held[n]
    /\ air' = a
    /\ UNCHANGED <<disc, nextReq>>

Data(h) == [kind |-> "data", to |-> Target, h |-> h]

\* The origin has a packet for the target.
route_unicast(h) ==
    /\ fate[h] = "new" /\ h \in net.packets
    /\ \/ Sends(Origin, Data(h), routes, air) /\ fate' = [fate EXCEPT ![h] = "sent"]
       \/ Parks(Origin, Data(h), routes, air) /\ fate' = [fate EXCEPT ![h] = "queued"]
       \/ Starts(Origin, Data(h), routes, air) /\ fate' = [fate EXCEPT ![h] = "queued"]
       \/ Refuses(Origin, Data(h), routes, air) /\ fate' = [fate EXCEPT ![h] = "refused"]
    /\ UNCHANGED <<tables, routes, seenReq, seen, sched, rrep, held, history>>

-----------------------------------------------------------------------------
(* ROUTE_REQUEST                                                           *)

RequestCost(n, f) ==
    f.cost + (IF Prev(n, f) = None THEN UnknownRelay ELSE link_cost_to(n, Prev(n, f)))

MuchBetter(cost, best) == cost * 100 < best * BetterPercent

\* observe_request: the first copy, or a much cheaper one for the second time.
Fresh_AnyCopy(n, id, cost) ==
    id \in DOMAIN seenReq[n] => seenReq[n][id].relays < 2
Fresh(n, id, cost) ==
    id \in DOMAIN seenReq[n] =>
        MuchBetter(cost, seenReq[n][id].best) /\ seenReq[n][id].relays < 2

\* The request table after a copy that is processed.
Observed(n, id, cost) ==
    IF id \in DOMAIN seenReq[n] THEN [seenReq[n][id] EXCEPT !.best = cost, !.relays = @ + 1]
    ELSE [best |-> cost, relays |-> 1, replied |-> FALSE]

\* The route back to the origin of a request that is processed.
RoutesAfter(n, f) ==
    LET rt == GuessReverse(n, f, f.id[1])
    IN  IF Prev(n, f) = None THEN rt
        ELSE learn_route(rt, n, f.id[1], Prev(n, f), f.hops + 1, RequestCost(n, f), "Reverse")

\* A copy that brings nothing counts against the relay waiting for its slot.
rreq_duplicate(n, x) ==
    LET f == x.f
        cost == RequestCost(n, f)
    IN  /\ ~Fresh(n, f.id, cost)
        /\ seenReq' = [seenReq EXCEPT ![n][f.id].best = IF cost < @ THEN cost ELSE @]
        /\ sched' = [sched EXCEPT ![n] = {IF r.f.id = f.id THEN [r EXCEPT !.heard = IF @ < Threshold THEN @ + 1 ELSE @] ELSE r : r \in @}]
        /\ routes' = GuessReverse(n, f, f.id[1])
        /\ air' = air \ {x}
        /\ UNCHANGED <<tables, seen, rrep, disc, held, nextReq, fate, history>>

\* What n may answer: it is the target, or it found a route not long ago.
Answers(n, f, rt) ==
    IF n = f.target THEN {[h2t |-> 0, cost |-> 0]}
    ELSE {[h2t |-> r.hops, cost |-> r.cost] :
             r \in {e \in Range(rt[n][f.target]) : e = Head(rt[n][f.target]) /\ e.source = "Discovery"}}

\* send_route_reply: once per request, and only if there is a way back.
mark_replied_Always(n, f) == TRUE
mark_replied(n, f) == f.id \in DOMAIN seenReq[n] => ~seenReq[n][f.id].replied

rreq_answer(n, x) ==
    LET f == x.f
        s == Observed(n, f.id, RequestCost(n, f))
        rt == RoutesAfter(n, f)
        replies == next_hop_for(rt, n, f.id[1]) # None /\ mark_replied(n, f)
    IN  /\ Fresh(n, f.id, RequestCost(n, f))
        /\ routes' = rt
        /\ \E a \in Answers(n, f, rt) :
             LET p == [kind |-> "rrep", from |-> n, to |-> f.id[1], id |-> f.id, target |-> f.target,
                       by |-> n, nh |-> n, hops |-> 0, ttl |-> ttl_for(rt, n, f.id[1]),
                       h2t |-> a.h2t, cost |-> a.cost]
             IN  rrep' = [rrep EXCEPT ![n] = IF replies THEN @ \cup {p} ELSE @]
        /\ seenReq' = [seenReq EXCEPT ![n] = Put(@, f.id, [s EXCEPT !.replied = @ \/ replies])]
        /\ answers' = IF replies
                      THEN answers \cup {[by |-> n, id |-> f.id, nth |-> Cardinality(Of(answers, n, f.id)) + 1]}
                      ELSE answers
        /\ air' = air \ {x}
        /\ UNCHANGED <<tables, seen, sched, disc, held, nextReq, fate, relays, repaired>>

\* No answer: the copy waits for its slot in place of an earlier one, or is
\* suppressed (coverage, density).  A cached route may be too old to answer.
rreq_relay(n, x) ==
    LET f == x.f
        cost == RequestCost(n, f)
        waiting == {r \in sched[n] : r.f.id = f.id}
        copy == [f |-> [f EXCEPT !.by = n, !.hops = @ + 1, !.ttl = @ - 1, !.cost = cost], heard |-> 1]
    IN  /\ Fresh(n, f.id, cost)
        /\ n # f.target
        /\ routes' = RoutesAfter(n, f)
        /\ seenReq' = [seenReq EXCEPT ![n] = Put(@, f.id, Observed(n, f.id, cost))]
        /\ sched' \in {sched} \cup
             (IF f.ttl > 1 THEN {[sched EXCEPT ![n] = (@ \ waiting) \cup {copy}]} ELSE {})
        /\ air' = air \ {x}
        /\ UNCHANGED <<tables, seen, rrep, disc, held, nextReq, fate, history>>

handle_route_request(n, x) ==
    /\ x.f.kind = "rreq"
    /\ rreq_duplicate(n, x) \/ rreq_answer(n, x) \/ rreq_relay(n, x)

\* poll: the slot of a relay arrived; heard too often, it is cancelled.
relay_due(n) ==
    \E r \in sched[n] :
        /\ sched' = [sched EXCEPT ![n] = @ \ {r}]
        /\ IF r.heard < Threshold
           THEN /\ air' = air \cup Copies(n, r.f)
                /\ relays' = relays \cup {[by |-> n, id |-> r.f.id, nth |-> Cardinality(Of(relays, n, r.f.id)) + 1,
                                        cost |-> r.f.cost]}
           ELSE UNCHANGED <<air, relays>>
        /\ UNCHANGED <<tables, routes, seenReq, seen, rrep, disc, held, nextReq, fate, answers, repaired>>

-----------------------------------------------------------------------------
(* Unicast of others                                                       *)

Key(p) == <<p.kind, p.from, p.id>>

\* send_route_error, dropped if there is no way to the source of p.
send_route_error(n, p, rt, a) ==
    LET nh == next_hop_for(rt, n, p.from)
        e == [kind |-> "rerr", from |-> n, to |-> p.from, id |-> p.id, target |-> p.to, by |-> n,
              nh |-> nh, hops |-> 0, ttl |-> ttl_for(rt, n, p.from), h2t |-> 0, cost |-> 0]
    IN  /\ air' = IF nh = None THEN a ELSE a \cup Copies(n, e)
        /\ UNCHANGED <<disc, nextReq, repaired>>

\* Route repair on behalf of the source: p waits as it came in.
repair(n, p, rt, a) ==
    /\ Parks(n, p, rt, a) \/ Starts(n, p, rt, a)
    /\ repaired' = repaired \cup {<<n, Key(p)>>}

\* The header of a packet that goes on.
Onward_SameRelay(n, p) == [p EXCEPT !.hops = @ + 1, !.ttl = @ - 1]
Onward(n, p) == [p EXCEPT !.by = n, !.hops = @ + 1, !.ttl = @ - 1]

forward_unicast(n, p, rt, a) ==
    LET nh == next_hop_for(rt, n, p.to)
    IN  \/ /\ p.nh # n \/ p.ttl <= 1
           /\ routes' = rt /\ air' = a
           /\ UNCHANGED <<disc, nextReq, repaired>>
        \/ /\ p.nh = n /\ p.ttl > 1
           /\ nh # None /\ nh = Prev(n, p)          \* loop detected
           /\ routes' = [rt EXCEPT ![n][p.to] = Without(@, nh)]
           /\ send_route_error(n, p, routes', a)
        \/ /\ p.nh = n /\ p.ttl > 1
           /\ nh # Prev(n, p)
           /\ routes' = rt
           /\ Sends(n, Onward(n, p), rt, a)
           /\ UNCHANGED repaired
        \/ /\ p.nh = n /\ p.ttl > 1
           /\ routes' = rt
           /\ repair(n, p, rt, a)
        \/ /\ p.nh = n /\ p.ttl > 1 /\ nh = None
           /\ routes' = rt
           /\ IF Waits(n, p.to)
              THEN Refuses(n, p, rt, a) /\ UNCHANGED repaired
              ELSE p.to \in held[n] /\ send_route_error(n, p, rt, a)

\* absorb_route_reply: also from replies that are only overheard.
absorb_route_reply(rt, n, p) ==
    LET via == IF Prev(n, p) = None THEN p.from ELSE Prev(n, p)
    IN  learn_route(rt, n, p.target, via, p.h2t + p.hops + 1, p.cost + link_cost_to(n, via), "Discovery")

\* Ierp.succeed, and route_unicast of everything that waited; its error, the
\* holdoff that has just begun, is ignored.
handle_route_reply(n, p, a) ==
    LET rt == absorb_route_reply(GuessReverse(n, p, p.from), n, p)
        nh == next_hop_for(rt, n, p.target)
        queued == IF Waits(n, p.target) THEN Range(disc[n][p.target].queued) ELSE {}
        sent == {q \in queued : q.kind # "data" /\ nh # None}
    IN  /\ p.to = n
        /\ routes' = rt
        /\ disc' = [disc EXCEPT ![n] = Finished(@, p.target)]
        /\ held' = [held EXCEPT ![n] = @ \cup {p.target}]
        /\ air' = a \cup UNION {Copies(n, [q EXCEPT !.nh = nh]) : q \in sent}
        /\ fate' = [h \in Handles |-> IF Data(h) \notin queued THEN fate[h]
                                       ELSE IF nh # None THEN "sent" ELSE "dropped"]
        /\ UNCHANGED <<nextReq, repaired>>

forward_route_reply(n, p, a) ==
    LET rt == absorb_route_reply(GuessReverse(n, p, p.from), n, p)
        r == [p EXCEPT !.cost = @ + link_cost_to(n, IF Prev(n, p) = None THEN p.from ELSE Prev(n, p))]
    IN  /\ p.to # n
        /\ forward_unicast(n, r, rt, a)
        /\ UNCHANGED <<held, fate>>

\* The route that the error names is marked failed until it is removed.
handle_route_error(n, p, a) ==
    LET via == IF Prev(n, p) = None THEN p.from ELSE Prev(n, p)
    IN  /\ p.to = n
        /\ routes' = [GuessReverse(n, p, p.from) EXCEPT ![n][p.target] = Without(@, via)]
        /\ air' = a
        /\ UNCHANGED <<disc, held, nextReq, fate, repaired>>

forward_route_error(n, p, a) ==
    /\ p.to # n
    /\ forward_unicast(n, p, GuessReverse(n, p, p.from), a)
    /\ UNCHANGED <<held, fate>>

\* PendingReplies.heard: a reply at least as good cancels ours.
Unsuppressed(n, p) == {q \in rrep[n] : ~(q.to = p.to /\ q.id = p.id /\ q.cost >= p.cost)}

\* The copies that n has not seen: others are dropped as duplicates.
NotSeen(n, x) == {y \in air : ~(y.to = n /\ y.f.kind = x.f.kind /\ Key(y.f) = Key(x.f))}

rx_unicast(n, x) ==
    /\ x.f.kind # "rreq"
    /\ Key(x.f) \notin seen[n]
    /\ seen' = [seen EXCEPT ![n] = @ \cup {Key(x.f)}]
    /\ \/ /\ x.f.kind = "rrep"
          /\ rrep' = [rrep EXCEPT ![n] = Unsuppressed(n, x.f)]
          /\ handle_route_reply(n, x.f, NotSeen(n, x)) \/ forward_route_reply(n, x.f, NotSeen(n, x))
       \/ /\ x.f.kind = "rerr"
          /\ handle_route_error(n, x.f, NotSeen(n, x)) \/ forward_route_error(n, x.f, NotSeen(n, x))
          /\ UNCHANGED rrep
    /\ UNCHANGED <<tables, seenReq, sched, relays, answers>>

on_radio_rx(n) ==
    \E x \in {y \in air : y.to = n} :
        handle_route_request(n, x) \/ rx_unicast(n, x)

-----------------------------------------------------------------------------
(* poll and housekeeping                                                   *)

\* A staggered reply is due.
reply_due(n) ==
    \E p \in rrep[n] :
        /\ rrep' = [rrep EXCEPT ![n] = @ \ {p}]
        /\ Sends(n, p, routes, air) \/ Parks(n, p, routes, air)
             \/ Starts(n, p, routes, air) \/ Refuses(n, p, routes, air)
        /\ UNCHANGED <<tables, routes, seenReq, seen, sched, held, fate, history>>

\* Ierp.tick: the next ring.
tick_retry(n, d) ==
    /\ Waits(n, d)
    /\ disc[n][d].attempt < Len(TtlSteps)
    /\ disc' = [disc EXCEPT ![n][d].attempt = @ + 1]
    /\ nextReq' = [nextReq EXCEPT ![n] = @ + 1]
    /\ air' = air \cup Copies(n, Request(n, d, <<n, nextReq[n] + 1>>, TtlSteps[disc[n][d].attempt + 1]))
    /\ UNCHANGED <<tables, routes, seenReq, seen, sched, rrep, held, fate, history>>

\* The last ring brought no reply: on_discovery_failed drops what waited.
tick_fail_OffByOne(n, d) ==
    /\ Waits(n, d)
    /\ disc[n][d].attempt > Len(TtlSteps)
    /\ disc' = [disc EXCEPT ![n] = Finished(@, d)]
    /\ held' = [held EXCEPT ![n] = @ \cup {d}]
    /\ fate' = [h \in Handles |-> IF Data(h) \in Range(disc[n][d].queued) THEN "failed" ELSE fate[h]]
    /\ UNCHANGED <<tables, routes, seenReq, seen, sched, rrep, nextReq, air, history>>
tick_fail(n, d) ==
    /\ Waits(n, d)
    /\ disc[n][d].attempt = Len(TtlSteps)
    /\ disc' = [disc EXCEPT ![n] = Finished(@, d)]
    /\ held' = [held EXCEPT ![n] = @ \cup {d}]
    /\ fate' = [h \in Handles |-> IF Data(h) \in Range(disc[n][d].queued) THEN "failed" ELSE fate[h]]
    /\ UNCHANGED <<tables, routes, seenReq, seen, sched, rrep, nextReq, air, history>>

\* discovery_holdoff_ms have passed; no matter if n cannot start another.
holdoff_over(n, d) ==
    /\ d \in held[n]
    /\ IdsLeft(n)
    /\ held' = [held EXCEPT ![n] = @ \ {d}]
    /\ UNCHANGED <<tables, routes, seenReq, seen, sched, rrep, disc, nextReq, air, fate, history>>

\* on_neighbor_lost
on_neighbor_lost(n, m) ==
    /\ m \in nbrs[n]
    /\ losses < MaxLosses
    /\ nbrs' = [nbrs EXCEPT ![n] = @ \ {m}]
    /\ routes' = [routes EXCEPT ![n] = [d \in Nodes |-> Without(@[d], m)]]
    /\ losses' = losses + 1
    /\ UNCHANGED <<net, seenReq, seen, sched, rrep, disc, held, nextReq, air, fate, history>>

\* A beacon of a neighbour, old or new.
handle_beacon(n, m) ==
    /\ m \in Linked(n)
    /\ nbrs' = [nbrs EXCEPT ![n] = @ \cup {m}]
    /\ routes' = learn_route(routes, n, m, m, 1, link[n][m], "Zone")
    /\ UNCHANGED <<net, losses, seenReq, seen, sched, rrep, disc, held, nextReq, air, fate, history>>

-----------------------------------------------------------------------------
\* Beacons have made the neighbours known; nothing was sent yet.
Init ==
    /\ net \in Networks
    /\ nbrs = [n \in Nodes |-> Linked(n)]
    /\ routes = [n \in Nodes |-> [d \in Nodes |->
                   IF link[n][d] > 0 THEN <<[nh |-> d, hops |-> 1, cost |-> link[n][d], source |-> "Zone"]>>
                   ELSE <<>>]]
    /\ seenReq = [n \in Nodes |-> <<>>]
    /\ seen = [n \in Nodes |-> {}]
    /\ sched = [n \in Nodes |-> {}]
    /\ rrep = [n \in Nodes |-> {}]
    /\ disc = [n \in Nodes |-> <<>>]
    /\ held = [n \in Nodes |-> {}]
    /\ nextReq = [n \in Nodes |-> 0]
    /\ air = {}
    /\ fate = [h \in Handles |-> "new"]
    /\ relays = {}
    /\ answers = {}
    /\ losses = 0
    /\ repaired = {}

tick(n, d) == tick_retry(n, d) \/ tick_fail(n, d)

Next == \/ \E h \in Handles : route_unicast(h)
        \/ \E n \in Nodes : on_radio_rx(n) \/ relay_due(n) \/ reply_due(n)
        \/ \E n, d \in Nodes : tick(n, d) \/ holdoff_over(n, d)
        \/ \E nm \in net.flaky : on_neighbor_lost(nm[1], nm[2])
        \/ \E nm \in net.beacons : handle_beacon(nm[1], nm[2])

\* The platform keeps calling poll, so a discovery's deadline comes.
Fairness == WF_vars(tick(Origin, Target))

Spec == Init /\ [][Next]_vars /\ Fairness

-----------------------------------------------------------------------------
(* Properties                                                              *)

\* A node relays a request at most twice, and the second time at a cost at
\* least 30 % below the first (observe_request and the scheduler that replaces
\* a waiting copy).
RelaysImprove ==
    /\ \A r \in relays : r.nth <= 2
    /\ \A r \in relays : \A e \in Of(relays, r.by, r.id) :
           r.nth < e.nth => MuchBetter(e.cost, r.cost)

\* A node answers a request once, however many cheaper copies reach it later
\* (mark_replied).
AnsweredOnce == \A r \in answers : r.nth = 1

\* Where the next hops lead from n towards d.
Follow(n, d) ==
    LET hop[k \in 0..Cardinality(Nodes)] ==
            IF k = 0 THEN n
            ELSE IF hop[k - 1] \in {d, None} THEN hop[k - 1]
            ELSE next_hop_for(routes, hop[k - 1], d)
    IN  hop[Cardinality(Nodes)]

\* As long as no neighbour is lost, following the next hops from a node that
\* has a route arrives: measured, guessed and discovered costs never form a loop.
RoutesArrive ==
    losses = 0 => \A n, d \in Nodes : next_hop_for(routes, n, d) # None => Follow(n, d) = d

\* A copy names its transmitter in the relay field, except when it was parked
\* for a repair (route_unicast then sends it as it came in).
OnlyRepairsMisname ==
    \A x \in air : x.f.by # x.tx => <<x.tx, Key(x.f)>> \in repaired

\* Every packet that waits for a route leaves the queue, sent or failed: a
\* discovery has a last ring and its deadline comes (Ierp::tick).
QueuedEnds == \A h \in Handles : fate[h] = "queued" ~> fate[h] # "queued"

=============================================================================
