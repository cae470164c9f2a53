------------------------------- MODULE Relay -------------------------------
(***************************************************************************)
(* The relay-only engine (meshstar-core/src/relay/mod.rs) with the seen    *)
(* cache and the rebroadcast scheduler of storm/mod.rs: one relay, its     *)
(* neighbours, and the frames they send it.                                *)
(*                                                                         *)
(* The relay is one record, r, and a handler is an operator from a relay   *)
(* to the set of relays it may leave: more than one where link costs, the  *)
(* density roll or the clock decide.  A timer elapses at any moment.       *)
(* Signatures, statistics, airtime and the wording of frames are left out; *)
(* routes hold one next hop per destination (alternatives: 1).             *)
(***************************************************************************)
EXTENDS Naturals, Sequences, SequencesExt, FiniteSets

CONSTANTS Me,                 \* the relay's address
          Neighbours,         \* the nodes in range
          Leaves,             \* those of them that sleep and have Me as host
          Adverts,            \* per neighbour: what its beacons advertise
          Remote,             \* destinations out of range
          Scenarios,          \* met: neighbours known at first; frames: what they send; bounds:
                              \* rx, how many arrive; beacons of ours; losses of neighbours and routes
          SeenSize,           \* storm.seen_cache_size
          MaxPending,         \* storm.max_pending
          CounterThreshold,   \* storm.counter_threshold
          DensityThreshold,   \* storm.density_threshold
          HopRetries, MaxHopPending, MaxTxQueue, MaxHeld,
          MaxRepairs,         \* zrp.max_pending_discoveries
          MaxQueued,          \* zrp.max_queued_per_discovery
          Attempts,           \* zrp.discovery_attempts
          MaxNeighbours,      \* neighbor.max_neighbors
          LinkCost,           \* link_cost_to a neighbour
          Broadcast, None

Nodes == Neighbours \cup Remote

ASSUME RelayAssumption ==
    /\ IsFiniteSet(Nodes) /\ Me \notin Nodes
    /\ Broadcast \notin Nodes \cup {Me} /\ None \notin Nodes \cup {Me, Broadcast}
    /\ Leaves \subseteq Neighbours /\ Adverts \in [Neighbours -> SUBSET Nodes]
    /\ {SeenSize, MaxPending, MaxTxQueue, HopRetries, Attempts,
        MaxNeighbours} \subseteq Nat \ {0}
    /\ {MaxHopPending, MaxHeld, MaxRepairs, MaxQueued, CounterThreshold, DensityThreshold,
        LinkCost} \subseteq Nat

VARIABLES r,        \* the relay
          air,      \* the scenario, with what is left of its bounds
          echo      \* their answers to the relay's own transmissions

vars == <<r, air, echo>>

Key(p) == <<p.src, p.id>>
SeenKeys(x) == ToSet(x.seen)

-----------------------------------------------------------------------------
(* storm/mod.rs                                                            *)

\* SeenCache::observe of a new key: the first one in is the first one out.
observe(x, key) ==
    LET room == IF Len(x.seen) >= SeenSize THEN Tail(x.seen) ELSE x.seen
    IN  [x EXCEPT !.seen = Append(room, key)]

\* RebroadcastScheduler::schedule, refused when it is full.
schedule(x, p) ==
    IF Len(x.sched) >= MaxPending THEN x
    ELSE [x EXCEPT !.sched = Append(@, [p |-> p, heard |-> 1])]

\* heard: the first entry of the key counts, up to the threshold; past it a
\* count means the same.
heard(x, key) ==
    LET first(i) == Key(x.sched[i].p) = key /\ \A j \in 1 .. i - 1 : Key(x.sched[j].p) # key
    IN  [x EXCEPT !.sched = [i \in DOMAIN @ |->
            IF first(i) /\ @[i].heard < CounterThreshold THEN [@[i] EXCEPT !.heard = @ + 1] ELSE @[i]]]

cancel(x, key) == [x EXCEPT !.sched = SelectSeq(@, LAMBDA e : Key(e.p) # key)]

-----------------------------------------------------------------------------
(* Neighbours and routes                                                   *)

Known(x) == {n \in Neighbours : x.nb[n] # "unknown"}
Sleeping(x, n) == x.nb[n] = "asleep"

\* Frames of the first hop name their source, others their relay.
Prev(x, f) == IF f.hops = 0 THEN f.src ELSE IF f.by \in Known(x) THEN f.by ELSE None

\* observe_packet: heard itself, a leaf is awake for a moment.
observe_packet(x, n) ==
    IF n \in Known(x) THEN [x EXCEPT !.nb[n] = "awake"] ELSE x

\* observe_beacon_as: into a full table by displacing a poor link, if there is
\* one; what was learned through that link stays.
observe_beacon_as(x, n) ==
    LET met(y) == [y EXCEPT !.nb[n] = "awake"]
    IN  IF n \in Known(x) \/ Cardinality(Known(x)) < MaxNeighbours THEN {met(x)}
        ELSE {x} \cup {met([x EXCEPT !.nb[m] = "unknown"]) : m \in Known(x)}

\* update_from_beacon: the zone takes up what a neighbour advertises.
update_from_beacon(x, n) == IF n \in Known(x) THEN [x EXCEPT !.zone = @ \cup {n}] ELSE x

\* learn_route: costs decide whether the route known is replaced.
learn_route(x, d, nh, hops) ==
    LET learned == [x EXCEPT !.routes[d] = [nh |-> nh, direct |-> hops <= 1]]
    IN  IF d \in {Me, Broadcast} \/ nh = Me THEN {x}
        ELSE IF x.routes[d] = None THEN {learned} ELSE {x, learned}

\* next_hop_for: the neighbour itself, the zone or the route cache; costs
\* choose among what there is.
NextHops(x, d) ==
    {n \in Known(x) : n = d /\ ~Sleeping(x, n)}
      \cup {n \in x.zone \cap Known(x) : d = n \/ d \in Adverts[n]}
      \cup (IF x.routes[d] = None THEN {}
            ELSE {n \in {x.routes[d].nh} : n \in Known(x) \/ x.routes[d].direct})

\* mark_failure, until the route is gone or not yet.
Without(x, d, nh) == IF x.routes[d] # None /\ x.routes[d].nh = nh THEN [x EXCEPT !.routes[d] = None] ELSE x

\* invalidate_via
WithoutVia(x, n) ==
    [x EXCEPT !.routes = [d \in Nodes |-> IF @[d] # None /\ @[d].nh = n THEN None ELSE @[d]]]

\* covered_by: every other relaying neighbour is advertised by n.
covered_by(x, n) ==
    /\ n \in x.zone
    /\ \A m \in Known(x) \ (Leaves \cup {n}) : m \in Adverts[n]

-----------------------------------------------------------------------------
(* The transmit queue and hop-by-hop reliability                           *)

CONTROL == 0
DATA == 1
BEACON == 2
RELAY == 3

\* The last of the relayed frames with the largest priority number.
Victim(q) ==
    CHOOSE i \in DOMAIN q :
        /\ q[i].relay
        /\ \A j \in DOMAIN q : q[j].relay => q[j].prio <= q[i].prio
        /\ \A j \in DOMAIN q : q[j].relay /\ j > i => q[j].prio < q[i].prio

\* enqueue: a full queue makes room at the expense of a relayed frame; later
\* says that a jitter delays the frame.
enqueue(x, p, prio, relay, later) ==
    LET item == [p |-> p, prio |-> prio, relay |-> relay, later |-> later]
    IN  IF Len(x.q) < MaxTxQueue THEN [x EXCEPT !.q = Append(@, item)]
        ELSE IF \E i \in DOMAIN x.q : x.q[i].relay
             THEN [x EXCEPT !.q = Append(RemoveAt(@, Victim(@)), item)]
             ELSE x

\* track_hop: nothing is tracked when the table is full.
track_hop_Twice(x, p, nh, rerouted) ==    \* mutant: an older entry stays
    IF Len(x.hop) >= MaxHopPending THEN x
    ELSE [x EXCEPT !.hop = Append(@, [p |-> p, nh |-> nh, attempts |-> 1, rerouted |-> rerouted])]
track_hop(x, p, nh, rerouted) ==
    IF Len(x.hop) >= MaxHopPending THEN x
    ELSE [x EXCEPT !.hop = Append(SelectSeq(@, LAMBDA h : Key(h.p) # Key(p)),
                                  [p |-> p, nh |-> nh, attempts |-> 1, rerouted |-> rerouted])]

hop_confirmed(x, key, from) ==
    [x EXCEPT !.hop = SelectSeq(@, LAMBDA h : ~(Key(h.p) = key /\ h.nh = from))]

\* base_header: a packet of the relay's own.
Own(x, kind, dst, about) ==
    [kind |-> kind, src |-> Me, id |-> x.ids, dst |-> dst, nh |-> Broadcast, hops |-> 0, ttl |-> 2,
     about |-> about, cost |-> 0, by |-> Me]
NextId(x) == [x EXCEPT !.ids = @ + 1]

\* route_unicast, for errors, trace answers and packets that were waiting.
route_unicast(x, p) ==
    IF NextHops(x, p.dst) = {} THEN {x}
    ELSE {LET out == [p EXCEPT !.nh = nh, !.by = Me]
          IN  enqueue(track_hop(x, out, nh, FALSE), out, IF p.kind = "data" THEN DATA ELSE CONTROL, TRUE, FALSE) :
             nh \in NextHops(x, p.dst)}

\* Nobody asks for the id of a request, beacon or acknowledgement of ours.
Untracked(p) == [p EXCEPT !.id = None]

send_route_request(x, target) ==
    enqueue(x, Untracked(Own(x, "rreq", Broadcast, target)), BEACON, FALSE, FALSE)

send_route_error(x, to, unreachable) ==
    IF to = Me \/ NextHops(x, to) = {} THEN {x}
    ELSE route_unicast(NextId(x), Own(x, "rerr", to, unreachable))

send_link_ack(x, to, key) ==
    enqueue(x, [Untracked(Own(x, "ack", to, key)) EXCEPT !.nh = to, !.ttl = 1], CONTROL, FALSE, FALSE)

-----------------------------------------------------------------------------
(* on_radio_rx                                                             *)

RECURSIVE ReleaseAll(_, _)
ReleaseAll(x, waiting) ==
    IF waiting = <<>> THEN x
    ELSE LET p == [Head(waiting) EXCEPT !.nh = Head(waiting).dst, !.by = Me]
         IN  ReleaseAll(enqueue(track_hop(x, p, p.dst, FALSE), p, DATA, TRUE, FALSE), Tail(waiting))

\* handle_beacon: the sender is awake and has a direct route; what is held for
\* a leaf goes out.
handle_beacon(x, n) ==
    LET mine(p) == p.dst = n
        met == UNION {learn_route(update_from_beacon(y, n), n, n, 1) : y \in observe_beacon_as(x, n)}
    IN  {IF n \in Leaves
         THEN ReleaseAll([y EXCEPT !.held = SelectSeq(@, LAMBDA p : ~mine(p))], SelectSeq(y.held, mine))
         ELSE y : y \in met}

\* A flood goes on in its slot, unless its TTL, the coverage or the density
\* roll keep it; y is the relay that has made room for it.
Further(p) == [p EXCEPT !.ttl = @ - 1, !.hops = @ + 1, !.nh = Broadcast]

Flood(x, y, pv, p) ==
    IF p.ttl <= 1 \/ (pv # None /\ covered_by(x, pv)) THEN {x}
    ELSE {schedule(y, Further(p))} \cup (IF Cardinality(Known(x)) > DensityThreshold THEN {x} ELSE {})

maybe_relay_flood(x, pv, p) == Flood(x, x, pv, p)

\* Packets that wait for a route to d.
Repairing(x) == {d \in Nodes : x.rep[d] # None}
queue(x, d, p) ==
    IF Len(x.rep[d].queued) < MaxQueued THEN [x EXCEPT !.rep[d].queued = Append(@, p)] ELSE x

\* may_start and start; a destination repaired before may have to wait.
StartRepair(x, d, p) ==
    LET started == send_route_request([x EXCEPT !.rep[d] = [attempt |-> 0, queued |-> <<>>]], d)
    IN  IF Cardinality(Repairing(x)) >= MaxRepairs THEN send_route_error(x, p.src, d)
        ELSE {queue(started, d, p)} \cup
             (IF d \in x.finished THEN send_route_error(x, p.src, d) ELSE {})

forward_unicast(x, pv, p) ==
    IF p.nh \notin {Broadcast, Me} \/ p.ttl <= 1 THEN {x}
    ELSE IF p.dst \in Leaves /\ Sleeping(x, p.dst)
    THEN {IF Len(x.held) < MaxHeld THEN [x EXCEPT !.held = Append(@, p)] ELSE x}
    ELSE IF NextHops(x, p.dst) = {}
    THEN IF x.rep[p.dst] # None THEN {queue(x, p.dst, p)} ELSE StartRepair(x, p.dst, p)
    ELSE UNION {IF nh = pv                   \* the route leads back: a loop
                THEN send_route_error(Without(x, p.dst, nh), p.src, p.dst)
                ELSE LET out == [p EXCEPT !.ttl = @ - 1, !.hops = @ + 1, !.nh = nh, !.by = Me]
                     IN  {enqueue(track_hop(x, out, nh, FALSE), out, DATA, TRUE, TRUE)} :
                   nh \in NextHops(x, p.dst)}

\* Ierp::observe_request of a copy that costs cost here.
MuchBetter(cost, best) == cost * 100 < best * 70
NewRequest(x, p, cost) ==
    \/ Key(p) \notin DOMAIN x.reqs
    \/ MuchBetter(cost, x.reqs[Key(p)].best) /\ x.reqs[Key(p)].relays < 2
ObserveRequest(x, p, cost) ==
    LET known == Key(p) \in DOMAIN x.reqs
        old == x.reqs[Key(p)]
        new == IF ~known THEN [best |-> cost, relays |-> 1]
               ELSE [best |-> IF cost < old.best THEN cost ELSE old.best,
                     relays |-> IF NewRequest(x, p, cost) THEN old.relays + 1 ELSE old.relays]
    IN  [x EXCEPT !.reqs = [k \in DOMAIN @ \cup {Key(p)} |-> IF k = Key(p) THEN new ELSE @[k]]]

\* handle_route_request: duplicates count against the waiting relay, a much
\* better copy replaces it.
handle_route_request(x, pv, p) ==
    LET cost == p.cost + (IF pv = None THEN 4 ELSE LinkCost)
        y == ObserveRequest(x, p, cost)
    IN  IF ~NewRequest(x, p, cost) THEN {heard(y, Key(p))}
        ELSE LET routed == IF pv = None THEN {y} ELSE learn_route(y, p.src, pv, p.hops + 1)
             IN  IF p.about \in {p.src, Me} THEN routed
                 ELSE UNION {Flood(z, cancel(z, Key(p)), pv, [p EXCEPT !.cost = cost]) : z \in routed}

\* forward_route_reply: the route the reply carries is learned on the way.
forward_route_reply(x, pv, p) ==
    LET via == IF pv = None THEN p.src ELSE pv
    IN  UNION {forward_unicast(y, pv, p) : y \in learn_route(x, p.about, via, p.hops + 2)}

\* The packet is new: a reverse route if there is none, then its type decides.
Handle(x, pv, p) ==
    LET guessed == IF pv # None /\ x.routes[p.src] = None /\ p.src \notin Known(x)
                   THEN learn_route(x, p.src, pv, p.hops + 1) ELSE {x}
        for_me == p.dst = Me
        bcast == p.dst = Broadcast
    IN  UNION {CASE p.kind = "rreq" -> handle_route_request(y, pv, p)
                 [] p.kind = "rrep" /\ ~for_me -> forward_route_reply(y, pv, p)
                 [] p.kind = "rerr" /\ for_me -> {Without(y, p.about, IF pv = None THEN p.src ELSE pv)}
                 [] p.kind = "trace" /\ for_me -> route_unicast(NextId(y), Own(y, "control", p.src, None))
                 [] p.kind = "data" /\ bcast -> maybe_relay_flood(y, pv, p)
                 [] p.kind # "rrep" /\ ~for_me /\ ~bcast -> forward_unicast(y, pv, p)
                 [] OTHER -> {y} : y \in guessed}

on_radio_rx(x, p) ==
    LET pv == Prev(x, p)
        y == observe_packet(x, pv)
        z == IF pv # None /\ p.hops > 0 THEN hop_confirmed(y, Key(p), pv) ELSE y
        again == heard(z, Key(p))
    IN  IF p.src = Me THEN {x}
        ELSE IF p.kind = "beacon" THEN handle_beacon(x, p.src)
        ELSE IF p.kind = "ack" THEN {hop_confirmed(y, p.about, pv)}
        ELSE IF p.kind # "rreq" /\ Key(p) \in SeenKeys(z)
        THEN {IF p.nh = Me /\ p.dst # Broadcast /\ pv # None THEN send_link_ack(again, pv, Key(p)) ELSE again}
        ELSE Handle(IF p.kind = "rreq" THEN z ELSE observe(z, Key(p)), pv, p)

-----------------------------------------------------------------------------
(* poll: two timers that are due in one call are two calls here; what      *)
(* waited for a route that is known by now leaves with every call.         *)

RECURSIVE RouteAll(_, _)
RouteAll(xs, waiting) ==
    IF waiting = <<>> THEN xs
    ELSE RouteAll(UNION {route_unicast(x, Head(waiting)) : x \in xs}, Tail(waiting))

\* Ierp::succeed for every target that has a next hop.
RECURSIVE SucceedAll(_, _)
SucceedAll(xs, found) ==
    IF found = {} THEN xs
    ELSE LET d == CHOOSE d \in found : TRUE
             done(x) == [x EXCEPT !.rep[d] = None, !.finished = @ \cup {d}]
         IN  SucceedAll(UNION {RouteAll({done(x)}, x.rep[d].queued) : x \in xs}, found \ {d})

Repaired(x) == {d \in Repairing(x) : NextHops(x, d) # {}}
FlushRepaired(x) == SucceedAll({x}, Repaired(x))

\* A relay slot: heard too often, the copy is dropped.
SlotDue_Stays(x, i) ==     \* mutant: the copy keeps its place
    LET e == x.sched[i]
    IN  IF e.heard >= CounterThreshold THEN [x EXCEPT !.sched = RemoveAt(@, i)]
        ELSE enqueue(x, [e.p EXCEPT !.by = Me], RELAY, TRUE, FALSE)
SlotDue(x, i) ==
    LET e == x.sched[i]
        y == [x EXCEPT !.sched = RemoveAt(@, i)]
    IN  IF e.heard >= CounterThreshold THEN y ELSE enqueue(y, [e.p EXCEPT !.by = Me], RELAY, TRUE, FALSE)

\* Retries are used up: the link or the route loses credit, the packet goes
\* another way once, or its source is told.
HopFailed(x, h) ==
    LET dst == h.p.dst
        weaker == {x, Without(x, dst, h.nh), WithoutVia(x, h.nh)}
        others(y) == NextHops(y, dst) \ {h.nh}
        reroute(y) == {LET p == [h.p EXCEPT !.nh = nh]
                       IN  enqueue(track_hop(y, p, nh, TRUE), p, DATA, TRUE, FALSE) : nh \in others(y)}
        tell(y) == send_route_error(y, h.p.src, dst)
    IN  UNION {IF h.rerouted \/ others(y) = {} THEN tell(y)
               ELSE reroute(y) \cup (IF h.nh \in NextHops(y, dst) THEN tell(y) ELSE {}) : y \in weaker}

HopDue_Forever(x, i) ==    \* mutant: attempts are not counted
    {enqueue(x, x.hop[i].p, DATA, TRUE, TRUE)}
HopDue(x, i) ==
    LET h == x.hop[i]
    IN  IF h.attempts > HopRetries THEN HopFailed([x EXCEPT !.hop = RemoveAt(@, i)], h)
        ELSE {enqueue([x EXCEPT !.hop[i].attempts = @ + 1], h.p, DATA, TRUE, TRUE)}

RECURSIVE TellAll(_, _, _)
TellAll(xs, waiting, d) ==
    IF waiting = <<>> THEN xs
    ELSE TellAll(UNION {send_route_error(x, Head(waiting).src, d) : x \in xs}, Tail(waiting), d)

\* Ierp::tick
RepairDue(x, d) ==
    IF x.rep[d].attempt + 1 >= Attempts
    THEN TellAll({[x EXCEPT !.rep[d] = None, !.finished = @ \cup {d}]}, x.rep[d].queued, d)
    ELSE {send_route_request([x EXCEPT !.rep[d].attempt = @ + 1], d)}

\* send_beacon
send_beacon(x) ==
    enqueue(x, [Untracked(Own(x, "beacon", Broadcast, None)) EXCEPT !.ttl = 1], BEACON, FALSE, FALSE)

Polled(xs) == r' \in UNION {FlushRepaired(x) : x \in xs} /\ UNCHANGED <<air, echo>>

poll_beacon ==
    /\ air.beacons > 0 /\ air' = [air EXCEPT !.beacons = @ - 1]
    /\ r' \in FlushRepaired(send_beacon(r))
    /\ UNCHANGED echo
poll_slot == \E i \in DOMAIN r.sched : Polled({SlotDue(r, i)})
poll_hop == \E i \in DOMAIN r.hop : Polled(HopDue(r, i))
poll_repair == \E d \in Repairing(r) : Polled(RepairDue(r, d))
poll_flush == Repaired(r) # {} /\ Polled({r})

\* housekeeping: entries whose time is up.  A neighbour takes its zone and its
\* routes with it.
expire_seen == r.seen # <<>> /\ Polled({[r EXCEPT !.seen = Tail(@)]})
expire_request ==
    \E k \in DOMAIN r.reqs : Polled({[r EXCEPT !.reqs = [j \in DOMAIN @ \ {k} |-> @[j]]]})
expire_held == \E i \in DOMAIN r.held : Polled({[r EXCEPT !.held = RemoveAt(@, i)]})
expire_frame == \E i \in DOMAIN r.q : Polled({[r EXCEPT !.q = RemoveAt(@, i)]})
Expired(x) ==
    /\ air.losses > 0 /\ air' = [air EXCEPT !.losses = @ - 1]
    /\ r' \in FlushRepaired(x)
    /\ UNCHANGED echo
expire_neighbour ==
    \E n \in Known(r) : Expired(WithoutVia([r EXCEPT !.nb[n] = "unknown", !.zone = @ \ {n}], n))
expire_route == \E d \in Nodes : r.routes[d] # None /\ Expired([r EXCEPT !.routes[d] = None])
expire_zone == \E n \in r.zone : Expired([r EXCEPT !.zone = @ \ {n}])

\* The clock passes the end of a leaf's awake window.
falls_asleep ==
    \E n \in Leaves : r.nb[n] = "awake" /\ r' = [r EXCEPT !.nb[n] = "asleep"] /\ UNCHANGED <<air, echo>>

-----------------------------------------------------------------------------
(* The radio                                                               *)

\* What a neighbour sends on its own arrives.
rx_air ==
    /\ air.rx > 0
    /\ \E f \in air.frames : r' \in on_radio_rx(r, f)
    /\ air' = [air EXCEPT !.rx = @ - 1]
    /\ UNCHANGED echo

rx_echo ==
    \E f \in echo : r' \in on_radio_rx(r, f) /\ echo' = echo \ {f} /\ UNCHANGED air

\* The neighbour a unicast names handles it (its own on_radio_rx): it
\* confirms to the hop it believes the frame came from, or sends it on.
Answers(p) ==
    LET prev == IF p.hops = 0 THEN p.src ELSE p.by
        ack == [p EXCEPT !.kind = "ack", !.src = p.nh, !.id = None, !.dst = Me, !.nh = Me, !.hops = 0,
                         !.about = Key(p), !.by = p.nh]
        onward == [p EXCEPT !.nh = p.dst, !.hops = @ + 1, !.ttl = @ - 1, !.by = p.nh]
    IN  IF p.kind = "ack" \/ p.nh \notin Neighbours THEN {}
        ELSE {a \in {ack} : prev = Me} \cup {c \in {onward} : p.nh # p.dst /\ p.ttl > 1}

\* next_tx: the most urgent frame whose time has come.
Chosen(q, i) ==
    ~\E j \in DOMAIN q : /\ ~q[j].later
                         /\ \/ q[j].prio < q[i].prio
                            \/ q[j].prio = q[i].prio /\ ~q[i].later /\ j < i

next_tx ==
    \E i \in DOMAIN r.q :
        /\ Chosen(r.q, i)
        /\ r' = [r EXCEPT !.q = RemoveAt(@, i)]
        /\ echo' \in {echo} \cup {echo \cup {a} : a \in Answers(r.q[i].p)}
        /\ UNCHANGED air

-----------------------------------------------------------------------------
\* with_identity, after the beacons of met.
NewRelay(met) ==
    [nb |-> [n \in Neighbours |-> IF n \in met THEN "awake" ELSE "unknown"], zone |-> met,
     routes |-> [d \in Nodes |-> IF d \in met THEN [nh |-> d, direct |-> TRUE] ELSE None],
     seen |-> <<>>, reqs |-> [k \in {} |-> None], sched |-> <<>>, hop |-> <<>>, q |-> <<>>, held |-> <<>>,
     rep |-> [d \in Nodes |-> None], finished |-> {}, ids |-> 0]

Init == /\ air \in Scenarios
        /\ r = NewRelay(air.met)
        /\ echo = {}

Next == \/ rx_air \/ rx_echo \/ next_tx
        \/ poll_beacon \/ poll_slot \/ poll_hop \/ poll_repair \/ poll_flush
        \/ expire_seen \/ expire_request \/ expire_held \/ expire_neighbour \/ expire_route \/ expire_zone
        \/ expire_frame \/ falls_asleep

Keys == {Key(f) : f \in UNION {s.frames : s \in Scenarios}}

\* The loop of the firmware calls poll and next_tx for ever, and every timer
\* is a time of the clock that comes.
Fairness == /\ WF_vars(next_tx) /\ WF_vars(poll_slot) /\ WF_vars(poll_hop) /\ WF_vars(poll_repair)
            /\ WF_vars(poll_flush) /\ WF_vars(expire_held)

Spec == Init /\ [][Next]_vars /\ Fairness

-----------------------------------------------------------------------------
(* Properties                                                              *)

\* The copies of k that wait for a slot or for the transmitter.
Copies(x, k) == Cardinality({i \in DOMAIN x.sched : Key(x.sched[i].p) = k})
                  + Cardinality({i \in DOMAIN x.q : Key(x.q[i].p) = k})

Floods == {Key(f) : f \in {g \in UNION {s.frames : s \in Scenarios} : g.kind = "data" /\ g.dst = Broadcast}}

\* "One relay per packet, ever", as far as the cache reaches: while the relay
\* remembers a flood, its one copy moves from the scheduler to the queue to
\* the air or is dropped, and nothing it hears or no timer makes a second one.
RelayedOnce ==
    [][\A k \in Floods : k \in SeenKeys(r) /\ k \in SeenKeys(r') => Copies(r', k) <= Copies(r, k)]_vars

\* A packet is with one next hop at a time and within the tables' limits:
\* also when the cache forgot it, or it is rerouted, held or repaired while an
\* older copy is still unconfirmed.
OneNextHop ==
    /\ \A i, j \in DOMAIN r.hop : Key(r.hop[i].p) = Key(r.hop[j].p) => i = j
    /\ Len(r.hop) <= MaxHopPending /\ Len(r.q) <= MaxTxQueue
    /\ Len(r.held) <= MaxHeld /\ Len(r.sched) <= MaxPending /\ Len(r.seen) <= SeenSize

InCustody(k) ==
    \/ \E i \in DOMAIN r.sched : Key(r.sched[i].p) = k
    \/ \E i \in DOMAIN r.hop : Key(r.hop[i].p) = k
    \/ \E i \in DOMAIN r.q : Key(r.q[i].p) = k
    \/ \E i \in DOMAIN r.held : Key(r.held[i]) = k
    \/ \E d \in Repairing(r) : \E i \in DOMAIN r.rep[d].queued : Key(r.rep[d].queued[i]) = k

\* Whatever a relay takes on leaves it again: no packet is retried, held,
\* repaired, rerouted or passed between these for ever.
CustodyEnds == \A k \in Keys : []<>~InCustody(k)
=============================================================================
