------------------------------ MODULE MCRelay ------------------------------
(***************************************************************************)
(* A relay R between a node S, a leaf L it hosts and another relay D that  *)
(* leads to X; what they send is chosen by the scenario.                   *)
(***************************************************************************)
EXTENDS Relay, TLC

MCAdverts == ("S" :> {}) @@ ("L" :> {}) @@ ("D" :> {"X", "L"})

F(kind, src, id, dst, nh, about) ==
    [kind |-> kind, src |-> src, id |-> id, dst |-> dst, nh |-> nh, hops |-> 0, ttl |-> 3,
     about |-> about, cost |-> 0, by |-> src]
Via(f, n) == [f EXCEPT !.by = n, !.hops = 1, !.ttl = 2]

BeaconOf(n) == F("beacon", n, None, Broadcast, Broadcast, None)
FloodOf(id) == F("data", "S", id, Broadcast, Broadcast, None)
ToLeaf == F("data", "S", 1, "L", Me, None)
ToX == F("data", "S", 2, "X", Me, None)
ReplyOfX == Via(F("rrep", "X", 1, "S", Me, "X"), "D")
ReplyToMe == Via(F("rrep", "X", 2, Me, Me, "X"), "D")
ErrorToMe == F("rerr", "D", 1, Me, Me, "X")
TraceOfMe == F("trace", "S", 3, Me, Me, None)
RequestOfS == F("rreq", "S", 4, Broadcast, Broadcast, "X")

Scenario(met, frames, rx, beacons, losses) ==
    [met |-> met, frames |-> frames, rx |-> rx, beacons |-> beacons, losses |-> losses]

MCScenarios ==
    {Scenario({"D"}, {FloodOf(5), FloodOf(6), Via(FloodOf(5), "D")}, 4, 1, 1),
     Scenario({"S", "D"}, {RequestOfS, [Via(RequestOfS, "D") EXCEPT !.cost = 6]}, 4, 0, 1),
     Scenario({"L"}, {BeaconOf("L"), ToLeaf}, 2, 1, 0),
     Scenario({"L", "D"}, {ToLeaf}, 1, 0, 0),
     Scenario({"L", "D"}, {BeaconOf("S"), RequestOfS}, 2, 1, 1),
     Scenario({"D"}, {ToX}, 2, 0, 0),
     Scenario({"D"}, {ToX}, 1, 0, 1),
     Scenario({}, {BeaconOf("D"), ToX, ReplyToMe}, 2, 1, 0),
     Scenario({"D"}, {ReplyOfX, ErrorToMe, TraceOfMe}, 2, 0, 0)}
=============================================================================
