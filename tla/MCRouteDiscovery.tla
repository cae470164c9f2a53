------------------------- MODULE MCRouteDiscovery -------------------------
(* Five small networks, each for what its name says.                       *)
EXTENDS RouteDiscovery

CONSTANTS o, a, b, c, t

Symmetric(costs) ==
    [n \in Nodes |-> [m \in Nodes |-> IF {n, m} \in DOMAIN costs THEN costs[{n, m}] ELSE 0]]

\* A poor link to the relay that reaches the target.
Poor == [link |-> Symmetric([l \in {{o, a}, {o, b}, {a, b}, {a, t}} |-> IF l = {o, a} THEN 4 ELSE 1]),
         flaky |-> {}, beacons |-> {<<o, a>>, <<a, o>>}, packets |-> {1}, ids |-> 1, rings |-> <<3>>]

\* Two relays that hear each other behind a poor link: guessed costs could
\* send them around in a circle.
Fork == [link |-> Symmetric([l \in {{o, c}, {c, a}, {c, b}, {a, b}, {a, t}} |-> IF l = {o, c} THEN 4 ELSE 1]),
         flaky |-> {}, beacons |-> {}, packets |-> {1}, ids |-> 1, rings |-> <<3>>]

\* A line; the relay may lose the origin.
Line == [link |-> Symmetric([l \in {{o, a}, {a, t}} |-> 1]),
         flaky |-> {<<a, o>>}, beacons |-> {}, packets |-> {1}, ids |-> 2, rings |-> <<2, 3>>]

\* A longer line; the first relay may lose the origin and then take the
\* second, which repeats the request, for the way back.
Bend == [link |-> Symmetric([l \in {{o, c}, {c, a}, {a, t}} |-> 1]),
         flaky |-> {<<c, o>>}, beacons |-> {}, packets |-> {1}, ids |-> 1, rings |-> <<3>>]

\* A line; the origin has more packets than a discovery holds and may lose
\* the relay.
Busy == [link |-> Symmetric([l \in {{o, a}, {a, t}} |-> 1]),
         flaky |-> {<<o, a>>}, beacons |-> {<<o, a>>}, packets |-> {1, 2, 3}, ids |-> 2, rings |-> <<3>>]

MCNodes == {o, a, b, c, t}
MCNetworks == {Poor, Fork, Line, Bend, Busy}
=============================================================================
