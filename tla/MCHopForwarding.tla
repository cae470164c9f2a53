-------------------------- MODULE MCHopForwarding --------------------------
(* Source s and destination d two hops apart through relay a; relay b      *)
(* hears s and a but not d, and its routes lead to a or back to s.         *)
EXTENDS HopForwarding, TLC

CONSTANTS s, a, b, d

MCNodes == {s, a, b, d}
MCAdjacent == {{s, a}, {s, b}, {a, b}, {a, d}}
MCRoutes == (s :> {a, b}) @@ (a :> {d}) @@ (b :> {a, s}) @@ (d :> {})
=============================================================================
