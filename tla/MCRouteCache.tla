---------------------------- MODULE MCRouteCache ----------------------------
(* Small instances of RouteCache for TLC. *)
EXTENDS RouteCache, TLC

CONSTANTS c1, c2, c3, h1, h2, h3

TwoCalls   == {c1, c2}
ThreeCalls == {c1, c2, c3}
ThreeHosts == {h1, h2, h3}

\* Six places, in which the hosts take turns without a pattern.
SixPlaces ==
    LET from(a, b) == [i \in {1, 2} |-> IF i = 1 THEN a ELSE b]
        place == (h1 :> from(1, 4)) @@ (h2 :> from(2, 9)) @@ (h3 :> from(3, 6))
    IN  [v \in Hosts \X {1, 2} |-> place[v[1]][v[2]]]
KeysAround == {0, 2, 5, 7, 10}
=============================================================================
