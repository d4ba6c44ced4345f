---------------------------- MODULE MCShareLink ----------------------------
(* A small instance of ShareLink for TLC.                                  *)
EXTENDS ShareLink

CONSTANTS p1, p2, r1, r2, server, script

TwoRuns == {r1, r2}
TwoProducts == {p1, p2}
TwoHosts == {server, script}
SameHost == [r \in TwoRuns |-> server]
OwnHosts == [r \in TwoRuns |-> IF r = r1 THEN server ELSE script]

Card(p, named, soldOut) == [id |-> p, named |-> named, soldOut |-> soldOut]

\* Two threads of the server, or one of them and a script.
BothPlacements == {SameHost, OwnHosts}

\* Two orders of the same products, one with a sold-out product, and pages that
\* list a product twice: first without its name, or first as sold out.
ManyListings == {<<Card(p1, TRUE, FALSE), Card(p2, TRUE, FALSE)>>,
                 <<Card(p2, TRUE, FALSE), Card(p1, TRUE, TRUE)>>,
                 <<Card(p1, FALSE, FALSE), Card(p1, TRUE, FALSE)>>,
                 <<Card(p1, TRUE, TRUE), Card(p1, TRUE, FALSE)>>}
=============================================================================
