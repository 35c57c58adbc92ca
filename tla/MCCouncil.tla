----------------------------- MODULE MCCouncil -----------------------------
(* An instance of Council for TLC. *)
EXTENDS Council, TLC

CONSTANTS a1, p1, p2, b1, b2, g1, g2, c1, c2, x1, x2, ph1, ph2, m1, w1, w2,
          rent, food, fun, l1, l2, l3

\* Two lists share a category, two do not.
SomeLists == (l1 :> {rent, food}) @@ (l2 :> {food, fun}) @@ (l3 :> {fun})

OnePart == {{"payouts"}, {"goals"}, {"roadmap"}, {"allocations"}}
=============================================================================
