-------------------------- MODULE RouteDistributionMC --------------------------
(* Three sites, two of which Raft may elect.  One plan sends packets between *)
(* 1 and 2 via 0, one those between 0 and 2 via 1: a site on the first and a *)
(* site on the second make a loop.  Lost is the plan of a mesh that has no   *)
(* path to site 2.                                                           *)
EXTENDS RouteDistribution

Via(m, a, b) ==
  [s \in {0, 1, 2} |-> [d \in {0, 1, 2} |-> IF <<s, d>> \in {<<a, b>>, <<b, a>>} THEN m ELSE d]]

Lost == [s \in {0, 1} |-> [d \in {0, 1, 2} |-> IF d = 2 THEN 0 ELSE d]]

MCPlans == {Via(0, 1, 2), Via(1, 0, 2), Lost}
=============================================================================
