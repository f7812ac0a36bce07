----------------------------- MODULE SitePlanMC -----------------------------
(* Three sites, seen from site 1; the leader sends a row via site 2, a row  *)
(* via site 0, and a row of a mesh that lost site 2.                        *)
EXTENDS SitePlan

MCRows ==
  {[d \in {0, 1, 2} |-> IF d = 0 THEN 2 ELSE d],
   [d \in {0, 1, 2} |-> IF d = 2 THEN 0 ELSE d],
   [d \in {0, 1} |-> d]}
=============================================================================
