------------------------------ MODULE RoutePlanMC ------------------------------
(* Meshes for the runs of RoutePlan.                                          *)
EXTENDS RoutePlan

FullMesh == {l \in Site \X Site : l[1] # l[2]}

\* Every mesh of the first three sites, and a ring of all four in both
\* directions but for one link.
Among(S) == {l \in FullMesh : l[1] \in S /\ l[2] \in S}
Ring == {l \in FullMesh : l[1] - l[2] \in {1, -1, 3}}
SmallMeshes == (SUBSET Among({0, 1, 2}) \ {{}}) \cup {Ring}
================================================================================
