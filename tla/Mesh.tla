-------------------------------- MODULE Mesh --------------------------------
(* What the modules about the mesh and its plan share: the sites, and the    *)
(* value that is no site.                                                    *)
EXTENDS Integers

CONSTANT Site   \* site IDs

None == -1      \* no leader, no current site, a key that a map does not hold
=============================================================================
