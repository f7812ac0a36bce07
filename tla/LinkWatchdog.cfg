\* Two remotes, one of them with a tunnel over either family; one addLink
\* at a time, one failure, one change.  With a RouteManager that gave up, the
\* announcement of a link stops the loop for good: the model may stop, too.
SPECIFICATION MCSpec
CONSTANTS
  Remote = {1, 2}
  Link <- MCLinks
  Check = 0
  Adders = {1}
  MaxFaults = 1
  MaxChanges = 1
INVARIANTS
  TypeOK
  FamiliesAgree
PROPERTIES
  RoutesFollowBest
CHECK_DEADLOCK FALSE
