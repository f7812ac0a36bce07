\* Up to two tests at any nodes, also on paths that do not start there; one packet
\* is lost, one is slow.
SPECIFICATION FairSpec
CONSTANTS
  Node = {"a", "b", "c"}
  Peers <- ThreePeers
  Paths <- AllPaths
  Call = {"m1", "m2"}
  Count = 2
  Interval = 2
  PingTimeout = 2
  Losses = 1
  Slow = 1
INVARIANTS TypeOK ResultsKept OnlyLossFails
PROPERTIES NothingLeft
CHECK_DEADLOCK FALSE
