\* Two goroutines that search, refresh and, one of them, ask for the two shortest
\* paths, on the same graph; site 2 joins the mesh at any time.
SPECIFICATION FairSpec
CONSTANTS
  Site = {0, 1, 2}
  Self = 0
  Born = {0, 1}
  Edges <- MCEdges
  Weights = {0, 1}
  N = 2
  Managers = {"rm"}
  Rpcs = {"rpc"}
  Centrals = {"rpc"}
INVARIANTS TypeOK BellmanHolds ShortestReturned TopNExact
PROPERTIES SearchReturns
