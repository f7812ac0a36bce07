-------------------------------- MODULE Finder --------------------------------
(***************************************************************************)
(* The latency graph of one daemon (internal/route/finder) and everybody   *)
(* who shares it: the RouteManager and the handlers of GetGraphRouteTable  *)
(* search it with GetShortestPath, the CentralisedRouter with              *)
(* GetTopNShortestPaths, and all of them rebuild it with RefreshWeights.   *)
(* GetShortestPath holds the read lock but writes the shared prev;         *)
(* GetTopNShortestPaths holds no lock.  Index expressions out of range are *)
(* panics, which end the daemon.                                           *)
(*                                                                         *)
(* Costs are naturals; Inf stands for math.Inf(1).                         *)
(***************************************************************************)
EXTENDS Integers, Sequences, FiniteSets

CONSTANTS
  Site,       \* site IDs that may ever be in the mesh
  Self,       \* this daemon's site
  Born,       \* sites in the mesh when the daemon starts
  Edges,      \* pairs of sites that may have a measured path
  Weights,    \* costs GetPathCost may compute
  N,          \* number of paths GetTopNShortestPaths is asked for
  Managers,   \* goroutines using GetShortestPath: the RouteManager ...
  Rpcs,       \* ... and GetGraphRouteTable handlers, which index path[1]
  Centrals    \* goroutines using GetTopNShortestPaths

Callers == Managers \cup Rpcs \cup Centrals

ASSUME FinderAssumption ==
  /\ Site \subseteq Nat /\ IsFiniteSet(Site)
  /\ Self \in Born /\ Born \subseteq Site
  /\ Edges \subseteq Site \X Site
  /\ Weights \subseteq Nat
  /\ N \in Nat \ {0}
  /\ "none" \notin Callers

Inf == -1
None == "none"
Less(a, b) == a # Inf /\ (b = Inf \/ a < b)

VARIABLES
  mesh,     \* sites that announce routes and are measured
  size,     \* Graph.size; 0 while the graph is nil
  matrix,   \* Graph.matrix, Inf outside of size
  prev,     \* Graph.prev, shared by all searches; -1 is "no predecessor"
  readers,  \* holders of Graph.mu's read lock
  writer,   \* holder of Graph.mu's write lock
  pending,  \* the writer's paths not yet given a cost
  pc,       \* per caller: "idle", "search", "path", "ret" (GetShortestPath),
            \* "refresh", "topn", "topret"; "down" is the dead daemon
  goal,     \* per caller: end
  dist,     \* per caller: Dijkstra's dist
  pq,       \* per caller: Dijkstra's queue, a set of [node, distance]
  curr,     \* per caller: curr of the path reconstruction
  path,     \* per caller: path of the path reconstruction
  start,    \* per caller: start of GetTopNShortestPaths
  cand,     \* per caller: the PathQueue, a set of [path, distance]
  found,    \* per caller: results
  mixed,    \* history: callers whose search has found prev written by another
  torn      \* history: callers of GetTopNShortestPaths under whom the matrix was
            \* written

graphVars == <<size, matrix, prev>>
lockVars  == <<readers, writer, pending>>
sptVars   == <<goal, dist, pq, curr, path>>
topVars   == <<start, cand, found>>
histVars  == <<mixed, torn>>
vars == <<mesh, graphVars, lockVars, pc, sptVars, topVars, histVars>>

Node == {n \in Site : n < size}
NoEdges == [u \in Site |-> [v \in Site |-> Inf]]
NoDist == [n \in Site |-> Inf]
NoPrev == [n \in Site |-> -1]

Entries == [node : Site, distance : Nat]
PathResults == [path : Seq(Site), distance : Nat]

TypeOK ==
  /\ mesh \subseteq Site
  /\ size \in Nat
  /\ matrix \in [Site -> [Site -> Nat \cup {Inf}]]
  /\ prev \in [Site -> Site \cup {-1}]
  /\ readers \subseteq Callers
  /\ writer \in Callers \cup {None}
  /\ pending \subseteq Edges
  /\ pc \in [Callers -> {"idle", "search", "path", "ret", "refresh", "topn",
                         "topret", "down"}]
  /\ goal \in [Callers -> Site]
  /\ dist \in [Callers -> [Site -> Nat \cup {Inf}]]
  /\ pq \in [Callers -> SUBSET Entries]
  /\ curr \in [Callers -> Site \cup {-1}]
  /\ path \in [Callers -> Seq(Site)]
  /\ start \in [Callers -> Site]
  /\ cand \in [Callers -> SUBSET PathResults]
  /\ found \in [Callers -> Seq(PathResults)]
  /\ mixed \subseteq Callers
  /\ torn \subseteq Callers

Init ==
  /\ mesh = Born
  /\ pc = [c \in Callers |-> "idle"]
  /\ size = 0 /\ matrix = NoEdges /\ prev = NoPrev
  /\ readers = {} /\ writer = None /\ pending = {}
  /\ goal = [c \in Callers |-> Self]
  /\ dist = [c \in Callers |-> NoDist]
  /\ pq = [c \in Callers |-> {}]
  /\ curr = [c \in Callers |-> -1]
  /\ path = [c \in Callers |-> <<>>]
  /\ start = [c \in Callers |-> Self]
  /\ cand = [c \in Callers |-> {}]
  /\ found = [c \in Callers |-> <<>>]
  /\ mixed = {} /\ torn = {}

\* A process with its memory as it is built: new, or ended by an index out of
\* range in any goroutine.
Fresh(where) ==
  /\ pc' = [c \in Callers |-> where]
  /\ size' = 0 /\ matrix' = NoEdges /\ prev' = NoPrev
  /\ readers' = {} /\ writer' = None /\ pending' = {}
  /\ goal' = [c \in Callers |-> Self]
  /\ dist' = [c \in Callers |-> NoDist]
  /\ pq' = [c \in Callers |-> {}]
  /\ curr' = [c \in Callers |-> -1]
  /\ path' = [c \in Callers |-> <<>>]
  /\ start' = [c \in Callers |-> Self]
  /\ cand' = [c \in Callers |-> {}]
  /\ found' = [c \in Callers |-> <<>>]
  /\ mixed' = {} /\ torn' = {}
  /\ UNCHANGED mesh

Panic == Fresh("down")

Restart == (\E c \in Callers : pc[c] = "down") /\ Fresh("idle")

\* A site joins the mesh.
Join(n) ==
  /\ n \notin mesh
  /\ mesh' = mesh \cup {n}
  /\ UNCHANGED <<graphVars, lockVars, pc, sptVars, topVars, histVars>>

Goto(c, l) == pc' = [pc EXCEPT ![c] = l]

\* Caller c writes the shared prev, or somebody the matrix, under those who use it.
WritesPrev(c) ==
  mixed' = mixed \cup {b \in Callers \ {c} : pc[b] \in {"search", "path", "ret"}}
WritesMatrix == torn' = torn \cup {b \in Callers : pc[b] \in {"topn", "topret"}}

\* GetAllPaths: the pairs measured during the last two minutes; the error and
\* the empty answer leave everything as it is and are not steps.
GetAllPaths == {ps \in SUBSET (Edges \cap (mesh \X mesh)) : ps # {}}

------------------------------------------------------------------------------
(* Building and refreshing the graph.                                       *)

\* NewGraph: sized by the highest measured site; costs of 0 are accepted.
\* A failed cost query leaves the graph nil.
NewGraph(c) ==
  /\ pc[c] = "idle"
  /\ size = 0
  /\ \E ps \in GetAllPaths :
       /\ \E n \in Site :
            /\ \E e \in ps : n \in {e[1], e[2]}
            /\ \A e \in ps : e[1] <= n /\ e[2] <= n
            /\ size' = n + 1
       /\ \E cost \in [ps -> Weights] :
            matrix' = [u \in Site |-> [v \in Site |->
                         IF <<u, v>> \in ps THEN cost[<<u, v>>] ELSE Inf]]
  /\ prev' = NoPrev
  /\ WritesPrev(c) /\ WritesMatrix
  /\ UNCHANGED <<mesh, lockVars, pc, sptVars, topVars>>

\* Mutant of RefreshWeights: it does not wait for the readers.
RefreshWeightsAtOnce(c) ==
  /\ pc[c] = "idle"
  /\ size > 0
  /\ writer = None
  /\ writer' = c
  /\ pending' \in GetAllPaths
  /\ matrix' = NoEdges
  /\ WritesMatrix
  /\ Goto(c, "refresh")
  /\ UNCHANGED <<mesh, size, prev, readers, sptVars, topVars, mixed>>

\* RefreshWeights: take the write lock, get the paths, wipe the matrix ...
RefreshWeights(c) ==
  /\ pc[c] = "idle"
  /\ size > 0
  /\ writer = None /\ readers = {}
  /\ writer' = c
  /\ pending' \in GetAllPaths
  /\ matrix' = NoEdges
  /\ WritesMatrix
  /\ Goto(c, "refresh")
  /\ UNCHANGED <<mesh, size, prev, readers, sptVars, topVars, mixed>>

ReturnRefresh(c) ==
  /\ writer' = None
  /\ pending' = {}
  /\ Goto(c, "idle")

\* ... and set the costs one by one; a failing query, or a cost of 0 or of
\* infinity, ends the refresh and leaves the matrix half filled.
SetCost(c, e) ==
  /\ pc[c] = "refresh"
  /\ e \in pending
  /\ \/ /\ e \in Node \X Node
        /\ \E cost \in Weights \ {0} : matrix' = [matrix EXCEPT ![e[1]][e[2]] = cost]
        /\ pending' = pending \ {e}
        /\ WritesMatrix
        /\ UNCHANGED <<mesh, size, prev, readers, writer, pc, sptVars, topVars, mixed>>
     \/ /\ ReturnRefresh(c)
        /\ UNCHANGED <<mesh, graphVars, readers, sptVars, topVars, histVars>>
     \/ e \notin Node \X Node /\ Panic

Refreshed(c) ==
  /\ pc[c] = "refresh"
  /\ pending = {}
  /\ ReturnRefresh(c)
  /\ UNCHANGED <<mesh, graphVars, readers, sptVars, topVars, histVars>>

------------------------------------------------------------------------------
(* GetShortestPath.                                                         *)

\* Dijkstra up to its loop, under the read lock: reset dist and the shared prev.
GetShortestPath(c, end) ==
  /\ pc[c] = "idle" /\ c \in Managers \cup Rpcs
  /\ size > 0
  /\ writer = None
  /\ end \in mesh \ {Self}
  /\ IF Self \in Node
     THEN /\ readers' = readers \cup {c}
          /\ prev' = NoPrev
          /\ WritesPrev(c)
          /\ goal' = [goal EXCEPT ![c] = end]
          /\ dist' = [dist EXCEPT ![c] = [NoDist EXCEPT ![Self] = 0]]
          /\ pq' = [pq EXCEPT ![c] = {[node |-> Self, distance |-> 0]}]
          /\ Goto(c, "search")
          /\ UNCHANGED <<mesh, size, matrix, writer, pending, curr, path, topVars, torn>>
     ELSE Panic

\* heap.Pop with PriorityQueue.Less, which orders by ">".
Popped(q) == {r \in q : \A s \in q : ~(s.distance > r.distance)}

\* Mutants of Shorter: each node is reached once only; an equal distance counts
\* as shorter.
ShorterOnce(d, u) == {v \in Node : matrix[u][v] # Inf /\ d[v] = Inf}
ShorterOrEqual(d, u) ==
  {v \in Node : matrix[u][v] # Inf /\ ~Less(d[v], d[u] + matrix[u][v])}

\* Neighbours of u that get a shorter distance.
Shorter(d, u) ==
  {v \in Node : matrix[u][v] # Inf /\ Less(d[u] + matrix[u][v], d[v])}

\* One iteration of Dijkstra's loop.  Weights are not negative, so the
\* neighbours are relaxed independently of each other.
Relax(c, r) ==
  LET u == r.node
      d == dist[c]
      better == IF Less(d[u], r.distance) THEN {} ELSE Shorter(d, u)
  IN /\ pc[c] = "search"
     /\ r \in Popped(pq[c])
     /\ dist' = [dist EXCEPT ![c] =
                   [v \in Site |-> IF v \in better THEN d[u] + matrix[u][v] ELSE d[v]]]
     /\ pq' = [pq EXCEPT ![c] = (@ \ {r}) \cup
                 {[node |-> v, distance |-> d[u] + matrix[u][v]] : v \in better}]
     /\ prev' = [v \in Site |-> IF v \in better THEN u ELSE prev[v]]
     /\ WritesPrev(c)
     /\ UNCHANGED <<mesh, size, matrix, lockVars, pc, goal, curr, path, topVars, torn>>

\* Back in the caller: the locals are gone, the deferred unlock has run.
ReturnPath(c) ==
  /\ readers' = readers \ {c}
  /\ Goto(c, "idle")
  /\ goal' = [goal EXCEPT ![c] = Self]
  /\ dist' = [dist EXCEPT ![c] = NoDist]
  /\ path' = [path EXCEPT ![c] = <<>>]
  /\ mixed' = mixed \ {c}

\* The queue is empty: no path, or start the reconstruction at end.
Searched(c) ==
  /\ pc[c] = "search"
  /\ pq[c] = {}
  /\ \/ /\ goal[c] \in Node
        /\ dist[c][goal[c]] = Inf
        /\ ReturnPath(c)
        /\ UNCHANGED <<mesh, graphVars, writer, pending, pq, curr, topVars, torn>>
     \/ /\ goal[c] \in Node
        /\ dist[c][goal[c]] # Inf
        /\ curr' = [curr EXCEPT ![c] = goal[c]]
        /\ Goto(c, "path")
        /\ UNCHANGED <<mesh, graphVars, lockVars, goal, dist, pq, path, topVars, histVars>>
     \/ goal[c] \notin Node /\ Panic

\* Mutant of Reconstruct: the predecessor is put on the path, not the node.
ReconstructAhead(c) ==
  /\ pc[c] = "path"
  /\ path' = [path EXCEPT ![c] = <<prev[curr[c]]>> \o @]
  /\ curr' = [curr EXCEPT ![c] = prev[curr[c]]]
  /\ Goto(c, IF prev[curr[c]] = -1 THEN "ret" ELSE "path")
  /\ UNCHANGED <<mesh, graphVars, lockVars, goal, dist, pq, topVars, histVars>>

\* One hop of the reconstruction reads the shared prev.
Reconstruct(c) ==
  /\ pc[c] = "path"
  /\ path' = [path EXCEPT ![c] = <<curr[c]>> \o @]
  /\ curr' = [curr EXCEPT ![c] = prev[curr[c]]]
  /\ Goto(c, IF prev[curr[c]] = -1 THEN "ret" ELSE "path")
  /\ UNCHANGED <<mesh, graphVars, lockVars, goal, dist, pq, topVars, histVars>>

\* graphBasedShortestPath checks len(path) < 2, GetGraphRoute does not.
Return(c) ==
  /\ pc[c] = "ret"
  /\ IF c \in Rpcs /\ Len(path[c]) < 2
     THEN Panic
     ELSE /\ ReturnPath(c)
          /\ UNCHANGED <<mesh, graphVars, writer, pending, pq, curr, topVars, torn>>

------------------------------------------------------------------------------
(* GetTopNShortestPaths, without any lock.                                  *)

GetTopNShortestPaths(c, from, end) ==
  /\ pc[c] = "idle" /\ c \in Centrals
  /\ size > 0
  /\ from \in mesh /\ end \in mesh \ {from}
  /\ start' = [start EXCEPT ![c] = from]
  /\ goal' = [goal EXCEPT ![c] = end]
  /\ cand' = [cand EXCEPT ![c] = {[path |-> <<from>>, distance |-> 0]}]
  /\ Goto(c, "topn")
  /\ UNCHANGED <<mesh, graphVars, lockVars, dist, pq, curr, path, found, histVars>>

LastNode(r) == r.path[Len(r.path)]

\* Mutant of OnPath: the first node of the path is not looked at.
OnPathTail(r, v) == \E i \in 2..Len(r.path) : r.path[i] = v

\* containsNode
OnPath(r, v) == \E i \in 1..Len(r.path) : r.path[i] = v

\* One iteration: pop a shortest candidate; it is a result, or it is extended by
\* every neighbour not on it.
Extend(c, r) ==
  LET u == LastNode(r)
      next == {v \in Node : matrix[u][v] # Inf /\ ~OnPath(r, v)}
  IN /\ pc[c] = "topn"
     /\ Len(found[c]) < N
     /\ r \in cand[c]
     /\ \A s \in cand[c] : ~(s.distance < r.distance)
     /\ \/ /\ u = goal[c]
           /\ found' = [found EXCEPT ![c] = Append(@, r)]
           /\ cand' = [cand EXCEPT ![c] = @ \ {r}]
           /\ UNCHANGED <<mesh, graphVars, lockVars, pc, sptVars, start, histVars>>
        \/ /\ u # goal[c] /\ u \in Node
           /\ cand' = [cand EXCEPT ![c] = (@ \ {r}) \cup
                {[path |-> Append(r.path, v), distance |-> r.distance + matrix[u][v]] : v \in next}]
           /\ UNCHANGED <<mesh, graphVars, lockVars, pc, sptVars, start, found, histVars>>
        \/ u # goal[c] /\ u \notin Node /\ Panic

Extended(c) ==
  /\ pc[c] = "topn"
  /\ cand[c] = {} \/ Len(found[c]) = N
  /\ Goto(c, "topret")
  /\ UNCHANGED <<mesh, graphVars, lockVars, sptVars, topVars, histVars>>

ReturnTopN(c) ==
  /\ pc[c] = "topret"
  /\ Goto(c, "idle")
  /\ goal' = [goal EXCEPT ![c] = Self]
  /\ start' = [start EXCEPT ![c] = Self]
  /\ cand' = [cand EXCEPT ![c] = {}]
  /\ found' = [found EXCEPT ![c] = <<>>]
  /\ torn' = torn \ {c}
  /\ UNCHANGED <<mesh, graphVars, lockVars, dist, pq, curr, path, mixed>>

------------------------------------------------------------------------------
Search(c) ==
  \/ \E r \in pq[c] : Relax(c, r)
  \/ Searched(c) \/ Reconstruct(c) \/ Return(c)

TopSearch(c) == (\E r \in cand[c] : Extend(c, r)) \/ Extended(c) \/ ReturnTopN(c)

Refresh(c) == (\E e \in pending : SetCost(c, e)) \/ Refreshed(c)

Call(c) ==
  \/ NewGraph(c) \/ RefreshWeights(c)
  \/ \E end \in Site : GetShortestPath(c, end)
  \/ \E from, end \in Site : GetTopNShortestPaths(c, from, end)

Next ==
  \/ \E c \in Callers : Search(c) \/ TopSearch(c) \/ Refresh(c) \/ Call(c)
  \/ \E n \in Site : Join(n)
  \/ Restart

Spec == Init /\ [][Next]_vars

\* A goroutine inside the finder keeps running; nobody has to call it.
FairSpec ==
  Spec /\ \A c \in Callers : WF_vars(Search(c)) /\ WF_vars(TopSearch(c)) /\ WF_vars(Refresh(c))

------------------------------------------------------------------------------
(* Properties.                                                              *)

Settled(c) == pc[c] \in {"path", "ret"} \/ (pc[c] = "search" /\ pq[c] = {})

\* Although the queue hands out the longest entry first and other searches
\* and refreshes share the graph, a finished search has distances that solve
\* the shortest path equations of the matrix it ran on, and of the matrix as
\* it still is: no edge improves them, and each is reached over some edge.
BellmanHolds ==
  \A c \in Callers : Settled(c) =>
    LET d == dist[c]
    IN /\ d[Self] = 0
       /\ \A u, v \in Node : d[u] # Inf /\ matrix[u][v] # Inf =>
            d[v] # Inf /\ d[v] <= d[u] + matrix[u][v]
       /\ \A v \in Node \ {Self} : d[v] # Inf =>
            \E u \in Node : d[u] # Inf /\ matrix[u][v] # Inf /\ d[v] = d[u] + matrix[u][v]

\* A search, once begun, returns: re-queued nodes and the reconstruction over
\* prev come to an end, however many refreshes wait.  Two searches that write
\* prev in turn may leave a circle in it (four sites are enough), over which a
\* reconstruction goes on for as long as the other search stands still.
SearchReturns ==
  \A c \in Callers :
    pc[c] = "search" ~> pc[c] \notin {"search", "path", "ret"} \/ c \in mixed
===============================================================================
