------------------------------- MODULE FinderMC -------------------------------
(***************************************************************************)
(* Finder with the reference definition of a shortest path, over all       *)
(* simple paths, and the constants of its model-checking run.              *)
(***************************************************************************)
EXTENDS Finder, FiniteSetsExt

Steps(p) == {<<p[i], p[i + 1]>> : i \in 1..Len(p) - 1}

\* Sequences of distinct sites from s to t over edges of m.
SimplePaths(m, s, t) ==
  {p \in UNION {[1..k -> Site] : k \in 1..Cardinality(Site)} :
     /\ p[1] = s /\ p[Len(p)] = t
     /\ IsInjective(p)
     /\ \A e \in Steps(p) : m[e[1]][e[2]] # Inf}

\* The sum of the costs of the edges along p.
Cost(m, p) ==
  LET sum[i \in 1..Len(p)] == IF i = 1 THEN 0 ELSE sum[i - 1] + m[p[i - 1]][p[i]]
  IN sum[Len(p)]

Distance(m, s, t) ==
  LET ps == SimplePaths(m, s, t)
  IN IF ps = {} THEN Inf ELSE Min({Cost(m, p) : p \in ps})

------------------------------------------------------------------------------
\* A search that has emptied its queue knows the distance of its goal: without
\* one, which it reports as "no path exists" (finder.go:199), there is no path
\* to find.
DistancesExact ==
  \A c \in Callers : pc[c] = "search" /\ pq[c] = {} =>
    dist[c][goal[c]] = Distance(matrix, Self, goal[c])

\* The path in hand is a path of the graph from this site to the goal, and none
\* is cheaper.
PathsShortest ==
  \A c \in Callers \ mixed : pc[c] = "ret" =>
    /\ path[c] \in SimplePaths(matrix, Self, goal[c])
    /\ Cost(matrix, path[c]) = Distance(matrix, Self, goal[c])

\* "GetShortestPath returns the shortest path from start to end"
\* (finder.go:190), and finds one if there is one, while other callers search
\* and refresh the graph.  The paths, not the distances, of a search are spoilt
\* by another one that wrote the shared prev since it began.
ShortestReturned == PathsShortest /\ DistancesExact

\* The N cheapest simple paths of m in order, with their costs.
TopOf(m, c) ==
  LET ps == SimplePaths(m, start[c], goal[c])
      r  == found[c]
      taken == {r[i].path : i \in DOMAIN r}
  IN /\ Cardinality(taken) = Len(r)
     /\ Len(r) = Min({N, Cardinality(ps)})
     /\ taken \subseteq ps
     /\ \A i \in DOMAIN r :
          /\ r[i].distance = Cost(m, r[i].path)
          /\ \A j \in i..Len(r) : r[i].distance <= r[j].distance
          /\ \A p \in ps \ taken : r[i].distance <= Cost(m, p)

\* "GetTopNShortestPaths returns the N shortest paths from start to end"
\* (topn.go:41), in order and with their costs, among other callers that search
\* and refresh the graph, unless one of them wrote the matrix since it began: the
\* function takes no lock.
TopNExact == \A c \in Callers \ torn : pc[c] = "topret" => TopOf(matrix, c)

------------------------------------------------------------------------------
(* Constants of the run.                                                    *)

\* Two paths from site 0 to site 2 and from site 1 to site 2, and a way back.
MCEdges == {<<0, 1>>, <<0, 2>>, <<1, 2>>, <<1, 0>>}
===============================================================================
