----------------------------- MODULE Finder_proofs -----------------------------
(***************************************************************************)
(* The path finder returns shortest paths for any mesh and any costs:      *)
(* - the locks and the loop invariant of Dijkstra give BellmanHolds;       *)
(* - its predecessors never form a circle, which gives DistancesExact and, *)
(*   unless another search wrote the shared prev, PathsShortest;           *)
(* - the candidates of GetTopNShortestPaths begin every path that is not   *)
(*   a result yet, which gives TopNExact unless the matrix was written.    *)
(***************************************************************************)
EXTENDS FinderMC, FiniteSetTheorems, TLAPS

\* The part of TypeOK the search depends on.
SearchTypes ==
  /\ size \in Nat
  /\ matrix \in [Site -> [Site -> Nat \cup {Inf}]]
  /\ pc \in [Callers -> {"idle", "search", "path", "ret", "refresh", "topn",
                         "topret", "down"}]
  /\ dist \in [Callers -> [Site -> Nat \cup {Inf}]]
  /\ pq \in [Callers -> SUBSET Entries]

\* Graph.mu: readers are exactly the searches, the writer is the refresh, and
\* they exclude each other.
Locks ==
  /\ \A c \in Callers : c \in readers <=> pc[c] \in {"search", "path", "ret"}
  /\ \A c \in Callers : pc[c] = "refresh" => writer = c
  /\ writer = None \/ \A c \in Callers : c \notin readers
  /\ readers \subseteq Callers
  /\ writer \in Callers \cup {None}

\* The loop invariant of Dijkstra for distances d, queue q, costs m and the
\* nodes ns: every finite distance is reached over some edge, and either its
\* node is queued with it or no edge out of the node improves anything.
Sound(d, q, m, ns) ==
  /\ Self \in ns
  /\ d[Self] = 0
  /\ \A r \in q : r.node \in ns /\ d[r.node] # Inf /\ d[r.node] <= r.distance
  /\ \A v \in ns \ {Self} : d[v] # Inf =>
       \E u \in ns : d[u] # Inf /\ m[u][v] # Inf /\ d[u] + m[u][v] <= d[v]
  /\ \A u \in ns : d[u] # Inf =>
       \/ [node |-> u, distance |-> d[u]] \in q
       \/ \A v \in ns : m[u][v] # Inf => d[v] # Inf /\ d[v] <= d[u] + m[u][v]

Searching ==
  \A c \in Callers :
    /\ pc[c] \in {"search", "path", "ret"} => Sound(dist[c], pq[c], matrix, Node)
    /\ pc[c] \in {"path", "ret"} => pq[c] = {}

SearchInv == SearchTypes /\ Locks /\ Searching

LEMMA InitSearch == Init => SearchInv
  BY FinderAssumption DEF Init, SearchInv, SearchTypes, Locks, Searching, NoEdges, NoDist,
     Inf, None, Entries

\* A dead or a new daemon satisfies the invariant trivially.
LEMMA FreshSearch ==
  ASSUME NEW where \in {"idle", "down"}, Fresh(where)
  PROVE  SearchInv'
  BY FinderAssumption DEF Fresh, SearchInv, SearchTypes, Locks, Searching, NoEdges, NoDist,
     Inf, None, Entries

\* Relax on explicit arguments: the neighbours that get closer, the distances
\* and the queue after taking entry r.
Better(d, m, ns, r) ==
  IF Less(d[r.node], r.distance) THEN {}
  ELSE {v \in ns : m[r.node][v] # Inf /\ Less(d[r.node] + m[r.node][v], d[v])}

NewDist(d, m, ns, r) ==
  [v \in Site |-> IF v \in Better(d, m, ns, r) THEN d[r.node] + m[r.node][v] ELSE d[v]]

NewQueue(d, q, m, ns, r) ==
  (q \ {r}) \cup {[node |-> v, distance |-> d[r.node] + m[r.node][v]] : v \in Better(d, m, ns, r)}

\* One relaxation keeps the loop invariant, whichever entry is taken.
LEMMA RelaxSound ==
  ASSUME NEW ns \in SUBSET Site,
         NEW m \in [Site -> [Site -> Nat \cup {Inf}]],
         NEW d \in [Site -> Nat \cup {Inf}],
         NEW q \in SUBSET Entries,
         NEW r \in q,
         Sound(d, q, m, ns)
  PROVE  /\ NewDist(d, m, ns, r) \in [Site -> Nat \cup {Inf}]
         /\ NewQueue(d, q, m, ns, r) \in SUBSET Entries
         /\ Sound(NewDist(d, m, ns, r), NewQueue(d, q, m, ns, r), m, ns)
<1> DEFINE better == Better(d, m, ns, r)
           e == NewDist(d, m, ns, r)
           p == NewQueue(d, q, m, ns, r)
<1>a. better = IF Less(d[r.node], r.distance) THEN {}
               ELSE {v \in ns : m[r.node][v] # Inf /\ Less(d[r.node] + m[r.node][v], d[v])}
  BY DEF Better
<1>b. e = [v \in Site |-> IF v \in better THEN d[r.node] + m[r.node][v] ELSE d[v]]
  BY DEF NewDist
<1>c. p = (q \ {r}) \cup {[node |-> v, distance |-> d[r.node] + m[r.node][v]] : v \in better}
  BY DEF NewQueue
<1> HIDE DEF better, e, p
<1> USE <1>a, <1>b, <1>c
<1> DEFINE u == r.node
<1>0. Self \in Site
  BY FinderAssumption
<1>1. u \in ns /\ u \in Site /\ d[u] \in Nat /\ r.distance \in Nat /\ d[u] <= r.distance
  BY DEF Sound, Entries, Inf
<1>2. better \subseteq ns
  OBVIOUS
<1>3. \A v \in better : /\ m[u][v] \in Nat
                        /\ d[u] + m[u][v] \in Nat
                        /\ d[v] = Inf \/ d[u] + m[u][v] < d[v]
  BY <1>1, <1>2 DEF Less, Inf
<1>4. \A v \in Site : /\ e[v] \in Nat \cup {Inf}
                      /\ v \in better => e[v] = d[u] + m[u][v]
                      /\ v \notin better => e[v] = d[v]
                      /\ d[v] # Inf => e[v] # Inf /\ e[v] <= d[v]
  BY <1>1, <1>3 DEF Inf
<1>5. e \in [Site -> Nat \cup {Inf}]
  BY <1>4
<1>6. u \notin better /\ e[u] = d[u]
  <2>1. m[u][u] \in Nat \cup {Inf}
    BY <1>1
  <2>2. u \notin better
    BY <2>1, <1>1, <1>3 DEF Inf
  <2> QED BY <2>2, <1>1, <1>4
<1>7. p \in SUBSET Entries
  BY <1>1, <1>2, <1>3 DEF Entries
<1>8. Self \in ns /\ e[Self] = 0
  <2>1. Self \in ns /\ d[Self] = 0
    BY DEF Sound
  <2>2. Self \notin better
    BY <2>1, <1>3, <1>1 DEF Inf
  <2> QED BY <2>1, <2>2, <1>4, <1>0
<1> HIDE <1>a, <1>b, <1>c
<1>9. \A s \in p : s.node \in ns /\ e[s.node] # Inf /\ e[s.node] <= s.distance
  <2> SUFFICES ASSUME NEW s \in p
               PROVE  s.node \in ns /\ e[s.node] # Inf /\ e[s.node] <= s.distance
    OBVIOUS
  <2>1. CASE s \in q
    <3>1. s.node \in ns /\ s.node \in Site /\ d[s.node] # Inf /\ d[s.node] <= s.distance
          /\ s.distance \in Nat
      BY <2>1 DEF Sound, Entries
    <3>2. d[s.node] \in Nat /\ e[s.node] \in Nat \cup {Inf}
      BY <3>1, <1>4
    <3> QED BY <3>1, <3>2, <1>4 DEF Inf
  <2>2. CASE \E v \in better : s = [node |-> v, distance |-> d[u] + m[u][v]]
    <3>1. PICK v \in better : s = [node |-> v, distance |-> d[u] + m[u][v]]
      BY <2>2
    <3>2. s.node = v /\ s.distance = d[u] + m[u][v]
      BY <3>1
    <3>3. v \in ns /\ v \in Site
      BY <1>2
    <3> QED BY <3>2, <3>3, <1>3, <1>4 DEF Inf
  <2> QED BY <2>1, <2>2, <1>c
<1>10. \A v \in ns \ {Self} : e[v] # Inf =>
         \E x \in ns : e[x] # Inf /\ m[x][v] # Inf /\ e[x] + m[x][v] <= e[v]
  <2> SUFFICES ASSUME NEW v \in ns \ {Self}, e[v] # Inf
               PROVE  \E x \in ns : e[x] # Inf /\ m[x][v] # Inf /\ e[x] + m[x][v] <= e[v]
    OBVIOUS
  <2>1. CASE v \in better
    <3>1. e[v] = d[u] + m[u][v] /\ e[u] = d[u] /\ m[u][v] \in Nat
      BY <2>1, <1>3, <1>4, <1>6
    <3> QED BY <3>1, <1>1 DEF Inf
  <2>2. CASE v \notin better
    <3>1. e[v] = d[v] /\ d[v] # Inf
      BY <2>2, <1>4
    <3>2. PICK x \in ns : d[x] # Inf /\ m[x][v] # Inf /\ d[x] + m[x][v] <= d[v]
      BY <3>1 DEF Sound
    <3>3. d[x] \in Nat /\ m[x][v] \in Nat /\ e[x] \in Nat \cup {Inf} /\ d[v] \in Nat \cup {Inf}
      BY <3>2, <1>4
    <3>4. e[x] # Inf /\ e[x] <= d[x]
      BY <3>2, <1>4
    <3> QED BY <3>1, <3>2, <3>3, <3>4 DEF Inf
  <2> QED BY <2>1, <2>2
<1>11. \A x \in ns : e[x] # Inf =>
         \/ [node |-> x, distance |-> e[x]] \in p
         \/ \A v \in ns : m[x][v] # Inf => e[v] # Inf /\ e[v] <= e[x] + m[x][v]
  <2> SUFFICES ASSUME NEW x \in ns, e[x] # Inf,
                      [node |-> x, distance |-> e[x]] \notin p,
                      NEW v \in ns, m[x][v] # Inf
               PROVE  e[v] # Inf /\ e[v] <= e[x] + m[x][v]
    OBVIOUS
  <2>1. x \notin better
    <3>1. SUFFICES ASSUME x \in better PROVE FALSE
      OBVIOUS
    <3>2. [node |-> x, distance |-> d[u] + m[u][x]] \in p
      BY <3>1, <1>c
    <3> QED BY <3>1, <3>2, <1>4
  <2>2. e[x] = d[x] /\ d[x] \in Nat /\ m[x][v] \in Nat /\ d[v] \in Nat \cup {Inf}
    BY <2>1, <1>4
  <2>3. CASE [node |-> x, distance |-> d[x]] \in q
    <3>1. r = [node |-> x, distance |-> d[x]]
      BY <2>2, <2>3, <1>c
    <3>2. u = x /\ r.distance = d[x]
      BY <3>1
    <3>3. ~Less(d[u], r.distance)
      BY <3>2, <1>1 DEF Less
    <3>4. CASE v \in better
      BY <3>2, <3>4, <1>3, <1>4, <2>2 DEF Inf
    <3>5. CASE v \notin better
      <4>1. ~Less(d[u] + m[u][v], d[v])
        BY <3>3, <3>5, <3>2, <1>a
      <4>2. d[v] # Inf /\ d[v] <= d[u] + m[u][v]
        BY <4>1, <3>2, <2>2 DEF Less, Inf
      <4> QED BY <4>2, <3>5, <3>2, <2>2, <1>4
    <3> QED BY <3>4, <3>5
  <2>4. CASE \A y \in ns : m[x][y] # Inf => d[y] # Inf /\ d[y] <= d[x] + m[x][y]
    <3>1. d[v] # Inf /\ d[v] <= d[x] + m[x][v]
      BY <2>4
    <3>2. e[v] # Inf /\ e[v] <= d[v] /\ e[v] \in Nat \cup {Inf}
      BY <3>1, <1>4
    <3> QED BY <3>1, <3>2, <2>2 DEF Inf
  <2>5. x \in Site /\ d[x] # Inf
    BY <2>2 DEF Inf
  <2>6. \/ [node |-> x, distance |-> d[x]] \in q
        \/ \A y \in ns : m[x][y] # Inf => d[y] # Inf /\ d[y] <= d[x] + m[x][y]
    BY <2>5, Zenon DEF Sound
  <2> QED BY <2>3, <2>4, <2>6
<1> QED BY <1>5, <1>7, <1>8, <1>9, <1>10, <1>11 DEF Sound, e, p

\* A step that leaves the graph, the distances, the queues and the locks alone
\* and keeps every goroutine inside or outside its search.
LEMMA OtherStep ==
  ASSUME SearchInv,
         UNCHANGED <<size, matrix, dist, pq, readers, writer>>,
         NEW c \in Callers, NEW l \in {"idle", "topn", "topret"},
         pc[c] \in {"idle", "topn", "topret"},
         UNCHANGED pc \/ pc' = [pc EXCEPT ![c] = l]
  PROVE  SearchInv'
<1>1. SearchTypes'
  BY DEF SearchInv, SearchTypes
<1>2. \A b \in Callers : pc'[b] = pc[b] \/ (b = c /\ pc'[b] \in {"idle", "topn", "topret"})
  BY DEF SearchInv, SearchTypes
<1>3. Locks'
  BY <1>2 DEF SearchInv, Locks
<1>4. Searching'
  BY <1>2 DEF SearchInv, Searching, Node
<1> QED BY <1>1, <1>3, <1>4 DEF SearchInv

\* While nobody searches, the matrix may change.
LEMMA NobodySearching ==
  ASSUME SearchInv, \A c \in Callers : pc[c] \notin {"search", "path", "ret"},
         NEW c \in Callers, NEW l \in {"idle", "refresh"},
         UNCHANGED pc \/ pc' = [pc EXCEPT ![c] = l],
         SearchTypes', Locks'
  PROVE  SearchInv'
<1>1. \A b \in Callers : pc'[b] \notin {"search", "path", "ret"}
  BY DEF SearchInv, SearchTypes
<1> QED BY <1>1 DEF SearchInv, Searching

LEMMA NewGraphSearch ==
  ASSUME SearchInv, NEW c \in Callers, NewGraph(c)
  PROVE  SearchInv'
<1>1. \A b \in Callers : pc[b] \notin {"search", "path", "ret"}
  BY FinderAssumption DEF SearchInv, Searching, Sound, Node, NewGraph
<1>2. size' \in Nat
  BY FinderAssumption DEF NewGraph
<1>3. matrix' \in [Site -> [Site -> Nat \cup {Inf}]]
  <2>1. PICK ps \in GetAllPaths : \E cost \in [ps -> Weights] :
          matrix' = [u \in Site |-> [v \in Site |-> IF <<u, v>> \in ps THEN cost[<<u, v>>] ELSE Inf]]
    BY DEF NewGraph
  <2>2. PICK cost \in [ps -> Weights] :
          matrix' = [u \in Site |-> [v \in Site |-> IF <<u, v>> \in ps THEN cost[<<u, v>>] ELSE Inf]]
    BY <2>1
  <2>3. \A u, v \in Site : (IF <<u, v>> \in ps THEN cost[<<u, v>>] ELSE Inf) \in Nat \cup {Inf}
    BY FinderAssumption DEF Inf
  <2> QED BY <2>2, <2>3
<1>4. SearchTypes'
  BY <1>2, <1>3 DEF NewGraph, SearchInv, SearchTypes, sptVars
<1>5. Locks'
  BY DEF NewGraph, SearchInv, Locks, lockVars
<1> QED BY <1>1, <1>4, <1>5, NobodySearching DEF NewGraph

LEMMA RefreshSearch ==
  ASSUME SearchInv, NEW c \in Callers,
         RefreshWeights(c) \/ Refreshed(c) \/ \E e \in pending : SetCost(c, e)
  PROVE  SearchInv'
<1>1. CASE RefreshWeights(c)
  <2>1. \A b \in Callers : pc[b] \notin {"search", "path", "ret"}
    BY <1>1 DEF RefreshWeights, SearchInv, Locks
  <2>2. SearchTypes'
    BY <1>1 DEF RefreshWeights, SearchInv, SearchTypes, sptVars, Goto, NoEdges, Inf
  <2>3. \A b \in Callers : pc'[b] = IF b = c THEN "refresh" ELSE pc[b]
    BY <1>1 DEF RefreshWeights, SearchInv, SearchTypes, Goto
  <2>4. \A b \in Callers : pc[b] # "refresh"
    BY <1>1, FinderAssumption DEF RefreshWeights, SearchInv, Locks, None
  <2>5. Locks'
    BY <1>1, <2>1, <2>3, <2>4 DEF RefreshWeights, SearchInv, Locks
  <2> QED BY <1>1, <2>1, <2>2, <2>5, NobodySearching DEF RefreshWeights, Goto
<1>2. ASSUME pc[c] = "refresh"
      PROVE  writer = c /\ \A b \in Callers : b \notin readers /\ pc[b] \notin {"search", "path", "ret"}
  BY <1>2, FinderAssumption DEF SearchInv, Locks, None
<1>3. CASE ReturnRefresh(c) /\ pc[c] = "refresh" /\ UNCHANGED <<mesh, graphVars, readers, sptVars, topVars, histVars>>
  <2>1. SearchTypes'
    BY <1>3 DEF SearchInv, SearchTypes, sptVars, graphVars, ReturnRefresh, Goto
  <2>2. \A b \in Callers : pc'[b] = IF b = c THEN "idle" ELSE pc[b]
    BY <1>3 DEF SearchInv, SearchTypes, ReturnRefresh, Goto
  <2>3. Locks'
    BY <1>2, <1>3, <2>2 DEF SearchInv, Locks, ReturnRefresh
  <2> QED BY <1>2, <1>3, <2>1, <2>3, NobodySearching DEF ReturnRefresh, Goto
<1>4. CASE Refreshed(c)
  BY <1>3, <1>4 DEF Refreshed
<1>5. CASE \E e \in pending : SetCost(c, e)
  <2>1. PICK e \in pending : SetCost(c, e)
    BY <1>5
  <2>2. CASE Panic
    BY <2>2, FreshSearch DEF Panic
  <2>3. CASE ReturnRefresh(c) /\ UNCHANGED <<mesh, graphVars, readers, sptVars, topVars, histVars>>
    BY <1>3, <2>1, <2>3 DEF SetCost
  <2>4. CASE /\ e \in Node \X Node
             /\ \E cost \in Weights \ {0} : matrix' = [matrix EXCEPT ![e[1]][e[2]] = cost]
             /\ UNCHANGED <<mesh, size, prev, readers, writer, pc, sptVars, topVars, mixed>>
    <3>1. matrix' \in [Site -> [Site -> Nat \cup {Inf}]]
      <4>1. PICK cost \in Weights : matrix' = [matrix EXCEPT ![e[1]][e[2]] = cost]
        BY <2>4
      <4>2. cost \in Nat
        BY FinderAssumption
      <4> QED BY <4>1, <4>2 DEF SearchInv, SearchTypes
    <3>2. SearchTypes'
      BY <2>4, <3>1 DEF SearchInv, SearchTypes, sptVars
    <3>3. Locks'
      BY <2>4 DEF SearchInv, Locks
    <3> QED BY <1>2, <2>1, <2>4, <3>2, <3>3, NobodySearching DEF SetCost
  <2> QED BY <2>1, <2>2, <2>3, <2>4 DEF SetCost
<1> QED BY <1>1, <1>4, <1>5

LEMMA BeginSearch ==
  ASSUME SearchInv, NEW c \in Callers, NEW end \in Site, GetShortestPath(c, end)
  PROVE  SearchInv'
<1>1. CASE Self \notin Node
  BY <1>1, FreshSearch DEF GetShortestPath, Panic
<1>2. CASE Self \in Node
  <2> USE <1>2
  <2>0. Self \in Site
    BY FinderAssumption
  <2>1. /\ dist' = [dist EXCEPT ![c] = [NoDist EXCEPT ![Self] = 0]]
        /\ pq' = [pq EXCEPT ![c] = {[node |-> Self, distance |-> 0]}]
        /\ pc' = [pc EXCEPT ![c] = "search"]
        /\ readers' = readers \cup {c}
        /\ pc[c] = "idle" /\ writer = None
        /\ UNCHANGED <<size, matrix, writer>>
    BY DEF GetShortestPath, Goto
  <2>2. SearchTypes'
    BY <2>0, <2>1 DEF SearchInv, SearchTypes, NoDist, Inf, Entries
  <2>3. \A b \in Callers : pc'[b] = IF b = c THEN "search" ELSE pc[b]
    BY <2>1 DEF SearchInv, SearchTypes
  <2>4. Locks'
    BY <2>1, <2>3 DEF SearchInv, Locks
  <2>5. ASSUME NEW b \in Callers, b # c
        PROVE  dist'[b] = dist[b] /\ pq'[b] = pq[b] /\ pc'[b] = pc[b]
    BY <2>1, <2>5 DEF SearchInv, SearchTypes
  <2>6. /\ dist'[c] = [v \in Site |-> IF v = Self THEN 0 ELSE Inf]
        /\ pq'[c] = {[node |-> Self, distance |-> 0]}
    BY <2>0, <2>1 DEF SearchInv, SearchTypes, NoDist
  <2>7. Sound(dist'[c], pq'[c], matrix, Node)
    BY <2>0, <2>6 DEF Sound, Inf, Node
  <2>8. Node' = Node
    BY <2>1 DEF Node
  <2>9. Searching'
    <3> SUFFICES ASSUME NEW b \in Callers
                 PROVE  /\ pc'[b] \in {"search", "path", "ret"} => Sound(dist'[b], pq'[b], matrix', Node')
                        /\ pc'[b] \in {"path", "ret"} => pq'[b] = {}
      BY DEF Searching
    <3>1. CASE b = c
      BY <3>1, <2>1, <2>3, <2>7, <2>8
    <3>2. CASE b # c
      BY <3>2, <2>1, <2>5, <2>8 DEF SearchInv, Searching
    <3> QED BY <3>1, <3>2
  <2> QED BY <2>2, <2>4, <2>9 DEF SearchInv
<1> QED BY <1>1, <1>2

LEMMA RelaxSearch ==
  ASSUME SearchInv, NEW c \in Callers, NEW r \in pq[c], Relax(c, r)
  PROVE  SearchInv'
<1> DEFINE d == dist[c]
           e == NewDist(d, matrix, Node, r)
           p == NewQueue(d, pq[c], matrix, Node, r)
<1>1. /\ pc[c] = "search"
      /\ dist' = [dist EXCEPT ![c] = e]
      /\ pq' = [pq EXCEPT ![c] = p]
      /\ UNCHANGED <<size, matrix, readers, writer, pc>>
  BY DEF Relax, lockVars, NewDist, NewQueue, Better, Shorter
<1>2. /\ d \in [Site -> Nat \cup {Inf}]
      /\ pq[c] \in SUBSET Entries
      /\ matrix \in [Site -> [Site -> Nat \cup {Inf}]]
      /\ Node \in SUBSET Site
  BY DEF SearchInv, SearchTypes, Node
<1>3. Sound(d, pq[c], matrix, Node)
  BY <1>1 DEF SearchInv, Searching
<1>5. e \in [Site -> Nat \cup {Inf}] /\ p \in SUBSET Entries /\ Sound(e, p, matrix, Node)
  BY <1>2, <1>3, RelaxSound
<1> HIDE DEF e, p
<1>6. SearchTypes'
  BY <1>1, <1>5 DEF SearchInv, SearchTypes
<1>7. Locks'
  BY <1>1 DEF SearchInv, Locks
<1>8. dist'[c] = e /\ pq'[c] = p
  BY <1>1 DEF SearchInv, SearchTypes
<1>9. \A b \in Callers : b # c => dist'[b] = dist[b] /\ pq'[b] = pq[b]
  BY <1>1 DEF SearchInv, SearchTypes
<1>10. Node' = Node
  BY <1>1 DEF Node
<1>11. Searching'
  <2> SUFFICES ASSUME NEW b \in Callers
               PROVE  /\ pc'[b] \in {"search", "path", "ret"} => Sound(dist'[b], pq'[b], matrix', Node')
                      /\ pc'[b] \in {"path", "ret"} => pq'[b] = {}
    BY DEF Searching
  <2>1. CASE b = c
    BY <2>1, <1>1, <1>5, <1>8, <1>10
  <2>2. CASE b # c
    BY <2>2, <1>1, <1>9, <1>10 DEF SearchInv, Searching
  <2> QED BY <2>1, <2>2
<1> QED BY <1>6, <1>7, <1>11 DEF SearchInv

LEMMA EndSearch ==
  ASSUME SearchInv, NEW c \in Callers, Searched(c) \/ Reconstruct(c) \/ Return(c)
  PROVE  SearchInv'
<1>1. CASE Panic
  BY <1>1, FreshSearch DEF Panic
<1>2. CASE pc[c] \in {"search", "ret"} /\ ReturnPath(c)
           /\ UNCHANGED <<mesh, graphVars, writer, pending, pq, curr, topVars>>
  <2>1. SearchTypes'
    BY <1>2 DEF SearchInv, SearchTypes, ReturnPath, graphVars, Goto, NoDist
  <2>2. \A b \in Callers : /\ pc'[b] = IF b = c THEN "idle" ELSE pc[b]
                           /\ b # c => dist'[b] = dist[b]
    BY <1>2 DEF SearchInv, SearchTypes, ReturnPath, Goto
  <2>3. Locks'
    BY <1>2, <2>2 DEF SearchInv, Locks, ReturnPath
  <2>4. Searching'
    BY <1>2, <2>2 DEF SearchInv, Searching, graphVars, Node
  <2> QED BY <2>1, <2>3, <2>4 DEF SearchInv
<1>3. CASE /\ (pc[c] = "search" /\ pq[c] = {}) \/ pc[c] = "path"
           /\ \E l \in {"path", "ret"} : pc' = [pc EXCEPT ![c] = l]
           /\ UNCHANGED <<size, matrix, readers, writer, dist, pq>>
  <2>1. SearchTypes'
    BY <1>3 DEF SearchInv, SearchTypes
  <2>2. \A b \in Callers : pc'[b] = pc[b] \/ (b = c /\ pc'[b] \in {"path", "ret"})
    BY <1>3 DEF SearchInv, SearchTypes
  <2>3. Locks'
    BY <1>3, <2>2 DEF SearchInv, Locks
  <2>4. Searching'
    BY <1>3, <2>2 DEF SearchInv, Searching, Node
  <2> QED BY <2>1, <2>3, <2>4 DEF SearchInv
<1>4. CASE Searched(c)
  BY <1>1, <1>2, <1>3, <1>4 DEF Searched, Goto, graphVars, lockVars
<1>5. CASE Reconstruct(c)
  BY <1>3, <1>5 DEF Reconstruct, Goto, graphVars, lockVars
<1>6. CASE Return(c)
  BY <1>1, <1>2, <1>6 DEF Return
<1> QED BY <1>4, <1>5, <1>6

LEMMA TopNSearch ==
  ASSUME SearchInv, NEW c \in Callers,
         \/ \E from, end \in Site : GetTopNShortestPaths(c, from, end)
         \/ \E r \in cand[c] : Extend(c, r)
         \/ Extended(c) \/ ReturnTopN(c)
  PROVE  SearchInv'
<1>1. CASE \E from, end \in Site : GetTopNShortestPaths(c, from, end)
  BY <1>1, OtherStep DEF GetTopNShortestPaths, Goto, graphVars, lockVars
<1>2. CASE \E r \in cand[c] : Extend(c, r)
  <2>1. CASE Panic
    BY <2>1, FreshSearch DEF Panic
  <2>2. CASE ~Panic
    <3>1. pc[c] = "topn" /\ UNCHANGED <<size, matrix, dist, pq, readers, writer, pc>>
      BY <1>2, <2>2 DEF Extend, graphVars, lockVars, sptVars
    <3> QED BY <3>1, OtherStep
  <2> QED BY <2>1, <2>2
<1>3. CASE Extended(c)
  BY <1>3, OtherStep DEF Extended, Goto, graphVars, lockVars, sptVars
<1>4. CASE ReturnTopN(c)
  BY <1>4, OtherStep DEF ReturnTopN, Goto, graphVars, lockVars
<1> QED BY <1>1, <1>2, <1>3, <1>4

LEMMA NextSearch == SearchInv /\ [Next]_vars => SearchInv'
<1> SUFFICES ASSUME SearchInv, [Next]_vars PROVE SearchInv'
  OBVIOUS
<1>1. CASE UNCHANGED <<size, matrix, dist, pq, readers, writer, pc>>
  BY <1>1 DEF SearchInv, SearchTypes, Locks, Searching, Node
<1>2. ASSUME NEW c \in Callers, Search(c) PROVE SearchInv'
  BY <1>2, RelaxSearch, EndSearch DEF Search
<1>3. ASSUME NEW c \in Callers, TopSearch(c) PROVE SearchInv'
  BY <1>3, TopNSearch DEF TopSearch
<1>4. ASSUME NEW c \in Callers, Refresh(c) PROVE SearchInv'
  BY <1>4, RefreshSearch DEF Refresh
<1>5. ASSUME NEW c \in Callers, Call(c) PROVE SearchInv'
  BY <1>5, NewGraphSearch, RefreshSearch, BeginSearch, TopNSearch DEF Call
<1>6. ASSUME NEW n \in Site, Join(n) PROVE SearchInv'
  BY <1>1, <1>6 DEF Join, graphVars, lockVars, sptVars
<1>7. CASE Restart
  BY <1>7, FreshSearch DEF Restart
<1>8. CASE UNCHANGED vars
  BY <1>1, <1>8 DEF vars, graphVars, lockVars, sptVars
<1> QED BY <1>2, <1>3, <1>4, <1>5, <1>6, <1>7, <1>8 DEF Next

LEMMA SearchInvBellman == SearchInv => BellmanHolds
<1> SUFFICES ASSUME SearchInv, NEW c \in Callers, Settled(c)
             PROVE  LET d == dist[c]
                    IN /\ d[Self] = 0
                       /\ \A u, v \in Node : d[u] # Inf /\ matrix[u][v] # Inf =>
                            d[v] # Inf /\ d[v] <= d[u] + matrix[u][v]
                       /\ \A v \in Node \ {Self} : d[v] # Inf =>
                            \E u \in Node : d[u] # Inf /\ matrix[u][v] # Inf /\ d[v] = d[u] + matrix[u][v]
  BY DEF BellmanHolds
<1> DEFINE d == dist[c]
<1>1. Sound(d, pq[c], matrix, Node) /\ pq[c] = {}
  BY DEF SearchInv, Searching, Settled
<1>2. \A u, v \in Node : d[u] # Inf /\ matrix[u][v] # Inf =>
        d[v] # Inf /\ d[v] <= d[u] + matrix[u][v]
  BY <1>1 DEF Sound
<1>3. ASSUME NEW v \in Node \ {Self}, d[v] # Inf
      PROVE  \E u \in Node : d[u] # Inf /\ matrix[u][v] # Inf /\ d[v] = d[u] + matrix[u][v]
  <2>1. PICK u \in Node : d[u] # Inf /\ matrix[u][v] # Inf /\ d[u] + matrix[u][v] <= d[v]
    BY <1>1, <1>3 DEF Sound
  <2>2. d[v] <= d[u] + matrix[u][v]
    BY <1>2, <2>1
  <2>3. d[u] \in Nat /\ d[v] \in Nat /\ matrix[u][v] \in Nat
    BY <1>3, <2>1 DEF SearchInv, SearchTypes, Node
  <2> QED BY <2>1, <2>2, <2>3
<1> QED BY <1>1, <1>2, <1>3 DEF Sound

\* Whatever the mesh, the costs and the number of goroutines sharing the graph,
\* the distances GetShortestPath returns solve the shortest path equations of
\* the matrix: the inverted queue order, the shared prev and concurrent
\* refreshes cannot make them wrong.
THEOREM BellmanHoldsAlways == Spec => []BellmanHolds
<1>1. SearchInv /\ [Next]_vars => SearchInv'
  BY NextSearch
<1> QED BY InitSearch, <1>1, SearchInvBellman, PTL DEF Spec

------------------------------------------------------------------------------
(* Induction on numbers, for sets instead of predicates: each nonempty set of  *)
(* numbers has a least element.                                                *)

LEMMA LeastNumber ==
  ASSUME NEW S, S \subseteq Nat, S # {}
  PROVE  \E x \in S : \A y \in S : x <= y
<1> DEFINE T == {0 .. n : n \in S}
           R == StrictSubsetOrdering(Nat)
<1>1. T \subseteq FiniteSubsetsOf(Nat)
  <2> SUFFICES ASSUME NEW n \in S PROVE IsFiniteSet(0 .. n) /\ (0 .. n) \subseteq Nat
    BY DEF FiniteSubsetsOf
  <2>1. n \in Nat /\ 0 \in Int
    OBVIOUS
  <2> QED BY <2>1, FS_Interval
<1>2. IsWellFoundedOn(R, FiniteSubsetsOf(Nat))
  BY FS_StrictSubsetOrderingWellFounded
<1>3. T # {}
  OBVIOUS
<1>4. PICK t \in T : \A s \in T : <<s, t>> \notin R
  <2> HIDE DEF T, R
  <2> QED BY <1>1, <1>2, <1>3, WFMin
<1>5. PICK x \in S : t = 0 .. x
  OBVIOUS
<1>6. ASSUME NEW y \in S, y < x PROVE FALSE
  <2>1. (0 .. y) \in T /\ (0 .. y) \subseteq (0 .. x) /\ (0 .. y) # (0 .. x)
    <3>1. x \in 0 .. x /\ x \notin 0 .. y
      BY <1>6
    <3> QED BY <3>1, <1>6
  <2>2. (0 .. y) \subseteq Nat /\ (0 .. x) \subseteq Nat
    OBVIOUS
  <2>3. <<0 .. y, 0 .. x>> \in R
    BY <2>1, <2>2 DEF StrictSubsetOrdering
  <2> QED BY <2>1, <2>3, <1>4, <1>5
<1> QED BY <1>6

LEMMA IndexInduction ==
  ASSUME NEW n \in Nat, NEW S,
         n >= 1 => 1 \in S,
         \A i \in 1..n - 1 : i \in S => i + 1 \in S
  PROVE  1..n \subseteq S
<1> DEFINE T == (1..n) \ S
<1> SUFFICES ASSUME T # {} PROVE FALSE
  OBVIOUS
<1>1. PICK i \in T : \A j \in T : i <= j
  <2>1. T \subseteq Nat
    OBVIOUS
  <2> HIDE DEF T
  <2> QED BY <2>1, LeastNumber
<1>2. i \in 1..n /\ i # 1 /\ i - 1 \in 1..n - 1 /\ i - 1 \notin T
  BY <1>1
<1> QED BY <1>2

------------------------------------------------------------------------------
(* The cost of a path.                                                         *)

Matrices == [Site -> [Site -> Nat \cup {Inf}]]

\* f holds the sums of the costs along p.
IsSum(m, p, f) ==
  /\ f \in [1..Len(p) -> Int]
  /\ f[1] = 0
  /\ \A i \in 2..Len(p) : f[i] = f[i - 1] + m[p[i - 1]][p[i]]

\* The sums exist, so that the recursive definition of Cost has its meaning.
LEMMA SumExists ==
  ASSUME NEW m \in Matrices, NEW p \in Seq(Site), p # <<>>
  PROVE  \E f : IsSum(m, p, f)
<1> DEFINE n == Len(p)
           Part(k, f) == /\ f \in [1..k -> Int]
                         /\ f[1] = 0
                         /\ \A i \in 2..k : f[i] = f[i - 1] + m[p[i - 1]][p[i]]
           S == {k \in 1..n : \E f : Part(k, f)}
<1>1. n \in Nat /\ n >= 1
  OBVIOUS
<1>2. 1 \in S
  <2>1. Part(1, [i \in 1..1 |-> 0])
    OBVIOUS
  <2>2. 1 \in 1..n
    BY <1>1
  <2> HIDE DEF Part, n
  <2> QED BY <2>1, <2>2
<1>3. ASSUME NEW k \in 1..n - 1, k \in S PROVE k + 1 \in S
  <2>1. PICK f : Part(k, f)
    BY <1>3
  <2> DEFINE w == m[p[k]][p[k + 1]]
             g == [i \in 1..k + 1 |-> IF i = k + 1 THEN f[k] + w ELSE f[i]]
  <2>2. w \in Int
    <3>1. p[k] \in Site /\ p[k + 1] \in Site
      BY <1>1
    <3> QED BY <3>1 DEF Matrices, Inf
  <2> HIDE DEF w
  <2>3. g \in [1..k + 1 -> Int]
    BY <2>1, <2>2
  <2>4. g[1] = 0
    BY <2>1
  <2>5. ASSUME NEW i \in 2..k + 1 PROVE g[i] = g[i - 1] + m[p[i - 1]][p[i]]
    <3>1. CASE i = k + 1
      BY <3>1, <2>2 DEF w
    <3>2. CASE i \in 2..k
      BY <3>2, <2>1
    <3> QED BY <3>1, <3>2
  <2>6. Part(k + 1, g)
    BY <2>3, <2>4, <2>5
  <2>7. k + 1 \in 1..n
    BY <1>1
  <2>8. \E h : Part(k + 1, h)
    <3> HIDE DEF Part, n, g
    <3> QED BY <2>6
  <2> HIDE DEF Part, n
  <2> QED BY <2>7, <2>8
<1>4. 1..n \subseteq S
  <2> HIDE DEF S, n
  <2> QED BY <1>1, <1>2, <1>3, IndexInduction
<1>5. n \in S
  <2> HIDE DEF S, n
  <2> QED BY <1>1, <1>4
<1>6. PICK f : Part(n, f)
  <2> HIDE DEF Part, n
  <2> QED BY <1>5
<1> QED BY <1>6 DEF IsSum

\* Cost(m, p) is the last of the sums.
LEMMA CostIsSum ==
  ASSUME NEW m \in Matrices, NEW p \in Seq(Site), p # <<>>, NEW f, IsSum(m, p, f)
  PROVE  Cost(m, p) = f[Len(p)]
<1> DEFINE Rec(g) == g = [i \in 1..Len(p) |-> IF i = 1 THEN 0 ELSE g[i - 1] + m[p[i - 1]][p[i]]]
           s == CHOOSE g : Rec(g)
<1>1. Len(p) \in Nat /\ Len(p) >= 1
  OBVIOUS
<1>2. Rec(f)
  BY <1>1 DEF IsSum
<1>3. Rec(s)
  BY <1>2
<1>4. Cost(m, p) = s[Len(p)]
  BY DEF Cost
<1> HIDE DEF s
<1>5. DOMAIN s = 1..Len(p) /\ s[1] = 0 /\ \A i \in 2..Len(p) : s[i] = s[i - 1] + m[p[i - 1]][p[i]]
  <2>1. \A i \in 1..Len(p) : s[i] = IF i = 1 THEN 0 ELSE s[i - 1] + m[p[i - 1]][p[i]]
    BY <1>3
  <2> QED BY <2>1, <1>1, <1>3
<1> DEFINE S == {i \in 1..Len(p) : s[i] = f[i]}
<1>6. 1..Len(p) \subseteq S
  <2>1. 1 \in S
    BY <1>1, <1>5 DEF IsSum
  <2>2. ASSUME NEW i \in 1..Len(p) - 1, i \in S PROVE i + 1 \in S
    <3>1. i + 1 \in 2..Len(p) /\ (i + 1) - 1 = i
      BY <1>1
    <3> QED BY <3>1, <1>1, <1>5, <2>2 DEF IsSum
  <2> HIDE DEF S
  <2> QED BY <1>1, <2>1, <2>2, IndexInduction
<1> QED BY <1>1, <1>4, <1>6

LEMMA CostSingle ==
  ASSUME NEW m \in Matrices, NEW v \in Site
  PROVE  Cost(m, <<v>>) = 0
<1> DEFINE p == <<v>>
           f == [i \in 1..1 |-> 0]
<1>1. p \in Seq(Site) /\ p # <<>> /\ Len(p) = 1
  OBVIOUS
<1>2. f[1] = 0 /\ IsSum(m, p, f)
  BY DEF IsSum
<1> HIDE DEF p, f
<1>3. Cost(m, p) = f[Len(p)]
  BY <1>1, <1>2, CostIsSum
<1> QED BY <1>1, <1>2, <1>3 DEF p

LEMMA CostAppend ==
  ASSUME NEW m \in Matrices, NEW p \in Seq(Site), p # <<>>, NEW v \in Site
  PROVE  /\ Cost(m, p) \in Int
         /\ Cost(m, Append(p, v)) = Cost(m, p) + m[p[Len(p)]][v]
<1> DEFINE n == Len(p)
           r == Append(p, v)
<1>1. n \in Nat /\ n >= 1 /\ Len(r) = n + 1 /\ r \in Seq(Site) /\ r # <<>>
      /\ r[n + 1] = v /\ \A i \in 1..n : r[i] = p[i]
  OBVIOUS
<1>2. PICK f : IsSum(m, p, f)
  BY SumExists
<1> DEFINE w == m[p[n]][v]
           g == [i \in 1..n + 1 |-> IF i = n + 1 THEN f[n] + w ELSE f[i]]
<1>3. w \in Int /\ f[n] \in Int
  <2>1. p[n] \in Site
    BY <1>1
  <2> QED BY <2>1, <1>1, <1>2 DEF Matrices, Inf, IsSum
<1> HIDE DEF w, r, n
<1>4. IsSum(m, r, g)
  <2>1. g \in [1..Len(r) -> Int] /\ g[1] = 0
    BY <1>1, <1>2, <1>3 DEF IsSum, n
  <2>2. ASSUME NEW i \in 2..n + 1 PROVE g[i] = g[i - 1] + m[r[i - 1]][r[i]]
    <3>1. CASE i = n + 1
      BY <3>1, <1>1 DEF w
    <3>2. CASE i \in 2..n
      BY <3>2, <1>1, <1>2, SMTT(20) DEF IsSum, n
    <3> QED BY <3>1, <3>2, <1>1
  <2> QED BY <2>1, <2>2, <1>1 DEF IsSum
<1>5. Cost(m, r) = g[n + 1]
  BY <1>1, <1>4, CostIsSum
<1>6. Cost(m, p) = f[n]
  BY <1>2, CostIsSum DEF n
<1> QED BY <1>1, <1>3, <1>5, <1>6 DEF w, r, n

------------------------------------------------------------------------------
(* Distances and the predecessors that witness them.                          *)

\* The paths of the graph stay inside it.
Inside(m, ns) == \A u, v \in Site : m[u][v] # Inf => u \in ns /\ v \in ns

IsWalk(m, p) ==
  /\ p \in Seq(Site) /\ p # <<>>
  /\ \A i \in 1..Len(p) - 1 : m[p[i]][p[i + 1]] # Inf

\* No edge improves the distances.
Closed(d, m, ns) ==
  /\ d[Self] = 0
  /\ \A u, v \in ns : d[u] # Inf /\ m[u][v] # Inf => d[v] # Inf /\ d[v] <= d[u] + m[u][v]

\* Every node with a distance but this site has a predecessor that justifies
\* it, and following them never ends in a circle: any set of such nodes has one
\* whose predecessor is outside.
Tree(d, q, m, ns) ==
  /\ q[Self] = -1
  /\ \A v \in Site : d[v] # Inf => v \in ns
  /\ \A v \in ns \ {Self} : d[v] # Inf =>
       /\ q[v] \in ns /\ d[q[v]] # Inf /\ m[q[v]][v] # Inf
       /\ d[q[v]] + m[q[v]][v] <= d[v]
  /\ \A T \in SUBSET {v \in ns \ {Self} : d[v] # Inf} :
       T # {} => \E v \in T : q[v] \notin T

\* The path from this site that the predecessors q describe.
IsChain(d, q, p) ==
  /\ p \in Seq(Site) /\ p # <<>>
  /\ p[1] = Self
  /\ \A i \in 1..Len(p) : d[p[i]] # Inf
  /\ \A i \in 2..Len(p) : q[p[i]] = p[i - 1]

\* A closed distance is a lower bound of every walk.
LEMMA LowerBound ==
  ASSUME NEW ns \in SUBSET Site, NEW m \in Matrices, NEW d \in [Site -> Nat \cup {Inf}],
         Closed(d, m, ns), Inside(m, ns),
         NEW p, IsWalk(m, p), p[1] = Self
  PROVE  d[p[Len(p)]] # Inf /\ d[p[Len(p)]] <= Cost(m, p)
<1> DEFINE n == Len(p)
<1>1. p \in Seq(Site) /\ p # <<>> /\ n \in Nat /\ n >= 1
  BY DEF IsWalk
<1>2. PICK f : IsSum(m, p, f)
  BY <1>1, SumExists
<1> DEFINE S == {i \in 1..n : d[p[i]] # Inf /\ d[p[i]] <= f[i]}
<1>3. 1 \in S
  BY <1>1, <1>2 DEF IsSum, Closed, Inf
<1>4. ASSUME NEW i \in 1..n - 1, i \in S PROVE i + 1 \in S
  <2>1. i \in 1..n /\ i + 1 \in 2..n /\ (i + 1) - 1 = i /\ i + 1 \in 1..n
    BY <1>1
  <2>2. p[i] \in Site /\ p[i + 1] \in Site
    BY <1>1, <2>1
  <2>3. m[p[i]][p[i + 1]] # Inf
    BY DEF IsWalk
  <2>4. p[i] \in ns /\ p[i + 1] \in ns
    BY <2>2, <2>3 DEF Inside
  <2>5. d[p[i + 1]] # Inf /\ d[p[i + 1]] <= d[p[i]] + m[p[i]][p[i + 1]]
    BY <1>4, <2>3, <2>4 DEF Closed
  <2>6. f[i + 1] = f[i] + m[p[i]][p[i + 1]]
    BY <2>1, <1>2 DEF IsSum
  <2>7. /\ d[p[i]] \in Int /\ d[p[i + 1]] \in Int /\ m[p[i]][p[i + 1]] \in Int
        /\ f[i] \in Int
    BY <2>1, <2>2, <1>2 DEF Matrices, Inf, IsSum
  <2>8. d[p[i]] <= f[i]
    BY <1>4
  <2>9. d[p[i + 1]] <= f[i + 1]
    BY <2>5, <2>6, <2>7, <2>8
  <2> QED BY <2>1, <2>5, <2>9
<1>5. 1..n \subseteq S
  <2> HIDE DEF S, n
  <2> QED BY <1>1, <1>3, <1>4, IndexInduction
<1>6. n \in S
  BY <1>1, <1>5
<1> QED BY <1>1, <1>2, <1>6, CostIsSum

\* What the predecessors describe is a path without a repeated node, and costs
\* no more than the distance of its end.
LEMMA ChainIsPath ==
  ASSUME NEW ns \in SUBSET Site, NEW m \in Matrices, NEW d \in [Site -> Nat \cup {Inf}],
         d[Self] = 0, NEW q, Tree(d, q, m, ns),
         NEW p, IsChain(d, q, p)
  PROVE  /\ IsWalk(m, p)
         /\ \A i, j \in 1..Len(p) : p[i] = p[j] => i = j
         /\ Cost(m, p) <= d[p[Len(p)]]
<1> DEFINE n == Len(p)
<1>1. p \in Seq(Site) /\ p # <<>> /\ n \in Nat /\ n >= 1 /\ p[1] = Self
      /\ \A i \in 1..n : p[i] \in Site
  BY DEF IsChain
<1>0. Self \in Site
  BY FinderAssumption
<1>2. ASSUME NEW i \in 2..n
      PROVE  /\ p[i] # Self /\ p[i] \in ns /\ d[p[i]] # Inf /\ q[p[i]] = p[i - 1]
             /\ m[p[i - 1]][p[i]] # Inf /\ d[p[i - 1]] + m[p[i - 1]][p[i]] <= d[p[i]]
  <2>1. i \in 1..n /\ i - 1 \in 1..n
    BY <1>1
  <2>2. d[p[i]] # Inf /\ q[p[i]] = p[i - 1] /\ p[i] \in Site /\ p[i - 1] \in Site
    BY <1>1, <2>1 DEF IsChain
  <2>3. p[i] # Self
    BY <2>2, FinderAssumption DEF Tree
  <2>4. p[i] \in ns \ {Self}
    BY <2>2, <2>3 DEF Tree
  <2> QED BY <2>2, <2>4 DEF Tree
<1>3. IsWalk(m, p)
  <2>1. ASSUME NEW i \in 1..n - 1 PROVE m[p[i]][p[i + 1]] # Inf
    <3>1. i + 1 \in 2..n /\ (i + 1) - 1 = i
      BY <1>1
    <3> QED BY <3>1, <1>2
  <2> QED BY <2>1, <1>1 DEF IsWalk
<1>4. ASSUME NEW i \in 1..n, NEW j \in 1..n, i < j, p[i] = p[j] PROVE FALSE
  <2> DEFINE T == {p[k] : k \in i + 1..j}
  <2>1. \A k \in i + 1..j : k \in 2..n
    BY <1>1, <1>4
  <2>2. T \in SUBSET {v \in ns \ {Self} : d[v] # Inf}
    BY <2>1, <1>2
  <2>3. p[j] \in T
    BY <1>4
  <2>4. PICK v \in T : q[v] \notin T
    <3> HIDE DEF T
    <3> QED BY <2>2, <2>3 DEF Tree
  <2>5. PICK k \in i + 1..j : v = p[k]
    BY <2>4
  <2>6. q[v] = p[k - 1]
    BY <2>1, <2>5, <1>2
  <2>7. CASE k = i + 1
    BY <2>3, <2>4, <2>6, <2>7, <1>4
  <2>8. CASE k - 1 \in i + 1..j
    BY <2>4, <2>6, <2>8
  <2> QED BY <2>7, <2>8, <2>5
<1>5. PICK f : IsSum(m, p, f)
  BY <1>1, SumExists
<1> DEFINE S == {i \in 1..n : f[i] <= d[p[i]]}
<1>6. 1 \in S
  BY <1>1, <1>5 DEF IsSum
<1>7. ASSUME NEW i \in 1..n - 1, i \in S PROVE i + 1 \in S
  <2>1. i \in 1..n /\ i + 1 \in 2..n /\ (i + 1) - 1 = i /\ i + 1 \in 1..n
    BY <1>1
  <2>2. d[p[i]] + m[p[i]][p[i + 1]] <= d[p[i + 1]]
    BY <2>1, <1>2
  <2>3. f[i + 1] = f[i] + m[p[i]][p[i + 1]]
    BY <2>1, <1>5 DEF IsSum
  <2>4. p[i] \in Site /\ p[i + 1] \in Site
    BY <2>1, <1>1
  <2>5. /\ d[p[i]] \in Int /\ d[p[i + 1]] \in Int /\ m[p[i]][p[i + 1]] \in Int
        /\ f[i] \in Int
    BY <2>1, <2>4, <1>5 DEF Matrices, Inf, IsSum
  <2>6. f[i] <= d[p[i]]
    BY <1>7
  <2>7. f[i + 1] <= d[p[i + 1]]
    BY <2>2, <2>3, <2>5, <2>6
  <2> QED BY <2>1, <2>7
<1>8. 1..n \subseteq S
  <2> HIDE DEF S, n
  <2> QED BY <1>1, <1>6, <1>7, IndexInduction
<1>9. Cost(m, p) <= d[p[n]]
  <2>1. n \in S
    BY <1>1, <1>8
  <2> QED BY <2>1, <1>1, <1>5, CostIsSum
<1>10. \A i, j \in 1..n : p[i] = p[j] => i = j
  <2> SUFFICES ASSUME NEW i \in 1..n, NEW j \in 1..n, p[i] = p[j] PROVE i = j
    OBVIOUS
  <2>1. ~(i < j) /\ ~(j < i)
    BY <1>4
  <2> QED BY <2>1, <1>1
<1> QED BY <1>3, <1>9, <1>10

\* Every node with a distance is the end of such a path.
LEMMA ChainExists ==
  ASSUME NEW ns \in SUBSET Site, NEW m \in Matrices, NEW d \in [Site -> Nat \cup {Inf}],
         d[Self] = 0, NEW q, Tree(d, q, m, ns),
         NEW v \in Site, d[v] # Inf
  PROVE  \E p : IsChain(d, q, p) /\ p[Len(p)] = v
<1> DEFINE Reached(u) == \E p : IsChain(d, q, p) /\ p[Len(p)] = u
           T == {u \in ns \ {Self} : d[u] # Inf /\ ~Reached(u)}
<1>1. Self \in Site /\ d[Self] # Inf
  BY FinderAssumption DEF Inf
<1>2. Reached(Self)
  <2> DEFINE p == <<Self>>
  <2>1. p \in Seq(Site) /\ p # <<>> /\ Len(p) = 1 /\ p[1] = Self
    BY <1>1
  <2> HIDE DEF p
  <2>2. IsChain(d, q, p)
    BY <1>1, <2>1 DEF IsChain
  <2> QED BY <2>1, <2>2
<1>3. T = {}
  <2> SUFFICES ASSUME T # {} PROVE FALSE
    OBVIOUS
  <2>1. T \in SUBSET {u \in ns \ {Self} : d[u] # Inf}
    OBVIOUS
  <2>2. PICK u \in T : q[u] \notin T
    <3> HIDE DEF T
    <3> QED BY <2>1 DEF Tree
  <2>3. u \in ns \ {Self} /\ u \in Site /\ d[u] # Inf /\ ~Reached(u)
    BY <2>2
  <2>4. q[u] \in ns /\ d[q[u]] # Inf
    BY <2>3 DEF Tree
  <2>5. Reached(q[u])
    BY <2>2, <2>4, <1>2
  <2>6. PICK p : IsChain(d, q, p) /\ p[Len(p)] = q[u]
    BY <2>5
  <2> DEFINE r == Append(p, u)
  <2>7. IsChain(d, q, r) /\ r[Len(r)] = u
    <3>1. p \in Seq(Site) /\ p # <<>> /\ Len(p) \in Nat /\ Len(p) >= 1
      BY <2>6 DEF IsChain
    <3>2. r \in Seq(Site) /\ r # <<>> /\ Len(r) = Len(p) + 1 /\ r[Len(p) + 1] = u
          /\ \A i \in 1..Len(p) : r[i] = p[i]
      BY <3>1, <2>3
    <3> HIDE DEF r
    <3>3. \A i \in 1..Len(r) : d[r[i]] # Inf
      <4> TAKE i \in 1..Len(r)
      <4>1. i = Len(p) + 1 \/ i \in 1..Len(p)
        BY <3>1, <3>2
      <4> QED BY <4>1, <3>2, <2>3, <2>6 DEF IsChain
    <3>4. \A i \in 2..Len(r) : q[r[i]] = r[i - 1]
      <4> TAKE i \in 2..Len(r)
      <4>1. CASE i = Len(p) + 1
        BY <4>1, <3>1, <3>2, <2>6
      <4>2. CASE i \in 2..Len(p)
        <5>1. i - 1 \in 1..Len(p) /\ i \in 1..Len(p)
          BY <4>2, <3>1
        <5> QED BY <4>2, <5>1, <3>2, <2>6 DEF IsChain
      <4> QED BY <4>1, <4>2, <3>1, <3>2
    <3>5. r[1] = Self
      BY <3>1, <3>2, <2>6 DEF IsChain
    <3> QED BY <3>2, <3>3, <3>4, <3>5 DEF IsChain
  <2> QED BY <2>3, <2>7
<1>4. v \in ns
  BY DEF Tree
<1> QED BY <1>2, <1>3, <1>4

\* The paths of SimplePaths are the walks that visit no node twice.
LEMMA SimplePathIsWalk ==
  ASSUME NEW m \in Matrices, NEW s, NEW t, NEW p \in SimplePaths(m, s, t)
  PROVE  /\ IsWalk(m, p) /\ p[1] = s /\ p[Len(p)] = t
         /\ \A i, j \in 1..Len(p) : p[i] = p[j] => i = j
<1>1. PICK k \in 1..Cardinality(Site) : p \in [1..k -> Site]
  BY DEF SimplePaths
<1>2. k \in Nat /\ k >= 1
  BY FinderAssumption, FS_CardinalityType
<1>3. p \in Seq(Site) /\ Len(p) = k /\ p # <<>> /\ DOMAIN p = 1..Len(p)
  BY <1>1, <1>2
<1>4. \A i \in 1..Len(p) - 1 : m[p[i]][p[i + 1]] # Inf
  <2> TAKE i \in 1..Len(p) - 1
  <2>1. <<p[i], p[i + 1]>> \in Steps(p)
    BY DEF Steps
  <2>2. \A e \in Steps(p) : m[e[1]][e[2]] # Inf
    BY DEF SimplePaths
  <2> DEFINE e == <<p[i], p[i + 1]>>
  <2>3. e[1] = p[i] /\ e[2] = p[i + 1] /\ e \in Steps(p)
    BY <2>1
  <2> QED BY <2>2, <2>3
<1>5. p[1] = s /\ p[Len(p)] = t /\ IsInjective(p)
  BY DEF SimplePaths
<1> QED BY <1>3, <1>4, <1>5 DEF IsWalk, IsInjective

LEMMA WalkIsSimplePath ==
  ASSUME NEW m \in Matrices, NEW p, IsWalk(m, p),
         \A i, j \in 1..Len(p) : p[i] = p[j] => i = j
  PROVE  p \in SimplePaths(m, p[1], p[Len(p)])
<1> DEFINE n == Len(p)
<1>1. p \in Seq(Site) /\ p # <<>> /\ n \in Nat /\ n >= 1 /\ p \in [1..n -> Site]
      /\ DOMAIN p = 1..n
  BY DEF IsWalk
<1>2. IsInjective(p)
  BY <1>1 DEF IsInjective
<1>3. n \in 1..Cardinality(Site)
  <2>1. p \in Injection(1..n, Site)
    BY <1>1, <1>2 DEF Injection
  <2>2. Cardinality(1..n) <= Cardinality(Site)
    BY <2>1, FinderAssumption, FS_Injection
  <2>3. Cardinality(1..n) = n
    BY <1>1, FS_Interval
  <2>4. Cardinality(Site) \in Nat
    BY FinderAssumption, FS_CardinalityType
  <2> QED BY <1>1, <2>2, <2>3, <2>4
<1>4. \A e \in Steps(p) : m[e[1]][e[2]] # Inf
  BY DEF Steps, IsWalk
<1>5. p \in UNION {[1..k -> Site] : k \in 1..Cardinality(Site)}
  BY <1>1, <1>3
<1> QED BY <1>2, <1>4, <1>5 DEF SimplePaths

\* A search without queued nodes: its distances are those of the graph, and
\* the path its predecessors describe is a shortest one.
LEMMA ChainIsShortest ==
  ASSUME NEW ns \in SUBSET Site, NEW m \in Matrices, NEW d \in [Site -> Nat \cup {Inf}],
         Closed(d, m, ns), Inside(m, ns), NEW q, Tree(d, q, m, ns),
         NEW p, IsChain(d, q, p)
  PROVE  /\ p \in SimplePaths(m, Self, p[Len(p)])
         /\ Cost(m, p) = d[p[Len(p)]]
         /\ Distance(m, Self, p[Len(p)]) = d[p[Len(p)]]
<1> DEFINE v == p[Len(p)]
           ps == SimplePaths(m, Self, v)
           C == {Cost(m, r) : r \in ps}
<1>1. p \in Seq(Site) /\ p # <<>> /\ p[1] = Self
  BY DEF IsChain
<1>2. IsWalk(m, p) /\ (\A i, j \in 1..Len(p) : p[i] = p[j] => i = j) /\ Cost(m, p) <= d[v]
  <2>1. d[Self] = 0
    BY DEF Closed
  <2>2. IsWalk(m, p)
    BY <2>1, ChainIsPath
  <2>3. \A i, j \in 1..Len(p) : p[i] = p[j] => i = j
    BY <2>1, ChainIsPath
  <2>4. Cost(m, p) <= d[p[Len(p)]]
    BY <2>1, ChainIsPath
  <2> QED BY <2>2, <2>3, <2>4
<1>3. p \in ps
  BY <1>1, <1>2, WalkIsSimplePath
<1>4. \A r \in ps : d[v] <= Cost(m, r)
  <2> TAKE r \in ps
  <2>1. IsWalk(m, r) /\ r[1] = Self /\ r[Len(r)] = v
    BY SimplePathIsWalk
  <2> QED BY <2>1, LowerBound
<1>5. d[v] \in Int /\ Cost(m, p) \in Int
  <2>1. v \in Site
    BY <1>1
  <2>2. Cost(m, p) \in Int
    BY <1>1, <2>1, CostAppend
  <2> QED BY <2>1, <2>2 DEF Inf
<1>6. Cost(m, p) = d[v]
  BY <1>2, <1>3, <1>4, <1>5
<1>7. Min(C) = d[v]
  <2>1. d[v] \in C /\ \A c \in C : d[v] <= c
    BY <1>3, <1>4, <1>6
  <2>2. \A c \in C : c \in Int
    <3> SUFFICES ASSUME NEW r \in ps PROVE Cost(m, r) \in Int
      OBVIOUS
    <3>1. r \in Seq(Site) /\ r # <<>>
      BY SimplePathIsWalk DEF IsWalk
    <3>2. r[Len(r)] \in Site
      BY <3>1
    <3> QED BY <3>1, <3>2, CostAppend
  <2> HIDE DEF C, v
  <2> QED BY <2>1, <2>2, <1>5 DEF Min
<1>8. Distance(m, Self, v) = Min(C)
  BY <1>3 DEF Distance
<1> QED BY <1>3, <1>6, <1>7, <1>8

LEMMA DistanceExact ==
  ASSUME NEW ns \in SUBSET Site, NEW m \in Matrices, NEW d \in [Site -> Nat \cup {Inf}],
         Closed(d, m, ns), Inside(m, ns), NEW q, Tree(d, q, m, ns),
         NEW v \in Site
  PROVE  d[v] = Distance(m, Self, v)
<1>1. CASE d[v] # Inf
  <2>1. PICK p : IsChain(d, q, p) /\ p[Len(p)] = v
    BY <1>1, ChainExists DEF Closed
  <2> QED BY <2>1, ChainIsShortest
<1>2. CASE d[v] = Inf
  <2>1. SimplePaths(m, Self, v) = {}
    <3> SUFFICES ASSUME NEW r \in SimplePaths(m, Self, v) PROVE FALSE
      OBVIOUS
    <3>1. IsWalk(m, r) /\ r[1] = Self /\ r[Len(r)] = v
      BY SimplePathIsWalk
    <3> QED BY <3>1, <1>2, LowerBound
  <2> QED BY <1>2, <2>1 DEF Distance
<1> QED BY <1>1, <1>2

------------------------------------------------------------------------------
(* Types.                                                                     *)

\* What TypeOK says beyond SearchInv, and that a reconstruction under way stands
\* on a node.
RestTypes ==
  /\ mesh \subseteq Site
  /\ prev \in [Site -> Site \cup {-1}]
  /\ pending \subseteq Edges
  /\ goal \in [Callers -> Site]
  /\ curr \in [Callers -> Site \cup {-1}]
  /\ path \in [Callers -> Seq(Site)]
  /\ start \in [Callers -> Site]
  /\ cand \in [Callers -> SUBSET PathResults]
  /\ found \in [Callers -> Seq(PathResults)]
  /\ \A c \in Callers : pc[c] = "path" => curr[c] \in Site

LEMMA InitRest == Init => RestTypes
  BY FinderAssumption DEF Init, RestTypes, NoPrev

LEMMA FreshRest ==
  ASSUME RestTypes, NEW where \in {"idle", "down"}, Fresh(where)
  PROVE  RestTypes'
  BY FinderAssumption DEF Fresh, RestTypes, NoPrev

\* A step that only moves a goroutine, not into the reconstruction.
LEMMA MoveRest ==
  ASSUME SearchInv, RestTypes, NEW c \in Callers, NEW l \in {"idle", "search", "ret", "refresh", "topn", "topret"},
         UNCHANGED pc \/ pc' = [pc EXCEPT ![c] = l],
         mesh' \subseteq Site, pending' \subseteq Edges,
         UNCHANGED prev \/ prev' = NoPrev,
         UNCHANGED <<goal, curr, path, start, cand, found>>
  PROVE  RestTypes'
<1>1. prev' \in [Site -> Site \cup {-1}]
  BY DEF RestTypes, NoPrev
<1>2. \A b \in Callers : pc'[b] = "path" => pc[b] = "path"
  BY DEF SearchInv, SearchTypes
<1> QED BY <1>1, <1>2 DEF RestTypes

LEMMA GraphRest ==
  ASSUME SearchInv, RestTypes, NEW c \in Callers, Refresh(c) \/ NewGraph(c) \/ RefreshWeights(c)
  PROVE  RestTypes'
<1>1. CASE NewGraph(c)
  BY <1>1, MoveRest DEF NewGraph, lockVars, sptVars, topVars, RestTypes
<1>2. CASE RefreshWeights(c)
  <2>1. pending' \subseteq Edges
    BY <1>2 DEF RefreshWeights, GetAllPaths
  <2> QED BY <1>2, <2>1, MoveRest DEF RefreshWeights, Goto, sptVars, topVars, RestTypes
<1>3. CASE Refreshed(c)
  BY <1>3, MoveRest DEF Refreshed, ReturnRefresh, Goto, graphVars, sptVars, topVars, RestTypes
<1>4. ASSUME NEW e \in pending, SetCost(c, e) PROVE RestTypes'
  <2>1. CASE Panic
    BY <2>1, FreshRest DEF Panic
  <2>2. CASE ReturnRefresh(c) /\ UNCHANGED <<mesh, graphVars, readers, sptVars, topVars, histVars>>
    BY <2>2, MoveRest DEF ReturnRefresh, Goto, graphVars, sptVars, topVars, RestTypes
  <2>3. CASE pending' = pending \ {e} /\ UNCHANGED <<mesh, size, prev, readers, writer, pc, sptVars, topVars, mixed>>
    BY <2>3, MoveRest DEF sptVars, topVars, RestTypes
  <2> QED BY <1>4, <2>1, <2>2, <2>3 DEF SetCost
<1> QED BY <1>1, <1>2, <1>3, <1>4 DEF Refresh

LEMMA PathRest ==
  ASSUME SearchInv, RestTypes, NEW c \in Callers,
         Search(c) \/ \E end \in Site : GetShortestPath(c, end)
  PROVE  RestTypes'
<1>0. \A b \in Callers : \A l : pc' = [pc EXCEPT ![c] = l] => pc'[b] = IF b = c THEN l ELSE pc[b]
  BY DEF SearchInv, SearchTypes
<1>1. CASE Panic
  BY <1>1, FreshRest DEF Panic
<1>2. ASSUME NEW end \in Site, GetShortestPath(c, end) PROVE RestTypes'
  <2>1. CASE Self \in Node
    <3>1. /\ prev' = NoPrev /\ goal' = [goal EXCEPT ![c] = end] /\ pc' = [pc EXCEPT ![c] = "search"]
          /\ UNCHANGED <<mesh, pending, curr, path, start, cand, found>>
      BY <1>2, <2>1 DEF GetShortestPath, Goto, topVars
    <3> QED BY <3>1, <1>0 DEF RestTypes, NoPrev
  <2> QED BY <1>1, <1>2, <2>1 DEF GetShortestPath
<1>3. ASSUME NEW r \in pq[c], Relax(c, r) PROVE RestTypes'
  <2>1. r.node \in Site
    BY DEF SearchInv, SearchTypes, Entries
  <2> DEFINE better == IF Less(dist[c][r.node], r.distance) THEN {} ELSE Shorter(dist[c], r.node)
  <2>2. prev' = [v \in Site |-> IF v \in better THEN r.node ELSE prev[v]]
    BY <1>3 DEF Relax
  <2> HIDE DEF better
  <2>3. prev' \in [Site -> Site \cup {-1}]
    BY <2>1, <2>2 DEF RestTypes
  <2>4. UNCHANGED <<mesh, pending, pc, goal, curr, path, start, cand, found>>
    BY <1>3 DEF Relax, lockVars, topVars
  <2> QED BY <2>3, <2>4 DEF RestTypes
<1>4. CASE ReturnPath(c) /\ UNCHANGED <<mesh, graphVars, writer, pending, pq, curr, topVars>>
  <2>1. /\ pc' = [pc EXCEPT ![c] = "idle"]
        /\ goal' = [goal EXCEPT ![c] = Self]
        /\ path' = [path EXCEPT ![c] = <<>>]
        /\ UNCHANGED <<mesh, prev, pending, curr, start, cand, found>>
    BY <1>4 DEF ReturnPath, Goto, graphVars, topVars
  <2>2. \A b \in Callers : pc'[b] = "path" => pc[b] = "path"
    BY <1>0, <2>1
  <2>3. goal' \in [Callers -> Site] /\ path' \in [Callers -> Seq(Site)]
    <3>1. Self \in Site /\ <<>> \in Seq(Site)
      BY FinderAssumption
    <3> QED BY <2>1, <3>1 DEF RestTypes
  <2> QED BY <2>1, <2>2, <2>3 DEF RestTypes
<1>5. CASE Searched(c)
  <2>2. CASE /\ curr' = [curr EXCEPT ![c] = goal[c]]
             /\ Goto(c, "path")
             /\ UNCHANGED <<mesh, graphVars, lockVars, goal, dist, pq, path, topVars, histVars>>
    <3>1. curr' \in [Callers -> Site \cup {-1}] /\ curr'[c] \in Site
          /\ \A b \in Callers : b # c => curr'[b] = curr[b]
      BY <2>2 DEF RestTypes
    <3>2. \A b \in Callers : pc'[b] = IF b = c THEN "path" ELSE pc[b]
      BY <2>2, <1>0 DEF Goto
    <3> QED BY <2>2, <3>1, <3>2 DEF RestTypes, graphVars, lockVars, topVars
  <2> QED BY <1>1, <1>4, <1>5, <2>2 DEF Searched
<1>6. CASE Reconstruct(c)
  <2>1. curr[c] \in Site /\ prev[curr[c]] \in Site \cup {-1}
    BY <1>6 DEF Reconstruct, RestTypes
  <2>2. /\ path' = [path EXCEPT ![c] = <<curr[c]>> \o @]
        /\ curr' = [curr EXCEPT ![c] = prev[curr[c]]]
        /\ UNCHANGED <<mesh, prev, pending, goal, start, cand, found>>
    BY <1>6 DEF Reconstruct, graphVars, lockVars, topVars
  <2>3. path' \in [Callers -> Seq(Site)]
    BY <2>1, <2>2 DEF RestTypes
  <2>4. curr' \in [Callers -> Site \cup {-1}] /\ curr'[c] = prev[curr[c]]
        /\ \A b \in Callers : b # c => curr'[b] = curr[b]
    BY <2>1, <2>2 DEF RestTypes
  <2>5. \A b \in Callers : pc'[b] = IF b = c THEN IF prev[curr[c]] = -1 THEN "ret" ELSE "path" ELSE pc[b]
    BY <1>6, <1>0 DEF Reconstruct, Goto
  <2> QED BY <2>1, <2>2, <2>3, <2>4, <2>5 DEF RestTypes
<1>7. CASE Return(c)
  BY <1>1, <1>4, <1>7 DEF Return
<1> QED BY <1>2, <1>3, <1>5, <1>6, <1>7 DEF Search

LEMMA TopNRest ==
  ASSUME SearchInv, RestTypes, NEW c \in Callers,
         TopSearch(c) \/ \E from, end \in Site : GetTopNShortestPaths(c, from, end)
  PROVE  RestTypes'
<1>0. \A b \in Callers : \A l : pc' = [pc EXCEPT ![c] = l] => pc'[b] = IF b = c THEN l ELSE pc[b]
  BY DEF SearchInv, SearchTypes
<1>1. ASSUME NEW from \in Site, NEW end \in Site, GetTopNShortestPaths(c, from, end)
      PROVE  RestTypes'
  <2>1. [path |-> <<from>>, distance |-> 0] \in PathResults
    BY DEF PathResults
  <2> QED BY <1>0, <1>1, <2>1 DEF GetTopNShortestPaths, Goto, graphVars, lockVars, RestTypes
<1>2. ASSUME NEW r \in cand[c], Extend(c, r) PROVE RestTypes'
  <2>1. CASE Panic
    BY <2>1, FreshRest DEF Panic
  <2>2. r \in PathResults /\ r.path \in Seq(Site) /\ r.distance \in Nat
    BY DEF RestTypes, PathResults
  <2>3. CASE /\ found' = [found EXCEPT ![c] = Append(@, r)]
             /\ cand' = [cand EXCEPT ![c] = @ \ {r}]
             /\ UNCHANGED <<mesh, graphVars, lockVars, pc, sptVars, start>>
    BY <2>2, <2>3 DEF RestTypes, graphVars, lockVars, sptVars
  <2>4. CASE ~Panic /\ LastNode(r) # goal[c]
    <3> DEFINE u == LastNode(r)
               next == {v \in Node : matrix[u][v] # Inf /\ ~OnPath(r, v)}
               ext == {[path |-> Append(r.path, v), distance |-> r.distance + matrix[u][v]] : v \in next}
    <3>1. u \in Node /\ cand' = [cand EXCEPT ![c] = (@ \ {r}) \cup ext]
          /\ UNCHANGED <<mesh, graphVars, lockVars, pc, sptVars, start, found>>
      BY <1>2, <2>4 DEF Extend
    <3>2. ext \subseteq PathResults
      <4> SUFFICES ASSUME NEW v \in next
                   PROVE [path |-> Append(r.path, v), distance |-> r.distance + matrix[u][v]] \in PathResults
        OBVIOUS
      <4>1. v \in Site /\ u \in Site /\ matrix[u][v] # Inf
        BY <3>1 DEF Node
      <4>2. matrix[u][v] \in Nat
        BY <4>1 DEF SearchInv, SearchTypes
      <4> HIDE DEF u
      <4> QED BY <4>1, <4>2, <2>2 DEF PathResults
    <3> HIDE DEF ext
    <3> QED BY <3>1, <3>2 DEF RestTypes, graphVars, lockVars, sptVars
  <2> QED BY <1>2, <2>1, <2>3, <2>4 DEF Extend
<1>3. CASE Extended(c)
  BY <1>3, MoveRest DEF Extended, Goto, graphVars, lockVars, sptVars, topVars, RestTypes
<1>4. CASE ReturnTopN(c)
  BY <1>0, <1>4, FinderAssumption DEF ReturnTopN, Goto, graphVars, lockVars, RestTypes
<1> QED BY <1>1, <1>2, <1>3, <1>4 DEF TopSearch

LEMMA NextRest == SearchInv /\ RestTypes /\ [Next]_vars => RestTypes'
<1> SUFFICES ASSUME SearchInv, RestTypes, [Next]_vars PROVE RestTypes'
  OBVIOUS
<1>1. ASSUME NEW c \in Callers, Search(c) \/ TopSearch(c) \/ Refresh(c) \/ Call(c)
      PROVE  RestTypes'
  BY <1>1, PathRest, TopNRest, GraphRest DEF Call
<1>2. ASSUME NEW n \in Site, Join(n) PROVE RestTypes'
  BY <1>2 DEF Join, graphVars, lockVars, sptVars, topVars, RestTypes
<1>3. CASE Restart
  BY <1>3, FreshRest DEF Restart
<1>4. CASE UNCHANGED vars
  BY <1>4 DEF vars, graphVars, lockVars, sptVars, topVars, RestTypes
<1> QED BY <1>1, <1>2, <1>3, <1>4 DEF Next

\* The histories name goroutines of the finder.
HistoryTypes == mixed \subseteq Callers /\ torn \subseteq Callers

LEMMA NextHistory == HistoryTypes /\ [Next]_vars => HistoryTypes'
<1> SUFFICES ASSUME HistoryTypes, [Next]_vars PROVE HistoryTypes'
  OBVIOUS
<1>1. CASE UNCHANGED histVars
  BY <1>1 DEF histVars, HistoryTypes
<1>2. ASSUME NEW where, Fresh(where) PROVE HistoryTypes'
  BY <1>2 DEF Fresh, HistoryTypes
<1>3. ASSUME NEW c \in Callers, WritesPrev(c) \/ mixed' = mixed \ {c} \/ UNCHANGED mixed,
             WritesMatrix \/ torn' = torn \ {c} \/ UNCHANGED torn
      PROVE  HistoryTypes'
  BY <1>3 DEF WritesPrev, WritesMatrix, HistoryTypes
<1>4. ASSUME NEW c \in Callers, Search(c) PROVE HistoryTypes'
  <2>1. ASSUME NEW r \in pq[c], Relax(c, r) PROVE HistoryTypes'
    BY <1>3, <2>1 DEF Relax
  <2>2. CASE Searched(c)
    BY <1>1, <1>2, <1>3, <2>2 DEF Searched, ReturnPath, Panic
  <2>3. CASE Reconstruct(c)
    BY <1>1, <2>3 DEF Reconstruct
  <2>4. CASE Return(c)
    BY <1>2, <1>3, <2>4 DEF Return, ReturnPath, Panic
  <2> QED BY <1>4, <2>1, <2>2, <2>3, <2>4 DEF Search
<1>5. ASSUME NEW c \in Callers, TopSearch(c) PROVE HistoryTypes'
  <2>1. ASSUME NEW r \in cand[c], Extend(c, r) PROVE HistoryTypes'
    BY <1>1, <1>2, <2>1 DEF Extend, Panic
  <2>2. CASE Extended(c) \/ ReturnTopN(c)
    BY <1>1, <1>3, <2>2 DEF Extended, ReturnTopN
  <2> QED BY <1>5, <2>1, <2>2 DEF TopSearch
<1>6. ASSUME NEW c \in Callers, Refresh(c) PROVE HistoryTypes'
  BY <1>1, <1>2, <1>3, <1>6 DEF Refresh, SetCost, Refreshed, Panic
<1>7. ASSUME NEW c \in Callers, Call(c) PROVE HistoryTypes'
  BY <1>1, <1>2, <1>3, <1>7 DEF Call, NewGraph, RefreshWeights, GetShortestPath, GetTopNShortestPaths, Panic
<1>8. ASSUME NEW n \in Site, Join(n) PROVE HistoryTypes'
  BY <1>1, <1>8 DEF Join
<1>9. CASE UNCHANGED vars
  BY <1>1, <1>9 DEF vars
<1> QED BY <1>2, <1>4, <1>5, <1>6, <1>7, <1>8, <1>9 DEF Next, Restart

\* The variables of the path finder keep their types: no goroutine indexes prev
\* with -1 in the reconstruction loop of GetShortestPath (finder.go), and the
\* costs are never negative, whatever the mesh and the callers.
THEOREM TypeCorrect == Spec => []TypeOK
<1>1. SearchInv /\ RestTypes /\ [Next]_vars => (SearchInv /\ RestTypes)'
  BY NextSearch, NextRest
<1>2. SearchInv /\ RestTypes /\ HistoryTypes => TypeOK
  BY DEF SearchInv, SearchTypes, Locks, RestTypes, HistoryTypes, TypeOK
<1>3. Init => HistoryTypes
  BY DEF Init, HistoryTypes
<1> QED BY InitSearch, InitRest, NextHistory, <1>1, <1>2, <1>3, PTL DEF Spec

------------------------------------------------------------------------------
(* Predecessors.                                                              *)

Searchers == Managers \cup Rpcs

Preds == [Site -> Site \cup {-1}]

\* What the reconstruction of a path from prev has in hand.
Backwards(d, end, l, at, p) ==
  /\ \A i \in 1..Len(p) : d[p[i]] # Inf
  /\ \A i \in 2..Len(p) : prev[p[i]] = p[i - 1]
  /\ p # <<>> => p[Len(p)] = end /\ prev[p[1]] = at
  /\ p = <<>> => l = "path" /\ at = end
  /\ l = "path" => d[at] # Inf
  /\ l = "ret" => at = -1

\* Each search has predecessors that justify its distances; they are in the
\* shared prev if no other search has written it.
Witnessed(c) ==
  /\ c \in Searchers
  /\ \E q \in Preds : Tree(dist[c], q, matrix, Node)
  /\ c \notin mixed => Tree(dist[c], prev, matrix, Node)

TreeInv ==
  /\ Inside(matrix, Node)
  /\ \A c \in Callers :
       /\ pc[c] \in {"search", "path", "ret"} => Witnessed(c)
       /\ pc[c] \notin {"path", "ret"} => path[c] = <<>>
       /\ c \notin mixed /\ pc[c] \in {"path", "ret"} =>
            Backwards(dist[c], goal[c], pc[c], curr[c], path[c])

\* The predecessors after taking entry r.
NewPred(d, q, m, ns, r) ==
  [v \in Site |-> IF v \in Better(d, m, ns, r) THEN r.node ELSE q[v]]

\* One relaxation keeps the predecessors a tree: the nodes whose predecessor
\* changes end up strictly farther than the node taken, so a circle through them
\* would have been one before, among the nodes no farther than it.
LEMMA RelaxTree ==
  ASSUME NEW ns \in SUBSET Site, NEW m \in Matrices,
         NEW d \in [Site -> Nat \cup {Inf}], d[Self] = 0,
         NEW r \in Entries, r.node \in ns, d[r.node] # Inf,
         NEW q \in Preds, Tree(d, q, m, ns)
  PROVE  /\ NewPred(d, q, m, ns, r) \in Preds
         /\ Tree(NewDist(d, m, ns, r), NewPred(d, q, m, ns, r), m, ns)
<1> DEFINE u == r.node
           better == Better(d, m, ns, r)
           e == NewDist(d, m, ns, r)
           p == NewPred(d, q, m, ns, r)
<1>0. Self \in Site /\ u \in Site /\ d[u] \in Nat /\ Self # -1
  <2>1. Self \in Site /\ Self \in Nat
    BY FinderAssumption
  <2>2. u \in Site
    OBVIOUS
  <2>3. d[u] \in Nat
    BY <2>2
  <2>4. Self # -1
    BY <2>1
  <2> QED BY <2>1, <2>2, <2>3, <2>4
<1>1. \A v \in better : /\ v \in ns /\ v \in Site
                        /\ m[u][v] # Inf /\ m[u][v] \in Nat
                        /\ d[v] = Inf \/ d[u] + m[u][v] < d[v]
  <2> SUFFICES ASSUME NEW v \in better
               PROVE  /\ v \in ns /\ v \in Site
                      /\ m[u][v] # Inf /\ m[u][v] \in Nat
                      /\ d[v] = Inf \/ d[u] + m[u][v] < d[v]
    OBVIOUS
  <2>1. v \in ns /\ v \in Site /\ m[u][v] # Inf /\ Less(d[u] + m[u][v], d[v])
    BY DEF Better
  <2>2. m[u][v] \in Nat
    BY <2>1, <1>0 DEF Matrices
  <2> QED BY <2>1, <2>2 DEF Less
<1>2. \A v \in Site : /\ v \in better => e[v] = d[u] + m[u][v] /\ p[v] = u
                      /\ v \notin better => e[v] = d[v] /\ p[v] = q[v]
  BY DEF NewDist, NewPred
<1>3. p \in Preds
  BY <1>0 DEF NewPred, Preds
<1> HIDE DEF better, e, p
<1>4. u \notin better /\ Self \notin better
  <2>1. d[Self] \in Nat /\ d[u] \in Nat
    BY <1>0
  <2> QED BY <1>0, <1>1, <2>1 DEF Inf
<1>5. \A v \in Site : /\ e[v] # Inf => v \in ns
                      /\ d[v] # Inf => e[v] # Inf /\ e[v] <= d[v]
  <2> SUFFICES ASSUME NEW v \in Site
               PROVE  /\ e[v] # Inf => v \in ns
                      /\ d[v] # Inf => e[v] # Inf /\ e[v] <= d[v]
    OBVIOUS
  <2>1. CASE v \in better
    BY <2>1, <1>0, <1>1, <1>2 DEF Inf
  <2>2. CASE v \notin better
    BY <2>2, <1>2 DEF Tree, Inf
  <2> QED BY <2>1, <2>2
<1>6. p[Self] = -1
  BY <1>0, <1>2, <1>4 DEF Tree
<1>7. ASSUME NEW v \in ns \ {Self}, e[v] # Inf
      PROVE  /\ p[v] \in ns /\ e[p[v]] # Inf /\ m[p[v]][v] # Inf
             /\ e[p[v]] + m[p[v]][v] <= e[v]
  <2>1. CASE v \in better
    <3>1. p[v] = u /\ e[u] = d[u] /\ e[v] = d[u] + m[u][v] /\ m[u][v] # Inf /\ m[u][v] \in Nat
      BY <2>1, <1>0, <1>1, <1>2, <1>4
    <3> QED BY <3>1, <1>0 DEF Inf
  <2>2. CASE v \notin better
    <3>1. e[v] = d[v] /\ p[v] = q[v] /\ d[v] # Inf
      BY <2>2, <1>2, <1>7
    <3>2. q[v] \in ns /\ d[q[v]] # Inf /\ m[q[v]][v] # Inf /\ d[q[v]] + m[q[v]][v] <= d[v]
      BY <3>1 DEF Tree
    <3>3. e[q[v]] # Inf /\ e[q[v]] <= d[q[v]]
      BY <3>2, <1>5
    <3>4. d[q[v]] \in Nat /\ m[q[v]][v] \in Nat /\ d[v] \in Nat
      BY <3>1, <3>2 DEF Matrices
    <3>5. e[q[v]] \in Int
      <4>1. q[v] \in Site
        BY <3>2
      <4>2. CASE q[v] \in better
        BY <4>1, <4>2, <1>0, <1>1, <1>2
      <4>3. CASE q[v] \notin better
        BY <4>1, <4>3, <3>4, <1>2
      <4> QED BY <4>2, <4>3
    <3> QED BY <3>1, <3>2, <3>3, <3>4, <3>5
  <2> QED BY <2>1, <2>2
<1>8. ASSUME NEW T \in SUBSET {v \in ns \ {Self} : e[v] # Inf}, T # {}
      PROVE  \E v \in T : p[v] \notin T
  <2> SUFFICES ASSUME \A v \in T : p[v] \in T PROVE FALSE
    OBVIOUS
  <2>1. \A v \in T : v \in ns \ {Self} /\ v \in Site /\ e[v] # Inf
    OBVIOUS
  <2>2. \A S \in SUBSET {v \in ns \ {Self} : d[v] # Inf} :
          S # {} => \E v \in S : q[v] \notin S
    BY DEF Tree
  <2>3. CASE T \cap better = {}
    <3>1. \A v \in T : d[v] # Inf /\ p[v] = q[v]
      BY <2>1, <2>3, <1>2
    <3>2. T \in SUBSET {v \in ns \ {Self} : d[v] # Inf}
      BY <2>1, <3>1
    <3>3. PICK v \in T : q[v] \notin T
      BY <2>2, <3>2, <1>8
    <3> QED BY <3>1, <3>3
  <2>4. CASE T \cap better # {}
    <3> DEFINE S == {v \in T : d[v] # Inf /\ d[v] <= d[u]}
    <3>1. PICK w \in T : w \in better
      BY <2>4
    <3>2. u \in T
      <4>1. p[w] = u
        BY <3>1, <1>1, <1>2
      <4> QED BY <4>1
    <3>3. u \in S
      BY <3>2, <1>0
    <3>4. S \in SUBSET {v \in ns \ {Self} : d[v] # Inf}
      BY <2>1
    <3>5. ASSUME NEW v \in S PROVE q[v] \in S
      <4>1. v \in Site /\ v \in ns \ {Self} /\ d[v] # Inf /\ d[v] <= d[u] /\ d[v] \in Nat
        BY <2>1
      <4>2. v \notin better
        <5>1. v \in better => d[u] + m[u][v] < d[v] /\ m[u][v] \in Nat
          BY <4>1, <1>1
        <5> QED BY <4>1, <1>0, <5>1
      <4>3. p[v] = q[v] /\ q[v] \in T
        BY <4>1, <4>2, <1>2
      <4>4. q[v] \in ns /\ d[q[v]] # Inf /\ m[q[v]][v] # Inf /\ d[q[v]] + m[q[v]][v] <= d[v]
        BY <4>1 DEF Tree
      <4>5. d[q[v]] \in Nat /\ m[q[v]][v] \in Nat
        BY <4>1, <4>4 DEF Matrices
      <4>6. d[q[v]] <= d[u]
        BY <4>1, <4>4, <4>5, <1>0
      <4> QED BY <4>3, <4>4, <4>6
    <3> HIDE DEF S
    <3> QED BY <2>2, <3>3, <3>4, <3>5
  <2> QED BY <2>3, <2>4
<1>9. \A v \in Site : e[v] # Inf => v \in ns
  BY <1>5
<1>10. Tree(e, p, m, ns)
  BY <1>6, <1>7, <1>8, <1>9 DEF Tree
<1> QED BY <1>3, <1>10 DEF e, p

LEMMA InitTree == Init => TreeInv
  BY DEF Init, TreeInv, Inside, NoEdges

LEMMA FreshTree ==
  ASSUME NEW where \in {"idle", "down"}, Fresh(where)
  PROVE  TreeInv'
  BY DEF Fresh, TreeInv, Inside, NoEdges

\* A step outside of all searches: the graph may only change when there are
\* none.
LEMMA OtherTree ==
  ASSUME SearchInv, TreeInv,
         UNCHANGED <<goal, dist, curr, path>> \/
           \E b \in Callers : /\ pc[b] \in {"idle", "topn", "topret"}
                              /\ \A a \in Callers : a # b => goal'[a] = goal[a]
                              /\ UNCHANGED <<dist, curr, path>>,
         \A b \in Callers : pc'[b] = pc[b] \/ (pc[b] \notin {"search", "path", "ret"} /\ pc'[b] \notin {"search", "path", "ret"}),
         \/ UNCHANGED <<size, matrix, prev, mixed>>
         \/ Inside(matrix, Node)' /\ \A b \in Callers : pc[b] \notin {"search", "path", "ret"}
  PROVE  TreeInv'
<1>1. Inside(matrix, Node)'
  BY DEF TreeInv, Inside, Node
<1>2. ASSUME NEW b \in Callers, pc'[b] \in {"search", "path", "ret"}
      PROVE  /\ pc[b] \in {"search", "path", "ret"} /\ pc'[b] = pc[b]
             /\ dist'[b] = dist[b] /\ goal'[b] = goal[b] /\ curr'[b] = curr[b] /\ path'[b] = path[b]
             /\ UNCHANGED <<size, matrix, prev, mixed>>
  BY <1>2
<1>3. ASSUME NEW b \in Callers, pc'[b] \in {"search", "path", "ret"} PROVE Witnessed(b)'
  <2>1. Witnessed(b) /\ dist'[b] = dist[b] /\ UNCHANGED <<size, matrix, prev, mixed>>
    BY <1>2, <1>3 DEF TreeInv
  <2>2. Node' = Node
    BY <2>1 DEF Node
  <2> QED BY <2>1, <2>2 DEF Witnessed
<1>4. ASSUME NEW b \in Callers, pc'[b] \notin {"path", "ret"} PROVE path'[b] = <<>>
  BY <1>4 DEF TreeInv
<1>5. ASSUME NEW b \in Callers, b \notin mixed', pc'[b] \in {"path", "ret"}
      PROVE  Backwards(dist[b], goal[b], pc[b], curr[b], path[b])'
  BY <1>2, <1>5 DEF TreeInv, Backwards
<1> QED BY <1>1, <1>3, <1>4, <1>5 DEF TreeInv

LEMMA Moves ==
  ASSUME SearchInv, NEW c \in Callers, NEW l, pc' = [pc EXCEPT ![c] = l]
  PROVE  \A b \in Callers : pc'[b] = IF b = c THEN l ELSE pc[b]
  BY DEF SearchInv, SearchTypes

LEMMA GraphTree ==
  ASSUME SearchInv, TreeInv, NEW c \in Callers, Refresh(c) \/ NewGraph(c) \/ RefreshWeights(c)
  PROVE  TreeInv'
<1>1. CASE NewGraph(c)
  <2>1. \A b \in Callers : pc[b] \notin {"search", "path", "ret"}
    <3>1. Self \notin Node
      BY <1>1, FinderAssumption DEF Node, NewGraph
    <3> QED BY <3>1 DEF SearchInv, Searching, Sound
  <2>2. PICK ps \in GetAllPaths :
          /\ \E n \in Site :
               /\ \E e \in ps : n \in {e[1], e[2]}
               /\ \A e \in ps : e[1] <= n /\ e[2] <= n
               /\ size' = n + 1
          /\ \E cost \in [ps -> Weights] :
               matrix' = [u \in Site |-> [v \in Site |->
                            IF <<u, v>> \in ps THEN cost[<<u, v>>] ELSE Inf]]
    BY <1>1 DEF NewGraph
  <2>3. PICK n \in Site : (\A e \in ps : e[1] <= n /\ e[2] <= n) /\ size' = n + 1
    BY <2>2
  <2>4. PICK cost \in [ps -> Weights] :
          matrix' = [u \in Site |-> [v \in Site |-> IF <<u, v>> \in ps THEN cost[<<u, v>>] ELSE Inf]]
    BY <2>2
  <2>5. ASSUME NEW u \in Site, NEW v \in Site, matrix'[u][v] # Inf
        PROVE  u \in Node' /\ v \in Node'
    <3>1. <<u, v>> \in ps
      BY <2>4, <2>5
    <3>2. u <= n /\ v <= n
      <4> DEFINE e == <<u, v>>
      <4>1. e[1] = u /\ e[2] = v /\ e \in ps
        BY <3>1
      <4> QED BY <2>3, <4>1
    <3>3. u \in Nat /\ v \in Nat /\ n \in Nat
      BY FinderAssumption
    <3> QED BY <2>3, <3>2, <3>3 DEF Node
  <2>6. Inside(matrix, Node)'
    BY <2>5 DEF Inside
  <2> QED BY <1>1, <2>1, <2>6, OtherTree DEF NewGraph, sptVars
<1>2. CASE RefreshWeights(c)
  <2>1. \A b \in Callers : pc[b] \notin {"search", "path", "ret"}
    BY <1>2 DEF RefreshWeights, SearchInv, Locks
  <2>2. Inside(matrix, Node)'
    BY <1>2 DEF RefreshWeights, NoEdges, Inside
  <2>3. \A b \in Callers : pc'[b] = IF b = c THEN "refresh" ELSE pc[b]
    BY <1>2, Moves DEF RefreshWeights, Goto
  <2> QED BY <1>2, <2>1, <2>2, <2>3, OtherTree DEF RefreshWeights, sptVars
<1>3. CASE Refresh(c)
  <2>1. pc[c] = "refresh" /\ \A b \in Callers : pc[b] \notin {"search", "path", "ret"}
    <3>1. pc[c] = "refresh"
      BY <1>3 DEF Refresh, SetCost, Refreshed
    <3> QED BY <3>1, FinderAssumption DEF SearchInv, Locks, None
  <2>2. CASE Panic
    BY <2>2, FreshTree DEF Panic
  <2>3. CASE ReturnRefresh(c) /\ UNCHANGED <<mesh, graphVars, readers, sptVars, topVars, histVars>>
    <3>1. \A b \in Callers : pc'[b] = IF b = c THEN "idle" ELSE pc[b]
      BY <2>3, Moves DEF ReturnRefresh, Goto
    <3> QED BY <2>1, <2>3, <3>1, OtherTree DEF graphVars, sptVars, histVars
  <2>4. ASSUME NEW e \in Node \X Node, NEW cost \in Weights,
               matrix' = [matrix EXCEPT ![e[1]][e[2]] = cost],
               UNCHANGED <<mesh, size, prev, readers, writer, pc, sptVars, topVars, mixed>>
        PROVE  TreeInv'
    <3>1. Node' = Node
      BY <2>4 DEF Node
    <3>2. ASSUME NEW u \in Site, NEW v \in Site, matrix'[u][v] # Inf
          PROVE  u \in Node /\ v \in Node
      <4>1. e[1] \in Node /\ e[2] \in Node
        OBVIOUS
      <4>2. CASE u = e[1] /\ v = e[2]
        BY <4>1, <4>2
      <4>3. CASE ~(u = e[1] /\ v = e[2])
        <5>1. matrix'[u][v] = matrix[u][v]
          BY <2>4, <4>3 DEF SearchInv, SearchTypes
        <5> QED BY <3>2, <5>1 DEF TreeInv, Inside
      <4> QED BY <4>2, <4>3
    <3>3. Inside(matrix, Node)'
      BY <3>1, <3>2 DEF Inside
    <3> QED BY <2>1, <2>4, <3>3, OtherTree DEF sptVars
  <2>5. ASSUME NEW e \in pending, SetCost(c, e) PROVE TreeInv'
    BY <2>2, <2>3, <2>4, <2>5 DEF SetCost
  <2> QED BY <1>3, <2>3, <2>5 DEF Refresh, Refreshed
<1> QED BY <1>1, <1>2, <1>3

LEMMA BeginTree ==
  ASSUME SearchInv, RestTypes, TreeInv, NEW c \in Callers, NEW end \in Site, GetShortestPath(c, end)
  PROVE  TreeInv'
<1>1. CASE Self \notin Node
  BY <1>1, FreshTree DEF GetShortestPath, Panic
<1>2. CASE Self \in Node
  <2>0. Self \in Site /\ Self \in Nat
    BY FinderAssumption
  <2>1. /\ dist' = [dist EXCEPT ![c] = [NoDist EXCEPT ![Self] = 0]]
        /\ goal' = [goal EXCEPT ![c] = end]
        /\ pc' = [pc EXCEPT ![c] = "search"]
        /\ prev' = NoPrev
        /\ pc[c] = "idle" /\ c \in Searchers
        /\ \A b \in Callers : b # c /\ pc[b] \in {"search", "path", "ret"} => b \in mixed'
        /\ UNCHANGED <<size, matrix, curr, path>>
    BY <1>2 DEF GetShortestPath, Goto, Searchers, WritesPrev
  <2>2. \A b \in Callers : pc'[b] = IF b = c THEN "search" ELSE pc[b]
    BY <2>1, Moves
  <2>3. \A b \in Callers : b # c => dist'[b] = dist[b] /\ goal'[b] = goal[b]
    BY <2>1 DEF SearchInv, SearchTypes, RestTypes
  <2>4. dist'[c] = [v \in Site |-> IF v = Self THEN 0 ELSE Inf]
    BY <2>0, <2>1 DEF SearchInv, SearchTypes, NoDist
  <2>5. Node' = Node
    BY <2>1 DEF Node
  <2>6. NoPrev \in Preds /\ Tree(dist'[c], NoPrev, matrix, Node)
    BY <1>2, <2>0, <2>4 DEF Tree, NoPrev, Preds, Node
  <2>7. ASSUME NEW b \in Callers
        PROVE  /\ pc'[b] \in {"search", "path", "ret"} => Witnessed(b)'
               /\ pc'[b] \notin {"path", "ret"} => path'[b] = <<>>
               /\ b \notin mixed' /\ pc'[b] \in {"path", "ret"} =>
                    Backwards(dist[b], goal[b], pc[b], curr[b], path[b])'
    <3>1. CASE b = c
      <4>1. Tree(dist'[c], prev', matrix', Node') /\ prev' \in Preds
        BY <2>1, <2>5, <2>6
      <4>2. Witnessed(c)'
        BY <2>1, <4>1 DEF Witnessed
      <4>3. pc'[c] = "search" /\ path'[c] = <<>>
        BY <2>1, <2>2 DEF TreeInv
      <4> QED BY <3>1, <4>2, <4>3
    <3>2. CASE b # c
      <4>1. /\ pc'[b] = pc[b] /\ dist'[b] = dist[b] /\ goal'[b] = goal[b]
            /\ path'[b] = path[b]
        BY <3>2, <2>1, <2>2, <2>3
      <4>2. pc[b] \in {"search", "path", "ret"} => Witnessed(b) /\ b \in mixed'
        BY <2>1, <3>2 DEF TreeInv
      <4> QED BY <2>1, <2>5, <4>1, <4>2 DEF TreeInv, Witnessed
    <3> QED BY <3>1, <3>2
  <2>8. Inside(matrix, Node)'
    BY <2>1, <2>5 DEF TreeInv
  <2> QED BY <2>7, <2>8 DEF TreeInv
<1> QED BY <1>1, <1>2

LEMMA RelaxTreeStep ==
  ASSUME SearchInv, RestTypes, TreeInv, NEW c \in Callers, NEW r \in pq[c], Relax(c, r)
  PROVE  TreeInv'
<1> DEFINE d == dist[c]
           e == NewDist(d, matrix, Node, r)
<1>1. /\ pc[c] = "search"
      /\ dist' = [dist EXCEPT ![c] = e]
      /\ prev' = NewPred(d, prev, matrix, Node, r)
      /\ mixed \subseteq mixed'
      /\ \A b \in Callers : b # c /\ pc[b] \in {"search", "path", "ret"} => b \in mixed'
      /\ UNCHANGED <<size, matrix, pc, goal, curr, path>>
  BY DEF Relax, lockVars, NewDist, NewPred, Better, Shorter, WritesPrev
<1>2. /\ d \in [Site -> Nat \cup {Inf}]
      /\ matrix \in Matrices
      /\ Node \in SUBSET Site
      /\ prev \in Preds /\ r \in Entries
  BY DEF SearchInv, SearchTypes, RestTypes, Node, Matrices, Preds
<1>3. r.node \in Node /\ d[r.node] # Inf /\ d[Self] = 0
  BY <1>1 DEF SearchInv, Searching, Sound
<1>4. Witnessed(c)
  BY <1>1 DEF TreeInv
<1>5. ASSUME NEW q \in Preds, Tree(d, q, matrix, Node)
      PROVE  /\ NewPred(d, q, matrix, Node, r) \in Preds
             /\ Tree(e, NewPred(d, q, matrix, Node, r), matrix, Node)
  <2> HIDE DEF d
  <2> QED BY <1>2, <1>3, <1>5, RelaxTree
<1>6. \E q \in Preds : Tree(e, q, matrix, Node)
  BY <1>4, <1>5 DEF Witnessed
<1>7. c \notin mixed' => Tree(e, prev', matrix, Node)
  BY <1>1, <1>2, <1>4, <1>5 DEF Witnessed
<1>8. dist'[c] = e /\ \A b \in Callers : b # c => dist'[b] = dist[b]
  BY <1>1 DEF SearchInv, SearchTypes
<1>9. Node' = Node
  BY <1>1 DEF Node
<1> HIDE DEF e
<1>10. ASSUME NEW b \in Callers
       PROVE  /\ pc'[b] \in {"search", "path", "ret"} => Witnessed(b)'
              /\ pc'[b] \notin {"path", "ret"} => path'[b] = <<>>
              /\ b \notin mixed' /\ pc'[b] \in {"path", "ret"} =>
                   Backwards(dist[b], goal[b], pc[b], curr[b], path[b])'
  <2>1. CASE b = c
    BY <2>1, <1>1, <1>4, <1>6, <1>7, <1>8, <1>9 DEF Witnessed, TreeInv
  <2>2. CASE b # c
    <3>1. pc[b] \in {"search", "path", "ret"} => Witnessed(b) /\ b \in mixed'
      BY <1>1, <2>2 DEF TreeInv
    <3> QED BY <1>1, <1>8, <1>9, <2>2, <3>1 DEF TreeInv, Witnessed
  <2> QED BY <2>1, <2>2
<1>11. Inside(matrix, Node)'
  BY <1>1, <1>9 DEF TreeInv
<1> QED BY <1>10, <1>11 DEF TreeInv

LEMMA EndTree ==
  ASSUME SearchInv, RestTypes, TreeInv, NEW c \in Callers, Searched(c) \/ Reconstruct(c) \/ Return(c)
  PROVE  TreeInv'
<1>1. CASE Panic
  BY <1>1, FreshTree DEF Panic
\* What holds of the other goroutines and of the graph.
<1>2. ASSUME NEW l \in {"idle", "path", "ret"}, pc' = [pc EXCEPT ![c] = l],
             UNCHANGED <<size, matrix, prev>>,
             \A b \in Callers : b # c => /\ dist'[b] = dist[b] /\ goal'[b] = goal[b]
                                         /\ curr'[b] = curr[b] /\ path'[b] = path[b],
             \A b \in Callers : b # c => (b \in mixed' <=> b \in mixed),
             l # "idle" => /\ dist'[c] = dist[c] /\ pc[c] \in {"search", "path", "ret"}
                           /\ UNCHANGED mixed
                           /\ c \notin mixed =>
                                Backwards(dist[c], goal'[c], l, curr'[c], path'[c]),
             l = "idle" => path'[c] = <<>>
      PROVE  TreeInv'
  <2>1. \A b \in Callers : pc'[b] = IF b = c THEN l ELSE pc[b]
    <3>1. pc' = [pc EXCEPT ![c] = l]
      BY <1>2
    <3> QED BY <3>1, Moves
  <2>2. Node' = Node
    BY <1>2 DEF Node
  <2>3. ASSUME NEW b \in Callers
        PROVE  /\ pc'[b] \in {"search", "path", "ret"} => Witnessed(b)'
               /\ pc'[b] \notin {"path", "ret"} => path'[b] = <<>>
               /\ b \notin mixed' /\ pc'[b] \in {"path", "ret"} =>
                    Backwards(dist[b], goal[b], pc[b], curr[b], path[b])'
    <3>1. CASE b = c
      <4>1. pc'[c] = l
        BY <2>1
      <4>2. CASE l = "idle"
        BY <3>1, <4>1, <4>2, <1>2
      <4>3. CASE l # "idle"
        <5>1. Witnessed(c)'
          BY <4>3, <1>2, <2>2 DEF TreeInv, Witnessed
        <5>2. c \notin mixed' => Backwards(dist[c], goal[c], pc[c], curr[c], path[c])'
          BY <4>1, <4>3, <1>2 DEF Backwards
        <5> QED BY <3>1, <4>1, <4>3, <5>1, <5>2
      <4> QED BY <4>2, <4>3
    <3>2. CASE b # c
      BY <3>2, <1>2, <2>1, <2>2 DEF TreeInv, Witnessed, Backwards
    <3> QED BY <3>1, <3>2
  <2>4. Inside(matrix, Node)'
    BY <1>2, <2>2 DEF TreeInv
  <2> QED BY <2>3, <2>4 DEF TreeInv
<1>3. CASE ReturnPath(c) /\ UNCHANGED <<mesh, graphVars, writer, pending, pq, curr, topVars, torn>>
  <2>1. /\ pc' = [pc EXCEPT ![c] = "idle"] /\ path' = [path EXCEPT ![c] = <<>>]
        /\ goal' = [goal EXCEPT ![c] = Self] /\ dist' = [dist EXCEPT ![c] = NoDist]
        /\ mixed' = mixed \ {c}
        /\ UNCHANGED <<size, matrix, prev, curr>>
    BY <1>3 DEF ReturnPath, Goto, graphVars
  <2>2. path'[c] = <<>> /\ \A b \in Callers : b # c =>
          dist'[b] = dist[b] /\ goal'[b] = goal[b] /\ path'[b] = path[b]
    BY <2>1 DEF SearchInv, SearchTypes, RestTypes
  <2> QED BY <2>1, <2>2, <1>2
<1>4. CASE Searched(c)
  <2>1. CASE /\ dist[c][goal[c]] # Inf
             /\ curr' = [curr EXCEPT ![c] = goal[c]]
             /\ Goto(c, "path")
             /\ UNCHANGED <<mesh, graphVars, lockVars, goal, dist, pq, path, topVars, histVars>>
    <3>1. /\ pc' = [pc EXCEPT ![c] = "path"] /\ pc[c] = "search" /\ path[c] = <<>>
          /\ UNCHANGED <<size, matrix, prev, goal, dist, path, mixed>>
      BY <1>4, <2>1 DEF Searched, Goto, graphVars, histVars, TreeInv
    <3>2. curr'[c] = goal[c] /\ \A b \in Callers : b # c => curr'[b] = curr[b]
      BY <2>1 DEF RestTypes
    <3>3. Backwards(dist[c], goal'[c], "path", curr'[c], path'[c])
      BY <2>1, <3>1, <3>2 DEF Backwards
    <3> QED BY <3>1, <3>2, <3>3, <1>2
  <2> QED BY <1>1, <1>3, <1>4, <2>1 DEF Searched
<1>5. CASE Reconstruct(c)
  <2> DEFINE at == curr[c]
             l == IF prev[at] = -1 THEN "ret" ELSE "path"
  <2>1. /\ pc' = [pc EXCEPT ![c] = l] /\ pc[c] = "path"
        /\ UNCHANGED <<size, matrix, prev, goal, dist, mixed>>
        /\ path' = [path EXCEPT ![c] = <<at>> \o @]
        /\ curr' = [curr EXCEPT ![c] = prev[at]]
    BY <1>5 DEF Reconstruct, Goto, graphVars, histVars
  <2>2. /\ curr'[c] = prev[at] /\ path'[c] = <<at>> \o path[c]
        /\ \A b \in Callers : b # c => curr'[b] = curr[b] /\ path'[b] = path[b]
    BY <2>1 DEF RestTypes
  <2>3. c \notin mixed => Backwards(dist[c], goal[c], l, prev[at], <<at>> \o path[c])
    <3> SUFFICES ASSUME c \notin mixed PROVE Backwards(dist[c], goal[c], l, prev[at], <<at>> \o path[c])
      OBVIOUS
    <3>1. Backwards(dist[c], goal[c], "path", at, path[c]) /\ Witnessed(c)
      BY <2>1 DEF TreeInv
    <3>2. Tree(dist[c], prev, matrix, Node)
      BY <3>1 DEF Witnessed
    <3>3. at \in Site /\ path[c] \in Seq(Site)
      BY <2>1 DEF RestTypes
    <3>4. dist[c][at] # Inf
      BY <3>1 DEF Backwards
    <3> DEFINE p == path[c]
               s == <<at>> \o p
    <3>5. /\ Len(p) \in Nat /\ Len(s) = Len(p) + 1 /\ s # <<>> /\ s[1] = at
          /\ \A i \in 2..Len(s) : s[i] = p[i - 1] /\ i - 1 \in 1..Len(p)
      BY <3>3
    <3> HIDE DEF s
    <3>6. \A i \in 1..Len(s) : dist[c][s[i]] # Inf
      <4> TAKE i \in 1..Len(s)
      <4>1. i = 1 \/ i \in 2..Len(s)
        BY <3>5
      <4> QED BY <4>1, <3>1, <3>4, <3>5 DEF Backwards
    <3>7. \A i \in 2..Len(s) : prev[s[i]] = s[i - 1]
      <4> TAKE i \in 2..Len(s)
      <4>1. CASE i = 2
        <5>1. p # <<>> /\ s[2] = p[1]
          BY <4>1, <3>3, <3>5
        <5> QED BY <4>1, <5>1, <3>1, <3>5 DEF Backwards
      <4>2. CASE i \in 3..Len(s)
        <5>1. s[i] = p[i - 1] /\ s[i - 1] = p[i - 2] /\ i - 1 \in 2..Len(p) /\ (i - 1) - 1 = i - 2
          <6>1. i \in 2..Len(s) /\ i - 1 \in 2..Len(s) /\ (i - 1) - 1 = i - 2
            BY <4>2, <3>5
          <6>2. s[i] = p[i - 1] /\ s[i - 1] = p[i - 2] /\ i - 1 \in 1..Len(p)
            BY <6>1, <3>5
          <6> QED BY <4>2, <6>1, <6>2, <3>5
        <5> QED BY <5>1, <3>1 DEF Backwards
      <4> QED BY <4>1, <4>2, <3>5
    <3>8. s[Len(s)] = goal[c]
      <4>1. CASE p = <<>>
        BY <4>1, <3>1, <3>5 DEF Backwards
      <4>2. CASE p # <<>>
        <5>1. Len(p) >= 1 /\ Len(s) \in 2..Len(s) /\ Len(s) - 1 = Len(p)
          BY <4>2, <3>3, <3>5
        <5> QED BY <4>2, <5>1, <3>1, <3>5 DEF Backwards
      <4> QED BY <4>1, <4>2
    <3>9. l = "path" => dist[c][prev[at]] # Inf
      <4> SUFFICES ASSUME prev[at] # -1 PROVE dist[c][prev[at]] # Inf
        OBVIOUS
      <4>1. at \in Node \ {Self}
        BY <3>2, <3>3, <3>4 DEF Tree
      <4> QED BY <3>2, <3>4, <4>1 DEF Tree
    <3>10. l = "ret" => prev[at] = -1
      OBVIOUS
    <3> QED BY <3>5, <3>6, <3>7, <3>8, <3>9, <3>10 DEF Backwards, s
  <2>4. l \in {"path", "ret"}
    OBVIOUS
  <2> HIDE DEF l
  <2> QED BY <2>1, <2>2, <2>3, <2>4, <1>2
<1>6. CASE Return(c)
  BY <1>1, <1>3, <1>6 DEF Return
<1> QED BY <1>4, <1>5, <1>6

LEMMA TopNTree ==
  ASSUME SearchInv, RestTypes, TreeInv, NEW c \in Callers,
         TopSearch(c) \/ \E from, end \in Site : GetTopNShortestPaths(c, from, end)
  PROVE  TreeInv'
<1>1. CASE Panic
  BY <1>1, FreshTree DEF Panic
<1>2. ASSUME NEW from \in Site, NEW end \in Site, GetTopNShortestPaths(c, from, end)
      PROVE  TreeInv'
  <2>1. \A b \in Callers : pc'[b] = IF b = c THEN "topn" ELSE pc[b]
    <3>1. pc' = [pc EXCEPT ![c] = "topn"]
      BY <1>2 DEF GetTopNShortestPaths, Goto
    <3> QED BY <3>1, Moves
  <2>2. \A a \in Callers : a # c => goal'[a] = goal[a]
    BY <1>2 DEF GetTopNShortestPaths, RestTypes
  <2>3. pc[c] = "idle" /\ UNCHANGED <<size, matrix, prev, dist, curr, path, mixed>>
    BY <1>2 DEF GetTopNShortestPaths, graphVars, histVars
  <2> QED BY <2>1, <2>2, <2>3, OtherTree
<1>3. CASE TopSearch(c)
  <2>1. CASE ReturnTopN(c)
    <3>1. \A b \in Callers : pc'[b] = IF b = c THEN "idle" ELSE pc[b]
      BY <2>1, Moves DEF ReturnTopN, Goto
    <3>2. \A a \in Callers : a # c => goal'[a] = goal[a]
      BY <2>1 DEF ReturnTopN, RestTypes
    <3>3. pc[c] = "topret" /\ UNCHANGED <<size, matrix, prev, dist, curr, path, mixed>>
      BY <2>1 DEF ReturnTopN, graphVars
    <3> QED BY <3>1, <3>2, <3>3, OtherTree
  <2>2. CASE Extended(c)
    <3>1. \A b \in Callers : pc'[b] = IF b = c THEN "topret" ELSE pc[b]
      BY <2>2, Moves DEF Extended, Goto
    <3>2. pc[c] = "topn" /\ UNCHANGED <<size, matrix, prev, goal, dist, curr, path, mixed>>
      BY <2>2 DEF Extended, graphVars, sptVars, histVars
    <3> QED BY <3>1, <3>2, OtherTree
  <2>3. ASSUME NEW r \in cand[c], Extend(c, r), ~Panic PROVE TreeInv'
    <3>1. UNCHANGED <<size, matrix, prev, pc, goal, dist, curr, path, mixed>>
      BY <2>3 DEF Extend, graphVars, sptVars, histVars
    <3> QED BY <3>1, OtherTree
  <2> QED BY <1>1, <1>3, <2>1, <2>2, <2>3 DEF TopSearch
<1> QED BY <1>2, <1>3

LEMMA NextTree == SearchInv /\ RestTypes /\ TreeInv /\ [Next]_vars => TreeInv'
<1> SUFFICES ASSUME SearchInv, RestTypes, TreeInv, [Next]_vars PROVE TreeInv'
  OBVIOUS
<1>1. ASSUME NEW c \in Callers, Search(c) PROVE TreeInv'
  BY <1>1, RelaxTreeStep, EndTree DEF Search
<1>2. ASSUME NEW c \in Callers, TopSearch(c) \/ Refresh(c) \/ Call(c) PROVE TreeInv'
  BY <1>2, GraphTree, BeginTree, TopNTree DEF Call
<1>3. CASE UNCHANGED <<size, matrix, prev, pc, goal, dist, curr, path, mixed>>
  BY <1>3, OtherTree
<1>4. ASSUME NEW n \in Site, Join(n) PROVE TreeInv'
  BY <1>3, <1>4 DEF Join, graphVars, sptVars, histVars
<1>5. CASE Restart
  BY <1>5, FreshTree DEF Restart
<1>6. CASE UNCHANGED vars
  BY <1>3, <1>6 DEF vars, graphVars, sptVars, histVars
<1> QED BY <1>1, <1>2, <1>4, <1>5, <1>6 DEF Next

\* A search that has emptied its queue: nothing improves its distances.
LEMMA SettledClosed ==
  ASSUME SearchInv, NEW c \in Callers, Settled(c)
  PROVE  Closed(dist[c], matrix, Node)
<1>1. Sound(dist[c], pq[c], matrix, Node) /\ pq[c] = {}
  BY DEF SearchInv, Searching, Settled
<1> QED BY <1>1 DEF Sound, Closed

LEMMA TreeDistances == SearchInv /\ RestTypes /\ TreeInv => DistancesExact
<1> SUFFICES ASSUME SearchInv, RestTypes, TreeInv, NEW c \in Callers, pc[c] = "search", pq[c] = {}
             PROVE  dist[c][goal[c]] = Distance(matrix, Self, goal[c])
  BY DEF DistancesExact
<1>1. Closed(dist[c], matrix, Node)
  BY SettledClosed DEF Settled
<1>2. Inside(matrix, Node) /\ Witnessed(c)
  BY DEF TreeInv
<1>3. PICK q \in Preds : Tree(dist[c], q, matrix, Node)
  BY <1>2 DEF Witnessed
<1>4. /\ Node \in SUBSET Site /\ matrix \in Matrices /\ goal[c] \in Site
      /\ dist[c] \in [Site -> Nat \cup {Inf}]
  BY DEF SearchInv, SearchTypes, RestTypes, Node, Matrices
<1> QED BY <1>1, <1>2, <1>3, <1>4, DistanceExact

LEMMA TreePaths == SearchInv /\ RestTypes /\ TreeInv => PathsShortest
<1> SUFFICES ASSUME SearchInv, RestTypes, TreeInv, NEW c \in Callers, c \notin mixed, pc[c] = "ret"
             PROVE  /\ path[c] \in SimplePaths(matrix, Self, goal[c])
                    /\ Cost(matrix, path[c]) = Distance(matrix, Self, goal[c])
  BY DEF PathsShortest
<1>1. Closed(dist[c], matrix, Node)
  BY SettledClosed DEF Settled
<1>2. Inside(matrix, Node) /\ Tree(dist[c], prev, matrix, Node)
  BY DEF TreeInv, Witnessed
<1>3. /\ Node \in SUBSET Site /\ matrix \in Matrices /\ path[c] \in Seq(Site)
      /\ dist[c] \in [Site -> Nat \cup {Inf}]
  BY DEF SearchInv, SearchTypes, RestTypes, Node, Matrices
<1>4. Backwards(dist[c], goal[c], "ret", curr[c], path[c])
  BY DEF TreeInv
<1>5. path[c] # <<>> /\ path[c][Len(path[c])] = goal[c] /\ prev[path[c][1]] = -1
  BY <1>4 DEF Backwards
<1>6. path[c][1] = Self
  <2> SUFFICES ASSUME path[c][1] # Self PROVE FALSE
    OBVIOUS
  <2>1. path[c][1] \in Site /\ 1 \in 1..Len(path[c])
    BY <1>3, <1>5
  <2>2. dist[c][path[c][1]] # Inf
    BY <2>1, <1>4 DEF Backwards
  <2>3. path[c][1] \in Node \ {Self}
    BY <2>1, <2>2, <1>2 DEF Tree
  <2>4. prev[path[c][1]] \in Node
    BY <2>2, <2>3, <1>2 DEF Tree
  <2>5. -1 \in Site
    BY <2>4, <1>5 DEF Node
  <2> QED BY <2>5, FinderAssumption
<1>7. IsChain(dist[c], prev, path[c])
  BY <1>3, <1>4, <1>5, <1>6 DEF IsChain, Backwards
<1> DEFINE d == dist[c]
           p == path[c]
<1>8. /\ p \in SimplePaths(matrix, Self, p[Len(p)])
      /\ Cost(matrix, p) = d[p[Len(p)]]
      /\ Distance(matrix, Self, p[Len(p)]) = d[p[Len(p)]]
  <2> HIDE DEF d, p
  <2> QED BY <1>1, <1>2, <1>3, <1>7, ChainIsShortest DEF d, p
<1> QED BY <1>5, <1>8

LEMMA TreeAlways == Spec => [](SearchInv /\ RestTypes /\ TreeInv)
<1>1. SearchInv /\ RestTypes /\ TreeInv /\ [Next]_vars => (SearchInv /\ RestTypes /\ TreeInv)'
  BY NextSearch, NextRest, NextTree
<1> QED BY InitSearch, InitRest, InitTree, <1>1, PTL DEF Spec

\* However many goroutines share the graph, a search of GetShortestPath that has
\* emptied its queue (finder.go, Dijkstra) knows the true distance of its goal,
\* over all simple paths of the matrix as it still is, or rightly has none: the
\* inverted order of the queue delays the distances but never falsifies them.
THEOREM DistancesExactHolds == Spec => []DistancesExact
  BY TreeAlways, TreeDistances, PTL

\* Among any number of goroutines that share the graph, GetShortestPath returns a
\* path from this site to the goal without a repeated node, and none is cheaper,
\* unless another search wrote the shared prev since it began; edges of cost 0,
\* refreshes, and searches of GetTopNShortestPaths included.
THEOREM ShortestReturnedHolds == Spec => []ShortestReturned
<1>1. SearchInv /\ RestTypes /\ TreeInv => ShortestReturned
  BY TreeDistances, TreePaths DEF ShortestReturned
<1> QED BY TreeAlways, <1>1, PTL

------------------------------------------------------------------------------
(* The paths of GetTopNShortestPaths.                                         *)

Prefix(p, q) == Len(p) <= Len(q) /\ \A i \in 1..Len(p) : p[i] = q[i]

\* A path that is being extended from s towards t.
Partial(m, s, t, p) ==
  /\ IsWalk(m, p) /\ p[1] = s
  /\ \A i, j \in 1..Len(p) : p[i] = p[j] => i = j
  /\ \A i \in 1..Len(p) - 1 : p[i] # t

\* The search frontier C and the results F: the candidates are partial paths
\* with their costs, none a beginning of another or of a result; the results are
\* the cheapest paths so far, in order; and each path from s to t is a result or
\* continues a candidate.
Frontier(m, s, t, C, F) ==
  /\ s # t
  /\ \A r \in C : Partial(m, s, t, r.path) /\ r.distance = Cost(m, r.path)
  /\ \A r, u \in C : Prefix(r.path, u.path) => r = u
  /\ \A i \in 1..Len(F) :
       /\ F[i].path \in SimplePaths(m, s, t) /\ F[i].distance = Cost(m, F[i].path)
       /\ \A r \in C : F[i].distance <= r.distance /\ ~Prefix(r.path, F[i].path)
       /\ \A j \in 1..Len(F) : /\ i <= j => F[i].distance <= F[j].distance
                               /\ F[i].path = F[j].path => i = j
  /\ \A p \in SimplePaths(m, s, t) :
       \/ \E i \in 1..Len(F) : F[i].path = p
       \/ \E r \in C : Prefix(r.path, p)

\* What GetTopNShortestPaths has in hand; the candidates and results make sense
\* on the matrix it began on.
Exact(c) ==
  /\ pc[c] \in {"topn", "topret"} => Len(found[c]) <= N
  /\ pc[c] \in {"topn", "topret"} /\ c \notin torn =>
       Frontier(matrix, start[c], goal[c], cand[c], found[c])
  /\ pc[c] = "topret" => cand[c] = {} \/ Len(found[c]) = N
  /\ pc[c] \notin {"topn", "topret"} => found[c] = <<>>

TopInv == \A c \in Callers : Exact(c)

LEMMA PrefixSelf == ASSUME NEW p PROVE Len(p) \in Nat => Prefix(p, p)
  BY DEF Prefix

\* How beginnings and one more node go together.
LEMMA PrefixAppend ==
  ASSUME NEW p \in Seq(Site), NEW q \in Seq(Site), NEW v \in Site
  PROVE  /\ Prefix(Append(p, v), q) => Prefix(p, q) /\ Len(p) + 1 \in 1..Len(q) /\ q[Len(p) + 1] = v
         /\ Prefix(q, Append(p, v)) => Prefix(q, p) \/ q = Append(p, v)
         /\ Prefix(p, q) /\ Len(p) = Len(q) => p = q
         /\ Prefix(p, q) /\ Len(p) + 1 \in 1..Len(q) /\ q[Len(p) + 1] = v => Prefix(Append(p, v), q)
<1> DEFINE a == Append(p, v)
<1>1. /\ a \in Seq(Site) /\ Len(a) = Len(p) + 1 /\ a[Len(p) + 1] = v
      /\ \A i \in 1..Len(p) : a[i] = p[i]
      /\ Len(p) \in Nat /\ Len(q) \in Nat
  OBVIOUS
<1> HIDE DEF a
<1>2. ASSUME Prefix(a, q) PROVE Prefix(p, q) /\ Len(p) + 1 \in 1..Len(q) /\ q[Len(p) + 1] = v
  <2>1. Len(p) + 1 \in 1..Len(a)
    BY <1>1
  <2> QED BY <2>1, <1>1, <1>2 DEF Prefix
<1>3. ASSUME NEW r \in Seq(Site), NEW s \in Seq(Site), Prefix(r, s), Len(r) = Len(s) PROVE r = s
  <2>1. \A i \in 1..Len(r) : r[i] = s[i]
    BY <1>3 DEF Prefix
  <2> QED BY <2>1, <1>3
<1>4. ASSUME Prefix(q, a) PROVE Prefix(q, p) \/ q = a
  <2>1. CASE Len(q) = Len(a)
    BY <1>1, <1>3, <1>4, <2>1
  <2>2. CASE Len(q) <= Len(p)
    BY <1>1, <1>4, <2>2 DEF Prefix
  <2> QED BY <1>1, <1>4, <2>1, <2>2 DEF Prefix
<1>5. ASSUME Prefix(p, q), Len(p) + 1 \in 1..Len(q), q[Len(p) + 1] = v PROVE Prefix(a, q)
  <2>1. \A i \in 1..Len(a) : i = Len(p) + 1 \/ i \in 1..Len(p)
    BY <1>1
  <2>2. \A i \in 1..Len(a) : a[i] = q[i]
    BY <2>1, <1>1, <1>5 DEF Prefix
  <2> QED BY <2>2, <1>1, <1>5 DEF Prefix
<1>6. Prefix(p, q) /\ Len(p) = Len(q) => p = q
  BY <1>3
<1> QED BY <1>2, <1>4, <1>5, <1>6 DEF a

\* No path is cheaper than its beginning.
LEMMA PrefixCost ==
  ASSUME NEW m \in Matrices, NEW p \in Seq(Site), p # <<>>, NEW q, IsWalk(m, q), Prefix(p, q)
  PROVE  Cost(m, p) <= Cost(m, q)
<1> DEFINE k == Len(p)
           n == Len(q)
<1>1. q \in Seq(Site) /\ q # <<>> /\ k \in Nat /\ n \in Nat /\ 1 <= k /\ k <= n
      /\ \A i \in 1..k : p[i] = q[i]
  BY DEF IsWalk, Prefix
<1>2. PICK f : IsSum(m, q, f)
  BY <1>1, SumExists
<1> DEFINE g == [i \in 1..k |-> f[i]]
<1>3. IsSum(m, p, g)
  <2>1. g \in [1..k -> Int] /\ g[1] = 0
    BY <1>1, <1>2 DEF IsSum
  <2>2. ASSUME NEW i \in 2..k PROVE g[i] = g[i - 1] + m[p[i - 1]][p[i]]
    <3>1. i \in 1..k /\ i - 1 \in 1..k /\ i \in 2..n
      BY <1>1
    <3> QED BY <3>1, <1>1, <1>2 DEF IsSum
  <2> QED BY <2>1, <2>2 DEF IsSum
<1>4. Cost(m, p) = f[k] /\ Cost(m, q) = f[n]
  <2>1. Cost(m, p) = g[k]
    BY <1>3, CostIsSum
  <2>2. Cost(m, q) = f[n]
    BY <1>1, <1>2, CostIsSum
  <2> QED BY <2>1, <2>2, <1>1
<1> DEFINE S == {i \in 1..n : i >= k => f[k] <= f[i]}
<1>5. \A i \in 1..n : f[i] \in Int
  BY <1>2 DEF IsSum
<1>6. 1 \in S
  BY <1>1, <1>5
<1>7. ASSUME NEW i \in 1..n - 1, i \in S PROVE i + 1 \in S
  <2>1. i \in 1..n /\ i + 1 \in 2..n /\ i + 1 \in 1..n /\ (i + 1) - 1 = i
    BY <1>1
  <2>2. f[i + 1] = f[i] + m[q[i]][q[i + 1]]
    BY <2>1, <1>2 DEF IsSum
  <2>3. m[q[i]][q[i + 1]] \in Nat
    <3>1. m[q[i]][q[i + 1]] # Inf
      BY DEF IsWalk
    <3>2. q[i] \in Site /\ q[i + 1] \in Site
      BY <1>1, <2>1
    <3> QED BY <3>1, <3>2 DEF Matrices
  <2>4. f[i] \in Int /\ f[k] \in Int /\ f[i] <= f[i + 1]
    BY <2>1, <2>2, <2>3, <1>1, <1>5
  <2>5. CASE i >= k
    BY <2>1, <2>4, <2>5, <1>5, <1>7
  <2>6. CASE i + 1 <= k
    <3>1. i + 1 >= k => i + 1 = k
      BY <2>6, <1>1, <2>1
    <3> QED BY <3>1, <2>1, <2>4
  <2> QED BY <2>5, <2>6, <1>1, <2>1
<1>8. 1..n \subseteq S
  <2>1. n >= 1
    BY <1>1
  <2> HIDE DEF S, n
  <2> QED BY <2>1, <1>1, <1>6, <1>7, IndexInduction
<1>9. n \in S
  BY <1>1, <1>8
<1> QED BY <1>1, <1>4, <1>9

LEMMA StartFrontier ==
  ASSUME NEW m \in Matrices, NEW s \in Site, NEW t \in Site, s # t
  PROVE  Frontier(m, s, t, {[path |-> <<s>>, distance |-> 0]}, <<>>)
<1> DEFINE w == <<s>>
           r == [path |-> w, distance |-> 0]
           C == {r}
           F == <<>>
<1>1. w \in Seq(Site) /\ w # <<>> /\ Len(w) = 1 /\ w[1] = s
  OBVIOUS
<1>2. r.path = w /\ r.distance = 0 /\ Len(F) = 0
  OBVIOUS
<1>3. Cost(m, w) = 0
  BY CostSingle
<1> HIDE DEF w, r, F
<1>4. Partial(m, s, t, w)
  BY <1>1 DEF Partial, IsWalk
<1>5. ASSUME NEW p \in SimplePaths(m, s, t) PROVE Prefix(w, p)
  <2>1. IsWalk(m, p) /\ p[1] = s
    BY SimplePathIsWalk
  <2>2. Len(p) \in Nat /\ Len(p) >= 1
    BY <2>1 DEF IsWalk
  <2> QED BY <1>1, <2>1, <2>2 DEF Prefix
<1>6. Frontier(m, s, t, C, F)
  BY <1>2, <1>3, <1>4, <1>5 DEF Frontier
<1> QED BY <1>6 DEF w, r, F

\* A cheapest candidate that has reached the goal is the next result.
LEMMA TakeFrontier ==
  ASSUME NEW m \in Matrices, NEW s \in Site, NEW t \in Site,
         NEW C \in SUBSET PathResults, NEW F \in Seq(PathResults),
         Frontier(m, s, t, C, F),
         NEW r \in C, \A u \in C : ~(u.distance < r.distance), LastNode(r) = t
  PROVE  Frontier(m, s, t, C \ {r}, Append(F, r))
<1> DEFINE D == C \ {r}
           G == Append(F, r)
           n == Len(F)
<1>1. /\ n \in Nat /\ Len(G) = n + 1 /\ G[n + 1] = r
      /\ \A i \in 1..n : G[i] = F[i] /\ F[i] \in PathResults
      /\ \A i \in 1..Len(G) : i = n + 1 \/ i \in 1..n
  OBVIOUS
<1>2. \A u \in C : /\ u.path \in Seq(Site) /\ u.distance \in Nat
                   /\ Partial(m, s, t, u.path) /\ u.distance = Cost(m, u.path)
  BY DEF Frontier, PathResults
<1>3. r.path \in SimplePaths(m, s, t)
  BY <1>2, WalkIsSimplePath DEF Partial, LastNode
<1> HIDE DEF G
<1>4. \A u, w \in D : Prefix(u.path, w.path) => u = w
  BY DEF Frontier
<1>5. ASSUME NEW i \in 1..Len(G)
      PROVE  /\ G[i].path \in SimplePaths(m, s, t) /\ G[i].distance = Cost(m, G[i].path)
             /\ \A u \in D : G[i].distance <= u.distance /\ ~Prefix(u.path, G[i].path)
  <2>1. CASE i = n + 1
    <3>1. \A u \in D : r.distance <= u.distance
      BY <1>2
    <3>2. \A u \in D : ~Prefix(u.path, r.path)
      BY DEF Frontier
    <3> QED BY <2>1, <3>1, <3>2, <1>1, <1>2, <1>3
  <2>2. CASE i \in 1..n
    BY <2>2, <1>1 DEF Frontier
  <2> QED BY <2>1, <2>2, <1>1
<1>6. ASSUME NEW i \in 1..Len(G), NEW j \in 1..Len(G)
      PROVE  /\ i <= j => G[i].distance <= G[j].distance
             /\ G[i].path = G[j].path => i = j
  <2>0. \A k \in 1..n : /\ F[k].distance <= r.distance /\ ~Prefix(r.path, F[k].path)
                        /\ F[k].distance \in Nat
    BY <1>1 DEF Frontier, PathResults
  <2>1. Prefix(r.path, r.path) /\ r.distance \in Nat
    BY <1>2, PrefixSelf
  <2>2. CASE i \in 1..n /\ j \in 1..n
    BY <2>2, <1>1 DEF Frontier
  <2>3. CASE i = n + 1 /\ j = n + 1
    BY <2>1, <2>3, <1>1
  <2>4. CASE i \in 1..n /\ j = n + 1
    BY <2>0, <2>1, <2>4, <1>1
  <2>5. CASE i = n + 1 /\ j \in 1..n
    BY <2>0, <2>1, <2>5, <1>1
  <2> QED BY <2>2, <2>3, <2>4, <2>5, <1>1
<1>7. ASSUME NEW p \in SimplePaths(m, s, t)
      PROVE  (\E i \in 1..Len(G) : G[i].path = p) \/ (\E u \in D : Prefix(u.path, p))
  <2>1. CASE \E i \in 1..n : F[i].path = p
    BY <2>1, <1>1
  <2>2. CASE \E u \in D : Prefix(u.path, p)
    BY <2>2
  <2>3. CASE Prefix(r.path, p)
    <3>1. /\ IsWalk(m, p) /\ p[Len(p)] = t
          /\ \A i, j \in 1..Len(p) : p[i] = p[j] => i = j
      BY SimplePathIsWalk
    <3>2. p \in Seq(Site) /\ Len(p) \in Nat
      BY <3>1 DEF IsWalk
    <3>3. r.path # <<>> /\ Len(r.path) \in 1..Len(r.path)
      BY <1>2 DEF Partial, IsWalk
    <3>4. Len(r.path) \in 1..Len(p) /\ p[Len(r.path)] = t
      BY <2>3, <3>2, <3>3 DEF Prefix, LastNode
    <3>5. Len(r.path) = Len(p)
      BY <3>1, <3>2, <3>4
    <3>6. r.path = p
      BY <2>3, <3>2, <3>5, <1>2, PrefixAppend
    <3> QED BY <3>6, <1>1
  <2> QED BY <2>1, <2>2, <2>3 DEF Frontier
<1>8. s # t /\ \A u \in D : Partial(m, s, t, u.path) /\ u.distance = Cost(m, u.path)
  BY <1>2 DEF Frontier
<1>9. Frontier(m, s, t, D, G)
  BY <1>4, <1>5, <1>6, <1>7, <1>8 DEF Frontier
<1> QED BY <1>9 DEF G

\* The candidates that continue r from its last node u.
Extensions(m, ns, r) ==
  {[path |-> Append(r.path, v), distance |-> r.distance + m[LastNode(r)][v]] :
     v \in {w \in ns : m[LastNode(r)][w] # Inf /\ ~OnPath(r, w)}}

\* A cheapest candidate that has not reached the goal gives way to what
\* continues it.
LEMMA ExtendFrontier ==
  ASSUME NEW ns \in SUBSET Site, NEW m \in Matrices, Inside(m, ns),
         NEW s \in Site, NEW t \in Site,
         NEW C \in SUBSET PathResults, NEW F \in Seq(PathResults),
         Frontier(m, s, t, C, F),
         NEW r \in C, LastNode(r) # t
  PROVE  Frontier(m, s, t, (C \ {r}) \cup Extensions(m, ns, r), F)
<1> DEFINE E == Extensions(m, ns, r)
           D == (C \ {r}) \cup E
           k == Len(r.path)
           u == LastNode(r)
<1>1. \A w \in C : /\ w.path \in Seq(Site) /\ w.path # <<>> /\ w.distance \in Nat
                   /\ Partial(m, s, t, w.path) /\ w.distance = Cost(m, w.path)
  BY DEF Frontier, PathResults, Partial, IsWalk
<1>2. /\ k \in Nat /\ k >= 1 /\ u = r.path[k] /\ u \in Site /\ u # t
      /\ \A i \in 1..k : r.path[i] \in Site
  BY <1>1 DEF LastNode
<1>3. ASSUME NEW e \in E
      PROVE  \E v \in Site : /\ v \in ns /\ m[u][v] # Inf /\ m[u][v] \in Nat
                             /\ \A i \in 1..k : r.path[i] # v
                             /\ e.path = Append(r.path, v) /\ e.distance = r.distance + m[u][v]
  <2>1. PICK v \in ns : /\ m[u][v] # Inf /\ ~OnPath(r, v)
                        /\ e = [path |-> Append(r.path, v), distance |-> r.distance + m[u][v]]
    BY <1>3 DEF Extensions
  <2>2. v \in Site /\ m[u][v] \in Nat
    BY <1>2, <2>1 DEF Matrices
  <2>3. \A i \in 1..k : r.path[i] # v
    BY <2>1 DEF OnPath
  <2> HIDE DEF u
  <2> QED BY <2>1, <2>2, <2>3
<1>4. ASSUME NEW v \in ns, m[u][v] # Inf, \A i \in 1..k : r.path[i] # v
      PROVE  \E e \in E : e.path = Append(r.path, v)
  <2> DEFINE e == [path |-> Append(r.path, v), distance |-> r.distance + m[u][v]]
  <2>1. ~OnPath(r, v)
    BY <1>4 DEF OnPath
  <2>2. e \in E
    BY <1>4, <2>1 DEF Extensions
  <2> QED BY <2>2
<1> HIDE DEF E, u
<1>5. ASSUME NEW e \in E
      PROVE  /\ Partial(m, s, t, e.path) /\ e.distance = Cost(m, e.path) /\ r.distance <= e.distance
             /\ e.path \in Seq(Site)
  <2>1. PICK v \in Site : /\ v \in ns /\ m[u][v] # Inf /\ m[u][v] \in Nat
                          /\ \A i \in 1..k : r.path[i] # v
                          /\ e.path = Append(r.path, v) /\ e.distance = r.distance + m[u][v]
    BY <1>3
  <2> DEFINE p == r.path
             q == Append(p, v)
  <2>2. /\ p \in Seq(Site) /\ p # <<>> /\ IsWalk(m, p) /\ p[1] = s
        /\ \A i, j \in 1..k : p[i] = p[j] => i = j
        /\ \A i \in 1..k - 1 : p[i] # t
    BY <1>1 DEF Partial
  <2>3. /\ q \in Seq(Site) /\ q # <<>> /\ Len(q) = k + 1 /\ q[k + 1] = v
        /\ \A i \in 1..k : q[i] = p[i]
        /\ \A i \in 1..k + 1 : i = k + 1 \/ i \in 1..k
    BY <2>2, SMTT(20)
  <2> HIDE DEF q
  <2>4. IsWalk(m, q)
    <3>1. ASSUME NEW i \in 1..Len(q) - 1 PROVE m[q[i]][q[i + 1]] # Inf
      <4>1. CASE i = k
        BY <4>1, <2>1, <2>3, <1>2
      <4>2. CASE i \in 1..k - 1
        <5>1. i \in 1..k /\ i + 1 \in 1..k
          BY <4>2, <1>2
        <5> QED BY <4>2, <5>1, <2>2, <2>3 DEF IsWalk
      <4> QED BY <4>1, <4>2, <1>2, <2>3
    <3> QED BY <3>1, <2>3 DEF IsWalk
  <2>5. \A i, j \in 1..Len(q) : q[i] = q[j] => i = j
    BY <2>1, <2>2, <2>3
  <2>6. \A i \in 1..Len(q) - 1 : q[i] # t
    <3> TAKE i \in 1..Len(q) - 1
    <3>1. i = k \/ i \in 1..k - 1
      BY <2>3, <1>2
    <3>2. i \in 1..k
      BY <2>3, <1>2
    <3> QED BY <3>1, <3>2, <2>2, <2>3, <1>2
  <2>7. q[1] = s
    BY <2>2, <2>3, <1>2
  <2>8. Cost(m, q) = Cost(m, p) + m[p[k]][v]
    BY <2>2, CostAppend DEF q
  <2>9. e.path = q /\ e.distance = r.distance + m[u][v]
    BY <2>1 DEF q
  <2>10. r.distance = Cost(m, p) /\ r.distance \in Nat
    BY <1>1
  <2>11. r.distance <= e.distance
    BY <2>1, <2>9, <2>10
  <2>12. e.distance = Cost(m, q)
    BY <2>8, <2>9, <2>10, <1>2
  <2> QED BY <2>3, <2>4, <2>5, <2>6, <2>7, <2>9, <2>11, <2>12 DEF Partial
<1>6. ASSUME NEW e \in E, NEW q \in Seq(Site), Prefix(e.path, q)
      PROVE  Prefix(r.path, q)
  <2>1. PICK v \in Site : e.path = Append(r.path, v)
    BY <1>3
  <2>2. Prefix(Append(r.path, v), q) /\ r.path \in Seq(Site)
    BY <1>1, <1>6, <2>1
  <2> QED BY <2>2, PrefixAppend
<1>7. ASSUME NEW w \in D, NEW x \in D, Prefix(w.path, x.path) PROVE w = x
  <2>1. CASE w \in C \ {r} /\ x \in C \ {r}
    BY <1>7, <2>1 DEF Frontier
  <2>2. CASE w \in E /\ x \in C \ {r}
    <3>1. Prefix(r.path, x.path)
      BY <1>1, <1>6, <1>7, <2>2
    <3> QED BY <3>1, <2>2 DEF Frontier
  <2>3. CASE w \in C \ {r} /\ x \in E
    <3>1. PICK v \in Site : x.path = Append(r.path, v)
      BY <1>3, <2>3
    <3>2. Prefix(w.path, r.path) \/ w.path = Append(r.path, v)
      BY <1>1, <1>7, <2>3, <3>1, PrefixAppend
    <3>3. CASE Prefix(w.path, r.path)
      BY <2>3, <3>3 DEF Frontier
    <3>4. CASE w.path = Append(r.path, v)
      <4>1. Prefix(r.path, w.path)
        <5>1. w.path \in Seq(Site) /\ Prefix(w.path, w.path)
          BY <1>1, <2>3, PrefixSelf
        <5>2. Prefix(Append(r.path, v), w.path) /\ r.path \in Seq(Site)
          BY <1>1, <3>4, <5>1
        <5> QED BY <5>1, <5>2, PrefixAppend
      <4> QED BY <2>3, <4>1 DEF Frontier
    <3> QED BY <3>2, <3>3, <3>4
  <2>4. CASE w \in E /\ x \in E
    <3>1. PICK v \in Site : w.path = Append(r.path, v) /\ w.distance = r.distance + m[u][v]
      BY <1>3, <2>4
    <3>2. PICK y \in Site : x.path = Append(r.path, y) /\ x.distance = r.distance + m[u][y]
      BY <1>3, <2>4
    <3>3. v = y
      <4>1. x.path \in Seq(Site) /\ x.path[k + 1] = y
        BY <1>1, <1>2, <3>2
      <4>2. x.path[k + 1] = v
        BY <1>1, <1>2, <1>7, <3>1, <4>1, PrefixAppend
      <4> QED BY <4>1, <4>2
    <3>4. \A e \in E : e = [path |-> e.path, distance |-> e.distance]
      BY DEF E, Extensions
    <3> QED BY <3>1, <3>2, <3>3, <3>4, <2>4
  <2> QED BY <2>1, <2>2, <2>3, <2>4
<1>8. ASSUME NEW i \in 1..Len(F), NEW w \in D
      PROVE  F[i].distance <= w.distance /\ ~Prefix(w.path, F[i].path)
  <2>1. CASE w \in C
    BY <2>1 DEF Frontier
  <2>2. CASE w \in E
    <3>1. F[i].path \in Seq(Site) /\ F[i].distance \in Nat
      <4>1. F[i] \in PathResults
        OBVIOUS
      <4> QED BY <4>1 DEF PathResults
    <3>2. F[i].distance <= r.distance /\ ~Prefix(r.path, F[i].path)
      BY DEF Frontier
    <3>3. ~Prefix(w.path, F[i].path)
      BY <2>2, <3>1, <3>2, <1>6
    <3>4. r.distance <= w.distance /\ w.distance \in Int /\ r.distance \in Int
      <4>1. r.distance <= w.distance /\ r.distance \in Nat
        BY <2>2, <1>1, <1>5
      <4>2. w.distance \in Int
        BY <2>2, <1>1, <1>3
      <4> QED BY <4>1, <4>2
    <3> QED BY <3>1, <3>2, <3>3, <3>4
  <2> QED BY <2>1, <2>2
<1>9. ASSUME NEW p \in SimplePaths(m, s, t)
      PROVE  (\E i \in 1..Len(F) : F[i].path = p) \/ (\E w \in D : Prefix(w.path, p))
  <2>1. CASE Prefix(r.path, p)
    <3>1. /\ IsWalk(m, p) /\ p[Len(p)] = t
          /\ \A i, j \in 1..Len(p) : p[i] = p[j] => i = j
      BY SimplePathIsWalk
    <3>2. p \in Seq(Site) /\ Len(p) \in Nat
      BY <3>1 DEF IsWalk
    <3>3. k <= Len(p) /\ \A i \in 1..k : r.path[i] = p[i]
      BY <2>1 DEF Prefix
    <3>4. k # Len(p)
      BY <3>1, <3>3, <1>2
    <3>5. k + 1 \in 1..Len(p) /\ k \in 1..Len(p) - 1
      BY <3>2, <3>3, <3>4, <1>2
    <3>6. PICK v : v = p[k + 1]
      OBVIOUS
    <3>7. v \in Site /\ m[u][v] # Inf
      <4>1. p[k] = u
        BY <3>3, <1>2
      <4> QED BY <3>1, <3>2, <3>5, <3>6, <4>1 DEF IsWalk
    <3>8. v \in ns
      BY <3>7, <1>2 DEF Inside
    <3>9. \A i \in 1..k : r.path[i] # v
      <4> TAKE i \in 1..k
      <4>1. i \in 1..Len(p) /\ i # k + 1
        BY <3>2, <3>3, <1>2
      <4> QED BY <4>1, <3>1, <3>3, <3>5, <3>6
    <3>10. PICK e \in E : e.path = Append(r.path, v)
      BY <3>7, <3>8, <3>9, <1>4
    <3>11. Prefix(e.path, p)
      BY <3>2, <3>5, <3>6, <3>7, <3>10, <2>1, <1>1, PrefixAppend
    <3> QED BY <3>11
  <2>2. CASE \E w \in C : w # r /\ Prefix(w.path, p)
    BY <2>2
  <2> QED BY <2>1, <2>2 DEF Frontier
<1>10. s # t /\ \A w \in D : Partial(m, s, t, w.path) /\ w.distance = Cost(m, w.path)
  BY <1>1, <1>5 DEF Frontier
<1>11. \A i \in 1..Len(F) :
         /\ F[i].path \in SimplePaths(m, s, t) /\ F[i].distance = Cost(m, F[i].path)
         /\ \A j \in 1..Len(F) : /\ i <= j => F[i].distance <= F[j].distance
                                 /\ F[i].path = F[j].path => i = j
  BY DEF Frontier
<1>12. Frontier(m, s, t, D, F)
  <2> HIDE DEF D
  <2> QED BY <1>7, <1>8, <1>9, <1>10, <1>11 DEF Frontier
<1> QED BY <1>12 DEF E

\* There are finitely many simple paths.
LEMMA SimplePathsFinite ==
  ASSUME NEW m \in Matrices, NEW s, NEW t
  PROVE  IsFiniteSet(SimplePaths(m, s, t))
<1> DEFINE ps == SimplePaths(m, s, t)
           K == 1..Cardinality(Site)
           G == K \X Site
           graph == [p \in ps |-> {<<i, p[i]>> : i \in DOMAIN p}]
<1>1. IsFiniteSet(SUBSET G)
  <2>1. Cardinality(Site) \in Nat
    BY FinderAssumption, FS_CardinalityType
  <2>2. IsFiniteSet(K)
    BY <2>1, FS_Interval
  <2> HIDE DEF K
  <2>3. IsFiniteSet(G)
    BY <2>2, FinderAssumption, FS_Product
  <2> QED BY <2>3, FS_SUBSET
<1>2. ASSUME NEW p \in ps
      PROVE  \E k \in K : p \in [1..k -> Site] /\ k \in Nat /\ DOMAIN p = 1..k
  <2>1. PICK k \in K : p \in [1..k -> Site]
    BY DEF SimplePaths
  <2> QED BY <2>1, FinderAssumption, FS_CardinalityType
<1>3. graph \in [ps -> SUBSET G]
  <2> SUFFICES ASSUME NEW p \in ps, NEW i \in DOMAIN p PROVE <<i, p[i]>> \in G
    OBVIOUS
  <2>1. PICK k \in K : p \in [1..k -> Site] /\ k \in Nat /\ DOMAIN p = 1..k
    BY <1>2
  <2>2. Cardinality(Site) \in Nat
    BY FinderAssumption, FS_CardinalityType
  <2>3. i \in K
    BY <2>1, <2>2
  <2> QED BY <2>1, <2>3
<1>4. ASSUME NEW p \in ps, NEW q \in ps, graph[p] = graph[q] PROVE p = q
  <2>1. PICK k \in K : p \in [1..k -> Site] /\ k \in Nat /\ DOMAIN p = 1..k
    BY <1>2
  <2>2. PICK l \in K : q \in [1..l -> Site] /\ l \in Nat /\ DOMAIN q = 1..l
    BY <1>2
  <2>3. \A i \in 1..k : \E j \in 1..l : <<i, p[i]>> = <<j, q[j]>>
    <3> TAKE i \in 1..k
    <3>1. <<i, p[i]>> \in graph[p]
      BY <2>1
    <3>2. <<i, p[i]>> \in graph[q]
      BY <3>1, <1>4
    <3> QED BY <3>2, <2>2
  <2>4. \A j \in 1..l : \E i \in 1..k : <<i, p[i]>> = <<j, q[j]>>
    <3> TAKE j \in 1..l
    <3>1. <<j, q[j]>> \in graph[q]
      BY <2>2
    <3>2. <<j, q[j]>> \in graph[p]
      BY <3>1, <1>4
    <3> QED BY <3>2, <2>1
  <2>5. 1..k = 1..l
    BY <2>3, <2>4
  <2>6. \A i \in 1..k : p[i] = q[i]
    BY <2>3
  <2> QED BY <2>1, <2>2, <2>5, <2>6
<1> HIDE DEF ps, G, graph
<1>5. graph \in Injection(ps, SUBSET G)
  <2>1. DOMAIN graph = ps
    BY <1>3
  <2>2. IsInjective(graph)
    BY <1>4, <2>1 DEF IsInjective
  <2> QED BY <1>3, <2>2 DEF Injection
<1>6. IsFiniteSet(ps)
  BY <1>1, <1>5, FS_Injection
<1> QED BY <1>6 DEF ps

\* When the loop ends, the results are the cheapest simple paths.
LEMMA EndFrontier ==
  ASSUME NEW m \in Matrices, NEW c \in Callers,
         start[c] \in Site, goal[c] \in Site, found[c] \in Seq(PathResults),
         NEW C \in SUBSET PathResults,
         Frontier(m, start[c], goal[c], C, found[c]),
         Len(found[c]) <= N, C = {} \/ Len(found[c]) = N
  PROVE  TopOf(m, c)
<1> DEFINE ps == SimplePaths(m, start[c], goal[c])
           r == found[c]
           n == Len(r)
           taken == {r[i].path : i \in DOMAIN r}
<1>1. n \in Nat /\ DOMAIN r = 1..n /\ (\A i \in 1..n : r[i] \in PathResults) /\ N \in Nat
  BY FinderAssumption
<1>2. \A i \in 1..n : r[i].distance \in Nat
  BY <1>1 DEF PathResults
<1>3. taken \subseteq ps
  BY <1>1 DEF Frontier
<1>4. Cardinality(taken) = n /\ IsFiniteSet(taken)
  <2> DEFINE g == [i \in 1..n |-> r[i].path]
  <2>1. g \in Surjection(1..n, taken)
    BY <1>1 DEF Surjection
  <2>2. g \in Injection(1..n, taken)
    <3>1. \A i, j \in 1..n : g[i] = g[j] => i = j
      BY DEF Frontier
    <3>2. g \in [1..n -> taken] /\ DOMAIN g = 1..n
      BY <1>1
    <3> HIDE DEF g, taken
    <3> QED BY <3>1, <3>2 DEF Injection, IsInjective
  <2>3. IsFiniteSet(1..n) /\ Cardinality(1..n) = n
    <3>1. n \in Nat /\ 1 \in Int /\ n \in Int
      BY <1>1
    <3> HIDE DEF n
    <3>2. IsFiniteSet(1..n) /\ Cardinality(1..n) = IF 1 > n THEN 0 ELSE n - 1 + 1
      BY <3>1, FS_Interval
    <3> QED BY <3>1, <3>2
  <2> HIDE DEF g, taken, n
  <2>4. IsFiniteSet(taken) /\ Cardinality(taken) = Cardinality(1..n)
    BY <2>1, <2>2, <2>3, FS_Surjection
  <2> QED BY <2>3, <2>4
<1>5. IsFiniteSet(ps) /\ Cardinality(ps) \in Nat /\ n <= Cardinality(ps)
  <2>1. IsFiniteSet(ps)
    BY SimplePathsFinite
  <2> HIDE DEF ps, taken
  <2> QED BY <1>3, <1>4, <2>1, FS_CardinalityType, FS_Subset
<1>6. n = Min({N, Cardinality(ps)})
  <2>1. C = {} => taken = ps
    <3> SUFFICES ASSUME C = {}, NEW p \in ps PROVE p \in taken
      BY <1>3
    <3> QED BY <1>1 DEF Frontier
  <2>2. n = N \/ n = Cardinality(ps)
    <3> HIDE DEF ps, taken
    <3> QED BY <1>4, <2>1
  <2> HIDE DEF n, ps
  <2> QED BY <1>1, <1>5, <2>2 DEF Min
<1>7. ASSUME NEW i \in DOMAIN r
      PROVE  /\ r[i].distance = Cost(m, r[i].path)
             /\ \A j \in i..Len(r) : r[i].distance <= r[j].distance
             /\ \A p \in ps \ taken : r[i].distance <= Cost(m, p)
  <2>1. i \in 1..n
    BY <1>1
  <2>2. r[i].distance = Cost(m, r[i].path)
    BY <2>1 DEF Frontier
  <2>3. \A j \in i..Len(r) : r[i].distance <= r[j].distance
    <3> TAKE j \in i..Len(r)
    <3>1. j \in 1..n /\ i <= j
      BY <1>1, <2>1
    <3> QED BY <2>1, <3>1 DEF Frontier
  <2>4. ASSUME NEW p \in ps, p \notin taken PROVE r[i].distance <= Cost(m, p)
    <3>1. PICK u \in C : Prefix(u.path, p)
      BY <1>1, <2>4 DEF Frontier
    <3>2. /\ u.path \in Seq(Site) /\ u.path # <<>> /\ u.distance = Cost(m, u.path)
          /\ u.distance \in Nat /\ r[i].distance <= u.distance
      BY <2>1 DEF Frontier, Partial, IsWalk, PathResults
    <3>3. IsWalk(m, p)
      BY SimplePathIsWalk
    <3>4. Cost(m, u.path) <= Cost(m, p)
      BY <3>1, <3>2, <3>3, PrefixCost
    <3>5. Cost(m, p) \in Int
      <4>1. p \in Seq(Site) /\ p # <<>> /\ p[Len(p)] \in Site
        BY <3>3 DEF IsWalk
      <4> QED BY <4>1, CostAppend
    <3> QED BY <3>2, <3>4, <3>5, <2>1, <1>2
  <2> QED BY <2>2, <2>3, <2>4
<1> QED BY <1>3, <1>4, <1>6, <1>7 DEF TopOf

LEMMA InitTop == Init => TopInv
  BY DEF Init, TopInv, Exact

LEMMA FreshTop ==
  ASSUME NEW where \in {"idle", "down"}, Fresh(where)
  PROVE  TopInv'
  BY DEF Fresh, TopInv, Exact

\* A step of one goroutine, seen by another: its search goes on on the same
\* matrix, or the step is recorded as a write under it.
LEMMA OtherTop ==
  ASSUME TopInv, NEW c \in Callers,
         \A b \in Callers \ {c} : /\ pc'[b] = pc[b] /\ start'[b] = start[b] /\ goal'[b] = goal[b]
                                  /\ cand'[b] = cand[b] /\ found'[b] = found[b],
         WritesMatrix \/ (UNCHANGED matrix /\ torn' \in {torn, torn \ {c}}),
         Exact(c)'
  PROVE  TopInv'
<1> SUFFICES ASSUME NEW b \in Callers \ {c} PROVE Exact(b)'
  BY DEF TopInv
<1>1. /\ pc'[b] = pc[b] /\ start'[b] = start[b] /\ goal'[b] = goal[b]
      /\ cand'[b] = cand[b] /\ found'[b] = found[b] /\ Exact(b)
  BY DEF TopInv
<1>2. b \notin torn' => b \notin torn
  BY DEF WritesMatrix
<1>3. pc[b] \in {"topn", "topret"} /\ b \notin torn' => UNCHANGED matrix
  BY DEF WritesMatrix
<1> QED BY <1>1, <1>2, <1>3 DEF Exact

\* Outside of GetTopNShortestPaths there is nothing to keep.
LEMMA OutsideTop ==
  ASSUME TopInv, NEW c \in Callers,
         \A b \in Callers \ {c} : /\ pc'[b] = pc[b] /\ start'[b] = start[b] /\ goal'[b] = goal[b]
                                  /\ cand'[b] = cand[b] /\ found'[b] = found[b],
         WritesMatrix \/ (UNCHANGED matrix /\ torn' \in {torn, torn \ {c}}),
         pc'[c] \notin {"topn", "topret"}, found'[c] = <<>>
  PROVE  TopInv'
<1>1. Exact(c)'
  BY DEF Exact
<1> QED BY <1>1, OtherTop

LEMMA CallTop ==
  ASSUME SearchInv, RestTypes, TopInv, NEW c \in Callers, Search(c) \/ Refresh(c) \/ Call(c)
  PROVE  TopInv'
<1>1. CASE Panic
  BY <1>1, FreshTop DEF Panic
<1>2. ASSUME ~Panic, pc[c] \notin {"topn", "topret"}, UNCHANGED topVars,
             UNCHANGED pc \/ \E l \in {"idle", "search", "path", "ret", "refresh"} : pc' = [pc EXCEPT ![c] = l],
             UNCHANGED goal \/ \E s : goal' = [goal EXCEPT ![c] = s],
             WritesMatrix \/ UNCHANGED <<matrix, torn>>
      PROVE  TopInv'
  <2>1. pc'[c] \notin {"topn", "topret"} /\ \A b \in Callers \ {c} : pc'[b] = pc[b]
    <3>1. CASE UNCHANGED pc
      BY <1>2, <3>1
    <3>2. ASSUME NEW l \in {"idle", "search", "path", "ret", "refresh"}, pc' = [pc EXCEPT ![c] = l]
          PROVE pc'[c] = l /\ \A b \in Callers \ {c} : pc'[b] = pc[b]
      BY <3>2 DEF SearchInv, SearchTypes
    <3> QED BY <1>2, <3>1, <3>2
  <2>2. \A b \in Callers \ {c} : goal'[b] = goal[b]
    BY <1>2 DEF RestTypes
  <2>3. UNCHANGED <<start, cand, found>> /\ found[c] = <<>>
    BY <1>2 DEF topVars, TopInv, Exact
  <2> QED BY <1>2, <2>1, <2>2, <2>3, OutsideTop
<1>3. CASE NewGraph(c)
  BY <1>1, <1>2, <1>3 DEF NewGraph, sptVars
<1>4. CASE RefreshWeights(c)
  BY <1>1, <1>2, <1>4 DEF RefreshWeights, Goto, sptVars
<1>5. ASSUME NEW e \in pending, SetCost(c, e) PROVE TopInv'
  BY <1>1, <1>2, <1>5 DEF SetCost, ReturnRefresh, Goto, sptVars, graphVars, histVars
<1>6. CASE Refreshed(c)
  BY <1>1, <1>2, <1>6 DEF Refreshed, ReturnRefresh, Goto, sptVars, graphVars, histVars
<1>7. ASSUME NEW end \in Site, GetShortestPath(c, end) PROVE TopInv'
  BY <1>1, <1>2, <1>7 DEF GetShortestPath, Goto
<1>8. ASSUME NEW r \in pq[c], Relax(c, r) PROVE TopInv'
  BY <1>1, <1>2, <1>8 DEF Relax
<1>9. CASE Searched(c)
  BY <1>1, <1>2, <1>9 DEF Searched, ReturnPath, Goto, graphVars, histVars
<1>10. CASE Reconstruct(c)
  BY <1>1, <1>2, <1>10 DEF Reconstruct, Goto, graphVars, histVars
<1>11. CASE Return(c)
  BY <1>1, <1>2, <1>11 DEF Return, ReturnPath, Goto, graphVars
<1>12. ASSUME NEW from \in Site, NEW end \in Site, GetTopNShortestPaths(c, from, end) PROVE TopInv'
  <2> DEFINE C == {[path |-> <<from>>, distance |-> 0]}
  <2>1. /\ pc' = [pc EXCEPT ![c] = "topn"] /\ pc[c] = "idle"
        /\ start' = [start EXCEPT ![c] = from]
        /\ goal' = [goal EXCEPT ![c] = end]
        /\ cand' = [cand EXCEPT ![c] = C]
        /\ from # end
        /\ UNCHANGED <<matrix, found, torn>>
    BY <1>12 DEF GetTopNShortestPaths, Goto, graphVars, histVars
  <2> HIDE DEF C
  <2>2. /\ pc'[c] = "topn" /\ start'[c] = from /\ goal'[c] = end /\ cand'[c] = C
        /\ \A b \in Callers \ {c} : /\ pc'[b] = pc[b] /\ start'[b] = start[b] /\ goal'[b] = goal[b]
                                    /\ cand'[b] = cand[b] /\ found'[b] = found[b]
    BY <2>1 DEF SearchInv, SearchTypes, RestTypes
  <2>3. found'[c] = <<>>
    BY <2>1 DEF TopInv, Exact
  <2>4. Frontier(matrix', from, end, C, <<>>)
    <3>1. matrix' \in Matrices /\ from # end
      BY <2>1 DEF SearchInv, SearchTypes, Matrices
    <3> QED BY <3>1, StartFrontier DEF C
  <2>5. Len(<<>>) <= N
    BY FinderAssumption
  <2>6. Exact(c)'
    BY <2>2, <2>3, <2>4, <2>5 DEF Exact
  <2> QED BY <2>1, <2>2, <2>6, OtherTop
<1> QED BY <1>3, <1>4, <1>5, <1>6, <1>7, <1>8, <1>9, <1>10, <1>11, <1>12 DEF Search, Refresh, Call

LEMMA ExtendTop ==
  ASSUME SearchInv, RestTypes, TreeInv, TopInv, NEW c \in Callers, TopSearch(c)
  PROVE  TopInv'
<1>1. CASE Panic
  BY <1>1, FreshTop DEF Panic
<1>2. /\ matrix \in Matrices /\ start[c] \in Site /\ goal[c] \in Site
      /\ cand[c] \in SUBSET PathResults /\ found[c] \in Seq(PathResults)
      /\ Node \in SUBSET Site /\ Inside(matrix, Node)
  BY DEF SearchInv, SearchTypes, RestTypes, TreeInv, Matrices, Node
<1>3. ASSUME NEW r \in cand[c], Extend(c, r), ~Panic PROVE TopInv'
  <2>1. /\ pc[c] = "topn" /\ Len(found[c]) < N
        /\ \A s \in cand[c] : ~(s.distance < r.distance)
        /\ UNCHANGED <<matrix, pc, start, goal, torn>>
    BY <1>3 DEF Extend, graphVars, sptVars, histVars
  <2>2. c \notin torn => Frontier(matrix, start[c], goal[c], cand[c], found[c])
    BY <2>1 DEF TopInv, Exact
  <2>3. CASE LastNode(r) = goal[c]
    <3>1. /\ found' = [found EXCEPT ![c] = Append(@, r)] /\ cand' = [cand EXCEPT ![c] = @ \ {r}]
      BY <1>3, <2>3 DEF Extend
    <3>2. /\ found'[c] = Append(found[c], r) /\ cand'[c] = cand[c] \ {r}
          /\ \A b \in Callers \ {c} : cand'[b] = cand[b] /\ found'[b] = found[b]
      BY <3>1 DEF RestTypes
    <3>3. c \notin torn => Frontier(matrix, start[c], goal[c], cand'[c], found'[c])
      BY <1>2, <2>1, <2>2, <2>3, <3>2, TakeFrontier
    <3>4. Len(found'[c]) <= N
      BY <1>2, <2>1, <3>2, FinderAssumption
    <3>5. Exact(c)'
      BY <2>1, <3>3, <3>4 DEF Exact
    <3> QED BY <2>1, <3>2, <3>5, OtherTop
  <2>4. CASE LastNode(r) # goal[c]
    <3>1. found' = found /\ cand' = [cand EXCEPT ![c] = (@ \ {r}) \cup Extensions(matrix, Node, r)]
      BY <1>3, <2>4 DEF Extend, Extensions
    <3>2. /\ cand'[c] = (cand[c] \ {r}) \cup Extensions(matrix, Node, r)
          /\ \A b \in Callers \ {c} : cand'[b] = cand[b] /\ found'[b] = found[b]
      BY <3>1 DEF RestTypes
    <3>3. c \notin torn => Frontier(matrix, start[c], goal[c], cand'[c], found[c])
      BY <1>2, <2>2, <2>4, <3>2, ExtendFrontier
    <3>4. Len(found[c]) <= N
      BY <2>1, <1>2, FinderAssumption
    <3>5. Exact(c)'
      BY <2>1, <3>1, <3>3, <3>4 DEF Exact
    <3> QED BY <2>1, <3>2, <3>5, OtherTop
  <2> QED BY <2>3, <2>4
<1>4. CASE Extended(c)
  <2>1. /\ pc[c] = "topn" /\ pc' = [pc EXCEPT ![c] = "topret"]
        /\ cand[c] = {} \/ Len(found[c]) = N
        /\ UNCHANGED <<matrix, torn, start, goal, cand, found>>
    BY <1>4 DEF Extended, Goto, graphVars, sptVars, topVars, histVars
  <2>2. pc'[c] = "topret" /\ \A b \in Callers \ {c} : pc'[b] = pc[b]
    BY <2>1 DEF SearchInv, SearchTypes
  <2>3. Exact(c)'
    BY <2>1, <2>2 DEF TopInv, Exact
  <2> QED BY <2>1, <2>2, <2>3, OtherTop
<1>5. CASE ReturnTopN(c)
  <2>1. /\ pc'[c] = "idle" /\ found'[c] = <<>>
        /\ \A b \in Callers \ {c} : /\ pc'[b] = pc[b] /\ start'[b] = start[b] /\ goal'[b] = goal[b]
                                    /\ cand'[b] = cand[b] /\ found'[b] = found[b]
    BY <1>5 DEF ReturnTopN, Goto, SearchInv, SearchTypes, RestTypes
  <2>2. UNCHANGED matrix /\ torn' = torn \ {c}
    BY <1>5 DEF ReturnTopN, graphVars
  <2> QED BY <2>1, <2>2, OutsideTop
<1> QED BY <1>1, <1>3, <1>4, <1>5 DEF TopSearch

LEMMA NextTop ==
  SearchInv /\ RestTypes /\ TreeInv /\ TopInv /\ [Next]_vars => TopInv'
<1> SUFFICES ASSUME SearchInv, RestTypes, TreeInv, TopInv, [Next]_vars PROVE TopInv'
  OBVIOUS
<1>1. CASE UNCHANGED <<matrix, pc, start, goal, cand, found, torn>>
  BY <1>1 DEF TopInv, Exact
<1>2. ASSUME NEW n \in Site, Join(n) PROVE TopInv'
  BY <1>1, <1>2 DEF Join, graphVars, sptVars, topVars, histVars
<1>3. CASE Restart
  BY <1>3, FreshTop DEF Restart
<1>4. CASE UNCHANGED vars
  BY <1>1, <1>4 DEF vars, graphVars, sptVars, topVars, histVars
<1> QED BY <1>2, <1>3, <1>4, CallTop, ExtendTop DEF Next

\* GetTopNShortestPaths (topn.go) returns the N shortest simple paths, in order
\* and with their costs, or all of them if there are fewer, for any mesh, costs and
\* N and among any number of goroutines that search and refresh the graph, unless
\* one of them wrote the matrix since it began (it holds no lock).
THEOREM TopNExactHolds == Spec => []TopNExact
<1>1. SearchInv /\ RestTypes /\ TreeInv /\ TopInv /\ [Next]_vars => TopInv'
  BY NextTop
<1>2. SearchInv /\ RestTypes /\ TopInv => TopNExact
  <2> SUFFICES ASSUME SearchInv, RestTypes, TopInv, NEW c \in Callers \ torn, pc[c] = "topret"
               PROVE  TopOf(matrix, c)
    BY DEF TopNExact
  <2>1. /\ matrix \in Matrices /\ start[c] \in Site /\ goal[c] \in Site
        /\ cand[c] \in SUBSET PathResults /\ found[c] \in Seq(PathResults)
    BY DEF SearchInv, SearchTypes, RestTypes, Matrices
  <2>2. /\ Frontier(matrix, start[c], goal[c], cand[c], found[c])
        /\ Len(found[c]) <= N /\ (cand[c] = {} \/ Len(found[c]) = N)
    BY DEF TopInv, Exact
  <2> QED BY <2>1, <2>2, EndFrontier
<1> QED BY InitTop, TreeAlways, <1>1, <1>2, PTL DEF Spec
================================================================================
