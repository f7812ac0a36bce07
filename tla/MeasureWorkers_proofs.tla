------------------------ MODULE MeasureWorkers_proofs ------------------------
(* Ownership of the workers, for any interfaces and sites.                   *)
EXTENDS MeasureWorkers, TLAPS

\* site.stop runs for exactly one site, and only while it is in m.sites.
Stopping ==
  /\ mpc = "stopping" <=> leaving # None
  /\ mpc = "down" => leaving = None

\* The removal loop has only sites of m.sites left, none of them in site.stop.
LoopSites ==
  mpc \in {"remove", "stopping"} =>
    \A s \in todoSites : first[s] # None /\ s # leaving

\* Entries belong to sites in m.sites, and an entry is a Worker already made.
EntriesMade ==
  \A i \in Iface :
    /\ workers[i] <= gen[i]
    /\ first[SiteOf[i]] = None => workers[i] = 0

\* Only Workers already made have been closed.
ClosedMade == \A w \in closed : w[2] <= gen[w[1]]

\* A goroutine that has looked runs on a Worker.
RunsOnWorker == \A r \in gs : r.pc # "new" => r.on # 0

OwnInv ==
  /\ TypeOK
  /\ Stopping /\ LoopSites /\ EntriesMade /\ ClosedMade /\ RunsOnWorker
  /\ OpenWorkersOwned

LEMMA InitOwn == Init => OwnInv
<1>1. SUFFICES ASSUME Init PROVE OwnInv
  OBVIOUS
<1>. USE <1>1 DEF Init
<1>2. TypeOK
  BY MeasureWorkersAssumption DEF TypeOK, Worker
<1>3. Stopping /\ LoopSites /\ EntriesMade /\ ClosedMade /\ RunsOnWorker
  BY MeasureWorkersAssumption DEF Stopping, LoopSites, EntriesMade, ClosedMade, RunsOnWorker, None
<1>4. OpenWorkersOwned
  BY MeasureWorkersAssumption DEF OpenWorkersOwned
<1>5. QED
  BY <1>2, <1>3, <1>4 DEF OwnInv

LEMMA PanicOwn == OwnInv /\ Panic => OwnInv'
<1>1. SUFFICES ASSUME OwnInv, Panic PROVE OwnInv'
  OBVIOUS
<1>. USE <1>1 DEF Panic
<1>2. TypeOK'
  BY MeasureWorkersAssumption DEF OwnInv, TypeOK, Worker, envVars
<1>3. (Stopping /\ LoopSites /\ EntriesMade /\ ClosedMade /\ RunsOnWorker)'
  BY MeasureWorkersAssumption DEF Stopping, LoopSites, EntriesMade, ClosedMade, RunsOnWorker, None
<1>4. OpenWorkersOwned'
  BY MeasureWorkersAssumption DEF OpenWorkersOwned
<1>5. QED
  BY <1>2, <1>3, <1>4 DEF OwnInv

\* A step of a goroutine that does not panic leaves the maps alone.
LEMMA WorkOwn ==
  ASSUME NEW r \in gs, OwnInv, Work(r)
  PROVE  OwnInv'
<1>1. CASE Panic
  BY <1>1, PanicOwn
<1>2. CASE ~Panic
  <2>. USE <1>2 DEF Work, Begin, MeasureLatency, MeasureBandwidth, Stop, Unregister,
                 UnregisterLatency, UnregisterBandwidth, ShowLatency
  <2>1. UNCHANGED <<envVars, mgrVars, mapVars>>
    OBVIOUS
  <2>2. r \in Goroutine
    BY DEF OwnInv, TypeOK
  <2>9. r.iface \in Iface /\ r.kind \in Kinds /\ r.on \in Nat
    BY <2>2 DEF Goroutine
  <2>3. series' \in [Iface -> [Kinds -> {"none", "up", "failed", "removed"}]]
    <3>1. \A v \in {"none", "up", "failed", "removed"} : Show(r, v) =>
            series' \in [Iface -> [Kinds -> {"none", "up", "failed", "removed"}]]
      BY <2>9 DEF Show, OwnInv, TypeOK
    <3>2. series' = series =>
            series' \in [Iface -> [Kinds -> {"none", "up", "failed", "removed"}]]
      BY DEF OwnInv, TypeOK
    <3>3. CASE Begin(r)
      BY <3>2, <3>3
    <3>4. CASE MeasureLatency(r)
      BY <3>1, <3>4
    <3>5. CASE MeasureBandwidth(r)
      BY <3>1, <3>2, <3>5
    <3>6. CASE Stop(r)
      BY <3>1, <3>2, <3>6
    <3>7. QED
      BY <3>3, <3>4, <3>5, <3>6
  <2>4. working' \subseteq Worker
    <3>1. working \subseteq Worker
      BY DEF OwnInv, TypeOK
    <3>2. CASE MeasureLatency(r)
      <4>1. r.pc # "new"
        BY <3>2 DEF Measures
      <4>2. <<r.iface, r.on>> \in Worker
        BY <2>9, <4>1 DEF Worker, OwnInv, RunsOnWorker
      <4>3. QED
        BY <3>1, <3>2, <4>2
    <3>3. CASE ~MeasureLatency(r)
      BY <3>1, <3>3
    <3>4. QED
      BY <3>2, <3>3
  <2>5. gs' \subseteq Goroutine /\ RunsOnWorker'
    <3>1. \A on \in Nat, l \in {"sleep", "loop"}, named \in BOOLEAN :
            on # 0 /\ Becomes(r, on, l, named) => gs' \subseteq Goroutine /\ RunsOnWorker'
      BY <2>2 DEF Becomes, OwnInv, TypeOK, Goroutine, RunsOnWorker
    <3>2. gs' \subseteq gs => gs' \subseteq Goroutine /\ RunsOnWorker'
      BY DEF OwnInv, TypeOK, RunsOnWorker
    <3>3. workers[r.iface] \in Nat /\ r.on \in Nat /\ (r.pc # "new" => r.on # 0)
      BY <2>2 DEF OwnInv, TypeOK, Goroutine, RunsOnWorker
    <3>4. CASE Begin(r)
      BY <3>1, <3>3, <3>4
    <3>5. CASE MeasureLatency(r)
      BY <3>1, <3>3, <3>5 DEF Measures
    <3>6. CASE MeasureBandwidth(r)
      BY <3>1, <3>2, <3>3, <3>6 DEF Measures
    <3>7. CASE Stop(r)
      BY <3>2, <3>7
    <3>8. QED
      BY <3>4, <3>5, <3>6, <3>7
  <2>6. TypeOK'
    BY <2>1, <2>3, <2>4, <2>5 DEF OwnInv, TypeOK, envVars, mgrVars, mapVars
  <2>7. (Stopping /\ LoopSites /\ EntriesMade /\ ClosedMade /\ OpenWorkersOwned)'
    BY <2>1 DEF OwnInv, Stopping, LoopSites, EntriesMade, ClosedMade, OpenWorkersOwned,
       mgrVars, mapVars
  <2>8. QED
    BY <2>5, <2>6, <2>7 DEF OwnInv
<1>3. QED
  BY <1>1, <1>2

LEMMA StopSiteOwn ==
  ASSUME NEW s \in Site, OwnInv, mpc = "remove", StopSite(s),
         todoSites' = todoSites \ {s}, UNCHANGED <<envVars, listed, todo>>
  PROVE  OwnInv'
<1>. USE DEF StopSite, envVars, workVars
<1>1. TypeOK
  BY DEF OwnInv
<1>2. \A i \in Iface : workers[i] # 0 => <<i, workers[i]>> \in Worker
  BY <1>1 DEF TypeOK, Worker
<1>3. TypeOK'
  BY <1>1, <1>2 DEF TypeOK, Of
<1>4. (Stopping /\ LoopSites /\ EntriesMade /\ RunsOnWorker)'
  BY MeasureWorkersAssumption DEF OwnInv, Stopping, LoopSites, EntriesMade, RunsOnWorker, None
<1>5. ClosedMade'
  BY <1>1 DEF OwnInv, ClosedMade, EntriesMade, Of, TypeOK
<1>6. OpenWorkersOwned'
  <2>1. SUFFICES ASSUME NEW i \in Iface, NEW n \in 1..gen[i]
                 PROVE  <<i, n>> \notin closed' <=> workers[i] = n /\ SiteOf[i] # s
    BY DEF OpenWorkersOwned
  <2>2. leaving = None /\ SiteOf[i] \in Site /\ None \notin Site
    BY MeasureWorkersAssumption DEF OwnInv, Stopping, None
  <2>3. <<i, n>> \notin closed <=> workers[i] = n
    BY <2>2 DEF OwnInv, OpenWorkersOwned
  <2>4. <<i, n>> \in closed' <=> <<i, n>> \in closed \/ (SiteOf[i] = s /\ workers[i] = n)
    BY <2>2, <1>1 DEF Of, TypeOK
  <2>5. QED
    BY <2>3, <2>4
<1>7. QED
  BY <1>3, <1>4, <1>5, <1>6 DEF OwnInv

LEMMA StopWorkerOwn ==
  ASSUME NEW s \in Site, OwnInv, mpc = "remove", first[s] # None, StopWorker(s),
         todoSites' = todoSites \ {s}, UNCHANGED <<envVars, listed, todo>>
  PROVE  OwnInv'
<1>. DEFINE f == first[s]
<1>. USE DEF StopWorker, envVars, workVars
<1>1. TypeOK /\ f \in Iface /\ workers[f] \in Nat \ {0} /\ leaving = None
  BY DEF OwnInv, TypeOK, Stopping
<1>2. workers' = [workers EXCEPT ![f] = 0] /\ closed' = closed \cup {<<f, workers[f]>>}
  OBVIOUS
<1>3. TypeOK'
  BY <1>1, <1>2 DEF TypeOK, Worker
<1>4. (Stopping /\ LoopSites /\ EntriesMade /\ RunsOnWorker)'
  BY <1>1, <1>2 DEF OwnInv, Stopping, LoopSites, EntriesMade, RunsOnWorker, TypeOK
<1>5. ClosedMade'
  BY <1>1, <1>2 DEF OwnInv, ClosedMade, EntriesMade, TypeOK
<1>6. OpenWorkersOwned'
  <2>1. SUFFICES ASSUME NEW i \in Iface, NEW n \in 1..gen[i]
                 PROVE  <<i, n>> \notin closed' <=> workers'[i] = n /\ SiteOf[i] # leaving
    BY DEF OpenWorkersOwned
  <2>2. SiteOf[i] # leaving
    BY <1>1, MeasureWorkersAssumption DEF None
  <2>3. <<i, n>> \notin closed <=> workers[i] = n
    BY <2>2 DEF OwnInv, OpenWorkersOwned
  <2>4. n \in Nat /\ n # 0
    BY <1>1 DEF TypeOK
  <2>5. CASE i = f
    BY <1>1, <1>2, <2>2, <2>3, <2>4, <2>5 DEF TypeOK
  <2>6. CASE i # f
    BY <1>1, <1>2, <2>2, <2>3, <2>6 DEF TypeOK
  <2>7. QED
    BY <2>5, <2>6
<1>7. QED
  BY <1>3, <1>4, <1>5, <1>6 DEF OwnInv

LEMMA NewWorkerOwn ==
  ASSUME NEW i \in Iface, OwnInv, mpc = "add", workers[i] = 0, NewWorker(i),
         first' \in [Site -> Iface \cup {None}],
         \A s \in Site : first[s] # None => first'[s] = first[s],
         first'[SiteOf[i]] # None,
         todo' \subseteq todo,
         UNCHANGED <<envVars, mpc, listed, leaving, todoSites, closed, working, series>>
  PROVE  OwnInv'
<1>. USE DEF NewWorker, envVars
<1>1. TypeOK /\ gen[i] \in Nat /\ leaving = None
  BY DEF OwnInv, TypeOK, Stopping
<1>2. Started(i, gen[i] + 1) \subseteq Goroutine
  <2>1. \A n \in Nat \ {0}, k \in Kinds :
          [iface |-> i, kind |-> k, made |-> n, on |-> 0, pc |-> "new", named |-> FALSE]
            \in Goroutine
    BY DEF Goroutine
  <2>2. gen[i] + 1 \in Nat \ {0}
    BY <1>1
  <2>3. QED
    BY <2>1, <2>2 DEF Started
<1>3. TypeOK'
  BY <1>1, <1>2 DEF TypeOK
<1>4. Stopping' /\ LoopSites' /\ RunsOnWorker'
  BY DEF OwnInv, Stopping, LoopSites, RunsOnWorker, Started
<1>5. EntriesMade' /\ ClosedMade'
  <2>1. \A j \in Iface : SiteOf[j] \in Site
    BY MeasureWorkersAssumption
  <2>2. \A j \in Iface : gen'[j] \in Nat /\ gen[j] \in Nat /\ gen'[j] >= gen[j]
    BY <1>1 DEF TypeOK
  <2>3. ClosedMade'
    BY <1>1, <2>2 DEF OwnInv, ClosedMade, TypeOK, Worker
  <2>4. EntriesMade'
    BY <1>1, <2>1, <2>2 DEF OwnInv, EntriesMade, TypeOK
  <2>5. QED
    BY <2>3, <2>4
<1>6. OpenWorkersOwned'
  <2>1. SUFFICES ASSUME NEW j \in Iface, NEW n \in 1..gen'[j]
                 PROVE  <<j, n>> \notin closed <=> workers'[j] = n /\ SiteOf[j] # leaving
    BY DEF OpenWorkersOwned
  <2>2. SiteOf[j] # leaving
    BY <1>1, MeasureWorkersAssumption DEF None
  <2>3. CASE j # i
    BY <1>1, <2>2, <2>3 DEF OwnInv, OpenWorkersOwned, TypeOK
  <2>4. CASE j = i /\ n \in 1..gen[i]
    BY <1>1, <2>2, <2>4 DEF OwnInv, OpenWorkersOwned, TypeOK
  <2>5. CASE j = i /\ n = gen[i] + 1
    <3>1. <<j, n>> \notin closed
      BY <1>1, <2>5 DEF OwnInv, ClosedMade
    <3>2. QED
      BY <1>1, <2>2, <2>5, <3>1 DEF TypeOK
  <2>6. QED
    BY <1>1, <2>3, <2>4, <2>5 DEF TypeOK
<1>7. QED
  BY <1>3, <1>4, <1>5, <1>6 DEF OwnInv

LEMMA ManageOwn == OwnInv /\ Manage => OwnInv'
<1>1. SUFFICES ASSUME OwnInv, Manage PROVE OwnInv'
  OBVIOUS
<1>. USE <1>1
<1>2. CASE List
  <2>1. TypeOK'
    BY <1>2 DEF List, OwnInv, TypeOK, envVars, mapVars, workVars
  <2>2. QED
    BY <1>2, <2>1, MeasureWorkersAssumption DEF None, List, OwnInv, Stopping,
       LoopSites, EntriesMade, ClosedMade, RunsOnWorker, OpenWorkersOwned, mapVars, workVars
<1>3. ASSUME NEW s \in Site, Remove(s) PROVE OwnInv'
  <2>2. CASE Panic
    BY <2>2, PanicOwn
  <2>3. CASE StopSite(s) /\ todoSites' = todoSites \ {s} /\ UNCHANGED <<envVars, listed, todo>>
    BY <1>3, <2>3, StopSiteOwn DEF Remove
  <2>4. CASE StopWorker(s) /\ todoSites' = todoSites \ {s} /\ UNCHANGED <<envVars, listed, todo>>
    <3>1. first[s] # None
      BY <2>4, <1>3 DEF Remove, OwnInv, LoopSites, Stopping
    <3>2. QED
      BY <1>3, <2>4, <3>1, StopWorkerOwn DEF Remove
  <2>5. CASE todoSites' = todoSites \ {s}
             /\ UNCHANGED <<envVars, mpc, listed, leaving, todo, mapVars, workVars>>
    <3>1. TypeOK'
      BY <2>5 DEF OwnInv, TypeOK, envVars, mapVars, workVars
    <3>2. QED
      BY <2>5, <3>1 DEF OwnInv, Stopping, LoopSites, EntriesMade, ClosedMade, RunsOnWorker,
         OpenWorkersOwned, mapVars, workVars
  <2>6. QED
    BY <1>3, <2>2, <2>3, <2>4, <2>5 DEF Remove
<1>4. CASE StopTimeout
  <2>. USE <1>4, MeasureWorkersAssumption DEF StopTimeout, envVars, workVars
  <2>1. TypeOK /\ leaving \in Site /\ None \notin Site
    BY DEF OwnInv, TypeOK, Stopping, None
  <2>2. TypeOK'
    BY <2>1 DEF TypeOK
  <2>3. (Stopping /\ LoopSites /\ EntriesMade /\ ClosedMade /\ RunsOnWorker)'
    BY <2>1 DEF OwnInv, Stopping, LoopSites, EntriesMade, ClosedMade, RunsOnWorker, TypeOK
  <2>4. OpenWorkersOwned'
    <3>1. SUFFICES ASSUME NEW i \in Iface, NEW n \in 1..gen[i]
                   PROVE  <<i, n>> \notin closed <=> workers'[i] = n /\ SiteOf[i] # None
      BY DEF OpenWorkersOwned
    <3>2. <<i, n>> \notin closed <=> workers[i] = n /\ SiteOf[i] # leaving
      BY DEF OwnInv, OpenWorkersOwned
    <3>3. n # 0 /\ SiteOf[i] # None
      BY <2>1 DEF TypeOK
    <3>4. QED
      BY <3>2, <3>3
  <2>5. QED
    BY <2>2, <2>3, <2>4 DEF OwnInv
<1>5. CASE Removed \/ Added
  <2>1. TypeOK'
    BY <1>5 DEF Removed, Added, OwnInv, TypeOK, envVars, mapVars, workVars
  <2>2. QED
    BY <1>5, <2>1 DEF Removed, Added, OwnInv, Stopping, LoopSites, EntriesMade,
       ClosedMade, RunsOnWorker, OpenWorkersOwned, mapVars, workVars
<1>6. ASSUME NEW i \in Iface, Add(i) PROVE OwnInv'
  <2>1. TypeOK /\ SiteOf[i] \in Site /\ i # None
    BY MeasureWorkersAssumption DEF OwnInv, None
  <2>2. CASE Panic
    BY <2>2, PanicOwn
  <2>3. CASE ~Panic /\ NewWorker(i)
    <3>1. workers[i] = 0
      BY <1>6, <2>3 DEF Add, NewWorker, OwnInv, EntriesMade, TypeOK
    <3>2. /\ first' \in [Site -> Iface \cup {None}]
          /\ \A s \in Site : first[s] # None => first'[s] = first[s]
          /\ first'[SiteOf[i]] # None
      BY <1>6, <2>1, <2>3 DEF Add, TypeOK
    <3>3. /\ mpc = "add" /\ todo' \subseteq todo
          /\ UNCHANGED <<envVars, mpc, listed, leaving, todoSites, closed, working, series>>
      BY <1>6, <2>3 DEF Add
    <3>4. QED
      BY <2>3, <3>1, <3>2, <3>3, NewWorkerOwn
  <2>4. CASE todo' = todo \ {i}
             /\ UNCHANGED <<envVars, mpc, listed, leaving, todoSites, mapVars, workVars>>
    <3>1. TypeOK'
      BY <2>4 DEF OwnInv, TypeOK, envVars, mapVars, workVars
    <3>2. QED
      BY <2>4, <3>1 DEF OwnInv, Stopping, LoopSites, EntriesMade, ClosedMade,
         RunsOnWorker, OpenWorkersOwned, mapVars, workVars
  <2>5. QED
    BY <1>6, <2>2, <2>3, <2>4 DEF Add, mapVars, workVars
<1>7. QED
  BY <1>2, <1>3, <1>4, <1>5, <1>6 DEF Manage

LEMMA NextOwn == OwnInv /\ [Next]_vars => OwnInv'
<1>1. SUFFICES ASSUME OwnInv, [Next]_vars PROVE OwnInv'
  OBVIOUS
<1>. USE <1>1
<1>2. CASE Manage
  BY <1>2, ManageOwn
<1>3. CASE \E r \in gs : Work(r)
  BY <1>3, WorkOwn
<1>4. CASE Restart \/ \E i \in Iface : IfaceChange(i)
  <2>1. TypeOK'
    <3>1. up' \subseteq Iface
      BY <1>4 DEF Restart, IfaceChange, OwnInv, TypeOK, envVars
    <3>2. changes' \in 0..MaxChanges
      BY <1>4, MeasureWorkersAssumption DEF Restart, IfaceChange, OwnInv, TypeOK, envVars
    <3>3. QED
      BY <1>4, <3>1, <3>2
      DEF Restart, IfaceChange, OwnInv, TypeOK, mgrVars, mapVars, workVars
  <2>2. QED
    BY <1>4, <2>1 DEF Restart, IfaceChange, OwnInv, Stopping, LoopSites, EntriesMade,
       ClosedMade, RunsOnWorker, OpenWorkersOwned, mgrVars, mapVars, workVars
<1>5. CASE UNCHANGED vars
  BY <1>5 DEF OwnInv, TypeOK, Stopping, LoopSites, EntriesMade, ClosedMade,
     RunsOnWorker, OpenWorkersOwned, vars, envVars, mgrVars, mapVars, workVars
<1>6. QED
  BY <1>2, <1>3, <1>4, <1>5 DEF Next

\* Every variable of manageWorkers and its goroutines keeps its type: no panic of
\* the manager and no late goroutine puts a Worker where there is none.
THEOREM TypeCorrect == Spec => []TypeOK
<1>1. OwnInv => TypeOK
  BY DEF OwnInv
<1>2. QED
  BY <1>1, InitOwn, NextOwn, PTL DEF Spec

\* Every Worker made is registered or stopped (measure.go, manageWorkers and
\* site.stop), for any interfaces, sites and number of changes.
THEOREM OpenWorkersOwnedHolds == Spec => []OpenWorkersOwned
<1>1. OwnInv => OpenWorkersOwned
  BY DEF OwnInv
<1>2. QED
  BY <1>1, InitOwn, NextOwn, PTL DEF Spec
===============================================================================
