---------------------------- MODULE SitePlan_proofs ----------------------------
(***************************************************************************)
(* For every set of sites, rows and handlers: the kernel never keeps a hop *)
(* of an older row, the map answers the RPCs with the row delivered last   *)
(* but for destinations via site 0, and the site implements PlanCell.      *)
(***************************************************************************)
EXTENDS SitePlan, TLAPS

\* A row that is no change agrees with the map but for the keys it lacks.
Reported(d) ==
  \/ GetCentralisedRoute(d) = last[d]
  \/ last[d] = 0 /\ GetCentralisedRoute(d) = -1

\* What the handlers have written so far, and who holds the lock.
Writing ==
  /\ \A h \in Handlers : hpc[h] = "fill" <=> writer = h
  /\ \A h \in Handlers : writer = h =>
       /\ \E r \in Rows : want[h] = TableOf(r)
       /\ want[h] = last
       /\ \A d \in Site : siteRoutes[d] = IF d \in left THEN None ELSE want[h][d]
  /\ writer = Nobody => \A d \in Site : Reported(d)

\* What the manager has placed so far is what the map says now, unless a
\* handler is still to signal.
Quiet == \A h \in Handlers : hpc[h] = "idle"

Followed ==
  Quiet =>
    /\ mpc = "sync" => \A d \in Dest \ todo : rt[d] \in {Via(d), Graph}
    /\ mpc = "idle" /\ ~failed => \A d \in Dest : kernel[d] \in {Via(d), Graph}

IInv == TypeOK /\ Writing /\ Followed

LEMMA ZeroIsASite == 0 \in Site /\ 0 \in Nat /\ Self \in Site /\ None \notin Site /\ Graph \notin Site
  BY SitePlanAssumption DEF None, Graph

\* A row as a table with a place for every site.
LEMMA TableType ==
  ASSUME NEW r \in Rows
  PROVE  /\ TableOf(r) \in [Site -> Site \cup {None}]
         /\ DOMAIN r \subseteq Site
<1>1. PICK D \in SUBSET Site : r \in [D -> Site]
  BY SitePlanAssumption
<1> QED BY <1>1 DEF TableOf

LEMMA ViaType ==
  ASSUME siteRoutes \in [Site -> Site \cup {None}], NEW d \in Site
  PROVE  Via(d) \in Site \cup {Graph}
  BY ZeroIsASite DEF Via, Lookup

LEMMA InitInv == Init => IInv
  BY ZeroIsASite, SitePlanAssumption
     DEF Init, IInv, TypeOK, Writing, Reported, GetCentralisedRoute, Followed, Quiet, NoKeys, NoTable, MaxAge, Nobody

\* A new process satisfies the invariant.
LEMMA RestartInv ==
  ASSUME IInv, Fault, Restarted
  PROVE  IInv'
<1>1. faults' \in 0..MaxFaults
  BY SitePlanAssumption DEF IInv, TypeOK, Fault
<1>2. TypeOK'
  BY <1>1, ZeroIsASite DEF IInv, TypeOK, Restarted, NoKeys, NoTable, MaxAge
<1>3. Writing' /\ Followed'
  BY SitePlanAssumption
     DEF Restarted, Writing, Reported, GetCentralisedRoute, NoKeys, Followed, Quiet, Nobody
<1> QED BY <1>2, <1>3 DEF IInv

LEMMA RenewInv ==
  ASSUME IInv, NEW h \in Handlers, NEW r \in Rows, RenewPlan(h, r)
  PROVE  IInv'
<1>1. TypeOK'
  BY TableType DEF IInv, TypeOK, RenewPlan, handlerVars, managerVars, MaxAge
<1>5. PICK D \in SUBSET Site : r \in [D -> Site]
  BY SitePlanAssumption
<1>6. ASSUME NEW d \in Site
      PROVE  siteRoutes[d] = TableOf(r)[d] \/ (TableOf(r)[d] = 0 /\ siteRoutes[d] = -1)
  <2>1. CASE d \in D
    BY <1>5, <2>1 DEF RenewPlan, Changed, Lookup, TableOf, None
  <2>2. CASE d \notin D
    BY <1>5, <2>2 DEF RenewPlan, Changed, TableOf, None
  <2> QED BY <2>1, <2>2
<1>7. writer' = Nobody /\ \A g \in Handlers : hpc'[g] # "fill" /\ writer' # g
  BY SitePlanAssumption DEF IInv, Writing, RenewPlan, handlerVars
<1>2. Writing'
  BY <1>6, <1>7 DEF Writing, Reported, GetCentralisedRoute, RenewPlan
<1>3. \A d \in Dest : Via(d)' = Via(d)
  BY DEF RenewPlan, Via, Lookup
<1>4. Followed'
  BY <1>3 DEF IInv, Followed, Quiet, RenewPlan, handlerVars, managerVars
<1> QED BY <1>1, <1>2, <1>4 DEF IInv

LEMMA ReplaceInv ==
  ASSUME IInv, NEW h \in Handlers, NEW r \in Rows, ReplacePlan(h, r)
  PROVE  IInv'
<1>1. /\ TableOf(r) \in [Site -> Site \cup {None}]
      /\ DOMAIN r \subseteq Site
  BY TableType
<1>2. TypeOK'
  BY <1>1 DEF IInv, TypeOK, ReplacePlan, NoKeys, managerVars
<1>3. hpc'[h] = "fill" /\ want'[h] = TableOf(r) /\ writer' = h
  BY DEF IInv, TypeOK, ReplacePlan
<1>4. \A g \in Handlers \ {h} : hpc'[g] = hpc[g] /\ hpc[g] # "fill"
  BY SitePlanAssumption DEF IInv, TypeOK, Writing, ReplacePlan
<1>5. \A d \in Site : siteRoutes'[d] = IF d \in left' THEN None ELSE TableOf(r)[d]
  BY DEF ReplacePlan, NoKeys, TableOf
<1>8. writer' # Nobody /\ last' = TableOf(r)
  BY <1>3, SitePlanAssumption DEF ReplacePlan
<1>6. Writing'
  BY <1>3, <1>4, <1>5, <1>8 DEF Writing
<1>7. Followed'
  BY <1>3 DEF Followed, Quiet
<1> QED BY <1>2, <1>6, <1>7 DEF IInv

LEMMA CopyInv ==
  ASSUME IInv, NEW h \in Handlers, NEW d \in Site, CopyKey(h, d)
  PROVE  IInv'
<1>1. writer = h /\ want[h][d] \in Site \cup {None}
  BY DEF IInv, TypeOK, Writing, CopyKey
<1>2. TypeOK'
  BY <1>1 DEF IInv, TypeOK, CopyKey, managerVars
<1>3. \A e \in Site : siteRoutes'[e] = IF e \in left' THEN None ELSE want[h][e]
  BY <1>1 DEF IInv, TypeOK, Writing, CopyKey
<1>6. writer' = h /\ h # Nobody
  BY <1>1, SitePlanAssumption DEF CopyKey
<1>4. Writing'
  BY <1>1, <1>3, <1>6 DEF IInv, Writing, CopyKey
<1>5. Followed'
  BY DEF Followed, Quiet, CopyKey
<1> QED BY <1>2, <1>4, <1>5 DEF IInv

LEMMA FinishInv ==
  ASSUME IInv, NEW h \in Handlers, FinishPlan(h)
  PROVE  IInv'
<1>1. TypeOK'
  BY ZeroIsASite DEF IInv, TypeOK, FinishPlan, managerVars, MaxAge, NoKeys
<1>2. hpc'[h] = "signal" /\ writer' = Nobody
  BY DEF IInv, TypeOK, FinishPlan
<1>3. \A g \in Handlers : hpc'[g] # "fill"
  BY <1>2 DEF IInv, TypeOK, Writing, FinishPlan
<1>6. \A d \in Site : siteRoutes'[d] = last'[d]
  BY DEF IInv, Writing, FinishPlan
<1>4. Writing'
  BY <1>2, <1>3, <1>6, SitePlanAssumption DEF Writing, Reported, GetCentralisedRoute
<1>5. Followed'
  BY <1>2 DEF Followed, Quiet
<1> QED BY <1>1, <1>4, <1>5 DEF IInv

\* A sync starts: nothing is placed yet.
LEMMA BeginInv ==
  ASSUME IInv,
         \/ Tick
         \/ \E h \in Handlers : Receive(h)
  PROVE  IInv'
<1>1. CASE Tick
  <2>1. TypeOK'
    BY <1>1 DEF IInv, TypeOK, Tick, BeginSync, NoTable, handlerVars
  <2>2. Writing'
    BY <1>1 DEF IInv, Writing, Reported, GetCentralisedRoute, Tick, handlerVars
  <2>3. Followed'
    BY <1>1 DEF Followed, Tick, BeginSync
  <2> QED BY <2>1, <2>2, <2>3 DEF IInv
<1>2. ASSUME NEW h \in Handlers, Receive(h)
      PROVE  IInv'
  <2>1. TypeOK'
    BY <1>2 DEF IInv, TypeOK, Receive, BeginSync, NoTable
  <2>2. \A g \in Handlers : hpc'[g] = "fill" <=> hpc[g] = "fill"
    BY <1>2 DEF IInv, TypeOK, Receive
  <2>3. Writing'
    BY <1>2, <2>2 DEF IInv, Writing, Reported, GetCentralisedRoute, Receive
  <2>4. Followed'
    BY <1>2 DEF Followed, Receive, BeginSync
  <2> QED BY <2>1, <2>3, <2>4 DEF IInv
<1> QED BY <1>1, <1>2

LEMMA PlaceInv ==
  ASSUME IInv, NEW d \in Dest, Place(d)
  PROVE  IInv'
<1>1. d \in Site
  BY DEF Dest
<1>2. Via(d) \in Site \cup {Graph}
  BY <1>1, ViaType DEF IInv, TypeOK
<1>3. PICK hop \in {Via(d), Graph} : rt' = [rt EXCEPT ![d] = hop]
  BY DEF Place
<1>4. faults' \in 0..MaxFaults
  BY SitePlanAssumption DEF IInv, TypeOK, Place, Fault, NoFault
<1>5. TypeOK'
  BY <1>2, <1>3, <1>4 DEF IInv, TypeOK, Place, handlerVars
<1>6. Writing'
  BY DEF IInv, Writing, Reported, GetCentralisedRoute, Place, handlerVars
<1>7. \A e \in Dest : Via(e)' = Via(e)
  BY DEF Place, Via, Lookup
<1>8. rt'[d] \in {Via(d), Graph} /\ \A e \in Dest \ {d} : rt'[e] = rt[e]
  BY <1>3 DEF IInv, TypeOK
<1>9. Followed'
  BY <1>7, <1>8 DEF IInv, Followed, Quiet, Place, handlerVars
<1> QED BY <1>5, <1>6, <1>9 DEF IInv

LEMMA ApplyInv ==
  ASSUME IInv, Apply
  PROVE  IInv'
<1>1. kernel' \in [Dest -> Site \cup {None, Graph}]
  BY DEF IInv, TypeOK, Apply
<1>2. faults' \in 0..MaxFaults
  BY SitePlanAssumption DEF IInv, TypeOK, Apply, Fault, NoFault
<1>3. TypeOK'
  BY <1>1, <1>2 DEF IInv, TypeOK, Apply, handlerVars
<1>4. Writing'
  BY DEF IInv, Writing, Reported, GetCentralisedRoute, Apply, handlerVars
<1>5. \A e \in Dest : Via(e)' = Via(e)
  BY DEF Apply, Via, Lookup
<1>6. Followed'
  <2>1. CASE failed' = TRUE
    BY <2>1 DEF Followed, Apply
  <2>2. CASE kernel' = rt
    BY <2>2, <1>5 DEF IInv, Followed, Quiet, Apply, handlerVars
  <2> QED BY <2>1, <2>2 DEF Apply
<1> QED BY <1>3, <1>4, <1>6 DEF IInv

LEMMA ElapseInv ==
  ASSUME IInv, Elapse
  PROVE  IInv'
<1>1. TypeOK'
  BY DEF IInv, TypeOK, Elapse, handlerVars, managerVars, MaxAge
<1>2. Writing'
  BY DEF IInv, Writing, Reported, GetCentralisedRoute, Elapse, handlerVars
<1>3. \A e \in Dest : Via(e)' = Via(e)
  BY DEF Elapse, Via, Lookup
<1>4. Followed'
  BY <1>3 DEF IInv, Followed, Quiet, Elapse, handlerVars, managerVars
<1> QED BY <1>1, <1>2, <1>4 DEF IInv

LEMMA StepInv == IInv /\ [Next]_vars => IInv'
<1> SUFFICES ASSUME IInv, [Next]_vars
             PROVE  IInv'
  OBVIOUS
<1>1. CASE HandlerStep
  BY <1>1, RenewInv, ReplaceInv, CopyInv, FinishInv DEF HandlerStep
<1>2. CASE ManagerStep
  BY <1>2, BeginInv, PlaceInv, ApplyInv DEF ManagerStep
<1>3. CASE ConcurrentMapRead
  BY <1>3, RestartInv DEF ConcurrentMapRead
<1>4. CASE Elapse
  BY <1>4, ElapseInv
<1>5. CASE Restart
  BY <1>5, RestartInv DEF Restart
<1>6. CASE UNCHANGED vars
  BY <1>6 DEF vars, handlerVars, managerVars, IInv, TypeOK, Writing, Reported, GetCentralisedRoute,
     Followed, Quiet, Via, Lookup
<1> QED BY <1>1, <1>2, <1>3, <1>4, <1>5, <1>6 DEF Next

LEMMA Invariance == Spec => []IInv
  BY InitInv, StepInv, PTL DEF Spec

\* The daemon's plan state keeps its types (centralised.go:34-46).
THEOREM TypeCorrect == Spec => []TypeOK
  BY Invariance, PTL DEF IInv

\* Once every handler has returned and the last sync went through, the kernel
\* holds no hop of an older row (interface.go:11-17 signals after the write).
THEOREM NoStaleHopHolds == Spec => []NoStaleHop
<1>1. IInv => NoStaleHop
  BY DEF IInv, Followed, Quiet, NoStaleHop
<1> QED BY <1>1, Invariance, PTL

\* Outside an update GetCentralisedRoute answers with the row delivered last, but
\* for a destination that is new and reached via site 0, for which it answers -1
\* (interface.go:3-9, centralised.go:313-317).
THEOREM PlanReportedHolds == Spec => []PlanReported
<1>1. IInv => PlanReported
  BY DEF IInv, Writing, Reported, PlanReported
<1> QED BY <1>1, Invariance, PTL

------------------------------------------------------------------------------
(* Refinement.                                                              *)

\* The RouteManager reads an update that UpdateSiteRoutes takes for unchanged and
\* the map that is kept alike.
LEMMA UnchangedLookup ==
  ASSUME siteRoutes \in [Site -> Site \cup {None}], NEW r \in Rows, ~Changed(r)
  PROVE  Lookup(siteRoutes) = Lookup(TableOf(r))
<1>1. PICK D \in SUBSET Site : r \in [D -> Site]
  BY SitePlanAssumption
<1>2. ASSUME NEW d \in Site
      PROVE  Lookup(siteRoutes)[d] = Lookup(TableOf(r))[d]
  <2>1. CASE d \in D
    <3>1. r[d] \in Site /\ r[d] # None /\ TableOf(r)[d] = r[d]
      BY <1>1, <2>1, ZeroIsASite DEF TableOf
    <3>2. Lookup(siteRoutes)[d] = r[d]
      BY <1>1, <2>1 DEF Changed
    <3> QED BY <3>1, <3>2 DEF Lookup
  <2>2. CASE d \notin D
    <3>1. siteRoutes[d] = None /\ TableOf(r)[d] = None
      BY <1>1, <2>2 DEF Changed, TableOf
    <3> QED BY <3>1 DEF Lookup
  <2> QED BY <2>1, <2>2
<1> QED BY <1>2 DEF Lookup

LEMMA CellInit == Init => Cell!Init
  BY SitePlanAssumption DEF Init, Cell!Init, CellRow, CellFresh, MaxAge

\* What the handlers do is Adopt, when a row replaces or renews another, or
\* invisible.
LEMMA HandlerCell ==
  ASSUME IInv, HandlerStep
  PROVE  [Cell!Next]_(Cell!cellVars)
<1>0. Nobody \notin Handlers
  BY SitePlanAssumption
<1>1. ASSUME NEW h \in Handlers, NEW r \in Rows, RenewPlan(h, r)
      PROVE  Cell!Adopt
  <2>1. CellFresh'
    BY <1>1 DEF RenewPlan, handlerVars, CellFresh, MaxAge
  <2>2. CellRow' = Lookup(siteRoutes)
    BY <1>1 DEF RenewPlan, handlerVars, CellRow, Lookup
  <2>3. Lookup(siteRoutes) = Lookup(TableOf(r))
    BY <1>1, UnchangedLookup DEF IInv, TypeOK, RenewPlan
  <2> QED BY <2>1, <2>2, <2>3 DEF Cell!Adopt, CellFresh
<1>2. ASSUME NEW h \in Handlers, NEW r \in Rows, ReplacePlan(h, r)
      PROVE  Cell!Adopt
  <2>1. writer' = h /\ h # Nobody /\ want'[h] = TableOf(r)
    BY <1>0, <1>2 DEF ReplacePlan, IInv, TypeOK
  <2>2. CellRow' = Lookup(TableOf(r))
    BY <2>1 DEF CellRow, Lookup
  <2>3. CellFresh' = TRUE
    BY <2>1 DEF CellFresh
  <2> QED BY <2>2, <2>3 DEF Cell!Adopt
<1>3. ASSUME NEW h \in Handlers, NEW d \in Site, CopyKey(h, d)
      PROVE  CellRow' = CellRow /\ CellFresh' = CellFresh
  <2>1. writer = h /\ h # Nobody
    BY <1>0, <1>3 DEF CopyKey, IInv, Writing
  <2> QED BY <1>3, <2>1 DEF CopyKey, CellRow, CellFresh, Lookup
<1>4. ASSUME NEW h \in Handlers, FinishPlan(h)
      PROVE  CellRow' = CellRow /\ CellFresh' = CellFresh
  <2>1. writer = h /\ h # Nobody /\ writer' = Nobody /\ left = {}
    BY <1>0, <1>4 DEF FinishPlan, IInv, Writing
  <2>2. \A d \in Site : siteRoutes'[d] = want[h][d]
    BY <1>4, <2>1 DEF FinishPlan, IInv, Writing
  <2>3. CellRow' = CellRow
    BY <2>1, <2>2 DEF CellRow, Lookup
  <2>4. CellFresh' = TRUE /\ CellFresh = TRUE
    BY <1>4, <2>1 DEF FinishPlan, CellFresh, MaxAge
  <2> QED BY <2>3, <2>4
<1> QED BY <1>1, <1>2, <1>3, <1>4 DEF HandlerStep, Cell!Next, Cell!cellVars

LEMMA CellStep == IInv /\ [Next]_vars => [Cell!Next]_(Cell!cellVars)
<1> SUFFICES ASSUME IInv, [Next]_vars
             PROVE  [Cell!Next]_(Cell!cellVars)
  OBVIOUS
<1>1. CASE HandlerStep
  BY <1>1, HandlerCell
<1>2. CASE ManagerStep
  <2>1. UNCHANGED <<siteRoutes, age, writer, want>>
    BY <1>2 DEF ManagerStep, Receive, Tick, Place, Apply, handlerVars
  <2> QED BY <2>1 DEF Cell!cellVars, CellRow, CellFresh, Lookup
<1>3. CASE ConcurrentMapRead \/ Restart
  <2>1. Restarted
    BY <1>3 DEF ConcurrentMapRead, Restart
  <2>2. CellRow' = Lookup(NoKeys) /\ CellFresh' = FALSE
    BY <2>1 DEF Restarted, CellRow, CellFresh, MaxAge
  <2> QED BY <2>2 DEF Cell!Next, Cell!Restart
<1>4. CASE Elapse
  <2>1. CellRow' = CellRow
    BY <1>4 DEF Elapse, handlerVars, CellRow, Lookup
  <2>2. CASE CellFresh' = CellFresh
    BY <2>1, <2>2 DEF Cell!cellVars
  <2>3. CASE CellFresh' # CellFresh
    <3>1. writer' = writer /\ (CellFresh' => CellFresh)
      BY <1>4 DEF Elapse, handlerVars, CellFresh, MaxAge, IInv, TypeOK
    <3>2. CellFresh' = FALSE
      BY <2>3, <3>1 DEF CellFresh
    <3> QED BY <2>1, <3>2 DEF Cell!Next, Cell!Expire
  <2> QED BY <2>2, <2>3
<1>5. CASE UNCHANGED vars
  BY <1>5 DEF vars, handlerVars, Cell!cellVars, CellRow, CellFresh, Lookup
<1> QED BY <1>1, <1>2, <1>3, <1>4, <1>5 DEF Next

\* Every site implements PlanCell: a row replaces another in one step, whatever
\* the goroutines of UpdateRoute and the RouteManager interleave.
THEOREM SitePlanImplementsPlanCell == Spec => ImplementsPlanCell
<1>1. Spec => Cell!Init /\ [][Cell!Next]_(Cell!cellVars)
  BY CellInit, CellStep, Invariance, PTL DEF Spec
<1> QED BY <1>1, PTL DEF ImplementsPlanCell, Cell!Spec
=============================================================================
