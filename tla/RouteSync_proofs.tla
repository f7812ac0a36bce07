-------------------------- MODULE RouteSync_proofs --------------------------
(***************************************************************************)
(* What RouteSync keeps true for any number of prefixes, plans, handlers,  *)
(* failing calls and outside changes.                                      *)
(***************************************************************************)
EXTENDS RouteSync, TLAPS

\* A plan is in force before updatedAt can be recent, so centralised routing
\* never installs a missing gateway; UpdateRouteTable starts each time with the
\* first mode and without errors.
PlanInv ==
  /\ age < MaxAge => siteRoutes \in Plans
  /\ failed => pc = "place"
  /\ mode = "v6" => pc \in {"fetch", "place"}

LockInv == TypeOK /\ LockDiscipline /\ PlanInv

\* A prefix that the table in the making has taken care of.
Handled(p) == routeMap[p] # NoGw \/ kernel[p] = NoGw

\* The prefixes that BIRD has announced throughout and that its answers hold.
Kept == live \ omitted

\* Between the moment UpdateRouteTable takes the lock and the end of
\* removeOldKernelRoutes, every such prefix whose turn has come is in the table
\* or has no kernel route.
LiveInv ==
  /\ live \subseteq bird
  /\ pc = "fetch" /\ mode = "v6" => \A p \in Kept \cap V4 : Handled(p)
  /\ pc = "place" /\ ~failed =>
       /\ \A p \in Kept \cap OfMode(mode) : p \in todo \/ Handled(p)
       /\ mode = "v6" => \A p \in Kept \cap V4 : Handled(p)
  /\ pc \in {"list", "remove"} /\ phase # "boot" => \A p \in Kept : Handled(p)

\* While nothing has gone wrong since the managed routes were listed, the
\* kernel is one removal and one pass over the table away from the table.
SyncInv ==
  /\ pc \in {"down", "start", "dead", "lock", "fetch", "place", "list"} => ~synced
  /\ phase = "boot" => ~synced
  /\ synced /\ pc = "remove" => listed = In(kernel)
  /\ synced /\ pc = "apply" => \A p \in Prefix \ todo : kernel[p] = routeMap[p]
  /\ synced /\ pc \in {"loop", "graph"} => kernel = routeMap

-----------------------------------------------------------------------------
\* The initial state of a daemon has correct types, a free lock and no plan.
LEMMA InitLock == Init => LockInv
<1> SUFFICES ASSUME Init PROVE LockInv
  OBVIOUS
<1>1. kernel \in [Prefix -> Gw \cup {NoGw}] /\ routeMap \in [Prefix -> Gw \cup {NoGw}]
  BY DEF Init, Empty, Gw, NoGw
<1>2. rtCache \in [Modes -> Hashes]
  BY DEF Init, Hashes, Unset
<1>3. age \in 0..MaxAge /\ faults \in 0..MaxFaults /\ changes \in 0..MaxChanges
  BY RouteSyncAssumption DEF Init, MaxAge
<1>6. age < MaxAge => siteRoutes # NoGw
  BY DEF Init, MaxAge
<1>4. TypeOK
  BY <1>1, <1>2, <1>3, <1>6 DEF Init, TypeOK, Modes
<1>5. LockDiscipline /\ PlanInv
  BY DEF Init, LockDiscipline, PlanInv, MaxAge
<1> QED BY <1>4, <1>5 DEF LockInv

\* A panic leaves a process without lock, plan or blocked goroutines.
LEMMA PanicLock ==
  ASSUME TypeOK, Panic, UNCHANGED <<bird, leader, changes, kernel>>,
         faults' \in 0..MaxFaults
  PROVE  LockInv'
<1>1. routeMap' \in [Prefix -> Gw \cup {NoGw}]
  BY DEF Panic, Empty
<1>2. rtCache' \in [Modes -> Hashes]
  BY DEF Panic, Hashes, Unset
<1>5. ready' \in BOOLEAN /\ failed' \in BOOLEAN /\ graphReady' \in BOOLEAN
      /\ needUpdate' \in BOOLEAN /\ synced' \in BOOLEAN
  BY DEF Panic
<1>3. TypeOK'
  BY <1>1, <1>2, <1>5 DEF Panic, TypeOK, Modes, MaxAge
<1>4. LockDiscipline' /\ PlanInv'
  BY DEF Panic, LockDiscipline, PlanInv, MaxAge
<1> QED BY <1>3, <1>4 DEF LockInv

\* Every step of the manager, the watchdog, the handlers and the environment
\* preserves types, the lock discipline and the plan invariant.
LEMMA NextLock == LockInv /\ [Next]_vars => LockInv'
<1> SUFFICES ASSUME LockInv, [Next]_vars PROVE LockInv'
  OBVIOUS
<1> USE RouteSyncAssumption
    DEF LockInv, TypeOK, LockDiscipline, PlanInv, vars, envVars, tblVars, rmVars,
        crVars, wdVars, histVars, NoGw, Modes, MaxAge, Goto, Fault, NoFault
<1>1. CASE Start
  <2>1. faults' \in 0..MaxFaults /\ pc' \in {"lock", "dead"}
    BY <1>1 DEF Start
  <2>4. graphReady' \in BOOLEAN
    BY <1>1 DEF Start
  <2>2. TypeOK'
    BY <1>1, <2>1, <2>4 DEF Start
  <2>3. LockDiscipline' /\ PlanInv'
    BY <1>1 DEF Start
  <2> QED BY <2>2, <2>3
<1>2. CASE SyncGraph
  <2>1. faults' \in 0..MaxFaults
    BY <1>2 DEF SyncGraph
  <2>4. graphReady' \in BOOLEAN
    BY <1>2 DEF SyncGraph
  <2>2. TypeOK'
    BY <1>2, <2>1, <2>4 DEF SyncGraph
  <2>3. LockDiscipline' /\ PlanInv'
    BY <1>2 DEF SyncGraph
  <2> QED BY <2>2, <2>3
<1>3. CASE LockTable
  BY <1>3 DEF LockTable, Empty
<1>4. CASE FetchRoutes
  <2>1. ASSUME NEW answer \in SUBSET OfMode(mode), GetRoutes(mode, answer), todo' = answer,
               Goto("place"), UNCHANGED <<updateMu, mode, failed>>
        PROVE  LockInv'
    <3>1. faults' \in 0..MaxFaults
      BY <2>1 DEF GetRoutes
    <3>2. todo' \subseteq Prefix
      BY <2>1 DEF OfMode, Prefix
    <3>5. omitted' \subseteq Prefix
      BY <1>4, <2>1 DEF FetchRoutes, ReturnUpdate, AfterUpdate
    <3>3. TypeOK'
      BY <1>4, <2>1, <3>1, <3>2, <3>5 DEF FetchRoutes
    <3>4. LockDiscipline' /\ PlanInv'
      BY <1>4, <2>1 DEF FetchRoutes
    <3> QED BY <3>3, <3>4
  <2>2. CASE Fault /\ ReturnUpdate(FALSE)
    <3>1. TypeOK'
      <4>1. pc' \in {"apply", "loop"} /\ todo' \subseteq Prefix /\ faults' \in 0..MaxFaults
        BY <2>2 DEF ReturnUpdate, AfterUpdate, In
      <4>2. failed' \in BOOLEAN
        BY <2>2 DEF ReturnUpdate
      <4>3. updateMu' = "free" /\ mode' = "v4"
        BY <2>2 DEF ReturnUpdate
      <4>4. UNCHANGED <<bird, leader, changes, kernel, routeMap, ready, phase, listed,
                        graphReady, siteRoutes, age, wpc, rtCache, needUpdate, blocked,
                        live, synced>>
        BY <1>4 DEF FetchRoutes
      <4>5. omitted' \subseteq Prefix
        BY <1>4 DEF FetchRoutes
      <4> QED BY <4>1, <4>2, <4>3, <4>4, <4>5
    <3>2. LockDiscipline' /\ PlanInv'
      BY <1>4, <2>2 DEF FetchRoutes, ReturnUpdate, AfterUpdate
    <3> QED BY <3>1, <3>2
  <2> QED BY <1>4, <2>1, <2>2 DEF FetchRoutes
<1>5. ASSUME NEW p \in Prefix, PlaceRoute(p) PROVE LockInv'
  <2>1. CASE Centralised(p)
    BY <1>5, <2>1 DEF PlaceRoute, Centralised, Gw
  <2>2. CASE GraphBased(p)
    BY <1>5, <2>2 DEF PlaceRoute, GraphBased, FellBack, Gw
  <2>3. CASE BGPPath(p)
    <3>1. faults' \in 0..MaxFaults
      BY <2>3 DEF BGPPath, FellBack
    <3>2. /\ kernel' \in [Prefix -> Gw \cup {NoGw}]
          /\ routeMap' \in [Prefix -> Gw \cup {NoGw}]
      BY <2>3 DEF BGPPath, Gw
    <3>5. failed' \in BOOLEAN
      BY <2>3 DEF BGPPath
    <3>3. TypeOK'
      BY <1>5, <3>1, <3>2, <3>5 DEF PlaceRoute
    <3>4. LockDiscipline' /\ PlanInv'
      BY <1>5 DEF PlaceRoute
    <3> QED BY <3>3, <3>4
  <2> QED BY <1>5, <2>1, <2>2, <2>3 DEF PlaceRoute
<1>6. CASE PlacedAll
  <2>1. CASE ~failed /\ mode = "v4"
    BY <1>6, <2>1 DEF PlacedAll
  <2>2. CASE ~(~failed /\ mode = "v4")
    <3>1. ReturnUpdate(~failed)
      BY <1>6, <2>2 DEF PlacedAll
    <3>2. pc' \in {"apply", "list", "loop"} /\ todo' \subseteq Prefix
      BY <3>1 DEF ReturnUpdate, AfterUpdate, In
    <3>3. failed' \in BOOLEAN
      BY <3>1 DEF ReturnUpdate
    <3>4. TypeOK'
      BY <1>6, <3>1, <3>2, <3>3 DEF PlacedAll, ReturnUpdate
    <3>5. LockDiscipline' /\ PlanInv'
      BY <1>6, <3>1, <3>2 DEF PlacedAll, ReturnUpdate
    <3> QED BY <3>4, <3>5
  <2> QED BY <2>1, <2>2
<1>7. CASE ListManaged
  <2>1. faults' \in 0..MaxFaults
    <3>1. UNCHANGED faults \/ (faults > 0 /\ faults' = faults - 1)
      BY <1>7 DEF ListManaged
    <3> QED BY <3>1
  <2>6. listed' \subseteq Prefix
    BY <1>7 DEF ListManaged, In
  <2>5. synced' \in BOOLEAN
    BY <1>7 DEF ListManaged
  <2>2. pc' \in {"remove", "loop"} /\ phase' \in {"boot", "align", "run"} /\ ready' \in BOOLEAN
    BY <1>7 DEF ListManaged, AfterRemove
  <2>3. TypeOK'
    BY <1>7, <2>1, <2>2, <2>5, <2>6 DEF ListManaged
  <2>4. LockDiscipline' /\ PlanInv'
    BY <1>7, <2>2 DEF ListManaged
  <2> QED BY <2>3, <2>4
<1>8. CASE RemoveOld
  <2>1. faults' \in 0..MaxFaults
    <3>1. UNCHANGED faults \/ (faults > 0 /\ faults' = faults - 1)
      BY <1>8 DEF RemoveOld, RemoveRoute
    <3> QED BY <3>1
  <2>7. todo' \subseteq Prefix
    BY <1>8 DEF RemoveOld, RemoveRoute, In
  <2>6. synced' \in BOOLEAN
    BY <1>8 DEF RemoveOld, RemoveRoute
  <2>2. pc' \in {"apply", "loop"} /\ phase' \in {"boot", "align", "run"}
    BY <1>8 DEF RemoveOld, RemoveRoute, AfterRemove
  <2>3. kernel' \in [Prefix -> Gw \cup {NoGw}]
    BY <1>8 DEF RemoveOld, RemoveRoute
  <2>4. TypeOK'
    BY <1>8, <2>1, <2>2, <2>3, <2>6, <2>7 DEF RemoveOld, RemoveRoute
  <2>5. LockDiscipline' /\ PlanInv'
    BY <1>8, <2>2 DEF RemoveOld, RemoveRoute
  <2> QED BY <2>4, <2>5
<1>9. ASSUME NEW p \in Prefix, ConfigureRoute(p) PROVE LockInv'
  <2>1. /\ faults' \in 0..MaxFaults /\ todo' \subseteq Prefix
        /\ pc' \in {"apply", "list", "loop"}
    BY <1>9 DEF ConfigureRoute, AfterApply
  <2>5. synced' \in BOOLEAN
    BY <1>9 DEF ConfigureRoute
  <2>2. kernel' \in [Prefix -> Gw \cup {NoGw}]
    BY <1>9 DEF ConfigureRoute
  <2>3. TypeOK'
    BY <1>9, <2>1, <2>2, <2>5 DEF ConfigureRoute
  <2>4. LockDiscipline' /\ PlanInv'
    BY <1>9, <2>1 DEF ConfigureRoute
  <2> QED BY <2>3, <2>4
<1>10. CASE AppliedAll
  BY <1>10 DEF AppliedAll, AfterApply
<1>11. CASE Tick
  BY <1>11 DEF Tick
<1>12. ASSUME NEW s \in Senders, Receive(s) PROVE LockInv'
  BY <1>12 DEF Receive
<1>13. CASE WatchdogReady
  BY <1>13 DEF WatchdogReady
<1>14. CASE WatchdogTick
  BY <1>14 DEF WatchdogTick
<1>15. CASE CheckSystemRTAlignment
  <2>1. faults' \in 0..MaxFaults
    BY <1>15 DEF CheckSystemRTAlignment, Signal, Misaligned
  <2>2. \/ Signal(TRUE)
        \/ wpc' = "v4" /\ UNCHANGED <<updateMu, needUpdate, blocked>>
    BY <1>15 DEF CheckSystemRTAlignment
  <2>5. updateMu' \in {"free", "rm", "wd"} /\ wpc' \in {"v4", "send"} /\ blocked' \subseteq Senders
    BY <2>2 DEF Signal, Senders
  <2>6. needUpdate' \in BOOLEAN
    BY <2>2 DEF Signal
  <2>3. TypeOK'
    BY <1>15, <2>1, <2>5, <2>6 DEF CheckSystemRTAlignment
  <2>4. LockDiscipline' /\ PlanInv'
    BY <1>15, <2>2 DEF CheckSystemRTAlignment, Signal
  <2> QED BY <2>3, <2>4
<1>16. ASSUME NEW m \in Modes, CheckRouterChanges(m) PROVE LockInv'
  <2>1. PICK hash \in {HashOf(h) : h \in SUBSET OfMode(m)} \cup {NilHash} :
          CheckRouterChanges(m)!2!(hash)
    BY <1>16 DEF CheckRouterChanges
  <2>2. hash \in Hashes
    BY DEF HashOf, NilHash, Hashes, OfMode, Prefix
  <2>3. faults' \in 0..MaxFaults
    BY <2>1 DEF GetRoutes
  <2>4. CASE rtCache[m] # Unset /\ NilHash \in {hash, rtCache[m]}
    <3>1. Panic /\ UNCHANGED <<bird, leader, changes, kernel>>
      BY <2>1, <2>4
    <3> QED BY <2>3, <3>1, PanicLock
  <2>5. CASE ~(rtCache[m] # Unset /\ NilHash \in {hash, rtCache[m]})
    <3>1. /\ rtCache' = [rtCache EXCEPT ![m] = hash]
          /\ UNCHANGED <<bird, leader, changes, kernel, routeMap, ready, rmVars, crVars, histVars>>
      BY <2>1, <2>5
    <3>2. rtCache' \in [Modes -> Hashes]
      BY <2>2, <3>1
    <3>3. \/ m = "v4" /\ wpc' = "v6" /\ needUpdate' \in BOOLEAN /\ UNCHANGED <<updateMu, blocked>>
          \/ m = "v6" /\ \E need \in BOOLEAN : Signal(need)
      BY <2>1, <2>5
    <3>6. updateMu' \in {"free", "rm", "wd"} /\ wpc' \in {"v6", "send", "idle"} /\ blocked' \subseteq Senders
      BY <3>3 DEF Signal, Senders
    <3>7. needUpdate' \in BOOLEAN
      BY <3>3 DEF Signal
    <3>4. TypeOK'
      BY <2>3, <3>1, <3>2, <3>6, <3>7
    <3>5. LockDiscipline' /\ PlanInv'
      BY <1>16, <3>1, <3>3 DEF Signal, CheckRouterChanges
    <3> QED BY <3>4, <3>5
  <2> QED BY <2>4, <2>5
<1>17. ASSUME NEW h \in Handlers, NEW plan \in Plans, UpdateRoute(h, plan) PROVE LockInv'
  <2>1. CASE CentralReady
    <3>1. TypeOK'
      BY <1>17, <2>1 DEF UpdateRoute, Senders
    <3>2. LockDiscipline' /\ PlanInv'
      BY <1>17, <2>1 DEF UpdateRoute
    <3> QED BY <3>1, <3>2
  <2>2. CASE ~CentralReady
    BY <1>17, <2>2, PanicLock DEF UpdateRoute
  <2> QED BY <2>1, <2>2
<1>18. CASE HandleRTUpdate
  BY <1>18 DEF HandleRTUpdate
<1>19. CASE LinkSignal
  BY <1>19 DEF LinkSignal, Change, Senders
<1>20. CASE GetGraphRouteTable
  <2>1. faults' \in 0..MaxFaults
    BY <1>20 DEF GetGraphRouteTable
  <2>2. graphReady' \in BOOLEAN
    BY <1>20 DEF GetGraphRouteTable
  <2>3. TypeOK'
    BY <1>20, <2>1, <2>2 DEF GetGraphRouteTable
  <2>4. LockDiscipline' /\ PlanInv'
    BY <1>20 DEF GetGraphRouteTable
  <2> QED BY <2>3, <2>4
<1>21. ASSUME NEW p \in Prefix, BirdChange(p) PROVE LockInv'
  BY <1>21 DEF BirdChange, Change
<1>22. ASSUME NEW p \in Prefix, KernelDelete(p) PROVE LockInv'
  <2>1. kernel' \in [Prefix -> Gw \cup {NoGw}] /\ changes' \in 0..MaxChanges
    BY <1>22 DEF KernelDelete, Change
  <2>4. synced' \in BOOLEAN
    BY <1>22 DEF KernelDelete
  <2>2. TypeOK'
    BY <1>22, <2>1, <2>4 DEF KernelDelete
  <2>3. LockDiscipline' /\ PlanInv'
    BY <1>22 DEF KernelDelete
  <2> QED BY <2>2, <2>3
<1>23. CASE LeaderChange
  BY <1>23 DEF LeaderChange, Change
<1>24. CASE Elapse
  BY <1>24 DEF Elapse
<1>25. CASE Restart
  BY <1>25 DEF Restart
<1>26. CASE UNCHANGED vars
  BY <1>26
<1> QED
  BY <1>1, <1>2, <1>3, <1>4, <1>5, <1>6, <1>7, <1>8, <1>9, <1>10, <1>11, <1>12,
     <1>13, <1>14, <1>15, <1>16, <1>17, <1>18, <1>19, <1>20, <1>21, <1>22, <1>23, <1>24,
     <1>25, <1>26
     DEF Next, RouteManagerStep, WatchdogStep, HandlerStep, EnvStep

\* The variables of the daemon and of its environment keep their types.
THEOREM TypeCorrect == Spec => []TypeOK
<1>1. LockInv => TypeOK
  BY DEF LockInv
<1> QED BY InitLock, NextLock, <1>1, PTL DEF Spec

\* The watchdog and the manager exclude each other, and no goroutine ever
\* blocks on rtUpdateCh while it holds updateMu.
THEOREM LockDisciplineHolds == Spec => []LockDiscipline
<1>1. LockInv => LockDiscipline
  BY DEF LockInv
<1> QED BY InitLock, NextLock, <1>1, PTL DEF Spec

-----------------------------------------------------------------------------
\* No step makes a prefix live or, outside the manager's own steps, undoes what
\* the table update did for it.
LEMMA NextLive ==
  ASSUME LockInv, LiveInv, [Next]_vars
  PROVE  LiveInv'
<1> USE RouteSyncAssumption
    DEF LockInv, TypeOK, LockDiscipline, PlanInv, LiveInv, Kept, Handled, vars, envVars,
        tblVars, rmVars, crVars, wdVars, histVars, NoGw, Goto
<1>1. CASE Start
  BY <1>1 DEF Start
<1>2. CASE SyncGraph
  BY <1>2 DEF SyncGraph
<1>3. CASE LockTable
  BY <1>3 DEF LockTable
<1>4. CASE FetchRoutes
  <2>1. CASE pc' = "place"
    <3>1. omitted' = omitted \cup ((bird \cap OfMode(mode)) \ todo')
      BY <1>4, <2>1 DEF FetchRoutes, ReturnUpdate, AfterUpdate
    <3>2. UNCHANGED <<mode, failed, live, bird, routeMap, kernel>>
      BY <1>4, <2>1 DEF FetchRoutes, ReturnUpdate, AfterUpdate
    <3> QED BY <1>4, <2>1, <3>1, <3>2 DEF FetchRoutes
  <2>2. CASE pc' # "place"
    <3>1. ReturnUpdate(FALSE)
      BY <1>4, <2>2 DEF FetchRoutes
    <3> QED BY <1>4, <3>1 DEF FetchRoutes, ReturnUpdate, AfterUpdate
  <2> QED BY <2>1, <2>2
<1>5. ASSUME NEW p \in Prefix, PlaceRoute(p) PROVE LiveInv'
  <2>1. failed' \/ routeMap'[p] # NoGw \/ kernel'[p] = NoGw
    BY <1>5 DEF PlaceRoute, Centralised, GraphBased, BGPPath
  <2>2. \A q \in Prefix \ {p} : routeMap'[q] = routeMap[q] /\ kernel'[q] = kernel[q]
    BY <1>5 DEF PlaceRoute, Centralised, GraphBased, BGPPath
  <2>3. failed => failed'
    BY <1>5 DEF PlaceRoute, Centralised, GraphBased, BGPPath
  <2> QED BY <1>5, <2>1, <2>2, <2>3 DEF PlaceRoute
<1>6. CASE PlacedAll
  <2>1. CASE ~failed /\ mode = "v4"
    BY <1>6, <2>1 DEF PlacedAll, OfMode
  <2>2. CASE ~(~failed /\ mode = "v4")
    <3>1. ReturnUpdate(~failed)
      BY <1>6, <2>2 DEF PlacedAll
    <3>2. CASE failed
      BY <1>6, <3>1, <3>2 DEF PlacedAll, ReturnUpdate, AfterUpdate
    <3>3. CASE ~failed
      <4>1. \A p \in Kept : Handled(p)
        BY <1>6, <2>2, <3>3 DEF PlacedAll, OfMode, Modes, Prefix
      <4> QED BY <1>6, <3>1, <3>3, <4>1 DEF PlacedAll, ReturnUpdate, AfterUpdate
    <3> QED BY <3>2, <3>3
  <2> QED BY <2>1, <2>2
<1>7. CASE ListManaged
  BY <1>7 DEF ListManaged, AfterRemove
<1>8. CASE RemoveOld
  BY <1>8 DEF RemoveOld, RemoveRoute, AfterRemove
<1>9. ASSUME NEW p \in Prefix, ConfigureRoute(p) PROVE LiveInv'
  BY <1>9 DEF ConfigureRoute, AfterApply
<1>10. CASE AppliedAll
  BY <1>10 DEF AppliedAll, AfterApply
<1>11. CASE Tick
  BY <1>11 DEF Tick
<1>12. ASSUME NEW s \in Senders, Receive(s) PROVE LiveInv'
  BY <1>12 DEF Receive
<1>13. CASE WatchdogReady
  BY <1>13 DEF WatchdogReady
<1>14. CASE WatchdogTick
  BY <1>14 DEF WatchdogTick
<1>15. CASE CheckSystemRTAlignment
  BY <1>15 DEF CheckSystemRTAlignment
<1>16. ASSUME NEW m \in Modes, CheckRouterChanges(m) PROVE LiveInv'
  <2>1. CASE Panic
    BY <2>1 DEF Panic
  <2>2. CASE UNCHANGED <<bird, kernel, routeMap, rmVars, live, omitted>>
    BY <2>2
  <2> QED BY <1>16, <2>1, <2>2 DEF CheckRouterChanges
<1>17. ASSUME NEW h \in Handlers, NEW plan \in Plans, UpdateRoute(h, plan) PROVE LiveInv'
  <2>1. CASE Panic
    BY <2>1 DEF Panic
  <2>2. CASE UNCHANGED <<bird, kernel, routeMap, rmVars, live, omitted>>
    BY <2>2
  <2> QED BY <1>17, <2>1, <2>2 DEF UpdateRoute
<1>18. CASE HandleRTUpdate
  BY <1>18 DEF HandleRTUpdate
<1>19. CASE LinkSignal
  BY <1>19 DEF LinkSignal, Change
<1>20. CASE GetGraphRouteTable
  BY <1>20 DEF GetGraphRouteTable
<1>21. ASSUME NEW p \in Prefix, BirdChange(p) PROVE LiveInv'
  BY <1>21 DEF BirdChange
<1>22. ASSUME NEW p \in Prefix, KernelDelete(p) PROVE LiveInv'
  <2>1. \A q \in Prefix : routeMap'[q] = routeMap[q] /\ (kernel[q] = NoGw => kernel'[q] = NoGw)
    BY <1>22 DEF KernelDelete
  <2> QED BY <1>22, <2>1 DEF KernelDelete
<1>23. CASE LeaderChange
  BY <1>23 DEF LeaderChange
<1>24. CASE Elapse
  BY <1>24 DEF Elapse
<1>25. CASE Restart
  BY <1>25 DEF Restart
<1>26. CASE UNCHANGED vars
  BY <1>26
<1> QED
  BY <1>1, <1>2, <1>3, <1>4, <1>5, <1>6, <1>7, <1>8, <1>9, <1>10, <1>11, <1>12,
     <1>13, <1>14, <1>15, <1>16, <1>17, <1>18, <1>19, <1>20, <1>21, <1>22, <1>23, <1>24,
     <1>25, <1>26
     DEF Next, RouteManagerStep, WatchdogStep, HandlerStep, EnvStep

\* The removal step of SyncRouteTable spares what LiveInv covers.
LEMMA RemovalSparesLive ==
  ASSUME LockInv, LiveInv, [Next]_vars,
         pc = "remove", pc' # "remove", phase # "boot",
         NEW p \in Kept, kernel[p] # NoGw
  PROVE  kernel'[p] # NoGw
<1>1. p \in In(routeMap)
  BY DEF LockInv, TypeOK, LiveInv, Kept, Handled, In
<1>2. CASE RemoveOld
  BY <1>1, <1>2 DEF RemoveOld, RemoveRoute, LockInv, TypeOK, Kept
<1>3. CASE UNCHANGED kernel
  BY <1>3
<1>4. RemoveOld \/ UNCHANGED kernel
  <2>1. \A q \in Prefix : ~PlaceRoute(q) /\ ~ConfigureRoute(q)
    BY DEF PlaceRoute, ConfigureRoute
  <2>2. \A q \in Prefix : KernelDelete(q) => pc' = pc
    BY DEF KernelDelete, rmVars
  <2> QED
    BY <2>1, <2>2
    DEF Next, RouteManagerStep, WatchdogStep, HandlerStep, EnvStep, Start, SyncGraph,
        LockTable, FetchRoutes, PlacedAll, ListManaged, AppliedAll, Tick, Receive,
        WatchdogReady, WatchdogTick, CheckSystemRTAlignment, CheckRouterChanges,
        UpdateRoute, HandleRTUpdate, GetGraphRouteTable, BirdChange, LeaderChange,
        LinkSignal, Elapse, Restart, vars, envVars
<1> QED BY <1>2, <1>3, <1>4

\* SyncRouteTable never takes a kernel route away from a prefix that BIRD
\* announces throughout the sync, unless an answer of BIRD itself left the prefix
\* out, for any number of prefixes, failing calls and interleavings.
THEOREM SyncKeepsLiveRoutesHolds == Spec => SyncKeepsLiveRoutes
<1>1. Init => LiveInv
  BY DEF Init, LiveInv
<1>2. LockInv /\ LiveInv /\ [Next]_vars => LiveInv'
  BY NextLive
<1>3. LockInv /\ LiveInv /\ [Next]_vars =>
        [pc = "remove" /\ pc' # "remove" /\ phase # "boot" =>
           \A p \in live \ omitted : kernel[p] # NoGw => kernel'[p] # NoGw]_vars
  BY RemovalSparesLive DEF Kept
<1> QED BY InitLock, NextLock, <1>1, <1>2, <1>3, PTL DEF Spec, SyncKeepsLiveRoutes

-----------------------------------------------------------------------------
\* Once the managed routes are listed, only the manager's removal and its pass
\* over the table change the kernel without resetting synced.
LEMMA NextSync ==
  ASSUME LockInv, SyncInv, [Next]_vars
  PROVE  SyncInv'
<1> USE DEF LockInv, TypeOK, SyncInv, vars, envVars, tblVars, rmVars, crVars, wdVars,
            histVars, NoGw, Goto
<1>1. CASE Start
  BY <1>1 DEF Start
<1>2. CASE SyncGraph
  BY <1>2 DEF SyncGraph
<1>3. CASE LockTable
  BY <1>3 DEF LockTable
<1>4. CASE FetchRoutes
  BY <1>4 DEF FetchRoutes, ReturnUpdate, AfterUpdate
<1>5. ASSUME NEW p \in Prefix, PlaceRoute(p) PROVE SyncInv'
  BY <1>5 DEF PlaceRoute
<1>6. CASE PlacedAll
  BY <1>6 DEF PlacedAll, ReturnUpdate, AfterUpdate
<1>7. CASE ListManaged
  BY <1>7 DEF ListManaged, AfterRemove
<1>8. CASE RemoveOld
  <2>1. CASE synced'
    <3>1. /\ synced /\ phase # "boot" /\ pc' = "apply" /\ phase' # "boot"
          /\ todo' = In(routeMap) /\ UNCHANGED routeMap
          /\ kernel' = [p \in Prefix |-> IF p \in listed \ In(routeMap) THEN NoGw ELSE kernel[p]]
      BY <1>8, <2>1 DEF RemoveOld, RemoveRoute, AfterRemove
    <3>2. listed = In(kernel)
      BY <1>8, <3>1 DEF RemoveOld, RemoveRoute
    <3>3. \A p \in Prefix \ In(routeMap) : kernel'[p] = routeMap[p]
      BY <3>1, <3>2 DEF In
    <3> QED BY <3>1, <3>3
  <2>2. CASE ~synced'
    BY <1>8, <2>2 DEF RemoveOld, RemoveRoute
  <2> QED BY <2>1, <2>2
<1>9. ASSUME NEW p \in Prefix, ConfigureRoute(p) PROVE SyncInv'
  <2>1. CASE synced'
    <3>1. /\ synced /\ pc = "apply" /\ pc' = "apply" /\ todo' = todo \ {p}
          /\ UNCHANGED <<routeMap, phase>>
          /\ kernel' = [kernel EXCEPT ![p] = routeMap[p]]
      BY <1>9, <2>1 DEF ConfigureRoute
    <3> QED BY <3>1
  <2>2. CASE ~synced'
    BY <1>9, <2>2 DEF ConfigureRoute
  <2> QED BY <2>1, <2>2
<1>10. CASE AppliedAll
  <2>1. CASE synced
    <3>1. pc' = "loop" /\ UNCHANGED <<kernel, routeMap, phase, synced>>
      BY <1>10, <2>1 DEF AppliedAll, AfterApply
    <3>2. \A p \in Prefix : kernel[p] = routeMap[p]
      BY <1>10, <2>1 DEF AppliedAll
    <3> QED BY <2>1, <3>1, <3>2
  <2>2. CASE ~synced
    BY <1>10, <2>2 DEF AppliedAll
  <2> QED BY <2>1, <2>2
<1>11. CASE Tick
  BY <1>11 DEF Tick
<1>12. ASSUME NEW s \in Senders, Receive(s) PROVE SyncInv'
  BY <1>12 DEF Receive
<1>13. CASE WatchdogReady
  BY <1>13 DEF WatchdogReady
<1>14. CASE WatchdogTick
  BY <1>14 DEF WatchdogTick
<1>15. CASE CheckSystemRTAlignment
  BY <1>15 DEF CheckSystemRTAlignment
<1>16. ASSUME NEW m \in Modes, CheckRouterChanges(m) PROVE SyncInv'
  <2>1. CASE Panic
    BY <2>1 DEF Panic
  <2>2. CASE UNCHANGED <<kernel, routeMap, rmVars, synced>>
    BY <2>2 DEF In
  <2> QED BY <1>16, <2>1, <2>2 DEF CheckRouterChanges
<1>17. ASSUME NEW h \in Handlers, NEW plan \in Plans, UpdateRoute(h, plan) PROVE SyncInv'
  <2>1. CASE Panic
    BY <2>1 DEF Panic
  <2>2. CASE UNCHANGED <<kernel, routeMap, rmVars, synced>>
    BY <2>2 DEF In
  <2> QED BY <1>17, <2>1, <2>2 DEF UpdateRoute
<1>18. CASE HandleRTUpdate
  BY <1>18 DEF HandleRTUpdate, In
<1>19. CASE LinkSignal
  BY <1>19 DEF LinkSignal, Change, In
<1>20. CASE GetGraphRouteTable
  BY <1>20 DEF GetGraphRouteTable, In
<1>21. ASSUME NEW p \in Prefix, BirdChange(p) PROVE SyncInv'
  BY <1>21 DEF BirdChange, In
<1>22. ASSUME NEW p \in Prefix, KernelDelete(p) PROVE SyncInv'
  BY <1>22 DEF KernelDelete
<1>23. CASE LeaderChange
  BY <1>23 DEF LeaderChange, In
<1>24. CASE Elapse
  BY <1>24 DEF Elapse, In
<1>25. CASE Restart
  BY <1>25 DEF Restart
<1>26. CASE UNCHANGED vars
  BY <1>26 DEF In
<1> QED
  BY <1>1, <1>2, <1>3, <1>4, <1>5, <1>6, <1>7, <1>8, <1>9, <1>10, <1>11, <1>12,
     <1>13, <1>14, <1>15, <1>16, <1>17, <1>18, <1>19, <1>20, <1>21, <1>22, <1>23, <1>24,
     <1>25, <1>26
     DEF Next, RouteManagerStep, WatchdogStep, HandlerStep, EnvStep

\* After a sync without an error, and until somebody else deletes a managed
\* route, the kernel holds exactly the route table.
THEOREM SyncedMeansEqualHolds == Spec => []SyncedMeansEqual
<1>1. Init => SyncInv
  BY DEF Init, SyncInv
<1>2. LockInv /\ SyncInv /\ [Next]_vars => SyncInv'
  BY NextSync
<1>3. SyncInv => SyncedMeansEqual
  BY DEF SyncInv, SyncedMeansEqual
<1> QED BY InitLock, NextLock, <1>1, <1>2, <1>3, PTL DEF Spec
=============================================================================
