------------------------------- MODULE SitePlan -------------------------------
(***************************************************************************)
(* How one site takes in and follows the centralised plan:                 *)
(*   - handlers of the UpdateRoute RPC compare the row they got with       *)
(*     siteRoutes, replace it key by key under siteRoutesMu if it differs, *)
(*     renew updatedAt and, if it differed, block on rtUpdateCh            *)
(*     (UpdateSiteRoutes, UpdateLocalRoutes);                              *)
(*   - the RouteManager recomputes the site's routes when a handler        *)
(*     signals, or on its ticker if updatedAt is older than an interval,   *)
(*     and reads siteRoutes without the lock (centralisedBestPath).        *)
(*                                                                         *)
(* A destination is the ID of the site a prefix belongs to.  The kernel's  *)
(* next hop is the site a route goes via, or Graph when the route was      *)
(* placed by one of the fallback methods.  RouteSync has the rest of the   *)
(* RouteManager: one sync here is one of its syncs.                        *)
(***************************************************************************)
EXTENDS Mesh, FiniteSets

CONSTANTS
  Self,         \* this site's
  Rows,         \* rows a leader may send: functions from some sites to sites
  Handlers,     \* goroutines serving UpdateRoute
  MaxFaults     \* bound: failing calls and restarts

Graph == -2     \* placed by the graph or by BGP
Nobody == -1    \* no handler
Dest == Site \ {Self}

ASSUME SitePlanAssumption ==
  /\ Site \subseteq Nat
  /\ 0 \in Site /\ Self \in Site
  /\ Nobody \notin Handlers
  /\ Rows \subseteq UNION {[D -> Site] : D \in SUBSET Site}
  /\ MaxFaults \in Nat

\* Age of updatedAt: 0 within the last interval, 1 within the last three, 2
\* older, or never set.
MaxAge == 2

VARIABLES
  siteRoutes,   \* CentralisedRouter.siteRoutes, None for a missing key
  age,          \* age of updatedAt
  writer,       \* holder of siteRoutesMu, or Nobody
  hpc,          \* handler: "idle", "fill", "signal" (blocked on rtUpdateCh)
  want,         \* handler: the row it was called with
  left,         \* keys the writer still has to copy
  mpc,          \* RouteManager: "idle" in its select, "sync"
  todo,         \* destinations not yet placed by the running sync
  rt,           \* RouteTable: destination -> next hop
  kernel,       \* the kernel's next hops
  faults,       \* failures left
  failed,       \* history: did the last sync fail, or is there none yet?
  last          \* history: the row this process was sent last, as a table

handlerVars == <<writer, hpc, want, left>>
managerVars == <<mpc, todo, rt, kernel, failed>>
vars == <<siteRoutes, age, handlerVars, managerVars, faults, last>>

NoKeys == [d \in Site |-> None]
NoTable == [d \in Dest |-> None]

\* What the RouteManager reads of the map (algorithm.go:208): 0 for a missing key.
Lookup(table) == [d \in Site |-> IF table[d] = None THEN 0 ELSE table[d]]

\* What GetCentralisedRoute answers the RPCs: -1 for a missing key.
GetCentralisedRoute(d) == siteRoutes[d]

\* A row as such a table.
TableOf(r) == [d \in Site |-> IF d \in DOMAIN r THEN r[d] ELSE None]

TypeOK ==
  /\ siteRoutes \in [Site -> Site \cup {None}]
  /\ age \in 0..MaxAge
  /\ writer \in Handlers \cup {Nobody}
  /\ hpc \in [Handlers -> {"idle", "fill", "signal"}]
  /\ want \in [Handlers -> [Site -> Site \cup {None}]]
  /\ left \subseteq Site
  /\ mpc \in {"idle", "sync"}
  /\ todo \subseteq Dest
  /\ rt \in [Dest -> Site \cup {None, Graph}]
  /\ kernel \in [Dest -> Site \cup {None, Graph}]
  /\ faults \in 0..MaxFaults
  /\ failed \in BOOLEAN
  /\ last \in [Site -> Site \cup {None}]

Init ==
  /\ siteRoutes = NoKeys /\ age = MaxAge
  /\ writer = Nobody
  /\ hpc = [h \in Handlers |-> "idle"]
  /\ want = [h \in Handlers |-> NoKeys]
  /\ left = {}
  /\ mpc = "sync" /\ todo = Dest
  /\ rt = NoTable /\ kernel = NoTable
  /\ faults = MaxFaults
  /\ failed = TRUE
  /\ last = NoKeys

\* The process is new; the kernel keeps its routes.
Restarted ==
  /\ siteRoutes' = NoKeys /\ age' = MaxAge
  /\ writer' = Nobody
  /\ hpc' = [h \in Handlers |-> "idle"]
  /\ want' = [h \in Handlers |-> NoKeys]
  /\ left' = {}
  /\ mpc' = "sync" /\ todo' = Dest
  /\ rt' = NoTable
  /\ failed' = TRUE
  /\ last' = NoKeys
  /\ UNCHANGED kernel

Fault == faults > 0 /\ faults' = faults - 1
NoFault == UNCHANGED faults

------------------------------------------------------------------------------
(* UpdateRoute.                                                             *)

\* Mutant of Changed: a key that is not there yet is no difference.
ChangedKnownKeys(r) ==
  \/ \E d \in DOMAIN r : siteRoutes[d] \notin {None, r[d]}
  \/ \E d \in Site : siteRoutes[d] # None /\ d \notin DOMAIN r

\* The two loops of UpdateSiteRoutes: a missing key reads 0 in the first.
Changed(r) ==
  \/ \E d \in DOMAIN r : Lookup(siteRoutes)[d] # r[d]
  \/ \E d \in Site : siteRoutes[d] # None /\ d \notin DOMAIN r

\* Nothing changed: updatedAt is renewed and the handler returns.
RenewPlan(h, r) ==
  /\ hpc[h] = "idle" /\ writer = Nobody
  /\ ~Changed(r)
  /\ age' = 0
  /\ last' = TableOf(r)
  /\ UNCHANGED <<siteRoutes, handlerVars, managerVars, faults>>

\* Mutant of ReplacePlan: the row is copied into the map that is there.
ReplacePlanMerging(h, r) ==
  /\ hpc[h] = "idle" /\ writer = Nobody
  /\ Changed(r)
  /\ writer' = h
  /\ hpc' = [hpc EXCEPT ![h] = "fill"]
  /\ want' = [want EXCEPT ![h] = TableOf(r)]
  /\ last' = TableOf(r)
  /\ left' = DOMAIN r
  /\ UNCHANGED <<siteRoutes, age, managerVars, faults>>

\* A difference: a new, empty map is in place before it is filled.
ReplacePlan(h, r) ==
  /\ hpc[h] = "idle" /\ writer = Nobody
  /\ Changed(r)
  /\ siteRoutes' = NoKeys
  /\ writer' = h
  /\ hpc' = [hpc EXCEPT ![h] = "fill"]
  /\ want' = [want EXCEPT ![h] = TableOf(r)]
  /\ last' = TableOf(r)
  /\ left' = DOMAIN r
  /\ UNCHANGED <<age, managerVars, faults>>

CopyKey(h, d) ==
  /\ hpc[h] = "fill"
  /\ d \in left
  /\ siteRoutes' = [siteRoutes EXCEPT ![d] = want[h][d]]
  /\ left' = left \ {d}
  /\ UNCHANGED <<age, writer, hpc, want, managerVars, faults, last>>

\* Mutant of FinishPlan: the handler returns without a signal.
FinishPlanSilently(h) ==
  /\ hpc[h] = "fill" /\ left = {}
  /\ age' = 0
  /\ writer' = Nobody
  /\ hpc' = [hpc EXCEPT ![h] = "idle"]
  /\ want' = [want EXCEPT ![h] = NoKeys]
  /\ UNCHANGED <<siteRoutes, left, managerVars, faults, last>>

FinishPlan(h) ==
  /\ hpc[h] = "fill" /\ left = {}
  /\ age' = 0
  /\ writer' = Nobody
  /\ hpc' = [hpc EXCEPT ![h] = "signal"]
  /\ want' = [want EXCEPT ![h] = NoKeys]
  /\ UNCHANGED <<siteRoutes, left, managerVars, faults, last>>

------------------------------------------------------------------------------
(* RouteManager.                                                            *)

\* Mutant of BeginSync: the site's own routes are not skipped.
BeginSyncOwn == mpc' = "sync" /\ todo' = Site /\ rt' = NoTable

BeginSync == mpc' = "sync" /\ todo' = Dest /\ rt' = NoTable

Receive(h) ==
  /\ mpc = "idle"
  /\ hpc[h] = "signal"
  /\ hpc' = [hpc EXCEPT ![h] = "idle"]
  /\ BeginSync
  /\ UNCHANGED <<siteRoutes, age, writer, want, left, kernel, faults, failed, last>>

\* The ticker is skipped while the plan was renewed within the last interval.
Tick ==
  /\ mpc = "idle"
  /\ age > 0
  /\ BeginSync
  /\ UNCHANGED <<siteRoutes, age, handlerVars, kernel, faults, failed, last>>

\* centralisedBestPath: the next hop of the plan, unless no BGP neighbour is
\* that site (never this site itself).
Via(d) == IF Lookup(siteRoutes)[d] = Self THEN Graph ELSE Lookup(siteRoutes)[d]

\* addToRouteTable places one destination: by the plan if it is fresh, else, or
\* if that fails, by a fallback.  Reading the map while it is written to may
\* also end the process.
Place(d) ==
  /\ mpc = "sync"
  /\ d \in todo
  /\ \/ /\ age < MaxAge
        /\ NoFault
        /\ rt' = [rt EXCEPT ![d] = Via(d)]
     \/ /\ age < MaxAge
        /\ Fault
        /\ rt' = [rt EXCEPT ![d] = Graph]
     \/ /\ age = MaxAge
        /\ NoFault
        /\ rt' = [rt EXCEPT ![d] = Graph]
  /\ todo' = todo \ {d}
  /\ UNCHANGED <<siteRoutes, age, handlerVars, mpc, kernel, failed, last>>

ConcurrentMapRead ==
  /\ mpc = "sync" /\ todo # {} /\ age < MaxAge
  /\ writer # Nobody
  /\ Fault
  /\ Restarted

\* The sync applies its table, or fails and leaves part of the old routes.
Apply ==
  /\ mpc = "sync" /\ todo = {}
  /\ mpc' = "idle"
  /\ \/ NoFault /\ kernel' = rt /\ failed' = FALSE
     \/ /\ Fault
        /\ \E done \in SUBSET Dest :
             kernel' = [d \in Dest |-> IF d \in done THEN rt[d] ELSE kernel[d]]
        /\ failed' = TRUE
  /\ UNCHANGED <<siteRoutes, age, handlerVars, todo, rt, last>>

------------------------------------------------------------------------------
(* Time, and restarts for another reason.                                   *)

Elapse ==
  /\ age < MaxAge
  /\ age' = age + 1
  /\ UNCHANGED <<siteRoutes, handlerVars, managerVars, faults, last>>

Restart == Fault /\ Restarted

HandlerStep ==
  \E h \in Handlers :
    \/ \E r \in Rows : RenewPlan(h, r) \/ ReplacePlan(h, r)
    \/ \E d \in Site : CopyKey(h, d)
    \/ FinishPlan(h)

ManagerStep ==
  \/ \E h \in Handlers : Receive(h)
  \/ Tick
  \/ \E d \in Dest : Place(d)
  \/ Apply

Next == HandlerStep \/ ManagerStep \/ ConcurrentMapRead \/ Elapse \/ Restart

Spec == Init /\ [][Next]_vars

\* Goroutines run; the select of the manager serves the senders of an
\* unbuffered channel in their order.  No leader and no clock is assumed.
FairSpec ==
  /\ Spec
  /\ \A h \in Handlers : WF_vars(FinishPlan(h) \/ \E d \in Site : CopyKey(h, d))
  /\ \A h \in Handlers : SF_vars(Receive(h))
  /\ WF_vars(Apply \/ \E d \in Dest : Place(d))

------------------------------------------------------------------------------
(* Properties.                                                              *)

\* The kernel forwards by the site's row, or by a fallback: never by a hop of
\* an older row, nor by the zero a half filled map answers, once every handler
\* has returned and the last sync went through, although the map is read
\* without its lock and the signal follows the write.
NoStaleHop ==
  mpc = "idle" /\ ~failed /\ (\A h \in Handlers : hpc[h] = "idle") =>
    \A d \in Dest : kernel[d] \in {Via(d), Graph}

\* Outside an update GetCentralisedRoute (interface.go:3-9) answers with the row
\* that a handler was called with last, whether UpdateSiteRoutes took it for a
\* change or not, with one exception: a destination that is new in the row and
\* reached via site 0 compares equal to the missing key (centralised.go:313-317),
\* is not stored, and is answered with -1, so that the GetCentralisedRouteTable
\* RPC fails.
PlanReported ==
  writer = Nobody =>
    \A d \in Site :
      \/ GetCentralisedRoute(d) = last[d]
      \/ last[d] = 0 /\ GetCentralisedRoute(d) = -1

\* When no row is replaced any more, the kernel ends up following the row that
\* is in force, or a fallback, unless the last sync failed.
PlanFollowed ==
  <>[](writer = Nobody) =>
    <>[](failed \/ \A d \in Dest : kernel[d] \in {Via(d), Graph})

\* While the map is filled the row is already the new one.
CellRow == Lookup(IF writer = Nobody THEN siteRoutes ELSE want[writer])
CellFresh == writer # Nobody \/ age < MaxAge

Cell ==
  INSTANCE PlanCell WITH
    Row     <- {Lookup(TableOf(r)) : r \in Rows},
    Nothing <- Lookup(NoKeys),
    row     <- CellRow,
    fresh   <- CellFresh

\* The site keeps the promise of PlanCell: as the RouteManager reads the map, it
\* takes over whole rows in one step, although a new map is filled key by key in
\* place and an update that is no change is not stored (centralised.go:305-338).
ImplementsPlanCell == Cell!Spec
=============================================================================
