------------------------------ MODULE RouteSync ------------------------------
(***************************************************************************)
(* One net-perf daemon keeping the kernel's managed routes (protocol 201)  *)
(* in step with the routes BIRD announces.  Goroutines of the daemon:      *)
(*   - the RouteManager (internal/route/route.go), the only reader of      *)
(*     rtUpdateCh and the only writer of the RouteTable;                   *)
(*   - the route watchdog (internal/watchdog/route.go), which compares the *)
(*     RouteTable with the kernel and BIRD with its own cached hash;       *)
(*   - gRPC handlers of UpdateRoute, which store the leader's plan and     *)
(*     block on rtUpdateCh when it changed, and of GetGraphRouteTable,     *)
(*     which refresh the graph;                                            *)
(*   - the HTTP handler of /rt, which gives up after 5 seconds;            *)
(*   - the loop of the link watchdog, which signals once per interface that *)
(*     a client announces (module LinkWatchdog) and never gives up.        *)
(* The environment changes BIRD, deletes kernel routes, loses and regains  *)
(* the mesh leader, makes single calls (BIRD socket, netlink, Prometheus)  *)
(* fail, and restarts a daemon that panicked.                              *)
(*                                                                         *)
(* A prefix stands for a network with a foreign origin AS, so a route the  *)
(* daemon has to manage.  A gateway is named after the decision that chose *)
(* it: a plan of the centralised router, the graph, or a BGP path.         *)
(***************************************************************************)
EXTENDS Integers, FiniteSets

CONSTANTS
  V4, V6,       \* prefixes of the two BIRD instances ("v4" and "v6" sockets)
  LocalPath,    \* prefixes whose best BGP path is the site's own (empty AS path)
  Plans,        \* site-route plans a leader may distribute
  Handlers,     \* goroutines serving the UpdateRoute RPC
  MaxFaults,    \* bound: failing external calls
  MaxChanges    \* bound: changes of BIRD, of the kernel, of the leader and of
                \* the interfaces

Prefix == V4 \cup V6

ASSUME RouteSyncAssumption ==
  /\ V4 \cap V6 = {}
  /\ LocalPath \subseteq Prefix
  /\ Plans \cap {"none", "graph", "bgp"} = {}
  /\ Handlers \cap {"wd", "link"} = {}
  /\ MaxFaults \in Nat
  /\ MaxChanges \in Nat

Gw == Plans \cup {"graph", "bgp"}
NoGw == "none"
Senders == Handlers \cup {"wd", "link"}

\* updatedAt is kept as its age in update intervals: 0 is "within the last
\* interval", 1 and 2 "within the last three", MaxAge anything older, and also
\* the zero time of a CentralisedRouter that never got an update.
MaxAge == 3

VARIABLES
  bird,        \* prefixes BIRD announces
  leader,      \* is some mesh leader refreshing this site every half interval?
  faults,      \* failing calls left
  changes,     \* environment changes left
  kernel,      \* managed routes in the kernel, prefix -> gateway
  routeMap,    \* RouteTable.routeMap, prefix -> gateway
  updateMu,    \* RouteTable.updateMu: its holder
  ready,       \* RouteTable.ready
  pc,          \* where the RouteManager goroutine is
  phase,       \* "boot" (initial run), "align" (alignmentLoop), "run"
  mode,        \* UpdateRouteTable's loop variable
  todo,        \* routes of the running for loop not yet processed
  failed,      \* did addToRouteTable collect an error?
  listed,      \* result of ListManagedRoutes in removeOldKernelRoutes
  graphReady,  \* RouteManager.graphReady
  siteRoutes,  \* CentralisedRouter.siteRoutes: the plan in force
  age,         \* age of CentralisedRouter.updatedAt
  wpc,         \* where the route watchdog is
  rtCache,     \* the watchdog's hash per mode
  needUpdate,  \* the watchdog's local of the same name
  blocked,     \* goroutines blocked sending on the unbuffered rtUpdateCh
  live,        \* history: prefixes announced without a break since
               \* UpdateRouteTable began, until old routes are removed
  omitted,     \* history: announced prefixes that the BIRD answers it read left
               \* out
  synced       \* history: since SyncRouteTable listed the managed routes it
               \* met no error and nobody else touched the kernel

envVars  == <<bird, leader, faults, changes>>
tblVars  == <<routeMap, updateMu, ready>>
rmVars   == <<pc, phase, mode, todo, failed, listed, graphReady>>
crVars   == <<siteRoutes, age>>
wdVars   == <<wpc, rtCache, needUpdate>>
histVars == <<live, omitted, synced>>
vars == <<envVars, kernel, tblVars, rmVars, crVars, wdVars, blocked, histVars>>

Modes == {"v4", "v6"}
OfMode(m) == IF m = "v4" THEN V4 ELSE V6
Empty == [p \in Prefix |-> NoGw]
In(table) == {p \in Prefix : table[p] # NoGw}

\* The hash of a BIRD answer stands for the answer.  NilHash is what GetRoutes
\* returns with an error, Unset a key that rtCache does not hold.
HashOf(answer) == [kind |-> "hash", of |-> answer]
NilHash == [kind |-> "nil", of |-> {}]
Unset == [kind |-> "unset", of |-> {}]
Hashes == [kind : {"hash", "nil", "unset"}, of : SUBSET Prefix]

TypeOK ==
  /\ bird \subseteq Prefix
  /\ leader \in BOOLEAN
  /\ faults \in 0..MaxFaults
  /\ changes \in 0..MaxChanges
  /\ kernel \in [Prefix -> Gw \cup {NoGw}]
  /\ routeMap \in [Prefix -> Gw \cup {NoGw}]
  /\ updateMu \in {"free", "rm", "wd"}
  /\ ready \in BOOLEAN
  /\ pc \in {"down", "start", "dead", "graph", "lock", "fetch", "place",
             "list", "remove", "apply", "loop"}
  /\ phase \in {"boot", "align", "run"}
  /\ mode \in Modes
  /\ todo \subseteq Prefix
  /\ failed \in BOOLEAN
  /\ listed \subseteq Prefix
  /\ graphReady \in BOOLEAN
  /\ siteRoutes \in Plans \cup {NoGw}
  /\ age \in 0..MaxAge
  /\ wpc \in {"wait", "idle", "align", "v4", "v6", "send"}
  /\ rtCache \in [Modes -> Hashes]
  /\ needUpdate \in BOOLEAN
  /\ blocked \subseteq Senders
  /\ live \subseteq Prefix
  /\ omitted \subseteq Prefix
  /\ synced \in BOOLEAN
  /\ age < MaxAge => siteRoutes # NoGw   \* a plan that counts as recent is there

------------------------------------------------------------------------------
(* The daemon process: its memory as main() builds it, a panic, a restart.  *)

Up == pc # "down"

\* RouteManager.Start has created the CentralisedRouter.
CentralReady == pc \notin {"down", "start", "dead"}

Init ==
  /\ bird \in SUBSET Prefix
  /\ leader \in BOOLEAN
  /\ faults = MaxFaults
  /\ changes = MaxChanges
  /\ kernel \in {Empty, [p \in Prefix |-> "graph"]}
  /\ routeMap = Empty
  /\ updateMu = "free"
  /\ ready = FALSE
  /\ pc = "start"
  /\ phase = "boot"
  /\ mode = "v4"
  /\ todo = {}
  /\ failed = FALSE
  /\ listed = {}
  /\ graphReady = FALSE
  /\ siteRoutes = NoGw
  /\ age = MaxAge
  /\ wpc = "wait"
  /\ rtCache = [m \in Modes |-> Unset]
  /\ needUpdate = FALSE
  /\ blocked = {}
  /\ live = {} /\ omitted = {}
  /\ synced = FALSE

\* A panic in any goroutine ends the process; the kernel keeps its routes.
Panic ==
  /\ pc' = "down"
  /\ routeMap' = Empty /\ updateMu' = "free" /\ ready' = FALSE
  /\ phase' = "boot" /\ mode' = "v4" /\ todo' = {} /\ failed' = FALSE
  /\ listed' = {} /\ graphReady' = FALSE
  /\ siteRoutes' = NoGw /\ age' = MaxAge
  /\ wpc' = "wait" /\ rtCache' = [m \in Modes |-> Unset]
  /\ needUpdate' = FALSE
  /\ blocked' = {}
  /\ live' = {} /\ omitted' = {} /\ synced' = FALSE

Restart ==
  /\ pc = "down"
  /\ pc' = "start"
  /\ UNCHANGED <<envVars, kernel, tblVars, phase, mode, todo, failed, listed,
                 graphReady, crVars, wdVars, blocked, histVars>>

\* One external call fails: a BIRD connection, a netlink request, a query.
Fault == faults > 0 /\ faults' = faults - 1
NoFault == UNCHANGED faults

------------------------------------------------------------------------------
(* RouteManager.                                                            *)

Goto(l) == pc' = l

\* Mutant of AfterUpdate: SyncRouteTable goes on after a failed update.
AfterUpdateIgnoringErrors(ok) == IF phase = "boot" THEN "apply" ELSE "list"

\* What follows UpdateRouteTable, applyRouteTable and removeOldKernelRoutes.
\* The initial run only logs their errors and goes on; SyncRouteTable returns.
AfterUpdate(ok) == IF phase = "boot" THEN "apply" ELSE IF ok THEN "list" ELSE "loop"
AfterRemove(ok) == IF phase = "boot" \/ ~ok THEN "loop" ELSE "apply"
AfterApply      == IF phase = "boot" THEN "list" ELSE "loop"

\* Start up to the creation of the CentralisedRouter: the router's
\* configuration and the outbound addresses, or Start returns an error and the
\* service is gone; the graph, or graphReady stays false.
Start ==
  /\ pc = "start"
  /\ \/ NoFault /\ Goto("lock") /\ graphReady' = TRUE
     \/ Fault /\ Goto("lock") /\ graphReady' = FALSE
     \/ Fault /\ Goto("dead") /\ UNCHANGED graphReady
  /\ UNCHANGED <<bird, leader, changes, kernel, tblVars, phase, mode, todo,
                 failed, listed, crVars, wdVars, blocked, histVars>>

\* SyncGraph: a failed refresh only clears graphReady.
SyncGraph ==
  /\ pc = "graph"
  /\ Goto("lock")
  /\ synced' = FALSE
  /\ \/ NoFault /\ graphReady' = TRUE
     \/ Fault /\ graphReady' = FALSE
  /\ UNCHANGED <<bird, leader, changes, kernel, tblVars, phase, mode, todo,
                 failed, listed, crVars, wdVars, blocked, live, omitted>>

\* UpdateRouteTable: lock and clear the table, start with mode v4.
LockTable ==
  /\ pc = "lock"
  /\ updateMu = "free"
  /\ updateMu' = "rm"
  /\ routeMap' = Empty
  /\ live' = bird /\ omitted' = {}
  /\ Goto("fetch")
  /\ UNCHANGED <<envVars, kernel, ready, phase, mode, todo, failed, listed,
                 graphReady, crVars, wdVars, blocked, synced>>

\* Router.GetRoutes(m): an error, or the announced routes; a read error after
\* the welcome line ends the reading loop and returns what was read so far.
GetRoutes(m, answer) ==
  \/ NoFault /\ answer = bird \cap OfMode(m)
  \/ Fault /\ answer \subseteq bird \cap OfMode(m)

\* The deferred unlock; locals of the function are gone.
ReturnUpdate(ok) ==
  /\ updateMu' = "free"
  /\ Goto(AfterUpdate(ok))
  /\ todo' = IF phase = "boot" THEN In(routeMap) ELSE {}
  /\ mode' = "v4"
  /\ failed' = FALSE

\* One iteration of UpdateRouteTable's loop gets the routes of its mode ...
FetchRoutes ==
  /\ pc = "fetch"
  /\ \/ \E answer \in SUBSET OfMode(mode) :
          /\ GetRoutes(mode, answer)
          /\ todo' = answer
          /\ omitted' = omitted \cup ((bird \cap OfMode(mode)) \ answer)
          /\ Goto("place")
          /\ UNCHANGED <<updateMu, mode, failed>>
     \/ Fault /\ ReturnUpdate(FALSE) /\ UNCHANGED omitted
  /\ UNCHANGED <<bird, leader, changes, kernel, routeMap, ready, phase, listed,
                 graphReady, crVars, wdVars, blocked, live, synced>>

\* ... and addToRouteTable chooses a gateway for each: the centralised plan if
\* it is at most three intervals old, else (or if that fails) the graph if it is
\* ready, else (or if that fails) a BGP path.
Centralised(p) ==
  /\ age < MaxAge
  /\ NoFault
  /\ routeMap' = [routeMap EXCEPT ![p] = siteRoutes]
  /\ UNCHANGED <<kernel, failed>>

\* Calls that failed before this method was reached.
FellBack(attempts) == faults >= attempts /\ faults' = faults - attempts

GraphBased(p) ==
  /\ graphReady
  /\ FellBack(IF age < MaxAge THEN 1 ELSE 0)
  /\ routeMap' = [routeMap EXCEPT ![p] = "graph"]
  /\ UNCHANGED <<kernel, failed>>

\* selectLowestCostBGPPath removes the kernel route when the best path is the
\* site's own; only that removal can fail.
BGPPath(p) ==
  LET attempts == (IF age < MaxAge THEN 1 ELSE 0) + (IF graphReady THEN 1 ELSE 0)
  IN \/ /\ p \notin LocalPath
        /\ FellBack(attempts)
        /\ routeMap' = [routeMap EXCEPT ![p] = "bgp"]
        /\ UNCHANGED <<kernel, failed>>
     \/ /\ p \in LocalPath
        /\ FellBack(attempts)
        /\ kernel' = [kernel EXCEPT ![p] = NoGw]
        /\ UNCHANGED <<routeMap, failed>>
     \/ /\ p \in LocalPath
        /\ FellBack(attempts + 1)
        /\ failed' = TRUE
        /\ UNCHANGED <<kernel, routeMap>>

PlaceRoute(p) ==
  /\ pc = "place"
  /\ p \in todo
  /\ todo' = todo \ {p}
  /\ Centralised(p) \/ GraphBased(p) \/ BGPPath(p)
  /\ UNCHANGED <<bird, leader, changes, updateMu, ready, pc, phase, mode,
                 listed, graphReady, crVars, wdVars, blocked, histVars>>

\* The end of addToRouteTable: next mode, or unlock and return.
PlacedAll ==
  /\ pc = "place"
  /\ todo = {}
  /\ IF ~failed /\ mode = "v4"
     THEN Goto("fetch") /\ mode' = "v6" /\ UNCHANGED <<updateMu, todo, failed>>
     ELSE ReturnUpdate(~failed)
  /\ UNCHANGED <<envVars, kernel, routeMap, ready, phase, listed, graphReady,
                 crVars, wdVars, blocked, histVars>>

\* removeOldKernelRoutes lists the managed routes without the lock ...
ListManaged ==
  /\ pc = "list"
  /\ \/ /\ NoFault
        /\ listed' = In(kernel)
        /\ Goto("remove")
        /\ synced' = (phase # "boot")
        /\ UNCHANGED <<phase, ready>>
     \/ /\ Fault
        /\ Goto(AfterRemove(FALSE))
        /\ phase' = IF phase = "boot" THEN "align" ELSE phase
        /\ ready' = TRUE
        /\ UNCHANGED listed
        /\ synced' = FALSE
  /\ UNCHANGED <<bird, leader, changes, kernel, routeMap, updateMu, mode, todo,
                 failed, graphReady, crVars, wdVars, blocked, live, omitted>>

\* Routes that are not there count as removed.
RemoveRoute(gone) == kernel' = [p \in Prefix |-> IF p \in gone THEN NoGw ELSE kernel[p]]

\* ... and removes, under the lock, the listed ones the table does not hold; it
\* stops at the first netlink error.  The initial run ends with MarkReady.
RemoveOld ==
  LET old == listed \ In(routeMap)
  IN /\ pc = "remove"
     /\ updateMu = "free"
     /\ \/ /\ NoFault
           /\ RemoveRoute(old)
           /\ Goto(AfterRemove(TRUE))
           /\ todo' = IF phase = "boot" THEN {} ELSE In(routeMap)
           /\ UNCHANGED synced
        \/ /\ Fault
           /\ \E gone \in SUBSET old : gone # old /\ RemoveRoute(gone)
           /\ Goto(AfterRemove(FALSE))
           /\ todo' = {}
           /\ synced' = FALSE
     /\ phase' = IF phase = "boot" THEN "align" ELSE phase
     /\ ready' = TRUE
     /\ listed' = {}
     /\ live' = {} /\ omitted' = {}
     /\ UNCHANGED <<bird, leader, changes, routeMap, updateMu, mode, failed,
                    graphReady, crVars, wdVars, blocked>>

\* Mutant of ConfigureRoute: a route that exists keeps its old gateway.
ConfigureRouteKeeping(p) ==
  /\ pc = "apply"
  /\ p \in todo
  /\ NoFault
  /\ kernel' = [kernel EXCEPT ![p] = IF @ = NoGw THEN routeMap[p] ELSE @]
  /\ todo' = todo \ {p}
  /\ UNCHANGED <<bird, leader, changes, tblVars, pc, phase, mode, failed, listed,
                 graphReady, crVars, wdVars, blocked, histVars>>

\* applyRouteTable: ConfigureRoute adds or replaces one route; the first error
\* ends the loop.
ConfigureRoute(p) ==
  /\ pc = "apply"
  /\ p \in todo
  /\ \/ /\ NoFault
        /\ kernel' = [kernel EXCEPT ![p] = routeMap[p]]
        /\ todo' = todo \ {p}
        /\ UNCHANGED <<pc, synced>>
     \/ /\ Fault
        /\ todo' = {}
        /\ Goto(AfterApply)
        /\ synced' = FALSE
        /\ UNCHANGED kernel
  /\ UNCHANGED <<bird, leader, changes, tblVars, phase, mode, failed, listed,
                 graphReady, crVars, wdVars, blocked, live, omitted>>

AppliedAll ==
  /\ pc = "apply"
  /\ todo = {}
  /\ Goto(AfterApply)
  /\ UNCHANGED <<envVars, kernel, tblVars, phase, mode, todo, failed, listed,
                 graphReady, crVars, wdVars, blocked, histVars>>

\* Mutant of RecentlyCentralised: any plan, however old, suppresses the sync.
EverCentralised == siteRoutes # NoGw

\* The select of alignmentLoop and of run: the timer, unless the centralised
\* router was updated within three intervals (first timer) or one (ticker) ...
RecentlyCentralised == IF phase = "align" THEN age < MaxAge ELSE age < 1

Tick ==
  /\ pc = "loop"
  /\ phase' = "run"
  /\ pc' = IF RecentlyCentralised THEN "loop" ELSE "graph"
  /\ UNCHANGED <<envVars, kernel, tblVars, mode, todo, failed, listed,
                 graphReady, crVars, wdVars, blocked, histVars>>

\* ... or one of the goroutines blocked on rtUpdateCh.
Receive(s) ==
  /\ pc = "loop"
  /\ s \in blocked
  /\ blocked' = blocked \ {s}
  /\ wpc' = IF s = "wd" THEN "idle" ELSE wpc
  /\ Goto("graph")
  /\ UNCHANGED <<envVars, kernel, tblVars, phase, mode, todo, failed, listed,
                 graphReady, crVars, rtCache, needUpdate, histVars>>

------------------------------------------------------------------------------
(* Route watchdog.                                                          *)

WatchdogReady ==
  /\ Up /\ wpc = "wait" /\ ready
  /\ wpc' = "idle"
  /\ UNCHANGED <<envVars, kernel, tblVars, rmVars, crVars, rtCache, needUpdate,
                 blocked, histVars>>

WatchdogTick ==
  /\ wpc = "idle"
  /\ updateMu = "free"
  /\ updateMu' = "wd"
  /\ wpc' = "align"
  /\ UNCHANGED <<envVars, kernel, routeMap, ready, rmVars, crVars, rtCache,
                 needUpdate, blocked, histVars>>

\* Mutant of Signal: the signal is sent with the table still locked.
SignalLocked(need) ==
  /\ updateMu' = IF need THEN updateMu ELSE "free"
  /\ needUpdate' = FALSE
  /\ wpc' = IF need THEN "send" ELSE "idle"
  /\ blocked' = IF need THEN blocked \cup {"wd"} ELSE blocked

\* Unlock, and only then send the signal.
Signal(need) ==
  /\ updateMu' = "free"
  /\ needUpdate' = FALSE
  /\ wpc' = IF need THEN "send" ELSE "idle"
  /\ blocked' = IF need THEN blocked \cup {"wd"} ELSE blocked

\* Mutant of Misaligned: only the gateway of routes that are there is compared.
MisalignedGateway == \E p \in Prefix : routeMap[p] # NoGw /\ kernel[p] \notin {NoGw, routeMap[p]}

Misaligned == \E p \in Prefix : routeMap[p] # NoGw /\ kernel[p] # routeMap[p]

\* checkSystemRTAlignment || ...: a failed listing counts as aligned.
CheckSystemRTAlignment ==
  /\ wpc = "align"
  /\ \/ NoFault /\ Misaligned /\ Signal(TRUE)
     \/ NoFault /\ ~Misaligned /\ wpc' = "v4" /\ UNCHANGED <<updateMu, needUpdate, blocked>>
     \/ Fault /\ wpc' = "v4" /\ UNCHANGED <<updateMu, needUpdate, blocked>>
  /\ UNCHANGED <<bird, leader, changes, kernel, routeMap, ready, rmVars, crVars,
                 rtCache, histVars>>

\* ... checkRouterChanges, one mode: with an error the hash is nil and is used
\* all the same.
CheckRouterChanges(m) ==
  /\ wpc = m
  /\ \E hash \in {HashOf(h) : h \in SUBSET OfMode(m)} \cup {NilHash} :
       /\ \/ hash = NilHash /\ Fault
          \/ hash # NilHash /\ GetRoutes(m, hash.of)
       /\ IF rtCache[m] # Unset /\ NilHash \in {hash, rtCache[m]}
          THEN Panic /\ UNCHANGED <<bird, leader, changes, kernel>>
          ELSE /\ rtCache' = [rtCache EXCEPT ![m] = hash]
               /\ LET need == needUpdate \/ rtCache[m] \notin {Unset, hash}
                  IN IF m = "v4"
                     THEN wpc' = "v6" /\ needUpdate' = need /\ UNCHANGED <<updateMu, blocked>>
                     ELSE Signal(need)
               /\ UNCHANGED <<bird, leader, changes, kernel, routeMap, ready,
                              rmVars, crVars, histVars>>

------------------------------------------------------------------------------
(* The other senders on rtUpdateCh.                                         *)

\* Mutant of UpdateRoute: only the keys of the plan in force are compared, so the
\* first plan is no change and is not stored.
UpdateRouteUnstored(h, plan) ==
  /\ CentralReady /\ leader
  /\ h \notin blocked
  /\ siteRoutes' = IF siteRoutes = NoGw THEN NoGw ELSE plan
  /\ age' = 0
  /\ blocked' = IF siteRoutes' # siteRoutes THEN blocked \cup {h} ELSE blocked
  /\ UNCHANGED <<envVars, kernel, tblVars, rmVars, wdVars, histVars>>

\* The UpdateRoute RPC: UpdateSiteRoutes refreshes updatedAt in any case and
\* reports whether the plan changed; if it did, the handler blocks on
\* rtUpdateCh.  Before Start has created the CentralisedRouter it is nil.
UpdateRoute(h, plan) ==
  /\ Up /\ leader
  /\ h \notin blocked
  /\ IF CentralReady
     THEN /\ siteRoutes' = plan
          /\ age' = 0
          /\ blocked' = IF plan # siteRoutes THEN blocked \cup {h} ELSE blocked
          /\ UNCHANGED <<envVars, kernel, tblVars, rmVars, wdVars, histVars>>
     ELSE Panic /\ UNCHANGED <<envVars, kernel>>

\* HTTP /rt: the manager takes the signal.  A handler whose five seconds are over
\* before gives up and has changed nothing.
HandleRTUpdate ==
  /\ pc = "loop"
  /\ Goto("graph")
  /\ UNCHANGED <<envVars, kernel, tblVars, phase, mode, todo, failed, listed,
                 graphReady, crVars, wdVars, blocked, histVars>>

\* The GetGraphRouteTable RPC runs SyncGraph in the handler's goroutine, at any
\* moment of the manager's own sync.
GetGraphRouteTable ==
  /\ Up
  /\ \/ NoFault /\ graphReady' = TRUE
     \/ Fault /\ graphReady' = FALSE
  /\ UNCHANGED <<bird, leader, changes, kernel, tblVars, pc, phase, mode, todo,
                 failed, listed, crVars, wdVars, blocked, histVars>>

------------------------------------------------------------------------------
(* Environment.                                                             *)

Change == changes > 0 /\ changes' = changes - 1

BirdChange(p) ==
  /\ Change
  /\ bird' = IF p \in bird THEN bird \ {p} ELSE bird \cup {p}
  /\ live' = live \ {p}
  /\ UNCHANGED <<leader, faults, kernel, tblVars, rmVars, crVars, wdVars,
                 blocked, omitted, synced>>

\* Somebody else deletes a managed route.
KernelDelete(p) ==
  /\ Change
  /\ kernel[p] # NoGw
  /\ kernel' = [kernel EXCEPT ![p] = NoGw]
  /\ synced' = FALSE
  /\ UNCHANGED <<bird, leader, faults, tblVars, rmVars, crVars, wdVars, blocked,
                 live, omitted>>

LeaderChange ==
  /\ Change
  /\ leader' = ~leader
  /\ UNCHANGED <<bird, faults, kernel, tblVars, rmVars, crVars, wdVars, blocked,
                 histVars>>

\* A client announces an interface, so the loop of the link watchdog signals.
LinkSignal ==
  /\ Up
  /\ Change
  /\ "link" \notin blocked
  /\ blocked' = blocked \cup {"link"}
  /\ UNCHANGED <<bird, leader, faults, kernel, tblVars, rmVars, crVars, wdVars,
                 histVars>>

\* An update interval without a refresh.  A leader refreshes twice as often.
Elapse ==
  /\ ~leader
  /\ age < MaxAge
  /\ age' = age + 1
  /\ UNCHANGED <<envVars, kernel, tblVars, rmVars, siteRoutes, wdVars, blocked,
                 histVars>>

------------------------------------------------------------------------------
RouteManagerStep ==
  \/ Start \/ SyncGraph \/ LockTable \/ FetchRoutes
  \/ (\E p \in Prefix : PlaceRoute(p)) \/ PlacedAll
  \/ ListManaged \/ RemoveOld
  \/ (\E p \in Prefix : ConfigureRoute(p)) \/ AppliedAll
  \/ Tick \/ (\E s \in Senders : Receive(s))

WatchdogStep ==
  \/ WatchdogReady \/ WatchdogTick \/ CheckSystemRTAlignment
  \/ \E m \in Modes : CheckRouterChanges(m)

HandlerStep ==
  \/ \E h \in Handlers, plan \in Plans : UpdateRoute(h, plan)
  \/ HandleRTUpdate \/ GetGraphRouteTable

EnvStep ==
  \/ \E p \in Prefix : BirdChange(p) \/ KernelDelete(p)
  \/ LeaderChange \/ LinkSignal \/ Elapse \/ Restart

Next == RouteManagerStep \/ WatchdogStep \/ HandlerStep \/ EnvStep

Spec == Init /\ [][Next]_vars

\* The Go scheduler runs every runnable goroutine; sync.Mutex hands over to the
\* longest waiter when it starves; blocked senders are queued in order and a
\* select picks among its ready cases at random.  Nothing is assumed of the
\* environment except that time passes and a dead daemon is restarted.
Fairness ==
  /\ WF_vars(Start \/ SyncGraph \/ FetchRoutes \/ PlacedAll \/ ListManaged \/ AppliedAll)
  /\ WF_vars(\E p \in Prefix : PlaceRoute(p) \/ ConfigureRoute(p))
  /\ SF_vars(LockTable \/ RemoveOld)
  /\ WF_vars(Tick)
  /\ \A s \in Senders : SF_vars(Receive(s))
  /\ WF_vars(WatchdogReady \/ CheckSystemRTAlignment \/ \E m \in Modes : CheckRouterChanges(m))
  /\ WF_vars(WatchdogTick)
  /\ WF_vars(Elapse)
  /\ WF_vars(Restart)

FairSpec == Spec /\ Fairness

------------------------------------------------------------------------------
(* Properties.                                                              *)

\* updateMu is held by exactly the goroutine inside a critical section, and no
\* goroutine blocked on rtUpdateCh holds it: "signal must be sent after
\* routeTable mutex is unlocked to prevent deadlock" (watchdog/route.go:54).
LockDiscipline ==
  /\ updateMu = "rm" <=> pc \in {"fetch", "place"}
  /\ updateMu = "wd" <=> wpc \in {"align", "v4", "v6"}
  /\ "wd" \in blocked <=> wpc = "send"

\* SyncRouteTable never takes a kernel route away from a prefix that BIRD has
\* announced throughout the sync, whichever of its calls fail and whatever
\* BIRD, the leader and the watchdog do meanwhile: an error in UpdateRouteTable
\* leaves a cleared or half filled table, which must not reach
\* removeOldKernelRoutes (route.go:201-206).  Only the prefixes that a BIRD
\* answer itself left out, when its connection broke without an error
\* (bird.go:114-116), may go: see SyncRemovesOnlyOutdated.
SyncKeepsLiveRoutes ==
  [][pc = "remove" /\ pc' # "remove" /\ phase # "boot" =>
       \A p \in live \ omitted : kernel[p] # NoGw => kernel'[p] # NoGw]_vars

\* A sync that ran through leaves the kernel with exactly the routes of the
\* table, although the managed routes are listed before the lock is taken and
\* the table is applied after it is released.
SyncedMeansEqual == pc = "loop" /\ synced => kernel = routeMap

\* Every goroutine blocked on rtUpdateCh is released: the manager always comes
\* back to its select, which it could not if a sender held updateMu.  The one
\* exception is the link watchdog (link.go:63), whose signal nobody ever reads
\* if Start gave up (route.go:82-99, an error that main.go:70-73 only logs).
SignalServed ==
  \A s \in Senders :
    s \in blocked ~> s \notin blocked \/ (s = "link" /\ pc = "dead")

Target == [p \in Prefix |-> IF p \in bird THEN "graph" ELSE NoGw]

\* Once no leader refreshes this site any more, the kernel settles on the
\* graph's gateway for exactly the announced prefixes, whatever calls failed
\* before, unless Start gave up.
ConvergesWithoutLeader ==
  (<>[]~leader /\ <>[](pc # "dead")) => <>[](kernel = Target)

\* The route table alignment watchdog (README.md:52): once no call fails any
\* more, a managed route that somebody deletes comes back while BIRD announces
\* its prefix, even if a live leader makes the manager skip all of its periodic
\* syncs.  A call that fails later may empty the table the watchdog compares
\* with, and so does a panic.
DeletedRouteHealed ==
  \A p \in Prefix :
    faults = 0 /\ routeMap[p] # NoGw /\ kernel[p] = NoGw
      ~> kernel[p] # NoGw \/ p \notin bird \/ ~Up

\* removeOldKernelRoutes removes a route because it "is outdated" (route.go:377):
\* never one whose prefix BIRD has announced since the table update began and
\* its answers hold, not even in the initial run.
RemovesOnlyOutdated ==
  [][pc = "remove" /\ pc' # "remove" =>
       \A p \in live \ omitted : kernel[p] # NoGw => kernel'[p] # NoGw]_vars

\* The same of SyncRouteTable, for every prefix BIRD has announced since the
\* table update began, also when its connection breaks in the middle of an
\* answer.
SyncRemovesOnlyOutdated ==
  [][pc = "remove" /\ pc' # "remove" /\ phase # "boot" =>
       \A p \in live : kernel[p] # NoGw => kernel'[p] # NoGw]_vars
=============================================================================
