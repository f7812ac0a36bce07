# net-perf: TLA+ verification project

net-perf runs one daemon per site of a WireGuard mesh. The daemon measures the tunnels to the
other sites, publishes the measurements to Prometheus, reads the routes BIRD announces, and installs for each of
them the best gateway in the kernel. One daemon, elected with Raft, also computes a plan of next
hops for the whole mesh and sends it to the others. This project models the routing and the
measuring parts of the daemon, checks them with TLC and proves their central safety properties with
TLAPS. What is left out, and why, is listed under Not modelled.

## Inventory

| Part | State | Operations | Interacts with | Hard behaviour | Correct when |
|---|---|---|---|---|---|
| Route manager (`internal/route/route.go`, `algorithm.go`) | `graphReady`, `PathMap`, the RouteTable (map, `updateMu`, `ready`) | `Start`, `SyncRouteTable` = graph, table, removal, application | reads `rtUpdateCh`, BIRD, netlink, the finder | each step may fail; the table is empty while it is rebuilt | kernel follows BIRD; no live route is lost |
| Route watchdog (`internal/watchdog/route.go`) | a hash per BIRD instance | compare table with kernel, BIRD with the hash, signal | takes `updateMu`, sends on `rtUpdateCh` | lock and channel together; error results | never deadlocks, every divergence is noticed |
| Finder (`internal/route/finder`) | cost matrix, shared `prev`, RW lock | `NewGraph`, `RefreshWeights`, `GetShortestPath`, `GetTopNShortestPaths` | manager, management RPC, centralised router | shared mutable state under a read lock or none | returns shortest paths, terminates, never panics |
| Centralised router, plan (`internal/route/centralised.go`) | next hops per pair | `Refresh`, `checkForLoops` | finder, pathping of other sites | partial writes of skipped candidates, shared slices, map order | a plan has no loops and uses measured links |
| Centralised router, distribution | `siteRoutes`, `updatedAt` | `Distribute`, `UpdateSiteRoutes` | gRPC to every site, `rtUpdateCh` | partial distribution, old and new leader | mesh-wide forwarding without loops |
| Consensus (`internal/server/consensus`) | Raft (library) | leadership monitoring, health check, adding peers | centralised router | leadership is checked once per refresh | one distributor at a time |
| Measurement workers (`internal/measure`) | worker map per site | start and stop of workers as interfaces come and go | link watchdog, metrics | removal and addition in one pass, stop channels | one set of workers per interface, all stopped in the end |
| Bandwidth test (`internal/measure/bandwidth`) | per-client channel and statistics | test, end packet with retries, final statistics | UDP | loss, duplicates, timeouts, full channels | a result belongs to its test, the server never stalls |
| Pathping (`internal/measure/pathping`) | results by test | send, forward, collect, clean up | UDP along a path | late and lost packets, timeouts | a result covers only its own packets, no leaks |
| Link watchdog (`internal/watchdog/link.go`) | none | choose v4 or v6 tunnel, add or replace link routes | socket and HTTP servers, both managers | unsynchronised goroutines, blocking sends | the preferred tunnel is used |
| Cost cache (`internal/route/cost`) | cost and expiry per pair | get, expire | finder, BGP path costs | several misses at once, stale entries | no cost older than its lifetime |
| Servers (`internal/server`) | none of their own | RPCs, HTTP, unix socket | all channels | senders that block or give up | every request is answered |
| State table, tunables, probes, analyser, tools | small or none | | | | not modelled (see PROJECT.json) |

`PROJECT.json` lists every component with its status, and under `hazards` each place in the code
that is hard to test, with the properties that cover it.

## Modules

| Module | Models |
|---|---|
| `RouteSync` | one daemon's route manager, watchdog, RouteTable, BIRD client, kernel routes and the senders on `rtUpdateCh` |
| `RouteSync_proofs` | theorems about `RouteSync` |
| `Finder` | the graph, its lock and its concurrent users |
| `FinderMC` | reference definitions of distance and of the cheapest paths, the properties stated with it, graph shapes for TLC |
| `Finder_proofs` | theorems about `Finder`, also those stated with `FinderMC`'s reference definitions |
| `Mesh` | the sites, which `RoutePlan`, `SitePlan` and `RouteDistribution` share |
| `RoutePlan` | `CentralisedRouter.Refresh` from the measured links to the plan that is distributed |
| `RoutePlanMC` | link sets for TLC |
| `MeasureWorkers` | `manageWorkers`, `site.stop` and the bandwidth and latency goroutines of each interface |
| `MeasureWorkersMC` | an interface layout for TLC |
| `MeasureWorkers_proofs` | theorems about `MeasureWorkers` |
| `BandwidthTest` | one UDP bandwidth test, its client and the server's side of it |
| `BandwidthTest_proofs` | theorems about `BandwidthTest` |
| `PlanCell` | abstract: what one site promises the mesh about its row of the plan |
| `SitePlan` | one site's `UpdateRoute` handlers, `siteRoutes` with its lock, and the RouteManager that reads it |
| `SitePlanMC` | rows for TLC |
| `SitePlan_proofs` | theorems about `SitePlan`, among them that it implements `PlanCell` |
| `RouteDistribution` | the routers of the whole mesh: who measures a plan, and how its rows reach the sites |
| `RouteDistributionMC` | plans for TLC |
| `RouteDistribution_proofs` | theorems about `RouteDistribution`, among them that every site is a `PlanCell`, and about `RoutePlan`, whose plans it distributes |
| `LinkWatchdog` | the loop of the link watchdog, its goroutines, and the link routes in the kernel |
| `LinkWatchdogMC` | interfaces for TLC |
| `LinkWatchdog_proofs` | theorems about `LinkWatchdog` |
| `PathPing` | path latency tests and the packets they send through the mesh |
| `PathPingMC` | paths and peers for TLC |
| `PathPing_proofs` | theorems about `PathPing` |

The modules meet at narrow interfaces. `Finder` computes the paths that `RoutePlan` takes as given
(what `TopNExact` promises of them, and any part of it while the matrix is rewritten) and the gateway that `RouteSync` calls `"graph"`;
`RoutePlan` yields the plans that `RouteDistribution` takes as given (its assumption `Distributable` is what `LeaderPlansDistributable` proves of them) and of
which `RouteSync` gets one by `UpdateRoute`; `PathPing` produces the
latencies by which `RoutePlan` ranks round trips (there: any order, any failures); a step of `MeasureBandwidth` in
`MeasureWorkers` is a whole behaviour of `BandwidthTest`; the two readers that `LinkWatchdog` signals are the RouteManager of `RouteSync` and the
manager of `MeasureWorkers`.

The distribution of plans is checked in two levels that meet in an abstract specification:

    SitePlan  --implements-->  PlanCell  <--each site is one--  RouteDistribution

`PlanCell` says that a site holds one whole row, adopts a row in one step, and forgets it only with its process. In `SitePlan` a row is
copied key by key into a map that is already in place, and an update that looks like no change is dropped; as the RouteManager reads the map (0 for a missing key: `CellRow`, `CellFresh`) that is
the cell (`ImplementsPlanCell`). `GetCentralisedRoute` reads the same map differently, see `PlanReported`. `RouteDistribution` lets a row arrive in one step at every site (`SitesAreCells`). `PlanCell` is what justifies that step.

### RouteSync

`pc` is the place of the manager's goroutine: `start` (reading the configuration and building the
graph), `graph` (`SyncGraph`), `lock`, `fetch`, `place` (`UpdateRouteTable` and `addToRouteTable`),
`list`, `remove` (`removeOldKernelRoutes`), `apply` (`applyRouteTable`), `loop` (the two selects),
`dead` (`Start` returned an error) and `down` (the process panicked). `phase` tells the initial run
from the loop that waits for the first interval boundary and from the main loop: the initial run applies
before it removes and ignores errors; `SyncRouteTable` removes before it applies and stops at the first error. A step is
what one goroutine does between two points where another can interfere: one BIRD or netlink request, one
route placed, one route configured, one lock operation.

`wpc` is the same for the watchdog. `blocked` holds the goroutines that wait for a receiver on
`rtUpdateCh`, which has no buffer by default. `routeMap` and `kernel` map a prefix to the gateway, and
a gateway is named after the decision that chose it (a leader's plan, the graph, a BGP path), since
the properties only compare gateways. `age` is the age of `updatedAt` in update intervals. A leader
refreshes at twice the rate of the interval, so `age` grows only while there is none.

Each external call may fail as long as `faults` is positive. A failing BIRD call may also be an answer that ends
early without an error, which is what a read error after the welcome line does (`GetRoutes`); `omitted` remembers the announced prefixes that such answers left out
of the table. A panic resets the memory of the process and leaves the kernel as it is.

The senders on `rtUpdateCh` are the `UpdateRoute` handlers, the management handlers of `/rt` (`HandleRTUpdate`, who give up after five seconds), the route watchdog, and the loop of
the link watchdog (`LinkSignal`), which waits without a limit.

Abstracted: prefixes stand for routes that need processing (those of the own AS and those without
a path are skipped at `route.go:269`); a route that leaves through an `en` interface or a BGP path
over a device other than WireGuard gets no entry and is not modelled; `PathMap` only caches a gateway until the next refresh;
`update_method` is reporting; routes owned by whitelisted devices count as aligned in the code and do not
occur here; the flag that turns centralised routing off, and `StopCh`, which nobody closes, are left out.

### Finder

Callers are goroutines: managers and RPC handlers use `GetShortestPath`, centralised routers use
`GetTopNShortestPaths`. A step is one popped queue entry, one hop of the path reconstruction, one cost set by a refresh.
`Popped` takes the entries that `heap.Pop` may return under the code's `Less`. Indexing outside of
the matrix, or `path[1]` of a shorter path, is a panic. Costs are naturals: rounding of floats is left
out. The writes to `prev` while one entry is processed are one step; that concurrent searches mix in it does not depend on
splitting them. Two histories name the callers whom the code does not protect: `mixed` holds those whose `GetShortestPath` was under way when another one wrote `prev`, `torn`
those whose `GetTopNShortestPaths` was under way when a refresh wrote the matrix. Only their paths are excepted from the properties. A mixed `prev` may even
hold a circle, in which a reconstruction goes round as long as the other search stands still; `SearchReturns` excepts it too. `FinderMC` defines the distance as the least cost of a simple path, independently of the
search. The queue is a set, since equal entries of one node are processed alike. `CentralisedRouter` may own a second graph
when the manager's was not ready at the start; sharing one graph is the general case.

### RoutePlan

The nested loops over the maps take sites and targets in any order; the measured round trips are
tried in any order, which stands for any latencies. The RouteManager may wipe and fill the matrix of the same graph during a refresh, and `GetTopNShortestPaths` takes no lock
(`topn.go:72`): `TopPaths` is therefore any set of simple paths over the links, none of them included; `MeasurePathLatency` picks those that were measured without an error, and the refresh fails only when there is none. `Spare` is
what the shared spare capacity of a forward path holds after all goroutines appended to it. The
code calls `GetAllPaths` for the sites and again in each refresh of the graph, its own and the RouteManager's; all these answers are
the same here. So a site that only the graph knows of, for which `centralised.go:238` would write to a nil map, does not occur. With at most four sites there are at most five simple paths for a pair, so the five
best are all of them; the assumption of the module says so.

### MeasureWorkers

The manager's actions are the parts of one pass of `manageWorkers`: `List`, `Remove` (one site: stop it, stop the worker of its first
interface, leave it, or panic), `StopTimeout` (the end of `site.stop`), `Removed`, `Add` (one interface), `Added`. A Worker is named by its
interface and a number, since an interface gets a new one each time it returns. Its two goroutines begin by reading their Worker from the
map of the site (`Begin`), sleep, measure, loop, and remove what they showed when `stopCh` is closed (`Stop`). `series` is what Prometheus shows for an
interface; goroutines of successive Workers of an interface share it.

`site.stop` always lasts until its five seconds are over, because the path worker of the site is never told to stop; the model assumes that every goroutine
that was started before gets to run in that time. Reading the map while the manager writes it is a data race: the Go runtime may detect it
and end the process (`Reading`), or the read is one before or after the write.

### SitePlan

`hpc` is the place of a handler of `UpdateRoute`: it compares the row with `siteRoutes` and either renews `updatedAt` (`RenewPlan`) or puts an empty map
in place (`ReplacePlan`), copies the keys (`CopyKey`), unlocks (`FinishPlan`) and waits on `rtUpdateCh`. The comparison is done in one step
because it holds the lock. `None` is a key the map does not have. There are two readings of it: the manager's `Lookup` (`algorithm.go:208`) yields 0, and `GetCentralisedRoute`
(`interface.go:3-9`) answers -1. `last` is a history: the row this process was sent last. The manager's `Place` reads the map with no lock,
whatever a handler is doing; the Go runtime may also notice and end the process (`ConcurrentMapRead`). One sync is one pass of
`todo`, and its other steps are `RouteSync`'s.

### RouteDistribution

`pc`, `plan`, `todo` and `fast` are the loop of `run` in each daemon that may become leader: the ticker, the fast-start timer with its attempts, `Refresh`, and `Distribute`
with one RPC per step in any order (a Go map). `IsClusterHealthy` and `Leader()` are `Routine`: a site that leads goes on or meets a failure; a site that does not lead returns.
`todo` of a deposed leader stays as it is, so it goes on sending. `SendFails` also covers the
RPC whose deadline passed after the handler had taken over the row. `settled` and `alone` are history variables for `NoLoopOnceSettled`.
Every daemon serves `UpdateRoute` while it is up; a crash empties its row.

### LinkWatchdog

`lpc` is the place of the loop, which sends to both readers one after the other after `Accept`. `serving` are the readers there are: the measurement manager always, the
RouteManager unless its `Start` returned an error (`route.go:82-99`), which `main.go:70-73` only logs. Without it the first announced link stops the loop for ever at `link.go:63` (`LoopHangs`). `jpc` is the place of its goroutines: `Check` is `manageLink`, `Adders` are `addLink`.
A step is one query (`ManageQuery`, `AddQuery`), one look at the routing table (`Compare`), or one netlink call (`Add4`, `Add6`, `Change4`, `Change6`; `LinkByName` belongs to the
first of each pair). `route4` and `route6` hold the version of the interface a remote is reached over. An interface takes its routes with it when it vanishes; a job that
looked its index up before then calls with an index nobody has (`lost`). `best` is what Prometheus answers. `manageLink` works on the list it
read at the start, in any order of remotes, and stops at its first error.

### BandwidthTest

`cpc` is the place of `runTest` and the deferred `cleanup`, `rpc` that of `receiveMessage`; `wpc[w]` that of the w-th worker the server starts for the
client's address. `entry` is the address in `s.clients`, and `inHand` the packet that `processPacket` has looked the channel up for and
not yet sent to it. Each test has a socket of its own, so tests meet in the server only under different keys.

Time is discrete: a unit passes when no goroutine can run and no message is in flight (or one of `Delays` is spent), so that everything that
falls into the same unit happens in any order. That is where the timers race: the retry timer, the worker's clean-up timer
and messages. A `write` or `read` on the connected socket may fail once the other side is `down`. The bandwidth and jitter
figures are left out, and of the statistics those remain that decide on the outcome and on the loss. The out-of-order threshold is 0, the
default: a late packet counts as dropped. Channels of the server are unbounded (1000 slots, about 135 packets with the default flags).

### PathPing

`Measure`, `SendPacket`, `SentAll`, `Poll` and `PollTimeout` are the steps of a call; `ProcessPacket` is what the node does that a packet has
reached; `Clean` is the cleaner of a node. `results` is `have`, the number of durations in the entry of a call, and `idle`, the age of its
`lastUpdated`. A packet carries its call, sequence number and hop. `Slow` packets take arbitrarily long and may arrive after
everything else. Durations are left out, with the correction of `StartTime` by the average processing time; the IP versions
of a path only choose between addresses.

## Runs

Passing:

| Run | Checks | Bounds |
|---|---|---|
| `sync` | `TypeOK`, `LockDiscipline`, `SyncedMeansEqual`, `SyncKeepsLiveRoutes` | one prefix per family (the v6 one with a local BGP path), one plan, one RPC handler, two failing calls (truncated answers among them), one outside change: 2.2 million states |
| `sync_live` | `SignalServed`, `ConvergesWithoutLeader`, `DeletedRouteHealed` | one prefix, one failing call, one outside change: 0.1 million states |
| `finder` | `TypeOK`, `BellmanHolds`, `ShortestReturned`, `TopNExact`, `SearchReturns` | three sites of which one joins late, two paths between two of them, costs 0 and 1; a manager beside a handler that uses both searches, two paths wanted: 0.2 million states |
| `plan` | `RefreshTypeOK`, `PlanForwards` | four sites: every non-empty set of links among three of them, and a bidirectional ring of four; any measurements fail, any paths go unseen while the matrix is rewritten: 0.1 million states |
| `workers` | `TypeOK`, `OpenWorkersOwned`, `StoppedWorkersExit`, `ReportsInTheEnd` | two interfaces of one site, two changes: 0.5 million states |
| `bandwidth` | `TypeOK`, `EntryOwned`, `LossNotOverstated`, `RecoversFromOneLoss`, `TestEnds` | six data packets of which three must arrive, four attempts, two losses, one delay, the other side may go down: 1.0 million states |
| `pathping` | `TypeOK`, `ResultsKept`, `OnlyLossFails`, `NothingLeft` | two tests of two packets at any of three nodes, five paths, one lost and one slow packet: 0.3 million states |
| `site_plan` | `TypeOK`, `NoStaleHop`, `PlanReported`, `PlanFollowed`, `ImplementsPlanCell` | three sites seen from one of them, three rows of which one lacks a site, two handlers, one failing call or restart: 0.2 million states |
| `distribution` | `TypeOK`, `NoLoopOnceSettled`, `StableLeaderConverges`, `SitesAreCells` | three sites, two of which may lead, three plans of which two together make a loop, one failure or crash, two changes of leader or network: 0.5 million states |
| `links` | `TypeOK`, `FamiliesAgree`, `RoutesFollowBest` | two remotes, one with both tunnels; a RouteManager or none; one `manageLink` and one `addLink` at a time, one failure or restart, one change: 0.2 million states |

Two prefixes are enough for `sync` because the code treats routes of a family alike and the
two families in sequence: the cases that differ are "before the failure" and "after the failure". Two faults
allow one in the initial run and one in the sync, a truncated answer and a failing call, or a fallback over two methods. One outside change at any moment is enough to hit every window between reading and
using BIRD, the kernel or the plan.

In `site_plan` two handlers and one sync are enough for every overlap of an old row, a new row and a read, and one row without a key for the zero that a missing key reads.
In `finder` a second searcher, a refresh by either goroutine, an edge of cost 0 and a choice between two paths can meet at every step; larger graphs add nothing but time (the theorems hold for all).
In `distribution` three sites are the smallest mesh in which two loop-free plans make a loop, two leaders the smallest number of concurrent distributors, and two changes let the leader lose office and
another measure a different plan. In `links` the theorem `FamiliesAgreeHolds` covers any number of concurrent `addLink`s; the run has one beside `manageLink`, a lone tunnel and a pair.

In `workers` two changes suffice for an interface to vanish and return within any phase of the manager and of the goroutines
of its first Worker, or for both interfaces to vanish, which stops the site. In `bandwidth` half of the data
packets are needed, so that a retry answered by a new worker alone is recognisably too small; two losses and a delay are one more than what
`RecoversFromOneLoss` tolerates. The numbers keep the order of the code's defaults (retry delay 1 s, statistics every 3 s, timeout above both).
In `pathping` the paths cover a round trip, one that visits its origin on the way, a missing first and a missing later hop, and one that is not a round trip.

Violations, each a finding in `PROJECT.json` with the line of code and the words it contradicts:

| Run | What TLC shows |
|---|---|
| `sync_boot` | after a failed table update the initial run removes live routes |
| `sync_truncated` | when the connection to BIRD breaks in the middle of an answer, the next removal of a periodic sync takes away live routes |

Their bounds are the smallest that show it. `SyncKeepsLiveRoutes` says beside them that nothing else makes a periodic sync do this, and `ConvergesWithoutLeader` that a later sync repairs the kernel. Other disagreements that modelling brought
up, visible in the definitions named and without a run of their own:

- Two concurrent searches share `prev` and write it under a read lock (`finder.go:175`), so one may return a hop of the other's path, panic, or go round in a circle. `ShortestReturned` excepts the paths, and
  `SearchReturns` the return, of searches in `mixed`; the distances (`BellmanHolds`, `DistancesExact`) hold for all.
- The loop of the link watchdog hangs for ever at the first announced link if `RouteManager.Start` returned an error (`link.go:63`, `route.go:82-99`; `main.go:70-73` logs the error and goes on).
  `manageLink` never runs again, and the measurement manager hears of no further link. `SignalServed` and `RoutesFollowBest` name this as their one exception.
- `UpdateSiteRoutes` compares with what reading a missing key yields (`centralised.go:313`), so a row that only adds destinations via site 0 counts as unchanged and is not stored, whereas
  `centralised.go:302` says "this purges all other routes". The RouteManager reads 0 all the same, but the management RPC answers "no route to peer" for these destinations
  (`interface.go:3-9`, `management.go:70`). `PlanReported` says that this is the only difference.
- A bandwidth goroutine that stops late removes the series that its successor on the same interface shows (`bandwidth.go:114`, `MeasureWorkers!UnregisterBandwidth`), which stays away until the next measurement, a minute later.
- The goroutines of a refresh append to forward paths that share spare capacity (`centralised.go:179`, `RoutePlan!Spare`), so the round trip that is installed may be another than the one
  that was measured, whereas `README.md:33` promises the "Measured Fastest Path".
- The local measurement of a path passes `measurementCount` where the remote ones pass the interval (`centralised.go:355`), and the `Status` of a remote answer is not looked at.
- Two lost messages can fail a bandwidth test of four attempts: the third end packet meets the server's clean-up and is taken for a test of its own, whose total is too small (`client.go:126-128`, `server.go:214`).
- When `rtUpdateCh` delivers a plan but the sync fell back to the graph, the ticker is still skipped as long as `updatedAt` is younger than an interval (`route.go:178-180`), so the plan waits for
  the next change or signal (`SitePlan!Tick`; `NoStaleHop` and `PlanFollowed` allow a fallback).
- `addRoutes` logs "assuming v4" for a query without an answer (`link.go:191`, `:193`), but the version is the empty answer by then; the name does not parse, and nothing is routed until
  the next `manageLink` (`LinkWatchdog!AddQuery`).
- `manageLink` compares the IPv4 route only (`wireguard.go:28`), so an IPv6 call that failed is not repaired while the IPv4 route stays (`halved` in `FamiliesAgree`). An interface that
  vanishes between the two calls of a change leaves the IPv6 route on another interface.
- `updated` in `manageLink` is never set (`link.go:73`), so `link.go:48` never signals the RouteManager.
- A `manageLink` that lasts longer than its interval would overlap with the next one; two that change the same remote in opposite directions can split the families. The model has one at a time: with the
  default interval of a minute, twenty remotes whose queries all time out at three seconds are needed.
- `UpdateLocalRoutes` uses the `CentralisedRouter` before `Start` has created it when the RPC arrives early
  (`interface.go:12`), and panics (`RouteSync!UpdateRoute`).
- `PriorityQueue.Less` orders by `>`, so the search takes the entry with the largest distance, whereas `finder.go:158` says
  "Get the node with minimum distance" (`Finder!Popped`). The results are right all the same, see below.
- With a live leader that keeps sending an unchanged plan, all periodic syncs are skipped (`route.go:178`, whose comment claims that the update "was
  already triggered by centralised router"). A BIRD change between a sync and the watchdog's first hash then never reaches the kernel (`RouteSync!RecentlyCentralised`).
- A failed `GetRoutes` in the watchdog leaves a nil hash and panics the daemon (`watchdog/route.go:108`, `RouteSync!CheckRouterChanges`). The
  daemon is restarted and recovers (`ConvergesWithoutLeader`).
- The matrix of the finder keeps the size it was created with; a site with a higher ID that joins later makes the next refresh or
  search index out of range (`finder.go:109`, `Finder!Panic`).
- When the first interface of a site is gone and another stays, the manager stops its worker, and its next pass panics on the missing entry (`measure.go:98`,
  `MeasureWorkers!Remove`). Only the worker of the first interface is looked at: another interface that vanishes keeps its worker.
- The path worker of a site has a `stopCh` nobody closes, so a stopped site waits five seconds and leaves it running (`measure.go:259-273`).
- A bandwidth goroutine whose last measurement could not dial unregisters an unnamed series, and the one it had shown keeps its last value (`bandwidth.go:113-114`
  says "remove worker metrics"; `MeasureWorkers!UnregisterBandwidth`).
- Late packets count both in the total and as dropped, so `Loss` of a complete but reordered test is negative (`client.go:295`, `BandwidthTest!UpdateStats`).
- `validateFlags` admits a retry count of 0 (a test without a result or an error), and bandwidth, size and duration for which `packetsCount` is 0 (`client.go:137`
  divides by it). `BandwidthTestAssumption` excludes both.
- `pathping.go:208-210` says that a measurement that exceeds the timeout returns an error; it returns the average of what came back, with `Status` 0 and no
  error (`PathPing!PollTimeout`), and `Loss` is never set.
- `ResultsKept` needs the sending phase to be shorter than three timeouts (`PathPing_proofs!CleanerIsPatient`). All callers in the repository keep to that; the RPC takes any count and interval.
- `GetTopNShortestPaths` reads the matrix without a lock (`topn.go:72`); `TopNExact` excepts a call during which the matrix was written (`torn`), and the leader takes what such a call answers for the five best paths.
- The last hop of a return path is never recorded (`centralised.go:232`), so the selection can build a loop, which
  `checkForLoops` finds and answers by dropping the whole plan. `PlanForwards` is about the plans that remain.

## Fairness

`RouteSync!Fairness` assumes of the Go runtime that a runnable goroutine runs (weak fairness of its steps),
that a contended `sync.Mutex` is obtained in the end (its starvation mode hands it to
the longest waiter: strong fairness of the lock steps), and that a `select` that is entered again and again takes
each case that is ready in the end (choice is random, senders queue in order: strong fairness
of `Receive` per sender; the tickers need only weak fairness). Of the environment it assumes that time passes
and that a dead daemon is restarted. Nothing is assumed of RPCs, BIRD, the kernel or the leader.
`Finder!FairSpec` lets a goroutine inside the finder continue; nobody has to call it.

`MeasureWorkers!FairSpec` lets the manager go on, every goroutine that starts or stops take its (few) steps, and the latency ticker of an interface fire;
a dead daemon is restarted. Nothing is assumed of interfaces. In `BandwidthTest` and `PathPing` all behaviours between two environment steps are finite, so weak fairness of
their steps together is the same as of each: goroutines run, time passes, and a message arrives or is lost. A lossy network
owes nothing: losing a message is never required while the tunnel is up, nor is its arrival before any timer. `bandwidth`
and `pathping` switch the deadlock check off, since a system whose tests are finished has nothing left to do.

`SitePlan!FairSpec` lets handlers that hold the lock go on, a handler that waits on `rtUpdateCh` be received in the end (senders queue) and a sync proceed; neither a ticker nor a leader
is assumed. `RouteDistribution!FairSpec` lets the router loops run, an RPC to a running site return, and a stopped daemon be started again; nothing is assumed of elections.
In `LinkWatchdog!FairSpec` the readers that serve take what is sent to them (of the RouteManager this is `RouteSync`'s `SignalServed`), goroutines run, and the ticker's case of the `select` is chosen in the end.
Nothing takes what is sent to a RouteManager that gave up. There the loop, and with it the model, may stop, so `links` switches the deadlock check off.

`ConvergesWithoutLeader`, `SignalServed` (for the link watchdog only) and `RoutesFollowBest` (for the hanging loop only) except a `Start` that gave up, since the code never retries it.

## Proofs

All proofs are for arbitrary sites, prefixes, plans, handlers and bounds, from the named assumptions of
the modules only; some theorems have a further condition, which stands in their statements:

| Condition | Theorem | Meaning |
|---|---|---|
| `CleanerIsPatient` | `ResultsKeptHolds` | `Measure` never leaves an entry alone for three timeouts |
| `IntervalIsShort` | `OnlyLossFailsHolds` | packets are sent at least every three timeouts (all callers: at most 250 ms, and the timeout is 1 s) |
| `WorkersOutlastTest` | `LossNotOverstatedHolds` | the worker's timers are longer than the test with all delays, and the attempts fewer than twice the packets a result needs (the flags: 2 s and twice 250 ms below 3 s; 4 and 10) |
| `RetryInTime` | `RecoversFromOneLossHolds` | test and first retry end before the timeouts of worker and receiver (the flags: 2 s + 250 ms below 3 s and below three times 1 s), there is a retry, the test has two packets more than the fewest that give a result, and the last two data packets are each followed by a pause, that is, messages take less than the distance of two packets (`Delays` aside), so the end packet overtakes one of them at most |

All of them hold in the runs of the modules.

`TypeCorrect` is the usual induction. `LockDisciplineHolds` needs no more than the types:
`LockDiscipline` ties the mutex to both program counters and is inductive together with them.

`SyncKeepsLiveRoutesHolds` needs an invariant that follows a table update: every prefix
announced without a break since the update began is in `routeMap`, or still in `todo`, or belongs to a mode not yet
fetched, or was left out by a broken answer (`omitted`), or has a local best path and has no kernel route any more, or an error has been collected. With the errors going to `loop` and not to
`list`, the table is complete for the other live prefixes wherever `remove` is reached after the initial run. There is no condition: what a truncated answer does is in the model, and
the property names the prefixes it costs.

`SyncedMeansEqualHolds` follows the second half of a sync: in `remove` all managed routes are
among `listed`, in `apply` a prefix not in `todo` has the same gateway in both maps and none outside the table has a route. It
needs that the table is stable between the unlock and the next sync, and `LockDiscipline` to exclude the watchdog.

`BellmanHoldsAlways` rests on `SearchInv`: the matrix does not change under a reader (`Locks`), and for every searching caller each
node with a distance either has an entry of exactly that distance in the queue or all of its edges are relaxed; each distance but
the start's is reached over an edge from a node whose distance was at most as large. The lemma `RelaxSound` shows that
processing any entry, not only a minimal one, keeps this, which is why the reversed heap is harmless.

`DistancesExactHolds` goes from these equations to the least cost over all paths, for any number of callers. The equations bound the cost of every path from below
(`LowerBound`, by induction along the path). That the bound is reached is what zero costs make hard: with them the equations alone would admit
a circle of nodes that vouch for each other. `TreeInv` therefore keeps predecessors that form a tree (`RelaxTree`: a node that changes its predecessor ends up
strictly farther than the node taken, so it cannot be one of its ancestors); following them back from a node visits no node twice (`ChainIsPath`). With concurrent searches
such predecessors exist for each caller, but `prev` may hold a mixture of them. For a caller outside `mixed` they are `prev` itself, until its search returns; `Backwards` says what the
reconstruction then has in hand, and `ShortestReturnedHolds` follows for any number of goroutines on one graph.

`TopNExactHolds` rests on `Frontier`: each path to the goal is found or continues a candidate, no candidate is the beginning of another, and what is found is in order and no more expensive than any
candidate. Costs are not negative, so extending a candidate never undercuts what was found before. The steps of other callers are harmless (`OtherTop`) unless they write the matrix, and then
they put the caller in `torn`, for which the theorem claims nothing. The heap of this search is an ordinary one (`topn.go:20-22`).

The induction theorems of the library cannot be used here, as they take an operator. Inductions along a path or a walk go by `IndexInduction` instead: the
least index outside a set, which `LeastNumber` gets from the well-founded ordering of finite sets.

`OpenWorkersOwnedHolds` strengthens `OpenWorkersOwned` by: the site being stopped is one the removal loop was going through (`Stopping`, `LoopSites`),
entries and closed channels belong to Workers that were made (`EntriesMade`, `ClosedMade`), and a goroutine runs on a Worker of its interface. The hard
case is `StopTimeout`, which deletes all entries of the site in one step: it keeps the equivalence because `StopSite` closed exactly those.

`EntryOwnedHolds` follows `made`: workers above it have not been started, and at most the one in `entry` is alive. That a packet in hand is put into
the channel of a worker that has left changes nothing, which is the point of the property.

`LossNotOverstatedHolds` needs to know who counts what. `Patient` is about time: while the test is sent, and as long as data packets are under way, the first worker is there and its timer longer than what is left
of the sending and of the delays. So it counts all data packets that are counted at all, and is the only one to do so (`Accounts`). Any later worker exists because of end packets;
it swallows one after each that it answers, so the attempts of a test cannot make it count more than half of them (`EndsFor`), which is too few for a result. `Truthful` then says of
every answer on its way that it speaks of the first worker or is too small.

`RecoversFromOneLossHolds` is an induction along a test of which enough packets arrive and at most one end packet or answer is lost or late (`Good`; what was lost before can only have been less,
`GoodBefore`). `Undisturbed` says what such a test looks like before it returns. `OneWorker`: no worker has ended. `Lasting`: every timeout is longer than the time until the first retry is sent (`Due`), after which no
time passes at all. `Attempts`: time can pass while the client waits only if something went astray, and after the retry nothing else may, so an answer to it is `Coming`. `Arrives`: when the end packet is
sent, all data packets but the last have been counted or lost; this is the part that needs pauses and is what makes the total that the answer shows (`Told`) enough for `parseStats`. Once the
client has taken an answer the result stays.

`NoStaleHopHolds` (`SitePlan`) adds two parts to the types. `Writing`: the map agrees with the row being copied except for the keys in `left`, and the lock is held by exactly the
handler that fills. `Followed`: while no handler has still to fill or signal, what a running sync has placed so far, and after a successful sync the kernel, is what
the map says now. The case that decides is `ReplacePlan`: it makes the map differ from the table, but leaves a handler that has still to signal, and the sync that takes the signal starts from nothing.
`PlanReportedHolds` needs one more part of `Writing`, `Reported` (while no handler fills, the map and `last` differ at most in keys that are missing in the map and 0 in the row), which each update that counts as unchanged has to preserve: the map is compared
with the new row while it may already differ from the last one. `SitePlanImplementsPlanCell` uses `Writing` for the step map: `ReplacePlan` is the cell's `Adopt`, `CopyKey` stutters, and `FinishPlan` ends with the map equal
to the row that `CellRow` has shown since.

`NoLoopOnceSettledHolds` (`RouteDistribution`) adds `Sending` (a distributor has a plan, and the sites it is done with hold their row of it while it is in `alone`)
and `Installed` (the sites of `settled` hold their rows). That plans bring packets to their destination is the assumption `Distributable` on `Plans`. `SitesAreCellsHolds` maps `Send` and a late `SendFails` to
`Adopt`, `Crash` to `Restart` and `Expire` to itself; the others stutter.

`PlanForwardsHolds` is about `RoutePlan`, which `RouteDistribution_proofs` extends together with `RouteDistribution` (for this the specification of the refresh is called `RefreshSpec`);
it holds for any links among two to four sites (`RoutePlanAssumption`), whichever of the paths over them the searches find. Three facts are invariant (`PlanInv`). What is tried is a `RoundTrip`: from site to target over measured links, and from
there over measured links until it is back at the site. A return path that was overwritten by a shorter one (`Overlay`) may go on behind that point with the rest of another path, over a hop nobody
measured; `JoinedTrip` shows that this is the only such hop. `HopsOnLinks`: no such hop gets into the plan, since the column of the way back is the site itself, and the entry of a site for itself is not used. `Progress`: every pair
that the loops have left behind has a hop, also when others were skipped half written. A walk by a complete plan that
does not arrive within as many hops as there are sites visits one twice (pigeonhole), and that is what `checkForLoops` looks for (`LateWalkLoops`). `LeaderPlansDistributable` carries the result over to `RouteDistribution`: the rows
handed to `Distribute` satisfy `Distributable`.

`FamiliesAgreeHolds` (`LinkWatchdog`) rests on `Kept`, which says for each remote what the two routes have in common while jobs are between their calls: a change has moved the IPv4 route to its target;
otherwise an IPv6 route that is there leads over the interface of the IPv4 route, and an addition between its calls that will find it missing is the one whose IPv4 route is in place,
since `RouteAdd` refuses a second one. That only
`manageLink` replaces routes (`AddersOnlyAdd`) is needed, and that it is alone.

`ResultsKeptHolds` (`PathPing`) is proved for arguments and flags that satisfy `CleanerIsPatient`: the larger of the sending phase and two timeouts, and half an interval more, are within three timeouts. The invariant is `Young`:
while a test sends, the age of its entry and the rest of its sleep are at most the time it has been sending; while it polls, at most that bound, since a poll that finds an entry older than two timeouts
returns it. The rest (`Traces`, `InFlight`) says that packets and entries come from calls that have begun.

`OnlyLossFailsHolds` adds an account of packets. `Flight`: each is somewhere along the path of its test, there is one of each number, and those on their way together with those that came back are at most those sent.
`Undisturbed`: of a test that nothing has happened to, exactly; none is on its way when time has passed since the last was sent, so the entry is never older than the interval and the
cleaner does not come between two packets. The sum makes the last poll find all durations.

`SitesAreCells` and `ImplementsPlanCell` are proved as they are checked. All invariants of the passing runs are proved; only the liveness properties are model-checked alone, since fairness is out of
the prover's reach. The violations `sync_boot` and `sync_truncated` are TLC's alone.

## Not modelled

- The cost cache (`route/cost/cost.go`) bounds the age of a cost to 15 s and spares queries. The finder takes costs that change at any time, which includes cached ones, so it would add nothing to
  the properties here; by itself it is one locked map.
- Membership in consensus (`consensus/raft.go`): bootstrap and `AddVoter` change the configuration of the Raft library, which is not part of the repository. Read beside the code:
  the leadership channel keeps one value, so a quick loss and gain of office is seen once; a failed `AddVoter` is logged and tried again only after the next election; a crash between `MkdirAll` and
  `BootstrapCluster` leaves a directory that makes the next start skip the bootstrap. Leadership itself is arbitrary in `RouteDistribution`.
- The path latency worker (`measure/path.go`) has no way to stop and shares no state with the other workers, so the goroutines of sites that left accumulate. In `MeasureWorkers` that is the reason why every `site.stop` lasts
  five seconds.
- Latency probes, `tunables`, BIRD's text format, PromQL, and the lookups of IDs and addresses in `netctl` are single calls to the outside.
- The analyser hands a linear program to an external solver; the client and the exporter print what RPCs answer. The state table is a locked map that the management interface reads.
- `FindNCircularPaths` has no caller, nor has `RemoveAllManagedRoutes`.
- Generated protobuf code and the logger.

Beyond the runs: links that change during a refresh of the centralised router, with sites that its graph knows and its table of next hops does not (`centralised.go:159-244`); larger meshes for `RoutePlan` (its inner loops multiply the orders of targets and measurements), several `manageLink`s at a time, and a refinement between
`RouteSync` and `SitePlan`, whose manager is the same goroutine at two levels of detail.
