---------------------------- MODULE MeasureWorkers ----------------------------
(***************************************************************************)
(* ServiceManager.manageWorkers (internal/measure/measure.go) and the      *)
(* workers it starts and stops as WireGuard interfaces come and go: per    *)
(* interface one bandwidth and one latency goroutine, which share a Worker *)
(* and write the Prometheus series of the interface (bandwidth.go,         *)
(* latency.go).                                                            *)
(*                                                                         *)
(* A Worker is a pair <<interface, n>>, the n-th one made for it.  The     *)
(* goroutines fetch their Worker from the map of their site when they      *)
(* first run, without its lock, not when they are started.                 *)
(*                                                                         *)
(* The path latency worker of a site is not modelled: nobody closes its    *)
(* stopCh, so it never ends, and because of it the WaitGroup in site.stop  *)
(* is never done and each stop lasts until its timer fires.                *)
(***************************************************************************)
EXTENDS Integers

CONSTANTS
  Iface,       \* names of WireGuard interfaces
  Site,        \* remote sites
  SiteOf,      \* the remote site of an interface
  MaxChanges   \* bound: interfaces that appear or vanish

ASSUME MeasureWorkersAssumption ==
  /\ SiteOf \in [Iface -> Site]
  /\ "none" \notin Iface \cup Site
  /\ MaxChanges \in Nat

None == "none"
Kinds == {"bw", "lat"}
Worker == Iface \X (Nat \ {0})

VARIABLES
  up,        \* interfaces there are
  changes,   \* environment changes left
  mpc,       \* manageWorkers: "idle", "remove", "stopping", "add"; "down" is
             \* the dead daemon
  listed,    \* result of GetAllWGInterfaces
  leaving,   \* the site in site.stop
  todoSites, \* sites the removal loop has not looked at
  todo,      \* interfaces the addition loop has not looked at
  first,     \* site -> interface of its siteWorker; None: not in m.sites
  workers,   \* interface -> n of its entry in interfaceWorkers; 0: none
  gen,       \* interface -> Workers made so far
  closed,    \* Workers with a closed stopCh
  gs,        \* the goroutines of the workers
  working,   \* Workers marked as working
  series     \* interface, kind -> what its series shows

envVars == <<up, changes>>
mgrVars == <<mpc, listed, leaving, todoSites, todo>>
mapVars == <<first, workers, gen, closed>>
workVars == <<gs, working, series>>
vars == <<envVars, mgrVars, mapVars, workVars>>

\* made: the Worker it was started for; on: the Worker it runs on, 0 until it
\* has looked; named: do the labels in data name the series of the interface?
Goroutine == [iface : Iface, kind : Kinds, made : Nat \ {0}, on : Nat,
              pc : {"new", "sleep", "loop"}, named : BOOLEAN]

TypeOK ==
  /\ up \subseteq Iface
  /\ changes \in 0..MaxChanges
  /\ mpc \in {"idle", "remove", "stopping", "add", "down"}
  /\ listed \subseteq Iface
  /\ leaving \in Site \cup {None}
  /\ todoSites \subseteq Site
  /\ todo \subseteq Iface
  /\ first \in [Site -> Iface \cup {None}]
  /\ workers \in [Iface -> Nat]
  /\ gen \in [Iface -> Nat]
  /\ closed \subseteq Worker
  /\ gs \subseteq Goroutine
  /\ working \subseteq Worker
  /\ series \in [Iface -> [Kinds -> {"none", "up", "failed", "removed"}]]

Init ==
  /\ up \in SUBSET Iface
  /\ changes = MaxChanges
  /\ mpc = "idle"
  /\ listed = {} /\ leaving = None /\ todoSites = {} /\ todo = {}
  /\ first = [s \in Site |-> None]
  /\ workers = [i \in Iface |-> 0] /\ gen = [i \in Iface |-> 0]
  /\ closed = {} /\ gs = {} /\ working = {}
  /\ series = [i \in Iface |-> [k \in Kinds |-> "none"]]

\* The process ends; its series end with it.
Panic ==
  /\ mpc' = "down"
  /\ listed' = {} /\ leaving' = None /\ todoSites' = {} /\ todo' = {}
  /\ first' = [s \in Site |-> None]
  /\ workers' = [i \in Iface |-> 0] /\ gen' = [i \in Iface |-> 0]
  /\ closed' = {} /\ gs' = {} /\ working' = {}
  /\ series' = [i \in Iface |-> [k \in Kinds |-> "none"]]
  /\ UNCHANGED envVars

Restart ==
  /\ mpc = "down"
  /\ mpc' = "idle"
  /\ UNCHANGED <<envVars, listed, leaving, todoSites, todo, mapVars, workVars>>

------------------------------------------------------------------------------
(* manageWorkers.                                                           *)

Of(s) == {i \in Iface : SiteOf[i] = s}

\* A goroutine that is about to read the map of s while the manager writes it:
\* the runtime may detect that and end the process.
Reading(s) == \E r \in gs : r.pc = "new" /\ SiteOf[r.iface] = s

\* The ticker, or a signal on measureUpdateCh; an error of GetAllWGInterfaces
\* changes nothing.
List ==
  /\ mpc = "idle"
  /\ mpc' = "remove"
  /\ listed' = up
  /\ todoSites' = {s \in Site : first[s] # None}
  /\ UNCHANGED <<envVars, leaving, todo, mapVars, workVars>>

\* A site without any interface: site.stop closes the channels of its workers ...
StopSite(s) ==
  /\ Of(s) \cap listed = {}
  /\ closed' = closed \cup {<<i, workers[i]>> : i \in {j \in Of(s) : workers[j] # 0}}
  /\ leaving' = s
  /\ mpc' = "stopping"
  /\ UNCHANGED <<first, workers, gen, workVars>>

\* Mutant of StopWorker: the entry is deleted without closing its channel.
StopWorkerOpen(s) ==
  /\ Of(s) \cap listed # {} /\ first[s] \notin listed
  /\ workers[first[s]] # 0
  /\ workers' = [workers EXCEPT ![first[s]] = 0]
  /\ UNCHANGED <<mpc, leaving, first, gen, closed, workVars>>

\* ... one whose first interface is gone: the worker of that one is stopped.
StopWorker(s) ==
  /\ Of(s) \cap listed # {} /\ first[s] \notin listed
  /\ workers[first[s]] # 0
  /\ closed' = closed \cup {<<first[s], workers[first[s]]>>}
  /\ workers' = [workers EXCEPT ![first[s]] = 0]
  /\ UNCHANGED <<mpc, leaving, first, gen, workVars>>

\* The removal loop looks at one site.  The next pass after StopWorker meets a
\* siteWorker without an entry, unless the interface is back.
Remove(s) ==
  /\ mpc = "remove"
  /\ s \in todoSites
  /\ \/ /\ StopSite(s) \/ StopWorker(s)
        /\ todoSites' = todoSites \ {s}
        /\ UNCHANGED <<envVars, listed, todo>>
     \/ /\ first[s] \in listed
        /\ todoSites' = todoSites \ {s}
        /\ UNCHANGED <<envVars, mpc, listed, leaving, todo, mapVars, workVars>>
     \/ /\ Of(s) \cap listed # {} /\ first[s] \notin listed
        /\ workers[first[s]] = 0 \/ Reading(s)
        /\ Panic

\* ... and waits five seconds, the time in which every started goroutine of the
\* site is assumed to have run at least once; then the site is deleted.
StopTimeout ==
  /\ mpc = "stopping"
  /\ ~Reading(leaving)
  /\ first' = [first EXCEPT ![leaving] = None]
  /\ workers' = [i \in Iface |-> IF SiteOf[i] = leaving THEN 0 ELSE workers[i]]
  /\ leaving' = None
  /\ mpc' = "remove"
  /\ UNCHANGED <<envVars, listed, todoSites, todo, gen, closed, workVars>>

Removed ==
  /\ mpc = "remove"
  /\ todoSites = {}
  /\ mpc' = "add"
  /\ todo' = listed
  /\ UNCHANGED <<envVars, listed, leaving, todoSites, mapVars, workVars>>

Started(i, n) ==
  {[iface |-> i, kind |-> k, made |-> n, on |-> 0, pc |-> "new", named |-> FALSE]
     : k \in Kinds}

NewWorker(i) ==
  /\ workers' = [workers EXCEPT ![i] = gen[i] + 1]
  /\ gen' = [gen EXCEPT ![i] = @ + 1]
  /\ gs' = gs \cup Started(i, gen[i] + 1)

\* The addition loop looks at one interface: its site is new, or only the
\* interface is, or neither.
Add(i) ==
  /\ mpc = "add"
  /\ i \in todo
  /\ \/ /\ \/ /\ first[SiteOf[i]] = None
              /\ first' = [first EXCEPT ![SiteOf[i]] = i]
              /\ NewWorker(i)
           \/ /\ first[SiteOf[i]] # None /\ workers[i] = 0
              /\ NewWorker(i)
              /\ UNCHANGED first
           \/ /\ first[SiteOf[i]] # None /\ workers[i] # 0
              /\ UNCHANGED <<first, workers, gen, gs>>
        /\ todo' = todo \ {i}
        /\ UNCHANGED <<envVars, mpc, listed, leaving, todoSites, closed, working, series>>
     \/ /\ first[SiteOf[i]] # None /\ workers[i] = 0
        /\ Reading(SiteOf[i])
        /\ Panic

Added ==
  /\ mpc = "add"
  /\ todo = {}
  /\ mpc' = "idle"
  /\ listed' = {}
  /\ UNCHANGED <<envVars, leaving, todoSites, todo, mapVars, workVars>>

------------------------------------------------------------------------------
(* The goroutines of a worker.                                              *)

Becomes(r, on, l, named) ==
  gs' = (gs \ {r}) \cup {[iface |-> r.iface, kind |-> r.kind, made |-> r.made,
                          on |-> on, pc |-> l, named |-> named]}

Closed(r) == <<r.iface, r.on>> \in closed

\* Mutant of Begin: what the map holds is not looked at.
BeginBlind(r) ==
  /\ r.pc = "new"
  /\ Becomes(r, workers[r.iface], "sleep", FALSE)
  /\ UNCHANGED <<envVars, mgrVars, mapVars, working, series>>

\* The goroutine reads site.interfaceWorkers[ifaceName]; a nil Worker panics.
Begin(r) ==
  /\ r.pc = "new"
  /\ \/ /\ workers[r.iface] # 0
        /\ Becomes(r, workers[r.iface], "sleep", FALSE)
        /\ UNCHANGED <<envVars, mgrVars, mapVars, working, series>>
     \/ workers[r.iface] = 0 /\ Panic

Show(r, value) == series' = [series EXCEPT ![r.iface][r.kind] = value]

\* A latency goroutine takes the labels from its Worker, a bandwidth goroutine
\* from its last result.
UnregisterLatency(r) == r.kind = "lat" /\ Show(r, "removed")

UnregisterBandwidth(r) ==
  /\ r.kind = "bw"
  /\ IF r.named THEN Show(r, "removed") ELSE UNCHANGED series

Unregister(r) == UnregisterLatency(r) \/ UnregisterBandwidth(r)

\* Mutant of Measures: no ticker.
MeasuresOnce(r) == r.pc = "sleep"

\* doMeasure ends: at its time out of the random sleep, which no stop interrupts,
\* or after a tick.  One that is under way when stopCh is closed counts as done
\* before: the goroutine waits for it and then removes what it showed.
Measures(r) == r.pc = "sleep" \/ (r.pc = "loop" /\ ~Closed(r))

\* Of a result without status 1 only the status is a number.
ShowLatency(r, status) == Show(r, IF status = 1 THEN "up" ELSE "failed")

\* MeasureTCP and MeasureICMP name the series also when they fail.
MeasureLatency(r) ==
  /\ r.kind = "lat" /\ Measures(r)
  /\ \/ /\ r.iface \in up
        /\ ShowLatency(r, 1)
        /\ working' = working \cup {<<r.iface, r.on>>}
     \/ /\ ShowLatency(r, 0)
        /\ working' = working \ {<<r.iface, r.on>>}
  /\ Becomes(r, r.on, "loop", TRUE)
  /\ UNCHANGED <<envVars, mgrVars, mapVars>>

\* MeasureUDP returns an empty Result when it cannot dial, as without the
\* address of a vanished interface; that one names another series.  While the
\* latency measurement fails, a tick only shows the last result as failed.
MeasureBandwidth(r) ==
  /\ r.kind = "bw" /\ Measures(r)
  /\ \/ /\ r.pc = "loop" /\ <<r.iface, r.on>> \notin working
        /\ IF r.named THEN Show(r, "failed") ELSE UNCHANGED series
        /\ UNCHANGED gs
     \/ /\ r.pc = "sleep" \/ <<r.iface, r.on>> \in working
        /\ \/ /\ r.iface \in up
              /\ Show(r, "up")
              /\ Becomes(r, r.on, "loop", TRUE)
           \/ /\ Show(r, "failed")
              /\ Becomes(r, r.on, "loop", TRUE)
           \/ /\ r.iface \notin up
              /\ Becomes(r, r.on, "loop", FALSE)
              /\ UNCHANGED series
  /\ UNCHANGED <<envVars, mgrVars, mapVars, working>>

\* Mutant of Stop: only a working interface is looked after.
StopIfWorking(r) ==
  /\ r.pc = "loop" /\ Closed(r) /\ <<r.iface, r.on>> \in working
  /\ gs' = gs \ {r}
  /\ Unregister(r)
  /\ UNCHANGED <<envVars, mgrVars, mapVars, working>>

Stop(r) ==
  /\ r.pc = "loop" /\ Closed(r)
  /\ gs' = gs \ {r}
  /\ Unregister(r)
  /\ UNCHANGED <<envVars, mgrVars, mapVars, working>>

------------------------------------------------------------------------------
IfaceChange(i) ==
  /\ changes > 0
  /\ changes' = changes - 1
  /\ up' = IF i \in up THEN up \ {i} ELSE up \cup {i}
  /\ UNCHANGED <<mgrVars, mapVars, workVars>>

Manage ==
  \/ List \/ (\E s \in Site : Remove(s)) \/ StopTimeout \/ Removed
  \/ (\E i \in Iface : Add(i)) \/ Added

Work(r) == Begin(r) \/ MeasureLatency(r) \/ MeasureBandwidth(r) \/ Stop(r)

Next ==
  \/ Manage \/ Restart
  \/ \E r \in gs : Work(r)
  \/ \E i \in Iface : IfaceChange(i)

Spec == Init /\ [][Next]_vars

\* The scheduler runs the manager and every goroutine, also one whose stopCh is
\* closed; timers and tickers fire.  Goroutines that start or stop have a bounded
\* number of steps left, so that fairness for all of them together is as good as
\* fairness for each.
FairSpec ==
  /\ Spec
  /\ WF_vars(Manage) /\ WF_vars(Restart)
  /\ WF_vars(\E r \in gs : (r.pc # "loop" \/ Closed(r)) /\ Work(r))
  /\ \A i \in Iface : WF_vars(\E r \in gs : r.iface = i /\ r.pc = "loop" /\ MeasureLatency(r))

------------------------------------------------------------------------------
(* Properties.                                                              *)

\* Every Worker ever made is registered with its channel open or has been
\* stopped: none is lost while its goroutines run, and none is closed twice,
\* whatever order interfaces vanish and return in.
OpenWorkersOwned ==
  \A i \in Iface : \A n \in 1..gen[i] :
    <<i, n>> \notin closed <=> workers[i] = n /\ SiteOf[i] # leaving

\* A goroutine whose Worker was stopped ends, wherever the stop finds it: before
\* its first look, asleep, measuring or in its select.  As interfaces change only
\* finitely often here, in the end none is left.
StoppedWorkersExit == <>[](\A r \in gs : ~Closed(r))

\* An interface that stays gets its latency measured in the end, although a
\* stopped predecessor on the same series may measure and remove it late.
ReportsInTheEnd ==
  \A i \in Iface :
    <>[](i \in up /\ mpc # "down") => <>[](series[i]["lat"] \in {"up", "failed"})
===============================================================================
