--------------------------- MODULE RouteDistribution ---------------------------
(***************************************************************************)
(* How a plan of the centralised router reaches the mesh                   *)
(* (internal/route/centralised.go).  Every daemon runs the router's loop;  *)
(* on its ticker, or once from its fast-start timer, the daemon that is    *)
(* the Raft leader and healthy measures a plan (Refresh) and sends each    *)
(* site of the plan its row by RPC (Distribute), one after the other in    *)
(* the order of a Go map, up to the first error.                           *)
(*                                                                         *)
(* Leadership is checked before a Refresh that takes many seconds and      *)
(* never again, so a deposed leader distributes beside the new one.  RPCs  *)
(* fail or lose their answer, sites crash and come back empty.             *)
(*                                                                         *)
(* How a plan is computed is RoutePlan's matter, how a site takes in a row *)
(* SitePlan's: here a site is the PlanCell that SitePlan implements.       *)
(***************************************************************************)
EXTENDS Mesh, FiniteSets

CONSTANTS
  Candidates,   \* sites Raft may elect
  Plans,        \* plans Refresh may compute: rows for some of the sites
  Attempts,     \* flag router.fast-start-attempts
  MaxFaults,    \* bound: failing calls and crashes
  MaxChanges    \* bound: changes of the leader and of the measured plan

Off == -1       \* a stopped fast-start timer

\* The next hops a site without a row looks up: missing keys read 0.
Nothing == [d \in Site |-> 0]

Members(p) == DOMAIN p

\* The sites whose packets for d arrive when each forwards by its row.
Reaching(rows, d) ==
  LET within[n \in 0..Cardinality(Site)] ==
        IF n = 0 THEN {d}
        ELSE within[n - 1] \cup {s \in DOMAIN rows : rows[s][d] \in within[n - 1]}
  IN within[Cardinality(Site)]

\* checkForLoops lets only plans without loops out of Refresh: rows for the
\* measured sites, in which keys may be missing, by which they all reach each
\* other.
Distributable(p) ==
  /\ p \in UNION {[M -> [Site -> Site \cup {0}]] : M \in SUBSET Site}
  /\ \A d \in Members(p) : Members(p) \subseteq Reaching(p, d)

ASSUME RouteDistributionAssumption ==
  /\ Site \subseteq Nat /\ IsFiniteSet(Site)
  /\ Candidates \subseteq Site
  /\ \A p \in Plans : Distributable(p)
  /\ Attempts \in Nat /\ MaxFaults \in Nat /\ MaxChanges \in Nat

VARIABLES
  leader,    \* the site whose Leader() holds, or None
  mesh,      \* the plan a refresh would measure now
  up,        \* sites whose daemon runs
  table,     \* site -> its row
  fresh,     \* site -> was the row renewed within three intervals?
  pc,        \* router loop of a candidate: "loop", "refresh", "send"
  plan,      \* candidate -> the plan it distributes, or None
  todo,      \* candidate -> sites it has not sent their row yet
  fast,      \* candidate -> fast-start attempts left, or Off
  faults,    \* failures left
  changes,   \* changes left
  alone,     \* history: candidates during whose distribution nobody else
             \* changed a row
  settled    \* history: the plan that a distribution completed alone, if no
             \* row was sent or lost since; else None

siteVars == <<table, fresh>>
loopVars == <<pc, plan, todo, fast>>
vars == <<leader, mesh, up, siteVars, loopVars, faults, changes, alone, settled>>

NoPlan == <<>>
RowsOf(p) == {p[s] : s \in Members(p)}
Row == UNION {RowsOf(p) : p \in Plans}

TypeOK ==
  /\ leader \in Candidates \cup {None}
  /\ mesh \in Plans
  /\ up \subseteq Site
  /\ table \in [Site -> Row \cup {Nothing}]
  /\ fresh \in [Site -> BOOLEAN]
  /\ pc \in [Candidates -> {"loop", "refresh", "send"}]
  /\ plan \in [Candidates -> Plans \cup {NoPlan}]
  /\ todo \in [Candidates -> SUBSET Site]
  /\ fast \in [Candidates -> 0..Attempts \cup {Off}]
  /\ faults \in 0..MaxFaults
  /\ changes \in 0..MaxChanges
  /\ alone \subseteq Candidates
  /\ settled \in Plans \cup {NoPlan}

Init ==
  /\ leader = None
  /\ mesh \in Plans
  /\ up = Site
  /\ table = [s \in Site |-> Nothing]
  /\ fresh = [s \in Site |-> FALSE]
  /\ pc = [s \in Candidates |-> "loop"]
  /\ plan = [s \in Candidates |-> NoPlan]
  /\ todo = [s \in Candidates |-> {}]
  /\ fast = [s \in Candidates |-> Attempts]
  /\ faults = MaxFaults
  /\ changes = MaxChanges
  /\ alone = {}
  /\ settled = NoPlan

Fault == faults > 0 /\ faults' = faults - 1
Change == changes > 0 /\ changes' = changes - 1

Goto(s, l) == pc' = [pc EXCEPT ![s] = l]

------------------------------------------------------------------------------
(* The router's loop (run).                                                 *)

\* IsClusterHealthy says no: always possible where another site leads or none,
\* which this site may have lost contact with; a failure where this site leads.
\* That it says yes is always possible: a follower notices late.
Unhealthy(s) == (leader # s /\ UNCHANGED faults) \/ Fault

\* routine: a refresh, if this site is the leader and healthy.
Routine(s) ==
  \/ leader = s /\ Goto(s, "refresh") /\ UNCHANGED faults
  \/ Unhealthy(s) /\ UNCHANGED pc

\* Mutant of Tick: a leader whose own row is fresh does not refresh.
TickWhenStale(s) ==
  /\ s \in up
  /\ pc[s] = "loop"
  /\ IF fresh[s] THEN UNCHANGED <<pc, faults>> ELSE Routine(s)
  /\ UNCHANGED <<leader, mesh, up, siteVars, plan, todo, fast, changes, alone,
                 settled>>

Tick(s) ==
  /\ s \in up
  /\ pc[s] = "loop"
  /\ Routine(s)
  /\ UNCHANGED <<leader, mesh, up, siteVars, plan, todo, fast, changes, alone,
                 settled>>

\* Mutant of FastStart: an attempt counts up.
FastStartUp(s) ==
  /\ s \in up
  /\ pc[s] = "loop"
  /\ fast[s] # Off
  /\ fast' = [fast EXCEPT ![s] = @ + 1]
  /\ Unhealthy(s) /\ UNCHANGED pc
  /\ UNCHANGED <<leader, mesh, up, siteVars, plan, todo, changes, alone, settled>>

\* The fast-start timer fires: without attempts it stops; with a healthy
\* cluster it runs the routine and stops; else it is set again.
FastStart(s) ==
  /\ s \in up
  /\ pc[s] = "loop"
  /\ fast[s] # Off
  /\ \/ /\ fast[s] = 0
        /\ fast' = [fast EXCEPT ![s] = Off]
        /\ UNCHANGED <<pc, faults>>
     \/ /\ fast[s] > 0
        /\ fast' = [fast EXCEPT ![s] = Off]
        /\ Routine(s)
     \/ /\ fast[s] > 0
        /\ fast' = [fast EXCEPT ![s] = @ - 1]
        /\ Unhealthy(s) /\ UNCHANGED pc
  /\ UNCHANGED <<leader, mesh, up, siteVars, plan, todo, changes, alone, settled>>

\* Refresh measures a plan and begins to distribute it, or returns an error.
Refresh(s) ==
  /\ s \in up
  /\ pc[s] = "refresh"
  /\ \/ /\ Goto(s, "send")
        /\ plan' = [plan EXCEPT ![s] = mesh]
        /\ todo' = [todo EXCEPT ![s] = Members(mesh)]
        /\ alone' = alone \cup {s}
        /\ UNCHANGED faults
     \/ /\ Fault
        /\ Goto(s, "loop")
        /\ UNCHANGED <<plan, todo, alone>>
  /\ UNCHANGED <<leader, mesh, up, siteVars, fast, changes, settled>>

\* Mutant of Deliver: every site gets the leader's own row.
DeliverOwnRow(s, t) ==
  /\ table' = [table EXCEPT ![t] = plan[s][s]]
  /\ fresh' = [fresh EXCEPT ![t] = TRUE]
  /\ settled' = NoPlan

\* The handler of UpdateRoute at t: SitePlan's Adopt.
Deliver(s, t) ==
  /\ table' = [table EXCEPT ![t] = plan[s][t]]
  /\ fresh' = [fresh EXCEPT ![t] = TRUE]
  /\ settled' = NoPlan

\* Distribute, one site: the RPC returns.
Send(s, t) ==
  /\ s \in up
  /\ pc[s] = "send"
  /\ t \in todo[s] \cap up
  /\ Deliver(s, t)
  /\ alone' = alone \cap {s}
  /\ todo' = [todo EXCEPT ![s] = @ \ {t}]
  /\ UNCHANGED <<leader, mesh, up, pc, plan, fast, faults, changes>>

\* Distribute returns, with or without an error.
Stop(s) ==
  /\ Goto(s, "loop")
  /\ plan' = [plan EXCEPT ![s] = NoPlan]
  /\ todo' = [todo EXCEPT ![s] = {}]

\* Mutant of SendFails: a site that fails is skipped.
SendFailsOn(s, t) ==
  /\ s \in up
  /\ pc[s] = "send"
  /\ t \in todo[s]
  /\ t \in up => Fault
  /\ t \notin up => UNCHANGED faults
  /\ todo' = [todo EXCEPT ![s] = @ \ {t}]
  /\ UNCHANGED <<leader, mesh, up, siteVars, pc, plan, fast, changes, alone, settled>>

\* Distribute, one site: the RPC fails, because the site is down, or because
\* the deadline of the whole refresh has passed, perhaps after the handler has
\* taken over the row and while it waits for the RouteManager.  The rest of the
\* sites get nothing.
SendFails(s, t) ==
  /\ s \in up
  /\ pc[s] = "send"
  /\ t \in todo[s]
  /\ \/ t \notin up /\ UNCHANGED <<faults, siteVars, settled>> /\ alone' = alone \ {s}
     \/ t \in up /\ Fault /\ UNCHANGED <<siteVars, settled>> /\ alone' = alone \ {s}
     \/ t \in up /\ Fault /\ Deliver(s, t) /\ alone' = {}
  /\ Stop(s)
  /\ UNCHANGED <<leader, mesh, up, fast, changes>>

Distributed(s) ==
  /\ s \in up
  /\ pc[s] = "send"
  /\ todo[s] = {}
  /\ Stop(s)
  /\ alone' = alone \ {s}
  /\ settled' = IF s \in alone THEN plan[s] ELSE settled
  /\ UNCHANGED <<leader, mesh, up, siteVars, fast, faults, changes>>

------------------------------------------------------------------------------
(* Environment: Raft, the network's latencies, crashes and time.            *)

LeaderChange ==
  /\ Change
  /\ leader' \in ((Candidates \cap up) \cup {None}) \ {leader}
  /\ UNCHANGED <<mesh, up, siteVars, loopVars, faults, alone, settled>>

MeshChange ==
  /\ Change
  /\ mesh' \in Plans \ {mesh}
  /\ UNCHANGED <<leader, up, siteVars, loopVars, faults, alone, settled>>

\* A daemon stops; another may be elected later.
Crash(s) ==
  /\ s \in up
  /\ Fault
  /\ up' = up \ {s}
  /\ leader' = IF leader = s THEN None ELSE leader
  /\ table' = [table EXCEPT ![s] = Nothing]
  /\ fresh' = [fresh EXCEPT ![s] = FALSE]
  /\ IF s \in Candidates
     THEN /\ Stop(s)
          /\ fast' = [fast EXCEPT ![s] = Attempts]
     ELSE UNCHANGED loopVars
  /\ alone' = {}
  /\ settled' = NoPlan
  /\ UNCHANGED <<mesh, changes>>

Restart(s) ==
  /\ s \notin up
  /\ up' = up \cup {s}
  /\ UNCHANGED <<leader, mesh, siteVars, loopVars, faults, changes, alone, settled>>

\* Three intervals pass at t without an update.
Expire(t) ==
  /\ fresh[t]
  /\ fresh' = [fresh EXCEPT ![t] = FALSE]
  /\ UNCHANGED <<leader, mesh, up, table, loopVars, faults, changes, alone, settled>>

LoopStep(s) ==
  \/ Tick(s) \/ FastStart(s) \/ Refresh(s) \/ Distributed(s)
  \/ \E t \in Site : Send(s, t) \/ SendFails(s, t)

Next ==
  \/ \E s \in Candidates : LoopStep(s)
  \/ LeaderChange \/ MeshChange
  \/ \E s \in Site : Crash(s) \/ Restart(s) \/ Expire(s)

Spec == Init /\ [][Next]_vars

\* The loops run, an RPC to a running site returns in the end, and a stopped
\* daemon is started again by its service manager.
FairSpec ==
  /\ Spec
  /\ \A s \in Candidates : WF_vars(LoopStep(s))
  /\ WF_vars(\E s \in Site : Restart(s))

------------------------------------------------------------------------------
(* Properties.                                                              *)

\* Packets loop between sites only while a plan is on its way: once a
\* distribution went through without an error (centralised.go:296) and no other
\* leader sent a row beside it, every member reaches every member by the rows
\* the sites hold, however leaders, failures and crashes mixed plans before.
NoLoopOnceSettled ==
  settled # NoPlan =>
    \A d \in Members(settled) :
      Members(settled) \subseteq Reaching([s \in Members(settled) |-> table[s]], d)

\* A leader that stays in office brings every site of the measured plan to that
\* plan, although deposed leaders still distribute after they lost office
\* (leadership is checked once, centralised.go:78) and a distribution stops at
\* the first site that fails.
StableLeaderConverges ==
  \A l \in Candidates :
    <>[](leader = l) => <>[](\A s \in Members(mesh) : table[s] = mesh[s])

Cell(s) ==
  INSTANCE PlanCell WITH
    Row     <- {p[s] : p \in {q \in Plans : s \in Members(q)}},
    Nothing <- Nothing,
    row     <- table[s],
    fresh   <- fresh[s]

\* Each site, by itself, is the cell that SitePlan implements: it holds a row
\* some leader computed for it, whoever sent it last.
SitesAreCells ==
  /\ \A s \in Site : Cell(s)!Init
  /\ [][\A s \in Site : [Cell(s)!Next]_(Cell(s)!cellVars)]_siteVars
=============================================================================
