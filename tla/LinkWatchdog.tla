----------------------------- MODULE LinkWatchdog -----------------------------
(***************************************************************************)
(* The link watchdog (internal/watchdog/link.go): which of its WireGuard   *)
(* interfaces the daemon uses towards a remote site.                       *)
(*                                                                         *)
(* Its loop starts, in goroutines of their own,                            *)
(*   - manageLink on a ticker: for every remote, compare the interface of  *)
(*     the IPv4 route with the preferred one, and add or replace the IPv4  *)
(*     and then the IPv6 route;                                            *)
(*   - addLink for every interface a client announces over the socket or   *)
(*     HTTP; the loop then signals the measurement manager and the         *)
(*     RouteManager over unbuffered channels.                              *)
(* The goroutines take no lock; they meet in the kernel's routing table.   *)
(*                                                                         *)
(* A remote has at most two interfaces, the tunnels over IPv4 and IPv6,    *)
(* each of which carries both families.                                    *)
(***************************************************************************)
EXTENDS Integers, FiniteSets

CONSTANTS
  Remote,       \* IDs of the remote sites
  Link,         \* interfaces that may exist: wgLOCAL.REMOTE_vVERSION parses
  Check,        \* the goroutine of manageLink; bound: one at a time
  Adders,       \* goroutines of addLink; bound: their number
  MaxFaults,    \* bound: failing calls and restarts
  MaxChanges    \* bound: changes of links and of preferences

None == -1      \* no version, no remote

Versions == {4, 6}

ASSUME LinkWatchdogAssumption ==
  /\ Remote \subseteq Nat
  /\ Link \subseteq Remote \X Versions
  /\ Check \notin Adders
  /\ MaxFaults \in Nat /\ MaxChanges \in Nat

Jobs == Adders \cup {Check}
Readers == {"measure", "rt"}

VARIABLES
  links,     \* the interfaces there are
  best,      \* remote -> the version GetPreferredPath finds, None: ErrNoPaths
  route4,    \* remote -> version of the interface of its IPv4 route, or None
  route6,    \* the same for IPv6
  lpc,       \* the loop: "select", or blocked sending to "measure" or to "rt"
  serving,   \* readers that still read: RouteManager.Start may give up
  jpc,       \* job -> step
  seen,      \* interfaces of the remotes manageLink has still to look at
  cur,       \* job -> the remote it works on
  tgt,       \* job -> the version it decided on
  lost,      \* jobs whose link went away after LinkByName
  started,   \* linkWatchdog.started
  faults,    \* failures left
  changes,   \* changes left
  halved     \* history: did the second of two route calls ever fail, or an
             \* interface of the remote vanish between the two?

loopVars == <<lpc, serving>>
kernelVars == <<links, route4, route6>>
jobVars == <<jpc, seen, cur, tgt, lost, started>>
vars == <<kernelVars, best, loopVars, jobVars, faults, changes, halved>>

Steps == {"idle", "next", "query", "compare", "add4", "add6", "change4", "change6"}

\* A job knows its remote before it compares or calls, and then its version.
Decided ==
  \A j \in Jobs :
    /\ jpc[j] \notin {"idle", "next"} => cur[j] \in Remote
    /\ jpc[j] \notin {"idle", "next", "query"} => tgt[j] \in Versions

TypeOK ==
  /\ links \subseteq Link
  /\ best \in [Remote -> Versions \cup {None}]
  /\ route4 \in [Remote -> Versions \cup {None}]
  /\ route6 \in [Remote -> Versions \cup {None}]
  /\ lpc \in {"select", "measure", "rt"}
  /\ serving \subseteq Readers
  /\ jpc \in [Jobs -> Steps]
  /\ seen \subseteq Link
  /\ cur \in [Jobs -> Remote \cup {None}]
  /\ tgt \in [Jobs -> Versions \cup {None}]
  /\ lost \subseteq Jobs
  /\ started \in BOOLEAN
  /\ faults \in 0..MaxFaults
  /\ changes \in 0..MaxChanges
  /\ halved \in BOOLEAN
  /\ Decided

\* The measurement manager reads for ever.  RouteManager.Start may return an
\* error (route.go:82-99), which main() only logs; then nobody reads.
Serving == {Readers, {"measure"}}

Init ==
  /\ links \in SUBSET Link
  /\ best \in [Remote -> Versions \cup {None}]
  /\ route4 = [r \in Remote |-> None]
  /\ route6 = [r \in Remote |-> None]
  /\ lpc = "select" /\ serving \in Serving
  /\ jpc = [j \in Jobs |-> "idle"]
  /\ seen = {}
  /\ cur = [j \in Jobs |-> None]
  /\ tgt = [j \in Jobs |-> None]
  /\ lost = {}
  /\ started = FALSE
  /\ faults = MaxFaults
  /\ changes = MaxChanges
  /\ halved = FALSE

Fault == faults > 0 /\ faults' = faults - 1
NoFault == UNCHANGED faults
Change == changes > 0 /\ changes' = changes - 1

Goto(j, l) == jpc' = [jpc EXCEPT ![j] = l]

------------------------------------------------------------------------------
(* Clients, and the loop (Start).                                           *)

\* A client of the socket (WGADD) or of HTTP (GET /wg) announces a link and gets
\* its OK: the loop takes it and starts addLink.  A client the loop does not take
\* within five seconds changes nothing.
Accept(r, a) ==
  /\ lpc = "select"
  /\ jpc[a] = "idle"
  /\ Goto(a, "query")
  /\ cur' = [cur EXCEPT ![a] = r]
  /\ lpc' = "measure"
  /\ UNCHANGED <<kernelVars, best, serving, seen, tgt, lost, started, faults, changes,
                 halved>>

\* The loop's two sends, each of which waits for its reader, for ever if there is
\* none.  manageLink sends nothing: it never sets its result "updated".
Signal(x) ==
  /\ lpc = x
  /\ x \in serving
  /\ lpc' = IF x = "measure" THEN "rt" ELSE "select"
  /\ UNCHANGED <<kernelVars, serving, best, jobVars, faults, changes, halved>>

\* Every interface whose name parses.
GetAllWGInterfaces == NoFault /\ seen' = links

\* The ticker: manageLink lists the interfaces, or fails to.
Tick ==
  /\ lpc = "select"
  /\ jpc[Check] = "idle"
  /\ \/ /\ GetAllWGInterfaces
        /\ Goto(Check, IF links = {} THEN "idle" ELSE "next")
     \/ Fault /\ UNCHANGED <<seen, jpc>>
  /\ UNCHANGED <<kernelVars, best, loopVars, cur, tgt, lost, started, changes, halved>>

------------------------------------------------------------------------------
(* manageLink and addLink: which version.                                   *)

\* A job returns, with or without an error: manageLink leaves the remotes it has
\* not looked at.
Return(j) ==
  /\ Goto(j, "idle")
  /\ cur' = [cur EXCEPT ![j] = None]
  /\ tgt' = [tgt EXCEPT ![j] = None]
  /\ lost' = lost \ {j}
  /\ seen' = IF j = Check THEN {} ELSE seen

\* One remote is done: manageLink goes on to the next, if there is one.
Done(j) ==
  /\ Goto(j, IF j = Check /\ seen # {} THEN "next" ELSE "idle")
  /\ cur' = [cur EXCEPT ![j] = None]
  /\ tgt' = [tgt EXCEPT ![j] = None]
  /\ lost' = lost \ {j}
  /\ UNCHANGED seen

VersionsOf(r) == {v \in Versions : <<r, v>> \in seen}

\* The next remote of the map, in any order: a lone interface needs no query.
PickRemote(r) ==
  /\ jpc[Check] = "next"
  /\ VersionsOf(r) # {}
  /\ seen' = seen \ ({r} \X Versions)
  /\ cur' = [cur EXCEPT ![Check] = r]
  /\ \/ /\ VersionsOf(r) = Versions
        /\ Goto(Check, "query")
        /\ UNCHANGED tgt
     \/ \E v \in Versions :
          /\ VersionsOf(r) = {v}
          /\ Goto(Check, "compare")
          /\ tgt' = [tgt EXCEPT ![Check] = v]
  /\ UNCHANGED <<kernelVars, best, loopVars, lost, started, faults, changes, halved>>

\* What manageLink makes of an answer: no paths, or a call that times out, mean
\* IPv4, and so does any answer the first time.
Assumed(v) == IF v = None \/ ~started THEN 4 ELSE v

\* Mutant of ManageQuery: started is never set.
ManageQueryNeverStarted ==
  /\ jpc[Check] = "query"
  /\ NoFault
  /\ tgt' = [tgt EXCEPT ![Check] = Assumed(best[cur[Check]])]
  /\ Goto(Check, "compare")
  /\ UNCHANGED <<kernelVars, best, loopVars, seen, cur, lost, started, changes, halved>>

ManageQuery ==
  /\ jpc[Check] = "query"
  /\ \/ /\ \/ NoFault /\ tgt' = [tgt EXCEPT ![Check] = Assumed(best[cur[Check]])]
           \/ Fault /\ tgt' = [tgt EXCEPT ![Check] = Assumed(None)]
        /\ started' = TRUE
        /\ Goto(Check, "compare")
        /\ UNCHANGED <<seen, cur, lost>>
     \/ Fault /\ Return(Check) /\ UNCHANGED started
  /\ UNCHANGED <<kernelVars, best, loopVars, changes, halved>>

\* Mutant of AddQuery: the empty version is not noticed.
AddQueryUnchecked(a) ==
  /\ jpc[a] = "query"
  /\ \/ /\ NoFault
        /\ tgt' = [tgt EXCEPT ![a] = best[cur[a]]]
        /\ Goto(a, "add4")
        /\ UNCHANGED <<seen, cur, lost>>
     \/ Fault /\ Return(a)
  /\ UNCHANGED <<kernelVars, best, loopVars, started, changes, halved>>

\* addLink, addRoutes: the empty version of a failed query makes a name that does
\* not parse.
AddQuery(a) ==
  /\ jpc[a] = "query"
  /\ \/ /\ NoFault
        /\ best[cur[a]] # None
        /\ tgt' = [tgt EXCEPT ![a] = best[cur[a]]]
        /\ Goto(a, "add4")
        /\ UNCHANGED <<seen, cur, lost>>
     \/ NoFault /\ best[cur[a]] = None /\ Return(a)
     \/ Fault /\ Return(a)
  /\ UNCHANGED <<kernelVars, best, loopVars, started, changes, halved>>

\* GetOutgoingWGInterface looks at the IPv4 route only, and answers "" if it
\* cannot read the table.
Compare ==
  /\ jpc[Check] = "compare"
  /\ LET used == route4[cur[Check]] IN
     \/ used = None /\ NoFault /\ Goto(Check, "add4") /\ UNCHANGED <<seen, cur, tgt, lost>>
     \/ Fault /\ Goto(Check, "add4") /\ UNCHANGED <<seen, cur, tgt, lost>>
     \/ /\ used \notin {None, tgt[Check]} /\ NoFault
        /\ Goto(Check, "change4") /\ UNCHANGED <<seen, cur, tgt, lost>>
     \/ used = tgt[Check] /\ NoFault /\ Done(Check)
  /\ UNCHANGED <<kernelVars, best, loopVars, started, changes, halved>>

------------------------------------------------------------------------------
(* addWGLinkRoutes and changeWGLinkRoutes: LinkByName and the IPv4 route,    *)
(* then the IPv6 route.                                                     *)

\* A job that has done the first call and not the second.
Between(j) == jpc[j] \in {"add6", "change6"}

LinkByName(j) == <<cur[j], tgt[j]>> \in links

Install4(j, next) ==
  /\ route4' = [route4 EXCEPT ![cur[j]] = tgt[j]]
  /\ Goto(j, next)
  /\ UNCHANGED <<links, route6, seen, cur, tgt, lost>>

Install6(j) ==
  /\ route6' = [route6 EXCEPT ![cur[j]] = tgt[j]]
  /\ Done(j)
  /\ UNCHANGED <<links, route4>>

GiveUp(j) == Return(j) /\ UNCHANGED kernelVars

\* Mutant of Add4: the IPv4 route is replaced, the IPv6 route only added.
Add4Replacing(j) ==
  /\ jpc[j] = "add4"
  /\ \/ NoFault /\ LinkByName(j) /\ Install4(j, "add6")
     \/ NoFault /\ ~LinkByName(j) /\ GiveUp(j)
  /\ UNCHANGED <<best, loopVars, started, changes, halved>>

\* RouteAdd fails if there is a route.
Add4(j) ==
  /\ jpc[j] = "add4"
  /\ \/ NoFault /\ LinkByName(j) /\ route4[cur[j]] = None /\ Install4(j, "add6")
     \/ NoFault /\ (~LinkByName(j) \/ route4[cur[j]] # None) /\ GiveUp(j)
     \/ Fault /\ GiveUp(j)
  /\ UNCHANGED <<best, loopVars, started, changes, halved>>

Add6(j) ==
  /\ jpc[j] = "add6"
  /\ \/ /\ NoFault /\ j \notin lost /\ route6[cur[j]] = None
        /\ Install6(j) /\ UNCHANGED halved
     \/ /\ NoFault /\ (j \in lost \/ route6[cur[j]] # None)
        /\ GiveUp(j) /\ UNCHANGED halved
     \/ Fault /\ GiveUp(j) /\ halved' = TRUE
  /\ UNCHANGED <<best, loopVars, started, changes>>

\* RouteReplace.
Change4(j) ==
  /\ jpc[j] = "change4"
  /\ \/ NoFault /\ LinkByName(j) /\ Install4(j, "change6")
     \/ NoFault /\ ~LinkByName(j) /\ GiveUp(j)
     \/ Fault /\ GiveUp(j)
  /\ UNCHANGED <<best, loopVars, started, changes, halved>>

Change6(j) ==
  /\ jpc[j] = "change6"
  /\ \/ NoFault /\ j \notin lost /\ Install6(j) /\ UNCHANGED halved
     \/ NoFault /\ j \in lost /\ GiveUp(j) /\ halved' = TRUE
     \/ Fault /\ GiveUp(j) /\ halved' = TRUE
  /\ UNCHANGED <<best, loopVars, started, changes>>

------------------------------------------------------------------------------
(* The kernel, the measurements and restarts.                               *)

LinkUp(l) ==
  /\ Change
  /\ l \notin links
  /\ links' = links \cup {l}
  /\ UNCHANGED <<route4, route6, best, loopVars, jobVars, faults, halved>>

\* The routes of an interface go with it; if it comes back it has a new index.
Without(route, l) == [route EXCEPT ![l[1]] = IF @ = l[2] THEN None ELSE @]

LinkDown(l) ==
  /\ Change
  /\ l \in links
  /\ links' = links \ {l}
  /\ route4' = Without(route4, l)
  /\ route6' = Without(route6, l)
  /\ lost' = lost \cup {j \in Jobs : Between(j) /\ cur[j] = l[1] /\ tgt[j] = l[2]}
  /\ halved' = (halved \/ \E j \in Jobs : Between(j) /\ cur[j] = l[1])
  /\ UNCHANGED <<best, loopVars, jpc, seen, cur, tgt, started, faults>>

Prefer(r, v) ==
  /\ Change
  /\ best[r] # v
  /\ best' = [best EXCEPT ![r] = v]
  /\ UNCHANGED <<kernelVars, loopVars, jobVars, faults, halved>>

Restart ==
  /\ Fault
  /\ lpc' = "select" /\ serving' \in Serving
  /\ jpc' = [j \in Jobs |-> "idle"]
  /\ seen' = {}
  /\ cur' = [j \in Jobs |-> None]
  /\ tgt' = [j \in Jobs |-> None]
  /\ lost' = {}
  /\ started' = FALSE
  /\ halved' = (halved \/ \E j \in Jobs : Between(j))
  /\ UNCHANGED <<kernelVars, best, changes>>

RouteCall(j) == Add4(j) \/ Add6(j) \/ Change4(j) \/ Change6(j)

ManageLink ==
  \/ \E r \in Remote : PickRemote(r)
  \/ ManageQuery \/ Compare \/ RouteCall(Check)

AddLink(a) == AddQuery(a) \/ RouteCall(a)

Next ==
  \/ \E r \in Remote, a \in Adders : Accept(r, a)
  \/ \E x \in Readers : Signal(x)
  \/ Tick
  \/ ManageLink
  \/ \E a \in Adders : AddLink(a)
  \/ \E l \in Link : LinkUp(l) \/ LinkDown(l)
  \/ \E r \in Remote, v \in Versions \cup {None} : Prefer(r, v)
  \/ Restart

Spec == Init /\ [][Next]_vars

\* Goroutines run, a reader that still reads takes what is sent to it in the end
\* (RouteSync's SignalServed shows it of the RouteManager), and the select, which
\* picks at random, chooses a ticker that is due in the end.
Fairness ==
  /\ WF_vars(ManageLink)
  /\ \A a \in Adders : WF_vars(AddLink(a))
  /\ SF_vars(Tick)
  /\ \A x \in Readers : WF_vars(Signal(x))

FairSpec == Spec /\ Fairness

------------------------------------------------------------------------------
(* Properties.                                                              *)

\* Both families use the same interface: goroutines that add and replace the
\* same routes without a lock (link.go:42, 53) and additions that find a route
\* in place never leave the IPv6 route of a remote on another interface than
\* the IPv4 route.  Only a second call that fails, or an interface that vanishes
\* between the two calls, does.
FamiliesAgree ==
  halved \/ \A r \in Remote :
    route4[r] = route6[r] \/ \E j \in Jobs : Between(j) /\ cur[j] = r

\* The interface a remote should be reached over.
Wanted(r) ==
  LET vs == {v \in Versions : <<r, v>> \in links}
  IN IF vs = Versions THEN {IF best[r] = None THEN 4 ELSE best[r]} ELSE vs

\* The loop waits for a reader that is gone: main() goes on without a
\* RouteManager, and the first announced link stops the loop (link.go:63).
LoopHangs == lpc = "rt" /\ "rt" \notin serving

\* Whatever failed, vanished or was announced before, the IPv4 route of every
\* remote ends up on the preferred interface and stays there, although
\* manageLink stops at its first error and other goroutines add routes
\* meanwhile (link.go:71), unless the loop hangs for ever.
RoutesFollowBest ==
  \/ <>[](\A r \in Remote : Wanted(r) # {} => route4[r] \in Wanted(r))
  \/ <>[]LoopHangs
=============================================================================
