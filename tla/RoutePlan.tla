------------------------------- MODULE RoutePlan -------------------------------
(***************************************************************************)
(* CentralisedRouter.Refresh (internal/route/centralised.go): the mesh     *)
(* leader computes next hops for every pair of sites.  Pair by pair, in    *)
(* the random order of Go maps, it measures the round trips made of one of *)
(* the best forward and one of the best return paths, and installs the     *)
(* hops of the fastest one that does not contradict hops already there.    *)
(* checkForLoops has the last word before the plan is distributed.         *)
(*                                                                         *)
(* Latencies are arbitrary, so the ranking is any order.  With at most     *)
(* four sites a pair has at most five simple paths, so the top five are    *)
(* all of them, or fewer if another goroutine of this daemon refreshes the *)
(* graph meanwhile.  That goroutine is assumed to find the same links.     *)
(***************************************************************************)
EXTENDS Mesh, Sequences, FiniteSets

CONSTANT
  Measured   \* sets of links (pairs of sites) GetAllPaths may answer with

ASSUME RoutePlanAssumption ==
  /\ Site \subseteq Nat /\ IsFiniteSet(Site)
  /\ Cardinality(Site) \in 2..4
  /\ \A ls \in Measured : ls # {} /\ ls \subseteq Site \X Site

Blank == [s \in Site |-> [t \in Site |-> None]]

VARIABLES
  refresh,  \* "idle", "outer", "inner" (the two loops), "select", "check",
            \* "distribute"
  links,    \* the measured links of this refresh
  sites,    \* the next hops chosen so far
  srcs,     \* sites left in the outer loop
  site,     \* its current site
  targets,  \* targets left in the inner loop
  target,   \* its current target
  results   \* measured round trips not yet tried

refreshVars == <<refresh, links, sites, srcs, site, targets, target, results>>

RoundTrips == Seq(Site)

RefreshTypeOK ==
  /\ refresh \in {"idle", "outer", "inner", "select", "check", "distribute"}
  /\ links \in Measured \cup {{}}
  /\ sites \in [Site -> [Site -> Site \cup {None}]]
  /\ srcs \subseteq Site /\ site \in Site \cup {None}
  /\ targets \subseteq Site /\ target \in Site \cup {None}
  /\ results \in SUBSET RoundTrips

Reset ==
  /\ links' = {} /\ sites' = Blank
  /\ srcs' = {} /\ site' = None
  /\ targets' = {} /\ target' = None
  /\ results' = {}

RefreshInit ==
  /\ refresh = "idle"
  /\ links = {} /\ sites = Blank
  /\ srcs = {} /\ site = None
  /\ targets = {} /\ target = None
  /\ results = {}

Advance(l) == refresh' = l

\* Mutant of Active: site IDs counted from one.
ActiveShifted(ls) == {l[1] - 1 : l \in ls} \cup {l[2] - 1 : l \in ls}

\* The sites that are an end of a measured link.
Active(ls) == {l[1] : l \in ls} \cup {l[2] : l \in ls}

\* Refresh with a graph and its weights, or an error that changes nothing.
MeasureGraph ==
  /\ refresh = "idle"
  /\ Advance("outer")
  /\ links' \in Measured
  /\ srcs' = Active(links')
  /\ UNCHANGED <<sites, site, targets, target, results>>

\* Refresh returns an error and the plan is dropped.
Fail == Advance("idle") /\ Reset

NextSite(s) ==
  /\ refresh = "outer"
  /\ s \in srcs
  /\ Advance("inner")
  /\ srcs' = srcs \ {s}
  /\ site' = s
  /\ targets' = Active(links)
  /\ UNCHANGED <<links, sites, target, results>>

\* The simple paths.
PathsBy ==
  [ls \in Measured |-> [ends \in Site \X Site |->
     {p \in UNION {[1..k -> Site] : k \in 2..Cardinality(Site)} :
        /\ p[1] = ends[1] /\ p[Len(p)] = ends[2]
        /\ \A i, j \in 1..Len(p) : p[i] = p[j] => i = j
        /\ \A i \in 1..Len(p) - 1 : <<p[i], p[i + 1]>> \in ls}]]

\* What GetTopNShortestPaths may answer for topN = 5: it takes no lock, and the
\* RouteManager wipes and fills the matrix of the same graph when it refreshes it.
TopPaths(from, to) == SUBSET PathsBy[links][<<from, to>>]

\* append(p.Path, v.Path[1:]...): p was built by appending one node to a full
\* slice, which doubles the capacity, so a short enough v is written into the
\* spare room of p, shared by all goroutines that measure p with some v.
Fits(p, v) == Len(v) - 1 <= Len(p) - 2

\* What the spare room holds when x was written after y.
Overlay(x, y) == Tail(x) \o SubSeq(Tail(y), Len(x), Len(y) - 1)

\* After the last writer x, and the last one, y, that wrote beyond x (at most
\* two places with four sites).
Spare(p, vs) ==
  LET fits == {v \in vs : Fits(p, v)}
  IN IF fits = {} THEN {<<>>}
     ELSE {Overlay(x, y) : x \in fits, y \in {v \in fits : \A u \in fits : Len(u) <= Len(v)}}

FullPath(p, v, spare) ==
  IF Fits(p, v) THEN p \o SubSeq(spare, 1, Len(v) - 1) ELSE p \o Tail(v)

\* What is left of the round trips: any of them may fail to be measured, at
\* this site or by an RPC to the one the path starts at.
MeasurePathLatency(paths) == SUBSET paths

\* One pair: done already, the site itself, or measured in all combinations.
NextTarget(t) ==
  /\ refresh = "inner"
  /\ t \in targets
  /\ targets' = targets \ {t}
  /\ \/ /\ sites[site][t] # None
        /\ UNCHANGED <<refresh, links, sites, srcs, site, target, results>>
     \/ /\ sites[site][t] = None /\ site = t
        /\ sites' = [sites EXCEPT ![site][t] = site]
        /\ UNCHANGED <<refresh, links, srcs, site, target, results>>
     \/ /\ sites[site][t] = None /\ site # t
        /\ \E fPath \in TopPaths(site, t), rPath \in TopPaths(t, site) :
             \E spare \in [fPath -> UNION {Spare(p, rPath) : p \in fPath}] :
               /\ \A p \in fPath : spare[p] \in Spare(p, rPath)
               /\ results' \in MeasurePathLatency(
                    {FullPath(p, v, spare[p]) : p \in fPath, v \in rPath})
        /\ target' = t
        /\ Advance("select")
        /\ UNCHANGED <<links, sites, srcs, site>>

\* No path between the two, no measured round trip, or all of them skipped:
\* Refresh fails.
NoRoute == refresh = "select" /\ results = {} /\ Fail

\* The table columns the hops of a round trip go to: target on the way there,
\* site on the way back.  The last hop is never written (i < len(bestPath)-2).
Column(path, i) ==
  LET mid == CHOOSE k \in 1..Len(path) : path[k] = target /\ \A j \in 1..k - 1 : path[j] # target
  IN IF i < mid THEN target ELSE site

Contradicts(path, i) == sites[path[i]][Column(path, i)] \notin {None, path[i + 1]}

\* One iteration of selectionLoop: the hops before the first contradiction are
\* written and stay, also when the round trip is skipped.
Select(path) ==
  LET hops == 1..Len(path) - 2
      bad  == {i \in hops : Contradicts(path, i)}
      kept == {i \in hops : \A j \in bad : i < j}
  IN /\ refresh = "select"
     /\ path \in results
     /\ sites' = [s \in Site |-> [t \in Site |->
          IF \E i \in kept : path[i] = s /\ Column(path, i) = t
          THEN path[1 + CHOOSE i \in kept : path[i] = s /\ Column(path, i) = t]
          ELSE sites[s][t]]]
     /\ IF bad = {}
        THEN Advance("inner") /\ results' = {} /\ target' = None
        ELSE results' = results \ {path} /\ UNCHANGED <<refresh, target>>
     /\ UNCHANGED <<links, srcs, site, targets>>

InnerDone ==
  /\ refresh = "inner"
  /\ targets = {}
  /\ Advance(IF srcs = {} THEN "check" ELSE "outer")
  /\ site' = None
  /\ UNCHANGED <<links, sites, srcs, targets, target, results>>

\* The sites a packet for dst passes from via on; None after a missing hop.
Walk(plan, dst, via) ==
  LET node[k \in 0..Cardinality(Site) + 1] ==
        IF k = 0 THEN via
        ELSE IF node[k - 1] \in Site THEN plan[node[k - 1]][dst] ELSE None
  IN node

\* Mutant of LoopDetected: only the current site is remembered as visited.
LoopDetectedHere(plan) ==
  \E source, dst \in Site :
    LET node == Walk(plan, dst, plan[source][dst])
    IN /\ plan[source][dst] # dst
       /\ \E k \in 0..Cardinality(Site) :
            /\ node[k] \in Site
            /\ \A j \in 1..k : node[j] # dst
            /\ node[k + 1] = node[k]

\* checkForLoops: from via on, a hop back to a visited site before dst is met.
LoopDetected(plan) ==
  \E source, dst \in Site :
    LET node == Walk(plan, dst, plan[source][dst])
    IN /\ plan[source][dst] # dst
       /\ \E k \in 0..Cardinality(Site) :
            /\ \A j \in 0..k : node[j] \in Site
            /\ \A j \in 1..k : node[j] # dst
            /\ node[k + 1] \in {node[j] : j \in 0..k}

CheckForLoops ==
  /\ refresh = "check"
  /\ IF LoopDetected(sites)
     THEN Fail
     ELSE Advance("distribute") /\ UNCHANGED <<links, sites, srcs, site, targets, target, results>>

\* Refresh ends; an error of Distribute is only logged.
Distribute == refresh = "distribute" /\ Advance("idle") /\ Reset

RefreshNext ==
  \/ MeasureGraph
  \/ (\E s \in Site : NextSite(s)) \/ (\E t \in Site : NextTarget(t))
  \/ (\E path \in results : Select(path)) \/ NoRoute
  \/ InnerDone \/ CheckForLoops \/ Distribute

RefreshSpec == RefreshInit /\ [][RefreshNext]_refreshVars

------------------------------------------------------------------------------
(* Properties.                                                              *)

\* A plan that is distributed carries every packet to its destination, over
\* measured links only, although skipped round trips left some of their hops
\* in it and the hops of later ones were fitted around these.
PlanForwards ==
  refresh = "distribute" =>
    \A s, t \in Active(links) : s # t =>
      LET node == Walk(sites, t, s)
      IN \E k \in 1..Cardinality(Site) :
           /\ node[k] = t
           /\ \A j \in 0..k - 1 : <<node[j], node[j + 1]>> \in links
================================================================================
