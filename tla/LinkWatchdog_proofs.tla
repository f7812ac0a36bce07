------------------------- MODULE LinkWatchdog_proofs -------------------------
(***************************************************************************)
(* Proofs about the link watchdog, for any remotes, interfaces and number  *)
(* of addLink goroutines.                                                  *)
(*                                                                         *)
(* FamiliesAgree is not inductive: what matters is what a goroutine that   *)
(* has made its first call may find when it makes its second.  Kept says   *)
(* it: while manageLink replaces, the IPv4 route is the one it chose; else *)
(* a goroutine that is about to add the IPv6 route finds it missing only   *)
(* if the IPv4 route is still its own.                                     *)
(***************************************************************************)
EXTENDS LinkWatchdog, TLAPS

Adding(j, r) == jpc[j] = "add6" /\ cur[j] = r
Changing(r) == jpc[Check] = "change6" /\ cur[Check] = r

Kept(r) ==
  IF Changing(r)
  THEN route4[r] = tgt[Check]
  ELSE /\ route6[r] # None => route4[r] = route6[r]
       /\ \A j \in Jobs : Adding(j, r) /\ route6[r] = None => route4[r] = tgt[j]
       /\ (\A j \in Jobs : ~Adding(j, r)) => route4[r] = route6[r]

AddersOnlyAdd == \A a \in Adders : jpc[a] \notin {"change4", "change6"}

LostMeansHalved == halved \/ lost = {}

IInv ==
  /\ TypeOK
  /\ AddersOnlyAdd
  /\ LostMeansHalved
  /\ halved \/ \A r \in Remote : Kept(r)

USE DEF None

LEMMA InitIInv == Init => IInv
<1> SUFFICES ASSUME Init PROVE IInv
  OBVIOUS
<1>1. Decided
  BY DEF Init, Decided
<1>5. faults \in 0..MaxFaults /\ changes \in 0..MaxChanges
  BY LinkWatchdogAssumption DEF Init
<1>6. jpc \in [Jobs -> Steps]
  BY DEF Init, Steps
<1>7. /\ cur \in [Jobs -> Remote \cup {None}]
      /\ tgt \in [Jobs -> Versions \cup {None}]
      /\ route4 \in [Remote -> Versions \cup {None}]
      /\ route6 \in [Remote -> Versions \cup {None}]
  BY DEF Init
<1>8. serving \subseteq Readers
  BY DEF Init, Serving, Readers
<1>4. TypeOK
  BY <1>1, <1>5, <1>6, <1>7, <1>8 DEF Init, TypeOK
<1>2. AddersOnlyAdd /\ LostMeansHalved
  BY DEF Init, AddersOnlyAdd, LostMeansHalved, Jobs
<1>3. \A r \in Remote : Kept(r)
  BY DEF Init, Kept, Adding, Changing, Jobs
<1> QED
  BY <1>2, <1>3, <1>4 DEF IInv

Counted == faults \in 0..MaxFaults /\ changes \in 0..MaxChanges

Routes ==
  /\ links \subseteq Link
  /\ best \in [Remote -> Versions \cup {None}]
  /\ route4 \in [Remote -> Versions \cup {None}]
  /\ route6 \in [Remote -> Versions \cup {None}]

Typed ==
  /\ lpc \in {"select", "measure", "rt"}
  /\ serving \subseteq Readers
  /\ jpc \in [Jobs -> Steps]
  /\ seen \subseteq Link
  /\ cur \in [Jobs -> Remote \cup {None}]
  /\ tgt \in [Jobs -> Versions \cup {None}]
  /\ lost \subseteq Jobs
  /\ started \in BOOLEAN
  /\ halved \in BOOLEAN

\* Only failing calls and changes of the environment count.
LEMMA CountedStep == Counted /\ [Next]_vars => Counted'
<1> SUFFICES ASSUME Counted, [Next]_vars PROVE Counted'
  OBVIOUS
<1> USE LinkWatchdogAssumption DEF Counted, NoFault, Fault, Change
<1>a. Check \in Jobs /\ Adders \subseteq Jobs
  BY DEF Jobs
<1>1. ASSUME NEW r \in Remote, NEW a \in Adders, Accept(r, a) PROVE Counted'
  BY <1>1, <1>a DEF Accept
<1>2. ASSUME NEW x \in Readers, Signal(x) PROVE Counted'
  BY <1>2, <1>a DEF Signal
<1>3. CASE Tick
  BY <1>3, <1>a DEF Tick, GetAllWGInterfaces
<1>4. ASSUME NEW r \in Remote, PickRemote(r) PROVE Counted'
  BY <1>4, <1>a DEF PickRemote, VersionsOf
<1>5. CASE ManageQuery
  BY <1>5, <1>a DEF ManageQuery, Assumed
<1>6. CASE Compare
  BY <1>6, <1>a DEF Compare
<1>7. ASSUME NEW a \in Adders, AddQuery(a) PROVE Counted'
  BY <1>7, <1>a DEF AddQuery
<1>8. ASSUME NEW j \in Jobs, Add4(j) PROVE Counted'
  BY <1>8, <1>a DEF Add4, Install4, GiveUp
<1>9. ASSUME NEW j \in Jobs, Add6(j) PROVE Counted'
  BY <1>9, <1>a DEF Add6, Install6, GiveUp
<1>10. ASSUME NEW j \in Jobs, Change4(j) PROVE Counted'
  BY <1>10, <1>a DEF Change4, Install4, GiveUp
<1>11. ASSUME NEW j \in Jobs, Change6(j) PROVE Counted'
  BY <1>11, <1>a DEF Change6, Install6, GiveUp
<1>12. ASSUME NEW l \in Link, LinkUp(l) PROVE Counted'
  BY <1>12, <1>a DEF LinkUp
<1>13. ASSUME NEW l \in Link, LinkDown(l) PROVE Counted'
  BY <1>13, <1>a DEF LinkDown, Without
<1>14. ASSUME NEW r \in Remote, NEW v \in Versions \cup {None}, Prefer(r, v) PROVE Counted'
  BY <1>14, <1>a DEF Prefer
<1>15. CASE Restart
  BY <1>15, <1>a DEF Restart
<1>16. CASE UNCHANGED vars
  BY <1>16, <1>a DEF vars
<1> QED
  BY <1>1, <1>2, <1>3, <1>4, <1>5, <1>6, <1>7, <1>8, <1>9, <1>10, <1>11, <1>12, <1>13, <1>14, <1>15, <1>16,
    <1>a DEF Next, ManageLink, AddLink, RouteCall

\* Routes lead over interfaces of either version.
LEMMA RoutesStep == TypeOK /\ [Next]_vars => Routes'
<1> SUFFICES ASSUME TypeOK, [Next]_vars PROVE Routes'
  OBVIOUS
<1> USE LinkWatchdogAssumption DEF TypeOK, Routes, Decided, Versions, kernelVars
<1>a. Check \in Jobs /\ Adders \subseteq Jobs
  BY DEF Jobs
<1>1. ASSUME NEW r \in Remote, NEW a \in Adders, Accept(r, a) PROVE Routes'
  BY <1>1, <1>a DEF Accept
<1>2. ASSUME NEW x \in Readers, Signal(x) PROVE Routes'
  BY <1>2, <1>a DEF Signal
<1>3. CASE Tick
  BY <1>3, <1>a DEF Tick, GetAllWGInterfaces
<1>4. ASSUME NEW r \in Remote, PickRemote(r) PROVE Routes'
  BY <1>4, <1>a DEF PickRemote, VersionsOf
<1>5. CASE ManageQuery
  BY <1>5, <1>a DEF ManageQuery, Assumed
<1>6. CASE Compare
  BY <1>6, <1>a DEF Compare
<1>7. ASSUME NEW a \in Adders, AddQuery(a) PROVE Routes'
  BY <1>7, <1>a DEF AddQuery
<1>8. ASSUME NEW j \in Jobs, Add4(j) PROVE Routes'
  BY <1>8, <1>a DEF Add4, Install4, GiveUp
<1>9. ASSUME NEW j \in Jobs, Add6(j) PROVE Routes'
  BY <1>9, <1>a DEF Add6, Install6, GiveUp
<1>10. ASSUME NEW j \in Jobs, Change4(j) PROVE Routes'
  BY <1>10, <1>a DEF Change4, Install4, GiveUp
<1>11. ASSUME NEW j \in Jobs, Change6(j) PROVE Routes'
  BY <1>11, <1>a DEF Change6, Install6, GiveUp
<1>12. ASSUME NEW l \in Link, LinkUp(l) PROVE Routes'
  BY <1>12, <1>a DEF LinkUp
<1>13. ASSUME NEW l \in Link, LinkDown(l) PROVE Routes'
  BY <1>13, <1>a DEF LinkDown, Without
<1>14. ASSUME NEW r \in Remote, NEW v \in Versions \cup {None}, Prefer(r, v) PROVE Routes'
  BY <1>14, <1>a DEF Prefer
<1>15. CASE Restart
  BY <1>15, <1>a DEF Restart
<1>16. CASE UNCHANGED vars
  BY <1>16, <1>a DEF vars
<1> QED
  BY <1>1, <1>2, <1>3, <1>4, <1>5, <1>6, <1>7, <1>8, <1>9, <1>10, <1>11, <1>12, <1>13, <1>14, <1>15, <1>16,
    <1>a DEF Next, ManageLink, AddLink, RouteCall

\* The loop and its goroutines.
LEMMA TypedStep == TypeOK /\ [Next]_vars => Typed'
<1> SUFFICES ASSUME TypeOK, [Next]_vars PROVE Typed'
  OBVIOUS
<1> USE LinkWatchdogAssumption DEF TypeOK, Typed, Steps, Readers, Versions,
    loopVars, jobVars, kernelVars, Goto, Return, Done, Serving
<1>a. Check \in Jobs /\ Adders \subseteq Jobs
  BY DEF Jobs
<1>1. ASSUME NEW r \in Remote, NEW a \in Adders, Accept(r, a) PROVE Typed'
  BY <1>1, <1>a DEF Accept
<1>2. ASSUME NEW x \in Readers, Signal(x) PROVE Typed'
  BY <1>2, <1>a DEF Signal
<1>3. CASE Tick
  BY <1>3, <1>a DEF Tick, GetAllWGInterfaces
<1>4. ASSUME NEW r \in Remote, PickRemote(r) PROVE Typed'
  BY <1>4, <1>a DEF PickRemote, VersionsOf
<1>5. CASE ManageQuery
  <2>1. cur[Check] \in Remote
    BY <1>5, <1>a DEF ManageQuery, Decided
  <2>2. Assumed(None) \in Versions /\ Assumed(best[cur[Check]]) \in Versions
    BY <2>1 DEF Assumed
  <2>3. UNCHANGED <<lpc, serving, halved>>
    BY <1>5 DEF ManageQuery
  <2>4. \/ /\ \E v \in Versions : tgt' = [tgt EXCEPT ![Check] = v]
           /\ jpc' = [jpc EXCEPT ![Check] = "compare"]
           /\ started' = TRUE
           /\ UNCHANGED <<seen, cur, lost>>
        \/ Return(Check) /\ UNCHANGED started
    BY <1>5, <2>2 DEF ManageQuery
  <2>5. CASE Return(Check) /\ UNCHANGED started
    BY <1>a, <2>3, <2>5
  <2>6. CASE /\ \E v \in Versions : tgt' = [tgt EXCEPT ![Check] = v]
             /\ jpc' = [jpc EXCEPT ![Check] = "compare"]
             /\ started' = TRUE
             /\ UNCHANGED <<seen, cur, lost>>
    BY <1>a, <2>3, <2>6
  <2> QED
    BY <2>4, <2>5, <2>6
<1>6. CASE Compare
  <2>1. \/ jpc' = [jpc EXCEPT ![Check] = "add4"] /\ UNCHANGED <<seen, cur, tgt, lost>>
        \/ jpc' = [jpc EXCEPT ![Check] = "change4"] /\ UNCHANGED <<seen, cur, tgt, lost>>
        \/ Done(Check)
    BY <1>6 DEF Compare
  <2>2. UNCHANGED <<lpc, serving, started, halved>>
    BY <1>6 DEF Compare
  <2>3. CASE Done(Check)
    BY <1>a, <2>2, <2>3
  <2>4. CASE /\ jpc' = [jpc EXCEPT ![Check] = "add4"]
             /\ UNCHANGED <<seen, cur, tgt, lost>>
    BY <1>a, <2>2, <2>4
  <2>5. CASE /\ jpc' = [jpc EXCEPT ![Check] = "change4"]
             /\ UNCHANGED <<seen, cur, tgt, lost>>
    BY <1>a, <2>2, <2>5
  <2> HIDE DEF TypeOK, Typed, Steps, Readers, Versions, Done
  <2> QED
    BY <2>1, <2>3, <2>4, <2>5
<1>7. ASSUME NEW a \in Adders, AddQuery(a) PROVE Typed'
  <2>1. a \in Jobs /\ (best[cur[a]] # None => best[cur[a]] \in Versions)
    BY <1>7, <1>a DEF AddQuery, Decided
  <2>2. UNCHANGED <<lpc, serving, started, halved>>
    BY <1>7 DEF AddQuery
  <2>3. CASE Return(a)
    BY <2>1, <2>2, <2>3
  <2>4. CASE /\ \E v \in Versions : tgt' = [tgt EXCEPT ![a] = v]
             /\ jpc' = [jpc EXCEPT ![a] = "add4"]
             /\ UNCHANGED <<seen, cur, lost>>
    BY <2>1, <2>2, <2>4
  <2> QED
    BY <1>7, <2>1, <2>3, <2>4 DEF AddQuery
<1>8. ASSUME NEW j \in Jobs, Add4(j) PROVE Typed'
  BY <1>8, <1>a DEF Add4, Install4, GiveUp
<1>9. ASSUME NEW j \in Jobs, Add6(j) PROVE Typed'
  BY <1>9, <1>a DEF Add6, Install6, GiveUp
<1>10. ASSUME NEW j \in Jobs, Change4(j) PROVE Typed'
  BY <1>10, <1>a DEF Change4, Install4, GiveUp
<1>11. ASSUME NEW j \in Jobs, Change6(j) PROVE Typed'
  BY <1>11, <1>a DEF Change6, Install6, GiveUp
<1>12. ASSUME NEW l \in Link, LinkUp(l) PROVE Typed'
  BY <1>12, <1>a DEF LinkUp
<1>13. ASSUME NEW l \in Link, LinkDown(l) PROVE Typed'
  BY <1>13, <1>a DEF LinkDown, Without
<1>14. ASSUME NEW r \in Remote, NEW v \in Versions \cup {None}, Prefer(r, v) PROVE Typed'
  BY <1>14, <1>a DEF Prefer
<1>15. CASE Restart
  BY <1>15, <1>a DEF Restart
<1>16. CASE UNCHANGED vars
  BY <1>16, <1>a DEF vars
<1> QED
  BY <1>1, <1>2, <1>3, <1>4, <1>5, <1>6, <1>7, <1>8, <1>9, <1>10, <1>11, <1>12, <1>13, <1>14, <1>15, <1>16,
    <1>a DEF Next, ManageLink, AddLink, RouteCall

\* A goroutine compares and calls only with a remote and a version.
LEMMA DecidedStep == TypeOK /\ [Next]_vars => Decided'
<1> SUFFICES ASSUME TypeOK, [Next]_vars PROVE Decided'
  OBVIOUS
<1> USE LinkWatchdogAssumption DEF TypeOK, Decided, Steps, Versions, Readers,
    kernelVars, loopVars, jobVars, Goto, Return, Done
<1>a. Check \in Jobs /\ Adders \subseteq Jobs
  BY DEF Jobs
<1>1. ASSUME NEW r \in Remote, NEW a \in Adders, Accept(r, a) PROVE Decided'
  BY <1>1, <1>a DEF Accept
<1>2. ASSUME NEW x \in Readers, Signal(x) PROVE Decided'
  BY <1>2, <1>a DEF Signal
<1>3. CASE Tick
  BY <1>3, <1>a DEF Tick, GetAllWGInterfaces
<1>4. ASSUME NEW r \in Remote, PickRemote(r) PROVE Decided'
  <2>1. cur'[Check] = r /\ jpc'[Check] \in {"query", "compare"}
    BY <1>4, <1>a DEF PickRemote
  <2>2. jpc'[Check] = "compare" => tgt'[Check] \in Versions
    BY <1>4, <1>a DEF PickRemote
  <2>3. \A j \in Jobs \ {Check} : jpc'[j] = jpc[j] /\ cur'[j] = cur[j] /\ tgt'[j] = tgt[j]
    BY <1>4, <1>a DEF PickRemote
  <2> QED
    BY <2>1, <2>2, <2>3
<1>5. CASE ManageQuery
  <2>1. \/ /\ cur'[Check] = cur[Check] /\ cur[Check] \in Remote
           /\ jpc'[Check] = "compare" /\ tgt'[Check] \in Versions
        \/ jpc'[Check] = "idle"
    BY <1>5, <1>a DEF ManageQuery, Assumed
  <2>2. \A j \in Jobs \ {Check} : jpc'[j] = jpc[j] /\ cur'[j] = cur[j] /\ tgt'[j] = tgt[j]
    BY <1>5, <1>a DEF ManageQuery
  <2> QED
    BY <2>1, <2>2
<1>6. CASE Compare
  BY <1>6, <1>a DEF Compare
<1>7. ASSUME NEW a \in Adders, AddQuery(a) PROVE Decided'
  BY <1>7, <1>a DEF AddQuery
<1>8. ASSUME NEW j \in Jobs, Add4(j) PROVE Decided'
  BY <1>8, <1>a DEF Add4, Install4, GiveUp
<1>9. ASSUME NEW j \in Jobs, Add6(j) PROVE Decided'
  BY <1>9, <1>a DEF Add6, Install6, GiveUp
<1>10. ASSUME NEW j \in Jobs, Change4(j) PROVE Decided'
  BY <1>10, <1>a DEF Change4, Install4, GiveUp
<1>11. ASSUME NEW j \in Jobs, Change6(j) PROVE Decided'
  BY <1>11, <1>a DEF Change6, Install6, GiveUp
<1>12. ASSUME NEW l \in Link, LinkUp(l) PROVE Decided'
  BY <1>12, <1>a DEF LinkUp
<1>13. ASSUME NEW l \in Link, LinkDown(l) PROVE Decided'
  BY <1>13, <1>a DEF LinkDown, Without
<1>14. ASSUME NEW r \in Remote, NEW v \in Versions \cup {None}, Prefer(r, v) PROVE Decided'
  BY <1>14, <1>a DEF Prefer
<1>15. CASE Restart
  BY <1>15, <1>a DEF Restart
<1>16. CASE UNCHANGED vars
  BY <1>16, <1>a DEF vars
<1> QED
  BY <1>1, <1>2, <1>3, <1>4, <1>5, <1>6, <1>7, <1>8, <1>9, <1>10, <1>11, <1>12, <1>13, <1>14, <1>15, <1>16,
    <1>a DEF Next, ManageLink, AddLink, RouteCall

LEMMA TypeStep == TypeOK /\ [Next]_vars => TypeOK'
<1> SUFFICES ASSUME TypeOK, [Next]_vars PROVE TypeOK'
  OBVIOUS
<1>1. Counted
  BY DEF TypeOK, Counted
<1>2. Counted' /\ Routes' /\ Typed' /\ Decided'
  BY <1>1, CountedStep, RoutesStep, TypedStep, DecidedStep
<1> QED
  BY <1>2 DEF TypeOK, Counted, Routes, Typed

\* TypeOK: every variable of the watchdog keeps its type, and no goroutine calls
\* the kernel without a remote and a version that parses (link.go:207, 266).
THEOREM TypeCorrect == Spec => []TypeOK
<1>1. Init => TypeOK
  BY InitIInv DEF IInv
<1> QED
  BY <1>1, TypeStep, PTL DEF Spec

------------------------------------------------------------------------------
(* FamiliesAgree.                                                           *)

LEMMA AddersStep == TypeOK /\ AddersOnlyAdd /\ [Next]_vars => AddersOnlyAdd'
<1> SUFFICES ASSUME TypeOK, AddersOnlyAdd, [Next]_vars PROVE AddersOnlyAdd'
  OBVIOUS
<1> USE LinkWatchdogAssumption DEF TypeOK, AddersOnlyAdd, jobVars, Goto, Return, Done
<1>a. Check \in Jobs /\ Adders \subseteq Jobs /\ \A a \in Adders : a # Check
  BY DEF Jobs
<1>1. ASSUME NEW r \in Remote, NEW a \in Adders, Accept(r, a) PROVE AddersOnlyAdd'
  BY <1>1, <1>a DEF Accept
<1>2. ASSUME NEW x \in Readers, Signal(x) PROVE AddersOnlyAdd'
  BY <1>2, <1>a DEF Signal
<1>3. CASE Tick
  BY <1>3, <1>a DEF Tick, GetAllWGInterfaces
<1>4. ASSUME NEW r \in Remote, PickRemote(r) PROVE AddersOnlyAdd'
  BY <1>4, <1>a DEF PickRemote, VersionsOf
<1>5. CASE ManageQuery
  BY <1>5, <1>a DEF ManageQuery, Assumed
<1>6. CASE Compare
  BY <1>6, <1>a DEF Compare
<1>7. ASSUME NEW a \in Adders, AddQuery(a) PROVE AddersOnlyAdd'
  BY <1>7, <1>a DEF AddQuery
<1>8. ASSUME NEW j \in Jobs, Add4(j) PROVE AddersOnlyAdd'
  BY <1>8, <1>a DEF Add4, Install4, GiveUp
<1>9. ASSUME NEW j \in Jobs, Add6(j) PROVE AddersOnlyAdd'
  BY <1>9, <1>a DEF Add6, Install6, GiveUp
<1>10. ASSUME NEW j \in Jobs, Change4(j) PROVE AddersOnlyAdd'
  BY <1>10, <1>a DEF Change4, Install4, GiveUp
<1>11. ASSUME NEW j \in Jobs, Change6(j) PROVE AddersOnlyAdd'
  BY <1>11, <1>a DEF Change6, Install6, GiveUp
<1>12. ASSUME NEW l \in Link, LinkUp(l) PROVE AddersOnlyAdd'
  BY <1>12, <1>a DEF LinkUp
<1>13. ASSUME NEW l \in Link, LinkDown(l) PROVE AddersOnlyAdd'
  BY <1>13, <1>a DEF LinkDown, Without
<1>14. ASSUME NEW r \in Remote, NEW v \in Versions \cup {None}, Prefer(r, v) PROVE AddersOnlyAdd'
  BY <1>14, <1>a DEF Prefer
<1>15. CASE Restart
  BY <1>15, <1>a DEF Restart
<1>16. CASE UNCHANGED vars
  BY <1>16, <1>a DEF vars
<1> QED
  BY <1>1, <1>2, <1>3, <1>4, <1>5, <1>6, <1>7, <1>8, <1>9, <1>10, <1>11, <1>12, <1>13, <1>14, <1>15, <1>16,
    <1>a DEF Next, ManageLink, AddLink, RouteCall

LEMMA LostStep == TypeOK /\ LostMeansHalved /\ [Next]_vars => LostMeansHalved'
<1> SUFFICES ASSUME TypeOK, LostMeansHalved, [Next]_vars PROVE LostMeansHalved'
  OBVIOUS
<1> USE DEF TypeOK, LostMeansHalved, jobVars, Return, Done
<1>a. Check \in Jobs /\ Adders \subseteq Jobs
  BY DEF Jobs
<1>1. ASSUME NEW r \in Remote, NEW a \in Adders, Accept(r, a) PROVE LostMeansHalved'
  BY <1>1, <1>a DEF Accept
<1>2. ASSUME NEW x \in Readers, Signal(x) PROVE LostMeansHalved'
  BY <1>2, <1>a DEF Signal
<1>3. CASE Tick
  BY <1>3, <1>a DEF Tick, GetAllWGInterfaces
<1>4. ASSUME NEW r \in Remote, PickRemote(r) PROVE LostMeansHalved'
  BY <1>4, <1>a DEF PickRemote, VersionsOf
<1>5. CASE ManageQuery
  BY <1>5, <1>a DEF ManageQuery, Assumed
<1>6. CASE Compare
  BY <1>6, <1>a DEF Compare
<1>7. ASSUME NEW a \in Adders, AddQuery(a) PROVE LostMeansHalved'
  BY <1>7, <1>a DEF AddQuery
<1>8. ASSUME NEW j \in Jobs, Add4(j) PROVE LostMeansHalved'
  BY <1>8, <1>a DEF Add4, Install4, GiveUp
<1>9. ASSUME NEW j \in Jobs, Add6(j) PROVE LostMeansHalved'
  BY <1>9, <1>a DEF Add6, Install6, GiveUp
<1>10. ASSUME NEW j \in Jobs, Change4(j) PROVE LostMeansHalved'
  BY <1>10, <1>a DEF Change4, Install4, GiveUp
<1>11. ASSUME NEW j \in Jobs, Change6(j) PROVE LostMeansHalved'
  BY <1>11, <1>a DEF Change6, Install6, GiveUp
<1>12. ASSUME NEW l \in Link, LinkUp(l) PROVE LostMeansHalved'
  BY <1>12, <1>a DEF LinkUp
<1>13. ASSUME NEW l \in Link, LinkDown(l) PROVE LostMeansHalved'
  BY <1>13, <1>a DEF LinkDown, Without
<1>14. ASSUME NEW r \in Remote, NEW v \in Versions \cup {None}, Prefer(r, v) PROVE LostMeansHalved'
  BY <1>14, <1>a DEF Prefer
<1>15. CASE Restart
  BY <1>15, <1>a DEF Restart
<1>16. CASE UNCHANGED vars
  BY <1>16, <1>a DEF vars
<1> QED
  BY <1>1, <1>2, <1>3, <1>4, <1>5, <1>6, <1>7, <1>8, <1>9, <1>10, <1>11, <1>12, <1>13, <1>14, <1>15, <1>16,
    <1>a DEF Next, ManageLink, AddLink, RouteCall

LEMMA KeptStep ==
  IInv /\ [Next]_vars => halved' \/ \A r \in Remote : Kept(r)'
<1> SUFFICES ASSUME IInv, [Next]_vars, ~halved', NEW s \in Remote
             PROVE  Kept(s)'
  OBVIOUS
<1>a. Check \in Jobs /\ Adders \subseteq Jobs /\ \A a \in Adders : a # Check
  BY LinkWatchdogAssumption DEF Jobs
<1>b. Jobs = Adders \cup {Check}
  BY DEF Jobs
<1>c. ~halved
  BY DEF Next, vars, Accept, Signal, Tick, GetAllWGInterfaces, ManageLink, PickRemote, ManageQuery, Compare,
    AddLink, AddQuery, RouteCall, Add4, Add6, Change4, Change6, LinkUp, LinkDown,
    Prefer, Restart, IInv, TypeOK
<1>d. Kept(s) /\ lost = {}
  BY <1>c DEF IInv, LostMeansHalved
<1>e. TypeOK /\ TypeOK' /\ AddersOnlyAdd
  BY TypeStep DEF IInv
\* Steps of jobs that are not between their calls, and of everybody else.
<1>f. ASSUME UNCHANGED <<route4, route6>>,
             \A j \in Jobs : Between(j)' => /\ Between(j)
                                            /\ jpc'[j] = jpc[j]
                                            /\ cur'[j] = cur[j] /\ tgt'[j] = tgt[j],
             \A j \in Jobs : Between(j) /\ cur[j] = s => Between(j)'
      PROVE  Kept(s)'
  <2>1. \A j \in Jobs : Adding(j, s)' <=> Adding(j, s)
    BY <1>f DEF Adding, Between
  <2>2. Changing(s)' <=> Changing(s)
    BY <1>a, <1>f DEF Changing, Between
  <2>4. CASE Changing(s)
    BY <1>a, <1>d, <1>f, <2>2, <2>4 DEF Kept, Changing, Between
  <2>5. CASE ~Changing(s)
    BY <1>a, <1>d, <1>f, <2>1, <2>2, <2>5 DEF Kept, Adding, Between
  <2> QED
    BY <2>4, <2>5
<1> USE DEF TypeOK, Decided, Goto, Return, Done, Between
<1>1. ASSUME NEW r \in Remote, NEW a \in Adders, Accept(r, a) PROVE Kept(s)'
  BY <1>1, <1>a, <1>e, <1>f DEF Accept, kernelVars
<1>2. ASSUME NEW x \in Readers, Signal(x) PROVE Kept(s)'
  BY <1>2, <1>e, <1>f DEF Signal, kernelVars, jobVars
<1>3. CASE Tick
  BY <1>3, <1>a, <1>e, <1>f DEF Tick, GetAllWGInterfaces, kernelVars
<1>4. ASSUME NEW r \in Remote, PickRemote(r) PROVE Kept(s)'
  BY <1>4, <1>a, <1>e, <1>f DEF PickRemote, kernelVars
<1>5. CASE ManageQuery
  BY <1>5, <1>a, <1>e, <1>f DEF ManageQuery, kernelVars
<1>6. CASE Compare
  BY <1>6, <1>a, <1>e, <1>f DEF Compare, kernelVars
<1>7. ASSUME NEW a \in Adders, AddQuery(a) PROVE Kept(s)'
  BY <1>7, <1>a, <1>e, <1>f DEF AddQuery, kernelVars
<1>8. ASSUME NEW l \in Link, LinkUp(l) PROVE Kept(s)'
  BY <1>8, <1>e, <1>f DEF LinkUp, jobVars
<1>9. ASSUME NEW r \in Remote, NEW v \in Versions \cup {None}, Prefer(r, v)
      PROVE  Kept(s)'
  BY <1>9, <1>e, <1>f DEF Prefer, kernelVars, jobVars
<1>10. CASE UNCHANGED vars
  BY <1>10, <1>e, <1>f DEF vars, kernelVars, jobVars
<1>11. CASE Restart
  BY <1>11, <1>c, <1>e, <1>f DEF Restart, kernelVars
<1>12. ASSUME NEW l \in Link, LinkDown(l) PROVE Kept(s)'
  <2>1. \A j \in Jobs : ~(jpc[j] \in {"add6", "change6"} /\ cur[j] = l[1])
    BY <1>12 DEF LinkDown
  <2>2. jpc' = jpc /\ cur' = cur /\ tgt' = tgt
    BY <1>12 DEF LinkDown
  <2>3. l[1] \in Remote
    BY LinkWatchdogAssumption
  <2>4. (\A j \in Jobs : Adding(j, s)' <=> Adding(j, s)) /\ (Changing(s)' <=> Changing(s))
    BY <2>2 DEF Adding, Changing
  <2>5. CASE l[1] = s
    <3>1. ~Changing(s) /\ \A j \in Jobs : ~Adding(j, s)
      BY <1>a, <2>1, <2>5 DEF Adding, Changing
    <3>2. route4[s] = route6[s]
      BY <1>d, <3>1 DEF Kept
    <3>3. route4'[s] = route6'[s]
      BY <1>12, <1>e, <2>3, <2>5, <3>2 DEF LinkDown, Without
    <3> QED
      BY <2>4, <3>1, <3>3 DEF Kept
  <2>6. CASE l[1] # s
    <3>1. route4'[s] = route4[s] /\ route6'[s] = route6[s]
      BY <1>12, <1>e, <2>3, <2>6 DEF LinkDown, Without
    <3> QED
      BY <1>d, <2>2, <2>4, <3>1 DEF Kept
  <2> QED
    BY <2>5, <2>6
<1>13. ASSUME NEW j \in Jobs, Add4(j) PROVE Kept(s)'
  <2>1. CASE GiveUp(j)
    BY <1>13, <2>1, <1>a, <1>e, <1>f DEF Add4, GiveUp, kernelVars
  <2>2. CASE Install4(j, "add6") /\ route4[cur[j]] = None
    <3>1. cur[j] \in Remote /\ tgt[j] \in Versions
      BY <1>13, <1>e DEF Add4
    <3>2. ~Changing(cur[j]) \/ cur[j] # s
      BY <1>a, <1>d, <1>e, <2>2, <3>1 DEF Kept, Changing, Versions
    <3>3. CASE cur[j] # s
      BY <1>13, <1>a, <1>d, <1>e, <2>2, <3>1, <3>3 DEF Add4, Install4, Kept, Adding, Changing
    <3>4. CASE cur[j] = s
      <4>1. route6[s] = None /\ \A k \in Jobs : ~Adding(k, s)
        BY <1>d, <1>e, <2>2, <3>1, <3>2, <3>4 DEF Kept, Adding, Versions
      <4>2. route4'[s] = tgt[j] /\ route6' = route6 /\ tgt' = tgt /\ cur' = cur
        BY <2>2, <3>1, <3>4, <1>e DEF Install4
      <4>3. \A k \in Jobs : Adding(k, s)' <=> k = j
        BY <2>2, <3>1, <3>4, <4>1, <1>e DEF Install4, Adding
      <4>4. ~Changing(s)'
        BY <1>13, <1>a, <2>2, <3>2, <3>4, <1>e DEF Add4, Install4, Changing
      <4> QED
        BY <4>1, <4>2, <4>3, <4>4 DEF Kept
    <3> QED
      BY <3>3, <3>4
  <2> QED
    BY <1>13, <2>1, <2>2 DEF Add4
<1>14. ASSUME NEW j \in Jobs, Add6(j) PROVE Kept(s)'
  <2>1. ~Changing(cur[j]) \/ j # Check
    BY <1>14 DEF Add6, Changing
  <2>2. CASE Install6(j) /\ route6[cur[j]] = None
    <3>1. cur[j] \in Remote /\ tgt[j] \in Versions
      BY <1>14, <1>e DEF Add6
    <3>2. /\ route4' = route4
          /\ route6' = [route6 EXCEPT ![cur[j]] = tgt[j]]
          /\ \A k \in Jobs \ {j} : jpc'[k] = jpc[k] /\ cur'[k] = cur[k] /\ tgt'[k] = tgt[k]
          /\ jpc'[j] \notin {"add6", "change6"}
      BY <2>2, <1>e DEF Install6
    <3>3. Changing(s)' <=> Changing(s)
      BY <1>14, <1>a, <3>2 DEF Changing, Add6
    <3>4. \A k \in Jobs : Adding(k, s)' <=> Adding(k, s) /\ k # j
      BY <3>2 DEF Adding
    <3>5. CASE Changing(s)
      BY <1>14, <1>a, <1>d, <3>2, <3>3, <3>5 DEF Kept, Changing, Add6
    <3>6. CASE ~Changing(s) /\ cur[j] = s
      <4>1. route4[s] = tgt[j]
        BY <1>14, <1>d, <2>2, <3>6 DEF Kept, Adding, Add6
      <4>2. route6'[s] = tgt[j] /\ tgt[j] # None
        BY <1>e, <3>1, <3>2, <3>6 DEF Versions
      <4> QED
        BY <3>2, <3>3, <3>6, <4>1, <4>2 DEF Kept
    <3>7. CASE ~Changing(s) /\ cur[j] # s
      <4>1. route6'[s] = route6[s]
        BY <1>e, <3>1, <3>2, <3>7
      <4>2. ~Adding(j, s)
        BY <3>7 DEF Adding
      <4> QED
        BY <1>d, <3>2, <3>3, <3>4, <3>7, <4>1, <4>2 DEF Kept, Adding
    <3> QED
      BY <3>5, <3>6, <3>7
  <2>3. CASE GiveUp(j) /\ (j \in lost \/ route6[cur[j]] # None)
    <3>1. route6[cur[j]] # None /\ UNCHANGED <<route4, route6>>
      BY <1>d, <2>3 DEF GiveUp, kernelVars
    <3>2. /\ \A k \in Jobs \ {j} : jpc'[k] = jpc[k] /\ cur'[k] = cur[k] /\ tgt'[k] = tgt[k]
          /\ jpc'[j] = "idle"
      BY <2>3, <1>e DEF GiveUp
    <3>3. Changing(s)' <=> Changing(s)
      BY <1>14, <1>a, <3>2 DEF Changing, Add6
    <3>4. \A k \in Jobs : Adding(k, s)' <=> Adding(k, s) /\ k # j
      BY <3>2 DEF Adding
    <3>5. CASE Changing(s)
      BY <1>14, <1>a, <1>d, <3>1, <3>2, <3>3, <3>5 DEF Kept, Changing, Add6
    <3>6. CASE ~Changing(s)
      <4>1. Adding(j, s) => route4[s] = route6[s]
        BY <1>d, <3>1, <3>6 DEF Kept, Adding
      <4> QED
        BY <1>d, <3>1, <3>2, <3>3, <3>4, <3>6, <4>1 DEF Kept
    <3> QED
      BY <3>5, <3>6
  <2> QED
    BY <1>14, <2>2, <2>3 DEF Add6
<1>15. ASSUME NEW j \in Jobs, Change4(j) PROVE Kept(s)'
  BY <1>15, <1>a, <1>b, <1>d, <1>e, <1>f DEF Change4, Install4, GiveUp, AddersOnlyAdd, Kept, Adding, Changing, kernelVars
<1>16. ASSUME NEW j \in Jobs, Change6(j) PROVE Kept(s)'
  <2>1. j = Check
    BY <1>16, <1>b, <1>e DEF Change6, AddersOnlyAdd
  <2>2. Install6(j)
    BY <1>16, <1>d DEF Change6
  <2>3. cur[j] \in Remote /\ tgt[j] \in Versions
    BY <1>16, <1>e DEF Change6
  <2>4. /\ route4' = route4
        /\ route6' = [route6 EXCEPT ![cur[j]] = tgt[j]]
        /\ \A k \in Jobs \ {j} : jpc'[k] = jpc[k] /\ cur'[k] = cur[k] /\ tgt'[k] = tgt[k]
        /\ jpc'[j] \notin {"add6", "change6"}
    BY <2>2, <1>e DEF Install6
  <2>5. ~Changing(s)' /\ \A k \in Jobs : Adding(k, s)' <=> Adding(k, s)
    BY <1>16, <1>a, <2>1, <2>4 DEF Adding, Changing, Change6
  <2>6. CASE cur[j] = s
    <3>1. route4[s] = tgt[j]
      BY <1>16, <1>d, <2>1, <2>6 DEF Kept, Changing, Change6
    <3>2. route6'[s] = tgt[j] /\ tgt[j] # None
      BY <1>e, <2>3, <2>4, <2>6 DEF Versions
    <3> QED
      BY <2>4, <2>5, <3>1, <3>2 DEF Kept
  <2>7. CASE cur[j] # s
    <3>1. ~Changing(s) /\ route6'[s] = route6[s]
      BY <1>e, <2>1, <2>3, <2>4, <2>7 DEF Changing
    <3> QED
      BY <1>16, <1>d, <2>1, <2>4, <2>5, <3>1 DEF Kept, Adding, Change6
  <2> QED
    BY <2>6, <2>7
<1> HIDE DEF TypeOK, Decided, Goto, Return, Done, Between
<1> QED
  BY <1>1, <1>2, <1>3, <1>4, <1>5, <1>6, <1>7, <1>8, <1>9, <1>10, <1>11, <1>12, <1>13,
    <1>14, <1>15, <1>16, <1>a DEF Next, ManageLink, AddLink, RouteCall

\* FamiliesAgree: goroutines that add and replace routes without a lock
\* (link.go:42, 53) leave both families on the same interface, unless a second
\* call fails or an interface vanishes between two calls.
THEOREM FamiliesAgreeHolds == Spec => []FamiliesAgree
<1>1. IInv /\ [Next]_vars => IInv'
  BY TypeStep, AddersStep, LostStep, KeptStep DEF IInv
<1>2. IInv => FamiliesAgree
  <2> SUFFICES ASSUME IInv, ~halved, NEW r \in Remote,
                      \A j \in Jobs : ~(Between(j) /\ cur[j] = r)
               PROVE  route4[r] = route6[r]
    BY DEF FamiliesAgree
  <2>1. ~Changing(r) /\ \A j \in Jobs : ~Adding(j, r)
    BY DEF Adding, Changing, Between, Jobs
  <2> QED
    BY <2>1 DEF IInv, Kept
<1> QED
  BY InitIInv, <1>1, <1>2, PTL DEF Spec
=============================================================================
