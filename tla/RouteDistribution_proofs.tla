------------------------ MODULE RouteDistribution_proofs ------------------------
(***************************************************************************)
(* For every mesh, every set of plans and every number of failures: once a *)
(* distribution is complete there is no forwarding loop, and every site is *)
(* a PlanCell.  The second half is about the leader's refresh, RoutePlan:  *)
(* the plans it lets out forward over measured links, and are the plans    *)
(* that RouteDistribution takes for granted.                               *)
(***************************************************************************)
EXTENDS RouteDistribution, RoutePlan, FiniteSetTheorems, TLAPS

\* A distributing leader works through the members of its plan; if nobody
\* interfered, those it is done with hold their row.
Sending ==
  \A s \in Candidates : pc[s] = "send" =>
    /\ plan[s] \in Plans
    /\ todo[s] \subseteq Members(plan[s])
    /\ s \in alone => \A t \in Members(plan[s]) \ todo[s] : table[t] = plan[s][t]

Installed ==
  settled # NoPlan => \A t \in Members(settled) : table[t] = settled[t]

IInv == TypeOK /\ Sending /\ Installed

LEMMA PlanFacts ==
  ASSUME NEW p \in Plans
  PROVE  /\ Members(p) \subseteq Site
         /\ \A t \in Members(p) : p[t] \in Row
         /\ p = [t \in Members(p) |-> p[t]]
<1>1. PICK M \in SUBSET Site : p \in [M -> [Site -> Site \cup {0}]]
  BY RouteDistributionAssumption DEF Distributable
<1>2. Members(p) = M /\ Members(p) \subseteq Site /\ p = [t \in Members(p) |-> p[t]]
  BY <1>1 DEF Members
<1>3. ASSUME NEW t \in Members(p)
      PROVE  p[t] \in Row
  <2>1. p[t] \in RowsOf(p)
    BY <1>3 DEF RowsOf
  <2> QED BY <2>1 DEF Row
<1> QED BY <1>2, <1>3

LEMMA InitInv == Init => IInv
<1> SUFFICES ASSUME Init PROVE IInv
  OBVIOUS
<1>1. TypeOK
  BY RouteDistributionAssumption DEF Init, TypeOK
<1> QED BY <1>1 DEF Init, IInv, Sending, Installed

------------------------------------------------------------------------------
(* Types.                                                                   *)

LEMMA BudgetTypes ==
  ASSUME TypeOK
  PROVE  /\ Fault => faults' \in 0..MaxFaults
         /\ Change => changes' \in 0..MaxChanges
  BY RouteDistributionAssumption DEF TypeOK, Fault, Change

LEMMA LoopTypes ==
  ASSUME TypeOK, NEW s \in Candidates,
         Tick(s) \/ FastStart(s) \/ Refresh(s)
  PROVE  TypeOK'
<1>1. CASE Tick(s)
  BY <1>1, BudgetTypes DEF TypeOK, Tick, Routine, Unhealthy, Goto, siteVars
<1>2. CASE FastStart(s)
  <2>1. fast[s] \in 0..Attempts /\ Attempts \in Nat
    BY <1>2, RouteDistributionAssumption DEF TypeOK, FastStart
  <2>4. fast[s] > 0 => fast[s] - 1 \in 0..Attempts
    BY <2>1
  <2>5. \/ fast' = [fast EXCEPT ![s] = Off]
        \/ fast[s] > 0 /\ fast' = [fast EXCEPT ![s] = fast[s] - 1]
    BY <1>2 DEF FastStart
  <2>2. fast' \in [Candidates -> 0..Attempts \cup {Off}]
    BY <2>4, <2>5 DEF TypeOK
  <2>3. pc' \in [Candidates -> {"loop", "refresh", "send"}]
    BY <1>2 DEF TypeOK, FastStart, Routine, Goto
  <2>6. faults' \in 0..MaxFaults
    BY <1>2, BudgetTypes DEF TypeOK, FastStart, Routine, Unhealthy
  <2> QED BY <1>2, <2>2, <2>3, <2>6 DEF TypeOK, FastStart, siteVars
<1>3. CASE Refresh(s)
  <2>1. faults' \in 0..MaxFaults
    BY <1>3, BudgetTypes DEF TypeOK, Refresh
  <2>2. plan' \in [Candidates -> Plans \cup {NoPlan}]
    BY <1>3 DEF TypeOK, Refresh
  <2>3. todo' \in [Candidates -> SUBSET Site]
    BY <1>3, PlanFacts DEF TypeOK, Refresh
  <2>4. pc' \in [Candidates -> {"loop", "refresh", "send"}] /\ alone' \subseteq Candidates
    BY <1>3 DEF TypeOK, Refresh, Goto
  <2> QED BY <1>3, <2>1, <2>2, <2>3, <2>4 DEF TypeOK, Refresh, siteVars
<1> QED BY <1>1, <1>2, <1>3

LEMMA StopTypes ==
  ASSUME TypeOK, NEW s \in Candidates, Stop(s)
  PROVE  /\ pc' \in [Candidates -> {"loop", "refresh", "send"}]
         /\ plan' \in [Candidates -> Plans \cup {NoPlan}]
         /\ todo' \in [Candidates -> SUBSET Site]
  BY DEF TypeOK, Stop, Goto

LEMMA DeliverTypes ==
  ASSUME TypeOK, Sending, NEW s \in Candidates, NEW t \in Site,
         pc[s] = "send", t \in todo[s], Deliver(s, t)
  PROVE  /\ table' \in [Site -> Row \cup {Nothing}]
         /\ fresh' \in [Site -> BOOLEAN]
         /\ settled' \in Plans \cup {NoPlan}
<1>1. plan[s][t] \in Row
  BY PlanFacts DEF Sending
<1> QED BY <1>1 DEF TypeOK, Deliver

LEMMA SendTypes ==
  ASSUME TypeOK, Sending, NEW s \in Candidates, NEW t \in Site,
         Send(s, t) \/ SendFails(s, t)
  PROVE  TypeOK'
<1>1. CASE Send(s, t)
  <2>1. pc[s] = "send" /\ t \in todo[s] /\ Deliver(s, t)
    BY <1>1 DEF Send
  <2>2. todo' \in [Candidates -> SUBSET Site]
    BY <1>1 DEF TypeOK, Send
  <2> QED BY <1>1, <2>1, <2>2, DeliverTypes DEF TypeOK, Send
<1>2. CASE SendFails(s, t)
  <2>1. /\ pc' \in [Candidates -> {"loop", "refresh", "send"}]
        /\ plan' \in [Candidates -> Plans \cup {NoPlan}]
        /\ todo' \in [Candidates -> SUBSET Site]
    BY <1>2, StopTypes DEF SendFails
  <2>2. faults' \in 0..MaxFaults
    BY <1>2, BudgetTypes DEF TypeOK, SendFails
  <2>3. /\ table' \in [Site -> Row \cup {Nothing}]
        /\ fresh' \in [Site -> BOOLEAN]
        /\ settled' \in Plans \cup {NoPlan}
    <3>1. CASE UNCHANGED <<siteVars, settled>>
      BY <3>1 DEF TypeOK, siteVars
    <3>2. CASE Deliver(s, t)
      BY <1>2, <3>2, DeliverTypes DEF SendFails
    <3> QED BY <1>2, <3>1, <3>2 DEF SendFails
  <2> QED BY <1>2, <2>1, <2>2, <2>3 DEF TypeOK, SendFails
<1> QED BY <1>1, <1>2

LEMMA DistributedTypes ==
  ASSUME TypeOK, NEW s \in Candidates, Distributed(s)
  PROVE  TypeOK'
  BY StopTypes DEF TypeOK, Distributed, siteVars

LEMMA EnvTypes ==
  ASSUME TypeOK,
         \/ LeaderChange \/ MeshChange
         \/ \E s \in Site : Crash(s) \/ Restart(s) \/ Expire(s)
  PROVE  TypeOK'
<1>1. CASE LeaderChange
  BY <1>1, BudgetTypes DEF TypeOK, LeaderChange, siteVars, loopVars
<1>2. CASE MeshChange
  BY <1>2, BudgetTypes DEF TypeOK, MeshChange, siteVars, loopVars
<1>3. ASSUME NEW s \in Site, Crash(s)
      PROVE  TypeOK'
  <2>1. faults' \in 0..MaxFaults
    BY <1>3, BudgetTypes DEF Crash
  <2>2. /\ pc' \in [Candidates -> {"loop", "refresh", "send"}]
        /\ plan' \in [Candidates -> Plans \cup {NoPlan}]
        /\ todo' \in [Candidates -> SUBSET Site]
    BY <1>3, StopTypes DEF TypeOK, Crash, loopVars
  <2>3. fast' \in [Candidates -> 0..Attempts \cup {Off}]
    BY <1>3, RouteDistributionAssumption DEF TypeOK, Crash, loopVars
  <2>4. table' \in [Site -> Row \cup {Nothing}] /\ fresh' \in [Site -> BOOLEAN]
    BY <1>3 DEF TypeOK, Crash
  <2> QED BY <1>3, <2>1, <2>2, <2>3, <2>4 DEF TypeOK, Crash
<1>4. ASSUME NEW s \in Site, Restart(s)
      PROVE  TypeOK'
  BY <1>4 DEF TypeOK, Restart, siteVars, loopVars
<1>5. ASSUME NEW s \in Site, Expire(s)
      PROVE  TypeOK'
  BY <1>5 DEF TypeOK, Expire, loopVars
<1> QED BY <1>1, <1>2, <1>3, <1>4, <1>5

------------------------------------------------------------------------------
(* Rows.                                                                    *)

\* A step that moves no row.
LEMMA RowsUnmoved ==
  ASSUME TypeOK, Sending, Installed,
         UNCHANGED <<table, settled>>, alone' \subseteq alone,
         \A s \in Candidates :
            pc'[s] = "send" => pc[s] = "send" /\ plan'[s] = plan[s] /\ todo'[s] = todo[s]
  PROVE  Sending' /\ Installed'
  BY DEF Sending, Installed

LEMMA LoopRows ==
  ASSUME TypeOK, Sending, Installed, NEW s \in Candidates,
         Tick(s) \/ FastStart(s) \/ Refresh(s)
  PROVE  Sending' /\ Installed'
<1>1. CASE Tick(s) \/ FastStart(s)
  <2>1. \A c \in Candidates : pc'[c] = "send" => pc[c] = "send"
    BY <1>1 DEF TypeOK, Tick, FastStart, Routine, Goto
  <2> QED BY <1>1, <2>1, RowsUnmoved DEF Tick, FastStart, siteVars
<1>2. CASE Refresh(s)
  <2>1. CASE pc'[s] # "send"
    <3>1. \A c \in Candidates : pc'[c] = "send" => c # s /\ pc[c] = "send"
      BY <1>2, <2>1 DEF TypeOK, Refresh, Goto
    <3>2. UNCHANGED <<plan, todo, alone>>
      BY <1>2, <2>1 DEF TypeOK, Refresh, Goto
    <3> QED BY <1>2, <3>1, <3>2, RowsUnmoved DEF Refresh, siteVars
  <2>2. CASE pc'[s] = "send"
    <3>1. /\ plan' = [plan EXCEPT ![s] = mesh]
          /\ todo' = [todo EXCEPT ![s] = Members(mesh)]
          /\ alone' = alone \cup {s}
          /\ UNCHANGED <<table, settled>>
          /\ \A c \in Candidates \ {s} : pc'[c] = pc[c]
      BY <1>2, <2>2 DEF TypeOK, Refresh, Goto, siteVars
    <3>2. plan'[s] = mesh /\ mesh \in Plans /\ todo'[s] = Members(mesh)
      BY <3>1 DEF TypeOK
    <3>3. \A c \in Candidates \ {s} : plan'[c] = plan[c] /\ todo'[c] = todo[c]
      BY <3>1 DEF TypeOK
    <3>4. Sending'
      BY <3>1, <3>2, <3>3 DEF Sending
    <3> QED BY <3>1, <3>4 DEF Installed
  <2> QED BY <2>1, <2>2
<1> QED BY <1>1, <1>2

LEMMA SendRows ==
  ASSUME TypeOK, Sending, Installed, NEW s \in Candidates, NEW t \in Site, Send(s, t)
  PROVE  Sending' /\ Installed'
<1>1. /\ table' = [table EXCEPT ![t] = plan[s][t]]
      /\ todo' = [todo EXCEPT ![s] = @ \ {t}]
      /\ alone' = alone \cap {s} /\ settled' = NoPlan
      /\ UNCHANGED <<pc, plan>>
  BY DEF Send, Deliver
<1>2. Installed'
  BY <1>1 DEF Installed
<1>3. ASSUME NEW c \in Candidates, pc'[c] = "send"
      PROVE  /\ plan'[c] \in Plans
             /\ todo'[c] \subseteq Members(plan'[c])
             /\ c \in alone' => \A v \in Members(plan'[c]) \ todo'[c] : table'[v] = plan'[c][v]
  <2>1. plan[c] \in Plans /\ todo'[c] \subseteq Members(plan[c])
    BY <1>1, <1>3 DEF TypeOK, Sending
  <2>2. ASSUME c \in alone', NEW v \in Members(plan[c]) \ todo'[c]
        PROVE  table'[v] = plan[c][v]
    <3>1. c = s /\ s \in alone /\ v \in Site
      BY <1>1, <2>1, <2>2, PlanFacts
    <3>2. CASE v = t
      BY <1>1, <3>1, <3>2 DEF TypeOK
    <3>3. CASE v # t
      BY <1>1, <1>3, <2>2, <3>1, <3>3 DEF TypeOK, Sending
    <3> QED BY <3>2, <3>3
  <2> QED BY <1>1, <2>1, <2>2
<1> QED BY <1>2, <1>3 DEF Sending

\* The distributor is back in its loop; the others go on, undisturbed or not
\* alone any more.
LEMMA StopRows ==
  ASSUME TypeOK, Sending, NEW s \in Candidates, Stop(s),
         alone' \subseteq alone,
         alone' = {} \/ table' = table
  PROVE  Sending'
<1>1. \A c \in Candidates : pc'[c] = "send" =>
        c # s /\ pc[c] = "send" /\ plan'[c] = plan[c] /\ todo'[c] = todo[c]
  BY DEF TypeOK, Stop, Goto
<1> QED BY <1>1 DEF Sending

LEMMA SendFailsRows ==
  ASSUME TypeOK, Sending, Installed, NEW s \in Candidates, NEW t \in Site, SendFails(s, t)
  PROVE  Sending' /\ Installed'
<1>1. Stop(s)
  BY DEF SendFails
<1>2. CASE UNCHANGED <<siteVars, settled>> /\ alone' = alone \ {s}
  BY <1>1, <1>2, StopRows DEF Installed, siteVars
<1>3. CASE Deliver(s, t) /\ alone' = {}
  BY <1>1, <1>3, StopRows DEF Installed, Deliver
<1> QED BY <1>2, <1>3 DEF SendFails

LEMMA DistributedRows ==
  ASSUME TypeOK, Sending, Installed, NEW s \in Candidates, Distributed(s)
  PROVE  Sending' /\ Installed'
<1>1. Stop(s) /\ alone' = alone \ {s} /\ table' = table
  BY DEF Distributed, siteVars
<1>2. Sending'
  BY <1>1, StopRows
<1>3. CASE s \in alone
  BY <1>1, <1>2, <1>3 DEF Distributed, Sending, Installed
<1>4. CASE s \notin alone
  BY <1>1, <1>2, <1>4 DEF Distributed, Installed
<1> QED BY <1>2, <1>3, <1>4

LEMMA EnvRows ==
  ASSUME TypeOK, Sending, Installed,
         \/ LeaderChange \/ MeshChange
         \/ \E s \in Site : Crash(s) \/ Restart(s) \/ Expire(s)
  PROVE  Sending' /\ Installed'
<1>0. ASSUME UNCHANGED <<table, settled, alone, pc, plan, todo>>
      PROVE  Sending' /\ Installed'
  BY <1>0 DEF Sending, Installed
<1>1. CASE LeaderChange \/ MeshChange
  BY <1>0, <1>1 DEF LeaderChange, MeshChange, siteVars, loopVars
<1>2. ASSUME NEW s \in Site, Restart(s) \/ Expire(s)
      PROVE  Sending' /\ Installed'
  BY <1>0, <1>2 DEF Restart, Expire, siteVars, loopVars
<1>3. ASSUME NEW s \in Site, Crash(s)
      PROVE  Sending' /\ Installed'
  <2>1. alone' = {} /\ settled' = NoPlan
    BY <1>3 DEF Crash
  <2>2. CASE s \in Candidates
    BY <1>3, <2>1, <2>2, StopRows DEF Crash, Installed
  <2>3. CASE s \notin Candidates
    BY <1>3, <2>1, <2>3 DEF Crash, loopVars, Sending, Installed
  <2> QED BY <2>2, <2>3
<1> QED BY <1>1, <1>2, <1>3

LEMMA StepInv == IInv /\ [Next]_vars => IInv'
<1> SUFFICES ASSUME TypeOK, Sending, Installed, [Next]_vars
             PROVE  TypeOK' /\ Sending' /\ Installed'
  BY DEF IInv
<1>1. ASSUME NEW s \in Candidates, LoopStep(s)
      PROVE  TypeOK' /\ Sending' /\ Installed'
  <2>1. CASE Tick(s) \/ FastStart(s) \/ Refresh(s)
    BY <2>1, LoopTypes, LoopRows
  <2>2. CASE Distributed(s)
    BY <2>2, DistributedTypes, DistributedRows
  <2>3. ASSUME NEW t \in Site, Send(s, t) \/ SendFails(s, t)
        PROVE  TypeOK' /\ Sending' /\ Installed'
    BY <2>3, SendTypes, SendRows, SendFailsRows
  <2> QED BY <1>1, <2>1, <2>2, <2>3 DEF LoopStep
<1>2. CASE \/ LeaderChange \/ MeshChange
           \/ \E s \in Site : Crash(s) \/ Restart(s) \/ Expire(s)
  BY <1>2, EnvTypes, EnvRows
<1>3. CASE UNCHANGED vars
  <2>1. TypeOK'
    BY <1>3 DEF vars, TypeOK, siteVars, loopVars
  <2> QED BY <1>3, <2>1, RowsUnmoved DEF vars, siteVars, loopVars
<1> QED BY <1>1, <1>2, <1>3 DEF Next

LEMMA Invariance == Spec => []IInv
  BY InitInv, StepInv, PTL DEF Spec

\* The state of the mesh keeps its types.
THEOREM TypeCorrect == Spec => []TypeOK
  BY Invariance, PTL DEF IInv

\* No forwarding loop once a distribution went through alone: checkForLoops and
\* Distribute's first-error return (centralised.go:258-301) suffice for it.
THEOREM NoLoopOnceSettledHolds == Spec => []NoLoopOnceSettled
<1>1. ASSUME IInv, settled # NoPlan, NEW d \in Members(settled)
      PROVE  Members(settled) \subseteq Reaching([s \in Members(settled) |-> table[s]], d)
  <2>1. settled \in Plans
    BY <1>1 DEF IInv, TypeOK
  <2>2. [s \in Members(settled) |-> table[s]] = [s \in Members(settled) |-> settled[s]]
    BY <1>1 DEF IInv, Installed
  <2>3. [s \in Members(settled) |-> table[s]] = settled
    BY <2>1, <2>2, PlanFacts
  <2>4. Members(settled) \subseteq Reaching(settled, d)
    BY <1>1, <2>1, RouteDistributionAssumption DEF Distributable
  <2> QED BY <2>3, <2>4
<1>2. IInv => NoLoopOnceSettled
  BY <1>1 DEF NoLoopOnceSettled
<1> QED BY <1>2, Invariance, PTL

------------------------------------------------------------------------------
(* Refinement.                                                              *)

LEMMA DeliverCell ==
  ASSUME IInv, NEW s \in Candidates, NEW t \in Site,
         pc[s] = "send", t \in todo[s], Deliver(s, t),
         NEW v \in Site
  PROVE  [Cell(v)!Next]_(Cell(v)!cellVars)
<1>1. plan[s] \in Plans /\ t \in Members(plan[s])
  BY DEF IInv, Sending
<1>2. CASE v = t
  <2>1. table'[t] = plan[s][t] /\ fresh'[t] = TRUE
    BY DEF IInv, TypeOK, Deliver
  <2> QED BY <1>1, <1>2, <2>1 DEF Cell!Next, Cell!Adopt
<1>3. CASE v # t
  BY <1>3 DEF IInv, TypeOK, Deliver, Cell!cellVars
<1> QED BY <1>2, <1>3

LEMMA CellStep ==
  ASSUME IInv, [Next]_vars, NEW v \in Site
  PROVE  [Cell(v)!Next]_(Cell(v)!cellVars)
<1>0. ASSUME UNCHANGED siteVars
      PROVE  [Cell(v)!Next]_(Cell(v)!cellVars)
  BY <1>0 DEF siteVars, Cell!cellVars
<1>1. ASSUME NEW s \in Candidates, LoopStep(s)
      PROVE  [Cell(v)!Next]_(Cell(v)!cellVars)
  <2>1. CASE Tick(s) \/ FastStart(s) \/ Refresh(s) \/ Distributed(s)
    BY <1>0, <2>1 DEF Tick, FastStart, Refresh, Distributed
  <2>2. ASSUME NEW t \in Site, Send(s, t) \/ SendFails(s, t)
        PROVE  [Cell(v)!Next]_(Cell(v)!cellVars)
    BY <1>0, <2>2, DeliverCell DEF Send, SendFails
  <2> QED BY <1>1, <2>1, <2>2 DEF LoopStep
<1>2. CASE LeaderChange \/ MeshChange \/ UNCHANGED vars
  BY <1>0, <1>2 DEF LeaderChange, MeshChange, vars
<1>3. ASSUME NEW s \in Site, Restart(s)
      PROVE  [Cell(v)!Next]_(Cell(v)!cellVars)
  BY <1>0, <1>3 DEF Restart
<1>4. ASSUME NEW s \in Site, Crash(s)
      PROVE  [Cell(v)!Next]_(Cell(v)!cellVars)
  <2>1. CASE v = s
    <3>1. table'[s] = Nothing /\ fresh'[s] = FALSE
      BY <1>4 DEF IInv, TypeOK, Crash
    <3> QED BY <2>1, <3>1 DEF Cell!Next, Cell!Restart
  <2>2. CASE v # s
    BY <1>4, <2>2 DEF IInv, TypeOK, Crash, Cell!cellVars
  <2> QED BY <2>1, <2>2
<1>5. ASSUME NEW s \in Site, Expire(s)
      PROVE  [Cell(v)!Next]_(Cell(v)!cellVars)
  <2>1. CASE v = s
    BY <1>5, <2>1 DEF IInv, TypeOK, Expire, Cell!Next, Cell!Expire
  <2>2. CASE v # s
    BY <1>5, <2>2 DEF IInv, TypeOK, Expire, Cell!cellVars
  <2> QED BY <2>1, <2>2
<1> QED BY <1>1, <1>2, <1>3, <1>4, <1>5 DEF Next

\* Every site of the mesh is the PlanCell that SitePlan implements.
THEOREM SitesAreCellsHolds == Spec => SitesAreCells
<1>1. Init => \A s \in Site : Cell(s)!Init
  BY DEF Init, Cell!Init
<1>2. IInv /\ [Next]_vars => [\A s \in Site : [Cell(s)!Next]_(Cell(s)!cellVars)]_siteVars
  BY CellStep
<1> QED BY <1>1, <1>2, Invariance, PTL DEF Spec, SitesAreCells
------------------------------------------------------------------------------
(* Numbers.                                                                   *)

LEMMA LeastNumber ==
  ASSUME NEW S, S \subseteq Nat, S # {}
  PROVE  \E x \in S : \A y \in S : x <= y
<1> DEFINE T == {0 .. n : n \in S}
           R == StrictSubsetOrdering(Nat)
<1>1. T \subseteq FiniteSubsetsOf(Nat)
  <2> SUFFICES ASSUME NEW n \in S PROVE IsFiniteSet(0 .. n) /\ (0 .. n) \subseteq Nat
    BY DEF FiniteSubsetsOf
  <2>1. n \in Nat /\ 0 \in Int
    OBVIOUS
  <2> QED BY <2>1, FS_Interval
<1>2. IsWellFoundedOn(R, FiniteSubsetsOf(Nat))
  BY FS_StrictSubsetOrderingWellFounded
<1>3. T # {}
  OBVIOUS
<1>4. PICK t \in T : \A s \in T : <<s, t>> \notin R
  <2> HIDE DEF T, R
  <2> QED BY <1>1, <1>2, <1>3, WFMin
<1>5. PICK x \in S : t = 0 .. x
  OBVIOUS
<1>6. ASSUME NEW y \in S, y < x PROVE FALSE
  <2>1. (0 .. y) \in T /\ (0 .. y) \subseteq (0 .. x) /\ (0 .. y) # (0 .. x)
    <3>1. x \in 0 .. x /\ x \notin 0 .. y
      BY <1>6
    <3> QED BY <3>1, <1>6
  <2>2. (0 .. y) \subseteq Nat /\ (0 .. x) \subseteq Nat
    OBVIOUS
  <2>3. <<0 .. y, 0 .. x>> \in R
    BY <2>1, <2>2 DEF StrictSubsetOrdering
  <2> QED BY <2>1, <2>3, <1>4, <1>5
<1> QED BY <1>6

LEMMA IndexInduction ==
  ASSUME NEW n \in Nat, NEW S,
         n >= 1 => 1 \in S,
         \A i \in 1..n - 1 : i \in S => i + 1 \in S
  PROVE  1..n \subseteq S
<1> DEFINE T == (1..n) \ S
<1> SUFFICES ASSUME T # {} PROVE FALSE
  OBVIOUS
<1>1. PICK i \in T : \A j \in T : i <= j
  <2>1. T \subseteq Nat
    OBVIOUS
  <2> HIDE DEF T
  <2> QED BY <2>1, LeastNumber
<1>2. i \in 1..n /\ i # 1 /\ i - 1 \in 1..n - 1 /\ i - 1 \notin T
  BY <1>1
<1> QED BY <1>2

------------------------------------------------------------------------------
(* The plan of the leader: the daemon whose Refresh yields a member of Plans.   *)

\* The measured sites.
Ends == Active(links)

\* A round trip from a over b: there first by measured links, then back by
\* measured links as far as it has not reached a.
RoundTrip(path, a, b) ==
  /\ path \in Seq(Site) /\ Len(path) >= 3
  /\ path[1] = a
  /\ \E m \in 2..Len(path) - 1 :
       /\ path[m] = b
       /\ \A j \in 1..m - 1 : path[j] # b
       /\ \A i \in 1..Len(path) - 1 :
            i < m \/ path[i] # a => <<path[i], path[i + 1]>> \in links

\* The next hops chosen so far go over measured links.
HopsOnLinks ==
  \A s, t \in Site : s # t /\ sites[s][t] # None => <<s, sites[s][t]>> \in links

\* Refresh has chosen hops from s to all sites.
Chosen(s, ts) == \A t \in ts : sites[s][t] # None

\* What the loops have done so far: the sites and targets that are left aside,
\* the hops are there.
Progress ==
  /\ IF refresh = "idle" THEN links = {} ELSE links \in Measured
  /\ srcs \subseteq Ends /\ targets \subseteq Ends
  /\ refresh = "outer" => \A s \in Ends \ srcs : Chosen(s, Ends)
  /\ refresh \in {"inner", "select"} =>
       /\ site \in Ends
       /\ \A s \in Ends \ (srcs \cup {site}) : Chosen(s, Ends)
  /\ refresh = "inner" => Chosen(site, Ends \ targets)
  /\ refresh = "select" =>
       /\ target \in Ends /\ target # site
       /\ Chosen(site, Ends \ (targets \cup {target}))
       /\ \A path \in results : RoundTrip(path, site, target)
  /\ refresh \in {"check", "distribute"} => \A s \in Ends : Chosen(s, Ends)
  /\ refresh = "distribute" => ~LoopDetected(sites)

PlanInv == RefreshTypeOK /\ HopsOnLinks /\ Progress

------------------------------------------------------------------------------
(* The walk of a packet.                                                      *)

LEMMA MeshFacts ==
  /\ IsFiniteSet(Site) /\ Cardinality(Site) \in Nat /\ Cardinality(Site) >= 2
  /\ Site \subseteq Nat /\ None \notin Site
  /\ \A ls \in Measured : /\ Active(ls) \subseteq Site /\ Active(ls) # {}
                          /\ ls \subseteq Site \X Site
                          /\ \A s, t \in Site : <<s, t>> \in ls =>
                               s \in Active(ls) /\ t \in Active(ls)
<1>1. /\ IsFiniteSet(Site) /\ Cardinality(Site) \in 2..4 /\ Site \subseteq Nat
      /\ \A ls \in Measured : ls # {} /\ ls \subseteq Site \X Site
  BY RoutePlanAssumption
<1>2. None \notin Site
  BY <1>1 DEF None
<1>3. ASSUME NEW ls \in Measured
      PROVE  /\ Active(ls) \subseteq Site /\ Active(ls) # {}
             /\ \A s, t \in Site : <<s, t>> \in ls =>
                  s \in Active(ls) /\ t \in Active(ls)
  BY <1>1, <1>3 DEF Active
<1> QED
  BY <1>1, <1>2, <1>3

\* w follows the plan towards dst for n hops.
Follows(w, n, next, dst, via) ==
  /\ w[0] = via
  /\ \A k \in 1..n : w[k] = IF w[k - 1] \in Site THEN next[w[k - 1]][dst] ELSE None

LEMMA WalkExists ==
  ASSUME NEW n \in Nat, NEW next, NEW dst, NEW via
  PROVE  \E w : w = [k \in 0..n |-> w[k]] /\ Follows(w, n, next, dst, via)
<1> DEFINE P(k, w) == w = [i \in 0..k |-> w[i]] /\ Follows(w, k, next, dst, via)
           S == {k \in 1..n : \E w : P(k, w)}
<1>1. ASSUME NEW k \in Nat, NEW w, P(k, w) PROVE \E v : P(k + 1, v)
  <2> DEFINE x == IF w[k] \in Site THEN next[w[k]][dst] ELSE None
             v == [i \in 0..k + 1 |-> IF i = k + 1 THEN x ELSE w[i]]
  <2> HIDE DEF x
  <2>1. v = [i \in 0..k + 1 |-> v[i]] /\ v[0] = w[0] /\ v[k + 1] = x /\ v[k] = w[k]
    OBVIOUS
  <2>2. ASSUME NEW i \in 1..k + 1
        PROVE  v[i] = IF v[i - 1] \in Site THEN next[v[i - 1]][dst] ELSE None
    <3>1. CASE i = k + 1
      BY <2>1, <3>1 DEF x
    <3>2. CASE i \in 1..k
      <4>1. v[i] = w[i] /\ v[i - 1] = w[i - 1]
        BY <3>2
      <4> QED
        BY <1>1, <3>2, <4>1 DEF Follows
    <3> QED
      BY <3>1, <3>2
  <2>3. P(k + 1, v)
    <3> HIDE DEF v
    <3> QED
      BY <1>1, <2>1, <2>2 DEF Follows
  <2> HIDE DEF P, v
  <2> QED
    BY <2>3
<1>2. \E w : P(0, w)
  <2> DEFINE v == [i \in 0..0 |-> via]
  <2>1. P(0, v)
    BY DEF Follows
  <2> HIDE DEF P, v
  <2> QED
    BY <2>1
<1>3. CASE n = 0
  <2> HIDE DEF P
  <2>1. \E w : P(n, w)
    BY <1>2, <1>3
  <2> QED
    BY <2>1 DEF P
<1>4. CASE n >= 1
  <2> HIDE DEF P
  <2>1. 1 \in S
    <3>1. PICK w : P(0, w)
      BY <1>2
    <3>2. \E v : P(0 + 1, v)
      BY <1>1, <3>1
    <3> QED
      BY <1>4, <3>2
  <2>2. \A k \in 1..n - 1 : k \in S => k + 1 \in S
    BY <1>1
  <2>3. 1..n \subseteq S
    <3> HIDE DEF S
    <3> QED
      BY <2>1, <2>2, IndexInduction
  <2>4. \E w : P(n, w)
    BY <1>4, <2>3
  <2> QED
    BY <2>4 DEF P
<1> QED
  BY <1>3, <1>4

LEMMA WalkFollows ==
  ASSUME NEW next, NEW dst, NEW via
  PROVE  Follows(Walk(next, dst, via), Cardinality(Site) + 1, next, dst, via)
<1> DEFINE n == Cardinality(Site) + 1
           Rec(g) == g = [k \in 0..Cardinality(Site) + 1 |->
                            IF k = 0 THEN via
                            ELSE IF g[k - 1] \in Site THEN next[g[k - 1]][dst] ELSE None]
           w == CHOOSE g : Rec(g)
<1>1. n \in Nat /\ n = Cardinality(Site) + 1
  BY MeshFacts
<1>2. PICK f : f = [k \in 0..n |-> f[k]] /\ Follows(f, n, next, dst, via)
  BY <1>1, WalkExists
<1>3. Rec(f)
  <2>1. ASSUME NEW k \in 0..n
        PROVE  f[k] = IF k = 0 THEN via
                      ELSE IF f[k - 1] \in Site THEN next[f[k - 1]][dst] ELSE None
    <3>1. CASE k = 0
      BY <1>2, <3>1 DEF Follows
    <3>2. CASE k # 0
      <4>1. k \in 1..n
        BY <1>1, <3>2
      <4> HIDE DEF n
      <4> QED
        BY <1>2, <3>2, <4>1 DEF Follows
    <3> QED
      BY <3>1, <3>2
  <2>2. f = [k \in 0..n |-> IF k = 0 THEN via
                            ELSE IF f[k - 1] \in Site THEN next[f[k - 1]][dst] ELSE None]
    <3> HIDE DEF n
    <3> QED
      BY <1>2, <2>1, Zenon
  <2> QED
    BY <1>1, <2>2
<1>4. Rec(w)
  <2>1. \E g : Rec(g)
    BY <1>3
  <2> HIDE DEF Rec
  <2> QED
    BY <2>1
<1>5. Walk(next, dst, via) = w
  BY DEF Walk, None
<1>6. Follows(w, n, next, dst, via)
  <2>1. w = [k \in 0..n |-> IF k = 0 THEN via
                            ELSE IF w[k - 1] \in Site THEN next[w[k - 1]][dst] ELSE None]
    <3> HIDE DEF w
    <3> QED
      BY <1>1, <1>4
  <2> HIDE DEF w, n
  <2>2. w[0] = via
    <3>1. 0 \in 0..n
      BY <1>1
    <3> QED
      BY <2>1, <3>1
  <2>3. ASSUME NEW k \in 1..n
        PROVE  w[k] = IF w[k - 1] \in Site THEN next[w[k - 1]][dst] ELSE None
    <3>1. k \in 0..n /\ k # 0
      BY <1>1
    <3> QED
      BY <2>1, <3>1
  <2> QED
    BY <2>2, <2>3 DEF Follows
<1> QED
  BY <1>5, <1>6

\* Hops of a plan lead from site to site over measured links.
LEMMA HopIsLink ==
  ASSUME RefreshTypeOK, HopsOnLinks, links \in Measured,
         \A x \in Ends : Chosen(x, Ends),
         NEW s \in Ends, NEW t \in Ends, s # t
  PROVE  sites[s][t] \in Ends /\ <<s, sites[s][t]>> \in links
<1>1. Ends \subseteq Site
  BY MeshFacts DEF Ends
<1>2. sites[s][t] \in Site
  BY <1>1 DEF RefreshTypeOK, Chosen, None
<1>3. <<s, sites[s][t]>> \in links
  BY <1>1 DEF Chosen, HopsOnLinks
<1> QED
  BY <1>1, <1>2, <1>3, MeshFacts DEF Ends

\* The walk stays on the measured sites and links until it arrives.
LEMMA WalkOnLinks ==
  ASSUME RefreshTypeOK, HopsOnLinks, links \in Measured,
         \A x \in Ends : Chosen(x, Ends),
         NEW s \in Ends, NEW t \in Ends, s # t,
         NEW n \in 0..Cardinality(Site), NEW w,
         Follows(w, Cardinality(Site) + 1, sites, t, s),
         \A j \in 1..n : w[j] # t
  PROVE  /\ \A j \in 0..n : w[j] \in Ends \ {t}
         /\ \A j \in 0..n : w[j + 1] = sites[w[j]][t] /\ <<w[j], w[j + 1]>> \in links
<1>1. Cardinality(Site) \in Nat /\ n \in Nat /\ Ends \subseteq Site
  BY MeshFacts DEF Ends
<1>2. ASSUME NEW j \in 0..n, w[j] \in Ends \ {t}
      PROVE  /\ w[j + 1] = sites[w[j]][t]
             /\ w[j + 1] \in Ends
             /\ <<w[j], w[j + 1]>> \in links
  <2>1. j + 1 \in 1..Cardinality(Site) + 1 /\ (j + 1) - 1 = j
    BY <1>1
  <2>2. w[j + 1] = sites[w[j]][t]
    BY <1>1, <1>2, <2>1 DEF Follows
  <2> QED
    BY <1>2, <2>2, HopIsLink
<1>3. w[0] = s
  BY DEF Follows
<1>4. \A j \in 1..n : w[j] \in Ends \ {t}
  <2> DEFINE S == {j \in 1..n : w[j] \in Ends \ {t}}
  <2>1. n >= 1 => 1 \in S
    <3> HAVE n >= 1
    <3>1. 0 \in 0..n /\ 0 + 1 = 1 /\ 1 \in 1..n
      BY <1>1
    <3> QED
      BY <1>2, <1>3, <3>1
  <2>2. \A j \in 1..n - 1 : j \in S => j + 1 \in S
    <3> TAKE j \in 1..n - 1
    <3> HAVE j \in S
    <3>1. j \in 0..n /\ j + 1 \in 1..n
      BY <1>1
    <3> QED
      BY <1>2, <3>1
  <2>3. 1..n \subseteq S
    <3> HIDE DEF S
    <3> QED
      BY <1>1, <2>1, <2>2, IndexInduction
  <2> QED
    BY <2>3
<1>5. \A j \in 0..n : w[j] \in Ends \ {t}
  <2> TAKE j \in 0..n
  <2>1. j = 0 \/ j \in 1..n
    BY <1>1
  <2> QED
    BY <1>3, <1>4, <2>1
<1> QED
  BY <1>2, <1>5

\* A walk that does not arrive within as many hops as there are sites visits
\* one of them twice, which checkForLoops finds.
LEMMA LateWalkLoops ==
  ASSUME RefreshTypeOK, HopsOnLinks, links \in Measured,
         \A x \in Ends : Chosen(x, Ends),
         NEW s \in Ends, NEW t \in Ends, s # t,
         NEW w, Follows(w, Cardinality(Site) + 1, sites, t, s),
         \A j \in 1..Cardinality(Site) : w[j] # t
  PROVE  LoopDetected(sites)
<1> DEFINE N == Cardinality(Site)
           node == Walk(sites, t, sites[s][t])
<1>1. N \in Nat /\ N >= 2 /\ Ends \subseteq Site /\ IsFiniteSet(Site) /\ N \in 0..N
      /\ N = Cardinality(Site)
  BY MeshFacts DEF Ends
<1>2. /\ \A j \in 0..N : w[j] \in Ends \ {t}
      /\ \A j \in 0..N : w[j + 1] = sites[w[j]][t]
  <2>1. Cardinality(Site) \in 0..Cardinality(Site)
    BY <1>1
  <2>2. /\ \A j \in 0..Cardinality(Site) : w[j] \in Ends \ {t}
        /\ \A j \in 0..Cardinality(Site) :
             w[j + 1] = sites[w[j]][t] /\ <<w[j], w[j + 1]>> \in links
    BY <2>1, WalkOnLinks
  <2> QED
    BY <2>2
<1>3. PICK i, j \in 1..N : i < j /\ w[i] = w[j]
  <2> DEFINE f == [k \in 1..N |-> w[k]]
             T == Site \ {t}
  <2>1. IsFiniteSet(1..N) /\ Cardinality(1..N) = N
    <3>1. 1 \in Int /\ N \in Int /\ 1 <= N /\ N - 1 + 1 = N
      BY <1>1
    <3> HIDE DEF N
    <3> QED
      BY <3>1, FS_Interval
  <2>2. IsFiniteSet(T) /\ Cardinality(T) = N - 1
    <3>1. t \in Site
      BY <1>1
    <3> QED
      BY <1>1, <3>1, FS_RemoveElement
  <2>3. f \in [1..N -> T]
    <3>1. \A k \in 1..N : w[k] \in T
      BY <1>1, <1>2
    <3> QED
      BY <3>1
  <2>4. \E x, y \in 1..N : x # y /\ f[x] = f[y]
    <3>1. Cardinality(T) < Cardinality(1..N)
      BY <1>1, <2>1, <2>2
    <3> HIDE DEF f, T, N
    <3> QED
      BY <2>1, <2>2, <2>3, <3>1, FS_PigeonHole
  <2> HIDE DEF N
  <2> QED
    BY <1>1, <2>4
<1>4. Follows(node, N + 1, sites, t, sites[s][t])
  BY WalkFollows
<1> HIDE DEF node
<1>5. w[0] = s /\ sites[s][t] = w[1] /\ w[1] # t
  <2>1. 0 \in 0..N /\ 0 + 1 = 1 /\ 1 \in 0..N
    BY <1>1
  <2> QED
    BY <1>2, <2>1 DEF Follows
<1>6. node[0] = w[1]
  BY <1>4, <1>5 DEF Follows
<1> HIDE DEF N
<1>7. \A k \in 0..N : node[k] = w[k + 1]
  <2>1. ASSUME NEW k \in 1..N, node[k - 1] = w[(k - 1) + 1]
        PROVE  node[k] = w[k + 1]
    <3>1. (k - 1) + 1 = k /\ k \in 1..N + 1 /\ k \in 0..N
      BY <1>1
    <3>2. node[k - 1] \in Site
      BY <1>1, <1>2, <2>1, <3>1
    <3> QED
      BY <1>2, <1>4, <2>1, <3>1, <3>2 DEF Follows
  <2> DEFINE S == {k \in 1..N : node[k] = w[k + 1]}
  <2>2. 1 \in S
    <3>1. 1 \in 1..N /\ 1 - 1 = 0 /\ 0 + 1 = 1
      BY <1>1
    <3> QED
      BY <1>6, <2>1, <3>1
  <2>3. \A k \in 1..N - 1 : k \in S => k + 1 \in S
    <3> TAKE k \in 1..N - 1
    <3> HAVE k \in S
    <3>1. k + 1 \in 1..N /\ (k + 1) - 1 = k
      BY <1>1
    <3> QED
      BY <2>1, <3>1
  <2>4. 1..N \subseteq S
    <3> HIDE DEF S
    <3> QED
      BY <1>1, <2>2, <2>3, IndexInduction
  <2> TAKE k \in 0..N
  <2>5. (k = 0 /\ k + 1 = 1) \/ k \in 1..N
    BY <1>1
  <2> QED
    BY <1>6, <2>4, <2>5
<1>8. /\ j - 2 \in 0..N
      /\ node[(j - 2) + 1] \in {node[k] : k \in 0..j - 2}
  <2>1. /\ j - 2 \in 0..N /\ (j - 2) + 1 \in 0..N /\ ((j - 2) + 1) + 1 = j
        /\ i - 1 \in 0..j - 2 /\ i - 1 \in 0..N /\ (i - 1) + 1 = i
    BY <1>1, <1>3
  <2> QED
    BY <1>3, <1>7, <2>1
<1>9. \A k \in 0..j - 2 : node[k] \in Site /\ node[k] # t
  <2> TAKE k \in 0..j - 2
  <2>1. k \in 0..N /\ k + 1 \in 0..N
    BY <1>1, <1>3
  <2> QED
    BY <1>1, <1>2, <1>7, <2>1
<1>10. \A k \in 1..j - 2 : node[k] # t
  BY <1>1, <1>9
<1>11. s \in Site /\ t \in Site /\ sites[s][t] # t
  BY <1>1, <1>5
<1> QED
  BY <1>1, <1>8, <1>9, <1>10, <1>11 DEF LoopDetected, node

\* A complete plan over measured links in which no loop is found forwards.
LEMMA CompletePlanForwards ==
  ASSUME RefreshTypeOK, HopsOnLinks, links \in Measured,
         \A x \in Ends : Chosen(x, Ends), ~LoopDetected(sites)
  PROVE  PlanForwards
<1> DEFINE N == Cardinality(Site)
<1>1. N \in Nat /\ N = Cardinality(Site)
  BY MeshFacts
<1>2. ASSUME NEW s \in Ends, NEW t \in Ends, s # t, NEW w,
             Follows(w, N + 1, sites, t, s)
      PROVE  \E k \in 1..N : /\ w[k] = t
                             /\ \A j \in 0..k - 1 : <<w[j], w[j + 1]>> \in links
  <2> DEFINE S == {k \in 1..N : w[k] = t}
  <2>1. S # {}
    BY <1>2, LateWalkLoops
  <2>2. PICK k \in S : \A j \in S : k <= j
    <3>1. S \subseteq Nat
      BY <1>1
    <3> HIDE DEF S
    <3> QED
      BY <2>1, <3>1, LeastNumber
  <2>3. k - 1 \in 0..N /\ \A j \in 1..k - 1 : w[j] # t
    BY <1>1, <2>2
  <2>4. \A j \in 0..k - 1 : <<w[j], w[j + 1]>> \in links
    BY <1>2, <2>3, WalkOnLinks
  <2> QED
    BY <2>4
<1>3. ASSUME NEW s \in Ends, NEW t \in Ends
      PROVE  Follows(Walk(sites, t, s), N + 1, sites, t, s)
  BY WalkFollows
<1> HIDE DEF N
<1> QED
  BY <1>1, <1>2, <1>3 DEF PlanForwards, Ends

------------------------------------------------------------------------------
(* The round trips.                                                           *)

\* A simple path from a to b over measured links.
Path(p, a, b) ==
  /\ p \in Seq(Site) /\ Len(p) \in Nat /\ Len(p) >= 2
  /\ p[1] = a /\ p[Len(p)] = b
  /\ \A i, j \in 1..Len(p) : p[i] = p[j] => i = j
  /\ \A i \in 1..Len(p) - 1 : <<p[i], p[i + 1]>> \in links

LEMMA TopPathsArePaths ==
  ASSUME links \in Measured, NEW a \in Site, NEW b \in Site,
         NEW ps \in TopPaths(a, b), NEW p \in ps
  PROVE  Path(p, a, b)
<1>1. Cardinality(Site) \in Nat
  BY MeshFacts
<1> DEFINE Simple(q, ls, from, to) ==
             /\ q[1] = from /\ q[Len(q)] = to
             /\ \A i, j \in 1..Len(q) : q[i] = q[j] => i = j
             /\ \A i \in 1..Len(q) - 1 : <<q[i], q[i + 1]>> \in ls
           All == UNION {[1..k -> Site] : k \in 2..Cardinality(Site)}
           From(ls) == [ends \in Site \X Site |->
                          {q \in All : Simple(q, ls, ends[1], ends[2])}]
<1>2. p \in From(links)[<<a, b>>]
  <2>1. p \in [ls \in Measured |-> From(ls)][links][<<a, b>>]
    BY DEF TopPaths, PathsBy
  <2> HIDE DEF From
  <2> QED
    BY <2>1
<1>4. From(links)[<<a, b>>] = {q \in All : Simple(q, links, a, b)}
  <2> HIDE DEF All, Simple
  <2> QED
    OBVIOUS
<1>5. p \in All /\ Simple(p, links, a, b)
  <2> HIDE DEF All, Simple, From
  <2> QED
    BY <1>2, <1>4
<1>6. PICK k \in 2..Cardinality(Site) : p \in [1..k -> Site]
  BY <1>1, <1>5
<1> HIDE DEF All, From
<1>3. p \in Seq(Site) /\ Len(p) = k
  BY <1>1, <1>6
<1> QED
  BY <1>1, <1>3, <1>5, <1>6 DEF Path

\* p there, and back along x and, as far as x is shorter, along y.
LEMMA JoinedTrip ==
  ASSUME NEW a \in Site, NEW b \in Site, NEW p, NEW x, NEW y,
         Path(p, a, b), Path(x, b, a), Path(y, b, a),
         NEW back \in Seq(Site), Len(back) >= 1, Len(back) < Len(y),
         \A r \in 1..Len(back) : back[r] = IF r < Len(x) THEN x[r + 1] ELSE y[r + 1]
  PROVE  RoundTrip(p \o back, a, b)
<1> DEFINE path == p \o back
           m == Len(p)
<1>1. /\ p \in Seq(Site) /\ m \in Nat /\ m >= 2 /\ Len(back) \in Nat
      /\ p[1] = a /\ p[m] = b
      /\ Len(x) \in Nat /\ Len(x) >= 2 /\ x[1] = b /\ x[Len(x)] = a
      /\ Len(y) \in Nat /\ Len(y) >= 2 /\ y[1] = b
  BY DEF Path
<1>2. /\ path \in Seq(Site) /\ Len(path) = m + Len(back)
      /\ \A i \in 1..m : path[i] = p[i]
      /\ \A r \in 1..Len(back) : path[m + r] = back[r]
  BY <1>1
<1> HIDE DEF path, m
<1>3. m \in 2..Len(path) - 1 /\ Len(path) >= 3 /\ 1 \in 1..m /\ m \in 1..m
  BY <1>1, <1>2
<1>4. path[1] = a /\ path[m] = b
  BY <1>1, <1>2, <1>3
<1>5. \A j \in 1..m - 1 : path[j] # b
  <2> TAKE j \in 1..m - 1
  <2>1. j \in 1..m /\ j # m
    BY <1>1
  <2> QED
    BY <1>1, <1>2, <1>3, <2>1 DEF Path, m
<1>6. ASSUME NEW i \in 1..Len(path) - 1, i < m \/ path[i] # a
      PROVE  <<path[i], path[i + 1]>> \in links
  <2>1. CASE i < m
    <3>1. i \in 1..m - 1 /\ i \in 1..m /\ i + 1 \in 1..m
      BY <1>1, <1>2, <2>1
    <3> QED
      BY <1>2, <3>1 DEF Path, m
  <2>2. CASE i >= m
    <3> DEFINE r == i - m
    <3>1. /\ r \in 0..Len(back) - 1 /\ r + 1 \in 1..Len(back)
          /\ m + r = i /\ m + (r + 1) = i + 1
      BY <1>1, <1>2, <2>2
    <3> HIDE DEF r
    <3>2. path[i + 1] = back[r + 1]
      BY <1>2, <3>1
    <3>3. path[i] = IF r + 1 <= Len(x) THEN x[r + 1] ELSE y[r + 1]
      <4>1. CASE r = 0
        BY <1>1, <1>4, <3>1, <4>1
      <4>2. CASE r # 0
        <5>1. r \in 1..Len(back)
          BY <1>1, <3>1, <4>2
        <5>3. path[i] = back[r]
          <6>1. path[m + r] = back[r]
            BY <1>2, <5>1
          <6> QED
            BY <3>1, <6>1
        <5>2. r < Len(x) <=> r + 1 <= Len(x)
          BY <1>1, <3>1
        <5> QED
          BY <5>1, <5>2, <5>3
      <4> QED
        BY <4>1, <4>2
    <3>4. CASE r + 1 < Len(x)
      <4>1. path[i] = x[r + 1] /\ path[i + 1] = x[(r + 1) + 1]
        BY <1>1, <3>1, <3>2, <3>3, <3>4
      <4>2. r + 1 \in 1..Len(x) - 1
        BY <1>1, <3>1, <3>4
      <4> QED
        BY <4>1, <4>2 DEF Path
    <3>5. CASE r + 1 = Len(x)
      <4>1. path[i] = a
        BY <1>1, <3>1, <3>3, <3>5
      <4> QED
        BY <1>6, <2>2, <4>1, <1>1, <1>2
    <3>6. CASE r + 1 > Len(x)
      <4>1. path[i] = y[r + 1] /\ path[i + 1] = y[(r + 1) + 1]
        BY <1>1, <3>1, <3>2, <3>3, <3>6
      <4>2. r + 1 \in 1..Len(y) - 1
        BY <1>1, <3>1
      <4> QED
        BY <4>1, <4>2 DEF Path
    <3> QED
      BY <1>1, <3>1, <3>4, <3>5, <3>6
  <2> QED
    BY <1>1, <1>2, <2>1, <2>2
<1> QED
  BY <1>2, <1>3, <1>4, <1>5, <1>6 DEF RoundTrip, path

LEMMA ConcatEntries ==
  ASSUME NEW S, NEW s \in Seq(S), NEW t \in Seq(S)
  PROVE  /\ s \o t \in Seq(S) /\ Len(s \o t) = Len(s) + Len(t)
         /\ \A i \in 1..Len(s) : (s \o t)[i] = s[i]
         /\ \A i \in 1..Len(t) : (s \o t)[Len(s) + i] = t[i]
OBVIOUS

\* What the spare room holds: x, and y where x has ended.
LEMMA OverlayEntries ==
  ASSUME NEW x \in Seq(Site), NEW y \in Seq(Site), Len(x) >= 2, Len(y) >= 2,
         NEW n \in Nat, n >= 2, n <= Len(y)
  PROVE  \E back \in Seq(Site) :
           /\ back = SubSeq(Overlay(x, y), 1, n - 1) /\ Len(back) = n - 1
           /\ \A r \in 1..n - 1 : back[r] = IF r < Len(x) THEN x[r + 1] ELSE y[r + 1]
<1> DEFINE k == Len(x)
           l == Len(y)
           t == Tail(x)
           q == Tail(y)
           u == SubSeq(q, k, l - 1)
           spare == Overlay(x, y)
           back == SubSeq(spare, 1, n - 1)
<1>1. k \in Nat /\ l \in Nat
  OBVIOUS
<1>2. /\ t \in Seq(Site) /\ Len(t) = k - 1
      /\ \A r \in 1..k - 1 : t[r] = x[r + 1]
  OBVIOUS
<1>3. /\ q \in Seq(Site) /\ Len(q) = l - 1
      /\ \A r \in 1..l - 1 : q[r] = y[r + 1]
  OBVIOUS
<1> HIDE DEF k, l, t, q
<1>4. /\ u \in Seq(Site)
      /\ Len(u) = IF k <= l - 1 THEN l - k ELSE 0
      /\ \A r \in 1..Len(u) : u[r] = q[k + r - 1]
  <2>1. k >= 2
    BY DEF k
  <2> QED
    BY <1>1, <1>3, <2>1
<1>5. spare = t \o u
  BY DEF k, l, t, q, Overlay
<1> HIDE DEF u, spare
<1>6. /\ spare \in Seq(Site) /\ Len(spare) = (k - 1) + Len(u)
      /\ \A r \in 1..k - 1 : spare[r] = t[r]
      /\ \A r \in 1..Len(u) : spare[(k - 1) + r] = u[r]
  <2>1. u \in Seq(Site) /\ t \in Seq(Site) /\ Len(t) = k - 1
    BY <1>2, <1>4
  <2>2. /\ spare \in Seq(Site) /\ Len(spare) = Len(t) + Len(u)
        /\ \A i \in 1..Len(t) : spare[i] = t[i]
        /\ \A i \in 1..Len(u) : spare[Len(t) + i] = u[i]
    <3>1. \A s, v \in Seq(Site) :
            /\ s \o v \in Seq(Site) /\ Len(s \o v) = Len(s) + Len(v)
            /\ \A i \in 1..Len(s) : (s \o v)[i] = s[i]
            /\ \A i \in 1..Len(v) : (s \o v)[Len(s) + i] = v[i]
      BY ConcatEntries
    <3>2. u \in Seq(Site) /\ t \in Seq(Site)
      BY <2>1
    <3>3. /\ t \o u \in Seq(Site) /\ Len(t \o u) = Len(t) + Len(u)
          /\ \A i \in 1..Len(t) : (t \o u)[i] = t[i]
          /\ \A i \in 1..Len(u) : (t \o u)[Len(t) + i] = u[i]
      BY <3>1, <3>2, Zenon
    <3> QED
      BY <1>5, <3>3, Zenon
  <2> QED
    BY <2>1, <2>2
<1> HIDE DEF back
<1>7. n - 1 <= Len(spare)
  BY <1>1, <1>4, <1>6 DEF k, l
<1>8. /\ back \in Seq(Site) /\ Len(back) = n - 1
      /\ \A r \in 1..n - 1 : back[r] = spare[r]
  BY <1>6, <1>7 DEF back
<1>9. ASSUME NEW r \in 1..n - 1
      PROVE  spare[r] = IF r < k THEN x[r + 1] ELSE y[r + 1]
  <2>1. CASE r < k
    <3>1. r \in 1..k - 1
      BY <1>1, <2>1
    <3> QED
      BY <1>2, <1>6, <2>1, <3>1
  <2>2. CASE r >= k
    <3> DEFINE e == r - (k - 1)
    <3>1. e \in 1..Len(u) /\ (k - 1) + e = r /\ k + e - 1 = r /\ r \in 1..l - 1
      BY <1>1, <1>4, <2>2 DEF l
    <3> HIDE DEF e
    <3>2. spare[(k - 1) + e] = u[e] /\ u[e] = q[k + e - 1]
      BY <1>4, <1>6, <3>1
    <3>3. spare[r] = q[r]
      BY <3>1, <3>2
    <3>4. q[r] = y[r + 1] /\ ~(r < k)
      BY <1>1, <1>3, <2>2, <3>1
    <3> QED
      BY <3>3, <3>4
  <2>3. r < k \/ r >= k
    BY <1>1
  <2> QED
    BY <2>1, <2>2, <2>3, Zenon
<1> QED
  BY <1>8, <1>9 DEF k, back, spare

\* append: whatever goroutine wrote the spare room of p last, the result is a
\* round trip from a over b, though not always the one that was meant.
LEMMA FullPathIsTrip ==
  ASSUME links \in Measured, NEW a \in Site, NEW b \in Site,
         NEW ps \in TopPaths(a, b), NEW p \in ps,
         NEW rets \in TopPaths(b, a), NEW ret \in rets,
         NEW spare \in Spare(p, rets)
  PROVE  RoundTrip(FullPath(p, ret, spare), a, b)
<1>1. Path(p, a, b) /\ \A u \in rets : Path(u, b, a)
  BY TopPathsArePaths
<1>2. \A u \in rets : u \in Seq(Site) /\ Len(u) \in Nat /\ Len(u) >= 2
  BY <1>1 DEF Path
<1>3. CASE ~Fits(p, ret)
  <2>1. /\ Tail(ret) \in Seq(Site) /\ Len(Tail(ret)) = Len(ret) - 1
        /\ \A r \in 1..Len(ret) - 1 : Tail(ret)[r] = ret[r + 1]
    BY <1>2
  <2>2. FullPath(p, ret, spare) = p \o Tail(ret)
    BY <1>3 DEF FullPath
  <2>3. RoundTrip(p \o Tail(ret), a, b)
    <3> DEFINE back == Tail(ret)
    <3>1. /\ back \in Seq(Site) /\ Len(back) >= 1 /\ Len(back) < Len(ret)
          /\ \A r \in 1..Len(back) : back[r] = IF r < Len(ret) THEN ret[r + 1] ELSE ret[r + 1]
      BY <1>2, <2>1
    <3>2. Path(ret, b, a)
      BY <1>1
    <3> HIDE DEF back
    <3>3. RoundTrip(p \o back, a, b)
      BY <1>1, <3>1, <3>2, JoinedTrip
    <3> QED
      BY <3>3 DEF back
  <2> QED
    BY <2>2, <2>3
<1>4. CASE Fits(p, ret)
  <2> DEFINE fits == {v \in rets : Fits(p, v)}
             back == SubSeq(spare, 1, Len(ret) - 1)
  <2>1. ret \in fits
    BY <1>4
  <2>2. PICK x \in fits, y \in fits :
          /\ \A u \in fits : Len(u) <= Len(y)
          /\ spare = Overlay(x, y)
    <3> DEFINE longest == {v \in fits : \A u \in fits : Len(u) <= Len(v)}
    <3>1. spare \in {Overlay(x, y) : x \in fits, y \in longest}
      BY <2>1 DEF Spare
    <3> HIDE DEF fits, longest
    <3>2. PICK x \in fits, y \in longest : spare = Overlay(x, y)
      BY <3>1
    <3>3. y \in fits /\ \A u \in fits : Len(u) <= Len(y)
      BY DEF longest
    <3> QED
      BY <3>2, <3>3
  <2>3. Len(ret) <= Len(y)
    BY <2>1, <2>2
  <2>4. /\ back \in Seq(Site) /\ Len(back) = Len(ret) - 1
        /\ \A r \in 1..Len(back) : back[r] = IF r < Len(x) THEN x[r + 1] ELSE y[r + 1]
    <3>1. /\ x \in Seq(Site) /\ y \in Seq(Site) /\ ret \in Seq(Site)
          /\ Len(x) \in Nat /\ Len(x) >= 2 /\ Len(y) \in Nat /\ Len(y) >= 2
          /\ Len(ret) \in Nat /\ Len(ret) >= 2
      BY <1>2, <2>2
    <3>2. back = SubSeq(Overlay(x, y), 1, Len(ret) - 1)
      BY <2>2
    <3>3. PICK n \in Nat : n = Len(ret) /\ n >= 2 /\ n <= Len(y)
      BY <2>3, <3>1
    <3>4. PICK s \in Seq(Site) :
            /\ s = SubSeq(Overlay(x, y), 1, n - 1) /\ Len(s) = n - 1
            /\ \A r \in 1..n - 1 : s[r] = IF r < Len(x) THEN x[r + 1] ELSE y[r + 1]
      <4>1. \A x1, y1 \in Seq(Site) : Len(x1) >= 2 /\ Len(y1) >= 2 /\ n <= Len(y1) =>
              \E s \in Seq(Site) :
                /\ s = SubSeq(Overlay(x1, y1), 1, n - 1) /\ Len(s) = n - 1
                /\ \A r \in 1..n - 1 : s[r] = IF r < Len(x1) THEN x1[r + 1] ELSE y1[r + 1]
        BY <3>3, OverlayEntries
      <4>2. x \in Seq(Site) /\ y \in Seq(Site) /\ Len(x) >= 2 /\ Len(y) >= 2 /\ n <= Len(y)
        BY <3>1, <3>3
      <4> HIDE DEF fits
      <4> QED
        BY <4>1, <4>2, Zenon
    <3>5. back = s
      BY <3>2, <3>3, <3>4
    <3> HIDE DEF back, fits
    <3> QED
      BY <3>3, <3>4, <3>5
  <2>5. FullPath(p, ret, spare) = p \o back
    BY <1>4 DEF FullPath
  <2>6. Path(x, b, a) /\ Path(y, b, a) /\ Len(back) >= 1 /\ Len(back) < Len(y)
    BY <1>1, <1>2, <2>2, <2>3, <2>4
  <2> HIDE DEF back, fits
  <2>7. RoundTrip(p \o back, a, b)
    BY <1>1, <2>4, <2>6, JoinedTrip
  <2> QED
    BY <2>5, <2>7
<1> QED
  BY <1>3, <1>4

------------------------------------------------------------------------------
(* The selection.                                                             *)

\* Up to the first visit of the target, hops go to the column of the target.
LEMMA ColumnOf ==
  ASSUME NEW path \in Seq(Site), NEW m \in 2..Len(path) - 1,
         path[m] = target, \A j \in 1..m - 1 : path[j] # target, NEW i
  PROVE  Column(path, i) = IF i < m THEN target ELSE site
<1> DEFINE First(k) == path[k] = target /\ \A j \in 1..k - 1 : path[j] # target
<1>1. m \in 1..Len(path) /\ First(m)
  OBVIOUS
<1>2. ASSUME NEW k \in 1..Len(path), First(k) PROVE k = m
  <2>1. Len(path) \in Nat /\ k \in Nat /\ m \in Nat /\ k >= 1 /\ m >= 1
    BY <1>1
  <2>2. ~(k < m) /\ ~(m < k)
    BY <1>1, <1>2, <2>1
  <2> QED
    BY <2>1, <2>2
<1>3. (CHOOSE k \in 1..Len(path) : First(k)) = m
  <2> HIDE DEF First
  <2> QED
    BY <1>1, <1>2
<1> QED
  BY <1>3 DEF Column

\* Select writes hops of the round trip, and only into their columns.
LEMMA SelectedHops ==
  ASSUME RefreshTypeOK, NEW path \in results, Select(path)
  PROVE  LET hops == 1..Len(path) - 2
             bad == {i \in hops : Contradicts(path, i)}
         IN /\ sites' = [s \in Site |-> [t \in Site |-> sites'[s][t]]]
            /\ \A s, t \in Site :
                 \/ sites'[s][t] = sites[s][t]
                 \/ \E i \in hops : /\ path[i] = s /\ Column(path, i) = t
                                    /\ sites'[s][t] = path[i + 1]
            /\ bad = {} =>
                 \A i \in hops, s, t \in Site :
                   path[i] = s /\ Column(path, i) = t =>
                     \E j \in hops : sites'[s][t] = path[j + 1]
<1> DEFINE hops == 1..Len(path) - 2
           bad == {i \in hops : Contradicts(path, i)}
           kept == {i \in hops : \A j \in bad : i < j}
           At(i, s, t) == path[i] = s /\ Column(path, i) = t
           New(s, t) == IF \E i \in kept : At(i, s, t)
                        THEN path[1 + CHOOSE i \in kept : At(i, s, t)]
                        ELSE sites[s][t]
<1>1. sites' = [s \in Site |-> [t \in Site |-> New(s, t)]]
  BY DEF Select
<1>2. kept \subseteq hops /\ (bad = {} => kept = hops)
  OBVIOUS
<1>3. path \in Seq(Site) /\ Len(path) \in Nat
  BY DEF RefreshTypeOK, RoundTrips
<1>4. ASSUME NEW s, NEW t, NEW i \in kept, At(i, s, t)
      PROVE  \E j \in hops : At(j, s, t) /\ New(s, t) = path[j + 1]
  <2> DEFINE j == CHOOSE j \in kept : At(j, s, t)
  <2>1. j \in kept /\ At(j, s, t)
    <3> HIDE DEF At, kept
    <3> QED
      BY <1>4
  <2>2. New(s, t) = path[1 + j]
    <3> HIDE DEF At, kept
    <3> QED
      BY <1>4
  <2> HIDE DEF j, New, At, kept
  <2>3. 1 + j = j + 1
    <3>1. j \in hops
      BY <1>2, <2>1
    <3> QED
      BY <1>3, <3>1
  <2> HIDE DEF hops
  <2> QED
    BY <1>2, <2>1, <2>2, <2>3
<1>5. ASSUME NEW s, NEW t, ~\E i \in kept : At(i, s, t)
      PROVE  New(s, t) = sites[s][t]
  <2> HIDE DEF At, kept
  <2> QED
    BY <1>5
<1> HIDE DEF New, kept
<1>6. \A s, t \in Site : sites'[s][t] = New(s, t)
  BY <1>1
<1>7. sites' = [s \in Site |-> [t \in Site |-> sites'[s][t]]]
  BY <1>1
<1> HIDE DEF hops, bad
<1>8. \A s, t \in Site :
        \/ sites'[s][t] = sites[s][t]
        \/ \E i \in hops : /\ path[i] = s /\ Column(path, i) = t
                           /\ sites'[s][t] = path[i + 1]
  BY <1>4, <1>5, <1>6
<1>9. bad = {} =>
        \A i \in hops, s, t \in Site :
          path[i] = s /\ Column(path, i) = t =>
            \E j \in hops : sites'[s][t] = path[j + 1]
  BY <1>2, <1>4, <1>6
<1> QED
  BY <1>7, <1>8, <1>9 DEF hops, bad

\* The selection keeps what was chosen and adds hops over measured links; when
\* the round trip is accepted its target is chosen.
LEMMA SelectKeeps ==
  ASSUME PlanInv, NEW path \in results, Select(path)
  PROVE  /\ sites' \in [Site -> [Site -> Site \cup {None}]]
         /\ \A s, t \in Site : sites[s][t] # None => sites'[s][t] # None
         /\ \A s, t \in Site : s # t /\ sites'[s][t] # None => <<s, sites'[s][t]>> \in links
         /\ refresh' = "inner" => sites'[site][target] # None
<1> DEFINE hops == 1..Len(path) - 2
           bad == {i \in hops : Contradicts(path, i)}
<1>1. refresh = "select" /\ site \in Ends /\ target \in Ends /\ target # site
      /\ RoundTrip(path, site, target)
  BY DEF PlanInv, Progress, Select
<1>2. None \notin Site /\ Ends \subseteq Site
  BY <1>1, MeshFacts DEF Ends, PlanInv, Progress
<1>3. /\ path \in Seq(Site) /\ Len(path) \in Nat /\ Len(path) >= 3 /\ path[1] = site
      /\ \A i \in 1..Len(path) : path[i] \in Site
  BY <1>1 DEF RoundTrip
<1>4. PICK m \in 2..Len(path) - 1 :
        /\ path[m] = target
        /\ \A j \in 1..m - 1 : path[j] # target
        /\ \A i \in 1..Len(path) - 1 :
             i < m \/ path[i] # site => <<path[i], path[i + 1]>> \in links
  BY <1>1 DEF RoundTrip
<1>5. \A i \in hops : /\ Column(path, i) = IF i < m THEN target ELSE site
                      /\ i \in 1..Len(path) - 1 /\ i + 1 \in 1..Len(path)
                      /\ path[i + 1] \in Site
  <2> TAKE i \in hops
  <2>1. Column(path, i) = IF i < m THEN target ELSE site
    BY <1>3, <1>4, ColumnOf
  <2> QED
    BY <1>3, <2>1
<1>6. /\ sites' = [s \in Site |-> [t \in Site |-> sites'[s][t]]]
      /\ \A s, t \in Site :
           \/ sites'[s][t] = sites[s][t]
           \/ \E i \in hops : /\ path[i] = s /\ Column(path, i) = t
                              /\ sites'[s][t] = path[i + 1]
      /\ bad = {} =>
           \A i \in hops, s, t \in Site :
             path[i] = s /\ Column(path, i) = t =>
               \E j \in hops : sites'[s][t] = path[j + 1]
  BY SelectedHops DEF PlanInv
<1>7. refresh' = "inner" => bad = {}
  BY <1>1 DEF Select, Advance
<1>8. 1 \in hops /\ 1 < m
  BY <1>3, <1>4
<1> HIDE DEF hops, bad
<1>9. \A s, t \in Site : sites[s][t] \in Site \cup {None}
  BY DEF PlanInv, RefreshTypeOK, None
<1>10. \A s, t \in Site : sites'[s][t] \in Site \cup {None}
  BY <1>5, <1>6, <1>9
<1>11. sites' \in [Site -> [Site -> Site \cup {None}]]
  BY <1>6, <1>10
<1>12. \A s, t \in Site : sites[s][t] # None => sites'[s][t] # None
  BY <1>2, <1>5, <1>6
<1>13. ASSUME NEW s \in Site, NEW t \in Site, s # t, sites'[s][t] # None
       PROVE  <<s, sites'[s][t]>> \in links
  <2>1. CASE sites'[s][t] = sites[s][t]
    BY <1>13, <2>1 DEF PlanInv, HopsOnLinks
  <2>2. ASSUME NEW i \in hops, path[i] = s, Column(path, i) = t,
               sites'[s][t] = path[i + 1]
        PROVE  <<s, sites'[s][t]>> \in links
    <3>1. i < m \/ path[i] # site
      BY <1>5, <1>13, <2>2
    <3> QED
      BY <1>4, <1>5, <2>2, <3>1
  <2>3. \/ sites'[s][t] = sites[s][t]
        \/ \E i \in hops : /\ path[i] = s /\ Column(path, i) = t
                           /\ sites'[s][t] = path[i + 1]
    BY <1>6
  <2> QED
    BY <2>1, <2>2, <2>3
<1>14. refresh' = "inner" => sites'[site][target] # None
  <2>1. path[1] = site /\ Column(path, 1) = target
    BY <1>3, <1>5, <1>8
  <2> QED
    BY <1>1, <1>2, <1>5, <1>6, <1>7, <1>8, <2>1
<1> QED
  BY <1>11, <1>12, <1>13, <1>14

------------------------------------------------------------------------------
(* The refresh.                                                               *)

LEMMA ResetInv ==
  /\ RefreshInit => PlanInv
  /\ Fail \/ Distribute => PlanInv'
<1>1. /\ Blank \in [Site -> [Site -> Site \cup {None}]]
      /\ \A s, t \in Site : Blank[s][t] = None
      /\ Active({}) = {}
  BY DEF Blank, None, Active
<1>2. RefreshInit => PlanInv
  BY <1>1 DEF RefreshInit, PlanInv, RefreshTypeOK, HopsOnLinks, Progress, Ends, None
<1>3. ASSUME Fail \/ Distribute
      PROVE  PlanInv'
  <2>1. /\ refresh' = "idle" /\ links' = {} /\ sites' = Blank
        /\ srcs' = {} /\ site' = None /\ targets' = {} /\ target' = None
        /\ results' = {}
    BY <1>3 DEF Fail, Distribute, Advance, Reset, None
  <2>2. RefreshTypeOK'
    BY <1>1, <2>1 DEF RefreshTypeOK, None
  <2>3. HopsOnLinks'
    BY <1>1, <2>1 DEF HopsOnLinks
  <2>4. Progress'
    BY <1>1, <2>1 DEF Progress, Ends
  <2> QED
    BY <2>2, <2>3, <2>4 DEF PlanInv
<1> QED
  BY <1>2, <1>3

LEMMA LoopsInv ==
  ASSUME PlanInv,
         MeasureGraph \/ (\E s \in Site : NextSite(s)) \/ InnerDone
  PROVE  PlanInv'
<1> USE DEF Advance
<1>1. CASE MeasureGraph
  <2>1. /\ refresh = "idle" /\ refresh' = "outer" /\ links' \in Measured
        /\ srcs' = Active(links')
        /\ UNCHANGED <<sites, site, targets, target, results>>
    BY <1>1 DEF MeasureGraph
  <2>2. links = {} /\ Ends = {} /\ targets = {}
    BY <2>1 DEF PlanInv, Progress, Ends, Active
  <2>3. RefreshTypeOK'
    BY <2>1, MeshFacts DEF PlanInv, RefreshTypeOK
  <2>4. HopsOnLinks'
    BY <2>1, <2>2 DEF PlanInv, HopsOnLinks
  <2>5. Progress'
    BY <2>1, <2>2 DEF Progress, Ends
  <2> QED
    BY <2>3, <2>4, <2>5 DEF PlanInv
<1>2. ASSUME NEW s \in Site, NextSite(s)
      PROVE  PlanInv'
  <2>1. /\ refresh = "outer" /\ refresh' = "inner" /\ s \in srcs
        /\ srcs' = srcs \ {s} /\ site' = s /\ targets' = Ends
        /\ UNCHANGED <<links, sites, target, results>>
    BY <1>2 DEF NextSite, Ends
  <2>2. Ends' = Ends /\ Ends \subseteq Site
    BY <2>1, MeshFacts DEF PlanInv, Progress, Ends
  <2>3. RefreshTypeOK'
    BY <2>1, <2>2 DEF PlanInv, RefreshTypeOK
  <2>4. HopsOnLinks'
    BY <2>1 DEF PlanInv, HopsOnLinks
  <2>5. Progress'
    BY <2>1, <2>2 DEF PlanInv, Progress, Chosen
  <2> QED
    BY <2>3, <2>4, <2>5 DEF PlanInv
<1>3. CASE InnerDone
  <2>1. /\ refresh = "inner" /\ targets = {} /\ site' = None
        /\ refresh' = IF srcs = {} THEN "check" ELSE "outer"
        /\ UNCHANGED <<links, sites, srcs, targets, target, results>>
    BY <1>3 DEF InnerDone, None
  <2>2. Ends' = Ends
    BY <2>1 DEF Ends
  <2>3. RefreshTypeOK'
    BY <2>1 DEF PlanInv, RefreshTypeOK, None
  <2>4. HopsOnLinks'
    BY <2>1 DEF PlanInv, HopsOnLinks
  <2>5. \A s \in Ends \ srcs : Chosen(s, Ends)
    BY <2>1 DEF PlanInv, Progress, Chosen
  <2>6. Progress'
    BY <2>1, <2>2, <2>5 DEF PlanInv, Progress, Chosen
  <2> QED
    BY <2>3, <2>4, <2>6 DEF PlanInv
<1> QED
  BY <1>1, <1>2, <1>3

LEMMA NextTargetInv ==
  ASSUME PlanInv, NEW t \in Site, NextTarget(t)
  PROVE  PlanInv'
<1>1. /\ refresh = "inner" /\ t \in targets /\ targets' = targets \ {t}
      /\ UNCHANGED <<links, srcs, site>>
  BY DEF NextTarget
<1>2. /\ Ends' = Ends /\ Ends \subseteq Site /\ None \notin Site
      /\ links \in Measured /\ site \in Ends /\ t \in Ends
      /\ Chosen(site, Ends \ targets)
      /\ \A s \in Ends \ (srcs \cup {site}) : Chosen(s, Ends)
  BY <1>1, MeshFacts DEF PlanInv, Progress, Ends
<1>3. CASE /\ sites[site][t] # None
           /\ UNCHANGED <<refresh, sites, target, results>>
  <2>1. RefreshTypeOK' /\ HopsOnLinks'
    BY <1>1, <1>3 DEF PlanInv, RefreshTypeOK, HopsOnLinks
  <2>2. Chosen(site, Ends \ targets')
    BY <1>1, <1>2, <1>3 DEF Chosen
  <2>3. Progress'
    BY <1>1, <1>2, <1>3, <2>2 DEF PlanInv, Progress, Chosen
  <2> QED
    BY <2>1, <2>3 DEF PlanInv
<1>4. CASE /\ site = t
           /\ sites' = [sites EXCEPT ![site][t] = site]
           /\ UNCHANGED <<refresh, target, results>>
  <2>1. \A s, d \in Site : sites'[s][d] = IF s = site /\ d = t THEN site ELSE sites[s][d]
    BY <1>2, <1>4 DEF PlanInv, RefreshTypeOK
  <2>2. RefreshTypeOK'
    BY <1>1, <1>2, <1>4 DEF PlanInv, RefreshTypeOK
  <2>3. HopsOnLinks'
    BY <1>1, <1>2, <1>4, <2>1 DEF PlanInv, HopsOnLinks
  <2>4. \A s, d \in Site : sites[s][d] # None => sites'[s][d] # None
    BY <1>2, <2>1
  <2>5. \A d \in Ends \ targets' : sites'[site][d] # None
    BY <1>1, <1>2, <1>4, <2>1, <2>4 DEF Chosen
  <2>6. \A s \in Ends \ (srcs \cup {site}), d \in Ends : sites'[s][d] # None
    BY <1>2, <2>4 DEF Chosen
  <2>7. Progress'
    BY <1>1, <1>2, <1>4, <2>5, <2>6 DEF PlanInv, Progress, Chosen
  <2> QED
    BY <2>2, <2>3, <2>7 DEF PlanInv
<1>5. ASSUME site # t, refresh' = "select", target' = t, UNCHANGED sites,
             NEW fPath \in TopPaths(site, t), NEW rPath \in TopPaths(t, site),
             NEW spare, \A p \in fPath : spare[p] \in Spare(p, rPath),
             results' \subseteq {FullPath(p, v, spare[p]) : p \in fPath, v \in rPath}
      PROVE  PlanInv'
  <2>1. \A path \in results' : RoundTrip(path, site, t)
    <3> TAKE path \in results'
    <3>1. PICK p \in fPath, v \in rPath :
            path = FullPath(p, v, spare[p])
      BY <1>5
    <3>2. spare[p] \in Spare(p, rPath)
      BY <1>5
    <3> QED
      BY <1>2, <3>1, <3>2, FullPathIsTrip
  <2>2. results' \in SUBSET Seq(Site)
    BY <2>1 DEF RoundTrip
  <2>3. RefreshTypeOK'
    BY <1>1, <1>5, <2>2 DEF PlanInv, RefreshTypeOK, RoundTrips
  <2>4. HopsOnLinks'
    BY <1>1, <1>5 DEF PlanInv, HopsOnLinks
  <2>5. (\A path \in results : RoundTrip(path, site, target))'
    BY <1>1, <1>5, <2>1 DEF RoundTrip
  <2>6. Chosen(site, Ends \ (targets' \cup {t}))
    BY <1>1, <1>2 DEF Chosen
  <2>7. Progress'
    BY <1>1, <1>2, <1>5, <2>5, <2>6 DEF PlanInv, Progress, Chosen
  <2> QED
    BY <2>3, <2>4, <2>7 DEF PlanInv
<1> QED
  BY <1>3, <1>4, <1>5 DEF NextTarget, MeasurePathLatency, Advance, None

LEMMA SelectInv ==
  ASSUME PlanInv, NEW path \in results, Select(path)
  PROVE  PlanInv'
<1>1. /\ refresh = "select" /\ UNCHANGED <<links, srcs, site, targets>>
      /\ \/ refresh' = "inner" /\ results' = {} /\ target' = None
         \/ refresh' = "select" /\ results' = results \ {path} /\ target' = target
  BY DEF Select, Advance, None
<1>2. /\ sites' \in [Site -> [Site -> Site \cup {None}]]
      /\ \A s, t \in Site : sites[s][t] # None => sites'[s][t] # None
      /\ \A s, t \in Site : s # t /\ sites'[s][t] # None => <<s, sites'[s][t]>> \in links
      /\ refresh' = "inner" => sites'[site][target] # None
  BY SelectKeeps
<1>3. /\ Ends' = Ends /\ Ends \subseteq Site /\ links \in Measured
      /\ site \in Ends /\ target \in Ends /\ target # site
      /\ Chosen(site, Ends \ (targets \cup {target}))
      /\ \A s \in Ends \ (srcs \cup {site}) : Chosen(s, Ends)
      /\ \A p \in results : RoundTrip(p, site, target)
  BY <1>1, MeshFacts DEF PlanInv, Progress, Ends
<1>4. RefreshTypeOK'
  BY <1>1, <1>2 DEF PlanInv, RefreshTypeOK, None
<1>5. HopsOnLinks'
  BY <1>1, <1>2 DEF HopsOnLinks
<1>6. \A s \in Ends \ (srcs \cup {site}), d \in Ends : sites'[s][d] # None
  BY <1>2, <1>3 DEF Chosen
<1>7. \A d \in Ends \ (targets \cup {target}) : sites'[site][d] # None
  BY <1>2, <1>3 DEF Chosen
<1>8. CASE refresh' = "inner"
  <2>1. \A d \in Ends \ targets : sites'[site][d] # None
    BY <1>2, <1>7, <1>8
  <2> QED
    BY <1>1, <1>3, <1>4, <1>5, <1>6, <1>8, <2>1 DEF PlanInv, Progress, Chosen
<1>9. CASE refresh' = "select"
  <2>1. (\A p \in results : RoundTrip(p, site, target))'
    BY <1>1, <1>3, <1>9 DEF RoundTrip
  <2>2. Progress'
    BY <1>1, <1>3, <1>6, <1>7, <1>9, <2>1 DEF PlanInv, Progress, Chosen
  <2> QED
    BY <1>4, <1>5, <2>2 DEF PlanInv
<1> QED
  BY <1>1, <1>8, <1>9

LEMMA PlanStep ==
  ASSUME PlanInv, [RefreshNext]_refreshVars
  PROVE  PlanInv'
<1>1. CASE CheckForLoops
  <2>1. CASE LoopDetected(sites)
    BY <1>1, <2>1, ResetInv DEF CheckForLoops
  <2>2. CASE ~LoopDetected(sites)
    <3>1. /\ refresh = "check" /\ refresh' = "distribute"
          /\ UNCHANGED <<links, sites, srcs, site, targets, target, results>>
      BY <1>1, <2>2 DEF CheckForLoops, Advance
    <3>2. RefreshTypeOK' /\ HopsOnLinks' /\ Ends' = Ends
      BY <3>1 DEF PlanInv, RefreshTypeOK, HopsOnLinks, Ends
    <3>3. ~LoopDetected(sites')
      BY <2>2, <3>1
    <3>4. Progress'
      BY <3>1, <3>2, <3>3 DEF PlanInv, Progress, Chosen
    <3> QED
      BY <3>2, <3>4 DEF PlanInv
  <2> QED
    BY <2>1, <2>2
<1>2. CASE UNCHANGED refreshVars
  <2>1. UNCHANGED <<refresh, links, sites, srcs, site, targets, target, results>>
    BY <1>2 DEF refreshVars
  <2>2. RefreshTypeOK' /\ HopsOnLinks' /\ Ends' = Ends
    BY <2>1 DEF PlanInv, RefreshTypeOK, HopsOnLinks, Ends
  <2>3. \A path \in results' : RoundTrip(path, site, target)' <=> RoundTrip(path, site, target)
    BY <2>1 DEF RoundTrip
  <2>4. LoopDetected(sites') = LoopDetected(sites)
    BY <2>1
  <2>5. Progress'
    BY <2>1, <2>2, <2>3, <2>4 DEF PlanInv, Progress, Chosen
  <2> QED
    BY <2>2, <2>5 DEF PlanInv
<1>3. NoRoute \/ Distribute => PlanInv'
  BY ResetInv DEF NoRoute
<1> QED
  BY <1>1, <1>2, <1>3, LoopsInv, NextTargetInv, SelectInv DEF RefreshNext

LEMMA PlanInvHolds == RefreshSpec => []PlanInv
<1>1. RefreshInit => PlanInv
  BY ResetInv
<1>2. PlanInv /\ [RefreshNext]_refreshVars => PlanInv'
  BY PlanStep
<1> QED
  BY <1>1, <1>2, PTL DEF RefreshSpec

\* The leader's refresh (CentralisedRouter.Refresh) keeps its types: it only
\* writes sites into the plan, and only tries round trips made of sites.
THEOREM PlanTypeCorrect == RefreshSpec => []RefreshTypeOK
<1>1. PlanInv => RefreshTypeOK
  BY DEF PlanInv
<1> QED
  BY <1>1, PlanInvHolds, PTL

\* Whatever links are measured, in whatever order the maps are read and the
\* round trips rank, whatever the shared spare capacity makes of them and
\* whichever are skipped: a plan that checkForLoops lets pass carries every
\* packet to its destination over measured links.
THEOREM PlanForwardsHolds == RefreshSpec => []PlanForwards
<1>1. PlanInv => PlanForwards
  <2> SUFFICES ASSUME PlanInv PROVE PlanForwards
    OBVIOUS
  <2>1. CASE refresh # "distribute"
    BY <2>1 DEF PlanForwards
  <2>2. CASE refresh = "distribute"
    BY <2>2, CompletePlanForwards DEF PlanInv, Progress
  <2> QED
    BY <2>1, <2>2
<1> QED
  BY <1>1, PlanInvHolds, PTL

------------------------------------------------------------------------------
(* From one module to the other: what the leader distributes is what          *)
(* RouteDistribution takes for granted of plans.                              *)

\* The rows of the plan as their sites read them: a missing key reads 0.
Rows ==
  [s \in Ends |-> [d \in Site |-> IF sites[s][d] = None THEN 0 ELSE sites[s][d]]]

\* w collects, hop by hop, the sites that reach d by rows.
Collects(w, n, rows, d) ==
  /\ w[0] = {d}
  /\ \A k \in 1..n : w[k] = w[k - 1] \cup {s \in DOMAIN rows : rows[s][d] \in w[k - 1]}

LEMMA CollectsExists ==
  ASSUME NEW n \in Nat, NEW rows, NEW d
  PROVE  \E w : w = [k \in 0..n |-> w[k]] /\ Collects(w, n, rows, d)
<1> DEFINE P(k, w) == w = [i \in 0..k |-> w[i]] /\ Collects(w, k, rows, d)
           S == {k \in 1..n : \E w : P(k, w)}
<1>1. ASSUME NEW k \in Nat, NEW w, P(k, w) PROVE \E v : P(k + 1, v)
  <2> DEFINE x == w[k] \cup {s \in DOMAIN rows : rows[s][d] \in w[k]}
             v == [i \in 0..k + 1 |-> IF i = k + 1 THEN x ELSE w[i]]
  <2> HIDE DEF x
  <2>1. v = [i \in 0..k + 1 |-> v[i]] /\ v[0] = w[0] /\ v[k + 1] = x /\ v[k] = w[k]
    OBVIOUS
  <2>2. ASSUME NEW i \in 1..k + 1
        PROVE  v[i] = v[i - 1] \cup {s \in DOMAIN rows : rows[s][d] \in v[i - 1]}
    <3>1. CASE i = k + 1
      <4>1. v[i] = x /\ v[i - 1] = w[k]
        BY <2>1, <3>1
      <4> HIDE DEF v
      <4> QED
        BY <4>1 DEF x
    <3>2. CASE i \in 1..k
      <4>1. v[i] = w[i] /\ v[i - 1] = w[i - 1]
        BY <3>2
      <4> HIDE DEF v
      <4> QED
        BY <1>1, <3>2, <4>1 DEF Collects
    <3>3. i = k + 1 \/ i \in 1..k
      OBVIOUS
    <3> QED
      BY <3>1, <3>2, <3>3, Zenon
  <2>3. P(k + 1, v)
    <3> HIDE DEF v
    <3> QED
      BY <1>1, <2>1, <2>2 DEF Collects
  <2> HIDE DEF P, v
  <2> QED
    BY <2>3
<1>2. \E w : P(0, w)
  <2> DEFINE v == [i \in 0..0 |-> {d}]
  <2>1. P(0, v)
    BY DEF Collects
  <2> HIDE DEF P, v
  <2> QED
    BY <2>1
<1>3. CASE n = 0
  <2> HIDE DEF P
  <2>1. \E w : P(n, w)
    BY <1>2, <1>3
  <2> QED
    BY <2>1 DEF P
<1>4. CASE n >= 1
  <2> HIDE DEF P
  <2>1. 1 \in S
    <3>1. PICK w : P(0, w)
      BY <1>2
    <3>2. \E v : P(0 + 1, v)
      BY <1>1, <3>1
    <3> QED
      BY <1>4, <3>2
  <2>2. \A k \in 1..n - 1 : k \in S => k + 1 \in S
    BY <1>1
  <2>3. 1..n \subseteq S
    <3> HIDE DEF S
    <3> QED
      BY <2>1, <2>2, IndexInduction
  <2>4. \E w : P(n, w)
    BY <1>4, <2>3
  <2> QED
    BY <2>4 DEF P
<1> QED
  BY <1>3, <1>4

LEMMA ReachingCollects ==
  ASSUME IsFiniteSet(Site), NEW rows, NEW d
  PROVE  \E w : Reaching(rows, d) = w[Cardinality(Site)]
                /\ Collects(w, Cardinality(Site), rows, d)
<1> DEFINE n == Cardinality(Site)
           Rec(g) == g = [k \in 0..Cardinality(Site) |->
                            IF k = 0 THEN {d}
                            ELSE g[k - 1] \cup {s \in DOMAIN rows : rows[s][d] \in g[k - 1]}]
           w == CHOOSE g : Rec(g)
<1>1. n \in Nat
  BY FS_CardinalityType
<1>2. PICK f : f = [k \in 0..n |-> f[k]] /\ Collects(f, n, rows, d)
  BY <1>1, CollectsExists
<1>3. Rec(f)
  <2>1. ASSUME NEW k \in 0..n
        PROVE  f[k] = IF k = 0 THEN {d}
                      ELSE f[k - 1] \cup {s \in DOMAIN rows : rows[s][d] \in f[k - 1]}
    <3>1. CASE k = 0
      BY <1>2, <3>1 DEF Collects
    <3>2. CASE k # 0
      <4>1. k \in 1..n
        BY <1>1, <3>2
      <4> HIDE DEF n
      <4> QED
        BY <1>2, <3>2, <4>1 DEF Collects
    <3> QED
      BY <3>1, <3>2
  <2>2. f = [k \in 0..n |->
               IF k = 0 THEN {d}
               ELSE f[k - 1] \cup {s \in DOMAIN rows : rows[s][d] \in f[k - 1]}]
    <3> HIDE DEF n
    <3> QED
      BY <1>2, <2>1, Zenon
  <2> QED
    BY <1>1, <2>2
<1>4. Rec(w)
  <2>1. \E g : Rec(g)
    BY <1>3
  <2> HIDE DEF Rec
  <2> QED
    BY <2>1
<1>5. Reaching(rows, d) = w[n]
  BY DEF Reaching
<1>6. Collects(w, n, rows, d)
  <2>1. w = [k \in 0..n |->
               IF k = 0 THEN {d}
               ELSE w[k - 1] \cup {s \in DOMAIN rows : rows[s][d] \in w[k - 1]}]
    <3> HIDE DEF w
    <3> QED
      BY <1>1, <1>4
  <2> HIDE DEF w, n
  <2>2. w[0] = {d}
    <3>1. 0 \in 0..n
      BY <1>1
    <3> QED
      BY <2>1, <3>1
  <2>3. ASSUME NEW k \in 1..n
        PROVE  w[k] = w[k - 1] \cup {s \in DOMAIN rows : rows[s][d] \in w[k - 1]}
    <3>1. k \in 0..n /\ k # 0
      BY <1>1
    <3> QED
      BY <2>1, <3>1
  <2> QED
    BY <2>2, <2>3 DEF Collects
<1> HIDE DEF w
<1> QED
  BY <1>5, <1>6

\* A site whose packets for d arrive by the plan reaches d by the rows.
LEMMA ForwardingReaches ==
  ASSUME PlanInv, refresh = "distribute", PlanForwards,
         NEW s \in Ends, NEW d \in Ends
  PROVE  s \in Reaching(Rows, d)
<1> DEFINE N == Cardinality(Site)
<1>1. /\ IsFiniteSet(Site) /\ N \in Nat /\ N = Cardinality(Site)
      /\ links \in Measured /\ None \notin Site /\ Ends \subseteq Site
      /\ \A x, y \in Site : <<x, y>> \in links => x \in Ends /\ y \in Ends
  BY MeshFacts DEF PlanInv, Progress, Ends
<1>2. PICK c : Reaching(Rows, d) = c[N] /\ Collects(c, N, Rows, d)
  BY <1>1, ReachingCollects
<1>3. c[0] = {d} /\ \A n \in 1..N : c[n - 1] \subseteq c[n]
  BY <1>2 DEF Collects
<1>4. CASE s = d
  <2> DEFINE S == {n \in 1..N : d \in c[n]}
  <2>1. N >= 1 => 1 \in S
    <3> HAVE N >= 1
    <3>1. 1 \in 1..N /\ 1 - 1 = 0
      BY <1>1
    <3> HIDE DEF N
    <3>2. d \in c[1]
      BY <1>3, <3>1
    <3> QED
      BY <3>1, <3>2
  <2>2. \A n \in 1..N - 1 : n \in S => n + 1 \in S
    <3> TAKE n \in 1..N - 1
    <3>1. n + 1 \in 1..N /\ (n + 1) - 1 = n
      BY <1>1
    <3> HIDE DEF N
    <3>2. c[n] \subseteq c[n + 1]
      BY <1>3, <3>1
    <3> QED
      BY <3>1, <3>2
  <2> HIDE DEF N
  <2>3. 1..N \subseteq S
    <3> HIDE DEF S
    <3> QED
      BY <1>1, <2>1, <2>2, IndexInduction
  <2>4. N = 0 \/ N \in 1..N
    BY <1>1
  <2> QED
    BY <1>2, <1>3, <1>4, <2>3, <2>4
<1>5. CASE s # d
  <2> DEFINE w == Walk(sites, d, s)
  <2>1. PICK k \in 1..N :
          /\ w[k] = d
          /\ \A j \in 0..k - 1 : <<w[j], w[j + 1]>> \in links
    BY <1>1, <1>5 DEF PlanForwards, Ends
  <2>2. Follows(w, N + 1, sites, d, s)
    BY WalkFollows
  <2> HIDE DEF w, N
  <2>3. ASSUME NEW j \in 0..k - 1
        PROVE  w[j] \in Ends /\ Rows[w[j]][d] = w[j + 1]
    <3>1. <<w[j], w[j + 1]>> \in links /\ links \subseteq Site \X Site
      BY <1>1, <2>1, MeshFacts
    <3>2. w[j] \in Ends /\ w[j + 1] \in Ends
      BY <1>1, <3>1
    <3>3. j + 1 \in 1..N + 1 /\ (j + 1) - 1 = j
      BY <1>1
    <3>4. w[j + 1] = sites[w[j]][d]
      BY <1>1, <2>2, <3>2, <3>3 DEF Follows
    <3> QED
      BY <1>1, <3>2, <3>4 DEF Rows
  <2> DEFINE In(n) == \A i \in 0..k : i <= n => w[k - i] \in c[n]
             S == {n \in 1..N : In(n)}
  <2>4. In(0)
    <3> TAKE i \in 0..k
    <3> HAVE i <= 0
    <3>1. i = 0 /\ k - i = k
      BY <1>1
    <3> QED
      BY <1>3, <2>1, <3>1
  <2>5. ASSUME NEW n \in 1..N, In(n - 1)
        PROVE  In(n)
    <3> TAKE i \in 0..k
    <3> HAVE i <= n
    <3>1. CASE i <= n - 1
      BY <1>3, <2>5, <3>1
    <3>2. CASE i = n
      <4> DEFINE j == k - i
      <4>1. j \in 0..k - 1 /\ k - (i - 1) = j + 1 /\ i - 1 \in 0..k /\ i - 1 <= n - 1
        BY <1>1, <3>2
      <4>2. w[k - (i - 1)] \in c[n - 1]
        BY <2>5, <4>1
      <4> HIDE DEF j
      <4>3. w[j] \in DOMAIN Rows /\ Rows[w[j]][d] \in c[n - 1]
        BY <2>3, <4>1, <4>2 DEF Rows
      <4>4. w[j] \in c[n]
        BY <1>2, <4>3 DEF Collects
      <4> QED
        BY <4>4 DEF j
    <3> QED
      BY <1>1, <3>1, <3>2
  <2>6. N >= 1 => 1 \in S
    <3> HAVE N >= 1
    <3>1. 1 \in 1..N /\ 1 - 1 = 0
      BY <1>1
    <3> HIDE DEF In
    <3>2. In(1)
      BY <2>4, <2>5, <3>1
    <3> QED
      BY <3>1, <3>2
  <2>7. \A n \in 1..N - 1 : n \in S => n + 1 \in S
    <3> TAKE n \in 1..N - 1
    <3> HAVE n \in S
    <3>1. n + 1 \in 1..N /\ (n + 1) - 1 = n
      BY <1>1
    <3> HIDE DEF In
    <3>2. In(n + 1)
      BY <2>5, <3>1
    <3> QED
      BY <3>1, <3>2
  <2>8. 1..N \subseteq S
    <3> HIDE DEF S
    <3> QED
      BY <1>1, <2>6, <2>7, IndexInduction
  <2>9. In(N)
    <3>1. N \in 1..N
      BY <1>1, <2>1
    <3> QED
      BY <2>8, <3>1
  <2>10. k \in 0..k /\ k <= N /\ k - k = 0
    BY <1>1
  <2>11. w[0] = s
    BY <2>2 DEF Follows
  <2> QED
    BY <1>2, <2>9, <2>10, <2>11
<1> QED
  BY <1>4, <1>5

\* Refresh keeps the promise RouteDistribution relies on: the rows it hands to
\* Distribute bring packets from every measured site to every other.
THEOREM LeaderPlansDistributable ==
  RefreshSpec => [](refresh = "distribute" => Distributable(Rows))
<1>1. PlanInv /\ PlanForwards => (refresh = "distribute" => Distributable(Rows))
  <2> SUFFICES ASSUME PlanInv, PlanForwards, refresh = "distribute"
               PROVE  Distributable(Rows)
    OBVIOUS
  <2>1. Ends \subseteq Site
    BY MeshFacts DEF PlanInv, Progress, Ends
  <2>2. \A s, d \in Site : sites[s][d] \in Site \cup {None}
    BY DEF PlanInv, RefreshTypeOK, None
  <2>3. Rows \in [Ends -> [Site -> Site \cup {0}]] /\ Members(Rows) = Ends
    BY <2>1, <2>2 DEF Rows, Members
  <2>4. \A d \in Ends : Ends \subseteq Reaching(Rows, d)
    BY ForwardingReaches
  <2> QED
    BY <2>1, <2>3, <2>4 DEF Distributable
<1> QED
  BY <1>1, PlanInvHolds, PlanForwardsHolds, PTL
==============================================================================
