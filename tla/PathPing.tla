------------------------------- MODULE PathPing -------------------------------
(***************************************************************************)
(* Path latency measurements (internal/measure/pathping/pathping.go): the  *)
(* pathping server of every node, which forwards packets along the path    *)
(* they carry and collects those of its own tests, and the calls of        *)
(* Measure, made by path workers, RPC handlers and the analyser.           *)
(*                                                                         *)
(* The test IDs of calls differ, as their start times in nanoseconds do.   *)
(* Time advances in units of half an interval while no packet is in flight *)
(* that is not slow and no call has a step to take.                        *)
(***************************************************************************)
EXTENDS Integers, Sequences, FiniteSets

CONSTANTS
  Node,         \* sites
  Peers,        \* <<m, n>>: m has an address for n in peerAddrs
  Paths,        \* paths that are asked for
  Call,         \* calls of Measure
  Count,        \* packets of a test
  Interval,     \* units between them
  PingTimeout,  \* pathping.timeout
  Losses,       \* bound: packets lost
  Slow          \* bound: packets that take arbitrarily long

ASSUME PathPingAssumption ==
  /\ Peers \subseteq Node \X Node
  /\ Paths \subseteq Seq(Node)
  /\ Count \in Nat \ {0} /\ Interval \in Nat \ {0, 1} /\ PingTimeout \in Nat
  /\ Losses \in Nat /\ Slow \in Nat

Hops == UNION {0..Len(p) : p \in Paths}

\* seq is Sequence, hop CurrentHop; the path is the one of the call.
Packet == [call : Call, seq : 0..(Count - 1), hop : Hops, at : Node]

VARIABLES
  pc,      \* Measure: "idle", "send", "poll", "done"
  node,    \* the node it runs at
  path,
  seq,
  wait,    \* units until the caller's Sleep is over
  total,   \* units until its timeout
  answer,  \* Status, number of durations averaged, error
  have,    \* results: durations collected for the test, 0 if there is no entry
  idle,    \* units since its lastUpdated
  net,     \* packets in flight
  slow,    \* ... that take longer
  lost, slowed, harmed, back   \* history

callVars == <<pc, node, path, seq, wait, total, answer>>
resultVars == <<have, idle, back>>
faultVars == <<lost, slowed, harmed>>
vars == <<callVars, resultVars, net, slow, faultVars>>

NoAnswer == [status |-> 0, count |-> 0, err |-> FALSE]
Failed == [status |-> 0, count |-> 0, err |-> TRUE]

TypeOK ==
  /\ pc \in [Call -> {"idle", "send", "poll", "done"}]
  /\ node \in [Call -> Node] /\ path \in [Call -> Paths]
  /\ seq \in [Call -> 0..Count] /\ wait \in [Call -> 0..Interval]
  /\ total \in [Call -> 0..(Count * Interval + PingTimeout)]
  /\ answer \in [Call -> [status : {0, 1}, count : 0..Count, err : BOOLEAN]]
  /\ have \in [Call -> 0..Count] /\ back \in [Call -> 0..Count]
  /\ idle \in [Call -> 0..(3 * PingTimeout + 1)]
  /\ net \subseteq Packet /\ slow \subseteq Packet
  /\ lost \in 0..Losses /\ slowed \in 0..Slow /\ harmed \subseteq Call

Init ==
  /\ pc = [c \in Call |-> "idle"]
  /\ node \in [Call -> Node] /\ path \in [Call -> Paths]
  /\ seq = [c \in Call |-> 0] /\ wait = [c \in Call |-> 0]
  /\ total = [c \in Call |-> 0] /\ answer = [c \in Call |-> NoAnswer]
  /\ have = [c \in Call |-> 0] /\ idle = [c \in Call |-> 0]
  /\ back = [c \in Call |-> 0]
  /\ net = {} /\ slow = {}
  /\ lost = 0 /\ slowed = 0 /\ harmed = {}

------------------------------------------------------------------------------
(* Measure.                                                                 *)

Return(c, a) ==
  /\ pc' = [pc EXCEPT ![c] = "done"]
  /\ answer' = [answer EXCEPT ![c] = a]

\* The path starts and ends here.
Valid(c) == LET p == path[c] IN Len(p) >= 2 /\ p[1] = node[c] /\ p[Len(p)] = node[c]

Measure(c) ==
  /\ pc[c] = "idle"
  /\ IF Valid(c)
     THEN pc' = [pc EXCEPT ![c] = "send"] /\ UNCHANGED answer
     ELSE Return(c, Failed)
  /\ UNCHANGED <<node, path, seq, wait, total, resultVars, net, slow, faultVars>>

\* forwardPacket: one hop on, to the next node of the path if its address is
\* known; the set of packets it sends.
Forward(from, c, s, hop) ==
  {p \in [call : {c}, seq : {s}, hop : {hop}, at : {path[c][hop + 2]}] :
     <<from, p.at>> \in Peers}

CanLose == lost < Losses

\* Mutant of More: one packet too many.
MoreByOne(c) == seq[c] <= Count

More(c) == seq[c] < Count

\* A packet that cannot be sent ends the call; the others are still on their way.
SendPacket(c) ==
  /\ pc[c] = "send" /\ wait[c] = 0 /\ More(c)
  /\ LET sent == Forward(node[c], c, seq[c], 0)
     IN \/ /\ sent # {}
           /\ net' = net \cup sent
           /\ seq' = [seq EXCEPT ![c] = @ + 1]
           /\ wait' = [wait EXCEPT ![c] = Interval]
           /\ UNCHANGED <<pc, answer, lost, harmed>>
        \/ /\ sent = {}
           /\ Return(c, Failed)
           /\ UNCHANGED <<net, seq, wait, lost, harmed>>
        \/ /\ CanLose
           /\ lost' = lost + 1 /\ harmed' = harmed \cup {c}
           /\ Return(c, Failed)
           /\ UNCHANGED <<net, seq, wait>>
  /\ UNCHANGED <<node, path, total, resultVars, slow, slowed>>

SentAll(c) ==
  /\ pc[c] = "send" /\ wait[c] = 0 /\ ~More(c)
  /\ pc' = [pc EXCEPT ![c] = "poll"]
  /\ total' = [total EXCEPT ![c] = Count * Interval + PingTimeout]
  /\ UNCHANGED <<node, path, seq, wait, answer, resultVars, net, slow, faultVars>>

Forget(c) == have' = [have EXCEPT ![c] = 0]

\* All packets are back, or for long none has come.
Complete(c) == have[c] > 0 /\ (have[c] = Count \/ idle[c] > 2 * PingTimeout)

Poll(c) ==
  /\ pc[c] = "poll" /\ wait[c] = 0 /\ total[c] > 0
  /\ \/ /\ Complete(c)
        /\ Return(c, [status |-> 1, count |-> have[c], err |-> FALSE])
        /\ Forget(c)
        /\ UNCHANGED wait
     \/ /\ ~Complete(c)
        /\ wait' = [wait EXCEPT ![c] = Interval \div 2]
        /\ UNCHANGED <<pc, answer, have>>
  /\ UNCHANGED <<node, path, seq, total, idle, back, net, slow, faultVars>>

\* What there is is averaged all the same, without an error.
PollTimeout(c) ==
  /\ pc[c] = "poll" /\ wait[c] = 0 /\ total[c] = 0
  /\ IF have[c] > 0
     THEN Return(c, [status |-> 0, count |-> have[c], err |-> FALSE])
     ELSE Return(c, Failed)
  /\ Forget(c)
  /\ UNCHANGED <<node, path, seq, wait, total, idle, back, net, slow, faultVars>>

------------------------------------------------------------------------------
(* The servers.                                                             *)

\* Mutant of Collect: a subsequent packet starts the entry anew.
CollectFirst(c) == have' = [have EXCEPT ![c] = 1]

\* The entry of a test that has returned is made again by a late packet.
Collect(c) == have' = [have EXCEPT ![c] = @ + 1]

\* processPacket at node p.at.
ProcessPacket(p) ==
  /\ p \in net \cup slow
  /\ slow' = slow \ {p}
  /\ LET c == p.call
     IN \/ /\ p.hop + 2 = Len(path[c])
           /\ p.at = node[c]
           /\ Collect(c)
           /\ idle' = [idle EXCEPT ![c] = 0]
           /\ back' = [back EXCEPT ![c] = @ + 1]
           /\ net' = net \ {p}
        \/ /\ p.hop + 2 # Len(path[c])
           /\ net' = (net \ {p}) \cup Forward(p.at, c, p.seq, p.hop + 1)
           /\ UNCHANGED resultVars
  /\ UNCHANGED <<callVars, faultVars>>

\* Mutants of Clean: results are removed too early; only complete ones are.
CleanEarly(n) ==
  LET stale == {c \in Call : node[c] = n /\ have[c] > 0 /\ idle[c] > PingTimeout}
  IN /\ stale # {}
     /\ have' = [c \in Call |-> IF c \in stale THEN 0 ELSE have[c]]
     /\ UNCHANGED <<callVars, idle, back, net, slow, faultVars>>
CleanComplete(n) ==
  LET stale == {c \in Call : node[c] = n /\ have[c] = Count /\ idle[c] > 3 * PingTimeout}
  IN /\ stale # {}
     /\ have' = [c \in Call |-> IF c \in stale THEN 0 ELSE have[c]]
     /\ UNCHANGED <<callVars, idle, back, net, slow, faultVars>>

\* cleanUpResults, at any phase of its one minute ticker.
Clean(n) ==
  LET stale == {c \in Call : node[c] = n /\ have[c] > 0 /\ idle[c] > 3 * PingTimeout}
  IN /\ stale # {}
     /\ have' = [c \in Call |-> IF c \in stale THEN 0 ELSE have[c]]
     /\ UNCHANGED <<callVars, idle, back, net, slow, faultVars>>

------------------------------------------------------------------------------
(* The network and time.                                                    *)

Lose(p) ==
  /\ p \in net
  /\ CanLose
  /\ net' = net \ {p}
  /\ lost' = lost + 1 /\ harmed' = harmed \cup {p.call}
  /\ UNCHANGED <<callVars, resultVars, slow, slowed>>

Delay(p) ==
  /\ p \in net
  /\ slowed < Slow
  /\ net' = net \ {p} /\ slow' = slow \cup {p}
  /\ slowed' = slowed + 1 /\ harmed' = harmed \cup {p.call}
  /\ UNCHANGED <<callVars, resultVars, lost>>

Less(n) == IF n = 0 THEN 0 ELSE n - 1

Tick ==
  /\ net = {}
  /\ \A c \in Call : pc[c] \in {"send", "poll"} => wait[c] > 0
  /\ \E c \in Call : pc[c] \in {"send", "poll"} \/ (have[c] > 0 /\ idle[c] <= 3 * PingTimeout)
  /\ wait' = [c \in Call |-> Less(wait[c])]
  /\ total' = [c \in Call |-> Less(total[c])]
  /\ idle' = [c \in Call |-> IF have[c] > 0 /\ idle[c] <= 3 * PingTimeout
                             THEN idle[c] + 1 ELSE idle[c]]
  /\ UNCHANGED <<pc, node, path, seq, answer, have, back, net, slow, faultVars>>

Run(c) == SendPacket(c) \/ SentAll(c) \/ Poll(c) \/ PollTimeout(c)

Progress ==
  \/ \E c \in Call : Run(c)
  \/ \E p \in net \cup slow : ProcessPacket(p)
  \/ \E n \in Node : Clean(n)
  \/ Tick

Next ==
  \/ Progress
  \/ \E c \in Call : Measure(c)
  \/ \E p \in net : Lose(p) \/ Delay(p)

Spec == Init /\ [][Next]_vars

\* Goroutines run, packets arrive in the end or are lost, time passes and the
\* cleaner's ticker fires; nobody has to call Measure.
FairSpec == Spec /\ WF_vars(Progress)

------------------------------------------------------------------------------
(* Properties.                                                              *)

\* What came back for a running test is in results until Measure asks: the
\* cleaner never takes it, whichever packets are lost or slow.
ResultsKept == \A c \in Call : pc[c] \in {"send", "poll"} => have[c] = back[c]

Routable(p) == \A i \in 1..(Len(p) - 1) : <<p[i], p[i + 1]>> \in Peers

\* A test on a known path, no packet of which was lost or slow, returns the
\* average of all its packets, whatever happens to the other tests.
OnlyLossFails ==
  \A c \in Call : pc[c] = "done" /\ c \notin harmed /\ Valid(c) /\ Routable(path[c]) =>
    answer[c] = [status |-> 1, count |-> Count, err |-> FALSE]

\* Measure returns, and in the end no result of it stays in the map, although a
\* late packet makes the entry of a test again that has returned.
NothingLeft ==
  \A c \in Call : pc[c] # "idle" ~> [](pc[c] = "done") /\ <>[](have[c] = 0)
===============================================================================
