---------------------------- MODULE PathPing_proofs ----------------------------
(***************************************************************************)
(* The cleaner of results and the calls of Measure share a map and no      *)
(* clock (pathping.go:300-354): proved is that the cleaner leaves running  *)
(* tests alone, for any nodes, paths, calls, losses and delays, if only    *)
(* the sending phase is not too long for it.                               *)
(***************************************************************************)
EXTENDS PathPing, FiniteSetTheorems, TLAPS

Half == Interval \div 2

\* The longest a result can lie untouched before Measure looks at it: no packet
\* comes back after the first while the rest are sent, or none does until Measure
\* gives up waiting for more.
Longest == IF Count * Interval > 2 * PingTimeout THEN Count * Interval ELSE 2 * PingTimeout

\* The flags and the arguments of Measure leave the cleaner, which waits three
\* timeouts, behind the poll.
CleanerIsPatient == Longest + Half <= 3 * PingTimeout

Running(c) == pc[c] \in {"send", "poll"}

Typed ==
  /\ pc \in [Call -> {"idle", "send", "poll", "done"}]
  /\ seq \in [Call -> 0..Count] /\ wait \in [Call -> Nat]
  /\ have \in [Call -> Nat] /\ idle \in [Call -> Nat] /\ back \in [Call -> Nat]

\* Packets are those of calls that have begun.
InFlight == \A p \in net \cup slow : p.call \in Call /\ pc[p.call] # "idle"

\* A call that has not begun has left no trace; one that runs still has what
\* came back.
Traces(c) ==
  /\ pc[c] = "idle" => /\ have[c] = 0 /\ back[c] = 0 /\ idle[c] = 0
                       /\ seq[c] = 0 /\ wait[c] = 0
  /\ Running(c) => have[c] = back[c]
  /\ Running(c) /\ have[c] = 0 => idle[c] = 0

\* How old the entry of a running test can be.
Young(c) ==
  /\ pc[c] = "send" => idle[c] + wait[c] <= seq[c] * Interval
  /\ pc[c] = "poll" => idle[c] + wait[c] <= Longest + Half

IInv == Typed /\ InFlight /\ \A c \in Call : Traces(c) /\ Young(c)

LEMMA Constants ==
  /\ Count \in Nat \ {0} /\ Interval \in Nat \ {0, 1} /\ PingTimeout \in Nat
  /\ Half \in Nat /\ Count * Interval \in Nat /\ Longest \in Nat
  /\ Count * Interval <= Longest /\ 2 * PingTimeout <= Longest
<1>1. /\ Count \in Nat \ {0} /\ Interval \in Nat \ {0, 1} /\ PingTimeout \in Nat
  BY PathPingAssumption
<1>2. Half \in Nat
  BY <1>1 DEF Half
<1>3. Count * Interval \in Nat /\ 2 * PingTimeout \in Nat
  BY <1>1
<1> QED
  BY <1>1, <1>2, <1>3 DEF Longest

LEMMA Sent ==
  ASSUME NEW n \in 0..Count
  PROVE  /\ n * Interval \in Nat
         /\ n * Interval <= Count * Interval
         /\ (n + 1) * Interval = n * Interval + Interval
<1>1. n \in Nat /\ Count \in Nat /\ Interval \in Nat /\ n <= Count
  BY Constants
<1>2. \E k \in Nat : Count = n + k
  <2>1. Count - n \in Nat /\ Count = n + (Count - n)
    BY <1>1
  <2> QED
    BY <2>1
<1>3. PICK k \in Nat : Count = n + k
  BY <1>2
<1>4. (n + k) * Interval = n * Interval + k * Interval
  BY <1>1
<1>5. k * Interval \in Nat /\ n * Interval \in Nat
  BY <1>1
<1> QED
  BY <1>1, <1>3, <1>4, <1>5

LEMMA InitInv == Init => IInv
<1> SUFFICES ASSUME Init PROVE IInv
  OBVIOUS
<1>1. Typed
  BY Constants DEF Init, Typed
<1>2. InFlight
  BY DEF Init, InFlight
<1>3. ASSUME NEW c \in Call PROVE Traces(c) /\ Young(c)
  BY <1>3 DEF Init, Traces, Young, Running
<1> QED
  BY <1>1, <1>2, <1>3 DEF IInv

LEMMA MeasureInv ==
  ASSUME IInv, NEW c \in Call, Measure(c)
  PROVE  IInv'
<1>1. Typed'
  BY DEF IInv, Typed, Measure, Return, resultVars
<1>2. InFlight'
  BY DEF IInv, Typed, InFlight, Measure, Return
<1>3. ASSUME NEW d \in Call PROVE Traces(d)' /\ Young(d)'
  <2>1. CASE d = c
    <3>1. pc[c] = "idle" /\ pc'[c] \in {"send", "done"}
      BY DEF IInv, Typed, Measure, Return
    <3>2. have'[c] = 0 /\ back'[c] = 0 /\ idle'[c] = 0 /\ seq'[c] = 0 /\ wait'[c] = 0
      BY <3>1 DEF IInv, Traces, Measure, resultVars
    <3>3. 0 * Interval = 0
      BY Constants
    <3> QED
      BY <2>1, <3>1, <3>2, <3>3 DEF Traces, Young, Running
  <2>2. CASE d # c
    BY <2>2, <1>3 DEF IInv, Typed, Traces, Young, Running, Measure, Return, resultVars
  <2> QED
    BY <2>1, <2>2
<1> QED
  BY <1>1, <1>2, <1>3 DEF IInv

\* Calls a step does not touch stay as they are.
Same(d) ==
  /\ pc'[d] = pc[d] /\ seq'[d] = seq[d] /\ wait'[d] = wait[d]
  /\ have'[d] = have[d] /\ idle'[d] = idle[d] /\ back'[d] = back[d]

LEMMA SameKept ==
  ASSUME NEW d \in Call, Same(d), Traces(d), Young(d)
  PROVE  Traces(d)' /\ Young(d)'
BY DEF Same, Traces, Young, Running

LEMMA SendPacketInv ==
  ASSUME IInv, NEW c \in Call, SendPacket(c)
  PROVE  IInv'
<1>0. pc[c] = "send" /\ wait[c] = 0 /\ seq[c] \in 0..Count /\ seq[c] < Count
  BY DEF IInv, Typed, SendPacket, More
<1>1. Typed'
  <2>1. seq[c] + 1 \in 0..Count
    BY <1>0, Constants
  <2> QED
    BY <1>0, <2>1, Constants DEF IInv, Typed, SendPacket, Return, resultVars
<1>2. InFlight'
  <2> SUFFICES ASSUME NEW p \in net' \cup slow' PROVE p.call \in Call /\ pc'[p.call] # "idle"
    BY DEF InFlight
  <2>1. p \in net \cup slow \/ p \in Forward(node[c], c, seq[c], 0)
    BY DEF SendPacket
  <2>2. CASE p \in net \cup slow
    BY <2>2, <1>0 DEF IInv, Typed, InFlight, SendPacket, Return
  <2>3. CASE p \in Forward(node[c], c, seq[c], 0)
    <3>1. p.call = c
      BY <2>3 DEF Forward
    <3> QED
      BY <3>1, <1>0 DEF IInv, Typed, SendPacket, Return
  <2> QED
    BY <2>1, <2>2, <2>3
<1>3. ASSUME NEW d \in Call PROVE Traces(d)' /\ Young(d)'
  <2>1. CASE d # c
    <3>1. Same(d)
      BY <2>1 DEF IInv, Typed, Same, SendPacket, Return, resultVars
    <3> QED
      BY <3>1, SameKept DEF IInv
  <2>2. CASE pc'[c] = "done" /\ d = c
    BY <2>2 DEF Traces, Young, Running
  <2>3. CASE pc' = pc /\ d = c
    <3>1. seq'[c] = seq[c] + 1 /\ wait'[c] = Interval
      BY <2>3, <1>0 DEF IInv, Typed, SendPacket, Return
    <3>2. idle[c] <= seq[c] * Interval /\ idle[c] \in Nat
      BY <1>0 DEF IInv, Typed, Young
    <3>3. idle[c] + Interval <= (seq[c] + 1) * Interval
      BY <3>2, <1>0, Sent, Constants
    <3>4. have' = have /\ back' = back /\ idle' = idle
      BY DEF SendPacket, resultVars
    <3>5. Young(c)'
      BY <3>1, <3>3, <3>4, <2>3, <1>0 DEF Young
    <3>6. Traces(c)'
      BY <3>4, <2>3, <1>0 DEF IInv, Traces, Running
    <3> QED
      BY <3>5, <3>6, <2>3
  <2>4. pc'[c] = "done" \/ pc' = pc
    BY <1>0 DEF IInv, Typed, SendPacket, Return
  <2> QED
    BY <2>1, <2>2, <2>3, <2>4
<1> QED
  BY <1>1, <1>2, <1>3 DEF IInv

LEMMA SentAllInv ==
  ASSUME IInv, NEW c \in Call, SentAll(c)
  PROVE  IInv'
<1>0. pc[c] = "send" /\ wait[c] = 0 /\ seq[c] \in 0..Count
  BY DEF IInv, Typed, SentAll
<1>1. Typed'
  BY DEF IInv, Typed, SentAll, resultVars
<1>2. InFlight'
  BY DEF IInv, Typed, InFlight, SentAll
<1>3. ASSUME NEW d \in Call PROVE Traces(d)' /\ Young(d)'
  <2>1. CASE d # c
    <3>1. Same(d)
      BY <2>1 DEF IInv, Typed, Same, SentAll, resultVars
    <3> QED
      BY <3>1, SameKept DEF IInv
  <2>2. CASE d = c
    <3>1. pc'[c] = "poll"
      BY DEF IInv, Typed, SentAll
    <3>2. idle[c] <= seq[c] * Interval /\ idle[c] \in Nat
      BY <1>0 DEF IInv, Typed, Young
    <3>3. idle[c] <= Longest + Half
      BY <3>2, <1>0, Sent, Constants
    <3>4. have' = have /\ back' = back /\ idle' = idle /\ wait' = wait
      BY DEF SentAll, resultVars
    <3>5. Young(c)'
      BY <3>1, <3>2, <3>3, <3>4, <1>0 DEF Young
    <3>6. Traces(c)'
      BY <3>1, <3>4, <1>0 DEF IInv, Traces, Running
    <3> QED
      BY <3>5, <3>6, <2>2
  <2> QED
    BY <2>1, <2>2
<1> QED
  BY <1>1, <1>2, <1>3 DEF IInv

\* A poll that goes on found nothing, or something younger than two timeouts.
LEMMA PollInv ==
  ASSUME IInv, NEW c \in Call, Poll(c) \/ PollTimeout(c)
  PROVE  IInv'
<1>0. pc[c] = "poll" /\ wait[c] = 0
  BY DEF Poll, PollTimeout
<1>1. Typed'
  BY Constants DEF IInv, Typed, Poll, PollTimeout, Return, Forget, Half
<1>2. InFlight'
  BY <1>0 DEF IInv, Typed, InFlight, Poll, PollTimeout, Return
<1>3. ASSUME NEW d \in Call PROVE Traces(d)' /\ Young(d)'
  <2>1. CASE d # c
    <3>1. Same(d)
      BY <2>1 DEF IInv, Typed, Same, Poll, PollTimeout, Return, Forget
    <3> QED
      BY <3>1, SameKept DEF IInv
  <2>2. CASE pc'[c] = "done" /\ d = c
    BY <2>2 DEF Traces, Young, Running
  <2>3. CASE pc'[c] # "done" /\ d = c
    <3>1. /\ ~Complete(c) /\ pc' = pc /\ have' = have /\ back' = back /\ idle' = idle
          /\ wait'[c] = Half
      BY <2>3, <1>0 DEF IInv, Typed, Poll, PollTimeout, Return, Half
    <3>2. idle[c] \in Nat /\ have[c] \in Nat /\ (have[c] = 0 => idle[c] = 0)
      BY <1>0 DEF IInv, Typed, Traces, Running
    <3>3. idle[c] <= Longest
      BY <3>1, <3>2, Constants DEF Complete
    <3>4. Young(c)'
      BY <3>1, <3>2, <3>3, <1>0, Constants DEF Young
    <3>5. Traces(c)'
      BY <3>1, <1>0 DEF IInv, Traces, Running
    <3> QED
      BY <3>4, <3>5, <2>3
  <2> QED
    BY <2>1, <2>2, <2>3
<1> QED
  BY <1>1, <1>2, <1>3 DEF IInv

LEMMA ProcessPacketInv ==
  ASSUME IInv, NEW p \in net \cup slow, ProcessPacket(p)
  PROVE  IInv'
<1> DEFINE c == p.call
<1>0. c \in Call /\ pc[c] # "idle"
  BY DEF IInv, InFlight
<1>1. CASE /\ Collect(c) /\ idle' = [idle EXCEPT ![c] = 0]
           /\ back' = [back EXCEPT ![c] = @ + 1] /\ net' = net \ {p}
  <2>1. Typed'
    BY <1>0, <1>1 DEF IInv, Typed, ProcessPacket, Collect, callVars
  <2>2. InFlight'
    BY <1>1 DEF IInv, InFlight, ProcessPacket, callVars
  <2>3. ASSUME NEW d \in Call PROVE Traces(d)' /\ Young(d)'
    <3>1. CASE d # c
      <4>1. Same(d)
        BY <1>0, <1>1, <3>1 DEF IInv, Typed, Same, ProcessPacket, Collect, callVars
      <4> QED
        BY <4>1, SameKept DEF IInv
    <3>2. CASE d = c
      <4>1. /\ pc' = pc /\ seq' = seq /\ wait' = wait
            /\ have'[c] = have[c] + 1 /\ back'[c] = back[c] + 1 /\ idle'[c] = 0
        BY <1>0, <1>1 DEF IInv, Typed, ProcessPacket, Collect, callVars
      <4>2. have[c] \in Nat /\ idle[c] \in Nat /\ wait[c] \in Nat /\ seq[c] \in 0..Count
        BY <1>0 DEF IInv, Typed
      <4>3. Traces(c)'
        BY <1>0, <4>1, <4>2 DEF IInv, Traces, Running
      <4>4. seq[c] * Interval \in Nat
        BY <4>2, Sent
      <4>5. Young(c)'
        BY <1>0, <4>1, <4>2, <4>4, Constants DEF IInv, Young
      <4> QED
        BY <3>2, <4>3, <4>5
    <3> QED
      BY <3>1, <3>2
  <2> QED
    BY <2>1, <2>2, <2>3 DEF IInv
<1>2. CASE UNCHANGED resultVars /\ net' = (net \ {p}) \cup Forward(p.at, c, p.seq, p.hop + 1)
  <2>1. Typed'
    BY <1>2 DEF IInv, Typed, ProcessPacket, callVars, resultVars
  <2>2. InFlight'
    BY <1>0, <1>2 DEF IInv, InFlight, ProcessPacket, Forward, callVars
  <2>3. ASSUME NEW d \in Call PROVE Same(d)
    BY <1>2 DEF Same, ProcessPacket, callVars, resultVars
  <2> QED
    BY <2>1, <2>2, <2>3, SameKept DEF IInv
<1> QED
  BY <1>1, <1>2 DEF ProcessPacket

\* What the cleaner may remove has lain there for longer than Measure lets a
\* result of a running test lie.
LEMMA NotStale ==
  ASSUME CleanerIsPatient, IInv, NEW c \in Call, Running(c)
  PROVE  idle[c] <= 3 * PingTimeout
<1>1. idle[c] \in Nat /\ wait[c] \in Nat /\ seq[c] \in 0..Count
  BY DEF IInv, Typed
<1>2. CASE pc[c] = "send"
  <2>1. idle[c] + wait[c] <= seq[c] * Interval
    BY <1>2 DEF IInv, Young
  <2>2. seq[c] * Interval \in Nat /\ seq[c] * Interval <= Count * Interval
    BY <1>1, Sent
  <2> QED
    BY <1>1, <2>1, <2>2, Constants DEF CleanerIsPatient
<1>3. CASE pc[c] = "poll"
  <2>1. idle[c] + wait[c] <= Longest + Half
    BY <1>3 DEF IInv, Young
  <2> QED
    BY <1>1, <2>1, Constants DEF CleanerIsPatient
<1> QED
  BY <1>2, <1>3 DEF Running

LEMMA CleanInv ==
  ASSUME CleanerIsPatient, IInv, NEW n \in Node, Clean(n)
  PROVE  IInv'
<1>1. Typed'
  BY DEF IInv, Typed, Clean, callVars
<1>2. InFlight'
  BY DEF IInv, InFlight, Clean, callVars
<1>3. ASSUME NEW d \in Call PROVE Traces(d)' /\ Young(d)'
  <2>1. idle[d] \in Nat /\ have[d] \in Nat
    BY DEF IInv, Typed
  <2>2. CASE Running(d) \/ pc[d] = "idle"
    <3>1. ~(have[d] > 0 /\ idle[d] > 3 * PingTimeout)
      BY <2>1, <2>2, NotStale, Constants DEF IInv, Traces
    <3>2. Same(d)
      BY <3>1 DEF Same, Clean, callVars
    <3> QED
      BY <3>2, SameKept DEF IInv
  <2>3. CASE pc[d] = "done"
    BY <2>3 DEF Traces, Young, Running, Clean, callVars
  <2> QED
    BY <2>2, <2>3 DEF IInv, Typed, Running
<1> QED
  BY <1>1, <1>2, <1>3 DEF IInv

LEMMA NetworkInv ==
  ASSUME IInv, NEW p \in net, Lose(p) \/ Delay(p)
  PROVE  IInv'
<1>1. Typed' /\ InFlight'
  BY DEF IInv, Typed, InFlight, Lose, Delay, callVars, resultVars
<1>2. ASSUME NEW d \in Call PROVE Same(d)
  BY DEF Same, Lose, Delay, callVars, resultVars
<1> QED
  BY <1>1, <1>2, SameKept DEF IInv

\* While time passes every running call sleeps: what its entry gets older by, its
\* sleep gets shorter.
LEMMA TickInv ==
  ASSUME IInv, Tick
  PROVE  IInv'
<1>1. Typed'
  BY Constants DEF IInv, Typed, Tick, Less
<1>2. InFlight'
  BY DEF IInv, InFlight, Tick
<1>3. ASSUME NEW d \in Call PROVE Traces(d)' /\ Young(d)'
  <2>1. /\ pc' = pc /\ seq' = seq /\ have' = have /\ back' = back
        /\ wait'[d] = Less(wait[d]) /\ idle'[d] \in {idle[d], idle[d] + 1}
        /\ have[d] = 0 => idle'[d] = idle[d]
        /\ idle[d] \in Nat /\ wait[d] \in Nat /\ have[d] \in Nat /\ seq[d] \in 0..Count
    BY DEF IInv, Typed, Tick
  <2>2. Running(d) => wait[d] > 0
    BY DEF Tick, Running
  <2>3. seq[d] * Interval \in Nat /\ Longest + Half \in Nat
    BY <2>1, Sent, Constants
  <2>4. Traces(d)'
    BY <2>1 DEF IInv, Traces, Running, Less
  <2>5. Running(d) => idle'[d] + wait'[d] <= idle[d] + wait[d]
    BY <2>1, <2>2 DEF Less
  <2>6. idle'[d] \in Nat /\ wait'[d] \in Nat
    BY <1>1 DEF Typed
  <2>7. Young(d)
    BY DEF IInv
  <2>8. Young(d)'
    BY <2>1, <2>3, <2>5, <2>6, <2>7 DEF Young, Running
  <2> QED
    BY <2>4, <2>8
<1> QED
  BY <1>1, <1>2, <1>3 DEF IInv

LEMMA StepInv ==
  ASSUME CleanerIsPatient, IInv, [Next]_vars
  PROVE  IInv'
<1>1. CASE \E c \in Call : Run(c)
  BY <1>1, SendPacketInv, SentAllInv, PollInv DEF Run
<1>2. CASE \E p \in net \cup slow : ProcessPacket(p)
  BY <1>2, ProcessPacketInv
<1>3. CASE \E n \in Node : Clean(n)
  BY <1>3, CleanInv
<1>4. CASE Tick
  BY <1>4, TickInv
<1>5. CASE \E c \in Call : Measure(c)
  BY <1>5, MeasureInv
<1>6. CASE \E p \in net : Lose(p) \/ Delay(p)
  BY <1>6, NetworkInv
<1>7. CASE UNCHANGED vars
  <2>1. Typed' /\ InFlight'
    BY <1>7 DEF IInv, Typed, InFlight, vars, callVars, resultVars
  <2>2. ASSUME NEW d \in Call PROVE Same(d)
    BY <1>7 DEF Same, vars, callVars, resultVars
  <2> QED
    BY <2>1, <2>2, SameKept DEF IInv
<1> QED
  BY <1>1, <1>2, <1>3, <1>4, <1>5, <1>6, <1>7 DEF Next, Progress

\* ResultsKept: what came back for a running test is in results until Measure
\* asks (pathping.go:300-328), since cleanUpResults, which looks at the age of an
\* entry only (346), waits longer than Measure ever leaves an entry alone.
THEOREM ResultsKeptHolds == CleanerIsPatient /\ Spec => []ResultsKept
<1>1. IInv => ResultsKept
  BY DEF IInv, Traces, Running, ResultsKept
<1>2. CleanerIsPatient /\ IInv /\ [Next]_vars => IInv'
  BY StepInv
<1>3. CASE CleanerIsPatient
  <2>1. Init => IInv
    BY InitInv
  <2>2. IInv /\ [Next]_vars => IInv'
    BY <1>2, <1>3
  <2>3. Spec => []IInv
    BY <2>1, <2>2, PTL DEF Spec
  <2> QED
    BY <1>1, <2>3, PTL
<1>4. CASE ~CleanerIsPatient
  BY <1>4
<1> QED
  BY <1>3, <1>4
------------------------------------------------------------------------------
(* What is on its way, and the tests that nothing happens to.                *)

Flying == net \cup slow
Out(c) == {p \in Flying : p.call = c}

\* Packet s of test c after h hops.
At(c, s, h) == [call |-> c, seq |-> s, hop |-> h, at |-> path[c][h + 2]]

\* A packet is on its way along the path of a valid test.
OnPath(p) ==
  /\ p.call \in Call /\ pc[p.call] # "idle" /\ Valid(p.call)
  /\ p.seq \in 0..(seq[p.call] - 1)
  /\ p.hop \in Nat /\ p.hop + 2 <= Len(path[p.call])
  /\ p = At(p.call, p.seq, p.hop)

\* There is one of each number, and no more come back than were sent.
OneEach == \A p, q \in Flying : p.call = q.call /\ p.seq = q.seq => p = q
Balance(c) == IsFiniteSet(Out(c)) /\ back[c] + Cardinality(Out(c)) <= seq[c]

Flight ==
  /\ net \cap slow = {}
  /\ \A p \in Flying : OnPath(p)
  /\ OneEach
  /\ \A c \in Call : Balance(c)

Kept(c) ==
  /\ pc[c] = "idle" =>
       back[c] = 0 /\ seq[c] = 0 /\ have[c] = 0 /\ idle[c] = 0 /\ wait[c] = 0
  /\ pc[c] \in {"send", "poll"} => Valid(c)
  /\ pc[c] = "poll" => seq[c] = Count
  /\ have[c] <= back[c]

FlightInv == TypeOK /\ Flight /\ \A c \in Call : Kept(c)

\* The cleaner does not come between two packets of a test.
IntervalIsShort == Interval <= 3 * PingTimeout

\* A test on a known path that nothing has happened to so far.
Unharmed(c) == IntervalIsShort /\ c \notin harmed /\ Valid(c) /\ Routable(path[c])

\* Its packets are accounted for, none is on its way when time passes, and
\* after the last one they are all there.
Undisturbed(c) ==
  /\ Running(c) =>
       /\ have[c] = back[c] /\ (have[c] = 0 => idle[c] = 0)
       /\ back[c] + Cardinality(Out(c)) = seq[c]
       /\ wait[c] < Interval => Out(c) = {}
       /\ idle[c] <= Interval
       /\ Out(c) = {} => idle[c] + wait[c] <= Interval
  /\ pc[c] = "poll" => wait[c] = 0 /\ total[c] > 0
  /\ pc[c] = "done" => answer[c] = [status |-> 1, count |-> Count, err |-> FALSE]

LossInv ==
  /\ \A p \in slow : p.call \in harmed
  /\ \A c \in Call : Unharmed(c) => Undisturbed(c)

\* What a hop sends: the packet one further on the path, if its next node is known.
LEMMA Forwarded ==
  ASSUME TypeOK, NEW c \in Call, NEW s \in 0..(Count - 1),
         NEW h \in Nat, h + 2 <= Len(path[c]), NEW from
  PROVE  /\ path[c][h + 2] \in Node
         /\ At(c, s, h) \in Packet
         /\ Forward(from, c, s, h) =
              IF <<from, path[c][h + 2]>> \in Peers THEN {At(c, s, h)} ELSE {}
<1>1. path[c] \in Seq(Node) /\ path[c] \in Paths
  BY PathPingAssumption DEF TypeOK
<1>2. Len(path[c]) \in Nat
  BY <1>1
<1>3. h + 2 \in 1..Len(path[c]) /\ h \in 0..Len(path[c])
  BY <1>2
<1>4. path[c][h + 2] \in Node
  BY <1>1, <1>3
<1>5. h \in Hops
  BY <1>1, <1>3 DEF Hops
<1>6. At(c, s, h) \in Packet
  BY <1>4, <1>5 DEF Packet, At
<1>7. [call : {c}, seq : {s}, hop : {h}, at : {path[c][h + 2]}] = {At(c, s, h)}
  <2>1. ASSUME NEW p \in [call : {c}, seq : {s}, hop : {h}, at : {path[c][h + 2]}]
        PROVE  p = At(c, s, h)
    BY DEF At
  <2>2. At(c, s, h) \in [call : {c}, seq : {s}, hop : {h}, at : {path[c][h + 2]}]
    BY DEF At
  <2> QED
    BY <2>1, <2>2
<1>8. At(c, s, h).at = path[c][h + 2]
  BY DEF At
<1> QED
  BY <1>4, <1>6, <1>7, <1>8 DEF Forward

\* A step that leaves the packets alone.
LEMMA StillFlight ==
  ASSUME FlightInv, UNCHANGED <<node, path, seq, net, slow, back>>,
         \A d \in Call : pc[d] # "idle" => pc'[d] # "idle"
  PROVE  /\ Flight'
         /\ \A d \in Call : Out(d)' = Out(d) /\ Valid(d)' = Valid(d)
<1>1. Flying' = Flying
  BY DEF Flying
<1>2. \A d : Out(d)' = Out(d)
  BY <1>1 DEF Out
<1>3. \A d : Valid(d)' = Valid(d)
  BY DEF Valid
<1>4. ASSUME NEW p \in Flying PROVE OnPath(p)'
  BY <1>3, <1>4 DEF FlightInv, Flight, OnPath, At
<1>5. OneEach'
  BY <1>1 DEF FlightInv, Flight, OneEach
<1>6. \A d \in Call : Balance(d)'
  BY <1>2 DEF FlightInv, Flight, Balance
<1> QED
  BY <1>1, <1>2, <1>3, <1>4, <1>5, <1>6 DEF FlightInv, Flight

\* Numbers that TypeOK compares with.
LEMMA Numbers ==
  /\ Count * Interval + PingTimeout \in Nat /\ Count * Interval + PingTimeout > 0
  /\ 3 * PingTimeout + 1 \in Nat /\ 3 * PingTimeout \in Nat
  /\ Half \in 0..Interval
<1>1. 1 \in 0..Count /\ 1 * Interval = Interval
  BY Constants
<1>2. Interval <= Count * Interval
  BY <1>1, Sent
<1> QED
  BY <1>2, Constants DEF Half

LEMMA Answers ==
  /\ NoAnswer \in [status : {0, 1}, count : 0..Count, err : BOOLEAN]
  /\ Failed \in [status : {0, 1}, count : 0..Count, err : BOOLEAN]
  /\ \A n \in 0..Count, s \in {0, 1} :
       [status |-> s, count |-> n, err |-> FALSE] \in [status : {0, 1}, count : 0..Count, err : BOOLEAN]
<1>1. 0 \in 0..Count
  BY Constants
<1> QED
  BY <1>1 DEF NoAnswer, Failed

LEMMA InitFlight == Init => FlightInv /\ LossInv
<1> SUFFICES ASSUME Init PROVE FlightInv /\ LossInv
  OBVIOUS
<1>1. TypeOK
  <2>1. 0 \in 0..Count /\ 0 \in 0..Interval /\ 0 \in 0..(3 * PingTimeout + 1)
    BY Constants
  <2>2. 0 \in 0..(Count * Interval + PingTimeout) /\ 0 \in 0..Losses /\ 0 \in 0..Slow
    BY Numbers, PathPingAssumption
  <2> QED
    <3>1. NoAnswer \in [status : {0, 1}, count : 0..Count, err : BOOLEAN]
      BY Answers
    <3> QED
      BY <2>1, <2>2, <3>1 DEF Init, TypeOK
<1>2. Flying = {} /\ \A c : Out(c) = {}
  BY DEF Init, Flying, Out
<1>3. Flight
  BY <1>2, FS_EmptySet DEF Init, Flight, OneEach, Balance
<1>4. \A c \in Call : Kept(c) /\ Undisturbed(c)
  BY DEF Init, Kept, Undisturbed, Running
<1> QED
  BY <1>1, <1>3, <1>4 DEF FlightInv, LossInv, Init

LEMMA MeasureFlight ==
  ASSUME FlightInv, LossInv, NEW c \in Call, Measure(c)
  PROVE  FlightInv' /\ LossInv'
<1>1. TypeOK'
  <2>1. pc' \in [Call -> {"idle", "send", "poll", "done"}]
    <3>1. pc \in [Call -> {"idle", "send", "poll", "done"}]
      BY DEF FlightInv, TypeOK
    <3>2. pc' = [pc EXCEPT ![c] = "send"] \/ pc' = [pc EXCEPT ![c] = "done"]
      BY DEF Measure, Return
    <3> QED
      BY <3>1, <3>2
  <2>2. answer' \in [Call -> [status : {0, 1}, count : 0..Count, err : BOOLEAN]]
    <3>1. answer \in [Call -> [status : {0, 1}, count : 0..Count, err : BOOLEAN]]
      BY DEF FlightInv, TypeOK
    <3>2. answer' \in {answer, [answer EXCEPT ![c] = Failed]}
      BY DEF Measure, Return
    <3> QED
      BY <3>1, <3>2, Answers
  <2> QED
    BY <2>1, <2>2 DEF FlightInv, TypeOK, Measure, resultVars, faultVars
<1>2. /\ UNCHANGED <<node, path, seq, net, slow, back, have, idle, wait, total, harmed>>
      /\ \A d \in Call : pc[d] # "idle" => pc'[d] # "idle"
      /\ pc[c] = "idle" /\ pc'[c] = (IF Valid(c) THEN "send" ELSE "done")
      /\ \A d \in Call : d # c => pc'[d] = pc[d] /\ answer'[d] = answer[d]
  <2>1. /\ UNCHANGED <<node, path, seq, net, slow, back, have, idle, wait, total, harmed>>
        /\ pc[c] = "idle" /\ pc' = [pc EXCEPT ![c] = IF Valid(c) THEN "send" ELSE "done"]
        /\ answer' = answer \/ \E a : answer' = [answer EXCEPT ![c] = a]
    BY DEF Measure, Return, resultVars, faultVars
  <2>2. /\ pc \in [Call -> {"idle", "send", "poll", "done"}]
        /\ answer \in [Call -> [status : {0, 1}, count : 0..Count, err : BOOLEAN]]
    BY DEF FlightInv, TypeOK
  <2>3. pc'[c] = (IF Valid(c) THEN "send" ELSE "done") /\ \A d \in Call : d # c => pc'[d] = pc[d]
    BY <2>1, <2>2
  <2>4. \A d \in Call : d # c => answer'[d] = answer[d]
    BY <2>1, <2>2
  <2> QED
    BY <2>1, <2>3, <2>4
<1>3. Flight' /\ \A d \in Call : Out(d)' = Out(d) /\ Valid(d)' = Valid(d)
  BY <1>2, StillFlight
<1>4. \A d \in Call : Kept(d)'
  BY <1>2, <1>3 DEF FlightInv, Kept
<1>5. Out(c) = {} /\ Cardinality(Out(c)) = 0
  <2>1. \A p \in Flying : p.call # c
    BY <1>2 DEF FlightInv, Flight, OnPath
  <2> QED
    BY <2>1, FS_EmptySet DEF Out
<1>6. ASSUME NEW d \in Call, Unharmed(d)' PROVE Undisturbed(d)'
  <2>1. Unharmed(d)
    BY <1>2, <1>3, <1>6 DEF Unharmed
  <2>2. CASE d = c
    <3>1. pc'[c] = "send"
      BY <1>2, <2>1, <2>2 DEF Unharmed
    <3>2. have[c] = 0 /\ back[c] = 0 /\ idle[c] = 0 /\ wait[c] = 0 /\ seq[c] = 0
      BY <1>2 DEF FlightInv, Kept
    <3>3. have'[c] = 0 /\ back'[c] = 0 /\ idle'[c] = 0 /\ wait'[c] = 0 /\ seq'[c] = 0
      BY <3>2, <1>2
    <3>4. Out(c)' = {} /\ Cardinality(Out(c)') = 0
      BY <1>3, <1>5
    <3> QED
      BY <2>2, <3>1, <3>3, <3>4, Constants DEF Undisturbed
  <2>3. CASE d # c
    BY <2>1, <2>3, <1>2, <1>3 DEF LossInv, Undisturbed, Running
  <2> QED
    BY <2>2, <2>3
<1> QED
  BY <1>1, <1>2, <1>3, <1>4, <1>6 DEF FlightInv, LossInv

\* Tests a step does not touch stay as they are.
Alike(d) ==
  /\ Same(d) /\ total'[d] = total[d] /\ answer'[d] = answer[d]
  /\ Out(d)' = Out(d)

LEMMA AlikeKept ==
  ASSUME NEW d \in Call, Alike(d), Undisturbed(d)
  PROVE  Undisturbed(d)'
BY DEF Alike, Same, Undisturbed, Running

\* A new packet in flight, in place of another one of its number or of none.
LEMMA Replaced ==
  ASSUME FlightInv, NEW c \in Call, NEW q, NEW gone,
         pc[c] # "idle", UNCHANGED <<node, path, back>>,
         \A d \in Call : pc[d] # "idle" => pc'[d] # "idle",
         \A d \in Call : seq'[d] \in Nat /\ seq[d] <= seq'[d],
         gone \subseteq Flying, \A p \in gone : p.call = c /\ p.seq = q.seq,
         Flying' = (Flying \ gone) \cup {q}, q.call = c, OnPath(q)', (net \cap slow = {})',
         \A p \in Flying \ gone : p.call = c => p.seq # q.seq,
         (gone = {} /\ seq'[c] = seq[c] + 1) \/ (\E p : gone = {p} /\ seq'[c] = seq[c]),
         \A d \in Call : d # c => seq'[d] = seq[d]
  PROVE  /\ Flight'
         /\ \A d \in Call : d # c => Out(d)' = Out(d)
         /\ Out(c)' = (Out(c) \ gone) \cup {q}
         /\ Cardinality(Out(c)') - seq'[c] = Cardinality(Out(c)) - seq[c]
<1>1. \A d \in Call : d # c => Out(d)' = Out(d)
  BY DEF Out
<1>2. Out(c)' = (Out(c) \ gone) \cup {q}
  BY DEF Out
<1>3. \A d : Valid(d)' = Valid(d)
  BY DEF Valid
<1>4. ASSUME NEW p \in Flying' PROVE OnPath(p)'
  <2>1. CASE p = q
    BY <2>1
  <2>2. CASE p \in Flying
    <3>1. OnPath(p)
      BY <2>2 DEF FlightInv, Flight
    <3>2. p.call \in Call /\ seq[p.call] \in Nat
      BY <3>1 DEF FlightInv, TypeOK, OnPath
    <3>3. seq'[p.call] \in Nat /\ seq[p.call] <= seq'[p.call]
      BY <3>2
    <3>4. p.seq \in 0..(seq'[p.call] - 1)
      BY <3>1, <3>2, <3>3 DEF OnPath
    <3>5. At(p.call, p.seq, p.hop)' = At(p.call, p.seq, p.hop)
      BY DEF At
    <3> QED
      BY <3>1, <3>4, <3>5, <1>3 DEF OnPath
  <2> QED
    BY <1>4, <2>1, <2>2
<1>5. OneEach'
  BY DEF FlightInv, Flight, OneEach
<1>6. IsFiniteSet(Out(c)) /\ Cardinality(Out(c)) \in Nat /\ seq[c] \in Nat /\ seq'[c] \in Nat
  BY FS_CardinalityType DEF FlightInv, Flight, Balance, TypeOK
<1>7. q \notin Out(c) \ gone
  BY DEF Out
<1>8. IsFiniteSet(Out(c)') /\ Cardinality(Out(c)') - seq'[c] = Cardinality(Out(c)) - seq[c]
  <2>1. CASE gone = {} /\ seq'[c] = seq[c] + 1
    <3>1. q \notin Out(c) /\ Out(c)' = Out(c) \cup {q}
      BY <2>1, <1>2, <1>7
    <3>2. IsFiniteSet(Out(c)') /\ Cardinality(Out(c)') = Cardinality(Out(c)) + 1
      BY <3>1, <1>6, FS_AddElement
    <3> QED
      BY <3>2, <2>1, <1>6
  <2>2. ASSUME NEW p, gone = {p}, seq'[c] = seq[c]
        PROVE  IsFiniteSet(Out(c)') /\ Cardinality(Out(c)') - seq'[c] = Cardinality(Out(c)) - seq[c]
    <3>1. p \in Out(c)
      BY <2>2 DEF Out
    <3>2. IsFiniteSet(Out(c) \ {p}) /\ Cardinality(Out(c) \ {p}) = Cardinality(Out(c)) - 1
      BY <3>1, <1>6, FS_RemoveElement
    <3>3. q \notin Out(c) \ {p} /\ Out(c)' = (Out(c) \ {p}) \cup {q}
      BY <2>2, <1>2, <1>7
    <3>4. IsFiniteSet(Out(c)') /\ Cardinality(Out(c)') = Cardinality(Out(c) \ {p}) + 1
      <4> DEFINE R == Out(c) \ {p}
      <4>1. IsFiniteSet(R) /\ q \notin R /\ Out(c)' = R \cup {q}
        BY <3>2, <3>3
      <4> HIDE DEF R
      <4>2. IsFiniteSet(R \cup {q}) /\ Cardinality(R \cup {q}) = Cardinality(R) + 1
        BY <4>1, FS_AddElement
      <4> QED
        BY <4>1, <4>2 DEF R
    <3> QED
      BY <3>2, <3>4, <2>2, <1>6
  <2> QED
    BY <2>1, <2>2
<1>9. ASSUME NEW d \in Call PROVE Balance(d)'
  <2>1. CASE d # c
    BY <2>1, <1>1 DEF FlightInv, Flight, Balance
  <2>2. CASE d = c
    <3>1. back[c] \in Nat /\ back[c] + Cardinality(Out(c)) <= seq[c] /\ back'[c] = back[c]
      BY DEF FlightInv, Flight, Balance, TypeOK
    <3>2. Cardinality(Out(c)') \in Nat
      BY <1>8, FS_CardinalityType
    <3>3. back'[c] + Cardinality(Out(c)') <= seq'[c]
      BY <3>1, <3>2, <1>6, <1>8
    <3> QED
      BY <2>2, <3>3, <1>8 DEF Balance
  <2> QED
    BY <2>1, <2>2
<1> QED
  BY <1>1, <1>2, <1>4, <1>5, <1>8, <1>9 DEF Flight

LEMMA SendPacketFlight ==
  ASSUME FlightInv, LossInv, NEW c \in Call, SendPacket(c)
  PROVE  FlightInv' /\ LossInv'
<1> DEFINE sent == Forward(node[c], c, seq[c], 0)
<1>q. PICK q : q = At(c, seq[c], 0)
  OBVIOUS
<1>0. /\ pc[c] = "send" /\ wait[c] = 0 /\ seq[c] \in 0..(Count - 1) /\ seq[c] + 1 \in 0..Count
      /\ Valid(c) /\ 0 + 2 <= Len(path[c])
  <2>1. pc[c] = "send" /\ wait[c] = 0 /\ seq[c] < Count
    BY DEF SendPacket, More
  <2>2. seq[c] \in 0..Count /\ Count \in Nat
    BY Constants DEF FlightInv, TypeOK
  <2> QED
    BY <2>1, <2>2 DEF FlightInv, Kept, Valid
<1>1. /\ q \in Packet
      /\ sent = IF <<node[c], path[c][2]>> \in Peers THEN {q} ELSE {}
  <2>1. 0 \in Nat /\ 0 + 2 = 2
    OBVIOUS
  <2> QED
    BY <1>0, <1>q, <2>1, Forwarded DEF FlightInv
<1>2. UNCHANGED <<node, path, total, have, idle, back, slow, slowed>>
  BY DEF SendPacket, resultVars
<1>3. CASE /\ Return(c, Failed) /\ net' = net /\ seq' = seq /\ wait' = wait
           /\ \/ sent = {} /\ lost' = lost /\ harmed' = harmed
              \/ CanLose /\ lost' = lost + 1 /\ harmed' = harmed \cup {c}
  <2>1. TypeOK'
    <3>1. pc' \in [Call -> {"idle", "send", "poll", "done"}]
      BY <1>3 DEF FlightInv, TypeOK, Return
    <3>2. answer' \in [Call -> [status : {0, 1}, count : 0..Count, err : BOOLEAN]]
      BY <1>3, Answers DEF FlightInv, TypeOK, Return
    <3>3. lost' \in 0..Losses /\ harmed' \subseteq Call
      BY <1>3, PathPingAssumption DEF FlightInv, TypeOK, CanLose
    <3> QED
      BY <3>1, <3>2, <3>3, <1>2, <1>3 DEF FlightInv, TypeOK
  <2>2. /\ pc'[c] = "done"
        /\ \A d \in Call : d # c => pc'[d] = pc[d] /\ answer'[d] = answer[d]
    BY <1>3 DEF FlightInv, TypeOK, Return
  <2>3. Flight' /\ \A d \in Call : Out(d)' = Out(d) /\ Valid(d)' = Valid(d)
    BY <2>2, <1>0, <1>2, <1>3, StillFlight
  <2>4. \A d \in Call : Kept(d)'
    BY <2>2, <2>3, <1>2, <1>3 DEF FlightInv, Kept
  <2>5. ASSUME NEW d \in Call, Unharmed(d)' PROVE Undisturbed(d)'
    <3>1. Unharmed(d)
      BY <1>2, <1>3, <2>3, <2>5 DEF Unharmed
    <3>2. d # c
      <4>1. SUFFICES ASSUME d = c PROVE FALSE
        OBVIOUS
      <4>2. sent = {}
        BY <2>5, <4>1, <1>3 DEF Unharmed
      <4>3. <<path[c][1], path[c][1 + 1]>> \in Peers
        <5>1. path[c] \in Seq(Node)
          BY PathPingAssumption DEF FlightInv, TypeOK
        <5>2. 1 \in 1..(Len(path[c]) - 1)
          BY <5>1, <1>0
        <5> QED
          BY <3>1, <4>1, <5>2 DEF Unharmed, Routable
      <4>4. path[c][1] = node[c] /\ 1 + 1 = 2
        BY <1>0 DEF Valid
      <4> QED
        BY <4>2, <4>3, <4>4, <1>1
    <3>3. Alike(d)
      BY <3>2, <2>2, <2>3, <1>2, <1>3 DEF Alike, Same
    <3> QED
      BY <3>1, <3>3, AlikeKept DEF LossInv
  <2>6. \A p \in slow' : p.call \in harmed'
    BY <1>2, <1>3 DEF LossInv
  <2> QED
    BY <2>1, <2>3, <2>4, <2>5, <2>6 DEF FlightInv, LossInv
<1>4. CASE /\ sent # {} /\ net' = net \cup sent
           /\ seq' = [seq EXCEPT ![c] = @ + 1] /\ wait' = [wait EXCEPT ![c] = Interval]
           /\ UNCHANGED <<pc, answer, lost, harmed>>
  <2>1. sent = {q}
    BY <1>1, <1>4
  <2>2. q.call = c /\ q.seq = seq[c] /\ q.hop = 0
    BY <1>q DEF At
  <2> HIDE DEF sent
  <2>3. TypeOK'
    <3>1. net' \subseteq Packet
      BY <2>1, <1>1, <1>4 DEF FlightInv, TypeOK
    <3>2. seq' \in [Call -> 0..Count]
      BY <1>0, <1>4 DEF FlightInv, TypeOK
    <3>3. wait' \in [Call -> 0..Interval]
      BY <1>4, Constants DEF FlightInv, TypeOK
    <3> QED
      BY <3>1, <3>2, <3>3, <1>2, <1>4 DEF FlightInv, TypeOK
  <2>4. /\ seq'[c] = seq[c] + 1 /\ wait'[c] = Interval
        /\ \A d \in Call : d # c => seq'[d] = seq[d] /\ wait'[d] = wait[d]
    BY <1>4 DEF FlightInv, TypeOK
  <2>5. \A d : Valid(d)' = Valid(d)
    BY <1>2 DEF Valid
  <2>6. OnPath(q)'
    <3>2. q = At(c, q.seq, q.hop)'
      BY <1>q, <1>2, <2>2 DEF At
    <3>3. seq[c] \in 0..(seq'[c] - 1)
      BY <1>0, <2>4
    <3> QED
      BY <3>2, <3>3, <2>2, <1>0, <1>2, <1>4, <2>5 DEF OnPath
  <2>7. \A p \in Flying : p.call = c => p.seq \in 0..(seq[c] - 1)
    BY DEF FlightInv, Flight, OnPath
  <2>8. \A p \in Flying : p.call = c => p.seq # q.seq
    BY <2>2, <2>7, <1>0
  <2>9. Flying' = (Flying \ {}) \cup {q}
    BY <2>1, <1>2, <1>4 DEF Flying
  <2>10. (net \cap slow = {})'
    BY <2>1, <2>2, <2>8, <1>2, <1>4 DEF FlightInv, Flight, Flying
  <2>11. \A d \in Call : seq'[d] \in Nat /\ seq[d] <= seq'[d]
    <3>1. ASSUME NEW d \in Call PROVE seq'[d] \in Nat /\ seq[d] <= seq'[d]
      <4>1. seq[d] \in Nat
        BY DEF FlightInv, TypeOK
      <4> QED
        BY <4>1, <2>4
    <3> QED
      BY <3>1
  <2>12. /\ Flight'
         /\ \A d \in Call : d # c => Out(d)' = Out(d)
         /\ Out(c)' = (Out(c) \ {}) \cup {q}
         /\ Cardinality(Out(c)') - seq'[c] = Cardinality(Out(c)) - seq[c]
    <3>1. \A p \in Flying \ {} : p.call = c => p.seq # q.seq
      BY <2>8
    <3> DEFINE gone == {}
    <3>2. /\ gone \subseteq Flying /\ \A p \in gone : p.call = c /\ p.seq = q.seq
          /\ gone = {} /\ seq'[c] = seq[c] + 1
      BY <2>4
    <3>3. \A d \in Call : pc[d] # "idle" => pc'[d] # "idle"
      BY <1>4
    <3> HIDE DEF gone
    <3>4. /\ Flying' = (Flying \ gone) \cup {q}
          /\ \A p \in Flying \ gone : p.call = c => p.seq # q.seq
      BY <2>8, <2>9 DEF gone
    <3>5. /\ Flight'
          /\ \A d \in Call : d # c => Out(d)' = Out(d)
          /\ Out(c)' = (Out(c) \ gone) \cup {q}
          /\ Cardinality(Out(c)') - seq'[c] = Cardinality(Out(c)) - seq[c]
      BY <3>2, <3>3, <3>4, <1>0, <1>2, <2>2, <2>4, <2>6, <2>10, <2>11, Replaced
    <3> QED
      BY <3>5 DEF gone
  <2>13. \A d \in Call : Kept(d)'
    BY <2>4, <2>5, <1>0, <1>2, <1>4 DEF FlightInv, Kept
  <2>14. ASSUME NEW d \in Call, Unharmed(d)' PROVE Undisturbed(d)'
    <3>1. Unharmed(d)
      BY <1>2, <1>4, <2>5, <2>14 DEF Unharmed
    <3>2. CASE d # c
      <4>1. Alike(d)
        BY <3>2, <2>4, <2>12, <1>2, <1>4 DEF Alike, Same
      <4> QED
        BY <3>1, <4>1, AlikeKept DEF LossInv
    <3>3. CASE d = c
      <4>1. Undisturbed(c) /\ Running(c)
        BY <3>1, <3>3, <1>0 DEF LossInv, Running
      <4>2. Out(c) = {} /\ idle[c] <= Interval
        BY <4>1, <1>0, Constants DEF Undisturbed
      <4>3. Out(c)' # {} /\ pc'[c] = "send" /\ have' = have /\ back' = back /\ idle' = idle
        BY <2>12, <1>0, <1>2, <1>4
      <4>4. back[c] + Cardinality(Out(c)) = seq[c] /\ have[c] = back[c] /\ (have[c] = 0 => idle[c] = 0)
        BY <4>1 DEF Undisturbed
      <4>5. back[c] \in Nat /\ seq[c] \in Nat /\ Cardinality(Out(c)) \in Nat /\ Cardinality(Out(c)') \in Nat
        <5>1. IsFiniteSet(Out(c)) /\ IsFiniteSet(Out(c)')
          BY <2>12 DEF FlightInv, Flight, Balance
        <5>2. Cardinality(Out(c)) \in Nat /\ Cardinality(Out(c)') \in Nat
          BY <5>1, FS_CardinalityType
        <5> QED
          BY <5>2 DEF FlightInv, TypeOK
      <4>6. back'[c] + Cardinality(Out(c)') = seq'[c]
        BY <4>3, <4>4, <4>5, <2>4, <2>12
      <4> QED
        BY <3>3, <4>2, <4>3, <4>4, <4>6, <2>4, Constants DEF Undisturbed
    <3> QED
      BY <3>2, <3>3
  <2>15. \A p \in slow' : p.call \in harmed'
    BY <1>2, <1>4 DEF LossInv
  <2>16. FlightInv'
    BY <2>3, <2>12, <2>13 DEF FlightInv
  <2>17. LossInv'
    BY <2>14, <2>15 DEF LossInv
  <2> QED
    BY <2>16, <2>17
<1>5. \/ /\ sent # {} /\ net' = net \cup sent
         /\ seq' = [seq EXCEPT ![c] = @ + 1] /\ wait' = [wait EXCEPT ![c] = Interval]
         /\ UNCHANGED <<pc, answer, lost, harmed>>
      \/ sent = {} /\ Return(c, Failed) /\ UNCHANGED <<net, seq, wait, lost, harmed>>
      \/ /\ CanLose /\ lost' = lost + 1 /\ harmed' = harmed \cup {c}
         /\ Return(c, Failed) /\ UNCHANGED <<net, seq, wait>>
  BY DEF SendPacket
<1> HIDE DEF sent
<1> QED
  BY <1>3, <1>4, <1>5

\* A packet that is taken off the network.
LEMMA Removed ==
  ASSUME FlightInv, NEW p \in Flying, UNCHANGED <<pc, node, path, seq>>,
         net' = net \ {p}, slow' = slow \ {p}
  PROVE  /\ (net \cap slow = {})' /\ (\A q \in Flying : OnPath(q))' /\ OneEach'
         /\ \A d \in Call : d # p.call => Out(d)' = Out(d)
         /\ Out(p.call)' = Out(p.call) \ {p}
         /\ IsFiniteSet(Out(p.call)')
         /\ Cardinality(Out(p.call)') = Cardinality(Out(p.call)) - 1
         /\ Cardinality(Out(p.call)') \in Nat /\ Cardinality(Out(p.call)) \in Nat
<1>1. Flying' = Flying \ {p}
  BY DEF Flying
<1>2. /\ \A d \in Call : d # p.call => Out(d)' = Out(d)
      /\ Out(p.call)' = Out(p.call) \ {p} /\ p \in Out(p.call)
  BY <1>1 DEF Out
<1>3. \A q \in Flying' : OnPath(q)'
  <2>1. \A d : Valid(d)' = Valid(d)
    BY DEF Valid
  <2> QED
    BY <1>1, <2>1 DEF FlightInv, Flight, OnPath, At
<1>4. (net \cap slow = {})' /\ OneEach'
  BY <1>1 DEF FlightInv, Flight, OneEach
<1>5. IsFiniteSet(Out(p.call))
  BY DEF FlightInv, Flight, Balance, OnPath
<1>6. IsFiniteSet(Out(p.call)') /\ Cardinality(Out(p.call)') = Cardinality(Out(p.call)) - 1
  <2> DEFINE R == Out(p.call)
  <2>1. IsFiniteSet(R) /\ p \in R /\ Out(p.call)' = R \ {p}
    BY <1>2, <1>5
  <2> HIDE DEF R
  <2>2. IsFiniteSet(R \ {p}) /\ Cardinality(R \ {p}) = Cardinality(R) - 1
    BY <2>1, FS_RemoveElement
  <2> QED
    BY <2>1, <2>2 DEF R
<1>7. Cardinality(Out(p.call)') \in Nat /\ Cardinality(Out(p.call)) \in Nat
  BY <1>5, <1>6, FS_CardinalityType
<1> QED
  BY <1>2, <1>3, <1>4, <1>6, <1>7

LEMMA CollectFlight ==
  ASSUME FlightInv, LossInv, NEW p \in Flying,
         slow' = slow \ {p}, net' = net \ {p}, Collect(p.call),
         idle' = [idle EXCEPT ![p.call] = 0], back' = [back EXCEPT ![p.call] = @ + 1],
         UNCHANGED <<callVars, faultVars>>
  PROVE  FlightInv' /\ LossInv'
<1>p. PICK c : c = p.call
  OBVIOUS
<1>0. c \in Call /\ pc[c] # "idle" /\ Valid(c)
  BY <1>p DEF FlightInv, Flight, OnPath
<1>1. UNCHANGED <<pc, node, path, seq, wait, total, answer, lost, slowed, harmed>>
  BY DEF callVars, faultVars
<1>2. /\ (net \cap slow = {})' /\ (\A q \in Flying : OnPath(q))' /\ OneEach'
      /\ \A d \in Call : d # c => Out(d)' = Out(d)
      /\ Out(c)' = Out(c) \ {p} /\ p \in Out(c)
      /\ IsFiniteSet(Out(c)')
      /\ Cardinality(Out(c)') = Cardinality(Out(c)) - 1
      /\ Cardinality(Out(c)') \in Nat /\ Cardinality(Out(c)) \in Nat
  BY <1>p, <1>1, Removed DEF Out
<1>3. /\ have'[c] = have[c] + 1 /\ back'[c] = back[c] + 1 /\ idle'[c] = 0
      /\ \A d \in Call : d # c => have'[d] = have[d] /\ back'[d] = back[d] /\ idle'[d] = idle[d]
  BY <1>p, <1>0 DEF FlightInv, TypeOK, Collect
<1>4. /\ have[c] \in Nat /\ back[c] \in Nat /\ have[c] <= back[c]
      /\ seq[c] \in 0..Count /\ back[c] + Cardinality(Out(c)) <= seq[c]
  BY <1>0, Constants DEF FlightInv, TypeOK, Flight, Balance, Kept
<1>5. have[c] + 1 \in 0..Count /\ back[c] + 1 \in 0..Count
  BY <1>2, <1>4, Constants
<1>6. TypeOK'
  <2>1. net' \subseteq Packet /\ slow' \subseteq Packet
    BY DEF FlightInv, TypeOK
  <2>2. have' \in [Call -> 0..Count] /\ back' \in [Call -> 0..Count]
    BY <1>p, <1>5 DEF FlightInv, TypeOK, Collect
  <2>3. idle' \in [Call -> 0..(3 * PingTimeout + 1)]
    <3>1. 0 \in 0..(3 * PingTimeout + 1)
      BY Numbers
    <3> QED
      BY <3>1, <1>p DEF FlightInv, TypeOK
  <2> QED
    BY <2>1, <2>2, <2>3, <1>1 DEF FlightInv, TypeOK
<1>7. ASSUME NEW d \in Call PROVE Balance(d)' /\ Kept(d)'
  <2>1. Valid(d)' = Valid(d)
    BY <1>1 DEF Valid
  <2>2. CASE d # c
    BY <2>1, <2>2, <1>1, <1>2, <1>3 DEF FlightInv, Flight, Balance, Kept
  <2>3. CASE d = c
    <3>1. back'[c] + Cardinality(Out(c)') <= seq'[c]
      BY <1>1, <1>2, <1>3, <1>4
    <3>2. Balance(c)'
      BY <3>1, <1>2 DEF Balance
    <3>3. Kept(c)'
      BY <2>1, <2>3, <1>0, <1>1, <1>3, <1>4 DEF FlightInv, Kept
    <3> QED
      BY <2>3, <3>2, <3>3
  <2> QED
    BY <2>2, <2>3
<1>8. ASSUME NEW d \in Call, Unharmed(d)' PROVE Undisturbed(d)'
  <2>1. Unharmed(d)
    BY <1>1, <1>8 DEF Unharmed, Valid
  <2>2. CASE d # c
    <3>1. Alike(d)
      BY <2>2, <1>1, <1>2, <1>3 DEF Alike, Same
    <3> QED
      BY <2>1, <3>1, AlikeKept DEF LossInv
  <2>3. CASE d = c
    <3>1. Undisturbed(c)
      BY <2>1, <2>3 DEF LossInv
    <3>2. Running(c) => /\ have[c] = back[c] /\ back[c] + Cardinality(Out(c)) = seq[c]
                        /\ ~(wait[c] < Interval)
      BY <3>1, <1>2 DEF Undisturbed
    <3>3. wait[c] \in 0..Interval /\ Interval \in Nat
      BY <1>0, Constants DEF FlightInv, TypeOK
    <3>4. Running(c)' => /\ have'[c] = back'[c] /\ have'[c] # 0
                         /\ back'[c] + Cardinality(Out(c)') = seq'[c]
                         /\ ~(wait'[c] < Interval)
                         /\ idle'[c] <= Interval /\ idle'[c] + wait'[c] <= Interval
      BY <3>2, <3>3, <1>1, <1>2, <1>3, <1>4 DEF Running
    <3>5. /\ pc'[c] = "poll" => wait'[c] = 0 /\ total'[c] > 0
          /\ pc'[c] = "done" => answer'[c] = [status |-> 1, count |-> Count, err |-> FALSE]
      BY <3>1, <1>1 DEF Undisturbed
    <3> QED
      BY <2>3, <3>4, <3>5 DEF Undisturbed
  <2> QED
    BY <2>2, <2>3
<1>9. Flight' /\ \A d \in Call : Kept(d)'
  BY <1>2, <1>7 DEF Flight
<1>10. \A q \in slow' : q.call \in harmed'
  BY <1>1 DEF LossInv
<1> QED
  BY <1>6, <1>8, <1>9, <1>10 DEF FlightInv, LossInv

LEMMA PassOnFlight ==
  ASSUME FlightInv, LossInv, NEW p \in Flying,
         p.hop + 2 # Len(path[p.call]), slow' = slow \ {p},
         net' = (net \ {p}) \cup Forward(p.at, p.call, p.seq, p.hop + 1),
         UNCHANGED resultVars, UNCHANGED <<callVars, faultVars>>
  PROVE  FlightInv' /\ LossInv'
<1>p. PICK c : c = p.call
  OBVIOUS
<1>q. PICK q : q = At(c, p.seq, p.hop + 1)
  OBVIOUS
<1>0. /\ c \in Call /\ pc[c] # "idle" /\ Valid(c)
      /\ p.seq \in 0..(seq[c] - 1) /\ p.hop \in Nat /\ p.hop + 2 <= Len(path[c])
      /\ p.at = path[c][p.hop + 2]
  BY <1>p DEF FlightInv, Flight, OnPath, At
<1>1. UNCHANGED <<pc, node, path, seq, wait, total, answer, have, idle, back, lost, slowed, harmed>>
  BY DEF callVars, faultVars, resultVars
<1>2. /\ path[c] \in Seq(Node) /\ Len(path[c]) \in Nat
      /\ p.hop + 1 \in Nat /\ (p.hop + 1) + 2 <= Len(path[c]) /\ p.hop + 2 \in 1..(Len(path[c]) - 1)
      /\ (p.hop + 1) + 2 = (p.hop + 2) + 1
  <2>1. path[c] \in Seq(Node) /\ Len(path[c]) \in Nat
    <3>1. path[c] \in Paths
      BY <1>0 DEF FlightInv, TypeOK
    <3>2. path[c] \in Seq(Node)
      BY <3>1, PathPingAssumption
    <3> QED
      BY <3>2
  <2>2. PICK h \in Nat, n \in Nat : h = p.hop /\ n = Len(path[c])
    BY <2>1, <1>0
  <2>3. h + 2 <= n /\ h + 2 # n
    BY <2>2, <1>0, <1>p
  <2>4. h + 1 \in Nat /\ (h + 1) + 2 <= n /\ h + 2 \in 1..(n - 1) /\ (h + 1) + 2 = (h + 2) + 1
    BY <2>3
  <2> QED
    BY <2>1, <2>2, <2>4
<1>3. p.seq \in 0..(Count - 1) /\ seq[c] \in Nat
  <2>1. seq[c] \in 0..Count /\ Count \in Nat
    BY <1>0, Constants DEF FlightInv, TypeOK
  <2> QED
    BY <2>1, <1>0
<1>4. /\ q \in Packet
      /\ Forward(p.at, c, p.seq, p.hop + 1) =
           IF <<p.at, path[c][(p.hop + 1) + 2]>> \in Peers THEN {q} ELSE {}
  BY <1>0, <1>2, <1>3, <1>q, Forwarded DEF FlightInv
<1>5. TypeOK'
  <2>1. net' \subseteq Packet /\ slow' \subseteq Packet
    BY <1>p, <1>4 DEF FlightInv, TypeOK
  <2> QED
    BY <2>1, <1>1 DEF FlightInv, TypeOK
<1>6. \A q1 \in slow' : q1.call \in harmed'
  BY <1>1 DEF LossInv
<1>7. \A d : Valid(d)' = Valid(d) /\ Unharmed(d)' = Unharmed(d)
  BY <1>1 DEF Unharmed, Valid
<1>8. \A d \in Call : Kept(d)'
  BY <1>1, <1>7 DEF FlightInv, Kept
<1>9. CASE <<p.at, path[c][(p.hop + 1) + 2]>> \in Peers
  <2>1. net' = (net \ {p}) \cup {q}
    BY <1>p, <1>4, <1>9
  <2>2. q.call = c /\ q.seq = p.seq /\ q.hop = p.hop + 1
    BY <1>q DEF At
  <2>3. OnPath(q)'
    <3>1. q = At(c, q.seq, q.hop)'
      BY <1>q, <1>1, <2>2 DEF At
    <3> QED
      BY <3>1, <2>2, <1>0, <1>1, <1>2, <1>7 DEF OnPath
  <2>4. q \notin Flying
    BY <2>2, <1>0, <1>p DEF FlightInv, Flight, OneEach
  <2>5. Flying' = (Flying \ {p}) \cup {q} /\ (net \cap slow = {})'
    BY <2>1, <2>4 DEF FlightInv, Flight, Flying
  <2>6. /\ Flight'
        /\ \A d \in Call : d # c => Out(d)' = Out(d)
        /\ Out(c)' = (Out(c) \ {p}) \cup {q}
        /\ Cardinality(Out(c)') - seq'[c] = Cardinality(Out(c)) - seq[c]
    <3> DEFINE gone == {p}
    <3>1. \A d \in Call : seq'[d] \in Nat /\ seq[d] <= seq'[d]
      <4>1. \A d \in Call : seq[d] \in Nat
        BY DEF FlightInv, TypeOK
      <4> QED
        BY <4>1, <1>1
    <3>2. /\ gone \subseteq Flying /\ \A p1 \in gone : p1.call = c /\ p1.seq = q.seq
          /\ \E p1 : gone = {p1} /\ seq'[c] = seq[c]
      BY <2>2, <1>p, <1>1
    <3>3. \A p1 \in Flying \ gone : p1.call = c => p1.seq # q.seq
      BY <2>2, <1>p DEF FlightInv, Flight, OneEach
    <3>4. Flying' = (Flying \ gone) \cup {q}
      BY <2>5
    <3>5. \A d \in Call : pc[d] # "idle" => pc'[d] # "idle"
      BY <1>1
    <3> HIDE DEF gone
    <3>6. /\ Flight'
          /\ \A d \in Call : d # c => Out(d)' = Out(d)
          /\ Out(c)' = (Out(c) \ gone) \cup {q}
          /\ Cardinality(Out(c)') - seq'[c] = Cardinality(Out(c)) - seq[c]
      BY <3>1, <3>2, <3>3, <3>4, <3>5, <1>0, <1>1, <2>2, <2>3, <2>5, Replaced
    <3> QED
      BY <3>6 DEF gone
  <2>7. ASSUME NEW d \in Call, Unharmed(d) PROVE Undisturbed(d)'
    <3>1. CASE d # c
      <4>1. Alike(d)
        BY <3>1, <2>6, <1>1 DEF Alike, Same
      <4> QED
        BY <2>7, <4>1, AlikeKept DEF LossInv
    <3>2. CASE d = c
      <4>1. Out(c) # {} /\ Out(c)' # {}
        BY <2>6, <1>p DEF Out
      <4>2. Cardinality(Out(c)') = Cardinality(Out(c))
        <5>1. IsFiniteSet(Out(c)) /\ IsFiniteSet(Out(c)')
          BY <2>6, <1>0 DEF FlightInv, Flight, Balance
        <5>2. Cardinality(Out(c)) \in Nat /\ Cardinality(Out(c)') \in Nat
          BY <5>1, FS_CardinalityType
        <5> QED
          BY <5>2, <2>6, <1>1, <1>3
      <4>3. Undisturbed(c)
        BY <2>7, <3>2 DEF LossInv
      <4> QED
        BY <4>1, <4>2, <4>3, <3>2, <1>1 DEF Undisturbed, Running
    <3> QED
      BY <3>1, <3>2
  <2>8. FlightInv'
    BY <1>5, <1>8, <2>6 DEF FlightInv
  <2>9. LossInv'
    BY <1>6, <1>7, <2>7 DEF LossInv
  <2> QED
    BY <2>8, <2>9
<1>10. CASE <<p.at, path[c][(p.hop + 1) + 2]>> \notin Peers
  <2>1. net' = net \ {p}
    BY <1>p, <1>4, <1>10
  <2>2. /\ (net \cap slow = {})' /\ (\A p1 \in Flying : OnPath(p1))' /\ OneEach'
        /\ \A d \in Call : d # c => Out(d)' = Out(d)
        /\ IsFiniteSet(Out(c)')
        /\ Cardinality(Out(c)') = Cardinality(Out(c)) - 1
        /\ Cardinality(Out(c)') \in Nat /\ Cardinality(Out(c)) \in Nat
    BY <2>1, <1>p, <1>1, Removed
  <2>3. ASSUME NEW d \in Call PROVE Balance(d)'
    <3>1. CASE d # c
      BY <3>1, <2>2, <1>1 DEF FlightInv, Flight, Balance
    <3>2. CASE d = c
      <4>1. back[c] + Cardinality(Out(c)) <= seq[c] /\ back[c] \in Nat
        BY <1>0 DEF FlightInv, Flight, Balance, TypeOK
      <4>2. back'[c] + Cardinality(Out(c)') <= seq'[c]
        BY <4>1, <2>2, <1>1, <1>3
      <4> QED
        BY <4>2, <3>2, <2>2 DEF Balance
    <3> QED
      BY <3>1, <3>2
  <2>4. ASSUME NEW d \in Call, Unharmed(d) PROVE Undisturbed(d)'
    <3>1. d # c
      BY <2>4, <1>0, <1>2, <1>10 DEF Unharmed, Routable
    <3>2. Alike(d)
      BY <3>1, <2>2, <1>1 DEF Alike, Same
    <3> QED
      BY <2>4, <3>2, AlikeKept DEF LossInv
  <2>5. FlightInv'
    BY <1>5, <1>8, <2>2, <2>3 DEF FlightInv, Flight
  <2>6. LossInv'
    BY <1>6, <1>7, <2>4 DEF LossInv
  <2> QED
    BY <2>5, <2>6
<1> QED
  BY <1>9, <1>10

LEMMA LoseFlight ==
  ASSUME FlightInv, LossInv, NEW p \in net, Lose(p)
  PROVE  FlightInv' /\ LossInv'
<1>p. PICK c : c = p.call
  OBVIOUS
<1>0. c \in Call /\ p \in Flying /\ p \notin slow
  BY <1>p DEF FlightInv, Flight, Flying, OnPath
<1>1. /\ UNCHANGED <<pc, node, path, seq, wait, total, answer, have, idle, back, slow, slowed>>
      /\ lost < Losses /\ lost' = lost + 1 /\ harmed' = harmed \cup {c}
      /\ net' = net \ {p} /\ slow' = slow \ {p}
  BY <1>0, <1>p DEF Lose, CanLose, callVars, resultVars
<1>2. /\ (net \cap slow = {})' /\ (\A p1 \in Flying : OnPath(p1))' /\ OneEach'
      /\ \A d \in Call : d # c => Out(d)' = Out(d)
      /\ IsFiniteSet(Out(c)')
      /\ Cardinality(Out(c)') = Cardinality(Out(c)) - 1
      /\ Cardinality(Out(c)') \in Nat /\ Cardinality(Out(c)) \in Nat
  BY <1>p, <1>0, <1>1, Removed
<1>3. TypeOK'
  <2>1. lost' \in 0..Losses
    BY <1>1, PathPingAssumption DEF FlightInv, TypeOK
  <2>2. net' \subseteq Packet /\ harmed' \subseteq Call
    BY <1>0, <1>1 DEF FlightInv, TypeOK
  <2> QED
    BY <2>1, <2>2, <1>1 DEF FlightInv, TypeOK
<1>4. \A d : Valid(d)' = Valid(d)
  BY <1>1 DEF Valid
<1>5. ASSUME NEW d \in Call PROVE Balance(d)' /\ Kept(d)'
  <2>1. Kept(d)'
    BY <1>1, <1>4 DEF FlightInv, Kept
  <2>2. CASE d # c
    BY <2>1, <2>2, <1>1, <1>2 DEF FlightInv, Flight, Balance
  <2>3. CASE d = c
    <3>1. back[c] + Cardinality(Out(c)) <= seq[c] /\ back[c] \in Nat /\ seq[c] \in Nat
      BY <1>0 DEF FlightInv, Flight, Balance, TypeOK
    <3>2. back'[c] + Cardinality(Out(c)') <= seq'[c]
      BY <3>1, <1>1, <1>2
    <3> QED
      BY <2>1, <2>3, <3>2, <1>2 DEF Balance
  <2> QED
    BY <2>2, <2>3
<1>6. ASSUME NEW d \in Call, Unharmed(d)' PROVE Undisturbed(d)'
  <2>1. Unharmed(d) /\ d # c
    BY <1>6, <1>1, <1>4 DEF Unharmed
  <2>2. Alike(d)
    BY <2>1, <1>1, <1>2 DEF Alike, Same
  <2> QED
    BY <2>1, <2>2, AlikeKept DEF LossInv
<1>7. \A p1 \in slow' : p1.call \in harmed'
  BY <1>1 DEF LossInv
<1>8. Flight' /\ \A d \in Call : Kept(d)'
  BY <1>2, <1>5 DEF Flight
<1> QED
  BY <1>3, <1>6, <1>7, <1>8 DEF FlightInv, LossInv

LEMMA DelayFlight ==
  ASSUME FlightInv, LossInv, NEW p \in net, Delay(p)
  PROVE  FlightInv' /\ LossInv'
<1>1. /\ UNCHANGED <<pc, node, path, seq, wait, total, answer, have, idle, back, lost>>
      /\ slowed < Slow /\ slowed' = slowed + 1 /\ harmed' = harmed \cup {p.call}
      /\ net' = net \ {p} /\ slow' = slow \cup {p}
  BY DEF Delay, callVars, resultVars
<1>2. Flying' = Flying /\ p.call \in Call
  BY <1>1 DEF FlightInv, Flight, OnPath, Flying
<1>3. \A d : Out(d)' = Out(d) /\ Valid(d)' = Valid(d)
  BY <1>1, <1>2 DEF Out, Valid
<1>4. TypeOK'
  <2>1. slowed' \in 0..Slow
    BY <1>1, PathPingAssumption DEF FlightInv, TypeOK
  <2>2. net' \subseteq Packet /\ slow' \subseteq Packet /\ harmed' \subseteq Call
    BY <1>1, <1>2 DEF FlightInv, TypeOK
  <2> QED
    BY <2>1, <2>2, <1>1 DEF FlightInv, TypeOK
<1>5. (net \cap slow = {})'
  BY <1>1 DEF FlightInv, Flight
<1>6. \A q \in Flying' : OnPath(q)'
  BY <1>1, <1>2, <1>3 DEF FlightInv, Flight, OnPath, At
<1>7. OneEach' /\ \A d \in Call : Balance(d)'
  BY <1>1, <1>2, <1>3 DEF FlightInv, Flight, OneEach, Balance
<1>8. \A d \in Call : Kept(d)'
  BY <1>1, <1>3 DEF FlightInv, Kept
<1>9. ASSUME NEW d \in Call, Unharmed(d)' PROVE Undisturbed(d)'
  <2>1. Unharmed(d) /\ Alike(d)
    BY <1>9, <1>1, <1>3 DEF Unharmed, Alike, Same
  <2> QED
    BY <2>1, AlikeKept DEF LossInv
<1>10. \A q \in slow' : q.call \in harmed'
  BY <1>1 DEF LossInv
<1>11. FlightInv'
  BY <1>4, <1>5, <1>6, <1>7, <1>8 DEF FlightInv, Flight
<1>12. LossInv'
  BY <1>9, <1>10 DEF LossInv
<1> QED
  BY <1>11, <1>12

\* After the last interval everything has come back.
LEMMA SentAllFlight ==
  ASSUME FlightInv, LossInv, NEW c \in Call, SentAll(c)
  PROVE  FlightInv' /\ LossInv'
<1>1. /\ pc[c] = "send" /\ wait[c] = 0 /\ seq[c] = Count
      /\ UNCHANGED <<node, path, seq, wait, answer, have, idle, back, net, slow, lost, slowed, harmed>>
  <2>1. seq[c] \in 0..Count /\ Count \in Nat
    BY Constants DEF FlightInv, TypeOK
  <2> QED
    BY <2>1 DEF SentAll, More, resultVars, faultVars
<1>2. /\ pc'[c] = "poll" /\ total'[c] = Count * Interval + PingTimeout
      /\ \A d \in Call : d # c => pc'[d] = pc[d] /\ total'[d] = total[d]
  BY DEF FlightInv, TypeOK, SentAll
<1>3. TypeOK'
  <2>1. pc' \in [Call -> {"idle", "send", "poll", "done"}]
    BY DEF FlightInv, TypeOK, SentAll
  <2>2. total' \in [Call -> 0..(Count * Interval + PingTimeout)]
    <3>1. Count * Interval + PingTimeout \in 0..(Count * Interval + PingTimeout)
      BY Numbers
    <3> QED
      BY <3>1 DEF FlightInv, TypeOK, SentAll
  <2> QED
    BY <2>1, <2>2, <1>1 DEF FlightInv, TypeOK
<1>4. Flight' /\ \A d \in Call : Out(d)' = Out(d) /\ Valid(d)' = Valid(d)
  BY <1>1, <1>2, StillFlight
<1>5. \A d \in Call : Kept(d)'
  BY <1>1, <1>2, <1>4 DEF FlightInv, Kept
<1>6. ASSUME NEW d \in Call, Unharmed(d)' PROVE Undisturbed(d)'
  <2>1. Undisturbed(d)
    BY <1>6, <1>1, <1>4 DEF Unharmed, LossInv
  <2>2. CASE d # c
    <3>1. Alike(d)
      BY <2>2, <1>1, <1>2, <1>4 DEF Alike, Same
    <3> QED
      BY <2>1, <3>1, AlikeKept
  <2>3. CASE d = c
    BY <2>1, <2>3, <1>1, <1>2, <1>4, Numbers DEF Undisturbed, Running
  <2> QED
    BY <2>2, <2>3
<1>7. \A p1 \in slow' : p1.call \in harmed'
  BY <1>1 DEF LossInv
<1>8. FlightInv'
  BY <1>3, <1>4, <1>5 DEF FlightInv
<1>9. LossInv'
  BY <1>6, <1>7 DEF LossInv
<1> QED
  BY <1>8, <1>9

\* The first look at the results of an unharmed test finds all of them.
LEMMA PollFlight ==
  ASSUME FlightInv, LossInv, NEW c \in Call, Poll(c) \/ PollTimeout(c)
  PROVE  FlightInv' /\ LossInv'
<1>1. /\ pc[c] = "poll" /\ wait[c] = 0 /\ have[c] \in 0..Count /\ idle[c] \in Nat
      /\ UNCHANGED <<node, path, seq, total, idle, back, net, slow, lost, slowed, harmed>>
  BY DEF FlightInv, TypeOK, Poll, PollTimeout, faultVars
<1>2. /\ pc'[c] \in {"poll", "done"} /\ have'[c] \in {0, have[c]}
      /\ \A d \in Call : d # c => /\ pc'[d] = pc[d] /\ wait'[d] = wait[d]
                                  /\ have'[d] = have[d] /\ answer'[d] = answer[d]
  BY DEF FlightInv, TypeOK, Poll, PollTimeout, Return, Forget
<1>3. TypeOK'
  <2>1. pc' \in [Call -> {"idle", "send", "poll", "done"}]
    BY DEF FlightInv, TypeOK, Poll, PollTimeout, Return
  <2>2. answer' \in [Call -> [status : {0, 1}, count : 0..Count, err : BOOLEAN]]
    <3>1. [status |-> 1, count |-> have[c], err |-> FALSE] \in [status : {0, 1}, count : 0..Count, err : BOOLEAN]
      BY <1>1, Answers
    <3>2. [status |-> 0, count |-> have[c], err |-> FALSE] \in [status : {0, 1}, count : 0..Count, err : BOOLEAN]
      BY <1>1, Answers
    <3>3. CASE Poll(c)
      <4> DEFINE Answer == [status : {0, 1}, count : 0..Count, err : BOOLEAN]
                 all == [status |-> 1, count |-> have[c], err |-> FALSE]
      <4>1. all \in Answer /\ answer \in [Call -> Answer]
        BY <3>1 DEF FlightInv, TypeOK
      <4>2. answer' = answer \/ answer' = [answer EXCEPT ![c] = all]
        BY <3>3 DEF Poll, Return
      <4> HIDE DEF Answer, all
      <4>3. answer' \in [Call -> Answer]
        BY <4>1, <4>2
      <4> QED
        BY <4>3 DEF Answer
    <3>4. CASE PollTimeout(c)
      <4> DEFINE Answer == [status : {0, 1}, count : 0..Count, err : BOOLEAN]
                 none == [status |-> 0, count |-> have[c], err |-> FALSE]
      <4>1. none \in Answer /\ answer \in [Call -> Answer] /\ Failed \in Answer
        BY <3>2, Answers DEF FlightInv, TypeOK
      <4>2. answer' \in {answer, [answer EXCEPT ![c] = none], [answer EXCEPT ![c] = Failed]}
        BY <3>4 DEF PollTimeout, Return
      <4> HIDE DEF Answer, none
      <4>3. answer' \in [Call -> Answer]
        BY <4>1, <4>2
      <4> QED
        BY <4>3 DEF Answer
    <3> QED
      BY <3>3, <3>4
  <2>3. wait' \in [Call -> 0..Interval]
    BY Numbers DEF FlightInv, TypeOK, Poll, PollTimeout, Half
  <2>4. have' \in [Call -> 0..Count]
    <3>1. 0 \in 0..Count
      BY Constants
    <3> QED
      BY <3>1 DEF FlightInv, TypeOK, Poll, PollTimeout, Forget
  <2> QED
    BY <2>1, <2>2, <2>3, <2>4, <1>1 DEF FlightInv, TypeOK
<1>4. Flight' /\ \A d \in Call : Out(d)' = Out(d) /\ Valid(d)' = Valid(d)
  BY <1>1, <1>2, StillFlight
<1>5. ASSUME NEW d \in Call PROVE Kept(d)'
  <2>1. back[d] \in Nat
    BY Constants DEF FlightInv, TypeOK
  <2> QED
    BY <2>1, <1>1, <1>2, <1>4 DEF FlightInv, Kept
<1>6. ASSUME NEW d \in Call, Unharmed(d)' PROVE Undisturbed(d)'
  <2>1. Undisturbed(d)
    BY <1>6, <1>1, <1>4 DEF Unharmed, LossInv
  <2>2. CASE d # c
    <3>1. Alike(d)
      BY <2>2, <1>1, <1>2, <1>4 DEF Alike, Same
    <3> QED
      BY <2>1, <3>1, AlikeKept
  <2>3. CASE d = c
    <3>1. /\ have[c] = back[c] /\ back[c] + Cardinality(Out(c)) = seq[c] /\ Out(c) = {}
          /\ total[c] > 0
      BY <2>1, <2>3, <1>1, Constants DEF Undisturbed, Running
    <3>2. Cardinality(Out(c)) = 0 /\ seq[c] = Count /\ back[c] \in Nat
      BY <3>1, <1>1, FS_EmptySet, Constants DEF FlightInv, Kept, TypeOK
    <3>3. have[c] = Count /\ Count > 0
      BY <3>1, <3>2, Constants
    <3>4. Complete(c) /\ Poll(c)
      BY <3>1, <3>3, <1>1, Constants DEF Complete, PollTimeout, TypeOK, FlightInv
    <3>5. pc'[c] = "done" /\ answer'[c] = [status |-> 1, count |-> Count, err |-> FALSE]
      BY <3>3, <3>4 DEF Poll, Return, FlightInv, TypeOK
    <3> QED
      BY <2>3, <3>5 DEF Undisturbed, Running
  <2> QED
    BY <2>2, <2>3
<1>7. \A p1 \in slow' : p1.call \in harmed'
  BY <1>1 DEF LossInv
<1>8. FlightInv'
  BY <1>3, <1>4, <1>5 DEF FlightInv
<1>9. LossInv'
  BY <1>6, <1>7 DEF LossInv
<1> QED
  BY <1>8, <1>9

LEMMA CleanFlight ==
  ASSUME FlightInv, LossInv, NEW n \in Node, Clean(n)
  PROVE  FlightInv' /\ LossInv'
<1>1. UNCHANGED <<pc, node, path, seq, wait, total, answer, idle, back, net, slow, lost, slowed, harmed>>
  BY DEF Clean, callVars, faultVars
<1>2. /\ DOMAIN have' = Call
      /\ \A d \in Call : have'[d] = have[d] \/ (have'[d] = 0 /\ have[d] > 0 /\ idle[d] > 3 * PingTimeout)
  BY DEF Clean
<1>3. TypeOK'
  <2>1. 0 \in 0..Count
    BY Constants
  <2>2. have' \in [Call -> 0..Count]
    BY <2>1 DEF Clean, FlightInv, TypeOK
  <2> QED
    BY <2>2, <1>1 DEF FlightInv, TypeOK
<1>4. Flight' /\ \A d \in Call : Out(d)' = Out(d) /\ Valid(d)' = Valid(d)
  BY <1>1, StillFlight
<1>5. ASSUME NEW d \in Call PROVE Kept(d)'
  <2>1. back[d] \in Nat
    BY Constants DEF FlightInv, TypeOK
  <2>2. pc[d] = "idle" => have'[d] = 0
    BY <1>2 DEF FlightInv, Kept
  <2>3. have'[d] <= back[d]
    BY <2>1, <1>2 DEF FlightInv, Kept
  <2> QED
    BY <2>2, <2>3, <1>1, <1>4 DEF FlightInv, Kept
<1>6. ASSUME NEW d \in Call, Unharmed(d)' PROVE Undisturbed(d)'
  <2>1. Undisturbed(d) /\ IntervalIsShort
    BY <1>6, <1>1, <1>4 DEF Unharmed, LossInv
  <2>2. CASE Running(d)
    <3>1. idle[d] <= Interval /\ idle[d] \in Nat
      BY <2>1, <2>2, Constants DEF Undisturbed, FlightInv, TypeOK
    <3>2. have'[d] = have[d]
      BY <3>1, <2>1, <1>2, Constants DEF IntervalIsShort
    <3>3. Alike(d)
      BY <3>2, <1>1, <1>4 DEF Alike, Same
    <3> QED
      BY <2>1, <3>3, AlikeKept
  <2>3. CASE ~Running(d)
    BY <2>1, <2>3, <1>1 DEF Undisturbed, Running
  <2> QED
    BY <2>2, <2>3
<1>7. \A p1 \in slow' : p1.call \in harmed'
  BY <1>1 DEF LossInv
<1>8. FlightInv'
  BY <1>3, <1>4, <1>5 DEF FlightInv
<1>9. LossInv'
  BY <1>6, <1>7 DEF LossInv
<1> QED
  BY <1>8, <1>9

\* Time passes only when no packet is on its way but slow ones.
LEMMA TickFlight ==
  ASSUME FlightInv, LossInv, Tick
  PROVE  FlightInv' /\ LossInv'
<1>1. /\ UNCHANGED <<pc, node, path, seq, answer, have, back, net, slow, lost, slowed, harmed>>
      /\ net = {}
  BY DEF Tick, faultVars
<1>2. ASSUME NEW d \in Call
      PROVE  /\ wait[d] \in 0..Interval /\ idle[d] \in 0..(3 * PingTimeout + 1)
             /\ have[d] \in Nat /\ total[d] \in 0..(Count * Interval + PingTimeout)
             /\ wait'[d] = Less(wait[d]) /\ total'[d] = Less(total[d])
             /\ idle'[d] = IF have[d] > 0 /\ idle[d] <= 3 * PingTimeout THEN idle[d] + 1 ELSE idle[d]
             /\ Running(d) => wait[d] > 0
  BY Constants DEF FlightInv, TypeOK, Tick, Running
<1>3. TypeOK'
  <2>1. wait' \in [Call -> 0..Interval]
    BY <1>2, Constants DEF Tick, Less
  <2>2. total' \in [Call -> 0..(Count * Interval + PingTimeout)]
    <3> DEFINE longest == Count * Interval + PingTimeout
    <3>1. longest \in Nat
      BY Numbers
    <3>2. \A d \in Call : total[d] \in 0..longest
      BY <1>2
    <3> HIDE DEF longest
    <3>3. \A d \in Call : Less(total[d]) \in 0..longest
      BY <3>1, <3>2 DEF Less
    <3>4. total' \in [Call -> 0..longest]
      BY <3>3 DEF Tick
    <3> QED
      BY <3>4 DEF longest
  <2>3. idle' \in [Call -> 0..(3 * PingTimeout + 1)]
    <3>1. \A d \in Call : idle'[d] \in 0..(3 * PingTimeout + 1)
      BY <1>2, Constants
    <3> QED
      BY <3>1 DEF Tick
  <2> QED
    BY <2>1, <2>2, <2>3, <1>1 DEF FlightInv, TypeOK
<1>4. Flight' /\ \A d \in Call : Out(d)' = Out(d) /\ Valid(d)' = Valid(d)
  BY <1>1, StillFlight
<1>5. ASSUME NEW d \in Call PROVE Kept(d)'
  <2>1. Kept(d)
    BY DEF FlightInv
  <2>2. pc[d] = "idle" => wait'[d] = 0 /\ idle'[d] = 0
    BY <2>1, <1>2, Constants DEF Kept, Less
  <2> QED
    BY <2>1, <2>2, <1>1, <1>4 DEF Kept
<1>6. ASSUME NEW d \in Call, Unharmed(d)' PROVE Undisturbed(d)'
  <2>1. Undisturbed(d) /\ Unharmed(d)
    BY <1>6, <1>1, <1>4 DEF Unharmed, LossInv
  <2>2. CASE ~Running(d)
    BY <2>1, <2>2, <1>1 DEF Undisturbed, Running
  <2>3. CASE Running(d)
    <3>1. Out(d) = {}
      BY <2>1, <1>1 DEF Out, Flying, LossInv, Unharmed
    <3>2. wait[d] > 0 /\ pc[d] # "poll"
      BY <2>1, <2>3, <1>2, Constants DEF Undisturbed
    <3>3. idle[d] + wait[d] <= Interval /\ (have[d] = 0 => idle[d] = 0)
      BY <2>1, <2>3, <3>1 DEF Undisturbed
    <3>4. idle'[d] + wait'[d] <= Interval /\ idle'[d] <= Interval /\ (have[d] = 0 => idle'[d] = 0)
      BY <3>2, <3>3, <1>2, Constants DEF Less
    <3>5. Out(d)' = {} /\ pc'[d] = "send" /\ have[d] = back[d] /\ back[d] + Cardinality(Out(d)) = seq[d]
      BY <2>1, <2>3, <3>1, <3>2, <1>1, <1>4 DEF Undisturbed, Running
    <3> QED
      BY <3>1, <3>4, <3>5, <1>1 DEF Undisturbed
  <2> QED
    BY <2>2, <2>3
<1>7. \A p1 \in slow' : p1.call \in harmed'
  BY <1>1 DEF LossInv
<1>8. FlightInv'
  BY <1>3, <1>4, <1>5 DEF FlightInv
<1>9. LossInv'
  BY <1>6, <1>7 DEF LossInv
<1> QED
  BY <1>8, <1>9

LEMMA StepFlight ==
  ASSUME FlightInv, LossInv, [Next]_vars
  PROVE  FlightInv' /\ LossInv'
<1>1. CASE \E c \in Call : Run(c)
  BY <1>1, SendPacketFlight, SentAllFlight, PollFlight DEF Run
<1>2. ASSUME NEW p \in net \cup slow, ProcessPacket(p) PROVE FlightInv' /\ LossInv'
  <2>1. p \in Flying /\ slow' = slow \ {p} /\ UNCHANGED <<callVars, faultVars>>
    BY <1>2 DEF ProcessPacket, Flying
  <2>2. CASE /\ Collect(p.call) /\ idle' = [idle EXCEPT ![p.call] = 0]
             /\ back' = [back EXCEPT ![p.call] = @ + 1] /\ net' = net \ {p}
    BY <2>1, <2>2, CollectFlight
  <2>3. CASE /\ p.hop + 2 # Len(path[p.call]) /\ UNCHANGED resultVars
             /\ net' = (net \ {p}) \cup Forward(p.at, p.call, p.seq, p.hop + 1)
    BY <2>1, <2>3, PassOnFlight
  <2> QED
    BY <1>2, <2>2, <2>3 DEF ProcessPacket
<1>3. CASE \E n \in Node : Clean(n)
  BY <1>3, CleanFlight
<1>4. CASE Tick
  BY <1>4, TickFlight
<1>5. CASE \E c \in Call : Measure(c)
  BY <1>5, MeasureFlight
<1>6. CASE \E p \in net : Lose(p) \/ Delay(p)
  BY <1>6, LoseFlight, DelayFlight
<1>7. CASE UNCHANGED vars
  <2>1. UNCHANGED <<pc, node, path, seq, wait, total, answer, have, idle, back, net, slow, lost, slowed, harmed>>
    BY <1>7 DEF vars, callVars, resultVars, faultVars
  <2>2. Flight' /\ \A d \in Call : Out(d)' = Out(d) /\ Valid(d)' = Valid(d)
    BY <2>1, StillFlight
  <2>3. TypeOK' /\ \A d \in Call : Kept(d)'
    BY <2>1, <2>2 DEF FlightInv, TypeOK, Kept
  <2>4. ASSUME NEW d \in Call, Unharmed(d)' PROVE Undisturbed(d)'
    <3>1. Unharmed(d) /\ Alike(d)
      BY <2>1, <2>2, <2>4 DEF Unharmed, Alike, Same
    <3> QED
      BY <3>1, AlikeKept DEF LossInv
  <2>5. FlightInv'
    BY <2>2, <2>3 DEF FlightInv
  <2>6. LossInv'
    BY <2>1, <2>4 DEF LossInv
  <2> QED
    BY <2>5, <2>6
<1> QED
  BY <1>1, <1>2, <1>3, <1>4, <1>5, <1>6, <1>7 DEF Next, Progress

LEMMA FlightInvariant == Spec => [](FlightInv /\ LossInv)
<1>1. Init => FlightInv /\ LossInv
  BY InitFlight
<1>2. FlightInv /\ LossInv /\ [Next]_vars => FlightInv' /\ LossInv'
  BY StepFlight
<1> QED
  BY <1>1, <1>2, PTL DEF Spec

\* TypeOK: no test ever collects more results than it sends packets, of which each
\* is at one server at a time (pathping.go, processPacket and forwardPacket), nor
\* does a packet run past the end of its path.
THEOREM TypeCorrect == Spec => []TypeOK
<1>1. FlightInv => TypeOK
  BY DEF FlightInv
<1> QED
  BY <1>1, FlightInvariant, PTL

\* OnlyLossFails: with an interval of at most the cleaner's three timeouts, a test
\* on a known path of which no packet is lost or late returns the average of all of
\* them (pathping.go, Measure), for any nodes, paths, number of packets and other
\* tests that fail.
THEOREM OnlyLossFailsHolds == IntervalIsShort /\ Spec => []OnlyLossFails
<1>1. IntervalIsShort /\ LossInv => OnlyLossFails
  BY DEF LossInv, Unharmed, Undisturbed, OnlyLossFails
<1>2. CASE IntervalIsShort
  <2>1. LossInv => OnlyLossFails
    BY <1>1, <1>2
  <2> QED
    BY <2>1, FlightInvariant, PTL
<1>3. CASE ~IntervalIsShort
  BY <1>3
<1> QED
  BY <1>2, <1>3
=============================================================================
