------------------------- MODULE BandwidthTest_proofs -------------------------
(* The server's map and its workers, what a test is told of its loss, and     *)
(* that one loss does not spoil it, for any test, timers and network.         *)
EXTENDS BandwidthTest, FiniteSetTheorems, TLAPS

\* The workers started are numbered without a gap.
EntryInv ==
  /\ entry \in Workers \cup {0}
  /\ made \in 0..MaxWorkers
  /\ wpc \in [Workers -> {"none", "main", "wait", "gone"}]
  /\ \A w \in Workers : w > made => wpc[w] = "none"
  /\ EntryOwned

entryVars == <<entry, made, wpc>>

LEMMA ProcessPacketEntry ==
  ASSUME EntryInv, NEW p \in toServer, ProcessPacket(p)
  PROVE  EntryInv'
<1>1. CASE entry # 0
  BY <1>1 DEF ProcessPacket, EntryInv, EntryOwned
<1>2. CASE entry = 0
  <2>. DEFINE n == made + 1
  <2>1. /\ made < MaxWorkers /\ made' = n /\ entry' = n
        /\ wpc' = [wpc EXCEPT ![n] = "main"]
    BY <1>2 DEF ProcessPacket
  <2>2. n \in Workers /\ made' \in 0..MaxWorkers /\ entry' \in Workers
    BY <2>1, BandwidthTestAssumption DEF EntryInv, Workers
  <2>3. \A w \in Workers : w # 0 /\ wpc[w] \notin {"main", "wait"}
    BY <1>2 DEF EntryInv, EntryOwned, Workers
  <2>4. \A w \in Workers : wpc'[w] = IF w = n THEN "main" ELSE wpc[w]
    BY <2>1, <2>2 DEF EntryInv
  <2>5. \A w \in Workers : w > made' => wpc'[w] = "none"
    BY <2>1, <2>4 DEF EntryInv, Workers
  <2>6. EntryOwned'
    BY <2>1, <2>3, <2>4 DEF EntryOwned
  <2>7. QED
    BY <2>1, <2>2, <2>5, <2>6 DEF EntryInv
<1>3. QED
  BY <1>1, <1>2

\* A worker that moves between its main loop and the wait stays alive.
LEMMA WorkerEntry ==
  ASSUME EntryInv, NEW w \in Workers, Process(w) \/ ProcessRetry(w) \/ SendStats(w)
  PROVE  EntryInv'
<1>1. UNCHANGED <<entry, made>>
  BY DEF Process, ProcessRetry, SendStats, readerVars
<1>2. CASE wpc' = wpc
  BY <1>1, <1>2 DEF EntryInv, EntryOwned
<1>3. ASSUME NEW l \in {"main", "wait"}, wpc[w] \in {"main", "wait"},
             wpc' = [wpc EXCEPT ![w] = l]
      PROVE  EntryInv'
  BY <1>1, <1>3 DEF EntryInv, EntryOwned
<1>4. QED
  BY <1>2, <1>3 DEF Process, ProcessRetry, SendStats

\* A worker that ends takes its own entry with it.
LEMMA ExpireEntry ==
  ASSUME EntryInv, NEW w \in Workers, Expire(w)
  PROVE  EntryInv'
<1>1. entry = w /\ made' = made /\ entry' = 0 /\ wpc' = [wpc EXCEPT ![w] = "gone"]
  BY DEF Expire, Leave, EntryInv, EntryOwned
<1>2. \A v \in Workers : v # 0 /\ (v # w => wpc[v] \notin {"main", "wait"})
  BY <1>1 DEF EntryInv, EntryOwned, Workers
<1>3. \A v \in Workers : wpc'[v] = IF v = w THEN "gone" ELSE wpc[v]
  BY <1>1 DEF EntryInv
<1>4. w <= made
  BY <1>1 DEF EntryInv, EntryOwned, Workers
<1>5. EntryOwned'
  BY <1>1, <1>2, <1>3 DEF EntryOwned
<1>6. \A v \in Workers : v > made' => wpc'[v] = "none"
  <2>1. SUFFICES ASSUME NEW v \in Workers, v > made PROVE wpc[v] = "none" /\ v # w
    BY <1>1, <1>3
  <2>2. QED
    BY <1>4, <2>1, BandwidthTestAssumption DEF EntryInv, Workers
<1>7. QED
  BY <1>1, <1>5, <1>6 DEF EntryInv

LEMMA EntryInit ==
  ASSUME Init
  PROVE  EntryInv
  BY BandwidthTestAssumption DEF Init, EntryInv, EntryOwned, Workers

LEMMA EntryStep ==
  ASSUME EntryInv, [Next]_vars
  PROVE  EntryInv'
<1>1. UNCHANGED entryVars => EntryInv'
  BY DEF entryVars, EntryInv, EntryOwned
<1>2. CASE Client
  BY <1>1, <1>2 DEF Client, SendPacket, SendEndOfTest, TakeFinal, TakeError, RetryTimer,
     Drain, Cleanup, ReceiveEnds, ReceiveMessage, Discard, serverVars, readerVars,
     workerVars, entryVars
<1>3. CASE Enqueue
  BY <1>1, <1>3 DEF Enqueue, entryVars
<1>4. CASE \E p \in toServer : ProcessPacket(p)
  BY <1>4, ProcessPacketEntry
<1>5. CASE \E w \in Workers : SendStats(w) \/ Process(w) \/ ProcessRetry(w)
  BY <1>5, WorkerEntry
<1>6. CASE \E w \in Workers : Expire(w)
  BY <1>6, ExpireEntry
<1>7. CASE Lose \/ GoDown
  BY <1>1, <1>7 DEF Lose, LosePacket, LoseAnswer, GoDown, serverVars, readerVars,
     workerVars, entryVars
<1>8. CASE Tick
  BY <1>1, <1>8 DEF Tick, readerVars, entryVars
<1>9. CASE UNCHANGED vars
  BY <1>1, <1>9 DEF vars, serverVars, readerVars, workerVars, entryVars
<1>10. QED
  BY <1>2, <1>3, <1>4, <1>5, <1>6, <1>7, <1>8, <1>9 DEF Next, Serve

\* The address of a client has one live worker, the one in s.clients (server.go,
\* processPacket and clientWorker), for any sizes, timers, losses and delays.
THEOREM EntryOwnedHolds == Spec => []EntryOwned
<1>1. EntryInv => EntryOwned
  BY DEF EntryInv
<1>2. QED
  BY <1>1, EntryInit, EntryStep, PTL DEF Spec

------------------------------------------------------------------------------
(* The loss of a test.                                                        *)

\* The timers outlast the test: a worker that hears nothing waits for longer
\* than the packets take to be sent and to arrive, one that has answered for longer
\* than they take to arrive, and the attempts alone are too few for a result.  The
\* defaults are 3s > 2s, 2 * 250ms and 4 <= 2 * 10 (bandwidth.go).
WorkersOutlastTest ==
  /\ Duration + Delays < Timeout
  /\ Delays < CleanupDelay
  /\ MaxRetries <= 2 * MinTotal

\* Target time of packet n + 1, and the units until the last one is due.
At(n) == (n * Duration) \div Count
Left == sleep + At(Count - 1) - At(seq - 1)

Alive(w) == wpc[w] \in {"main", "wait"}

\* Packets of a kind that may still be counted.
Around(kind) ==
  \/ toServer \cap kind # {}
  \/ inHand # <<>> /\ inHand[1] \in kind
  \/ \E w \in Workers : Alive(w) /\ \E i \in 1..Len(queue[w]) : queue[w][i] \in kind

\* The test is being sent: no worker has got an end packet, and none will end
\* before the rest of it is sent and has arrived.
Sending ==
  cpc = "send" =>
    /\ retry = 0 /\ Left \in 0..Duration
    /\ ~Around(Ends)
    /\ \A w \in Workers :
         Alive(w) => wpc[w] = "main" /\ timeout[w] > Left + Delays - delays

\* Data packets are on their way: no worker will end before they have arrived.
Arriving ==
  Around(Data) =>
    \A w \in Workers : /\ wpc[w] = "main" => timeout[w] > Delays - delays
                       /\ wpc[w] = "wait" => cleanup[w] > Delays - delays

\* Until then there is one worker, which gets all of them.
FirstWorker ==
  /\ cpc = "send" \/ Around(Data) => made <= 1 /\ (made = 1 => Alive(1))
  /\ inHand # <<>> => inHand[2] <= made /\ (inHand[1] \in Data => inHand[2] = 1)
  /\ \A w \in Workers :
       /\ w > made => queue[w] = <<>>
       /\ \A i \in 1..Len(queue[w]) : queue[w][i] \in Data => w = 1

Patient == Sending /\ Arriving /\ FirstWorker

\* Attempts to send the end packet that are still to come.
Unsent ==
  IF cpc = "send" THEN MaxRetries
  ELSE IF cpc = "end" THEN MaxRetries - retry
  ELSE IF cpc = "await" THEN MaxRetries - (retry + 1)
  ELSE 0

EndsOut == Cardinality(toServer \cap Ends)
InHandOf(w) == IF inHand # <<>> /\ inHand[2] = w THEN 1 ELSE 0
Answered(w) == IF wpc[w] \in {"wait", "gone"} THEN 1 ELSE 0

\* A worker counts every other end packet it gets, at most: it swallows one after
\* each that it answers.
EndsFor(w) ==
  2 * total[w] + Len(queue[w]) + InHandOf(w) + EndsOut + Unsent <= MaxRetries + Answered(w)

\* The first worker counts all data packets that are counted, the others none.
Accounts ==
  \A w \in Workers :
    IF w = 1
    THEN /\ Cardinality(counted) <= total[w]
         /\ wpc[w] = "wait" => Cardinality(counted) + 1 <= total[w]
    ELSE EndsFor(w)

\* What a FINAL says is true of the test or too little for a result.
Truthful(m) == m.total <= MinTotal \/ Count - m.total - m.dropped <= m.missing

Answers ==
  /\ \A m \in toClient : m.kind = "FINAL" => Truthful(m)
  /\ rpc = "final" => Truthful(final)
  /\ LossNotOverstated

LossInv == Patient /\ Accounts /\ Answers
------------------------------------------------------------------------------
(* The data.                                                                  *)

\* Euclidean division by a positive number.
LEMMA Division ==
  ASSUME NEW a \in Nat, NEW c \in Nat \ {0}
  PROVE  /\ a \div c \in Nat
         /\ c * (a \div c) <= a
         /\ a < c * (a \div c) + c
  OBVIOUS

LEMMA DivisionMonotonic ==
  ASSUME NEW a \in Nat, NEW b \in Nat, NEW c \in Nat \ {0}, a <= b
  PROVE  a \div c <= b \div c
<1>. DEFINE q == a \div c
            r == b \div c
<1>1. /\ q \in Nat /\ c * q <= a
      /\ r \in Nat /\ b < c * r + c
  BY Division
<1>. HIDE DEF q, r
<1>2. c * q < c * (r + 1)
  BY <1>1
<1>3. q < r + 1
  BY <1>1, <1>2
<1>4. q <= r
  BY <1>1, <1>3
<1>. QED
  BY <1>4 DEF q, r

\* The target times start at 0, never go back and end within the duration.
LEMMA TargetTimes ==
  ASSUME NEW n \in 0..Count
  PROVE  /\ At(n) \in Nat
         /\ At(0) = 0
         /\ At(n) <= Duration
         /\ \A m \in 0..n : At(m) \in Nat /\ At(m) <= At(n)
<1>. USE BandwidthTestAssumption
<1>1. \A m \in 0..Count : m * Duration \in Nat
  OBVIOUS
<1>2. \A m \in 0..Count : At(m) \in Nat
  BY <1>1, Division DEF At
<1>3. \A m \in 0..n : m * Duration <= n * Duration
  OBVIOUS
<1>4. \A m \in 0..n : At(m) <= At(n)
  BY <1>1, <1>3, DivisionMonotonic DEF At
<1>5. At(0) = 0
  BY Division DEF At
<1>6. At(n) <= Duration
  <2>1. n * Duration <= Count * Duration
    OBVIOUS
  <2>2. At(n) <= At(Count)
    BY <1>1, <2>1, DivisionMonotonic DEF At
  <2>3. At(Count) = Duration
    BY DEF At
  <2>. QED
    BY <1>2, <2>2, <2>3
<1>. QED
  BY <1>2, <1>4, <1>5, <1>6

LEMMA GapIsTime ==
  ASSUME NEW n \in 1..(Count - 1)
  PROVE  Gap(n) \in Nat /\ Gap(n) = At(n) - At(n - 1)
  BY TargetTimes, BandwidthTestAssumption DEF Gap, At

\* The finite sets of packets.
LEMMA FinitePackets ==
  /\ IsFiniteSet(Data) /\ Cardinality(Data) = Count - 1
  /\ IsFiniteSet(Ends) /\ Cardinality(Ends) = MaxRetries
  /\ Data \cap Ends = {} /\ Packet = Data \cup Ends
<1>. USE BandwidthTestAssumption
<1>1. IsFiniteSet(Data) /\ Cardinality(Data) = Count - 1
  BY FS_Interval DEF Data
<1>2. IsFiniteSet(Ends) /\ Cardinality(Ends) = MaxRetries
  BY FS_Interval DEF Ends
<1>3. Data \cap Ends = {}
  BY DEF Data, Ends
<1>. QED
  BY <1>1, <1>2, <1>3 DEF Packet

LEMMA FinalIsAnswer ==
  ASSUME counted \subseteq Data, NEW t \in Nat, NEW d \in Nat
  PROVE  Final(t, d) \in Answer
<1>1. IsFiniteSet(Data \ counted)
  BY FinitePackets, FS_Difference
<1>2. Cardinality(Data \ counted) \in Nat
  BY <1>1, FS_CardinalityType
<1>. QED
  BY <1>2 DEF Final, Answer

------------------------------------------------------------------------------
(* The types.                                                                 *)

ClientOK ==
  /\ cpc \in {"send", "end", "await", "cleanup", "done"}
  /\ seq \in 1..Count /\ retry \in 0..(MaxRetries - 1) /\ sleep \in Nat
  /\ result \in [status : {0, 1}, total : Nat, dropped : Nat, missing : Nat]
  /\ failed \in BOOLEAN
ReceiverOK ==
  /\ rpc \in {"read", "final", "error", "gone"}
  /\ final \in Answer /\ deadline \in Nat
NetOK == toServer \subseteq Packet /\ toClient \subseteq Answer /\ down \in BOOLEAN
ReaderOK ==
  /\ entry \in Workers \cup {0} /\ made \in 0..MaxWorkers
  /\ inHand \in {<<>>} \cup (Packet \X Workers)
StatsOK ==
  /\ total \in [Workers -> Nat] /\ dropped \in [Workers -> Nat]
  /\ highest \in [Workers -> 0..Count]
TimersOK ==
  /\ timeout \in [Workers -> Nat] /\ ticker \in [Workers -> Nat]
  /\ cleanup \in [Workers -> Nat]
WorkerOK ==
  /\ wpc \in [Workers -> {"none", "main", "wait", "gone"}]
  /\ queue \in [Workers -> Seq(Packet)]
  /\ StatsOK /\ TimersOK
  /\ counted \subseteq Data
LossOK == lostPackets \subseteq Packet /\ lostAnswers \in Nat /\ delays \in 0..Delays

LEMMA TypeParts ==
  /\ TypeOK <=> ClientOK /\ ReceiverOK /\ NetOK /\ ReaderOK /\ WorkerOK /\ LossOK
  /\ TypeOK' <=> (ClientOK /\ ReceiverOK /\ NetOK /\ ReaderOK /\ WorkerOK /\ LossOK)'
  BY DEF TypeOK, ClientOK, ReceiverOK, NetOK, ReaderOK, StatsOK, TimersOK, WorkerOK, LossOK

\* What is left alone keeps its type.
LEMMA TypeFrames ==
  /\ ClientOK /\ UNCHANGED clientVars => ClientOK'
  /\ ReceiverOK /\ UNCHANGED receiverVars => ReceiverOK'
  /\ NetOK /\ UNCHANGED netVars => NetOK'
  /\ ReaderOK /\ UNCHANGED readerVars => ReaderOK'
  /\ StatsOK /\ UNCHANGED statVars => StatsOK'
  /\ TimersOK /\ UNCHANGED timerVars => TimersOK'
  /\ WorkerOK /\ UNCHANGED workerVars => WorkerOK'
  /\ LossOK /\ UNCHANGED lossVars => LossOK'
<1>1. ClientOK /\ UNCHANGED clientVars => ClientOK'
  BY DEF ClientOK, clientVars
<1>2. ReceiverOK /\ UNCHANGED receiverVars => ReceiverOK'
  BY DEF ReceiverOK, receiverVars
<1>3. NetOK /\ UNCHANGED netVars => NetOK'
  BY DEF NetOK, netVars
<1>4. ReaderOK /\ UNCHANGED readerVars => ReaderOK'
  BY DEF ReaderOK, readerVars
<1>5. StatsOK /\ UNCHANGED statVars => StatsOK'
  BY DEF StatsOK, statVars
<1>6. TimersOK /\ UNCHANGED timerVars => TimersOK'
  BY DEF TimersOK, timerVars
<1>7. WorkerOK /\ UNCHANGED workerVars => WorkerOK'
  BY <1>5, <1>6 DEF WorkerOK, workerVars
<1>8. LossOK /\ UNCHANGED lossVars => LossOK'
  BY DEF LossOK, lossVars
<1>. QED
  BY <1>1, <1>2, <1>3, <1>4, <1>5, <1>6, <1>7, <1>8

LEMMA NextRetryTypes ==
  ASSUME ClientOK, NextRetry, UNCHANGED <<seq, sleep, result>>
  PROVE  ClientOK'
<1>1. CASE retry = MaxRetries - 1
  BY <1>1 DEF NextRetry, ReturnError, ClientOK
<1>2. CASE retry # MaxRetries - 1
  <2>1. retry + 1 \in 0..(MaxRetries - 1)
    BY <1>2, BandwidthTestAssumption DEF ClientOK
  <2>. QED
    BY <1>2, <2>1 DEF NextRetry, ClientOK
<1>. QED
  BY <1>1, <1>2

LEMMA ClientTypes ==
  ASSUME TypeOK, Client
  PROVE  TypeOK'
<1>. USE TypeParts, TypeFrames
<1>1. CASE SendPacket
  <2>1. seq \in 1..(Count - 1) /\ seq \in Packet /\ seq + 1 \in 1..Count
    BY <1>1, BandwidthTestAssumption DEF SendPacket, Packet, Data, ClientOK
  <2>2. Gap(seq) \in Nat
    BY <2>1, GapIsTime
  <2>3. NetOK'
    BY <1>1, <2>1 DEF SendPacket, NetOK
  <2>4. ClientOK' /\ ReceiverOK'
    BY <1>1, <2>1, <2>2 DEF SendPacket, ReturnError, ClientOK, ReceiverOK
  <2>. QED
    BY <1>1, <2>3, <2>4 DEF SendPacket, serverVars
<1>2. CASE SendEndOfTest
  <2>1. Count + retry \in Packet
    BY BandwidthTestAssumption DEF Packet, Ends, ClientOK
  <2>2. NetOK'
    BY <1>2, <2>1 DEF SendEndOfTest, NetOK
  <2>3. ClientOK'
    BY <1>2, BandwidthTestAssumption DEF SendEndOfTest, ReturnError, ClientOK
  <2>. QED
    BY <1>2, <2>2, <2>3 DEF SendEndOfTest, serverVars
<1>3. CASE TakeFinal
  <2>1. /\ Success(final) \in [status : {0, 1}, total : Nat, dropped : Nat, missing : Nat]
        /\ result' \in {result, Success(final)}
        /\ cpc' = "cleanup" /\ failed' \in {failed, TRUE} /\ UNCHANGED <<seq, retry, sleep>>
    <3>1. final \in Answer
      BY DEF ReceiverOK
    <3>2. Success(final) \in [status : {0, 1}, total : Nat, dropped : Nat, missing : Nat]
      BY <3>1 DEF Success, Answer
    <3>. QED
      BY <1>3, <3>2 DEF TakeFinal, ParseStats
  <2>3. ClientOK'
    BY <2>1 DEF ClientOK
  <2>2. ReceiverOK'
    BY <1>3 DEF TakeFinal, ReceiverOK
  <2>. QED
    BY <1>3, <2>2, <2>3 DEF TakeFinal, serverVars
<1>4. CASE TakeError
  <2>1. ClientOK' /\ ReceiverOK'
    BY <1>4, NextRetryTypes DEF TakeError, ReceiverOK
  <2>. QED
    BY <1>4, <2>1 DEF TakeError, serverVars
<1>5. CASE RetryTimer
  <2>1. ClientOK'
    BY <1>5, NextRetryTypes DEF RetryTimer
  <2>. QED
    BY <1>5, <2>1 DEF RetryTimer, serverVars
<1>6. CASE Drain
  <2>1. ReceiverOK'
    BY <1>6 DEF Drain, ReceiverOK
  <2>. QED
    BY <1>6, <2>1 DEF Drain, serverVars
<1>7. CASE Cleanup
  <2>1. ClientOK'
    BY <1>7 DEF Cleanup, ClientOK
  <2>. QED
    BY <1>7, <2>1 DEF Cleanup, serverVars
<1>8. CASE ReceiveEnds
  <2>1. ReceiverOK'
    BY <1>8 DEF ReceiveEnds, ReceiverOK
  <2>. QED
    BY <1>8, <2>1 DEF ReceiveEnds, serverVars
<1>9. ASSUME NEW m \in toClient, ReceiveMessage(m) PROVE TypeOK'
  <2>1. ReceiverOK' /\ NetOK'
    BY <1>9, BandwidthTestAssumption DEF ReceiveMessage, ReceiverOK, NetOK
  <2>. QED
    BY <1>9, <2>1 DEF ReceiveMessage, serverVars
<1>10. ASSUME NEW m \in toClient, Discard(m) PROVE TypeOK'
  <2>1. NetOK'
    BY <1>10 DEF Discard, NetOK
  <2>. QED
    BY <1>10, <2>1 DEF Discard, serverVars
<1>. QED
  BY <1>1, <1>2, <1>3, <1>4, <1>5, <1>6, <1>7, <1>8, <1>9, <1>10 DEF Client

LEMMA HeadTailTypes ==
  ASSUME NEW S, NEW q \in Seq(S), q # <<>>
  PROVE  Head(q) \in S /\ Tail(q) \in Seq(S)
  OBVIOUS

LEMMA UpdateStatsTypes ==
  ASSUME WorkerOK, NEW w \in Workers, NEW p \in Packet, UpdateStats(w, p)
  PROVE  StatsOK' /\ counted' \subseteq Data
<1>1. SeqNo(p) \in 0..Count
  BY BandwidthTestAssumption DEF SeqNo, Data
<1>2. total' \in [Workers -> Nat]
  BY DEF UpdateStats, WorkerOK, StatsOK
<1>3. dropped' \in [Workers -> Nat]
  BY DEF UpdateStats, WorkerOK, StatsOK
<1>4. highest' \in [Workers -> 0..Count]
  BY <1>1 DEF UpdateStats, WorkerOK, StatsOK
<1>. QED
  BY <1>2, <1>3, <1>4 DEF UpdateStats, WorkerOK, StatsOK

LEMMA ServerTypes ==
  ASSUME TypeOK, Serve
  PROVE  TypeOK'
<1>. USE TypeParts, TypeFrames
<1>1. CASE Enqueue
  <2>1. inHand \in Packet \X Workers
    BY <1>1 DEF Enqueue, ReaderOK
  <2>2. WorkerOK'
    BY <1>1, <2>1 DEF Enqueue, WorkerOK
  <2>3. ReaderOK'
    BY <1>1 DEF Enqueue, ReaderOK
  <2>. QED
    BY <1>1, <2>2, <2>3 DEF Enqueue
<1>2. ASSUME NEW p \in toServer, ProcessPacket(p) PROVE TypeOK'
  <2>1. NetOK'
    BY <1>2 DEF ProcessPacket, NetOK
  <2>2. p \in Packet
    BY DEF NetOK
  <2>3. CASE entry # 0
    <3>1. ReaderOK'
      BY <1>2, <2>2, <2>3 DEF ProcessPacket, ReaderOK
    <3>2. TimersOK' /\ StatsOK'
      BY <1>2, <2>3 DEF ProcessPacket, WorkerOK, timerVars
    <3>3. WorkerOK'
      BY <1>2, <2>3, <3>2 DEF ProcessPacket, WorkerOK
    <3>. QED
      BY <1>2, <2>1, <3>1, <3>3 DEF ProcessPacket
  <2>4. CASE entry = 0
    <3>1. made + 1 \in Workers /\ made + 1 \in 0..MaxWorkers
      BY <1>2, <2>4, BandwidthTestAssumption DEF ProcessPacket, Workers, ReaderOK
    <3>2. ReaderOK'
      BY <1>2, <2>2, <2>4, <3>1 DEF ProcessPacket, ReaderOK
    <3>3. TimersOK'
      BY <1>2, <2>4, BandwidthTestAssumption DEF ProcessPacket, WorkerOK, TimersOK
    <3>4. WorkerOK'
      BY <1>2, <2>4, <3>3 DEF ProcessPacket, WorkerOK
    <3>. QED
      BY <1>2, <2>1, <3>2, <3>4 DEF ProcessPacket
  <2>. QED
    BY <2>3, <2>4
<1>3. ASSUME NEW w \in Workers, SendStats(w) PROVE TypeOK'
  <2>1. Stats \in Answer
    BY DEF Stats, Answer
  <2>2. NetOK'
    BY <1>3, <2>1 DEF SendStats, NetOK
  <2>3. TimersOK'
    BY <1>3, BandwidthTestAssumption DEF SendStats, WorkerOK, TimersOK
  <2>4. WorkerOK'
    BY <1>3, <2>3 DEF SendStats, WorkerOK
  <2>. QED
    BY <1>3, <2>2, <2>4 DEF SendStats
<1>4. ASSUME NEW w \in Workers, Expire(w) PROVE TypeOK'
  <2>1. ReaderOK'
    BY <1>4 DEF Expire, Leave, ReaderOK
  <2>2. WorkerOK'
    BY <1>4 DEF Expire, Leave, WorkerOK
  <2>. QED
    BY <1>4, <2>1, <2>2 DEF Expire
<1>5. ASSUME NEW w \in Workers, Process(w) PROVE TypeOK'
  <2>. DEFINE p == Head(queue[w])
  <2>1. p \in Packet /\ queue' \in [Workers -> Seq(Packet)]
    BY <1>5, HeadTailTypes DEF Process, Dequeue, WorkerOK
  <2>2. StatsOK' /\ counted' \subseteq Data
    BY <1>5, <2>1, UpdateStatsTypes DEF Process
  <2>3. Final(total'[w], dropped'[w]) \in Answer
    <3>1. total'[w] \in Nat /\ dropped'[w] \in Nat
      BY <2>2 DEF StatsOK
    <3>. QED
      BY <3>1, FinalIsAnswer DEF WorkerOK
  <2>4. NetOK'
    BY <1>5, <2>3 DEF Process, NetOK
  <2>5. TimersOK'
    <3>1. CleanupDelay \in Nat /\ Timeout \in Nat
      BY BandwidthTestAssumption DEF CleanupDelay
    <3>2. timeout' \in [Workers -> Nat] /\ cleanup' \in [Workers -> Nat] /\ ticker' = ticker
      BY <1>5, <3>1 DEF Process, WorkerOK, TimersOK
    <3>. QED
      BY <3>2 DEF WorkerOK, TimersOK
  <2>6. wpc' \in [Workers -> {"none", "main", "wait", "gone"}]
    BY <1>5 DEF Process, WorkerOK
  <2>7. WorkerOK'
    BY <2>1, <2>2, <2>5, <2>6 DEF WorkerOK
  <2>. QED
    BY <1>5, <2>4, <2>7 DEF Process
<1>6. ASSUME NEW w \in Workers, ProcessRetry(w) PROVE TypeOK'
  <2>1. queue' \in [Workers -> Seq(Packet)]
    BY <1>6, HeadTailTypes DEF ProcessRetry, Dequeue, WorkerOK
  <2>2. Final(total[w], dropped[w]) \in Answer
    BY FinalIsAnswer DEF WorkerOK, StatsOK
  <2>3. NetOK'
    BY <1>6, <2>2 DEF ProcessRetry, NetOK
  <2>4. TimersOK'
    BY <1>6, BandwidthTestAssumption DEF ProcessRetry, WorkerOK, TimersOK
  <2>5. StatsOK'
    BY <1>6 DEF ProcessRetry, WorkerOK
  <2>6. WorkerOK'
    BY <1>6, <2>1, <2>4, <2>5 DEF ProcessRetry, WorkerOK
  <2>. QED
    BY <1>6, <2>3, <2>6 DEF ProcessRetry
<1>. QED
  BY <1>1, <1>2, <1>3, <1>4, <1>5, <1>6 DEF Serve

LEMMA NetworkTypes ==
  ASSUME TypeOK, Lose \/ GoDown \/ Tick
  PROVE  TypeOK'
<1>. USE TypeParts, TypeFrames
<1>1. CASE Lose
  <2>1. ASSUME NEW p \in toServer, LosePacket(p) PROVE TypeOK'
    <3>1. NetOK' /\ LossOK'
      BY <2>1 DEF LosePacket, NetOK, LossOK
    <3>2. ReceiverOK'
      BY <2>1 DEF LosePacket, ReceiverOK
    <3>. QED
      BY <2>1, <3>1, <3>2 DEF LosePacket, serverVars
  <2>2. ASSUME NEW m \in toClient, LoseAnswer(m) PROVE TypeOK'
    <3>1. NetOK' /\ LossOK'
      BY <2>2 DEF LoseAnswer, NetOK, LossOK
    <3>. QED
      BY <2>2, <3>1 DEF LoseAnswer, serverVars
  <2>. QED
    BY <1>1, <2>1, <2>2 DEF Lose
<1>2. CASE GoDown
  <2>1. NetOK'
    BY <1>2 DEF GoDown, NetOK
  <2>. QED
    BY <1>2, <2>1 DEF GoDown, serverVars
<1>3. CASE Tick
  <2>1. \A n \in Nat : Less(n) \in Nat
    BY DEF Less
  <2>2. \A f \in [Workers -> Nat] : LessEach(f) \in [Workers -> Nat]
    BY <2>1 DEF LessEach
  <2>3. TimersOK'
    BY <1>3, <2>2 DEF Tick, WorkerOK, TimersOK
  <2>4. StatsOK'
    BY <1>3 DEF Tick, WorkerOK
  <2>5. WorkerOK'
    BY <1>3, <2>3, <2>4 DEF Tick, WorkerOK
  <2>6. LossOK'
    BY <1>3, BandwidthTestAssumption DEF Tick, LossOK
  <2>7. ReceiverOK'
    BY <1>3, <2>1 DEF Tick, ReceiverOK
  <2>8. ClientOK'
    BY <1>3, <2>1 DEF Tick, ClientOK
  <2>. QED
    BY <1>3, <2>5, <2>6, <2>7, <2>8 DEF Tick
<1>. QED
  BY <1>1, <1>2, <1>3

\* The counters, the timers and what is in flight stay in their ranges
\* (client.go, server.go).
THEOREM TypeCorrect == Spec => []TypeOK
<1>1. Init => TypeOK
  <2>1. SUFFICES ASSUME Init PROVE TypeOK
    OBVIOUS
  <2>2. Stats \in Answer
    BY DEF Stats, Answer
  <2>3. NoResult \in [status : {0, 1}, total : Nat, dropped : Nat, missing : Nat]
    BY DEF NoResult
  <2>6. ClientOK
    <3>1. /\ cpc = "send" /\ seq = 1 /\ retry = 0 /\ sleep = 0
          /\ result = NoResult /\ failed = FALSE
      BY <2>1 DEF Init
    <3>2. 1 \in 1..Count /\ 0 \in 0..(MaxRetries - 1) /\ 0 \in Nat
      BY BandwidthTestAssumption
    <3>. QED
      BY <2>3, <3>1, <3>2 DEF ClientOK
  <2>7. ReceiverOK /\ NetOK
    <3>1. /\ rpc = "read" /\ final = Stats /\ deadline = 3 * StatsInterval
          /\ toServer = {} /\ toClient = {} /\ down = FALSE
      BY <2>1 DEF Init
    <3>2. 3 * StatsInterval \in Nat
      BY BandwidthTestAssumption
    <3>. QED
      BY <2>2, <3>1, <3>2 DEF ReceiverOK, NetOK
  <2>4. ReaderOK /\ LossOK
    BY <2>1, BandwidthTestAssumption DEF Init, ReaderOK, LossOK
  <2>5. WorkerOK
    BY <2>1, BandwidthTestAssumption DEF Init, WorkerOK, StatsOK, TimersOK
  <2>. QED
    BY <2>4, <2>5, <2>6, <2>7, TypeParts
<1>2. TypeOK /\ [Next]_vars => TypeOK'
  <2>1. CASE UNCHANGED vars
    BY <2>1, TypeParts, TypeFrames DEF vars, serverVars
  <2>. QED
    BY <2>1, ClientTypes, ServerTypes, NetworkTypes DEF Next
<1>. QED
  BY <1>1, <1>2, PTL DEF Spec

------------------------------------------------------------------------------
(* While the test is sent and arrives.                                        *)

\* An operation of the client after the test was sent, or of the network.
LEMMA PatientClient ==
  ASSUME TypeOK, Patient,
         UNCHANGED <<inHand, made, wpc, queue, timeout, cleanup, delays>>,
         toServer' \cap Data \subseteq toServer,
         cpc' = "send" => /\ UNCHANGED <<cpc, retry, sleep, seq>>
                          /\ toServer' \subseteq toServer
  PROVE  Patient'
<1>. USE DEF Around, Alive
<1>1. Around(Data)' => Around(Data)
  OBVIOUS
<1>2. cpc' = "send" => cpc = "send" /\ Left' = Left /\ (Around(Ends)' => Around(Ends))
  BY DEF Left
<1>3. Sending'
  BY <1>2 DEF Sending, Patient
<1>4. Arriving'
  BY <1>1 DEF Arriving, Patient
<1>5. FirstWorker'
  BY <1>1, <1>2 DEF FirstWorker, Patient
<1>. QED
  BY <1>3, <1>4, <1>5 DEF Patient

\* The next packet is sent; its wait is taken off what is left.
LEMMA PatientSendPacket ==
  ASSUME TypeOK, Patient, SendPacket
  PROVE  Patient'
<1>1. /\ UNCHANGED <<inHand, made, wpc, queue, timeout, cleanup, delays, retry>>
      /\ cpc = "send" /\ sleep = 0 /\ seq \in 1..(Count - 1)
      /\ toServer' = toServer \cup {seq}
      /\ \/ cpc' = "cleanup"
         \/ cpc' = "send" /\ seq' = seq + 1 /\ sleep' = Gap(seq)
  BY BandwidthTestAssumption DEF SendPacket, ReturnError, TypeOK, serverVars, readerVars,
     workerVars, timerVars, lossVars
<1>2. seq \notin Ends
  BY <1>1, FinitePackets DEF Data
<1>3. Around(Ends)' => Around(Ends)
  BY <1>1, <1>2 DEF Around, Alive
<1>4. cpc' = "send" => Left' = Left
  <2>1. SUFFICES ASSUME cpc' = "send" PROVE Left' = Left
    OBVIOUS
  <2>2. Gap(seq) = At(seq) - At(seq - 1) /\ At(seq) \in Nat /\ At(seq - 1) \in Nat
        /\ At(Count - 1) \in Nat
    BY <1>1, GapIsTime, TargetTimes, BandwidthTestAssumption
  <2>3. Left' = sleep' + At(Count - 1) - At(seq' - 1)
    BY DEF Left
  <2>4. seq' - 1 = seq /\ sleep' = At(seq) - At(seq - 1)
    BY <1>1, <2>1, <2>2
  <2>5. Left = 0 + At(Count - 1) - At(seq - 1)
    BY <1>1 DEF Left
  <2>. QED
    BY <2>2, <2>3, <2>4, <2>5
<1>5. Sending'
  BY <1>1, <1>3, <1>4 DEF Sending, Patient, Alive
<1>6. Arriving'
  <2>1. \A w \in Workers : Alive(w) => wpc[w] = "main" /\ timeout[w] > Delays - delays
    BY <1>1, BandwidthTestAssumption DEF Sending, Patient, TypeOK
  <2>. QED
    BY <1>1, <2>1 DEF Arriving, Alive
<1>7. FirstWorker'
  BY <1>1 DEF FirstWorker, Patient, Alive
<1>. QED
  BY <1>5, <1>6, <1>7 DEF Patient

\* The first packet makes the first worker; later ones find it.
LEMMA PatientProcessPacket ==
  ASSUME TypeOK, EntryInv, Patient, WorkersOutlastTest,
         NEW p \in toServer, ProcessPacket(p)
  PROVE  Patient'
<1>1. /\ UNCHANGED <<cpc, seq, retry, sleep, queue, cleanup, delays>>
      /\ inHand = <<>> /\ p \in Packet /\ toServer' = toServer \ {p}
  BY DEF ProcessPacket, clientVars, lossVars, TypeOK
<1>2. Left' = Left
  BY <1>1 DEF Left
<1>3. CASE entry # 0
  <2>1. /\ UNCHANGED <<made, wpc, timeout>> /\ inHand' = <<p, entry>>
        /\ entry \in Workers /\ Alive(entry) /\ entry <= made
    BY <1>3, BandwidthTestAssumption DEF ProcessPacket, EntryInv, EntryOwned, Alive, Workers
  <2>2. ASSUME NEW K, Around(K)' PROVE Around(K)
    BY <1>1, <2>1, <2>2 DEF Around, Alive
  <2>3. Sending'
    BY <1>1, <1>2, <2>1, <2>2 DEF Sending, Patient, Alive
  <2>4. Arriving'
    BY <1>1, <2>1, <2>2 DEF Arriving, Patient
  <2>5. p \in Data => entry = 1
    <3>1. p \in Data => Around(Data)
      BY DEF Around
    <3>. QED
      BY <2>1, <3>1, BandwidthTestAssumption DEF FirstWorker, Patient, Workers, TypeOK
  <2>6. FirstWorker'
    BY <1>1, <2>1, <2>2, <2>5 DEF FirstWorker, Patient, Alive
  <2>. QED
    BY <2>3, <2>4, <2>6 DEF Patient
<1>4. CASE entry = 0
  <2>. DEFINE n == made + 1
  <2>1. /\ made < MaxWorkers /\ made' = n /\ n \in Workers
        /\ inHand' = <<p, n>>
        /\ wpc' = [wpc EXCEPT ![n] = "main"]
        /\ timeout' = [timeout EXCEPT ![n] = Timeout]
    BY <1>4, BandwidthTestAssumption DEF ProcessPacket, TypeOK, Workers
  <2>2. \A w \in Workers : /\ wpc'[w] = IF w = n THEN "main" ELSE wpc[w]
                           /\ timeout'[w] = IF w = n THEN Timeout ELSE timeout[w]
                           /\ ~Alive(w)
    BY <1>4, <2>1 DEF TypeOK, EntryInv, EntryOwned, Alive, Workers
  <2>3. queue[n] = <<>>
    BY <2>1, BandwidthTestAssumption DEF FirstWorker, Patient, TypeOK
  <2>4. \A w \in Workers : Alive(w)' <=> w = n
    BY <2>2 DEF Alive
  <2>5. ASSUME NEW K, Around(K)' PROVE Around(K)
    BY <1>1, <2>1, <2>3, <2>4, <2>5 DEF Around
  <2>6. Timeout > Duration + Delays /\ delays \in 0..Delays /\ Delays \in Nat /\ Duration \in Nat
        /\ Timeout \in Nat
    BY BandwidthTestAssumption DEF WorkersOutlastTest, TypeOK
  <2>7. Sending'
    <3>1. SUFFICES ASSUME cpc = "send"
                   PROVE  Timeout > Left + Delays - delays
      BY <1>1, <1>2, <2>2, <2>4, <2>5 DEF Sending, Patient
    <3>. QED
      BY <2>6, <3>1 DEF Sending, Patient
  <2>8. Arriving'
    <3>1. Timeout > Delays - delays
      BY <2>6
    <3>2. \A w \in Workers : wpc'[w] = "wait" => FALSE
      BY <2>2 DEF Alive
    <3>. QED
      BY <1>1, <2>2, <2>5, <3>1, <3>2 DEF Arriving, Alive
  <2>9. cpc = "send" \/ Around(Data) => n = 1
    <3>1. SUFFICES ASSUME cpc = "send" \/ Around(Data), n # 1 PROVE FALSE
      OBVIOUS
    <3>2. made = 1 /\ 1 \in Workers
      BY <2>1, <3>1 DEF FirstWorker, Patient, TypeOK, Workers
    <3>. QED
      BY <2>2, <3>1, <3>2 DEF FirstWorker, Patient
  <2>10. p \in Data => n = 1
    BY <2>9 DEF Around
  <2>11. FirstWorker'
    <3>1. cpc' = "send" \/ Around(Data)' => made' <= 1 /\ (made' = 1 => Alive(1)')
      BY <1>1, <2>1, <2>4, <2>5, <2>9
    <3>2. inHand'[2] <= made' /\ (inHand'[1] \in Data => inHand'[2] = 1)
      BY <2>1, <2>10, BandwidthTestAssumption DEF Workers
    <3>3. \A w \in Workers : w > made' => w > made
      BY <2>1 DEF TypeOK, Workers
    <3>. QED
      BY <1>1, <3>1, <3>2, <3>3 DEF FirstWorker, Patient
  <2>. QED
    BY <2>7, <2>8, <2>11 DEF Patient
<1>. QED
  BY <1>3, <1>4

LEMMA AppendElements ==
  ASSUME NEW S, NEW q \in Seq(S), NEW e \in S, NEW i \in 1..Len(Append(q, e))
  PROVE  (i \in 1..Len(q) /\ Append(q, e)[i] = q[i]) \/ Append(q, e)[i] = e
<1>1. Len(Append(q, e)) = Len(q) + 1 /\ Len(q) \in Nat
  OBVIOUS
<1>2. CASE i = Len(q) + 1
  BY <1>2
<1>3. CASE i \in 1..Len(q)
  BY <1>3
<1>. QED
  BY <1>1, <1>2, <1>3

LEMMA PatientEnqueue ==
  ASSUME TypeOK, Patient, Enqueue
  PROVE  Patient'
<1>1. PICK p \in Packet, v \in Workers : inHand = <<p, v>>
  BY DEF Enqueue, TypeOK
<1>2. /\ UNCHANGED <<cpc, seq, retry, sleep, toServer, made, wpc, timeout, cleanup, delays>>
      /\ inHand # <<>> /\ inHand' = <<>>
      /\ inHand[1] = p /\ inHand[2] = v
  BY <1>1 DEF Enqueue, clientVars, netVars, timerVars, lossVars
<1>3. \A w \in Workers : queue'[w] = IF w = v THEN Append(queue[v], p) ELSE queue[w]
  BY <1>1, <1>2 DEF Enqueue, TypeOK
<1>4. \A w \in Workers : queue[w] \in Seq(Packet)
  BY DEF TypeOK
<1>5. \A w \in Workers : \A i \in 1..Len(queue'[w]) :
        \/ i \in 1..Len(queue[w]) /\ queue'[w][i] = queue[w][i]
        \/ w = v /\ queue'[w][i] = p
  <2>1. SUFFICES ASSUME NEW w \in Workers, NEW i \in 1..Len(queue'[w])
                 PROVE  \/ i \in 1..Len(queue[w]) /\ queue'[w][i] = queue[w][i]
                        \/ w = v /\ queue'[w][i] = p
    OBVIOUS
  <2>2. CASE w = v
    <3>1. queue'[w] = Append(queue[v], p) /\ queue[v] \in Seq(Packet)
      BY <1>3, <1>4, <2>2
    <3>2. \/ i \in 1..Len(queue[v]) /\ Append(queue[v], p)[i] = queue[v][i]
          \/ Append(queue[v], p)[i] = p
      BY <3>1, AppendElements
    <3>. QED
      BY <2>2, <3>1, <3>2
  <2>3. CASE w # v
    BY <1>3, <2>3
  <2>. QED
    BY <2>2, <2>3
<1>6. ASSUME NEW K, Around(K)' PROVE Around(K)
  BY <1>2, <1>5, <1>6 DEF Around, Alive
<1>7. Left' = Left
  BY <1>2 DEF Left
<1>8. Sending'
  BY <1>2, <1>6, <1>7 DEF Sending, Patient, Alive
<1>9. Arriving'
  BY <1>2, <1>6 DEF Arriving, Patient
<1>10. FirstWorker'
  <2>1. cpc' = "send" \/ Around(Data)' => made' <= 1 /\ (made' = 1 => Alive(1)')
    BY <1>2, <1>6 DEF FirstWorker, Patient, Alive
  <2>2. v <= made /\ (p \in Data => v = 1)
    BY <1>2 DEF FirstWorker, Patient
  <2>3. \A w \in Workers : w > made => queue'[w] = <<>>
    BY <1>3, <2>2 DEF FirstWorker, Patient, TypeOK, Workers
  <2>4. \A w \in Workers : \A i \in 1..Len(queue'[w]) : queue'[w][i] \in Data => w = 1
    BY <1>5, <2>2 DEF FirstWorker, Patient
  <2>. QED
    BY <1>2, <2>1, <2>3, <2>4 DEF FirstWorker
<1>. QED
  BY <1>8, <1>9, <1>10 DEF Patient

\* A worker ends when the test has been sent and has arrived, or was lost.
LEMMA PatientExpire ==
  ASSUME TypeOK, Patient, NEW w \in Workers, Expire(w)
  PROVE  Patient'
<1>1. /\ UNCHANGED <<cpc, seq, retry, sleep, toServer, inHand, made, queue, timeout, cleanup,
                     delays>>
      /\ wpc' = [wpc EXCEPT ![w] = "gone"]
      /\ \/ wpc[w] = "main" /\ timeout[w] = 0
         \/ wpc[w] = "wait" /\ cleanup[w] = 0
  <2>1. UNCHANGED <<clientVars, netVars, inHand, made, queue, timerVars, lossVars>>
    BY DEF Expire
  <2>2. UNCHANGED <<cpc, seq, retry, sleep, toServer, timeout, cleanup, delays>>
    BY <2>1 DEF clientVars, netVars, timerVars, lossVars
  <2>. QED
    BY <2>1, <2>2 DEF Expire, Leave
<1>2. Delays - delays \in Nat
  BY BandwidthTestAssumption DEF TypeOK
<1>3. cpc # "send"
  <2>1. SUFFICES ASSUME cpc = "send" PROVE FALSE
    OBVIOUS
  <2>2. wpc[w] = "main" /\ timeout[w] > Left + Delays - delays /\ Left \in Nat
    BY <1>1, <2>1, BandwidthTestAssumption DEF Sending, Patient, Alive
  <2>. QED
    BY <1>1, <1>2, <2>2, BandwidthTestAssumption DEF TypeOK
<1>4. ~Around(Data)
  BY <1>1, <1>2 DEF Arriving, Patient
<1>5. ~Around(Data)'
  <2>1. \A v \in Workers : Alive(v)' => Alive(v)
    BY <1>1 DEF Alive, TypeOK
  <2>. QED
    BY <1>1, <1>4, <2>1 DEF Around
<1>6. Sending' /\ Arriving'
  BY <1>1, <1>3, <1>5 DEF Sending, Arriving
<1>7. FirstWorker'
  BY <1>1, <1>3, <1>5 DEF FirstWorker, Patient
<1>. QED
  BY <1>6, <1>7 DEF Patient

\* A packet less in the queue of w.
LEMMA DequeueAround ==
  ASSUME TypeOK, NEW w \in Workers, Alive(w), queue[w] # <<>>, Dequeue(w),
         UNCHANGED <<toServer, inHand>>, NEW l \in {"main", "wait"},
         wpc' = wpc \/ wpc' = [wpc EXCEPT ![w] = l]
  PROVE  /\ \A v \in Workers : Alive(v)' <=> Alive(v)
         /\ \A v \in Workers : \A i \in 1..Len(queue'[v]) :
              \E j \in 1..Len(queue[v]) : queue'[v][i] = queue[v][j]
         /\ \A v \in Workers : queue[v] = <<>> => queue'[v] = <<>>
         /\ \A K : Around(K)' => Around(K)
         /\ Head(queue[w]) = queue[w][1] /\ 1 \in 1..Len(queue[w])
<1>1. \A v \in Workers : Alive(v)' <=> Alive(v)
  BY DEF Alive, TypeOK
<1>2. \A v \in Workers : queue[v] \in Seq(Packet)
                         /\ queue'[v] = IF v = w THEN Tail(queue[w]) ELSE queue[v]
  BY DEF Dequeue, TypeOK
<1>3. \A i \in 1..Len(Tail(queue[w])) :
        i + 1 \in 1..Len(queue[w]) /\ Tail(queue[w])[i] = queue[w][i + 1]
  BY <1>2
<1>4. \A v \in Workers : \A i \in 1..Len(queue'[v]) :
        \E j \in 1..Len(queue[v]) : queue'[v][i] = queue[v][j]
  BY <1>2, <1>3
<1>5. ASSUME NEW K, Around(K)' PROVE Around(K)
  BY <1>1, <1>4, <1>5 DEF Around
<1>6. Head(queue[w]) = queue[w][1] /\ 1 \in 1..Len(queue[w])
  BY <1>2
<1>. QED
  BY <1>1, <1>2, <1>4, <1>5, <1>6

\* A worker that takes a packet starts one of its timers anew.
LEMMA PatientProcess ==
  ASSUME TypeOK, Patient, WorkersOutlastTest, NEW w \in Workers, Process(w) \/ ProcessRetry(w)
  PROVE  Patient'
<1>1. /\ UNCHANGED <<cpc, seq, retry, sleep, toServer, inHand, made, delays>>
      /\ Alive(w) /\ queue[w] # <<>> /\ Dequeue(w)
  BY DEF Process, ProcessRetry, clientVars, readerVars, lossVars, Alive
<1>2. \/ /\ wpc' = [wpc EXCEPT ![w] = "wait"] /\ timeout' = timeout
         /\ cleanup' = [cleanup EXCEPT ![w] = CleanupDelay]
         /\ Head(queue[w]) \in Ends
      \/ /\ (wpc' = wpc /\ wpc[w] = "main") \/ wpc' = [wpc EXCEPT ![w] = "main"]
         /\ timeout' = [timeout EXCEPT ![w] = Timeout] /\ cleanup' = cleanup
  BY DEF Process, ProcessRetry
<1>3. PICK l \in {"main", "wait"} : wpc' = wpc \/ wpc' = [wpc EXCEPT ![w] = l]
  BY <1>2
<1>4. /\ \A v \in Workers : Alive(v)' <=> Alive(v)
      /\ \A v \in Workers : \A i \in 1..Len(queue'[v]) :
           \E j \in 1..Len(queue[v]) : queue'[v][i] = queue[v][j]
      /\ \A v \in Workers : queue[v] = <<>> => queue'[v] = <<>>
      /\ \A K : Around(K)' => Around(K)
      /\ Head(queue[w]) = queue[w][1] /\ 1 \in 1..Len(queue[w])
  BY <1>1, <1>3, DequeueAround
<1>5. /\ Timeout > Duration + Delays /\ CleanupDelay > Delays /\ delays \in 0..Delays
      /\ Delays \in Nat /\ Duration \in Nat /\ Timeout \in Nat /\ CleanupDelay \in Nat
  BY BandwidthTestAssumption DEF WorkersOutlastTest, TypeOK, CleanupDelay
<1>6. Left' = Left
  BY <1>1 DEF Left
<1>7. cpc = "send" => Head(queue[w]) \notin Ends
  BY <1>1, <1>4 DEF Sending, Patient, Around
<1>8. \A v \in Workers : /\ timeout'[v] = timeout[v] \/ timeout'[v] = Timeout
                         /\ cleanup'[v] = cleanup[v] \/ cleanup'[v] = CleanupDelay
                         /\ \/ wpc'[v] = wpc[v]
                            \/ wpc'[v] = "main" /\ timeout'[v] = Timeout
                            \/ wpc'[v] = "wait" /\ cleanup'[v] = CleanupDelay /\ cpc # "send"
  <2>1. /\ wpc \in [Workers -> {"none", "main", "wait", "gone"}]
        /\ timeout \in [Workers -> Nat] /\ cleanup \in [Workers -> Nat]
    BY DEF TypeOK
  <2>2. CASE /\ wpc' = [wpc EXCEPT ![w] = "wait"] /\ timeout' = timeout
             /\ cleanup' = [cleanup EXCEPT ![w] = CleanupDelay] /\ cpc # "send"
    BY <2>1, <2>2
  <2>3. CASE /\ (wpc' = wpc /\ wpc[w] = "main") \/ wpc' = [wpc EXCEPT ![w] = "main"]
             /\ timeout' = [timeout EXCEPT ![w] = Timeout] /\ cleanup' = cleanup
    BY <2>1, <2>3
  <2>. QED
    BY <1>2, <1>7, <2>2, <2>3
<1>9. Sending'
  <2>1. SUFFICES ASSUME cpc = "send", NEW v \in Workers, Alive(v)
                 PROVE  wpc'[v] = "main" /\ timeout'[v] > Left + Delays - delays
    BY <1>1, <1>4, <1>6 DEF Sending, Patient
  <2>2. /\ wpc[v] = "main" /\ timeout[v] > Left + Delays - delays
        /\ Left \in 0..Duration
    BY <2>1 DEF Sending, Patient
  <2>3. Timeout > Left + Delays - delays
    BY <1>5, <2>2
  <2>. QED
    BY <1>8, <2>1, <2>2, <2>3
<1>10. Arriving'
  <2>1. SUFFICES ASSUME Around(Data), NEW v \in Workers
                 PROVE  /\ wpc'[v] = "main" => timeout'[v] > Delays - delays
                        /\ wpc'[v] = "wait" => cleanup'[v] > Delays - delays
    BY <1>1, <1>4 DEF Arriving
  <2>2. Timeout > Delays - delays /\ CleanupDelay > Delays - delays
    BY <1>5
  <2>. QED
    BY <1>8, <2>1, <2>2 DEF Arriving, Patient
<1>11. FirstWorker'
  <2>1. made = 1 => 1 \in Workers
    BY DEF TypeOK, Workers
  <2>2. cpc' = "send" \/ Around(Data)' => made' <= 1 /\ (made' = 1 => Alive(1)')
    BY <1>1, <1>4, <2>1 DEF FirstWorker, Patient
  <2>3. \A v \in Workers : v > made => queue'[v] = <<>>
    BY <1>4 DEF FirstWorker, Patient
  <2>4. \A v \in Workers : \A i \in 1..Len(queue'[v]) : queue'[v][i] \in Data => v = 1
    BY <1>4 DEF FirstWorker, Patient
  <2>. QED
    BY <1>1, <2>2, <2>3, <2>4 DEF FirstWorker, Patient
<1>. QED
  BY <1>9, <1>10, <1>11 DEF Patient

\* A unit passes for what is left to send and for the timers alike, and it is
\* one of the delays if something is on its way.
LEMMA PatientTick ==
  ASSUME TypeOK, Patient, Tick
  PROVE  Patient'
<1>1. /\ UNCHANGED <<cpc, seq, retry, toServer, inHand, made, wpc, queue>>
      /\ inHand = <<>> /\ ClientIdle /\ \A w \in Workers : WorkerIdle(w)
      /\ sleep' = Less(sleep)
      /\ timeout' = LessEach(timeout) /\ cleanup' = LessEach(cleanup)
      /\ \/ toServer = {} /\ delays' = delays
         \/ delays < Delays /\ delays' = delays + 1
  BY DEF Tick, netVars, readerVars
<1>2. \A K : Around(K)' <=> Around(K)
  BY <1>1 DEF Around, Alive
<1>3. /\ \A w \in Workers : wpc[w] = "main" => timeout'[w] = timeout[w] - 1
      /\ \A w \in Workers : wpc[w] = "wait" => cleanup'[w] = cleanup[w] - 1
      /\ \A w \in Workers : Alive(w) => queue[w] = <<>>
  <2>1. \A w \in Workers : /\ timeout'[w] = Less(timeout[w]) /\ cleanup'[w] = Less(cleanup[w])
                           /\ timeout[w] \in Nat /\ cleanup[w] \in Nat
    BY <1>1 DEF LessEach, TypeOK
  <2>2. \A w \in Workers : /\ wpc[w] = "main" => timeout[w] > 0
                           /\ wpc[w] = "wait" => cleanup[w] > 0
                           /\ Alive(w) => queue[w] = <<>>
    BY <1>1 DEF WorkerIdle, Alive
  <2>. QED
    BY <2>1, <2>2 DEF Less
<1>4. /\ \A w \in Workers : timeout[w] \in Nat /\ cleanup[w] \in Nat
      /\ delays \in 0..Delays /\ delays' \in Nat /\ delays' >= delays /\ Delays \in Nat
  BY <1>1, BandwidthTestAssumption DEF TypeOK
<1>5. Around(Data) => delays' = delays + 1
  BY <1>1, <1>3 DEF Around
<1>6. cpc = "send" => Left' = Left - 1 /\ Left' >= 0
  <2>1. SUFFICES ASSUME cpc = "send" PROVE Left' = Left - 1 /\ Left' >= 0
    OBVIOUS
  <2>2. /\ At(Count - 1) \in Nat /\ At(seq - 1) \in Nat /\ At(seq - 1) <= At(Count - 1)
        /\ sleep \in Nat /\ sleep > 0
    <3>1. Count - 1 \in 0..Count /\ seq - 1 \in 0..(Count - 1)
      BY BandwidthTestAssumption DEF TypeOK
    <3>2. sleep \in Nat /\ sleep > 0
      BY <1>1, <2>1 DEF ClientIdle, TypeOK
    <3>. QED
      BY <3>1, <3>2, TargetTimes
  <2>3. sleep' = sleep - 1
    BY <1>1, <2>2 DEF Less
  <2>4. Left' = sleep' + At(Count - 1) - At(seq - 1)
    BY <1>1 DEF Left
  <2>. QED
    BY <2>2, <2>3, <2>4 DEF Left
<1>7. Sending'
  <2>1. cpc = "send" => retry' = 0 /\ Left' \in 0..Duration /\ ~Around(Ends)'
    BY <1>1, <1>2, <1>6, BandwidthTestAssumption DEF Sending, Patient
  <2>2. ASSUME cpc = "send", NEW w \in Workers, Alive(w)
        PROVE  wpc[w] = "main" /\ timeout'[w] > Left' + Delays - delays'
    <3>1. wpc[w] = "main" /\ timeout[w] > Left + Delays - delays /\ Left \in Nat
      BY <2>2, BandwidthTestAssumption DEF Sending, Patient
    <3>. QED
      BY <1>3, <1>4, <1>6, <2>2, <3>1
  <2>. QED
    BY <1>1, <2>1, <2>2 DEF Sending, Alive
<1>8. Arriving'
  <2>1. SUFFICES ASSUME Around(Data), NEW w \in Workers
                 PROVE  /\ wpc[w] = "main" => timeout'[w] > Delays - delays'
                        /\ wpc[w] = "wait" => cleanup'[w] > Delays - delays'
    BY <1>1, <1>2 DEF Arriving
  <2>. QED
    BY <1>3, <1>4, <1>5, <2>1 DEF Arriving, Patient
<1>9. FirstWorker'
  BY <1>1, <1>2 DEF FirstWorker, Patient, Alive
<1>. QED
  BY <1>7, <1>8, <1>9 DEF Patient

------------------------------------------------------------------------------
(* What the workers count.                                                    *)

LEMMA AccountTypes ==
  ASSUME TypeOK
  PROVE  /\ IsFiniteSet(counted) /\ Cardinality(counted) \in Nat
         /\ Cardinality(Data \ counted) = Count - 1 - Cardinality(counted)
         /\ IsFiniteSet(toServer \cap Ends) /\ EndsOut \in Nat
         /\ Unsent \in Nat
         /\ \A w \in Workers : /\ total[w] \in Nat /\ Len(queue[w]) \in Nat
                               /\ InHandOf(w) \in {0, 1} /\ Answered(w) \in {0, 1}
<1>1. IsFiniteSet(counted) /\ IsFiniteSet(toServer \cap Ends)
  BY FinitePackets, FS_Subset DEF TypeOK
<1>2. Cardinality(counted) \in Nat /\ EndsOut \in Nat
  BY <1>1, FS_CardinalityType DEF EndsOut
<1>3. Cardinality(Data \ counted) = Count - 1 - Cardinality(counted)
  <2>1. Data \cap counted = counted
    BY DEF TypeOK
  <2>2. Cardinality(Data \ counted) = Cardinality(Data) - Cardinality(Data \cap counted)
    BY FinitePackets, FS_Difference
  <2>. QED
    BY <2>1, <2>2, FinitePackets
<1>4. Unsent \in Nat
  BY BandwidthTestAssumption DEF Unsent, TypeOK
<1>5. \A w \in Workers : queue[w] \in Seq(Packet) /\ total[w] \in Nat
  BY DEF TypeOK
<1>6. \A w \in Workers : InHandOf(w) \in {0, 1} /\ Answered(w) \in {0, 1}
  BY DEF InHandOf, Answered
<1>. QED
  BY <1>1, <1>2, <1>3, <1>4, <1>5, <1>6

LEMMA NextAccountTypes ==
  ASSUME TypeOK'
  PROVE  EndsOut' \in Nat /\ Unsent' \in Nat
<1>1. IsFiniteSet(toServer' \cap Ends)
  BY FinitePackets, FS_Subset
<1>2. EndsOut' \in Nat
  BY <1>1, FS_CardinalityType DEF EndsOut
<1>3. retry' \in 0..(MaxRetries - 1)
  BY DEF TypeOK
<1>4. \A r \in 0..(MaxRetries - 1) : MaxRetries - r \in Nat /\ MaxRetries - (r + 1) \in Nat
  BY BandwidthTestAssumption
<1>5. Unsent' \in Nat
  BY <1>3, <1>4, BandwidthTestAssumption DEF Unsent
<1>. QED
  BY <1>2, <1>5

\* Operations that leave the workers alone and send no end packet but those left.
LEMMA AccountsKept ==
  ASSUME TypeOK, Accounts, UNCHANGED <<wpc, queue, total, counted, inHand>>,
         NEW e \in Nat, NEW u \in Nat, EndsOut' = e, Unsent' = u,
         e + u <= EndsOut + Unsent
  PROVE  Accounts'
<1>1. ASSUME NEW w \in Workers, EndsFor(w) PROVE EndsFor(w)'
  <2>1. /\ EndsOut \in Nat /\ Unsent \in Nat
        /\ total[w] \in Nat /\ Len(queue[w]) \in Nat
        /\ InHandOf(w) \in {0, 1} /\ Answered(w) \in {0, 1}
    BY AccountTypes
  <2>2. InHandOf(w)' = InHandOf(w) /\ Answered(w)' = Answered(w)
    BY DEF InHandOf, Answered
  <2>3. 2 * total[w] + Len(queue[w]) + InHandOf(w) + EndsOut + Unsent <= MaxRetries + Answered(w)
    BY <1>1 DEF EndsFor
  <2>4. PICK s \in Nat : s = 2 * total[w] + Len(queue[w]) + InHandOf(w)
    BY <2>1
  <2>5. PICK r \in Nat : r = MaxRetries + Answered(w)
    BY <2>1, BandwidthTestAssumption
  <2>6. s + EndsOut + Unsent <= r
    BY <2>3, <2>4, <2>5
  <2>7. s + e + u <= r
    BY <2>1, <2>6
  <2>. QED
    BY <2>2, <2>4, <2>5, <2>7 DEF EndsFor
<1>. QED
  BY <1>1 DEF Accounts

LEMMA EndsLost ==
  ASSUME TypeOK, toServer' \subseteq toServer, NEW e, EndsOut' = e
  PROVE  e <= EndsOut
<1>1. IsFiniteSet(toServer \cap Ends) /\ toServer' \cap Ends \subseteq toServer \cap Ends
  BY AccountTypes
<1>2. Cardinality(toServer' \cap Ends) <= EndsOut
  BY <1>1, FS_Subset DEF EndsOut
<1>. QED
  BY <1>2 DEF EndsOut

LEMMA AccountsClient ==
  ASSUME TypeOK, TypeOK', Patient, Accounts, Client
  PROVE  Accounts'
<1>1. UNCHANGED <<wpc, queue, total, counted, inHand>>
  BY DEF Client, SendPacket, SendEndOfTest, TakeFinal, TakeError, RetryTimer, Drain, Cleanup,
     ReceiveEnds, ReceiveMessage, Discard, serverVars, readerVars, workerVars, statVars
<1>2. EndsOut' \in Nat /\ Unsent' \in Nat
  BY NextAccountTypes
<1>3. PICK e \in Nat, u \in Nat : EndsOut' = e /\ Unsent' = u
  BY <1>2
<1>10. SUFFICES e + u <= EndsOut + Unsent
  BY <1>1, <1>3, AccountsKept
<1>11. /\ EndsOut \in Nat /\ Unsent \in Nat /\ MaxRetries \in Nat \ {0}
       /\ retry \in 0..(MaxRetries - 1)
  BY AccountTypes, BandwidthTestAssumption DEF TypeOK
<1>4. CASE SendPacket
  <2>1. /\ cpc = "send" /\ retry' = retry /\ cpc' \in {"send", "cleanup"}
        /\ toServer' = toServer \cup {seq} /\ seq \in Data
    BY <1>4, BandwidthTestAssumption DEF SendPacket, ReturnError, Data, TypeOK
  <2>2. toServer' \cap Ends = toServer \cap Ends
    BY <2>1, FinitePackets
  <2>3. EndsOut' = EndsOut
    BY <2>2 DEF EndsOut
  <2>4. e = EndsOut /\ (Unsent' = Unsent \/ Unsent' = 0)
    BY <1>3, <2>1, <2>3 DEF Unsent
  <2>5. u = Unsent \/ u = 0
    BY <1>3, <2>4
  <2>. QED
    BY <1>11, <2>4, <2>5
<1>5. CASE SendEndOfTest /\ cpc' = "await"
  <2>1. /\ retry' = retry /\ toServer' = toServer \cup {Count + retry}
        /\ cpc = "end" \/ (cpc = "send" /\ retry = 0)
    BY <1>5 DEF SendEndOfTest, Patient, Sending, ReturnError
  <2>2. Count + retry \in Ends
    BY BandwidthTestAssumption DEF Ends, TypeOK
  <2>3. toServer' \cap Ends = (toServer \cap Ends) \cup {Count + retry}
    BY <2>1, <2>2
  <2>4. EndsOut' = EndsOut \/ EndsOut' = EndsOut + 1
    <3>1. IsFiniteSet(toServer \cap Ends)
      BY AccountTypes
    <3>2. LET S == toServer \cap Ends IN
            Cardinality(S \cup {Count + retry}) \in {Cardinality(S), Cardinality(S) + 1}
      BY <3>1, FS_AddElement
    <3>. QED
      BY <2>3, <3>2 DEF EndsOut
  <2>5. Unsent' = Unsent - 1
    BY <1>5, <1>11, <2>1 DEF Unsent
  <2>6. (e = EndsOut \/ e = EndsOut + 1) /\ u = Unsent - 1
    BY <1>3, <2>4, <2>5
  <2>. QED
    BY <1>11, <2>6
<1>6. CASE SendEndOfTest /\ cpc' # "await"
  <2>1. toServer' = toServer /\ cpc' = "cleanup"
    BY <1>6 DEF SendEndOfTest, ReturnError
  <2>2. EndsOut' = EndsOut /\ Unsent' = 0
    BY <2>1 DEF EndsOut, Unsent
  <2>. QED
    BY <1>3, <1>11, <2>2
<1>7. CASE TakeError \/ RetryTimer
  <2>1. toServer' = toServer /\ cpc = "await" /\ NextRetry
    BY <1>7 DEF TakeError, RetryTimer, netVars
  <2>2. EndsOut' = EndsOut
    BY <2>1 DEF EndsOut
  <2>3. Unsent' = Unsent \/ Unsent' = 0
    BY <1>11, <2>1 DEF Unsent, NextRetry, ReturnError
  <2>4. e = EndsOut /\ (u = Unsent \/ u = 0)
    BY <1>3, <2>2, <2>3
  <2>. QED
    BY <1>11, <2>4
<1>8. CASE TakeFinal \/ Cleanup
  <2>1. toServer' = toServer /\ cpc' \in {"cleanup", "done"}
    BY <1>8 DEF TakeFinal, Cleanup, netVars
  <2>2. EndsOut' = EndsOut /\ Unsent' = 0
    BY <2>1 DEF EndsOut, Unsent
  <2>. QED
    BY <1>3, <1>11, <2>2
<1>9. CASE Drain \/ ReceiveEnds \/ \E m \in toClient : ReceiveMessage(m) \/ Discard(m)
  <2>1. UNCHANGED <<toServer, cpc, retry>>
    BY <1>9 DEF Drain, ReceiveEnds, ReceiveMessage, Discard, netVars, clientVars
  <2>2. EndsOut' = EndsOut /\ Unsent' = Unsent
    BY <2>1 DEF EndsOut, Unsent
  <2>. QED
    BY <1>3, <1>11, <2>2
<1>. QED
  BY <1>4, <1>5, <1>6, <1>7, <1>8, <1>9 DEF Client

LEMMA AccountsNetwork ==
  ASSUME TypeOK, TypeOK', Accounts, Lose \/ GoDown \/ Tick \/ \E w \in Workers : SendStats(w)
  PROVE  Accounts'
<1>1. /\ UNCHANGED <<wpc, queue, total, counted, inHand, cpc, retry>>
      /\ toServer' \subseteq toServer
  BY DEF Lose, LosePacket, LoseAnswer, GoDown, Tick, SendStats, serverVars, readerVars,
     workerVars, statVars, clientVars, netVars
<1>2. EndsOut' \in Nat
  BY NextAccountTypes
<1>3. PICK e \in Nat : EndsOut' = e
  BY <1>2
<1>4. e <= EndsOut
  BY <1>1, <1>3, EndsLost
<1>5. Unsent' = Unsent
  BY <1>1 DEF Unsent
<1>6. EndsOut \in Nat /\ Unsent \in Nat
  BY AccountTypes
<1>7. e + Unsent <= EndsOut + Unsent
  BY <1>4, <1>6
<1>. QED
  BY <1>1, <1>3, <1>5, <1>6, <1>7, AccountsKept

\* The server takes an end packet from the network; a data packet is for worker 1.
LEMMA AccountsProcessPacket ==
  ASSUME TypeOK, EntryInv, Patient', Accounts, NEW p \in toServer, ProcessPacket(p)
  PROVE  Accounts'
<1>1. /\ UNCHANGED <<cpc, retry, queue, total, counted>>
      /\ inHand = <<>> /\ p \in Packet /\ toServer' = toServer \ {p}
  BY DEF ProcessPacket, clientVars, statVars, TypeOK
<1>2. PICK n \in Workers :
        /\ inHand' = <<p, n>>
        /\ \/ wpc' = wpc
           \/ wpc' = [wpc EXCEPT ![n] = "main"] /\ n > made
  BY BandwidthTestAssumption DEF ProcessPacket, EntryInv, Workers
<1>3. p \in Data => n = 1
  BY <1>2 DEF Patient, FirstWorker
<1>4. \A w \in Workers : /\ Answered(w)' = Answered(w)
                         /\ wpc'[w] = "wait" => wpc[w] = "wait"
  <2>1. SUFFICES ASSUME NEW w \in Workers
                 PROVE  /\ wpc'[w] = wpc[w] \/ (wpc'[w] = "main" /\ wpc[w] = "none")
    BY <2>1 DEF Answered
  <2>. QED
    BY <1>2 DEF EntryInv
<1>5. Unsent' = Unsent
  BY <1>1 DEF Unsent
<1>6. ASSUME NEW w \in Workers, w # 1, EndsFor(w) PROVE EndsFor(w)'
  <2>1. /\ EndsOut \in Nat /\ Unsent \in Nat /\ InHandOf(w) = 0
        /\ total[w] \in Nat /\ Len(queue[w]) \in Nat
        /\ IsFiniteSet(toServer \cap Ends)
    BY <1>1, AccountTypes DEF InHandOf
  <2>2. PICK s \in Nat : s = 2 * total[w] + Len(queue[w])
    BY <2>1
  <2>3. PICK r : r = MaxRetries + Answered(w)
    OBVIOUS
  <2>4. r \in Nat
    BY <2>3, AccountTypes, BandwidthTestAssumption
  <2>5. s + 0 + EndsOut + Unsent <= r
    BY <1>6, <2>1, <2>2, <2>3 DEF EndsFor
  <2>6. CASE n = w
    <3>1. p \in toServer \cap Ends
      BY <1>1, <1>3, <1>6, <2>6, FinitePackets
    <3>2. toServer' \cap Ends = (toServer \cap Ends) \ {p}
      BY <1>1
    <3>3. EndsOut' = EndsOut - 1
      <4>1. Cardinality((toServer \cap Ends) \ {p}) = Cardinality(toServer \cap Ends) - 1
        BY <2>1, <3>1, FS_RemoveElement
      <4>. QED
        BY <3>2, <4>1 DEF EndsOut
    <3>4. InHandOf(w)' = 1
      BY <1>2, <2>6 DEF InHandOf
    <3>5. s + 1 + (EndsOut - 1) + Unsent <= r
      BY <2>1, <2>4, <2>5
    <3>. QED
      BY <1>1, <1>4, <1>5, <2>2, <2>3, <3>3, <3>4, <3>5 DEF EndsFor
  <2>7. CASE n # w
    <3>1. toServer' \cap Ends \subseteq toServer \cap Ends
      BY <1>1
    <3>2. PICK e \in Nat : EndsOut' = e
      BY <2>1, <3>1, FS_Subset, FS_CardinalityType DEF EndsOut
    <3>3. e <= EndsOut
      BY <1>1, <3>2, EndsLost
    <3>4. InHandOf(w)' = 0
      BY <1>2, <2>7 DEF InHandOf
    <3>5. s + 0 + e + Unsent <= r
      BY <2>1, <2>4, <2>5, <3>3
    <3>. QED
      BY <1>1, <1>4, <1>5, <2>2, <2>3, <3>2, <3>4, <3>5 DEF EndsFor
  <2>. QED
    BY <2>6, <2>7
<1>. QED
  BY <1>1, <1>4, <1>6 DEF Accounts

LEMMA AccountsEnqueue ==
  ASSUME TypeOK, Accounts, Enqueue
  PROVE  Accounts'
<1>1. PICK p \in Packet, v \in Workers : inHand = <<p, v>>
  BY DEF Enqueue, TypeOK
<1>2. /\ UNCHANGED <<cpc, retry, toServer, wpc, total, counted>>
      /\ inHand' = <<>>
      /\ queue' = [queue EXCEPT ![v] = Append(@, p)]
  BY <1>1 DEF Enqueue, clientVars, netVars, statVars
<1>3. EndsOut' = EndsOut /\ Unsent' = Unsent
  BY <1>2 DEF EndsOut, Unsent
<1>4. ASSUME NEW w \in Workers, EndsFor(w) PROVE EndsFor(w)'
  <2>1. /\ EndsOut \in Nat /\ Unsent \in Nat /\ Answered(w)' = Answered(w)
        /\ total[w] \in Nat /\ Len(queue[w]) \in Nat /\ InHandOf(w)' = 0
        /\ Answered(w) \in Nat
    BY <1>2, AccountTypes DEF InHandOf, Answered
  <2>2. Len(queue'[w]) = Len(queue[w]) + InHandOf(w)
    <3>1. queue[w] \in Seq(Packet)
      BY DEF TypeOK
    <3>2. CASE w = v
      BY <1>1, <1>2, <3>1, <3>2 DEF InHandOf, TypeOK
    <3>3. CASE w # v
      BY <1>1, <1>2, <3>1, <3>3 DEF InHandOf, TypeOK
    <3>. QED
      BY <3>2, <3>3
  <2>3. InHandOf(w) \in Nat
    BY DEF InHandOf
  <2>4. 2 * total[w] + Len(queue[w]) + InHandOf(w) + EndsOut + Unsent <= MaxRetries + Answered(w)
    BY <1>4 DEF EndsFor
  <2>5. 2 * total[w] + (Len(queue[w]) + InHandOf(w)) + 0 + EndsOut + Unsent
          <= MaxRetries + Answered(w)
    BY <2>1, <2>3, <2>4, BandwidthTestAssumption
  <2>. QED
    BY <1>2, <1>3, <2>1, <2>2, <2>5 DEF EndsFor
<1>. QED
  BY <1>2, <1>4 DEF Accounts

LEMMA AccountsExpire ==
  ASSUME TypeOK, Accounts, NEW v \in Workers, Expire(v)
  PROVE  Accounts'
<1>1. /\ UNCHANGED <<cpc, retry, toServer, inHand, queue, total, counted>>
      /\ wpc' = [wpc EXCEPT ![v] = "gone"]
  BY DEF Expire, Leave, clientVars, netVars, statVars
<1>2. EndsOut' = EndsOut /\ Unsent' = Unsent
  BY <1>1 DEF EndsOut, Unsent
<1>3. ASSUME NEW w \in Workers, EndsFor(w) PROVE EndsFor(w)'
  <2>1. /\ EndsOut \in Nat /\ Unsent \in Nat /\ InHandOf(w)' = InHandOf(w)
        /\ total[w] \in Nat /\ Len(queue[w]) \in Nat /\ InHandOf(w) \in Nat
    BY <1>1, AccountTypes DEF InHandOf
  <2>2. Answered(w)' = Answered(w) \/ Answered(w)' = 1
    BY <1>1 DEF Answered, TypeOK
  <2>3. PICK s \in Nat : s = 2 * total[w] + Len(queue[w]) + InHandOf(w) + EndsOut + Unsent
    BY <2>1
  <2>4. s <= MaxRetries + Answered(w) /\ Answered(w) \in {0, 1}
    BY <1>3, <2>3, AccountTypes DEF EndsFor
  <2>5. s <= MaxRetries + 1
    BY <2>4, BandwidthTestAssumption
  <2>. QED
    BY <1>1, <1>2, <2>1, <2>2, <2>3, <2>4, <2>5 DEF EndsFor
<1>4. \A w \in Workers : wpc'[w] = "wait" => wpc[w] = "wait"
  BY <1>1 DEF TypeOK
<1>. QED
  BY <1>1, <1>3, <1>4 DEF Accounts

\* A packet that is counted: one more in the total and, if it is data, in the set.
LEMMA AccountsProcess ==
  ASSUME TypeOK, Patient, Accounts, NEW v \in Workers, Process(v)
  PROVE  Accounts'
<1>. DEFINE p == Head(queue[v])
<1>1. /\ UNCHANGED <<cpc, retry, toServer, inHand>>
      /\ total' = [total EXCEPT ![v] = @ + 1]
      /\ counted' = counted \cup ({p} \cap Data)
      /\ queue' = [queue EXCEPT ![v] = Tail(@)]
      /\ wpc[v] = "main"
      /\ \/ p \in Ends /\ wpc' = [wpc EXCEPT ![v] = "wait"]
         \/ p \in Data /\ wpc' = wpc
  BY DEF Process, Dequeue, UpdateStats, clientVars, readerVars
<1>2. EndsOut' = EndsOut /\ Unsent' = Unsent
  BY <1>1 DEF EndsOut, Unsent
<1>3. /\ queue[v] \in Seq(Packet) /\ queue[v] # <<>>
      /\ p = queue[v][1] /\ 1 \in 1..Len(queue[v]) /\ Len(Tail(queue[v])) = Len(queue[v]) - 1
  <2>1. queue[v] \in Seq(Packet)
    BY DEF TypeOK
  <2>2. queue[v] # <<>>
    BY DEF Process
  <2>. QED
    BY <2>1, <2>2
<1>4. v # 1 => p \notin Data
  BY <1>3 DEF Patient, FirstWorker
<1>5. CASE v = 1
  <2>1. /\ IsFiniteSet(counted) /\ Cardinality(counted) \in Nat /\ total[1] \in Nat
        /\ total'[1] = total[1] + 1
        /\ Cardinality(counted) <= total[1]
    BY <1>1, <1>5, AccountTypes DEF Accounts, TypeOK
  <2>4. Cardinality(counted') <= total'[1]
        /\ (wpc'[1] = "wait" => Cardinality(counted') + 1 <= total'[1])
    <3>1. CASE p \in Ends
      <4>1. counted' = counted
        BY <1>1, <3>1, FinitePackets
      <4>. QED
        BY <2>1, <4>1
    <3>2. CASE p \in Data
      <4>1. counted' = counted \cup {p}
        BY <1>1, <3>2
      <4>2. \/ Cardinality(counted \cup {p}) = Cardinality(counted)
            \/ Cardinality(counted \cup {p}) = Cardinality(counted) + 1
        BY <2>1, FS_AddElement
      <4>3. wpc'[1] = "main"
        BY <1>1, <1>5, <3>2, FinitePackets
      <4>. QED
        BY <2>1, <4>1, <4>2, <4>3
    <3>. QED
      BY <1>1, <3>1, <3>2
  <2>5. ASSUME NEW w \in Workers, w # 1, EndsFor(w) PROVE EndsFor(w)'
    <3>1. total'[w] = total[w] /\ queue'[w] = queue[w] /\ wpc'[w] = wpc[w]
      BY <1>1, <1>5, <2>5 DEF TypeOK
    <3>. QED
      BY <1>1, <1>2, <2>5, <3>1 DEF EndsFor, InHandOf, Answered
  <2>. QED
    BY <2>4, <2>5 DEF Accounts
<1>6. CASE v # 1
  <2>1. counted' = counted /\ wpc' = [wpc EXCEPT ![v] = "wait"]
    BY <1>1, <1>4, <1>6
  <2>2. ASSUME NEW w \in Workers, w # v
        PROVE  total'[w] = total[w] /\ queue'[w] = queue[w] /\ wpc'[w] = wpc[w]
    BY <1>1, <2>1, <2>2 DEF TypeOK
  <2>3. ASSUME NEW w \in Workers, w # v, EndsFor(w) PROVE EndsFor(w)'
    BY <1>1, <1>2, <2>2, <2>3 DEF EndsFor, InHandOf, Answered
  <2>4. ASSUME EndsFor(v) PROVE EndsFor(v)'
    <3>1. /\ EndsOut \in Nat /\ Unsent \in Nat /\ InHandOf(v)' = InHandOf(v)
          /\ total[v] \in Nat /\ Len(queue[v]) \in Nat /\ InHandOf(v) \in Nat
      BY <1>1, AccountTypes DEF InHandOf
    <3>2. Answered(v) = 0 /\ Answered(v)' = 1
      BY <1>1, <2>1 DEF Answered, TypeOK
    <3>3. total'[v] = total[v] + 1 /\ Len(queue'[v]) = Len(queue[v]) - 1
      BY <1>1, <1>3 DEF TypeOK
    <3>4. 2 * total[v] + Len(queue[v]) + InHandOf(v) + EndsOut + Unsent <= MaxRetries + 0
      BY <2>4, <3>2 DEF EndsFor
    <3>5. \A t, l, i, e, u, r \in Nat :
            2 * t + l + i + e + u <= r + 0 => 2 * (t + 1) + (l - 1) + i + e + u <= r + 1
      OBVIOUS
    <3>6. 2 * (total[v] + 1) + (Len(queue[v]) - 1) + InHandOf(v) + EndsOut + Unsent
            <= MaxRetries + 1
      BY <3>1, <3>4, <3>5, BandwidthTestAssumption
    <3>. QED
      BY <1>2, <3>1, <3>2, <3>3, <3>6 DEF EndsFor
  <2>5. \A w \in Workers : w = 1 => total'[w] = total[w] /\ wpc'[w] = wpc[w]
    BY <1>6, <2>2
  <2>. QED
    BY <1>6, <2>1, <2>3, <2>4, <2>5 DEF Accounts
<1>. QED
  BY <1>5, <1>6

\* A packet that is swallowed.
LEMMA AccountsProcessRetry ==
  ASSUME TypeOK, Accounts, NEW v \in Workers, ProcessRetry(v)
  PROVE  Accounts'
<1>1. /\ UNCHANGED <<cpc, retry, toServer, inHand, total, counted>>
      /\ queue' = [queue EXCEPT ![v] = Tail(@)]
      /\ wpc[v] = "wait" /\ wpc' = [wpc EXCEPT ![v] = "main"]
  BY DEF ProcessRetry, Dequeue, clientVars, readerVars, statVars
<1>2. EndsOut' = EndsOut /\ Unsent' = Unsent
  BY <1>1 DEF EndsOut, Unsent
<1>3. \A w \in Workers : w # v => queue'[w] = queue[w] /\ wpc'[w] = wpc[w]
  BY <1>1 DEF TypeOK
<1>4. wpc'[v] = "main" /\ queue'[v] = Tail(queue[v])
  BY <1>1 DEF TypeOK
<1>5. ASSUME NEW w \in Workers, w # v, EndsFor(w) PROVE EndsFor(w)'
  BY <1>1, <1>2, <1>3, <1>5 DEF EndsFor, InHandOf, Answered
<1>6. ASSUME EndsFor(v) PROVE EndsFor(v)'
  <2>1. /\ EndsOut \in Nat /\ Unsent \in Nat /\ InHandOf(v)' = InHandOf(v)
        /\ total[v] \in Nat /\ Len(queue[v]) \in Nat /\ InHandOf(v) \in Nat
    BY <1>1, AccountTypes DEF InHandOf
  <2>2. Answered(v) = 1 /\ Answered(v)' = 0
    BY <1>1, <1>4 DEF Answered
  <2>3. Len(queue'[v]) = Len(queue[v]) - 1
    <3>1. queue[v] \in Seq(Packet) /\ queue[v] # <<>>
      BY DEF ProcessRetry, TypeOK
    <3>. QED
      BY <1>4, <3>1
  <2>4. 2 * total[v] + Len(queue[v]) + InHandOf(v) + EndsOut + Unsent <= MaxRetries + 1
    BY <1>6, <2>2 DEF EndsFor
  <2>5. \A t, l, i, e, u, r \in Nat :
          2 * t + l + i + e + u <= r + 1 => 2 * t + (l - 1) + i + e + u <= r + 0
    OBVIOUS
  <2>6. 2 * total[v] + (Len(queue[v]) - 1) + InHandOf(v) + EndsOut + Unsent <= MaxRetries + 0
    BY <2>1, <2>4, <2>5, BandwidthTestAssumption
  <2>. QED
    BY <1>1, <1>2, <2>1, <2>2, <2>3, <2>6 DEF EndsFor
<1>7. \A w \in Workers : wpc'[w] = "wait" => wpc[w] = "wait"
  BY <1>3, <1>4
<1>. QED
  BY <1>1, <1>5, <1>6, <1>7 DEF Accounts

------------------------------------------------------------------------------
(* What the client is told.                                                   *)

\* A FINAL of worker w, with the end packet in its total.
LEMMA FinalTruthful ==
  ASSUME TypeOK, NEW t \in Nat, NEW d \in Nat,
         Cardinality(counted) + 1 <= t \/ t <= MinTotal
  PROVE  Truthful(Final(t, d))
<1>1. /\ Final(t, d).total = t /\ Final(t, d).dropped = d
      /\ Final(t, d).missing = Count - 1 - Cardinality(counted)
  BY AccountTypes DEF Final
<1>2. Cardinality(counted) + 1 <= t => Count - t - d <= Count - 1 - Cardinality(counted)
  BY AccountTypes, BandwidthTestAssumption
<1>. QED
  BY <1>1, <1>2 DEF Truthful

LEMMA AnswersKept ==
  ASSUME Answers, UNCHANGED result, toClient' \subseteq toClient \cup {Stats},
         rpc' = "final" => \/ rpc = "final" /\ final' = final
                           \/ final' \in toClient /\ final'.kind = "FINAL"
  PROVE  Answers'
<1>1. Stats.kind # "FINAL"
  BY DEF Stats
<1>2. \A m \in toClient' : m.kind = "FINAL" => Truthful(m)
  BY <1>1 DEF Answers
<1>3. rpc' = "final" => Truthful(final')
  BY DEF Answers
<1>4. LossNotOverstated'
  BY DEF Answers, LossNotOverstated
<1>. QED
  BY <1>2, <1>3, <1>4 DEF Answers, Truthful

\* An answer that is sent.
LEMMA AnswersSent ==
  ASSUME TypeOK, Answers, UNCHANGED <<result, rpc, final>>,
         NEW t \in Nat, NEW d \in Nat, toClient' = toClient \cup {Final(t, d)},
         Cardinality(counted) + 1 <= t \/ t <= MinTotal
  PROVE  Answers'
<1>1. Truthful(Final(t, d))
  BY FinalTruthful
<1>2. \A m \in toClient' : m.kind = "FINAL" => Truthful(m)
  BY <1>1 DEF Answers
<1>3. LossNotOverstated' /\ (rpc' = "final" => Truthful(final'))
  BY DEF Answers, LossNotOverstated
<1>. QED
  BY <1>2, <1>3 DEF Answers, Truthful

LEMMA AnswersClient ==
  ASSUME TypeOK, Answers, Client
  PROVE  Answers'
<1>1. CASE TakeFinal
  <2>1. /\ toClient' = toClient /\ rpc' = "read" /\ rpc = "final"
        /\ \/ result' = result
           \/ final.total > MinTotal /\ result' = Success(final)
    BY <1>1 DEF TakeFinal, ParseStats, netVars
  <2>2. CASE result' = result
    BY <2>1, <2>2, AnswersKept
  <2>3. CASE final.total > MinTotal /\ result' = Success(final)
    <3>1. Truthful(final)
      BY <2>1 DEF Answers
    <3>2. final.total \in Nat
      BY DEF TypeOK, Answer
    <3>3. Count - final.total - final.dropped <= final.missing
      BY <2>3, <3>1, <3>2, BandwidthTestAssumption DEF Truthful
    <3>4. LossNotOverstated'
      BY <2>3, <3>3 DEF LossNotOverstated, Success
    <3>. QED
      BY <2>1, <3>4 DEF Answers, Truthful
  <2>. QED
    BY <2>1, <2>2, <2>3
<1>2. ASSUME NEW m \in toClient, ReceiveMessage(m) PROVE Answers'
  <2>1. /\ UNCHANGED result /\ toClient' \subseteq toClient
        /\ \/ m.kind = "FINAL" /\ rpc' = "final" /\ final' = m
           \/ UNCHANGED <<rpc, final>>
    BY <1>2 DEF ReceiveMessage, clientVars
  <2>. QED
    BY <2>1, AnswersKept
<1>3. ASSUME NEW m \in toClient, Discard(m) PROVE Answers'
  <2>1. UNCHANGED <<result, rpc, final>> /\ toClient' \subseteq toClient
    BY <1>3 DEF Discard, clientVars, receiverVars
  <2>. QED
    BY <2>1, AnswersKept
<1>4. CASE SendPacket \/ SendEndOfTest \/ TakeError \/ RetryTimer \/ Drain \/ Cleanup \/ ReceiveEnds
  <2>1. /\ UNCHANGED <<result, final, toClient>>
        /\ rpc' = rpc \/ rpc' \in {"gone", "error", "read"}
    BY <1>4 DEF SendPacket, SendEndOfTest, TakeError, RetryTimer, Drain, Cleanup, ReceiveEnds,
       receiverVars, netVars, clientVars
  <2>. QED
    BY <2>1, AnswersKept
<1>. QED
  BY <1>1, <1>2, <1>3, <1>4 DEF Client

LEMMA AnswersNetwork ==
  ASSUME Answers, Lose \/ GoDown \/ Tick
  PROVE  Answers'
<1>1. ASSUME NEW p \in toServer, LosePacket(p) PROVE Answers'
  <2>1. UNCHANGED <<result, final, toClient>> /\ (rpc' = rpc \/ rpc' = "error")
    BY <1>1 DEF LosePacket, clientVars
  <2>. QED
    BY <2>1, AnswersKept
<1>2. ASSUME NEW m \in toClient, LoseAnswer(m) PROVE Answers'
  <2>1. UNCHANGED <<result, rpc, final>> /\ toClient' \subseteq toClient
    BY <1>2 DEF LoseAnswer, clientVars, receiverVars
  <2>. QED
    BY <2>1, AnswersKept
<1>3. CASE GoDown \/ Tick
  <2>1. UNCHANGED <<result, rpc, final, toClient>>
    BY <1>3 DEF GoDown, Tick, clientVars, receiverVars, netVars
  <2>. QED
    BY <2>1, AnswersKept
<1>. QED
  BY <1>1, <1>2, <1>3 DEF Lose

\* A worker other than the first has counted too little.
LEMMA TooLittle ==
  ASSUME WorkersOutlastTest, NEW t \in Nat, NEW l \in Nat, NEW i \in Nat, NEW e \in Nat,
         NEW u \in Nat, 2 * t + l + i + e + u <= MaxRetries + 1
  PROVE  t <= MinTotal
<1>1. MaxRetries <= 2 * MinTotal /\ MaxRetries \in Nat /\ MinTotal \in Nat
  BY BandwidthTestAssumption DEF WorkersOutlastTest
<1>2. 2 * t <= MaxRetries + 1
  BY <1>1
<1>. QED
  BY <1>1, <1>2

LEMMA AnswersServer ==
  ASSUME TypeOK, Patient, Accounts, Answers, WorkersOutlastTest, Serve
  PROVE  Answers'
<1>1. CASE Enqueue \/ (\E p \in toServer : ProcessPacket(p))
           \/ (\E w \in Workers : SendStats(w) \/ Expire(w))
  <2>1. UNCHANGED <<result, rpc, final>> /\ toClient' \subseteq toClient \cup {Stats}
    BY <1>1 DEF Enqueue, ProcessPacket, SendStats, Expire, clientVars, receiverVars, netVars
  <2>. QED
    BY <2>1, AnswersKept
<1>2. ASSUME NEW w \in Workers, w # 1, wpc[w] \in {"main", "wait"}, EndsFor(w)
      PROVE  total[w] <= MinTotal /\ (wpc[w] = "main" /\ queue[w] # <<>> => total[w] + 1 <= MinTotal)
  <2>1. /\ EndsOut \in Nat /\ Unsent \in Nat /\ InHandOf(w) \in Nat
        /\ total[w] \in Nat /\ Len(queue[w]) \in Nat
        /\ Answered(w) = IF wpc[w] = "wait" THEN 1 ELSE 0
    BY <1>2, AccountTypes DEF Answered
  <2>2. 2 * total[w] + Len(queue[w]) + InHandOf(w) + EndsOut + Unsent <= MaxRetries + Answered(w)
    BY <1>2 DEF EndsFor
  <2>3. total[w] <= MinTotal
    <3>1. 2 * total[w] + Len(queue[w]) + InHandOf(w) + EndsOut + Unsent <= MaxRetries + 1
      <4>1. PICK s \in Nat : s = 2 * total[w] + Len(queue[w]) + InHandOf(w) + EndsOut + Unsent
        BY <2>1
      <4>2. s <= MaxRetries + Answered(w)
        BY <2>2, <4>1
      <4>3. s <= MaxRetries + 1
        BY <2>1, <4>2, BandwidthTestAssumption
      <4>. QED
        BY <4>1, <4>3
    <3>. QED
      BY <2>1, <3>1, TooLittle
  <2>4. ASSUME wpc[w] = "main", queue[w] # <<>> PROVE total[w] + 1 <= MinTotal
    <3>1. Len(queue[w]) >= 1
      <4>1. queue[w] \in Seq(Packet)
        BY DEF TypeOK
      <4>. QED
        BY <2>4, <4>1
    <3>2. 2 * total[w] + Len(queue[w]) + InHandOf(w) + EndsOut + Unsent <= MaxRetries + 0
      BY <2>1, <2>2, <2>4
    <3>3. \A t, l, i, e, u, r \in Nat :
            l >= 1 /\ 2 * t + l + i + e + u <= r + 0 => 2 * (t + 1) + 0 + 0 + 0 + 0 <= r + 1
      OBVIOUS
    <3>4. 2 * (total[w] + 1) + 0 + 0 + 0 + 0 <= MaxRetries + 1
      BY <2>1, <3>1, <3>2, <3>3, BandwidthTestAssumption
    <3>5. total[w] + 1 \in Nat
      BY <2>1
    <3>. QED
      BY <3>4, <3>5, TooLittle
  <2>. QED
    BY <2>3, <2>4
<1>3. ASSUME NEW w \in Workers, ProcessRetry(w) PROVE Answers'
  <2>1. /\ UNCHANGED <<result, rpc, final>> /\ wpc[w] = "wait"
        /\ \/ toClient' = toClient
           \/ toClient' = toClient \cup {Final(total[w], dropped[w])}
    BY <1>3 DEF ProcessRetry, clientVars, receiverVars
  <2>2. total[w] \in Nat /\ dropped[w] \in Nat
    BY DEF TypeOK
  <2>3. Cardinality(counted) + 1 <= total[w] \/ total[w] <= MinTotal
    BY <1>2, <2>1 DEF Accounts
  <2>4. CASE toClient' = toClient
    BY <2>1, <2>4, AnswersKept
  <2>5. CASE toClient' = toClient \cup {Final(total[w], dropped[w])}
    BY <2>1, <2>2, <2>3, <2>5, AnswersSent
  <2>. QED
    BY <2>1, <2>4, <2>5
<1>4. ASSUME NEW w \in Workers, Process(w) PROVE Answers'
  <2>1. /\ UNCHANGED <<result, rpc, final>> /\ wpc[w] = "main" /\ queue[w] # <<>>
        /\ total' = [total EXCEPT ![w] = @ + 1]
        /\ \/ toClient' = toClient
           \/ toClient' = toClient \cup {Final(total'[w], dropped'[w])}
    BY <1>4 DEF Process, UpdateStats, clientVars, receiverVars
  <2>2. /\ total[w] \in Nat /\ total'[w] = total[w] + 1 /\ dropped'[w] \in Nat
    <3>1. Head(queue[w]) \in Packet /\ UpdateStats(w, Head(queue[w])) /\ WorkerOK
      BY <1>4, TypeParts, HeadTailTypes DEF Process, TypeOK
    <3>2. dropped' \in [Workers -> Nat]
      BY <3>1, UpdateStatsTypes DEF StatsOK
    <3>. QED
      BY <2>1, <3>2 DEF TypeOK
  <2>3. Cardinality(counted) + 1 <= total[w] + 1 \/ total[w] + 1 <= MinTotal
    <3>1. CASE w = 1
      BY <2>2, <3>1, AccountTypes DEF Accounts
    <3>2. CASE w # 1
      BY <1>2, <2>1, <3>2 DEF Accounts
    <3>. QED
      BY <3>1, <3>2
  <2>4. PICK t \in Nat, d \in Nat : t = total'[w] /\ d = dropped'[w]
    BY <2>2
  <2>5. Cardinality(counted) + 1 <= t \/ t <= MinTotal
    BY <2>2, <2>3, <2>4
  <2>6. CASE toClient' = toClient
    BY <2>1, <2>6, AnswersKept
  <2>7. CASE toClient' = toClient \cup {Final(total'[w], dropped'[w])}
    BY <2>1, <2>4, <2>5, <2>7, AnswersSent
  <2>. QED
    BY <2>1, <2>6, <2>7
<1>. QED
  BY <1>1, <1>3, <1>4 DEF Serve

LEMMA PatientStep ==
  ASSUME TypeOK, EntryInv, Patient, WorkersOutlastTest, Next
  PROVE  Patient'
<1>1. CASE SendPacket
  BY <1>1, PatientSendPacket
<1>2. CASE SendEndOfTest
  <2>1. /\ UNCHANGED <<inHand, made, wpc, queue, timeout, cleanup, delays>>
        /\ toServer' \subseteq toServer \cup Ends /\ cpc' # "send"
    BY <1>2, BandwidthTestAssumption DEF SendEndOfTest, ReturnError, Ends, TypeOK, serverVars,
       readerVars, workerVars, timerVars, lossVars
  <2>. QED
    BY <2>1, FinitePackets, PatientClient
<1>3. CASE \/ TakeFinal \/ TakeError \/ RetryTimer \/ Drain \/ Cleanup \/ ReceiveEnds
           \/ \E m \in toClient : ReceiveMessage(m) \/ Discard(m)
  <2>1. UNCHANGED <<inHand, made, wpc, queue, timeout, cleanup, delays, toServer>>
    BY <1>3 DEF TakeFinal, TakeError, RetryTimer, Drain, Cleanup, ReceiveEnds, ReceiveMessage,
       Discard, netVars, serverVars, readerVars, workerVars, timerVars, lossVars
  <2>2. cpc' = "send" => UNCHANGED <<cpc, retry, sleep, seq>>
    BY <1>3 DEF TakeFinal, TakeError, RetryTimer, Drain, Cleanup, ReceiveEnds, ReceiveMessage,
       Discard, NextRetry, ReturnError, clientVars
  <2>. QED
    BY <2>1, <2>2, PatientClient
<1>4. CASE Lose \/ GoDown \/ \E w \in Workers : SendStats(w)
  <2>1. /\ UNCHANGED <<inHand, made, wpc, queue, timeout, cleanup, delays>>
        /\ UNCHANGED <<cpc, retry, sleep, seq>> /\ toServer' \subseteq toServer
    BY <1>4 DEF Lose, LosePacket, LoseAnswer, GoDown, SendStats, netVars, serverVars, readerVars,
       workerVars, timerVars, lossVars, clientVars
  <2>. QED
    BY <2>1, PatientClient
<1>5. CASE Tick
  BY <1>5, PatientTick
<1>6. CASE Enqueue
  BY <1>6, PatientEnqueue
<1>7. CASE \E p \in toServer : ProcessPacket(p)
  BY <1>7, PatientProcessPacket
<1>8. CASE \E w \in Workers : Expire(w)
  BY <1>8, PatientExpire
<1>9. CASE \E w \in Workers : Process(w) \/ ProcessRetry(w)
  BY <1>9, PatientProcess
<1>. QED
  BY <1>1, <1>2, <1>3, <1>4, <1>5, <1>6, <1>7, <1>8, <1>9 DEF Next, Client, Serve

LEMMA LossInvInit ==
  ASSUME Init, WorkersOutlastTest
  PROVE  LossInv
<1>1. /\ cpc = "send" /\ seq = 1 /\ retry = 0 /\ sleep = 0 /\ inHand = <<>> /\ made = 0
      /\ toServer = {} /\ toClient = {} /\ rpc = "read" /\ counted = {} /\ result = NoResult
  BY DEF Init
<1>2. \A w \in Workers : wpc[w] = "none" /\ queue[w] = <<>> /\ total[w] = 0
  BY DEF Init
<1>3. \A K : ~Around(K)
  BY <1>1, <1>2 DEF Around, Alive
<1>4. Left \in 0..Duration
  <2>1. At(Count - 1) \in 0..Duration /\ At(0) = 0
    BY TargetTimes, BandwidthTestAssumption
  <2>. QED
    BY <1>1, <2>1, BandwidthTestAssumption DEF Left
<1>5. Patient
  BY <1>1, <1>2, <1>3, <1>4, BandwidthTestAssumption
  DEF Patient, Sending, Arriving, FirstWorker, Alive, Workers
<1>6. Accounts
  <2>1. Cardinality({}) = 0
    BY FS_EmptySet
  <2>2. EndsOut = 0 /\ Unsent = MaxRetries
    BY <1>1, <2>1 DEF EndsOut, Unsent
  <2>3. \A w \in Workers : InHandOf(w) = 0 /\ Answered(w) = 0 /\ Len(queue[w]) = 0
    BY <1>1, <1>2 DEF InHandOf, Answered
  <2>4. \A w \in Workers : EndsFor(w)
    BY <1>2, <2>2, <2>3, BandwidthTestAssumption DEF EndsFor
  <2>. QED
    BY <1>1, <1>2, <2>1, <2>4 DEF Accounts
<1>7. Answers
  BY <1>1 DEF Answers, LossNotOverstated, NoResult
<1>. QED
  BY <1>5, <1>6, <1>7 DEF LossInv

LEMMA LossInvStep ==
  ASSUME TypeOK, TypeOK', EntryInv, LossInv, WorkersOutlastTest, [Next]_vars
  PROVE  LossInv'
<1>1. Patient /\ Accounts /\ Answers
  BY DEF LossInv
<1>2. CASE Next
  <2>1. Patient'
    BY <1>1, <1>2, PatientStep
  <2>2. Accounts'
    <3>1. CASE Serve
      BY <1>1, <2>1, <3>1, AccountsProcessPacket, AccountsEnqueue, AccountsExpire,
         AccountsProcess, AccountsProcessRetry, AccountsNetwork DEF Serve
    <3>. QED
      BY <1>1, <1>2, <3>1, AccountsClient, AccountsNetwork DEF Next
  <2>3. Answers'
    BY <1>1, <1>2, AnswersClient, AnswersServer, AnswersNetwork DEF Next
  <2>. QED
    BY <2>1, <2>2, <2>3 DEF LossInv
<1>3. CASE UNCHANGED vars
  <2>1. UNCHANGED <<cpc, seq, retry, sleep, result, rpc, final, toServer, toClient, inHand, made,
                    wpc, queue, total, counted, timeout, cleanup, delays>>
    BY <1>3 DEF vars, clientVars, receiverVars, netVars, serverVars, readerVars, workerVars,
       statVars, timerVars, lossVars
  <2>2. Patient'
    BY <1>1, <2>1, PatientClient
  <2>3. EndsOut' = EndsOut /\ Unsent' = Unsent
    BY <2>1 DEF EndsOut, Unsent
  <2>4. EndsOut \in Nat /\ Unsent \in Nat /\ EndsOut + Unsent <= EndsOut + Unsent
    BY AccountTypes
  <2>5. Accounts'
    BY <1>1, <2>1, <2>3, <2>4, AccountsKept
  <2>6. Answers'
    BY <1>1, <2>1, AnswersKept
  <2>. QED
    BY <2>2, <2>5, <2>6 DEF LossInv
<1>. QED
  BY <1>2, <1>3

\* A result never shows more packets lost than the server had failed to count
\* (client.go, parseStats; server.go, clientWorker), for any number of packets,
\* timers, losses and delays, if the timers outlast the test and its attempts to end
\* it are few: all data packets then meet the first worker, and any later one,
\* which knows only end packets, has too little to say for a result.
THEOREM LossNotOverstatedHolds == WorkersOutlastTest /\ Spec => []LossNotOverstated
<1>. SUFFICES ASSUME WorkersOutlastTest PROVE Spec => []LossNotOverstated
  OBVIOUS
<1>1. Init => EntryInv /\ LossInv
  BY LossInvInit, EntryInit
<1>2. TypeOK /\ TypeOK' /\ EntryInv /\ LossInv /\ [Next]_vars => EntryInv' /\ LossInv'
  BY LossInvStep, EntryStep
<1>3. LossInv => LossNotOverstated
  BY DEF LossInv, Answers
<1>. QED
  BY <1>1, <1>2, <1>3, TypeCorrect, PTL DEF Spec
------------------------------------------------------------------------------
(* A test that one loss does not spoil.                                       *)

\* The timers of the receiver and of the workers outlast the test and the first
\* retry, there is a retry, and a pause after each of the last two data packets
\* keeps the end packet from overtaking more than the last of them.
RetryInTime ==
  /\ Duration + RetryDelay < Timeout
  /\ Duration + RetryDelay < 3 * StatsInterval
  /\ MaxRetries >= 2
  /\ MinTotal <= Count - 2
  /\ \A n \in Data : n >= Count - 2 => Gap(n) > 0

\* Data packets enough may arrive, and one message at most went astray.
Good == Enough /\ Unheard <= 1

\* Units until the first retry is sent, unless the answer comes before.
Due ==
  IF cpc = "send" THEN Left + RetryDelay
  ELSE IF cpc = "await" /\ retry = 0 THEN sleep ELSE 0

\* Packets on their way to a worker's statistics.
InHand == {p \in Packet : inHand # <<>> /\ inHand[1] = p}
Queued ==
  {p \in Packet : \E w \in Workers : Alive(w) /\ \E i \in 1..Len(queue[w]) : queue[w][i] = p}
Transit == toServer \cup InHand \cup Queued

\* An answer that is due will come.
Coming ==
  \/ Transit \cap Ends # {}
  \/ \E m \in toClient : m.kind = "FINAL"
  \/ rpc = "final"

\* No worker ends, so there is only the first.
OneWorker ==
  /\ made <= 1
  /\ \A w \in Workers : Alive(w) <=> w = 1 /\ made = 1
  /\ inHand # <<>> => inHand[2] = 1 /\ made = 1
  /\ \A w \in Workers : w > made => queue[w] = <<>>

Lasting ==
  /\ rpc \in {"read", "final"} /\ deadline > Due
  /\ \A w \in Workers : /\ wpc[w] = "main" => timeout[w] > Due
                        /\ wpc[w] = "wait" => cleanup[w] > Due

\* Time passes before an answer comes only if a message went astray; the answer
\* to the retry comes at once.
Attempts ==
  /\ cpc = "send" => /\ retry = 0 /\ Left \in 0..Duration
                     /\ Transit \cap Ends = {}
                     /\ \A w \in Workers : wpc[w] # "wait"
  /\ retry <= 1
  /\ cpc = "end" => retry = 1
  /\ retry = 1 => Unheard = 1
  /\ cpc = "await" =>
       /\ sleep <= RetryDelay
       /\ sleep < RetryDelay => retry = 0 /\ Unheard = 1
       /\ retry = 1 \/ Unheard = 0 => Coming

\* No packet is sent twice.
Sent == 1..(seq - 1) \cup Count..(Count + retry - (IF cpc = "await" THEN 0 ELSE 1))
Once ==
  /\ toServer \cap lostPackets = {}
  /\ toServer \cup lostPackets \subseteq Sent

\* All data packets but the last have been counted or lost when the end packet is sent.
Arrives ==
  IF cpc = "send"
  THEN /\ Transit \subseteq 1..(seq - 1)
       /\ 1..(seq - 1) \subseteq counted \cup lostPackets \cup Transit
       /\ seq > 1 =>
            /\ sleep <= Gap(seq - 1)
            /\ seq = Count - 1 /\ sleep < Gap(seq - 1) => delays = 1 \/ Transit = {}
            /\ seq = Count => \/ delays = 1 /\ sleep = Gap(seq - 1)
                              \/ Transit \subseteq {Count - 1}
            /\ seq = Count /\ sleep < Gap(seq - 1) => delays = 1 \/ Transit = {}
  ELSE Cardinality(counted) >= MinTotal

\* Every answer shows enough packets for a result.
Told ==
  /\ \A w \in Workers : /\ w = 1 => Cardinality(counted) <= total[w]
                        /\ wpc[w] = "wait" => total[w] > MinTotal
  /\ \A m \in toClient : m.kind = "FINAL" => m.total > MinTotal
  /\ rpc = "final" => final.total > MinTotal

Undisturbed == OneWorker /\ Lasting /\ Attempts /\ Once /\ Arrives /\ Told
Hears == Good => IF Open THEN Undisturbed ELSE result.status = 1

\* Losses and delays are counted.
LEMMA GoodCounts ==
  ASSUME TypeOK
  PROVE  /\ Unheard \in Nat /\ Cardinality(Ends \cap lostPackets) \in Nat
         /\ IsFiniteSet(Ends \cap lostPackets) /\ lostAnswers \in Nat /\ delays \in Nat
         /\ IsFiniteSet(Data \ lostPackets) /\ Cardinality(Data \ lostPackets) \in Nat
<1>1. IsFiniteSet(Ends \cap lostPackets) /\ IsFiniteSet(Data \ lostPackets)
  BY FinitePackets, FS_Subset, FS_Difference
<1>2. Cardinality(Ends \cap lostPackets) \in Nat /\ Cardinality(Data \ lostPackets) \in Nat
  BY <1>1, FS_CardinalityType
<1>3. lostAnswers \in Nat /\ delays \in Nat
  BY BandwidthTestAssumption DEF TypeOK
<1>. QED
  BY <1>1, <1>2, <1>3 DEF Unheard

\* What happened to the messages before was no worse.
LEMMA GoodBefore ==
  ASSUME TypeOK, TypeOK', Good', lostPackets \subseteq lostPackets',
         lostAnswers' >= lostAnswers, delays' >= delays, down => down'
  PROVE  Good /\ Unheard <= Unheard'
<1> DEFINE L == lostPackets'
<1>1. /\ IsFiniteSet(Ends \cap L) /\ IsFiniteSet(Data \ lostPackets)
      /\ Cardinality(Ends \cap L) \in Nat /\ Cardinality(Data \ L) \in Nat
      /\ lostAnswers' \in Nat /\ delays' \in Nat
  <2>1. IsFiniteSet(Ends \cap L) /\ IsFiniteSet(Data \ lostPackets) /\ IsFiniteSet(Data \ L)
    BY FinitePackets, FS_Subset, FS_Difference
  <2>2. lostAnswers' \in Nat /\ delays' \in Nat
    BY BandwidthTestAssumption DEF TypeOK
  <2>. QED
    BY <2>1, <2>2, FS_CardinalityType
<1>2. Cardinality(Ends \cap lostPackets) <= Cardinality(Ends \cap L)
  <2>1. Ends \cap lostPackets \subseteq Ends \cap L
    OBVIOUS
  <2>. QED
    BY <1>1, <2>1, FS_Subset
<1>3. Cardinality(Data \ L) <= Cardinality(Data \ lostPackets)
  <2>1. Data \ L \subseteq Data \ lostPackets
    OBVIOUS
  <2>. QED
    BY <1>1, <2>1, FS_Subset
<1>4. Unheard' = Cardinality(Ends \cap L) + lostAnswers' + delays'
  BY DEF Unheard
<1>5. /\ ~down' /\ Cardinality(Data \ L) >= MinTotal
      /\ delays' > 0 => L \subseteq Ends
      /\ Unheard' <= 1
  BY DEF Good, Enough
<1>6. PICK c \in Nat, d \in Nat : c = Cardinality(Ends \cap L) /\ d = Cardinality(Data \ L)
  BY <1>1
<1>7. /\ Cardinality(Ends \cap lostPackets) \in Nat /\ lostAnswers \in Nat /\ delays \in Nat
      /\ Cardinality(Data \ lostPackets) \in Nat
  BY GoodCounts
<1>8. PICK la \in Nat, de \in Nat : la = lostAnswers' /\ de = delays'
  BY <1>1
<1>9. Unheard <= c + la + de /\ Unheard' = c + la + de
  BY <1>2, <1>4, <1>6, <1>7, <1>8 DEF Unheard
<1>10. Enough
  <2>1. Cardinality(Data \ lostPackets) >= MinTotal
    BY <1>3, <1>5, <1>6, <1>7, BandwidthTestAssumption
  <2>2. delays > 0 => lostPackets \subseteq Ends
    BY <1>5, <1>7, <1>8
  <2>. QED
    BY <1>5, <2>1, <2>2 DEF Enough
<1>. QED
  BY <1>5, <1>7, <1>8, <1>9, <1>6, <1>10, GoodCounts DEF Good

\* What a message that comes or goes changes.
LEMMA TransitMoves ==
  ASSUME UNCHANGED <<inHand, wpc, queue>>
  PROVE  /\ toServer' = toServer => Transit' = Transit
         /\ \A p : toServer' = toServer \cup {p} => Transit' = Transit \cup {p}
         /\ \A p : toServer' = toServer \ {p} => /\ Transit' \subseteq Transit
                                                 /\ Transit \subseteq Transit' \cup {p}
<1>1. InHand' = InHand /\ Queued' = Queued
  BY DEF InHand, Queued, Alive
<1>. QED
  BY <1>1 DEF Transit

\* A closed test keeps its result.
LEMMA HearsClosed ==
  ASSUME ~Open, Next
  PROVE  ~Open' /\ result' = result
<1>1. CASE Client
  BY <1>1 DEF Client, SendPacket, SendEndOfTest, TakeFinal, TakeError, RetryTimer, Drain, Cleanup,
     ReceiveEnds, ReceiveMessage, Discard, Open, clientVars
<1>2. CASE Serve
  BY <1>2 DEF Serve, Enqueue, ProcessPacket, SendStats, Expire, Process, ProcessRetry, Open,
     clientVars
<1>3. CASE Lose \/ GoDown \/ Tick
  BY <1>3 DEF Lose, LosePacket, LoseAnswer, GoDown, Tick, Open, clientVars
<1>. QED
  BY <1>1, <1>2, <1>3 DEF Next

\* The units that are left.
LEMMA DueTypes ==
  ASSUME TypeOK, Attempts, Open
  PROVE  /\ Due \in Nat /\ Due <= Duration + RetryDelay
         /\ cpc = "send" => Left \in Nat /\ Due = Left + RetryDelay
         /\ cpc # "send" => Due <= RetryDelay
<1>1. RetryDelay \in Nat /\ Duration \in Nat /\ sleep \in Nat
  BY BandwidthTestAssumption DEF TypeOK
<1>2. CASE cpc = "send"
  <2>1. Left \in 0..Duration
    BY <1>2 DEF Attempts
  <2>. QED
    BY <1>1, <1>2, <2>1 DEF Due
<1>3. CASE cpc = "await" /\ retry = 0
  BY <1>1, <1>3 DEF Due, Attempts
<1>4. CASE cpc # "send" /\ ~(cpc = "await" /\ retry = 0)
  BY <1>1, <1>4 DEF Due
<1>. QED
  BY <1>2, <1>3, <1>4

\* The client takes an answer.
LEMMA HearsTakeFinal ==
  ASSUME TypeOK, Undisturbed, TakeFinal
  PROVE  result'.status = 1
<1>1. rpc = "final" /\ ParseStats(final) /\ final.total > MinTotal /\ final.total \in Nat
  BY DEF TakeFinal, Undisturbed, Told, TypeOK, Answer
<1>2. result' = Success(final)
  BY <1>1, BandwidthTestAssumption DEF ParseStats
<1>. QED
  BY <1>2 DEF Success

\* It hears nothing before the first retry is due.
LEMMA HearsRetryTimer ==
  ASSUME TypeOK, RetryInTime, Undisturbed, Good, RetryTimer
  PROVE  Undisturbed'
<1>1. /\ cpc = "await" /\ sleep = 0
      /\ UNCHANGED <<seq, sleep, result, rpc, final, deadline, toServer, toClient, inHand, made,
                     wpc, queue, total, counted, timeout, cleanup, lostPackets, lostAnswers, delays>>
  BY DEF RetryTimer, receiverVars, netVars, serverVars, readerVars, workerVars, statVars,
     timerVars, lossVars
<1>2. retry = 0 /\ Unheard = 1
  BY <1>1, BandwidthTestAssumption DEF Undisturbed, Attempts
<1>3. cpc' = "end" /\ retry' = 1
  BY <1>2, BandwidthTestAssumption DEF RetryTimer, NextRetry, RetryInTime
<1>4. Transit' = Transit /\ Unheard' = 1
  BY <1>1, <1>2, TransitMoves DEF Unheard
<1>5. Due = 0 /\ Due' = 0
  BY <1>1, <1>2, <1>3 DEF Due
<1>6. OneWorker'
  BY <1>1 DEF Undisturbed, OneWorker, Alive
<1>7. Lasting'
  BY <1>1, <1>5 DEF Undisturbed, Lasting
<1>8. Attempts'
  BY <1>3, <1>4 DEF Attempts
<1>9. Once'
  <2>1. Sent' = Sent
    BY <1>1, <1>2, <1>3, BandwidthTestAssumption DEF Sent
  <2>. QED
    BY <1>1, <2>1 DEF Undisturbed, Once
<1>10. Arrives' /\ Told'
  BY <1>1, <1>3 DEF Undisturbed, Arrives, Told
<1>. QED
  BY <1>6, <1>7, <1>8, <1>9, <1>10 DEF Undisturbed

\* The receiver goes on, and hands over what it gets.
LEMMA HearsReceiveMessage ==
  ASSUME TypeOK, TypeOK', RetryInTime, Undisturbed, Good, NEW m \in toClient, ReceiveMessage(m)
  PROVE  Undisturbed'
<1>1. /\ Open /\ rpc = "read" /\ toClient' = toClient \ {m}
      /\ \/ m.kind = "FINAL" /\ rpc' = "final" /\ final' = m /\ deadline' = deadline
         \/ m.kind = "STATS" /\ deadline' = 3 * StatsInterval /\ rpc' = rpc /\ final' = final
      /\ UNCHANGED <<cpc, seq, retry, sleep, result, toServer, inHand, made,
                     wpc, queue, total, counted, timeout, cleanup, lostPackets, lostAnswers, delays>>
  BY DEF ReceiveMessage, clientVars, serverVars, readerVars, workerVars, statVars,
     timerVars, lossVars
<1>2. Transit' = Transit /\ Unheard' = Unheard /\ Due' = Due /\ Left' = Left
  BY <1>1, TransitMoves DEF Unheard, Due, Left
<1>3. Coming => Coming'
  BY <1>1, <1>2 DEF Coming
<1>4. OneWorker'
  BY <1>1 DEF Undisturbed, OneWorker, Alive
<1>5. Lasting'
  <2>1. /\ Due \in Nat /\ Due <= Duration + RetryDelay
        /\ Duration + RetryDelay < 3 * StatsInterval
        /\ Duration \in Nat /\ RetryDelay \in Nat /\ StatsInterval \in Nat
    BY <1>1, DueTypes, BandwidthTestAssumption DEF Undisturbed, RetryInTime
  <2>2. deadline' > Due
    BY <1>1, <2>1 DEF Undisturbed, Lasting
  <2>3. rpc' \in {"read", "final"}
    BY <1>1
  <2>. QED
    BY <1>1, <1>2, <2>2, <2>3 DEF Undisturbed, Lasting
<1>6. Attempts'
  BY <1>1, <1>2, <1>3 DEF Undisturbed, Attempts
<1>7. Once'
  BY <1>1 DEF Undisturbed, Once, Sent
<1>8. Arrives'
  BY <1>1, <1>2 DEF Undisturbed, Arrives, Gap
<1>9. Told'
  <2>1. \A w \in Workers : /\ w = 1 => Cardinality(counted') <= total'[w]
                           /\ wpc'[w] = "wait" => total'[w] > MinTotal
    BY <1>1 DEF Undisturbed, Told
  <2>2. /\ \A n \in toClient' : n.kind = "FINAL" => n.total > MinTotal
        /\ rpc' = "final" => final'.total > MinTotal
    BY <1>1 DEF Undisturbed, Told
  <2>. QED
    BY <2>1, <2>2 DEF Told
<1>. QED
  BY <1>4, <1>5, <1>6, <1>7, <1>8, <1>9 DEF Undisturbed

\* Nothing runs out and nobody gives up.
LEMMA HearsNoEnd ==
  ASSUME TypeOK, Undisturbed, Good, Open
  PROVE  /\ ~TakeError /\ ~Drain /\ ~Cleanup /\ ~ReceiveEnds
         /\ \A m \in toClient : ~Discard(m)
         /\ \A w \in Workers : ~Expire(w)
<1>1. Due \in Nat
  BY DueTypes DEF Undisturbed
<1>2. /\ rpc \in {"read", "final"} /\ deadline # 0 /\ ~down
      /\ \A w \in Workers : /\ wpc[w] = "main" => timeout[w] # 0
                            /\ wpc[w] = "wait" => cleanup[w] # 0
  BY <1>1 DEF Undisturbed, Lasting, Good, Enough
<1>3. cpc \notin {"cleanup", "done"}
  BY DEF Open
<1>4. ~TakeError /\ ~Drain /\ ~Cleanup
  BY <1>2, <1>3 DEF TakeError, Drain, Cleanup
<1>5. ~ReceiveEnds
  BY <1>2, <1>3 DEF ReceiveEnds
<1>6. \A m \in toClient : ~Discard(m)
  BY <1>2 DEF Discard
<1>7. \A w \in Workers : ~Expire(w)
  BY <1>2 DEF Expire
<1>. QED
  BY <1>4, <1>5, <1>6, <1>7

\* The next data packet.
LEMMA HearsSendPacket ==
  ASSUME TypeOK, TypeOK', RetryInTime, Undisturbed, Good, Good', SendPacket
  PROVE  Undisturbed'
<1>1. rpc # "error" /\ cpc = "send" /\ retry = 0 /\ sleep = 0
  BY DEF SendPacket, Undisturbed, Lasting, Attempts
<1>2. /\ seq < Count /\ toServer' = toServer \cup {seq}
      /\ seq' = seq + 1 /\ sleep' = Gap(seq)
      /\ UNCHANGED <<cpc, retry, rpc, final, deadline, toClient, inHand, made,
                     wpc, queue, total, counted, timeout, cleanup, lostPackets, lostAnswers, delays>>
  BY <1>1 DEF SendPacket, serverVars, readerVars, workerVars, statVars, timerVars, lossVars
<1>3. seq \in Data /\ seq \in 1..(Count - 1) /\ seq \notin Ends
  <2>1. seq \in 1..(Count - 1)
    BY <1>2, BandwidthTestAssumption DEF TypeOK
  <2>. QED
    BY <2>1, FinitePackets DEF Data
<1>4. Transit' = Transit \cup {seq} /\ Unheard' = Unheard
  BY <1>2, TransitMoves DEF Unheard
<1>5. Left' = Left
  <2>1. /\ Gap(seq) = At(seq) - At(seq - 1) /\ Gap(seq) \in Nat
    BY <1>3, GapIsTime
  <2>2. At(seq) \in Nat /\ At(seq - 1) \in Nat /\ At(Count - 1) \in Nat
    BY <1>3, TargetTimes, BandwidthTestAssumption
  <2>3. seq' - 1 = seq
    BY <1>2, <1>3
  <2>4. Left' = Gap(seq) + At(Count - 1) - At(seq)
    BY <1>2, <2>3 DEF Left
  <2>. QED
    BY <1>1, <2>1, <2>2, <2>4 DEF Left
<1>6. Due' = Due
  BY <1>1, <1>2, <1>5 DEF Due
<1>7. OneWorker' /\ Lasting'
  BY <1>2, <1>6 DEF Undisturbed, OneWorker, Lasting, Alive
<1>8. Attempts'
  BY <1>1, <1>2, <1>3, <1>4, <1>5 DEF Undisturbed, Attempts
<1>9. Once'
  <2>1. Sent' = Sent \cup {seq} /\ seq \notin Sent
    <3>1. Sent = 1..(seq - 1) /\ Sent' = 1..seq
      BY <1>1, <1>2, <1>3, BandwidthTestAssumption DEF Sent
    <3>. QED
      BY <1>3, <3>1
  <2>. QED
    BY <1>2, <2>1 DEF Undisturbed, Once
<1>10. Arrives'
  <2>1. Transit' \subseteq 1..(seq' - 1)
    BY <1>1, <1>2, <1>3, <1>4 DEF Undisturbed, Arrives
  <2>2. 1..(seq' - 1) \subseteq counted' \cup lostPackets' \cup Transit'
    BY <1>1, <1>2, <1>3, <1>4 DEF Undisturbed, Arrives
  <2>3. seq' - 1 = seq /\ Gap(seq) \in Nat
    BY <1>2, <1>3, GapIsTime
  <2>4. seq' = Count => Transit' \subseteq {Count - 1} \/ (delays = 1 /\ sleep' = Gap(seq))
    <3>1. SUFFICES ASSUME seq + 1 = Count PROVE Transit' \subseteq {Count - 1} \/ delays = 1
      BY <1>2
    <3>2. CASE seq = 1
      <4>1. Transit \subseteq 1..0
        BY <1>1, <3>2 DEF Undisturbed, Arrives
      <4>. QED
        BY <1>3, <1>4, <3>1, <4>1
    <3>3. CASE seq > 1
      <4>1. seq = Count - 1 /\ seq - 1 \in Data /\ seq - 1 >= Count - 2
        BY <1>3, <3>1, <3>3, BandwidthTestAssumption DEF Data
      <4>2. sleep < Gap(seq - 1)
        BY <1>1, <4>1 DEF RetryInTime
      <4>3. delays = 1 \/ Transit = {}
        BY <1>1, <3>3, <4>1, <4>2 DEF Undisturbed, Arrives
      <4>. QED
        BY <1>4, <4>1, <4>3
    <3>. QED
      BY <1>3, <3>2, <3>3
  <2>. QED
    BY <1>1, <1>2, <2>1, <2>2, <2>3, <2>4 DEF Arrives
<1>11. Told'
  BY <1>2 DEF Undisturbed, Told
<1>. QED
  BY <1>7, <1>8, <1>9, <1>10, <1>11 DEF Undisturbed

\* The end packet is sent when enough has been counted.
LEMMA EnoughCounted ==
  ASSUME TypeOK, RetryInTime, Undisturbed, Good, cpc = "send", sleep = 0, seq = Count
  PROVE  Cardinality(counted) >= MinTotal
<1>1. /\ Transit \subseteq Data /\ Data \subseteq counted \cup lostPackets \cup Transit
      /\ Count - 1 \in Nat /\ MinTotal \in Nat /\ MinTotal <= Count - 2
  BY BandwidthTestAssumption DEF Undisturbed, Arrives, Data, RetryInTime
<1>2. IsFiniteSet(counted) /\ Cardinality(counted) \in Nat
  BY AccountTypes
<1>3. Count > 1
  BY <1>1, BandwidthTestAssumption
<1>4. Count - 1 \in Data /\ Gap(Count - 1) > 0
  BY <1>1, <1>3, BandwidthTestAssumption DEF Data, RetryInTime
<1>5. /\ Transit \subseteq {Count - 1}
      /\ delays = 1 \/ Transit = {}
  BY <1>3, <1>4 DEF Undisturbed, Arrives
<1>6. CASE Transit = {}
  <2>1. Data \ lostPackets \subseteq counted
    BY <1>1, <1>6
  <2>2. Cardinality(Data \ lostPackets) <= Cardinality(counted)
    BY <1>2, <2>1, FS_Subset
  <2>3. Cardinality(Data \ lostPackets) >= MinTotal /\ Cardinality(Data \ lostPackets) \in Nat
    BY GoodCounts DEF Good, Enough
  <2>. QED
    BY <1>1, <1>2, <2>2, <2>3
<1>7. CASE delays = 1
  <2>1. lostPackets \cap Data = {}
    BY <1>7, FinitePackets DEF Good, Enough
  <2>2. Data \ {Count - 1} \subseteq counted
    BY <1>1, <1>5, <2>1
  <2>3. Cardinality(Data \ {Count - 1}) = Count - 2
    <3>1. IsFiniteSet(Data) /\ Cardinality(Data) = Count - 1
      BY FinitePackets
    <3>2. Cardinality(Data \ {Count - 1}) = Cardinality(Data) - 1
      BY <1>4, <3>1, FS_RemoveElement
    <3>. QED
      BY <1>1, <3>1, <3>2, BandwidthTestAssumption
  <2>4. Cardinality(Data \ {Count - 1}) <= Cardinality(counted)
    BY <1>2, <2>2, FS_Subset
  <2>. QED
    BY <1>1, <1>2, <2>3, <2>4, BandwidthTestAssumption
<1>. QED
  BY <1>5, <1>6, <1>7

LEMMA HearsSendEndOfTest ==
  ASSUME TypeOK, TypeOK', RetryInTime, Undisturbed, Good, Good', SendEndOfTest
  PROVE  Undisturbed'
<1>1. ~down /\ retry \in {0, 1} /\ (cpc = "send" => retry = 0) /\ (cpc = "end" => retry = 1)
  <2>1. retry \in 0..(MaxRetries - 1) /\ retry <= 1
    BY DEF TypeOK, Undisturbed, Attempts
  <2>2. retry \in {0, 1}
    BY <2>1, BandwidthTestAssumption
  <2>. QED
    BY <2>2 DEF Good, Enough, Undisturbed, Attempts
<1>2. /\ (cpc = "send" /\ sleep = 0 /\ seq = Count) \/ cpc = "end"
      /\ toServer' = toServer \cup {Count + retry} /\ cpc' = "await" /\ sleep' = RetryDelay
      /\ UNCHANGED <<seq, retry, rpc, final, deadline, toClient, inHand, made,
                     wpc, queue, total, counted, timeout, cleanup, lostPackets, lostAnswers, delays>>
  BY <1>1 DEF SendEndOfTest, receiverVars, serverVars, readerVars, workerVars, statVars, timerVars,
     lossVars
<1>3. Count + retry \in Ends
  BY BandwidthTestAssumption DEF Ends, TypeOK
<1>4. Transit' = Transit \cup {Count + retry} /\ Unheard' = Unheard
  BY <1>2, TransitMoves DEF Unheard
<1>5. RetryDelay \in Nat \ {0} /\ Count \in Nat /\ seq \in 1..Count
  BY BandwidthTestAssumption DEF TypeOK
<1>6. Due' = Due
  <2>1. CASE cpc = "send"
    <3>1. Left = 0
      <4>1. At(Count - 1) \in Nat
        BY TargetTimes, BandwidthTestAssumption
      <4>. QED
        BY <1>2, <2>1, <4>1 DEF Left
    <3>. QED
      BY <1>1, <1>2, <1>5, <2>1, <3>1 DEF Due
  <2>2. CASE cpc = "end"
    BY <1>1, <1>2, <2>2 DEF Due
  <2>. QED
    BY <1>2, <2>1, <2>2
<1>7. OneWorker' /\ Lasting'
  BY <1>2, <1>6 DEF Undisturbed, OneWorker, Lasting, Alive
<1>8. Coming'
  BY <1>3, <1>4 DEF Coming
<1>9. Attempts'
  BY <1>1, <1>2, <1>4, <1>5, <1>8 DEF Undisturbed, Attempts
<1>10. Once'
  <2>1. Sent' = Sent \cup {Count + retry} /\ Count + retry \notin Sent
    <3>1. /\ Sent = 1..(seq - 1) \cup Count..(Count + retry - 1)
          /\ Sent' = 1..(seq - 1) \cup Count..(Count + retry)
      BY <1>1, <1>2, <1>5 DEF Sent
    <3>. QED
      BY <1>1, <1>5, <3>1
  <2>. QED
    BY <1>2, <2>1 DEF Undisturbed, Once
<1>11. Arrives'
  <2>1. Cardinality(counted) >= MinTotal
    BY <1>2, EnoughCounted DEF Undisturbed, Arrives
  <2>. QED
    BY <1>2, <2>1 DEF Arrives
<1>12. Told'
  BY <1>2 DEF Undisturbed, Told
<1>. QED
  BY <1>7, <1>9, <1>10, <1>11, <1>12 DEF Undisturbed

------------------------------------------------------------------------------
(* The server in such a test.                                                 *)

\* The first packet makes the worker; all others find it.
LEMMA HearsProcessPacket ==
  ASSUME TypeOK, TypeOK', EntryInv, RetryInTime, Undisturbed, Good,
         NEW p \in toServer, ProcessPacket(p), Open
  PROVE  Undisturbed'
<1>1. /\ inHand = <<>> /\ toServer' = toServer \ {p} /\ p \in Packet
      /\ UNCHANGED <<cpc, seq, retry, sleep, rpc, final, deadline, toClient, queue, total, counted,
                     cleanup, lostPackets, lostAnswers, delays>>
  BY DEF ProcessPacket, clientVars, receiverVars, statVars, lossVars, TypeOK
<1>2. /\ made' = 1 /\ inHand' = <<p, 1>> /\ inHand'[1] = p /\ inHand'[2] = 1 /\ 1 \in Workers
      /\ \A w \in Workers : \/ wpc'[w] = wpc[w] /\ timeout'[w] = timeout[w] /\ (w = 1 => Alive(1))
                            \/ /\ w = 1 /\ ~Alive(1) /\ queue[1] = <<>>
                               /\ wpc'[w] = "main" /\ timeout'[w] = Timeout
  <2>1. CASE entry # 0
    <3>1. entry \in Workers /\ Alive(entry)
      BY <2>1 DEF EntryInv, EntryOwned, Alive
    <3>2. entry = 1 /\ made = 1
      BY <3>1 DEF Undisturbed, OneWorker
    <3>. QED
      BY <2>1, <3>1, <3>2 DEF ProcessPacket
  <2>2. CASE entry = 0
    <3>1. made = 0 /\ ~(\E w \in Workers : Alive(w))
      <4>1. \A w \in Workers : ~Alive(w)
        BY <2>2 DEF EntryInv, EntryOwned, Alive, Workers
      <4>2. made = 1 => 1 \in Workers
        BY BandwidthTestAssumption DEF TypeOK, Workers
      <4>3. made \in {0, 1}
        BY BandwidthTestAssumption DEF Undisturbed, OneWorker, TypeOK
      <4>. QED
        BY <4>1, <4>2, <4>3 DEF Undisturbed, OneWorker
    <3>2. /\ made' = 1 /\ made < MaxWorkers /\ inHand' = <<p, 1>>
          /\ wpc' = [wpc EXCEPT ![1] = "main"] /\ timeout' = [timeout EXCEPT ![1] = Timeout]
      BY <2>2, <3>1 DEF ProcessPacket
    <3>3. 1 \in Workers
      BY <3>1, <3>2, BandwidthTestAssumption DEF Workers
    <3>4. queue[1] = <<>>
      BY <3>1, <3>3 DEF Undisturbed, OneWorker
    <3>5. wpc \in [Workers -> {"none", "main", "wait", "gone"}] /\ timeout \in [Workers -> Nat]
      BY DEF TypeOK
    <3>. QED
      BY <3>1, <3>2, <3>3, <3>4, <3>5
  <2>. QED
    BY <2>1, <2>2
<1>3. /\ \A w \in Workers : Alive(w)' <=> w = 1
      /\ \A w \in Workers : wpc'[w] = "wait" => wpc[w] = "wait"
  <2>1. ASSUME NEW w \in Workers
        PROVE  (Alive(w)' <=> w = 1) /\ (wpc'[w] = "wait" => wpc[w] = "wait")
    <3>1. Alive(w) => w = 1
      BY DEF Undisturbed, OneWorker
    <3>. QED
      BY <1>2, <3>1 DEF Alive
  <2>. QED
    BY <2>1
<1>4. Transit' = Transit
  <2>1. InHand = {} /\ InHand' = {p}
    BY <1>1, <1>2 DEF InHand
  <2>2. ASSUME NEW w \in Workers
        PROVE  \A q : (Alive(w)' /\ \E i \in 1..Len(queue'[w]) : queue'[w][i] = q)
                       <=> (Alive(w) /\ \E i \in 1..Len(queue[w]) : queue[w][i] = q)
    <3>1. queue' = queue
      BY <1>1
    <3>2. CASE Alive(w)' <=> Alive(w)
      BY <3>1, <3>2
    <3>3. CASE queue[w] = <<>>
      BY <3>1, <3>3
    <3>. QED
      BY <1>2, <1>3, <3>2, <3>3 DEF Alive
  <2>3. Queued' = Queued
    BY <2>2 DEF Queued
  <2>. QED
    BY <1>1, <2>1, <2>3 DEF Transit
<1>5. Unheard' = Unheard /\ Left' = Left /\ Due' = Due
  BY <1>1 DEF Unheard, Left, Due
<1>6. OneWorker'
  <2>1. \A w \in Workers : w > made' => queue[w] = <<>>
    <3>1. \A w \in Workers : w \in Nat
      BY DEF Workers
    <3>2. made \in Nat /\ made <= 1
      BY BandwidthTestAssumption DEF Undisturbed, OneWorker, TypeOK
    <3>. QED
      BY <1>2, <3>1, <3>2 DEF Undisturbed, OneWorker
  <2>. QED
    BY <1>1, <1>2, <1>3, <2>1 DEF OneWorker
<1>7. Lasting'
  <2>1. /\ Due \in Nat /\ Due <= Duration + RetryDelay /\ Duration + RetryDelay < Timeout
        /\ Duration \in Nat /\ RetryDelay \in Nat /\ Timeout \in Nat
    BY DueTypes, BandwidthTestAssumption DEF Undisturbed, RetryInTime
  <2>2. Timeout > Due
    BY <2>1
  <2>. QED
    BY <1>1, <1>2, <1>3, <1>5, <2>2 DEF Undisturbed, Lasting
<1>8. Coming => Coming'
  BY <1>1, <1>4 DEF Coming
<1>9. Attempts'
  BY <1>1, <1>3, <1>4, <1>5, <1>8 DEF Undisturbed, Attempts
<1>10. Once'
  BY <1>1 DEF Undisturbed, Once, Sent
<1>11. Arrives'
  BY <1>1, <1>4 DEF Undisturbed, Arrives
<1>12. Told'
  BY <1>1, <1>3 DEF Undisturbed, Told
<1>. QED
  BY <1>6, <1>7, <1>9, <1>10, <1>11, <1>12 DEF Undisturbed

LEMMA HearsEnqueue ==
  ASSUME TypeOK, TypeOK', RetryInTime, Undisturbed, Good, Enqueue
  PROVE  Undisturbed'
<1>1. PICK p \in Packet, v \in Workers : inHand = <<p, v>>
  BY DEF Enqueue, TypeOK
<1>2. /\ inHand[1] = p /\ v = 1 /\ made = 1 /\ Alive(1)
      /\ inHand # <<>> /\ inHand' = <<>> /\ queue' = [queue EXCEPT ![1] = Append(@, p)]
      /\ UNCHANGED <<cpc, seq, retry, sleep, rpc, final, deadline, toServer, toClient, made, wpc,
                     total, counted, timeout, cleanup, lostPackets, lostAnswers, delays>>
  <2>1. inHand # <<>> /\ inHand[1] = p /\ inHand[2] = v
    BY <1>1
  <2>2. v = 1 /\ made = 1 /\ Alive(1)
    BY <1>1, <2>1 DEF Undisturbed, OneWorker
  <2>3. /\ inHand' = <<>> /\ queue' = [queue EXCEPT ![1] = Append(@, p)]
        /\ UNCHANGED <<cpc, seq, retry, sleep, rpc, final, deadline, toServer, toClient, made, wpc,
                       total, counted, timeout, cleanup, lostPackets, lostAnswers, delays>>
    BY <2>1, <2>2 DEF Enqueue, clientVars, receiverVars, netVars, statVars, timerVars, lossVars
  <2>. QED
    BY <2>1, <2>2, <2>3
<1>3. /\ 1 \in Workers /\ queue[1] \in Seq(Packet) /\ queue'[1] = Append(queue[1], p)
      /\ \A w \in Workers : w # 1 => queue'[w] = queue[w] /\ ~Alive(w)
  BY <1>1, <1>2 DEF TypeOK, Undisturbed, OneWorker
<1>4. Transit' = Transit
  <2>1. InHand = {p} /\ InHand' = {}
    BY <1>1, <1>2 DEF InHand
  <2>2. \A w \in Workers : Alive(w)' <=> w = 1
    BY <1>2, <1>3 DEF Alive
  <2>3. \A w \in Workers : Alive(w) <=> w = 1
    BY <1>2, <1>3
  <2>4. /\ Queued = {q \in Packet : \E i \in 1..Len(queue[1]) : queue[1][i] = q}
        /\ Queued' = {q \in Packet : \E i \in 1..Len(queue'[1]) : queue'[1][i] = q}
    BY <1>3, <2>2, <2>3 DEF Queued
  <2>5. /\ Len(queue'[1]) = Len(queue[1]) + 1 /\ Len(queue[1]) \in Nat
        /\ queue'[1][Len(queue[1]) + 1] = p
        /\ \A i \in 1..Len(queue[1]) : i \in 1..Len(queue'[1]) /\ queue'[1][i] = queue[1][i]
        /\ \A i \in 1..Len(queue'[1]) :
             queue'[1][i] = p \/ (i \in 1..Len(queue[1]) /\ queue'[1][i] = queue[1][i])
    BY <1>1, <1>3, AppendElements
  <2>6. Queued' = Queued \cup {p}
    <3>1. Queued' \subseteq Queued \cup {p}
      BY <2>4, <2>5
    <3>2. Queued \subseteq Queued'
      BY <2>4, <2>5
    <3>3. Len(queue[1]) + 1 \in 1..Len(queue'[1])
      BY <2>5
    <3>4. p \in Queued'
      BY <1>1, <2>4, <2>5, <3>3
    <3>. QED
      BY <3>1, <3>2, <3>4
  <2>. QED
    BY <1>2, <2>1, <2>6 DEF Transit
<1>5. Unheard' = Unheard /\ Left' = Left /\ Due' = Due
  BY <1>2 DEF Unheard, Left, Due
<1>6. OneWorker'
  <2>1. \A w \in Workers : w > made => w # 1
    BY <1>2 DEF Workers
  <2>2. \A w \in Workers : w > made => queue'[w] = <<>>
    BY <1>3, <2>1 DEF Undisturbed, OneWorker
  <2>3. \A w \in Workers : Alive(w)' <=> Alive(w)
    BY <1>2 DEF Alive
  <2>. QED
    BY <1>2, <2>2, <2>3 DEF Undisturbed, OneWorker
<1>7. Lasting'
  BY <1>2, <1>5 DEF Undisturbed, Lasting
<1>8. Coming => Coming'
  BY <1>2, <1>4 DEF Coming
<1>9. Attempts'
  BY <1>2, <1>4, <1>5, <1>8 DEF Undisturbed, Attempts
<1>10. Once' /\ Told'
  BY <1>2 DEF Undisturbed, Once, Sent, Told
<1>11. Arrives'
  BY <1>2, <1>4 DEF Undisturbed, Arrives
<1>. QED
  BY <1>6, <1>7, <1>9, <1>10, <1>11 DEF Undisturbed

LEMMA HearsSendStats ==
  ASSUME TypeOK, TypeOK', RetryInTime, Undisturbed, Good, NEW w \in Workers, SendStats(w)
  PROVE  Undisturbed'
<1>1. /\ toClient \subseteq toClient' /\ toClient' \subseteq toClient \cup {Stats}
      /\ UNCHANGED <<cpc, seq, retry, sleep, rpc, final, deadline, toServer, inHand, made, wpc, queue,
                     total, counted, timeout, cleanup, lostPackets, lostAnswers, delays>>
  BY DEF SendStats, clientVars, receiverVars, readerVars, statVars, lossVars
<1>2. Transit' = Transit /\ Unheard' = Unheard /\ Left' = Left /\ Due' = Due
  BY <1>1, TransitMoves DEF Unheard, Left, Due
<1>3. OneWorker'
  BY <1>1 DEF Undisturbed, OneWorker, Alive
<1>4. Lasting'
  BY <1>1, <1>2 DEF Undisturbed, Lasting
<1>5. Coming => Coming'
  BY <1>1, <1>2 DEF Coming
<1>6. Attempts'
  BY <1>1, <1>2, <1>5 DEF Undisturbed, Attempts
<1>7. Once'
  BY <1>1 DEF Undisturbed, Once, Sent
<1>8. Arrives'
  BY <1>1, <1>2 DEF Undisturbed, Arrives
<1>9. Told'
  <2>1. \A m \in toClient' : m.kind = "FINAL" => m \in toClient
    BY <1>1 DEF Stats
  <2>. QED
    BY <1>1, <2>1 DEF Undisturbed, Told
<1>. QED
  BY <1>3, <1>4, <1>6, <1>7, <1>8, <1>9 DEF Undisturbed

\* A packet less in the queue, and only that one.
LEMMA DequeueTransit ==
  ASSUME TypeOK, NEW w \in Workers, Alive(w), queue[w] # <<>>, Dequeue(w),
         UNCHANGED <<toServer, inHand>>, NEW l \in {"main", "wait"},
         wpc' = wpc \/ wpc' = [wpc EXCEPT ![w] = l]
  PROVE  /\ Transit' \subseteq Transit /\ Transit \subseteq Transit' \cup {Head(queue[w])}
         /\ Head(queue[w]) \in Transit /\ Head(queue[w]) \in Packet
         /\ \A v \in Workers : Alive(v)' <=> Alive(v)
         /\ \A v \in Workers : queue[v] = <<>> => queue'[v] = <<>>
<1>1. /\ \A v \in Workers : Alive(v)' <=> Alive(v)
      /\ \A v \in Workers : \A i \in 1..Len(queue'[v]) :
           \E j \in 1..Len(queue[v]) : queue'[v][i] = queue[v][j]
      /\ \A v \in Workers : queue[v] = <<>> => queue'[v] = <<>>
      /\ Head(queue[w]) = queue[w][1] /\ 1 \in 1..Len(queue[w])
  BY DequeueAround
<1>2. \A v \in Workers : queue[v] \in Seq(Packet)
                         /\ queue'[v] = IF v = w THEN Tail(queue[w]) ELSE queue[v]
  BY DEF Dequeue, TypeOK
<1>3. Head(queue[w]) \in Packet
  BY <1>2
<1>4. Queued' \subseteq Queued
  <2>1. SUFFICES ASSUME NEW q \in Queued' PROVE q \in Queued
    OBVIOUS
  <2>2. PICK v \in Workers : Alive(v)' /\ \E i \in 1..Len(queue'[v]) : queue'[v][i] = q
    BY <2>1 DEF Queued
  <2>3. \E j \in 1..Len(queue[v]) : queue[v][j] = q
    BY <1>1, <2>2
  <2>. QED
    BY <1>1, <2>1, <2>2, <2>3 DEF Queued
<1>5. Head(queue[w]) \in Queued
  BY <1>1, <1>3 DEF Queued
<1>6. ASSUME NEW v \in Workers, NEW i \in 1..Len(queue[v]), queue[v][i] # Head(queue[w])
      PROVE  \E j \in 1..Len(queue'[v]) : queue'[v][j] = queue[v][i]
  <2>1. CASE v = w
    <3>1. i # 1 /\ queue[w] \in Seq(Packet) /\ queue'[w] = Tail(queue[w]) /\ queue[w] # <<>>
      BY <1>1, <1>2, <1>6, <2>1
    <3>2. i - 1 \in 1..Len(Tail(queue[w])) /\ Tail(queue[w])[i - 1] = queue[w][i]
      BY <1>6, <2>1, <3>1
    <3>. QED
      BY <2>1, <3>1, <3>2
  <2>2. CASE v # w
    BY <1>2, <2>2
  <2>. QED
    BY <2>1, <2>2
<1>7. Queued \subseteq Queued' \cup {Head(queue[w])}
  <2>1. SUFFICES ASSUME NEW q \in Queued, q # Head(queue[w]) PROVE q \in Queued'
    OBVIOUS
  <2>2. PICK v \in Workers : Alive(v) /\ \E i \in 1..Len(queue[v]) : queue[v][i] = q
    BY <2>1 DEF Queued
  <2>3. PICK i \in 1..Len(queue[v]) : queue[v][i] = q
    BY <2>2
  <2>4. \E j \in 1..Len(queue'[v]) : queue'[v][j] = q
    BY <1>6, <2>1, <2>3
  <2>. QED
    BY <1>1, <2>1, <2>2, <2>4 DEF Queued
<1>8. InHand' = InHand
  BY DEF InHand
<1>. QED
  BY <1>1, <1>3, <1>4, <1>5, <1>7, <1>8 DEF Transit

\* What taking a packet from the queue leaves true.
LEMMA HearsTaken ==
  ASSUME TypeOK, TypeOK', RetryInTime, Undisturbed, Good, Open,
         NEW w \in Workers, NEW h, h = Head(queue[w]), queue[w] # <<>>, Alive(w), Dequeue(w),
         UNCHANGED <<cpc, seq, retry, sleep, rpc, final, deadline, toServer, inHand, made,
                     lostPackets, lostAnswers, delays>>,
         NEW l \in {"main", "wait"}, wpc' = wpc \/ wpc' = [wpc EXCEPT ![w] = l],
         wpc'[w] = l,
         l = "main" => timeout' = [timeout EXCEPT ![w] = Timeout] /\ cleanup' = cleanup,
         l = "wait" => /\ timeout' = timeout /\ cleanup' = [cleanup EXCEPT ![w] = CleanupDelay]
                       /\ h \in Ends,
         toClient \subseteq toClient',
         h \in Ends => \E m \in toClient' : m.kind = "FINAL",
         counted \subseteq counted',
         cpc = "send" => h \in counted'
  PROVE  OneWorker' /\ Lasting' /\ Attempts' /\ Once' /\ Arrives'
<1>1. /\ Transit' \subseteq Transit /\ Transit \subseteq Transit' \cup {h}
      /\ h \in Transit /\ h \in Packet
      /\ \A v \in Workers : Alive(v)' <=> Alive(v)
      /\ \A v \in Workers : queue[v] = <<>> => queue'[v] = <<>>
  BY DequeueTransit
<1>2. Unheard' = Unheard /\ Left' = Left /\ Due' = Due
  BY DEF Unheard, Left, Due
<1>3. OneWorker'
  BY <1>1 DEF Undisturbed, OneWorker
<1>4. cpc = "send" => h \notin Ends
  BY <1>1 DEF Undisturbed, Attempts
<1>5. /\ wpc \in [Workers -> {"none", "main", "wait", "gone"}]
      /\ timeout \in [Workers -> Nat] /\ cleanup \in [Workers -> Nat]
  BY DEF TypeOK
<1>6. Lasting'
  <2>1. /\ Due \in Nat /\ Due <= Duration + RetryDelay /\ Duration + RetryDelay < Timeout
        /\ Duration \in Nat /\ RetryDelay \in Nat \ {0} /\ Timeout \in Nat
        /\ cpc # "send" => Due <= RetryDelay
    BY DueTypes, BandwidthTestAssumption DEF Undisturbed, RetryInTime
  <2>2. Timeout > Due
    BY <2>1
  <2>3. cpc # "send" => CleanupDelay > Due
    BY <2>1 DEF CleanupDelay
  <2>4. ASSUME NEW v \in Workers
        PROVE  /\ wpc'[v] = "main" => timeout'[v] > Due
               /\ wpc'[v] = "wait" => cleanup'[v] > Due
    <3>1. CASE v = w
      BY <1>4, <1>5, <2>2, <2>3, <3>1
    <3>2. CASE v # w
      <4>1. wpc'[v] = wpc[v] /\ timeout'[v] = timeout[v] /\ cleanup'[v] = cleanup[v]
        BY <1>5, <3>2
      <4>. QED
        BY <4>1 DEF Undisturbed, Lasting
    <3>. QED
      BY <3>1, <3>2
  <2>. QED
    BY <1>2, <2>4 DEF Undisturbed, Lasting
<1>7. Coming => Coming'
  <2>1. Transit \cap Ends # {} => Transit' \cap Ends # {} \/ h \in Ends
    BY <1>1
  <2>. QED
    BY <2>1 DEF Coming
<1>8. cpc = "send" => \A v \in Workers : wpc'[v] # "wait"
  BY <1>4, <1>5 DEF Undisturbed, Attempts
<1>9. Attempts'
  BY <1>1, <1>2, <1>7, <1>8 DEF Undisturbed, Attempts
<1>10. Once'
  BY DEF Undisturbed, Once, Sent
<1>11. Arrives'
  <2>1. CASE cpc = "send"
    <3>1. /\ Transit' \subseteq 1..(seq - 1)
          /\ 1..(seq - 1) \subseteq counted' \cup lostPackets \cup Transit'
      BY <1>1, <2>1 DEF Undisturbed, Arrives
    <3>. QED
      BY <1>1, <2>1, <3>1 DEF Undisturbed, Arrives
  <2>2. CASE cpc # "send"
    <3>1. counted' \subseteq Data /\ IsFiniteSet(counted')
      BY FinitePackets, FS_Subset DEF TypeOK
    <3>2. Cardinality(counted) <= Cardinality(counted') /\ Cardinality(counted') \in Nat
      BY <3>1, FS_Subset, FS_CardinalityType
    <3>3. Cardinality(counted) \in Nat /\ Cardinality(counted) >= MinTotal
      BY <2>2, AccountTypes DEF Undisturbed, Arrives
    <3>4. Cardinality(counted') >= MinTotal
      BY <3>2, <3>3, BandwidthTestAssumption
    <3>. QED
      BY <2>2, <3>4 DEF Arrives
  <2>. QED
    BY <2>1, <2>2
<1>. QED
  BY <1>3, <1>6, <1>9, <1>10, <1>11

\* A packet is counted, and an end packet answered with what is enough.
LEMMA HearsProcess ==
  ASSUME TypeOK, TypeOK', RetryInTime, Undisturbed, Good, Open, NEW w \in Workers, Process(w)
  PROVE  Undisturbed'
<1> DEFINE h == Head(queue[w])
<1>1. /\ wpc[w] = "main" /\ queue[w] # <<>> /\ Alive(w) /\ Dequeue(w) /\ UpdateStats(w, h)
      /\ \/ /\ h \in Ends /\ toClient' = toClient \cup {Final(total'[w], dropped'[w])}
            /\ wpc' = [wpc EXCEPT ![w] = "wait"] /\ timeout' = timeout
            /\ cleanup' = [cleanup EXCEPT ![w] = CleanupDelay]
         \/ /\ h \in Data /\ toClient' = toClient /\ wpc' = wpc
            /\ timeout' = [timeout EXCEPT ![w] = Timeout] /\ cleanup' = cleanup
      /\ UNCHANGED <<cpc, seq, retry, sleep, rpc, final, deadline, toServer, inHand, made,
                     lostPackets, lostAnswers, delays>>
  BY DEF Process, Alive, clientVars, receiverVars, readerVars, lossVars
<1>2. /\ total' = [total EXCEPT ![w] = @ + 1] /\ counted' = counted \cup ({h} \cap Data)
      /\ total \in [Workers -> Nat] /\ counted \subseteq Data
      /\ wpc \in [Workers -> {"none", "main", "wait", "gone"}]
  BY <1>1 DEF UpdateStats, TypeOK
<1>3. /\ w = 1 /\ h \in Transit
      /\ (cpc = "send" => h \notin Ends) /\ (h \in Data \/ h \in Ends)
  <2>1. PICK l \in {"main", "wait"} : wpc' = wpc \/ wpc' = [wpc EXCEPT ![w] = l]
    BY <1>1
  <2>2. h \in Transit
    BY <1>1, <2>1, DequeueTransit
  <2>. QED
    BY <1>1, <2>2 DEF Undisturbed, OneWorker, Attempts
<1>4. PICK t \in Nat : t = total[w]
  BY <1>2
<1>5. PICK c \in Nat : c = Cardinality(counted)
  BY AccountTypes
<1>6. c <= t
  BY <1>3, <1>4, <1>5 DEF Undisturbed, Told
<1>7. total'[w] = t + 1 /\ \A v \in Workers : v # w => total'[v] = total[v]
  BY <1>2, <1>4
<1>8. IsFiniteSet(counted') /\ Cardinality(counted') \in Nat /\ Cardinality(counted') <= c + 1
  <2> HIDE DEF h
  <2>1. counted' = counted \/ counted' = counted \cup {h}
    BY <1>2
  <2>2. IsFiniteSet(counted)
    BY AccountTypes
  <2>3. CASE counted' = counted
    BY <1>5, <2>2, <2>3
  <2>4. CASE counted' = counted \cup {h}
    <3>1. IsFiniteSet(counted') /\ Cardinality(counted') \in {c, c + 1}
      BY <1>5, <2>2, <2>4, FS_AddElement
    <3>. QED
      BY <3>1
  <2>. QED
    BY <2>1, <2>3, <2>4
<1>9. h \in Ends => c >= MinTotal
  BY <1>3, <1>5 DEF Undisturbed, Arrives
<1>10. h \in Ends => t + 1 > MinTotal
  BY <1>6, <1>9, BandwidthTestAssumption
<1>11. h \in Ends => \E m \in toClient' : m.kind = "FINAL"
  <2>1. Final(total'[w], dropped'[w]).kind = "FINAL"
    BY DEF Final
  <2>2. h \in Ends => Final(total'[w], dropped'[w]) \in toClient'
    BY <1>1, FinitePackets
  <2>. QED
    BY <2>1, <2>2
<1>12. OneWorker' /\ Lasting' /\ Attempts' /\ Once' /\ Arrives'
  <2>1. toClient \subseteq toClient' /\ counted \subseteq counted'
    BY <1>1, <1>2
  <2>2. cpc = "send" => h \in counted'
    BY <1>2, <1>3
  <2> HIDE DEF h
  <2>3. CASE h \in Ends
    <3>1. h \notin Data
      BY <2>3, FinitePackets
    <3>2. /\ wpc' = [wpc EXCEPT ![w] = "wait"] /\ timeout' = timeout
          /\ cleanup' = [cleanup EXCEPT ![w] = CleanupDelay] /\ wpc'[w] = "wait"
      BY <1>1, <1>2, <3>1
    <3>. QED
      BY <1>1, <1>11, <2>1, <2>2, <2>3, <3>2, HearsTaken DEF h
  <2>4. CASE h \in Data
    <3>1. h \notin Ends
      BY <2>4, FinitePackets
    <3>2. /\ wpc' = wpc /\ timeout' = [timeout EXCEPT ![w] = Timeout] /\ cleanup' = cleanup
          /\ wpc'[w] = "main"
      BY <1>1, <3>1
    <3>. QED
      BY <1>1, <1>11, <2>1, <2>2, <3>2, HearsTaken DEF h
  <2>. QED
    BY <1>3, <2>3, <2>4
<1>13. Told'
  <2>1. Cardinality(counted') <= total'[1]
    BY <1>3, <1>4, <1>6, <1>7, <1>8
  <2>2. ASSUME NEW v \in Workers, wpc'[v] = "wait" PROVE total'[v] > MinTotal
    <3>1. CASE v = w
      <4>1. h \in Ends
        BY <1>1, <2>2, <3>1
      <4>. QED
        BY <1>7, <1>10, <3>1, <4>1
    <3>2. CASE v # w
      <4>1. wpc'[v] = wpc[v]
        BY <1>1, <1>2, <3>2
      <4>. QED
        BY <1>7, <2>2, <3>2, <4>1 DEF Undisturbed, Told
    <3>. QED
      BY <3>1, <3>2
  <2>3. ASSUME NEW m \in toClient', m.kind = "FINAL" PROVE m.total > MinTotal
    <3>1. CASE m \in toClient
      BY <2>3, <3>1 DEF Undisturbed, Told
    <3>2. CASE h \in Ends /\ m = Final(total'[w], dropped'[w])
      <4>1. m.total = t + 1
        BY <1>7, <3>2 DEF Final
      <4>. QED
        BY <1>10, <3>2, <4>1
    <3>. QED
      BY <1>1, <2>3, <3>1, <3>2
  <2>4. rpc' = "final" => final'.total > MinTotal
    BY <1>1 DEF Undisturbed, Told
  <2>. QED
    BY <2>1, <2>2, <2>3, <2>4 DEF Told
<1>. QED
  BY <1>12, <1>13 DEF Undisturbed

LEMMA HearsProcessRetry ==
  ASSUME TypeOK, TypeOK', RetryInTime, Undisturbed, Good, Open, NEW w \in Workers, ProcessRetry(w)
  PROVE  Undisturbed'
<1> DEFINE h == Head(queue[w])
<1>1. /\ wpc[w] = "wait" /\ queue[w] # <<>> /\ Alive(w) /\ Dequeue(w)
      /\ toClient' = IF h \in Ends THEN toClient \cup {Final(total[w], dropped[w])} ELSE toClient
      /\ wpc' = [wpc EXCEPT ![w] = "main"]
      /\ timeout' = [timeout EXCEPT ![w] = Timeout] /\ cleanup' = cleanup
      /\ UNCHANGED <<cpc, seq, retry, sleep, rpc, final, deadline, toServer, inHand, made, total,
                     counted, lostPackets, lostAnswers, delays>>
  BY DEF ProcessRetry, Alive, clientVars, receiverVars, readerVars, statVars, lossVars
<1>2. cpc # "send" /\ total[w] > MinTotal
  BY <1>1 DEF Undisturbed, Attempts, Told
<1>3. Final(total[w], dropped[w]).kind = "FINAL" /\ Final(total[w], dropped[w]).total = total[w]
  BY DEF Final
<1>4. OneWorker' /\ Lasting' /\ Attempts' /\ Once' /\ Arrives'
  <2>1. h \in Ends => \E m \in toClient' : m.kind = "FINAL"
    BY <1>1, <1>3
  <2>2. wpc'[w] = "main" /\ toClient \subseteq toClient'
    BY <1>1 DEF TypeOK
  <2> HIDE DEF h
  <2>. QED
    BY <1>1, <1>2, <2>1, <2>2, HearsTaken DEF h
<1>5. Told'
  <2>1. \A v \in Workers : wpc'[v] = "wait" => wpc[v] = "wait"
    BY <1>1 DEF TypeOK
  <2>2. ASSUME NEW m \in toClient', m.kind = "FINAL" PROVE m.total > MinTotal
    BY <1>1, <1>2, <1>3, <2>2 DEF Undisturbed, Told
  <2>. QED
    BY <1>1, <2>1, <2>2 DEF Undisturbed, Told
<1>. QED
  BY <1>4, <1>5 DEF Undisturbed

------------------------------------------------------------------------------
(* The network and time in such a test.                                       *)
\* Of what is sent once, a loss is the first; a lost data packet is no longer due.
LEMMA HearsLosePacket ==
  ASSUME TypeOK, TypeOK', RetryInTime, Undisturbed, Good, Good', Open,
         NEW p \in toServer, LosePacket(p)
  PROVE  Undisturbed'
<1>1. /\ toServer' = toServer \ {p} /\ lostPackets' = lostPackets \cup {p} /\ rpc' = rpc
      /\ UNCHANGED <<cpc, seq, retry, sleep, final, deadline, toClient, inHand, made,
                     wpc, queue, total, counted, timeout, cleanup, lostAnswers, delays>>
  BY DEF LosePacket, Good, Enough, clientVars, serverVars, readerVars, workerVars, statVars,
     timerVars
<1>2. /\ Transit' \subseteq Transit /\ Transit \subseteq Transit' \cup {p} /\ p \in Transit
      /\ p \in Packet /\ p \notin lostPackets
  BY <1>1, TransitMoves DEF Transit, TypeOK, Undisturbed, Once
<1>3. Left' = Left /\ Due' = Due
  BY <1>1 DEF Left, Due
<1>4. p \in Ends => Unheard = 0 /\ Unheard' = 1
  <2>1. SUFFICES ASSUME p \in Ends PROVE Unheard = 0 /\ Unheard' = 1
    OBVIOUS
  <2>2. Ends \cap lostPackets' = (Ends \cap lostPackets) \cup {p} /\ p \notin Ends \cap lostPackets
    BY <1>1, <1>2, <2>1
  <2>3. PICK c \in Nat : c = Cardinality(Ends \cap lostPackets)
    BY GoodCounts
  <2>4. Cardinality(Ends \cap lostPackets') = c + 1
    BY <2>2, <2>3, GoodCounts, FS_AddElement
  <2>5. Unheard = c + lostAnswers + delays /\ Unheard' = c + 1 + lostAnswers + delays
    BY <1>1, <2>3, <2>4 DEF Unheard
  <2>6. Unheard' <= 1 /\ lostAnswers \in Nat /\ delays \in Nat
    BY GoodCounts DEF Good
  <2>. QED
    BY <2>5, <2>6
<1>5. p \notin Ends => Unheard' = Unheard /\ Transit \cap Ends = Transit' \cap Ends
  <2>1. p \notin Ends => Ends \cap lostPackets' = Ends \cap lostPackets
    BY <1>1
  <2>. QED
    BY <1>1, <1>2, <2>1 DEF Unheard
<1>6. p \in Ends => cpc = "await" /\ retry = 0 /\ sleep = RetryDelay
  <2>1. p \in Ends => cpc # "send" /\ retry = 0 /\ cpc # "end"
    <3>1. retry \in 0..(MaxRetries - 1) /\ retry <= 1
      BY DEF TypeOK, Undisturbed, Attempts
    <3>2. retry \in {0, 1}
      BY <3>1, BandwidthTestAssumption
    <3>. QED
      BY <1>2, <1>4, <3>2 DEF Undisturbed, Attempts
  <2>2. p \in Ends => cpc = "await"
    BY <2>1 DEF Open, TypeOK
  <2>. QED
    BY <1>4, <2>1, <2>2, BandwidthTestAssumption DEF Undisturbed, Attempts, TypeOK
<1>7. OneWorker'
  BY <1>1 DEF Undisturbed, OneWorker, Alive
<1>8. Lasting'
  BY <1>1, <1>3 DEF Undisturbed, Lasting
<1>9. Attempts'
  <2>1. CASE p \in Ends
    BY <1>1, <1>4, <1>6, <2>1, BandwidthTestAssumption DEF Attempts
  <2>2. CASE p \notin Ends
    <3>1. Coming => Coming'
      BY <1>1, <1>5, <2>2 DEF Coming
    <3>. QED
      BY <1>1, <1>2, <1>3, <1>5, <2>2, <3>1 DEF Undisturbed, Attempts
  <2>. QED
    BY <2>1, <2>2
<1>10. Once'
  BY <1>1 DEF Undisturbed, Once, Sent
<1>11. Arrives'
  <2>1. CASE cpc = "send"
    <3>1. /\ Transit' \subseteq 1..(seq - 1)
          /\ 1..(seq - 1) \subseteq counted \cup lostPackets' \cup Transit'
      BY <1>1, <1>2, <2>1 DEF Undisturbed, Arrives
    <3>. QED
      BY <1>1, <1>2, <2>1, <3>1 DEF Undisturbed, Arrives
  <2>2. CASE cpc # "send"
    BY <1>1, <2>2 DEF Undisturbed, Arrives
  <2>. QED
    BY <2>1, <2>2
<1>12. Told'
  BY <1>1 DEF Undisturbed, Told
<1>. QED
  BY <1>7, <1>8, <1>9, <1>10, <1>11, <1>12 DEF Undisturbed

LEMMA HearsLoseAnswer ==
  ASSUME TypeOK, TypeOK', RetryInTime, Undisturbed, Good, Good', Open,
         NEW m \in toClient, LoseAnswer(m)
  PROVE  Undisturbed'
<1>1. /\ toClient' = toClient \ {m} /\ lostAnswers' = lostAnswers + 1
      /\ UNCHANGED <<cpc, seq, retry, sleep, rpc, final, deadline, toServer, inHand, made,
                     wpc, queue, total, counted, timeout, cleanup, lostPackets, delays>>
  BY DEF LoseAnswer, clientVars, receiverVars, serverVars, readerVars, workerVars, statVars,
     timerVars
<1>2. Transit' = Transit /\ Left' = Left /\ Due' = Due
  BY <1>1, TransitMoves DEF Left, Due
<1>3. Unheard = 0 /\ Unheard' = 1
  <2>1. PICK c \in Nat : c = Cardinality(Ends \cap lostPackets)
    BY GoodCounts
  <2>2. Unheard = c + lostAnswers + delays /\ Unheard' = c + (lostAnswers + 1) + delays
    BY <1>1, <2>1 DEF Unheard
  <2>3. Unheard' <= 1 /\ lostAnswers \in Nat /\ delays \in Nat
    BY GoodCounts DEF Good
  <2>. QED
    BY <2>2, <2>3
<1>4. OneWorker' /\ Lasting'
  BY <1>1, <1>2 DEF Undisturbed, OneWorker, Lasting, Alive
<1>5. Attempts'
  <2>1. retry # 1 /\ cpc # "end"
    BY <1>3 DEF Undisturbed, Attempts
  <2>. QED
    BY <1>1, <1>2, <1>3, <2>1 DEF Undisturbed, Attempts
<1>6. Once' /\ Told'
  BY <1>1 DEF Undisturbed, Once, Sent, Told
<1>7. Arrives'
  BY <1>1, <1>2 DEF Undisturbed, Arrives
<1>. QED
  BY <1>4, <1>5, <1>6, <1>7 DEF Undisturbed

\* Time passes: a message that is out is late, and no other may be.
LEMMA HearsTick ==
  ASSUME TypeOK, TypeOK', RetryInTime, Undisturbed, Good, Good', Open, Tick
  PROVE  Undisturbed'
<1>1. /\ UNCHANGED <<cpc, seq, retry, rpc, final, toServer, toClient, inHand, made, wpc, queue,
                     total, counted, lostPackets, lostAnswers>>
      /\ inHand = <<>> /\ ClientIdle /\ \A w \in Workers : WorkerIdle(w)
      /\ sleep' = Less(sleep) /\ deadline' = Less(deadline)
      /\ timeout' = LessEach(timeout) /\ cleanup' = LessEach(cleanup)
      /\ \/ toServer = {} /\ toClient = {} /\ delays' = delays
         \/ delays' = delays + 1
  BY DEF Tick, netVars, readerVars, statVars
<1>2. Transit' = Transit /\ Transit = toServer
  <2>1. InHand = {}
    BY <1>1 DEF InHand
  <2>2. Queued = {}
    <3>1. \A w \in Workers : Alive(w) => Len(queue[w]) = 0
      BY <1>1 DEF WorkerIdle, Alive
    <3>. QED
      BY <3>1 DEF Queued
  <2>. QED
    BY <1>1, <2>1, <2>2, TransitMoves DEF Transit
<1>3. PICK c \in Nat, u \in Nat, d \in Nat, e \in Nat :
        /\ c = Cardinality(Ends \cap lostPackets) + lostAnswers
        /\ d = delays /\ e = delays' /\ u = Unheard
        /\ u = c + d /\ Unheard' = c + e /\ c + e <= 1
        /\ e = d \/ e = d + 1
  <2>1. PICK a \in Nat, l \in Nat, d \in Nat :
          a = Cardinality(Ends \cap lostPackets) /\ l = lostAnswers /\ d = delays
    BY GoodCounts
  <2>2. delays' \in Nat /\ (delays' = d \/ delays' = d + 1)
    BY <1>1, <2>1
  <2>3. Unheard = a + l + d /\ Unheard' = a + l + delays' /\ Unheard' <= 1
    BY <1>1, <2>1 DEF Unheard, Good
  <2>. QED
    BY <2>1, <2>2, <2>3
<1>4. /\ cpc \in {"send", "await"} /\ sleep \in Nat \ {0} /\ sleep' = sleep - 1
      /\ cpc = "await" => rpc # "final"
  BY <1>1 DEF ClientIdle, Open, Less, TypeOK
<1>5. Transit # {} \/ toClient # {} => e = d + 1
  BY <1>1, <1>2, <1>3
<1>6. cpc = "await" /\ Coming => e = d + 1
  BY <1>4, <1>5 DEF Coming
<1>7. retry = 0
  <2>1. retry \in {0, 1}
    <3>1. retry \in 0..(MaxRetries - 1) /\ retry <= 1
      BY DEF TypeOK, Undisturbed, Attempts
    <3>. QED
      BY <3>1, BandwidthTestAssumption
  <2>2. ASSUME retry = 1 PROVE FALSE
    <3>1. cpc = "await" /\ Coming /\ u = 1
      BY <1>3, <1>4, <2>2 DEF Undisturbed, Attempts
    <3>2. e = d + 1
      BY <1>6, <3>1
    <3>. QED
      BY <1>3, <3>1, <3>2
  <2>. QED
    BY <2>1, <2>2
<1>8. cpc = "send" => Left \in Nat /\ Left' = Left - 1 /\ Left' >= 0
  <2>1. SUFFICES ASSUME cpc = "send" PROVE Left \in Nat /\ Left' = Left - 1 /\ Left' >= 0
    OBVIOUS
  <2>2. /\ At(Count - 1) \in Nat /\ At(seq - 1) \in Nat /\ At(seq - 1) <= At(Count - 1)
    <3>1. Count - 1 \in 0..Count /\ seq - 1 \in 0..(Count - 1)
      BY BandwidthTestAssumption DEF TypeOK
    <3>. QED
      BY <3>1, TargetTimes
  <2>3. Left' = sleep' + At(Count - 1) - At(seq - 1)
    BY <1>1 DEF Left
  <2>. QED
    BY <1>4, <2>2, <2>3 DEF Left
<1>9. Due \in Nat /\ Due' = Due - 1 /\ Due' >= 0
  <2>1. CASE cpc = "send"
    <3>1. Due = Left + RetryDelay /\ Due' = Left' + RetryDelay /\ RetryDelay \in Nat
      BY <1>1, <2>1, BandwidthTestAssumption DEF Due
    <3>. QED
      BY <1>8, <2>1, <3>1
  <2>2. CASE cpc = "await"
    <3>1. Due = sleep /\ Due' = sleep'
      BY <1>1, <1>7, <2>2 DEF Due
    <3>. QED
      BY <1>4, <3>1
  <2>. QED
    BY <1>4, <2>1, <2>2
<1>10. OneWorker'
  BY <1>1 DEF Undisturbed, OneWorker, Alive
<1>11. Lasting'
  <2>1. PICK n \in Nat : n = Due /\ Due' = n - 1 /\ n > 0
    BY <1>9
  <2>2. \A x \in Nat : x > n => Less(x) > n - 1
    BY DEF Less
  <2>3. deadline' > Due'
    BY <1>1, <2>1, <2>2 DEF Undisturbed, Lasting, TypeOK
  <2>4. \A w \in Workers : /\ timeout'[w] = Less(timeout[w]) /\ cleanup'[w] = Less(cleanup[w])
                           /\ timeout[w] \in Nat /\ cleanup[w] \in Nat
    BY <1>1 DEF LessEach, TypeOK
  <2>5. \A w \in Workers : /\ wpc[w] = "main" => timeout'[w] > Due'
                           /\ wpc[w] = "wait" => cleanup'[w] > Due'
    BY <2>1, <2>2, <2>4 DEF Undisturbed, Lasting
  <2>. QED
    BY <1>1, <2>3, <2>5 DEF Undisturbed, Lasting
<1>12. Attempts'
  <2>1. CASE cpc = "send"
    <3>1. Left \in 0..Duration /\ Left' \in 0..Duration
      BY <1>8, <2>1, BandwidthTestAssumption DEF Undisturbed, Attempts
    <3>. QED
      BY <1>1, <1>2, <1>7, <2>1, <3>1 DEF Undisturbed, Attempts
  <2>2. CASE cpc = "await"
    <3>1. Unheard' = 1
      <4>1. u = 0 => e = d + 1
        BY <1>3, <1>6, <2>2 DEF Undisturbed, Attempts
      <4>. QED
        BY <1>3, <4>1
    <3>2. sleep' <= RetryDelay
      BY <1>4, <2>2, BandwidthTestAssumption DEF Undisturbed, Attempts
    <3>. QED
      BY <1>1, <1>7, <2>2, <3>1, <3>2 DEF Attempts
  <2>. QED
    BY <1>4, <2>1, <2>2
<1>13. Once' /\ Told'
  BY <1>1 DEF Undisturbed, Once, Sent, Told
<1>14. Arrives'
  <2>1. CASE cpc = "send"
    <3>1. Transit # {} => e = d + 1 /\ e = 1 /\ d = 0
      BY <1>3, <1>5
    <3>2. ASSUME seq > 1
          PROVE  /\ sleep' <= Gap(seq - 1)
                 /\ seq = Count - 1 /\ sleep' < Gap(seq - 1) => delays' = 1 \/ Transit = {}
                 /\ seq = Count => Transit \subseteq {Count - 1}
                 /\ seq = Count /\ sleep' < Gap(seq - 1) => delays' = 1 \/ Transit = {}
      <4>1. seq - 1 \in 1..(Count - 1)
        BY <3>2, BandwidthTestAssumption DEF TypeOK
      <4>2. Gap(seq - 1) \in Nat /\ sleep <= Gap(seq - 1)
        BY <2>1, <3>2, <4>1, GapIsTime DEF Undisturbed, Arrives
      <4>3. sleep' <= Gap(seq - 1)
        BY <1>4, <4>2
      <4>4. seq = Count => Transit \subseteq {Count - 1}
        BY <1>3, <2>1, <3>1, <3>2 DEF Undisturbed, Arrives
      <4>. QED
        BY <1>3, <3>1, <4>3, <4>4
    <3>3. seq' = seq /\ Transit' = Transit /\ cpc' = "send"
      BY <1>1, <1>2, <2>1
    <3>4. /\ Transit' \subseteq 1..(seq - 1)
          /\ 1..(seq - 1) \subseteq counted' \cup lostPackets' \cup Transit'
      BY <1>1, <1>2, <2>1 DEF Undisturbed, Arrives
    <3>. QED
      BY <3>2, <3>3, <3>4 DEF Arrives
  <2>2. CASE cpc # "send"
    BY <1>1, <2>2 DEF Undisturbed, Arrives
  <2>. QED
    BY <2>1, <2>2
<1>. QED
  BY <1>10, <1>11, <1>12, <1>13, <1>14 DEF Undisturbed

LEMMA HearsInit ==
  ASSUME Init, RetryInTime
  PROVE  Hears
<1>1. /\ cpc = "send" /\ seq = 1 /\ retry = 0 /\ sleep = 0 /\ inHand = <<>> /\ made = 0
      /\ toServer = {} /\ toClient = {} /\ rpc = "read" /\ counted = {} /\ lostPackets = {}
      /\ deadline = 3 * StatsInterval
  BY DEF Init
<1>2. \A w \in Workers : wpc[w] = "none" /\ queue[w] = <<>> /\ total[w] = 0
  BY DEF Init
<1>3. Transit = {}
  BY <1>1, <1>2 DEF Transit, InHand, Queued, Alive
<1>4. Left \in 0..Duration
  <2>1. At(Count - 1) \in 0..Duration /\ At(0) = 0
    BY TargetTimes, BandwidthTestAssumption
  <2>. QED
    BY <1>1, <2>1, BandwidthTestAssumption DEF Left
<1>5. OneWorker
  BY <1>1, <1>2, BandwidthTestAssumption DEF OneWorker, Alive
<1>6. Lasting
  <2>1. Due = Left + RetryDelay
    BY <1>1 DEF Due
  <2>2. 3 * StatsInterval > Due
    BY <1>4, <2>1, BandwidthTestAssumption DEF RetryInTime
  <2>. QED
    BY <1>1, <1>2, <2>2 DEF Lasting
<1>7. Attempts
  BY <1>1, <1>2, <1>3, <1>4 DEF Attempts
<1>8. Once /\ Arrives
  BY <1>1, <1>3 DEF Once, Arrives
<1>9. Told
  <2>1. Cardinality({}) = 0
    BY FS_EmptySet
  <2>. QED
    BY <1>1, <1>2, <2>1 DEF Told
<1>. QED
  BY <1>1, <1>5, <1>6, <1>7, <1>8, <1>9 DEF Hears, Undisturbed, Open

\* The network's history only grows.
LEMMA HistoryGrows ==
  ASSUME TypeOK, Next
  PROVE  /\ lostPackets \subseteq lostPackets' /\ lostAnswers' >= lostAnswers
         /\ delays' >= delays /\ (down => down')
<1>1. lostAnswers \in Nat /\ delays \in Nat
  BY BandwidthTestAssumption DEF TypeOK
<1>2. CASE Client
  BY <1>1, <1>2 DEF Client, SendPacket, SendEndOfTest, TakeFinal, TakeError, RetryTimer, Drain,
     Cleanup, ReceiveEnds, ReceiveMessage, Discard, lossVars, netVars
<1>3. CASE Serve
  BY <1>1, <1>3 DEF Serve, Enqueue, ProcessPacket, SendStats, Expire, Process, ProcessRetry,
     lossVars, netVars
<1>4. CASE Lose \/ GoDown \/ Tick
  BY <1>1, <1>4 DEF Lose, LosePacket, LoseAnswer, GoDown, Tick, lossVars, netVars
<1>. QED
  BY <1>2, <1>3, <1>4 DEF Next

\* Only an answer or an end of the receiver closes a test that is not given up.
LEMMA HearsOpen ==
  ASSUME TypeOK, Undisturbed, Good, RetryInTime, Open, Client,
         ~TakeFinal, ~TakeError, ~Drain, ~Cleanup
  PROVE  Open'
<1>1. CASE SendPacket
  BY <1>1 DEF SendPacket, Undisturbed, Lasting, Open
<1>2. CASE SendEndOfTest
  BY <1>2 DEF SendEndOfTest, Good, Enough, Open
<1>3. CASE RetryTimer
  BY <1>3, HearsRetryTimer, BandwidthTestAssumption
  DEF RetryTimer, NextRetry, RetryInTime, Undisturbed, Attempts, Open
<1>4. CASE ReceiveEnds \/ \E m \in toClient : ReceiveMessage(m) \/ Discard(m)
  BY <1>4 DEF ReceiveEnds, ReceiveMessage, Discard, Open, clientVars
<1>. QED
  BY <1>1, <1>2, <1>3, <1>4 DEF Client

LEMMA HearsStutter ==
  ASSUME Hears, UNCHANGED vars
  PROVE  Hears'
<1>1. UNCHANGED <<cpc, seq, retry, sleep, result, rpc, final, deadline, toServer, toClient, down,
                  inHand, made, wpc, queue, total, counted, timeout, cleanup, lostPackets,
                  lostAnswers, delays>>
  BY DEF vars, clientVars, receiverVars, netVars, serverVars, readerVars, workerVars, statVars,
     timerVars, lossVars
<1>2. Transit' = Transit /\ Unheard' = Unheard /\ Left' = Left /\ Due' = Due
  BY <1>1, TransitMoves DEF Unheard, Left, Due
<1>3. Coming' <=> Coming
  BY <1>1, <1>2 DEF Coming
<1>4. Good' <=> Good
  BY <1>1, <1>2 DEF Good, Enough
<1>5. Open' <=> Open
  BY <1>1 DEF Open
<1>6. OneWorker /\ Lasting => OneWorker' /\ Lasting'
  BY <1>1, <1>2 DEF OneWorker, Lasting, Alive
<1>7. Attempts /\ Once => Attempts' /\ Once'
  BY <1>1, <1>2, <1>3 DEF Attempts, Once, Sent
<1>8. Arrives /\ Told => Arrives' /\ Told'
  BY <1>1, <1>2 DEF Arrives, Told
<1>. QED
  BY <1>1, <1>4, <1>5, <1>6, <1>7, <1>8 DEF Hears, Undisturbed

LEMMA HearsStep ==
  ASSUME TypeOK, TypeOK', EntryInv, RetryInTime, Hears, Next
  PROVE  Hears'
<1>1. SUFFICES ASSUME Good' PROVE IF Open' THEN Undisturbed' ELSE result'.status = 1
  BY DEF Hears, Open
<1>2. Good
  BY <1>1, HistoryGrows, GoodBefore
<1>3. CASE ~Open
  BY <1>2, <1>3, HearsClosed DEF Hears
<1>4. CASE Open
  <2>1. Undisturbed
    BY <1>2, <1>4 DEF Hears
  <2>2. CASE TakeFinal
    <3>1. ~Open'
      BY <2>2 DEF TakeFinal, Open
    <3>. QED
      BY <2>1, <2>2, <3>1, HearsTakeFinal
  <2>3. CASE Client /\ ~TakeFinal
    <3>1. Undisturbed'
      BY <1>1, <1>2, <1>4, <2>1, <2>3, HearsNoEnd, HearsSendPacket, HearsSendEndOfTest,
         HearsRetryTimer, HearsReceiveMessage DEF Client
    <3>2. Open'
      BY <1>2, <1>4, <2>1, <2>3, HearsNoEnd, HearsOpen
    <3>. QED
      BY <3>1, <3>2
  <2>4. CASE Serve
    <3>1. Undisturbed'
      BY <1>1, <1>2, <1>4, <2>1, <2>4, HearsNoEnd, HearsProcessPacket, HearsEnqueue,
         HearsSendStats, HearsProcess, HearsProcessRetry DEF Serve
    <3>2. Open'
      BY <1>4, <2>4 DEF Serve, Enqueue, ProcessPacket, SendStats, Expire, Process, ProcessRetry,
         Open, clientVars
    <3>. QED
      BY <3>1, <3>2
  <2>5. CASE Lose \/ GoDown \/ Tick
    <3>1. ~GoDown
      BY <1>1 DEF GoDown, Good, Enough
    <3>2. Undisturbed'
      BY <1>1, <1>2, <1>4, <2>1, <2>5, <3>1, HearsLosePacket, HearsLoseAnswer, HearsTick DEF Lose
    <3>3. Open'
      BY <1>4, <2>5 DEF Lose, LosePacket, LoseAnswer, GoDown, Tick, Open, clientVars
    <3>. QED
      BY <3>2, <3>3
  <2>. QED
    BY <2>2, <2>3, <2>4, <2>5 DEF Next
<1>. QED
  BY <1>3, <1>4

\* A test of which enough packets arrived returns a result if one end packet or
\* answer at most was lost or late (client.go, the retries of runTest; server.go, the
\* wait of clientWorker), for any number of packets, timers, losses and delays, if
\* RetryInTime: until it returns the worker it began with is there, no timeout of the
\* server or the receiver has expired, and an answer comes to the first attempt or the
\* second.
THEOREM RecoversFromOneLossHolds == RetryInTime /\ Spec => []RecoversFromOneLoss
<1>. SUFFICES ASSUME RetryInTime PROVE Spec => []RecoversFromOneLoss
  OBVIOUS
<1>1. Init => EntryInv /\ Hears
  BY HearsInit, EntryInit
<1>2. TypeOK /\ TypeOK' /\ EntryInv /\ Hears /\ [Next]_vars => EntryInv' /\ Hears'
  <2>1. SUFFICES ASSUME TypeOK, TypeOK', EntryInv, Hears, [Next]_vars PROVE Hears'
    BY EntryStep
  <2>2. UNCHANGED vars => Hears'
    BY <2>1, HearsStutter
  <2>. QED
    BY <2>1, <2>2, HearsStep
<1>3. Hears => RecoversFromOneLoss
  BY DEF Hears, Good, Open, RecoversFromOneLoss
<1>. QED
  BY <1>1, <1>2, <1>3, TypeCorrect, PTL DEF Spec
===============================================================================
