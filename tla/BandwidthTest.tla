----------------------------- MODULE BandwidthTest -----------------------------
(***************************************************************************)
(* One UDP bandwidth test: MeasureUDP with its receiving goroutine         *)
(* (internal/measure/bandwidth/client.go) against the server that every    *)
(* daemon runs (server.go), over a network that loses and reorders.        *)
(*                                                                         *)
(* A test has a socket, and so an address, of its own; the server's state  *)
(* for other addresses is independent of it.                               *)
(*                                                                         *)
(* Time advances in units when nobody can take a step and no timer is due, *)
(* so goroutines take less than a unit, and what falls into the same unit  *)
(* happens in any order.  So do messages, but for Delays of them.          *)
(*                                                                         *)
(* Packets 1..Count-1 carry data; Count, Count+1, ... are the attempts to  *)
(* send the end packet, which the server cannot tell from each other.      *)
(***************************************************************************)
EXTENDS Integers, Sequences, FiniteSets

CONSTANTS
  Count,          \* packetsCount
  MinTotal,       \* parseStats refuses so few packets; 10 in the code
  Duration,       \* bandwidth.duration
  MaxRetries,     \* bandwidth.maxretries
  RetryDelay,     \* bandwidth.retrydelay
  StatsInterval,  \* bandwidth.statsinterval
  Timeout,        \* bandwidth.timeout
  Losses,         \* bound: messages the network loses while it is up
  Delays,         \* bound: units that pass with messages in flight
  MaxWorkers      \* bound: workers the server starts for the address

\* validateFlags; it also lets MaxRetries be 0 and Count be 0.
ASSUME BandwidthTestAssumption ==
  /\ Count \in Nat \ {0} /\ MaxRetries \in Nat \ {0}
  /\ MinTotal \in Nat /\ Duration \in Nat /\ Losses \in Nat /\ Delays \in Nat
  /\ RetryDelay \in Nat \ {0} /\ StatsInterval \in Nat \ {0}
  /\ Timeout \in Nat /\ Timeout > StatsInterval
  /\ MaxWorkers \in Nat

Data == 1..(Count - 1)
Ends == Count..(Count + MaxRetries - 1)
Packet == Data \cup Ends
SeqNo(p) == IF p \in Data THEN p ELSE Count   \* math.MaxUint32
Workers == 1..MaxWorkers

\* missing is history: data packets no worker had counted when a FINAL was sent.
Answer == [kind : {"STATS", "FINAL"}, total : Nat, dropped : Nat, missing : Nat]

VARIABLES
  cpc,       \* runTest: "send", "end", "await"; then "cleanup", "done"
  seq,       \* seqNumber
  retry,
  sleep,     \* units until the client's timer fires
  result,    \* Status, and the counts Loss is computed from
  failed,    \* does MeasureUDP return an error?
  rpc,       \* receiveMessage: "read", "final", "error" (handing over), "gone"
  final,     \* the FINAL it hands over
  deadline,  \* units until the read deadline
  toServer, toClient,   \* messages in flight
  down,      \* the tunnel, or the server, is gone
  entry,     \* s.clients: the worker of the address, 0 if there is none
  inHand,    \* packet processPacket is about to put into a channel
  made,      \* workers started
  wpc,       \* clientWorker: "none", "main", "wait" (for retries), "gone"
  queue,     \* receiveChan
  total, dropped, highest,   \* ClientStats
  timeout, ticker, cleanup,  \* units until a worker's timers fire
  counted, lostPackets, lostAnswers, delays   \* history

clientVars == <<cpc, seq, retry, sleep, result, failed>>
receiverVars == <<rpc, final, deadline>>
netVars == <<toServer, toClient, down>>
readerVars == <<entry, inHand, made>>
statVars == <<total, dropped, highest>>
timerVars == <<timeout, ticker, cleanup>>
lossVars == <<lostPackets, lostAnswers, delays>>
workerVars == <<wpc, queue, statVars, timerVars, counted>>
serverVars == <<readerVars, workerVars>>
vars == <<clientVars, receiverVars, netVars, serverVars, lossVars>>

NoResult == [status |-> 0, total |-> 0, dropped |-> 0, missing |-> 0]
Stats == [kind |-> "STATS", total |-> 0, dropped |-> 0, missing |-> 0]
Final(t, d) == [kind |-> "FINAL", total |-> t, dropped |-> d,
                missing |-> Cardinality(Data \ counted)]

TypeOK ==
  /\ cpc \in {"send", "end", "await", "cleanup", "done"}
  /\ seq \in 1..Count /\ retry \in 0..(MaxRetries - 1) /\ sleep \in Nat
  /\ result \in [status : {0, 1}, total : Nat, dropped : Nat, missing : Nat]
  /\ failed \in BOOLEAN
  /\ rpc \in {"read", "final", "error", "gone"}
  /\ final \in Answer /\ deadline \in Nat
  /\ toServer \subseteq Packet /\ toClient \subseteq Answer /\ down \in BOOLEAN
  /\ entry \in Workers \cup {0} /\ made \in 0..MaxWorkers
  /\ inHand \in {<<>>} \cup (Packet \X Workers)
  /\ wpc \in [Workers -> {"none", "main", "wait", "gone"}]
  /\ queue \in [Workers -> Seq(Packet)]
  /\ total \in [Workers -> Nat] /\ dropped \in [Workers -> Nat]
  /\ highest \in [Workers -> 0..Count]
  /\ timeout \in [Workers -> Nat] /\ ticker \in [Workers -> Nat]
  /\ cleanup \in [Workers -> Nat]
  /\ counted \subseteq Data /\ lostPackets \subseteq Packet /\ lostAnswers \in Nat
  /\ delays \in 0..Delays

Init ==
  /\ cpc = "send" /\ seq = 1 /\ retry = 0 /\ sleep = 0
  /\ result = NoResult /\ failed = FALSE
  /\ rpc = "read" /\ final = Stats /\ deadline = 3 * StatsInterval
  /\ toServer = {} /\ toClient = {} /\ down = FALSE
  /\ entry = 0 /\ inHand = <<>> /\ made = 0
  /\ wpc = [w \in Workers |-> "none"]
  /\ queue = [w \in Workers |-> <<>>]
  /\ total = [w \in Workers |-> 0] /\ dropped = [w \in Workers |-> 0]
  /\ highest = [w \in Workers |-> 0]
  /\ timeout = [w \in Workers |-> 0] /\ ticker = [w \in Workers |-> 0]
  /\ cleanup = [w \in Workers |-> 0]
  /\ counted = {} /\ lostPackets = {} /\ lostAnswers = 0
  /\ delays = 0

------------------------------------------------------------------------------
(* The client.                                                              *)

\* The deferred cleanup closes the socket and stopCh.
ReturnError ==
  /\ cpc' = "cleanup"
  /\ failed' = TRUE

\* Units from packet n to its target time.
Gap(n) == ((n * Duration) \div Count) - (((n - 1) * Duration) \div Count)

\* One iteration of the send loop, which looks for an error without waiting.
SendPacket ==
  /\ cpc = "send" /\ sleep = 0 /\ seq < Count
  /\ toServer' = toServer \cup {seq}
  /\ \/ /\ rpc = "error"
        /\ rpc' = "gone"
        /\ ReturnError
        /\ UNCHANGED <<seq, sleep>>
     \/ /\ rpc # "error"
        /\ seq' = seq + 1
        /\ sleep' = Gap(seq)
        /\ UNCHANGED <<rpc, cpc, failed>>
  /\ UNCHANGED <<retry, result, final, deadline, toClient, down, serverVars, lossVars>>

\* sendEndOfTest, at the end of the send loop and for each retry; a write may
\* report that an earlier packet was refused.
SendEndOfTest ==
  /\ \/ cpc = "send" /\ sleep = 0 /\ seq = Count
     \/ cpc = "end"
  /\ \/ /\ toServer' = toServer \cup {Count + retry}
        /\ cpc' = "await"
        /\ sleep' = RetryDelay
        /\ UNCHANGED failed
     \/ /\ down
        /\ ReturnError
        /\ UNCHANGED <<toServer, sleep>>
  /\ UNCHANGED <<seq, retry, result, receiverVars, toClient, down, serverVars, lossVars>>

\* Mutant of NextRetry: one attempt too many.
NextRetryTooFar ==
  IF retry = MaxRetries
  THEN ReturnError /\ UNCHANGED retry
  ELSE cpc' = "end" /\ retry' = retry + 1 /\ UNCHANGED failed

NextRetry ==
  IF retry = MaxRetries - 1
  THEN ReturnError /\ UNCHANGED retry
  ELSE cpc' = "end" /\ retry' = retry + 1 /\ UNCHANGED failed

Success(m) ==
  [status |-> 1, total |-> m.total, dropped |-> m.dropped, missing |-> m.missing]

\* Mutant of ParseStats: any number of packets will do.
ParseStatsAny(m) ==
  /\ result' = Success(m)
  /\ UNCHANGED failed

\* parseStats.
ParseStats(m) ==
  \/ /\ m.total <= MinTotal
     /\ failed' = TRUE
     /\ UNCHANGED result
  \/ /\ m.total > MinTotal
     /\ result' = Success(m)
     /\ UNCHANGED failed

TakeFinal ==
  /\ cpc = "await" /\ rpc = "final"
  /\ ParseStats(final)
  /\ cpc' = "cleanup"
  /\ rpc' = "read"
  /\ UNCHANGED <<seq, retry, sleep, final, deadline, netVars, serverVars, lossVars>>

\* An error of the receiver counts as an attempt; the receiver has ended.
TakeError ==
  /\ cpc = "await" /\ rpc = "error"
  /\ rpc' = "gone"
  /\ NextRetry
  /\ UNCHANGED <<seq, sleep, result, final, deadline, netVars, serverVars, lossVars>>

RetryTimer ==
  /\ cpc = "await" /\ sleep = 0
  /\ NextRetry
  /\ UNCHANGED <<seq, sleep, result, receiverVars, netVars, serverVars, lossVars>>

\* Mutant of Drain: only errors are taken.
DrainErrors ==
  /\ cpc = "cleanup"
  /\ rpc = "error" /\ rpc' = "gone"
  /\ UNCHANGED <<clientVars, final, deadline, netVars, serverVars, lossVars>>

\* cleanup takes what the receiver has left to hand over ...
Drain ==
  /\ cpc = "cleanup"
  /\ \/ rpc = "final" /\ rpc' = "read"
     \/ rpc = "error" /\ rpc' = "gone"
  /\ UNCHANGED <<clientVars, final, deadline, netVars, serverVars, lossVars>>

\* ... until it has ended, long before the five intervals it would wait.
Cleanup ==
  /\ cpc = "cleanup" /\ rpc = "gone"
  /\ cpc' = "done"
  /\ UNCHANGED <<seq, retry, sleep, result, failed, receiverVars, netVars, serverVars, lossVars>>

------------------------------------------------------------------------------
(* receiveMessage.                                                          *)

Open == cpc \notin {"cleanup", "done"}

ReceiveMessage(m) ==
  /\ rpc = "read" /\ Open
  /\ m \in toClient
  /\ toClient' = toClient \ {m}
  /\ \/ /\ m.kind = "FINAL"
        /\ rpc' = "final" /\ final' = m
        /\ UNCHANGED deadline
     \/ /\ m.kind = "STATS"
        /\ deadline' = 3 * StatsInterval
        /\ UNCHANGED <<rpc, final>>
  /\ UNCHANGED <<clientVars, toServer, down, serverVars, lossVars>>

\* The read deadline, a refused packet, or stopCh or the closed socket.
ReceiveEnds ==
  /\ rpc = "read"
  /\ \/ (deadline = 0 \/ down) /\ rpc' = "error"
     \/ cpc = "cleanup" /\ rpc' \in {"error", "gone"}
  /\ UNCHANGED <<clientVars, final, deadline, netVars, serverVars, lossVars>>

\* Nobody reads the socket any more.
Discard(m) ==
  /\ m \in toClient
  /\ ~Open \/ rpc \in {"error", "gone"}
  /\ toClient' = toClient \ {m}
  /\ UNCHANGED <<clientVars, receiverVars, toServer, down, serverVars, lossVars>>

------------------------------------------------------------------------------
(* The server.                                                              *)

\* processPacket finds or makes the channel of the address under the lock ...
ProcessPacket(p) ==
  /\ ~down
  /\ inHand = <<>>
  /\ p \in toServer
  /\ toServer' = toServer \ {p}
  /\ \/ /\ entry # 0
        /\ inHand' = <<p, entry>>
        /\ UNCHANGED <<entry, made, wpc, timeout, ticker>>
     \/ /\ entry = 0 /\ made < MaxWorkers
        /\ made' = made + 1
        /\ entry' = made + 1
        /\ inHand' = <<p, made + 1>>
        /\ wpc' = [wpc EXCEPT ![made + 1] = "main"]
        /\ timeout' = [timeout EXCEPT ![made + 1] = Timeout]
        /\ ticker' = [ticker EXCEPT ![made + 1] = StatsInterval]
  /\ UNCHANGED <<clientVars, receiverVars, toClient, down, queue, statVars, cleanup, counted, lossVars>>

\* ... and sends to it without the lock.
Enqueue ==
  /\ inHand # <<>>
  /\ queue' = [queue EXCEPT ![inHand[2]] = Append(@, inHand[1])]
  /\ inHand' = <<>>
  /\ UNCHANGED <<clientVars, receiverVars, netVars, entry, made, wpc, statVars, timerVars,
                 counted, lossVars>>

\* The content of a heartbeat is ignored by the client.
SendStats(w) ==
  /\ wpc[w] = "main" /\ ticker[w] = 0
  /\ ticker' = [ticker EXCEPT ![w] = StatsInterval]
  /\ toClient' = IF total[w] > 0
                 THEN toClient \cup {Stats}
                 ELSE toClient
  /\ UNCHANGED <<clientVars, receiverVars, toServer, down, readerVars, wpc, queue, statVars,
                 timeout, cleanup, counted, lossVars>>

\* Mutant of Leave: the worker of a finished test stays in the map.
LeaveEntry(w) == wpc' = [wpc EXCEPT ![w] = "gone"] /\ UNCHANGED entry

\* delete(s.clients, ...) removes the entry of the address, whoever owns it.
Leave(w) ==
  /\ wpc' = [wpc EXCEPT ![w] = "gone"]
  /\ entry' = 0

Expire(w) ==
  /\ \/ wpc[w] = "main" /\ timeout[w] = 0
     \/ wpc[w] = "wait" /\ cleanup[w] = 0
  /\ Leave(w)
  /\ UNCHANGED <<clientVars, receiverVars, netVars, inHand, made, queue, statVars, timerVars,
                 counted, lossVars>>

\* The statistics after packet p; a late one counts as dropped (the threshold
\* bandwidth.outoforder is 0 unless it is set) and in the total.
UpdateStats(w, p) ==
  /\ total' = [total EXCEPT ![w] = @ + 1]
  /\ dropped' = [dropped EXCEPT ![w] =
                   IF total[w] > 0 /\ SeqNo(p) <= highest[w] THEN @ + 1 ELSE @]
  /\ highest' = [highest EXCEPT ![w] = IF SeqNo(p) > @ THEN SeqNo(p) ELSE @]
  /\ counted' = counted \cup ({p} \cap Data)

Dequeue(w) == queue' = [queue EXCEPT ![w] = Tail(@)]

\* Mutant of CleanupDelay: as long as a retry takes.
CleanupDelayOnce == RetryDelay

CleanupDelay == 2 * RetryDelay

\* A packet in the main loop; after an end packet the worker waits for a retry.
Process(w) ==
  /\ wpc[w] = "main" /\ queue[w] # <<>>
  /\ Dequeue(w)
  /\ UpdateStats(w, Head(queue[w]))
  /\ \/ /\ Head(queue[w]) \in Ends
        /\ toClient' = toClient \cup {Final(total'[w], dropped'[w])}
        /\ wpc' = [wpc EXCEPT ![w] = "wait"]
        /\ cleanup' = [cleanup EXCEPT ![w] = CleanupDelay]
        /\ UNCHANGED timeout
     \/ /\ Head(queue[w]) \in Data
        /\ timeout' = [timeout EXCEPT ![w] = Timeout]
        /\ UNCHANGED <<toClient, wpc, cleanup>>
  /\ UNCHANGED <<clientVars, receiverVars, toServer, down, readerVars, ticker, lossVars>>

\* The first packet after it is answered if it is a retry; then the worker is
\* back in its main loop, whatever it was.
ProcessRetry(w) ==
  /\ wpc[w] = "wait" /\ queue[w] # <<>>
  /\ Dequeue(w)
  /\ toClient' = IF Head(queue[w]) \in Ends
                 THEN toClient \cup {Final(total[w], dropped[w])}
                 ELSE toClient
  /\ wpc' = [wpc EXCEPT ![w] = "main"]
  /\ timeout' = [timeout EXCEPT ![w] = Timeout]
  /\ UNCHANGED <<clientVars, receiverVars, toServer, down, readerVars, statVars, ticker, cleanup,
                 counted, lossVars>>

------------------------------------------------------------------------------
(* The network and time.                                                    *)

CanLose == down \/ Cardinality(lostPackets) + lostAnswers < Losses

\* An unreachable server or route may be reported to the receiver.
LosePacket(p) ==
  /\ p \in toServer
  /\ CanLose
  /\ toServer' = toServer \ {p}
  /\ lostPackets' = lostPackets \cup {p}
  /\ rpc' \in IF down /\ Open /\ rpc = "read" THEN {rpc, "error"} ELSE {rpc}
  /\ UNCHANGED <<clientVars, final, deadline, toClient, down, serverVars, lostAnswers, delays>>

LoseAnswer(m) ==
  /\ m \in toClient
  /\ CanLose
  /\ toClient' = toClient \ {m}
  /\ lostAnswers' = lostAnswers + 1
  /\ UNCHANGED <<clientVars, receiverVars, toServer, down, serverVars, lostPackets, delays>>

GoDown ==
  /\ ~down
  /\ down' = TRUE
  /\ UNCHANGED <<clientVars, receiverVars, toServer, toClient, serverVars, lossVars>>

WorkerIdle(w) ==
  /\ wpc[w] = "main" => timeout[w] > 0 /\ ticker[w] > 0
  /\ wpc[w] = "wait" => cleanup[w] > 0
  /\ wpc[w] \in {"main", "wait"} => queue[w] = <<>>

ClientIdle ==
  /\ cpc \in {"send", "await"} => sleep > 0
  /\ cpc \in {"send", "await", "done"}
  /\ cpc = "await" => rpc \notin {"final", "error"}
  /\ rpc = "read" => deadline > 0

Running == cpc # "done" \/ \E w \in Workers : wpc[w] \in {"main", "wait"}

Less(n) == IF n = 0 THEN 0 ELSE n - 1
LessEach(f) == [w \in Workers |-> Less(f[w])]

Tick ==
  /\ Running
  /\ \/ toServer = {} /\ toClient = {} /\ UNCHANGED delays
     \/ delays < Delays /\ delays' = delays + 1
  /\ inHand = <<>>
  /\ ClientIdle /\ \A w \in Workers : WorkerIdle(w)
  /\ sleep' = Less(sleep) /\ deadline' = Less(deadline)
  /\ timeout' = LessEach(timeout) /\ ticker' = LessEach(ticker) /\ cleanup' = LessEach(cleanup)
  /\ UNCHANGED <<cpc, seq, retry, result, failed, rpc, final, netVars, readerVars, wpc, queue,
                 statVars, counted, lostPackets, lostAnswers>>

Client ==
  \/ SendPacket \/ SendEndOfTest \/ TakeFinal \/ TakeError \/ RetryTimer \/ Drain \/ Cleanup
  \/ ReceiveEnds \/ \E m \in toClient : ReceiveMessage(m) \/ Discard(m)

Serve ==
  \/ Enqueue \/ \E p \in toServer : ProcessPacket(p)
  \/ \E w \in Workers : SendStats(w) \/ Expire(w) \/ Process(w) \/ ProcessRetry(w)

Lose == (\E p \in toServer : LosePacket(p)) \/ (\E m \in toClient : LoseAnswer(m))

Next == Client \/ Serve \/ Lose \/ GoDown \/ Tick

Spec == Init /\ [][Next]_vars

\* Runnable goroutines run, messages arrive or are lost, and time passes.
FairSpec == Spec /\ WF_vars(Client \/ Serve \/ (down /\ Lose) \/ Tick)

------------------------------------------------------------------------------
(* Properties.                                                              *)

\* The address has exactly one worker that is alive, the one in s.clients: a
\* worker that ends never leaves its channel behind or takes the entry of its
\* successor away, although packets are sent to a channel without the lock.
EntryOwned == \A w \in Workers : wpc[w] \in {"main", "wait"} <=> entry = w

\* A result speaks of the whole test: it never shows more packets lost (the Loss
\* of parseStats) than the server had failed to count, even if the server forgot the
\* test before a retry of the end packet and answered it as a test of its own.
LossNotOverstated ==
  result.status = 1 =>
    Count - result.total - result.dropped <= result.missing

Enough ==
  /\ ~down
  /\ Cardinality(Data \ lostPackets) >= MinTotal
  /\ delays > 0 => lostPackets \subseteq Ends
Unheard == Cardinality(Ends \cap lostPackets) + lostAnswers + delays

\* One lost or late end packet or answer does not spoil a test of which enough arrived.
RecoversFromOneLoss == cpc = "done" /\ Enough /\ Unheard <= 1 => result.status = 1

\* MeasureUDP returns and leaves no goroutine behind, and the server forgets its
\* client, whatever was lost and wherever either of them stopped.
TestEnds ==
  /\ <>(cpc = "done" /\ rpc = "gone")
  /\ <>[](entry = 0 /\ \A w \in Workers : wpc[w] \in {"none", "gone"})
===============================================================================
