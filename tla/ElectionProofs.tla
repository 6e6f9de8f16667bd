----------------------------- MODULE ElectionProofs ----------------------------
(****************************************************************************)
(* Type correctness of Election, and the end of every wait for a VICTORY,   *)
(* for clusters of any size, any durations and any crash; and, as long as   *)
(* the nodes start, and notice a failure, close enough to each other, the   *)
(* victory of the highest node and of no other.                             *)
(****************************************************************************)
EXTENDS Election, TLAPS

Code     == {"ELECTION", "ALIVE", "VICTORY"}
Channels == [Node -> [Node -> Seq(Code)]]

--------------------------------------------------------------------------------
(* The network operators keep channels of messages.                         *)

\* send appends to one channel or leaves all as they are.
LEMMA SendType ==
  ASSUME NEW chan \in Channels, NEW s \in Node, NEW d \in Node, NEW m \in Code
  PROVE  Send(chan, s, d, m) \in Channels
<1>1. Append(chan[s][d], m) \in Seq(Code)
  BY DEF Channels
<1> QED
  BY <1>1 DEF Send, send, Channels

\* broadcast appends the message to some of the sender's channels.
LEMMA BroadcastType ==
  ASSUME NEW chan \in Channels, NEW s \in Node, NEW lo, NEW m \in Code
  PROVE  Broadcast(chan, s, lo, m) \in Channels
<1>1. \A d \in Node : Append(chan[s][d], m) \in Seq(Code)
  BY DEF Channels
<1> QED
  BY <1>1 DEF Broadcast, broadcast, Channels

\* consume takes the head of a channel that has one.
LEMMA ConsumeType ==
  ASSUME NEW chan \in Channels, NEW s \in Node, NEW d \in Node,
         chan[s][d] # << >>
  PROVE  consume(chan, s, d) \in Channels
<1>1. Tail(chan[s][d]) \in Seq(Code)
  BY DEF Channels
<1> QED
  BY <1>1 DEF consume, Channels

\* Sleeps are at least a second long.
LEMMA Durations ==
  /\ ELECTION_WAIT_DURATION \in Nat /\ AliveSleep \in Nat
  /\ AliveSleep \in 1 .. AliveSleep
  /\ FailureSleep \in Nat
  /\ MaxDown \in Nat
BY ElectionAssumption DEF AliveSleep, FailureSleep, MaxDown

--------------------------------------------------------------------------------
(* Threads, counted by where they are.                                      *)

\* A thread that goes from one step to another, or ends, leaves a count of
\* threads before each step.
LEMMA MoveType ==
  ASSUME NEW Step, NEW f \in [Node -> [Step -> Nat]], NEW n \in Node,
         NEW from \in Step, f[n][from] > 0
  PROVE  /\ [f EXCEPT ![n][from] = @ - 1] \in [Node -> [Step -> Nat]]
         /\ \A to \in Step :
              [f EXCEPT ![n][from] = @ - 1, ![n][to] = @ + 1]
                \in [Node -> [Step -> Nat]]
<1> DEFINE g == [f EXCEPT ![n][from] = @ - 1]
<1>1. f[n][from] - 1 \in Nat
  OBVIOUS
<1>2. g \in [Node -> [Step -> Nat]]
  BY <1>1
<1>3. ASSUME NEW to \in Step
      PROVE  [g EXCEPT ![n][to] = @ + 1] \in [Node -> [Step -> Nat]]
  <2> HIDE DEF g
  <2>1. g[n][to] + 1 \in Nat
    BY <1>2
  <2> QED
    BY <1>2, <2>1
<1> QED
  BY <1>2, <1>3

\* So does a new thread.
LEMMA SpawnType ==
  ASSUME NEW Step, NEW f \in [Node -> [Step -> Nat]], NEW n \in Node,
         NEW to \in Step
  PROVE  [f EXCEPT ![n][to] = @ + 1] \in [Node -> [Step -> Nat]]
<1>1. f[n][to] + 1 \in Nat
  OBVIOUS
<1> QED
  BY <1>1

--------------------------------------------------------------------------------
(* The types.                                                               *)

\* The managers start with empty channels, no leader and no threads.
LEMMA TypeInit == Init => TypeOK
<1> SUFFICES ASSUME Init PROVE TypeOK
  OBVIOUS
<1>1. \A n \in Node : startIn[n] \in Int /\ -1 <= startIn[n]
  BY ElectionAssumption DEF Init
<1>2. startIn \in [Node -> Int]
  BY ElectionAssumption DEF Init
<1>3. /\ start \in [Node -> 0 .. ELECTION_WAIT_DURATION]
      /\ downFor \in 0 .. MaxDown
  BY Durations, ElectionAssumption DEF Init
<1>4. /\ trigger \in [Node -> [TriggerStep -> Nat]]
      /\ waiting \in [Node -> [WaitStep -> Nat]]
      /\ asleep \in [Node -> [1 .. AliveSleep -> Nat]]
  BY DEF Init
<1>5. /\ net \in [Node -> [Node -> Seq({"ELECTION", "ALIVE", "VICTORY"})]]
      /\ processIsAlive \in [Node -> [Index -> BOOLEAN]]
  BY DEF Init, EmptyChannels, AllAlive
<1> QED
  BY <1>1, <1>2, <1>3, <1>4, <1>5 DEF Init, TypeOK

\* broadcastElection resets what it resets within its type.
LEMMA BroadcastElectionType ==
  ASSUME TypeOK, NEW n \in Node, NEW chan \in Channels,
         broadcastElection(n, chan)
  PROVE  /\ net' \in Channels
         /\ aliveReceived' \in [Node -> BOOLEAN]
         /\ leaderNodeId' \in [Node -> Node \cup {-1}]
         /\ start' \in [Node -> 0 .. ELECTION_WAIT_DURATION]
<1>1. net' \in Channels
  BY BroadcastType DEF broadcastElection, Code
<1> QED
  BY <1>1, Durations DEF TypeOK, broadcastElection

\* A trigger thread moves from one of its steps to another or ends.
LEMMA TriggerThreadType ==
  ASSUME TypeOK, NEW n \in Node, TriggerThreadStep(n)
  PROVE  TypeOK'
<1> USE DEF TypeOK, shared, threads, failure
<1>a. net \in Channels
  BY DEF Channels, Code
<1>b. /\ "wait" \in TriggerStep /\ "check" \in TriggerStep
      /\ "declare" \in TriggerStep
  BY DEF TriggerStep
<1>1. CASE StartElection(n)
  <2>1. broadcastElection(n, net)
    BY <1>1 DEF StartElection
  <2>2. trigger' \in [Node -> [TriggerStep -> Nat]]
    BY <1>1 DEF StartElection, TriggerStep
  <2>3. startIn' \in [Node -> Int] /\ \A k \in Node : -1 <= startIn'[k]
    BY <1>1 DEF StartElection
  <2> QED
    BY <1>1, <1>a, <2>1, <2>2, <2>3, BroadcastElectionType
    DEF StartElection, Channels, Code
<1>2. CASE StopWaiting(n)
  <2>1. trigger' \in [Node -> [TriggerStep -> Nat]]
    BY <1>2, MoveType, <1>b
    DEF StopWaiting, TriggerAt, TriggerMoves
  <2> QED
    BY <1>2, <2>1 DEF StopWaiting
<1>3. CASE LeaderFound(n)
  BY <1>3 DEF LeaderFound, TriggerAt, TriggerEnds, TriggerStep
<1>4. CASE DeclareVictory(n)
  <2>1. net' \in Channels
    BY <1>4, <1>a, BroadcastType DEF DeclareVictory, Code
  <2>2. trigger' \in [Node -> [TriggerStep -> Nat]]
    BY <1>4, MoveType, <1>b
    DEF DeclareVictory, TriggerAt, TriggerMoves
  <2> QED
    BY <1>4, <2>1, <2>2 DEF DeclareVictory, Channels, Code
<1>5. CASE BecomeLeader(n)
  BY <1>5 DEF BecomeLeader, TriggerAt, TriggerEnds, TriggerStep,
              setLeaderNodeId
<1> QED
  BY <1>1, <1>2, <1>3, <1>4, <1>5 DEF TriggerThreadStep

\* So does an aliveWait thread; its sleep is as long as the longest there is.
LEMMA AliveWaitThreadType ==
  ASSUME TypeOK, NEW n \in Node, AliveWaitThreadStep(n)
  PROVE  TypeOK'
<1> USE DEF TypeOK, shared, threads, failure
<1>a. net \in Channels
  BY DEF Channels, Code
<1>b. /\ "set" \in WaitStep /\ "check" \in WaitStep
      /\ "restart" \in WaitStep /\ "clear" \in WaitStep
  BY DEF WaitStep
<1>1. CASE WaitSet(n)
  <2>1. waiting' \in [Node -> [WaitStep -> Nat]]
    BY <1>1, <1>b, MoveType DEF WaitSet, WaitAt
  <2>2. asleep' \in [Node -> [1 .. AliveSleep -> Nat]]
    BY <1>1, SpawnType, Durations DEF WaitSet
  <2> QED
    BY <1>1, <2>1, <2>2 DEF WaitSet, setAliveReceived
<1>2. CASE WaitCheck(n)
  <2>1. waiting' \in [Node -> [WaitStep -> Nat]]
    BY <1>2, <1>b, MoveType DEF WaitCheck, WaitAt, WaitMoves
  <2> QED
    BY <1>2, <2>1 DEF WaitCheck
<1>3. CASE WaitRestart(n)
  <2>1. waiting' \in [Node -> [WaitStep -> Nat]]
    BY <1>3, <1>b, MoveType DEF WaitRestart, WaitAt, WaitMoves
  <2>2. broadcastElection(n, net)
    BY <1>3 DEF WaitRestart
  <2> QED
    BY <1>3, <1>a, <2>1, <2>2, BroadcastElectionType
    DEF WaitRestart, Channels, Code
<1>4. CASE WaitClear(n)
  <2>1. waiting' \in [Node -> [WaitStep -> Nat]]
    BY <1>4, <1>b, MoveType DEF WaitClear, WaitAt
  <2> QED
    BY <1>4, <2>1 DEF WaitClear, setAliveReceived
<1> QED
  BY <1>1, <1>2, <1>3, <1>4 DEF AliveWaitThreadStep

\* So does the election thread, which answers, spawns and learns.
LEMMA ElectionThreadType ==
  ASSUME TypeOK, NEW n \in Node, NEW src \in Node, ElectionThreadStep(n, src)
  PROVE  TypeOK'
<1> USE DEF TypeOK, shared, threads, failure
<1>a. net[src][n] # << >> /\ consume(net, src, n) \in Channels
  <2>1. net \in Channels
    BY DEF Channels, Code
  <2>2. net[src][n] # << >>
    BY DEF ElectionThreadStep, ReceiveDropped, HandleElection, HandleAlive,
           HandleVictory, Handling, Deliverable
  <2> QED
    BY <2>1, <2>2, ConsumeType
<1>1. CASE ReceiveDropped(n, src)
  BY <1>1, <1>a DEF ReceiveDropped, Channels, Code
<1>2. CASE HandleElection(n, src)
  <2> DEFINE chan == Send(consume(net, src, n), n, src, "ALIVE")
  <2>1. chan \in Channels
    BY <1>a, SendType DEF Code
  <2>2. broadcastElection(n, chan)
    BY <1>2 DEF HandleElection
  <2> HIDE DEF chan
  <2> QED
    BY <1>2, <2>1, <2>2, BroadcastElectionType
    DEF HandleElection, Channels, Code
<1>3. CASE HandleAlive(n, src)
  <2>1. waiting' \in [Node -> [WaitStep -> Nat]]
    BY <1>3, SpawnType, "set" \in WaitStep DEF HandleAlive, WaitStep
  <2> QED
    BY <1>3, <1>a, <2>1 DEF HandleAlive, Channels, Code
<1>4. CASE HandleVictory(n, src)
  BY <1>4, <1>a DEF HandleVictory, setLeaderNodeId, Channels, Code
<1> QED
  BY <1>1, <1>2, <1>3, <1>4 DEF ElectionThreadStep

\* So does the failure detector.
LEMMA FailureType ==
  ASSUME TypeOK, NEW n \in Node, NEW m \in Node,
         Crash(n) \/ handleNodeFailure(n, m)
  PROVE  TypeOK'
<1> USE DEF TypeOK, shared, threads, failure
<1>1. CASE Crash(n)
  BY <1>1 DEF Crash
<1>2. CASE handleNodeFailure(n, m)
  <2>1. processIsAlive' \in [Node -> [Index -> BOOLEAN]]
    BY <1>2 DEF handleNodeFailure, setNodeStatus
  <2>2. startIn' \in [Node -> Int] /\ \A k \in Node : -1 <= startIn'[k]
    BY <1>2, Durations, SMTT(30) DEF handleNodeFailure
  <2> QED
    BY <1>2, <2>1, <2>2 DEF handleNodeFailure
<1> QED
  BY <1>1, <1>2

\* So does a second: the counters stay within their bounds.
LEMMA TickType ==
  ASSUME TypeOK, Tick
  PROVE  TypeOK'
<1> USE DEF TypeOK
<1>1. startIn' \in [Node -> Int] /\ \A k \in Node : -1 <= startIn'[k]
  <2> DEFINE f(k) == IF startIn[k] > 0 THEN startIn[k] - 1 ELSE -1
  <2>1. startIn' = [k \in Node |-> f(k)]
    BY DEF Tick
  <2>2. \A k \in Node : f(k) \in Int /\ -1 <= f(k)
    OBVIOUS
  <2> HIDE DEF f
  <2> QED
    BY <2>1, <2>2
<1>2. start' \in [Node -> 0 .. ELECTION_WAIT_DURATION]
  BY Durations, SMTT(30) DEF Tick
<1>3. waiting' \in [Node -> [WaitStep -> Nat]]
  <2> DEFINE f(k) == [waiting[k] EXCEPT !["check"] = asleep[k][1]]
  <2>1. waiting' = [k \in Node |-> f(k)]
    BY DEF Tick
  <2>2. ASSUME NEW k \in Node
        PROVE  f(k) \in [WaitStep -> Nat]
    <3>1. 1 \in 1 .. AliveSleep
      BY Durations
    <3>2. /\ asleep[k] \in [1 .. AliveSleep -> Nat]
          /\ waiting[k] \in [WaitStep -> Nat]
      OBVIOUS
    <3>3. asleep[k][1] \in Nat
      BY ONLY <3>1, <3>2
    <3> QED
      BY ONLY <3>2, <3>3
  <2> HIDE DEF f
  <2> QED
    BY <2>1, <2>2
<1>4. asleep' \in [Node -> [1 .. AliveSleep -> Nat]]
  <2> DEFINE f(k, i) == IF i < AliveSleep THEN asleep[k][i + 1] ELSE 0
  <2>1. asleep' = [k \in Node |-> [i \in 1 .. AliveSleep |-> f(k, i)]]
    BY DEF Tick
  <2>2. ASSUME NEW k \in Node, NEW i \in 1 .. AliveSleep
        PROVE  f(k, i) \in Nat
    <3>1. CASE i < AliveSleep
      <4>1. i + 1 \in 1 .. AliveSleep
        BY <3>1, Durations
      <4>2. asleep[k] \in [1 .. AliveSleep -> Nat]
        OBVIOUS
      <4>3. asleep[k][i + 1] \in Nat
        BY ONLY <4>1, <4>2
      <4> QED
        BY <3>1, <4>3
    <3>2. CASE ~ (i < AliveSleep)
      BY <3>2
    <3> QED
      BY <3>1, <3>2
  <2> HIDE DEF f
  <2> QED
    BY <2>1, <2>2
<1>5. downFor' \in 0 .. MaxDown
  BY Durations DEF Tick
<1> QED
  BY <1>1, <1>2, <1>3, <1>4, <1>5 DEF Tick

\* The types hold in every reachable state, whatever the cluster, the
\* durations and the crash.
THEOREM ElectionTypes == Spec => []TypeOK
<1>1. TypeOK /\ [Next]_vars => TypeOK'
  <2> SUFFICES ASSUME TypeOK, [Next]_vars PROVE TypeOK'
    OBVIOUS
  <2>1. CASE UNCHANGED vars
    BY <2>1 DEF TypeOK, vars, shared, threads, failure
  <2>2. CASE Next
    BY <2>2, TriggerThreadType, AliveWaitThreadType, ElectionThreadType,
       FailureType, TickType DEF Next
  <2> QED
    BY <2>1, <2>2
<1> QED
  BY <1>1, TypeInit, PTL DEF Spec

--------------------------------------------------------------------------------
(* The alive flag.                                                          *)

\* Steps that raise no flag and end no aliveWait thread.
LEMMA FlagStays ==
  ASSUME AliveFlagIsCleared, TypeOK, NEW n \in Node,
         \/ UNCHANGED aliveReceived
         \/ aliveReceived' = [aliveReceived EXCEPT ![n] = FALSE],
         UNCHANGED asleep,
         \/ UNCHANGED waiting
         \/ waiting' = [waiting EXCEPT ![n]["set"] = @ + 1]
  PROVE  AliveFlagIsCleared'
<1>1. \A k \in Node : aliveReceived'[k] => aliveReceived[k]
  BY DEF TypeOK
<1>2. \A k \in Node : \A s \in WaitStep \ {"set"} :
        waiting'[k][s] = waiting[k][s]
  <2>1. CASE UNCHANGED waiting
    BY <2>1
  <2>2. CASE waiting' = [waiting EXCEPT ![n]["set"] = @ + 1]
    BY <2>2 DEF TypeOK
  <2> QED
    BY <2>1, <2>2
<1> QED
  BY <1>1, <1>2 DEF AliveFlagIsCleared, WaitAt

\* An aliveWait thread clears the flag when it ends.
LEMMA AliveWaitFlag ==
  ASSUME AliveFlagIsCleared, TypeOK, NEW n \in Node, AliveWaitThreadStep(n)
  PROVE  AliveFlagIsCleared'
<1> USE DEF AliveFlagIsCleared, TypeOK
<1>1. CASE WaitSet(n)
  <2>1. /\ asleep' = [asleep EXCEPT ![n][AliveSleep] = @ + 1]
        /\ waiting' = [waiting EXCEPT ![n]["set"] = @ - 1]
        /\ aliveReceived' = [aliveReceived EXCEPT ![n] = TRUE]
    BY <1>1 DEF WaitSet, setAliveReceived
  <2>2. AliveSleep \in 1 .. AliveSleep /\ asleep'[n][AliveSleep] > 0
    BY <2>1, Durations
  <2>3. \A k \in Node \ {n} : /\ asleep'[k] = asleep[k]
                              /\ waiting'[k] = waiting[k]
                              /\ aliveReceived'[k] = aliveReceived[k]
    BY <2>1
  <2> QED
    BY <2>2, <2>3 DEF WaitAt
<1>2. CASE WaitCheck(n)
  <2>1. PICK to \in {"clear", "restart"} :
          waiting' = [waiting EXCEPT ![n]["check"] = @ - 1, ![n][to] = @ + 1]
    BY <1>2 DEF WaitCheck, WaitMoves
  <2>2. waiting'[n][to] > 0
    BY <2>1 DEF WaitStep
  <2> QED
    BY <1>2, <2>1, <2>2 DEF WaitCheck, WaitAt, WaitStep, shared
<1>3. CASE WaitRestart(n)
  BY <1>3 DEF WaitRestart, broadcastElection, WaitMoves, WaitAt, WaitStep
<1>4. CASE WaitClear(n)
  BY <1>4 DEF WaitClear, setAliveReceived, WaitAt, WaitStep
<1> QED
  BY <1>1, <1>2, <1>3, <1>4 DEF AliveWaitThreadStep

\* A second brings a sleeping thread nearer to its check.
LEMMA TickFlag ==
  ASSUME AliveFlagIsCleared, TypeOK, Tick
  PROVE  AliveFlagIsCleared'
<1> SUFFICES ASSUME NEW n \in Node, aliveReceived'[n]
             PROVE  \/ \E k \in 1 .. AliveSleep : asleep'[n][k] > 0
                    \/ \E s \in WaitStep \ {"set"} : WaitAt(n, s)'
  BY DEF AliveFlagIsCleared
<1>1. \A s \in WaitStep : ~ WaitAt(n, s)
  BY DEF Tick, Busy
<1>2. PICK k \in 1 .. AliveSleep : asleep[n][k] > 0
  BY <1>1 DEF Tick, AliveFlagIsCleared
<1>3. CASE k = 1
  <2>1. waiting'[n]["check"] = asleep[n][1]
    BY DEF Tick, TypeOK, WaitStep
  <2> QED
    BY <1>2, <1>3, <2>1 DEF WaitAt, WaitStep
<1>4. CASE k > 1
  <2>1. k - 1 \in 1 .. AliveSleep /\ k - 1 < AliveSleep
    BY <1>4, Durations
  <2>2. asleep'[n][k - 1] = asleep[n][k]
    BY <2>1, Durations DEF Tick
  <2> QED
    BY <1>2, <2>1, <2>2
<1> QED
  BY <1>3, <1>4, Durations

\* In every reachable state a raised aliveReceived has an aliveWait thread that
\* is going to clear it, whoever crashes and however the waits overlap.
THEOREM WaitsEnd == Spec => []AliveFlagIsCleared
<1>1. Init => AliveFlagIsCleared
  BY DEF Init, AliveFlagIsCleared
<1>2. AliveFlagIsCleared /\ TypeOK /\ [Next]_vars => AliveFlagIsCleared'
  <2> SUFFICES ASSUME AliveFlagIsCleared, TypeOK, [Next]_vars
               PROVE  AliveFlagIsCleared'
    OBVIOUS
  <2>1. CASE \E n \in Node : AliveWaitThreadStep(n)
    BY <2>1, AliveWaitFlag
  <2>2. CASE Tick
    BY <2>2, TickFlag
  <2>3. ASSUME NEW n \in Node, TriggerThreadStep(n) \/ Crash(n)
        PROVE  AliveFlagIsCleared'
    BY <2>3, FlagStays
    DEF TriggerThreadStep, StartElection, broadcastElection, StopWaiting,
        LeaderFound, DeclareVictory, BecomeLeader, Crash, shared, threads
  <2>4. ASSUME NEW n \in Node, NEW src \in Node, ElectionThreadStep(n, src)
        PROVE  AliveFlagIsCleared'
    BY <2>4, FlagStays
    DEF ElectionThreadStep, ReceiveDropped, HandleElection, HandleAlive,
        HandleVictory, broadcastElection, shared, threads
  <2>5. ASSUME NEW n \in Node, NEW m \in Node, handleNodeFailure(n, m)
        PROVE  AliveFlagIsCleared'
    BY <2>5, FlagStays DEF handleNodeFailure, shared, threads
  <2>6. CASE UNCHANGED vars
    BY <2>6 DEF AliveFlagIsCleared, WaitAt, vars, shared, threads
  <2> QED
    BY <2>1, <2>2, <2>3, <2>4, <2>5, <2>6 DEF Next
<1> QED
  BY <1>1, <1>2, ElectionTypes, PTL DEF Spec

--------------------------------------------------------------------------------
(* The highest node wins.  The clock of an election: t counts the seconds   *)
(* since the first moment at which a node may have started it (negative     *)
(* while the failure that is its cause has not been noticed everywhere),    *)
(* and h is the highest running node.  All the calls of startElection come  *)
(* before ELECTION_WAIT_DURATION is over, the VICTORY of h after it, and no *)
(* aliveWait thread wakes up before twice that.                             *)

\* A message m is on its way from s to d: in the channels chan, in net.
In(m, q) == \E i \in DOMAIN q : q[i] = m

Has(chan, s, d, m) == In(m, chan[s][d])

Carries(s, d, m) == In(m, net[s][d])

Top(h) == h \in Running /\ \A m \in Running : m <= h

\* No thread of n is left.
Idle(n) ==
  /\ startIn[n] = -1
  /\ \A s \in TriggerStep : trigger[n][s] = 0
  /\ \A s \in WaitStep : waiting[n][s] = 0
  /\ \A k \in 1 .. AliveSleep : asleep[n][k] = 0

\* One node may have crashed, between two elections; the others talk to each
\* other.
Casualties ==
  /\ \A a, b \in Node : crashed[a] /\ crashed[b] => a = b
  /\ downFor # 0 => \E c \in Node : crashed[c]
  /\ \A a \in Running : \A b \in Running \ {a} :
       processIsAlive[a][idToIndex(a, b)]
  /\ \A c \in Node : crashed[c] =>
       /\ Idle(c) /\ up[c]
       /\ \A n \in Running, m \in Code : ~ Carries(c, n, m)
  /\ \A n \in Node, m \in Code : ~ Carries(n, n, m)

\* The elections are started in time.
Called(n, t) ==
  /\ startIn[n] >= 0 => t + startIn[n] \in 0 .. ELECTION_WAIT_DURATION - 1
  /\ ~ up[n] => startIn[n] >= 0
  /\ leaderNodeId[n] = -1 => start[n] <= t
  /\ \A s \in Node, m \in Code : Carries(s, n, m) => t >= 0
  /\ \A s \in Node :
       Carries(s, n, "ELECTION") => t < ELECTION_WAIT_DURATION

\* No wait is over before it may be.
OnTime(n, t) ==
  /\ \A k \in 1 .. AliveSleep : asleep[n][k] > 0 => k + t >= AliveSleep
  /\ waiting[n]["check"] > 0 => t >= AliveSleep
  /\ waiting[n]["clear"] > 0 => t >= AliveSleep
  /\ waiting[n]["restart"] = 0
  /\ waiting[n]["set"] > 0 => t >= 0
  /\ trigger[n]["check"] > 0 => t >= ELECTION_WAIT_DURATION
  /\ trigger[n]["declare"] > 0 => t >= ELECTION_WAIT_DURATION

\* n still has a leader that has crashed: it will notice, or is about to call
\* the election.
HasOldLeader(n, t) ==
  /\ leaderNodeId[n] \in Node /\ crashed[leaderNodeId[n]]
  /\ \A s \in TriggerStep : trigger[n][s] = 0
  /\ Unnoticed(n, leaderNodeId[n]) =>
       t + FailureSleep = downFor - TIMEOUT_DURATION - 1
  /\ ~ Unnoticed(n, leaderNodeId[n]) => startIn[n] >= 0

\* Nobody but h becomes n's leader.
Leads(h, n, t) ==
  /\ leaderNodeId[n] \in {-1, h} \/ HasOldLeader(n, t)
  /\ leaderNodeId[n] = h => t >= ELECTION_WAIT_DURATION
  /\ \A s \in Node :
       Carries(s, n, "VICTORY") => s = h /\ t >= ELECTION_WAIT_DURATION
  /\ t >= AliveSleep => leaderNodeId[n] = h

\* h is the leader of n, or n will hear so.
Told(h, n) == leaderNodeId[n] = h \/ Carries(h, n, "VICTORY")

\* Nobody answers the highest node, its wait is over in time, and its trigger
\* thread does not end before it has told everybody.
TopWins(h, t) ==
  /\ ~ aliveReceived[h]
  /\ \A s \in WaitStep : waiting[h][s] = 0
  /\ \A k \in 1 .. AliveSleep : asleep[h][k] = 0
  /\ leaderNodeId[h] = -1
       => \/ start[h] = ELECTION_WAIT_DURATION
          \/ start[h] >= t - ELECTION_WAIT_DURATION + 1
  /\ leaderNodeId[h] = -1 /\ startIn[h] = -1
       => \E s \in TriggerStep : trigger[h][s] > 0
  /\ leaderNodeId[h] = h \/ trigger[h]["declare"] > 0
       => /\ t >= ELECTION_WAIT_DURATION
          /\ \A n \in Running \ {h} : Told(h, n)

\* A lower node has h's answer, or will have it in this very second.
LowerWaits(h, n, t) ==
  /\ leaderNodeId[n] = -1 /\ up[n]
       => \/ aliveReceived[n] \/ waiting[n]["set"] > 0
          \/ Carries(h, n, "ALIVE") \/ Carries(n, h, "ELECTION")
  /\ trigger[n]["declare"] = 0
  /\ trigger[n]["check"] > 0 => leaderNodeId[n] = h
  /\ leaderNodeId[n] = -1 /\ t >= ELECTION_WAIT_DURATION => aliveReceived[n]

ElectionAt(h, t) ==
  /\ \A n \in Running : Called(n, t) /\ OnTime(n, t) /\ Leads(h, n, t)
  /\ TopWins(h, t)
  /\ \A n \in Running \ {h} : LowerWaits(h, n, t)

ElectionInv ==
  /\ midway => \E c \in Node : crashed[c]
  /\ ~ midway =>
       /\ Casualties
       /\ \/ Running = {}
          \/ \E h \in Node, t \in Int : Top(h) /\ ElectionAt(h, t)

(****************************************************************************)
(* The nodes start within one wait of each other and notice a failure       *)
(* within one, and nobody starts an election before everybody has noticed.  *)
(****************************************************************************)
SkewsAreSmall ==
  /\ StartSkew < ELECTION_WAIT_DURATION
  /\ DetectionSkew < ELECTION_WAIT_DURATION
  /\ DetectionSkew < FailureSleep

LEMMA Waits ==
  /\ ELECTION_WAIT_DURATION \in Nat /\ ELECTION_WAIT_DURATION >= 1
  /\ AliveSleep = ELECTION_WAIT_DURATION + ELECTION_WAIT_DURATION
  /\ AliveSleep \in 1 .. AliveSleep /\ 1 \in 1 .. AliveSleep
  /\ FailureSleep \in Nat /\ TIMEOUT_DURATION \in Nat
  /\ DetectionSkew \in Nat /\ StartSkew \in Nat
  /\ MaxDown = TIMEOUT_DURATION + 1 + DetectionSkew
BY ElectionAssumption DEF AliveSleep, FailureSleep, MaxDown

--------------------------------------------------------------------------------
(* Messages on their way.                                                   *)

LEMMA CarriesIsHas ==
  ASSUME NEW s, NEW d, NEW m
  PROVE  /\ Carries(s, d, m) <=> Has(net, s, d, m)
         /\ Carries(s, d, m)' <=> Has(net', s, d, m)
BY DEF Carries, Has, In

LEMMA AppendHas ==
  ASSUME NEW q \in Seq(Code), NEW m \in Code, NEW x
  PROVE  In(x, Append(q, m)) <=> In(x, q) \/ x = m
<1>1. /\ Len(q) \in Nat /\ DOMAIN q = 1 .. Len(q)
      /\ DOMAIN Append(q, m) = 1 .. Len(q) + 1
      /\ Append(q, m)[Len(q) + 1] = m
      /\ \A i \in 1 .. Len(q) : Append(q, m)[i] = q[i]
  OBVIOUS
<1>2. \A i \in 1 .. Len(q) + 1 : i \in 1 .. Len(q) \/ i = Len(q) + 1
  BY <1>1
<1>3. Len(q) + 1 \in 1 .. Len(q) + 1 /\ 1 .. Len(q) \subseteq 1 .. Len(q) + 1
  BY <1>1
<1> QED
  BY <1>1, <1>2, <1>3, Zenon DEF In

LEMMA TailHas ==
  ASSUME NEW q \in Seq(Code), q # << >>, NEW x
  PROVE  In(x, q) <=> In(x, Tail(q)) \/ Head(q) = x
<1>1. /\ Len(q) \in Nat \ {0} /\ DOMAIN q = 1 .. Len(q) /\ Head(q) = q[1]
      /\ DOMAIN Tail(q) = 1 .. Len(q) - 1
      /\ \A i \in 1 .. Len(q) - 1 : Tail(q)[i] = q[i + 1]
  OBVIOUS
<1>2. ASSUME NEW i \in DOMAIN q, q[i] = x
      PROVE  In(x, Tail(q)) \/ Head(q) = x
  <2>1. i = 1 \/ i - 1 \in 1 .. Len(q) - 1
    BY <1>1
  <2>2. (i - 1) + 1 = i
    BY <1>1
  <2> QED
    BY <1>1, <1>2, <2>1, <2>2 DEF In
<1>3. ASSUME NEW i \in DOMAIN Tail(q), Tail(q)[i] = x
      PROVE  In(x, q)
  BY <1>1, <1>3 DEF In
<1>4. Head(q) = x => In(x, q)
  BY <1>1 DEF In
<1> QED
  BY <1>2, <1>3, <1>4 DEF In

LEMMA SomethingHas ==
  ASSUME NEW q \in Seq(Code)
  PROVE  q # << >> <=> \E m \in Code : In(m, q)
<1>1. /\ Len(q) \in Nat /\ DOMAIN q = 1 .. Len(q)
      /\ \A i \in 1 .. Len(q) : q[i] \in Code
      /\ q = << >> <=> Len(q) = 0
  OBVIOUS
<1>2. Len(q) # 0 => 1 \in DOMAIN q
  BY <1>1
<1> QED
  BY <1>1, <1>2 DEF In

\* What reaches the channels.
Passes(s, d) == ~ messageShouldDrop(processIsAlive[s], s, d, "LEADER_ELECTION")

LEMMA SendHas ==
  ASSUME NEW chan \in Channels, NEW s \in Node, NEW d \in Node, NEW m \in Code,
         NEW a \in Node, NEW b \in Node, NEW x
  PROVE  Has(Send(chan, s, d, m), a, b, x)
           <=> Has(chan, a, b, x)
               \/ (a = s /\ b = d /\ x = m /\ Passes(s, d))
<1>1. chan[s][d] \in Seq(Code)
  BY DEF Channels
<1>2. CASE Passes(s, d)
  <2>1. Send(chan, s, d, m)[a][b] = IF a = s /\ b = d
                                    THEN Append(chan[s][d], m) ELSE chan[a][b]
    BY <1>2 DEF Send, send, Passes, Channels
  <2> QED
    BY <1>1, <1>2, <2>1, AppendHas DEF Has
<1>3. CASE ~ Passes(s, d)
  BY <1>3 DEF Send, send, Passes, Has
<1> QED
  BY <1>2, <1>3

LEMMA BroadcastHas ==
  ASSUME NEW chan \in Channels, NEW s \in Node, NEW lo, NEW m \in Code,
         NEW a \in Node, NEW b \in Node, NEW x
  PROVE  Has(Broadcast(chan, s, lo, m), a, b, x)
           <=> Has(chan, a, b, x)
               \/ (a = s /\ b # s /\ lo <= b /\ x = m /\ Passes(s, b))
<1>1. chan[s][b] \in Seq(Code)
  BY DEF Channels
<1>2. b < clusterSize
  BY ClusterSizeAssumption DEF Node
<1>3. Broadcast(chan, s, lo, m)[a][b] =
        IF a = s /\ b # s /\ lo <= b /\ Passes(s, b)
        THEN Append(chan[s][b], m) ELSE chan[a][b]
  BY <1>2 DEF Broadcast, broadcast, Passes, Channels
<1> QED
  BY <1>1, <1>3, AppendHas DEF Has

LEMMA ConsumeHas ==
  ASSUME NEW chan \in Channels, NEW s \in Node, NEW d \in Node,
         chan[s][d] # << >>,
         NEW a \in Node, NEW b \in Node, NEW x
  PROVE  /\ Has(consume(chan, s, d), a, b, x) => Has(chan, a, b, x)
         /\ Has(chan, a, b, x)
              => Has(consume(chan, s, d), a, b, x)
                 \/ (a = s /\ b = d /\ x = Head(chan[s][d]))
<1>1. chan[s][d] \in Seq(Code)
  BY DEF Channels
<1>2. consume(chan, s, d)[a][b] = IF a = s /\ b = d THEN Tail(chan[s][d])
                                  ELSE chan[a][b]
  BY DEF consume, Channels
<1> QED
  BY <1>1, <1>2, TailHas DEF Has

\* The node a thread can receive from, and what.
LEMMA DeliverableCarries ==
  ASSUME TypeOK, NEW n \in Node, NEW s \in Node
  PROVE  /\ Deliverable(n, s) <=> /\ up[n] /\ ~ crashed[n]
                                  /\ \E m \in Code : Carries(s, n, m)
         /\ net[s][n] # << >> => Carries(s, n, Head(net[s][n]))
<1>1. net[s][n] \in Seq(Code)
  BY DEF TypeOK, Code
<1>2. net[s][n] # << >> <=> \E m \in Code : Carries(s, n, m)
  BY <1>1, SomethingHas DEF Carries
<1>3. net[s][n] # << >> => 1 \in DOMAIN net[s][n]
                           /\ Head(net[s][n]) = net[s][n][1]
  BY <1>1
<1> QED
  BY <1>2, <1>3 DEF Deliverable, Carries, In

\* The entries of a node's table are those of the other nodes.
LEMMA Entries ==
  ASSUME NEW n \in Node, NEW a \in Node \ {n}, NEW b \in Node \ {n}, a # b
  PROVE  /\ idToIndex(n, a) \in Index /\ idToIndex(n, b) \in Index
         /\ idToIndex(n, a) # idToIndex(n, b)
BY ClusterSizeAssumption DEF Node, Index, idToIndex

--------------------------------------------------------------------------------
(* Steps of one node.                                                       *)

Good(h, t) == Casualties /\ Top(h) /\ ElectionAt(h, t)

\* Running nodes hear each other, and only of each other.
LEMMA AmongRunning ==
  ASSUME Casualties
  PROVE  /\ Running \subseteq Node /\ \A n \in Node \ Running : crashed[n]
         /\ \A a, b \in Running : Passes(a, b)
         /\ \A s \in Node, n \in Running, m \in Code :
              Carries(s, n, m) => s \in Running /\ s # n
BY DEF Casualties, Running, Passes, messageShouldDrop

\* A step of n changes nothing of another node k ...
Same(k) ==
  /\ leaderNodeId'[k] = leaderNodeId[k]
  /\ aliveReceived'[k] = aliveReceived[k]
  /\ start'[k] = start[k]
  /\ up'[k] = up[k]
  /\ startIn'[k] = startIn[k]
  /\ trigger'[k] = trigger[k]
  /\ waiting'[k] = waiting[k]
  /\ asleep'[k] = asleep[k]

NodeStep(n) ==
  /\ UNCHANGED failure
  /\ \A k \in Node \ {n} : Same(k)

\* ... takes a message from those for n alone, answers an ELECTION, and sends
\* an ELECTION or a VICTORY only when it is time.
NetStep(n, h, t) ==
  /\ \A s, d \in Node, m \in Code :
       /\ Carries(s, d, m)' =>
            \/ Carries(s, d, m)
            \/ /\ s = n /\ d # n /\ t >= 0
               /\ m = "ELECTION" => t < ELECTION_WAIT_DURATION
               /\ m = "VICTORY" => n = h /\ t >= ELECTION_WAIT_DURATION
       /\ Carries(s, d, m) /\ d # n => Carries(s, d, m)'
  /\ \A s \in Running \ {n} :
       Carries(s, n, "ELECTION")
         => Carries(s, n, "ELECTION")' \/ Carries(n, s, "ALIVE")'

LEMMA Codes == "ELECTION" \in Code /\ "ALIVE" \in Code /\ "VICTORY" \in Code
BY DEF Code

\* Then it is enough to look at n.
LEMMA StepOfOne ==
  ASSUME NEW h \in Node, NEW t \in Int, Good(h, t),
         NEW n \in Running, NodeStep(n), NetStep(n, h, t),
         Called(n, t)', OnTime(n, t)', Leads(h, n, t)',
         n = h => TopWins(h, t)',
         n # h => LowerWaits(h, n, t)' /\ (Told(h, n) => Told(h, n)')
  PROVE  Good(h, t)'
<1>1. /\ crashed' = crashed /\ processIsAlive' = processIsAlive
      /\ downFor' = downFor /\ Running' = Running
      /\ \A k \in Node \ {n} : Same(k)
  BY DEF NodeStep, failure, Running
<1>2. /\ Casualties /\ Top(h) /\ ElectionAt(h, t) /\ h \in Running
      /\ Running \subseteq Node
  BY AmongRunning DEF Good, Top
<1>3. \A c \in Node : crashed[c] => c # n
  BY DEF Running
<1>4. Casualties'
  <2>1. \A c \in Node : crashed[c] =>
          /\ Idle(c)' /\ up'[c]
          /\ \A k \in Running, m \in Code : ~ Carries(c, k, m)'
    <3> SUFFICES ASSUME NEW c \in Node, crashed[c]
                 PROVE  /\ Idle(c)' /\ up'[c]
                        /\ \A k \in Running, m \in Code : ~ Carries(c, k, m)'
      OBVIOUS
    <3>1. Same(c) /\ c # n /\ Idle(c) /\ up[c]
      BY <1>1, <1>2, <1>3 DEF Casualties
    <3>2. Idle(c)' /\ up'[c]
      BY <3>1 DEF Same, Idle
    <3>3. \A k \in Running, m \in Code : ~ Carries(c, k, m)'
      BY <1>2, <3>1 DEF Casualties, NetStep
    <3> QED
      BY <3>2, <3>3
  <2>2. \A k \in Node, m \in Code : ~ Carries(k, k, m)'
    BY <1>2 DEF Casualties, NetStep
  <2> QED
    BY <1>1, <1>2, <2>1, <2>2 DEF Casualties
<1>5. ASSUME NEW k \in Running, k # n
      PROVE  Called(k, t)' /\ OnTime(k, t)' /\ Leads(h, k, t)'
  <2>1. Same(k) /\ Called(k, t) /\ OnTime(k, t) /\ Leads(h, k, t)
    BY <1>1, <1>2, <1>5 DEF ElectionAt
  <2>2. Called(k, t)'
    BY <1>2, <2>1, Codes DEF Same, Called, NetStep
  <2>3. OnTime(k, t)'
    BY <2>1 DEF Same, OnTime
  <2>4. Leads(h, k, t)'
    <3>1. HasOldLeader(k, t) => HasOldLeader(k, t)'
      BY <1>1, <2>1 DEF HasOldLeader, Same, Unnoticed
    <3>2. \A s \in Node :
            Carries(s, k, "VICTORY")' => s = h /\ t >= ELECTION_WAIT_DURATION
      BY <1>2, <2>1, Codes DEF NetStep, Leads
    <3> QED
      BY <2>1, <3>1, <3>2 DEF Leads, Same
  <2> QED
    BY <2>2, <2>3, <2>4
<1>6. ASSUME NEW k \in Running \ {h}, k # n
      PROVE  LowerWaits(h, k, t)' /\ (Told(h, k) => Told(h, k)')
  <2>1. Same(k) /\ LowerWaits(h, k, t)
    BY <1>1, <1>2, <1>6 DEF ElectionAt
  <2>2. /\ Carries(h, k, "ALIVE") => Carries(h, k, "ALIVE")'
        /\ Carries(h, k, "VICTORY") => Carries(h, k, "VICTORY")'
    BY <1>2, <1>6, Codes DEF NetStep
  <2>3. Carries(k, h, "ELECTION")
          => Carries(k, h, "ELECTION")' \/ Carries(h, k, "ALIVE")'
    BY <1>2, <1>6, Codes DEF NetStep
  <2> QED
    BY <2>1, <2>2, <2>3 DEF Same, LowerWaits, Told
<1>7. TopWins(h, t)'
  <2>1. CASE n = h
    BY <2>1
  <2>2. CASE n # h
    <3>1. Same(h) /\ TopWins(h, t)
      BY <1>1, <1>2, <2>2 DEF ElectionAt
    <3>2. \A k \in Running \ {h} : Told(h, k) => Told(h, k)'
      BY <1>6, <2>2
    <3> QED
      BY <1>1, <3>1, <3>2 DEF TopWins, Same
  <2> QED
    BY <2>1, <2>2
<1>8. \A k \in Running : Called(k, t)' /\ OnTime(k, t)' /\ Leads(h, k, t)'
  BY <1>5
<1>9. \A k \in Running \ {h} : LowerWaits(h, k, t)'
  BY <1>6
<1>10. ElectionAt(h, t)'
  BY <1>1, <1>7, <1>8, <1>9 DEF ElectionAt
<1>11. Top(h)'
  BY <1>1, <1>2 DEF Top
<1> QED
  BY <1>4, <1>10, <1>11 DEF Good

\* What is known of a running node.
LEMMA OfRunning ==
  ASSUME NEW h \in Node, NEW t \in Int, Good(h, t), NEW n \in Running
  PROVE  /\ n \in Node /\ h \in Running /\ n <= h
         /\ Called(n, t) /\ OnTime(n, t) /\ Leads(h, n, t)
         /\ TopWins(h, t) /\ (n # h => LowerWaits(h, n, t))
BY DEF Good, Top, ElectionAt, Running

\* A step that leaves the channels alone, or takes one message.
LEMMA QuietNet ==
  ASSUME UNCHANGED net, NEW n, NEW h, NEW t
  PROVE  NetStep(n, h, t) /\ \A s, m : Carries(s, n, m)' = Carries(s, n, m)
BY DEF NetStep, Carries

LEMMA ConsumeNet ==
  ASSUME TypeOK, NEW n \in Node, NEW s \in Node, NEW h, NEW t,
         Handling(n, s, Head(net[s][n])), Head(net[s][n]) # "ELECTION",
         net' = consume(net, s, n)
  PROVE  /\ NetStep(n, h, t)
         /\ \A a \in Node, m \in Code :
              /\ Carries(a, n, m)' => Carries(a, n, m)
              /\ Carries(a, n, m) => Carries(a, n, m)'
                                     \/ (a = s /\ m = Head(net[s][n]))
<1>1. net \in Channels /\ net[s][n] # << >>
  BY DEF TypeOK, Channels, Code, Handling, Deliverable
<1>2. ASSUME NEW a \in Node, NEW b \in Node, NEW m \in Code
      PROVE  /\ Carries(a, b, m)' => Carries(a, b, m)
             /\ Carries(a, b, m)
                  => Carries(a, b, m)'
                     \/ (a = s /\ b = n /\ m = Head(net[s][n]))
  BY <1>1, ConsumeHas, CarriesIsHas
<1> QED
  BY <1>2, Codes DEF NetStep, Running

\* The broadcast of an ELECTION, in time: at the start, or in answer to one.
LEMMA CallElection ==
  ASSUME TypeOK, NEW h \in Node, NEW t \in Int, Good(h, t), NEW n \in Running,
         NodeStep(n), 0 <= t, t < ELECTION_WAIT_DURATION,
         NEW chan \in Channels, broadcastElection(n, chan),
         \A a, b \in Node, m \in Code :
           /\ Has(chan, a, b, m) => \/ Carries(a, b, m)
                                    \/ a = n /\ b # n /\ m = "ALIVE"
           /\ Carries(a, b, m) /\ (b # n \/ m = "VICTORY")
                => Has(chan, a, b, m),
         \A s \in Running \ {n} :
           Carries(s, n, "ELECTION")
             => Has(chan, s, n, "ELECTION") \/ Has(chan, n, s, "ALIVE"),
         up'[n], startIn'[n] \in {startIn[n], -1},
         n = h /\ startIn'[n] = -1 => \E s \in TriggerStep : trigger'[n][s] > 0,
         trigger'[n]["check"] = trigger[n]["check"],
         trigger'[n]["declare"] = trigger[n]["declare"],
         waiting' = waiting, asleep' = asleep
  PROVE  Good(h, t)'
<1>1. /\ n \in Node /\ h \in Running /\ n <= h
      /\ Called(n, t) /\ OnTime(n, t) /\ Leads(h, n, t)
      /\ TopWins(h, t) /\ (n # h => LowerWaits(h, n, t))
      /\ Casualties /\ Running \subseteq Node /\ n \in Int /\ h \in Int
  BY OfRunning, AmongRunning DEF Good, Node
<1>2. /\ aliveReceived'[n] = FALSE /\ leaderNodeId'[n] = -1 /\ start'[n] = 0
      /\ net' = Broadcast(chan, n, n + 1, "ELECTION")
  BY <1>1 DEF broadcastElection, TypeOK
<1>3. ASSUME NEW a \in Node, NEW b \in Node, NEW m \in Code
      PROVE  Carries(a, b, m)'
               <=> Has(chan, a, b, m)
                   \/ (a = n /\ b # n /\ n + 1 <= b /\ m = "ELECTION"
                       /\ Passes(n, b))
  BY <1>1, <1>2, CarriesIsHas, BroadcastHas, Codes
<1>4. NetStep(n, h, t)
  <2>1. ASSUME NEW a \in Node, NEW b \in Node, NEW m \in Code
        PROVE  /\ Carries(a, b, m)' =>
                    \/ Carries(a, b, m)
                    \/ a = n /\ b # n /\ m # "VICTORY"
               /\ Carries(a, b, m) /\ b # n => Carries(a, b, m)'
    BY <1>3
  <2>2. \A s \in Running \ {n} :
          Carries(s, n, "ELECTION")
            => Carries(s, n, "ELECTION")' \/ Carries(n, s, "ALIVE")'
    BY <1>1, <1>3, Codes
  <2> QED
    BY <2>1, <2>2 DEF NetStep
<1>5. \A s \in Node, m \in Code : Carries(s, n, m)' => Carries(s, n, m)
  BY <1>1, <1>3
<1>6. Called(n, t)'
  BY <1>1, <1>2, <1>5, Codes DEF Called
<1>7. OnTime(n, t)'
  BY <1>1 DEF OnTime
<1>8. Leads(h, n, t)'
  <2>1. -1 # h /\ ~ (t >= AliveSleep)
    BY <1>1, Waits DEF Node
  <2> QED
    BY <1>1, <1>2, <1>5, <2>1, Codes DEF Leads
<1>9. ASSUME n = h PROVE TopWins(h, t)'
  <2>1. ~ (trigger[h]["declare"] > 0) /\ h # -1
    BY <1>1, <1>9, Waits DEF OnTime, Node
  <2>2. 0 >= t - ELECTION_WAIT_DURATION + 1
    BY Waits
  <2> QED
    BY <1>1, <1>2, <1>9, <2>1, <2>2 DEF TopWins
<1>10. ASSUME n # h PROVE LowerWaits(h, n, t)' /\ (Told(h, n) => Told(h, n)')
  <2>1. Carries(n, h, "ELECTION")'
    <3>1. Passes(n, h) /\ n + 1 <= h
      BY <1>1, <1>10, AmongRunning
    <3> QED
      BY <1>1, <1>3, <1>10, <3>1, Codes
  <2>2. LowerWaits(h, n, t)'
    BY <1>1, <1>2, <1>10, <2>1, Waits DEF LowerWaits, OnTime
  <2>3. leaderNodeId[n] # h
    BY <1>1, Waits DEF Leads
  <2>4. Carries(h, n, "VICTORY") => Carries(h, n, "VICTORY")'
    BY <1>1, <1>3, Codes
  <2> QED
    BY <2>2, <2>3, <2>4 DEF Told
<1> QED
  BY <1>4, <1>6, <1>7, <1>8, <1>9, <1>10, StepOfOne

\* The trigger thread.
LEMMA StartElectionGood ==
  ASSUME TypeOK, NEW h \in Node, NEW t \in Int, Good(h, t), NEW n \in Running,
         StartElection(n)
  PROVE  Good(h, t)'
<1>1. n \in Node /\ Called(n, t) /\ net \in Channels /\ Casualties
  BY OfRunning DEF TypeOK, Channels, Code, Good
<1>2. 0 <= t /\ t < ELECTION_WAIT_DURATION
  BY <1>1, Waits DEF StartElection, Called
<1>3. /\ startIn' = [startIn EXCEPT ![n] = -1]
      /\ up' = [up EXCEPT ![n] = TRUE]
      /\ trigger' = [trigger EXCEPT ![n]["wait"] = @ + 1]
      /\ broadcastElection(n, net)
      /\ UNCHANGED <<waiting, asleep, failure>>
  BY DEF StartElection
<1>4. NodeStep(n)
  BY <1>1, <1>3 DEF NodeStep, Same, broadcastElection, TypeOK
<1>5. /\ up'[n] /\ startIn'[n] = -1
      /\ \E s \in TriggerStep : trigger'[n][s] > 0
      /\ trigger'[n]["check"] = trigger[n]["check"]
      /\ trigger'[n]["declare"] = trigger[n]["declare"]
  <2>1. trigger \in [Node -> [TriggerStep -> Nat]]
        /\ {"wait", "check", "declare"} \subseteq TriggerStep
    BY DEF TypeOK, TriggerStep
  <2>2. trigger[n]["wait"] \in Nat
    BY <1>1, <2>1
  <2>3. trigger'[n] = [trigger[n] EXCEPT !["wait"] = @ + 1]
    BY <1>1, <1>3, <2>1
  <2>4. up'[n] /\ startIn'[n] = -1
    BY <1>1, <1>3 DEF TypeOK
  <2> QED
    BY <1>1, <2>1, <2>2, <2>3, <2>4
<1>6. \A a, b, m : Has(net, a, b, m) <=> Carries(a, b, m)
  BY DEF Has, Carries
<1> QED
  BY <1>1, <1>2, <1>3, <1>4, <1>5, <1>6, CallElection

LEMMA TriggerGood ==
  ASSUME TypeOK, NEW h \in Node, NEW t \in Int, Good(h, t), NEW n \in Running,
         \/ StopWaiting(n) \/ LeaderFound(n)
         \/ DeclareVictory(n) \/ BecomeLeader(n)
  PROVE  Good(h, t)'
<1>1. /\ n \in Node /\ h \in Running /\ n <= h
      /\ Called(n, t) /\ OnTime(n, t) /\ Leads(h, n, t)
      /\ TopWins(h, t) /\ (n # h => LowerWaits(h, n, t))
      /\ Casualties /\ Running \subseteq Node /\ n \in Int /\ h \in Int
      /\ h # -1 /\ net \in Channels
  BY OfRunning, AmongRunning DEF Good, Node, TypeOK, Channels, Code
<1>2. \E s \in TriggerStep : trigger[n][s] > 0
  BY DEF StopWaiting, LeaderFound, DeclareVictory, BecomeLeader, TriggerAt,
         TriggerStep
<1>3. leaderNodeId[n] \in {-1, h}
  BY <1>1, <1>2 DEF Leads, HasOldLeader, TypeOK
<1>4. /\ UNCHANGED <<aliveReceived, start, up, startIn, waiting, asleep,
                     failure>>
      /\ NodeStep(n)
  BY <1>1 DEF StopWaiting, LeaderFound, DeclareVictory, BecomeLeader, NodeStep,
     Same, shared, TriggerMoves, TriggerEnds, setLeaderNodeId, TypeOK
<1>5. \A s \in TriggerStep : trigger[n][s] \in Nat
  BY <1>1 DEF TypeOK
<1>6. CASE StopWaiting(n)
  <2>1. /\ trigger'[n]["check"] = trigger[n]["check"] + 1
        /\ trigger'[n]["declare"] = trigger[n]["declare"]
        /\ UNCHANGED <<net, leaderNodeId>>
    <3>1. /\ trigger' = [trigger EXCEPT ![n]["wait"] = @ - 1,
                                        ![n]["check"] = @ + 1]
          /\ UNCHANGED <<net, leaderNodeId>>
      BY <1>6 DEF StopWaiting, TriggerMoves, shared
    <3>2. trigger'[n] = [trigger[n] EXCEPT !["wait"] = @ - 1,
                                           !["check"] = @ + 1]
      BY <1>1, <3>1 DEF TypeOK
    <3>3. trigger[n] \in [{"wait", "check", "declare"} -> Nat]
      BY <1>1 DEF TypeOK, TriggerStep
    <3> QED
      BY <3>1, <3>2, <3>3
  <2>2. /\ ~ aliveReceived[n]
        /\ \/ leaderNodeId[n] = h
           \/ leaderNodeId[n] = -1 /\ start[n] >= ELECTION_WAIT_DURATION
    BY <1>1, <1>3, <1>6, Waits
    DEF StopWaiting, keepWaiting, gotLeader, TypeOK
  <2>3. t >= ELECTION_WAIT_DURATION
    <3>1. start[n] \in Int
      BY <1>1 DEF TypeOK
    <3> QED
      BY <1>1, <2>2, <3>1, Waits DEF Leads, Called
  <2>4. NetStep(n, h, t) /\ \A s, m : Carries(s, n, m)' = Carries(s, n, m)
    BY <2>1, QuietNet
  <2>5. Called(n, t)' /\ Leads(h, n, t)'
    BY <1>1, <1>3, <1>4, <2>1, <2>4 DEF Called, Leads
  <2>6. OnTime(n, t)'
    BY <1>1, <1>4, <2>1, <2>3 DEF OnTime
  <2>7. ASSUME n = h PROVE TopWins(h, t)'
    <3>1. "check" \in TriggerStep /\ trigger'[h]["check"] > 0
      BY <1>5, <2>1, <2>7 DEF TriggerStep
    <3>2. Running' = Running
      BY <1>4 DEF failure, Running
    <3> QED
      BY <1>1, <1>4, <2>1, <2>7, <3>1, <3>2 DEF TopWins, Told, Carries
  <2>8. ASSUME n # h PROVE LowerWaits(h, n, t)' /\ (Told(h, n) => Told(h, n)')
    <3>1. leaderNodeId[n] = h
      BY <1>1, <2>2, <2>3, <2>8 DEF LowerWaits
    <3> QED
      BY <1>1, <1>4, <2>1, <2>8, <3>1 DEF LowerWaits, Told
  <2> QED
    BY <1>4, <2>4, <2>5, <2>6, <2>7, <2>8, StepOfOne
<1>7. CASE LeaderFound(n)
  <2>1. /\ trigger'[n]["check"] = trigger[n]["check"] - 1
        /\ trigger[n]["check"] > 0
        /\ trigger'[n]["declare"] = trigger[n]["declare"]
        /\ UNCHANGED <<net, leaderNodeId>> /\ leaderNodeId[n] = h
    BY <1>1, <1>3, <1>7 DEF LeaderFound, TriggerEnds, TypeOK, TriggerStep,
       shared, TriggerAt, gotLeader
  <2>2. NetStep(n, h, t) /\ \A s, m : Carries(s, n, m)' = Carries(s, n, m)
    BY <2>1, QuietNet
  <2>3. Called(n, t)' /\ Leads(h, n, t)' /\ OnTime(n, t)'
    BY <1>1, <1>4, <2>1, <2>2 DEF Called, Leads, OnTime
  <2>4. Running' = Running
    BY <1>4 DEF failure, Running
  <2>5. ASSUME n = h PROVE TopWins(h, t)'
    BY <1>1, <1>4, <2>1, <2>4, <2>5 DEF TopWins, Told, Carries
  <2>6. ASSUME n # h PROVE LowerWaits(h, n, t)' /\ (Told(h, n) => Told(h, n)')
    BY <1>1, <1>4, <2>1, <2>6 DEF LowerWaits, Told
  <2> QED
    BY <1>4, <2>2, <2>3, <2>5, <2>6, StepOfOne
<1>8. CASE DeclareVictory(n)
  <2>1. /\ trigger'[n]["check"] = trigger[n]["check"] - 1
        /\ trigger[n]["check"] > 0
        /\ trigger'[n]["declare"] = trigger[n]["declare"] + 1
        /\ net' = Broadcast(net, n, 0, "VICTORY")
        /\ leaderNodeId' = leaderNodeId /\ leaderNodeId[n] = -1
    <3>1. /\ trigger' = [trigger EXCEPT ![n]["check"] = @ - 1,
                                        ![n]["declare"] = @ + 1]
          /\ trigger[n]["check"] > 0
          /\ net' = Broadcast(net, n, 0, "VICTORY")
          /\ leaderNodeId' = leaderNodeId /\ leaderNodeId[n] = -1
      BY <1>8 DEF DeclareVictory, TriggerMoves, shared, TriggerAt, gotLeader
    <3>2. trigger'[n] = [trigger[n] EXCEPT !["check"] = @ - 1,
                                           !["declare"] = @ + 1]
      BY <1>1, <3>1 DEF TypeOK
    <3>3. trigger[n] \in [{"wait", "check", "declare"} -> Nat]
      BY <1>1 DEF TypeOK, TriggerStep
    <3> QED
      BY <3>1, <3>2, <3>3
  <2>2. n = h /\ t >= ELECTION_WAIT_DURATION
    BY <1>1, <2>1 DEF LowerWaits, OnTime
  <2>3. ASSUME NEW a \in Node, NEW b \in Node, NEW m \in Code
        PROVE  Carries(a, b, m)'
                 <=> Carries(a, b, m)
                     \/ (a = n /\ b # n /\ 0 <= b /\ m = "VICTORY"
                         /\ Passes(n, b))
    BY <1>1, <2>1, CarriesIsHas, BroadcastHas, Codes
  <2>4. NetStep(n, h, t)
    BY <1>1, <2>2, <2>3, Codes, Waits DEF NetStep
  <2>5. \A s \in Node, m \in Code : Carries(s, n, m)' <=> Carries(s, n, m)
    BY <1>1, <2>3
  <2>6. Called(n, t)' /\ Leads(h, n, t)'
    BY <1>1, <1>3, <1>4, <2>1, <2>5, Codes DEF Called, Leads
  <2>7. OnTime(n, t)'
    BY <1>1, <1>4, <2>1, <2>2 DEF OnTime
  <2>8. TopWins(h, t)'
    <3>1. Running' = Running
      BY <1>4 DEF failure, Running
    <3>2. ASSUME NEW k \in Running \ {h} PROVE Told(h, k)'
      <4>1. Passes(h, k) /\ 0 <= k /\ k \in Node
        BY <1>1, AmongRunning DEF Node
      <4>2. Carries(h, k, "VICTORY")'
        BY <2>2, <2>3, <4>1, Codes
      <4> QED
        BY <4>2 DEF Told
    <3>3. "declare" \in TriggerStep /\ trigger'[h]["declare"] > 0
      BY <1>5, <2>1, <2>2 DEF TriggerStep
    <3> QED
      BY <1>1, <1>4, <2>1, <2>2, <3>1, <3>2, <3>3 DEF TopWins
  <2> QED
    BY <1>4, <2>2, <2>4, <2>6, <2>7, <2>8, StepOfOne
<1>9. CASE BecomeLeader(n)
  <2>1. /\ trigger'[n]["check"] = trigger[n]["check"]
        /\ trigger[n]["declare"] > 0
        /\ trigger'[n]["declare"] = trigger[n]["declare"] - 1
        /\ leaderNodeId'[n] = n /\ net' = net
    BY <1>1, <1>9 DEF BecomeLeader, TriggerEnds, TypeOK, TriggerStep,
       TriggerAt, setLeaderNodeId
  <2>2. n = h /\ t >= ELECTION_WAIT_DURATION
    BY <1>1, <2>1 DEF LowerWaits, OnTime
  <2>3. NetStep(n, h, t) /\ \A s, m : Carries(s, n, m)' = Carries(s, n, m)
    BY <2>1, QuietNet
  <2>4. Called(n, t)' /\ Leads(h, n, t)' /\ OnTime(n, t)'
    BY <1>1, <1>4, <2>1, <2>2, <2>3 DEF Called, Leads, OnTime
  <2>5. TopWins(h, t)'
    <3>1. Running' = Running
      BY <1>4 DEF failure, Running
    <3>2. \A k \in Running \ {h} : leaderNodeId'[k] = leaderNodeId[k]
      BY <1>1, <1>4, <2>2 DEF NodeStep, Same
    <3>3. \A k \in Running \ {h} : Told(h, k)'
      BY <1>1, <2>1, <2>2, <3>2 DEF TopWins, Told, Carries
    <3> QED
      BY <1>1, <1>4, <2>1, <2>2, <3>1, <3>3 DEF TopWins
  <2> QED
    BY <1>4, <2>2, <2>3, <2>4, <2>5, StepOfOne
<1> QED
  BY <1>6, <1>7, <1>8, <1>9

\* The aliveWait threads: none of h, and the others wake up when h has won.
LEMMA AliveWaitGood ==
  ASSUME TypeOK, NEW h \in Node, NEW t \in Int, Good(h, t), NEW n \in Running,
         AliveWaitThreadStep(n)
  PROVE  Good(h, t)'
<1>1. /\ n \in Node /\ h \in Running /\ n <= h
      /\ Called(n, t) /\ OnTime(n, t) /\ Leads(h, n, t)
      /\ TopWins(h, t) /\ (n # h => LowerWaits(h, n, t))
      /\ Running \subseteq Node /\ n \in Int /\ h \in Int /\ h # -1
  BY OfRunning, AmongRunning DEF Good, Node
<1>2. {"set", "check", "restart", "clear"} = WaitStep
  BY DEF WaitStep
<1>3. \A s \in WaitStep : waiting[n][s] \in Nat
  BY <1>1 DEF TypeOK
<1>4. n # h
  <2>1. \E s \in WaitStep : waiting[n][s] > 0
    BY <1>2 DEF AliveWaitThreadStep, WaitSet, WaitCheck, WaitRestart,
       WaitClear, WaitAt
  <2> QED
    BY <1>1, <2>1 DEF TopWins
<1>5. ~ WaitRestart(n)
  BY <1>1, <1>2, <1>3 DEF WaitRestart, WaitAt, OnTime
<1>6. WaitSet(n) \/ WaitCheck(n) \/ WaitClear(n)
  BY <1>5 DEF AliveWaitThreadStep
<1>7. /\ UNCHANGED <<net, leaderNodeId, start, up, startIn, trigger, failure>>
      /\ NodeStep(n)
  BY <1>1, <1>6 DEF WaitSet, WaitCheck, WaitClear, NodeStep, Same, shared,
     WaitMoves, setAliveReceived, TypeOK
<1>8. NetStep(n, h, t) /\ \A s, m : Carries(s, n, m)' = Carries(s, n, m)
  BY <1>7, QuietNet
<1>9. Called(n, t)' /\ Leads(h, n, t)'
  <2>1. HasOldLeader(n, t)' <=> HasOldLeader(n, t)
    BY <1>7 DEF HasOldLeader, Unnoticed, failure
  <2> QED
    BY <1>1, <1>7, <1>8, <2>1 DEF Called, Leads
<1>10. Told(h, n) => Told(h, n)'
  BY <1>7 DEF Told, Carries
<1>11. /\ Carries(h, n, "ALIVE")' = Carries(h, n, "ALIVE")
       /\ Carries(n, h, "ELECTION")' = Carries(n, h, "ELECTION")
  BY <1>7 DEF Carries
<1>12. CASE WaitSet(n)
  <2>1. /\ waiting[n]["set"] > 0 /\ aliveReceived'[n]
        /\ waiting'[n]["set"] = waiting[n]["set"] - 1
        /\ \A s \in WaitStep \ {"set"} : waiting'[n][s] = waiting[n][s]
    BY <1>1, <1>2, <1>12 DEF WaitSet, WaitAt, setAliveReceived, TypeOK
  <2>2. t >= 0
    BY <1>1, <2>1 DEF OnTime
  <2>3. \A k \in 1 .. AliveSleep :
          asleep'[n][k] = asleep[n][k] \/ k = AliveSleep
    BY <1>1, <1>12 DEF WaitSet, TypeOK
  <2>4. \A k \in 1 .. AliveSleep : asleep'[n][k] > 0 => k + t >= AliveSleep
    BY <1>1, <2>2, <2>3, Waits DEF OnTime
  <2>5. OnTime(n, t)'
    BY <1>1, <1>2, <1>7, <2>1, <2>2, <2>4 DEF OnTime
  <2>6. LowerWaits(h, n, t)'
    BY <1>1, <1>4, <1>7, <2>1 DEF LowerWaits
  <2> QED
    BY <1>4, <1>7, <1>8, <1>9, <1>10, <2>5, <2>6, StepOfOne
<1>13. CASE WaitCheck(n)
  <2>1. waiting[n]["check"] > 0
    BY <1>13 DEF WaitCheck, WaitAt
  <2>2. t >= AliveSleep /\ leaderNodeId[n] = h
    BY <1>1, <2>1 DEF OnTime, Leads
  <2>3. waiting' = [waiting EXCEPT ![n]["check"] = @ - 1, ![n]["clear"] = @ + 1]
    BY <1>1, <1>13, <2>2 DEF WaitCheck, WaitMoves, gotLeader
  <2>4. /\ waiting'[n]["set"] = waiting[n]["set"]
        /\ waiting'[n]["restart"] = waiting[n]["restart"]
    <3>1. waiting'[n] = [waiting[n] EXCEPT !["check"] = @ - 1,
                                           !["clear"] = @ + 1]
      BY <1>1, <2>3 DEF TypeOK
    <3>2. waiting[n] \in [WaitStep -> Nat]
      BY <1>1 DEF TypeOK
    <3> QED
      BY <1>2, <3>1, <3>2
  <2>5. UNCHANGED <<aliveReceived, asleep>>
    BY <1>13 DEF WaitCheck, shared
  <2>6. OnTime(n, t)'
    BY <1>1, <1>7, <2>2, <2>4, <2>5 DEF OnTime
  <2>7. LowerWaits(h, n, t)'
    BY <1>1, <1>4, <1>7, <2>2 DEF LowerWaits
  <2> QED
    BY <1>4, <1>7, <1>8, <1>9, <1>10, <2>6, <2>7, StepOfOne
<1>14. CASE WaitClear(n)
  <2>1. waiting[n]["clear"] > 0
    BY <1>14 DEF WaitClear, WaitAt
  <2>2. t >= AliveSleep /\ leaderNodeId[n] = h
    BY <1>1, <2>1 DEF OnTime, Leads
  <2>3. waiting' = [waiting EXCEPT ![n]["clear"] = @ - 1] /\ asleep' = asleep
    BY <1>14 DEF WaitClear
  <2>4. \A s \in WaitStep \ {"clear"} : waiting'[n][s] = waiting[n][s]
    BY <1>1, <1>2, <2>3 DEF TypeOK
  <2>5. OnTime(n, t)'
    BY <1>1, <1>2, <1>7, <2>2, <2>3, <2>4 DEF OnTime
  <2>6. LowerWaits(h, n, t)'
    BY <1>1, <1>4, <1>7, <2>2 DEF LowerWaits
  <2> QED
    BY <1>4, <1>7, <1>8, <1>9, <1>10, <2>5, <2>6, StepOfOne
<1> QED
  BY <1>6, <1>12, <1>13, <1>14

\* The election thread drops nothing, since it hears only running nodes.
LEMMA ElectionThreadGood ==
  ASSUME TypeOK, SkewsAreSmall, NEW h \in Node, NEW t \in Int, Good(h, t),
         NEW n \in Node, NEW src \in Node, ElectionThreadStep(n, src)
  PROVE  Good(h, t)'
<1>1. Deliverable(n, src) /\ net[src][n] # << >> /\ up[n] /\ n \in Running
  BY DEF ElectionThreadStep, ReceiveDropped, HandleElection, HandleAlive,
     HandleVictory, Handling, Deliverable, Running
<1>2. /\ n \in Node /\ h \in Running /\ n <= h
      /\ Called(n, t) /\ OnTime(n, t) /\ Leads(h, n, t)
      /\ TopWins(h, t) /\ (n # h => LowerWaits(h, n, t))
      /\ Casualties /\ Running \subseteq Node /\ n \in Int /\ h \in Int
      /\ h # -1 /\ net \in Channels
  BY <1>1, OfRunning, AmongRunning DEF Good, Node, TypeOK, Channels, Code
<1>3. PICK m \in Code : m = Head(net[src][n]) /\ Carries(src, n, m)
  <2>1. net[src][n] \in Seq(Code)
    BY <1>2 DEF Channels
  <2>2. Head(net[src][n]) \in Code
    BY <1>1, <2>1
  <2> QED
    BY <1>1, <2>2, DeliverableCarries
<1>4. src \in Running /\ src # n /\ t >= 0 /\ src <= h /\ src \in Int
  BY <1>1, <1>2, <1>3, AmongRunning DEF Called, Good, Top, Node
<1>5. ~ ReceiveDropped(n, src)
  <2>1. Passes(n, src)
    BY <1>1, <1>2, <1>4, AmongRunning
  <2> QED
    BY <2>1 DEF ReceiveDropped, ShouldDrop, Passes
<1>6. CASE HandleElection(n, src)
  <2> DEFINE chan == Send(consume(net, src, n), n, src, "ALIVE")
  <2>1. /\ m = "ELECTION" /\ broadcastElection(n, chan)
        /\ UNCHANGED <<up, startIn, threads, failure>>
    BY <1>3, <1>6 DEF HandleElection, Handling
  <2>2. consume(net, src, n) \in Channels /\ chan \in Channels
    BY <1>1, <1>2, ConsumeType, SendType, Codes
  <2>3. t < ELECTION_WAIT_DURATION
    BY <1>2, <1>3, <2>1 DEF Called
  <2>4. Passes(n, src)
    BY <1>1, <1>2, <1>4, AmongRunning
  <2>5. ASSUME NEW a \in Node, NEW b \in Node, NEW c \in Code
        PROVE  /\ Has(chan, a, b, c) => \/ Carries(a, b, c)
                                        \/ a = n /\ b # n /\ c = "ALIVE"
               /\ Carries(a, b, c) => \/ Has(chan, a, b, c)
                                      \/ a = src /\ b = n /\ c = "ELECTION"
               /\ Has(chan, n, src, "ALIVE")
    <3> HIDE DEF chan
    <3>0. /\ Head(net[src][n]) = "ELECTION" /\ net[src][n] # << >>
          /\ net \in Channels /\ src \in Node /\ n \in Node
      BY <1>1, <1>2, <1>3, <2>1
    <3>1. /\ Has(consume(net, src, n), a, b, c) => Has(net, a, b, c)
          /\ Has(net, a, b, c)
               => Has(consume(net, src, n), a, b, c)
                  \/ (a = src /\ b = n /\ c = "ELECTION")
      BY <3>0, ConsumeHas
    <3>2. Has(chan, a, b, c)
            <=> Has(consume(net, src, n), a, b, c)
                \/ (a = n /\ b = src /\ c = "ALIVE" /\ Passes(n, src))
      BY <1>2, <2>2, SendHas, Codes DEF chan
    <3>3. Has(chan, n, src, "ALIVE")
      BY <1>2, <2>2, <2>4, SendHas, Codes DEF chan
    <3> QED
      BY <1>4, <3>1, <3>2, <3>3, CarriesIsHas
  <2>6. NodeStep(n)
    BY <1>2, <2>1 DEF NodeStep, Same, broadcastElection, TypeOK, threads
  <2>7. n = h /\ startIn[n] = -1 => \E s \in TriggerStep : trigger[n][s] > 0
    <3> SUFFICES ASSUME n = h, startIn[n] = -1
                 PROVE  leaderNodeId[h] = -1
      BY <1>2 DEF TopWins
    <3>1. leaderNodeId[h] # h
      BY <1>2, <2>3, Waits DEF TopWins
    <3>2. ~ HasOldLeader(n, t)
      <4>1. downFor \in Int /\ downFor <= MaxDown
        BY Waits DEF TypeOK
      <4> QED
        BY <1>4, <4>1, Waits DEF HasOldLeader, SkewsAreSmall
    <3> QED
      BY <1>2, <3>1, <3>2 DEF Leads
  <2>8. \A a, b \in Node, c \in Code :
          /\ Has(chan, a, b, c) => \/ Carries(a, b, c)
                                   \/ a = n /\ b # n /\ c = "ALIVE"
          /\ Carries(a, b, c) /\ (b # n \/ c = "VICTORY") => Has(chan, a, b, c)
    BY <2>5
  <2>9. \A s \in Running \ {n} :
          Carries(s, n, "ELECTION")
            => Has(chan, s, n, "ELECTION") \/ Has(chan, n, s, "ALIVE")
    BY <1>2, <2>5, Codes
  <2> HIDE DEF chan
  <2> QED
    BY <1>1, <1>4, <2>1, <2>2, <2>3, <2>6, <2>7, <2>8, <2>9, CallElection
       DEF threads
<1>7. CASE HandleAlive(n, src)
  <2>1. /\ m = "ALIVE" /\ net' = consume(net, src, n)
        /\ waiting' = IF src > n THEN [waiting EXCEPT ![n]["set"] = @ + 1]
                      ELSE waiting
        /\ Handling(n, src, Head(net[src][n]))
        /\ UNCHANGED <<shared, up, startIn, trigger, asleep, failure>>
    BY <1>3, <1>7 DEF HandleAlive, Handling
  <2>2. /\ NetStep(n, h, t)
        /\ \A a \in Node, c \in Code :
             /\ Carries(a, n, c)' => Carries(a, n, c)
             /\ Carries(a, n, c) => Carries(a, n, c)'
                                    \/ (a = src /\ c = "ALIVE")
    <3>1. Head(net[src][n]) = "ALIVE"
      BY <1>3, <2>1
    <3> QED
      BY <1>2, <2>1, <3>1, ConsumeNet
  <2>3. NodeStep(n)
    BY <1>2, <2>1 DEF NodeStep, Same, shared, TypeOK
  <2>4. /\ \A s \in WaitStep \ {"set"} : waiting'[n][s] = waiting[n][s]
        /\ waiting'[n]["set"] = IF src > n THEN waiting[n]["set"] + 1
                                ELSE waiting[n]["set"]
        /\ waiting[n]["set"] \in Nat
    <3>1. waiting \in [Node -> [WaitStep -> Nat]] /\ "set" \in WaitStep
      BY DEF TypeOK, WaitStep
    <3>2. waiting[n]["set"] \in Nat
      BY <1>2, <3>1
    <3>3. waiting'[n] = IF src > n THEN [waiting[n] EXCEPT !["set"] = @ + 1]
                        ELSE waiting[n]
      BY <1>2, <2>1, <3>1
    <3> QED
      BY <1>2, <3>1, <3>2, <3>3
  <2>5. Called(n, t)'
    BY <1>2, <2>1, <2>2, Codes DEF Called, shared
  <2>6. OnTime(n, t)'
    BY <1>2, <1>4, <2>1, <2>4 DEF OnTime, WaitStep
  <2>7. Leads(h, n, t)'
    <3>1. HasOldLeader(n, t)' <=> HasOldLeader(n, t)
      BY <2>1 DEF HasOldLeader, Unnoticed, failure, shared
    <3> QED
      BY <1>2, <2>1, <2>2, <3>1, Codes DEF Leads, shared
  <2>8. ASSUME n = h PROVE TopWins(h, t)'
    <3>1. UNCHANGED <<waiting, leaderNodeId, aliveReceived, start, startIn,
                      trigger, asleep>>
      BY <1>2, <1>4, <2>1, <2>8 DEF shared
    <3>2. Running' = Running
      BY <2>1 DEF failure, Running
    <3>3. \A k \in Running \ {h} : Told(h, k) => Told(h, k)'
      BY <1>2, <2>2, <2>8, <3>1, Codes DEF Told, NetStep
    <3> QED
      BY <1>2, <3>1, <3>2, <3>3 DEF TopWins
  <2>9. ASSUME n # h PROVE LowerWaits(h, n, t)' /\ (Told(h, n) => Told(h, n)')
    <3>1. Told(h, n) => Told(h, n)'
      BY <1>2, <2>1, <2>2, Codes DEF Told, shared
    <3>2. Carries(h, n, "ALIVE")
            => Carries(h, n, "ALIVE")' \/ waiting'[n]["set"] > 0
      BY <1>2, <2>2, <2>4, <2>9, Codes
    <3>3. Carries(n, h, "ELECTION") => Carries(n, h, "ELECTION")'
      BY <1>2, <2>2, <2>9, Codes DEF NetStep
    <3>4. waiting[n]["set"] > 0 => waiting'[n]["set"] > 0
      BY <2>4
    <3>5. LowerWaits(h, n, t)'
      BY <1>2, <2>1, <2>9, <3>2, <3>3, <3>4 DEF LowerWaits, shared
    <3> QED
      BY <3>1, <3>5
  <2> QED
    BY <1>1, <2>2, <2>3, <2>5, <2>6, <2>7, <2>8, <2>9, StepOfOne
<1>8. CASE HandleVictory(n, src)
  <2>1. /\ m = "VICTORY" /\ net' = consume(net, src, n)
        /\ Handling(n, src, Head(net[src][n]))
        /\ leaderNodeId' = [leaderNodeId EXCEPT ![n] = src]
        /\ UNCHANGED <<aliveReceived, start, up, startIn, threads, failure>>
    BY <1>3, <1>8 DEF HandleVictory, Handling, setLeaderNodeId
  <2>2. /\ NetStep(n, h, t)
        /\ \A a \in Node, c \in Code : Carries(a, n, c)' => Carries(a, n, c)
    <3>1. Head(net[src][n]) # "ELECTION"
      BY <1>3, <2>1
    <3> QED
      BY <1>2, <2>1, <3>1, ConsumeNet
  <2>3. NodeStep(n)
    BY <1>2, <2>1 DEF NodeStep, Same, threads, TypeOK
  <2>4. src = h /\ n # h /\ t >= ELECTION_WAIT_DURATION
    BY <1>2, <1>3, <1>4, <2>1 DEF Leads
  <2>5. leaderNodeId'[n] = h
    BY <1>2, <2>1, <2>4 DEF TypeOK
  <2>6. Called(n, t)' /\ OnTime(n, t)'
    BY <1>2, <2>1, <2>2, <2>5, Codes DEF Called, OnTime, threads
  <2>7. Leads(h, n, t)'
    BY <1>2, <2>2, <2>4, <2>5, Codes DEF Leads
  <2>8. LowerWaits(h, n, t)' /\ Told(h, n)'
    BY <1>2, <2>1, <2>4, <2>5 DEF LowerWaits, Told, threads
  <2> QED
    BY <1>1, <2>2, <2>3, <2>4, <2>6, <2>7, <2>8, StepOfOne
<1> QED
  BY <1>5, <1>6, <1>7, <1>8 DEF ElectionThreadStep

\* handleNodeFailure: who has lost its leader will call the election, with the
\* others.
LEMMA NodeFailureGood ==
  ASSUME TypeOK, SkewsAreSmall, NEW h \in Node, NEW t \in Int, Good(h, t),
         NEW n \in Node, NEW m \in Node, handleNodeFailure(n, m)
  PROVE  Good(h, t)'
<1>1. /\ Unnoticed(n, m) /\ downFor > TIMEOUT_DURATION
      /\ processIsAlive' = [processIsAlive EXCEPT ![n][idToIndex(n, m)] = FALSE]
      /\ startIn' = IF leaderNodeId[n] = m
                    THEN [startIn EXCEPT ![n] = FailureSleep] ELSE startIn
      /\ UNCHANGED <<net, shared, up, threads, crashed, downFor, midway>>
  BY DEF handleNodeFailure, setNodeStatus
<1>2. Casualties /\ Top(h) /\ ElectionAt(h, t) /\ h \in Running
      /\ Running' = Running /\ Running \subseteq Node
  BY <1>1, AmongRunning DEF Good, Top, Running
<1>3. n \in Running /\ m \notin Running /\ crashed[m] /\ n # m
  BY <1>1, <1>2 DEF Unnoticed, Casualties, Running
<1>4. /\ \A s, d, c : Carries(s, d, c)' = Carries(s, d, c)
      /\ \A s, d : Told(s, d)' = Told(s, d)
  BY <1>1 DEF Carries, Told, shared
<1>5. Casualties'
  <2>1. \A a \in Running : \A b \in Running \ {a} :
          processIsAlive'[a][idToIndex(a, b)]
    <3> SUFFICES ASSUME NEW a \in Running, NEW b \in Running \ {a}
                 PROVE  processIsAlive'[a][idToIndex(a, b)]
      OBVIOUS
    <3>1. processIsAlive[a][idToIndex(a, b)]
      BY <1>2 DEF Casualties
    <3>2. a = n => idToIndex(a, b) # idToIndex(n, m)
      BY <1>2, <1>3, Entries
    <3>3. a \in Node /\ b \in Node /\ idToIndex(a, b) \in Index
      BY <1>2, ClusterSizeAssumption DEF Node, Index, idToIndex
    <3>4. processIsAlive \in [Node -> [Index -> BOOLEAN]]
      BY DEF TypeOK
    <3> QED
      BY <1>1, <3>1, <3>2, <3>3, <3>4, SMTT(30)
  <2>2. \A c \in Node : crashed[c] => Idle(c)'
    <3> SUFFICES ASSUME NEW c \in Node, crashed[c] PROVE Idle(c)'
      OBVIOUS
    <3>1. Idle(c) /\ c # n
      BY <1>2, <1>3 DEF Casualties, Running
    <3>2. startIn'[c] = startIn[c]
      BY <1>1, <3>1 DEF TypeOK
    <3> QED
      BY <1>1, <3>1, <3>2 DEF Idle, threads
  <2> QED
    BY <1>1, <1>2, <1>4, <2>1, <2>2 DEF Casualties
<1>6. /\ \A k \in Running \ {n} : startIn'[k] = startIn[k]
      /\ leaderNodeId[n] # m => startIn'[n] = startIn[n]
      /\ leaderNodeId[n] = m => startIn'[n] = FailureSleep
  BY <1>1, <1>2, <1>3 DEF TypeOK
<1>7. leaderNodeId[n] = m
        => FailureSleep + t \in 0 .. ELECTION_WAIT_DURATION - 1
  <2> SUFFICES ASSUME leaderNodeId[n] = m
               PROVE  FailureSleep + t \in 0 .. ELECTION_WAIT_DURATION - 1
    OBVIOUS
  <2>1. HasOldLeader(n, t)
    <3>1. m # h /\ m # -1
      BY <1>2, <1>3 DEF Node
    <3> QED
      BY <1>2, <1>3, <3>1 DEF ElectionAt, Leads
  <2>2. downFor \in Int /\ downFor <= MaxDown
    BY Waits DEF TypeOK
  <2> QED
    BY <1>1, <2>1, <2>2, Waits DEF HasOldLeader, SkewsAreSmall
<1>8. ASSUME NEW k \in Running
      PROVE  Called(k, t)' /\ OnTime(k, t)' /\ Leads(h, k, t)'
  <2>1. Called(k, t) /\ OnTime(k, t) /\ Leads(h, k, t)
    BY <1>2 DEF ElectionAt
  <2>2. Called(k, t)'
    <3>1. startIn'[k] >= 0
            => t + startIn'[k] \in 0 .. ELECTION_WAIT_DURATION - 1
      BY <1>6, <1>7, <2>1, Waits DEF Called
    <3>2. ~ up[k] => startIn'[k] >= 0
      BY <1>6, <1>7, <2>1, Waits DEF Called
    <3> QED
      BY <1>1, <1>4, <2>1, <3>1, <3>2 DEF Called, shared
  <2>3. OnTime(k, t)'
    BY <1>1, <2>1 DEF OnTime, threads
  <2>4. HasOldLeader(k, t) => HasOldLeader(k, t)'
    <3>1. CASE k = n /\ leaderNodeId[n] = m
      <4>1. ~ processIsAlive'[n][idToIndex(n, m)]
        <5>1. idToIndex(n, m) \in Index
          BY <1>3, ClusterSizeAssumption DEF Node, Index, idToIndex
        <5> QED
          BY <1>1, <5>1 DEF TypeOK
      <4>2. startIn'[n] >= 0
        BY <1>6, <3>1, Waits
      <4> QED
        BY <1>1, <3>1, <4>1, <4>2 DEF HasOldLeader, Unnoticed, threads, shared
    <3>2. CASE k = n /\ leaderNodeId[n] # m
      BY <1>2, <1>3, <3>2 DEF HasOldLeader, Casualties
    <3>3. CASE k # n
      BY <1>1, <1>2, <1>3, <1>6, <3>3
         DEF HasOldLeader, Unnoticed, threads, shared, TypeOK
    <3> QED
      BY <3>1, <3>2, <3>3
  <2>5. Leads(h, k, t)'
    BY <1>1, <1>4, <2>1, <2>4 DEF Leads, shared
  <2> QED
    BY <2>2, <2>3, <2>5
<1>9. TopWins(h, t)'
  <2>1. leaderNodeId[h] = -1 /\ startIn'[h] = -1 => startIn[h] = -1
    <3>1. m # -1
      BY DEF Node
    <3> QED
      BY <1>2, <1>6, <3>1
  <2> QED
    BY <1>1, <1>2, <1>4, <2>1 DEF ElectionAt, TopWins, threads, shared
<1>10. \A k \in Running \ {h} : LowerWaits(h, k, t)'
  BY <1>1, <1>2, <1>4 DEF ElectionAt, LowerWaits, threads, shared
<1> QED
  BY <1>1, <1>2, <1>5, <1>8, <1>9, <1>10 DEF Good, Top, ElectionAt

--------------------------------------------------------------------------------
(* A second.                                                                *)

\* Nothing is left to do for a running node when the clock moves on.
LEMMA NotBusy ==
  ASSUME TypeOK, NEW n \in Running, ~ Busy(n)
  PROVE  /\ startIn[n] # 0
         /\ trigger[n]["check"] = 0 /\ trigger[n]["declare"] = 0
         /\ trigger[n]["wait"] > 0 => keepWaiting(n)
         /\ \A s \in WaitStep : waiting[n][s] = 0
         /\ up[n] => \A s \in Node, m \in Code : ~ Carries(s, n, m)
         /\ \A m \in Node : Unnoticed(n, m) => downFor # MaxDown
<1>1. n \in Node /\ ~ crashed[n]
  BY DEF Running
<1>2. /\ trigger[n] \in [TriggerStep -> Nat] /\ waiting[n] \in [WaitStep -> Nat]
      /\ "check" \in TriggerStep /\ "declare" \in TriggerStep
  BY <1>1 DEF TypeOK, TriggerStep
<1>3. /\ trigger[n]["check"] = 0 /\ trigger[n]["declare"] = 0
      /\ \A s \in WaitStep : waiting[n][s] = 0
  <2>1. /\ trigger[n]["check"] \in Nat /\ trigger[n]["declare"] \in Nat
        /\ \A s \in WaitStep : waiting[n][s] \in Nat
    BY <1>2
  <2>2. /\ ~ (trigger[n]["check"] > 0) /\ ~ (trigger[n]["declare"] > 0)
        /\ \A s \in WaitStep : ~ (waiting[n][s] > 0)
    BY DEF Busy, TriggerAt, WaitAt
  <2> QED
    BY <2>1, <2>2
<1>4. up[n] => \A s \in Node, m \in Code : ~ Carries(s, n, m)
  BY <1>1, DeliverableCarries DEF Busy
<1> QED
  BY <1>3, <1>4 DEF Busy, TriggerAt

LEMMA TickGood ==
  ASSUME TypeOK, SkewsAreSmall, NEW h \in Node, NEW t \in Int, Good(h, t),
         Tick
  PROVE  Good(h, t + 1)'
<1>1. /\ startIn' = [n \in Node |->
                       IF startIn[n] > 0 THEN startIn[n] - 1 ELSE -1]
      /\ start' = [n \in Node |-> IF start[n] < ELECTION_WAIT_DURATION
                                  THEN start[n] + 1 ELSE start[n]]
      /\ waiting' = [n \in Node |->
                       [waiting[n] EXCEPT !["check"] = asleep[n][1]]]
      /\ asleep' = [n \in Node |->
                      [k \in 1 .. AliveSleep |->
                         IF k < AliveSleep THEN asleep[n][k + 1] ELSE 0]]
      /\ downFor' = IF (\E n \in Node : crashed[n]) /\ downFor < MaxDown
                    THEN downFor + 1 ELSE downFor
      /\ UNCHANGED <<net, leaderNodeId, aliveReceived, up, trigger,
                     processIsAlive, crashed, midway>>
      /\ \A n \in Node : ~ Busy(n)
  BY DEF Tick
<1>2. /\ Casualties /\ Top(h) /\ ElectionAt(h, t) /\ h \in Running
      /\ Running' = Running /\ Running \subseteq Node /\ h \in Int /\ h # -1
  BY <1>1, AmongRunning DEF Good, Top, Running, Node
<1>3. /\ \A s, d, c : Carries(s, d, c)' = Carries(s, d, c)
      /\ \A s, d : Told(s, d)' = Told(s, d)
  BY <1>1 DEF Carries, Told
<1>4. ASSUME NEW n \in Node
      PROVE  /\ startIn'[n] = IF startIn[n] > 0 THEN startIn[n] - 1 ELSE -1
             /\ start'[n] = IF start[n] < ELECTION_WAIT_DURATION
                            THEN start[n] + 1 ELSE start[n]
             /\ waiting'[n]["check"] = asleep[n][1]
             /\ \A s \in WaitStep \ {"check"} : waiting'[n][s] = waiting[n][s]
             /\ \A k \in 1 .. AliveSleep :
                  asleep'[n][k] = IF k < AliveSleep THEN asleep[n][k + 1] ELSE 0
             /\ startIn[n] \in Int /\ -1 <= startIn[n]
             /\ start[n] \in 0 .. ELECTION_WAIT_DURATION
  <2>1. waiting'[n] = [waiting[n] EXCEPT !["check"] = asleep[n][1]]
    BY <1>1
  <2>2. waiting[n] \in [WaitStep -> Nat] /\ "check" \in WaitStep
    BY DEF TypeOK, WaitStep
  <2> QED
    BY <1>1, <2>1, <2>2 DEF TypeOK
<1>5. ASSUME NEW n \in Running
      PROVE  /\ startIn[n] # 0
             /\ trigger[n]["check"] = 0 /\ trigger[n]["declare"] = 0
             /\ trigger[n]["wait"] > 0 => keepWaiting(n)
             /\ \A s \in WaitStep : waiting[n][s] = 0
             /\ up[n] => \A s \in Node, m \in Code : ~ Carries(s, n, m)
             /\ \A m \in Node : Unnoticed(n, m) => downFor # MaxDown
             /\ n \in Node /\ Called(n, t) /\ OnTime(n, t) /\ Leads(h, n, t)
  BY <1>1, <1>2, NotBusy DEF ElectionAt
<1>6. Casualties'
  <2>1. ASSUME NEW c \in Node, crashed[c] PROVE Idle(c)'
    <3>1. Idle(c)
      BY <1>2, <2>1 DEF Casualties
    <3>2. \A k \in 1 .. AliveSleep : asleep'[c][k] = 0
      BY <1>4, <3>1, Waits DEF Idle
    <3>3. \A s \in WaitStep : waiting'[c][s] = 0
      BY <1>4, <3>1, Waits DEF Idle
    <3> QED
      BY <1>1, <1>4, <3>1, <3>2, <3>3 DEF Idle
  <2>2. downFor' # 0 => \E c \in Node : crashed[c]
    BY <1>1, <1>2 DEF Casualties
  <2> QED
    BY <1>1, <1>2, <1>3, <2>1, <2>2 DEF Casualties
\* Calls and waits are a second nearer, and a second later.
<1>7. ASSUME NEW n \in Running PROVE Called(n, t + 1)'
  <2>1. startIn'[n] >= 0
          => t + 1 + startIn'[n] \in 0 .. ELECTION_WAIT_DURATION - 1
    BY <1>4, <1>5, Waits DEF Called
  <2>2. ~ up[n] => startIn'[n] >= 0
    BY <1>4, <1>5 DEF Called
  <2>3. leaderNodeId[n] = -1 => start'[n] <= t + 1
    BY <1>4, <1>5, Waits DEF Called
  <2>4. \A s \in Node : Carries(s, n, "ELECTION")
                          => t + 1 < ELECTION_WAIT_DURATION
    BY <1>4, <1>5, Codes, Waits DEF Called
  <2>5. \A s \in Node, m \in Code : Carries(s, n, m) => t + 1 >= 0
    BY <1>5 DEF Called
  <2> QED
    BY <1>1, <1>3, <2>1, <2>2, <2>3, <2>4, <2>5 DEF Called
<1>8. ASSUME NEW n \in Running PROVE OnTime(n, t + 1)'
  <2>1. ASSUME NEW k \in 1 .. AliveSleep, asleep'[n][k] > 0
        PROVE  k + (t + 1) >= AliveSleep
    <3>1. k < AliveSleep /\ asleep[n][k + 1] > 0
      BY <1>4, <1>5, <2>1
    <3>2. k + 1 \in 1 .. AliveSleep
      BY <3>1, Waits
    <3> QED
      BY <1>5, <3>1, <3>2, Waits DEF OnTime
  <2>2. waiting'[n]["check"] > 0 => t + 1 >= AliveSleep
    BY <1>4, <1>5, Waits DEF OnTime
  <2>3. /\ waiting'[n]["set"] = 0 /\ waiting'[n]["restart"] = 0
        /\ waiting'[n]["clear"] = 0
    BY <1>4, <1>5 DEF WaitStep
  <2>4. trigger'[n]["check"] = 0 /\ trigger'[n]["declare"] = 0
    BY <1>1, <1>5
  <2> QED
    BY <2>1, <2>2, <2>3, <2>4, Waits DEF OnTime
\* When the clock reaches AliveSleep everybody knows h.
<1>9. ASSUME t + 1 >= AliveSleep, NEW n \in Running
      PROVE  leaderNodeId[n] = h
  <2>1. startIn[h] = -1 /\ up[h] /\ startIn[n] = -1 /\ up[n]
    BY <1>2, <1>4, <1>5, <1>9, Waits DEF Called
  <2>2. leaderNodeId[h] \in {-1, h}
    <3>1. ~ HasOldLeader(h, t)
      <4>1. downFor \in Int /\ downFor <= MaxDown
        BY Waits DEF TypeOK
      <4> QED
        BY <1>9, <2>1, <4>1, Waits DEF HasOldLeader, SkewsAreSmall
    <3> QED
      BY <1>2, <1>5, <3>1 DEF Leads
  <2>3. leaderNodeId[h] # -1
    <3> SUFFICES ASSUME leaderNodeId[h] = -1 PROVE FALSE
      OBVIOUS
    <3>1. TopWins(h, t)
      BY <1>2 DEF ElectionAt
    <3>2. start[h] = ELECTION_WAIT_DURATION
      BY <1>4, <1>9, <3>1, Waits DEF TopWins
    <3>3. PICK s \in TriggerStep : trigger[h][s] > 0
      BY <2>1, <3>1 DEF TopWins
    <3>4. s = "wait"
      BY <1>2, <1>5, <3>3 DEF TriggerStep
    <3>5. keepWaiting(h)
      BY <1>2, <1>5, <3>3, <3>4
    <3> QED
      BY <3>1, <3>2, <3>5, Waits DEF keepWaiting, TopWins
  <2>4. n # h => Told(h, n)
    BY <1>2, <2>2, <2>3 DEF ElectionAt, TopWins
  <2> QED
    BY <1>5, <2>1, <2>2, <2>3, <2>4, Codes DEF Told
<1>10. ASSUME NEW n \in Running PROVE Leads(h, n, t + 1)'
  <2>1. HasOldLeader(n, t) => HasOldLeader(n, t + 1)'
    <3> SUFFICES ASSUME HasOldLeader(n, t) PROVE HasOldLeader(n, t + 1)'
      OBVIOUS
    <3> DEFINE l == leaderNodeId[n]
    <3>1. Unnoticed(n, l)' <=> Unnoticed(n, l)
      BY <1>1 DEF Unnoticed
    <3>2. /\ l \in Node /\ crashed[l]
          /\ \A s \in TriggerStep : trigger[n][s] = 0
          /\ Unnoticed(n, l)
               => t + FailureSleep = downFor - TIMEOUT_DURATION - 1
          /\ ~ Unnoticed(n, l) => startIn[n] >= 0
      BY DEF HasOldLeader
    <3>3. Unnoticed(n, l) => downFor' = downFor + 1
      <4>1. Unnoticed(n, l) => downFor # MaxDown
        BY <1>5, <3>2
      <4>2. downFor \in 0 .. MaxDown
        BY DEF TypeOK
      <4>3. \E c \in Node : crashed[c]
        BY <3>2
      <4> HIDE DEF l
      <4>4. ASSUME Unnoticed(n, l) PROVE downFor < MaxDown
        BY <4>1, <4>2, <4>4, Waits
      <4> QED
        BY <1>1, <4>3, <4>4
    <3>4. Unnoticed(n, l)
            => (t + 1) + FailureSleep = downFor' - TIMEOUT_DURATION - 1
      <4>1. downFor \in Int
        BY DEF TypeOK
      <4> QED
        BY <3>2, <3>3, <4>1, Waits
    <3>5. ~ Unnoticed(n, l) => startIn'[n] >= 0
      BY <1>4, <1>5, <3>2
    <3> QED
      BY <1>1, <3>1, <3>2, <3>4, <3>5 DEF HasOldLeader
  <2>2. \A s \in Node : Carries(s, n, "VICTORY")
          => s = h /\ t + 1 >= ELECTION_WAIT_DURATION
    BY <1>5, Waits DEF Leads
  <2>3. leaderNodeId[n] = h => t + 1 >= ELECTION_WAIT_DURATION
    BY <1>5, Waits DEF Leads
  <2>4. leaderNodeId[n] \in {-1, h} \/ HasOldLeader(n, t + 1)'
    BY <1>5, <2>1 DEF Leads
  <2> QED
    BY <1>1, <1>3, <1>9, <2>2, <2>3, <2>4 DEF Leads
<1>11. TopWins(h, t + 1)'
  <2>1. TopWins(h, t)
    BY <1>2 DEF ElectionAt
  <2>2. \A k \in 1 .. AliveSleep : asleep'[h][k] = 0
    BY <1>2, <1>4, <2>1, Waits DEF TopWins
  <2>3. \A s \in WaitStep : waiting'[h][s] = 0
    BY <1>2, <1>4, <2>1, Waits DEF TopWins
  <2>4. leaderNodeId[h] = -1
          => \/ start'[h] = ELECTION_WAIT_DURATION
             \/ start'[h] >= (t + 1) - ELECTION_WAIT_DURATION + 1
    BY <1>2, <1>4, <2>1, Waits DEF TopWins
  <2>5. startIn'[h] = -1 => startIn[h] = -1
    BY <1>2, <1>4, <1>5
  <2>6. leaderNodeId[h] = h \/ trigger[h]["declare"] > 0
          => t + 1 >= ELECTION_WAIT_DURATION
    BY <2>1, Waits DEF TopWins
  <2> QED
    BY <1>1, <1>2, <1>3, <2>1, <2>2, <2>3, <2>4, <2>5, <2>6 DEF TopWins
\* When the wait is over everybody has the answer of h.
<1>12. ASSUME NEW n \in Running \ {h} PROVE LowerWaits(h, n, t + 1)'
  <2>1. LowerWaits(h, n, t)
    BY <1>2 DEF ElectionAt
  <2>2. ASSUME leaderNodeId[n] = -1, t + 1 >= ELECTION_WAIT_DURATION
        PROVE  aliveReceived[n]
    <3>1. up[n] /\ up[h]
      BY <1>2, <1>4, <1>5, <2>2, Waits DEF Called
    <3>2. ~ Carries(h, n, "ALIVE") /\ ~ Carries(n, h, "ELECTION")
      BY <1>2, <1>5, <3>1, Codes
    <3>3. ~ (waiting[n]["set"] > 0)
      BY <1>5 DEF WaitStep
    <3> QED
      BY <2>1, <2>2, <3>1, <3>2, <3>3 DEF LowerWaits
  <2>3. waiting'[n]["set"] = waiting[n]["set"]
    BY <1>4, <1>5 DEF WaitStep
  <2> QED
    BY <1>1, <1>3, <2>1, <2>2, <2>3 DEF LowerWaits
<1>13. ElectionAt(h, t + 1)'
  BY <1>2, <1>7, <1>8, <1>10, <1>11, <1>12 DEF ElectionAt
<1> QED
  BY <1>1, <1>2, <1>6, <1>13 DEF Good, Top

--------------------------------------------------------------------------------
(* A crash between two elections.                                           *)

LEMMA TopExists ==
  ASSUME NEW c \in Node, Node \ {c} # {}
  PROVE  \E g \in Node \ {c} : \A m \in Node \ {c} : m <= g
<1>1. CASE c = clusterSize - 1
  <2>1. clusterSize - 2 \in Node \ {c}
    BY <1>1, ClusterSizeAssumption DEF Node
  <2>2. \A m \in Node \ {c} : m <= clusterSize - 2
    BY <1>1, ClusterSizeAssumption DEF Node
  <2> QED
    BY <2>1, <2>2
<1>2. CASE c # clusterSize - 1
  <2>1. clusterSize - 1 \in Node \ {c}
    BY <1>2, ClusterSizeAssumption DEF Node
  <2>2. \A m \in Node \ {c} : m <= clusterSize - 1
    BY ClusterSizeAssumption DEF Node
  <2> QED
    BY <2>1, <2>2
<1> QED
  BY <1>1, <1>2

\* When an election is over, h has won it and no message is left.
LEMMA SettledAgrees ==
  ASSUME TypeOK, AliveFlagIsCleared, NEW h \in Node, NEW t \in Int, Good(h, t),
         Settled
  PROVE  \A n \in Running :
           /\ leaderNodeId[n] = h /\ Idle(n) /\ up[n] /\ ~ aliveReceived[n]
           /\ \A s \in Node, m \in Code : ~ Carries(s, n, m)
<1>1. ASSUME NEW n \in Running
      PROVE  /\ Idle(n) /\ up[n] /\ ~ aliveReceived[n]
             /\ \A s \in Node, m \in Code : ~ Carries(s, n, m)
             /\ leaderNodeId[n] \in {-1, h}
  <2>1. /\ n \in Node /\ ~ Busy(n) /\ ~ Sleeping(n)
        /\ Called(n, t) /\ Leads(h, n, t)
    BY OfRunning DEF Settled
  <2>2. /\ startIn[n] \in Int /\ -1 <= startIn[n]
        /\ \A k \in 1 .. AliveSleep : asleep[n][k] \in Nat
        /\ trigger[n]["wait"] \in Nat
    <3>1. /\ startIn \in [Node -> Int] /\ \A k \in Node : -1 <= startIn[k]
          /\ asleep \in [Node -> [1 .. AliveSleep -> Nat]]
          /\ trigger \in [Node -> [TriggerStep -> Nat]]
      BY DEF TypeOK
    <3>2. "wait" \in TriggerStep
      BY DEF TriggerStep
    <3> QED
      BY <2>1, <3>1, <3>2
  <2>3. /\ startIn[n] # 0 /\ trigger[n]["check"] = 0
        /\ trigger[n]["declare"] = 0
        /\ \A s \in WaitStep : waiting[n][s] = 0
        /\ up[n] => \A s \in Node, m \in Code : ~ Carries(s, n, m)
    BY <2>1, NotBusy
  <2>4. /\ ~ (startIn[n] > 0) /\ ~ (trigger[n]["wait"] > 0)
        /\ \A k \in 1 .. AliveSleep : ~ (asleep[n][k] > 0)
        /\ \A m \in Node : ~ Unnoticed(n, m)
    BY <2>1 DEF Sleeping, TriggerAt
  <2>5. /\ startIn[n] = -1 /\ trigger[n]["wait"] = 0
        /\ \A k \in 1 .. AliveSleep : asleep[n][k] = 0
    BY <2>2, <2>3, <2>4
  <2>6. Idle(n)
    BY <2>3, <2>5 DEF Idle, TriggerStep
  <2>7. up[n]
    BY <2>1, <2>5 DEF Called
  <2>8. ~ aliveReceived[n]
    BY <2>1, <2>3, <2>4 DEF AliveFlagIsCleared, WaitAt
  <2>9. ~ HasOldLeader(n, t)
    BY <2>4, <2>5 DEF HasOldLeader
  <2> QED
    BY <2>1, <2>3, <2>6, <2>7, <2>8, <2>9 DEF Leads
<1>2. TopWins(h, t) /\ h \in Running
  BY DEF Good, Top, ElectionAt
<1>3. leaderNodeId[h] = h
  <2>1. \A s \in TriggerStep : ~ (trigger[h][s] > 0)
    BY <1>1, <1>2 DEF Idle
  <2> QED
    BY <1>1, <1>2, <2>1 DEF TopWins, Idle
<1>4. \A n \in Running \ {h} : Told(h, n)
  BY <1>2, <1>3 DEF TopWins
<1> QED
  BY <1>1, <1>2, <1>3, <1>4, Codes DEF Told

\* The lower nodes go on, or the highest of them will win when everybody has
\* noticed.
LEMMA CrashGood ==
  ASSUME TypeOK, AliveFlagIsCleared, NEW h \in Node, NEW t \in Int, Good(h, t),
         NEW c \in Node, Crash(c), Settled
  PROVE  /\ Casualties'
         /\ \/ Running' = {}
            \/ \E g \in Node, t2 \in Int : Good(g, t2)'
<1>1. /\ \A m \in Node : ~ crashed[m]
      /\ crashed' = [crashed EXCEPT ![c] = TRUE]
      /\ UNCHANGED <<net, shared, up, startIn, threads, processIsAlive,
                     downFor>>
  BY DEF Crash
<1>2. /\ Running = Node /\ Running' = Node \ {c}
      /\ \A m \in Node : crashed'[m] <=> m = c
  BY <1>1 DEF Running, TypeOK
<1>3. ASSUME NEW n \in Node
      PROVE  /\ leaderNodeId[n] = h /\ Idle(n) /\ up[n] /\ ~ aliveReceived[n]
             /\ \A s \in Node, m \in Code : ~ Carries(s, n, m)
             /\ Called(n, t) /\ OnTime(n, t) /\ Leads(h, n, t)
  BY <1>2, SettledAgrees, OfRunning
<1>4. \A s, d, m : Carries(s, d, m)' = Carries(s, d, m)
  BY <1>1 DEF Carries
<1>5. \A n : Idle(n)' = Idle(n)
  BY <1>1 DEF Idle, threads
<1>6. Casualties /\ TopWins(h, t) /\ h \in Running /\ Top(h)
  BY DEF Good, Top, ElectionAt
<1>7. downFor = 0
  BY <1>1, <1>6 DEF Casualties
<1>8. Casualties'
  <2>1. \A m \in Node : crashed'[m]
          => /\ Idle(m)' /\ up'[m]
             /\ \A n \in Running', k \in Code : ~ Carries(m, n, k)'
    BY <1>1, <1>2, <1>3, <1>4, <1>5
  <2>2. \A a \in Running' : \A b \in Running' \ {a} :
          processIsAlive'[a][idToIndex(a, b)]
    BY <1>1, <1>2, <1>6 DEF Casualties
  <2>3. \A n \in Node, m \in Code : ~ Carries(n, n, m)'
    BY <1>3, <1>4
  <2>4. \A a, b \in Node : crashed'[a] /\ crashed'[b] => a = b
    BY <1>2
  <2>5. downFor' = 0
    BY <1>1, <1>7
  <2> QED
    BY <2>1, <2>2, <2>3, <2>4, <2>5 DEF Casualties
<1>9. ASSUME c # h PROVE Good(h, t)'
  <2>1. Top(h)'
    BY <1>2, <1>6, <1>9 DEF Top
  <2>2. ASSUME NEW n \in Running'
        PROVE  Called(n, t)' /\ OnTime(n, t)' /\ Leads(h, n, t)'
    BY <1>1, <1>2, <1>3, <1>4, <2>2 DEF Called, OnTime, Leads, shared, threads
  <2>3. \A n : Told(h, n)' = Told(h, n)
    BY <1>1, <1>4 DEF Told, shared
  <2>4. TopWins(h, t)'
    BY <1>1, <1>2, <1>6, <2>3 DEF TopWins, shared, threads
  <2>5. \A n \in Running' \ {h} : LowerWaits(h, n, t)'
    <3>1. \A n \in Running' \ {h} : LowerWaits(h, n, t)
      BY <1>2 DEF Good, ElectionAt
    <3> QED
      BY <1>1, <1>4, <3>1 DEF LowerWaits, shared, threads
  <2>6. ElectionAt(h, t)'
    BY <2>2, <2>4, <2>5 DEF ElectionAt
  <2> QED
    BY <1>8, <2>1, <2>6 DEF Good
<1>10. ASSUME c = h, Node \ {c} # {}
       PROVE  \E g \in Node, t2 \in Int : Good(g, t2)'
  <2>1. PICK g \in Node \ {c} : \A m \in Node \ {c} : m <= g
    BY <1>10, TopExists
  <2>2. PICK t2 \in Int : t2 = -FailureSleep - TIMEOUT_DURATION - 1
    BY Waits
  <2>3. t2 < 0 /\ t2 + FailureSleep = downFor - TIMEOUT_DURATION - 1
    BY <1>7, <2>2, Waits
  <2>4. ASSUME NEW n \in Running'
        PROVE  Called(n, t2)' /\ OnTime(n, t2)' /\ Leads(g, n, t2)'
    <3>1. /\ n \in Node \ {h} /\ leaderNodeId'[n] = h /\ Idle(n)' /\ up'[n]
          /\ h # -1 /\ \A s \in Node, m \in Code : ~ Carries(s, n, m)'
      BY <1>1, <1>2, <1>3, <1>4, <1>5, <1>10, <2>4 DEF shared, Node
    <3>2. Called(n, t2)'
      BY <3>1, Codes DEF Called, Idle
    <3>3. OnTime(n, t2)'
      BY <3>1, Waits DEF OnTime, Idle, TriggerStep, WaitStep
    <3>4. Unnoticed(n, h)'
      BY <1>1, <1>2, <1>6, <1>10, <3>1 DEF Unnoticed, Casualties
    <3>5. HasOldLeader(n, t2)'
      BY <1>1, <1>2, <1>10, <2>3, <3>1, <3>4 DEF HasOldLeader, Idle
    <3>6. ~ (t2 >= AliveSleep) /\ g # h
      BY <1>10, <2>1, <2>3, Waits
    <3>7. Leads(g, n, t2)'
      BY <3>1, <3>5, <3>6, Codes DEF Leads
    <3> QED
      BY <3>2, <3>3, <3>7
  <2>5. /\ leaderNodeId'[g] = h /\ Idle(g)' /\ ~ aliveReceived'[g]
        /\ h # -1 /\ g # h
    BY <1>1, <1>3, <1>5, <1>10, <2>1 DEF shared, Node
  <2>6. TopWins(g, t2)'
    BY <2>5 DEF TopWins, Idle, TriggerStep
  <2>7. ASSUME NEW n \in Running' \ {g} PROVE LowerWaits(g, n, t2)'
    <3>1. leaderNodeId'[n] = h /\ Idle(n)' /\ h # -1
      BY <1>1, <1>2, <1>3, <1>5, <2>7 DEF shared, Node
    <3> QED
      BY <3>1 DEF LowerWaits, Idle, TriggerStep
  <2>8. Top(g)' /\ ElectionAt(g, t2)'
    BY <1>2, <2>1, <2>4, <2>6, <2>7 DEF Top, ElectionAt
  <2> QED
    BY <1>8, <2>1, <2>8 DEF Good
<1> QED
  BY <1>2, <1>8, <1>9, <1>10

\* A crashed node has no thread left that could take a step.
LEMMA CrashedIsStill ==
  ASSUME TypeOK, Casualties, NEW c \in Node, crashed[c]
  PROVE  /\ ~ TriggerThreadStep(c) /\ ~ AliveWaitThreadStep(c) /\ ~ Sleeping(c)
         /\ \A n \in Node : ~ Crash(n)
         /\ \A m \in Node :
              ~ ElectionThreadStep(c, m) /\ ~ handleNodeFailure(c, m)
<1>1. /\ Idle(c) /\ \A m \in Node : ~ Unnoticed(c, m)
      /\ startIn[c] = -1
      /\ \A s \in TriggerStep : ~ TriggerAt(c, s)
      /\ \A s \in WaitStep : ~ WaitAt(c, s)
      /\ \A k \in 1 .. AliveSleep : ~ (asleep[c][k] > 0)
  BY DEF Casualties, Unnoticed, Idle, TriggerAt, WaitAt
<1>2. ~ TriggerThreadStep(c)
  BY <1>1 DEF TriggerThreadStep, StartElection, StopWaiting, LeaderFound,
     DeclareVictory, BecomeLeader, TriggerStep
<1>3. ~ AliveWaitThreadStep(c)
  BY <1>1 DEF AliveWaitThreadStep, WaitSet, WaitCheck, WaitRestart, WaitClear,
     WaitStep
<1>4. ~ Sleeping(c)
  BY <1>1 DEF Sleeping, TriggerStep
<1>5. \A n \in Node : ~ Crash(n)
  BY DEF Crash
<1>6. \A m \in Node : ~ ElectionThreadStep(c, m) /\ ~ handleNodeFailure(c, m)
  BY <1>1 DEF ElectionThreadStep, ReceiveDropped, HandleElection, HandleAlive,
     HandleVictory, Handling, Deliverable, handleNodeFailure
<1> QED
  BY <1>2, <1>3, <1>4, <1>5, <1>6

--------------------------------------------------------------------------------
(* Every step.                                                              *)

\* The nodes start the first election together.
LEMMA ElectionInit ==
  ASSUME Init, SkewsAreSmall
  PROVE  ElectionInv
<1> USE DEF Init
<1>1. /\ clusterSize \in Nat \ {0} /\ Running = Node
      /\ clusterSize - 1 \in Node /\ -1 \notin Node
      /\ \A n \in Node : n <= clusterSize - 1
  BY ClusterSizeAssumption DEF Running, Node
<1>2. \A s, d \in Node, m \in Code : ~ Carries(s, d, m)
  BY DEF Carries, In, EmptyChannels
<1>3. \A n \in Node : startIn[n] \in Int /\ 0 <= startIn[n] /\
                      startIn[n] <= ELECTION_WAIT_DURATION - 1
  BY Waits DEF SkewsAreSmall
<1>4. Casualties
  <2>1. ASSUME NEW a \in Node, NEW b \in Node \ {a}
        PROVE  processIsAlive[a][idToIndex(a, b)]
    <3>1. idToIndex(a, b) \in Index
      BY ClusterSizeAssumption DEF Node, Index, idToIndex
    <3> QED
      BY <3>1 DEF AllAlive
  <2> QED
    BY <1>1, <1>2, <2>1 DEF Casualties
<1>5. ASSUME NEW n \in Node
      PROVE  /\ Called(n, 0) /\ OnTime(n, 0) /\ Leads(clusterSize - 1, n, 0)
             /\ LowerWaits(clusterSize - 1, n, 0)
  <2>1. Called(n, 0)
    BY <1>2, <1>3, Codes, Waits DEF Called
  <2>2. OnTime(n, 0)
    BY Waits DEF OnTime, TriggerStep, WaitStep
  <2>3. Leads(clusterSize - 1, n, 0)
    BY <1>1, <1>2, Codes, Waits DEF Leads
  <2>4. LowerWaits(clusterSize - 1, n, 0)
    BY Waits DEF LowerWaits, TriggerStep
  <2> QED
    BY <2>1, <2>2, <2>3, <2>4
<1>6. TopWins(clusterSize - 1, 0)
  BY <1>1, <1>3, Waits DEF TopWins, TriggerStep, WaitStep
<1>7. Top(clusterSize - 1) /\ ElectionAt(clusterSize - 1, 0)
  BY <1>1, <1>5, <1>6 DEF Top, ElectionAt
<1> QED
  BY <1>1, <1>4, <1>7 DEF ElectionInv

\* A step other than a crash, as long as no crash came during an election.
LEMMA GoodStep ==
  ASSUME TypeOK, SkewsAreSmall, NEW h \in Node, NEW t \in Int, Good(h, t),
         Next, \A n \in Node : ~ Crash(n)
  PROVE  \E t2 \in Int : Good(h, t2)'
<1>1. Casualties /\ \A n \in Node \ Running : crashed[n]
  BY AmongRunning DEF Good
<1>2. ASSUME NEW n \in Node, TriggerThreadStep(n) PROVE Good(h, t)'
  <2>1. n \in Running
    BY <1>1, <1>2, CrashedIsStill
  <2> QED
    BY <1>2, <2>1, StartElectionGood, TriggerGood DEF TriggerThreadStep
<1>3. ASSUME NEW n \in Node, AliveWaitThreadStep(n) PROVE Good(h, t)'
  <2>1. n \in Running
    BY <1>1, <1>3, CrashedIsStill
  <2> QED
    BY <1>3, <2>1, AliveWaitGood
<1>4. ASSUME NEW n \in Node, NEW src \in Node, ElectionThreadStep(n, src)
      PROVE  Good(h, t)'
  BY <1>4, ElectionThreadGood
<1>5. ASSUME NEW n \in Node, NEW m \in Node, handleNodeFailure(n, m)
      PROVE  Good(h, t)'
  BY <1>5, NodeFailureGood
<1>6. ASSUME Tick PROVE Good(h, t + 1)'
  BY <1>6, TickGood
<1>7. t + 1 \in Int
  OBVIOUS
<1> QED
  BY <1>2, <1>3, <1>4, <1>5, <1>6, <1>7 DEF Next

\* Only a crash changes who is down, and whether that came midway.
LEMMA DownStays ==
  ASSUME Next, \A n \in Node : ~ Crash(n)
  PROVE  UNCHANGED <<crashed, midway>>
BY DEF Next, TriggerThreadStep, StartElection, StopWaiting, LeaderFound,
   DeclareVictory, BecomeLeader, AliveWaitThreadStep, WaitSet, WaitCheck,
   WaitRestart, WaitClear, ElectionThreadStep, ReceiveDropped, HandleElection,
   HandleAlive, HandleVictory, handleNodeFailure, Tick, failure

LEMMA ElectionStep ==
  ASSUME SkewsAreSmall, TypeOK, AliveFlagIsCleared, ElectionInv, [Next]_vars
  PROVE  ElectionInv'
<1>1. CASE UNCHANGED vars
  <2>1. /\ UNCHANGED <<net, leaderNodeId, aliveReceived, start, up, startIn>>
        /\ UNCHANGED <<trigger, waiting, asleep>>
        /\ UNCHANGED <<processIsAlive, crashed, downFor, midway>>
    BY <1>1 DEF vars, shared, threads, failure
  <2>2. Running' = Running
    BY <2>1 DEF Running
  <2>3. Casualties => Casualties'
    BY <2>1, <2>2 DEF Casualties, Idle, Carries
  <2>4. ASSUME NEW h \in Node, NEW t \in Int, Top(h) /\ ElectionAt(h, t)
        PROVE  Top(h)' /\ ElectionAt(h, t)'
    <3>1. ASSUME NEW n \in Node
          PROVE  /\ Called(n, t) => Called(n, t)'
                 /\ OnTime(n, t) => OnTime(n, t)'
                 /\ Leads(h, n, t) => Leads(h, n, t)'
                 /\ LowerWaits(h, n, t) => LowerWaits(h, n, t)'
      <4>1. Called(n, t) => Called(n, t)'
        BY <2>1 DEF Called, Carries
      <4>2. OnTime(n, t) => OnTime(n, t)'
        BY <2>1 DEF OnTime
      <4>3. HasOldLeader(n, t) => HasOldLeader(n, t)'
        BY <2>1 DEF HasOldLeader, Unnoticed
      <4>4. Leads(h, n, t) => Leads(h, n, t)'
        BY <2>1, <4>3 DEF Leads, Carries
      <4>5. LowerWaits(h, n, t) => LowerWaits(h, n, t)'
        BY <2>1 DEF LowerWaits, Carries
      <4> QED
        BY <4>1, <4>2, <4>4, <4>5
    <3>2. TopWins(h, t) => TopWins(h, t)'
      BY <2>1, <2>2 DEF TopWins, Told, Carries
    <3> QED
      BY <2>2, <2>4, <3>1, <3>2 DEF Top, ElectionAt, Running
  <2> QED
    BY <2>1, <2>2, <2>3, <2>4 DEF ElectionInv
<1>2. CASE Next /\ \E c \in Node : Crash(c)
  <2>1. PICK c \in Node : Crash(c)
    BY <1>2
  <2>2. /\ \A n \in Node : ~ crashed[n]
        /\ crashed'[c] /\ midway' = ~ Settled
    BY <2>1 DEF Crash, TypeOK
  <2>3. ASSUME Settled
        PROVE  /\ Casualties'
               /\ \/ Running' = {}
                  \/ \E g \in Node, t2 \in Int : Good(g, t2)'
    <3>1. Running # {}
      BY <2>2 DEF Running
    <3>2. PICK h \in Node, t \in Int : Good(h, t)
      BY <2>2, <3>1 DEF ElectionInv, Good
    <3> QED
      BY <2>1, <2>3, <3>2, CrashGood
  <2>4. ~ midway' => Settled
    BY <2>2
  <2> QED
    BY <2>2, <2>3, <2>4 DEF ElectionInv, Good
<1>3. CASE Next /\ \A n \in Node : ~ Crash(n)
  <2>1. UNCHANGED <<crashed, midway>>
    BY <1>3, DownStays
  <2>2. CASE midway
    BY <2>1, <2>2 DEF ElectionInv
  <2>3. CASE ~ midway /\ Running # {}
    <3>1. PICK h \in Node, t \in Int : Good(h, t)
      BY <2>3 DEF ElectionInv, Good
    <3>2. PICK t2 \in Int : Good(h, t2)'
      BY <1>3, <3>1, GoodStep
    <3> QED
      BY <2>1, <2>3, <3>2 DEF ElectionInv, Good
  <2>4. CASE ~ midway /\ Running = {}
    <3>1. Casualties /\ \A c \in Node : crashed[c]
      BY <2>4 DEF ElectionInv, Running
    <3>2. FALSE
      BY <1>3, <3>1, CrashedIsStill DEF Next, Tick
    <3> QED
      BY <3>2
  <2> QED
    BY <2>2, <2>3, <2>4
<1> QED
  BY <1>1, <1>2, <1>3

\* The node that the definition of the properties chooses.
LEMMA TopIsHighest ==
  ASSUME NEW h \in Node, Top(h)
  PROVE  h = Highest
<1>1. h \in Running /\ \A m \in Running : m <= h
  BY DEF Top
<1>2. Highest \in Running /\ \A m \in Running : m <= Highest
  BY <1>1 DEF Highest
<1>3. h <= Highest /\ Highest <= h /\ h \in Int /\ Highest \in Int
  BY <1>1, <1>2 DEF Running, Node
<1> QED
  BY <1>3

\* In every reachable state the current election, if no crash came in the
\* middle of one, is on its way to the highest running node: it is called in
\* time, heard by everybody, and answered by nobody.
THEOREM ElectionsKeepTime ==
  ASSUME SkewsAreSmall
  PROVE  Spec => [](TypeOK /\ AliveFlagIsCleared /\ ElectionInv)
<1>1. Init => ElectionInv
  BY ElectionInit
<1>2. ElectionInv /\ TypeOK /\ AliveFlagIsCleared /\ [Next]_vars => ElectionInv'
  BY ElectionStep
<1> QED
  BY <1>1, <1>2, ElectionTypes, WaitsEnd, PTL DEF Spec

\* As long as no node crashes during an election, a running node reaches
\* declareVictory only if every higher one has crashed: neither late answers
\* nor aliveWait threads that reset the wait let a lower node through.
THEOREM OnlyTheHighestDeclares ==
  ASSUME SkewsAreSmall
  PROVE  Spec => []OnlyHighestDeclares
<1>1. TypeOK /\ ElectionInv => OnlyHighestDeclares
  <2> SUFFICES ASSUME TypeOK, ElectionInv, ~ midway, NEW n \in Running,
                      TriggerAt(n, "declare")
               PROVE  n = Highest
    BY DEF OnlyHighestDeclares
  <2>1. PICK h \in Node, t \in Int : Top(h) /\ ElectionAt(h, t)
    BY DEF ElectionInv
  <2>2. n = h
    BY <2>1 DEF ElectionAt, LowerWaits, TriggerAt
  <2> QED
    BY <2>1, <2>2, TopIsHighest
<1> QED
  BY <1>1, ElectionsKeepTime, PTL

\* "The leader is set to be the live node with the highest ID": when every
\* thread of an election has ended, all running nodes have that one as their
\* leader, after the start and after a crash between two elections.
THEOREM TheHighestWins ==
  ASSUME SkewsAreSmall
  PROVE  Spec => []HighestWins
<1>1. TypeOK /\ AliveFlagIsCleared /\ ElectionInv => HighestWins
  <2> SUFFICES ASSUME TypeOK, AliveFlagIsCleared, ElectionInv, ~ midway,
                      Settled, NEW n \in Running
               PROVE  leaderNodeId[n] = Highest
    BY DEF HighestWins
  <2>1. PICK h \in Node, t \in Int : Good(h, t)
    BY DEF ElectionInv, Good
  <2>2. leaderNodeId[n] = h
    BY <2>1, SettledAgrees
  <2>3. h = Highest
    BY <2>1, TopIsHighest DEF Good
  <2> QED
    BY <2>2, <2>3
<1> QED
  BY <1>1, ElectionsKeepTime, PTL
================================================================================
