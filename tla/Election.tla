------------------------------- MODULE Election --------------------------------
(****************************************************************************)
(* The ElectionManager (src/src/manager/election-manager.cc): the bully     *)
(* election at start-up and, when the FailureManager has noticed that the   *)
(* leader is gone (handleNodeFailure), the next one.                        *)
(*                                                                          *)
(* Threads of a node, which share leaderNodeId, aliveReceived and start     *)
(* under m_mutex:                                                           *)
(*   - the election thread, which handles one message after the other, and  *)
(*     which ReplManager::sleep() blocks while the node is "crashed";       *)
(*   - the trigger threads of startElection, which a "crash" does not       *)
(*     block: trigger counts them by where they are;                        *)
(*   - the aliveWait threads, one for every ALIVE that was handled: waiting *)
(*     counts those about to take a step, asleep those in their sleep.      *)
(* Every critical section is a step of its own.  A broadcast belongs to the *)
(* step before it, since a message may be delivered any time later.         *)
(*                                                                          *)
(* Time is counted in seconds.  A second passes only when no thread has     *)
(* anything to do and no message is waiting for a receiver: messages and    *)
(* handlers are taken to be fast next to the waits of 2 and 4 seconds.      *)
(* Within a second everything happens in any order.                         *)
(****************************************************************************)
EXTENDS Messenger, FiniteSets

CONSTANTS
  ELECTION_WAIT_DURATION,  \* seconds a node waits for an ALIVE or a VICTORY
  TIMEOUT_DURATION,        \* seconds of silence before a node is suspected
  DetectionSkew,  \* how many seconds apart the nodes notice a failure
  StartSkew,      \* how many seconds apart the nodes start
  Crashable,      \* the nodes of which one may crash ...
  CrashMidway     \* ... during an election too, or only between elections

ASSUME ElectionAssumption ==
  /\ ELECTION_WAIT_DURATION \in Nat \ {0}
  /\ TIMEOUT_DURATION \in Nat \ {0}
  /\ DetectionSkew \in Nat
  /\ StartSkew \in Nat
  /\ Crashable \subseteq Node
  /\ CrashMidway \in BOOLEAN

AliveSleep   == 2 * ELECTION_WAIT_DURATION
FailureSleep == 2 * TIMEOUT_DURATION
MaxDown      == TIMEOUT_DURATION + 1 + DetectionSkew

VARIABLES
  net,             \* channels of the LEADER_ELECTION tag
  processIsAlive,  \* Messenger::m_processIsAlive
  leaderNodeId,    \* m_leaderNodeId
  aliveReceived,   \* m_aliveReceived
  start,           \* whole seconds since m_start, at most the wait
  up,              \* the election thread has passed its init()
  startIn,         \* seconds until startElection is called, -1: no call is due
  trigger,         \* trigger[n][s]: number of trigger threads before step s
  waiting,         \* waiting[n][s]: number of aliveWait threads before step s
  asleep,          \* asleep[n][k]: number of those with k seconds to sleep
  crashed,         \* m_shouldBlock of the ReplManager, after the start
  downFor,         \* seconds since the crash, at most MaxDown
  midway           \* history: the crash came during an election

shared  == <<leaderNodeId, aliveReceived, start>>
threads == <<trigger, waiting, asleep>>
failure == <<processIsAlive, crashed, downFor, midway>>

vars == <<net, shared, up, startIn, threads, failure>>

TriggerStep == {"wait", "check", "declare"}
WaitStep    == {"set", "check", "restart", "clear"}

TypeOK ==
  /\ net \in [Node -> [Node -> Seq({"ELECTION", "ALIVE", "VICTORY"})]]
  /\ processIsAlive \in [Node -> [Index -> BOOLEAN]]
  /\ leaderNodeId \in [Node -> Node \cup {-1}]
  /\ aliveReceived \in [Node -> BOOLEAN]
  /\ start \in [Node -> 0 .. ELECTION_WAIT_DURATION]
  /\ up \in [Node -> BOOLEAN]
  /\ startIn \in [Node -> Int]
  /\ \A n \in Node : -1 <= startIn[n]
  /\ trigger \in [Node -> [TriggerStep -> Nat]]
  /\ waiting \in [Node -> [WaitStep -> Nat]]
  /\ asleep \in [Node -> [1 .. AliveSleep -> Nat]]
  /\ crashed \in [Node -> BOOLEAN]
  /\ downFor \in 0 .. MaxDown
  /\ midway \in BOOLEAN

Init ==
  /\ net = EmptyChannels
  /\ processIsAlive = AllAlive
  /\ leaderNodeId = [n \in Node |-> -1]
  /\ aliveReceived = [n \in Node |-> FALSE]
  /\ start = [n \in Node |-> 0]
  /\ up = [n \in Node |-> FALSE]
  /\ startIn \in [Node -> 0 .. StartSkew]
  /\ trigger = [n \in Node |-> [s \in TriggerStep |-> 0]]
  /\ waiting = [n \in Node |-> [s \in WaitStep |-> 0]]
  /\ asleep = [n \in Node |-> [k \in 1 .. AliveSleep |-> 0]]
  /\ crashed = [n \in Node |-> FALSE]
  /\ downFor = 0
  /\ midway = FALSE

--------------------------------------------------------------------------------
(* What several threads do.                                                 *)

Send(chan, src, dst, m) ==
  send(chan, processIsAlive, src, dst, "LEADER_ELECTION", m)

Broadcast(chan, src, first, m) ==
  broadcast(chan, processIsAlive, src, first, clusterSize, "LEADER_ELECTION", m)

\* chan: the channels once the message being handled, if any, is consumed
\* and answered.
broadcastElection(n, chan) ==
  /\ aliveReceived' = [aliveReceived EXCEPT ![n] = FALSE]
  /\ leaderNodeId' = [leaderNodeId EXCEPT ![n] = -1]
  /\ start' = [start EXCEPT ![n] = 0]
  /\ net' = Broadcast(chan, n, n + 1, "ELECTION")

gotLeader(n) == leaderNodeId[n] # -1

\* Mutant: ranks counted from 1.
setLeaderRank(n, id) == leaderNodeId' = [leaderNodeId EXCEPT ![n] = id + 1]

setLeaderNodeId(n, id) == leaderNodeId' = [leaderNodeId EXCEPT ![n] = id]

setAliveReceived(n, b) == aliveReceived' = [aliveReceived EXCEPT ![n] = b]

--------------------------------------------------------------------------------
(* The trigger thread: triggerElection.                                     *)

TriggerAt(n, s) == trigger[n][s] > 0

TriggerMoves(n, from, to) ==
  trigger' = [trigger EXCEPT ![n][from] = @ - 1, ![n][to] = @ + 1]

TriggerEnds(n, from) == trigger' = [trigger EXCEPT ![n][from] = @ - 1]

\* init() at start-up, handleNodeFailure later.
StartElection(n) ==
  /\ startIn[n] = 0
  /\ startIn' = [startIn EXCEPT ![n] = -1]
  /\ up' = [up EXCEPT ![n] = TRUE]
  /\ trigger' = [trigger EXCEPT ![n]["wait"] = @ + 1]
  /\ broadcastElection(n, net)
  /\ UNCHANGED <<waiting, asleep, failure>>

\* Mutant: the answer of a higher node does not prolong the wait.
keepWaitingNoAlive(n) ==
  ~ gotLeader(n) /\ start[n] < ELECTION_WAIT_DURATION

keepWaiting(n) ==
  \/ aliveReceived[n]
  \/ ~ gotLeader(n) /\ start[n] < ELECTION_WAIT_DURATION

\* waitForVictory polls every 10 ms and leaves its loop.
StopWaiting(n) ==
  /\ TriggerAt(n, "wait")
  /\ ~ keepWaiting(n)
  /\ TriggerMoves(n, "wait", "check")
  /\ UNCHANGED <<net, shared, up, startIn, waiting, asleep, failure>>

\* gotLeader under a new lock: another node has won.
LeaderFound(n) ==
  /\ TriggerAt(n, "check")
  /\ gotLeader(n)
  /\ TriggerEnds(n, "check")
  /\ UNCHANGED <<net, shared, up, startIn, waiting, asleep, failure>>

\* declareVictory broadcasts first ...
DeclareVictory(n) ==
  /\ TriggerAt(n, "check")
  /\ ~ gotLeader(n)
  /\ TriggerMoves(n, "check", "declare")
  /\ net' = Broadcast(net, n, 0, "VICTORY")
  /\ UNCHANGED <<shared, up, startIn, waiting, asleep, failure>>

\* Mutant: the winner does not set its own leader.
BecomeLeaderForgotten(n) ==
  /\ TriggerAt(n, "declare")
  /\ TriggerEnds(n, "declare")
  /\ UNCHANGED <<net, shared, up, startIn, waiting, asleep, failure>>

\* ... then sets the leader, and enableClientConn publishes the port.
BecomeLeader(n) ==
  /\ TriggerAt(n, "declare")
  /\ TriggerEnds(n, "declare")
  /\ setLeaderNodeId(n, n)
  /\ UNCHANGED <<net, aliveReceived, start, up, startIn, waiting, asleep,
                 failure>>

TriggerThreadStep(n) ==
  \/ StartElection(n)
  \/ StopWaiting(n)
  \/ LeaderFound(n)
  \/ DeclareVictory(n)
  \/ BecomeLeader(n)

--------------------------------------------------------------------------------
(* An aliveWait thread.                                                     *)

WaitAt(n, s) == waiting[n][s] > 0

WaitMoves(n, from, to) ==
  waiting' = [waiting EXCEPT ![n][from] = @ - 1, ![n][to] = @ + 1]

\* The thread sets the flag and goes to sleep.
WaitSet(n) ==
  /\ WaitAt(n, "set")
  /\ setAliveReceived(n, TRUE)
  /\ waiting' = [waiting EXCEPT ![n]["set"] = @ - 1]
  /\ asleep' = [asleep EXCEPT ![n][AliveSleep] = @ + 1]
  /\ UNCHANGED <<net, leaderNodeId, start, up, startIn, trigger, failure>>

\* Mutant: return as soon as there is a leader.
WaitCheckReturns(n) ==
  /\ WaitAt(n, "check")
  /\ IF gotLeader(n)
     THEN waiting' = [waiting EXCEPT ![n]["check"] = @ - 1]
     ELSE WaitMoves(n, "check", "restart")
  /\ UNCHANGED <<net, shared, up, startIn, trigger, asleep, failure>>

WaitCheck(n) ==
  /\ WaitAt(n, "check")
  /\ WaitMoves(n, "check", IF gotLeader(n) THEN "clear" ELSE "restart")
  /\ UNCHANGED <<net, shared, up, startIn, trigger, asleep, failure>>

WaitRestart(n) ==
  /\ WaitAt(n, "restart")
  /\ WaitMoves(n, "restart", "clear")
  /\ broadcastElection(n, net)
  /\ UNCHANGED <<up, startIn, trigger, asleep, failure>>

WaitClear(n) ==
  /\ WaitAt(n, "clear")
  /\ setAliveReceived(n, FALSE)
  /\ waiting' = [waiting EXCEPT ![n]["clear"] = @ - 1]
  /\ UNCHANGED <<net, leaderNodeId, start, up, startIn, trigger, asleep,
                 failure>>

AliveWaitThreadStep(n) ==
  \/ WaitSet(n)
  \/ WaitCheck(n)
  \/ WaitRestart(n)
  \/ WaitClear(n)

--------------------------------------------------------------------------------
(* The election thread.                                                     *)

Deliverable(n, src) == up[n] /\ ~ crashed[n] /\ net[src][n] # << >>

ShouldDrop(n, src) ==
  messageShouldDrop(processIsAlive[n], n, src, "LEADER_ELECTION")

ReceiveDropped(n, src) ==
  /\ Deliverable(n, src)
  /\ ShouldDrop(n, src)
  /\ net' = consume(net, src, n)
  /\ UNCHANGED <<shared, up, startIn, threads, failure>>

Handling(n, src, m) ==
  /\ Deliverable(n, src)
  /\ ~ ShouldDrop(n, src)
  /\ Head(net[src][n]) = m

HandleElection(n, src) ==
  /\ Handling(n, src, "ELECTION")
  /\ broadcastElection(n, Send(consume(net, src, n), n, src, "ALIVE"))
  /\ UNCHANGED <<up, startIn, threads, failure>>

\* Only a node with a higher id counts; its answer spawns a thread.
HandleAlive(n, src) ==
  /\ Handling(n, src, "ALIVE")
  /\ waiting' = IF src > n
                THEN [waiting EXCEPT ![n]["set"] = @ + 1]
                ELSE waiting
  /\ net' = consume(net, src, n)
  /\ UNCHANGED <<shared, up, startIn, trigger, asleep, failure>>

HandleVictory(n, src) ==
  /\ Handling(n, src, "VICTORY")
  /\ setLeaderNodeId(n, src)
  /\ net' = consume(net, src, n)
  /\ UNCHANGED <<aliveReceived, start, up, startIn, threads, failure>>

ElectionThreadStep(n, src) ==
  \/ ReceiveDropped(n, src)
  \/ HandleElection(n, src)
  \/ HandleAlive(n, src)
  \/ HandleVictory(n, src)

--------------------------------------------------------------------------------
(* A crash, and its detection by the other nodes' FailureManagers.  A node  *)
(* is Busy when one of its threads has something to do now, and Sleeping    *)
(* when one of them waits for time to pass.                                 *)

\* m is silent, and n has not noticed.
Unnoticed(n, m) ==
  /\ n # m
  /\ crashed[m]
  /\ up[n]
  /\ processIsAlive[n][idToIndex(n, m)]

Busy(n) ==
  \/ startIn[n] = 0
  \/ TriggerAt(n, "wait") /\ ~ keepWaiting(n)
  \/ TriggerAt(n, "check") \/ TriggerAt(n, "declare")
  \/ \E s \in WaitStep : WaitAt(n, s)
  \/ \E src \in Node : Deliverable(n, src)
  \/ \E m \in Node : Unnoticed(n, m) /\ downFor = MaxDown

Sleeping(n) ==
  \/ startIn[n] > 0
  \/ TriggerAt(n, "wait")
  \/ \E k \in 1 .. AliveSleep : asleep[n][k] > 0
  \/ \E m \in Node : Unnoticed(n, m)

Settled == \A n \in Node : ~ Busy(n) /\ ~ Sleeping(n)

Crash(n) ==
  /\ n \in Crashable
  /\ up[n]
  /\ \A m \in Node : ~ crashed[m]
  /\ CrashMidway \/ Settled
  /\ crashed' = [crashed EXCEPT ![n] = TRUE]
  /\ midway' = ~ Settled
  /\ UNCHANGED <<net, shared, up, startIn, threads, processIsAlive, downFor>>

\* Mutant: the node is cut off, and no election started.
handleNodeFailureNoElection(n, m) ==
  /\ Unnoticed(n, m)
  /\ downFor > TIMEOUT_DURATION
  /\ processIsAlive' =
       setNodeStatus(processIsAlive, n, idToIndex(n, m), FALSE)
  /\ UNCHANGED <<net, shared, up, startIn, threads, crashed, downFor,
                 midway>>

\* checkTimeStamps has found m silent for too long: the thread it spawns.
handleNodeFailure(n, m) ==
  /\ Unnoticed(n, m)
  /\ downFor > TIMEOUT_DURATION
  /\ processIsAlive' =
       setNodeStatus(processIsAlive, n, idToIndex(n, m), FALSE)
  /\ startIn' = IF leaderNodeId[n] = m
                THEN [startIn EXCEPT ![n] = FailureSleep]
                ELSE startIn
  /\ UNCHANGED <<net, shared, up, threads, crashed, downFor, midway>>

--------------------------------------------------------------------------------
(* Time.                                                                    *)

Tick ==
  /\ \A n \in Node : ~ Busy(n)
  /\ \E n \in Node : Sleeping(n)
  /\ startIn' = [n \in Node |-> IF startIn[n] > 0 THEN startIn[n] - 1 ELSE -1]
  /\ start' = [n \in Node |-> IF start[n] < ELECTION_WAIT_DURATION
                              THEN start[n] + 1 ELSE start[n]]
  /\ waiting' = [n \in Node |-> [waiting[n] EXCEPT !["check"] = asleep[n][1]]]
  /\ asleep' = [n \in Node |->
                  [k \in 1 .. AliveSleep |->
                     IF k < AliveSleep THEN asleep[n][k + 1] ELSE 0]]
  /\ downFor' = IF (\E n \in Node : crashed[n]) /\ downFor < MaxDown
                THEN downFor + 1 ELSE downFor
  /\ UNCHANGED <<net, leaderNodeId, aliveReceived, up, trigger,
                 processIsAlive, crashed, midway>>

Next ==
  \/ \E n \in Node : TriggerThreadStep(n) \/ AliveWaitThreadStep(n) \/ Crash(n)
  \/ \E n, src \in Node : ElectionThreadStep(n, src)
  \/ \E n, m \in Node : handleNodeFailure(n, m)
  \/ Tick

Spec == Init /\ [][Next]_vars

\* Threads run and time passes.
FairSpec == Spec /\ WF_vars(Next)

--------------------------------------------------------------------------------
(* Properties.                                                              *)

Running == {n \in Node : ~ crashed[n]}

Highest == CHOOSE n \in Running : \A m \in Running : m <= n

(****************************************************************************)
(* Unless a node crashes during an election: a running node gets past the   *)
(* check for a leader, broadcasts VICTORY and publishes its port to the     *)
(* clients only if every higher node has crashed: no restart, late ALIVE or *)
(* aliveWait thread that clears the flag makes a lower node stop waiting    *)
(* too early.                                                               *)
(****************************************************************************)
OnlyHighestDeclares ==
  ~ midway => \A n \in Running : TriggerAt(n, "declare") => n = Highest

(****************************************************************************)
(* "The leader is set to be the live node with the highest ID": when the    *)
(* election is over (no thread is left, no message is waiting), every       *)
(* running node has the highest one as its leader, that node included.      *)
(****************************************************************************)
HighestWins ==
  ~ midway /\ Settled => \A n \in Running : leaderNodeId[n] = Highest

(****************************************************************************)
(* From some moment on every running node has the highest one as its        *)
(* leader, unless a node crashes during an election: the restarts of the    *)
(* aliveWait threads do not keep each other going.                          *)
(****************************************************************************)
LeaderElected ==
  <>[](midway \/ \A n \in Running : leaderNodeId[n] = Highest)

(****************************************************************************)
(* Every election ends, whenever a node crashes: a node that is asked       *)
(* "starts the election process at the beginning" (election-manager.cc:190),*)
(* and so becomes the leader if nobody higher answers.                      *)
(****************************************************************************)
ElectionsEnd == <>[]Settled

(****************************************************************************)
(* aliveReceived is set only as long as some aliveWait thread has it yet to *)
(* clear, whichever thread sets, resets and clears it in between and        *)
(* whoever crashes: no ALIVE that came in keeps waitForVictory waiting by   *)
(* itself.  It may be set again and again, see ElectionsEnd.                *)
(****************************************************************************)
AliveFlagIsCleared ==
  \A n \in Node :
    aliveReceived[n]
      => \/ \E k \in 1 .. AliveSleep : asleep[n][k] > 0
         \/ \E s \in WaitStep \ {"set"} : WaitAt(n, s)
================================================================================
