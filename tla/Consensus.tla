------------------------------- MODULE Consensus -------------------------------
(****************************************************************************)
(* The ConsensusManager (src/src/manager/consensus-manager.cc).             *)
(*                                                                          *)
(* Two threads of a node share one Context under m_mutex:                   *)
(*   - the client thread runs startConsensus, the Proposer; phase says      *)
(*     where it is.  Every critical section of m_mutex and every call of    *)
(*     the LogFileManager is a step of its own, since the other thread may  *)
(*     run in between;                                                      *)
(*   - the consensus thread receives a message and handles it, as Acceptor  *)
(*     or Learner, or as the Proposer's ear (PROMISE, ACCEPT).  Receiving   *)
(*     and handling are separate steps: the drop rule is applied at the     *)
(*     receive, and ReplManager::sleep() may hold the thread before the     *)
(*     handler for as long as the node is "crashed".                        *)
(*                                                                          *)
(* Sleeps only bound how long the Proposer waits, so a wait may end at any  *)
(* moment, with none, some or all of the answers in.                        *)
(****************************************************************************)
EXTENDS Messenger, FiniteSets

CONSTANTS
  Value,        \* the commands clients ask to replicate
  NoValue,      \* the empty string, the initial acceptedValue
  Proposers,    \* the nodes whose client thread serves REPLICATE requests
  NodeStatus,   \* what the failure manager may set a peer's status to
  RoundDuration, \* the seconds a round takes at least: 8 in the code
  MaxClock      \* bound on the seconds MPI_Wtime counts

ASSUME ConsensusAssumption ==
  /\ NoValue \notin Value
  /\ Proposers \subseteq Node
  /\ NodeStatus \subseteq BOOLEAN
  /\ RoundDuration \in Nat \ {0}
  /\ MaxClock \in Nat

Time    == 0 .. MaxClock
RoundId == Time \cup {-1}

VARIABLES
  clock,           \* clock[n]: MPI_Wtime, in seconds, last read by n or later
  processIsAlive,  \* Messenger::m_processIsAlive
  net,             \* channels of the CONSENSUS tag
  handling,        \* source of the message the consensus thread has received
                   \* and not yet handled, -1 if it has none; the message
                   \* stays at the head of its channel until it is handled
  maxRoundId,      \* m_maxRoundId
  context,         \* m_context
  phase,           \* where the client thread is in startConsensus
  value,           \* its parameter value, NoValue outside startConsensus
  log              \* the log file of the node, by lines

vars == <<clock, processIsAlive, net, handling, maxRoundId, context, phase,
          value, log>>

\* What the client thread alone writes, and what the consensus thread alone
\* writes.
clientThread    == <<clock, phase, value>>
consensusThread == <<handling, maxRoundId>>

--------------------------------------------------------------------------------
(****************************************************************************)
(* The messages of the tag, with the fields their handlers read.  A PROMISE *)
(* without an accepted value has acceptedId -1 and acceptedValue "", the    *)
(* defaults of handlePromiseMessage.  An ACCEPT carries an id nobody reads. *)
(* The field pos of an ACCEPTED is auxiliary: the line at which the         *)
(* Proposer wrote the value in its own log.                                 *)
(****************************************************************************)
Message ==
       [code : {"PREPARE"}, id : Time]
  \cup [code : {"PROMISE"}, roundId : Time, acceptedId : RoundId,
        acceptedValue : Value \cup {NoValue}]
  \cup [code : {"PROPOSE"}, roundId : RoundId, value : Value \cup {NoValue}]
  \cup [code : {"ACCEPT"}]
  \cup [code : {"ACCEPTED"}, value : Value, pos : Nat]

Context ==
  [roundId       : RoundId,
   maxAcceptedId : RoundId,
   valueAccepted : BOOLEAN,
   acceptedId    : RoundId,
   acceptedValue : Value \cup {NoValue},
   promiseCount  : Nat,
   acceptCount   : Nat]

EmptyContext ==
  [roundId       |-> -1,
   maxAcceptedId |-> -1,
   valueAccepted |-> FALSE,
   acceptedId    |-> -1,
   acceptedValue |-> NoValue,
   promiseCount  |-> 0,
   acceptCount   |-> 0]

Phase == {"idle", "promises", "propose", "accepts", "append", "accepted",
          "reset"}

TypeOK ==
  /\ clock \in [Node -> 0 .. MaxClock + RoundDuration]
  /\ processIsAlive \in [Node -> [Index -> BOOLEAN]]
  /\ net \in [Node -> [Node -> Seq(Message)]]
  /\ handling \in [Node -> Node \cup {-1}]
  /\ maxRoundId \in [Node -> RoundId]
  /\ context \in [Node -> Context]
  /\ phase \in [Node -> Phase]
  /\ value \in [Node -> Value \cup {NoValue}]
  /\ log \in [Node -> Seq(Value)]

Init ==
  /\ clock = [n \in Node |-> 0]
  /\ processIsAlive = AllAlive
  /\ net = EmptyChannels
  /\ handling = [n \in Node |-> -1]
  /\ maxRoundId = [n \in Node |-> -1]
  /\ context = [n \in Node |-> EmptyContext]
  /\ phase = [n \in Node |-> "idle"]
  /\ value = [n \in Node |-> NoValue]
  /\ log = [n \in Node |-> << >>]

--------------------------------------------------------------------------------
(* Both manager-wide helpers: a message to all others, a message to one.    *)

Broadcast(n, m) ==
  net' = broadcast(net, processIsAlive, n, 0, clusterSize, "CONSENSUS", m)

\* The handler of n has taken its message off the channel and answers it.
Reply(n, src, m) ==
  net' = send(consume(net, src, n), processIsAlive, n, src, "CONSENSUS", m)

NoReply(n, src) == net' = consume(net, src, n)

\* Mutant: the proposer counts itself among the answers.
MajorityOfWithSelf(count) == count + 1 >= (clusterSize - 1) \div 2

MajorityOf(count) == count >= (clusterSize - 1) \div 2

GoTo(n, from, to) ==
  /\ phase[n] = from
  /\ phase' = [phase EXCEPT ![n] = to]

--------------------------------------------------------------------------------
(* startConsensus, on the client thread.                                    *)

(****************************************************************************)
(* broadcastPrepare.  generateUniqueId is the local clock in whole seconds; *)
(* it has advanced by any amount since it was last looked at.               *)
(****************************************************************************)
StartConsensus(n, v) ==
  /\ GoTo(n, "idle", "promises")
  /\ value' = [value EXCEPT ![n] = v]
  /\ \E id \in clock[n] .. MaxClock :
       /\ clock' = [clock EXCEPT ![n] = id]
       /\ context' = [context EXCEPT ![n].roundId = id]
       /\ Broadcast(n, [code |-> "PREPARE", id |-> id])
  /\ UNCHANGED <<processIsAlive, log, consensusThread>>

\* Mutant: wait until the majority is there, with no limit.
ReceivePromisesNoTimeout(n) ==
  /\ MajorityOf(context[n].promiseCount)
  /\ GoTo(n, "promises", "propose")
  /\ UNCHANGED <<clock, value, processIsAlive, net, context, log,
                 consensusThread>>

\* receivePromises, after its sleep.
ReceivePromises(n) ==
  /\ GoTo(n, "promises",
          IF MajorityOf(context[n].promiseCount) THEN "propose" ELSE "reset")
  /\ UNCHANGED <<clock, value, processIsAlive, net, context, log,
                 consensusThread>>

\* broadcastPropose: the context is read again, under a new lock.
BroadcastPropose(n) ==
  /\ GoTo(n, "propose", "accepts")
  /\ Broadcast(n, [code    |-> "PROPOSE",
                   roundId |-> context[n].roundId,
                   value   |-> IF context[n].maxAcceptedId = -1
                               THEN value[n]
                               ELSE context[n].acceptedValue])
  /\ UNCHANGED <<clock, value, processIsAlive, context, log, consensusThread>>

\* Mutant: the learners are told whether or not the majority accepted.
ReceiveAcceptsTellAnyway(n) ==
  /\ GoTo(n, "accepts",
          IF MajorityOf(context[n].acceptCount) THEN "append" ELSE "accepted")
  /\ UNCHANGED <<clock, value, processIsAlive, net, context, log,
                 consensusThread>>

\* receiveAccepts, after its sleep.
ReceiveAccepts(n) ==
  /\ GoTo(n, "accepts",
          IF MajorityOf(context[n].acceptCount) THEN "append" ELSE "reset")
  /\ UNCHANGED <<clock, value, processIsAlive, net, context, log,
                 consensusThread>>

\* Mutant: the accepted value of the context, empty if no PROMISE had one.
AppendAcceptedValue(n) ==
  /\ GoTo(n, "append", "accepted")
  /\ log' = [log EXCEPT ![n] = Append(@, context[n].acceptedValue)]
  /\ UNCHANGED <<clock, value, processIsAlive, net, context, consensusThread>>

\* Mutant: nobody is told.
AppendValueUntold(n) ==
  /\ GoTo(n, "append", "reset")
  /\ log' = [log EXCEPT ![n] = Append(@, value[n])]
  /\ UNCHANGED <<clock, value, processIsAlive, net, context, consensusThread>>

\* m_logFileManager.append(value): the client's value, not the proposed one.
AppendValue(n) ==
  /\ GoTo(n, "append", "accepted")
  /\ log' = [log EXCEPT ![n] = Append(@, value[n])]
  /\ UNCHANGED <<clock, value, processIsAlive, net, context, consensusThread>>

\* Mutant: the learners get the proposed value, the leader's file its own.
BroadcastProposedValue(n) ==
  /\ GoTo(n, "accepted", "reset")
  /\ Broadcast(n, [code  |-> "ACCEPTED",
                   value |-> IF context[n].maxAcceptedId = -1
                             THEN value[n]
                             ELSE context[n].acceptedValue,
                   pos   |-> Len(log[n])])
  /\ UNCHANGED <<clock, value, processIsAlive, context, log, consensusThread>>

\* broadcastAccepted.
BroadcastAccepted(n) ==
  /\ GoTo(n, "accepted", "reset")
  /\ Broadcast(n, [code |-> "ACCEPTED", value |-> value[n],
                   pos |-> Len(log[n])])
  /\ UNCHANGED <<clock, value, processIsAlive, context, log, consensusThread>>

(****************************************************************************)
(* The end of startConsensus: the sleeps of the round (PROMISE_WAIT_DURATION *)
(* and LOG_WRITE_DURATION at least) have moved the clock on, and the context *)
(* is reset.                                                                *)
(****************************************************************************)
FinishConsensus(n) ==
  /\ GoTo(n, "reset", "idle")
  /\ clock' = [clock EXCEPT ![n] = @ + RoundDuration]
  /\ value' = [value EXCEPT ![n] = NoValue]
  /\ context' = [context EXCEPT ![n] = EmptyContext]
  /\ UNCHANGED <<processIsAlive, net, log, consensusThread>>

ClientThreadStep(n) ==
  \/ ReceivePromises(n)
  \/ BroadcastPropose(n)
  \/ ReceiveAccepts(n)
  \/ AppendValue(n)
  \/ BroadcastAccepted(n)
  \/ FinishConsensus(n)

--------------------------------------------------------------------------------
(* The consensus thread: receiveWithTagBlock, then handleMessage.           *)

Pending(n, src) == net[src][n] # << >>

\* A message of a node n believes dead is thrown away and the loop goes on.
ReceiveDropped(n, src) ==
  /\ handling[n] = -1
  /\ Pending(n, src)
  /\ messageShouldDrop(processIsAlive[n], n, src, "CONSENSUS")
  /\ NoReply(n, src)
  /\ UNCHANGED <<clientThread, consensusThread, processIsAlive, context, log>>

Receive(n, src) ==
  /\ handling[n] = -1
  /\ Pending(n, src)
  /\ ~ messageShouldDrop(processIsAlive[n], n, src, "CONSENSUS")
  /\ handling' = [handling EXCEPT ![n] = src]
  /\ UNCHANGED <<clientThread, processIsAlive, net, maxRoundId, context, log>>

\* The message m of code c from src is about to be handled by n.
Handling(n, src, c) ==
  /\ handling[n] = src
  /\ Pending(n, src)
  /\ Head(net[src][n]).code = c
  /\ handling' = [handling EXCEPT ![n] = -1]

PromiseFor(n, id) ==
  [code          |-> "PROMISE",
   roundId       |-> id,
   acceptedId    |-> IF context[n].valueAccepted
                     THEN context[n].acceptedId ELSE -1,
   acceptedValue |-> IF context[n].valueAccepted
                     THEN context[n].acceptedValue ELSE NoValue]

\* Mutant: promise, but forget the round.
HandlePrepareForgetful(n, src) ==
  /\ Handling(n, src, "PREPARE")
  /\ LET id == Head(net[src][n]).id IN
     IF id > maxRoundId[n]
     THEN Reply(n, src, PromiseFor(n, id))
     ELSE NoReply(n, src)
  /\ UNCHANGED <<clientThread, processIsAlive, maxRoundId, context, log>>

HandlePrepare(n, src) ==
  /\ Handling(n, src, "PREPARE")
  /\ LET id == Head(net[src][n]).id IN
     IF id > maxRoundId[n]
     THEN /\ maxRoundId' = [maxRoundId EXCEPT ![n] = id]
          /\ Reply(n, src, PromiseFor(n, id))
     ELSE /\ NoReply(n, src)
          /\ UNCHANGED maxRoundId
  /\ UNCHANGED <<clientThread, processIsAlive, context, log>>

\* Mutant: every proposal is accepted.
HandleProposeAny(n, src) ==
  /\ Handling(n, src, "PROPOSE")
  /\ LET m == Head(net[src][n]) IN
     /\ context' = [context EXCEPT ![n].valueAccepted = TRUE,
                                   ![n].acceptedId    = m.roundId,
                                   ![n].acceptedValue = m.value]
     /\ Reply(n, src, [code |-> "ACCEPT"])
  /\ UNCHANGED <<clientThread, processIsAlive, maxRoundId, log>>

HandlePropose(n, src) ==
  /\ Handling(n, src, "PROPOSE")
  /\ LET m == Head(net[src][n]) IN
     IF m.roundId = maxRoundId[n]
     THEN /\ context' = [context EXCEPT ![n].valueAccepted = TRUE,
                                        ![n].acceptedId    = m.roundId,
                                        ![n].acceptedValue = m.value]
          /\ Reply(n, src, [code |-> "ACCEPT"])
     ELSE /\ NoReply(n, src)
          /\ UNCHANGED context
  /\ UNCHANGED <<clientThread, processIsAlive, maxRoundId, log>>

\* Mutant: the value the learner has accepted, or the one it is told.
HandleAcceptedOwnValue(n, src) ==
  /\ Handling(n, src, "ACCEPTED")
  /\ log' = [log EXCEPT ![n] =
               Append(@, IF context[n].valueAccepted
                         THEN context[n].acceptedValue
                         ELSE Head(net[src][n]).value)]
  /\ context' = [context EXCEPT ![n] = EmptyContext]
  /\ NoReply(n, src)
  /\ UNCHANGED <<clientThread, processIsAlive, maxRoundId>>

\* Learner: write the line, then forget the round (its own included).
HandleAccepted(n, src) ==
  /\ Handling(n, src, "ACCEPTED")
  /\ log' = [log EXCEPT ![n] = Append(@, Head(net[src][n]).value)]
  /\ context' = [context EXCEPT ![n] = EmptyContext]
  /\ NoReply(n, src)
  /\ UNCHANGED <<clientThread, processIsAlive, maxRoundId>>

\* Mutant: a PROMISE of any round counts.
HandlePromiseOfAnyRound(n, src) ==
  /\ Handling(n, src, "PROMISE")
  /\ context' = [context EXCEPT ![n].promiseCount = @ + 1]
  /\ NoReply(n, src)
  /\ UNCHANGED <<clientThread, processIsAlive, maxRoundId, log>>

HandlePromise(n, src) ==
  /\ Handling(n, src, "PROMISE")
  /\ LET m == Head(net[src][n])
         c == context[n]
         better == m.acceptedId > c.maxAcceptedId
     IN context' =
          IF m.roundId = c.roundId
          THEN [context EXCEPT
                  ![n].maxAcceptedId =
                     IF better THEN m.acceptedId ELSE c.maxAcceptedId,
                  ![n].acceptedValue =
                     IF better THEN m.acceptedValue ELSE c.acceptedValue,
                  ![n].promiseCount = c.promiseCount + 1]
          ELSE context
  /\ NoReply(n, src)
  /\ UNCHANGED <<clientThread, processIsAlive, maxRoundId, log>>

HandleAccept(n, src) ==
  /\ Handling(n, src, "ACCEPT")
  /\ context' = [context EXCEPT ![n].acceptCount = @ + 1]
  /\ NoReply(n, src)
  /\ UNCHANGED <<clientThread, processIsAlive, maxRoundId, log>>

HandleMessage(n, src) ==
  \/ HandlePrepare(n, src)
  \/ HandlePropose(n, src)
  \/ HandleAccepted(n, src)
  \/ HandlePromise(n, src)
  \/ HandleAccept(n, src)

ConsensusThreadStep(n, src) ==
  \/ ReceiveDropped(n, src)
  \/ Receive(n, src)
  \/ HandleMessage(n, src)

--------------------------------------------------------------------------------
(* The FailureManager changes the messenger's table at any moment.          *)

SetNodeStatus(n, index, status) ==
  /\ processIsAlive[n][index] # status
  /\ processIsAlive' = setNodeStatus(processIsAlive, n, index, status)
  /\ UNCHANGED <<clientThread, consensusThread, net, context, log>>

Next ==
  \/ \E n \in Proposers, v \in Value : StartConsensus(n, v)
  \/ \E n \in Node : ClientThreadStep(n)
  \/ \E n, src \in Node : ConsensusThreadStep(n, src)
  \/ \E n \in Node, i \in Index, s \in NodeStatus : SetNodeStatus(n, i, s)

Spec == Init /\ [][Next]_vars

(****************************************************************************)
(* The two threads of a node that is not "crashed" keep running: a sleep    *)
(* ends, and the consensus thread, if it has a message to take or to        *)
(* handle, does something.  From whom it takes a message first is MPI's     *)
(* choice (MPI_ANY_SOURCE), and no fairness between sources is assumed.     *)
(****************************************************************************)
Fairness ==
  \A n \in Node :
    /\ WF_vars(ClientThreadStep(n))
    /\ WF_vars(\E src \in Node : ConsensusThreadStep(n, src))

FairSpec == Spec /\ Fairness
--------------------------------------------------------------------------------
(* Properties.                                                              *)

\* The nodes, n aside, that have promised n's round or a later one.
Promised(n) == {a \in Node \ {n} : maxRoundId[a] >= context[n].roundId}

Majority(S) == 2 * Cardinality(S) > clusterSize

(****************************************************************************)
(* promiseCount never exceeds the number of other nodes bound by the round: *)
(* no PROMISE is counted twice, counted for another round, or counted for a *)
(* second proposer that drew the same round id.                             *)
(****************************************************************************)
PromisesCounted ==
  \A n \in Node : context[n].promiseCount <= Cardinality(Promised(n))

(****************************************************************************)
(* Whoever leaves receivePromises towards broadcastPropose has a majority   *)
(* of the cluster, itself included, bound by its round, and keeps it until  *)
(* startConsensus ends, whatever other proposers do meanwhile.  True of     *)
(* clusters of an odd size only: the code compares with (clusterSize-1)/2.  *)
(****************************************************************************)
MajorityPromised ==
  \A n \in Node :
    phase[n] \in {"propose", "accepts", "append", "accepted"}
      => Majority(Promised(n) \cup {n})

(****************************************************************************)
(* A line is in a follower's file only if some proposer has it in its own:  *)
(* startConsensus appends before it broadcasts ACCEPTED, so a leader's file *)
(* is never behind those of the nodes it made write.                        *)
(****************************************************************************)
ProposerWritesFirst ==
  \A n \in Node : \A k \in DOMAIN log[n] :
    \E p \in Proposers : \E j \in DOMAIN log[p] : log[p][j] = log[n][k]

(****************************************************************************)
(* broadcastPropose reads the round id again after receivePromises has let  *)
(* the lock go.  If the consensus thread has learned another node's value   *)
(* and reset the context in between, the PROPOSE goes out without a round   *)
(* (id -1), and no acceptor ever accepts it.                                *)
(****************************************************************************)
NoRoundIsRefused ==
  \A n \in Node : context[n].valueAccepted => context[n].acceptedId # -1

(****************************************************************************)
(* "This function implements the Paxos algorithm": the value startConsensus *)
(* writes is the one the acceptors of its round accepted.  It proposes the  *)
(* value a PROMISE brought back, and writes its own, which a run shows.     *)
(****************************************************************************)
WrittenIsAccepted ==
  \A n \in Node : \A a \in Node \ {n} :
    /\ phase[n] = "append"
    /\ context[a].valueAccepted
    /\ context[a].acceptedId = context[n].roundId
    => context[a].acceptedValue = value[n]
================================================================================
