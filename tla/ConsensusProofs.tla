---------------------------- MODULE ConsensusProofs ----------------------------
(****************************************************************************)
(* Type correctness of Consensus, for clusters of any size, any set of      *)
(* proposers and any behaviour of the failure detector.                     *)
(****************************************************************************)
EXTENDS Consensus, TLAPS

Channels == [Node -> [Node -> Seq(Message)]]

--------------------------------------------------------------------------------
(* The network operators keep channels of messages.                         *)

(****************************************************************************)
(* send appends to one channel or leaves all as they are: the channels      *)
(* still carry messages of the tag.                                         *)
(****************************************************************************)
LEMMA SendType ==
  ASSUME NEW chan \in Channels, NEW isAlive, NEW tag,
         NEW s \in Node, NEW d \in Node, NEW m \in Message
  PROVE  send(chan, isAlive, s, d, tag, m) \in Channels
<1>1. Append(chan[s][d], m) \in Seq(Message)
  BY DEF Channels
<1> QED
  BY <1>1 DEF send, Channels

\* broadcast appends the message to some of the sender's channels.
LEMMA BroadcastType ==
  ASSUME NEW chan \in Channels, NEW isAlive, NEW tag, NEW lo, NEW hi,
         NEW s \in Node, NEW m \in Message
  PROVE  broadcast(chan, isAlive, s, lo, hi, tag, m) \in Channels
<1>1. \A d \in Node : Append(chan[s][d], m) \in Seq(Message)
  BY DEF Channels
<1> QED
  BY <1>1 DEF broadcast, Channels

\* consume takes the head of a channel that has one.
LEMMA ConsumeType ==
  ASSUME NEW chan \in Channels, NEW s \in Node, NEW d \in Node,
         chan[s][d] # << >>
  PROVE  consume(chan, s, d) \in Channels
<1>1. Tail(chan[s][d]) \in Seq(Message)
  BY DEF Channels
<1> QED
  BY <1>1 DEF consume, Channels

\* The head of a channel that has one is a message.
LEMMA HeadType ==
  ASSUME NEW chan \in Channels, NEW s \in Node, NEW d \in Node,
         chan[s][d] # << >>
  PROVE  Head(chan[s][d]) \in Message
BY DEF Channels

\* What a message of each code carries.
LEMMA MessageFields ==
  ASSUME NEW m \in Message
  PROVE  /\ m.code = "PREPARE" => m.id \in Time
         /\ m.code = "PROMISE" => /\ m.roundId \in Time
                                  /\ m.acceptedId \in RoundId
                                  /\ m.acceptedValue \in Value \cup {NoValue}
         /\ m.code = "PROPOSE" => /\ m.roundId \in RoundId
                                  /\ m.value \in Value \cup {NoValue}
         /\ m.code = "ACCEPTED" => m.value \in Value
BY DEF Message

--------------------------------------------------------------------------------
\* The managers start with empty tables and a reset context.
LEMMA InitType == Init => TypeOK
BY ConsensusAssumption
   DEF Init, TypeOK, AllAlive, EmptyChannels, EmptyContext, Context, RoundId,
       Time, Phase

\* Every message the proposer and the handlers build is one of the tag.
LEMMA NewMessages ==
  /\ \A id \in Time : [code |-> "PREPARE", id |-> id] \in Message
  /\ \A id \in Time, a \in RoundId, v \in Value \cup {NoValue} :
       [code |-> "PROMISE", roundId |-> id, acceptedId |-> a,
        acceptedValue |-> v] \in Message
  /\ \A r \in RoundId, v \in Value \cup {NoValue} :
       [code |-> "PROPOSE", roundId |-> r, value |-> v] \in Message
  /\ [code |-> "ACCEPT"] \in Message
  /\ \A v \in Value, p \in Nat :
       [code |-> "ACCEPTED", value |-> v, pos |-> p] \in Message
BY DEF Message

\* While the client thread of n is in a round it holds a client's value, and
\* the clock it read the round's id from has not run out of Time.
InRound ==
  \A n \in Node : phase[n] # "idle" => value[n] \in Value /\ clock[n] \in Time

TypeInv == TypeOK /\ InRound

(****************************************************************************)
(* One step per operation of the client thread: its assignments keep the    *)
(* types, and value[n] is a client's value throughout the round.            *)
(****************************************************************************)
LEMMA ClientThreadType ==
  ASSUME TypeInv, NEW n \in Node,
         (\E v \in Value : StartConsensus(n, v)) \/ ClientThreadStep(n)
  PROVE  TypeInv'
<1> USE ConsensusAssumption
<1>0. net \in Channels /\ context[n] \in Context /\ log[n] \in Seq(Value)
  BY DEF TypeInv, TypeOK, Channels
<1>1. ASSUME NEW v \in Value, StartConsensus(n, v) PROVE TypeInv'
  <2>1. PICK id \in clock[n] .. MaxClock :
          /\ clock' = [clock EXCEPT ![n] = id]
          /\ context' = [context EXCEPT ![n].roundId = id]
          /\ Broadcast(n, [code |-> "PREPARE", id |-> id])
    BY <1>1 DEF StartConsensus
  <2>2. id \in Time
    BY DEF TypeInv, TypeOK, Time
  <2>3. net' \in Channels
    BY <1>0, <2>1, <2>2, NewMessages, BroadcastType DEF Broadcast
  <2>4. context' \in [Node -> Context]
    <3>1. [context[n] EXCEPT !.roundId = id] \in Context
      BY <1>0, <2>2 DEF Context, RoundId
    <3> QED
      BY <2>1, <3>1 DEF TypeInv, TypeOK
  <2>5. clock' \in [Node -> 0 .. MaxClock + RoundDuration]
    BY <2>1, <2>2 DEF TypeInv, TypeOK, Time
  <2> QED
    BY <1>1, <2>1, <2>2, <2>3, <2>4, <2>5
       DEF StartConsensus, GoTo, TypeInv, TypeOK, InRound, Channels, Phase,
           consensusThread
<1>2. CASE ReceivePromises(n) \/ ReceiveAccepts(n)
  BY <1>2 DEF ReceivePromises, ReceiveAccepts, GoTo, TypeInv, TypeOK, InRound,
              Phase, consensusThread
<1>3. CASE BroadcastPropose(n)
  <2>1. value[n] \in Value
    BY <1>3 DEF BroadcastPropose, GoTo, TypeInv, InRound
  <2>2. [code    |-> "PROPOSE",
         roundId |-> context[n].roundId,
         value   |-> IF context[n].maxAcceptedId = -1
                     THEN value[n] ELSE context[n].acceptedValue] \in Message
    BY <1>0, <2>1, NewMessages DEF Context
  <2>3. net' \in Channels
    BY <1>0, <1>3, <2>2, BroadcastType DEF BroadcastPropose, Broadcast
  <2> QED
    BY <1>3, <2>3 DEF BroadcastPropose, GoTo, TypeInv, TypeOK, InRound,
                      Channels, Phase, consensusThread
<1>4. CASE AppendValue(n)
  <2>1. value[n] \in Value
    BY <1>4 DEF AppendValue, GoTo, TypeInv, InRound
  <2>2. Append(log[n], value[n]) \in Seq(Value)
    BY <1>0, <2>1
  <2> QED
    BY <1>4, <2>2 DEF AppendValue, GoTo, TypeInv, TypeOK, InRound, Phase,
                      consensusThread
<1>5. CASE BroadcastAccepted(n)
  <2>1. value[n] \in Value
    BY <1>5 DEF BroadcastAccepted, GoTo, TypeInv, InRound
  <2>2. [code |-> "ACCEPTED", value |-> value[n], pos |-> Len(log[n])]
          \in Message
    BY <1>0, <2>1, NewMessages
  <2>3. net' \in Channels
    BY <1>0, <1>5, <2>2, BroadcastType DEF BroadcastAccepted, Broadcast
  <2> QED
    BY <1>5, <2>3 DEF BroadcastAccepted, GoTo, TypeInv, TypeOK, InRound,
                      Channels, Phase, consensusThread
<1>6. CASE FinishConsensus(n)
  <2>1. clock' \in [Node -> 0 .. MaxClock + RoundDuration]
    <3>1. clock[n] \in Time
      BY <1>6 DEF FinishConsensus, GoTo, TypeInv, InRound
    <3>2. clock[n] + RoundDuration \in 0 .. MaxClock + RoundDuration
      BY <3>1 DEF Time
    <3> QED
      BY <1>6, <3>2 DEF FinishConsensus, TypeInv, TypeOK
  <2>2. EmptyContext \in Context
    BY DEF EmptyContext, Context, RoundId
  <2> QED
    BY <1>6, <2>1, <2>2 DEF FinishConsensus, GoTo, TypeInv, TypeOK, InRound,
                            Phase, consensusThread
<1> QED
  BY <1>1, <1>2, <1>3, <1>4, <1>5, <1>6 DEF ClientThreadStep

\* Types after a step of the consensus thread that leaves the others alone.
LEMMA ConsensusThreadFrame ==
  ASSUME TypeInv, UNCHANGED <<clientThread, processIsAlive>>,
         net' \in Channels,
         handling' \in [Node -> Node \cup {-1}],
         maxRoundId' \in [Node -> RoundId],
         context' \in [Node -> Context],
         log' \in [Node -> Seq(Value)]
  PROVE  TypeInv'
BY DEF TypeInv, TypeOK, InRound, Channels, clientThread

(****************************************************************************)
(* One step per operation of the consensus thread: a dropped or received    *)
(* message and the five handlers.                                           *)
(****************************************************************************)
LEMMA ConsensusThreadType ==
  ASSUME TypeInv, NEW n \in Node, NEW src \in Node,
         ConsensusThreadStep(n, src)
  PROVE  TypeInv'
<1>0. /\ net \in Channels
      /\ context \in [Node -> Context]
      /\ context[n] \in Context
      /\ log \in [Node -> Seq(Value)]
      /\ handling \in [Node -> Node \cup {-1}]
      /\ maxRoundId \in [Node -> RoundId]
  BY DEF TypeInv, TypeOK, Channels
<1>1. CASE ReceiveDropped(n, src)
  <2>1. net' \in Channels
    BY <1>0, <1>1, ConsumeType DEF ReceiveDropped, Pending, NoReply
  <2> QED
    BY <1>0, <1>1, <2>1, ConsensusThreadFrame DEF ReceiveDropped,
       consensusThread
<1>2. CASE Receive(n, src)
  BY <1>0, <1>2, ConsensusThreadFrame DEF Receive
<1> DEFINE m == Head(net[src][n])
<1>3. ASSUME NEW c, Handling(n, src, c)
      PROVE  /\ m \in Message
             /\ m.code = c
             /\ handling' \in [Node -> Node \cup {-1}]
             /\ consume(net, src, n) \in Channels
  BY <1>0, <1>3, HeadType, ConsumeType DEF Handling, Pending
<1>4. ASSUME NEW r \in Message, NEW c, Handling(n, src, c), Reply(n, src, r)
      PROVE  net' \in Channels
  BY <1>3, <1>4, SendType DEF Reply
<1>5. ASSUME NEW c, Handling(n, src, c), NoReply(n, src)
      PROVE  net' \in Channels
  BY <1>3, <1>5 DEF NoReply
<1>6. CASE HandlePrepare(n, src)
  <2>1. Handling(n, src, "PREPARE")
    BY <1>6 DEF HandlePrepare
  <2>2. m.id \in Time
    BY <1>3, <2>1, MessageFields
  <2>3. PromiseFor(n, m.id) \in Message
    BY <1>0, <2>2, NewMessages DEF PromiseFor, Context, RoundId
  <2>4. net' \in Channels
    BY <1>4, <1>5, <1>6, <2>1, <2>3 DEF HandlePrepare
  <2>5. maxRoundId' \in [Node -> RoundId]
    BY <1>0, <1>6, <2>2 DEF HandlePrepare, RoundId
  <2> QED
    BY <1>0, <1>3, <1>6, <2>1, <2>4, <2>5, ConsensusThreadFrame
       DEF HandlePrepare
<1>7. CASE HandlePropose(n, src)
  <2>1. Handling(n, src, "PROPOSE")
    BY <1>7 DEF HandlePropose
  <2>2. m.roundId \in RoundId /\ m.value \in Value \cup {NoValue}
    BY <1>3, <2>1, MessageFields
  <2>3. net' \in Channels
    BY <1>4, <1>5, <1>7, <2>1, NewMessages DEF HandlePropose
  <2>4. [context[n] EXCEPT !.valueAccepted = TRUE,
                           !.acceptedId    = m.roundId,
                           !.acceptedValue = m.value] \in Context
    BY <1>0, <2>2 DEF Context
  <2>5. context' \in [Node -> Context]
    BY <1>0, <1>7, <2>4 DEF HandlePropose
  <2> QED
    BY <1>0, <1>3, <1>7, <2>1, <2>3, <2>5, ConsensusThreadFrame
       DEF HandlePropose
<1>8. CASE HandleAccepted(n, src)
  <2>1. Handling(n, src, "ACCEPTED")
    BY <1>8 DEF HandleAccepted
  <2>2. m.value \in Value
    BY <1>3, <2>1, MessageFields
  <2>3. log' \in [Node -> Seq(Value)]
    BY <1>0, <1>8, <2>2 DEF HandleAccepted
  <2>4. context' \in [Node -> Context]
    BY <1>0, <1>8 DEF HandleAccepted, EmptyContext, Context, RoundId
  <2>5. net' \in Channels
    BY <1>5, <1>8, <2>1 DEF HandleAccepted
  <2> QED
    BY <1>0, <1>3, <1>8, <2>1, <2>3, <2>4, <2>5, ConsensusThreadFrame
       DEF HandleAccepted
<1>9. CASE HandlePromise(n, src)
  <2>1. Handling(n, src, "PROMISE")
    BY <1>9 DEF HandlePromise
  <2>2. m.acceptedId \in RoundId /\ m.acceptedValue \in Value \cup {NoValue}
    BY <1>3, <2>1, MessageFields
  <2>3. \A a \in RoundId, v \in Value \cup {NoValue}, k \in Nat :
          [context[n] EXCEPT !.maxAcceptedId = a,
                             !.acceptedValue = v,
                             !.promiseCount  = k] \in Context
    BY <1>0 DEF Context
  <2>a. /\ context[n].maxAcceptedId \in RoundId
        /\ context[n].acceptedValue \in Value \cup {NoValue}
        /\ context[n].promiseCount \in Nat
    BY <1>0 DEF Context
  <2>b. context[n].promiseCount + 1 \in Nat
    BY <2>a
  <2>4. context' \in [Node -> Context]
    <3>1. CASE m.roundId = context[n].roundId
      <4>1. PICK a \in RoundId, v \in Value \cup {NoValue} :
              context' = [context EXCEPT
                            ![n].maxAcceptedId = a,
                            ![n].acceptedValue = v,
                            ![n].promiseCount  = context[n].promiseCount + 1]
        BY <1>9, <2>2, <2>a, <3>1 DEF HandlePromise
      <4> QED
        BY <1>0, <2>3, <2>b, <4>1
    <3>2. CASE m.roundId # context[n].roundId
      BY <1>0, <1>9, <3>2 DEF HandlePromise
    <3> QED
      BY <3>1, <3>2
  <2>5. net' \in Channels
    BY <1>5, <1>9, <2>1 DEF HandlePromise
  <2> QED
    BY <1>0, <1>3, <1>9, <2>1, <2>4, <2>5, ConsensusThreadFrame
       DEF HandlePromise
<1>10. CASE HandleAccept(n, src)
  <2>1. Handling(n, src, "ACCEPT")
    BY <1>10 DEF HandleAccept
  <2>2. \A k \in Nat : [context[n] EXCEPT !.acceptCount = k] \in Context
    BY <1>0 DEF Context
  <2>a. context[n].acceptCount + 1 \in Nat
    <3>1. context[n].acceptCount \in Nat
      BY <1>0 DEF Context
    <3> QED
      BY <3>1
  <2>3. context' \in [Node -> Context]
    BY <1>0, <1>10, <2>2, <2>a DEF HandleAccept
  <2>4. net' \in Channels
    BY <1>5, <1>10, <2>1 DEF HandleAccept
  <2> QED
    BY <1>0, <1>3, <1>10, <2>1, <2>3, <2>4, ConsensusThreadFrame
       DEF HandleAccept
<1> QED
  BY <1>1, <1>2, <1>6, <1>7, <1>8, <1>9, <1>10
     DEF ConsensusThreadStep, HandleMessage

\* The failure detector writes Booleans into the tables.
LEMMA SetNodeStatusType ==
  ASSUME TypeInv, NEW n \in Node, NEW i \in Index, NEW s \in NodeStatus,
         SetNodeStatus(n, i, s)
  PROVE  TypeInv'
<1>1. s \in BOOLEAN
  BY ConsensusAssumption
<1>2. processIsAlive' \in [Node -> [Index -> BOOLEAN]]
  BY <1>1 DEF SetNodeStatus, setNodeStatus, TypeInv, TypeOK
<1> QED
  BY <1>2 DEF SetNodeStatus, TypeInv, TypeOK, InRound, clientThread,
              consensusThread

(****************************************************************************)
(* The inductive form of type correctness: the types, and that a proposer   *)
(* in a round has a client's value to write.                                *)
(****************************************************************************)
THEOREM TypeInvariance == Spec => []TypeInv
<1>1. Init => TypeInv
  BY InitType DEF TypeInv, InRound, Init
<1>2. TypeInv /\ [Next]_vars => TypeInv'
  <2> SUFFICES ASSUME TypeInv, [Next]_vars PROVE TypeInv'
    OBVIOUS
  <2>1. ASSUME NEW n \in Proposers, NEW v \in Value, StartConsensus(n, v)
        PROVE  TypeInv'
    BY <2>1, ConsensusAssumption, ClientThreadType
  <2>2. ASSUME NEW n \in Node, ClientThreadStep(n) PROVE TypeInv'
    BY <2>2, ClientThreadType
  <2>3. ASSUME NEW n \in Node, NEW src \in Node, ConsensusThreadStep(n, src)
        PROVE  TypeInv'
    BY <2>3, ConsensusThreadType
  <2>4. ASSUME NEW n \in Node, NEW i \in Index, NEW s \in NodeStatus,
               SetNodeStatus(n, i, s)
        PROVE  TypeInv'
    BY <2>4, SetNodeStatusType
  <2>5. CASE UNCHANGED vars
    BY <2>5 DEF vars, TypeInv, TypeOK, InRound
  <2> QED
    BY <2>1, <2>2, <2>3, <2>4, <2>5 DEF Next
<1> QED
  BY <1>1, <1>2, PTL DEF Spec

(****************************************************************************)
(* Every variable of every reachable state has its type, for every cluster, *)
(* set of proposers and behaviour of the failure detector; in particular no *)
(* file ever gets a line that is not a client's value, not even when the    *)
(* context is reset in the middle of a round.                               *)
(****************************************************************************)
THEOREM TypeCorrect == Spec => []TypeOK
BY TypeInvariance, PTL DEF TypeInv
================================================================================
