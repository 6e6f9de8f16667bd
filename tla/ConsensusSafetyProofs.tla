------------------------- MODULE ConsensusSafetyProofs -------------------------
(****************************************************************************)
(* What Consensus promises, for clusters of any size: no PROMISE is counted *)
(* twice or for another round, a proposer that proposes has a majority      *)
(* bound by its round, a line is written by a proposer first, and a round   *)
(* without an id is refused as long as no node is readmitted.               *)
(****************************************************************************)
EXTENDS ConsensusProofs, FiniteSetTheorems

--------------------------------------------------------------------------------
(* What a step does to one channel.                                         *)

\* No node sends to itself.
NoneToSelf == \A n \in Node : net[n][n] = << >>

\* A broadcast appends to channels of its sender, that to itself aside.
LEMMA BroadcastEffect ==
  ASSUME net \in Channels, NEW n \in Node, NEW m \in Message, Broadcast(n, m),
         NEW s \in Node, NEW d \in Node
  PROVE  \/ net'[s][d] = net[s][d]
         \/ s = n /\ d # n /\ net'[s][d] = Append(net[s][d], m)
BY DEF Broadcast, broadcast, Channels

\* A message taken off its channel.
LEMMA NoReplyEffect ==
  ASSUME net \in Channels, NEW n \in Node, NEW src \in Node, NoReply(n, src),
         NEW s \in Node, NEW d \in Node
  PROVE  IF s = src /\ d = n THEN net'[s][d] = Tail(net[s][d])
                             ELSE net'[s][d] = net[s][d]
BY DEF NoReply, consume, Channels

\* A message taken off its channel, and the answer to it, if the sender is not
\* believed dead.
LEMMA ReplyEffect ==
  ASSUME net \in Channels, NEW n \in Node, NEW src \in Node, n # src,
         NEW m \in Message, Reply(n, src, m),
         NEW s \in Node, NEW d \in Node
  PROVE  IF s = src /\ d = n THEN net'[s][d] = Tail(net[s][d])
         ELSE \/ net'[s][d] = net[s][d]
              \/ s = n /\ d = src /\ net'[s][d] = Append(net[s][d], m)
<1> DEFINE c == consume(net, src, n)
<1>1. \A x, y \in Node : c[x][y] = IF x = src /\ y = n THEN Tail(net[x][y])
                                   ELSE net[x][y]
  BY DEF consume, Channels
<1>2. net' = c \/ net' = [c EXCEPT ![n][src] = Append(@, m)]
  BY DEF Reply, send
<1>3. c = [x \in Node |-> [y \in Node |-> c[x][y]]]
  BY DEF consume, Channels
<1> HIDE DEF c
<1>4. CASE net' = c
  BY <1>1, <1>4
<1>5. CASE net' = [c EXCEPT ![n][src] = Append(@, m)]
  <2>1. net'[s][d] = IF s = n /\ d = src THEN Append(c[s][d], m) ELSE c[s][d]
    <3>1. [c EXCEPT ![n][src] = Append(@, m)] =
            [x \in Node |-> [y \in Node |->
               IF x = n /\ y = src THEN Append(c[x][y], m) ELSE c[x][y]]]
      BY <1>3
    <3> QED
      BY <1>5, <3>1
  <2> QED
    BY <1>1, <2>1
<1> QED
  BY <1>2, <1>4, <1>5

\* Who takes the head of the channel from s to d.
Takes(s, d) ==
  /\ Pending(d, s)
  /\ net'[s][d] = Tail(net[s][d])
  /\ ReceiveDropped(d, s) \/ HandleMessage(d, s)

\* Who appends which message to the channel from s to d.
Sends(s, d, m) ==
  /\ m \in Message
  /\ net'[s][d] = Append(net[s][d], m)
  /\ \/ /\ m.code = "PREPARE" /\ m.id = clock'[s]
        /\ \E v \in Value : StartConsensus(s, v)
     \/ m.code = "PROPOSE" /\ BroadcastPropose(s)
     \/ m.code = "ACCEPTED" /\ m.value = value[s] /\ BroadcastAccepted(s)
     \/ /\ m.code = "PROMISE" /\ m.roundId = Head(net[d][s]).id
        /\ m.roundId > maxRoundId[s] /\ HandlePrepare(s, d)
     \/ m.code = "ACCEPT" /\ HandlePropose(s, d)

LEMMA ChannelSteps ==
  ASSUME TypeInv, NoneToSelf, [Next]_vars, NEW s \in Node, NEW d \in Node
  PROVE  \/ net'[s][d] = net[s][d]
         \/ Takes(s, d)
         \/ s # d /\ \E m \in Message : Sends(s, d, m)
<1>0. /\ net \in Channels
      /\ \A n \in Node : context[n] \in Context
      /\ Proposers \subseteq Node
  BY ConsensusAssumption DEF TypeInv, TypeOK, Channels
<1>1. ASSUME NEW n \in Proposers, NEW v \in Value, StartConsensus(n, v)
      PROVE  \/ net'[s][d] = net[s][d]
             \/ s # d /\ \E m \in Message : Sends(s, d, m)
  <2>0. PICK id \in clock[n] .. MaxClock :
          /\ clock' = [clock EXCEPT ![n] = id]
          /\ Broadcast(n, [code |-> "PREPARE", id |-> id])
    BY <1>1 DEF StartConsensus
  <2>1. id \in Time
    BY <1>0, ConsensusAssumption DEF TypeInv, TypeOK, Time
  <2> DEFINE m == [code |-> "PREPARE", id |-> id]
  <2>2. m \in Message /\ m.code = "PREPARE" /\ m.id = clock'[n]
    BY <1>0, <2>0, <2>1, NewMessages DEF TypeInv, TypeOK
  <2> HIDE DEF m
  <2>3. \/ net'[s][d] = net[s][d]
        \/ s = n /\ d # n /\ net'[s][d] = Append(net[s][d], m)
    BY <1>0, <2>0, <2>2, BroadcastEffect DEF m
  <2> QED
    BY <1>1, <2>2, <2>3 DEF Sends
<1>2. ASSUME NEW n \in Node, BroadcastPropose(n)
      PROVE  \/ net'[s][d] = net[s][d]
             \/ s # d /\ \E m \in Message : Sends(s, d, m)
  <2> DEFINE m == [code    |-> "PROPOSE",
                   roundId |-> context[n].roundId,
                   value   |-> IF context[n].maxAcceptedId = -1
                               THEN value[n] ELSE context[n].acceptedValue]
  <2>1. value[n] \in Value
    BY <1>2 DEF BroadcastPropose, GoTo, TypeInv, InRound
  <2>2. m \in Message /\ m.code = "PROPOSE" /\ Broadcast(n, m)
    BY <1>0, <1>2, <2>1, NewMessages DEF Context, BroadcastPropose
  <2> HIDE DEF m
  <2>3. \/ net'[s][d] = net[s][d]
        \/ s = n /\ d # n /\ net'[s][d] = Append(net[s][d], m)
    BY <1>0, <2>2, BroadcastEffect
  <2> QED
    BY <1>2, <2>2, <2>3 DEF Sends
<1>3. ASSUME NEW n \in Node, BroadcastAccepted(n)
      PROVE  \/ net'[s][d] = net[s][d]
             \/ s # d /\ \E m \in Message : Sends(s, d, m)
  <2> DEFINE m == [code |-> "ACCEPTED", value |-> value[n], pos |-> Len(log[n])]
  <2>1. value[n] \in Value /\ Len(log[n]) \in Nat
    <3>1. value[n] \in Value
      BY <1>3 DEF BroadcastAccepted, GoTo, TypeInv, InRound
    <3>2. log[n] \in Seq(Value)
      BY DEF TypeInv, TypeOK
    <3> QED
      BY <3>1, <3>2
  <2>2. /\ m \in Message /\ m.code = "ACCEPTED" /\ m.value = value[n]
        /\ Broadcast(n, m)
    BY <1>3, <2>1, NewMessages DEF BroadcastAccepted
  <2> HIDE DEF m
  <2>3. \/ net'[s][d] = net[s][d]
        \/ s = n /\ d # n /\ net'[s][d] = Append(net[s][d], m)
    BY <1>0, <2>2, BroadcastEffect
  <2> QED
    BY <1>3, <2>2, <2>3 DEF Sends
<1>4. ASSUME NEW n \in Node,
             \/ ReceivePromises(n) \/ ReceiveAccepts(n) \/ AppendValue(n)
             \/ FinishConsensus(n)
      PROVE  net'[s][d] = net[s][d]
  BY <1>4 DEF ReceivePromises, ReceiveAccepts, AppendValue, FinishConsensus
<1>5. ASSUME NEW n \in Node, NEW src \in Node, Pending(n, src),
             NoReply(n, src), ReceiveDropped(n, src) \/ HandleMessage(n, src)
      PROVE  net'[s][d] = net[s][d] \/ Takes(s, d)
  BY <1>0, <1>5, NoReplyEffect DEF Takes
<1>6. ASSUME NEW n \in Node, NEW src \in Node, Pending(n, src),
             NEW m \in Message, Reply(n, src, m), HandleMessage(n, src),
             net'[n][src] = Append(net[n][src], m) => Sends(n, src, m)
      PROVE  \/ net'[s][d] = net[s][d]
             \/ Takes(s, d)
             \/ s # d /\ \E r \in Message : Sends(s, d, r)
  <2>1. n # src
    BY <1>6 DEF Pending, NoneToSelf
  <2> QED
    BY <1>0, <1>6, <2>1, ReplyEffect DEF Takes
<1>7. ASSUME NEW n \in Node, NEW src \in Node, HandlePrepare(n, src)
      PROVE  \/ net'[s][d] = net[s][d]
             \/ Takes(s, d)
             \/ s # d /\ \E m \in Message : Sends(s, d, m)
  <2> DEFINE id == Head(net[src][n]).id
             m  == PromiseFor(n, id)
  <2>1. Pending(n, src) /\ HandleMessage(n, src) /\ id \in Time
    BY <1>0, <1>7, HeadType, MessageFields
       DEF HandleMessage, HandlePrepare, Handling, Pending
  <2>2. m \in Message /\ m.code = "PROMISE" /\ m.roundId = id
    BY <1>0, <2>1, NewMessages DEF PromiseFor, Context, RoundId
  <2>3. \/ NoReply(n, src)
        \/ id > maxRoundId[n] /\ Reply(n, src, m)
    BY <1>7 DEF HandlePrepare
  <2> HIDE DEF m
  <2>4. CASE NoReply(n, src)
    BY <1>5, <2>1, <2>4
  <2>5. CASE id > maxRoundId[n] /\ Reply(n, src, m)
    <3>1. net'[n][src] = Append(net[n][src], m) => Sends(n, src, m)
      BY <1>7, <2>2, <2>5 DEF Sends
    <3> QED
      BY <1>6, <2>1, <2>2, <2>5, <3>1
  <2> QED
    BY <2>3, <2>4, <2>5
<1>8. ASSUME NEW n \in Node, NEW src \in Node, HandlePropose(n, src)
      PROVE  \/ net'[s][d] = net[s][d]
             \/ Takes(s, d)
             \/ s # d /\ \E m \in Message : Sends(s, d, m)
  <2> DEFINE m == [code |-> "ACCEPT"]
  <2>1. Pending(n, src) /\ HandleMessage(n, src)
    BY <1>8 DEF HandleMessage, HandlePropose, Handling
  <2>2. m \in Message /\ m.code = "ACCEPT"
    BY NewMessages
  <2>3. NoReply(n, src) \/ Reply(n, src, m)
    BY <1>8 DEF HandlePropose
  <2> HIDE DEF m
  <2>4. CASE NoReply(n, src)
    BY <1>5, <2>1, <2>4
  <2>5. CASE Reply(n, src, m)
    <3>1. net'[n][src] = Append(net[n][src], m) => Sends(n, src, m)
      BY <1>8, <2>2, <2>5 DEF Sends
    <3> QED
      BY <1>6, <2>1, <2>2, <2>5, <3>1
  <2> QED
    BY <2>3, <2>4, <2>5
<1>9. ASSUME NEW n \in Node, NEW src \in Node, ConsensusThreadStep(n, src)
      PROVE  \/ net'[s][d] = net[s][d]
             \/ Takes(s, d)
             \/ s # d /\ \E m \in Message : Sends(s, d, m)
  <2>1. CASE \/ ReceiveDropped(n, src) \/ HandleAccepted(n, src)
             \/ HandlePromise(n, src) \/ HandleAccept(n, src)
    <3>1. Pending(n, src) /\ NoReply(n, src)
      BY <2>1 DEF ReceiveDropped, HandleAccepted, HandlePromise, HandleAccept,
         Handling
    <3> QED
      BY <1>5, <2>1, <3>1 DEF HandleMessage
  <2>2. CASE Receive(n, src)
    BY <2>2 DEF Receive
  <2> QED
    BY <1>7, <1>8, <1>9, <2>1, <2>2 DEF ConsensusThreadStep, HandleMessage
<1>10. ASSUME NEW n \in Node, NEW i \in Index, NEW st \in NodeStatus,
              SetNodeStatus(n, i, st)
       PROVE  net'[s][d] = net[s][d]
  BY <1>10 DEF SetNodeStatus
<1>11. CASE UNCHANGED vars
  BY <1>11 DEF vars
<1> QED
  BY <1>1, <1>2, <1>3, <1>4, <1>9, <1>10, <1>11 DEF Next, ClientThreadStep

(****************************************************************************)
(* The messages of code c in the channel from s to d are those it had, in   *)
(* the same order, shifted by e places.                                     *)
(****************************************************************************)
Shifted(s, d, c, e) ==
  \A k \in DOMAIN net'[s][d] : net'[s][d][k].code = c =>
     k + e \in DOMAIN net[s][d] /\ net[s][d][k + e] = net'[s][d][k]

NoneNew(s, d, c) == \E e \in {0, 1} : Shifted(s, d, c, e)

\* A channel that has grown.
LEMMA AppendedChannel ==
  ASSUME net \in Channels, NEW s \in Node, NEW d \in Node, NEW m \in Message,
         net'[s][d] = Append(net[s][d], m)
  PROVE  /\ Len(net[s][d]) \in Nat
         /\ DOMAIN net[s][d] = 1 .. Len(net[s][d])
         /\ DOMAIN net'[s][d] = 1 .. Len(net[s][d]) + 1
         /\ net'[s][d][Len(net[s][d]) + 1] = m
         /\ \A k \in DOMAIN net[s][d] : /\ k \in DOMAIN net'[s][d]
                                        /\ net'[s][d][k] = net[s][d][k]
<1>1. net[s][d] \in Seq(Message)
  BY DEF Channels
<1> QED
  BY <1>1

\* A channel whose head has been taken.
LEMMA TakenChannel ==
  ASSUME net \in Channels, NEW s \in Node, NEW d \in Node, Takes(s, d)
  PROVE  /\ net[s][d] # << >>
         /\ Head(net[s][d]) = net[s][d][1] /\ 1 \in DOMAIN net[s][d]
         /\ DOMAIN net[s][d] = 1 .. Len(net[s][d]) /\ Len(net[s][d]) \in Nat
         /\ DOMAIN net'[s][d] = 1 .. Len(net[s][d]) - 1
         /\ \A k \in DOMAIN net'[s][d] : /\ k + 1 \in DOMAIN net[s][d]
                                         /\ net'[s][d][k] = net[s][d][k + 1]
<1>1. net[s][d] \in Seq(Message) /\ net[s][d] # << >>
  BY DEF Channels, Takes, Pending
<1>2. net'[s][d] = Tail(net[s][d])
  BY DEF Takes
<1> QED
  BY <1>1, <1>2

\* A message of code c is new in a channel only if somebody has sent it.
LEMMA NewIsSent ==
  ASSUME TypeInv, NoneToSelf, [Next]_vars, NEW s \in Node, NEW d \in Node, NEW c
  PROVE  \/ NoneNew(s, d, c)
         \/ s # d /\ \E m \in Message : Sends(s, d, m) /\ m.code = c
<1>0. net \in Channels
  BY DEF TypeInv, TypeOK, Channels
<1>1. CASE net'[s][d] = net[s][d]
  <2>1. \A k \in DOMAIN net[s][d] : k + 0 = k
    <3>1. net[s][d] \in Seq(Message)
      BY <1>0 DEF Channels
    <3> QED
      BY <3>1
  <2>2. Shifted(s, d, c, 0)
    BY <1>1, <2>1 DEF Shifted
  <2> QED
    BY <2>2 DEF NoneNew
<1>2. CASE Takes(s, d)
  <2>1. Shifted(s, d, c, 1)
    BY <1>0, <1>2, TakenChannel DEF Shifted
  <2> QED
    BY <2>1 DEF NoneNew
<1>3. ASSUME NEW m \in Message, Sends(s, d, m), m.code # c
      PROVE  NoneNew(s, d, c)
  <2>1. net'[s][d] = Append(net[s][d], m)
    BY <1>3 DEF Sends
  <2>2. \A k \in DOMAIN net'[s][d] : net'[s][d][k].code = c =>
          k + 0 = k /\ k \in DOMAIN net[s][d] /\ net[s][d][k] = net'[s][d][k]
    BY <1>0, <1>3, <2>1, AppendedChannel
  <2>3. Shifted(s, d, c, 0)
    BY <2>2 DEF Shifted
  <2> QED
    BY <2>3 DEF NoneNew
<1> QED
  BY <1>1, <1>2, <1>3, ChannelSteps

\* Nobody ever sends to itself.
LEMMA NoneToSelfStep == TypeInv /\ NoneToSelf /\ [Next]_vars => NoneToSelf'
<1> SUFFICES ASSUME TypeInv, NoneToSelf, [Next]_vars, NEW n \in Node
             PROVE  net'[n][n] = << >>
  BY DEF NoneToSelf
<1>1. ~ Takes(n, n)
  BY DEF Takes, Pending, NoneToSelf
<1> QED
  BY <1>1, ChannelSteps DEF NoneToSelf

--------------------------------------------------------------------------------
(* Rounds of one proposer n with one acceptor a.                            *)

IsPrepare(m) == m.code = "PREPARE"
IsPromise(m) == m.code = "PROMISE"

(****************************************************************************)
(* The PROMISEs on their way from a to n, then the PREPAREs on their way    *)
(* from n to a, are of ever later rounds: n draws its ids from a clock that *)
(* a round moves on, and a promises only rounds later than the last.        *)
(****************************************************************************)
Ascending(n, a) ==
  /\ \A j, k \in DOMAIN net[n][a] :
       j < k /\ IsPrepare(net[n][a][j]) /\ IsPrepare(net[n][a][k])
         => net[n][a][j].id < net[n][a][k].id
  /\ \A j, k \in DOMAIN net[a][n] :
       j < k /\ IsPromise(net[a][n][j]) /\ IsPromise(net[a][n][k])
         => net[a][n][j].roundId < net[a][n][k].roundId
  /\ \A j \in DOMAIN net[a][n], k \in DOMAIN net[n][a] :
       IsPromise(net[a][n][j]) /\ IsPrepare(net[n][a][k])
         => net[a][n][j].roundId < net[n][a][k].id

\* A proposer whose clock is now and whose phase is at may have sent its r.
Drawn(r, now, at) == r <= now /\ (at = "idle" => r < now)

\* None of them is of a round n has not drawn, and a has promised what it says.
Bounded(n, a) ==
  /\ \A k \in DOMAIN net[n][a] :
       IsPrepare(net[n][a][k]) => Drawn(net[n][a][k].id, clock[n], phase[n])
  /\ \A k \in DOMAIN net[a][n] :
       IsPromise(net[a][n][k]) =>
         /\ Drawn(net[a][n][k].roundId, clock[n], phase[n])
         /\ net[a][n][k].roundId <= maxRoundId[a]

Tracked(n, a) == Ascending(n, a) /\ Bounded(n, a)

RoundsAscend == \A n \in Node : \A a \in Node \ {n} : Tracked(n, a)

\* The clock of n moves on, and by a whole second at least between two rounds.
LEMMA ClockSteps ==
  ASSUME TypeInv, [Next]_vars, NEW n \in Node
  PROVE  /\ clock[n] \in Int /\ clock'[n] \in Int /\ clock[n] <= clock'[n]
         /\ phase'[n] = "idle" => phase[n] = "idle" \/ clock[n] < clock'[n]
         /\ \A r \in Int : Drawn(r, clock[n], phase[n])
                         => Drawn(r, clock'[n], phase'[n])
<1> USE ConsensusAssumption
<1>0. /\ clock \in [Node -> 0 .. MaxClock + RoundDuration]
      /\ phase \in [Node -> Phase]
      /\ Proposers \subseteq Node
  BY DEF TypeInv, TypeOK
<1>1. ASSUME NEW p \in Proposers, NEW v \in Value, StartConsensus(p, v)
      PROVE  \E id \in clock[p] .. MaxClock :
               /\ clock' = [clock EXCEPT ![p] = id]
               /\ phase' = [phase EXCEPT ![p] = "promises"]
  BY <1>1 DEF StartConsensus, GoTo
<1>2. ASSUME NEW p \in Node, FinishConsensus(p)
      PROVE  clock' = [clock EXCEPT ![p] = @ + RoundDuration]
             /\ phase' = [phase EXCEPT ![p] = "idle"]
  BY <1>2 DEF FinishConsensus, GoTo
<1>3. ASSUME NEW p \in Node,
             \/ ReceivePromises(p) \/ BroadcastPropose(p) \/ ReceiveAccepts(p)
             \/ AppendValue(p) \/ BroadcastAccepted(p)
      PROVE  clock' = clock /\ (phase'[n] = "idle" => phase[n] = "idle")
  BY <1>0, <1>3 DEF ReceivePromises, BroadcastPropose, ReceiveAccepts,
     AppendValue, BroadcastAccepted, GoTo
<1>4. ASSUME NEW p \in Node, NEW src \in Node, ConsensusThreadStep(p, src)
      PROVE  UNCHANGED <<clock, phase>>
  BY <1>4 DEF ConsensusThreadStep, ReceiveDropped, Receive, HandleMessage,
     HandlePrepare, HandlePropose, HandleAccepted, HandlePromise, HandleAccept,
     clientThread
<1>a. ASSUME \/ \E p \in Node, i \in Index, s \in NodeStatus :
                  SetNodeStatus(p, i, s)
             \/ UNCHANGED vars
      PROVE  UNCHANGED <<clock, phase>>
  BY <1>a DEF SetNodeStatus, clientThread, vars
<1>5. /\ clock[n] \in Int /\ clock'[n] \in Int /\ clock[n] <= clock'[n]
      /\ phase'[n] = "idle" => phase[n] = "idle" \/ clock[n] < clock'[n]
  BY <1>0, <1>1, <1>2, <1>3, <1>4, <1>a DEF Next, ClientThreadStep
<1> QED
  BY <1>5 DEF Drawn

\* The round an acceptor has promised is never taken back.
LEMMA PromiseSteps ==
  ASSUME TypeInv, [Next]_vars, NEW a \in Node
  PROVE  /\ maxRoundId[a] \in Int /\ maxRoundId'[a] \in Int
         /\ maxRoundId[a] <= maxRoundId'[a]
<1>0. maxRoundId \in [Node -> RoundId] /\ net \in Channels
  BY DEF TypeInv, TypeOK, Channels
<1>1. ASSUME NEW n \in Node, NEW src \in Node, HandlePrepare(n, src)
      PROVE  \/ maxRoundId' = maxRoundId
             \/ \E id \in Time : /\ id > maxRoundId[n]
                                 /\ maxRoundId' = [maxRoundId EXCEPT ![n] = id]
  <2>1. Head(net[src][n]).id \in Time
    BY <1>0, <1>1, HeadType, MessageFields DEF HandlePrepare, Handling, Pending
  <2> QED
    BY <1>1, <2>1 DEF HandlePrepare
<1>2. ASSUME NEW n \in Node, NEW src \in Node, ConsensusThreadStep(n, src),
             ~ HandlePrepare(n, src)
      PROVE  maxRoundId' = maxRoundId
  BY <1>2 DEF ConsensusThreadStep, ReceiveDropped, Receive, HandleMessage,
     HandlePropose, HandleAccepted, HandlePromise, HandleAccept,
     consensusThread
<1>3. ASSUME \/ \E n \in Proposers, v \in Value : StartConsensus(n, v)
             \/ \E n \in Node : ClientThreadStep(n)
             \/ \E n \in Node, i \in Index, s \in NodeStatus :
                  SetNodeStatus(n, i, s)
             \/ UNCHANGED vars
      PROVE  maxRoundId' = maxRoundId
  BY <1>3 DEF StartConsensus, ClientThreadStep, ReceivePromises,
     BroadcastPropose, ReceiveAccepts, AppendValue, BroadcastAccepted,
     FinishConsensus, SetNodeStatus, consensusThread, vars
<1> QED
  BY <1>0, <1>1, <1>2, <1>3 DEF Next, RoundId, Time

\* Whatever brings neither a new PREPARE nor a new PROMISE.
LEMMA TrackedFrame ==
  ASSUME TypeInv, [Next]_vars, NEW n \in Node, NEW a \in Node, Tracked(n, a),
         NoneNew(n, a, "PREPARE"), NoneNew(a, n, "PROMISE"), TypeInv'
  PROVE  Tracked(n, a)'
<1>0. /\ net[n][a] \in Seq(Message) /\ net[a][n] \in Seq(Message)
      /\ net'[n][a] \in Seq(Message) /\ net'[a][n] \in Seq(Message)
  BY DEF TypeInv, TypeOK
<1>1. PICK e \in {0, 1} : Shifted(n, a, "PREPARE", e)
  BY DEF NoneNew
<1>2. PICK f \in {0, 1} : Shifted(a, n, "PROMISE", f)
  BY DEF NoneNew
<1>3. ASSUME NEW k \in DOMAIN net'[n][a], IsPrepare(net'[n][a][k])
      PROVE  /\ k + e \in DOMAIN net[n][a] /\ net[n][a][k + e] = net'[n][a][k]
             /\ IsPrepare(net[n][a][k + e]) /\ net'[n][a][k].id \in Int
  <2>1. net'[n][a][k].id \in Time
    BY <1>0, <1>3, MessageFields DEF IsPrepare
  <2> QED
    BY <1>1, <1>3, <2>1 DEF Shifted, IsPrepare, Time
<1>4. ASSUME NEW k \in DOMAIN net'[a][n], IsPromise(net'[a][n][k])
      PROVE  /\ k + f \in DOMAIN net[a][n] /\ net[a][n][k + f] = net'[a][n][k]
             /\ IsPromise(net[a][n][k + f]) /\ net'[a][n][k].roundId \in Int
  <2>1. net'[a][n][k].roundId \in Time
    BY <1>0, <1>4, MessageFields DEF IsPromise
  <2> QED
    BY <1>2, <1>4, <2>1 DEF Shifted, IsPromise, Time
<1>5. /\ \A j, k \in DOMAIN net'[n][a] : j < k => j + e < k + e
      /\ \A j, k \in DOMAIN net'[a][n] : j < k => j + f < k + f
  BY <1>0
<1>6. Ascending(n, a)'
  <2>1. ASSUME NEW j \in DOMAIN net'[n][a], NEW k \in DOMAIN net'[n][a], j < k,
               IsPrepare(net'[n][a][j]), IsPrepare(net'[n][a][k])
        PROVE  net'[n][a][j].id < net'[n][a][k].id
    BY <1>3, <1>5, <2>1 DEF Tracked, Ascending
  <2>2. ASSUME NEW j \in DOMAIN net'[a][n], NEW k \in DOMAIN net'[a][n], j < k,
               IsPromise(net'[a][n][j]), IsPromise(net'[a][n][k])
        PROVE  net'[a][n][j].roundId < net'[a][n][k].roundId
    BY <1>4, <1>5, <2>2 DEF Tracked, Ascending
  <2>3. ASSUME NEW j \in DOMAIN net'[a][n], NEW k \in DOMAIN net'[n][a],
               IsPromise(net'[a][n][j]), IsPrepare(net'[n][a][k])
        PROVE  net'[a][n][j].roundId < net'[n][a][k].id
    BY <1>3, <1>4, <2>3 DEF Tracked, Ascending
  <2> QED
    BY <2>1, <2>2, <2>3 DEF Ascending, IsPrepare, IsPromise
<1>7. Bounded(n, a)'
  <2>1. ASSUME NEW k \in DOMAIN net'[n][a], IsPrepare(net'[n][a][k])
        PROVE  Drawn(net'[n][a][k].id, clock'[n], phase'[n])
    <3>1. Drawn(net[n][a][k + e].id, clock[n], phase[n])
      BY <1>3, <2>1 DEF Tracked, Bounded
    <3> QED
      BY <1>3, <2>1, <3>1, ClockSteps
  <2>2. ASSUME NEW k \in DOMAIN net'[a][n], IsPromise(net'[a][n][k])
        PROVE  /\ Drawn(net'[a][n][k].roundId, clock'[n], phase'[n])
               /\ net'[a][n][k].roundId <= maxRoundId'[a]
    <3>1. /\ Drawn(net[a][n][k + f].roundId, clock[n], phase[n])
          /\ net[a][n][k + f].roundId <= maxRoundId[a]
      BY <1>4, <2>2 DEF Tracked, Bounded
    <3> QED
      BY <1>4, <2>2, <3>1, ClockSteps, PromiseSteps
  <2> QED
    BY <2>1, <2>2 DEF Bounded, IsPrepare, IsPromise
<1> QED
  BY <1>6, <1>7 DEF Tracked

\* A new round: later than all n has drawn before.
LEMMA NewPrepare ==
  ASSUME TypeInv, TypeInv', [Next]_vars, NEW n \in Node, NEW a \in Node \ {n},
         Tracked(n, a), NEW m \in Message, Sends(n, a, m), m.code = "PREPARE"
  PROVE  Tracked(n, a)'
<1>0. /\ net \in Channels
      /\ net[a][n] \in Seq(Message) /\ net[n][a] \in Seq(Message)
      /\ net'[a][n] \in Seq(Message)
  BY DEF TypeInv, TypeOK, Channels
<1> DEFINE L == Len(net[n][a]) + 1
<1>1. /\ m.id = clock'[n] /\ net'[n][a] = Append(net[n][a], m)
      /\ \E v \in Value : StartConsensus(n, v)
  BY DEF Sends
<1>2. /\ phase[n] = "idle" /\ phase'[n] = "promises"
      /\ clock[n] \in Int /\ clock'[n] \in Int /\ clock[n] <= clock'[n]
  <2>1. phase[n] = "idle" /\ phase'[n] = "promises"
    BY <1>1 DEF StartConsensus, GoTo, TypeInv, TypeOK
  <2> QED
    BY <2>1, ClockSteps
<1>3. net'[a][n] = net[a][n]
  BY <1>0, <1>1 DEF StartConsensus, Broadcast, broadcast, Channels
<1>4. /\ DOMAIN net[n][a] = 1 .. L - 1 /\ DOMAIN net'[n][a] = 1 .. L
      /\ L \in Nat \ {0} /\ net'[n][a][L] = m
      /\ \A k \in 1 .. L - 1 : net'[n][a][k] = net[n][a][k]
  BY <1>0, <1>1, AppendedChannel
<1> HIDE DEF L
<1>5. ASSUME NEW k \in DOMAIN net'[n][a], IsPrepare(net'[n][a][k])
      PROVE  \/ k = L /\ net'[n][a][k].id = clock'[n]
             \/ /\ k < L /\ k \in DOMAIN net[n][a]
                /\ net'[n][a][k] = net[n][a][k]
                /\ net[n][a][k].id \in Int /\ net[n][a][k].id < clock'[n]
  <2>1. CASE k = L
    BY <1>1, <1>4, <2>1
  <2>2. CASE k # L
    <3>1. k \in 1 .. L - 1
      BY <1>4, <2>2
    <3>2. net[n][a][k] \in Message /\ IsPrepare(net[n][a][k])
      BY <1>0, <1>4, <1>5, <3>1
    <3>3. net[n][a][k].id \in Int
      BY <3>2, MessageFields DEF IsPrepare, Time
    <3>4. net[n][a][k].id < clock[n]
      BY <1>2, <1>4, <3>1, <3>2 DEF Tracked, Bounded, Drawn
    <3> QED
      BY <1>2, <1>4, <3>1, <3>3, <3>4
  <2> QED
    BY <2>1, <2>2
<1>6. ASSUME NEW k \in DOMAIN net'[a][n], IsPromise(net'[a][n][k])
      PROVE  /\ net[a][n][k].roundId \in Int
             /\ net[a][n][k].roundId < clock'[n]
             /\ net[a][n][k].roundId <= maxRoundId'[a]
  <2>1. net[a][n][k] \in Message /\ IsPromise(net[a][n][k])
    BY <1>0, <1>3, <1>6
  <2>2. net[a][n][k].roundId \in Int
    BY <2>1, MessageFields DEF IsPromise, Time
  <2>3. /\ net[a][n][k].roundId < clock[n]
        /\ net[a][n][k].roundId <= maxRoundId[a]
    BY <1>2, <1>3, <1>6, <2>1 DEF Tracked, Bounded, Drawn
  <2> QED
    BY <1>2, <2>2, <2>3, PromiseSteps
<1>7. Ascending(n, a)'
  <2>1. ASSUME NEW j \in DOMAIN net'[n][a], NEW k \in DOMAIN net'[n][a], j < k,
               IsPrepare(net'[n][a][j]), IsPrepare(net'[n][a][k])
        PROVE  net'[n][a][j].id < net'[n][a][k].id
    <3>1. j < L
      BY <1>4, <2>1
    <3>2. /\ j \in DOMAIN net[n][a] /\ net'[n][a][j] = net[n][a][j]
          /\ net[n][a][j].id < clock'[n]
      BY <1>4, <1>5, <2>1, <3>1
    <3>3. CASE k = L
      BY <1>1, <1>4, <3>2, <3>3
    <3>4. CASE k # L
      BY <1>5, <2>1, <3>2, <3>4 DEF Tracked, Ascending
    <3> QED
      BY <3>3, <3>4
  <2>2. ASSUME NEW j \in DOMAIN net'[a][n], NEW k \in DOMAIN net'[n][a],
               IsPromise(net'[a][n][j]), IsPrepare(net'[n][a][k])
        PROVE  net'[a][n][j].roundId < net'[n][a][k].id
    <3>1. CASE k = L
      BY <1>1, <1>3, <1>4, <1>6, <2>2, <3>1
    <3>2. CASE k # L
      BY <1>3, <1>5, <2>2, <3>2 DEF Tracked, Ascending
    <3> QED
      BY <3>1, <3>2
  <2> QED
    BY <1>3, <2>1, <2>2 DEF Tracked, Ascending, IsPrepare, IsPromise
<1>8. Bounded(n, a)'
  <2>1. ASSUME NEW k \in DOMAIN net'[n][a], IsPrepare(net'[n][a][k])
        PROVE  Drawn(net'[n][a][k].id, clock'[n], phase'[n])
    BY <1>2, <1>5, <2>1 DEF Drawn
  <2>2. ASSUME NEW k \in DOMAIN net'[a][n], IsPromise(net'[a][n][k])
        PROVE  /\ Drawn(net'[a][n][k].roundId, clock'[n], phase'[n])
               /\ net'[a][n][k].roundId <= maxRoundId'[a]
    BY <1>2, <1>3, <1>6, <2>2 DEF Drawn
  <2> QED
    BY <2>1, <2>2 DEF Bounded, IsPrepare, IsPromise
<1> QED
  BY <1>7, <1>8 DEF Tracked

\* Handling a PREPARE takes it off its channel.
LEMMA PrepareTaken ==
  ASSUME TypeInv, NEW n \in Node, NEW a \in Node \ {n}, HandlePrepare(a, n)
  PROVE  Takes(n, a) /\ IsPrepare(Head(net[n][a])) /\ UNCHANGED clientThread
<1>0. net \in Channels /\ context[a] \in Context
  BY DEF TypeInv, TypeOK, Channels
<1> DEFINE m == PromiseFor(a, Head(net[n][a]).id)
<1>1. /\ Pending(a, n) /\ IsPrepare(Head(net[n][a]))
      /\ HandleMessage(a, n) /\ UNCHANGED clientThread
  BY DEF HandlePrepare, Handling, HandleMessage, IsPrepare
<1>2. m \in Message
  <2>1. Head(net[n][a]).id \in Time
    BY <1>0, <1>1, HeadType, MessageFields DEF Pending, IsPrepare
  <2> QED
    BY <1>0, <2>1, NewMessages DEF PromiseFor, Context, RoundId
<1>3. NoReply(a, n) \/ Reply(a, n, m)
  BY DEF HandlePrepare
<1> HIDE DEF m
<1>4. net'[n][a] = Tail(net[n][a])
  BY <1>0, <1>2, <1>3, NoReplyEffect, ReplyEffect
<1> QED
  BY <1>1, <1>4 DEF Takes

\* A new promise: later than all before, earlier than those still asked for.
LEMMA NewPromise ==
  ASSUME TypeInv, TypeInv', [Next]_vars, NEW n \in Node, NEW a \in Node \ {n},
         Tracked(n, a), NEW m \in Message, Sends(a, n, m), m.code = "PROMISE"
  PROVE  Tracked(n, a)'
<1>0. /\ net \in Channels
      /\ net[a][n] \in Seq(Message) /\ net[n][a] \in Seq(Message)
      /\ net'[n][a] \in Seq(Message)
  BY DEF TypeInv, TypeOK, Channels
<1> DEFINE L == Len(net[a][n]) + 1
           r == m.roundId
<1>1. /\ HandlePrepare(a, n) /\ r = Head(net[n][a]).id /\ r > maxRoundId[a]
      /\ net'[a][n] = Append(net[a][n], m)
  BY DEF Sends
<1>2. Takes(n, a) /\ IsPrepare(Head(net[n][a])) /\ UNCHANGED <<clock, phase>>
  BY <1>1, PrepareTaken DEF clientThread
<1>3. /\ 1 \in DOMAIN net[n][a] /\ Head(net[n][a]) = net[n][a][1]
      /\ DOMAIN net'[n][a] \subseteq Nat \ {0}
      /\ \A k \in DOMAIN net'[n][a] : /\ k + 1 \in DOMAIN net[n][a]
                                      /\ net'[n][a][k] = net[n][a][k + 1]
  BY <1>0, <1>2, TakenChannel
<1>4. /\ DOMAIN net[a][n] = 1 .. L - 1 /\ DOMAIN net'[a][n] = 1 .. L
      /\ L \in Nat \ {0} /\ net'[a][n][L] = m
      /\ \A k \in 1 .. L - 1 : net'[a][n][k] = net[a][n][k]
  BY <1>0, <1>1, AppendedChannel
<1>5. r \in Int /\ Drawn(r, clock[n], phase[n]) /\ maxRoundId'[a] = r
  <2>1. r \in Int
    BY MessageFields DEF Time
  <2>2. Drawn(r, clock[n], phase[n])
    BY <1>1, <1>2, <1>3 DEF Tracked, Bounded
  <2>3. maxRoundId'[a] = r
    BY <1>1 DEF HandlePrepare, TypeInv, TypeOK
  <2> QED
    BY <2>1, <2>2, <2>3
<1> HIDE DEF L, r
<1>6. ASSUME NEW k \in DOMAIN net'[n][a], IsPrepare(net'[n][a][k])
      PROVE  net'[n][a][k].id \in Int /\ r < net'[n][a][k].id
  <2>1. 1 < k + 1
    BY <1>3
  <2>2. r < net[n][a][k + 1].id
    BY <1>1, <1>2, <1>3, <1>6, <2>1 DEF Tracked, Ascending
  <2>3. net'[n][a][k].id \in Int
    BY <1>0, <1>6, MessageFields DEF IsPrepare, Time
  <2> QED
    BY <1>3, <2>2, <2>3
<1>7. ASSUME NEW k \in 1 .. L - 1, IsPromise(net[a][n][k])
      PROVE  /\ net[a][n][k].roundId \in Int
             /\ net[a][n][k].roundId < r
  <2>1. net[a][n][k].roundId \in Int
    BY <1>0, <1>4, <1>7, MessageFields DEF IsPromise, Time
  <2>2. net[a][n][k].roundId < net[n][a][1].id
    BY <1>2, <1>3, <1>4, <1>7 DEF Tracked, Ascending
  <2> QED
    BY <1>1, <1>3, <2>1, <2>2
<1>8. ASSUME NEW k \in DOMAIN net'[a][n] PROVE k = L \/ k \in 1 .. L - 1
  BY <1>4
<1>9. Ascending(n, a)'
  <2>1. ASSUME NEW j \in DOMAIN net'[n][a], NEW k \in DOMAIN net'[n][a], j < k,
               IsPrepare(net'[n][a][j]), IsPrepare(net'[n][a][k])
        PROVE  net'[n][a][j].id < net'[n][a][k].id
    <3>1. j + 1 < k + 1
      BY <1>3, <2>1
    <3> QED
      BY <1>3, <2>1, <3>1 DEF Tracked, Ascending
  <2>2. ASSUME NEW j \in DOMAIN net'[a][n], NEW k \in DOMAIN net'[a][n], j < k,
               IsPromise(net'[a][n][j]), IsPromise(net'[a][n][k])
        PROVE  net'[a][n][j].roundId < net'[a][n][k].roundId
    <3>1. j \in 1 .. L - 1
      BY <1>4, <2>2
    <3>2. CASE k = L
      BY <1>4, <1>7, <2>2, <3>1, <3>2 DEF r
    <3>3. CASE k \in 1 .. L - 1
      BY <1>4, <2>2, <3>1, <3>3 DEF Tracked, Ascending
    <3> QED
      BY <1>8, <3>2, <3>3
  <2>3. ASSUME NEW j \in DOMAIN net'[a][n], NEW k \in DOMAIN net'[n][a],
               IsPromise(net'[a][n][j]), IsPrepare(net'[n][a][k])
        PROVE  net'[a][n][j].roundId < net'[n][a][k].id
    <3>1. CASE j = L
      BY <1>4, <1>6, <2>3, <3>1 DEF r
    <3>2. CASE j \in 1 .. L - 1
      BY <1>3, <1>4, <2>3, <3>2 DEF Tracked, Ascending
    <3> QED
      BY <1>8, <3>1, <3>2
  <2> QED
    BY <2>1, <2>2, <2>3 DEF Ascending, IsPrepare, IsPromise
<1>10. Bounded(n, a)'
  <2>1. ASSUME NEW k \in DOMAIN net'[n][a], IsPrepare(net'[n][a][k])
        PROVE  Drawn(net'[n][a][k].id, clock'[n], phase'[n])
    BY <1>2, <1>3, <2>1 DEF Tracked, Bounded
  <2>2. ASSUME NEW k \in DOMAIN net'[a][n], IsPromise(net'[a][n][k])
        PROVE  /\ Drawn(net'[a][n][k].roundId, clock'[n], phase'[n])
               /\ net'[a][n][k].roundId <= maxRoundId'[a]
    <3>1. CASE k = L
      BY <1>2, <1>4, <1>5, <3>1 DEF r
    <3>2. CASE k \in 1 .. L - 1
      <4>1. Drawn(net'[a][n][k].roundId, clock'[n], phase'[n])
        BY <1>2, <1>4, <2>2, <3>2 DEF Tracked, Bounded
      <4>2. net'[a][n][k].roundId <= maxRoundId'[a]
        <5>1. net[a][n][k].roundId \in Int /\ net[a][n][k].roundId < r
          BY <1>4, <1>7, <2>2, <3>2
        <5> QED
          BY <1>4, <1>5, <3>2, <5>1, SMTT(30)
      <4> QED
        BY <4>1, <4>2
    <3> QED
      BY <1>8, <3>1, <3>2
  <2> QED
    BY <2>1, <2>2 DEF Bounded, IsPrepare, IsPromise
<1> QED
  BY <1>9, <1>10 DEF Tracked

LEMMA RoundsAscendStep ==
  TypeInv /\ TypeInv' /\ NoneToSelf /\ RoundsAscend /\ [Next]_vars
    => RoundsAscend'
<1> SUFFICES ASSUME TypeInv, TypeInv', NoneToSelf, RoundsAscend, [Next]_vars,
                    NEW n \in Node, NEW a \in Node \ {n}
             PROVE  Tracked(n, a)'
  BY DEF RoundsAscend
<1>1. Tracked(n, a)
  BY DEF RoundsAscend
<1>2. CASE NoneNew(n, a, "PREPARE") /\ NoneNew(a, n, "PROMISE")
  BY <1>1, <1>2, TrackedFrame
<1>3. CASE \E m \in Message : Sends(n, a, m) /\ m.code = "PREPARE"
  BY <1>1, <1>3, NewPrepare
<1>4. CASE \E m \in Message : Sends(a, n, m) /\ m.code = "PROMISE"
  BY <1>1, <1>4, NewPromise
<1> QED
  BY <1>2, <1>3, <1>4, NewIsSent

--------------------------------------------------------------------------------
(* What promiseCount counts.                                                *)

\* a has heard of n's round, and n of its answer if it was to get one.
Answered(n, a) ==
  /\ maxRoundId[a] >= context[n].roundId
  /\ \A k \in DOMAIN net[n][a] :
       IsPrepare(net[n][a][k]) => net[n][a][k].id # context[n].roundId
  /\ \A k \in DOMAIN net[a][n] :
       IsPromise(net[a][n][k]) => net[a][n][k].roundId # context[n].roundId

(****************************************************************************)
(* The round in the context is the one the clock was read for, unless the   *)
(* context has been reset; and promiseCount counts nodes that have answered *)
(* and can not answer again.                                                *)
(****************************************************************************)
Counted(n) ==
  /\ context[n].roundId \in {-1, clock[n]}
  /\ phase[n] = "idle" => context[n].roundId = -1
  /\ context[n].roundId = -1 => context[n].promiseCount = 0
  /\ \E C \in SUBSET (Node \ {n}) :
       /\ Cardinality(C) = context[n].promiseCount
       /\ \A a \in C : Answered(n, a)

CountInv == NoneToSelf /\ RoundsAscend /\ \A n \in Node : Counted(n)

LEMMA NodesFinite == IsFiniteSet(Node) /\ Cardinality(Node) = clusterSize
BY ClusterSizeAssumption, FS_Interval DEF Node

\* The client thread of n begins a round.
Begins(n) == phase[n] = "idle" /\ phase'[n] = "promises"

\* What a step does to the part of the context of n that counts promises.
LEMMA ContextSteps ==
  ASSUME TypeInv, [Next]_vars, NEW n \in Node
  PROVE  \/ /\ Begins(n) /\ context'[n].roundId = clock'[n]
            /\ context'[n].promiseCount = context[n].promiseCount
         \/ /\ context'[n].roundId = -1 /\ context'[n].promiseCount = 0
            /\ ~ Begins(n)
         \/ \E src \in Node :
              /\ Takes(src, n) /\ IsPromise(Head(net[src][n]))
              /\ Head(net[src][n]).roundId = context[n].roundId
              /\ context'[n].roundId = context[n].roundId
              /\ context'[n].promiseCount = context[n].promiseCount + 1
              /\ UNCHANGED <<clock, phase>>
         \/ /\ context'[n].roundId = context[n].roundId
            /\ context'[n].promiseCount = context[n].promiseCount
            /\ clock'[n] = clock[n] /\ ~ Begins(n)
            /\ phase'[n] = "idle" => phase[n] = "idle"
<1>0. /\ context \in [Node -> Context] /\ clock \in [Node -> Int]
      /\ phase \in [Node -> Phase] /\ net \in Channels
      /\ Proposers \subseteq Node /\ DOMAIN context[n] = DOMAIN EmptyContext
  BY ConsensusAssumption DEF TypeInv, TypeOK, Channels, Context, EmptyContext
<1> DEFINE Rest == /\ context'[n].roundId = context[n].roundId
                   /\ context'[n].promiseCount = context[n].promiseCount
                   /\ clock'[n] = clock[n] /\ ~ Begins(n)
                   /\ phase'[n] = "idle" => phase[n] = "idle"
<1>1. ASSUME NEW p \in Proposers, NEW v \in Value, StartConsensus(p, v)
      PROVE  \/ /\ Begins(n) /\ context'[n].roundId = clock'[n]
                /\ context'[n].promiseCount = context[n].promiseCount
             \/ Rest
  <2>1. PICK id : /\ clock' = [clock EXCEPT ![p] = id]
                  /\ context' = [context EXCEPT ![p].roundId = id]
                  /\ phase[p] = "idle"
                  /\ phase' = [phase EXCEPT ![p] = "promises"]
    BY <1>1 DEF StartConsensus, GoTo
  <2>2. CASE p = n
    <3>1. context'[n] = [context[n] EXCEPT !.roundId = id]
      BY <1>0, <2>1, <2>2
    <3>2. context'[n].roundId = id
          /\ context'[n].promiseCount = context[n].promiseCount
      BY <1>0, <3>1 DEF Context
    <3> QED
      BY <1>0, <2>1, <2>2, <3>2 DEF Begins
  <2>3. CASE p # n
    BY <1>0, <2>1, <2>3 DEF Begins
  <2> QED
    BY <2>2, <2>3
<1>2. ASSUME NEW p \in Node, FinishConsensus(p)
      PROVE  \/ /\ context'[n].roundId = -1 /\ context'[n].promiseCount = 0
                /\ ~ Begins(n)
             \/ Rest
  BY <1>0, <1>2 DEF FinishConsensus, GoTo, EmptyContext, Begins
<1>3. ASSUME NEW p \in Node,
             \/ ReceivePromises(p) \/ BroadcastPropose(p) \/ ReceiveAccepts(p)
             \/ AppendValue(p) \/ BroadcastAccepted(p)
      PROVE  Rest
  BY <1>0, <1>3 DEF ReceivePromises, BroadcastPropose, ReceiveAccepts,
     AppendValue, BroadcastAccepted, GoTo, Begins
<1>4. ASSUME NEW p \in Node, NEW src \in Node, HandleAccepted(p, src)
      PROVE  \/ /\ context'[n].roundId = -1 /\ context'[n].promiseCount = 0
                /\ ~ Begins(n)
             \/ Rest
  BY <1>0, <1>4 DEF HandleAccepted, EmptyContext, clientThread, Begins
<1>5. ASSUME NEW p \in Node, NEW src \in Node,
             \/ ReceiveDropped(p, src) \/ Receive(p, src)
             \/ HandlePrepare(p, src)
      PROVE  Rest
  BY <1>5 DEF ReceiveDropped, Receive, HandlePrepare, clientThread, Begins
<1>6. ASSUME NEW p \in Node, NEW src \in Node,
             HandlePropose(p, src) \/ HandleAccept(p, src)
      PROVE  Rest
  <2>1. \/ context' = context
        \/ \E a, v : context' = [context EXCEPT ![p].valueAccepted = TRUE,
                                                ![p].acceptedId    = a,
                                                ![p].acceptedValue = v]
        \/ \E k : context' = [context EXCEPT ![p].acceptCount = k]
    BY <1>6 DEF HandlePropose, HandleAccept
  <2>2. /\ context'[n].roundId = context[n].roundId
        /\ context'[n].promiseCount = context[n].promiseCount
    <3>1. CASE context' = context
      BY <3>1
    <3>2. ASSUME NEW a, NEW v,
                 context' = [context EXCEPT ![p].valueAccepted = TRUE,
                                            ![p].acceptedId    = a,
                                            ![p].acceptedValue = v]
          PROVE  /\ context'[n].roundId = context[n].roundId
                 /\ context'[n].promiseCount = context[n].promiseCount
      BY <1>0, <3>2 DEF Context
    <3>3. ASSUME NEW k, context' = [context EXCEPT ![p].acceptCount = k]
          PROVE  /\ context'[n].roundId = context[n].roundId
                 /\ context'[n].promiseCount = context[n].promiseCount
      BY <1>0, <3>3 DEF Context
    <3> QED
      BY <2>1, <3>1, <3>2, <3>3
  <2>3. UNCHANGED <<clock, phase>>
    BY <1>6 DEF HandlePropose, HandleAccept, clientThread
  <2> QED
    BY <2>2, <2>3 DEF Begins
<1>7. ASSUME NEW p \in Node, NEW src \in Node, HandlePromise(p, src)
      PROVE  \/ /\ p = n
                /\ Takes(src, n) /\ IsPromise(Head(net[src][n]))
                /\ Head(net[src][n]).roundId = context[n].roundId
                /\ context'[n].roundId = context[n].roundId
                /\ context'[n].promiseCount = context[n].promiseCount + 1
                /\ UNCHANGED <<clock, phase>>
             \/ Rest
  <2>1. /\ IsPromise(Head(net[src][p])) /\ Pending(p, src)
        /\ NoReply(p, src) /\ HandleMessage(p, src)
        /\ UNCHANGED <<clock, phase>>
    BY <1>7 DEF HandlePromise, Handling, IsPromise, HandleMessage, clientThread
  <2>2. Takes(src, p)
    BY <1>0, <2>1, NoReplyEffect DEF Takes
  <2>3. CASE context' = context
    BY <2>1, <2>3 DEF Begins
  <2>4. CASE context' # context
    <3>1. /\ Head(net[src][p]).roundId = context[p].roundId
          /\ \E a, v : context' =
               [context EXCEPT ![p].maxAcceptedId = a,
                               ![p].acceptedValue = v,
                               ![p].promiseCount = context[p].promiseCount + 1]
      BY <1>7, <2>4 DEF HandlePromise
    <3>2. CASE p = n
      <4>1. /\ context'[n].roundId = context[n].roundId
            /\ context'[n].promiseCount = context[n].promiseCount + 1
        BY <1>0, <3>1, <3>2 DEF Context
      <4> QED
        BY <2>1, <2>2, <3>1, <3>2, <4>1
    <3>3. CASE p # n
      <4>1. context'[n] = context[n]
        BY <1>0, <3>1, <3>3
      <4> QED
        BY <2>1, <4>1 DEF Begins
    <3> QED
      BY <3>2, <3>3
  <2> QED
    BY <2>3, <2>4
<1>8. ASSUME \/ \E p \in Node, i \in Index, s \in NodeStatus :
                  SetNodeStatus(p, i, s)
             \/ UNCHANGED vars
      PROVE  Rest
  BY <1>8 DEF SetNodeStatus, clientThread, vars, Begins
<1> HIDE DEF Rest
<1> QED
  BY <1>1, <1>2, <1>3, <1>4, <1>5, <1>6, <1>7, <1>8
     DEF Next, ClientThreadStep, ConsensusThreadStep, HandleMessage, Rest

\* Who has answered a round that goes on has nothing more to say of it.
LEMMA AnsweredStep ==
  ASSUME TypeInv, TypeInv', NoneToSelf, [Next]_vars,
         NEW n \in Node, NEW a \in Node \ {n}, Answered(n, a),
         context'[n].roundId = context[n].roundId, ~ Begins(n)
  PROVE  Answered(n, a)'
<1>0. /\ net \in Channels /\ context[n].roundId \in Int
      /\ net[a][n] \in Seq(Message) /\ net[n][a] \in Seq(Message)
  <2>1. context[n] \in Context
    BY DEF TypeInv, TypeOK
  <2>2. context[n].roundId \in Int
    BY <2>1 DEF Context, RoundId, Time
  <2> QED
    BY <2>2 DEF TypeInv, TypeOK, Channels
<1> DEFINE r == context[n].roundId
<1>1. NoneNew(n, a, "PREPARE")
  <2>1. ASSUME NEW v \in Value, StartConsensus(n, v) PROVE FALSE
    BY <2>1 DEF StartConsensus, GoTo, Begins, TypeInv, TypeOK
  <2> QED
    BY <2>1, NewIsSent DEF Sends
<1>2. ASSUME NEW k \in DOMAIN net'[n][a], IsPrepare(net'[n][a][k])
      PROVE  net'[n][a][k].id # r
  <2>1. PICK e \in {0, 1} : Shifted(n, a, "PREPARE", e)
    BY <1>1 DEF NoneNew
  <2>2. k + e \in DOMAIN net[n][a] /\ net[n][a][k + e] = net'[n][a][k]
    BY <1>2, <2>1 DEF Shifted, IsPrepare
  <2>3. IsPrepare(net[n][a][k + e])
    BY <1>2, <2>2 DEF IsPrepare
  <2> QED
    BY <2>2, <2>3 DEF Answered
<1>3. ASSUME NEW k \in DOMAIN net'[a][n], IsPromise(net'[a][n][k])
      PROVE  net'[a][n][k].roundId # r
  <2>1. CASE NoneNew(a, n, "PROMISE")
    <3>1. PICK e \in {0, 1} : Shifted(a, n, "PROMISE", e)
      BY <2>1 DEF NoneNew
    <3>2. k + e \in DOMAIN net[a][n] /\ net[a][n][k + e] = net'[a][n][k]
      BY <1>3, <3>1 DEF Shifted, IsPromise
    <3>3. IsPromise(net[a][n][k + e])
      BY <1>3, <3>2 DEF IsPromise
    <3> QED
      BY <3>2, <3>3 DEF Answered
  <2>2. CASE \E m \in Message : Sends(a, n, m) /\ m.code = "PROMISE"
    <3>1. PICK m \in Message : Sends(a, n, m) /\ m.code = "PROMISE"
      BY <2>2
    <3>2. /\ HandlePrepare(a, n) /\ m.roundId = Head(net[n][a]).id
          /\ net'[a][n] = Append(net[a][n], m)
      BY <3>1 DEF Sends
    <3>3. Takes(n, a) /\ IsPrepare(Head(net[n][a]))
      BY <3>2, PrepareTaken
    <3>4. Head(net[n][a]).id # r
      BY <1>0, <3>3, TakenChannel DEF Answered
    <3>5. \/ net'[a][n][k] = m
          \/ k \in DOMAIN net[a][n] /\ net'[a][n][k] = net[a][n][k]
      BY <1>0, <3>2, AppendedChannel
    <3>6. CASE net'[a][n][k] = m
      BY <3>2, <3>4, <3>6
    <3>7. CASE k \in DOMAIN net[a][n] /\ net'[a][n][k] = net[a][n][k]
      <4>1. IsPromise(net[a][n][k])
        BY <1>3, <3>7 DEF IsPromise
      <4> QED
        BY <3>7, <4>1 DEF Answered
    <3> QED
      BY <3>5, <3>6, <3>7
  <2> QED
    BY <2>1, <2>2, NewIsSent
<1>4. maxRoundId'[a] >= r
  <2>1. maxRoundId[a] >= r
    BY DEF Answered
  <2> QED
    BY <1>0, <2>1, PromiseSteps
<1> QED
  BY <1>2, <1>3, <1>4 DEF Answered, IsPrepare, IsPromise

\* The count grows by one when, and only when, one more node is counted.
LEMMA CountedStep ==
  ASSUME TypeInv, TypeInv', CountInv, [Next]_vars, NEW n \in Node
  PROVE  Counted(n)'
<1>0. /\ net \in Channels /\ context[n] \in Context /\ clock[n] \in Int
      /\ NoneToSelf /\ RoundsAscend /\ Counted(n)
  BY ConsensusAssumption DEF TypeInv, TypeOK, Channels, CountInv
<1>1. ASSUME context'[n].promiseCount = 0
      PROVE  \E C \in SUBSET (Node \ {n}) :
               /\ Cardinality(C) = context'[n].promiseCount
               /\ \A a \in C : Answered(n, a)'
  <2>1. Cardinality({}) = 0
    BY FS_EmptySet
  <2> QED
    BY <1>1, <2>1
<1>2. CASE /\ Begins(n) /\ context'[n].roundId = clock'[n]
           /\ context'[n].promiseCount = context[n].promiseCount
  <2>1. context[n].promiseCount = 0
    BY <1>0, <1>2 DEF Counted, Begins
  <2> QED
    BY <1>1, <1>2, <2>1 DEF Counted, Begins
<1>3. CASE context'[n].roundId = -1 /\ context'[n].promiseCount = 0
  BY <1>1, <1>3 DEF Counted
<1>4. ASSUME NEW src \in Node,
             Takes(src, n), IsPromise(Head(net[src][n])),
             Head(net[src][n]).roundId = context[n].roundId,
             context'[n].roundId = context[n].roundId,
             context'[n].promiseCount = context[n].promiseCount + 1,
             UNCHANGED <<clock, phase>>
      PROVE  Counted(n)'
  <2> DEFINE r == context[n].roundId
  <2>1. /\ net[src][n] # << >> /\ Head(net[src][n]) = net[src][n][1]
        /\ 1 \in DOMAIN net[src][n] /\ DOMAIN net'[src][n] \subseteq Nat \ {0}
        /\ \A k \in DOMAIN net'[src][n] :
             /\ k + 1 \in DOMAIN net[src][n]
             /\ net'[src][n][k] = net[src][n][k + 1]
    BY <1>0, <1>4, TakenChannel, SMTT(30)
  <2>2. src \in Node \ {n}
    BY <1>0, <2>1 DEF NoneToSelf
  <2>3. Tracked(n, src) /\ ~ Begins(n)
    BY <1>0, <1>4, <2>2 DEF RoundsAscend, Begins
  <2>4. r \in Int /\ r # -1
    <3>1. Head(net[src][n]) \in Message
      BY <1>0, <2>1, HeadType
    <3> QED
      BY <1>4, <3>1, MessageFields, ConsensusAssumption DEF IsPromise, Time
  <2>5. Answered(n, src)'
    <3>1. \A k \in DOMAIN net'[n][src] : /\ k \in DOMAIN net[n][src]
                                         /\ net'[n][src][k] = net[n][src][k]
      <4>1. net'[n][src] = net[n][src]
        <5>1. NoReply(n, src)
          BY <1>4 DEF Takes, IsPromise, ReceiveDropped, HandleMessage, Handling,
             HandlePrepare, HandlePropose, HandleAccepted, HandlePromise,
             HandleAccept
        <5> QED
          BY <1>0, <2>2, <5>1, NoReplyEffect
      <4> QED
        BY <4>1
    <3>2. ASSUME NEW k \in DOMAIN net'[n][src], IsPrepare(net'[n][src][k])
          PROVE  net'[n][src][k].id # r
      BY <1>4, <2>1, <2>3, <2>4, <3>1, <3>2 DEF Tracked, Ascending
    <3>3. ASSUME NEW k \in DOMAIN net'[src][n], IsPromise(net'[src][n][k])
          PROVE  net'[src][n][k].roundId # r
      <4>1. 1 < k + 1
        BY <2>1
      <4>2. r < net[src][n][k + 1].roundId
        BY <1>4, <2>1, <2>3, <3>3, <4>1 DEF Tracked, Ascending
      <4> QED
        BY <2>1, <2>4, <4>2
    <3>4. maxRoundId'[src] >= r
      <4>1. r <= maxRoundId[src]
        BY <1>4, <2>1, <2>3 DEF Tracked, Bounded
      <4> QED
        BY <2>4, <4>1, PromiseSteps
    <3> QED
      BY <1>4, <3>2, <3>3, <3>4 DEF Answered, IsPrepare, IsPromise
  <2>6. PICK C \in SUBSET (Node \ {n}) :
          /\ Cardinality(C) = context[n].promiseCount
          /\ \A a \in C : Answered(n, a)
    BY <1>0 DEF Counted
  <2>7. src \notin C
    BY <1>4, <2>1, <2>6 DEF Answered
  <2>8. Cardinality(C \cup {src}) = context'[n].promiseCount
    <3>1. IsFiniteSet(C)
      BY <2>6, NodesFinite, FS_Subset
    <3>2. Cardinality(C \cup {src}) = Cardinality(C) + 1
      BY <2>7, <3>1, FS_AddElement
    <3> QED
      BY <1>4, <2>6, <3>2
  <2>9. \A a \in C \cup {src} : Answered(n, a)'
    BY <1>0, <1>4, <2>3, <2>5, <2>6, AnsweredStep
  <2>10. /\ context'[n].roundId \in {-1, clock'[n]}
         /\ phase'[n] = "idle" => context'[n].roundId = -1
         /\ context'[n].roundId # -1
    BY <1>0, <1>4, <2>4 DEF Counted
  <2> QED
    BY <2>2, <2>8, <2>9, <2>10 DEF Counted
<1>5. CASE /\ context'[n].roundId = context[n].roundId
           /\ context'[n].promiseCount = context[n].promiseCount
           /\ clock'[n] = clock[n] /\ ~ Begins(n)
           /\ phase'[n] = "idle" => phase[n] = "idle"
  <2>1. PICK C \in SUBSET (Node \ {n}) :
          /\ Cardinality(C) = context[n].promiseCount
          /\ \A a \in C : Answered(n, a)
    BY <1>0 DEF Counted
  <2>2. \A a \in C : Answered(n, a)'
    BY <1>0, <1>5, <2>1, AnsweredStep
  <2> QED
    BY <1>0, <1>5, <2>1, <2>2 DEF Counted
<1> QED
  BY <1>2, <1>3, <1>4, <1>5, ContextSteps

(****************************************************************************)
(* The inductive invariant of the count: ids ascend on the way from n to a  *)
(* and back, so an answer to n's round is the only one a will ever give,    *)
(* and n has counted it or not.                                             *)
(****************************************************************************)
THEOREM CountInvariance == Spec => [](TypeInv /\ CountInv)
<1>1. Init => CountInv
  <2> SUFFICES ASSUME Init PROVE CountInv
    OBVIOUS
  <2>1. \A s, d \in Node : net[s][d] = << >>
    BY DEF Init, EmptyChannels
  <2>2. NoneToSelf /\ RoundsAscend
    BY <2>1 DEF NoneToSelf, RoundsAscend, Tracked, Ascending, Bounded
  <2>3. ASSUME NEW n \in Node PROVE Counted(n)
    <3>1. context[n].roundId = -1 /\ context[n].promiseCount = 0
      BY DEF Init, EmptyContext
    <3>2. Cardinality({}) = 0
      BY FS_EmptySet
    <3> QED
      BY <3>1, <3>2 DEF Counted
  <2> QED
    BY <2>2, <2>3 DEF CountInv
<1>2. TypeInv /\ TypeInv' /\ CountInv /\ [Next]_vars => CountInv'
  <2> SUFFICES ASSUME TypeInv, TypeInv', CountInv, [Next]_vars PROVE CountInv'
    OBVIOUS
  <2>1. NoneToSelf' /\ RoundsAscend'
    BY NoneToSelfStep, RoundsAscendStep DEF CountInv
  <2>2. \A n \in Node : Counted(n)'
    BY CountedStep
  <2> QED
    BY <2>1, <2>2 DEF CountInv
<1> QED
  BY <1>1, <1>2, TypeInvariance, PTL DEF Spec

\* Whom n has promises from is a set of other nodes.
LEMMA PromisedFinite ==
  ASSUME NEW n \in Node
  PROVE  IsFiniteSet(Promised(n)) /\ Cardinality(Promised(n)) \in Nat
<1>1. Promised(n) \subseteq Node
  BY DEF Promised
<1> QED
  BY <1>1, NodesFinite, FS_Subset, FS_CardinalityType

(****************************************************************************)
(* handlePromiseMessage counts no PROMISE twice, none for another round and *)
(* none for another proposer that drew the same id, whatever is dropped,    *)
(* delayed or answered late: for every number of nodes and of proposers.    *)
(****************************************************************************)
THEOREM NoPromiseIsCountedTwice == Spec => []PromisesCounted
<1>1. TypeInv /\ CountInv => PromisesCounted
  <2> SUFFICES ASSUME TypeInv, CountInv, NEW n \in Node
               PROVE  context[n].promiseCount <= Cardinality(Promised(n))
    BY DEF PromisesCounted
  <2>1. PICK C \in SUBSET (Node \ {n}) :
          /\ Cardinality(C) = context[n].promiseCount
          /\ \A a \in C : Answered(n, a)
    BY DEF CountInv, Counted
  <2>2. C \subseteq Promised(n)
    BY <2>1 DEF Promised, Answered
  <2> QED
    BY <2>1, <2>2, PromisedFinite, FS_Subset
<1> QED
  BY <1>1, CountInvariance, PTL

\* A step of the client thread of n.
StepsIn(n) ==
  \/ n \in Proposers /\ \E v \in Value : StartConsensus(n, v)
  \/ ClientThreadStep(n)

LEMMA PhaseSteps ==
  ASSUME TypeInv, [Next]_vars, NEW n \in Node
  PROVE  StepsIn(n) \/ UNCHANGED <<phase[n], value[n]>>
<1>1. ASSUME NEW p \in Proposers, NEW v \in Value, StartConsensus(p, v), p # n
      PROVE  UNCHANGED <<phase[n], value[n]>>
  BY <1>1 DEF StartConsensus, GoTo, TypeInv, TypeOK
<1>2. ASSUME NEW p \in Node, ClientThreadStep(p), p # n
      PROVE  UNCHANGED <<phase[n], value[n]>>
  BY <1>2 DEF ClientThreadStep, ReceivePromises, BroadcastPropose,
     ReceiveAccepts, AppendValue, BroadcastAccepted, FinishConsensus, GoTo,
     TypeInv, TypeOK
<1>3. ASSUME NEW p \in Node, NEW src \in Node, ConsensusThreadStep(p, src)
      PROVE  UNCHANGED <<phase[n], value[n]>>
  BY <1>3 DEF ConsensusThreadStep, ReceiveDropped, Receive, HandleMessage,
     HandlePrepare, HandlePropose, HandleAccepted, HandlePromise, HandleAccept,
     clientThread
<1>4. ASSUME \/ \E p \in Node, i \in Index, s \in NodeStatus :
                  SetNodeStatus(p, i, s)
             \/ UNCHANGED vars
      PROVE  UNCHANGED <<phase[n], value[n]>>
  BY <1>4 DEF SetNodeStatus, clientThread, vars
<1> QED
  BY <1>1, <1>2, <1>3, <1>4 DEF Next, StepsIn

(****************************************************************************)
(* In a cluster of an odd size, whoever goes on to broadcastPropose has a   *)
(* majority bound by its round, itself included, until startConsensus ends. *)
(* The oddness is what the comparison with (clusterSize - 1) / 2 needs.     *)
(****************************************************************************)
THEOREM AMajorityHasPromised ==
  ASSUME clusterSize % 2 = 1
  PROVE  Spec => []MajorityPromised
<1> DEFINE Committed == {"propose", "accepts", "append", "accepted"}
<1>1. Init => MajorityPromised
  BY DEF Init, MajorityPromised
<1>2. ASSUME TypeInv, TypeInv', CountInv, MajorityPromised, [Next]_vars,
             NEW n \in Node, phase'[n] \in Committed
      PROVE  Majority(Promised(n) \cup {n})'
  <2>1. /\ context[n].roundId \in Int /\ context'[n].roundId \in Int
        /\ context[n].roundId >= -1 /\ context[n].promiseCount \in Nat
    <3>1. context[n] \in Context /\ context'[n] \in Context
      BY <1>2 DEF TypeInv, TypeOK
    <3> QED
      BY <3>1, ConsensusAssumption DEF Context, RoundId, Time
  <2>2. context'[n].roundId \in {context[n].roundId, -1}
    BY <1>2, ContextSteps DEF Begins
  <2>3. Promised(n) \subseteq Promised(n)'
    <3>1. ASSUME NEW a \in Node \ {n}, maxRoundId[a] >= context[n].roundId
          PROVE  maxRoundId'[a] >= context'[n].roundId
      BY <1>2, <2>1, <2>2, <3>1, PromiseSteps
    <3> QED
      BY <3>1 DEF Promised
  <2>4. Majority(Promised(n) \cup {n})
    <3>1. CASE phase[n] \in Committed
      BY <1>2, <3>1 DEF MajorityPromised
    <3>2. CASE phase[n] \notin Committed
      <4>1. MajorityOf(context[n].promiseCount)
        <5>1. StepsIn(n)
          BY <1>2, <3>2, PhaseSteps
        <5> QED
          BY <1>2, <3>2, <5>1 DEF StepsIn, TypeInv, TypeOK, StartConsensus,
             ClientThreadStep, ReceivePromises, BroadcastPropose,
             ReceiveAccepts, AppendValue, BroadcastAccepted, FinishConsensus,
             GoTo
      <4>2. PICK C \in SUBSET (Node \ {n}) :
              /\ Cardinality(C) = context[n].promiseCount
              /\ \A a \in C : Answered(n, a)
        BY <1>2 DEF CountInv, Counted
      <4>3. C \subseteq Promised(n)
        BY <4>2 DEF Promised, Answered
      <4>4. Cardinality(Promised(n)) >= context[n].promiseCount
        BY <4>2, <4>3, PromisedFinite, FS_Subset
      <4>5. Cardinality(Promised(n) \cup {n}) = Cardinality(Promised(n)) + 1
        BY PromisedFinite, FS_AddElement DEF Promised
      <4>6. 2 * (Cardinality(Promised(n)) + 1) > clusterSize
        <5>1. clusterSize \in Nat /\ Cardinality(Promised(n)) \in Nat
          BY ClusterSizeAssumption, PromisedFinite
        <5>2. Cardinality(Promised(n)) >= (clusterSize - 1) \div 2
          BY <2>1, <4>1, <4>4, <5>1 DEF MajorityOf
        <5> QED
          BY <5>1, <5>2
      <4> QED
        BY <4>5, <4>6 DEF Majority
    <3> QED
      BY <3>1, <3>2
  <2>5. /\ Cardinality(Promised(n) \cup {n}) \in Nat
        /\ Cardinality((Promised(n) \cup {n})') \in Nat
        /\ Cardinality(Promised(n) \cup {n})
             <= Cardinality((Promised(n) \cup {n})')
    <3>1. (Promised(n) \cup {n})' \subseteq Node
      BY DEF Promised
    <3>2. Promised(n) \cup {n} \subseteq (Promised(n) \cup {n})'
      BY <2>3
    <3> QED
      BY <3>1, <3>2, NodesFinite, FS_Subset, FS_CardinalityType
  <2> QED
    BY <2>4, <2>5, ClusterSizeAssumption DEF Majority
<1>3. TypeInv /\ TypeInv' /\ CountInv /\ MajorityPromised /\ [Next]_vars
        => MajorityPromised'
  BY <1>2 DEF MajorityPromised
<1> QED
  BY <1>1, <1>3, CountInvariance, PTL DEF Spec

--------------------------------------------------------------------------------
(* The files.                                                               *)

InAProposersFile(v) ==
  \E p \in Proposers : \E j \in DOMAIN log[p] : log[p][j] = v

(****************************************************************************)
(* Only proposers tell others to write; what they tell is in their own file *)
(* already, and files only grow.                                            *)
(****************************************************************************)
WriteInv ==
  /\ \A n \in Node : phase[n] # "idle" => n \in Proposers
  /\ \A n \in Node : phase[n] = "accepted" => InAProposersFile(value[n])
  /\ \A s, d \in Node : \A k \in DOMAIN net[s][d] :
       net[s][d][k].code = "ACCEPTED" => InAProposersFile(net[s][d][k].value)
  /\ ProposerWritesFirst

\* A file is as it was, or has one line more: the value of a round its node
\* ran, or the value of an ACCEPTED.
LEMMA LogSteps ==
  ASSUME TypeInv, [Next]_vars, NEW n \in Node
  PROVE  \/ log'[n] = log[n]
         \/ /\ log'[n] = Append(log[n], value[n]) /\ value[n] \in Value
            /\ AppendValue(n)
         \/ \E src \in Node :
              /\ Pending(n, src) /\ Head(net[src][n]).code = "ACCEPTED"
              /\ Head(net[src][n]).value \in Value
              /\ log'[n] = Append(log[n], Head(net[src][n]).value)
<1>0. log \in [Node -> Seq(Value)] /\ net \in Channels
  BY DEF TypeInv, TypeOK, Channels
<1>1. ASSUME NEW p \in Node, AppendValue(p)
      PROVE  \/ log'[n] = log[n]
             \/ /\ log'[n] = Append(log[n], value[n]) /\ value[n] \in Value
                /\ AppendValue(n)
  BY <1>0, <1>1 DEF AppendValue, GoTo, TypeInv, InRound
<1>2. ASSUME NEW p \in Node, NEW src \in Node, HandleAccepted(p, src)
      PROVE  \/ log'[n] = log[n]
             \/ /\ p = n /\ Pending(n, src)
                /\ Head(net[src][n]).code = "ACCEPTED"
                /\ Head(net[src][n]).value \in Value
                /\ log'[n] = Append(log[n], Head(net[src][n]).value)
  <2>1. /\ Pending(p, src) /\ Head(net[src][p]).code = "ACCEPTED"
        /\ log' = [log EXCEPT ![p] = Append(@, Head(net[src][p]).value)]
    BY <1>2 DEF HandleAccepted, Handling
  <2>2. Head(net[src][p]).value \in Value
    BY <1>0, <2>1, HeadType, MessageFields DEF Pending
  <2> QED
    BY <1>0, <2>1, <2>2
<1>3. ASSUME NEW p \in Node, ClientThreadStep(p), ~ AppendValue(p)
      PROVE  log' = log
  BY <1>3 DEF ClientThreadStep, ReceivePromises, BroadcastPropose,
     ReceiveAccepts, BroadcastAccepted, FinishConsensus
<1>4. ASSUME NEW p \in Node, NEW src \in Node, ConsensusThreadStep(p, src),
             ~ HandleAccepted(p, src)
      PROVE  log' = log
  BY <1>4 DEF ConsensusThreadStep, ReceiveDropped, Receive, HandleMessage,
     HandlePrepare, HandlePropose, HandlePromise, HandleAccept
<1>5. ASSUME \/ \E p \in Proposers, v \in Value : StartConsensus(p, v)
             \/ \E p \in Node, i \in Index, s \in NodeStatus :
                  SetNodeStatus(p, i, s)
             \/ UNCHANGED vars
      PROVE  log' = log
  BY <1>5 DEF StartConsensus, SetNodeStatus, vars
<1> QED
  BY <1>1, <1>2, <1>3, <1>4, <1>5 DEF Next

\* A line stays where it is.
LEMMA LinesStay ==
  ASSUME TypeInv, [Next]_vars, NEW n \in Node, NEW k \in DOMAIN log[n]
  PROVE  k \in DOMAIN log'[n] /\ log'[n][k] = log[n][k]
<1>1. log[n] \in Seq(Value)
  BY DEF TypeInv, TypeOK
<1>2. log'[n] = log[n] \/ \E v \in Value : log'[n] = Append(log[n], v)
  BY LogSteps
<1> QED
  BY <1>1, <1>2

LEMMA WriteInvStep ==
  ASSUME TypeInv, TypeInv', NoneToSelf, WriteInv, [Next]_vars
  PROVE  WriteInv'
<1>0. /\ net \in Channels /\ log \in [Node -> Seq(Value)]
      /\ Proposers \subseteq Node
  BY ConsensusAssumption DEF TypeInv, TypeOK, Channels
<1> DEFINE Kept(v) ==
             \E p \in Proposers : \E j \in DOMAIN log'[p] : log'[p][j] = v
<1>1. ASSUME NEW v, InAProposersFile(v) PROVE Kept(v)
  BY <1>0, <1>1, LinesStay DEF InAProposersFile
<1> HIDE DEF Kept
<1>2. ASSUME NEW n \in Node, phase'[n] # "idle" PROVE n \in Proposers
  <2>1. CASE phase[n] = "idle"
    <3>1. StepsIn(n)
      BY <1>2, <2>1, PhaseSteps
    <3> QED
      BY <2>1, <3>1 DEF StepsIn, ClientThreadStep, ReceivePromises, GoTo,
         BroadcastPropose, ReceiveAccepts, AppendValue, BroadcastAccepted,
         FinishConsensus
  <2>2. CASE phase[n] # "idle"
    BY <2>2 DEF WriteInv
  <2> QED
    BY <2>1, <2>2
<1>3. ASSUME NEW n \in Node, phase'[n] = "accepted"
      PROVE  Kept(value'[n]) /\ value'[n] = value[n]
  <2>1. CASE phase[n] = "accepted"
    <3>1. InAProposersFile(value[n])
      BY <2>1 DEF WriteInv
    <3>2. value'[n] = value[n]
      BY <1>3, <2>1, PhaseSteps DEF StepsIn, ClientThreadStep, StartConsensus,
         ReceivePromises, GoTo, BroadcastPropose, ReceiveAccepts, AppendValue,
         BroadcastAccepted, FinishConsensus
    <3> QED
      BY <1>1, <3>1, <3>2
  <2>2. CASE phase[n] # "accepted"
    <3>1. StepsIn(n)
      BY <1>3, <2>2, PhaseSteps
    <3>2. AppendValue(n)
      BY <1>3, <2>2, <3>1 DEF StepsIn, ClientThreadStep, ReceivePromises, GoTo,
         BroadcastPropose, ReceiveAccepts, BroadcastAccepted, FinishConsensus,
         StartConsensus, TypeInv, TypeOK
    <3>3. /\ phase[n] # "idle" /\ value' = value /\ value[n] \in Value
          /\ log'[n] = Append(log[n], value[n])
      BY <1>0, <3>2 DEF AppendValue, GoTo, TypeInv, InRound
    <3>4. /\ Len(log[n]) + 1 \in DOMAIN log'[n]
          /\ log'[n][Len(log[n]) + 1] = value[n]
      BY <1>0, <3>3
    <3>5. n \in Proposers
      BY <3>3 DEF WriteInv
    <3> QED
      BY <3>3, <3>4, <3>5 DEF Kept
  <2> QED
    BY <2>1, <2>2
<1>4. ASSUME NEW s \in Node, NEW d \in Node, NEW k \in DOMAIN net'[s][d],
             net'[s][d][k].code = "ACCEPTED"
      PROVE  Kept(net'[s][d][k].value)
  <2>1. CASE NoneNew(s, d, "ACCEPTED")
    <3>1. PICK e \in {0, 1} : Shifted(s, d, "ACCEPTED", e)
      BY <2>1 DEF NoneNew
    <3>2. k + e \in DOMAIN net[s][d] /\ net[s][d][k + e] = net'[s][d][k]
      BY <1>4, <3>1 DEF Shifted
    <3>3. InAProposersFile(net'[s][d][k].value)
      BY <1>4, <3>2 DEF WriteInv
    <3> QED
      BY <1>1, <3>3
  <2>2. ASSUME NEW m \in Message, Sends(s, d, m), m.code = "ACCEPTED"
        PROVE  Kept(net'[s][d][k].value)
    <3>1. /\ net'[s][d] = Append(net[s][d], m) /\ m.value = value[s]
          /\ BroadcastAccepted(s)
      BY <2>2 DEF Sends
    <3>2. \/ net'[s][d][k] = m
          \/ k \in DOMAIN net[s][d] /\ net'[s][d][k] = net[s][d][k]
      BY <1>0, <3>1, AppendedChannel
    <3>3. InAProposersFile(net'[s][d][k].value)
      <4>1. phase[s] = "accepted"
        BY <3>1 DEF BroadcastAccepted, GoTo
      <4> QED
        BY <1>4, <3>1, <3>2, <4>1 DEF WriteInv
    <3> QED
      BY <1>1, <3>3
  <2> QED
    BY <2>1, <2>2, NewIsSent
<1>5. ASSUME NEW n \in Node, NEW k \in DOMAIN log'[n]
      PROVE  Kept(log'[n][k])
  <2>1. ASSUME k \in DOMAIN log[n], log'[n][k] = log[n][k]
        PROVE  Kept(log'[n][k])
    <3>1. InAProposersFile(log[n][k])
      BY <2>1 DEF WriteInv, ProposerWritesFirst, InAProposersFile
    <3> QED
      BY <1>1, <2>1, <3>1
  <2>2. CASE log'[n] = log[n]
    BY <2>1, <2>2
  <2>3. CASE AppendValue(n)
    <3>1. n \in Proposers
      BY <2>3 DEF AppendValue, GoTo, WriteInv
    <3> QED
      BY <3>1 DEF Kept
  <2>4. ASSUME NEW src \in Node,
               Pending(n, src), Head(net[src][n]).code = "ACCEPTED",
               Head(net[src][n]).value \in Value,
               log'[n] = Append(log[n], Head(net[src][n]).value)
        PROVE  Kept(log'[n][k])
    <3>1. \/ k \in DOMAIN log[n] /\ log'[n][k] = log[n][k]
          \/ log'[n][k] = Head(net[src][n]).value
      BY <1>0, <2>4
    <3>2. /\ 1 \in DOMAIN net[src][n] /\ Head(net[src][n]) = net[src][n][1]
      <4>1. net[src][n] \in Seq(Message) /\ net[src][n] # << >>
        BY <1>0, <2>4 DEF Channels, Pending
      <4> QED
        BY <4>1
    <3>3. InAProposersFile(Head(net[src][n]).value)
      BY <2>4, <3>2 DEF WriteInv
    <3> QED
      BY <1>1, <2>1, <3>1, <3>3
  <2> QED
    BY <2>2, <2>3, <2>4, LogSteps
<1> QED
  BY <1>2, <1>3, <1>4, <1>5
     DEF WriteInv, InAProposersFile, ProposerWritesFirst, Kept

(****************************************************************************)
(* startConsensus appends before it broadcasts ACCEPTED: whatever is        *)
(* delayed, lost or reordered, no file has a line that no proposer has, for *)
(* every cluster, set of proposers and behaviour of the failure detector.   *)
(****************************************************************************)
THEOREM AProposerWritesFirst == Spec => []ProposerWritesFirst
<1>1. Init => WriteInv
  <2>1. Init => \A n, d \in Node : net[n][d] = << >> /\ log[n] = << >>
    BY DEF Init, EmptyChannels
  <2> QED
    BY <2>1 DEF Init, WriteInv, ProposerWritesFirst
<1>2. TypeInv /\ TypeInv' /\ CountInv /\ WriteInv /\ [Next]_vars => WriteInv'
  BY WriteInvStep DEF CountInv
<1>3. WriteInv => ProposerWritesFirst
  BY DEF WriteInv
<1> QED
  BY <1>1, <1>2, <1>3, CountInvariance, PTL DEF Spec

--------------------------------------------------------------------------------
(* Rounds without an id.                                                    *)

\* n throws away what p sends, and has nothing of p's in hand.
Deaf(n, p) == ~ processIsAlive[n][idToIndex(n, p)] /\ handling[n] # p

Mute(p, n) == ~ processIsAlive[p][idToIndex(p, n)]

PrepareBefore(p, n, k) ==
  \E j \in DOMAIN net[p][n] : j < k /\ IsPrepare(net[p][n][j])

(****************************************************************************)
(* Unless n hears nothing of p any more, or has promised a round, every     *)
(* PROPOSE on its way from p to n is behind a PREPARE, and p will not send  *)
(* the next one without.                                                    *)
(****************************************************************************)
AsksFirst(p, n) ==
  \/ Deaf(n, p)
  \/ maxRoundId[n] # -1
  \/ /\ \A k \in DOMAIN net[p][n] :
          net[p][n][k].code = "PROPOSE" => PrepareBefore(p, n, k)
     /\ phase[p] \in {"promises", "propose"} =>
          Mute(p, n) \/ PrepareBefore(p, n, Len(net[p][n]) + 1)

AskInv == \A p \in Node : \A n \in Node \ {p} : AsksFirst(p, n)

LEMMA IndexOfOther ==
  ASSUME NEW n \in Node, NEW p \in Node \ {n}
  PROVE  idToIndex(n, p) \in Index
BY ClusterSizeAssumption DEF Node, Index, idToIndex

\* As long as no node is readmitted, a suspicion stays.
LEMMA SuspicionStays ==
  ASSUME NodeStatus \subseteq {FALSE}, TypeInv, [Next]_vars,
         NEW n \in Node, NEW i \in Index, ~ processIsAlive[n][i]
  PROVE  ~ processIsAlive'[n][i]
<1>1. ASSUME NEW p \in Node, NEW x \in Index, NEW s \in NodeStatus,
             SetNodeStatus(p, x, s)
      PROVE  ~ processIsAlive'[n][i]
  BY <1>1 DEF SetNodeStatus, setNodeStatus, TypeInv, TypeOK
<1>2. ASSUME \/ \E p \in Proposers, v \in Value : StartConsensus(p, v)
             \/ UNCHANGED vars
      PROVE  processIsAlive' = processIsAlive
  BY <1>2 DEF StartConsensus, vars
<1>3. ASSUME NEW p \in Node, ClientThreadStep(p)
      PROVE  processIsAlive' = processIsAlive
  BY <1>3 DEF ClientThreadStep, ReceivePromises, BroadcastPropose,
     ReceiveAccepts, AppendValue, BroadcastAccepted, FinishConsensus
<1>4. ASSUME NEW p \in Node, NEW src \in Node, ConsensusThreadStep(p, src)
      PROVE  processIsAlive' = processIsAlive
  BY <1>4 DEF ConsensusThreadStep, ReceiveDropped, Receive, HandleMessage,
     HandlePrepare, HandlePropose, HandleAccepted, HandlePromise, HandleAccept
<1> QED
  BY <1>1, <1>2, <1>3, <1>4 DEF Next

\* Only what is received is handled.
LEMMA HandlingSteps ==
  ASSUME TypeInv, [Next]_vars, NEW n \in Node, NEW p \in Node,
         handling'[n] = p
  PROVE  handling[n] = p \/ Receive(n, p)
<1>0. handling \in [Node -> Node \cup {-1}] /\ p # -1
  <2>1. p # -1
    BY ClusterSizeAssumption DEF Node
  <2> QED
    BY <2>1 DEF TypeInv, TypeOK
<1>1. ASSUME NEW x \in Node, NEW src \in Node, HandleMessage(x, src)
      PROVE  handling' = [handling EXCEPT ![x] = -1]
  BY <1>1 DEF HandleMessage, HandlePrepare, HandlePropose, HandleAccepted,
     HandlePromise, HandleAccept, Handling
<1>2. ASSUME NEW x \in Node, NEW src \in Node, ConsensusThreadStep(x, src)
      PROVE  handling[n] = p \/ Receive(n, p)
  BY <1>0, <1>1, <1>2 DEF ConsensusThreadStep, ReceiveDropped, Receive,
     consensusThread
<1>3. ASSUME NEW x \in Node, ClientThreadStep(x)
      PROVE  handling' = handling
  BY <1>3 DEF ClientThreadStep, ReceivePromises, BroadcastPropose,
     ReceiveAccepts, AppendValue, BroadcastAccepted, FinishConsensus,
     consensusThread
<1>4. ASSUME \/ \E x \in Proposers, v \in Value : StartConsensus(x, v)
             \/ \E x \in Node, i \in Index, s \in NodeStatus :
                  SetNodeStatus(x, i, s)
             \/ UNCHANGED vars
      PROVE  handling' = handling
  BY <1>4 DEF StartConsensus, SetNodeStatus, consensusThread, vars
<1> QED
  BY <1>2, <1>3, <1>4 DEF Next

LEMMA DeafStays ==
  ASSUME NodeStatus \subseteq {FALSE}, TypeInv, [Next]_vars,
         NEW n \in Node, NEW p \in Node \ {n}, Deaf(n, p)
  PROVE  Deaf(n, p)'
<1>1. ~ processIsAlive'[n][idToIndex(n, p)]
  BY IndexOfOther, SuspicionStays DEF Deaf
<1>2. ~ Receive(n, p)
  BY DEF Receive, messageShouldDrop, Deaf
<1>3. handling'[n] # p
  BY <1>2, HandlingSteps DEF Deaf
<1> QED
  BY <1>1, <1>3 DEF Deaf

\* A broadcast leaves nobody out but those its sender believes dead.
LEMMA BroadcastReaches ==
  ASSUME net \in Channels, NEW p \in Node, NEW n \in Node \ {p},
         NEW m \in Message, Broadcast(p, m)
  PROVE  net'[p][n] = IF Mute(p, n) THEN net[p][n] ELSE Append(net[p][n], m)
<1>1. n # p /\ 0 <= n /\ n < clusterSize
  BY ClusterSizeAssumption DEF Node
<1>2. net'[p] = [d \in Node |->
                   IF /\ d # p
                      /\ 0 <= d /\ d < clusterSize
                      /\ ~ messageShouldDrop(processIsAlive[p], p, d,
                                            "CONSENSUS")
                   THEN Append(net[p][d], m) ELSE net[p][d]]
  BY DEF Broadcast, broadcast, Channels
<1>3. Mute(p, n) <=> messageShouldDrop(processIsAlive[p], p, n, "CONSENSUS")
  BY <1>1 DEF messageShouldDrop, Mute
<1> QED
  BY <1>1, <1>2, <1>3

LEMMA AsksFirstStep ==
  ASSUME NodeStatus \subseteq {FALSE}, TypeInv, TypeInv', NoneToSelf,
         [Next]_vars, NEW p \in Node, NEW n \in Node \ {p}, AsksFirst(p, n)
  PROVE  AsksFirst(p, n)'
<1>0. /\ net \in Channels /\ net[p][n] \in Seq(Message)
  BY DEF TypeInv, TypeOK, Channels
<1>1. CASE Deaf(n, p)
  BY <1>1, DeafStays DEF AsksFirst
<1>2. CASE maxRoundId[n] # -1
  <2>1. maxRoundId[n] \in RoundId /\ maxRoundId'[n] \in RoundId
    BY DEF TypeInv, TypeOK
  <2>2. maxRoundId'[n] # -1
    BY <1>2, <2>1, PromiseSteps, ConsensusAssumption DEF RoundId, Time
  <2> QED
    BY <2>2 DEF AsksFirst
<1> DEFINE Asked == /\ \A k \in DOMAIN net[p][n] :
                         net[p][n][k].code = "PROPOSE" => PrepareBefore(p, n, k)
                    /\ phase[p] \in {"promises", "propose"} =>
                         \/ Mute(p, n)
                         \/ PrepareBefore(p, n, Len(net[p][n]) + 1)
<1>3. ASSUME Asked, ~ Deaf(n, p), ~ Deaf(n, p)', maxRoundId'[n] = -1
      PROVE  Asked'
  <2> USE <1>3
  <2> DEFINE L == Len(net[p][n])
  <2>0. L \in Nat /\ DOMAIN net[p][n] = 1 .. L
    BY <1>0
  <2>1. Mute(p, n) => Mute(p, n)'
    BY IndexOfOther, SuspicionStays DEF Mute
  <2>2. ASSUME phase'[p] \in {"promises", "propose"},
               phase[p] \notin {"promises", "propose"}
        PROVE  \/ Mute(p, n)'
               \/ PrepareBefore(p, n, Len(net[p][n]) + 1)'
    <3>1. StepsIn(p)
      BY <2>2, PhaseSteps
    <3>2. PICK v \in Value : StartConsensus(p, v)
      <4>1. ASSUME NEW from, NEW to, GoTo(p, from, to)
            PROVE  phase[p] = from /\ phase'[p] = to
        BY <4>1 DEF GoTo, TypeInv, TypeOK
      <4>2. ~ ClientThreadStep(p)
        BY <2>2, <4>1 DEF ClientThreadStep, ReceivePromises, BroadcastPropose,
           ReceiveAccepts, AppendValue, BroadcastAccepted, FinishConsensus
      <4> QED
        BY <3>1, <4>2 DEF StepsIn
    <3>3. PICK id \in clock[p] .. MaxClock :
            Broadcast(p, [code |-> "PREPARE", id |-> id])
      BY <3>2 DEF StartConsensus
    <3>4. id \in Time
      BY ConsensusAssumption DEF TypeInv, TypeOK, Time
    <3> DEFINE m == [code |-> "PREPARE", id |-> id]
    <3>5. m \in Message /\ IsPrepare(m)
      BY <3>4, NewMessages DEF IsPrepare
    <3> HIDE DEF m
    <3>6. CASE Mute(p, n)
      BY <2>1, <3>6
    <3>7. CASE ~ Mute(p, n)
      <4>1. net'[p][n] = Append(net[p][n], m)
        BY <1>0, <3>3, <3>5, <3>7, BroadcastReaches DEF m
      <4>2. /\ L + 1 \in DOMAIN net'[p][n] /\ net'[p][n][L + 1] = m
            /\ L + 1 < Len(net'[p][n]) + 1
        BY <1>0, <2>0, <4>1
      <4> QED
        BY <3>5, <4>2 DEF PrepareBefore, IsPrepare
    <3> QED
      BY <3>6, <3>7
  <2>3. CASE net'[p][n] = net[p][n]
    <3>1. \A k : PrepareBefore(p, n, k) =>
            \E j \in DOMAIN net'[p][n] : j < k /\ IsPrepare(net'[p][n][j])
      BY <2>3 DEF PrepareBefore
    <3> QED
      BY <2>1, <2>2, <2>3, <3>1 DEF PrepareBefore, IsPrepare
  <2>4. CASE Takes(p, n)
    <3>1. /\ L >= 1 /\ Head(net[p][n]) = net[p][n][1]
          /\ DOMAIN net'[p][n] = 1 .. L - 1 /\ Len(net'[p][n]) = L - 1
          /\ \A k \in 1 .. L - 1 : net'[p][n][k] = net[p][n][k + 1]
      <4>1. net[p][n] # << >> /\ net'[p][n] = Tail(net[p][n])
        BY <2>4 DEF Takes, Pending
      <4> QED
        BY <1>0, <2>0, <4>1
    <3>2. HandleMessage(n, p)
      <4>1. p # -1
        BY ClusterSizeAssumption DEF Node
      <4>2. ~ ReceiveDropped(n, p)
        BY <4>1 DEF ReceiveDropped, messageShouldDrop, Deaf
      <4> QED
        BY <2>4, <4>2 DEF Takes
    <3>3. ~ IsPrepare(net[p][n][1])
      <4>1. ASSUME HandlePrepare(n, p) PROVE FALSE
        <5>1. Head(net[p][n]).id \in Time
          BY <1>0, <4>1, HeadType, MessageFields
             DEF HandlePrepare, Handling, Pending
        <5>2. maxRoundId \in [Node -> RoundId]
          BY DEF TypeInv, TypeOK
        <5>3. maxRoundId[n] \in Int /\ maxRoundId[n] >= -1
          BY <5>2, ConsensusAssumption DEF RoundId, Time
        <5>4. \/ maxRoundId' = [maxRoundId EXCEPT ![n] = Head(net[p][n]).id]
              \/ /\ maxRoundId' = maxRoundId
                 /\ ~ Head(net[p][n]).id > maxRoundId[n]
          BY <4>1 DEF HandlePrepare
        <5>5. Head(net[p][n]).id \in Int /\ Head(net[p][n]).id >= 0
          BY <5>1, ConsensusAssumption DEF Time
        <5> QED
          BY <5>2, <5>3, <5>4, <5>5
      <4> QED
        BY <3>1, <3>2, <4>1 DEF IsPrepare, HandleMessage, HandlePropose,
           HandleAccepted, HandlePromise, HandleAccept, Handling
    <3>4. ASSUME NEW k \in 1 .. L, PrepareBefore(p, n, k + 1)
          PROVE  \E j \in DOMAIN net'[p][n] : j < k /\ IsPrepare(net'[p][n][j])
      <4>1. PICK j \in 1 .. L : j < k + 1 /\ IsPrepare(net[p][n][j])
        BY <2>0, <3>4 DEF PrepareBefore
      <4>2. j # 1
        BY <3>3, <4>1
      <4>3. j - 1 \in 1 .. L - 1 /\ j - 1 < k /\ (j - 1) + 1 = j
        BY <2>0, <4>1, <4>2
      <4>4. net'[p][n][j - 1] = net[p][n][j]
        BY <3>1, <4>3
      <4> QED
        BY <3>1, <4>1, <4>3, <4>4
    <3>5. ASSUME NEW k \in DOMAIN net'[p][n], net'[p][n][k].code = "PROPOSE"
          PROVE  \E j \in DOMAIN net'[p][n] : j < k /\ IsPrepare(net'[p][n][j])
      <4>1. k \in 1 .. L /\ k + 1 \in DOMAIN net[p][n]
        BY <2>0, <3>1
      <4> QED
        BY <3>1, <3>4, <3>5, <4>1
    <3>6. ASSUME phase[p] \in {"promises", "propose"},
                 PrepareBefore(p, n, L + 1)
          PROVE  \E j \in DOMAIN net'[p][n] :
                   j < Len(net'[p][n]) + 1 /\ IsPrepare(net'[p][n][j])
      <4>1. L \in 1 .. L /\ Len(net'[p][n]) + 1 = L
        BY <2>0, <3>1
      <4> QED
        BY <3>4, <3>6, <4>1
    <3> QED
      BY <2>1, <2>2, <3>5, <3>6 DEF PrepareBefore, IsPrepare
  <2>5. ASSUME NEW m \in Message, Sends(p, n, m)
        PROVE  Asked'
    <3>1. /\ DOMAIN net'[p][n] = 1 .. L + 1 /\ net'[p][n][L + 1] = m
          /\ Len(net'[p][n]) = L + 1
          /\ \A k \in 1 .. L : net'[p][n][k] = net[p][n][k]
      <4>1. net'[p][n] = Append(net[p][n], m)
        BY <2>5 DEF Sends
      <4> QED
        BY <1>0, <2>0, <4>1
    <3>2. ASSUME NEW k \in 1 .. L + 1, PrepareBefore(p, n, k)
          PROVE  \E j \in DOMAIN net'[p][n] : j < k /\ IsPrepare(net'[p][n][j])
      <4>1. PICK j \in 1 .. L : j < k /\ IsPrepare(net[p][n][j])
        BY <2>0, <3>2 DEF PrepareBefore
      <4>2. j \in DOMAIN net'[p][n] /\ net'[p][n][j] = net[p][n][j]
        BY <2>0, <3>1
      <4> QED
        BY <4>1, <4>2
    <3>3. ASSUME m.code = "PROPOSE" PROVE PrepareBefore(p, n, L + 1)
      <4>1. BroadcastPropose(p) /\ net'[p][n] = Append(net[p][n], m)
        BY <2>5, <3>3 DEF Sends
      <4>2. phase[p] = "propose"
        BY <4>1 DEF BroadcastPropose, GoTo
      <4>3. ~ Mute(p, n)
        <5>1. PICK r \in Message : Broadcast(p, r)
          <6>1. value[p] \in Value /\ context[p] \in Context
            BY <4>2 DEF TypeInv, TypeOK, InRound
          <6> QED
            BY <4>1, <6>1, NewMessages DEF BroadcastPropose, Context
        <5>2. Append(net[p][n], m) # net[p][n]
          <6>1. Len(net'[p][n]) # Len(net[p][n])
            BY <2>0, <3>1
          <6> QED
            BY <4>1, <6>1
        <5> QED
          BY <1>0, <4>1, <5>1, <5>2, BroadcastReaches
      <4> QED
        BY <4>2, <4>3
    <3>4. ASSUME NEW k \in DOMAIN net'[p][n], net'[p][n][k].code = "PROPOSE"
          PROVE  \E j \in DOMAIN net'[p][n] : j < k /\ IsPrepare(net'[p][n][j])
      <4>1. CASE k = L + 1
        BY <2>0, <3>1, <3>2, <3>3, <3>4, <4>1
      <4>2. CASE k # L + 1
        <5>1. k \in 1 .. L /\ k \in 1 .. L + 1
          BY <2>0, <3>1, <4>2
        <5> QED
          BY <2>0, <3>1, <3>2, <3>4, <5>1
      <4> QED
        BY <4>1, <4>2
    <3>5. ASSUME phase[p] \in {"promises", "propose"},
                 PrepareBefore(p, n, L + 1)
          PROVE  \E j \in DOMAIN net'[p][n] :
                   j < Len(net'[p][n]) + 1 /\ IsPrepare(net'[p][n][j])
      <4>1. L + 1 \in 1 .. L + 1 /\ L + 1 < Len(net'[p][n]) + 1
        BY <2>0, <3>1
      <4>2. PICK j \in DOMAIN net'[p][n] : j < L + 1 /\ IsPrepare(net'[p][n][j])
        BY <3>2, <3>5, <4>1
      <4> QED
        BY <2>0, <3>1, <4>1, <4>2
    <3> QED
      BY <2>1, <2>2, <3>4, <3>5 DEF PrepareBefore, IsPrepare
  <2> HIDE DEF Asked, L
  <2> QED
    BY <2>3, <2>4, <2>5, ChannelSteps
<1> QED
  BY <1>1, <1>2, <1>3 DEF AsksFirst

\* What is accepted, and by whom.
LEMMA AcceptSteps ==
  ASSUME TypeInv, [Next]_vars, NEW n \in Node
  PROVE  \/ ~ context'[n].valueAccepted
         \/ /\ context'[n].valueAccepted = context[n].valueAccepted
            /\ context'[n].acceptedId = context[n].acceptedId
         \/ \E src \in Node :
              /\ Pending(n, src) /\ handling[n] = src
              /\ Head(net[src][n]).code = "PROPOSE"
              /\ context'[n].acceptedId = maxRoundId[n]
<1>0. context \in [Node -> Context] /\ Proposers \subseteq Node
  BY ConsensusAssumption DEF TypeInv, TypeOK
<1> DEFINE Same == /\ context'[n].valueAccepted = context[n].valueAccepted
                   /\ context'[n].acceptedId = context[n].acceptedId
<1>1. ASSUME NEW p \in Proposers, NEW v \in Value, StartConsensus(p, v)
      PROVE  Same
  <2>1. PICK id : context' = [context EXCEPT ![p].roundId = id]
    BY <1>1 DEF StartConsensus
  <2> QED
    BY <1>0, <2>1 DEF Context
<1>2. ASSUME NEW p \in Node, ClientThreadStep(p)
      PROVE  ~ context'[n].valueAccepted \/ Same
  BY <1>0, <1>2 DEF ClientThreadStep, ReceivePromises, BroadcastPropose,
     ReceiveAccepts, AppendValue, BroadcastAccepted, FinishConsensus,
     EmptyContext
<1>3. ASSUME NEW p \in Node, NEW src \in Node,
             \/ ReceiveDropped(p, src) \/ Receive(p, src)
             \/ HandlePrepare(p, src) \/ HandleAccepted(p, src)
      PROVE  ~ context'[n].valueAccepted \/ Same
  BY <1>0, <1>3 DEF ReceiveDropped, Receive, HandlePrepare, HandleAccepted,
     EmptyContext
<1>4. ASSUME NEW p \in Node, NEW src \in Node, HandleAccept(p, src)
      PROVE  Same
  <2>1. PICK k : context' = [context EXCEPT ![p].acceptCount = k]
    BY <1>4 DEF HandleAccept
  <2> QED
    BY <1>0, <2>1 DEF Context
<1>5. ASSUME NEW p \in Node, NEW src \in Node, HandlePromise(p, src)
      PROVE  Same
  <2>1. \/ context' = context
        \/ \E a, v, k : context' = [context EXCEPT ![p].maxAcceptedId = a,
                                                   ![p].acceptedValue = v,
                                                   ![p].promiseCount = k]
    BY <1>5 DEF HandlePromise
  <2>2. ASSUME NEW a, NEW v, NEW k,
               context' = [context EXCEPT ![p].maxAcceptedId = a,
                                          ![p].acceptedValue = v,
                                          ![p].promiseCount = k]
        PROVE  Same
    BY <1>0, <2>2 DEF Context
  <2> QED
    BY <2>1, <2>2
<1>6. ASSUME NEW p \in Node, NEW src \in Node, HandlePropose(p, src)
      PROVE  \/ Same
             \/ /\ p = n /\ Pending(n, src) /\ handling[n] = src
                /\ Head(net[src][n]).code = "PROPOSE"
                /\ context'[n].acceptedId = maxRoundId[n]
  <2>1. /\ Pending(p, src) /\ handling[p] = src
        /\ Head(net[src][p]).code = "PROPOSE"
        /\ \/ context' = context
           \/ \E v : context' = [context EXCEPT ![p].valueAccepted = TRUE,
                                                ![p].acceptedId = maxRoundId[p],
                                                ![p].acceptedValue = v]
    BY <1>6 DEF HandlePropose, Handling
  <2>2. ASSUME NEW v,
               context' = [context EXCEPT ![p].valueAccepted = TRUE,
                                          ![p].acceptedId = maxRoundId[p],
                                          ![p].acceptedValue = v]
        PROVE  Same \/ (p = n /\ context'[n].acceptedId = maxRoundId[n])
    BY <1>0, <2>2 DEF Context
  <2> QED
    BY <2>1, <2>2
<1>7. ASSUME \/ \E p \in Node, i \in Index, s \in NodeStatus :
                  SetNodeStatus(p, i, s)
             \/ UNCHANGED vars
      PROVE  Same
  BY <1>7 DEF SetNodeStatus, vars
<1> HIDE DEF Same
<1> QED
  BY <1>1, <1>2, <1>3, <1>4, <1>5, <1>6, <1>7
     DEF Next, ConsensusThreadStep, HandleMessage, Same

(****************************************************************************)
(* As long as nobody is readmitted, no acceptor accepts a PROPOSE that has  *)
(* lost its round (id -1): it would first have to get one without a PREPARE *)
(* before it.  For every cluster, set of proposers and order of suspicions. *)
(****************************************************************************)
THEOREM LostRoundsAreRefused ==
  ASSUME NodeStatus \subseteq {FALSE}
  PROVE  Spec => []NoRoundIsRefused
<1>1. Init => AskInv /\ NoRoundIsRefused
  <2> SUFFICES ASSUME Init PROVE AskInv /\ NoRoundIsRefused
    OBVIOUS
  <2>1. \A p, n \in Node : net[p][n] = << >> /\ phase[p] = "idle"
    BY DEF Init, EmptyChannels
  <2>2. AskInv
    BY <2>1 DEF AskInv, AsksFirst
  <2>3. NoRoundIsRefused
    BY DEF Init, NoRoundIsRefused, EmptyContext
  <2> QED
    BY <2>2, <2>3
<1>2. TypeInv /\ TypeInv' /\ CountInv /\ AskInv /\ [Next]_vars => AskInv'
  BY AsksFirstStep DEF CountInv, AskInv
<1>3. TypeInv /\ CountInv /\ AskInv /\ NoRoundIsRefused /\ [Next]_vars
        => NoRoundIsRefused'
  <2> SUFFICES ASSUME TypeInv, CountInv, AskInv, NoRoundIsRefused, [Next]_vars,
                      NEW n \in Node, context'[n].valueAccepted
               PROVE  context'[n].acceptedId # -1
    BY DEF NoRoundIsRefused
  <2>1. ASSUME NEW src \in Node, Pending(n, src), handling[n] = src,
               Head(net[src][n]).code = "PROPOSE",
               context'[n].acceptedId = maxRoundId[n]
        PROVE  context'[n].acceptedId # -1
    <3>1. src \in Node \ {n} /\ ~ Deaf(n, src) /\ AsksFirst(src, n)
      BY <2>1 DEF CountInv, NoneToSelf, Pending, Deaf, AskInv
    <3>2. /\ 1 \in DOMAIN net[src][n] /\ Head(net[src][n]) = net[src][n][1]
          /\ DOMAIN net[src][n] \subseteq Nat \ {0}
      <4>1. net[src][n] \in Seq(Message) /\ net[src][n] # << >>
        BY <2>1 DEF TypeInv, TypeOK, Pending
      <4> QED
        BY <4>1
    <3>3. ~ PrepareBefore(src, n, 1)
      BY <3>2 DEF PrepareBefore
    <3> QED
      BY <2>1, <3>1, <3>2, <3>3 DEF AsksFirst
  <2> QED
    BY <2>1, AcceptSteps DEF NoRoundIsRefused
<1> QED
  BY <1>1, <1>2, <1>3, CountInvariance, PTL DEF Spec
================================================================================
