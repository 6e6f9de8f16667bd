---------------------------- MODULE RecoveryProofs -----------------------------
(****************************************************************************)
(* Recovery, for clusters of any size, any number of crashes and clients:   *)
(* types; no follower ever suspects the leader; a node the leader readmits  *)
(* misses no line; after a first crash it has exactly the leader's file.    *)
(****************************************************************************)
EXTENDS Recovery, TLAPS, FiniteSetTheorems, WellFoundedInduction,
        SequenceTheorems

Channels == [Node -> [Node -> Seq(Message)]]

--------------------------------------------------------------------------------
(* A new second has a name.                                                 *)

\* The least of some naturals is one of them.
LEMMA LeastOfNaturals ==
  ASSUME NEW S \in SUBSET Nat, S # {}
  PROVE  Min(S) \in S
<1>1. \A x, y \in Nat : <<y, x>> \in OpToRel(<, Nat) <=> y < x
  BY DEF OpToRel
<1>2. PICK x \in S : \A y \in S : ~ (<<y, x>> \in OpToRel(<, Nat))
  BY NatLessThanWellFounded, WFMin
<1>3. ASSUME NEW y \in S PROVE x <= y
  <2>1. x \in Nat /\ y \in Nat /\ ~ (y < x)
    BY <1>1, <1>2
  <2> QED
    BY <2>1
<1> QED
  BY <1>3 DEF Min

\* What a function makes of a finite set is finite.
LEMMA FiniteImage ==
  ASSUME NEW f, IsFiniteSet(DOMAIN f)
  PROVE  IsFiniteSet({f[x] : x \in DOMAIN f})
<1> DEFINE T == {f[x] : x \in DOMAIN f}
           g == [x \in DOMAIN f |-> f[x]]
<1>1. g \in Surjection(DOMAIN f, T)
  BY DEF Surjection
<1> HIDE DEF g, T
<1>2. IsFiniteSet(T)
  BY <1>1, FS_Surjection
<1> QED
  BY <1>2 DEF T

LEMMA FiniteDomain ==
  ASSUME NEW S, NEW s \in Seq(S)
  PROVE  IsFiniteSet(DOMAIN s)
<1>1. Len(s) \in Nat /\ DOMAIN s = 1 .. Len(s)
  OBVIOUS
<1> QED
  BY <1>1, FS_Interval

LEMMA FollowersFinite == IsFiniteSet(Node) /\ IsFiniteSet(Follower)
<1>1. IsFiniteSet(Node)
  BY ClusterSizeAssumption, FS_Interval DEF Node
<1> QED
  BY <1>1, FS_Subset DEF Follower

\* A union over the followers of finite sets.
LEMMA FiniteUnion ==
  ASSUME NEW g, DOMAIN g = Follower, \A f \in Follower : IsFiniteSet(g[f])
  PROVE  IsFiniteSet(UNION {g[f] : f \in Follower})
<1> DEFINE T == {g[f] : f \in Follower}
<1>1. IsFiniteSet(T)
  BY FollowersFinite, FiniteImage
<1>2. \A X \in T : IsFiniteSet(X)
  OBVIOUS
<1> HIDE DEF T
<1>3. IsFiniteSet(UNION T)
  BY <1>1, <1>2, FS_UNION
<1> QED
  BY <1>3 DEF T

\* The ids in use are those of a finite number of threads and messages.
LEMMA UsedIdsFinite == TypeOK => IsFiniteSet(UsedIds)
<1> SUFFICES ASSUME TypeOK PROVE IsFiniteSet(UsedIds)
  OBVIOUS
<1>1. /\ waiters \in Seq([node : Follower, id : Nat])
      /\ \A s, d \in Node : net[s][d] \in Seq(Message)
      /\ Leader \in Node /\ Follower \subseteq Node
  BY RecoveryAssumption DEF TypeOK, Follower
<1> DEFINE A == {curRecoveryId, holder.id}
           B == {waiters[j].id : j \in DOMAIN waiters}
           States(f) == {k \in DOMAIN net[Leader][f] :
                            net[Leader][f][k].code = "STATE"}
           Sent(f) == {net[Leader][f][j].id : j \in States(f)}
           Back(f) == {net[f][Leader][j].id : j \in DOMAIN net[f][Leader]}
           C == UNION {Sent(f) : f \in Follower}
           D == UNION {Back(f) : f \in Follower}
<1>2. IsFiniteSet(A)
  <2>1. A = {curRecoveryId} \cup {holder.id}
    OBVIOUS
  <2>2. IsFiniteSet({curRecoveryId}) /\ IsFiniteSet({holder.id})
    BY FS_Singleton
  <2> HIDE DEF A
  <2>3. IsFiniteSet({curRecoveryId} \cup {holder.id})
    BY <2>2, FS_Union
  <2> QED
    BY <2>1, <2>3
<1>3. IsFiniteSet(B)
  <2> DEFINE w == [j \in DOMAIN waiters |-> waiters[j].id]
  <2>1. IsFiniteSet(DOMAIN w)
    BY <1>1, FiniteDomain
  <2>2. B = {w[j] : j \in DOMAIN w}
    OBVIOUS
  <2> HIDE DEF w, B
  <2> QED
    BY <2>1, <2>2, FiniteImage
<1>4. ASSUME NEW f \in Follower PROVE IsFiniteSet(Sent(f))
  <2> DEFINE w == [j \in States(f) |-> net[Leader][f][j].id]
  <2>1. IsFiniteSet(DOMAIN w)
    <3>1. IsFiniteSet(DOMAIN net[Leader][f])
      BY <1>1, FiniteDomain
    <3> QED
      BY <3>1, FS_Subset
  <2>2. Sent(f) = {w[j] : j \in DOMAIN w}
    OBVIOUS
  <2> HIDE DEF w, Sent
  <2> QED
    BY <2>1, <2>2, FiniteImage
<1>5. ASSUME NEW f \in Follower PROVE IsFiniteSet(Back(f))
  <2> DEFINE w == [j \in DOMAIN net[f][Leader] |-> net[f][Leader][j].id]
  <2>1. IsFiniteSet(DOMAIN w)
    BY <1>1, FiniteDomain
  <2>2. Back(f) = {w[j] : j \in DOMAIN w}
    OBVIOUS
  <2> HIDE DEF w, Back
  <2> QED
    BY <2>1, <2>2, FiniteImage
<1>6. IsFiniteSet(C)
  <2> DEFINE g == [f \in Follower |-> Sent(f)]
  <2> HIDE DEF Sent
  <2>1. \A f \in Follower : IsFiniteSet(g[f])
    BY <1>4
  <2>2. C = UNION {g[f] : f \in Follower} /\ DOMAIN g = Follower
    OBVIOUS
  <2> HIDE DEF g, C
  <2> QED
    BY <2>1, <2>2, FiniteUnion
<1>7. IsFiniteSet(D)
  <2> DEFINE g == [f \in Follower |-> Back(f)]
  <2> HIDE DEF Back
  <2>1. \A f \in Follower : IsFiniteSet(g[f])
    BY <1>5
  <2>2. D = UNION {g[f] : f \in Follower} /\ DOMAIN g = Follower
    OBVIOUS
  <2> HIDE DEF g, D
  <2> QED
    BY <2>1, <2>2, FiniteUnion
<1>8. UsedIds \subseteq ((A \cup B) \cup C) \cup D
  <2> SUFFICES ASSUME NEW x \in UsedIds PROVE x \in A \cup B \cup C \cup D
    OBVIOUS
  <2>1. CASE x \in {curRecoveryId, holder.id}
    BY <2>1
  <2>2. CASE x \in {waiters[j].id : j \in DOMAIN waiters}
    BY <2>2
  <2>3. CASE x \in UNION {{net[Leader][f][j].id :
                           j \in {k \in DOMAIN net[Leader][f] :
                                    net[Leader][f][k].code = "STATE"}}
                         : f \in Follower}
    BY <2>3
  <2>4. CASE x \in UNION {{net[f][Leader][j].id : j \in DOMAIN net[f][Leader]}
                         : f \in Follower}
    BY <2>4
  <2> HIDE DEF A, B, C, D
  <2> QED
    BY <2>1, <2>2, <2>3, <2>4, Zenon DEF UsedIds
<1> HIDE DEF A, B, C, D
<1> QED
  BY <1>2, <1>3, <1>6, <1>7, <1>8, FS_Union, FS_Subset

\* The second after this one has a name nobody holds: so two recoveries have
\* the same id only if they begin in the same second.
LEMMA NextSecondIsNew == TypeOK => NextSecond \in Nat \ UsedIds
<1> SUFFICES ASSUME TypeOK PROVE NextSecond \in Nat \ UsedIds
  OBVIOUS
<1> DEFINE k == Cardinality(UsedIds)
           S == (0 .. k) \ UsedIds
<1>1. IsFiniteSet(UsedIds) /\ k \in Nat
  BY UsedIdsFinite, FS_CardinalityType
<1>2. S # {}
  <2> SUFFICES ASSUME 0 .. k \subseteq UsedIds PROVE FALSE
    OBVIOUS
  <2>1. Cardinality(0 .. k) = k + 1
    BY <1>1, FS_Interval
  <2>2. Cardinality(0 .. k) <= k
    BY <1>1, FS_Subset
  <2> QED
    BY <1>1, <2>1, <2>2
<1>3. S \in SUBSET Nat
  BY <1>1
<1>4. NextSecond = Min(S)
  BY DEF NextSecond
<1> HIDE DEF S
<1>5. Min(S) \in S
  BY <1>2, <1>3, LeastOfNaturals
<1> QED
  BY <1>1, <1>4, <1>5 DEF S

--------------------------------------------------------------------------------
(* Types.                                                                   *)

LEMMA SendType ==
  ASSUME NEW chan \in Channels, NEW alive, NEW tag,
         NEW s \in Node, NEW d \in Node, s # d, NEW m \in Message,
         \A n \in Node : chan[n][n] = << >>
  PROVE  /\ send(chan, alive, s, d, tag, m) \in Channels
         /\ \A n \in Node : send(chan, alive, s, d, tag, m)[n][n] = << >>
<1>1. Append(chan[s][d], m) \in Seq(Message)
  BY DEF Channels
<1> QED
  BY <1>1 DEF send, Channels

LEMMA BroadcastType ==
  ASSUME NEW chan \in Channels, NEW alive, NEW tag, NEW lo, NEW hi,
         NEW s \in Node, NEW m \in Message,
         \A n \in Node : chan[n][n] = << >>
  PROVE  /\ broadcast(chan, alive, s, lo, hi, tag, m) \in Channels
         /\ \A n \in Node :
              broadcast(chan, alive, s, lo, hi, tag, m)[n][n] = << >>
<1>1. \A d \in Node : Append(chan[s][d], m) \in Seq(Message)
  BY DEF Channels
<1> QED
  BY <1>1 DEF broadcast, Channels

LEMMA ConsumeType ==
  ASSUME NEW chan \in Channels, NEW s \in Node, NEW d \in Node,
         chan[s][d] # << >>, \A n \in Node : chan[n][n] = << >>
  PROVE  /\ s # d /\ Head(chan[s][d]) \in Message
         /\ consume(chan, s, d) \in Channels
         /\ \A n \in Node : consume(chan, s, d)[n][n] = << >>
<1>1. chan[s][d] \in Seq(Message)
  BY DEF Channels
<1>2. Tail(chan[s][d]) \in Seq(Message) /\ Head(chan[s][d]) \in Message
  BY <1>1
<1> QED
  BY <1>2 DEF consume, Channels

\* What a message of each code carries.
LEMMA MessageFields ==
  ASSUME NEW m \in Message
  PROVE  /\ m.code = "STATE" => m.id \in Nat /\ m.state \in Seq(Line)
         /\ m.code = "STATE_UPDATED" => m.id \in Nat
         /\ m.code = "RECOVERED" => m.node \in Node
BY DEF Message

LEMMA NewMessages ==
  /\ \A i \in Nat, l \in Seq(Line) :
       [code |-> "STATE", id |-> i, state |-> l] \in Message
  /\ \A i \in Nat : [code |-> "STATE_UPDATED", id |-> i] \in Message
  /\ \A n \in Node : [code |-> "RECOVERED", node |-> n] \in Message
BY DEF Message

\* The entries of a node's tables are those of the other nodes.
LEMMA Indices ==
  ASSUME NEW n \in Node
  PROVE  /\ \A i \in Index : /\ indexToId(n, i) \in Node \ {n}
                             /\ idToIndex(n, indexToId(n, i)) = i
         /\ \A m \in Node \ {n} : /\ idToIndex(n, m) \in Index
                                  /\ indexToId(n, idToIndex(n, m)) = m
BY ClusterSizeAssumption DEF Node, Index, indexToId, idToIndex

(****************************************************************************)
(* The types, and what keeps them: nobody sends to itself, a failure is one *)
(* of another node, and who is connected has been counted.                  *)
(****************************************************************************)
TypeInv ==
  /\ TypeOK
  /\ \A n \in Node : net[n][n] = << >>
  /\ \A p \in failing : p[1] # p[2]
  /\ client # "none" => clients \in Line

\* The constants as the provers need them.
LEMMA Constants ==
  /\ clusterSize \in Nat \ {0} /\ Waiting = clusterSize
  /\ Blocked = clusterSize + 1
  /\ Leader \in Node /\ Follower \subseteq Node /\ Leader \notin Follower
  /\ Leader # -1 /\ -1 \notin Node
  /\ Crashable \subseteq Follower
  /\ TIMEOUT_DURATION \in Nat /\ TIMEOUT_DURATION >= 1
  /\ RECOVERY_DURATION * LoopsPerSecond \in Nat
  /\ LoopsPerSecond \in Nat /\ LoopsPerSecond >= 1
  /\ MaxAge \in Nat
  /\ MaxCrashes \in Nat /\ MaxClients \in Nat
<1>1. \A a, b \in Nat : a * b \in Nat
  OBVIOUS
<1> QED
  BY <1>1, ClusterSizeAssumption, RecoveryAssumption
     DEF Follower, Node, Waiting, Blocked, MaxAge

\* The ping threads.
LEMMA PingType ==
  ASSUME TypeInv, NEW n \in Node, checkTimeStamps(n) \/ broadcastPing(n)
  PROVE  TypeInv'
<1>1. CASE checkTimeStamps(n)
  <2> DEFINE m == indexToId(n, pos[n])
  <2>1. pos[n] \in Index /\ m \in Node \ {n} /\ pos \in [Node -> 0 .. Blocked]
    BY <1>1, Indices DEF checkTimeStamps, TypeInv, TypeOK
  <2>2. /\ pos' = [pos EXCEPT ![n] = @ + 1]
        /\ failing' \in {failing, failing \cup {<<n, m>>}}
        /\ \/ starting' = starting
           \/ n = Leader /\ starting' = starting \cup {m}
        /\ UNCHANGED <<crashed, crashes, replAsleep, age, pinged, isAlive,
                       processIsAlive, net, time, curRecoveryId, waiters,
                       holder, updating, clientThread, files>>
    BY <1>1 DEF checkTimeStamps
  <2>3. pos' \in [Node -> 0 .. Blocked]
    <3>1. pos[n] + 1 \in 0 .. Blocked
      BY <2>1, Constants DEF Index
    <3> QED
      BY <2>1, <2>2, <3>1
  <2>4. failing' \subseteq Node \X Node /\ \A p \in failing' : p[1] # p[2]
    <3>1. <<n, m>> \in Node \X Node /\ <<n, m>>[1] # <<n, m>>[2]
      BY <2>1
    <3>2. failing \subseteq Node \X Node /\ \A p \in failing : p[1] # p[2]
      BY DEF TypeInv, TypeOK
    <3>3. failing' \subseteq failing \cup {<<n, m>>}
      BY <2>2
    <3> QED
      BY <3>1, <3>2, <3>3, Zenon
  <2>5. starting' \subseteq Follower
    BY <2>1, <2>2 DEF TypeInv, TypeOK, Follower
  <2> HIDE DEF m
  <2> QED
    BY <2>2, <2>3, <2>4, <2>5 DEF TypeInv, TypeOK, time, clientThread, files
<1>2. CASE broadcastPing(n)
  <2>1. /\ age' = [m \in Node |->
                     IF m # n /\ ~ crashed[m] THEN [age[m] EXCEPT ![n] = 0]
                     ELSE age[m]]
        /\ pinged' = [m \in Node |->
                        IF m # n /\ crashed[m] THEN pinged[m] \cup {n}
                        ELSE pinged[m]]
        /\ pos' = [pos EXCEPT ![n] = IF crashed[n] THEN Blocked ELSE Waiting]
        /\ UNCHANGED <<crashed, crashes, replAsleep, tables, net, time,
                       recovery, clientThread, files>>
    BY <1>2 DEF broadcastPing
  <2>2. age' \in [Node -> [Node -> 0 .. MaxAge]]
    <3>1. 0 \in 0 .. MaxAge
      BY Constants
    <3> QED
      BY <2>1, <3>1 DEF TypeInv, TypeOK
  <2>3. pinged' \in [Node -> SUBSET Node]
    BY <2>1 DEF TypeInv, TypeOK
  <2>4. pos' \in [Node -> 0 .. Blocked]
    <3>1. {Blocked, Waiting} \subseteq 0 .. Blocked
      BY Constants
    <3> QED
      BY <2>1, <3>1 DEF TypeInv, TypeOK
  <2> QED
    BY <2>1, <2>2, <2>3, <2>4
       DEF TypeInv, TypeOK, tables, time, recovery, clientThread, files
<1> QED
  BY <1>1, <1>2

\* The threads pingCheck spawns.
LEMMA SpawnedType ==
  ASSUME TypeInv,
         \/ \E n, m \in Node : handleNodeFailure(n, m)
         \/ \E f \in Follower : SetRecoveryId(f)
         \/ \E j \in DOMAIN waiters : SendState(j)
         \/ EndRecovery
  PROVE  TypeInv'
<1> DEFINE Waiter == [node : Follower, id : Nat]
<1>0. /\ net \in Channels /\ waiters \in Seq(Waiter) /\ now \in Nat
      /\ \A n \in Node : net[n][n] = << >>
      /\ log[Leader] \in Seq(Line)
  BY Constants DEF TypeInv, TypeOK, Channels
<1>1. ASSUME NEW n \in Node, NEW m \in Node, handleNodeFailure(n, m)
      PROVE  TypeInv'
  BY <1>1 DEF handleNodeFailure, setNodeStatus, TypeInv, TypeOK, heartbeat,
     time, recovery, clientThread, files
<1>2. ASSUME NEW f \in Follower, SetRecoveryId(f)
      PROVE  TypeInv'
  <2>1. Append(waiters, [node |-> f, id |-> now]) \in Seq(Waiter)
    BY <1>0
  <2> QED
    BY <1>0, <1>2, <2>1 DEF SetRecoveryId, TypeInv, TypeOK, heartbeat, tables,
       time, clientThread, files
<1>3. ASSUME NEW j \in DOMAIN waiters, SendState(j)
      PROVE  TypeInv'
  <2> DEFINE w == waiters[j]
             m == [code |-> "STATE", id |-> w.id, state |-> log[Leader]]
             K == RECOVERY_DURATION * LoopsPerSecond
  <2>1. /\ w \in Waiter /\ w.node \in Follower /\ w.id \in Nat
        /\ w.node \in Node /\ Leader # w.node
    <3>1. w \in Waiter
      <4> HIDE DEF Waiter
      <4> QED
        BY <1>0
    <3> QED
      BY <3>1, Constants
  <2>2. m \in Message
    BY <1>0, <2>1, NewMessages
  <2>3. /\ holder' = [node |-> w.node, id |-> w.id, left |-> K]
        /\ net' = send(net, processIsAlive, Leader, w.node, "FAILURE_DETECTION",
                       m)
        /\ waiters' = RemoveAt(waiters, j)
        /\ UNCHANGED <<heartbeat, tables, time, curRecoveryId, starting,
                       updating, clientThread, files>>
    BY <1>3 DEF SendState
  <2> HIDE DEF m
  <2>4. net' \in Channels /\ \A n \in Node : net'[n][n] = << >>
    <3> HIDE DEF w, K, Waiter
    <3>1. /\ Leader \in Node /\ w.node \in Node /\ Leader # w.node
          /\ net \in Channels /\ \A n \in Node : net[n][n] = << >>
      BY <1>0, <2>1, Constants
    <3>2. net' = send(net, processIsAlive, Leader, w.node, "FAILURE_DETECTION",
                      m)
      BY <2>3
    <3> QED
      BY <2>2, <3>1, <3>2, SendType
  <2>5. waiters' \in Seq(Waiter)
    <3> HIDE DEF Waiter
    <3>1. Len(waiters) \in Nat /\ j \in 1 .. Len(waiters)
      BY <1>0
    <3>2. /\ SubSeq(waiters, 1, j - 1) \in Seq(Waiter)
          /\ SubSeq(waiters, j + 1, Len(waiters)) \in Seq(Waiter)
      BY <1>0, <3>1
    <3>3. RemoveAt(waiters, j) = SubSeq(waiters, 1, j - 1)
                                 \o SubSeq(waiters, j + 1, Len(waiters))
      BY DEF RemoveAt
    <3> QED
      BY <2>3, <3>2, <3>3
  <2>6. holder' \in [node : Follower, id : Nat, left : 0 .. K]
    <3>1. K \in 0 .. K
      BY Constants
    <3> HIDE DEF K, w, Waiter
    <3> QED
      BY <2>1, <2>3, <3>1
  <2> HIDE DEF K, w
  <2> QED
    BY <2>3, <2>4, <2>5, <2>6 DEF TypeInv, TypeOK, Channels, heartbeat, tables,
       time, clientThread, files, K
<1>4. CASE EndRecovery
  BY <1>4 DEF EndRecovery, TypeInv, TypeOK, heartbeat, tables, time,
     clientThread, files
<1> QED
  BY <1>1, <1>2, <1>3, <1>4

\* The failure threads.
LEMMA FailureType ==
  ASSUME TypeInv,
         \/ \E n, src \in Node : \/ handleState(n, src)
                                 \/ handleStateUpdate(n, src)
                                 \/ handleRecovered(n, src)
         \/ Readmit
  PROVE  TypeInv'
<1>0. /\ net \in Channels /\ \A n \in Node : net[n][n] = << >>
      /\ log \in [Node -> Seq(Line)] /\ age \in [Node -> [Node -> 0 .. MaxAge]]
      /\ isAlive \in [Node -> [Index -> BOOLEAN]]
      /\ processIsAlive \in [Node -> [Index -> BOOLEAN]]
      /\ updating \in Follower \cup {-1}
  BY DEF TypeInv, TypeOK, Channels
<1>1. ASSUME NEW n \in Node, NEW src \in Node, net[src][n] # << >>
      PROVE  /\ src # n /\ Head(net[src][n]) \in Message
             /\ consume(net, src, n) \in Channels
             /\ \A d \in Node : consume(net, src, n)[d][d] = << >>
  BY <1>0, <1>1, ConsumeType
<1>2. ASSUME NEW n \in Node, NEW src \in Node, handleState(n, src)
      PROVE  TypeInv'
  <2> DEFINE m == Head(net[src][n])
             r == [code |-> "STATE_UPDATED", id |-> m.id]
             rest == consume(net, src, n)
  <2>1. /\ net[src][n] # << >> /\ m.code = "STATE"
        /\ log' = [log EXCEPT ![n] = m.state]
        /\ net' = send(rest, processIsAlive, n, src, "FAILURE_DETECTION", r)
        /\ UNCHANGED <<heartbeat, tables, time, recovery, clientThread, lines>>
    BY <1>2 DEF handleState, Handling
  <2>2. /\ src # n /\ m \in Message /\ rest \in Channels
        /\ \A d \in Node : rest[d][d] = << >>
    BY <1>1, <2>1
  <2> HIDE DEF m, rest
  <2>3. r \in Message /\ m.state \in Seq(Line)
    BY <2>1, <2>2, MessageFields, NewMessages
  <2> HIDE DEF r
  <2>4. net' \in Channels /\ \A d \in Node : net'[d][d] = << >>
    BY <2>1, <2>2, <2>3, SendType
  <2>5. log' \in [Node -> Seq(Line)]
    BY <1>0, <2>1, <2>3
  <2> QED
    BY <2>1, <2>4, <2>5 DEF TypeInv, TypeOK, Channels, heartbeat, tables, time,
       recovery, clientThread
<1>3. ASSUME NEW n \in Node, NEW src \in Node, handleStateUpdate(n, src)
      PROVE  TypeInv'
  <2>1. /\ net[src][n] # << >> /\ updating' \in {src, -1}
        /\ n # Leader => updating' = -1
        /\ net' = consume(net, src, n)
        /\ UNCHANGED <<heartbeat, tables, time, curRecoveryId, starting,
                       waiters, holder, clientThread, files>>
    BY <1>3 DEF handleStateUpdate, Handling
  <2>2. /\ src # n /\ net' \in Channels
        /\ \A d \in Node : net'[d][d] = << >>
    BY <1>1, <2>1
  <2>3. updating' \in Follower \cup {-1}
    BY <2>1, <2>2 DEF Follower
  <2> QED
    BY <2>1, <2>2, <2>3 DEF TypeInv, TypeOK, Channels, heartbeat, tables, time,
       clientThread, files
<1>4. ASSUME NEW n \in Node, NEW src \in Node, handleRecovered(n, src)
      PROVE  TypeInv'
  <2> DEFINE m == Head(net[src][n]).node
  <2>1. /\ net[src][n] # << >>
        /\ net' = consume(net, src, n)
        /\ UNCHANGED <<crashed, crashes, replAsleep, pinged, pos, failing,
                       time, recovery, clientThread, files>>
        /\ \/ /\ age' = [age EXCEPT ![n] = [k \in Node |-> 0]]
              /\ UNCHANGED <<isAlive, processIsAlive>>
           \/ enableComm(n, m) /\ age' = age
    BY <1>4 DEF handleRecovered, Handling
  <2>2. net' \in Channels /\ \A d \in Node : net'[d][d] = << >>
    BY <1>1, <2>1
  <2>3. /\ age' \in [Node -> [Node -> 0 .. MaxAge]]
        /\ isAlive' \in [Node -> [Index -> BOOLEAN]]
        /\ processIsAlive' \in [Node -> [Index -> BOOLEAN]]
    <3> HIDE DEF m
    <3>1. 0 \in 0 .. MaxAge
      BY Constants
    <3>2. CASE age' = [age EXCEPT ![n] = [k \in Node |-> 0]]
               /\ UNCHANGED <<isAlive, processIsAlive>>
      BY <1>0, <3>1, <3>2
    <3>3. CASE enableComm(n, m) /\ age' = age
      <4>1. /\ isAlive' = [isAlive EXCEPT ![n][idToIndex(n, m)] = TRUE]
            /\ processIsAlive' =
                 [processIsAlive EXCEPT ![n][idToIndex(n, m)] = TRUE]
        BY <3>3 DEF enableComm, setNodeStatus
      <4> QED
        BY <1>0, <3>3, <4>1
    <3> QED
      BY <2>1, <3>2, <3>3
  <2> HIDE DEF m
  <2> QED
    BY <2>1, <2>2, <2>3 DEF TypeInv, TypeOK, Channels, time, recovery,
       clientThread, files
<1>5. CASE Readmit
  <2> DEFINE r == [code |-> "RECOVERED", node |-> updating]
  <2>1. /\ updating # -1 /\ updating' = -1
        /\ net' = broadcast(net, processIsAlive, Leader, 0, clusterSize,
                            "FAILURE_DETECTION", r)
        /\ enableComm(Leader, updating)
        /\ UNCHANGED <<heartbeat, failing, time, curRecoveryId, starting,
                       waiters, holder, clientThread, files>>
    BY <1>5 DEF Readmit
  <2>2. r \in Message
    BY <1>0, <2>1, NewMessages, Constants
  <2> HIDE DEF r
  <2>3. net' \in Channels /\ \A d \in Node : net'[d][d] = << >>
    BY <1>0, <2>1, <2>2, BroadcastType, Constants, SMTT(30)
  <2>4. /\ isAlive' \in [Node -> [Index -> BOOLEAN]]
        /\ processIsAlive' \in [Node -> [Index -> BOOLEAN]]
    BY <1>0, <2>1 DEF enableComm, setNodeStatus
  <2> QED
    BY <2>1, <2>3, <2>4 DEF TypeInv, TypeOK, Channels, heartbeat, time,
       clientThread, files
<1> QED
  BY <1>2, <1>3, <1>4, <1>5

\* The client thread of the leader and the followers' consensus threads.
LEMMA ClientType ==
  ASSUME TypeInv,
         \/ AcceptConnection \/ WriteLine \/ Disconnect
         \/ \E f \in Follower : ReceiveAccepted(f)
  PROVE  TypeInv'
<1>0. /\ log \in [Node -> Seq(Line)] /\ lines \in [Node -> Seq(Line)]
      /\ clients \in 0 .. MaxClients
      /\ client # "none" => clients \in Line
  BY DEF TypeInv, TypeOK
<1>1. CASE AcceptConnection
  <2>1. clients + 1 \in 0 .. MaxClients /\ clients + 1 \in Line
    BY <1>0, <1>1, Constants DEF AcceptConnection, Line
  <2> QED
    BY <1>1, <2>1 DEF AcceptConnection, TypeInv, TypeOK, heartbeat, tables,
       time, recovery, files
<1>2. CASE WriteLine
  <2>1. clients \in Line
    BY <1>0, <1>2 DEF WriteLine
  <2>2. /\ \A n \in Node : Append(log[n], clients) \in Seq(Line)
        /\ \A n \in Node : Append(lines[n], clients) \in Seq(Line)
    BY <1>0, <2>1
  <2>3. log' \in [Node -> Seq(Line)] /\ lines' \in [Node -> Seq(Line)]
    BY <1>0, <1>2, <2>2, Constants DEF WriteLine
  <2> QED
    BY <1>2, <2>1, <2>3 DEF WriteLine, TypeInv, TypeOK, heartbeat, tables,
       time, recovery
<1>3. CASE Disconnect
  BY <1>3 DEF Disconnect, TypeInv, TypeOK, heartbeat, tables, time, recovery,
     files
<1>4. ASSUME NEW f \in Follower, ReceiveAccepted(f)
      PROVE  TypeInv'
  <2>1. /\ lines[f] # << >> /\ f \in Node
        /\ log' \in {log, [log EXCEPT ![f] = Append(@, Head(lines[f]))]}
        /\ lines' = [lines EXCEPT ![f] = Tail(@)]
        /\ UNCHANGED <<heartbeat, tables, net, time, recovery, clientThread>>
    BY <1>4, Constants DEF ReceiveAccepted
  <2>2. lines[f] \in Seq(Line)
    BY <1>0, <2>1
  <2>3. Head(lines[f]) \in Line /\ Tail(lines[f]) \in Seq(Line)
    BY <2>1, <2>2
  <2>4. Append(log[f], Head(lines[f])) \in Seq(Line)
    BY <1>0, <2>1, <2>3
  <2>5. log' \in [Node -> Seq(Line)] /\ lines' \in [Node -> Seq(Line)]
    BY <1>0, <2>1, <2>3, <2>4
  <2> QED
    BY <2>1, <2>5 DEF TypeInv, TypeOK, heartbeat, tables, time, recovery,
       clientThread
<1> QED
  BY <1>1, <1>2, <1>3, <1>4

\* Crashes, and time.
LEMMA TimeType ==
  ASSUME TypeInv,
         \/ Tick
         \/ \E f \in Follower : Crash(f) \/ Recover(f) \/ ReplWakes(f)
  PROVE  TypeInv'
<1>0. /\ age \in [Node -> [Node -> 0 .. MaxAge]]
      /\ pos \in [Node -> 0 .. Blocked] /\ pinged \in [Node -> SUBSET Node]
      /\ 0 \in 0 .. MaxAge /\ {0, Waiting} \subseteq 0 .. Blocked
      /\ Follower \subseteq Node
  <2>1. /\ 0 \in 0 .. MaxAge /\ {0, Waiting} \subseteq 0 .. Blocked
        /\ Follower \subseteq Node
    BY Constants
  <2> QED
    BY <2>1 DEF TypeInv, TypeOK
<1>1. CASE Tick
  <2> DEFINE K == RECOVERY_DURATION * LoopsPerSecond
  <2>1. /\ Quiet
        /\ age' = [n \in Node |-> [m \in Node |->
                     IF n # m /\ age[n][m] < MaxAge THEN age[n][m] + 1
                     ELSE age[n][m]]]
        /\ pos' = [n \in Node |-> IF pos[n] = Waiting THEN 0 ELSE pos[n]]
        /\ loop' = (loop + 1) % LoopsPerSecond
        /\ now' \in {NextSecond, now}
        /\ holder' = IF holder = NoHolder THEN holder
                     ELSE [holder EXCEPT !.left = @ - 1]
        /\ client' \in {"none", "connected", "ready", "served", "done"}
        /\ client' # "none" => client # "none"
        /\ replAsleep' = {}
        /\ UNCHANGED <<crashed, crashes, pinged, tables, net, curRecoveryId,
                       starting, waiters, updating, clients, files>>
    <3>1. /\ client' \in {"none", "connected", "ready", "served", "done"}
          /\ client' # "none" => client # "none"
      BY <1>1 DEF Tick, TypeInv, TypeOK
    <3> QED
      BY <1>1, <3>1 DEF Tick
  <2>2. age' \in [Node -> [Node -> 0 .. MaxAge]]
    <3>1. \A n, m \in Node : age[n][m] < MaxAge => age[n][m] + 1 \in 0 .. MaxAge
      BY <1>0, Constants
    <3> QED
      BY <1>0, <2>1, <3>1
  <2>3. pos' \in [Node -> 0 .. Blocked]
    BY <1>0, <2>1
  <2>4. loop' \in 0 .. LoopsPerSecond - 1
    <3>1. loop \in Nat
      BY Constants DEF TypeInv, TypeOK
    <3>2. \A a, b \in Nat : b >= 1 => (a + 1) % b \in 0 .. b - 1
      OBVIOUS
    <3> QED
      BY <2>1, <3>1, <3>2, Constants
  <2>5. now' \in Nat
    BY <2>1, NextSecondIsNew DEF TypeInv, TypeOK
  <2>6. holder' \in [node : Follower, id : Nat, left : 0 .. K] \cup {NoHolder}
    <3>0. holder \in [node : Follower, id : Nat, left : 0 .. K] \cup {NoHolder}
      BY DEF TypeInv, TypeOK
    <3>1. holder.left # 0
      BY <2>1 DEF Quiet
    <3>2. K \in Nat
      BY Constants
    <3> HIDE DEF K
    <3>3. CASE holder = NoHolder
      BY <2>1, <3>3
    <3>4. CASE holder # NoHolder
      <4>1. holder \in [node : Follower, id : Nat, left : 0 .. K]
        BY <3>0, <3>4
      <4>2. holder.left \in 0 .. K
        BY <4>1
      <4>3. holder.left - 1 \in 0 .. K
        BY <3>1, <3>2, <4>2
      <4> QED
        BY <2>1, <3>4, <4>1, <4>3
    <3> QED
      BY <3>3, <3>4
  <2> QED
    BY <2>1, <2>2, <2>3, <2>4, <2>5, <2>6 DEF TypeInv, TypeOK, tables, files
<1>2. ASSUME NEW f \in Follower, Crash(f)
      PROVE  TypeInv'
  <2>1. crashes + 1 \in 0 .. MaxCrashes
    BY <1>2, Constants DEF Crash, TypeInv, TypeOK
  <2> QED
    BY <1>2, <2>1 DEF Crash, TypeInv, TypeOK, tables, time, recovery,
       clientThread, files
<1>3. ASSUME NEW f \in Follower, Recover(f)
      PROVE  TypeInv'
  <2>1. /\ age' = [age EXCEPT ![f] =
                     [m \in Node |-> IF m \in pinged[f] THEN 0 ELSE @[m]]]
        /\ pinged' = [pinged EXCEPT ![f] = {}]
        /\ pos' = [pos EXCEPT ![f] = IF @ = Blocked THEN Waiting ELSE @]
        /\ crashed' = [crashed EXCEPT ![f] = FALSE]
        /\ replAsleep' = replAsleep \cup {f}
        /\ UNCHANGED <<crashes, tables, net, time, recovery, clientThread,
                       files>>
    BY <1>3 DEF Recover
  <2>2. /\ age' \in [Node -> [Node -> 0 .. MaxAge]]
        /\ pos' \in [Node -> 0 .. Blocked] /\ pinged' \in [Node -> SUBSET Node]
    BY <1>0, <2>1
  <2>3. /\ crashed' \in [Node -> BOOLEAN] /\ replAsleep' \subseteq Follower
        /\ crashes' \in 0 .. MaxCrashes
    BY <2>1 DEF TypeInv, TypeOK
  <2>4. UNCHANGED <<tables, net, time, recovery, clientThread, files>>
    BY <2>1
  <2> QED
    BY <2>2, <2>3, <2>4 DEF TypeInv, TypeOK, tables, time, recovery,
       clientThread, files
<1>4. ASSUME NEW f \in Follower, ReplWakes(f)
      PROVE  TypeInv'
  BY <1>4 DEF ReplWakes, TypeInv, TypeOK, tables, time, recovery, clientThread,
     files
<1> QED
  BY <1>1, <1>2, <1>3, <1>4

\* Every step of the FailureManagers keeps the types.
LEMMA TypeStep ==
  ASSUME TypeInv, [Next]_vars
  PROVE  TypeInv'
<1>1. CASE Next
  BY <1>1, PingType, SpawnedType, FailureType, ClientType, TimeType
     DEF Next, Threads, Environment
<1>2. CASE UNCHANGED vars
  BY <1>2 DEF TypeInv, TypeOK, vars, heartbeat, tables, time, recovery,
     clientThread, files
<1> QED
  BY <1>1, <1>2

\* So the types, and what keeps them, hold in every state.
THEOREM TypeInvariance == Spec => []TypeInv
<1>1. Init => TypeInv
  BY Constants DEF Init, TypeInv, TypeOK, EmptyChannels, AllAlive, NoHolder
<1>2. TypeInv /\ [Next]_vars => TypeInv'
  BY TypeStep
<1> QED
  BY <1>1, <1>2, PTL DEF Spec

\* TypeOK, the type invariant of the runs.
THEOREM TypeCorrect == Spec => []TypeOK
<1>1. TypeInv => TypeOK
  BY DEF TypeInv
<1> QED
  BY <1>1, TypeInvariance, PTL

--------------------------------------------------------------------------------
(* The leader is heard.                                                     *)

(****************************************************************************)
(* What f knows of the leader: a PING waits for it only while its threads   *)
(* are blocked; otherwise it has heard of the leader in this loop, or the   *)
(* leader's ping thread still has to send the PING of this loop.  So when   *)
(* its ping thread looks at the time stamp, blocked or not, that is two     *)
(* loops old at most.                                                       *)
(****************************************************************************)
Hears(f) ==
  /\ Leader \in pinged[f] => crashed[f]
  /\ \/ Leader \in pinged[f]
     \/ age[f][Leader] <= IF pos[Leader] = Waiting THEN 0 ELSE 1
  /\ pos[f] = Blocked => crashed[f]
  /\ pos[f] = Waiting => age[f][Leader] <= 1
  /\ pos[f] < clusterSize => age[f][Leader] <= 2

HearInv ==
  /\ ~ crashed[Leader]
  /\ pos[Leader] # Blocked
  /\ \A f \in Follower : Hears(f)

\* What Hears speaks of.
LEMMA HearTypes ==
  ASSUME TypeInv
  PROVE  /\ crashed \in [Node -> BOOLEAN] /\ pinged \in [Node -> SUBSET Node]
         /\ age \in [Node -> [Node -> 0 .. MaxAge]]
         /\ pos \in [Node -> 0 .. Blocked]
         /\ \A f \in Follower : /\ f \in Node /\ f # Leader
                                /\ age[f][Leader] \in Nat /\ pos[f] \in Nat
         /\ Leader \in Node
<1>1. /\ crashed \in [Node -> BOOLEAN] /\ pinged \in [Node -> SUBSET Node]
      /\ age \in [Node -> [Node -> 0 .. MaxAge]]
      /\ pos \in [Node -> 0 .. Blocked]
  BY DEF TypeInv, TypeOK
<1>2. Leader \in Node /\ \A f \in Follower : f \in Node /\ f # Leader
  BY Constants
<1>3. ASSUME NEW f \in Follower
      PROVE  age[f][Leader] \in 0 .. MaxAge /\ pos[f] \in 0 .. Blocked
  BY <1>1, <1>2
<1> QED
  BY <1>1, <1>2, <1>3, Constants

\* The ping threads keep it.
LEMMA PingHears ==
  ASSUME TypeInv, HearInv,
         NEW n \in Node, checkTimeStamps(n) \/ broadcastPing(n)
  PROVE  HearInv'
<1>1. CASE checkTimeStamps(n)
  <2>1. /\ pos[n] \in Index /\ pos' = [pos EXCEPT ![n] = @ + 1]
        /\ UNCHANGED <<crashed, age, pinged>>
    BY <1>1 DEF checkTimeStamps
  <2>2. /\ pos'[n] = pos[n] + 1 /\ pos'[n] < clusterSize /\ pos[n] < clusterSize
        /\ pos'[n] \notin {Waiting, Blocked} /\ pos[n] # Waiting
        /\ \A m \in Node \ {n} : pos'[m] = pos[m]
    <3>1. pos'[n] = pos[n] + 1 /\ \A m \in Node \ {n} : pos'[m] = pos[m]
      BY <2>1, HearTypes
    <3>2. pos[n] \in 0 .. clusterSize - 2
      BY <2>1 DEF Index
    <3> QED
      BY <3>1, <3>2, Constants
  <2>3. ~ crashed'[Leader] /\ pos'[Leader] # Blocked
    BY <2>1, <2>2, HearTypes DEF HearInv
  <2>4. ASSUME NEW f \in Follower PROVE Hears(f)'
    <3>1. Hears(f) /\ f \in Node /\ Leader \in Node
      BY HearTypes DEF HearInv
    <3>2. (pos'[Leader] = Waiting) => (pos[Leader] = Waiting)
      BY <2>2, <3>1
    <3>3. pos[f] < clusterSize => age[f][Leader] <= 2
      BY <3>1 DEF Hears
    <3>4. /\ pos'[f] = Blocked => pos[f] = Blocked
          /\ pos'[f] = Waiting => pos[f] = Waiting
          /\ pos'[f] < clusterSize => age[f][Leader] <= 2
      BY <2>2, <3>1, <3>3
    <3>5. age[f][Leader] \in Nat
      BY HearTypes
    <3> QED
      BY <2>1, <3>1, <3>2, <3>4, <3>5 DEF Hears
  <2> QED
    BY <2>3, <2>4 DEF HearInv
<1>2. CASE broadcastPing(n)
  <2>1. /\ age' = [m \in Node |->
                     IF m # n /\ ~ crashed[m] THEN [age[m] EXCEPT ![n] = 0]
                     ELSE age[m]]
        /\ pinged' = [m \in Node |->
                        IF m # n /\ crashed[m] THEN pinged[m] \cup {n}
                        ELSE pinged[m]]
        /\ pos' = [pos EXCEPT ![n] = IF crashed[n] THEN Blocked ELSE Waiting]
        /\ pos[n] = clusterSize - 1 /\ crashed' = crashed
    BY <1>2 DEF broadcastPing, heartbeat
  <2>2. ~ crashed'[Leader] /\ pos'[Leader] # Blocked
    BY <2>1, HearTypes, Constants DEF HearInv
  <2>3. ASSUME NEW f \in Follower PROVE Hears(f)'
    <3>1. /\ Hears(f) /\ f \in Node /\ Leader \in Node /\ f # Leader
          /\ age[f][Leader] \in Nat
      BY HearTypes DEF HearInv
    <3>2. CASE n = Leader
      <4>1. pos'[f] = pos[f] /\ crashed'[f] = crashed[f]
        BY <2>1, <3>1, <3>2, HearTypes
      <4>2. CASE crashed[f]
        <5>1. Leader \in pinged'[f] /\ age'[f] = age[f]
          BY <2>1, <3>1, <3>2, <4>2
        <5> QED
          BY <3>1, <4>1, <4>2, <5>1 DEF Hears
      <4>3. CASE ~ crashed[f]
        <5>1. pinged'[f] = pinged[f] /\ age'[f][Leader] = 0
          BY <2>1, <3>1, <3>2, <4>3, HearTypes
        <5> QED
          BY <3>1, <4>1, <4>3, <5>1 DEF Hears
      <4> QED
        BY <4>2, <4>3
    <3>3. CASE n # Leader
      <4>1. /\ pos'[Leader] = pos[Leader] /\ crashed'[f] = crashed[f]
            /\ age'[f][Leader] = age[f][Leader]
            /\ Leader \in pinged'[f] <=> Leader \in pinged[f]
        BY <2>1, <3>1, <3>3, HearTypes
      <4>2. CASE n = f
        <5>1. /\ pos'[f] = Blocked => crashed[f]
              /\ pos'[f] = Waiting => ~ crashed[f]
              /\ pos'[f] \in {Blocked, Waiting}
          BY <2>1, <3>1, <4>2, HearTypes, Constants
        <5>2. pos'[f] >= clusterSize
          BY <5>1, Constants
        <5>3. ~ crashed[f] => age[f][Leader] <= 1
          BY <3>1 DEF Hears
        <5>4. ~ (pos'[f] < clusterSize)
          BY <5>1, Constants
        <5> QED
          BY <3>1, <4>1, <5>1, <5>3, <5>4 DEF Hears
      <4>3. CASE n # f
        <5>1. pos'[f] = pos[f]
          BY <2>1, <3>1, <4>3, HearTypes
        <5> QED
          BY <3>1, <4>1, <5>1 DEF Hears
      <4> QED
        BY <4>2, <4>3
    <3> QED
      BY <3>2, <3>3
  <2> QED
    BY <2>2, <2>3 DEF HearInv
<1> QED
  BY <1>1, <1>2

\* Half a second: the leader has sent its PING, and sends the next one.
LEMMA TickHears ==
  ASSUME TypeInv, HearInv, Tick
  PROVE  HearInv'
<1>1. /\ \A n \in Node : pos[n] \in {Waiting, Blocked}
      /\ age' = [n \in Node |-> [m \in Node |->
                   IF n # m /\ age[n][m] < MaxAge THEN age[n][m] + 1
                   ELSE age[n][m]]]
      /\ pos' = [n \in Node |-> IF pos[n] = Waiting THEN 0 ELSE pos[n]]
      /\ crashed' = crashed /\ pinged' = pinged
  BY DEF Tick, Quiet
<1>2. pos[Leader] = Waiting /\ pos'[Leader] = 0 /\ 0 \notin {Waiting, Blocked}
  BY <1>1, HearTypes, Constants DEF HearInv
<1>3. ASSUME NEW f \in Follower PROVE Hears(f)'
  <2>1. /\ Hears(f) /\ f \in Node /\ Leader \in Node /\ f # Leader
        /\ age[f][Leader] \in Nat
    BY HearTypes DEF HearInv
  <2>2. age'[f][Leader] \in {age[f][Leader], age[f][Leader] + 1}
    BY <1>1, <2>1
  <2>3. \/ pos[f] = Waiting /\ pos'[f] = 0
        \/ pos[f] = Blocked /\ pos'[f] = Blocked
    BY <1>1, <2>1, Constants
  <2>4. \/ Leader \in pinged[f]
        \/ age[f][Leader] <= 0
    BY <1>2, <2>1 DEF Hears
  <2>5. \/ Leader \in pinged[f]
        \/ age'[f][Leader] <= 1
    BY <2>1, <2>2, <2>4
  <2>6. pos[f] = Waiting => age'[f][Leader] <= 2
    BY <2>1, <2>2 DEF Hears
  <2>7. /\ pos'[f] # Waiting
        /\ pos'[f] = Blocked => crashed[f]
        /\ pos'[f] < clusterSize => age'[f][Leader] <= 2
    BY <1>2, <2>1, <2>3, <2>6, Constants DEF Hears
  <2> QED
    BY <1>1, <1>2, <2>1, <2>5, <2>7 DEF Hears
<1> QED
  BY <1>1, <1>2, <1>3, Constants DEF HearInv

\* A crash blocks the threads of a follower, and the end of it has its failure
\* thread handle the PINGs first.
LEMMA CrashHears ==
  ASSUME TypeInv, HearInv, NEW g \in Follower,
         Crash(g) \/ Recover(g) \/ ReplWakes(g)
  PROVE  HearInv'
<1>1. CASE Crash(g)
  <2>1. /\ crashed' = [crashed EXCEPT ![g] = TRUE]
        /\ UNCHANGED <<age, pinged, pos>>
    BY <1>1 DEF Crash
  <2>2. /\ crashed'[Leader] = crashed[Leader]
        /\ \A f \in Follower : crashed[f] => crashed'[f]
    BY <2>1, HearTypes
  <2> QED
    BY <2>1, <2>2 DEF HearInv, Hears
<1>2. CASE Recover(g)
  <2>1. /\ crashed' = [crashed EXCEPT ![g] = FALSE]
        /\ age' = [age EXCEPT ![g] =
                     [m \in Node |-> IF m \in pinged[g] THEN 0 ELSE @[m]]]
        /\ pinged' = [pinged EXCEPT ![g] = {}]
        /\ pos' = [pos EXCEPT ![g] = IF @ = Blocked THEN Waiting ELSE @]
    BY <1>2 DEF Recover
  <2>2. crashed'[Leader] = crashed[Leader] /\ pos'[Leader] = pos[Leader]
    BY <2>1, HearTypes
  <2>3. ASSUME NEW f \in Follower PROVE Hears(f)'
    <3>1. /\ Hears(f) /\ f \in Node /\ Leader \in Node /\ f # Leader
          /\ age[f][Leader] \in Nat /\ g \in Node
      BY HearTypes DEF HearInv
    <3>2. CASE f = g
      <4>1. /\ pinged'[f] = {} /\ pos'[f] \in {pos[f], Waiting}
            /\ pos'[f] # Blocked
            /\ age'[f][Leader] = IF Leader \in pinged[f] THEN 0
                                 ELSE age[f][Leader]
        BY <2>1, <3>1, <3>2, HearTypes, Constants
      <4>2. age'[f][Leader] <= IF pos[Leader] = Waiting THEN 0 ELSE 1
        BY <3>1, <4>1 DEF Hears
      <4>3. age'[f][Leader] <= 1 /\ age'[f][Leader] <= 2
        BY <3>1, <4>1, <4>2
      <4> QED
        BY <2>2, <4>1, <4>2, <4>3 DEF Hears
    <3>3. CASE f # g
      <4>1. /\ crashed'[f] = crashed[f] /\ age'[f] = age[f]
            /\ pinged'[f] = pinged[f] /\ pos'[f] = pos[f]
        BY <2>1, <3>1, <3>3, HearTypes
      <4> QED
        BY <2>2, <3>1, <4>1 DEF Hears
    <3> QED
      BY <3>2, <3>3
  <2> QED
    BY <2>2, <2>3 DEF HearInv
<1>3. CASE ReplWakes(g)
  BY <1>3 DEF ReplWakes, HearInv, Hears
<1> QED
  BY <1>1, <1>2, <1>3

\* A node that has been readmitted takes everybody to be just seen.
LEMMA RecoveredHears ==
  ASSUME TypeInv, HearInv, NEW n \in Node, NEW src \in Node,
         handleRecovered(n, src)
  PROVE  HearInv'
<1>1. /\ \/ age' = [age EXCEPT ![n] = [k \in Node |-> 0]]
         \/ age' = age
      /\ UNCHANGED <<crashed, pinged, pos>>
  BY DEF handleRecovered
<1>2. ASSUME NEW f \in Follower PROVE Hears(f)'
  <2>1. /\ Hears(f) /\ f \in Node /\ Leader \in Node
        /\ age[f][Leader] \in Nat
    BY HearTypes DEF HearInv
  <2>2. age'[f][Leader] \in {0, age[f][Leader]}
    BY <1>1, <2>1, HearTypes
  <2> QED
    BY <1>1, <2>1, <2>2 DEF Hears
<1> QED
  BY <1>1, <1>2 DEF HearInv

\* A step of the others.
LEMMA OthersHear ==
  ASSUME HearInv, UNCHANGED heartbeat
  PROVE  HearInv'
BY DEF HearInv, Hears, heartbeat

\* Followers hear the leader, whatever the durations are.
LEMMA HearInvariance == Spec => [](TypeInv /\ HearInv)
<1>1. Init => HearInv
  BY Constants DEF Init, HearInv, Hears
<1>2. TypeInv /\ HearInv /\ [Next]_vars => HearInv'
  <2> SUFFICES ASSUME TypeInv, HearInv, [Next]_vars PROVE HearInv'
    OBVIOUS
  <2>1. ASSUME NEW n \in Node, checkTimeStamps(n) \/ broadcastPing(n)
        PROVE  HearInv'
    BY <2>1, PingHears
  <2>2. ASSUME NEW n \in Node, NEW src \in Node,
               \/ handleState(n, src) \/ handleStateUpdate(n, src)
               \/ handleNodeFailure(n, src)
        PROVE  HearInv'
    BY <2>2, OthersHear DEF handleState, handleStateUpdate, handleNodeFailure
  <2>3. ASSUME NEW n \in Node, NEW src \in Node, handleRecovered(n, src)
        PROVE  HearInv'
    BY <2>3, RecoveredHears
  <2>4. CASE Tick
    BY <2>4, TickHears
  <2>5. ASSUME NEW f \in Follower, Crash(f) \/ Recover(f) \/ ReplWakes(f)
        PROVE  HearInv'
    BY <2>5, CrashHears
  <2>6. CASE \/ EndRecovery \/ Readmit \/ AcceptConnection \/ WriteLine
             \/ Disconnect \/ UNCHANGED vars
    BY <2>6, OthersHear DEF EndRecovery, Readmit, AcceptConnection, WriteLine,
       Disconnect, vars
  <2>7. ASSUME NEW f \in Follower, SetRecoveryId(f) \/ ReceiveAccepted(f)
        PROVE  HearInv'
    BY <2>7, OthersHear DEF SetRecoveryId, ReceiveAccepted
  <2>8. ASSUME NEW j \in DOMAIN waiters, SendState(j)
        PROVE  HearInv'
    BY <2>8, OthersHear DEF SendState
  <2> QED
    BY <2>1, <2>2, <2>3, <2>4, <2>5, <2>6, <2>7, <2>8
       DEF Next, Threads, Environment
<1> QED
  BY <1>1, <1>2, TypeInvariance, PTL DEF Spec

\* A time stamp of two loops is no failure, unless a loop is a second long and
\* a second of silence is too much.
LEMMA TwoLoopsAreNoFailure ==
  ASSUME LoopsPerSecond > 1 \/ TIMEOUT_DURATION > 1,
         NEW a \in 0 .. 2
  PROVE  ~ (a \div LoopsPerSecond > TIMEOUT_DURATION)
<1>1. LoopsPerSecond \in Nat /\ TIMEOUT_DURATION \in Nat
      /\ LoopsPerSecond >= 1 /\ TIMEOUT_DURATION >= 1
  BY Constants
<1>2. CASE LoopsPerSecond = 1
  BY <1>1, <1>2
<1>3. CASE LoopsPerSecond = 2
  BY <1>1, <1>3
<1>4. CASE LoopsPerSecond > 2
  <2>1. \A l \in Nat, b \in Nat : l > 2 /\ b < l => b \div l = 0
    OBVIOUS
  <2>2. a \div LoopsPerSecond = 0
    BY <1>1, <1>4, <2>1
  <2> QED
    BY <1>1, <2>2
<1> QED
  BY <1>1, <1>2, <1>3, <1>4

(****************************************************************************)
(* LeaderIsHeard: no follower ever suspects a leader that has not stopped,  *)
(* nor drops its messages: not by the thread handleNodeFailure of another   *)
(* node, and not when its threads go on after a crash.  With the durations  *)
(* of the code (half a second, and one).                                    *)
(****************************************************************************)
THEOREM LeaderIsNeverSuspected ==
  ASSUME LoopsPerSecond > 1 \/ TIMEOUT_DURATION > 1
  PROVE  Spec => []LeaderIsHeard
<1> DEFINE Trusts(f) == /\ <<f, Leader>> \notin failing
                        /\ processIsAlive[f][idToIndex(f, Leader)]
<1>1. Init => LeaderIsHeard
  <2> SUFFICES ASSUME Init, NEW f \in Follower PROVE Trusts(f)
    BY DEF LeaderIsHeard
  <2>1. f \in Node /\ idToIndex(f, Leader) \in Index
    BY Indices, Constants
  <2> QED
    BY <2>1 DEF Init, AllAlive
<1>2. TypeInv /\ HearInv /\ LeaderIsHeard /\ [Next]_vars => LeaderIsHeard'
  <2> SUFFICES ASSUME TypeInv, HearInv, LeaderIsHeard, [Next]_vars,
                      NEW f \in Follower
               PROVE  Trusts(f)'
    BY DEF LeaderIsHeard
  <2>0. /\ Trusts(f) /\ f \in Node /\ Leader \in Node /\ f # Leader
        /\ processIsAlive \in [Node -> [Index -> BOOLEAN]]
        /\ idToIndex(f, Leader) \in Index
    BY HearTypes, Indices DEF LeaderIsHeard, TypeInv, TypeOK
  <2>1. ASSUME NEW n \in Node, checkTimeStamps(n)
        PROVE  Trusts(f)'
    <3>1. /\ pos[n] \in Index /\ processIsAlive' = processIsAlive
          /\ \/ failing' = failing
             \/ /\ failing' = failing \cup {<<n, indexToId(n, pos[n])>>}
                /\ elapsed(n, indexToId(n, pos[n])) > TIMEOUT_DURATION
      BY <2>1 DEF checkTimeStamps
    <3>2. <<f, Leader>> \in failing'
            => n = f /\ elapsed(f, Leader) > TIMEOUT_DURATION
      BY <2>0, <3>1
    <3>3. n = f => age[f][Leader] \in 0 .. 2
      <4>1. Hears(f) /\ age[f][Leader] \in Nat
        BY HearTypes DEF HearInv
      <4>2. n = f => pos[f] < clusterSize
        BY <3>1, Constants DEF Index
      <4> QED
        BY <4>1, <4>2 DEF Hears
    <3>4. n = f => ~ (elapsed(f, Leader) > TIMEOUT_DURATION)
      BY <3>3, TwoLoopsAreNoFailure DEF elapsed
    <3> QED
      BY <2>0, <3>1, <3>2, <3>4
  <2>2. ASSUME NEW n \in Node, NEW m \in Node, handleNodeFailure(n, m)
        PROVE  Trusts(f)'
    <3>1. /\ <<n, m>> \in failing /\ failing' \subseteq failing
          /\ processIsAlive' =
               [processIsAlive EXCEPT ![n][idToIndex(n, m)] = FALSE]
      BY <2>2 DEF handleNodeFailure, setNodeStatus
    <3>2. n # m /\ <<n, m>> # <<f, Leader>>
      <4>1. <<n, m>>[1] # <<n, m>>[2]
        BY <3>1 DEF TypeInv
      <4> QED
        BY <2>0, <3>1, <4>1
    <3>3. n = f => idToIndex(n, m) # idToIndex(f, Leader)
      BY <2>0, <3>2, Indices
    <3>4. processIsAlive'[f][idToIndex(f, Leader)]
      BY <2>0, <3>1, <3>3
    <3> QED
      BY <2>0, <3>1, <3>4
  <2>3. ASSUME NEW n \in Node, NEW m, enableComm(n, m), failing' = failing
        PROVE  Trusts(f)'
    <3>1. processIsAlive' =
            [processIsAlive EXCEPT ![n][idToIndex(n, m)] = TRUE]
      BY <2>3 DEF enableComm, setNodeStatus
    <3>2. processIsAlive'[f][idToIndex(f, Leader)]
      BY <2>0, <3>1
    <3> QED
      BY <2>0, <2>3, <3>2
  <2>4. ASSUME UNCHANGED <<processIsAlive, failing>>
        PROVE  Trusts(f)'
    BY <2>0, <2>4
  <2> HIDE DEF Trusts
  <2>5. ASSUME NEW n \in Node, NEW src \in Node,
               \/ handleState(n, src) \/ handleStateUpdate(n, src)
               \/ handleRecovered(n, src)
        PROVE  Trusts(f)'
    <3>1. CASE handleState(n, src) \/ handleStateUpdate(n, src)
      BY <2>4, <3>1 DEF handleState, handleStateUpdate, tables
    <3>2. CASE handleRecovered(n, src)
      BY <2>3, <2>4, <3>2 DEF handleRecovered
    <3> QED
      BY <2>5, <3>1, <3>2
  <2>6. CASE Readmit
    BY <2>0, <2>3, <2>6 DEF Readmit
  <2>7. ASSUME NEW g \in Follower,
               \/ SetRecoveryId(g) \/ ReceiveAccepted(g)
               \/ Crash(g) \/ Recover(g) \/ ReplWakes(g)
        PROVE  Trusts(f)'
    BY <2>4, <2>7 DEF SetRecoveryId, ReceiveAccepted, Crash, Recover, ReplWakes,
       tables
  <2>8. ASSUME NEW j \in DOMAIN waiters, SendState(j)
        PROVE  Trusts(f)'
    BY <2>4, <2>8 DEF SendState, tables
  <2>9. CASE \/ EndRecovery \/ Tick \/ AcceptConnection \/ WriteLine
             \/ Disconnect \/ UNCHANGED vars
    BY <2>4, <2>9 DEF EndRecovery, Tick, AcceptConnection, WriteLine,
       Disconnect, vars, tables
  <2>10. ASSUME NEW n \in Node, broadcastPing(n)
         PROVE  Trusts(f)'
    BY <2>4, <2>10 DEF broadcastPing, tables
  <2> QED
    BY <2>1, <2>2, <2>5, <2>6, <2>7, <2>8, <2>9, <2>10
       DEF Next, Threads, Environment
<1> QED
  BY <1>1, <1>2, HearInvariance, PTL DEF Spec

--------------------------------------------------------------------------------
(* The messages of a state transfer.                                        *)

\* What send, broadcast and consume make of the channels of this tag, whose
\* messages are never dropped.
LEMMA Sends ==
  ASSUME NEW chan \in Channels, NEW alive \in [Node -> [Index -> BOOLEAN]],
         NEW s \in Node, NEW d \in Node, NEW m \in Message
  PROVE  /\ send(chan, alive, s, d, "FAILURE_DETECTION", m)[s][d]
              = Append(chan[s][d], m)
         /\ \A a, b \in Node : a # s \/ b # d =>
              send(chan, alive, s, d, "FAILURE_DETECTION", m)[a][b] = chan[a][b]
BY DEF send, messageShouldDrop, Channels

LEMMA Broadcasts ==
  ASSUME NEW chan \in Channels, NEW alive \in [Node -> [Index -> BOOLEAN]],
         NEW s \in Node, NEW m \in Message
  PROVE  broadcast(chan, alive, s, 0, clusterSize, "FAILURE_DETECTION", m)
           = [chan EXCEPT ![s] =
                [d \in Node |-> IF d # s THEN Append(chan[s][d], m)
                               ELSE chan[s][d]]]
<1>1. \A d \in Node : 0 <= d /\ d < clusterSize
  BY ClusterSizeAssumption DEF Node
<1> QED
  BY <1>1 DEF broadcast, messageShouldDrop

LEMMA Consumes ==
  ASSUME NEW chan \in Channels, NEW s \in Node, NEW d \in Node
  PROVE  /\ consume(chan, s, d)[s][d] = Tail(chan[s][d])
         /\ \A a, b \in Node : a # s \/ b # d =>
              consume(chan, s, d)[a][b] = chan[a][b]
BY DEF consume, Channels

\* The messages of a channel after one more has been sent, or one consumed.
LEMMA Appended ==
  ASSUME NEW S, NEW s \in Seq(S), NEW m \in S
  PROVE  /\ \A k \in DOMAIN Append(s, m) :
              \/ k \in DOMAIN s /\ Append(s, m)[k] = s[k]
              \/ k = Len(s) + 1 /\ Append(s, m)[k] = m
         /\ \A k \in DOMAIN s : k \in DOMAIN Append(s, m) /\ k <= Len(s)
         /\ DOMAIN s \subseteq Nat
OBVIOUS

LEMMA Consumed ==
  ASSUME NEW S, NEW s \in Seq(S), s # << >>
  PROVE  /\ 1 \in DOMAIN s /\ Head(s) = s[1]
         /\ \A k \in DOMAIN Tail(s) :
              k \in Nat /\ k + 1 \in DOMAIN s /\ Tail(s)[k] = s[k + 1]
         /\ DOMAIN s \subseteq Nat \ {0}
OBVIOUS

(****************************************************************************)
(* The leader sends STATE and RECOVERED and is sent STATE_UPDATED; two      *)
(* followers have nothing to say to each other.  The leader's own tables    *)
(* agree, since whoever writes one writes both.                             *)
(****************************************************************************)
ShapeInv ==
  /\ \A f \in Follower :
       /\ \A k \in DOMAIN net[f][Leader] :
            net[f][Leader][k].code = "STATE_UPDATED"
       /\ \A k \in DOMAIN net[Leader][f] :
            net[Leader][f][k].code \in {"STATE", "RECOVERED"}
       /\ \A g \in Follower : net[f][g] = << >>
  /\ isAlive[Leader] = processIsAlive[Leader]

\* A message at the head of a channel says who has sent it.
LEMMA Senders ==
  ASSUME TypeInv, ShapeInv, NEW n \in Node, NEW src \in Node, NEW c,
         Handling(n, src, c)
  PROVE  /\ net[src][n] # << >> /\ Head(net[src][n]).code = c
         /\ net[src][n] \in Seq(Message) /\ Head(net[src][n]) \in Message
         /\ c \in {"STATE", "RECOVERED"} => n \in Follower /\ src = Leader
         /\ c = "STATE_UPDATED" => n = Leader /\ src \in Follower
<1>1. /\ net \in Channels /\ \A a \in Node : net[a][a] = << >>
      /\ net[src][n] # << >> /\ Head(net[src][n]).code = c
  BY DEF TypeInv, TypeOK, Channels, Handling
<1>2. net[src][n] \in Seq(Message)
  BY <1>1 DEF Channels
<1>3. /\ Head(net[src][n]) = net[src][n][1] /\ 1 \in DOMAIN net[src][n]
      /\ Head(net[src][n]) \in Message
  BY <1>1, <1>2, Consumed
<1>4. \/ n = Leader /\ src \in Follower
      \/ src = Leader /\ n \in Follower
  <2>1. src # n
    BY <1>1
  <2>2. ~ (n \in Follower /\ src \in Follower)
    BY <1>1 DEF ShapeInv
  <2> QED
    BY <2>1, <2>2 DEF Follower
<1>5. n = Leader /\ src \in Follower => c = "STATE_UPDATED"
  BY <1>1, <1>3 DEF ShapeInv
<1>6. src = Leader /\ n \in Follower => c \in {"STATE", "RECOVERED"}
  BY <1>1, <1>3 DEF ShapeInv
<1>7. "STATE_UPDATED" \notin {"STATE", "RECOVERED"}
  OBVIOUS
<1> QED
  BY <1>1, <1>2, <1>3, <1>4, <1>5, <1>6, <1>7

\* What a step does to the channels between the leader and its followers.
LEMMA StateEffect ==
  ASSUME TypeInv, ShapeInv, NEW n \in Node, NEW src \in Node,
         handleState(n, src)
  PROVE  /\ n \in Follower /\ src = Leader
         /\ net[Leader][n] # << >> /\ Head(net[Leader][n]).code = "STATE"
         /\ net'[Leader][n] = Tail(net[Leader][n])
         /\ net'[n][Leader] = Append(net[n][Leader],
              [code |-> "STATE_UPDATED", id |-> Head(net[Leader][n]).id])
         /\ \A f \in Follower \ {n} : /\ net'[Leader][f] = net[Leader][f]
                                      /\ net'[f][Leader] = net[f][Leader]
         /\ \A f, g \in Follower : net'[f][g] = net[f][g]
         /\ log' = [log EXCEPT ![n] = Head(net[Leader][n]).state]
<1>1. Handling(n, src, "STATE")
  BY DEF handleState
<1>2. /\ n \in Follower /\ src = Leader /\ net[Leader][n] # << >>
      /\ Head(net[Leader][n]).code = "STATE"
  BY <1>1, Senders
<1>3. /\ Leader \in Node /\ n # Leader /\ net \in Channels
      /\ processIsAlive \in [Node -> [Index -> BOOLEAN]]
      /\ \A f \in Follower : f \in Node /\ f # Leader
  BY <1>2, Constants DEF TypeInv, TypeOK, Channels
<1> DEFINE m == [code |-> "STATE_UPDATED", id |-> Head(net[Leader][n]).id]
           left == consume(net, Leader, n)
<1>4. /\ net' = send(left, processIsAlive, n, Leader, "FAILURE_DETECTION", m)
      /\ log' = [log EXCEPT ![n] = Head(net[Leader][n]).state]
  BY <1>2 DEF handleState
<1>5. left \in Channels /\ m \in Message
  <2>1. Head(net[Leader][n]) \in Message
    BY <1>1, <1>2, Senders
  <2> QED
    BY <1>2, <1>3, <2>1, ConsumeType, MessageFields, NewMessages DEF TypeInv
<1>6. /\ left[Leader][n] = Tail(net[Leader][n])
      /\ \A a, b \in Node : a # Leader \/ b # n => left[a][b] = net[a][b]
  BY <1>3, Consumes
<1> HIDE DEF m, left
<1>7. /\ net'[n][Leader] = Append(left[n][Leader], m)
      /\ \A a, b \in Node : a # n \/ b # Leader => net'[a][b] = left[a][b]
  BY <1>3, <1>4, <1>5, Sends
<1>8. /\ net'[Leader][n] = Tail(net[Leader][n])
      /\ net'[n][Leader] = Append(net[n][Leader], m)
  BY <1>3, <1>6, <1>7
<1>9. /\ \A f \in Follower \ {n} : /\ net'[Leader][f] = net[Leader][f]
                                   /\ net'[f][Leader] = net[f][Leader]
      /\ \A f, g \in Follower : net'[f][g] = net[f][g]
  BY <1>3, <1>6, <1>7
<1> QED
  BY <1>2, <1>4, <1>8, <1>9 DEF m

LEMMA StateUpdateEffect ==
  ASSUME TypeInv, ShapeInv, NEW n \in Node, NEW src \in Node,
         handleStateUpdate(n, src)
  PROVE  /\ n = Leader /\ src \in Follower /\ net[src][Leader] # << >>
         /\ net'[src][Leader] = Tail(net[src][Leader])
         /\ \A f \in Follower \ {src} : net'[f][Leader] = net[f][Leader]
         /\ \A f \in Follower : net'[Leader][f] = net[Leader][f]
         /\ \A f, g \in Follower : net'[f][g] = net[f][g]
         /\ updating' = IF Head(net[src][Leader]).id = curRecoveryId
                        THEN src ELSE -1
<1>1. Handling(n, src, "STATE_UPDATED")
  BY DEF handleStateUpdate
<1>2. n = Leader /\ src \in Follower /\ net[src][Leader] # << >>
  BY <1>1, Senders
<1>3. /\ Leader \in Node /\ src # Leader /\ net \in Channels
      /\ \A f \in Follower : f \in Node /\ f # Leader
  BY <1>2, Constants DEF TypeInv, TypeOK, Channels
<1>4. /\ net' = consume(net, src, Leader)
      /\ updating' = IF Head(net[src][Leader]).id = curRecoveryId
                     THEN src ELSE -1
  BY <1>2 DEF handleStateUpdate
<1>5. /\ net'[src][Leader] = Tail(net[src][Leader])
      /\ \A a, b \in Node : a # src \/ b # Leader => net'[a][b] = net[a][b]
  BY <1>3, <1>4, Consumes
<1> QED
  BY <1>2, <1>3, <1>4, <1>5

LEMMA RecoveredEffect ==
  ASSUME TypeInv, ShapeInv, NEW n \in Node, NEW src \in Node,
         handleRecovered(n, src)
  PROVE  /\ n \in Follower /\ src = Leader
         /\ net[Leader][n] # << >> /\ Head(net[Leader][n]).code = "RECOVERED"
         /\ net'[Leader][n] = Tail(net[Leader][n])
         /\ \A f \in Follower \ {n} : net'[Leader][f] = net[Leader][f]
         /\ \A f \in Follower : net'[f][Leader] = net[f][Leader]
         /\ \A f, g \in Follower : net'[f][g] = net[f][g]
         /\ isAlive'[Leader] = isAlive[Leader]
         /\ processIsAlive'[Leader] = processIsAlive[Leader]
         /\ age'[Leader] = age[Leader]
<1>1. Handling(n, src, "RECOVERED")
  BY DEF handleRecovered
<1>2. /\ n \in Follower /\ src = Leader /\ net[Leader][n] # << >>
      /\ Head(net[Leader][n]).code = "RECOVERED"
  BY <1>1, Senders
<1>3. /\ Leader \in Node /\ n # Leader /\ net \in Channels
      /\ \A f \in Follower : f \in Node /\ f # Leader
  BY <1>2, Constants DEF TypeInv, TypeOK, Channels
<1>4. net' = consume(net, Leader, n)
  BY <1>2 DEF handleRecovered
<1>5. /\ net'[Leader][n] = Tail(net[Leader][n])
      /\ \A a, b \in Node : a # Leader \/ b # n => net'[a][b] = net[a][b]
  BY <1>3, <1>4, Consumes
<1>6. /\ isAlive'[Leader] = isAlive[Leader]
      /\ processIsAlive'[Leader] = processIsAlive[Leader]
      /\ age'[Leader] = age[Leader]
  <2>1. /\ age \in [Node -> [Node -> 0 .. MaxAge]]
        /\ isAlive \in [Node -> [Index -> BOOLEAN]]
        /\ processIsAlive \in [Node -> [Index -> BOOLEAN]]
    BY DEF TypeInv, TypeOK
  <2>2. \/ /\ age' = [age EXCEPT ![n] = [k \in Node |-> 0]]
           /\ UNCHANGED <<isAlive, processIsAlive>>
        \/ enableComm(n, Head(net[Leader][n]).node) /\ age' = age
    BY <1>2 DEF handleRecovered
  <2> QED
    BY <1>3, <2>1, <2>2 DEF enableComm, setNodeStatus
<1> QED
  BY <1>2, <1>3, <1>5, <1>6

LEMMA SendStateEffect ==
  ASSUME TypeInv, NEW j \in DOMAIN waiters, SendState(j)
  PROVE  /\ waiters[j].node \in Follower /\ waiters[j].id \in Nat
         /\ net'[Leader][waiters[j].node] =
              Append(net[Leader][waiters[j].node],
                     [code |-> "STATE", id |-> waiters[j].id,
                      state |-> log[Leader]])
         /\ [code |-> "STATE", id |-> waiters[j].id, state |-> log[Leader]]
              \in Message
         /\ \A f \in Follower \ {waiters[j].node} :
              net'[Leader][f] = net[Leader][f]
         /\ \A f \in Follower : net'[f][Leader] = net[f][Leader]
         /\ \A f, g \in Follower : net'[f][g] = net[f][g]
<1> DEFINE w == waiters[j]
           m == [code |-> "STATE", id |-> w.id, state |-> log[Leader]]
<1>1. /\ Leader \in Node /\ net \in Channels /\ log[Leader] \in Seq(Line)
      /\ processIsAlive \in [Node -> [Index -> BOOLEAN]]
      /\ \A f \in Follower : f \in Node /\ f # Leader
      /\ waiters \in Seq([node : Follower, id : Nat])
  BY Constants DEF TypeInv, TypeOK, Channels
<1>2. w.node \in Follower /\ w.id \in Nat
  <2> DEFINE Waiter == [node : Follower, id : Nat]
  <2>1. waiters \in Seq(Waiter)
    BY <1>1
  <2> HIDE DEF Waiter
  <2>2. w \in Waiter
    BY <2>1
  <2> QED
    BY <2>2 DEF Waiter
<1>3. m \in Message
  BY <1>1, <1>2, NewMessages
<1> DEFINE n == w.node
<1>4. net' = send(net, processIsAlive, Leader, n, "FAILURE_DETECTION", m)
  BY DEF SendState
<1>5. n \in Node
  BY <1>1, <1>2
<1> HIDE DEF n, m
<1>6. /\ net'[Leader][n] = Append(net[Leader][n], m)
      /\ \A a, b \in Node : a # Leader \/ b # n =>
           net'[a][b] = net[a][b]
  <2>1. net \in Channels /\ processIsAlive \in [Node -> [Index -> BOOLEAN]]
    BY <1>1
  <2>2. Leader \in Node
    BY <1>1
  <2> QED
    BY <1>3, <1>4, <1>5, <2>1, <2>2, Sends
<1>7. /\ \A f \in Follower \ {n} : net'[Leader][f] = net[Leader][f]
      /\ \A f \in Follower : net'[f][Leader] = net[f][Leader]
      /\ \A f, g \in Follower : net'[f][g] = net[f][g]
  BY <1>1, <1>6
<1> QED
  BY <1>2, <1>3, <1>6, <1>7 DEF n, m

LEMMA ReadmitEffect ==
  ASSUME TypeInv, Readmit
  PROVE  /\ updating \in Follower
         /\ [code |-> "RECOVERED", node |-> updating] \in Message
         /\ \A f \in Follower :
              /\ net'[Leader][f] = Append(net[Leader][f],
                   [code |-> "RECOVERED", node |-> updating])
              /\ net'[f][Leader] = net[f][Leader]
              /\ \A g \in Follower : net'[f][g] = net[f][g]
         /\ isAlive'[Leader] =
              [isAlive[Leader] EXCEPT ![idToIndex(Leader, updating)] = TRUE]
         /\ processIsAlive'[Leader] =
              [processIsAlive[Leader]
                 EXCEPT ![idToIndex(Leader, updating)] = TRUE]
<1> DEFINE m == [code |-> "RECOVERED", node |-> updating]
<1>1. /\ Leader \in Node /\ net \in Channels
      /\ isAlive \in [Node -> [Index -> BOOLEAN]]
      /\ processIsAlive \in [Node -> [Index -> BOOLEAN]]
      /\ \A f \in Follower : f \in Node /\ f # Leader
      /\ updating \in Follower \cup {-1}
  BY Constants DEF TypeInv, TypeOK, Channels
<1>0. net' = broadcast(net, processIsAlive, Leader, 0, clusterSize,
                       "FAILURE_DETECTION", m)
  BY DEF Readmit
<1>2. updating # -1 /\ enableComm(Leader, updating)
  BY DEF Readmit
<1>3. updating \in Follower /\ m \in Message
  BY <1>1, <1>2, NewMessages
<1> HIDE DEF m
<1>4. \A a, b \in Node :
        net'[a][b] = IF a = Leader /\ b # Leader THEN Append(net[Leader][b], m)
                     ELSE net[a][b]
  <2>1. net' = [net EXCEPT ![Leader] =
                  [d \in Node |-> IF d # Leader THEN Append(net[Leader][d], m)
                                 ELSE net[Leader][d]]]
    BY <1>0, <1>1, <1>3, Broadcasts
  <2> QED
    BY <1>1, <2>1 DEF Channels
<1>5. \A f \in Follower : /\ net'[Leader][f] = Append(net[Leader][f], m)
                          /\ net'[f][Leader] = net[f][Leader]
                          /\ \A g \in Follower : net'[f][g] = net[f][g]
  BY <1>1, <1>4
<1>6. /\ isAlive'[Leader] =
           [isAlive[Leader] EXCEPT ![idToIndex(Leader, updating)] = TRUE]
      /\ processIsAlive'[Leader] =
           [processIsAlive[Leader] EXCEPT ![idToIndex(Leader, updating)] = TRUE]
  BY <1>1, <1>2 DEF enableComm, setNodeStatus
<1> QED
  BY <1>3, <1>5, <1>6 DEF m

LEMMA ShapeInvariance == Spec => [](TypeInv /\ ShapeInv)
<1>1. Init => ShapeInv
  <2>1. Leader \in Node /\ \A f \in Follower : f \in Node
    BY Constants
  <2> QED
    BY <2>1 DEF Init, ShapeInv, EmptyChannels, AllAlive
<1>2. TypeInv /\ ShapeInv /\ [Next]_vars => ShapeInv'
  <2> SUFFICES ASSUME TypeInv, ShapeInv, [Next]_vars PROVE ShapeInv'
    OBVIOUS
  <2>0. /\ net \in Channels
        /\ Leader \in Node /\ \A f \in Follower : f \in Node
        /\ \A f \in Follower : /\ net[f][Leader] \in Seq(Message)
                               /\ net[Leader][f] \in Seq(Message)
    <3>1. net \in Channels /\ Leader \in Node /\ \A f \in Follower : f \in Node
      BY Constants DEF TypeInv, TypeOK, Channels
    <3> QED
      BY <3>1 DEF Channels
  <2> DEFINE Up(c) == \A k \in DOMAIN c : c[k].code = "STATE_UPDATED"
             Down(c) == \A k \in DOMAIN c : c[k].code \in {"STATE", "RECOVERED"}
  <2>1. \A f \in Follower : /\ Up(net[f][Leader]) /\ Down(net[Leader][f])
                            /\ \A g \in Follower : net[f][g] = << >>
    BY DEF ShapeInv
  <2>2. ASSUME \A f \in Follower : Up(net'[f][Leader]) /\ Down(net'[Leader][f]),
               \A f, g \in Follower : net'[f][g] = << >>,
               isAlive'[Leader] = processIsAlive'[Leader]
        PROVE  ShapeInv'
    BY <2>2 DEF ShapeInv
  <2>3. ASSUME NEW c \in Seq(Message), c # << >>
        PROVE  (Up(c) => Up(Tail(c))) /\ (Down(c) => Down(Tail(c)))
    BY <2>3, Consumed
  <2>4. ASSUME NEW c \in Seq(Message), NEW m \in Message
        PROVE  /\ Up(c) /\ m.code = "STATE_UPDATED" => Up(Append(c, m))
               /\ Down(c) /\ m.code \in {"STATE", "RECOVERED"}
                    => Down(Append(c, m))
    <3>1. \A k \in DOMAIN Append(c, m) :
            \/ k \in DOMAIN c /\ Append(c, m)[k] = c[k]
            \/ k = Len(c) + 1 /\ Append(c, m)[k] = m
      BY Appended
    <3> QED
      BY <3>1
  <2>5. isAlive[Leader] = processIsAlive[Leader]
    BY DEF ShapeInv
  <2> HIDE DEF Up, Down
  <2>6. ASSUME UNCHANGED net, isAlive'[Leader] = processIsAlive'[Leader]
        PROVE  ShapeInv'
    BY <2>1, <2>2, <2>6
  <2>7. ASSUME NEW n \in Node, NEW src \in Node, handleState(n, src)
        PROVE  ShapeInv'
    <3> DEFINE m == [code |-> "STATE_UPDATED", id |-> Head(net[Leader][n]).id]
    <3>1. /\ n \in Follower /\ src = Leader
          /\ net[Leader][n] # << >>
          /\ net'[Leader][n] = Tail(net[Leader][n])
          /\ net'[n][Leader] = Append(net[n][Leader], m)
          /\ \A f \in Follower \ {n} : /\ net'[Leader][f] = net[Leader][f]
                                       /\ net'[f][Leader] = net[f][Leader]
          /\ \A f, g \in Follower : net'[f][g] = net[f][g]
      BY <2>7, StateEffect
    <3>2. m \in Message
      <4>1. /\ Head(net[Leader][n]).code = "STATE"
            /\ Head(net[Leader][n]) \in Message
        BY <2>0, <2>7, <3>1, StateEffect, Consumed
      <4> QED
        BY <4>1, MessageFields, NewMessages
    <3>3. m.code = "STATE_UPDATED"
      OBVIOUS
    <3> HIDE DEF m
    <3>4. Down(net'[Leader][n]) /\ Up(net'[n][Leader])
      BY <2>0, <2>1, <2>3, <2>4, <3>1, <3>2, <3>3
    <3>5. isAlive' = isAlive /\ processIsAlive' = processIsAlive
      BY <2>7 DEF handleState, tables
    <3>6. \A f \in Follower : Up(net'[f][Leader]) /\ Down(net'[Leader][f])
      BY <2>1, <3>1, <3>4
    <3>7. \A f, g \in Follower : net'[f][g] = << >>
      BY <2>1, <3>1
    <3> QED
      BY <2>2, <2>5, <3>5, <3>6, <3>7
  <2>8. ASSUME NEW n \in Node, NEW src \in Node, handleStateUpdate(n, src)
        PROVE  ShapeInv'
    <3>1. /\ src \in Follower /\ net[src][Leader] # << >>
          /\ net'[src][Leader] = Tail(net[src][Leader])
          /\ \A f \in Follower \ {src} : net'[f][Leader] = net[f][Leader]
          /\ \A f \in Follower : net'[Leader][f] = net[Leader][f]
          /\ \A f, g \in Follower : net'[f][g] = net[f][g]
      BY <2>8, StateUpdateEffect
    <3>2. Up(net'[src][Leader])
      BY <2>0, <2>1, <2>3, <3>1
    <3>3. isAlive' = isAlive /\ processIsAlive' = processIsAlive
      BY <2>8 DEF handleStateUpdate, tables
    <3> QED
      BY <2>1, <2>2, <2>5, <3>1, <3>2, <3>3
  <2>9. ASSUME NEW n \in Node, NEW src \in Node, handleRecovered(n, src)
        PROVE  ShapeInv'
    <3>1. /\ n \in Follower /\ net[Leader][n] # << >>
          /\ net'[Leader][n] = Tail(net[Leader][n])
          /\ \A f \in Follower \ {n} : net'[Leader][f] = net[Leader][f]
          /\ \A f \in Follower : net'[f][Leader] = net[f][Leader]
          /\ \A f, g \in Follower : net'[f][g] = net[f][g]
          /\ isAlive'[Leader] = isAlive[Leader]
          /\ processIsAlive'[Leader] = processIsAlive[Leader]
      BY <2>9, RecoveredEffect
    <3>2. Down(net'[Leader][n])
      BY <2>0, <2>1, <2>3, <3>1
    <3> QED
      BY <2>1, <2>2, <2>5, <3>1, <3>2
  <2>10. ASSUME NEW j \in DOMAIN waiters, SendState(j)
         PROVE  ShapeInv'
    <3> DEFINE n == waiters[j].node
               m == [code |-> "STATE", id |-> waiters[j].id,
                     state |-> log[Leader]]
    <3>1. /\ n \in Follower /\ m \in Message
          /\ net'[Leader][n] = Append(net[Leader][n], m)
          /\ \A f \in Follower \ {n} : net'[Leader][f] = net[Leader][f]
          /\ \A f \in Follower : net'[f][Leader] = net[f][Leader]
          /\ \A f, g \in Follower : net'[f][g] = net[f][g]
      BY <2>10, SendStateEffect
    <3>2. m.code \in {"STATE", "RECOVERED"}
      OBVIOUS
    <3> HIDE DEF n, m
    <3>3. Down(net'[Leader][n])
      BY <2>0, <2>1, <2>4, <3>1, <3>2
    <3>4. isAlive' = isAlive /\ processIsAlive' = processIsAlive
      BY <2>10 DEF SendState, tables
    <3>5. \A f \in Follower : Up(net'[f][Leader]) /\ Down(net'[Leader][f])
      BY <2>1, <3>1, <3>3
    <3>6. \A f, g \in Follower : net'[f][g] = << >>
      BY <2>1, <3>1
    <3> QED
      BY <2>2, <2>5, <3>4, <3>5, <3>6
  <2>11. CASE Readmit
    <3> DEFINE m == [code |-> "RECOVERED", node |-> updating]
    <3>1. /\ m \in Message
          /\ \A f \in Follower :
               /\ net'[Leader][f] = Append(net[Leader][f], m)
               /\ net'[f][Leader] = net[f][Leader]
               /\ \A g \in Follower : net'[f][g] = net[f][g]
          /\ isAlive'[Leader] = processIsAlive'[Leader]
      BY <2>5, <2>11, ReadmitEffect
    <3>2. m.code \in {"STATE", "RECOVERED"}
      OBVIOUS
    <3> HIDE DEF m
    <3>3. \A f \in Follower : Down(net'[Leader][f])
      BY <2>0, <2>1, <2>4, <3>1, <3>2
    <3> QED
      BY <2>1, <2>2, <3>1, <3>3
  <2>12. ASSUME NEW n \in Node, NEW m \in Node, handleNodeFailure(n, m)
         PROVE  ShapeInv'
    <3>1. /\ isAlive' = [isAlive EXCEPT ![n][idToIndex(n, m)] = FALSE]
          /\ processIsAlive' =
               [processIsAlive EXCEPT ![n][idToIndex(n, m)] = FALSE]
          /\ net' = net
      BY <2>12 DEF handleNodeFailure, setNodeStatus
    <3>2. /\ isAlive \in [Node -> [Index -> BOOLEAN]]
          /\ processIsAlive \in [Node -> [Index -> BOOLEAN]]
      BY DEF TypeInv, TypeOK
    <3>3. isAlive'[Leader] = processIsAlive'[Leader]
      BY <2>0, <2>5, <3>1, <3>2
    <3> QED
      BY <2>6, <3>1, <3>3
  <2>13. ASSUME NEW n \in Node, checkTimeStamps(n) \/ broadcastPing(n)
         PROVE  ShapeInv'
    BY <2>5, <2>6, <2>13 DEF checkTimeStamps, broadcastPing, tables
  <2>14. ASSUME NEW f \in Follower,
                \/ SetRecoveryId(f) \/ ReceiveAccepted(f)
                \/ Crash(f) \/ Recover(f) \/ ReplWakes(f)
         PROVE  ShapeInv'
    BY <2>5, <2>6, <2>14
       DEF SetRecoveryId, ReceiveAccepted, Crash, Recover, ReplWakes, tables
  <2>15. CASE \/ EndRecovery \/ Tick \/ AcceptConnection \/ WriteLine
              \/ Disconnect \/ UNCHANGED vars
    BY <2>5, <2>6, <2>15 DEF EndRecovery, Tick, AcceptConnection, WriteLine,
       Disconnect, vars, tables
  <2> QED
    BY <2>7, <2>8, <2>9, <2>10, <2>11, <2>12, <2>13, <2>14, <2>15
       DEF Next, Threads, Environment
<1> QED
  BY <1>1, <1>2, TypeInvariance, PTL DEF Spec

--------------------------------------------------------------------------------
(* The ids of a state transfer.                                             *)

StateIn(c, i) == \E k \in DOMAIN c : c[k].code = "STATE" /\ c[k].id = i
IdIn(c, i)    == \E k \in DOMAIN c : c[k].id = i

\* A message with the id i is on its way to f or back.
Carries(f, i) == StateIn(net[Leader][f], i) \/ IdIn(net[f][Leader], i)

Hold   == RECOVERY_DURATION * LoopsPerSecond
Waited == Hold - holder.left   \* loops since the holder has sent its STATE

(****************************************************************************)
(* The mutex; the second of a recovery is over before the recovery is; and  *)
(* a message that could still be taken for one of the current recovery, now *)
(* or by a recovery that begins in this second, is one of the thread that   *)
(* has the mutex.                                                           *)
(****************************************************************************)
IdInv ==
  /\ holder # NoHolder => client = "none"
  /\ updating # -1 => client \in {"none", "connected"}
  /\ holder.id = now => Waited <= loop
  /\ \A f \in Follower : \A i \in {curRecoveryId, now} :
       Carries(f, i) => holder.node = f /\ holder.id = i

LEMMA HolderType ==
  ASSUME TypeInv
  PROVE  /\ holder = NoHolder <=> holder.node = -1
         /\ holder # NoHolder => /\ holder.node \in Follower
                                 /\ holder.id \in Nat
                                 /\ holder.left \in 0 .. Hold
         /\ holder = NoHolder => holder.id = -1 /\ holder.left = -1
         /\ -1 \notin Follower /\ Hold \in Nat /\ Hold >= LoopsPerSecond
<1>1. /\ holder \in [node : Follower, id : Nat, left : 0 .. Hold]
                      \cup {NoHolder}
  BY DEF TypeInv, TypeOK, Hold
<1>2. -1 \notin Follower /\ Hold \in Nat
  BY Constants DEF Hold
<1>3. Hold >= LoopsPerSecond
  <2>1. \A a, b \in Nat \ {0} : a * b >= b
    OBVIOUS
  <2> QED
    BY <2>1, RecoveryAssumption DEF Hold
<1>4. NoHolder.node = -1 /\ NoHolder.id = -1 /\ NoHolder.left = -1
  BY DEF NoHolder
<1> HIDE DEF Hold
<1> QED
  BY <1>1, <1>2, <1>3, <1>4

\* Ids are seconds.
LEMMA CarriedType ==
  ASSUME TypeInv, ShapeInv, NEW f \in Follower, NEW i \in Int,
         Carries(f, i)
  PROVE  i \in Nat /\ i \in UsedIds
<1>1. /\ net[Leader][f] \in Seq(Message) /\ net[f][Leader] \in Seq(Message)
  BY Constants DEF TypeInv, TypeOK
<1>2. CASE StateIn(net[Leader][f], i)
  <2>1. PICK k \in DOMAIN net[Leader][f] : /\ net[Leader][f][k].code = "STATE"
                                           /\ net[Leader][f][k].id = i
    BY <1>2 DEF StateIn
  <2>2. net[Leader][f][k] \in Message
    BY <1>1
  <2>3. i \in Nat
    BY <2>1, <2>2, MessageFields
  <2>4. i \in {net[Leader][f][j].id : j \in {l \in DOMAIN net[Leader][f] :
                                          net[Leader][f][l].code = "STATE"}}
    BY <2>1
  <2>5. i \in UNION {{net[Leader][g][j].id :
                      j \in {l \in DOMAIN net[Leader][g] :
                               net[Leader][g][l].code = "STATE"}}
                    : g \in Follower}
    BY <2>4
  <2> QED
    BY <2>3, <2>5 DEF UsedIds
<1>3. CASE IdIn(net[f][Leader], i)
  <2>1. PICK k \in DOMAIN net[f][Leader] : net[f][Leader][k].id = i
    BY <1>3 DEF IdIn
  <2>2. /\ net[f][Leader][k] \in Message
        /\ net[f][Leader][k].code = "STATE_UPDATED"
    BY <1>1 DEF ShapeInv
  <2>3. i \in Nat
    BY <2>1, <2>2, MessageFields
  <2>4. i \in {net[f][Leader][j].id : j \in DOMAIN net[f][Leader]}
    BY <2>1
  <2>5. i \in UNION {{net[g][Leader][j].id : j \in DOMAIN net[g][Leader]}
                    : g \in Follower}
    BY <2>4
  <2> QED
    BY <2>3, <2>5 DEF UsedIds
<1> QED
  BY <1>2, <1>3 DEF Carries

LEMMA IdsLeft ==
  ASSUME NEW c \in Seq(Message), c # << >>, NEW i \in Int
  PROVE  /\ StateIn(Tail(c), i) => StateIn(c, i)
         /\ IdIn(Tail(c), i) => IdIn(c, i)
<1>1. \A k \in DOMAIN Tail(c) : k + 1 \in DOMAIN c /\ Tail(c)[k] = c[k + 1]
  BY Consumed
<1> QED
  BY <1>1 DEF StateIn, IdIn

LEMMA IdsSent ==
  ASSUME NEW c \in Seq(Message), NEW m \in Message, NEW i \in Int
  PROVE  /\ StateIn(Append(c, m), i) =>
              StateIn(c, i) \/ (m.code = "STATE" /\ m.id = i)
         /\ IdIn(Append(c, m), i) => IdIn(c, i) \/ m.id = i
<1>1. \A k \in DOMAIN Append(c, m) :
        \/ k \in DOMAIN c /\ Append(c, m)[k] = c[k]
        \/ k = Len(c) + 1 /\ Append(c, m)[k] = m
  BY Appended
<1> QED
  BY <1>1 DEF StateIn, IdIn

LEMMA IdAtHead ==
  ASSUME NEW c \in Seq(Message), c # << >>
  PROVE  /\ Head(c) \in Message
         /\ IdIn(c, Head(c).id)
         /\ Head(c).code = "STATE" => StateIn(c, Head(c).id)
BY Consumed DEF StateIn, IdIn

\* A new id comes only with a thread that takes the mutex.
LEMMA NewIds ==
  ASSUME TypeInv, ShapeInv, [Next]_vars, NEW f \in Follower,
         NEW i \in Int,
         Carries(f, i)'
  PROVE  \/ Carries(f, i)
         \/ holder = NoHolder /\ holder'.node = f /\ holder'.id = i
<1>0. /\ net[Leader][f] \in Seq(Message) /\ net[f][Leader] \in Seq(Message)
      /\ \A g \in Follower : g \in Node
  BY Constants DEF TypeInv, TypeOK
<1>1. StateIn(net'[Leader][f], i) \/ IdIn(net'[f][Leader], i)
  BY DEF Carries, StateIn, IdIn
<1>2. ASSUME UNCHANGED net PROVE Carries(f, i)
  BY <1>1, <1>2 DEF Carries
<1>3. ASSUME net'[Leader][f] \in {net[Leader][f], Tail(net[Leader][f])},
             net'[Leader][f] # net[Leader][f] => net[Leader][f] # << >>,
             net'[f][Leader] \in {net[f][Leader], Tail(net[f][Leader])},
             net'[f][Leader] # net[f][Leader] => net[f][Leader] # << >>
      PROVE  Carries(f, i)
  <2>1. StateIn(net'[Leader][f], i) => StateIn(net[Leader][f], i)
    BY <1>0, <1>3, IdsLeft
  <2>2. IdIn(net'[f][Leader], i) => IdIn(net[f][Leader], i)
    BY <1>0, <1>3, IdsLeft
  <2> QED
    BY <1>1, <2>1, <2>2 DEF Carries
<1>4. ASSUME NEW n \in Node, NEW src \in Node, handleState(n, src)
      PROVE  Carries(f, i)
  <2> DEFINE h == Head(net[Leader][n])
             m == [code |-> "STATE_UPDATED", id |-> h.id]
  <2>1. /\ n \in Follower
        /\ net[Leader][n] # << >> /\ h.code = "STATE"
        /\ net'[Leader][n] = Tail(net[Leader][n])
        /\ net'[n][Leader] = Append(net[n][Leader], m)
        /\ \A g \in Follower \ {n} : /\ net'[Leader][g] = net[Leader][g]
                                     /\ net'[g][Leader] = net[g][Leader]
    BY <1>4, StateEffect
  <2>2. CASE f # n
    BY <1>3, <2>1, <2>2
  <2>3. CASE f = n
    <3>1. h \in Message
      BY <1>0, <2>1, <2>3, IdAtHead
    <3>2. m \in Message /\ m.id = h.id
      BY <2>1, <3>1, MessageFields, NewMessages
    <3>3. StateIn(net[Leader][f], h.id)
      BY <1>0, <2>1, <2>3, IdAtHead
    <3> HIDE DEF m, h
    <3>4. StateIn(net'[Leader][f], i) => StateIn(net[Leader][f], i)
      BY <1>0, <2>1, <2>3, IdsLeft
    <3>5. IdIn(net'[f][Leader], i) => IdIn(net[f][Leader], i) \/ i = h.id
      BY <1>0, <2>1, <2>3, <3>2, IdsSent
    <3> QED
      BY <1>1, <3>3, <3>4, <3>5 DEF Carries
  <2> QED
    BY <2>2, <2>3
<1>5. ASSUME NEW n \in Node, NEW src \in Node, handleStateUpdate(n, src)
      PROVE  Carries(f, i)
  <2>1. /\ src \in Follower /\ net[src][Leader] # << >>
        /\ net'[src][Leader] = Tail(net[src][Leader])
        /\ \A g \in Follower \ {src} : net'[g][Leader] = net[g][Leader]
        /\ \A g \in Follower : net'[Leader][g] = net[Leader][g]
    BY <1>5, StateUpdateEffect
  <2> QED
    BY <1>3, <2>1
<1>6. ASSUME NEW n \in Node, NEW src \in Node, handleRecovered(n, src)
      PROVE  Carries(f, i)
  <2>1. /\ n \in Follower /\ net[Leader][n] # << >>
        /\ net'[Leader][n] = Tail(net[Leader][n])
        /\ \A g \in Follower \ {n} : net'[Leader][g] = net[Leader][g]
        /\ \A g \in Follower : net'[g][Leader] = net[g][Leader]
    BY <1>6, RecoveredEffect
  <2> QED
    BY <1>3, <2>1
<1>7. ASSUME NEW j \in DOMAIN waiters, SendState(j)
      PROVE  \/ Carries(f, i)
             \/ holder = NoHolder /\ holder'.node = f /\ holder'.id = i
  <2> DEFINE n == waiters[j].node
             m == [code |-> "STATE", id |-> waiters[j].id,
                   state |-> log[Leader]]
  <2>1. /\ n \in Follower /\ m \in Message
        /\ net'[Leader][n] = Append(net[Leader][n], m)
        /\ \A g \in Follower \ {n} : net'[Leader][g] = net[Leader][g]
        /\ \A g \in Follower : net'[g][Leader] = net[g][Leader]
    BY <1>7, SendStateEffect
  <2>2. /\ m.id = waiters[j].id
        /\ holder = NoHolder /\ holder'.node = n /\ holder'.id = waiters[j].id
    BY <1>7 DEF SendState, MutexIsFree
  <2> HIDE DEF m, n
  <2>3. CASE f # n
    BY <1>3, <2>1, <2>3
  <2>4. CASE f = n
    <3>1. net'[Leader][f] = Append(net[Leader][f], m)
      BY <2>1, <2>4
    <3>2. StateIn(net'[Leader][f], i) => StateIn(net[Leader][f], i) \/ m.id = i
      BY <1>0, <2>1, <3>1, IdsSent
    <3> QED
      BY <1>1, <2>1, <2>2, <2>4, <3>2 DEF Carries
  <2> QED
    BY <2>3, <2>4
<1>8. CASE Readmit
  <2> DEFINE m == [code |-> "RECOVERED", node |-> updating]
  <2>1. /\ m \in Message
        /\ net'[Leader][f] = Append(net[Leader][f], m)
        /\ net'[f][Leader] = net[f][Leader]
    BY <1>8, ReadmitEffect
  <2>2. m.code # "STATE"
    OBVIOUS
  <2> HIDE DEF m
  <2>3. StateIn(net'[Leader][f], i) => StateIn(net[Leader][f], i)
    BY <1>0, <2>1, <2>2, IdsSent
  <2> QED
    BY <1>1, <2>1, <2>3 DEF Carries
<1>9. ASSUME NEW n \in Node, NEW m \in Node,
             \/ checkTimeStamps(n) \/ broadcastPing(n)
             \/ handleNodeFailure(n, m)
      PROVE  Carries(f, i)
  BY <1>2, <1>9 DEF checkTimeStamps, broadcastPing, handleNodeFailure
<1>10. ASSUME NEW g \in Follower,
              \/ SetRecoveryId(g) \/ ReceiveAccepted(g)
              \/ Crash(g) \/ Recover(g) \/ ReplWakes(g)
       PROVE  Carries(f, i)
  BY <1>2, <1>10 DEF SetRecoveryId, ReceiveAccepted, Crash, Recover, ReplWakes
<1>11. CASE \/ EndRecovery \/ Tick \/ AcceptConnection \/ WriteLine
            \/ Disconnect \/ UNCHANGED vars
  BY <1>2, <1>11 DEF EndRecovery, Tick, AcceptConnection, WriteLine,
     Disconnect, vars
<1> QED
  BY <1>4, <1>5, <1>6, <1>7, <1>8, <1>9, <1>10, <1>11
     DEF Next, Threads, Environment

\* Half a second more: the next second is one no message carries.
LEMMA TickIds ==
  ASSUME TypeInv, Tick
  PROVE  /\ holder' # NoHolder <=> holder # NoHolder
         /\ holder # NoHolder => /\ holder'.node = holder.node
                                 /\ holder'.id = holder.id
                                 /\ holder'.left = holder.left - 1
         /\ \A i \in UsedIds : i = now' => now' = now /\ loop' = loop + 1
         /\ updating = -1 /\ updating' = -1 /\ net' = net
         /\ curRecoveryId' = curRecoveryId
<1>1. /\ loop' = (loop + 1) % LoopsPerSecond
      /\ now' = IF loop' = 0 THEN NextSecond ELSE now
      /\ holder' = IF holder = NoHolder THEN holder
                   ELSE [holder EXCEPT !.left = @ - 1]
  BY DEF Tick
<1>0. /\ updating = -1 /\ updating' = -1 /\ net' = net
      /\ curRecoveryId' = curRecoveryId
  <2>1. updating = -1
    BY DEF Tick, Quiet
  <2> QED
    BY <2>1 DEF Tick
<1>2. NextSecond \in Nat \ UsedIds
  BY NextSecondIsNew DEF TypeInv
<1>3. loop' = 0 \/ loop' = loop + 1
  <2>1. loop \in 0 .. LoopsPerSecond - 1 /\ LoopsPerSecond \in Nat
    BY Constants DEF TypeInv, TypeOK
  <2>2. \A a, b \in Nat : a < b => (a + 1) % b = a + 1 \/ (a + 1) % b = 0
    OBVIOUS
  <2> QED
    BY <1>1, <2>1, <2>2
<1>4. \A i \in UsedIds : i = now' => now' = now /\ loop' = loop + 1
  BY <1>1, <1>2, <1>3
<1>5. ASSUME holder # NoHolder
      PROVE  /\ holder'.node = holder.node /\ holder'.id = holder.id
             /\ holder'.left = holder.left - 1
  <2>1. holder \in [node : Follower, id : Nat, left : 0 .. Hold]
    BY <1>5 DEF TypeInv, TypeOK, Hold
  <2> QED
    BY <1>1, <1>5, <2>1
<1>6. holder' # NoHolder <=> holder # NoHolder
  <2>1. holder # NoHolder => holder'.node # NoHolder.node
    BY <1>5, HolderType DEF NoHolder
  <2> QED
    BY <1>1, <2>1
<1> QED
  BY <1>0, <1>4, <1>5, <1>6

\* The holder's second is over when its recovery is.
LEMMA EndRecoveryIds ==
  ASSUME TypeInv, IdInv, EndRecovery
  PROVE  /\ holder # NoHolder /\ holder.node \in Follower /\ holder.id # now
         /\ holder' = NoHolder /\ curRecoveryId' = -1
<1>1. holder.left = 0 /\ holder' = NoHolder /\ curRecoveryId' = -1
  BY DEF EndRecovery
<1>2. holder # NoHolder /\ holder.node \in Follower
  BY <1>1, HolderType
<1>3. loop \in 0 .. LoopsPerSecond - 1 /\ LoopsPerSecond \in Nat
  BY Constants DEF TypeInv, TypeOK
<1>4. holder.id = now => Hold <= loop
  BY <1>1, HolderType DEF IdInv, Waited
<1> QED
  BY <1>1, <1>2, <1>3, <1>4, HolderType

LEMMA IdInvariance == Spec => [](TypeInv /\ ShapeInv /\ IdInv)
<1>1. Init => IdInv
  <2> SUFFICES ASSUME Init PROVE IdInv
    OBVIOUS
  <2>1. \A f \in Follower : net[Leader][f] = << >> /\ net[f][Leader] = << >>
    BY Constants DEF Init, EmptyChannels
  <2>2. \A f \in Follower : \A i \in {curRecoveryId, now} : ~ Carries(f, i)
    BY <2>1 DEF Carries, StateIn, IdIn
  <2>3. /\ holder = NoHolder /\ client = "none" /\ updating = -1
        /\ holder.id # now
    BY DEF Init, NoHolder
  <2> QED
    BY <2>2, <2>3 DEF IdInv
<1>2. TypeInv /\ ShapeInv /\ IdInv /\ [Next]_vars => IdInv'
  <2> SUFFICES ASSUME TypeInv, ShapeInv, IdInv, [Next]_vars PROVE IdInv'
    OBVIOUS
  <2>0. /\ curRecoveryId \in Int /\ now \in Nat /\ loop \in Nat
        /\ curRecoveryId' \in Int /\ now' \in Nat
    <3>1. TypeInv'
      BY TypeStep
    <3> QED
      BY <3>1, Constants DEF TypeInv, TypeOK
  <2>1. \A f \in Follower : \A i \in {curRecoveryId, now} :
          Carries(f, i) => holder.node = f /\ holder.id = i
    BY DEF IdInv
  <2>2. ASSUME NEW f \in Follower, NEW i \in Int, Carries(f, i)'
        PROVE  \/ Carries(f, i)
               \/ holder = NoHolder /\ holder'.node = f /\ holder'.id = i
    BY <2>2, NewIds
  <2>3. ASSUME UNCHANGED <<holder, curRecoveryId, now, loop>>,
               holder # NoHolder => client' = "none",
               updating' # -1 => client' \in {"none", "connected"}
        PROVE  IdInv'
    <3>1. \A f \in Follower : \A i \in {curRecoveryId', now'} :
            Carries(f, i)' => holder'.node = f /\ holder'.id = i
      <4> SUFFICES ASSUME NEW f \in Follower, NEW i \in {curRecoveryId, now},
                          Carries(f, i)'
                   PROVE  holder.node = f /\ holder.id = i
        BY <2>3
      <4>1. i \in Int
        BY <2>0
      <4>2. CASE Carries(f, i)
        BY <2>1, <4>2
      <4>3. CASE ~ Carries(f, i)
        BY <2>2, <2>3, <4>1, <4>3
      <4> QED
        BY <4>2, <4>3
    <3> QED
      BY <2>3, <3>1 DEF IdInv, Waited
  <2>4. ASSUME UNCHANGED <<holder, curRecoveryId, now, loop, client, updating>>
        PROVE  IdInv'
    BY <2>3, <2>4 DEF IdInv
  <2>5. ASSUME NEW n \in Node, NEW src \in Node, handleStateUpdate(n, src)
        PROVE  IdInv'
    <3>1. /\ src \in Follower /\ net[src][Leader] # << >>
          /\ updating' = IF Head(net[src][Leader]).id = curRecoveryId
                         THEN src ELSE -1
          /\ UNCHANGED <<holder, curRecoveryId, now, loop, client>>
      BY <2>5, StateUpdateEffect DEF handleStateUpdate, time, clientThread
    <3>2. updating' # -1 => Carries(src, curRecoveryId)
      <4>1. net[src][Leader] \in Seq(Message)
        BY <3>1, Constants DEF TypeInv, TypeOK
      <4> QED
        BY <3>1, <4>1, IdAtHead DEF Carries
    <3>3. updating' # -1 => holder # NoHolder
      BY <2>1, <3>1, <3>2, HolderType
    <3> QED
      BY <2>3, <3>1, <3>3 DEF IdInv
  <2>6. CASE Readmit
    BY <2>3, <2>6 DEF Readmit, time, clientThread, IdInv
  <2>7. ASSUME NEW f \in Follower, SetRecoveryId(f)
        PROVE  IdInv'
    <3>1. /\ curRecoveryId' = now /\ net' = net
          /\ UNCHANGED <<holder, now, loop, client, updating>>
      BY <2>7 DEF SetRecoveryId, time, clientThread
    <3> QED
      BY <3>1 DEF IdInv, Waited, Carries
  <2>8. ASSUME NEW j \in DOMAIN waiters, SendState(j)
        PROVE  IdInv'
    <3>1. /\ holder = NoHolder /\ client = "none" /\ holder'.left = Hold
          /\ UNCHANGED <<now, loop, curRecoveryId, client, updating>>
      BY <2>8 DEF SendState, MutexIsFree, time, clientThread, Hold
    <3>2. \A f \in Follower : \A i \in {curRecoveryId', now'} :
            Carries(f, i)' => holder'.node = f /\ holder'.id = i
      <4> SUFFICES ASSUME NEW f \in Follower, NEW i \in {curRecoveryId, now},
                          Carries(f, i)'
                   PROVE  holder'.node = f /\ holder'.id = i
        BY <3>1
      <4>1. ~ Carries(f, i)
        BY <2>1, <3>1, HolderType
      <4> QED
        BY <2>0, <2>2, <4>1
    <3>3. Waited' = 0
      BY <3>1, HolderType DEF Waited
    <3>4. Waited' <= loop'
      BY <2>0, <3>1, <3>3
    <3> QED
      BY <3>1, <3>2, <3>4 DEF IdInv
  <2>9. CASE EndRecovery
    <3>1. /\ holder.id # now /\ holder' = NoHolder /\ curRecoveryId' = -1
          /\ holder # NoHolder
      BY <2>9, EndRecoveryIds
    <3>2. UNCHANGED <<net, now, loop, client, updating>>
      BY <2>9 DEF EndRecovery, time, clientThread
    <3>3. \A f \in Follower : ~ Carries(f, now) /\ ~ Carries(f, -1)
      BY <2>1, <3>1, CarriedType
    <3>4. \A f \in Follower : \A i \in {curRecoveryId', now'} : ~ Carries(f, i)'
      BY <3>1, <3>2, <3>3 DEF Carries
    <3>5. holder'.id # now'
      BY <2>0, <3>1, <3>2 DEF NoHolder
    <3> QED
      BY <3>1, <3>2, <3>4, <3>5 DEF IdInv
  <2>10. CASE AcceptConnection \/ WriteLine \/ Disconnect
    <3>1. /\ UNCHANGED <<holder, curRecoveryId, now, loop, updating>>
          /\ holder # NoHolder => client' = client
          /\ updating # -1 => client' \in {"none", "connected"}
      BY <2>10 DEF AcceptConnection, WriteLine, Disconnect, MutexIsFree, time,
         recovery, IdInv
    <3> QED
      BY <2>3, <3>1 DEF IdInv
  <2>11. CASE Tick
    <3>1. /\ holder' # NoHolder <=> holder # NoHolder
          /\ holder # NoHolder => /\ holder'.node = holder.node
                                  /\ holder'.id = holder.id
                                  /\ holder'.left = holder.left - 1
          /\ \A i \in UsedIds : i = now' => now' = now /\ loop' = loop + 1
          /\ updating' = -1 /\ net' = net /\ curRecoveryId' = curRecoveryId
      BY <2>11, TickIds
    <3>2. client = "none" => client' = "none"
      BY <2>11 DEF Tick
    <3>3. holder'.id = now' => Waited' <= loop'
      <4>1. CASE holder = NoHolder
        <5>1. holder' = NoHolder
          BY <3>1, <4>1
        <5> QED
          BY <2>0, <5>1 DEF NoHolder
      <4>2. CASE holder # NoHolder
        <5>1. holder.id \in UsedIds
          BY DEF UsedIds
        <5>2. holder.id = now' => now' = now /\ loop' = loop + 1
          BY <3>1, <5>1
        <5>3. Waited' = Waited + 1 /\ Waited \in Int
          BY <3>1, <4>2, HolderType DEF Waited
        <5> QED
          BY <2>0, <3>1, <4>2, <5>2, <5>3 DEF IdInv
      <4> QED
        BY <4>1, <4>2
    <3>4. \A f \in Follower : \A i \in {curRecoveryId', now'} :
            Carries(f, i)' => holder'.node = f /\ holder'.id = i
      <4> SUFFICES ASSUME NEW f \in Follower, NEW i \in {curRecoveryId, now'},
                          Carries(f, i)'
                   PROVE  holder'.node = f /\ holder'.id = i
        BY <3>1
      <4>1. Carries(f, i) /\ i \in Int
        BY <2>0, <3>1 DEF Carries
      <4>2. i \in UsedIds
        BY <4>1, CarriedType
      <4>3. i \in {curRecoveryId, now}
        BY <3>1, <4>2
      <4>4. holder.node = f /\ holder.id = i
        BY <2>1, <4>1, <4>3
      <4> QED
        BY <3>1, <4>4, HolderType
    <3> QED
      BY <3>1, <3>2, <3>3, <3>4 DEF IdInv
  <2>12. ASSUME NEW n \in Node, NEW m \in Node,
                \/ checkTimeStamps(n) \/ broadcastPing(n)
                \/ handleNodeFailure(n, m) \/ handleState(n, m)
                \/ handleRecovered(n, m)
         PROVE  IdInv'
    BY <2>4, <2>12 DEF checkTimeStamps, broadcastPing, handleNodeFailure,
       handleState, handleRecovered, time, recovery, clientThread
  <2>13. ASSUME NEW f \in Follower,
                ReceiveAccepted(f) \/ Crash(f) \/ Recover(f) \/ ReplWakes(f)
         PROVE  IdInv'
    BY <2>4, <2>13 DEF ReceiveAccepted, Crash, Recover, ReplWakes, time,
       recovery, clientThread
  <2>14. CASE UNCHANGED vars
    BY <2>4, <2>14 DEF vars, time, recovery, clientThread
  <2> QED
    BY <2>5, <2>6, <2>7, <2>8, <2>9, <2>10, <2>11, <2>12, <2>13, <2>14
       DEF Next, Threads, Environment
<1> QED
  BY <1>1, <1>2, ShapeInvariance, PTL DEF Spec

--------------------------------------------------------------------------------
(* A readmitted node misses nothing.                                        *)

HasState(c) == \E k \in DOMAIN c : c[k].code = "STATE"

\* A STATE of c with one of these ids is the last of c, and carries l.
Latest(c, ids, l) ==
  \A k \in DOMAIN c :
    c[k].code = "STATE" /\ c[k].id \in ids =>
      /\ c[k].state = l
      /\ \A j \in DOMAIN c : c[j].code = "STATE" => j <= k

\* Each STATE of c carries what l has.
AllCarry(c, l) ==
  \A k \in DOMAIN c :
    c[k].code = "STATE" => Range(l) \subseteq Range(c[k].state)

LEMMA LatestLeft ==
  ASSUME NEW c \in Seq(Message), c # << >>, NEW ids \in SUBSET Int,
         NEW l \in Seq(Line)
  PROVE  /\ HasState(Tail(c)) => HasState(c)
         /\ Latest(c, ids, l) => Latest(Tail(c), ids, l)
         /\ AllCarry(c, l) => AllCarry(Tail(c), l)
<1>1. /\ \A k \in DOMAIN Tail(c) :
           k \in Nat /\ k + 1 \in DOMAIN c /\ Tail(c)[k] = c[k + 1]
  BY Consumed
<1>2. HasState(Tail(c)) => HasState(c)
  BY <1>1 DEF HasState
<1>3. AllCarry(c, l) => AllCarry(Tail(c), l)
  BY <1>1 DEF AllCarry
<1>4. ASSUME Latest(c, ids, l),
             NEW k \in DOMAIN Tail(c),
             Tail(c)[k].code = "STATE", Tail(c)[k].id \in ids
      PROVE  /\ Tail(c)[k].state = l
             /\ \A j \in DOMAIN Tail(c) : Tail(c)[j].code = "STATE" => j <= k
  <2>1. /\ k + 1 \in DOMAIN c /\ Tail(c)[k] = c[k + 1] /\ k \in Nat
    BY <1>1
  <2>2. /\ c[k + 1].state = l
        /\ \A j \in DOMAIN c : c[j].code = "STATE" => j <= k + 1
    BY <1>4, <2>1 DEF Latest
  <2>3. ASSUME NEW j \in DOMAIN Tail(c), Tail(c)[j].code = "STATE"
        PROVE  j <= k
    <3>1. j \in Nat /\ j + 1 \in DOMAIN c /\ c[j + 1].code = "STATE"
      BY <1>1, <2>3
    <3>2. j + 1 <= k + 1
      BY <2>2, <3>1
    <3> QED
      BY <2>1, <3>1, <3>2
  <2> QED
    BY <2>1, <2>2, <2>3
<1>5. Latest(c, ids, l) => Latest(Tail(c), ids, l)
  BY <1>4 DEF Latest
<1> QED
  BY <1>2, <1>3, <1>5

LEMMA LatestAtHead ==
  ASSUME NEW c \in Seq(Message), c # << >>, Head(c).code = "STATE",
         NEW ids \in SUBSET Int, NEW l \in Seq(Line)
  PROVE  /\ HasState(c)
         /\ AllCarry(c, l) => Range(l) \subseteq Range(Head(c).state)
         /\ Latest(c, ids, l) /\ Head(c).id \in ids =>
              Head(c).state = l /\ ~ HasState(Tail(c))
<1>1. /\ 1 \in DOMAIN c /\ Head(c) = c[1]
      /\ \A k \in DOMAIN Tail(c) :
           k \in Nat /\ k + 1 \in DOMAIN c /\ Tail(c)[k] = c[k + 1]
      /\ DOMAIN Tail(c) \subseteq Nat \ {0}
  <2>1. Tail(c) \in Seq(Message)
    OBVIOUS
  <2>2. DOMAIN Tail(c) \subseteq Nat \ {0}
    BY <2>1
  <2> QED
    BY <2>2, Consumed
<1>2. /\ HasState(c)
      /\ AllCarry(c, l) => Range(l) \subseteq Range(Head(c).state)
  BY <1>1 DEF HasState, AllCarry
<1>3. ASSUME Latest(c, ids, l), Head(c).id \in ids
      PROVE  Head(c).state = l /\ ~ HasState(Tail(c))
  <2>1. /\ Head(c).state = l
        /\ \A j \in DOMAIN c : c[j].code = "STATE" => j <= 1
    BY <1>1, <1>3 DEF Latest
  <2>2. ASSUME NEW k \in DOMAIN Tail(c), Tail(c)[k].code = "STATE"
        PROVE  FALSE
    <3>1. k \in Nat \ {0} /\ k + 1 \in DOMAIN c /\ c[k + 1].code = "STATE"
      BY <1>1, <2>2
    <3> QED
      BY <2>1, <3>1
  <2> QED
    BY <2>1, <2>2 DEF HasState
<1> QED
  BY <1>2, <1>3

LEMMA LatestSent ==
  ASSUME NEW c \in Seq(Message), NEW m \in Message, NEW ids \in SUBSET Int,
         NEW l \in Seq(Line)
  PROVE  /\ m.code # "STATE" =>
              /\ HasState(Append(c, m)) => HasState(c)
              /\ Latest(c, ids, l) => Latest(Append(c, m), ids, l)
              /\ AllCarry(c, l) => AllCarry(Append(c, m), l)
         /\ m.code = "STATE" /\ m.state = l =>
              /\ (\A i \in ids : ~ StateIn(c, i)) =>
                   Latest(Append(c, m), ids, l)
              /\ AllCarry(c, l) => AllCarry(Append(c, m), l)
<1> DEFINE d == Append(c, m)
<1>1. /\ \A k \in DOMAIN d : \/ k \in DOMAIN c /\ d[k] = c[k]
                             \/ k = Len(c) + 1 /\ d[k] = m
      /\ \A k \in DOMAIN c : k \in Nat /\ k <= Len(c)
      /\ Len(c) \in Nat
  BY Appended
<1> HIDE DEF d
<1>2. ASSUME m.code # "STATE"
      PROVE  /\ HasState(d) => HasState(c)
             /\ Latest(c, ids, l) => Latest(d, ids, l)
             /\ AllCarry(c, l) => AllCarry(d, l)
  <2>1. \A k \in DOMAIN d : d[k].code = "STATE" => k \in DOMAIN c /\ d[k] = c[k]
    BY <1>1, <1>2
  <2> QED
    BY <2>1 DEF HasState, Latest, AllCarry
<1>3. ASSUME m.code = "STATE", m.state = l
      PROVE  AllCarry(c, l) => AllCarry(d, l)
  BY <1>1, <1>3 DEF AllCarry
<1>4. ASSUME m.code = "STATE", m.state = l, \A i \in ids : ~ StateIn(c, i)
      PROVE  Latest(d, ids, l)
  <2>1. ASSUME NEW k \in DOMAIN d, d[k].code = "STATE", d[k].id \in ids
        PROVE  /\ d[k].state = l
               /\ \A j \in DOMAIN d : d[j].code = "STATE" => j <= k
    <3>1. ~ (k \in DOMAIN c /\ d[k] = c[k])
      BY <1>4, <2>1 DEF StateIn
    <3>2. k = Len(c) + 1 /\ d[k] = m
      BY <1>1, <3>1
    <3>3. \A j \in DOMAIN d : j \in Nat /\ j <= k
      BY <1>1, <3>2
    <3> QED
      BY <1>4, <3>2, <3>3
  <2> QED
    BY <2>1 DEF Latest
<1> QED
  BY <1>2, <1>3, <1>4 DEF d

LEMMA NoneLatest ==
  ASSUME NEW c \in Seq(Message), NEW ids \in SUBSET Int, NEW l,
         \A i \in ids : ~ StateIn(c, i)
  PROVE  Latest(c, ids, l)
BY DEF Latest, StateIn

LEMMA FewerLatest ==
  ASSUME NEW c \in Seq(Message), NEW ids \in SUBSET Int, NEW l,
         NEW more \in SUBSET Int, Latest(c, more, l),
         \A i \in ids : StateIn(c, i) => i \in more
  PROVE  Latest(c, ids, l)
BY DEF Latest, StateIn

Live == {curRecoveryId, now}

Pending(f) == HasState(net[Leader][f])

\* The leader has an answer of f it will take, or has taken one.
Answered(f) == updating = f \/ \E i \in Live : IdIn(net[f][Leader], i)

\* What the leader has written, f has or is sent; a STATE it may still handle
\* does not take it away.
MissesNothing(f) ==
  /\ Range(log[Leader]) \subseteq Range(log[f] \o lines[f])
  /\ AllCarry(net[Leader][f], log[Leader])

LatestInv == \A f \in Follower : Latest(net[Leader][f], Live, log[Leader])

\* An answer to be taken is no older than this loop if a STATE still waits: the
\* leader handles it at once.
AtOnceInv ==
  \A f \in Follower :
    Pending(f) /\ Answered(f) => holder.node = f /\ holder.left = Hold

CurrentInv ==
  \A f \in Follower : Admitted(f) \/ Answered(f) => MissesNothing(f)

\* The facts of a state that all the steps use.
LEMMA StateFacts ==
  ASSUME TypeInv
  PROVE  /\ Leader \in Node /\ log[Leader] \in Seq(Line)
         /\ Live \in SUBSET Int /\ curRecoveryId \in Int /\ now \in Int
         /\ \A f \in Follower :
              /\ f \in Node /\ f # Leader /\ f # -1
              /\ net[Leader][f] \in Seq(Message)
              /\ net[f][Leader] \in Seq(Message)
              /\ log[f] \in Seq(Line) /\ lines[f] \in Seq(Line)
<1>1. Leader \in Node /\ \A f \in Follower : f \in Node /\ f # Leader /\ f # -1
  BY Constants
<1>2. curRecoveryId \in Int /\ now \in Int
  BY DEF TypeInv, TypeOK
<1>3. /\ log[Leader] \in Seq(Line)
      /\ \A f \in Follower : /\ net[Leader][f] \in Seq(Message)
                             /\ net[f][Leader] \in Seq(Message)
                             /\ log[f] \in Seq(Line) /\ lines[f] \in Seq(Line)
  BY <1>1 DEF TypeInv, TypeOK
<1> QED
  BY <1>1, <1>2, <1>3 DEF Live

\* Nothing live is on its way while nobody has the mutex.
LEMMA NothingLive ==
  ASSUME TypeInv, IdInv, holder = NoHolder, NEW f \in Follower, NEW i \in Live
  PROVE  /\ ~ StateIn(net[Leader][f], i) /\ ~ IdIn(net[f][Leader], i)
BY HolderType DEF IdInv, Live, Carries

\* The ids that are live after a step, of the messages that were there before.
LEMMA LiveBefore ==
  ASSUME TypeInv, ShapeInv, IdInv, [Next]_vars,
         NEW f \in Follower, NEW i \in Live', Carries(f, i)
  PROVE  i \in Live
<1>0. i \in Int
  <2>1. TypeInv'
    BY TypeStep
  <2> QED
    BY <2>1 DEF TypeInv, TypeOK, Live
<1>1. i \in Nat /\ i \in UsedIds
  BY <1>0, CarriedType
<1>2. CASE Tick
  BY <1>1, <1>2, TickIds DEF Live
<1>3. CASE \E g \in Follower : SetRecoveryId(g)
  BY <1>3 DEF Live, SetRecoveryId, time
<1>4. CASE EndRecovery
  <2>1. curRecoveryId' = -1 /\ now' = now
    BY <1>4 DEF EndRecovery, time
  <2> QED
    BY <1>1, <2>1 DEF Live
<1>5. CASE UNCHANGED <<curRecoveryId, now>>
  BY <1>5 DEF Live
<1>6. ASSUME NEW n \in Node, NEW m \in Node,
             \/ checkTimeStamps(n) \/ broadcastPing(n)
             \/ handleNodeFailure(n, m) \/ handleState(n, m)
             \/ handleStateUpdate(n, m) \/ handleRecovered(n, m)
      PROVE  UNCHANGED <<curRecoveryId, now>>
  BY <1>6 DEF checkTimeStamps, broadcastPing, handleNodeFailure, handleState,
     handleStateUpdate, handleRecovered, time, recovery
<1>7. ASSUME NEW g \in Follower,
             ReceiveAccepted(g) \/ Crash(g) \/ Recover(g) \/ ReplWakes(g)
      PROVE  UNCHANGED <<curRecoveryId, now>>
  BY <1>7 DEF ReceiveAccepted, Crash, Recover, ReplWakes, time, recovery
<1>8. ASSUME \/ AcceptConnection \/ WriteLine \/ Disconnect \/ Readmit
             \/ UNCHANGED vars \/ \E j \in DOMAIN waiters : SendState(j)
      PROVE  UNCHANGED <<curRecoveryId, now>>
  BY <1>8 DEF AcceptConnection, WriteLine, Disconnect, Readmit, SendState, vars,
     time, recovery
<1> QED
  BY <1>2, <1>3, <1>4, <1>5, <1>6, <1>7, <1>8 DEF Next, Threads, Environment

(****************************************************************************)
(* What a step does to the channel of f.                                    *)
(****************************************************************************)
Kept(f) ==
  /\ net'[Leader][f] = net[Leader][f]
  /\ net'[f][Leader] = net[f][Leader]
  /\ updating' = f => updating = f

Answers(f) ==
  /\ net[Leader][f] # << >> /\ Head(net[Leader][f]).code = "STATE"
  /\ net'[Leader][f] = Tail(net[Leader][f])
  /\ net'[f][Leader] = Append(net[f][Leader],
       [code |-> "STATE_UPDATED", id |-> Head(net[Leader][f]).id])
  /\ log' = [log EXCEPT ![f] = Head(net[Leader][f]).state]
  /\ UNCHANGED <<updating, holder, curRecoveryId, now, lines, processIsAlive>>

Takes(f) ==
  /\ net[f][Leader] # << >>
  /\ net'[Leader][f] = net[Leader][f]
  /\ net'[f][Leader] = Tail(net[f][Leader])
  /\ updating' = f => Head(net[f][Leader]).id = curRecoveryId
  /\ UNCHANGED <<holder, curRecoveryId, now, log, lines, processIsAlive>>

Forgets(f) ==
  /\ net[Leader][f] # << >> /\ Head(net[Leader][f]).code = "RECOVERED"
  /\ net'[Leader][f] = Tail(net[Leader][f])
  /\ net'[f][Leader] = net[f][Leader]
  /\ processIsAlive'[Leader] = processIsAlive[Leader]
  /\ UNCHANGED <<updating, holder, curRecoveryId, now, log, lines>>

IsSent(f) ==
  /\ holder = NoHolder /\ client = "none"
  /\ holder' = [node |-> f, id |-> holder'.id, left |-> Hold]
  /\ net'[Leader][f] = Append(net[Leader][f],
       [code |-> "STATE", id |-> holder'.id, state |-> log[Leader]])
  /\ [code |-> "STATE", id |-> holder'.id, state |-> log[Leader]] \in Message
  /\ net'[f][Leader] = net[f][Leader]
  /\ UNCHANGED <<updating, curRecoveryId, now, log, lines, processIsAlive>>

IsTold(f) ==
  /\ updating \in Follower /\ updating' = -1
  /\ [code |-> "RECOVERED", node |-> updating] \in Message
  /\ net'[Leader][f] = Append(net[Leader][f],
                              [code |-> "RECOVERED", node |-> updating])
  /\ net'[f][Leader] = net[f][Leader]
  /\ processIsAlive'[Leader] =
       [processIsAlive[Leader] EXCEPT ![idToIndex(Leader, updating)] = TRUE]
  /\ UNCHANGED <<holder, curRecoveryId, now, log, lines>>

\* One of these, whatever the step.
LEMMA ChannelStep ==
  ASSUME TypeInv, ShapeInv, [Next]_vars, NEW f \in Follower
  PROVE  \/ Kept(f) \/ Answers(f) \/ Takes(f) \/ Forgets(f) \/ IsSent(f)
         \/ IsTold(f)
<1>0. f \in Node /\ f # Leader
  BY StateFacts
<1>1. ASSUME NEW n \in Node, NEW src \in Node, handleState(n, src)
      PROVE  Kept(f) \/ Answers(f)
  <2>1. UNCHANGED <<updating, holder, curRecoveryId, now, lines,
                    processIsAlive>>
    BY <1>1 DEF handleState, tables, time, recovery
  <2>2. CASE n = f
    BY <1>1, <2>1, <2>2, StateEffect DEF Answers
  <2>3. CASE n # f
    BY <1>1, <2>1, <2>3, StateEffect DEF Kept
  <2> QED
    BY <2>2, <2>3
<1>2. ASSUME NEW n \in Node, NEW src \in Node, handleStateUpdate(n, src)
      PROVE  Kept(f) \/ Takes(f)
  <2>1. UNCHANGED <<holder, curRecoveryId, now, log, lines, processIsAlive>>
    BY <1>2 DEF handleStateUpdate, tables, time, files
  <2>0. updating = -1
    BY <1>2 DEF handleStateUpdate
  <2>2. CASE src = f
    <3>1. /\ net[f][Leader] # << >>
          /\ net'[f][Leader] = Tail(net[f][Leader])
          /\ net'[Leader][f] = net[Leader][f]
          /\ updating' = IF Head(net[f][Leader]).id = curRecoveryId
                         THEN f ELSE -1
      BY <1>2, <2>2, StateUpdateEffect
    <3>2. f # -1
      BY StateFacts
    <3>3. updating' = f => Head(net[f][Leader]).id = curRecoveryId
      BY <3>1, <3>2
    <3> QED
      BY <2>1, <3>1, <3>3 DEF Takes
  <2>3. CASE src # f
    <3>1. /\ net'[Leader][f] = net[Leader][f]
          /\ net'[f][Leader] = net[f][Leader]
          /\ updating' \in {src, -1} /\ f # -1
      BY <1>2, <2>3, StateUpdateEffect, StateFacts
    <3> QED
      BY <2>3, <3>1 DEF Kept
  <2> QED
    BY <2>2, <2>3
<1>3. ASSUME NEW n \in Node, NEW src \in Node, handleRecovered(n, src)
      PROVE  Kept(f) \/ Forgets(f)
  <2>1. UNCHANGED <<updating, holder, curRecoveryId, now, log, lines>>
    BY <1>3 DEF handleRecovered, time, recovery, files
  <2>2. CASE n = f
    BY <1>3, <2>1, <2>2, RecoveredEffect DEF Forgets
  <2>3. CASE n # f
    BY <1>3, <2>1, <2>3, RecoveredEffect DEF Kept
  <2> QED
    BY <2>2, <2>3
<1>4. ASSUME NEW j \in DOMAIN waiters, SendState(j)
      PROVE  Kept(f) \/ IsSent(f)
  <2> DEFINE w == waiters[j]
             m == [code |-> "STATE", id |-> w.id, state |-> log[Leader]]
  <2>1. /\ holder = NoHolder /\ client = "none"
        /\ holder' = [node |-> w.node, id |-> w.id, left |-> Hold]
        /\ UNCHANGED <<updating, curRecoveryId, now, log, lines,
                       processIsAlive>>
    BY <1>4 DEF SendState, MutexIsFree, tables, time, files, Hold
  <2>2. /\ m \in Message
        /\ net'[Leader][w.node] = Append(net[Leader][w.node], m)
        /\ \A g \in Follower \ {w.node} : net'[Leader][g] = net[Leader][g]
        /\ \A g \in Follower : net'[g][Leader] = net[g][Leader]
    BY <1>4, SendStateEffect
  <2>3. holder'.id = w.id /\ m = [code |-> "STATE", id |-> holder'.id,
                                  state |-> log[Leader]]
    BY <2>1
  <2>4. CASE w.node = f
    <3>1. holder' = [node |-> f, id |-> holder'.id, left |-> Hold]
      BY <2>1, <2>3, <2>4
    <3> HIDE DEF w, m
    <3> QED
      BY <2>1, <2>2, <2>3, <2>4, <3>1 DEF IsSent
  <2>5. CASE w.node # f
    BY <2>1, <2>2, <2>5 DEF Kept
  <2> QED
    BY <2>4, <2>5
<1>5. CASE Readmit
  <2>1. UNCHANGED <<holder, curRecoveryId, now, log, lines>> /\ updating' = -1
    BY <1>5 DEF Readmit, time, files
  <2> QED
    BY <1>5, <2>1, ReadmitEffect DEF IsTold
<1>6. ASSUME UNCHANGED <<net, updating>> PROVE Kept(f)
  BY <1>6 DEF Kept
<1>7. ASSUME NEW n \in Node, NEW m \in Node,
             \/ checkTimeStamps(n) \/ broadcastPing(n)
             \/ handleNodeFailure(n, m)
      PROVE  Kept(f)
  BY <1>6, <1>7
     DEF checkTimeStamps, broadcastPing, handleNodeFailure, recovery
<1>8. ASSUME NEW g \in Follower,
             \/ SetRecoveryId(g) \/ ReceiveAccepted(g)
             \/ Crash(g) \/ Recover(g) \/ ReplWakes(g)
      PROVE  Kept(f)
  BY <1>6, <1>8 DEF SetRecoveryId, ReceiveAccepted, Crash, Recover, ReplWakes,
     recovery
<1>9. CASE \/ EndRecovery \/ Tick \/ AcceptConnection \/ WriteLine
           \/ Disconnect \/ UNCHANGED vars
  BY <1>6, <1>9 DEF EndRecovery, Tick, AcceptConnection, WriteLine,
     Disconnect, vars, recovery
<1> QED
  BY <1>1, <1>2, <1>3, <1>4, <1>5, <1>7, <1>8, <1>9
     DEF Next, Threads, Environment

\* What else the steps do: to the files, to the leader's table, to the mutex.
LEMMA FileStep ==
  ASSUME TypeInv, ShapeInv, [Next]_vars, NEW f \in Follower
  PROVE  \/ /\ log'[Leader] = log[Leader] /\ log'[f] = log[f]
            /\ lines'[f] = lines[f]
         \/ Answers(f) /\ log'[Leader] = log[Leader]
         \/ ReceiveAccepted(f) /\ log'[Leader] = log[Leader]
         \/ WriteLine
<1>0. /\ f \in Node /\ f # Leader /\ Leader \in Node
      /\ log \in [Node -> Seq(Line)] /\ lines \in [Node -> Seq(Line)]
      /\ \A g \in Follower : g \in Node /\ g # Leader
  BY StateFacts DEF TypeInv, TypeOK
<1>1. ASSUME UNCHANGED files
      PROVE  /\ log'[Leader] = log[Leader] /\ log'[f] = log[f]
             /\ lines'[f] = lines[f]
  BY <1>1 DEF files
<1>2. ASSUME NEW n \in Node, NEW src \in Node, handleState(n, src)
      PROVE  /\ lines'[f] = lines[f] /\ log'[Leader] = log[Leader]
             /\ n # f => log'[f] = log[f]
             /\ n = f => Answers(f)
  <2>1. UNCHANGED <<updating, holder, curRecoveryId, now, lines,
                    processIsAlive>>
    BY <1>2 DEF handleState, tables, time, recovery
  <2>2. n = f => Answers(f)
    BY <1>2, <2>1, StateEffect DEF Answers
  <2>3. log' = [log EXCEPT ![n] = Head(net[Leader][n]).state] /\ n # Leader
    BY <1>0, <1>2, StateEffect
  <2> QED
    BY <1>0, <2>1, <2>2, <2>3
<1>3. ASSUME NEW g \in Follower, ReceiveAccepted(g)
      PROVE  /\ log'[Leader] = log[Leader]
             /\ g # f => log'[f] = log[f] /\ lines'[f] = lines[f]
  BY <1>0, <1>3 DEF ReceiveAccepted
<1>4. ASSUME NEW n \in Node, NEW m \in Node,
             \/ checkTimeStamps(n) \/ broadcastPing(n)
             \/ handleNodeFailure(n, m) \/ handleStateUpdate(n, m)
             \/ handleRecovered(n, m)
      PROVE  UNCHANGED files
  BY <1>4 DEF checkTimeStamps, broadcastPing, handleNodeFailure,
     handleStateUpdate, handleRecovered
<1>5. ASSUME NEW g \in Follower,
             SetRecoveryId(g) \/ Crash(g) \/ Recover(g) \/ ReplWakes(g)
      PROVE  UNCHANGED files
  BY <1>5 DEF SetRecoveryId, Crash, Recover, ReplWakes
<1>6. ASSUME \/ EndRecovery \/ Tick \/ AcceptConnection \/ Disconnect
             \/ Readmit \/ UNCHANGED vars
             \/ \E j \in DOMAIN waiters : SendState(j)
      PROVE  UNCHANGED files
  BY <1>6 DEF EndRecovery, Tick, AcceptConnection, Disconnect, Readmit,
     SendState, vars
<1> QED
  BY <1>1, <1>2, <1>3, <1>4, <1>5, <1>6 DEF Next, Threads, Environment

LEMMA AdmittedStep ==
  ASSUME TypeInv, ShapeInv, [Next]_vars, NEW f \in Follower, Admitted(f)'
  PROVE  Admitted(f) \/ (Readmit /\ updating = f)
<1>0. /\ f \in Node \ {Leader} /\ Leader \in Node
      /\ processIsAlive \in [Node -> [Index -> BOOLEAN]]
      /\ idToIndex(Leader, f) \in Index
      /\ processIsAlive'[Leader][idToIndex(Leader, f)]
  BY StateFacts, Indices DEF TypeInv, TypeOK, Admitted, idToIndex
<1>1. ASSUME processIsAlive'[Leader] = processIsAlive[Leader]
      PROVE  Admitted(f)
  BY <1>0, <1>1 DEF Admitted
<1>2. ASSUME NEW n \in Node, NEW m \in Node, handleNodeFailure(n, m)
      PROVE  Admitted(f)
  <2>1. processIsAlive' =
          [processIsAlive EXCEPT ![n][idToIndex(n, m)] = FALSE]
    BY <1>2 DEF handleNodeFailure, setNodeStatus
  <2> QED
    BY <1>0, <2>1 DEF Admitted
<1>3. ASSUME NEW n \in Node, NEW src \in Node, handleRecovered(n, src)
      PROVE  Admitted(f)
  BY <1>1, <1>3, RecoveredEffect
<1>4. ASSUME Readmit PROVE Admitted(f) \/ updating = f
  <2>1. /\ updating \in Follower /\ updating \in Node \ {Leader}
        /\ processIsAlive'[Leader] =
             [processIsAlive[Leader]
                EXCEPT ![idToIndex(Leader, updating)] = TRUE]
    BY <1>4, ReadmitEffect, StateFacts
  <2>2. CASE idToIndex(Leader, f) = idToIndex(Leader, updating)
    BY <1>0, <2>1, <2>2, Indices
  <2>3. CASE idToIndex(Leader, f) # idToIndex(Leader, updating)
    <3>1. processIsAlive[Leader] \in [Index -> BOOLEAN]
      BY <1>0
    <3> QED
      BY <1>0, <2>1, <2>3, <3>1 DEF Admitted
  <2> QED
    BY <2>2, <2>3
<1>5. ASSUME NEW n \in Node, NEW m \in Node,
             \/ checkTimeStamps(n) \/ broadcastPing(n)
             \/ handleState(n, m) \/ handleStateUpdate(n, m)
      PROVE  Admitted(f)
  BY <1>1, <1>5 DEF checkTimeStamps, broadcastPing, handleState,
     handleStateUpdate, tables
<1>6. ASSUME NEW g \in Follower,
             \/ SetRecoveryId(g) \/ ReceiveAccepted(g)
             \/ Crash(g) \/ Recover(g) \/ ReplWakes(g)
      PROVE  Admitted(f)
  BY <1>1, <1>6 DEF SetRecoveryId, ReceiveAccepted, Crash, Recover, ReplWakes,
     tables
<1>7. ASSUME \/ EndRecovery \/ Tick \/ AcceptConnection \/ Disconnect
             \/ WriteLine \/ UNCHANGED vars
             \/ \E j \in DOMAIN waiters : SendState(j)
      PROVE  Admitted(f)
  BY <1>1, <1>7 DEF EndRecovery, Tick, AcceptConnection, Disconnect, WriteLine,
     SendState, vars, tables
<1> QED
  BY <1>2, <1>3, <1>4, <1>5, <1>6, <1>7 DEF Next, Threads, Environment

LEMMA HolderStep ==
  ASSUME [Next]_vars
  PROVE  \/ holder' = holder \/ Tick \/ EndRecovery
         \/ \E j \in DOMAIN waiters : SendState(j)
<1>1. ASSUME NEW n \in Node, NEW m \in Node,
             \/ checkTimeStamps(n) \/ broadcastPing(n)
             \/ handleNodeFailure(n, m) \/ handleState(n, m)
             \/ handleStateUpdate(n, m) \/ handleRecovered(n, m)
      PROVE  UNCHANGED holder
  BY <1>1 DEF checkTimeStamps, broadcastPing, handleNodeFailure, handleState,
     handleStateUpdate, handleRecovered, recovery
<1>2. ASSUME NEW g \in Follower,
             \/ SetRecoveryId(g) \/ ReceiveAccepted(g)
             \/ Crash(g) \/ Recover(g) \/ ReplWakes(g)
      PROVE  UNCHANGED holder
  BY <1>2 DEF SetRecoveryId, ReceiveAccepted, Crash, Recover, ReplWakes,
     recovery
<1>3. ASSUME \/ AcceptConnection \/ Disconnect \/ WriteLine \/ Readmit
             \/ UNCHANGED vars
      PROVE  UNCHANGED holder
  BY <1>3 DEF AcceptConnection, Disconnect, WriteLine, Readmit, vars, recovery
<1> QED
  BY <1>1, <1>2, <1>3 DEF Next, Threads, Environment

\* What each of the steps above changes of Live, and when.
LEMMA LiveStep ==
  ASSUME TypeInv, ShapeInv, IdInv, [Next]_vars, NEW f \in Follower
  PROVE  /\ \A i \in Live' : Carries(f, i) => i \in Live
         /\ Live' \in SUBSET Int
         /\ ~ Kept(f) => Live' = Live
<1>1. Live' \in SUBSET Int
  <2>1. TypeInv'
    BY TypeStep
  <2> QED
    BY <2>1 DEF TypeInv, TypeOK, Live
<1>2. \A i \in Live' : Carries(f, i) => i \in Live
  BY LiveBefore
<1>3. ~ Kept(f) => Live' = Live
  BY ChannelStep DEF Answers, Takes, Forgets, IsSent, IsTold, Live
<1> QED
  BY <1>1, <1>2, <1>3

\* A round ends when nobody has the mutex: no message is live.
LEMMA LineIsWritten ==
  ASSUME TypeInv, IdInv, WriteLine, NEW f \in Follower
  PROVE  /\ holder = NoHolder /\ updating = -1
         /\ net' = net /\ Live' = Live /\ updating' = updating
         /\ processIsAlive' = processIsAlive
         /\ \A i \in Live : /\ ~ StateIn(net[Leader][f], i)
                            /\ ~ IdIn(net[f][Leader], i)
<1>1. client = "ready"
  BY DEF WriteLine
<1>2. holder = NoHolder /\ updating = -1
  BY <1>1 DEF IdInv
<1>3. UNCHANGED <<net, updating, processIsAlive, curRecoveryId, now>>
  BY DEF WriteLine, recovery, tables, time
<1> QED
  BY <1>2, <1>3, NothingLive DEF Live

LEMMA LatestStep ==
  ASSUME TypeInv, ShapeInv, IdInv, LatestInv, [Next]_vars
  PROVE  LatestInv'
<1> SUFFICES ASSUME NEW f \in Follower
             PROVE  Latest(net'[Leader][f], Live', log'[Leader])
  BY DEF LatestInv, Latest
<1> DEFINE c == net[Leader][f]
           c1 == net'[Leader][f]
           l == log[Leader]
<1> SUFFICES Latest(c1, Live', log'[Leader])
  OBVIOUS
<1>0. /\ c \in Seq(Message) /\ l \in Seq(Line) /\ Live \in SUBSET Int
      /\ Live' \in SUBSET Int /\ Latest(c, Live, l)
  BY StateFacts, LiveStep DEF LatestInv
<1>1. CASE WriteLine
  <2>1. c1 = c /\ Live' = Live /\ \A i \in Live : ~ StateIn(c, i)
    BY <1>1, LineIsWritten
  <2> HIDE DEF c, c1
  <2> QED
    BY <1>0, <2>1, NoneLatest
<1>2. CASE ~ WriteLine
  <2>0. log'[Leader] = l
    BY <1>2, FileStep
  <2>1. CASE Kept(f)
    <3>1. c1 = c
      BY <2>1 DEF Kept
    <3>2. \A i \in Live' : StateIn(c, i) => i \in Live
      BY LiveStep DEF Carries
    <3> HIDE DEF c, c1, l
    <3> QED
      BY <1>0, <2>0, <3>1, <3>2, FewerLatest
  <2>2. CASE ~ Kept(f)
    <3>0. Live' = Live
      BY <2>2, LiveStep
    <3>1. CASE Answers(f) \/ Forgets(f)
      <4>1. c # << >> /\ c1 = Tail(c)
        BY <3>1 DEF Answers, Forgets
      <4> HIDE DEF c, c1, l
      <4> QED
        BY <1>0, <2>0, <3>0, <4>1, LatestLeft
    <3>2. CASE Takes(f)
      BY <1>0, <2>0, <3>0, <3>2 DEF Takes
    <3>3. CASE IsSent(f)
      <4> DEFINE m == [code |-> "STATE", id |-> holder'.id, state |-> l]
      <4>1. c1 = Append(c, m) /\ m \in Message /\ holder = NoHolder
        BY <3>3 DEF IsSent
      <4>2. \A i \in Live : ~ StateIn(c, i)
        BY <4>1, NothingLive
      <4>3. m.code = "STATE" /\ m.state = l
        OBVIOUS
      <4> HIDE DEF c, c1, l, m
      <4> QED
        BY <1>0, <2>0, <3>0, <4>1, <4>2, <4>3, LatestSent
    <3>4. CASE IsTold(f)
      <4> DEFINE m == [code |-> "RECOVERED", node |-> updating]
      <4>1. c1 = Append(c, m) /\ m \in Message
        BY <3>4 DEF IsTold
      <4>2. m.code # "STATE"
        OBVIOUS
      <4> HIDE DEF c, c1, l, m
      <4> QED
        BY <1>0, <2>0, <3>0, <4>1, <4>2, LatestSent
    <3> QED
      BY <2>2, <3>1, <3>2, <3>3, <3>4, ChannelStep
  <2> QED
    BY <2>1, <2>2
<1> QED
  BY <1>1, <1>2

\* Whether a STATE, or an answer, is still to be handled.
LEMMA PendingStep ==
  ASSUME TypeInv, ShapeInv, [Next]_vars, NEW f \in Follower, Pending(f)'
  PROVE  Pending(f) \/ IsSent(f)
<1> DEFINE c == net[Leader][f]
           c1 == net'[Leader][f]
<1>0. c \in Seq(Message) /\ log[Leader] \in Seq(Line) /\ HasState(c1)
  BY StateFacts DEF Pending, HasState
<1>1. CASE Kept(f) \/ Takes(f)
  BY <1>0, <1>1 DEF Kept, Takes, Pending
<1>2. CASE Answers(f) \/ Forgets(f)
  <2>1. c # << >> /\ c1 = Tail(c)
    BY <1>2 DEF Answers, Forgets
  <2> HIDE DEF c, c1
  <2>2. HasState(c)
    BY <1>0, <2>1, LatestLeft
  <2> QED
    BY <2>2 DEF c, Pending
<1>3. CASE IsTold(f)
  <2> DEFINE m == [code |-> "RECOVERED", node |-> updating]
  <2>1. c1 = Append(c, m) /\ m \in Message
    BY <1>3 DEF IsTold
  <2>2. m.code # "STATE"
    OBVIOUS
  <2> HIDE DEF c, c1, m
  <2>3. HasState(c)
    BY <1>0, <2>1, <2>2, LatestSent
  <2> QED
    BY <2>3 DEF c, Pending
<1> QED
  BY <1>1, <1>2, <1>3, ChannelStep

LEMMA AnsweredStep ==
  ASSUME TypeInv, ShapeInv, IdInv, [Next]_vars, NEW f \in Follower, Answered(f)'
  PROVE  Answered(f) \/ (Answers(f) /\ Head(net[Leader][f]).id \in Live)
<1> DEFINE c == net[f][Leader]
           c1 == net'[f][Leader]
<1>0. /\ c \in Seq(Message) /\ net[Leader][f] \in Seq(Message)
      /\ Live \in SUBSET Int /\ Live' \in SUBSET Int
  BY StateFacts, LiveStep
<1>1. updating' = f \/ \E i \in Live' : IdIn(c1, i)
  BY DEF Answered, IdIn
<1>2. CASE Kept(f)
  <2>1. c1 = c /\ (updating' = f => updating = f)
    BY <1>2 DEF Kept
  <2>2. \A i \in Live' : IdIn(c, i) => i \in Live
    BY LiveStep DEF Carries
  <2> QED
    BY <1>1, <2>1, <2>2 DEF Answered
<1>3. CASE ~ Kept(f)
  <2>0. Live' = Live
    BY <1>3, LiveStep
  <2>1. CASE Answers(f)
    <3> DEFINE h == Head(net[Leader][f])
               m == [code |-> "STATE_UPDATED", id |-> h.id]
    <3>1. c1 = Append(c, m) /\ updating' = updating
      BY <2>1 DEF Answers
    <3>2. h \in Message /\ h.code = "STATE"
      BY <1>0, <2>1, IdAtHead DEF Answers
    <3>3. m \in Message /\ m.id = h.id
      BY <3>2, MessageFields, NewMessages
    <3> HIDE DEF m, h, c, c1
    <3>4. \A i \in Live : IdIn(c1, i) => IdIn(c, i) \/ i = h.id
      BY <1>0, <3>1, <3>3, IdsSent
    <3> QED
      BY <1>1, <2>0, <2>1, <3>1, <3>4 DEF Answered, h, c
  <2>2. CASE Takes(f)
    <3>1. /\ c # << >> /\ c1 = Tail(c)
          /\ updating' = f => Head(c).id = curRecoveryId
      BY <2>2 DEF Takes
    <3> HIDE DEF c, c1
    <3>2. \A i \in Live : IdIn(c1, i) => IdIn(c, i)
      BY <1>0, <3>1, IdsLeft
    <3>3. updating' = f => IdIn(c, curRecoveryId)
      BY <1>0, <3>1, IdAtHead
    <3>4. curRecoveryId \in Live
      BY DEF Live
    <3> QED
      BY <1>1, <2>0, <3>2, <3>3, <3>4 DEF Answered, c
  <2>3. CASE Forgets(f) \/ IsSent(f)
    BY <1>1, <2>0, <2>3 DEF Forgets, IsSent, Answered
  <2>4. CASE IsTold(f)
    BY <1>1, <2>0, <2>4, StateFacts DEF IsTold, Answered
  <2> QED
    BY <1>3, <2>1, <2>2, <2>3, <2>4, ChannelStep
<1> QED
  BY <1>2, <1>3

LEMMA AtOnceStep ==
  ASSUME TypeInv, HearInv, ShapeInv, IdInv, LatestInv, AtOnceInv, [Next]_vars
  PROVE  AtOnceInv'
<1> SUFFICES ASSUME NEW f \in Follower, Pending(f)', Answered(f)'
             PROVE  holder'.node = f /\ holder'.left = Hold
  BY DEF AtOnceInv, Hold
<1>1. CASE IsSent(f)
  BY <1>1 DEF IsSent
<1>2. CASE Answers(f) /\ Head(net[Leader][f]).id \in Live
  <2> DEFINE c == net[Leader][f]
             l == log[Leader]
  <2>1. /\ c \in Seq(Message) /\ l \in Seq(Line) /\ Live \in SUBSET Int
        /\ Latest(c, Live, l)
    BY StateFacts DEF LatestInv
  <2>2. /\ c # << >> /\ Head(c).code = "STATE" /\ net'[Leader][f] = Tail(c)
        /\ Head(c).id \in Live
    BY <1>2 DEF Answers
  <2> HIDE DEF c, l
  <2>3. ~ HasState(Tail(c))
    BY <2>1, <2>2, LatestAtHead
  <2> QED
    BY <2>2, <2>3 DEF Pending, HasState
<1>3. CASE Pending(f) /\ Answered(f)
  <2>1. holder.node = f /\ holder.left = Hold
    BY <1>3 DEF AtOnceInv
  <2>2. f # -1 /\ Hold # 0
    BY HolderType, StateFacts, Constants
  <2>3. ~ Tick
    <3> SUFFICES ASSUME Tick PROVE FALSE
      OBVIOUS
    <3>1. updating = -1 /\ ~ crashed[Leader] /\ f \in Node /\ Leader \in Node
      BY StateFacts DEF Tick, Quiet, HearInv
    <3>2. net[f][Leader] = << >>
      BY <3>1 DEF Tick, Quiet, NothingWaits
    <3>3. ~ Answered(f)
      BY <2>2, <3>1, <3>2 DEF Answered, IdIn
    <3> QED
      BY <1>3, <3>3
  <2>4. ~ EndRecovery
    BY <2>1, <2>2 DEF EndRecovery
  <2>5. ASSUME NEW j \in DOMAIN waiters, SendState(j) PROVE FALSE
    BY <2>1, <2>2, <2>5 DEF SendState, MutexIsFree, NoHolder
  <2> QED
    BY <2>1, <2>3, <2>4, <2>5, HolderStep
<1> QED
  BY <1>1, <1>2, <1>3, PendingStep, AnsweredStep

(****************************************************************************)
(* A node that the leader talks to and that does not handle its STATE is    *)
(* "crashed", or has just read RECOVER.  The leader hears no PING of it any *)
(* more, and has suspected it before RECOVERY_DURATION is over.             *)
(****************************************************************************)
Silent(f) ==
  /\ crashed[f] \/ f \in replAsleep
  /\ crashed[f] => pos[f] # Waiting
  /\ Waited >= 2 =>
       /\ pos[f] \in {Waiting, Blocked}
       /\ age[Leader][f] >= MaxAge \/ age[Leader][f] >= Waited - 1
  /\ Waited >= MaxAge + 1 => \/ pos[Leader] <= idToIndex(Leader, f)
                             \/ <<Leader, f>> \in failing
  /\ Waited <= MaxAge + 1

UnhandledInv ==
  \A f \in Follower :
    Pending(f) /\ Admitted(f) =>
      holder.node = f /\ (Waited >= 1 => Silent(f))

\* What Silent speaks of.
LEMMA SilentTypes ==
  ASSUME TypeInv, HearInv, NEW f \in Follower
  PROVE  /\ f \in Node /\ Leader \in Node /\ f # Leader
         /\ age[Leader][f] \in 0 .. MaxAge /\ MaxAge \in Nat /\ MaxAge >= 1
         /\ pos[f] \in Nat /\ pos[Leader] \in Nat /\ pos[Leader] # Blocked
         /\ ~ crashed[Leader]
         /\ idToIndex(Leader, f) \in Index /\ 0 \in Index
         /\ Waiting \in Nat /\ Blocked \in Nat /\ Waiting # Blocked
         /\ \A i \in Index : i \in Nat /\ i < Waiting - 1 /\ i < Blocked
<1>1. /\ f \in Node /\ Leader \in Node /\ f # Leader
      /\ age \in [Node -> [Node -> 0 .. MaxAge]]
      /\ pos \in [Node -> 0 .. Blocked]
  BY HearTypes
<1>2. /\ Waiting \in Nat /\ Blocked \in Nat /\ Waiting # Blocked
      /\ \A i \in Index : i \in Nat /\ i < Waiting - 1 /\ i < Blocked
  BY Constants DEF Index
<1>3. MaxAge \in Nat /\ MaxAge >= 1
  <2>1. \A a, b \in Nat : a >= 1 /\ b >= 1 => a * (b + 1) >= 1
    OBVIOUS
  <2> QED
    BY <2>1, Constants DEF MaxAge
<1>4. idToIndex(Leader, f) \in Index
  BY <1>1, Indices
<1>5. 0 \in Index
  BY <1>4, Constants DEF Index
<1>6. /\ age[Leader][f] \in 0 .. MaxAge
      /\ pos[f] \in Nat /\ pos[Leader] \in Nat
  BY <1>1, <1>2
<1> QED
  BY <1>1, <1>2, <1>3, <1>4, <1>5, <1>6 DEF HearInv

\* Half a second more of silence.
LEMMA TickSilent ==
  ASSUME TypeInv, HearInv, NEW f \in Follower, Pending(f), holder.node = f,
         Waited >= 1 => Silent(f), Tick
  PROVE  holder'.node = f /\ Silent(f)'
<1>0. /\ f \in Node /\ Leader \in Node /\ f # Leader
      /\ age[Leader][f] \in 0 .. MaxAge /\ MaxAge \in Nat /\ MaxAge >= 1
      /\ pos[f] \in Nat /\ pos[Leader] \in Nat
  BY SilentTypes
<1>1. /\ pos[f] \in {Waiting, Blocked} /\ pos[Leader] = Waiting /\ failing = {}
      /\ crashed[f] /\ crashed'[f]
  <2>1. net[Leader][f] # << >>
    BY DEF Pending, HasState
  <2> QED
    BY <1>0, <2>1, SilentTypes DEF Tick, Quiet, NothingWaits
<1>2. /\ holder # NoHolder /\ holder'.node = f
      /\ holder'.left = holder.left - 1 /\ Waited \in Nat
  <2>1. holder # NoHolder
    BY HolderType, StateFacts
  <2> QED
    BY <2>1, HolderType, TickIds DEF Waited
<1>3. Waited' = Waited + 1
  BY <1>2, HolderType DEF Waited, Hold
<1>4. /\ pos'[f] = IF pos[f] = Waiting THEN 0 ELSE pos[f]
      /\ pos'[Leader] = 0
      /\ age'[Leader][f] = IF age[Leader][f] < MaxAge THEN age[Leader][f] + 1
                           ELSE age[Leader][f]
  BY <1>0, <1>1 DEF Tick
<1>5. /\ pos'[f] # Waiting /\ pos'[Leader] <= idToIndex(Leader, f)
      /\ ~ (pos[Leader] <= idToIndex(Leader, f))
  BY <1>1, <1>4, SilentTypes
<1>6. Waited <= MaxAge
  <2> SUFFICES ASSUME Waited >= MaxAge + 1 PROVE FALSE
    BY <1>0, <1>2
  <2> QED
    BY <1>0, <1>1, <1>2, <1>5 DEF Silent
<1>7. Waited' >= 2 => pos'[f] \in {Waiting, Blocked}
  <2> SUFFICES ASSUME Waited >= 1 PROVE pos'[f] \in {Waiting, Blocked}
    BY <1>2, <1>3
  <2>1. pos[f] = Blocked
    BY <1>1 DEF Silent
  <2> QED
    BY <1>4, <2>1, SilentTypes
<1>8. Waited' >= 2 =>
        age'[Leader][f] >= MaxAge \/ age'[Leader][f] >= Waited' - 1
  <2>1. CASE Waited >= 2
    <3>1. age[Leader][f] >= MaxAge \/ age[Leader][f] >= Waited - 1
      BY <1>2, <2>1 DEF Silent
    <3> QED
      BY <1>0, <1>2, <1>3, <1>4, <3>1
  <2>2. CASE ~ (Waited >= 2)
    BY <1>0, <1>2, <1>3, <1>4, <2>2
  <2> QED
    BY <2>1, <2>2
<1> QED
  BY <1>0, <1>1, <1>2, <1>3, <1>5, <1>6, <1>7, <1>8 DEF Silent

LEMMA SilentKept ==
  ASSUME NEW f \in Follower, Silent(f), holder' = holder,
         crashed'[f] = crashed[f], f \in replAsleep' <=> f \in replAsleep,
         pos'[f] = pos[f], pos'[Leader] = pos[Leader],
         age'[Leader][f] = age[Leader][f],
         <<Leader, f>> \in failing => <<Leader, f>> \in failing'
  PROVE  Silent(f)'
BY DEF Silent, Waited, Hold

\* The ping threads: that of f sends no PING after the first half second, that
\* of the leader comes to the entry of f.
LEMMA PingSilent ==
  ASSUME TypeInv, HearInv, ShapeInv, NEW f \in Follower, Silent(f),
         Waited \in Nat, Admitted(f), holder' = holder,
         NEW n \in Node, checkTimeStamps(n) \/ broadcastPing(n)
  PROVE  Silent(f)'
<1>0. /\ f \in Node /\ Leader \in Node /\ f # Leader
      /\ age[Leader][f] \in 0 .. MaxAge /\ MaxAge \in Nat /\ MaxAge >= 1
      /\ pos[f] \in Nat /\ pos[Leader] \in Nat /\ ~ crashed[Leader]
      /\ Waited' = Waited /\ Waited \in Nat
      /\ crashed \in [Node -> BOOLEAN]
      /\ age \in [Node -> [Node -> 0 .. MaxAge]]
      /\ pos \in [Node -> 0 .. Blocked]
  BY SilentTypes, HearTypes DEF Waited, Hold
<1>1. CASE checkTimeStamps(n)
  <2>1. /\ pos[n] \in Index /\ pos' = [pos EXCEPT ![n] = @ + 1]
        /\ UNCHANGED <<crashed, replAsleep, age>>
        /\ failing \subseteq failing'
    BY <1>1 DEF checkTimeStamps
  <2>2. CASE n \notin {f, Leader}
    BY <1>0, <2>1, <2>2, SilentKept
  <2>3. CASE n = f
    <3>1. pos'[f] = pos[f] + 1 /\ pos'[Leader] = pos[Leader]
      BY <1>0, <2>1, <2>3
    <3>2. pos[f] \notin {Waiting, Blocked} /\ pos'[f] # Waiting
      BY <2>1, <2>3, <3>1, SilentTypes
    <3>3. ~ (Waited >= 2)
      BY <3>2 DEF Silent
    <3>4. ~ (Waited >= MaxAge + 1) /\ Waited <= MaxAge + 1
      BY <1>0, <3>3
    <3>5. crashed[f] \/ f \in replAsleep
      BY DEF Silent
    <3> QED
      BY <1>0, <2>1, <3>2, <3>3, <3>4, <3>5 DEF Silent
  <2>4. CASE n = Leader
    <3> DEFINE idx == idToIndex(Leader, f)
    <3>1. /\ pos'[f] = pos[f] /\ pos'[Leader] = pos[Leader] + 1
          /\ idx \in Index /\ idx \in Nat
      BY <1>0, <2>1, <2>4, SilentTypes
    <3>2. CASE pos[Leader] = idx /\ Waited >= MaxAge + 1
      <4>1. indexToId(Leader, idx) = f
        BY <1>0, Indices
      <4>2. isAlive[Leader][idx]
        BY DEF Admitted, ShapeInv
      <4>3. age[Leader][f] = MaxAge
        <5>1. Waited >= 2 /\ Waited - 1 >= MaxAge
          BY <1>0, <3>2
        <5>2. age[Leader][f] >= MaxAge \/ age[Leader][f] >= Waited - 1
          BY <5>1 DEF Silent
        <5>3. age[Leader][f] \in 0 .. MaxAge /\ MaxAge \in Nat /\ Waited \in Nat
          BY <1>0
        <5> QED
          BY <5>1, <5>2, <5>3
      <4>4. elapsed(Leader, f) > TIMEOUT_DURATION
        <5>1. \A a, b \in Nat : a >= 1 => (a * (b + 1)) \div a = b + 1
          OBVIOUS
        <5> QED
          BY <4>3, <5>1, Constants DEF elapsed, MaxAge
      <4>5. <<Leader, f>> \in failing'
        BY <1>1, <2>4, <3>2, <4>1, <4>2, <4>4 DEF checkTimeStamps
      <4> QED
        BY <1>0, <2>1, <3>1, <4>5 DEF Silent
    <3>3. CASE pos[Leader] # idx \/ ~ (Waited >= MaxAge + 1)
      <4>1. pos[Leader] <= idx /\ Waited >= MaxAge + 1 => pos'[Leader] <= idx
        <5> HIDE DEF idx
        <5>1. /\ pos[Leader] \in Nat /\ idx \in Nat
              /\ pos'[Leader] = pos[Leader] + 1
          BY <1>0, <3>1
        <5> QED
          BY <3>3, <5>1
      <4> QED
        BY <1>0, <2>1, <3>1, <4>1 DEF Silent
    <3> QED
      BY <3>2, <3>3
  <2> QED
    BY <2>2, <2>3, <2>4
<1>2. CASE broadcastPing(n)
  <2>1. /\ pos[n] = clusterSize - 1
        /\ pos' = [pos EXCEPT ![n] = IF crashed[n] THEN Blocked ELSE Waiting]
        /\ age' = [m \in Node |->
                     IF m # n /\ ~ crashed[m] THEN [age[m] EXCEPT ![n] = 0]
                     ELSE age[m]]
        /\ UNCHANGED <<crashed, replAsleep, failing>>
    BY <1>2 DEF broadcastPing, tables
  <2>2. CASE n \notin {f, Leader}
    <3>1. age'[Leader][f] = age[Leader][f]
      BY <1>0, <2>1, <2>2
    <3> QED
      BY <1>0, <2>1, <2>2, <3>1, SilentKept
  <2>3. CASE n = f
    <3>1. /\ pos'[f] = IF crashed[f] THEN Blocked ELSE Waiting
          /\ pos'[Leader] = pos[Leader]
      BY <1>0, <2>1, <2>3
    <3>2. pos[f] \notin {Waiting, Blocked} /\ (crashed[f] => pos'[f] # Waiting)
      BY <2>1, <2>3, <3>1, Constants
    <3>3. ~ (Waited >= 2)
      BY <3>2 DEF Silent
    <3>4. ~ (Waited >= MaxAge + 1) /\ Waited <= MaxAge + 1
      BY <1>0, <3>3
    <3>5. crashed[f] \/ f \in replAsleep
      BY DEF Silent
    <3> QED
      BY <1>0, <2>1, <3>2, <3>3, <3>4, <3>5 DEF Silent
  <2>4. CASE n = Leader
    <3>1. /\ age'[Leader][f] = age[Leader][f] /\ pos'[f] = pos[f]
      BY <1>0, <2>1, <2>4
    <3>2. ~ (pos[Leader] <= idToIndex(Leader, f))
      BY <2>1, <2>4, SilentTypes, Constants
    <3> QED
      BY <1>0, <2>1, <3>1, <3>2 DEF Silent
  <2> QED
    BY <2>2, <2>3, <2>4
<1> QED
  BY <1>1, <1>2

LEMMA StepSilent ==
  ASSUME TypeInv, HearInv, ShapeInv, [Next]_vars, NEW f \in Follower,
         Silent(f), Waited >= 1, Waited \in Nat, holder' = holder,
         Pending(f), Admitted(f), Admitted(f)', ~ Tick
  PROVE  Silent(f)'
<1>0. /\ f \in Node /\ Leader \in Node /\ f # Leader
      /\ crashed \in [Node -> BOOLEAN]
      /\ age \in [Node -> [Node -> 0 .. MaxAge]]
      /\ pos \in [Node -> 0 .. Blocked]
      /\ processIsAlive \in [Node -> [Index -> BOOLEAN]]
      /\ idToIndex(Leader, f) \in Index
      /\ Waited' = Waited
  BY HearTypes, SilentTypes DEF Waited, Hold, TypeInv, TypeOK
<1>1. ASSUME UNCHANGED <<heartbeat, failing>> PROVE Silent(f)'
  BY <1>1, SilentKept DEF heartbeat
<1>2. ASSUME NEW n \in Node, checkTimeStamps(n) \/ broadcastPing(n)
      PROVE  Silent(f)'
  BY <1>2, PingSilent
<1>3. ASSUME NEW n \in Node, NEW m \in Node, handleNodeFailure(n, m)
      PROVE  Silent(f)'
  <2>1. /\ failing' = failing \ {<<n, m>>} /\ UNCHANGED heartbeat
        /\ processIsAlive' =
             [processIsAlive EXCEPT ![n][idToIndex(n, m)] = FALSE]
    BY <1>3 DEF handleNodeFailure, setNodeStatus
  <2>2. <<n, m>> # <<Leader, f>>
    <3> SUFFICES ASSUME n = Leader, m = f PROVE FALSE
      OBVIOUS
    <3>1. ~ processIsAlive'[Leader][idToIndex(Leader, f)]
      BY <1>0, <2>1
    <3> QED
      BY <3>1 DEF Admitted, idToIndex
  <2> QED
    BY <2>1, <2>2, SilentKept DEF heartbeat
<1>4. ASSUME NEW n \in Node, NEW src \in Node, handleRecovered(n, src)
      PROVE  Silent(f)'
  <2>1. age'[Leader] = age[Leader]
    BY <1>4, RecoveredEffect
  <2>2. UNCHANGED <<crashed, replAsleep, pos, failing>>
    BY <1>4 DEF handleRecovered
  <2> QED
    BY <2>1, <2>2, SilentKept
<1>5. ASSUME NEW g \in Follower, Crash(g)
      PROVE  Silent(f)'
  <2>1. /\ ~ crashed[g] /\ g \notin replAsleep
        /\ crashed' = [crashed EXCEPT ![g] = TRUE]
        /\ UNCHANGED <<replAsleep, age, pos, failing>>
    BY <1>5 DEF Crash, tables
  <2>2. g # f
    BY <2>1 DEF Silent
  <2>3. crashed'[f] = crashed[f]
    BY <1>0, <2>1, <2>2
  <2> QED
    BY <2>1, <2>3, SilentKept
<1>6. ASSUME NEW g \in Follower, Recover(g)
      PROVE  Silent(f)'
  <2>1. /\ g \in Node /\ g # Leader
        /\ crashed' = [crashed EXCEPT ![g] = FALSE]
        /\ replAsleep' = replAsleep \cup {g}
        /\ age' = [age EXCEPT ![g] =
                     [m \in Node |-> IF m \in pinged[g] THEN 0 ELSE @[m]]]
        /\ pos' = [pos EXCEPT ![g] = IF @ = Blocked THEN Waiting ELSE @]
        /\ UNCHANGED failing
    BY <1>6, StateFacts DEF Recover, tables
  <2>2. age'[Leader][f] = age[Leader][f] /\ pos'[Leader] = pos[Leader]
    BY <1>0, <2>1
  <2>3. CASE g # f
    <3>1. /\ crashed'[f] = crashed[f] /\ pos'[f] = pos[f]
          /\ f \in replAsleep' <=> f \in replAsleep
      BY <1>0, <2>1, <2>3
    <3> QED
      BY <2>1, <2>2, <3>1, SilentKept
  <2>4. CASE g = f
    <3>1. /\ ~ crashed'[f] /\ f \in replAsleep'
          /\ pos'[f] = IF pos[f] = Blocked THEN Waiting ELSE pos[f]
      BY <1>0, <2>1, <2>4
    <3> QED
      BY <1>0, <2>1, <2>2, <3>1 DEF Silent
  <2> QED
    BY <2>3, <2>4
<1>7. ASSUME NEW g \in Follower, ReplWakes(g)
      PROVE  Silent(f)'
  <2>1. /\ NothingWaits(g) /\ replAsleep' = replAsleep \ {g}
        /\ UNCHANGED <<crashed, age, pos, failing>>
    BY <1>7 DEF ReplWakes, tables
  <2>2. net[Leader][f] # << >>
    BY DEF Pending, HasState
  <2>3. g # f
    BY <1>0, <2>1, <2>2 DEF NothingWaits
  <2> QED
    BY <2>1, <2>3, SilentKept
<1>8. ASSUME NEW n \in Node, NEW src \in Node,
             handleState(n, src) \/ handleStateUpdate(n, src)
      PROVE  Silent(f)'
  BY <1>1, <1>8 DEF handleState, handleStateUpdate, tables
<1>9. ASSUME NEW g \in Follower, SetRecoveryId(g) \/ ReceiveAccepted(g)
      PROVE  Silent(f)'
  BY <1>1, <1>9 DEF SetRecoveryId, ReceiveAccepted, tables
<1>10. ASSUME \/ EndRecovery \/ AcceptConnection \/ Disconnect \/ WriteLine
              \/ Readmit \/ UNCHANGED vars
              \/ \E j \in DOMAIN waiters : SendState(j)
       PROVE  Silent(f)'
  BY <1>1, <1>10 DEF EndRecovery, AcceptConnection, Disconnect, WriteLine,
     Readmit, SendState, vars, tables
<1> QED
  BY <1>2, <1>3, <1>4, <1>5, <1>6, <1>7, <1>8, <1>9, <1>10
     DEF Next, Threads, Environment

LEMMA UnhandledStep ==
  ASSUME TypeInv, HearInv, ShapeInv, IdInv, AtOnceInv, UnhandledInv,
         Hold >= MaxAge + 2, [Next]_vars
  PROVE  UnhandledInv'
<1> SUFFICES ASSUME NEW f \in Follower, Pending(f)', Admitted(f)'
             PROVE  holder'.node = f /\ (Waited' >= 1 => Silent(f)')
  BY DEF UnhandledInv
<1>0. f # -1 /\ MaxAge \in Nat /\ MaxAge >= 1 /\ Hold \in Nat /\ Hold' = Hold
  BY StateFacts, SilentTypes, HolderType DEF Hold
<1>1. CASE IsSent(f)
  <2>1. holder'.node = f /\ holder'.left = Hold
    BY <1>1 DEF IsSent
  <2>2. Waited' = 0
    BY <1>0, <2>1 DEF Waited
  <2> QED
    BY <2>1, <2>2
<1>2. CASE Pending(f) /\ Readmit /\ updating = f
  <2>1. holder.node = f /\ holder.left = Hold
    BY <1>2 DEF AtOnceInv, Answered
  <2>2. holder' = holder
    BY <1>2 DEF Readmit
  <2>3. Waited' = 0
    BY <1>0, <2>1, <2>2 DEF Waited
  <2> QED
    BY <2>1, <2>2, <2>3
<1>3. CASE Pending(f) /\ Admitted(f)
  <2>1. /\ holder.node = f /\ (Waited >= 1 => Silent(f))
        /\ holder # NoHolder /\ holder.left \in 0 .. Hold
    BY <1>0, <1>3, HolderType DEF UnhandledInv
  <2>2. Waited \in Nat
    BY <1>0, <2>1 DEF Waited
  <2>3. CASE Tick
    BY <1>3, <2>1, <2>3, TickSilent
  <2>4. ~ EndRecovery
    <3> SUFFICES ASSUME EndRecovery PROVE FALSE
      OBVIOUS
    <3>1. Waited = Hold
      BY <1>0 DEF EndRecovery, Waited
    <3>2. Waited >= 1 /\ ~ (Waited <= MaxAge + 1)
      BY <1>0, <3>1
    <3> QED
      BY <2>1, <3>2 DEF Silent
  <2>5. ASSUME NEW j \in DOMAIN waiters, SendState(j) PROVE FALSE
    BY <2>1, <2>5 DEF SendState, MutexIsFree
  <2>6. CASE holder' = holder /\ ~ Tick
    <3>1. Waited' = Waited
      BY <2>6 DEF Waited, Hold
    <3> QED
      BY <1>3, <2>1, <2>2, <2>6, <3>1, StepSilent
  <2> QED
    BY <2>3, <2>4, <2>5, <2>6, HolderStep
<1> QED
  BY <1>1, <1>2, <1>3, PendingStep, AdmittedStep

\* Nothing of a file is lost by what is written to it.
LEMMA RangeOfAppend ==
  ASSUME NEW s \in Seq(Line), NEW x \in Line
  PROVE  Range(Append(s, x)) = Range(s) \cup {x}
<1>1. /\ \A k \in DOMAIN s : k \in DOMAIN Append(s, x) /\ Append(s, x)[k] = s[k]
      /\ Len(s) + 1 \in DOMAIN Append(s, x) /\ Append(s, x)[Len(s) + 1] = x
      /\ \A k \in DOMAIN Append(s, x) :
           \/ k \in DOMAIN s /\ Append(s, x)[k] = s[k]
           \/ Append(s, x)[k] = x
  OBVIOUS
<1> QED
  BY <1>1 DEF Range

LEMMA RangeOfConcat ==
  ASSUME NEW s \in Seq(Line), NEW t \in Seq(Line)
  PROVE  Range(s \o t) = Range(s) \cup Range(t)
<1>1. /\ \A k \in DOMAIN s : k \in DOMAIN (s \o t) /\ (s \o t)[k] = s[k]
      /\ \A k \in DOMAIN t : /\ k + Len(s) \in DOMAIN (s \o t)
                             /\ (s \o t)[k + Len(s)] = t[k]
      /\ \A k \in DOMAIN (s \o t) :
           \/ k \in DOMAIN s /\ (s \o t)[k] = s[k]
           \/ k - Len(s) \in DOMAIN t /\ (s \o t)[k] = t[k - Len(s)]
  OBVIOUS
<1>2. Range(s) \subseteq Range(s \o t)
  BY <1>1 DEF Range
<1>3. Range(t) \subseteq Range(s \o t)
  <2> SUFFICES ASSUME NEW k \in DOMAIN t PROVE t[k] \in Range(s \o t)
    BY DEF Range
  <2> QED
    BY <1>1 DEF Range
<1>4. Range(s \o t) \subseteq Range(s) \cup Range(t)
  BY <1>1 DEF Range
<1> QED
  BY <1>2, <1>3, <1>4

LEMMA MovedOn ==
  ASSUME NEW s \in Seq(Line), NEW t \in Seq(Line), t # << >>
  PROVE  Append(s, Head(t)) \o Tail(t) = s \o t
<1> DEFINE r == Append(s, Head(t)) \o Tail(t)
           u == s \o t
<1>1. /\ r \in Seq(Line) /\ u \in Seq(Line) /\ Len(r) = Len(u)
      /\ \A k \in 1 .. Len(u) : r[k] = u[k]
  OBVIOUS
<1> HIDE DEF r, u
<1>2. r = u
  BY <1>1
<1> QED
  BY <1>2 DEF r, u

LEMMA AppendedToConcat ==
  ASSUME NEW s \in Seq(Line), NEW t \in Seq(Line), NEW x \in Line
  PROVE  s \o Append(t, x) = Append(s \o t, x)
<1> DEFINE r == s \o Append(t, x)
           u == Append(s \o t, x)
<1>1. /\ r \in Seq(Line) /\ u \in Seq(Line) /\ Len(r) = Len(u)
      /\ \A k \in 1 .. Len(u) : r[k] = u[k]
  <2>1. /\ r \in Seq(Line) /\ Len(r) = Len(s) + (Len(t) + 1)
        /\ u \in Seq(Line) /\ Len(u) = (Len(s) + Len(t)) + 1
        /\ Len(s) \in Nat /\ Len(t) \in Nat
    OBVIOUS
  <2>2. ASSUME NEW k \in 1 .. Len(u)
        PROVE  r[k] = u[k]
    <3>1. CASE k <= Len(s)
      BY <2>1, <3>1
    <3>2. CASE k > Len(s) /\ k <= Len(s) + Len(t)
      BY <2>1, <3>2
    <3>3. CASE k = Len(s) + Len(t) + 1
      BY <2>1, <3>3
    <3> QED
      BY <2>1, <3>1, <3>2, <3>3
  <2> QED
    BY <2>1, <2>2
<1> HIDE DEF r, u
<1>2. r = u
  BY <1>1, SeqEqual
<1> QED
  BY <1>2 DEF r, u

\* What f misses nothing of, it misses nothing of after one of these steps.
LEMMA MissesNothingStep ==
  ASSUME TypeInv, ShapeInv, [Next]_vars, NEW f \in Follower,
         MissesNothing(f), ~ WriteLine, LeaderIsHeard
  PROVE  MissesNothing(f)'
<1> DEFINE c == net[Leader][f]
           c1 == net'[Leader][f]
           l == log[Leader]
<1>0. /\ c \in Seq(Message) /\ l \in Seq(Line)
      /\ log[f] \in Seq(Line) /\ lines[f] \in Seq(Line)
      /\ Range(l) \subseteq Range(log[f] \o lines[f]) /\ AllCarry(c, l)
      /\ f \in Node
  BY StateFacts DEF MissesNothing
<1>1. log'[Leader] = l
  BY FileStep
<1>2. AllCarry(c1, l)
  <2>1. CASE Kept(f) \/ Takes(f)
    BY <1>0, <2>1 DEF Kept, Takes
  <2>2. CASE Answers(f) \/ Forgets(f)
    <3>1. c # << >> /\ c1 = Tail(c)
      BY <2>2 DEF Answers, Forgets
    <3> HIDE DEF c, c1, l
    <3> QED
      BY <1>0, <3>1, LatestLeft
  <2>3. CASE IsSent(f)
    <3> DEFINE m == [code |-> "STATE", id |-> holder'.id, state |-> l]
    <3>1. c1 = Append(c, m) /\ m \in Message
      BY <2>3 DEF IsSent
    <3>2. m.code = "STATE" /\ m.state = l
      OBVIOUS
    <3> HIDE DEF c, c1, l, m
    <3> QED
      BY <1>0, <3>1, <3>2, LatestSent
  <2>4. CASE IsTold(f)
    <3> DEFINE m == [code |-> "RECOVERED", node |-> updating]
    <3>1. c1 = Append(c, m) /\ m \in Message
      BY <2>4 DEF IsTold
    <3>2. m.code # "STATE"
      OBVIOUS
    <3> HIDE DEF c, c1, l, m
    <3> QED
      BY <1>0, <3>1, <3>2, LatestSent
  <2> QED
    BY <2>1, <2>2, <2>3, <2>4, ChannelStep
<1>3. Range(l) \subseteq Range(log'[f] \o lines'[f])
  <2>1. CASE log'[f] = log[f] /\ lines'[f] = lines[f]
    BY <1>0, <2>1
  <2>2. CASE ReceiveAccepted(f)
    <3>1. /\ lines[f] # << >> /\ lines' = [lines EXCEPT ![f] = Tail(@)]
          /\ log' = [log EXCEPT ![f] = Append(@, Head(lines[f]))]
      BY <2>2 DEF ReceiveAccepted, LeaderIsHeard, messageShouldDrop
    <3>2. log'[f] = Append(log[f], Head(lines[f])) /\ lines'[f] = Tail(lines[f])
      BY <1>0, <3>1 DEF TypeInv, TypeOK
    <3>3. log'[f] \o lines'[f] = log[f] \o lines[f]
      BY <1>0, <3>1, <3>2, MovedOn
    <3> QED
      BY <1>0, <3>3
  <2>3. CASE Answers(f)
    <3> DEFINE s == Head(c).state
    <3>1. /\ c # << >> /\ Head(c).code = "STATE"
          /\ log'[f] = s /\ lines'[f] = lines[f]
      BY <1>0, <2>3 DEF Answers, TypeInv, TypeOK
    <3>2. Head(c) \in Message /\ s \in Seq(Line)
      BY <1>0, <3>1, IdAtHead, MessageFields
    <3>3. Range(l) \subseteq Range(s)
      <4> HIDE DEF c, l
      <4>1. Live \in SUBSET Int
        BY StateFacts
      <4>2. /\ c \in Seq(Message) /\ c # << >> /\ Head(c).code = "STATE"
            /\ l \in Seq(Line) /\ AllCarry(c, l)
        BY <1>0, <3>1
      <4> QED
        BY <4>1, <4>2, LatestAtHead
    <3>4. Range(s \o lines[f]) = Range(s) \cup Range(lines[f])
      BY <1>0, <3>2, RangeOfConcat
    <3> QED
      BY <3>1, <3>3, <3>4
  <2> QED
    BY <2>1, <2>2, <2>3, FileStep
<1> QED
  BY <1>1, <1>2, <1>3 DEF MissesNothing, AllCarry, Range

LEMMA CurrentStep ==
  ASSUME TypeInv, ShapeInv, IdInv, LatestInv, UnhandledInv, CurrentInv,
         LeaderIsHeard, [Next]_vars
  PROVE  CurrentInv'
<1> SUFFICES ASSUME NEW f \in Follower, Admitted(f)' \/ Answered(f)'
             PROVE  MissesNothing(f)'
  BY DEF CurrentInv
<1> DEFINE c == net[Leader][f]
           l == log[Leader]
<1>0. /\ c \in Seq(Message) /\ l \in Seq(Line)
      /\ f \in Node /\ f # Leader /\ Leader \in Node /\ f # -1
      /\ log[f] \in Seq(Line) /\ lines[f] \in Seq(Line)
      /\ Live \in SUBSET Int
  BY StateFacts
<1>1. CASE Answers(f) /\ Head(c).id \in Live
  <2> DEFINE s == Head(c).state
  <2>1. /\ c # << >> /\ Head(c).code = "STATE" /\ net'[Leader][f] = Tail(c)
        /\ log'[f] = s /\ log'[Leader] = l /\ lines'[f] = lines[f]
    BY <1>0, <1>1 DEF Answers, TypeInv, TypeOK
  <2>2. Latest(c, Live, l)
    BY DEF LatestInv
  <2>3. s = l /\ ~ HasState(Tail(c))
    <3> HIDE DEF c, l
    <3>1. /\ c \in Seq(Message) /\ c # << >> /\ Head(c).code = "STATE"
          /\ l \in Seq(Line) /\ Live \in SUBSET Int
          /\ Latest(c, Live, l) /\ Head(c).id \in Live
      BY <1>0, <1>1, <2>1, <2>2
    <3> QED
      BY <3>1, LatestAtHead
  <2>4. Range(s \o lines[f]) = Range(s) \cup Range(lines[f])
    BY <1>0, <2>3, RangeOfConcat
  <2>5. AllCarry(net'[Leader][f], log'[Leader])
    BY <2>1, <2>3 DEF AllCarry, HasState
  <2>6. Range(log'[Leader]) \subseteq Range(log'[f] \o lines'[f])
    BY <2>1, <2>3, <2>4
  <2> QED
    BY <2>5, <2>6 DEF MissesNothing, AllCarry, Range
<1>2. CASE WriteLine
  <2>1. /\ holder = NoHolder /\ updating = -1
        /\ net' = net /\ Live' = Live /\ updating' = updating
        /\ processIsAlive' = processIsAlive
        /\ \A i \in Live : ~ IdIn(net[f][Leader], i)
    BY <1>2, LineIsWritten
  <2>2. ~ Answered(f)'
    BY <1>0, <2>1 DEF Answered, IdIn
  <2>3. Admitted(f) /\ MissesNothing(f)
    BY <2>1, <2>2 DEF Admitted, CurrentInv, idToIndex
  <2>4. ~ Pending(f)
    BY <1>0, <2>1, <2>3, HolderType DEF UnhandledInv
  <2>5. AllCarry(net'[Leader][f], log'[Leader])
    BY <2>1, <2>4 DEF Pending, HasState, AllCarry
  <2>6. /\ log'[Leader] = Append(l, clients) /\ log'[f] = log[f]
        /\ lines'[f] = Append(lines[f], clients)
    BY <1>0, <1>2, <2>3
       DEF WriteLine, messageShouldDrop, Admitted, TypeInv, TypeOK
  <2>7. clients \in Line
    BY <1>2 DEF WriteLine, TypeInv
  <2>8. Range(log'[Leader]) \subseteq Range(log'[f] \o lines'[f])
    <3>1. /\ Append(lines[f], clients) \in Seq(Line)
          /\ Range(Append(l, clients)) = Range(l) \cup {clients}
          /\ Range(Append(lines[f], clients)) = Range(lines[f]) \cup {clients}
      BY <1>0, <2>7, RangeOfAppend
    <3>2. /\ Range(log[f] \o lines[f]) = Range(log[f]) \cup Range(lines[f])
          /\ Range(log[f] \o Append(lines[f], clients))
               = Range(log[f]) \cup Range(Append(lines[f], clients))
      BY <1>0, <2>7, <3>1, RangeOfConcat
    <3>3. Range(l) \subseteq Range(log[f] \o lines[f])
      BY <2>3 DEF MissesNothing
    <3> QED
      BY <2>6, <3>1, <3>2, <3>3
  <2> QED
    BY <2>5, <2>8 DEF MissesNothing, AllCarry, Range
<1>3. CASE Answered(f) \/ (Admitted(f) /\ ~ WriteLine)
  <2>1. MissesNothing(f)
    BY <1>3 DEF CurrentInv
  <2> QED
    BY <1>2, <2>1, MissesNothingStep
<1> QED
  <2>1. Admitted(f)' => Admitted(f) \/ Answered(f)
    BY AdmittedStep DEF Answered
  <2>2. Answered(f)' => Answered(f) \/ (Answers(f) /\ Head(c).id \in Live)
    BY AnsweredStep
  <2> QED
    BY <1>1, <1>2, <1>3, <2>1, <2>2

(****************************************************************************)
(* AdmittedMissesNothing: RECOVERY_DURATION is long enough for the leader   *)
(* to find out that the node has crashed again before it has handled its    *)
(* STATE, which otherwise would overwrite lines written later.              *)
(****************************************************************************)
THEOREM ReadmittedMissesNothing ==
  ASSUME LoopsPerSecond > 1,
         RECOVERY_DURATION >= TIMEOUT_DURATION + 2
  PROVE  Spec => []AdmittedMissesNothing
<1> DEFINE Inv == LatestInv /\ AtOnceInv /\ UnhandledInv /\ CurrentInv
<1>1. Hold >= MaxAge + 2
  <2>1. \A a, b, c \in Nat : a > 1 /\ b >= c + 2 => b * a >= a * (c + 1) + 2
    OBVIOUS
  <2> QED
    BY <2>1, RecoveryAssumption DEF Hold, MaxAge
<1>2. Init => Inv
  <2> SUFFICES ASSUME Init, NEW f \in Follower
               PROVE  /\ Latest(net[Leader][f], Live, log[Leader])
                      /\ ~ Pending(f) /\ MissesNothing(f)
    BY DEF LatestInv, AtOnceInv, UnhandledInv, CurrentInv
  <2>1. /\ f \in Node /\ Leader \in Node
    BY Constants
  <2>2. /\ net[Leader][f] = << >> /\ log[Leader] = << >>
    BY <2>1 DEF Init, EmptyChannels
  <2>3. Range(log[Leader]) = {}
    BY <2>2 DEF Range
  <2> QED
    BY <2>2, <2>3 DEF Latest, Pending, HasState, MissesNothing, AllCarry
<1>3. (TypeInv /\ HearInv /\ ShapeInv /\ IdInv /\ LeaderIsHeard)
        /\ Inv /\ [Next]_vars => Inv'
  BY <1>1, LatestStep, AtOnceStep, UnhandledStep, CurrentStep
<1>4. Inv => AdmittedMissesNothing
  BY DEF CurrentInv, MissesNothing, AdmittedMissesNothing
<1>5. Spec => []LeaderIsHeard
  BY LeaderIsNeverSuspected
<1> QED
  BY <1>2, <1>3, <1>4, <1>5, HearInvariance, IdInvariance, PTL DEF Spec

--------------------------------------------------------------------------------
(* The first recovery.                                                      *)

Suspects(f) == \/ ~ isAlive[Leader][idToIndex(Leader, f)]
               \/ <<Leader, f>> \in failing
Away(f)     == crashed[f] \/ f \in replAsleep

(****************************************************************************)
(* The leader has just heard a node that has not crashed yet, and suspects  *)
(* a "crashed" one only MaxAge loops after its last PING, which the ping    *)
(* thread sends although the node is "crashed".                             *)
(****************************************************************************)
Seen(f) ==
  /\ crashes = 0 => ~ Away(f) /\ ~ Suspects(f)
  /\ Away(f) /\ Suspects(f) => age[Leader][f] >= MaxAge
  /\ (crashes = 0 \/ Away(f)) /\ pos[f] \notin {Waiting, Blocked} =>
       age[Leader][f] <= 1
  /\ (crashes = 0 \/ crashed[f]) /\ pos[f] = Waiting => age[Leader][f] = 0

SeenInv == crashes <= 1 => \A f \in Follower : Seen(f)

\* What Seen speaks of.
LEMMA SeenTypes ==
  ASSUME TypeInv, HearInv, NEW f \in Follower
  PROVE  /\ f \in Node /\ Leader \in Node /\ f # Leader
         /\ idToIndex(Leader, f) \in Index
         /\ indexToId(Leader, idToIndex(Leader, f)) = f
         /\ crashed \in [Node -> BOOLEAN] /\ ~ crashed[Leader]
         /\ age \in [Node -> [Node -> 0 .. MaxAge]]
         /\ age[Leader][f] \in 0 .. MaxAge
         /\ pos \in [Node -> 0 .. Blocked]
         /\ isAlive \in [Node -> [Index -> BOOLEAN]]
         /\ MaxAge \in Nat /\ MaxAge >= 2 /\ crashes \in Nat
         /\ pos[f] = Blocked => crashed[f]
<1>1. MaxAge >= 2
  <2>1. \A a, b \in Nat : a >= 1 /\ b >= 1 => a * (b + 1) >= 2
    OBVIOUS
  <2> QED
    BY <2>1, Constants DEF MaxAge
<1>2. /\ idToIndex(Leader, f) \in Index
      /\ indexToId(Leader, idToIndex(Leader, f)) = f
  BY SilentTypes, Indices
<1>3. /\ isAlive \in [Node -> [Index -> BOOLEAN]] /\ crashes \in Nat
  BY DEF TypeInv, TypeOK
<1> QED
  BY <1>1, <1>2, <1>3, SilentTypes, HearTypes DEF HearInv, Hears

LEMMA SeenKept ==
  ASSUME NEW f \in Follower, Seen(f), crashes' = crashes,
         Away(f)' => Away(f), crashed'[f] = crashed[f],
         Suspects(f)' => Suspects(f),
         pos'[f] = pos[f], age'[Leader][f] = age[Leader][f]
  PROVE  Seen(f)'
BY DEF Seen

\* Suspicion comes with age.
LEMMA OldEnough ==
  ASSUME TypeInv, HearInv, NEW f \in Follower
  PROVE  /\ elapsed(Leader, f) > TIMEOUT_DURATION => age[Leader][f] >= MaxAge
         /\ age[Leader][f] >= MaxAge =>
              ~ (elapsed(Leader, f) < TIMEOUT_DURATION)
<1>1. /\ age[Leader][f] \in Nat /\ age[Leader][f] <= MaxAge
      /\ LoopsPerSecond \in Nat /\ LoopsPerSecond >= 1
      /\ TIMEOUT_DURATION \in Nat /\ MaxAge \in Nat
  BY SeenTypes, Constants
<1>2. \A a, l, t \in Nat : l >= 1 /\ a < l * (t + 1) => ~ (a \div l > t)
  <2> SUFFICES ASSUME NEW a \in Nat, NEW l \in Nat, NEW t \in Nat, l >= 1,
                      a < l * (t + 1), a \div l > t
               PROVE  FALSE
    OBVIOUS
  <2> DEFINE q == a \div l
  <2>1. q \in Nat /\ l * q <= a
    OBVIOUS
  <2>2. q >= t + 1
    BY <2>1
  <2> HIDE DEF q
  <2>3. l * q >= l * (t + 1)
    BY <2>1, <2>2
  <2> QED
    BY <2>1, <2>3
<1>3. \A l, t \in Nat : l >= 1 => (l * (t + 1)) \div l = t + 1
  OBVIOUS
<1>4. ASSUME ~ (age[Leader][f] >= MaxAge)
      PROVE  ~ (elapsed(Leader, f) > TIMEOUT_DURATION)
  <2>1. age[Leader][f] < LoopsPerSecond * (TIMEOUT_DURATION + 1)
    BY <1>1, <1>4 DEF MaxAge
  <2> QED
    BY <1>1, <1>2, <2>1 DEF elapsed
<1>5. ASSUME age[Leader][f] >= MaxAge
      PROVE  ~ (elapsed(Leader, f) < TIMEOUT_DURATION)
  <2>1. age[Leader][f] = LoopsPerSecond * (TIMEOUT_DURATION + 1)
    BY <1>1, <1>5 DEF MaxAge
  <2>2. elapsed(Leader, f) = TIMEOUT_DURATION + 1
    BY <1>1, <1>3, <2>1 DEF elapsed
  <2> QED
    BY <1>1, <2>2
<1> QED
  BY <1>4, <1>5

\* A step of the ping threads.
LEMMA PingSeen ==
  ASSUME TypeInv, HearInv, NEW f \in Follower, Seen(f),
         NEW n \in Node, checkTimeStamps(n) \/ broadcastPing(n)
  PROVE  Seen(f)'
<1> DEFINE a == age[Leader][f]
<1>0. /\ f \in Node /\ Leader \in Node /\ f # Leader
      /\ crashed \in [Node -> BOOLEAN] /\ ~ crashed[Leader]
      /\ age \in [Node -> [Node -> 0 .. MaxAge]]
      /\ pos \in [Node -> 0 .. Blocked]
      /\ a \in Nat /\ MaxAge \in Nat /\ MaxAge >= 2
      /\ Waiting # Blocked /\ clusterSize \in Nat /\ Waiting = clusterSize
      /\ Blocked = clusterSize + 1
  BY SeenTypes, Constants
<1>1. CASE checkTimeStamps(n)
  <2>1. /\ pos[n] \in Index /\ pos' = [pos EXCEPT ![n] = @ + 1]
        /\ UNCHANGED <<crashed, crashes, replAsleep, age, isAlive>>
        /\ failing' = IF /\ isAlive[n][pos[n]]
                         /\ elapsed(n, indexToId(n, pos[n])) > TIMEOUT_DURATION
                      THEN failing \cup {<<n, indexToId(n, pos[n])>>}
                      ELSE failing
    BY <1>1 DEF checkTimeStamps
  <2>2. /\ crashes' = crashes /\ crashed' = crashed /\ age' = age
        /\ Away(f)' <=> Away(f)
    BY <2>1 DEF Away
  <2>3. Suspects(f)' => Suspects(f) \/ a >= MaxAge
    <3> SUFFICES ASSUME <<Leader, f>> \in failing', <<Leader, f>> \notin failing
                 PROVE  a >= MaxAge
      BY <2>1 DEF Suspects, idToIndex
    <3>1. elapsed(Leader, f) > TIMEOUT_DURATION
      BY <2>1
    <3> QED
      BY <3>1, OldEnough
  <2>4. /\ pos[f] \notin {Waiting, Blocked} \/ pos'[f] = pos[f]
        /\ pos'[f] \notin {Waiting, Blocked} \/ pos'[f] = pos[f]
    <3>1. CASE n = f
      <4>1. pos'[f] = pos[f] + 1 /\ pos[f] \in Index
        BY <1>0, <2>1, <3>1
      <4> QED
        BY <1>0, <4>1 DEF Index
    <3>2. CASE n # f
      BY <1>0, <2>1, <3>2
    <3> QED
      BY <3>1, <3>2
  <2>5. crashes = 0 => ~ (a >= MaxAge)
    <3> SUFFICES ASSUME crashes = 0 PROVE ~ (a >= MaxAge)
      OBVIOUS
    <3>1. ~ crashed[f]
      BY DEF Seen, Away
    <3>2. pos[f] # Blocked
      BY <3>1, SeenTypes
    <3>3. a <= 1 \/ a = 0
      BY <3>2 DEF Seen
    <3> QED
      BY <1>0, <3>3
  <2> HIDE DEF a
  <2>6. a = age[Leader][f]
    BY DEF a
  <2> QED
    BY <2>2, <2>3, <2>4, <2>5, <2>6 DEF Seen
<1>2. CASE broadcastPing(n)
  <2>1. /\ pos[n] = clusterSize - 1
        /\ pos' = [pos EXCEPT ![n] = IF crashed[n] THEN Blocked ELSE Waiting]
        /\ age' = [m \in Node |->
                     IF m # n /\ ~ crashed[m] THEN [age[m] EXCEPT ![n] = 0]
                     ELSE age[m]]
        /\ UNCHANGED <<crashed, crashes, replAsleep, failing, isAlive>>
    BY <1>2 DEF broadcastPing, tables
  <2>2. /\ crashes' = crashes /\ crashed' = crashed
        /\ Away(f)' <=> Away(f)
        /\ Suspects(f)' <=> Suspects(f)
    BY <2>1 DEF Away, Suspects, idToIndex
  <2>3. CASE n # f
    <3>1. pos'[f] = pos[f] /\ age'[Leader][f] = age[Leader][f]
      BY <1>0, <2>1, <2>3
    <3> QED
      BY <2>2, <3>1, SeenKept
  <2>4. CASE n = f
    <3>1. /\ pos'[f] \in {Waiting, Blocked} /\ age'[Leader][f] = 0
          /\ pos[f] \notin {Waiting, Blocked}
      BY <1>0, <2>1, <2>4
    <3>2. ~ (Away(f) /\ Suspects(f))
      <4> SUFFICES ASSUME Away(f), Suspects(f) PROVE FALSE
        OBVIOUS
      <4>1. a >= MaxAge /\ a <= 1
        BY <3>1 DEF Seen
      <4> QED
        BY <1>0, <4>1
    <3> QED
      BY <2>2, <3>1, <3>2 DEF Seen
  <2> QED
    BY <2>3, <2>4
<1> QED
  BY <1>1, <1>2

LEMMA CrashesStep ==
  ASSUME [Next]_vars
  PROVE  crashes' \in {crashes, crashes + 1}
BY DEF Next, Threads, Environment, vars, heartbeat, checkTimeStamps,
   broadcastPing, handleNodeFailure, SetRecoveryId, SendState, EndRecovery,
   handleState, handleStateUpdate, handleRecovered, Readmit, ReceiveAccepted,
   Tick, Crash, Recover, ReplWakes, AcceptConnection, WriteLine, Disconnect

LEMMA SeenStep ==
  ASSUME TypeInv, HearInv, ShapeInv, SeenInv, [Next]_vars
  PROVE  SeenInv'
<1> SUFFICES ASSUME crashes' <= 1, NEW f \in Follower PROVE Seen(f)'
  BY DEF SeenInv
<1>0. /\ f \in Node /\ Leader \in Node /\ f # Leader
      /\ idToIndex(Leader, f) \in Index
      /\ crashed \in [Node -> BOOLEAN]
      /\ age \in [Node -> [Node -> 0 .. MaxAge]]
      /\ age[Leader][f] \in 0 .. MaxAge
      /\ pos \in [Node -> 0 .. Blocked]
      /\ isAlive \in [Node -> [Index -> BOOLEAN]]
      /\ MaxAge \in Nat /\ MaxAge >= 2 /\ crashes \in Nat
      /\ crashes' \in {crashes, crashes + 1}
  BY CrashesStep, SeenTypes
<1>1. crashes <= 1 /\ Seen(f)
  BY <1>0 DEF SeenInv
<1>2. ASSUME UNCHANGED heartbeat, Suspects(f)' => Suspects(f)
      PROVE  Seen(f)'
  BY <1>1, <1>2, SeenKept DEF heartbeat, Away
<1>3. ASSUME UNCHANGED <<heartbeat, isAlive, failing>> PROVE Seen(f)'
  BY <1>2, <1>3 DEF Suspects, idToIndex
<1>4. ASSUME NEW n \in Node, checkTimeStamps(n) \/ broadcastPing(n)
      PROVE  Seen(f)'
  BY <1>1, <1>4, PingSeen
<1>5. ASSUME NEW n \in Node, NEW m \in Node, handleNodeFailure(n, m)
      PROVE  Seen(f)'
  <2>1. /\ <<n, m>> \in failing /\ failing' = failing \ {<<n, m>>}
        /\ isAlive' = [isAlive EXCEPT ![n][idToIndex(n, m)] = FALSE]
        /\ UNCHANGED heartbeat
    BY <1>5 DEF handleNodeFailure
  <2>2. n # m
    <3>1. <<n, m>>[1] # <<n, m>>[2]
      BY <2>1 DEF TypeInv
    <3> QED
      BY <3>1
  <2>3. CASE n = Leader /\ m = f
    BY <1>2, <2>1, <2>3 DEF Suspects
  <2>4. CASE ~ (n = Leader /\ m = f)
    <3>1. n = Leader => idToIndex(n, m) # idToIndex(Leader, f)
      BY <1>0, <2>2, <2>4, Indices
    <3>2. isAlive'[Leader][idToIndex(Leader, f)]
            = isAlive[Leader][idToIndex(Leader, f)]
      BY <1>0, <2>1, <3>1
    <3> QED
      BY <1>2, <2>1, <3>2 DEF Suspects, idToIndex
  <2> QED
    BY <2>3, <2>4
<1>6. ASSUME NEW n \in Node, NEW src \in Node, handleRecovered(n, src)
      PROVE  Seen(f)'
  <2>1. age'[Leader] = age[Leader] /\ isAlive'[Leader] = isAlive[Leader]
    BY <1>6, RecoveredEffect
  <2>2. UNCHANGED <<crashes, crashed, replAsleep, pos, failing>>
    BY <1>6 DEF handleRecovered
  <2> QED
    BY <1>1, <2>1, <2>2, SeenKept DEF Away, Suspects, idToIndex
<1>7. CASE Readmit
  <2>1. /\ isAlive'[Leader] =
             [isAlive[Leader] EXCEPT ![idToIndex(Leader, updating)] = TRUE]
        /\ UNCHANGED <<heartbeat, failing>>
    BY <1>7, ReadmitEffect DEF Readmit
  <2>2. isAlive[Leader] \in [Index -> BOOLEAN]
    BY <1>0
  <2>3. isAlive[Leader][idToIndex(Leader, f)]
          => isAlive'[Leader][idToIndex(Leader, f)]
    BY <1>0, <2>1, <2>2
  <2> QED
    BY <1>2, <2>1, <2>3 DEF Suspects, idToIndex
<1>8. CASE Tick
  <2>1. /\ age'[Leader][f] = IF age[Leader][f] < MaxAge
                             THEN age[Leader][f] + 1 ELSE age[Leader][f]
        /\ pos'[f] = IF pos[f] = Waiting THEN 0 ELSE pos[f]
        /\ replAsleep' = {} /\ crashed' = crashed /\ crashes' = crashes
        /\ isAlive' = isAlive /\ failing' = failing
        /\ pos[f] \in {Waiting, Blocked}
    BY <1>0, <1>8 DEF Tick, Quiet, tables
  <2>2. /\ Away(f)' <=> crashed[f]
        /\ crashed[f] => Away(f)
        /\ Suspects(f)' <=> Suspects(f)
    BY <2>1 DEF Away, Suspects, idToIndex
  <2>3. pos'[f] # Waiting
    BY <2>1, SilentTypes
  <2>4. pos'[f] \notin {Waiting, Blocked} => pos[f] = Waiting
    BY <2>1
  <2>5. (crashes = 0 \/ crashed[f]) /\ pos'[f] \notin {Waiting, Blocked}
          => age'[Leader][f] <= 1
    <3> SUFFICES ASSUME crashes = 0 \/ crashed[f], pos[f] = Waiting
                 PROVE  age'[Leader][f] <= 1
      BY <2>4
    <3>1. age[Leader][f] = 0
      BY <1>1 DEF Seen
    <3> QED
      BY <1>0, <2>1, <3>1
  <2>6. age[Leader][f] >= MaxAge => age'[Leader][f] >= MaxAge
    BY <1>0, <2>1
  <2> QED
    BY <1>1, <2>1, <2>2, <2>3, <2>5, <2>6 DEF Seen
<1>9. ASSUME NEW g \in Follower, Crash(g)
      PROVE  Seen(f)'
  <2>1. /\ crashes' = crashes + 1 /\ crashed' = [crashed EXCEPT ![g] = TRUE]
        /\ UNCHANGED <<replAsleep, age, pos, isAlive, failing>>
    BY <1>9 DEF Crash, tables
  <2>2. crashes = 0 /\ crashes' # 0
    BY <1>0, <2>1
  <2>3. ~ Suspects(f) /\ ~ Suspects(f)'
    BY <1>1, <2>1, <2>2 DEF Seen, Suspects, idToIndex
  <2> QED
    BY <1>1, <2>1, <2>2, <2>3 DEF Seen
<1>10. ASSUME NEW g \in Follower, Recover(g)
       PROVE  Seen(f)'
  <2>1. /\ crashed[g] /\ crashed' = [crashed EXCEPT ![g] = FALSE]
        /\ replAsleep' = replAsleep \cup {g}
        /\ age' = [age EXCEPT ![g] =
                     [m \in Node |-> IF m \in pinged[g] THEN 0 ELSE @[m]]]
        /\ pos' = [pos EXCEPT ![g] = IF @ = Blocked THEN Waiting ELSE @]
        /\ UNCHANGED <<crashes, isAlive, failing>>
        /\ g \in Node /\ g # Leader
    BY <1>10, StateFacts DEF Recover, tables
  <2>2. age'[Leader][f] = age[Leader][f]
    BY <1>0, <2>1
  <2>3. Suspects(f)' <=> Suspects(f)
    BY <2>1 DEF Suspects, idToIndex
  <2>4. CASE g # f
    <3>1. /\ crashed'[f] = crashed[f] /\ pos'[f] = pos[f]
          /\ f \in replAsleep' <=> f \in replAsleep
      BY <1>0, <2>1, <2>4
    <3> QED
      BY <1>1, <2>1, <2>2, <2>3, <3>1, SeenKept DEF Away
  <2>5. CASE g = f
    <3>1. /\ ~ crashed'[f] /\ f \in replAsleep'
          /\ pos'[f] = IF pos[f] = Blocked THEN Waiting ELSE pos[f]
      BY <1>0, <2>1, <2>5
    <3>2. Away(f) /\ Away(f)' /\ crashes # 0 /\ crashes' = crashes
      BY <1>1, <2>1, <2>5, <3>1 DEF Seen, Away
    <3> QED
      BY <1>1, <2>2, <2>3, <3>1, <3>2 DEF Seen
  <2> QED
    BY <2>4, <2>5
<1>11. ASSUME NEW g \in Follower, ReplWakes(g)
       PROVE  Seen(f)'
  <2>1. /\ replAsleep' \subseteq replAsleep
        /\ UNCHANGED <<crashes, crashed, age, pos, isAlive, failing>>
    BY <1>11 DEF ReplWakes, tables
  <2> QED
    BY <1>1, <2>1, SeenKept DEF Away, Suspects, idToIndex
<1>12. ASSUME NEW n \in Node, NEW src \in Node,
              handleState(n, src) \/ handleStateUpdate(n, src)
       PROVE  Seen(f)'
  BY <1>3, <1>12 DEF handleState, handleStateUpdate, tables
<1>13. ASSUME NEW g \in Follower, SetRecoveryId(g) \/ ReceiveAccepted(g)
       PROVE  Seen(f)'
  BY <1>3, <1>13 DEF SetRecoveryId, ReceiveAccepted, tables
<1>14. ASSUME \/ EndRecovery \/ AcceptConnection \/ Disconnect \/ WriteLine
              \/ UNCHANGED vars \/ \E j \in DOMAIN waiters : SendState(j)
       PROVE  Seen(f)'
  BY <1>3, <1>14 DEF EndRecovery, AcceptConnection, Disconnect, WriteLine,
     SendState, vars, tables
<1> QED
  BY <1>4, <1>5, <1>6, <1>7, <1>8, <1>9, <1>10, <1>11, <1>12, <1>13, <1>14
     DEF Next, Threads, Environment

\* Who is blocked, or sleeps, and what the leader's client thread waits for.
LEMMA AwayStep ==
  ASSUME TypeInv, [Next]_vars, NEW f \in Follower
  PROVE  /\ Away(f) => Away(f)' \/ NothingWaits(f)
         /\ Away(f)' => Away(f) \/ (Crash(f) /\ crashes' = crashes + 1)
<1>0. f \in Node /\ crashed \in [Node -> BOOLEAN]
  BY HearTypes
<1>1. CASE UNCHANGED <<crashed, replAsleep>>
  BY <1>1 DEF Away
<1>2. CASE Tick
  <2>1. /\ crashed' = crashed /\ replAsleep' = {}
        /\ crashed[f] \/ NothingWaits(f)
    BY <1>0, <1>2 DEF Tick, Quiet
  <2> QED
    BY <2>1 DEF Away
<1>3. ASSUME NEW g \in Follower, Crash(g)
      PROVE  /\ Away(f) => Away(f)'
             /\ Away(f)' => Away(f) \/ (Crash(f) /\ crashes' = crashes + 1)
  <2>1. /\ crashed' = [crashed EXCEPT ![g] = TRUE] /\ replAsleep' = replAsleep
        /\ crashes' = crashes + 1
    BY <1>3 DEF Crash
  <2>2. CASE g = f
    BY <1>0, <1>3, <2>1, <2>2 DEF Away
  <2>3. CASE g # f
    BY <1>0, <2>1, <2>3 DEF Away
  <2> QED
    BY <2>2, <2>3
<1>4. ASSUME NEW g \in Follower, Recover(g)
      PROVE  Away(f)' <=> Away(f)
  <2>1. /\ crashed' = [crashed EXCEPT ![g] = FALSE] /\ crashed[g]
        /\ replAsleep' = replAsleep \cup {g}
    BY <1>4 DEF Recover
  <2>2. CASE g = f
    BY <1>0, <2>1, <2>2 DEF Away
  <2>3. CASE g # f
    BY <1>0, <2>1, <2>3 DEF Away
  <2> QED
    BY <2>2, <2>3
<1>5. ASSUME NEW g \in Follower, ReplWakes(g)
      PROVE  /\ Away(f) => Away(f)' \/ NothingWaits(f)
             /\ Away(f)' => Away(f)
  BY <1>5 DEF ReplWakes, Away
<1>6. ASSUME NEW n \in Node, NEW m \in Node,
             \/ checkTimeStamps(n) \/ broadcastPing(n)
             \/ handleNodeFailure(n, m) \/ handleState(n, m)
             \/ handleStateUpdate(n, m) \/ handleRecovered(n, m)
      PROVE  UNCHANGED <<crashed, replAsleep>>
  BY <1>6 DEF checkTimeStamps, broadcastPing, handleNodeFailure, handleState,
     handleStateUpdate, handleRecovered, heartbeat
<1>7. ASSUME NEW g \in Follower, SetRecoveryId(g) \/ ReceiveAccepted(g)
      PROVE  UNCHANGED <<crashed, replAsleep>>
  BY <1>7 DEF SetRecoveryId, ReceiveAccepted, heartbeat
<1>8. ASSUME \/ EndRecovery \/ AcceptConnection \/ Disconnect \/ WriteLine
             \/ Readmit \/ UNCHANGED vars
             \/ \E j \in DOMAIN waiters : SendState(j)
      PROVE  UNCHANGED <<crashed, replAsleep>>
  BY <1>8 DEF EndRecovery, AcceptConnection, Disconnect, WriteLine, Readmit,
     SendState, vars, heartbeat
<1> QED
  BY <1>1, <1>2, <1>3, <1>4, <1>5, <1>6, <1>7, <1>8
     DEF Next, Threads, Environment

LEMMA ClientStep ==
  ASSUME [Next]_vars
  PROVE  \/ client' = client \/ WriteLine \/ Tick
         \/ AcceptConnection /\ client = "none" /\ client' = "connected"
         \/ Disconnect /\ client \in {"ready", "done"}
<1>1. ASSUME NEW n \in Node, NEW m \in Node,
             \/ checkTimeStamps(n) \/ broadcastPing(n)
             \/ handleNodeFailure(n, m) \/ handleState(n, m)
             \/ handleStateUpdate(n, m) \/ handleRecovered(n, m)
      PROVE  UNCHANGED client
  BY <1>1 DEF checkTimeStamps, broadcastPing, handleNodeFailure, handleState,
     handleStateUpdate, handleRecovered, clientThread
<1>2. ASSUME NEW g \in Follower,
             \/ SetRecoveryId(g) \/ ReceiveAccepted(g)
             \/ Crash(g) \/ Recover(g) \/ ReplWakes(g)
      PROVE  UNCHANGED client
  BY <1>2 DEF SetRecoveryId, ReceiveAccepted, Crash, Recover, ReplWakes,
     clientThread
<1>3. ASSUME \/ EndRecovery \/ Readmit \/ UNCHANGED vars
             \/ \E j \in DOMAIN waiters : SendState(j)
      PROVE  UNCHANGED client
  BY <1>3 DEF EndRecovery, Readmit, SendState, vars, clientThread
<1>4. ASSUME AcceptConnection
      PROVE  client = "none" /\ client' = "connected"
  BY <1>4 DEF AcceptConnection, MutexIsFree
<1>5. ASSUME Disconnect PROVE client \in {"ready", "done"}
  BY <1>5 DEF Disconnect
<1> QED
  BY <1>1, <1>2, <1>3, <1>4, <1>5 DEF Next, Threads, Environment

\* A line on its way to a node that is neither blocked nor asleep has been
\* written in this loop.
WrittenInv ==
  \A f \in Follower : lines[f] # << >> => Away(f) \/ client = "served"

LEMMA WrittenStep ==
  ASSUME TypeInv, ShapeInv, WrittenInv, [Next]_vars
  PROVE  WrittenInv'
<1> SUFFICES ASSUME NEW f \in Follower, lines'[f] # << >>
             PROVE  Away(f)' \/ client' = "served"
  BY DEF WrittenInv
<1>1. CASE WriteLine
  BY <1>1 DEF WriteLine
<1>2. CASE ~ WriteLine
  <2>1. lines[f] # << >>
    BY <1>2, FileStep DEF ReceiveAccepted, Answers
  <2>2. ~ NothingWaits(f)
    BY <2>1 DEF NothingWaits
  <2>3. CASE Away(f)
    BY <2>2, <2>3, AwayStep
  <2>4. CASE client = "served" /\ Tick
    <3>1. crashed'[f]
      BY <2>2, <2>4, StateFacts DEF Tick, Quiet
    <3> QED
      BY <3>1 DEF Away
  <2>5. CASE client = "served" /\ ~ Tick
    BY <1>2, <2>5, ClientStep
  <2> QED
    BY <2>1, <2>3, <2>4, <2>5 DEF WrittenInv
<1> QED
  BY <1>1, <1>2

\* A state transfer to f is under way.
Waits(f)      == \E j \in DOMAIN waiters : waiters[j].node = f
Recovering(f) == f \in starting \/ Waits(f) \/ Pending(f)

LEMMA Removed ==
  ASSUME NEW S, NEW s \in Seq(S), NEW j \in DOMAIN s
  PROVE  \A k \in DOMAIN RemoveAt(s, j) :
           \E i \in DOMAIN s : RemoveAt(s, j)[k] = s[i]
<1>1. /\ j \in 1 .. Len(s) /\ Len(s) \in Nat
      /\ RemoveAt(s, j) = SubSeq(s, 1, j - 1) \o SubSeq(s, j + 1, Len(s))
  BY DEF RemoveAt
<1> DEFINE a == SubSeq(s, 1, j - 1)
           b == SubSeq(s, j + 1, Len(s))
<1>2. /\ a \in Seq(S) /\ Len(a) = j - 1
      /\ \A k \in 1 .. Len(a) : k \in DOMAIN s /\ a[k] = s[k]
  <2>1. /\ 1 \in Int /\ j - 1 \in Nat
        /\ \A i \in 1 .. j - 1 : i \in DOMAIN s /\ s[i] \in S
    BY <1>1
  <2>2. /\ a \in Seq(S) /\ Len(a) = j - 1
        /\ \A i \in 1 .. j - 1 : a[i] = s[i]
    BY <2>1, SubSeqProperties
  <2> QED
    BY <2>1, <2>2
<1>3. /\ b \in Seq(S) /\ Len(b) = Len(s) - j
      /\ \A k \in 1 .. Len(b) : k + j \in DOMAIN s /\ b[k] = s[k + j]
  <2>1. /\ j + 1 \in Int /\ Len(s) \in Int /\ Len(s) - j \in Nat
        /\ \A i \in j + 1 .. Len(s) : i \in DOMAIN s /\ s[i] \in S
    BY <1>1
  <2>2. /\ b \in Seq(S) /\ Len(b) = Len(s) - j
        /\ \A i \in 1 .. Len(s) - j : b[i] = s[i + j]
    BY <2>1, SubSeqProperties
  <2> QED
    BY <2>1, <2>2
<1> HIDE DEF a, b
<1>4. \A k \in DOMAIN (a \o b) :
        \/ k \in 1 .. Len(a) /\ (a \o b)[k] = a[k]
        \/ k - Len(a) \in 1 .. Len(b) /\ (a \o b)[k] = b[k - Len(a)]
  BY <1>2, <1>3
<1>5. \A k \in DOMAIN (a \o b) : \E i \in DOMAIN s : (a \o b)[k] = s[i]
  BY <1>2, <1>3, <1>4
<1> QED
  BY <1>1, <1>5 DEF a, b

\* A STATE is sent to a node that waits for it.
LEMMA SentToWaiter ==
  ASSUME TypeInv, [Next]_vars, NEW f \in Follower, IsSent(f)
  PROVE  Waits(f) /\ \E j \in DOMAIN waiters : SendState(j)
<1>1. holder = NoHolder /\ holder'.node = f /\ f # -1
  BY StateFacts DEF IsSent
<1>2. holder' # holder /\ holder' # NoHolder /\ holder.left = -1
  BY <1>1, HolderType DEF NoHolder
<1>3. ~ Tick /\ ~ EndRecovery
  BY <1>1, <1>2 DEF Tick, EndRecovery
<1>4. PICK j \in DOMAIN waiters : SendState(j)
  BY <1>2, <1>3, HolderStep
<1>5. holder' = [node |-> waiters[j].node, id |-> waiters[j].id,
                 left |-> RECOVERY_DURATION * LoopsPerSecond]
  BY <1>4 DEF SendState
<1>6. waiters[j].node = f
  BY <1>1, <1>5
<1> QED
  BY <1>4, <1>6 DEF Waits

LEMMA RecoveringStep ==
  ASSUME TypeInv, HearInv, ShapeInv, [Next]_vars, NEW f \in Follower,
         Recovering(f)'
  PROVE  \/ Recovering(f)
         \/ /\ checkTimeStamps(Leader)
            /\ Suspects(f) /\ elapsed(Leader, f) < TIMEOUT_DURATION
<1> DEFINE Waiter == [node : Follower, id : Nat]
<1>0. waiters \in Seq(Waiter) /\ now \in Nat
  BY DEF TypeInv, TypeOK
<1>1. ASSUME NEW j \in DOMAIN waiters, SendState(j)
      PROVE  Recovering(f)
  <2>1. /\ waiters' = RemoveAt(waiters, j) /\ starting' = starting
        /\ holder' = [node |-> waiters[j].node, id |-> waiters[j].id,
                      left |-> RECOVERY_DURATION * LoopsPerSecond]
    BY <1>1 DEF SendState
  <2>2. Waits(f)' => Waits(f)
    <3> HIDE DEF Waiter
    <3>1. \A k \in DOMAIN RemoveAt(waiters, j) :
            \E i \in DOMAIN waiters : RemoveAt(waiters, j)[k] = waiters[i]
      BY <1>0, Removed
    <3> QED
      BY <2>1, <3>1 DEF Waits
  <2>3. IsSent(f) => Waits(f)
    BY <2>1 DEF IsSent, Waits
  <2> QED
    BY <2>1, <2>2, <2>3, PendingStep DEF Recovering
<1>2. IsSent(f) => \E j \in DOMAIN waiters : SendState(j)
  BY SentToWaiter
<1>3. ASSUME NEW g \in Follower, SetRecoveryId(g), Pending(f)' => Pending(f)
      PROVE  Recovering(f)
  <2> DEFINE w == [node |-> g, id |-> now]
  <2>1. /\ g \in starting /\ starting' = starting \ {g}
        /\ waiters' = Append(waiters, w)
    BY <1>3 DEF SetRecoveryId
  <2>2. w \in Waiter /\ w.node = g
    BY <1>0
  <2>3. Waits(f)' => Waits(f) \/ f = g
    <3> HIDE DEF w, Waiter
    <3>1. \A k \in DOMAIN Append(waiters, w) :
            \/ k \in DOMAIN waiters /\ Append(waiters, w)[k] = waiters[k]
            \/ k = Len(waiters) + 1 /\ Append(waiters, w)[k] = w
      BY <1>0, <2>2, Appended
    <3> QED
      BY <2>1, <2>2, <3>1 DEF Waits
  <2> QED
    BY <1>3, <2>1, <2>3 DEF Recovering
<1>4. ASSUME UNCHANGED <<starting, waiters>>, Pending(f)' => Pending(f)
      PROVE  Recovering(f)
  BY <1>4 DEF Recovering, Waits
<1>5. ASSUME NEW n \in Node, checkTimeStamps(n), Pending(f)' => Pending(f)
      PROVE  \/ Recovering(f)
             \/ /\ checkTimeStamps(Leader)
                /\ Suspects(f) /\ elapsed(Leader, f) < TIMEOUT_DURATION
  <2>1. CASE f \in starting' /\ f \notin starting
    <3>1. /\ n = Leader /\ pos[n] \in Index /\ f = indexToId(n, pos[n])
          /\ ~ isAlive[n][pos[n]] /\ elapsed(n, f) < TIMEOUT_DURATION
      BY <1>5, <2>1 DEF checkTimeStamps
    <3>2. pos[n] = idToIndex(Leader, f)
      BY <3>1, Constants, Indices
    <3> QED
      BY <1>5, <3>1, <3>2 DEF Suspects
  <2>2. CASE f \in starting' => f \in starting
    BY <1>5, <2>2 DEF checkTimeStamps, Recovering, Waits
  <2> QED
    BY <2>1, <2>2
<1>6. ASSUME NEW n \in Node, NEW m \in Node,
             \/ broadcastPing(n)
             \/ handleNodeFailure(n, m) \/ handleState(n, m)
             \/ handleStateUpdate(n, m) \/ handleRecovered(n, m)
      PROVE  UNCHANGED <<starting, waiters>>
  BY <1>6 DEF broadcastPing, handleNodeFailure, handleState,
     handleStateUpdate, handleRecovered, recovery
<1>7. ASSUME NEW g \in Follower,
             ReceiveAccepted(g) \/ Crash(g) \/ Recover(g) \/ ReplWakes(g)
      PROVE  UNCHANGED <<starting, waiters>>
  BY <1>7 DEF ReceiveAccepted, Crash, Recover, ReplWakes, recovery
<1>8. ASSUME \/ EndRecovery \/ AcceptConnection \/ Disconnect \/ WriteLine
             \/ Readmit \/ Tick \/ UNCHANGED vars
      PROVE  UNCHANGED <<starting, waiters>>
  BY <1>8 DEF EndRecovery, AcceptConnection, Disconnect, WriteLine, Readmit,
     Tick, vars, recovery
<1>9. CASE \E j \in DOMAIN waiters : SendState(j)
  BY <1>1, <1>9
<1>10. CASE ~ (\E j \in DOMAIN waiters : SendState(j))
  <2>1. Pending(f)' => Pending(f)
    BY <1>2, <1>10, PendingStep
  <2> QED
    BY <1>3, <1>4, <1>5, <1>6, <1>7, <1>8, <1>10, <2>1
       DEF Next, Threads, Environment
<1> QED
  BY <1>9, <1>10

\* Nobody is sent a state before the first crash, and nobody crashes while it
\* is, in the first recovery.
BackInv ==
  crashes <= 1 =>
    \A f \in Follower : Recovering(f) => crashes # 0 /\ ~ Away(f)

LEMMA BackStep ==
  ASSUME TypeInv, HearInv, ShapeInv, SeenInv, BackInv, [Next]_vars
  PROVE  BackInv'
<1> SUFFICES ASSUME crashes' <= 1, NEW f \in Follower, Recovering(f)'
             PROVE  crashes' # 0 /\ ~ Away(f)'
  BY DEF BackInv
<1>0. crashes \in Nat /\ crashes' \in {crashes, crashes + 1}
  BY SeenTypes, CrashesStep
<1>1. crashes <= 1 /\ Seen(f)
  BY <1>0 DEF SeenInv
<1>2. CASE Recovering(f)
  <2>1. crashes # 0 /\ ~ Away(f)
    BY <1>1, <1>2 DEF BackInv
  <2>2. Away(f)' => Away(f) \/ crashes' = crashes + 1
    BY AwayStep
  <2> QED
    BY <1>0, <2>1, <2>2
<1>3. CASE /\ checkTimeStamps(Leader)
           /\ Suspects(f) /\ elapsed(Leader, f) < TIMEOUT_DURATION
  <2>1. ~ (age[Leader][f] >= MaxAge)
    BY <1>3, OldEnough
  <2>2. crashes # 0 /\ ~ Away(f)
    BY <1>1, <1>3, <2>1 DEF Seen
  <2>3. UNCHANGED <<crashes, crashed, replAsleep>>
    BY <1>3 DEF checkTimeStamps
  <2> QED
    BY <2>2, <2>3 DEF Away
<1> QED
  BY <1>2, <1>3, RecoveringStep

\* Each STATE of c carries l.
AllExact(c, l) == \A k \in DOMAIN c : c[k].code = "STATE" => c[k].state = l

LEMMA ExactLeft ==
  ASSUME NEW c \in Seq(Message), c # << >>, NEW l \in Seq(Line), AllExact(c, l)
  PROVE  /\ AllExact(Tail(c), l)
         /\ Head(c).code = "STATE" => Head(c).state = l /\ HasState(c)
<1>1. /\ 1 \in DOMAIN c /\ Head(c) = c[1]
      /\ \A k \in DOMAIN Tail(c) : k + 1 \in DOMAIN c /\ Tail(c)[k] = c[k + 1]
  BY Consumed
<1> QED
  BY <1>1 DEF AllExact, HasState

LEMMA ExactSent ==
  ASSUME NEW c \in Seq(Message), NEW m \in Message, NEW l \in Seq(Line),
         AllExact(c, l), m.code = "STATE" => m.state = l
  PROVE  AllExact(Append(c, m), l)
<1>1. \A k \in DOMAIN Append(c, m) :
        \/ k \in DOMAIN c /\ Append(c, m)[k] = c[k]
        \/ k = Len(c) + 1 /\ Append(c, m)[k] = m
  BY Appended
<1> QED
  BY <1>1 DEF AllExact

(****************************************************************************)
(* While the first state transfer is under way no line is: the client       *)
(* thread has none to write, and those of before the crash have been        *)
(* received.                                                                *)
(****************************************************************************)
Unwritten(f) ==
  Pending(f) => /\ lines[f] = << >>
                /\ client \in {"none", "connected"}
                /\ AllExact(net[Leader][f], log[Leader])

Exact(f) == Admitted(f) \/ Answered(f) => log[f] \o lines[f] = log[Leader]

ExactInv == crashes <= 1 => \A f \in Follower : Unwritten(f) /\ Exact(f)

LEMMA UnwrittenStep ==
  ASSUME TypeInv, ShapeInv, WrittenInv, [Next]_vars, NEW f \in Follower,
         Unwritten(f), Recovering(f) => ~ Away(f),
         IsSent(f) => Recovering(f)
  PROVE  Unwritten(f)'
<1> SUFFICES ASSUME Pending(f)'
             PROVE  /\ lines'[f] = << >>
                    /\ client' \in {"none", "connected"}
                    /\ AllExact(net'[Leader][f], log'[Leader])
  BY DEF Unwritten, AllExact
<1> DEFINE c == net[Leader][f]
           c1 == net'[Leader][f]
           l == log[Leader]
<1>0. c \in Seq(Message) /\ l \in Seq(Line)
  BY StateFacts
<1>1. /\ lines[f] = << >> /\ client \in {"none", "connected"}
      /\ AllExact(c, l) /\ ~ Away(f)
  <2>1. CASE Pending(f)
    BY <2>1 DEF Unwritten, Recovering
  <2>2. CASE IsSent(f) /\ ~ Pending(f)
    <3>1. client = "none" /\ ~ Away(f)
      BY <2>2 DEF IsSent
    <3>2. lines[f] = << >>
      BY <3>1 DEF WrittenInv
    <3>3. AllExact(c, l)
      BY <2>2 DEF Pending, HasState, AllExact
    <3> QED
      BY <3>1, <3>2, <3>3
  <2> QED
    BY <2>1, <2>2, PendingStep
<1>2. ~ WriteLine /\ ~ ReceiveAccepted(f)
  BY <1>1 DEF WriteLine, ReceiveAccepted
<1>3. log'[Leader] = l /\ lines'[f] = << >>
  BY <1>1, <1>2, FileStep DEF Answers
<1>4. client' \in {"none", "connected"}
  <2>1. CASE Tick
    <3>1. ~ crashed[f] /\ f \in Node /\ Leader \in Node
      BY <1>1, StateFacts DEF Away
    <3>2. c = << >> /\ net' = net
      BY <2>1, <3>1 DEF Tick, Quiet, NothingWaits
    <3> QED
      BY <3>2 DEF Pending, HasState
  <2>2. CASE ~ Tick
    BY <1>1, <1>2, <2>2, ClientStep
  <2> QED
    BY <2>1, <2>2
<1>5. AllExact(c1, l)
  <2>1. CASE Kept(f) \/ Takes(f)
    BY <1>1, <2>1 DEF Kept, Takes
  <2>2. CASE Answers(f) \/ Forgets(f)
    <3>1. c # << >> /\ c1 = Tail(c)
      BY <2>2 DEF Answers, Forgets
    <3> HIDE DEF c, c1, l
    <3> QED
      BY <1>0, <1>1, <3>1, ExactLeft
  <2>3. CASE IsSent(f)
    <3> DEFINE m == [code |-> "STATE", id |-> holder'.id, state |-> l]
    <3>1. c1 = Append(c, m) /\ m \in Message
      BY <2>3 DEF IsSent
    <3>2. m.state = l
      OBVIOUS
    <3> HIDE DEF c, c1, l, m
    <3> QED
      BY <1>0, <1>1, <3>1, <3>2, ExactSent
  <2>4. CASE IsTold(f)
    <3> DEFINE m == [code |-> "RECOVERED", node |-> updating]
    <3>1. c1 = Append(c, m) /\ m \in Message
      BY <2>4 DEF IsTold
    <3>2. m.code # "STATE"
      OBVIOUS
    <3> HIDE DEF c, c1, l, m
    <3> QED
      BY <1>0, <1>1, <3>1, <3>2, ExactSent
  <2> QED
    BY <2>1, <2>2, <2>3, <2>4, ChannelStep
<1> QED
  BY <1>3, <1>4, <1>5

LEMMA ExactStep ==
  ASSUME TypeInv, ShapeInv, IdInv, LeaderIsHeard, [Next]_vars,
         NEW f \in Follower, Unwritten(f), Exact(f)
  PROVE  Exact(f)'
<1> SUFFICES ASSUME Admitted(f)' \/ Answered(f)'
             PROVE  log'[f] \o lines'[f] = log'[Leader]
  BY DEF Exact
<1> DEFINE c == net[Leader][f]
           l == log[Leader]
<1>0. /\ c \in Seq(Message) /\ l \in Seq(Line)
      /\ f \in Node /\ f # Leader /\ Leader \in Node /\ f # -1
      /\ log[f] \in Seq(Line) /\ lines[f] \in Seq(Line)
      /\ log \in [Node -> Seq(Line)] /\ lines \in [Node -> Seq(Line)]
  BY StateFacts DEF TypeInv, TypeOK
<1>1. CASE Answers(f)
  <2>1. /\ c # << >> /\ Head(c).code = "STATE"
        /\ log'[f] = Head(c).state /\ log'[Leader] = l /\ lines'[f] = lines[f]
    BY <1>0, <1>1 DEF Answers
  <2>2. Pending(f)
    <3>1. 1 \in DOMAIN c /\ Head(c) = c[1]
      BY <1>0, <2>1
    <3> QED
      BY <2>1, <3>1 DEF Pending, HasState
  <2>3. lines[f] = << >> /\ AllExact(c, l)
    BY <2>2 DEF Unwritten
  <2>4. Head(c).state = l
    <3> HIDE DEF c, l
    <3> QED
      BY <1>0, <2>1, <2>3, ExactLeft
  <2> QED
    BY <1>0, <2>1, <2>3, <2>4
<1>2. CASE WriteLine
  <2>1. /\ updating = -1
        /\ net' = net /\ Live' = Live /\ updating' = updating
        /\ processIsAlive' = processIsAlive
        /\ \A i \in Live : ~ IdIn(net[f][Leader], i)
    BY <1>2, LineIsWritten
  <2>2. ~ Answered(f)'
    BY <1>0, <2>1 DEF Answered, IdIn
  <2>3. Admitted(f) /\ log[f] \o lines[f] = l
    BY <2>1, <2>2 DEF Admitted, Exact, idToIndex
  <2>4. /\ log'[Leader] = Append(l, clients) /\ log'[f] = log[f]
        /\ lines'[f] = Append(lines[f], clients)
    BY <1>0, <1>2, <2>3 DEF WriteLine, messageShouldDrop, Admitted
  <2>5. clients \in Line
    BY <1>2 DEF WriteLine, TypeInv
  <2>6. log[f] \o Append(lines[f], clients)
          = Append(log[f] \o lines[f], clients)
    BY <1>0, <2>5, AppendedToConcat
  <2> QED
    BY <2>3, <2>4, <2>6
<1>3. CASE ~ Answers(f) /\ ~ WriteLine
  <2>1. log[f] \o lines[f] = l
    BY <1>3, AdmittedStep, AnsweredStep DEF Exact, Answered
  <2>2. log'[Leader] = l
    BY <1>3, FileStep
  <2>3. CASE log'[f] = log[f] /\ lines'[f] = lines[f]
    BY <2>1, <2>2, <2>3
  <2>4. CASE ReceiveAccepted(f)
    <3>1. /\ lines[f] # << >> /\ lines' = [lines EXCEPT ![f] = Tail(@)]
          /\ log' = [log EXCEPT ![f] = Append(@, Head(lines[f]))]
      BY <2>4 DEF ReceiveAccepted, LeaderIsHeard, messageShouldDrop
    <3>2. log'[f] = Append(log[f], Head(lines[f])) /\ lines'[f] = Tail(lines[f])
      BY <1>0, <3>1
    <3>3. log'[f] \o lines'[f] = log[f] \o lines[f]
      BY <1>0, <3>1, <3>2, MovedOn
    <3> QED
      BY <2>1, <2>2, <3>3
  <2> QED
    BY <1>3, <2>3, <2>4, FileStep
<1> QED
  BY <1>1, <1>2, <1>3

(****************************************************************************)
(* FirstRecoveryIsExact: the first node to come back has the lines of the   *)
(* leader's file in their order, none twice, whatever was written while it  *)
(* was away and whatever the durations are, as long as followers do not     *)
(* suspect the leader.                                                      *)
(****************************************************************************)
THEOREM TheFirstRecoveryIsExact ==
  ASSUME LoopsPerSecond > 1 \/ TIMEOUT_DURATION > 1
  PROVE  Spec => []FirstRecoveryIsExact
<1> DEFINE Inv == SeenInv /\ WrittenInv /\ BackInv /\ ExactInv
<1>1. Init => Inv
  <2> SUFFICES ASSUME Init, NEW f \in Follower
               PROVE  /\ Seen(f) /\ lines[f] = << >> /\ ~ Recovering(f)
                      /\ log[f] \o lines[f] = log[Leader]
    BY DEF SeenInv, WrittenInv, BackInv, ExactInv, Unwritten, Exact, Recovering
  <2>1. /\ f \in Node /\ Leader \in Node /\ idToIndex(Leader, f) \in Index
        /\ MaxAge \in Nat
    BY Constants, Indices DEF Follower
  <2>2. /\ net[Leader][f] = << >> /\ log[Leader] = << >>
        /\ log[f] = << >> /\ lines[f] = << >>
        /\ ~ crashed[f] /\ f \notin replAsleep /\ failing = {}
        /\ isAlive[Leader][idToIndex(Leader, f)]
        /\ age[Leader][f] = 0 /\ starting = {} /\ waiters = << >>
    BY <2>1 DEF Init, EmptyChannels, AllAlive
  <2>3. Seen(f)
    BY <2>2 DEF Seen, Away, Suspects
  <2>4. ~ Recovering(f)
    BY <2>2 DEF Recovering, Waits, Pending, HasState
  <2> QED
    BY <2>2, <2>3, <2>4
<1>2. (TypeInv /\ HearInv /\ ShapeInv /\ IdInv /\ LeaderIsHeard)
        /\ Inv /\ [Next]_vars => Inv'
  <2> SUFFICES ASSUME TypeInv, HearInv, ShapeInv, IdInv, LeaderIsHeard, Inv,
                      [Next]_vars
               PROVE  Inv'
    OBVIOUS
  <2>1. SeenInv' /\ WrittenInv' /\ BackInv'
    BY SeenStep, WrittenStep, BackStep
  <2>2. ExactInv'
    <3> SUFFICES ASSUME crashes' <= 1, NEW f \in Follower
                 PROVE  Unwritten(f)' /\ Exact(f)'
      BY DEF ExactInv
    <3>1. crashes <= 1
      BY SeenTypes, CrashesStep
    <3>2. Unwritten(f) /\ Exact(f) /\ (Recovering(f) => ~ Away(f))
      BY <3>1 DEF ExactInv, BackInv
    <3>3. IsSent(f) => Recovering(f)
      BY SentToWaiter DEF Recovering
    <3> QED
      BY <3>2, <3>3, UnwrittenStep, ExactStep
  <2> QED
    BY <2>1, <2>2
<1>3. Inv => FirstRecoveryIsExact
  BY DEF ExactInv, Exact, FirstRecoveryIsExact, AdmittedIsCurrent
<1>4. Spec => []LeaderIsHeard
  BY LeaderIsNeverSuspected
<1> QED
  BY <1>1, <1>2, <1>3, <1>4, HearInvariance, IdInvariance, PTL DEF Spec
================================================================================
