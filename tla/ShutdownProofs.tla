----------------------------- MODULE ShutdownProofs -----------------------------
(****************************************************************************)
(* The ring of Shutdown, for every number of nodes.                         *)
(****************************************************************************)
EXTENDS Shutdown, TLAPS

\* The ids after and before a node's, without the modulo.
LEMMA NextNodeId ==
  ASSUME NEW n \in Node
  PROVE  nextNodeId(n) = IF n = clusterSize - 1 THEN 0 ELSE n + 1
<1>1. clusterSize \in Nat /\ clusterSize > 0
  BY ClusterSizeAssumption
<1>2. n \in Int /\ 0 <= n /\ n < clusterSize
  BY <1>1 DEF Node
<1>3. CASE n = clusterSize - 1
  BY <1>1, <1>3 DEF nextNodeId
<1>4. CASE n # clusterSize - 1
  BY <1>1, <1>2, <1>4 DEF nextNodeId
<1> QED
  BY <1>3, <1>4

\* A node is the next of one node only, and the one it sends its port to.
LEMMA Neighbours ==
  ASSUME NEW n \in Node
  PROVE  /\ nextNodeId(n) \in Node
         /\ prevNodeId(n) \in Node
         /\ nextNodeId(prevNodeId(n)) = n
         /\ \A m \in Node : nextNodeId(m) = nextNodeId(n) => m = n
<1>1. clusterSize \in Nat /\ clusterSize > 0
  BY ClusterSizeAssumption
<1>2. \A m \in Node : nextNodeId(m) = IF m = clusterSize - 1 THEN 0 ELSE m + 1
  BY NextNodeId
<1>3. prevNodeId(n) \in Node
  BY <1>1 DEF Node, prevNodeId
<1>4. nextNodeId(prevNodeId(n)) = n
  BY <1>1, <1>2, <1>3 DEF Node, prevNodeId
<1> QED
  BY <1>1, <1>2, <1>3, <1>4 DEF Node
--------------------------------------------------------------------------------
(* The type invariant.                                                      *)

\* The first states are of the type the code declares.
LEMMA TypeInit == Init => TypeOK
BY Neighbours DEF Init, TypeOK, ClientAt, Tag, Nobody, Operator

\* Every step keeps the types, and the ports where exchangePorts puts them.
LEMMA TypeStep == TypeOK /\ [Next]_vars => TypeOK'
<1> SUFFICES ASSUME TypeOK, [Next]_vars PROVE TypeOK'
  OBVIOUS
<1> USE DEF TypeOK, fixed, ring, stopping
<1>1. ASSUME NEW n \in Node, StopReceivers(n) PROVE TypeOK'
  BY <1>1 DEF StopReceivers
<1>2. ASSUME NEW n \in Node, PingThreadEnds(n) PROVE TypeOK'
  BY <1>2 DEF PingThreadEnds
<1>3. ASSUME NEW n \in Node, JoinPingThread(n) PROVE TypeOK'
  BY <1>3 DEF JoinPingThread
<1>4. ASSUME NEW n \in Node, ReceiveShutdown(n) PROVE TypeOK'
  BY <1>4 DEF ReceiveShutdown
<1>5. ASSUME NEW n \in Node, WaitForReceivers(n) PROVE TypeOK'
  BY <1>5 DEF WaitForReceivers
<1>6. CASE Finalize
  BY <1>6 DEF Finalize
<1>7. ASSUME NEW n \in Node, ClientThreadStep(n) PROVE TypeOK'
  <2> USE DEF ClientAt, ClientGoes
  <2>1. CASE openPort(n)
    BY <2>1 DEF openPort
  <2>2. CASE sendPort(n)
    <3>1. prevNodeId(n) \in Node /\ nextNodeId(prevNodeId(n)) = n
      BY Neighbours
    <3>2. mail' = [mail EXCEPT ![prevNodeId(n)] = @ \cup {n}]
      BY <2>2 DEF sendPort
    <3>3. \A k \in Node : mail'[k] \subseteq {nextNodeId(k), Nobody}
      BY <3>1, <3>2
    <3>4. mail' \in [Node -> SUBSET Node]
      BY <3>1, <3>2
    <3>5. at' \in [Node -> ClientAt]
      BY <2>2 DEF sendPort
    <3> QED
      BY <2>2, <3>3, <3>4, <3>5 DEF sendPort
  <2>3. CASE receivePort(n)
    <3>1. PICK m \in mail[n] :
            /\ mail' = [mail EXCEPT ![n] = @ \ {m}]
            /\ nextNodePort' = [nextNodePort EXCEPT ![n] = m]
      BY <2>3 DEF receivePort
    <3>2. \A k \in Node :
            mail'[k] \cup {nextNodePort'[k]} \subseteq {nextNodeId(k), Nobody}
      BY <3>1
    <3> QED
      BY <2>3, <3>1, <3>2 DEF receivePort
  <2>4. CASE AcceptOperator(n)
    BY <2>4 DEF AcceptOperator
  <2>5. CASE DisconnectPeer(n)
    BY <2>5, SMTT(30) DEF DisconnectPeer
  <2>6. CASE closePort(n)
    BY <2>6 DEF closePort
  <2>7. CASE shutdownNeighbor(n)
    BY <2>7 DEF shutdownNeighbor
  <2>8. CASE ConnectNeighbor(n)
    BY <2>8 DEF ConnectNeighbor
  <2> QED
    BY <1>7, <2>1, <2>2, <2>3, <2>4, <2>5, <2>6, <2>7, <2>8
    DEF ClientThreadStep
<1>8. CASE UNCHANGED vars
  BY <1>8 DEF vars
<1> QED
  BY <1>1, <1>2, <1>3, <1>4, <1>5, <1>6, <1>7, <1>8 DEF Next

\* The types hold in every reachable state, and every port a node holds is that
\* of the node after it.
THEOREM ShutdownTypes == Spec => []TypeOK
BY TypeInit, TypeStep, PTL DEF Spec
--------------------------------------------------------------------------------
(* The ring.                                                                *)

\* The client threads' part of the state is what RingInv is about.
LEMMA RingStutter ==
  RingInv /\ UNCHANGED <<fixed, ring>> => RingInv'
BY DEF RingInv, Untold, ViewsAgree, PortsAreOpen, ServesItsPeer,
       ToldByPrevious, fixed, ring

\* Every step of a client thread keeps the invariant of the ring.
LEMMA RingStep ==
  ASSUME TypeOK, RingInv, NEW n \in Node, ClientThreadStep(n)
  PROVE  RingInv'
<1> USE DEF TypeOK, Untold, ViewsAgree, PortsAreOpen, ServesItsPeer,
            ToldByPrevious, fixed, ClientAt, ClientGoes, Nobody, Operator
<1>a. \A k \in Node : nextNodeId(k) \in Node /\ prevNodeId(k) \in Node
                      /\ nextNodeId(prevNodeId(k)) = k
  BY Neighbours
<1>b. \A j, k \in Node : nextNodeId(j) = nextNodeId(k) => j = k
  BY Neighbours
<1>c. clusterSize \in Nat /\ Node \subseteq Nat
  BY ClusterSizeAssumption DEF Node
<1>1. CASE openPort(n)
  BY <1>1, <1>a, <1>c DEF openPort, RingInv
<1>2. CASE sendPort(n)
  BY <1>2, <1>a, <1>b, <1>c DEF sendPort, RingInv
<1>3. CASE receivePort(n)
  <2>1. PICK m \in mail[n] :
          /\ mail' = [mail EXCEPT ![n] = @ \ {m}]
          /\ nextNodePort' = [nextNodePort EXCEPT ![n] = m]
    BY <1>3 DEF receivePort
  <2> QED
    BY <1>3, <2>1, <1>a, <1>c DEF receivePort, RingInv
<1>4. CASE AcceptOperator(n)
  BY <1>4, <1>a, <1>c DEF AcceptOperator, RingInv
<1>5. CASE DisconnectPeer(n)
  <2>1. at[n] = "serve" /\ peer[n] # Nobody
    BY <1>5 DEF DisconnectPeer, RingInv
  <2>2. CASE peer[n] = Operator
    <3>1. /\ at' = [at EXCEPT ![n] = "close"]
          /\ peer' = [peer EXCEPT ![n] = Nobody]
          /\ UNCHANGED <<fixed, mail, nextNodePort, isOpen>>
      BY <1>5, <2>2 DEF DisconnectPeer
    <3> QED
      BY <2>1, <3>1, <1>a, <1>c DEF RingInv
  <2>3. CASE peer[n] # Operator
    <3>1. /\ peer[n] \in Node \ {n}
          /\ at[peer[n]] = "disconnect"
      BY <1>5, <2>1, <2>3 DEF DisconnectPeer
    <3>2. /\ at' = [at EXCEPT ![n] = "close", ![peer[n]] = "ended"]
          /\ peer' = [peer EXCEPT ![n] = Nobody]
          /\ UNCHANGED <<fixed, mail, nextNodePort, isOpen>>
      BY <1>5, <2>3 DEF DisconnectPeer
    <3>3. at' = [k \in Node |-> IF k = n THEN "close"
                               ELSE IF k = peer[n] THEN "ended" ELSE at[k]]
      BY <3>1, <3>2
    <3>4. \A k \in Node : PortsAreOpen(k)'
      BY <2>1, <3>1, <3>2, <3>3, <1>a DEF RingInv
    <3>5. \A k \in Node : ServesItsPeer(k)'
      BY <2>1, <3>1, <3>2, <3>3 DEF RingInv
    <3>6. \A k \in Node : ToldByPrevious(k)'
      BY <2>1, <3>1, <3>2, <3>3, <1>a DEF RingInv
    <3> QED
      BY <3>4, <3>5, <3>6 DEF RingInv
  <2> QED
    BY <2>2, <2>3
<1>6. CASE closePort(n)
  BY <1>6, <1>a, <1>c DEF closePort, RingInv
<1>7. CASE shutdownNeighbor(n)
  BY <1>7, <1>a, <1>c DEF shutdownNeighbor, RingInv
<1>8. CASE ConnectNeighbor(n)
  <2> DEFINE m == nextNodePort[n]
  <2>1. /\ at[n] = "connect" /\ at[m] = "accept"
        /\ at' = [at EXCEPT ![n] = "disconnect", ![m] = "serve"]
        /\ peer' = [peer EXCEPT ![m] = n]
        /\ UNCHANGED <<fixed, mail, nextNodePort, isOpen>>
    BY <1>8 DEF ConnectNeighbor
  <2>2. m = nextNodeId(n) /\ m \in Node /\ m # n
    BY <2>1, <1>a DEF RingInv
  <2>3. at' = [k \in Node |-> IF k = n THEN "disconnect"
                              ELSE IF k = m THEN "serve" ELSE at[k]]
    <3>1. at \in [Node -> ClientAt]
      OBVIOUS
    <3> HIDE DEF TypeOK, ClientAt, m
    <3> QED
      BY <2>1, <2>2, <3>1
  <2>b. peer' = [k \in Node |-> IF k = m THEN n ELSE peer[k]]
    BY <2>1, <2>2
  <2>4. \A k \in Node : PortsAreOpen(k)'
    BY <2>1, <2>2, <2>3, <1>a DEF RingInv
  <2>5. \A k \in Node : ServesItsPeer(k)'
    BY <2>1, <2>2, <2>3, <2>b, <1>c DEF RingInv
  <2>6. \A k \in Node : ToldByPrevious(k)'
    BY <2>1, <2>2, <2>3, <1>a, <1>b DEF RingInv
  <2> QED
    BY <2>4, <2>5, <2>6 DEF RingInv
<1> QED
  BY <1>1, <1>2, <1>3, <1>4, <1>5, <1>6, <1>7, <1>8 DEF ClientThreadStep

\* The other threads leave the ring alone.
LEMMA RingKept == TypeOK /\ RingInv /\ [Next]_vars => RingInv'
<1> SUFFICES ASSUME TypeOK, RingInv, [Next]_vars PROVE RingInv'
  OBVIOUS
<1>1. CASE \E n \in Node : ClientThreadStep(n)
  BY <1>1, RingStep
<1>2. CASE UNCHANGED <<fixed, ring>>
  BY <1>2, RingStutter
<1> QED
  BY <1>1, <1>2
  DEF Next, vars, StopReceivers, PingThreadEnds, JoinPingThread,
      ReceiveShutdown, WaitForReceivers, Finalize

\* In every reachable state, with views that agree, a node about to connect to
\* the next finds its port open and unused: for every number of nodes and every
\* leader.
THEOREM RingIsSafe == Spec => []RingStaysOpen
<1>1. Init => RingInv
  BY Neighbours DEF Init, RingInv, PortsAreOpen, ServesItsPeer, ToldByPrevious,
                   Untold, Nobody
<1>2. TypeOK /\ RingInv => RingStaysOpen
  <2> SUFFICES ASSUME TypeOK, RingInv, ViewsAgree,
                      NEW n \in Node, at[n] = "connect"
               PROVE  /\ nextNodePort[n] # Nobody
                      /\ isOpen[nextNodePort[n]]
                      /\ peer[nextNodePort[n]] = Nobody
    BY DEF RingStaysOpen
  <2>1. nextNodePort[n] = nextNodeId(n) /\ nextNodeId(n) \in Node
    BY Neighbours DEF TypeOK, RingInv, PortsAreOpen
  <2>2. at[nextNodeId(n)] \in {"send", "receive", "accept"}
    BY <2>1 DEF RingInv, Untold, ViewsAgree, PortsAreOpen, ToldByPrevious
  <2> QED
    BY <2>1, <2>2 DEF RingInv, PortsAreOpen, ServesItsPeer
<1> QED
  BY <1>1, <1>2, RingKept, ShutdownTypes, PTL DEF Spec
--------------------------------------------------------------------------------
(* The end of the threads.                                                  *)

\* A client thread that has ended stays so.
LEMMA EndedForGood ==
  ASSUME TypeOK, NEW n \in Node, ClientThreadStep(n),
         NEW k \in Node, at[k] = "ended"
  PROVE  at'[k] = "ended"
<1> USE DEF TypeOK, ClientGoes
<1>1. CASE DisconnectPeer(n)
  BY <1>1 DEF DisconnectPeer
<1>2. CASE ConnectNeighbor(n)
  BY <1>2 DEF ConnectNeighbor
<1>3. CASE openPort(n) \/ sendPort(n) \/ receivePort(n)
  BY <1>3 DEF openPort, sendPort, receivePort
<1>4. CASE AcceptOperator(n) \/ closePort(n) \/ shutdownNeighbor(n)
  BY <1>4 DEF AcceptOperator, closePort, shutdownNeighbor
<1> QED
  BY <1>1, <1>2, <1>3, <1>4 DEF ClientThreadStep

\* Every step keeps the invariant of the threads.
LEMMA StopStep == TypeOK /\ StopInv /\ [Next]_vars => StopInv'
<1> SUFFICES ASSUME TypeOK, StopInv, [Next]_vars PROVE StopInv'
  OBVIOUS
<1> USE DEF TypeOK, StopInv, ring, stopping
<1>1. ASSUME NEW n \in Node, StopReceivers(n) PROVE StopInv'
  BY <1>1 DEF StopReceivers
<1>2. ASSUME NEW n \in Node, PingThreadEnds(n) PROVE StopInv'
  BY <1>2 DEF PingThreadEnds
<1>3. ASSUME NEW n \in Node, JoinPingThread(n) PROVE StopInv'
  BY <1>3 DEF JoinPingThread
<1>4. ASSUME NEW n \in Node, ReceiveShutdown(n) PROVE StopInv'
  BY <1>4 DEF ReceiveShutdown
<1>5. ASSUME NEW n \in Node, WaitForReceivers(n) PROVE StopInv'
  <2>1. repl[n] = "ended" /\ at[n] = "ended"
    BY <1>5 DEF WaitForReceivers, HasEnded
  <2> QED
    BY <1>5, <2>1 DEF WaitForReceivers
<1>6. CASE Finalize
  BY <1>6 DEF Finalize
<1>7. ASSUME NEW n \in Node, ClientThreadStep(n) PROVE StopInv'
  <2>1. UNCHANGED <<stopping, main>>
    BY <1>7 DEF ClientThreadStep, openPort, sendPort, receivePort,
                AcceptOperator, DisconnectPeer, closePort, shutdownNeighbor,
                ConnectNeighbor
  <2>2. \A k \in Node : at[k] = "ended" => at'[k] = "ended"
    BY <1>7, EndedForGood
  <2> QED
    BY <2>1, <2>2
<1>8. CASE UNCHANGED vars
  BY <1>8 DEF vars
<1> QED
  BY <1>1, <1>2, <1>3, <1>4, <1>5, <1>6, <1>7, <1>8 DEF Next

\* No main thread leaves init while a thread of its node runs that has not been
\* told to end, or pings, or serves: for every number of nodes, crashed or not,
\* whatever they take for the leader.
THEOREM NobodyIsLeftRunning == Spec => []LeavesNobodyRunning
<1>1. Init => StopInv
  BY DEF Init, StopInv, Tag
<1>2. StopInv => LeavesNobodyRunning
  BY DEF StopInv, LeavesNobodyRunning
<1> QED
  BY <1>1, <1>2, StopStep, ShutdownTypes, PTL DEF Spec
================================================================================
