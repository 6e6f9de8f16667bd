----------------------------- MODULE ClientsProofs -----------------------------
(****************************************************************************)
(* The turns of Clients, and what a client may leave behind, for every      *)
(* number of nodes, clients and commands, and every outage.                 *)
(****************************************************************************)
EXTENDS Clients, TLAPS

--------------------------------------------------------------------------------
(* The turn file.                                                           *)

\* Client ids are natural numbers, the line "shutdown" is none of them, and the
\* client after the last is the first.
LEMMA ClientIds ==
  /\ ClientCount \in Nat /\ ClientCount > 0
  /\ Client \subseteq Nat
  /\ Shutdown \notin Client
  /\ \A c \in Client : (c + 1) % ClientCount \in Client
<1>1. ClientCount \in Nat /\ ClientCount > 0
  BY ClientsAssumption
<1>2. ASSUME NEW c \in Client PROVE (c + 1) % ClientCount \in Client
  <2>1. c + 1 \in Nat
    BY <1>1 DEF Client
  <2>2. (c + 1) % ClientCount \in 0 .. ClientCount - 1
    BY <1>1, <2>1
  <2> QED
    BY <2>2 DEF Client
<1> QED
  BY <1>1, <1>2 DEF Client, Shutdown

\* The part of the types that the turns need.
TurnTypes ==
  /\ turnFile \in Seq(Client \cup {Shutdown})
  /\ cursor \in [Client -> Nat]
  /\ pc \in [Client -> ClientAt]

\* As long as there is no "shutdown", every line is a client's.
LEMMA LinesAreClients ==
  ASSUME TurnTypes, TurnsHold, NEW i \in 1 .. Len(turnFile)
  PROVE  turnFile[i] \in Client
<1>1. turnFile[i] \in Client \cup {Shutdown}
  BY DEF TurnTypes
<1>2. turnFile[i] # Shutdown
  BY DEF TurnTypes, TurnsHold, Range
<1> QED
  BY <1>1, <1>2

\* Steps that write no turn, read no turn and put nobody to work.
LEMMA IdleStep ==
  ASSUME TurnTypes, TurnInv, UNCHANGED <<turnFile, cursor>>,
         pc' \in [Client -> ClientAt],
         \A c \in Client : Working(c)' => Working(c)
  PROVE  TurnTypes' /\ TurnInv'
BY DEF TurnTypes, TurnInv, TurnsHold

\* A client that finds its turn has come to the end of the file: an earlier
\* turn of its own it has read already.
LEMMA WaitForTurnStep ==
  ASSUME TurnTypes, TurnInv, NEW c \in Client, waitForTurn(c)
  PROVE  TurnTypes' /\ TurnInv'
<1> DEFINE i == cursor[c] + 1
<1>1. /\ i \in 1 .. Len(turnFile)
      /\ cursor[c] < i
      /\ cursor' = [cursor EXCEPT ![c] = i]
      /\ pc[c] = "turn"
      /\ pc' = [pc EXCEPT ![c] = IF turnFile[i] \in {c, Shutdown}
                                 THEN "lookup" ELSE "turn"]
      /\ turnFile' = turnFile
  BY DEF waitForTurn, Goes, TurnTypes
<1> HIDE DEF i
<1>2. TurnTypes'
  BY <1>1 DEF TurnTypes, ClientAt
<1>3. SUFFICES ASSUME TurnsHold PROVE TurnInv'
  BY <1>1, <1>2 DEF TurnInv, TurnsHold
<1>4. turnFile[i] \in Client
  BY <1>1, <1>3, LinesAreClients
<1>5. ASSUME Working(c)' PROVE i = Len(turnFile) /\ turnFile[i] = c
  <2>1. turnFile[i] = c
    BY <1>1, <1>4, <1>5, ClientIds DEF Working, TurnTypes
  <2>2. ~ (i \in 1 .. Len(turnFile) - 1)
    BY <1>1, <1>3, <2>1 DEF TurnInv, TurnTypes
  <2> QED
    BY <1>1, <2>1, <2>2 DEF TurnTypes
<1>6. \A d \in Client :
        Working(d)' => cursor'[d] = Len(turnFile) /\ turnFile[cursor'[d]] = d
  BY <1>1, <1>3, <1>5 DEF TurnInv, TurnTypes, Working
<1>7. \A j \in 1 .. Len(turnFile) - 1 : j <= cursor'[turnFile[j]]
  <2> SUFFICES ASSUME NEW j \in 1 .. Len(turnFile) - 1
               PROVE  j <= cursor'[turnFile[j]]
    OBVIOUS
  <2>1. turnFile[j] \in Client /\ j <= cursor[turnFile[j]]
    BY <1>3, LinesAreClients DEF TurnInv, TurnTypes
  <2>2. cursor[turnFile[j]] \in Nat /\ cursor[c] \in Nat
    BY <2>1 DEF TurnTypes
  <2> QED
    BY <1>1, <2>1, <2>2 DEF TurnTypes
<1> QED
  BY <1>1, <1>6, <1>7 DEF TurnInv

\* The client that hands over was the only one at work, and is no longer.
LEMMA SetTurnStep ==
  ASSUME TurnTypes, TurnInv, NEW c \in Client, setTurn(c)
  PROVE  TurnTypes' /\ TurnInv'
<1> DEFINE next == (c + 1) % ClientCount
<1>1. /\ pc[c] = "setTurn"
      /\ turnFile' = Append(turnFile, next)
      /\ cursor' = cursor
      /\ \E to \in {"turn", "done"} : pc' = [pc EXCEPT ![c] = to]
  BY DEF setTurn, NextCommand, Goes
<1>2. next \in Client
  BY ClientIds
<1> HIDE DEF next
<1>3. TurnTypes'
  BY <1>1, <1>2 DEF TurnTypes, ClientAt
<1>4. /\ Len(turnFile') = Len(turnFile) + 1
      /\ Len(turnFile) \in Nat
      /\ \A i \in 1 .. Len(turnFile) : turnFile'[i] = turnFile[i]
  BY <1>1, <1>2 DEF TurnTypes
<1>5. TurnsHold' => TurnsHold
  <2>1. DOMAIN turnFile = 1 .. Len(turnFile)
    BY DEF TurnTypes
  <2>2. DOMAIN turnFile' = 1 .. Len(turnFile) + 1
    BY <1>3, <1>4 DEF TurnTypes
  <2>3. \A i \in DOMAIN turnFile :
          i \in DOMAIN turnFile' /\ turnFile'[i] = turnFile[i]
    BY <1>4, <2>1, <2>2
  <2> QED
    BY <2>3 DEF TurnsHold, Range
<1>6. SUFFICES ASSUME TurnsHold PROVE TurnInv'
  BY <1>3, <1>5 DEF TurnInv
<1>7. cursor[c] = Len(turnFile) /\ turnFile[Len(turnFile)] = c
  BY <1>1, <1>6 DEF TurnInv, Working
<1>8. \A d \in Client : ~ Working(d)'
  BY <1>1, <1>6, <1>7 DEF TurnInv, Working, TurnTypes
<1>9. \A i \in 1 .. Len(turnFile') - 1 : i <= cursor'[turnFile'[i]]
  BY <1>1, <1>4, <1>6, <1>7 DEF TurnInv
<1> QED
  BY <1>8, <1>9 DEF TurnInv

\* After "shutdown" nothing is claimed.
LEMMA ShutdownStep ==
  ASSUME TurnTypes, TurnInv, TurnFileShutdown
  PROVE  TurnTypes' /\ TurnInv'
<1>1. turnFile' = Append(turnFile, Shutdown) /\ UNCHANGED <<cursor, pc>>
  BY DEF TurnFileShutdown
<1>2. TurnTypes'
  BY <1>1 DEF TurnTypes
<1>3. /\ Len(turnFile) + 1 \in DOMAIN turnFile'
      /\ turnFile'[Len(turnFile) + 1] = Shutdown
  BY <1>1 DEF TurnTypes
<1>4. ~ TurnsHold'
  BY <1>3 DEF TurnsHold, Range
<1> QED
  BY <1>2, <1>4 DEF TurnInv

\* A client's other steps keep it at work or away from it.
LEMMA TurnClientStep ==
  ASSUME TurnTypes, TurnInv, NEW c \in Client, ClientStep(c)
  PROVE  TurnTypes' /\ TurnInv'
<1>1. CASE waitForTurn(c)
  BY <1>1, WaitForTurnStep
<1>2. CASE setTurn(c)
  BY <1>2, SetTurnStep
<1>3. CASE Start(c)
  <2>1. PICK to \in {"turn", "done"} : pc' = [pc EXCEPT ![c] = to]
    BY <1>3 DEF Start, NextCommand, Goes
  <2>2. \A d \in Client : Working(d)' => Working(d)
    BY <2>1 DEF TurnTypes, Working
  <2> QED
    BY <1>3, <2>1, <2>2, IdleStep DEF Start, TurnTypes, ClientAt
<1>4. CASE \/ lookupServerPort(c) \/ Connect(c)
           \/ ReceiveSuccess(c) \/ TimeOut(c)
  <2>1. /\ Working(c)
        /\ UNCHANGED <<turnFile, cursor>>
        /\ \E to \in {"connect", "await", "disconnect"} :
             pc' = [pc EXCEPT ![c] = to]
    BY <1>4 DEF lookupServerPort, Connect, ReceiveSuccess, TimeOut,
                StopsWaiting, Goes, Working
  <2>2. pc' \in [Client -> ClientAt]
    BY <2>1 DEF TurnTypes, ClientAt
  <2>3. \A d \in Client : Working(d)' => Working(d)
    BY <2>1 DEF TurnTypes, Working
  <2> QED
    BY <2>1, <2>2, <2>3, IdleStep
<1> QED
  BY <1>1, <1>2, <1>3, <1>4 DEF ClientStep

\* The nodes put no client to work that was not.
LEMMA TurnServerStep ==
  ASSUME TurnTypes, TurnInv, NEW n \in Node, ServerStep(n)
  PROVE  TurnTypes' /\ TurnInv'
<1>1. CASE Disconnect(n)
  <2> DEFINE c == peer[n]
  <2>1. /\ pc[c] = "disconnect"
        /\ UNCHANGED <<turnFile, cursor>>
        /\ \E to \in {"setTurn", "lookup"} : pc' = [pc EXCEPT ![c] = to]
    BY <1>1 DEF Disconnect, Goes
  <2> HIDE DEF c
  <2>2. pc' \in [Client -> ClientAt]
    BY <2>1 DEF TurnTypes, ClientAt
  <2>3. \A d \in Client : Working(d)' => Working(d)
    BY <2>1 DEF TurnTypes, Working
  <2> QED
    BY <2>1, <2>2, <2>3, IdleStep
<1>2. CASE UNCHANGED client
  BY <1>2, IdleStep DEF client, TurnTypes, Working
<1> QED
  BY <1>1, <1>2
  DEF ServerStep, ReceiveReplicate, WakeUp, MajorityAccepts, RoundReached,
      RoundFailed

\* Every step keeps the invariant of the turns.
LEMMA TurnStep == TurnTypes /\ TurnInv /\ [Next]_vars => TurnTypes' /\ TurnInv'
<1> SUFFICES ASSUME TurnTypes, TurnInv, [Next]_vars
             PROVE  TurnTypes' /\ TurnInv'
  OBVIOUS
<1>1. CASE UNCHANGED client
  BY <1>1, IdleStep DEF client, TurnTypes, Working
<1>2. CASE \E c \in Client : ClientStep(c)
  BY <1>2, TurnClientStep
<1>3. CASE \E n \in Node : ServerStep(n)
  BY <1>3, TurnServerStep
<1>4. CASE TurnFileShutdown
  BY <1>4, ShutdownStep
<1>5. ASSUME NEW c \in Client, ConnectTimesOut(c)
      PROVE  TurnTypes' /\ TurnInv'
  <2>1. /\ UNCHANGED <<turnFile, cursor>>
        /\ pc' = [pc EXCEPT ![c] = "exited"]
    BY <1>5 DEF ConnectTimesOut, Goes
  <2>2. pc' \in [Client -> ClientAt]
    BY <2>1 DEF TurnTypes, ClientAt
  <2>3. \A d \in Client : Working(d)' => Working(d)
    BY <2>1 DEF TurnTypes, Working
  <2> QED
    BY <2>1, <2>2, <2>3, IdleStep
<1> QED
  BY <1>1, <1>2, <1>3, <1>4, <1>5
  DEF Next, vars, ClusterStep, Suspect, enableClientConn, Readmit, Crash,
      Recover

\* The turns are kept in every reachable state.
LEMMA TurnInvariant == Spec => []TurnInv
<1>1. Init => TurnTypes /\ TurnInv
  <2> SUFFICES ASSUME Init PROVE TurnTypes /\ TurnInv
    OBVIOUS
  <2>1. 0 \in Client
    BY ClientIds DEF Client
  <2>2. TurnTypes /\ Len(turnFile) = 1
    BY <2>1 DEF Init, TurnTypes, ClientAt
  <2>3. \A c \in Client : ~ Working(c)
    BY DEF Init, Working
  <2> QED
    BY <2>2, <2>3 DEF TurnInv
<1> QED
  BY <1>1, TurnStep, PTL DEF Spec

\* Until "shutdown" is written, at most one client is between waitForTurn and
\* setTurn: for every number of clients, and whatever the nodes do.
THEOREM OneClientAtATime == Spec => []TurnsExclude
<1>1. TurnInv => TurnsExclude
  BY DEF TurnInv, TurnsExclude
<1> QED
  BY <1>1, TurnInvariant, PTL
--------------------------------------------------------------------------------
(* The types.                                                               *)

\* A client is at a command.
LEMMA CurrentType ==
  ASSUME TypeOK, NEW c \in Client
  PROVE  Current(c) \in Command
<1>1. command[c] \in Nat
  BY DEF TypeOK
<1> QED
  BY <1>1 DEF Current, Command

\* What a client sends is a message about a command of its own.
LEMMA RequestType ==
  ASSUME TypeOK, NEW c \in Client, NEW code \in {"REPLICATE", "DISCONNECT"}
  PROVE  /\ Request(c, code) \in Message
         /\ Request(c, code).code = code
         /\ Request(c, code).value = Current(c)
BY CurrentType DEF Current, Request, Message

\* A message put into a node's inbox.
LEMMA InboxType ==
  ASSUME TypeOK, NEW n, NEW m \in Message
  PROVE  [inbox EXCEPT ![n] = Append(@, m)] \in [Node -> Seq(Message)]
<1>1. \A k \in Node : Append(inbox[k], m) \in Seq(Message)
  BY DEF TypeOK
<1> QED
  BY <1>1 DEF TypeOK

\* The first message of a node that has one, and the rest.
LEMMA InboxHead ==
  ASSUME TypeOK, NEW n \in Node, inbox[n] # << >>
  PROVE  /\ Head(inbox[n]) \in Message
         /\ Head(inbox[n]).value \in Command
         /\ 1 \in DOMAIN inbox[n] /\ Head(inbox[n]) = inbox[n][1]
         /\ [inbox EXCEPT ![n] = Tail(@)] \in [Node -> Seq(Message)]
         /\ Len(Tail(inbox[n])) = Len(inbox[n]) - 1
         /\ Len(inbox[n]) = 1 => Tail(inbox[n]) = << >>
         /\ \A k \in DOMAIN Tail(inbox[n]) :
              k + 1 \in DOMAIN inbox[n] /\ Tail(inbox[n])[k] = inbox[n][k + 1]
<1>1. inbox[n] \in Seq(Message)
  BY DEF TypeOK
<1>2. Tail(inbox[n]) \in Seq(Message) /\ Head(inbox[n]) \in Message
  BY <1>1
<1>3. Head(inbox[n]).value \in Command
  BY <1>2 DEF Message
<1>4. 1 \in DOMAIN inbox[n] /\ Head(inbox[n]) = inbox[n][1]
  BY <1>1
<1>5. [inbox EXCEPT ![n] = Tail(@)] \in [Node -> Seq(Message)]
  BY <1>2 DEF TypeOK
<1>6. /\ Len(inbox[n]) \in Nat /\ DOMAIN inbox[n] = 1 .. Len(inbox[n])
      /\ Len(Tail(inbox[n])) = Len(inbox[n]) - 1
      /\ DOMAIN Tail(inbox[n]) = 1 .. Len(inbox[n]) - 1
      /\ \A k \in 1 .. Len(inbox[n]) - 1 : Tail(inbox[n])[k] = inbox[n][k + 1]
  BY <1>1, <1>2
<1>7. Len(inbox[n]) = 1 => Tail(inbox[n]) = << >>
  BY <1>2, <1>6
<1> QED
  BY <1>2, <1>3, <1>4, <1>5, <1>6, <1>7

\* A client's steps keep the types.
LEMMA ClientStepType ==
  ASSUME TypeOK, NEW c \in Client, ClientStep(c)
  PROVE  TypeOK'
<1> USE DEF TypeOK, client, server, cluster, data, Goes
<1>a. Request(c, "REPLICATE") \in Message /\ Request(c, "DISCONNECT") \in Message
  BY RequestType
<1>1. CASE Start(c)
  BY <1>1 DEF Start, NextCommand, ClientAt
<1>2. CASE waitForTurn(c)
  BY <1>2 DEF waitForTurn, ClientAt
<1>3. CASE lookupServerPort(c)
  BY <1>3 DEF lookupServerPort, ClientAt
<1>4. CASE Connect(c)
  <2>1. inbox' \in [Node -> Seq(Message)]
    BY <1>4, <1>a, InboxType DEF Connect
  <2> QED
    BY <1>4, <2>1 DEF Connect, ClientAt, ServerAt
<1>5. CASE ReceiveSuccess(c)
  <2>1. inbox' \in [Node -> Seq(Message)]
    BY <1>5, <1>a, InboxType DEF ReceiveSuccess, StopsWaiting
  <2> QED
    BY <1>5, <2>1 DEF ReceiveSuccess, StopsWaiting, ClientAt
<1>6. CASE TimeOut(c)
  <2>1. inbox' \in [Node -> Seq(Message)]
    BY <1>6, <1>a, InboxType DEF TimeOut, StopsWaiting
  <2>2. PICK b \in BOOLEAN :
          /\ replicated' = [replicated EXCEPT ![c] = b]
          /\ guessed' = IF b THEN guessed \cup {<<c, command[c]>>} ELSE guessed
    BY <1>6 DEF TimeOut
  <2>3. guessed' \subseteq Command
    BY <2>2, CurrentType DEF Current
  <2> QED
    BY <1>6, <2>1, <2>2, <2>3 DEF TimeOut, StopsWaiting, ClientAt
<1>7. CASE setTurn(c)
  <2>1. turnFile' \in Seq(Client \cup {Shutdown})
    BY <1>7, ClientIds DEF setTurn
  <2> QED
    BY <1>7, <2>1 DEF setTurn, NextCommand, ClientAt
<1> QED
  BY <1>1, <1>2, <1>3, <1>4, <1>5, <1>6, <1>7 DEF ClientStep

\* So do a node's steps: what it writes is the command of its client.
LEMMA ServerStepType ==
  ASSUME TypeOK, NodesServe, NEW n \in Node, ServerStep(n)
  PROVE  TypeOK'
<1> USE DEF TypeOK, client, server, cluster, data, Goes
<1>1. CASE ReceiveReplicate(n)
  <2>1. /\ inbox' \in [Node -> Seq(Message)]
        /\ Head(inbox[n]).value \in Command
    BY <1>1, InboxHead DEF ReceiveReplicate
  <2> QED
    BY <1>1, <2>1 DEF ReceiveReplicate, ServerAt
<1>2. CASE WakeUp(n)
  BY <1>2 DEF WakeUp, ServerAt
<1>3. CASE MajorityAccepts(n)
  BY <1>3 DEF MajorityAccepts, ServerAt
<1>4. CASE RoundReached(n)
  <2>1. value[n] \in Command
    <3>1. value[n] = Current(peer[n]) /\ peer[n] \in Client
      BY <1>4 DEF RoundReached, NodesServe, Serves
    <3> QED
      BY <3>1, CurrentType
  <2>2. \A m \in Node : Append(file[m], value[n]) \in Seq(Command)
    BY <2>1
  <2>3. file' \in [Node -> Seq(Command)]
    BY <1>4, <2>2 DEF RoundReached
  <2> QED
    BY <1>4, <2>1, <2>3 DEF RoundReached, RoundEnds, ServerAt
<1>5. CASE RoundFailed(n)
  <2>1. faults' \in Nat
    BY <1>5 DEF RoundFailed, NoMajority, Fault
  <2> QED
    BY <1>5, <2>1 DEF RoundFailed, RoundEnds, ServerAt
<1>6. CASE Disconnect(n)
  <2>1. inbox' \in [Node -> Seq(Message)]
    BY <1>6, InboxHead DEF Disconnect
  <2> QED
    BY <1>6, <2>1 DEF Disconnect, ClientAt, ServerAt
<1> QED
  BY <1>1, <1>2, <1>3, <1>4, <1>5, <1>6 DEF ServerStep

\* So does the rest of the cluster.
LEMMA ClientsTypeStep == TypeOK /\ NodesServe /\ [Next]_vars => TypeOK'
<1> SUFFICES ASSUME TypeOK, NodesServe, [Next]_vars PROVE TypeOK'
  OBVIOUS
<1> USE DEF TypeOK, client, server, cluster, data
<1>1. ASSUME NEW n \in Node, Suspect(n) \/ enableClientConn(n) \/ Readmit(n)
      PROVE  TypeOK'
  <2>1. CASE Suspect(n)
    BY <2>1 DEF Suspect
  <2>2. CASE enableClientConn(n)
    BY <2>2 DEF enableClientConn
  <2>3. CASE Readmit(n)
    BY <2>3 DEF Readmit
  <2> QED
    BY <1>1, <2>1, <2>2, <2>3
<1>2. ASSUME NEW S \in Outages, Crash(S) PROVE TypeOK'
  BY <1>2, ClientsAssumption DEF Crash, Fault
<1>3. CASE Recover
  <2>1. late' \in [Node -> BOOLEAN]
    <3>1. \A m \in Node : (late[m] \/ HeldUp(m)) \in BOOLEAN
      BY DEF HeldUp
    <3> QED
      BY <1>3, <3>1, Zenon DEF Recover
  <2> QED
    BY <1>3, <2>1 DEF Recover
<1>4. CASE TurnFileShutdown
  BY <1>4 DEF TurnFileShutdown, Fault
<1>5. CASE UNCHANGED vars
  BY <1>5 DEF vars
<1>6. ASSUME NEW c \in Client, ConnectTimesOut(c) PROVE TypeOK'
  BY <1>6 DEF ConnectTimesOut, Goes, ClientAt
<1> QED
  BY <1>1, <1>2, <1>3, <1>4, <1>5, <1>6, ClientStepType, ServerStepType
  DEF Next, ClusterStep
--------------------------------------------------------------------------------
(* What a client goes on from.                                              *)

service == <<pc, command, port, replicated, guessed, at, peer, inbox, value,
             success, written>>

\* Steps of the rest of the cluster, and of the turn file.
LEMMA ServiceStutter ==
  ASSUME ServiceInv, UNCHANGED service
  PROVE  ServiceInv'
BY DEF ServiceInv, NodesServe, Serves, ClientsAreServed, GoesOnRightly,
       NothingSkipped, Current, service

\* Steps of a client that is not connected, and is not going to be: at the
\* start, at the turn file and before it connects.
LEMMA UnconnectedStep ==
  ASSUME TypeOK, ServiceInv, NEW c \in Client,
         pc[c] \notin {"await", "disconnect"},
         \A d \in Client \ {c} : /\ pc'[d] = pc[d]
                                 /\ command'[d] = command[d]
                                 /\ port'[d] = port[d],
         pc'[c] \notin {"await", "disconnect"},
         pc'[c] = "connect" => port'[c] \in Node,
         UNCHANGED <<server, data>>
  PROVE  NodesServe' /\ ClientsAreServed'
<1>1. NodesServe'
  <2> SUFFICES ASSUME NEW n \in Node
               PROVE  IF at'[n] = "accept"
                      THEN inbox'[n] = << >> /\ ~ success'[n]
                      ELSE Serves(n, peer[n])'
    BY DEF NodesServe, server
  <2>1. CASE at[n] = "accept"
    BY <2>1 DEF ServiceInv, NodesServe, server
  <2>2. CASE at[n] # "accept"
    <3>1. Serves(n, peer[n])
      BY <2>2 DEF ServiceInv, NodesServe
    <3>2. peer[n] \in Client \ {c}
      BY <3>1 DEF Serves
    <3> QED
      BY <2>2, <3>1, <3>2 DEF Serves, Current, server, data
  <2> QED
    BY <2>1, <2>2
<1>2. ClientsAreServed'
  BY DEF ServiceInv, ClientsAreServed, server
<1> QED
  BY <1>1, <1>2

\* A new connection: the node has the client's command, and has not answered.
LEMMA ConnectStep ==
  ASSUME TypeOK, ServiceInv, NEW c \in Client, Connect(c)
  PROVE  ServiceInv'
<1>0. PICK n \in Node : n = port[c]
  BY DEF Connect, ServiceInv, ClientsAreServed
<1> DEFINE req == Request(c, "REPLICATE")
<1>1. /\ at[n] = "accept" /\ inbox[n] = << >> /\ ~ success[n]
      /\ pc[c] = "connect"
  BY <1>0 DEF Connect, ServiceInv, NodesServe
<1>2. /\ pc' = [pc EXCEPT ![c] = "await"]
      /\ at' = [at EXCEPT ![n] = "receive"]
      /\ peer' = [peer EXCEPT ![n] = c]
      /\ inbox' = [inbox EXCEPT ![n] = Append(@, req)]
      /\ UNCHANGED <<command, port, replicated, guessed, value, success,
                     written>>
  BY <1>0 DEF Connect, Goes, data
<1>3. req.value = Current(c) /\ req.code = "REPLICATE" /\ req \in Message
  BY RequestType
<1> HIDE DEF req
<1>4. inbox'[n] = <<req>>
  BY <1>1, <1>2 DEF TypeOK
<1>5. Serves(n, c)'
  BY <1>0, <1>1, <1>2, <1>3, <1>4 DEF Serves, Current, TypeOK
<1>6. ASSUME NEW m \in Node \ {n}, at[m] # "accept"
      PROVE  Serves(m, peer[m])'
  <2>1. Serves(m, peer[m])
    BY <1>6 DEF ServiceInv, NodesServe
  <2>2. peer[m] # c
    BY <1>1, <2>1 DEF Serves
  <2> QED
    BY <1>1, <1>2, <2>1, <2>2 DEF Serves, Current, TypeOK
<1>7. NodesServe'
  <2>1. at'[n] # "accept" /\ peer'[n] = c
    BY <1>2 DEF TypeOK
  <2>2. Serves(n, peer[n])'
    BY <1>5, <2>1 DEF Serves, Current
  <2>3. \A m \in Node \ {n} :
          /\ at'[m] = at[m] /\ inbox'[m] = inbox[m] /\ success'[m] = success[m]
    BY <1>2 DEF TypeOK
  <2> QED
    BY <1>6, <2>1, <2>2, <2>3 DEF ServiceInv, NodesServe
<1>8. ClientsAreServed'
  BY <1>0, <1>1, <1>2 DEF ServiceInv, ClientsAreServed, TypeOK
<1>9. GoesOnRightly' /\ NothingSkipped'
  BY <1>1, <1>2 DEF ServiceInv, GoesOnRightly, NothingSkipped, Current, TypeOK
<1> QED
  BY <1>7, <1>8, <1>9 DEF ServiceInv

\* The end of a client's wait: its DISCONNECT is the last message of the
\* connection, and it goes on only if it has a reason to.
LEMMA StopsWaitingStep ==
  ASSUME TypeOK, ServiceInv, NEW c \in Client,
         pc[c] = "await", StopsWaiting(c),
         replicated'[c] => Current(c) \in written \cup guessed',
         \A d \in Client \ {c} : replicated'[d] = replicated[d],
         guessed \subseteq guessed',
         \A m \in Node : success'[m] => success[m],
         UNCHANGED <<command, port, at, peer, value, written>>
  PROVE  ServiceInv'
<1>0. PICK n \in Node : n = port[c] /\ at[n] # "accept" /\ peer[n] = c
  BY DEF ServiceInv, ClientsAreServed
<1> DEFINE req == Request(c, "DISCONNECT")
<1>1. req.value = Current(c) /\ req \in Message
  BY RequestType
<1>2. /\ pc' = [pc EXCEPT ![c] = "disconnect"]
      /\ inbox' = [inbox EXCEPT ![n] = Append(@, req)]
  BY <1>0 DEF StopsWaiting, Goes
<1> HIDE DEF req
<1>3. Serves(n, c)
  BY <1>0 DEF ServiceInv, NodesServe
<1>4. /\ inbox[n] \in Seq(Message)
      /\ inbox'[n] = Append(inbox[n], req)
  BY <1>2 DEF TypeOK
<1>5. /\ Len(inbox'[n]) = Len(inbox[n]) + 1
      /\ DOMAIN inbox'[n] = 1 .. Len(inbox[n]) + 1
      /\ DOMAIN inbox[n] = 1 .. Len(inbox[n]) /\ Len(inbox[n]) \in Nat
      /\ inbox'[n][Len(inbox[n]) + 1] = req
      /\ \A k \in 1 .. Len(inbox[n]) : inbox'[n][k] = inbox[n][k]
  BY <1>1, <1>4
<1>6. \A k \in 1 .. Len(inbox[n]) :
        /\ inbox[n][k].value = Current(c)
        /\ inbox[n][k].code # "DISCONNECT"
  BY <1>3, <1>5 DEF Serves
<1>7. \A k \in DOMAIN inbox'[n] :
        /\ inbox'[n][k].value = Current(c)
        /\ inbox'[n][k].code = "DISCONNECT" => k = Len(inbox'[n])
  BY <1>1, <1>5, <1>6
<1>8. Serves(n, c)'
  BY <1>2, <1>3, <1>7 DEF Serves, Current, TypeOK
<1>9. ASSUME NEW m \in Node \ {n}, at[m] # "accept"
      PROVE  Serves(m, peer[m])'
  <2>1. Serves(m, peer[m])
    BY <1>9 DEF ServiceInv, NodesServe
  <2>2. peer[m] # c
    BY <1>0, <2>1 DEF Serves
  <2> QED
    BY <1>2, <2>1, <2>2 DEF Serves, Current, TypeOK
<1>10. NodesServe'
  <2>1. Serves(n, peer[n])'
    BY <1>0, <1>8 DEF Serves, Current
  <2>2. \A m \in Node \ {n} : inbox'[m] = inbox[m]
    BY <1>2 DEF TypeOK
  <2> QED
    BY <1>0, <1>9, <2>1, <2>2 DEF ServiceInv, NodesServe
<1>11. ClientsAreServed'
  BY <1>0, <1>2 DEF ServiceInv, ClientsAreServed, TypeOK
<1>12. GoesOnRightly' /\ NothingSkipped'
  BY <1>2 DEF ServiceInv, GoesOnRightly, NothingSkipped, Current, TypeOK
<1> QED
  BY <1>10, <1>11, <1>12 DEF ServiceInv

\* A client's steps keep the invariant of the service.
LEMMA ServiceClientStep ==
  ASSUME TypeOK, ServiceInv, NEW c \in Client, ClientStep(c)
  PROVE  ServiceInv'
<1> USE DEF TypeOK, client, server, cluster, data, Goes
<1>1. CASE Start(c) \/ setTurn(c)
  <2>1. /\ pc[c] \in {"init", "setTurn"}
        /\ command' = [command EXCEPT ![c] = @ + 1]
        /\ \E to \in {"turn", "done"} : pc' = [pc EXCEPT ![c] = to]
        /\ UNCHANGED <<port, replicated, guessed, server, data>>
    BY <1>1 DEF Start, setTurn, NextCommand
  <2>2. NodesServe' /\ ClientsAreServed'
    BY <2>1, UnconnectedStep
  <2>3. GoesOnRightly'
    BY <2>1 DEF ServiceInv, GoesOnRightly, Current
  <2>4. NothingSkipped'
    <3> SUFFICES ASSUME NEW d \in Client, NEW k \in 1 .. command'[d] - 1
                 PROVE  <<d, k>> \in written \cup guessed
      BY <2>1 DEF NothingSkipped
    <3>1. CASE k \in 1 .. command[d] - 1
      BY <3>1 DEF ServiceInv, NothingSkipped
    <3>2. CASE ~ (k \in 1 .. command[d] - 1)
      <4>1. d = c /\ k = command[c]
        BY <2>1, <3>2
      <4>2. pc[c] = "setTurn"
        BY <2>1, <4>1 DEF ServiceInv, GoesOnRightly
      <4> QED
        BY <4>1, <4>2 DEF ServiceInv, GoesOnRightly, Current
    <3> QED
      BY <3>1, <3>2
  <2> QED
    BY <2>2, <2>3, <2>4 DEF ServiceInv
<1>2. CASE waitForTurn(c) \/ lookupServerPort(c)
  <2>1. /\ pc[c] \in {"turn", "lookup"}
        /\ \E to \in {"turn", "lookup", "connect"} :
             /\ pc' = [pc EXCEPT ![c] = to]
             /\ to = "connect" => port' = [port EXCEPT ![c] = published]
        /\ \A d \in Client \ {c} : port'[d] = port[d]
        /\ UNCHANGED <<command, replicated, guessed, server, data>>
    BY <1>2 DEF waitForTurn, lookupServerPort
  <2>2. NodesServe' /\ ClientsAreServed'
    BY <2>1, UnconnectedStep
  <2>3. GoesOnRightly' /\ NothingSkipped'
    BY <2>1 DEF ServiceInv, GoesOnRightly, NothingSkipped, Current
  <2> QED
    BY <2>2, <2>3 DEF ServiceInv
<1>3. CASE Connect(c)
  BY <1>3, ConnectStep
<1>4. CASE ReceiveSuccess(c)
  <2>1. /\ pc[c] = "await" /\ success[port[c]]
        /\ success' = [success EXCEPT ![port[c]] = FALSE]
        /\ replicated' = [replicated EXCEPT ![c] = TRUE]
        /\ UNCHANGED guessed
        /\ StopsWaiting(c)
        /\ UNCHANGED <<command, port, at, peer, value, written>>
    BY <1>4 DEF ReceiveSuccess
  <2>2. Current(c) \in written
    BY <2>1 DEF ServiceInv, ClientsAreServed, NodesServe, Serves
  <2> QED
    BY <2>1, <2>2, StopsWaitingStep
<1>5. CASE TimeOut(c)
  <2>1. PICK b \in BOOLEAN :
          /\ replicated' = [replicated EXCEPT ![c] = b]
          /\ guessed' = IF b THEN guessed \cup {Current(c)} ELSE guessed
    BY <1>5 DEF TimeOut, Current
  <2>2. /\ pc[c] = "await" /\ StopsWaiting(c)
        /\ UNCHANGED <<command, port, at, peer, value, success, written>>
    BY <1>5 DEF TimeOut
  <2> QED
    BY <2>1, <2>2, StopsWaitingStep
<1> QED
  BY <1>1, <1>2, <1>3, <1>4, <1>5 DEF ClientStep

\* A step of a node that keeps its connection.
LEMMA ConnectedStep ==
  ASSUME TypeOK, ServiceInv, NEW n \in Node,
         at[n] # "accept", at'[n] # "accept", Serves(n, peer[n])',
         \A m \in Node \ {n} : /\ at'[m] = at[m]
                               /\ inbox'[m] = inbox[m]
                               /\ value'[m] = value[m]
                               /\ success'[m] = success[m],
         written \subseteq written',
         UNCHANGED <<pc, command, port, replicated, guessed, peer>>
  PROVE  ServiceInv'
<1>1. \A m \in Node \ {n} : at[m] # "accept" => Serves(m, peer[m])'
  BY DEF ServiceInv, NodesServe, Serves, Current
<1>2. NodesServe'
  BY <1>1 DEF ServiceInv, NodesServe
<1>3. ClientsAreServed'
  BY DEF ServiceInv, ClientsAreServed
<1>4. GoesOnRightly' /\ NothingSkipped'
  BY DEF ServiceInv, GoesOnRightly, NothingSkipped, Current
<1> QED
  BY <1>2, <1>3, <1>4 DEF ServiceInv

\* The end of a connection: nothing of it is left, and the client goes on or
\* tries again.
LEMMA DisconnectStep ==
  ASSUME TypeOK, ServiceInv, NEW n \in Node, Disconnect(n)
  PROVE  ServiceInv'
<1>0. /\ at[n] = "receive" /\ inbox[n] # << >>
      /\ Head(inbox[n]).code = "DISCONNECT"
  BY DEF Disconnect
<1>1. PICK c \in Client : c = peer[n] /\ Serves(n, c)
  BY <1>0 DEF ServiceInv, NodesServe, Serves
<1>2. /\ pc[c] = "disconnect"
      /\ pc' = [pc EXCEPT ![c] = IF replicated[c] THEN "setTurn" ELSE "lookup"]
      /\ port' = [port EXCEPT ![c] = NoPort]
      /\ replicated' = [replicated EXCEPT ![c] = FALSE]
      /\ at' = [at EXCEPT ![n] = "accept"]
      /\ peer' = [peer EXCEPT ![n] = NoClient]
      /\ inbox' = [inbox EXCEPT ![n] = Tail(@)]
      /\ success' = [success EXCEPT ![n] = FALSE]
      /\ UNCHANGED <<command, guessed, value, written>>
  BY <1>1 DEF Disconnect, Goes, data
<1>3. inbox'[n] = << >>
  <2>1. Len(inbox[n]) = 1
    BY <1>0, <1>1, InboxHead DEF Serves
  <2> QED
    BY <1>0, <1>2, <2>1, InboxHead DEF TypeOK
<1>4. ASSUME NEW m \in Node \ {n}, at[m] # "accept"
      PROVE  Serves(m, peer[m])'
  <2>1. Serves(m, peer[m])
    BY <1>4 DEF ServiceInv, NodesServe
  <2>2. peer[m] # c
    BY <1>1, <2>1 DEF Serves
  <2> QED
    BY <1>2, <2>1, <2>2 DEF Serves, Current, TypeOK
<1>5. NodesServe'
  <2>1. \A m \in Node \ {n} :
          /\ at'[m] = at[m] /\ inbox'[m] = inbox[m] /\ success'[m] = success[m]
    BY <1>2 DEF TypeOK
  <2>2. at'[n] = "accept" /\ ~ success'[n]
    BY <1>2 DEF TypeOK
  <2> QED
    BY <1>3, <1>4, <2>1, <2>2 DEF ServiceInv, NodesServe
<1>6. ClientsAreServed'
  BY <1>1, <1>2 DEF ServiceInv, ClientsAreServed, TypeOK
<1>7. GoesOnRightly' /\ NothingSkipped'
  BY <1>2 DEF ServiceInv, GoesOnRightly, NothingSkipped, Current, TypeOK
<1> QED
  BY <1>5, <1>6, <1>7 DEF ServiceInv

\* A node's steps keep the invariant of the service.
LEMMA ServiceServerStep ==
  ASSUME TypeOK, ServiceInv, NEW n \in Node, ServerStep(n)
  PROVE  ServiceInv'
<1> USE DEF TypeOK, client, server, cluster, data
<1>1. CASE ReceiveReplicate(n)
  <2>1. /\ at[n] = "receive" /\ inbox[n] # << >>
        /\ inbox' = [inbox EXCEPT ![n] = Tail(@)]
        /\ value' = [value EXCEPT ![n] = Head(inbox[n]).value]
        /\ at' = [at EXCEPT ![n] = "sleep"]
        /\ UNCHANGED <<client, peer, success, written>>
    BY <1>1 DEF ReceiveReplicate
  <2>2. Serves(n, peer[n])
    BY <2>1 DEF ServiceInv, NodesServe
  <2>3. \A k \in DOMAIN Tail(inbox[n]) :
          /\ Tail(inbox[n])[k].value = Current(peer[n])
          /\ Tail(inbox[n])[k].code = "DISCONNECT"
               => pc[peer[n]] = "disconnect" /\ k = Len(Tail(inbox[n]))
    <3> SUFFICES ASSUME NEW k \in DOMAIN Tail(inbox[n])
                 PROVE  /\ Tail(inbox[n])[k].value = Current(peer[n])
                        /\ Tail(inbox[n])[k].code = "DISCONNECT"
                             => /\ pc[peer[n]] = "disconnect"
                                /\ k = Len(Tail(inbox[n]))
      OBVIOUS
    <3>1. /\ k + 1 \in DOMAIN inbox[n] /\ Tail(inbox[n])[k] = inbox[n][k + 1]
          /\ Len(Tail(inbox[n])) = Len(inbox[n]) - 1
      BY <2>1, InboxHead
    <3>2. Len(inbox[n]) \in Nat /\ k \in Int
      BY <2>1
    <3> QED
      BY <2>2, <3>1, <3>2 DEF Serves
  <2>4. inbox'[n] = Tail(inbox[n]) /\ value'[n] = Current(peer[n])
    BY <2>1, <2>2, InboxHead DEF Serves
  <2>5. Serves(n, peer[n])'
    BY <2>1, <2>2, <2>3, <2>4 DEF Serves, Current
  <2> QED
    BY <2>1, <2>5, ConnectedStep
<1>2. CASE WakeUp(n) \/ MajorityAccepts(n)
  <2>1. /\ at[n] \notin {"accept", "receive"}
        /\ \E to \in {"cutOff", "round", "accepted"} :
             at' = [at EXCEPT ![n] = to]
        /\ UNCHANGED <<client, peer, inbox, value, success, written>>
    BY <1>2 DEF WakeUp, MajorityAccepts
  <2>2. Serves(n, peer[n])
    BY <2>1 DEF ServiceInv, NodesServe
  <2>3. Serves(n, peer[n])'
    BY <2>1, <2>2 DEF Serves, Current
  <2> QED
    BY <2>1, <2>3, ConnectedStep
<1>3. CASE RoundReached(n)
  <2>1. /\ at[n] = "accepted"
        /\ at' = [at EXCEPT ![n] = "receive"]
        /\ value' = [value EXCEPT ![n] = NoValue]
        /\ success' = [success EXCEPT ![n] = TRUE]
        /\ written' = written \cup {value[n]}
        /\ UNCHANGED <<client, peer, inbox>>
    BY <1>3 DEF RoundReached, RoundEnds
  <2>2. Serves(n, peer[n])
    BY <2>1 DEF ServiceInv, NodesServe
  <2>3. Serves(n, peer[n])'
    BY <2>1, <2>2 DEF Serves, Current
  <2> QED
    BY <2>1, <2>3, ConnectedStep
<1>4. CASE RoundFailed(n)
  <2>1. /\ at[n] \in {"round", "cutOff"}
        /\ at' = [at EXCEPT ![n] = "receive"]
        /\ value' = [value EXCEPT ![n] = NoValue]
        /\ UNCHANGED <<client, peer, inbox, success, written>>
    BY <1>4 DEF RoundFailed, RoundEnds
  <2>2. Serves(n, peer[n])
    BY <2>1 DEF ServiceInv, NodesServe
  <2>3. Serves(n, peer[n])'
    BY <2>1, <2>2 DEF Serves, Current
  <2> QED
    BY <2>1, <2>3, ConnectedStep
<1>5. CASE Disconnect(n)
  BY <1>5, DisconnectStep
<1> QED
  BY <1>1, <1>2, <1>3, <1>4, <1>5 DEF ServerStep

\* Every step keeps the invariant of the service.
LEMMA ServiceStep == TypeOK /\ ServiceInv /\ [Next]_vars => ServiceInv'
<1> SUFFICES ASSUME TypeOK, ServiceInv, [Next]_vars PROVE ServiceInv'
  OBVIOUS
<1>1. CASE \E c \in Client : ClientStep(c)
  BY <1>1, ServiceClientStep
<1>2. CASE \E n \in Node : ServerStep(n)
  BY <1>2, ServiceServerStep
<1>3. CASE UNCHANGED service
  BY <1>3, ServiceStutter
<1>4. ASSUME NEW c \in Client, ConnectTimesOut(c) PROVE ServiceInv'
  <2>1. /\ pc[c] = "connect" /\ pc' = [pc EXCEPT ![c] = "exited"]
        /\ UNCHANGED <<command, port, replicated, guessed, server, data>>
    BY <1>4 DEF ConnectTimesOut, Goes
  <2>2. NodesServe' /\ ClientsAreServed'
    BY <2>1, UnconnectedStep DEF TypeOK
  <2>3. GoesOnRightly' /\ NothingSkipped'
    BY <2>1 DEF ServiceInv, GoesOnRightly, NothingSkipped, Current, data, TypeOK
  <2> QED
    BY <2>2, <2>3 DEF ServiceInv
<1> QED
  BY <1>1, <1>2, <1>3, <1>4
  DEF Next, vars, client, server, cluster, data, service, ClusterStep, Suspect,
      enableClientConn, Readmit, Crash, Recover, TurnFileShutdown

\* The types and the invariant of the service hold in every reachable state.
LEMMA ServiceInvariant == Spec => [](TypeOK /\ ServiceInv)
<1>1. Init => TypeOK
  <2> SUFFICES ASSUME Init PROVE TypeOK
    OBVIOUS
  <2>1. 0 \in Client
    BY ClientIds DEF Client
  <2>2. clusterSize - 1 \in Node
    BY ClusterSizeAssumption DEF Node
  <2> QED
    BY <2>1, <2>2 DEF Init, TypeOK, ClientAt, ServerAt
<1>2. Init => ServiceInv
  BY DEF Init, ServiceInv, NodesServe, ClientsAreServed, GoesOnRightly,
         NothingSkipped
<1>3. TypeOK /\ ServiceInv /\ [Next]_vars => TypeOK' /\ ServiceInv'
  BY ClientsTypeStep, ServiceStep DEF ServiceInv
<1> QED
  BY <1>1, <1>2, <1>3, PTL DEF Spec

\* The types hold in every reachable state: what a node writes is a command.
THEOREM ClientsTypes == Spec => []TypeOK
BY ServiceInvariant, PTL

\* A client leaves a command behind only if it is written or the code of an
\* answer that never came was taken for SUCCESS: for every number of clients and
\* commands, and every sequence of outages, timeouts and changes of leader.
THEOREM NoCommandIsSkipped == Spec => []NothingSkipped
<1>1. ServiceInv => NothingSkipped
  BY DEF ServiceInv
<1> QED
  BY <1>1, ServiceInvariant, PTL
--------------------------------------------------------------------------------
(* Connecting.                                                              *)

\* A "shutdown" in the turn file stays there.
LEMMA ShutdownStays ==
  ASSUME TypeOK, [Next]_vars, TurnsHold'
  PROVE  TurnsHold
<1>1. turnFile \in Seq(Client \cup {Shutdown})
  BY DEF TypeOK
<1>2. CASE \E line \in Client \cup {Shutdown} : turnFile' = Append(turnFile, line)
  <2>1. /\ DOMAIN turnFile \subseteq DOMAIN turnFile'
        /\ \A i \in DOMAIN turnFile : turnFile'[i] = turnFile[i]
    BY <1>1, <1>2
  <2> QED
    BY <2>1 DEF TurnsHold, Range
<1>3. CASE UNCHANGED turnFile
  BY <1>3 DEF TurnsHold
<1>4. ASSUME NEW c \in Client, setTurn(c)
      PROVE  \E line \in Client \cup {Shutdown} : turnFile' = Append(turnFile, line)
  BY <1>4, ClientIds DEF setTurn
<1> QED
  BY <1>2, <1>3, <1>4
  DEF Next, vars, client, ClientStep, Start, waitForTurn, lookupServerPort,
      Connect, ReceiveSuccess, TimeOut, ConnectTimesOut, ServerStep,
      ReceiveReplicate, WakeUp, MajorityAccepts, RoundReached, RoundFailed,
      Disconnect, ClusterStep, Suspect, enableClientConn, Readmit, Crash,
      Recover, TurnFileShutdown

\* A client that is about to connect finds the node accepting: whoever that
\* node serves would be at work as well.
LEMMA PortIsAccepting ==
  ASSUME TypeOK, ServiceInv, TurnInv, TurnsHold,
         NEW c \in Client, pc[c] = "connect"
  PROVE  at[port[c]] = "accept"
<1> SUFFICES ASSUME at[port[c]] # "accept" PROVE FALSE
  OBVIOUS
<1>1. PICK n \in Node : n = port[c]
  BY DEF ServiceInv, ClientsAreServed
<1>2. PICK d \in Client : pc[d] \in {"await", "disconnect"}
  BY <1>1 DEF ServiceInv, NodesServe, Serves
<1>3. Working(c) /\ Working(d)
  BY <1>2 DEF Working
<1>4. c = d
  BY <1>3 DEF TurnInv
<1> QED
  BY <1>2, <1>4

\* Who exits has failed to connect just now.
LEMMA ExitStep ==
  ASSUME TypeOK, [Next]_vars, NEW c \in Client, pc'[c] = "exited"
  PROVE  pc[c] = "exited" \/ ConnectTimesOut(c)
<1>1. ASSUME NEW d \in Client, ClientStep(d)
      PROVE  pc'[c] = pc[c]
  <2>1. \E to \in ClientAt \ {"exited"} : pc' = [pc EXCEPT ![d] = to]
    BY <1>1 DEF ClientStep, Start, waitForTurn, lookupServerPort, Connect,
       ReceiveSuccess, TimeOut, StopsWaiting, setTurn, NextCommand, Goes,
       ClientAt
  <2> QED
    BY <2>1 DEF TypeOK
<1>2. ASSUME NEW d \in Client, ConnectTimesOut(d), d # c
      PROVE  pc'[c] = pc[c]
  BY <1>2 DEF ConnectTimesOut, Goes, TypeOK
<1>3. ASSUME NEW n \in Node, Disconnect(n)
      PROVE  pc'[c] = pc[c]
  BY <1>3 DEF Disconnect, Goes, TypeOK
<1>4. CASE UNCHANGED pc
  BY <1>4
<1> QED
  BY <1>1, <1>2, <1>3, <1>4
  DEF Next, vars, client, ServerStep, ReceiveReplicate, WakeUp,
      MajorityAccepts, RoundReached, RoundFailed, ClusterStep, Suspect,
      enableClientConn, Readmit, Crash, Recover, TurnFileShutdown

\* Until "shutdown" is written no client ever exits in connect: for every
\* number of nodes and clients, every outage, and whatever is left of a request
\* that was given up.
THEOREM EveryConnectIsAccepted == Spec => []NoConnectFails
<1>1. Init => NoConnectFails
  BY DEF Init, NoConnectFails
<1>2. TypeOK /\ ServiceInv /\ TurnInv /\ NoConnectFails /\ [Next]_vars
        => NoConnectFails'
  <2> SUFFICES ASSUME TypeOK, ServiceInv, TurnInv, NoConnectFails, [Next]_vars,
                      TurnsHold', NEW c \in Client, pc'[c] = "exited"
               PROVE  FALSE
    BY DEF NoConnectFails
  <2>1. TurnsHold
    BY ShutdownStays
  <2>2. ConnectTimesOut(c)
    BY <2>1, ExitStep DEF NoConnectFails
  <2>3. pc[c] = "connect" /\ at[port[c]] # "accept"
    BY <2>2 DEF ConnectTimesOut
  <2> QED
    BY <2>1, <2>3, PortIsAccepting
<1>3. Spec => []TurnInv
  BY TurnInvariant
<1> QED
  BY <1>1, <1>2, <1>3, ServiceInvariant, PTL DEF Spec
================================================================================
