------------------------------- MODULE Shutdown --------------------------------
(****************************************************************************)
(* How the server stops (src/src/node.cc, receiver-manager.cc, the end of   *)
(* ReplManager::startReceiver and of ClientManager::startReceiver).         *)
(*                                                                          *)
(* The operator's "shutdown" line makes the REPL thread of every node stop  *)
(* the election, consensus and failure receivers of that node, and its ping *)
(* thread.  The client threads block in MPI_Comm_accept and are stopped     *)
(* round a ring: the shutdown client connects to the leader, and each node, *)
(* once told, closes its port and tells the next, whose port it was sent    *)
(* when the program started.  The main thread waits for the receivers and   *)
(* then for all nodes, in MPI_Finalize.                                     *)
(*                                                                          *)
(* A node may be "crashed" when the line is read; it then stays crashed,    *)
(* since nothing reads the file any more.  The clients are gone.            *)
(****************************************************************************)
EXTENDS Messenger

VARIABLES
  crashed,         \* nodes whose ReplManager blocks
  published,       \* whose port the shutdown client finds
  leaderNodeId,    \* m_leaderNodeId
  active,          \* active[n]: the tags with m_isActive
  told,            \* told[n]: the tags with a SHUTDOWN in their queue
  running,         \* running[n]: the tags whose receiver is in its loop
  repl,            \* repl[n]: where the REPL thread is
  ping,            \* ping[n]: the ping thread is running
  pingThreadIsUp,  \* m_pingThreadIsUp
  main,            \* main[n]: where the main thread is
  at,              \* at[n]: where the client thread is
  mail,            \* mail[n]: the nodes whose PORT message waits for n
  nextNodePort,    \* m_nextNodePort: whose port it is
  isOpen,          \* isOpen[n]: m_port of n accepts connections
  peer,            \* peer[n]: who is at the other end of m_clientConnection
  operator         \* where the shutdown client is

stopping == <<active, told, running, repl, ping, pingThreadIsUp>>
ring     == <<at, mail, nextNodePort, isOpen, peer, operator>>
fixed    == <<crashed, published, leaderNodeId>>

vars == <<fixed, stopping, main, ring>>

StoppedByRepl == {"LEADER_ELECTION", "CONSENSUS", "FAILURE_DETECTION"}
Tag           == StoppedByRepl \cup {"REPL", "CLIENT"}

Nobody   == -1
Operator == -2

ClientAt == {"open", "send", "receive", "accept", "serve", "close",
             "neighbor", "connect", "disconnect", "ended"}

nextNodeId(n) == (n + 1) % clusterSize

\* The port a node is sent is that of the next.
TypeOK ==
  /\ crashed \subseteq Node
  /\ published \in Node
  /\ leaderNodeId \in [Node -> Node]
  /\ active \in [Node -> SUBSET Tag]
  /\ told \in [Node -> SUBSET StoppedByRepl]
  /\ running \in [Node -> SUBSET StoppedByRepl]
  /\ repl \in [Node -> {"read", "joinPing", "ended"}]
  /\ ping \in [Node -> BOOLEAN]
  /\ pingThreadIsUp \in [Node -> BOOLEAN]
  /\ main \in [Node -> {"wait", "finalize", "exited"}]
  /\ at \in [Node -> ClientAt]
  /\ mail \in [Node -> SUBSET Node]
  /\ nextNodePort \in [Node -> Node \cup {Nobody}]
  /\ \A n \in Node :
       mail[n] \cup {nextNodePort[n]} \subseteq {nextNodeId(n), Nobody}
  /\ isOpen \in [Node -> BOOLEAN]
  /\ peer \in [Node -> Node \cup {Nobody, Operator}]
  /\ operator \in {"connect", "disconnect", "ended"}

\* There is a leader and the running nodes know it; a crashed node may have
\* missed elections.
Init ==
  /\ published \in Node
  /\ crashed \in SUBSET (Node \ {published})
  /\ leaderNodeId \in [Node -> Node]
  /\ \A n \in Node \ crashed : leaderNodeId[n] = published
  /\ active = [n \in Node |-> Tag]
  /\ told = [n \in Node |-> {}]
  /\ running = [n \in Node |-> StoppedByRepl]
  /\ repl = [n \in Node |-> "read"]
  /\ ping = [n \in Node |-> TRUE]
  /\ pingThreadIsUp = [n \in Node |-> TRUE]
  /\ main = [n \in Node |-> "wait"]
  /\ at = [n \in Node |-> "open"]
  /\ mail = [n \in Node |-> {}]
  /\ nextNodePort = [n \in Node |-> Nobody]
  /\ isOpen = [n \in Node |-> FALSE]
  /\ peer = [n \in Node |-> Nobody]
  /\ operator = "connect"

--------------------------------------------------------------------------------
(* The REPL thread: the end of ReplManager::startReceiver.                  *)

\* Mutant: the ping thread is not told.
StopReceiversNotPing(n) ==
  /\ repl[n] = "read"
  /\ told' = [told EXCEPT ![n] = StoppedByRepl]
  /\ active' = [active EXCEPT ![n] = @ \ {"LEADER_ELECTION", "CONSENSUS"}]
  /\ repl' = [repl EXCEPT ![n] = "joinPing"]
  /\ UNCHANGED <<fixed, running, ping, pingThreadIsUp, main, ring>>

\* The line "shutdown" ends the loop.  Each receiver is sent a SHUTDOWN by its
\* own node and is not active any more; the ping thread's flag is cleared.
\* Nothing blocks in between.
StopReceivers(n) ==
  /\ repl[n] = "read"
  /\ told' = [told EXCEPT ![n] = StoppedByRepl]
  /\ active' = [active EXCEPT ![n] = @ \ {"LEADER_ELECTION", "CONSENSUS"}]
  /\ pingThreadIsUp' = [pingThreadIsUp EXCEPT ![n] = FALSE]
  /\ repl' = [repl EXCEPT ![n] = "joinPing"]
  /\ UNCHANGED <<fixed, running, ping, main, ring>>

\* pingCheck ends after a loop, which a crash blocks.
PingThreadEnds(n) ==
  /\ ping[n]
  /\ ~ pingThreadIsUp[n]
  /\ n \notin crashed
  /\ ping' = [ping EXCEPT ![n] = FALSE]
  /\ UNCHANGED <<fixed, active, told, running, repl, pingThreadIsUp, main,
                 ring>>

\* Mutant: the ping thread is detached, not joined.
DetachPingThread(n) ==
  /\ repl[n] = "joinPing"
  /\ active' = [active EXCEPT ![n] = @ \ {"FAILURE_DETECTION"}]
  /\ repl' = [repl EXCEPT ![n] = "ended"]
  /\ UNCHANGED <<fixed, told, running, ping, pingThreadIsUp, main, ring>>

\* The end of FailureManager::stopReceiver, and of the thread.
JoinPingThread(n) ==
  /\ repl[n] = "joinPing"
  /\ ~ ping[n]
  /\ active' = [active EXCEPT ![n] = @ \ {"FAILURE_DETECTION"}]
  /\ repl' = [repl EXCEPT ![n] = "ended"]
  /\ UNCHANGED <<fixed, told, running, ping, pingThreadIsUp, main, ring>>

--------------------------------------------------------------------------------
(* The receivers: MessageReceiver::startReceiver.                           *)

\* The three receivers leave their loops; they have nothing to do with each
\* other, so this is one step.  (Those of a crashed node block in sleep() if
\* another message came before.)
ReceiveShutdown(n) ==
  /\ told[n] # {}
  /\ told' = [told EXCEPT ![n] = {}]
  /\ running' = [running EXCEPT ![n] = @ \ told[n]]
  /\ UNCHANGED <<fixed, active, repl, ping, pingThreadIsUp, main, ring>>

--------------------------------------------------------------------------------
(* The client thread: ClientManager::startReceiver.                         *)

ClientGoes(n, to) == at' = [at EXCEPT ![n] = to]

\* Mutant: the port goes to the next node, not the previous one.
prevNodeIdNext(n) == nextNodeId(n)

prevNodeId(n) == IF n = 0 THEN clusterSize - 1 ELSE n - 1

openPort(n) ==
  /\ at[n] = "open"
  /\ isOpen' = [isOpen EXCEPT ![n] = TRUE]
  /\ ClientGoes(n, IF n = 0 THEN "send" ELSE "receive")
  /\ UNCHANGED <<fixed, stopping, main, mail, nextNodePort, peer, operator>>

sendPort(n) ==
  /\ at[n] = "send"
  /\ mail' = [mail EXCEPT ![prevNodeId(n)] = @ \cup {n}]
  /\ ClientGoes(n, IF n = 0 THEN "receive" ELSE "accept")
  /\ UNCHANGED <<fixed, stopping, main, nextNodePort, isOpen, peer, operator>>

receivePort(n) ==
  /\ at[n] = "receive"
  /\ \E m \in mail[n] :
       /\ mail' = [mail EXCEPT ![n] = @ \ {m}]
       /\ nextNodePort' = [nextNodePort EXCEPT ![n] = m]
  /\ ClientGoes(n, IF n = 0 THEN "accept" ELSE "send")
  /\ UNCHANGED <<fixed, stopping, main, isOpen, peer, operator>>

\* Client::shutdownServer: SHUTDOWN is sent at once.  The DISCONNECT after it
\* is never received.
AcceptOperator(n) ==
  /\ operator = "connect"
  /\ n = published
  /\ at[n] = "accept"
  /\ operator' = "disconnect"
  /\ peer' = [peer EXCEPT ![n] = Operator]
  /\ ClientGoes(n, "serve")
  /\ UNCHANGED <<fixed, stopping, main, mail, nextNodePort, isOpen>>

\* SHUTDOWN ends receivePendingMessages; both sides disconnect.
DisconnectPeer(n) ==
  /\ at[n] = "serve"
  /\ IF peer[n] = Operator
     THEN /\ operator' = "ended"
          /\ ClientGoes(n, "close")
     ELSE /\ at[peer[n]] = "disconnect"
          /\ at' = [at EXCEPT ![n] = "close", ![peer[n]] = "ended"]
          /\ UNCHANGED operator
  /\ peer' = [peer EXCEPT ![n] = Nobody]
  /\ UNCHANGED <<fixed, stopping, main, mail, nextNodePort, isOpen>>

closePort(n) ==
  /\ at[n] = "close"
  /\ isOpen' = [isOpen EXCEPT ![n] = FALSE]
  /\ ClientGoes(n, "neighbor")
  /\ UNCHANGED <<fixed, stopping, main, mail, nextNodePort, peer, operator>>

\* Mutant: the neighbour of the last node is not the first.
shutdownNeighborNoWrap(n) ==
  /\ at[n] = "neighbor"
  /\ ClientGoes(n, IF leaderNodeId[n] # n + 1 THEN "connect" ELSE "ended")
  /\ UNCHANGED <<fixed, stopping, main, mail, nextNodePort, isOpen, peer,
                 operator>>

\* The ring ends before the leader, with whom it began.
shutdownNeighbor(n) ==
  /\ at[n] = "neighbor"
  /\ ClientGoes(n, IF leaderNodeId[n] # nextNodeId(n)
                   THEN "connect" ELSE "ended")
  /\ UNCHANGED <<fixed, stopping, main, mail, nextNodePort, isOpen, peer,
                 operator>>

\* MPI_Comm_connect meets the neighbour's MPI_Comm_accept, if the port is open.
ConnectNeighbor(n) ==
  LET m == nextNodePort[n] IN
  /\ at[n] = "connect"
  /\ isOpen[m]
  /\ at[m] = "accept"
  /\ at' = [at EXCEPT ![n] = "disconnect", ![m] = "serve"]
  /\ peer' = [peer EXCEPT ![m] = n]
  /\ UNCHANGED <<fixed, stopping, main, mail, nextNodePort, isOpen, operator>>

ClientThreadStep(n) ==
  \/ openPort(n)
  \/ sendPort(n)
  \/ receivePort(n)
  \/ AcceptOperator(n)
  \/ DisconnectPeer(n)
  \/ closePort(n)
  \/ shutdownNeighbor(n)
  \/ ConnectNeighbor(n)

--------------------------------------------------------------------------------
(* The main thread: the end of Node::init, and Node::destroy.               *)

HasEnded(n, t) ==
  CASE t = "REPL"   -> repl[n] = "ended"
    [] t = "CLIENT" -> at[n] = "ended"
    [] OTHER        -> t \notin running[n]

\* waitForReceiver, five times: the thread of a tag is joined if it is active
\* when its turn comes.  What one call has waited for stays true during the
\* next, so they are one step.
WaitForReceivers(n) ==
  /\ main[n] = "wait"
  /\ \A t \in active[n] : HasEnded(n, t)
  /\ main' = [main EXCEPT ![n] = "finalize"]
  /\ UNCHANGED <<fixed, stopping, ring>>

\* MPI_Finalize is collective.
Finalize ==
  /\ \A n \in Node : main[n] = "finalize"
  /\ main' = [n \in Node |-> "exited"]
  /\ UNCHANGED <<fixed, stopping, ring>>

Next ==
  \/ \E n \in Node :
       \/ StopReceivers(n)
       \/ PingThreadEnds(n)
       \/ JoinPingThread(n)
       \/ ReceiveShutdown(n)
       \/ ClientThreadStep(n)
       \/ WaitForReceivers(n)
  \/ Finalize

Spec == Init /\ [][Next]_vars

\* Threads that can run do.
FairSpec == Spec /\ WF_vars(Next)

--------------------------------------------------------------------------------
(* Properties.                                                              *)

\* Every node takes the node that is told first for the leader.
ViewsAgree == \A n \in Node : leaderNodeId[n] = published

(****************************************************************************)
(* A node that goes on to its neighbour finds a port that is open, and one  *)
(* that nobody else uses: the ring meets every node once, wherever it       *)
(* begins, and stops in time.  MPI_Comm_connect to a closed port is an      *)
(* error that ends the program.                                             *)
(****************************************************************************)
RingStaysOpen ==
  ViewsAgree =>
    \A n \in Node :
      at[n] = "connect"
        => /\ nextNodePort[n] # Nobody
           /\ isOpen[nextNodePort[n]]
           /\ peer[nextNodePort[n]] = Nobody

\* Why: a node but the leader is told by the one before it, which then goes no
\* further; and a port that was sent around is open until its owner is told.
Untold(n) == at[n] \in {"open", "send", "receive", "accept"}

PortsAreOpen(n) ==
  /\ at[n] \in {"send", "receive", "accept", "serve", "close"} => isOpen[n]
  /\ nextNodePort[n] # Nobody \/ mail[n] # {} => at[nextNodeId(n)] # "open"
  /\ \/ nextNodePort[n] # Nobody
     \/ at[n] \in {"open", "receive"}
     \/ n = 0 /\ at[n] = "send"

ServesItsPeer(n) == peer[n] # Nobody <=> at[n] = "serve"

ToldByPrevious(n) ==
  /\ at[n] = "connect" => leaderNodeId[n] # nextNodeId(n)
  /\ ViewsAgree /\ nextNodeId(n) # published =>
       Untold(nextNodeId(n)) \/ at[n] \in {"disconnect", "ended"}

RingInv ==
  \A n \in Node : PortsAreOpen(n) /\ ServesItsPeer(n) /\ ToldByPrevious(n)

(****************************************************************************)
(* A node's main thread leaves init, whose local LogFileManager the         *)
(* receivers use, only when every receiver has ended or is about to: its    *)
(* SHUTDOWN is in the queue.  Its ping thread has ended, so nothing is sent *)
(* after MPI_Finalize.                                                      *)
(****************************************************************************)
LeavesNobodyRunning ==
  \A n \in Node :
    main[n] # "wait" => /\ running[n] \subseteq told[n]
                        /\ ~ ping[n]
                        /\ at[n] = "ended"

\* Why: the REPL thread and the client thread are never stopped by
\* ReceiverManager, so they are joined, and the REPL thread stops all others.
StopInv ==
  \A n \in Node :
    /\ {"REPL", "CLIENT"} \subseteq active[n]
    /\ repl[n] # "read" => running[n] \subseteq told[n]
    /\ repl[n] = "ended" => ~ ping[n]
    /\ main[n] # "wait" => repl[n] = "ended" /\ at[n] = "ended"

(****************************************************************************)
(* Without a crashed node, the shutdown is complete: the ring reaches every *)
(* client thread, every receiver and ping thread ends, and every process    *)
(* leaves the collective MPI_Finalize.                                      *)
(****************************************************************************)
EveryNodeExits ==
  crashed = {} => <>(\A n \in Node : main[n] = "exited" /\ running[n] = {})
================================================================================
