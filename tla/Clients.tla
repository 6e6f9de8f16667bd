-------------------------------- MODULE Clients --------------------------------
(****************************************************************************)
(* The clients (src/src/client.cc) and the ClientManagers that serve them   *)
(* (src/src/manager/client-manager.cc).  A client replicates the commands   *)
(* of its file one after the other: it waits for its turn in the shared     *)
(* turn file, connects to the port the leader has published, sends          *)
(* REPLICATE, waits for SUCCESS, disconnects, tries again if there was none *)
(* in time, and writes whose turn is next.                                  *)
(*                                                                          *)
(* Consensus has the protocol of a round; here it starts, may get its       *)
(* majority of ACCEPTs, and ends when ACCEPT_WAIT_DURATION is over.  The    *)
(* election of a new leader (Election) and the readmission of a node        *)
(* (Recovery) are one step each.  An MPI connection is external: accept and *)
(* connect meet in one step, and so do the two sides of MPI_Comm_disconnect,*)
(* which is collective.                                                     *)
(*                                                                          *)
(* There is no clock.  What the durations rule out is said by guards:       *)
(* a round (13 s) is over before RESPONSE_WAIT_DURATION (40 s) is, and a    *)
(* "crash" that outlasts that wait has been noticed, unless nobody is left  *)
(* to notice it.                                                            *)
(****************************************************************************)
EXTENDS Messenger, FiniteSets, Functions

CONSTANTS
  ClientCount,      \* number of client processes
  CommandCount,     \* lines of every client's command file
  Outages,          \* the sets of nodes that may crash together
  MaxFaults         \* bound on outages, rounds that fail though they need
                    \* not, and "shutdown" lines in the turn file

ASSUME ClientsAssumption ==
  /\ ClientCount \in Nat \ {0}
  /\ {CommandCount, MaxFaults} \subseteq Nat
  /\ Outages \subseteq SUBSET Node

Client   == 0 .. ClientCount - 1
NoClient == -1
NoPort   == -1
NoValue  == <<-1, 0>>
Shutdown == -1      \* the line "shutdown" of the turn file

VARIABLES
  turnFile,    \* the lines of etc/turn.txt
  cursor,      \* cursor[c]: how many of them c has read
  pc,          \* where a client is
  command,     \* command[c]: the line of its command file c is at, from 1
  port,        \* port[c]: whose port c connects or is connected to
  replicated,  \* the local variable of replicate()
  at,          \* at[n]: where the client thread of node n is
  peer,        \* peer[n]: the client at the other end of m_clientConnection
  inbox,       \* inbox[n]: messages of that client
  value,       \* value[n]: the value of the REPLICATE that n handles
  success,     \* success[n]: a SUCCESS is under way to it
  late,        \* late[n]: the wait of that client may be over already
  published,   \* whose port is in etc/published-port.txt
  crashed,     \* nodes whose ReplManager blocks
  suspected,   \* nodes the others take for dead
  faults,      \* how many of MaxFaults there have been
  file,        \* file[n]: the log file of n
  written,     \* history: the commands that were ever in a file
  guessed      \* history: the commands given up for an answer never received

client  == <<turnFile, cursor, pc, command, port, replicated, guessed>>
server  == <<at, peer, inbox, value, success, late>>
cluster == <<published, crashed, suspected, faults>>

data == <<file, written>>

vars == <<client, server, cluster, data>>

Command == Client \X Nat   \* client, and line of its command file
Message == [code : {"REPLICATE", "DISCONNECT"}, value : Command]

\* The stretch of a client's loop that its turn is for.
Working(c) == pc[c] \in {"lookup", "connect", "await", "disconnect", "setTurn"}

ClientAt == {"init", "turn", "lookup", "connect", "await",
             "disconnect", "setTurn", "done", "exited"}
ServerAt == {"accept", "receive", "sleep", "cutOff", "round", "accepted"}

TypeOK ==
  /\ turnFile \in Seq(Client \cup {Shutdown})
  /\ cursor \in [Client -> Nat]
  /\ pc \in [Client -> ClientAt]
  /\ command \in [Client -> Nat]
  /\ port \in [Client -> Node \cup {NoPort}]
  /\ replicated \in [Client -> BOOLEAN]
  /\ guessed \subseteq Command
  /\ at \in [Node -> ServerAt]
  /\ peer \in [Node -> Client \cup {NoClient}]
  /\ inbox \in [Node -> Seq(Message)]
  /\ value \in [Node -> Command \cup {NoValue}]
  /\ success \in [Node -> BOOLEAN]
  /\ late \in [Node -> BOOLEAN]
  /\ published \in Node
  /\ crashed \subseteq Node
  /\ suspected \subseteq Node
  /\ faults \in Nat
  /\ file \in [Node -> Seq(Command)]
  /\ written \subseteq Command

\* make run-client writes the turn of client 0; the first election is over.
Init ==
  /\ turnFile = <<0>>
  /\ cursor = [c \in Client |-> 0]
  /\ pc = [c \in Client |-> "init"]
  /\ command = [c \in Client |-> 0]
  /\ port = [c \in Client |-> NoPort]
  /\ replicated = [c \in Client |-> FALSE]
  /\ guessed = {}
  /\ at = [n \in Node |-> "accept"]
  /\ peer = [n \in Node |-> NoClient]
  /\ inbox = [n \in Node |-> << >>]
  /\ value = [n \in Node |-> NoValue]
  /\ success = [n \in Node |-> FALSE]
  /\ late = [n \in Node |-> FALSE]
  /\ published = clusterSize - 1
  /\ crashed = {}
  /\ suspected = {}
  /\ faults = 0
  /\ file = [n \in Node |-> << >>]
  /\ written = {}

Fault == faults < MaxFaults /\ faults' = faults + 1

Goes(c, to) == pc' = [pc EXCEPT ![c] = to]

--------------------------------------------------------------------------------
(* The client's loop: replicateCommands.                                    *)

\* The next line of the command file; an empty one ends the loop.
NextCommand(c) ==
  /\ command' = [command EXCEPT ![c] = @ + 1]
  /\ Goes(c, IF command[c] < CommandCount THEN "turn" ELSE "done")

\* "start" in the client's REPL file ends the sleep() of init().
Start(c) ==
  /\ pc[c] = "init"
  /\ NextCommand(c)
  /\ UNCHANGED <<turnFile, cursor, port, replicated, guessed, server, cluster,
                 data>>

\* Mutant: the turn file is opened, and read from its start, for every command.
waitForTurnReopens(c) ==
  /\ pc[c] = "turn"
  /\ \E i \in 1 .. Len(turnFile) :
       /\ turnFile[i] \in {c, Shutdown}
       /\ \A j \in 1 .. i - 1 : turnFile[j] \notin {c, Shutdown}
       /\ cursor' = [cursor EXCEPT ![c] = i]
  /\ Goes(c, "lookup")
  /\ UNCHANGED <<turnFile, command, port, replicated, guessed, server,
                 cluster, data>>

\* Mutant: any line ends the wait.
waitForTurnAnyLine(c) ==
  /\ pc[c] = "turn"
  /\ cursor[c] < Len(turnFile)
  /\ cursor' = [cursor EXCEPT ![c] = @ + 1]
  /\ Goes(c, "lookup")
  /\ UNCHANGED <<turnFile, command, port, replicated, guessed, server,
                 cluster, data>>

\* One more line of the turn file; its own id, or "shutdown", ends the wait.
waitForTurn(c) ==
  /\ pc[c] = "turn"
  /\ cursor[c] < Len(turnFile)
  /\ cursor' = [cursor EXCEPT ![c] = @ + 1]
  /\ Goes(c, IF turnFile[cursor[c] + 1] \in {c, Shutdown}
             THEN "lookup" ELSE "turn")
  /\ UNCHANGED <<turnFile, command, port, replicated, guessed, server,
                 cluster, data>>

lookupServerPort(c) ==
  /\ pc[c] = "lookup"
  /\ port' = [port EXCEPT ![c] = published]
  /\ Goes(c, "connect")
  /\ UNCHANGED <<turnFile, cursor, command, replicated, guessed, server,
                 cluster, data>>

Request(c, code) == [code |-> code, value |-> <<c, command[c]>>]

\* MPI_Comm_connect meets the node's MPI_Comm_accept, whether that node is
\* "crashed" or not; REPLICATE follows at once.
Connect(c) ==
  LET n == port[c] IN
  /\ pc[c] = "connect"
  /\ at[n] = "accept"
  /\ Goes(c, "await")
  /\ at' = [at EXCEPT ![n] = "receive"]
  /\ peer' = [peer EXCEPT ![n] = c]
  /\ inbox' = [inbox EXCEPT ![n] = Append(@, Request(c, "REPLICATE"))]
  /\ UNCHANGED <<turnFile, cursor, command, port, replicated, guessed, value,
                 success, late, cluster, data>>

\* MPI_Comm_connect without a pending accept waits for one, or ends the client
\* with MPI_ERR_PORT (doc.tex:85-102): that is left to the MPI implementation.
ConnectTimesOut(c) ==
  /\ pc[c] = "connect"
  /\ at[port[c]] # "accept"
  /\ Goes(c, "exited")
  /\ UNCHANGED <<turnFile, cursor, command, port, replicated, guessed, server,
                 cluster, data>>

\* Mutant: the client does not wait for the node in MPI_Comm_disconnect.
StopsWaitingAlone(c) ==
  /\ Goes(c, "lookup")
  /\ inbox' = [inbox EXCEPT ![port[c]] = Append(@, Request(c, "DISCONNECT"))]

\* Mutant: the node is not told.
StopsWaitingSilently(c) ==
  /\ Goes(c, "disconnect")
  /\ UNCHANGED inbox

\* The wait is over: disconnect() sends DISCONNECT.
StopsWaiting(c) ==
  /\ Goes(c, "disconnect")
  /\ inbox' = [inbox EXCEPT ![port[c]] = Append(@, Request(c, "DISCONNECT"))]

ReceiveSuccess(c) ==
  /\ pc[c] = "await"
  /\ success[port[c]]
  /\ success' = [success EXCEPT ![port[c]] = FALSE]
  /\ replicated' = [replicated EXCEPT ![c] = TRUE]
  /\ StopsWaiting(c)
  /\ UNCHANGED <<turnFile, cursor, command, port, guessed, at, peer, value,
                 late, cluster, data>>

\* A node that was blocked for so long, with a request to serve.
HeldUp(n) ==
  /\ at[n] = "sleep"
  /\ n \in crashed
  /\ n \in suspected \/ Node \subseteq crashed

\* Mutant: the client waits for less than a round takes.
OverdueEarly(n) == TRUE

\* RESPONSE_WAIT_DURATION may be over: the node is or was blocked, or its
\* round has failed and no answer will come.
Overdue(n) ==
  \/ HeldUp(n)
  \/ late[n]
  \/ at[n] = "receive" /\ inbox[n] = << >>

\* No answer in time.  The code of the response that was not received is
\* then compared with SUCCESS: it was never initialized.
TimeOut(c) ==
  /\ pc[c] = "await"
  /\ ~ success[port[c]]
  /\ Overdue(port[c])
  /\ \E b \in BOOLEAN :
       /\ replicated' = [replicated EXCEPT ![c] = b]
       /\ guessed' = IF b THEN guessed \cup {<<c, command[c]>>} ELSE guessed
  /\ StopsWaiting(c)
  /\ UNCHANGED <<turnFile, cursor, command, port, at, peer, value, success,
                 late, cluster, data>>

\* Mutant: the turn after the last client's is nobody's.
setTurnNoWrap(c) ==
  /\ pc[c] = "setTurn"
  /\ turnFile' = Append(turnFile, c + 1)
  /\ NextCommand(c)
  /\ UNCHANGED <<cursor, port, replicated, guessed, server, cluster, data>>

setTurn(c) ==
  /\ pc[c] = "setTurn"
  /\ turnFile' = Append(turnFile, (c + 1) % ClientCount)
  /\ NextCommand(c)
  /\ UNCHANGED <<cursor, port, replicated, guessed, server, cluster, data>>

\* client-repl.sh ends.
TurnFileShutdown ==
  /\ Fault
  /\ Shutdown \notin Range(turnFile)
  /\ turnFile' = Append(turnFile, Shutdown)
  /\ UNCHANGED <<cursor, pc, command, port, replicated, guessed, server,
                 published, crashed, suspected, data>>

--------------------------------------------------------------------------------
(* A node's client thread: receivePendingMessages.                          *)

ReceiveReplicate(n) ==
  /\ at[n] = "receive"
  /\ inbox[n] # << >>
  /\ Head(inbox[n]).code = "REPLICATE"
  /\ inbox' = [inbox EXCEPT ![n] = Tail(@)]
  /\ value' = [value EXCEPT ![n] = Head(inbox[n]).value]
  /\ at' = [at EXCEPT ![n] = "sleep"]
  /\ UNCHANGED <<client, peer, success, late, cluster, data>>

\* ReplManager::sleep() ends and handleMessage starts the round, at a node
\* that need not be the leader any more.  The PREPAREs of a node that the
\* others take for dead are dropped: its round is lost from the start.
WakeUp(n) ==
  /\ at[n] = "sleep"
  /\ n \notin crashed
  /\ at' = [at EXCEPT ![n] = IF n \in suspected THEN "cutOff" ELSE "round"]
  /\ UNCHANGED <<client, peer, inbox, value, success, late, cluster, data>>

\* Enough others answer; majorities as in Consensus.
Majority(n) ==
  Cardinality((Node \ (crashed \cup suspected)) \ {n})
    >= (clusterSize - 1) \div 2

\* The node's consensus thread has counted enough ACCEPTs.  The client thread
\* looks at the count when its sleep is over, whatever happens until then.
MajorityAccepts(n) ==
  /\ at[n] = "round"
  /\ n \notin crashed \cup suspected
  /\ Majority(n)
  /\ at' = [at EXCEPT ![n] = "accepted"]
  /\ UNCHANGED <<client, peer, inbox, value, success, late, cluster, data>>

RoundEnds(n) ==
  /\ at' = [at EXCEPT ![n] = "receive"]
  /\ value' = [value EXCEPT ![n] = NoValue]

\* startConsensus appends the value and broadcasts ACCEPTED, which the nodes
\* that take n for dead drop; handleMessage answers SUCCESS.
RoundReached(n) ==
  LET learners == IF n \in suspected THEN {n} ELSE {n} \cup (Node \ suspected)
  IN
  /\ at[n] = "accepted"
  /\ file' = [m \in Node |-> IF m \in learners
                             THEN Append(file[m], value[n]) ELSE file[m]]
  /\ written' = written \cup {value[n]}
  /\ success' = [success EXCEPT ![n] = TRUE]
  /\ RoundEnds(n)
  /\ UNCHANGED <<client, peer, inbox, late, cluster>>

\* Answers come too late, or cannot come.
NoMajority(n) ==
  IF at[n] = "cutOff" \/ n \in crashed \cup suspected \/ ~ Majority(n)
  THEN UNCHANGED faults
  ELSE Fault

\* Mutant: handleMessage answers whether consensus was reached or not.
RoundFailedAnswers(n) ==
  /\ at[n] \in {"round", "cutOff"}
  /\ NoMajority(n)
  /\ RoundEnds(n)
  /\ success' = [success EXCEPT ![n] = TRUE]
  /\ UNCHANGED <<client, peer, inbox, late, published, crashed, suspected,
                 data>>

\* There is no answer to the client.
RoundFailed(n) ==
  /\ at[n] \in {"round", "cutOff"}
  /\ NoMajority(n)
  /\ RoundEnds(n)
  /\ UNCHANGED <<client, peer, inbox, success, late, published, crashed,
                 suspected, data>>

\* DISCONNECT: both sides leave MPI_Comm_disconnect, and the node accepts
\* again.  The client goes back to the turn file, or tries once more.
Disconnect(n) ==
  LET c == peer[n] IN
  /\ at[n] = "receive"
  /\ inbox[n] # << >>
  /\ Head(inbox[n]).code = "DISCONNECT"
  /\ pc[c] = "disconnect"
  /\ Goes(c, IF replicated[c] THEN "setTurn" ELSE "lookup")
  /\ port' = [port EXCEPT ![c] = NoPort]
  /\ replicated' = [replicated EXCEPT ![c] = FALSE]
  /\ at' = [at EXCEPT ![n] = "accept"]
  /\ peer' = [peer EXCEPT ![n] = NoClient]
  /\ inbox' = [inbox EXCEPT ![n] = Tail(@)]
  /\ success' = [success EXCEPT ![n] = FALSE]
  /\ late' = [late EXCEPT ![n] = FALSE]
  /\ UNCHANGED <<turnFile, cursor, command, guessed, value, cluster, data>>

--------------------------------------------------------------------------------
(* The rest of the cluster.                                                 *)

\* Nodes crash together, the leader among them, when no node is down or under
\* suspicion: what a crash during an election or a readmission does is in
\* Election and Recovery.
Crash(S) ==
  /\ crashed = {}
  /\ suspected = {}
  /\ published \in S
  /\ Fault
  /\ crashed' = S
  /\ UNCHANGED <<client, server, published, suspected, data>>

\* They come back together, too.
Recover ==
  /\ crashed # {}
  /\ crashed' = {}
  /\ late' = [m \in Node |-> late[m] \/ HeldUp(m)]
  /\ UNCHANGED <<client, at, peer, inbox, value, success, published, suspected,
                 faults, data>>

\* The FailureManagers of the running nodes have noticed the silence.
Suspect(n) ==
  /\ n \in crashed \ suspected
  /\ ~ Node \subseteq crashed
  /\ suspected' = suspected \cup {n}
  /\ UNCHANGED <<client, server, published, crashed, faults, data>>

\* The highest of the nodes that are left wins the election.
enableClientConn(n) ==
  LET electable == Node \ (crashed \cup suspected) IN
  /\ published \in suspected
  /\ n \in electable
  /\ \A m \in electable : m <= n
  /\ published' = n
  /\ UNCHANGED <<client, server, crashed, suspected, faults, data>>

\* Mutant: the STATE is appended to the file.
ReadmitAppends(n) ==
  /\ n \in suspected \ crashed
  /\ published \notin suspected \cup crashed
  /\ at[published] = "accept"
  /\ at[n] # "sleep"
  /\ suspected' = suspected \ {n}
  /\ file' = [file EXCEPT ![n] = @ \o file[published]]
  /\ UNCHANGED <<client, server, published, crashed, faults, written>>

\* The leader readmits n while it has no client (clientConnMutex), and n takes
\* over its file.  This takes seconds: n's client thread, if it was blocked,
\* has gone on.
Readmit(n) ==
  /\ n \in suspected \ crashed
  /\ published \notin suspected \cup crashed
  /\ at[published] = "accept"
  /\ at[n] # "sleep"
  /\ suspected' = suspected \ {n}
  /\ file' = [file EXCEPT ![n] = file[published]]
  /\ UNCHANGED <<client, server, published, crashed, faults, written>>

--------------------------------------------------------------------------------
ClientStep(c) ==
  \/ Start(c)
  \/ waitForTurn(c)
  \/ lookupServerPort(c)
  \/ Connect(c)
  \/ ReceiveSuccess(c)
  \/ TimeOut(c)
  \/ setTurn(c)

ServerStep(n) ==
  \/ ReceiveReplicate(n)
  \/ WakeUp(n)
  \/ MajorityAccepts(n)
  \/ RoundReached(n)
  \/ RoundFailed(n)
  \/ Disconnect(n)

ClusterStep(n) ==
  \/ Suspect(n)
  \/ enableClientConn(n)
  \/ Readmit(n)

Next ==
  \/ \E c \in Client : ClientStep(c) \/ ConnectTimesOut(c)
  \/ \E n \in Node : ServerStep(n) \/ ClusterStep(n)
  \/ \E S \in Outages : Crash(S)
  \/ Recover
  \/ TurnFileShutdown

Spec == Init /\ [][Next]_vars

\* Processes and threads that can run do, and the nodes that are left elect a
\* leader.  Nobody is bound to be readmitted: see Readmitted in Recovery.
Fairness ==
  /\ WF_vars(\E c \in Client : ClientStep(c))
  /\ WF_vars(\E n \in Node : ServerStep(n))
  /\ WF_vars(\E n \in Node : Suspect(n) \/ enableClientConn(n))

FairSpec == Spec /\ Fairness

\* The operator brings every crashed node back.
RecoveringSpec == FairSpec /\ WF_vars(Recover)

--------------------------------------------------------------------------------
(* Properties.                                                              *)

TurnsHold == Shutdown \notin Range(turnFile)

(****************************************************************************)
(* Until "shutdown" is written, one client at a time is between             *)
(* waitForTurn and setTurn.                                                 *)
(****************************************************************************)
TurnsExclude ==
  TurnsHold => \A c, d \in Client : Working(c) /\ Working(d) => c = d

(****************************************************************************)
(* So no connect ever meets a node that is busy, with another client or     *)
(* with what it has left of a request of this one, and no client has to     *)
(* exit with MPI_ERR_PORT: what the turn file was introduced for            *)
(* (doc.tex:99-104).                                                        *)
(****************************************************************************)
NoConnectFails == TurnsHold => \A c \in Client : pc[c] # "exited"

\* Why: the client at work has read the file to its end, where its own turn is,
\* and whose turn was before has read beyond it.
TurnInv ==
  TurnsHold =>
    /\ \A c \in Client :
         Working(c) => cursor[c] = Len(turnFile) /\ turnFile[cursor[c]] = c
    /\ \A i \in 1 .. Len(turnFile) - 1 : i <= cursor[turnFile[i]]

\* When a command's turn is, counted from 0.
TurnOf(line) == (line[2] - 1) * ClientCount + line[1]

(****************************************************************************)
(* Every log file has the clients' commands in the order of their turns: a  *)
(* request that a "crashed" node held and served late, and the retry of its *)
(* client at a new leader, repeat a line at worst, and never after a later  *)
(* one.                                                                     *)
(****************************************************************************)
LogFollowsTurns ==
  TurnsHold =>
    \A n \in Node : \A i \in 1 .. Len(file[n]) - 1 :
      TurnOf(file[n][i]) <= TurnOf(file[n][i + 1])

(****************************************************************************)
(* After "shutdown" the turns are gone and clients queue up in connect, but *)
(* the commands of one client stay in the order of its file.                *)
(****************************************************************************)
ClientOrder ==
  \A n \in Node : \A i, j \in DOMAIN file[n] :
    i < j /\ file[n][i][1] = file[n][j][1] => file[n][i][2] <= file[n][j][2]

(****************************************************************************)
(* Without outages and failed rounds nothing is sent twice and nothing is   *)
(* left out: the wait for the answer is long enough, and the log is the     *)
(* commands in the order of their turns, each exactly once.                 *)
(****************************************************************************)
ExactlyOnce ==
  faults = 0 =>
    \A n \in Node : \A i \in DOMAIN file[n] : TurnOf(file[n][i]) = i - 1

(****************************************************************************)
(* A client goes on to its next command only if the command was written, or *)
(* its wait timed out and the code it then read happened to be SUCCESS.     *)
(****************************************************************************)
NothingSkipped ==
  \A c \in Client : \A k \in 1 .. command[c] - 1 :
    <<c, k>> \in written \cup guessed

\* Why: a node that is not accepting serves one client, which waits for it or
\* for the end of the connection; what the node has of it is its command.
Current(c) == <<c, command[c]>>

Serves(n, c) ==
  /\ c \in Client
  /\ pc[c] \in {"await", "disconnect"}
  /\ port[c] = n
  /\ \A k \in DOMAIN inbox[n] :
       /\ inbox[n][k].value = Current(c)
       /\ inbox[n][k].code = "DISCONNECT"
            => pc[c] = "disconnect" /\ k = Len(inbox[n])
  /\ at[n] # "receive" => value[n] = Current(c)
  /\ success[n] => Current(c) \in written

NodesServe ==
  \A n \in Node :
    IF at[n] = "accept"
    THEN inbox[n] = << >> /\ ~ success[n]
    ELSE Serves(n, peer[n])

ClientsAreServed ==
  \A c \in Client :
    /\ pc[c] \in {"connect", "await", "disconnect"} => port[c] \in Node
    /\ pc[c] \in {"await", "disconnect"}
         => at[port[c]] # "accept" /\ peer[port[c]] = c

GoesOnRightly ==
  \A c \in Client :
    /\ pc[c] = "init" => command[c] = 0
    /\ pc[c] = "setTurn" \/ (pc[c] = "disconnect" /\ replicated[c])
         => Current(c) \in written \cup guessed

ServiceInv ==
  /\ NodesServe
  /\ ClientsAreServed
  /\ GoesOnRightly
  /\ NothingSkipped

(****************************************************************************)
(* "This function exists only once all random commands of the clients have  *)
(* been replicated on the server" (client.hh:49-50): when a client is done, *)
(* the leader's file has every command it was not misled about by an        *)
(* uninitialized code.                                                      *)
(****************************************************************************)
CommandsAreReplicated ==
  \A c \in Client :
    pc[c] = "done"
      => {c} \X (1 .. CommandCount) \subseteq Range(file[published]) \cup guessed

(****************************************************************************)
(* Every client gets through its command file: timeouts, retries, changes   *)
(* of leader and the end of the turns leave nobody waiting, provided that   *)
(* crashed nodes come back and no two are down together (two that come back *)
(* together may keep each other from being readmitted, see RecoveryLivelock,*)
(* and a majority with them).  A client that exits in connect passes no     *)
(* turn on; until "shutdown" none does, by NoConnectFails.                  *)
(****************************************************************************)
OneAtATime  == Cardinality(crashed) <= 1
NobodyExits == \A c \in Client : pc[c] # "exited"

EveryClientFinishes ==
  [](OneAtATime /\ NobodyExits) => <>(\A c \in Client : pc[c] = "done")
================================================================================
