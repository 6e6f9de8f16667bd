------------------------------- MODULE Recovery --------------------------------
(****************************************************************************)
(* The FailureManager (src/src/manager/failure-manager.cc) under one        *)
(* leader: heartbeats between all nodes, suspicion, and the state transfer  *)
(* that readmits a follower that was "crashed" and has come back.  The      *)
(* leader's client thread writes lines meanwhile (Consensus has the         *)
(* protocol of a round; here a round is one step) and excludes the state    *)
(* transfer through clientConnMutex.                                        *)
(*                                                                          *)
(* Threads:                                                                 *)
(*   - the ping thread of every node (pingCheck); pos says how far it is in *)
(*     its loop, since every entry of the tables is checked under a lock of *)
(*     its own and the threads it spawns run in between;                    *)
(*   - the failure thread of every node, which handles messages and which   *)
(*     ReplManager::sleep() blocks while the node is "crashed";             *)
(*   - the threads pingCheck spawns: handleNodeFailure, handleNodeRecovery; *)
(*   - the leader's client thread.                                          *)
(*                                                                          *)
(* Time is counted in loops of the ping thread (LOOP_SLEEP_DURATION, half a *)
(* second), and passes only when no thread has anything to do and no node   *)
(* has a message to handle: messages and handlers are fast next to half a   *)
(* second.  Within a loop everything happens in any order.                  *)
(****************************************************************************)
EXTENDS Messenger, FiniteSets, SequencesExt

CONSTANTS
  Leader,            \* m_leaderNodeId of every node; it never crashes
  TIMEOUT_DURATION,  \* in seconds, as in the code
  RECOVERY_DURATION, \* in seconds
  LoopsPerSecond,    \* loops of the ping thread in a second: 2 in the code
  Crashable,         \* the followers that may crash and come back
  MaxCrashes,        \* bound on how often they do
  MaxClients,        \* bound on the number of client connections
  MaxRecoveries      \* bound on the recovery threads waiting at one time

ASSUME RecoveryAssumption ==
  /\ Leader \in Node
  /\ {TIMEOUT_DURATION, RECOVERY_DURATION, LoopsPerSecond} \subseteq Nat \ {0}
  /\ Crashable \subseteq Node \ {Leader}
  /\ {MaxCrashes, MaxClients, MaxRecoveries} \subseteq Nat

Follower == Node \ {Leader}
Line     == 1 .. MaxClients   \* one line at most for every connection

MaxAge == LoopsPerSecond * (TIMEOUT_DURATION + 1)

VARIABLES
  crashed,         \* m_shouldBlock of the ReplManager, after the start
  crashes,         \* how many crashes there have been
  replAsleep,      \* nodes whose ReplManager sleeps after a RECOVER
  age,             \* age[n][m]: loops since timeStamps[m] of n, at most MaxAge
  pinged,          \* pinged[n]: the nodes with a PING waiting for n
  isAlive,         \* FailureManager::Context::isAlive
  processIsAlive,  \* Messenger::m_processIsAlive
  pos,             \* where the ping thread is
  failing,         \* <<n, m>>: handleNodeFailure of n for m has been spawned
  net,             \* channels of the FAILURE_DETECTION tag, PINGs aside
  now, loop,       \* the current second, and the loop within it
  curRecoveryId,   \* of the leader
  starting,        \* the nodes handleNodeRecovery has been spawned for
  waiters,         \* recovery threads that wait for clientConnMutex
  holder,          \* the recovery thread that has it, or NoHolder
  updating,        \* the follower whose STATE_UPDATED has just been found
                   \* right, -1 if none
  client,          \* where the leader's client thread is
  clients,         \* how many connections there have been
  log,             \* the log files
  lines            \* lines[f]: ACCEPTED messages on their way to f

heartbeat == <<crashed, crashes, replAsleep, age, pinged, pos>>
tables    == <<isAlive, processIsAlive, failing>>
time      == <<now, loop>>
recovery  == <<curRecoveryId, starting, waiters, holder, updating>>
clientThread == <<client, clients>>
files     == <<log, lines>>

vars == <<heartbeat, tables, net, time, recovery, clientThread, files>>

\* After its last PING the thread waits for the next loop, or ReplManager's
\* sleep() blocks it first.
Waiting == clusterSize
Blocked == clusterSize + 1

NoHolder == [node |-> -1, id |-> -1, left |-> -1]

(****************************************************************************)
(* clientConnMutex is held by a recovery thread, by the client thread from  *)
(* disallowRecovery to allowRecovery, or by nobody.                         *)
(****************************************************************************)
MutexIsFree == holder = NoHolder /\ client = "none"

--------------------------------------------------------------------------------
(* Recovery ids are the seconds of setMessage.  They are only ever compared *)
(* for equality, so a second is named by a number nobody holds any more.    *)

UsedIds ==
       {curRecoveryId, holder.id}
  \cup {waiters[j].id : j \in DOMAIN waiters}
  \cup (UNION {{net[Leader][f][j].id : j \in {k \in DOMAIN net[Leader][f] :
                                      net[Leader][f][k].code = "STATE"}}
               : f \in Follower})
  \cup (UNION {{net[f][Leader][j].id : j \in DOMAIN net[f][Leader]}
               : f \in Follower})

NextSecond == Min((0 .. Cardinality(UsedIds)) \ UsedIds)

Message ==
       [code : {"STATE"}, id : Nat, state : Seq(Line)]
  \cup [code : {"STATE_UPDATED"}, id : Nat]
  \cup [code : {"RECOVERED"}, node : Node]

TypeOK ==
  /\ crashed \in [Node -> BOOLEAN]
  /\ crashes \in 0 .. MaxCrashes
  /\ replAsleep \subseteq Follower
  /\ age \in [Node -> [Node -> 0 .. MaxAge]]
  /\ pinged \in [Node -> SUBSET Node]
  /\ isAlive \in [Node -> [Index -> BOOLEAN]]
  /\ processIsAlive \in [Node -> [Index -> BOOLEAN]]
  /\ pos \in [Node -> 0 .. Blocked]
  /\ failing \subseteq Node \X Node
  /\ net \in [Node -> [Node -> Seq(Message)]]
  /\ now \in Nat
  /\ loop \in 0 .. LoopsPerSecond - 1
  /\ curRecoveryId \in Nat \cup {-1}
  /\ starting \subseteq Follower
  /\ waiters \in Seq([node : Follower, id : Nat])
  /\ holder \in [node : Follower, id : Nat,
                 left : 0 .. RECOVERY_DURATION * LoopsPerSecond] \cup {NoHolder}
  /\ updating \in Follower \cup {-1}
  /\ client \in {"none", "connected", "ready", "served", "done"}
  /\ clients \in 0 .. MaxClients
  /\ log \in [Node -> Seq(Line)]
  /\ lines \in [Node -> Seq(Line)]

Init ==
  /\ crashed = [n \in Node |-> FALSE]
  /\ crashes = 0
  /\ replAsleep = {}
  /\ age = [n \in Node |-> [m \in Node |-> 0]]
  /\ pinged = [n \in Node |-> {}]
  /\ isAlive = AllAlive
  /\ processIsAlive = AllAlive
  /\ pos = [n \in Node |-> Waiting]
  /\ failing = {}
  /\ net = EmptyChannels
  /\ now = 0
  /\ loop = 0
  /\ curRecoveryId = -1
  /\ starting = {}
  /\ waiters = << >>
  /\ holder = NoHolder
  /\ updating = -1
  /\ client = "none"
  /\ clients = 0
  /\ log = [n \in Node |-> << >>]
  /\ lines = [n \in Node |-> << >>]

--------------------------------------------------------------------------------
(* The ping thread: pingCheck.                                              *)

elapsed(n, m) == age[n][m] \div LoopsPerSecond

\* Mutant: the recovery thread takes the index of the entry for the node's id.
checkTimeStampsUnshifted(n) ==
  /\ pos[n] \in Index
  /\ LET m     == indexToId(n, pos[n])
         alive == isAlive[n][pos[n]]
     IN /\ failing' = IF alive /\ elapsed(n, m) > TIMEOUT_DURATION
                      THEN failing \cup {<<n, m>>} ELSE failing
        /\ starting' = IF /\ ~ alive
                          /\ elapsed(n, m) < TIMEOUT_DURATION
                          /\ curRecoveryId = -1
                          /\ n = Leader
                       THEN starting \cup {pos[n]} ELSE starting
  /\ pos' = [pos EXCEPT ![n] = @ + 1]
  /\ UNCHANGED <<crashed, crashes, replAsleep, age, pinged, isAlive,
                 processIsAlive, net, time, curRecoveryId, waiters, holder,
                 updating, clientThread, files>>

\* One iteration of checkTimeStamps: the entry of m in n's tables.
checkTimeStamps(n) ==
  /\ pos[n] \in Index
  /\ LET m     == indexToId(n, pos[n])
         alive == isAlive[n][pos[n]]
     IN /\ failing' = IF alive /\ elapsed(n, m) > TIMEOUT_DURATION
                      THEN failing \cup {<<n, m>>} ELSE failing
        /\ starting' = IF /\ ~ alive
                          /\ elapsed(n, m) < TIMEOUT_DURATION
                          /\ curRecoveryId = -1
                          /\ n = Leader
                          /\ Len(waiters) < MaxRecoveries
                       THEN starting \cup {m} ELSE starting
  /\ pos' = [pos EXCEPT ![n] = @ + 1]
  /\ UNCHANGED <<crashed, crashes, replAsleep, age, pinged, isAlive,
                 processIsAlive, net, time, curRecoveryId, waiters, holder,
                 updating, clientThread, files>>

\* Mutant: PINGs are dropped like the messages of the other tags.
broadcastPingToAlive(n) ==
  /\ pos[n] = clusterSize - 1
  /\ age' = [m \in Node |->
               IF m # n /\ ~ crashed[m] /\ processIsAlive[n][idToIndex(n, m)]
               THEN [age[m] EXCEPT ![n] = 0] ELSE age[m]]
  /\ pinged' = [m \in Node |->
                  IF m # n /\ crashed[m] /\ processIsAlive[n][idToIndex(n, m)]
                  THEN pinged[m] \cup {n} ELSE pinged[m]]
  /\ pos' = [pos EXCEPT ![n] = IF crashed[n] THEN Blocked ELSE Waiting]
  /\ UNCHANGED <<crashed, crashes, replAsleep, tables, net, time, recovery,
                 clientThread, files>>

(****************************************************************************)
(* broadcastPing, and handlePing of the nodes whose failure thread runs;    *)
(* for the others the PING waits.  Then the loop begins again.              *)
(****************************************************************************)
broadcastPing(n) ==
  /\ pos[n] = clusterSize - 1
  /\ age' = [m \in Node |->
               IF m # n /\ ~ crashed[m] THEN [age[m] EXCEPT ![n] = 0]
               ELSE age[m]]
  /\ pinged' = [m \in Node |->
                  IF m # n /\ crashed[m] THEN pinged[m] \cup {n} ELSE pinged[m]]
  /\ pos' = [pos EXCEPT ![n] = IF crashed[n] THEN Blocked ELSE Waiting]
  /\ UNCHANGED <<crashed, crashes, replAsleep, tables, net, time, recovery,
                 clientThread, files>>

(****************************************************************************)
(* The thread of a detected failure.  (If m were the leader it would start  *)
(* an election: Election has that, and LeaderIsHeard says it is not.)       *)
(****************************************************************************)
handleNodeFailure(n, m) ==
  /\ <<n, m>> \in failing
  /\ failing' = failing \ {<<n, m>>}
  /\ isAlive' = [isAlive EXCEPT ![n][idToIndex(n, m)] = FALSE]
  /\ processIsAlive' = setNodeStatus(processIsAlive, n, idToIndex(n, m), FALSE)
  /\ UNCHANGED <<heartbeat, net, time, recovery, clientThread, files>>

--------------------------------------------------------------------------------
(* The thread of a detected recovery: handleNodeRecovery, on the leader.    *)

SetRecoveryId(m) ==
  /\ m \in starting
  /\ starting' = starting \ {m}
  /\ curRecoveryId' = now
  /\ waiters' = Append(waiters, [node |-> m, id |-> now])
  /\ UNCHANGED <<heartbeat, tables, net, time, holder, updating, clientThread,
                 files>>

\* Mutant: the log is read and sent while a client is connected.
SendStateUnlocked(j) ==
  /\ holder = NoHolder
  /\ LET w == waiters[j] IN
     /\ holder' = [node |-> w.node, id |-> w.id,
                   left |-> RECOVERY_DURATION * LoopsPerSecond]
     /\ net' = send(net, processIsAlive, Leader, w.node, "FAILURE_DETECTION",
                    [code |-> "STATE", id |-> w.id, state |-> log[Leader]])
  /\ waiters' = RemoveAt(waiters, j)
  /\ UNCHANGED <<heartbeat, tables, time, curRecoveryId, starting, updating,
                 clientThread, files>>

\* The lock is taken, the log read and sent, and RECOVERY_DURATION begins.
SendState(j) ==
  /\ MutexIsFree
  /\ LET w == waiters[j] IN
     /\ holder' = [node |-> w.node, id |-> w.id,
                   left |-> RECOVERY_DURATION * LoopsPerSecond]
     /\ net' = send(net, processIsAlive, Leader, w.node, "FAILURE_DETECTION",
                    [code |-> "STATE", id |-> w.id, state |-> log[Leader]])
  /\ waiters' = RemoveAt(waiters, j)
  /\ UNCHANGED <<heartbeat, tables, time, curRecoveryId, starting, updating,
                 clientThread, files>>

\* Mutant: the id is left in place.
EndRecoveryKeepsId ==
  /\ holder.left = 0
  /\ holder' = NoHolder
  /\ UNCHANGED <<heartbeat, tables, net, time, curRecoveryId, starting, waiters,
                 updating, clientThread, files>>

EndRecovery ==
  /\ holder.left = 0
  /\ curRecoveryId' = -1
  /\ holder' = NoHolder
  /\ UNCHANGED <<heartbeat, tables, net, time, starting, waiters, updating,
                 clientThread, files>>

--------------------------------------------------------------------------------
(* The failure thread.                                                      *)

Handling(n, src, c) ==
  /\ ~ crashed[n]
  /\ net[src][n] # << >>
  /\ Head(net[src][n]).code = c

\* The node overwrites its file and says so.
handleState(n, src) ==
  /\ Handling(n, src, "STATE")
  /\ log' = [log EXCEPT ![n] = Head(net[src][n]).state]
  /\ net' = send(consume(net, src, n), processIsAlive, n, src,
                 "FAILURE_DETECTION",
                 [code |-> "STATE_UPDATED", id |-> Head(net[src][n]).id])
  /\ UNCHANGED <<heartbeat, tables, time, recovery, clientThread, lines>>

\* Mutant: the answer to any STATE will do.
handleStateUpdateAnyId(n, src) ==
  /\ Handling(n, src, "STATE_UPDATED")
  /\ updating = -1
  /\ updating' = IF n = Leader THEN src ELSE -1
  /\ net' = consume(net, src, n)
  /\ UNCHANGED <<heartbeat, tables, time, curRecoveryId, starting, waiters,
                 holder, clientThread, files>>

(****************************************************************************)
(* The leader compares the ids under curRecoveryIdMutex, and goes on after  *)
(* it has released it.  (It also sends a VICTORY, of the LEADER_ELECTION    *)
(* tag, to a node whose leader it is already.)                              *)
(****************************************************************************)
handleStateUpdate(n, src) ==
  /\ Handling(n, src, "STATE_UPDATED")
  /\ updating = -1
  /\ updating' = IF n = Leader /\ Head(net[src][n]).id = curRecoveryId
                 THEN src ELSE -1
  /\ net' = consume(net, src, n)
  /\ UNCHANGED <<heartbeat, tables, time, curRecoveryId, starting, waiters,
                 holder, clientThread, files>>

enableComm(n, m) ==
  /\ isAlive' = [isAlive EXCEPT ![n][idToIndex(n, m)] = TRUE]
  /\ processIsAlive' = setNodeStatus(processIsAlive, n, idToIndex(n, m), TRUE)

\* broadcastRecovered, then enableComm: the rest of handleStateUpdate.
Readmit ==
  /\ updating # -1
  /\ updating' = -1
  /\ net' = broadcast(net, processIsAlive, Leader, 0, clusterSize,
                      "FAILURE_DETECTION",
                      [code |-> "RECOVERED", node |-> updating])
  /\ enableComm(Leader, updating)
  /\ UNCHANGED <<heartbeat, failing, time, curRecoveryId, starting, waiters,
                 holder, clientThread, files>>

\* The recovered node takes everybody to be just seen, the others readmit it.
handleRecovered(n, src) ==
  /\ Handling(n, src, "RECOVERED")
  /\ LET m == Head(net[src][n]).node IN
     IF m = n
     THEN /\ age' = [age EXCEPT ![n] = [k \in Node |-> 0]]
          /\ UNCHANGED <<isAlive, processIsAlive>>
     ELSE /\ enableComm(n, m)
          /\ UNCHANGED age
  /\ net' = consume(net, src, n)
  /\ UNCHANGED <<crashed, crashes, replAsleep, pinged, pos, failing, time,
                 recovery, clientThread, files>>

--------------------------------------------------------------------------------
(* The client thread of the leader, and the consensus threads of the        *)
(* followers: a round of Consensus in one step.                             *)

\* acceptConnection: accept, then disallowRecovery.
AcceptConnection ==
  /\ MutexIsFree
  /\ clients < MaxClients
  /\ clients' = clients + 1
  /\ client' = "connected"
  /\ UNCHANGED <<heartbeat, tables, net, time, recovery, files>>

\* A round has reached consensus: the append and the ACCEPTED broadcast.
WriteLine ==
  /\ client = "ready"
  /\ client' = "served"
  /\ log' = [log EXCEPT ![Leader] = Append(@, clients)]
  /\ lines' = [f \in Node |->
                 IF f # Leader /\ ~ messageShouldDrop(processIsAlive[Leader],
                                                      Leader, f, "CONSENSUS")
                 THEN Append(lines[f], clients) ELSE lines[f]]
  /\ UNCHANGED <<heartbeat, tables, net, time, recovery, clients>>

\* DISCONNECT, read after the round, whether it wrote a line or not:
\* allowRecovery.
Disconnect ==
  /\ client \in {"ready", "done"}
  /\ client' = "none"
  /\ UNCHANGED <<heartbeat, tables, net, time, recovery, clients, files>>

\* The follower's consensus thread receives an ACCEPTED.
ReceiveAccepted(f) ==
  /\ ~ crashed[f]
  /\ lines[f] # << >>
  /\ log' = IF messageShouldDrop(processIsAlive[f], f, Leader, "CONSENSUS")
            THEN log ELSE [log EXCEPT ![f] = Append(@, Head(lines[f]))]
  /\ lines' = [lines EXCEPT ![f] = Tail(@)]
  /\ UNCHANGED <<heartbeat, tables, net, time, recovery, clientThread>>

--------------------------------------------------------------------------------
(* Crashes, and time.                                                       *)

NothingWaits(n) == lines[n] = << >> /\ \A src \in Node : net[src][n] = << >>

\* The ReplManager has read CRASH.
Crash(f) ==
  /\ f \in Crashable
  /\ ~ crashed[f]
  /\ f \notin replAsleep
  /\ crashes < MaxCrashes
  /\ crashes' = crashes + 1
  /\ crashed' = [crashed EXCEPT ![f] = TRUE]
  /\ UNCHANGED <<replAsleep, age, pinged, pos, tables, net, time, recovery,
                 clientThread, files>>

\* It has read RECOVER.  The threads go on; the PINGs that wait are handled,
\* and the ping thread sleeps for a loop before it looks at the tables.
Recover(f) ==
  /\ crashed[f]
  /\ crashed' = [crashed EXCEPT ![f] = FALSE]
  /\ replAsleep' = replAsleep \cup {f}
  /\ age' = [age EXCEPT ![f] =
               [m \in Node |-> IF m \in pinged[f] THEN 0 ELSE @[m]]]
  /\ pinged' = [pinged EXCEPT ![f] = {}]
  /\ pos' = [pos EXCEPT ![f] = IF @ = Blocked THEN Waiting ELSE @]
  /\ UNCHANGED <<crashes, tables, net, time, recovery, clientThread, files>>

\* It sleeps for a tenth of a second before it reads the next line: the
\* messages that waited have been handled by then.
ReplWakes(f) ==
  /\ f \in replAsleep
  /\ NothingWaits(f)
  /\ replAsleep' = replAsleep \ {f}
  /\ UNCHANGED <<crashed, crashes, age, pinged, pos, tables, net, time,
                 recovery, clientThread, files>>

\* No thread has anything to do.
Quiet ==
  /\ \A n \in Node : pos[n] \in {Waiting, Blocked}
  /\ failing = {}
  /\ starting = {}
  /\ waiters = << >> \/ ~ MutexIsFree
  /\ holder.left # 0
  /\ updating = -1
  /\ \A n \in Node : crashed[n] \/ NothingWaits(n)

(****************************************************************************)
(* Half a second.  The waits of a round, before the line is written and     *)
(* after it, are at least that long.                                        *)
(****************************************************************************)
Tick ==
  /\ Quiet
  /\ age' = [n \in Node |-> [m \in Node |->
               IF n # m /\ age[n][m] < MaxAge THEN age[n][m] + 1 ELSE age[n][m]]]
  /\ pos' = [n \in Node |-> IF pos[n] = Waiting THEN 0 ELSE pos[n]]
  /\ loop' = (loop + 1) % LoopsPerSecond
  /\ now' = IF loop' = 0 THEN NextSecond ELSE now
  /\ holder' = IF holder = NoHolder THEN holder
               ELSE [holder EXCEPT !.left = @ - 1]
  /\ client' = CASE client = "connected" -> "ready"
                 [] client = "served"    -> "done"
                 [] OTHER                -> client
  /\ replAsleep' = {}
  /\ UNCHANGED <<crashed, crashes, pinged, tables, net, curRecoveryId, starting,
                 waiters, updating, clients, files>>

--------------------------------------------------------------------------------
Threads ==
  \/ \E n \in Node : checkTimeStamps(n) \/ broadcastPing(n)
  \/ \E n, m \in Node : handleNodeFailure(n, m)
  \/ \E f \in Follower : SetRecoveryId(f)
  \/ \E j \in DOMAIN waiters : SendState(j)
  \/ EndRecovery
  \/ \E n, src \in Node : \/ handleState(n, src)
                          \/ handleStateUpdate(n, src)
                          \/ handleRecovered(n, src)
  \/ Readmit
  \/ \E f \in Follower : ReceiveAccepted(f)
  \/ Tick

Environment ==
  \/ \E f \in Follower : Crash(f) \/ Recover(f) \/ ReplWakes(f)
  \/ AcceptConnection
  \/ WriteLine
  \/ Disconnect

Next == Threads \/ Environment

Spec == Init /\ [][Next]_vars

\* Threads run, time passes, and a client disconnects: it waits no longer than
\* RESPONSE_WAIT_DURATION.
FairSpec == Spec /\ WF_vars(Threads) /\ WF_vars(Disconnect)

--------------------------------------------------------------------------------
(* Properties.                                                              *)

Admitted(f) == processIsAlive[Leader][idToIndex(Leader, f)]

(****************************************************************************)
(* A follower the leader talks to misses no line: each line of the leader's *)
(* file is in its file or under way to it.  So whatever rounds, crashes,    *)
(* late answers and second recoveries went on around its state transfer, a  *)
(* node is readmitted with nothing to catch up on.                          *)
(****************************************************************************)
AdmittedMissesNothing ==
  \A f \in Follower :
    Admitted(f) => Range(log[Leader]) \subseteq Range(log[f] \o lines[f])

(****************************************************************************)
(* More: what it has written and what is under way to it make the leader's  *)
(* file exactly.  ("STATE ... the node simply overwrites the log data",     *)
(* when "there is no current active client connection (which by extension   *)
(* means that the log will not change from this point on)".)                *)
(****************************************************************************)
AdmittedIsCurrent ==
  \A f \in Follower : Admitted(f) => log[f] \o lines[f] = log[Leader]

(****************************************************************************)
(* It is so for a node that comes back from its first crash: the lines it   *)
(* was sent before it was suspected are written half a second before the    *)
(* STATE can come, and none is written while the state is transferred.      *)
(****************************************************************************)
FirstRecoveryIsExact == crashes <= 1 => AdmittedIsCurrent

(****************************************************************************)
(* No follower ever suspects the leader, which has not stopped: neither a   *)
(* slow loop nor the stale time stamps of a node that comes back make it    *)
(* start an election.                                                       *)
(****************************************************************************)
LeaderIsHeard ==
  \A f \in Follower : /\ <<f, Leader>> \notin failing
                      /\ processIsAlive[f][idToIndex(f, Leader)]

(****************************************************************************)
(* Every follower that stays up is readmitted in the end: "RECOVERED: ...   *)
(* broadcasted to all nodes when the node having issued the STATE code      *)
(* receives a STATE_UPDATED from the recovering node".                      *)
(****************************************************************************)
Readmitted ==
  <>[](\A f \in Follower : crashed[f] \/ Admitted(f))
================================================================================
