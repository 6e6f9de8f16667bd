# A TLA+ model of the log-replicating server

The repository is a server of MPI processes that replicate a log: a client
connects to the elected leader and asks it to write a line, the leader runs a
Paxos-like round, writes the line to its file and makes the others write it.
The nodes watch each other by heartbeats; "crashes" are simulated, by blocking
the threads of a node on a command.  This directory models the program's
protocols, checks them with TLC on small clusters, and proves most of what is
checked about their safety with TLAPS, for every cluster.

## 1. Inventory

| Component (under `src/src`) | State it keeps | Operations | Talks to |
|---|---|---|---|
| `Messenger` | table of live peers `m_processIsAlive` | send, broadcast, receive by tag, drop rule, `setNodeStatus`, ids, ports | all managers |
| `MessageReceiver`, `ReceiverManager`, `Node` | one thread per tag, `isActive` | receive loop, start, stop, join | managers |
| `ElectionManager` | `m_leaderNodeId`, `m_aliveReceived`, `m_start`, trigger and `aliveWait` threads | `startElection`, ELECTION, ALIVE, VICTORY | FailureManager starts it, ClientManager publishes the port |
| `ConsensusManager` | `maxRoundId`, `Context` (round, promises, accepts, accepted value) | `startConsensus` on the client thread; PREPARE, PROMISE, PROPOSE, ACCEPT, ACCEPTED on the consensus thread | LogFileManager |
| `FailureManager` | `timeStamps`, `isAlive`, `curRecoveryId`, `clientConnMutex`, ping and recovery threads | `pingCheck`, PING, STATE, STATE_UPDATED, RECOVERED, `allowRecovery`, `disallowRecovery` | Messenger's table, ElectionManager, LogFileManager, ClientManager |
| `LogFileManager` | the log file | append, replace, read | |
| `ReplManager` | `m_shouldBlock`, `m_speed` | START, CRASH, RECOVER, speeds, shutdown; `sleep` in every loop | all threads |
| `ClientManager` | port, client connection | accept, REPLICATE, DISCONNECT, shutdown ring | ConsensusManager, FailureManager |
| `Client` | command file, turn file shared by all clients | wait for the turn, connect, send, wait, retry, disconnect, pass the turn | ClientManager |
| `Message`, `message-info` | code, id, data | (de)serialization | Messenger |

What is hard: two to five threads per node share contexts that are locked for a
few lines at a time, and a handler that needs two facts takes them under two
locks; every wait is a fixed sleep, so answers of one round arrive in another;
ids are whole seconds; a message is sent, dropped or kept according to tables
that change in between; a "crashed" node only stops receiving, and finds its
queues full when it wakes; the recovery of a node runs against the clients, and
against other recoveries.  The hazards are listed in `PROJECT.json`, each at its
line.

What makes each part correct:

* *Consensus*: counts are counts of the current round; a proposer that goes on
  has a majority; the value written is the one accepted; the followers' files
  are prefixes of the leader's; each line gets to each reachable follower.
* *Election*: only the highest live node declares itself; everybody ends up with
  it; no node waits forever.
* *Failure handling*: a live leader is not suspected; a node that comes back is
  readmitted, with the leader's log, no line missing or doubled.
* *Clients*: one client at a time talks to the server; no command is passed over
  or written out of order, whatever is retried or served late; every client gets
  through its file.
* *Shutdown*: the ring reaches every node once, over ports that are open; no
  thread is left that uses what `Node::init` owns; every process exits.

## 2. Modules

| Module | What it is |
|---|---|
| `Messenger` | channels, drop rule, tables with an entry for every node but the owner (operators only) |
| `Consensus` | the ConsensusManager: two threads per node, any set of proposers |
| `ReplicatedLog` | abstract specification: a log that is written, replicas that copy its next line |
| `SingleLeader` | Consensus with one proposer; refinement mapping to `ReplicatedLog`; the inductive invariant |
| `Election` | the ElectionManager, with time and a crash |
| `Recovery` | the FailureManager under one leader: heartbeats, suspicion, state transfer |
| `Clients` | Client and ClientManager: turns, connections, requests, retries, with an abstract round, election and readmission |
| `Shutdown` | the end of ReplManager and ClientManager, ReceiverManager and Node: stops, the ring, joins |
| `ConsensusProofs`, `ConsensusSafetyProofs` | theorems about `Consensus`: types; promises, majorities, rounds |
| `SingleLeaderProofs` | theorems about `SingleLeader`: replication, refinement |
| `ElectionProofs` | theorems about `Election`: types, waits, the winner |
| `RecoveryProofs` | theorems about `Recovery`: types, the leader is not suspected, what a readmitted node has |
| `ClientsProofs`, `ClientsOrderProofs` | theorems about `Clients`: turns, connects, skipped commands; what is in the files |
| `ShutdownProofs` | theorems about `Shutdown`: the ring, the threads |
| `MCConsensus`, `MCSingleLeader`, `MCElection`, `MCRecovery`, `MCClients` | constants for TLC (`Shutdown` has none) |

Actions carry the names of the functions they model.  Operators introduced by
the comment `Mutant` are wrong variants of the definition that follows them: the
properties are checked to fail when the definition is replaced by the variant.

**Messenger.** MPI keeps the messages of one sender, receiver and tag in order
and loses none, so the traffic of a tag is one sequence for each ordered pair of
nodes.  The program drops messages itself: the sender's table is consulted on
sending, the receiver's on receiving; the FAILURE_DETECTION tag is exempt.
A message to oneself is never dropped.

**Consensus.** `phase` is where the client thread is in `startConsensus`,
`handling` the message the consensus thread has received and not yet handled
(the drop decision is then already made), `context` and `maxRoundId` the shared
state.  Every critical section is a step; a broadcast belongs to the step before
it, because a message may arrive any time later anyway, and the append and the
context reset of `handleAcceptedMessage` are one step.  The waits may end at any
moment, so all early, late and missing answers are covered.  `clock` is the
second ids are made of; `RoundDuration` is how long a round takes at least, and
bounds how soon a proposer can draw the next id.  An ACCEPTED carries the number
`pos` of its line as a history variable; no action reads it.  The value of a line
is opaque.  `SetNodeStatus` stands for the FailureManager.

**Election.** Trigger threads and `aliveWait` threads are counted by where they
are in their code, since several of each may be running.  Seconds pass only when
no thread has anything to do: handlers and messages are fast next to the waits
of 2 and 4 seconds.  A node receives and handles a message in one step.  At most
one node crashes, and it does not come back (`Recovery` has that).  Trigger
threads of a crashed node go on, as in the code.  `DetectionSkew` is how far apart nodes
notice the failure.  `midway` remembers that the crash came during an election:
what the code promises of the winner holds only if it did not.

**Recovery.** Time is counted in loops of the ping thread (half a second), again
passing only when nothing can run.  `age` is how long ago a node was seen,
`pos` which entry of its tables a ping thread checks next, `starting`, `waiters`
and `holder` are the recovery threads before they set `curRecoveryId`, while
they wait for `clientConnMutex`, and while they hold it.  PINGs are handled at
once by running nodes and wait for the others.  Recovery ids are only compared,
so a second is renamed to the least number not in use.  A round of consensus is
one step (`WriteLine`) with at least a tick before it and after it, which is less than the
code's sleeps.  The leader is fixed and never crashes, so the VICTORY of `handleStateUpdate`
changes nothing and is left out.  `isAlive` and the messenger's table are
changed in one step.  ReplManager reads one command in a tenth of a second
(`startReceiver`), so after a RECOVER it sleeps (`replAsleep`) until the messages
that waited are handled (`ReplWakes`) and only then reads the next CRASH; this is
so at full speed, slower ones are not modelled.  A RECOVER may follow a CRASH at
once, which is more than the code allows.

**Clients.** A client is one process, `pc` where it is in `replicateCommands`; `at`
is where the client thread of a node is.  The turn file only grows, and each
client has read a prefix of it (`cursor`), since `replicateCommands` opens it
once.  A round of `Consensus` is three steps of the node that serves: the
request is received and held while the node is "crashed" (`sleep`), the ACCEPTs
are counted (`accepted`) and, after the fixed sleep and whatever happened in it,
the line is written and the client answered.  A node the others take for dead
gets no answers.  The election of the next leader and the readmission of a node
(the whole recovery of `Recovery`, under `clientConnMutex`) are one step each.
There is no clock; guards say what the durations rule out: a round takes 13
seconds and the client waits for 40, so a client times out only if its round
failed, its answer can no longer come, or the node was "crashed" for long, and
the latter is noticed after one second by the nodes that run.  Nodes crash together
and only when nothing else is wrong, because a crash during an election or a
recovery is the subject of other modules, and with the leader: that of a follower
alone is in `Recovery`.  Nodes that come back together are readmitted one by one
or not at all, as `RecoveryLivelock` shows; that they may suspect each other is
not modelled.  An MPI connection is external: connect
meets accept, disconnect is collective, and a connect without a pending accept
waits for it or ends the client with MPI_ERR_PORT (`ConnectTimesOut`), which
`doc.tex:85-102` finds left to the MPI implementation.  The code compares an answer that
was not received with SUCCESS: the outcome is either (`TimeOut`), and `guessed`
remembers the commands that were lost to it.  `written` is a history variable,
too.  Clients are never "crashed".

**Shutdown.** It begins with the program, because the ports go round then:
`mail` and `nextNodePort` are `exchangePorts`.  The three receivers REPL stops
each get their SHUTDOWN and leave in any order, but have nothing to do with each
other, so each of these is one step per node; so are the five waits of the main
thread, as what one has waited for stays true during the next.  REPL and CLIENT
are never taken off `active`, so they are joined.  The nodes that are "crashed"
when the shutdown comes may hold any node for the leader, the others agree
(`Election`).  A connect to a port that is closed never succeeds.

## 3. Runs

All runs use small clusters; the constants of the code (`TIMEOUT_DURATION`,
`RECOVERY_DURATION`, `ELECTION_WAIT_DURATION`, two loops a second) have their
values of the code.

| Run | Instance | Shows |
|---|---|---|
| `TwoProposers` | 3 nodes, 2 proposers, 2 seconds | honest promise counts, majorities, proposers write first, a reset context is not accepted |
| `SingleLeader` | 3 nodes, 1 leader, 2 rounds, suspicions any time | prefix property, lines in transit, implementation of `ReplicatedLog` |
| `Replication` | the same, one round, fairness | each line is copied, each round ends; types |
| `Election` | 4 nodes, the last may crash after the first election, or during it while the threads wait | the highest declares itself and wins, unless the crash came during the election; waits end |
| `Recovery` | 3 nodes, one crashes twice, 1 client | readmission, nothing missed, after a first crash exactly the leader's file, the leader is never suspected |
| `Clients` | 3 nodes, 2 clients with 2 commands, 2 faults out of: first or second leader, both or all nodes crash, a round fails, "shutdown" in the turn file | turns exclude, no connect times out, the order of the log, exactly once without faults, nothing skipped; all clients finish if one node at a time is down |
| `Shutdown` | 3 nodes, any leader, any others crashed with any view | ports and ring, nobody left running, all exit |

Why the bounds are enough: three nodes are the least with two followers, four
the least where an election has two nodes in its middle; two rounds are
what it takes for one to meet the messages of the other, and two crashes for a
STATE to wait for a node that sleeps.  In `Clients` two faults are the least for a
leader to crash after another, for a retry to fail as well, or for a request
held by the old leader to be served while the turns are off; two commands each
make the turn come back.  In `Shutdown` three nodes have a ring whose ends
differ from both neighbours, and crashes are a choice of the initial state.  The
last node leads in `SingleLeader`, as
after an election; in `MCRecovery` the last but one does, as when the last came
back from a crash, so that table entries before and after it occur.  In the run
`SingleLeader` the two values are symmetric (no property tells them apart), and
suspicions between followers, who exchange no CONSENSUS message under one leader,
are not explored.  The followers are treated alike, so the link of
follower 0 is taken to be the first to fail (`FirstLinkFirst`); so are the two
proposers of `TwoProposers`, of which the second is taken to be the first to
draw an id above 0 (`SecondDrawsHigher`).  In `Election` the two action
constraints keep the crash during an election small: it comes while the threads
wait (`CrashInAWait`), and what follows is explored up to the first restart of an
`aliveWait` thread (`FirstRestart`); only the types and `AliveFlagIsCleared` speak of
it, both are proved without these bounds, and `EndlessElection` explores three nodes
without them.  Runs with `CHECK_DEADLOCK FALSE` stop
when the rounds, elections or commands their bounds allow are over, or the
server has ended; the Recovery runs never stop and check deadlock.

### What the code does not do

Each of these runs checks one statement of a comment or a document, which TLC
refutes; `PROJECT.json` quotes the statement.

| Run | What happens |
|---|---|
| `WrittenValue` | a round proposes the value a promise reported, and writes its own |
| `EndlessElection` | the leader crashes during an election, the next node declares itself while the one below still follows the crashed one; an ELECTION from below then makes the new leader forget that it leads, and it starts no thread to lead again; the node below restarts its election for ever |
| `RecoveryLivelock` | two followers come back in one check loop; each recovery erases the id of the next, and its answer is refused, forever |
| `DuplicatedLine` | a node wakes to an ACCEPTED and a STATE that has its line; the failure thread is faster, and the line is written twice |
| `LostLine` | the leader is "crashed" in the five seconds between counting its ACCEPTs and writing; the others suspect it and drop its ACCEPTED, it writes alone and answers SUCCESS; the line is missing from the next leader's file, whose STATE overwrites the one that has it |

More was met while modelling and has no run:

* For an even number of nodes `(clusterSize - 1) / 2` is one short of a majority,
  so `MajorityPromised` holds of odd clusters only.
* With two proposers the ACCEPTED of one may reset the context of the other
  between `receivePromises` and `broadcastPropose` (`consensus-manager.cc:88`),
  which then proposes with round id -1.  Nobody accepts it (`NoRoundIsRefused`),
  as long as no node is readmitted between the PREPARE and the PROPOSE: with
  `NodeStatus = {TRUE, FALSE}` TLC finds a node that has not heard of any round,
  comes back in between, and accepts.
* In the same situation as `EndlessElection`, and with the threads in another
  order, an old `aliveWait` thread clears the flag a newer ALIVE has set
  (`election-manager.cc:177`), and a node that is not the highest declares
  itself: `HighestWins` does not hold without its `~ midway`.
* ACCEPT carries no round id, so one of a timed-out round is counted in the next
  (`consensus-manager.cc:279`; `consensus-manager.hh:84` says "this round").
* Ids are whole seconds, so two proposers may use one round id for two values
  (`messenger.cc:245`).
* `etc/todo.org:45` has "set client to refresh the looked up port when
  replication times out" as done.  A client does so only after the collective
  disconnect of `client.cc:112`, which waits for the "crashed" leader.
* A node that is "crashed" when the server is shut down blocks all others in
  `MPI_Finalize`; a node with another opinion of the leader ends the ring early,
  or connects to a port already closed.
* The receivers REPL stops are not joined (`node.cc:43-48`), while
  `LogFileManager` is a local of `Node::init` their threads refer to:
  `LeavesNobodyRunning` says that at least their SHUTDOWN is in the queue.

The proposer's defects need two proposers, or a value left over from a timed-out round:
under one leader the followers' files are right all the same, because a follower
writes whatever ACCEPTED says and ACCEPTED carries what the leader wrote.  That
is what `SingleLeader` checks and the theorems below establish.

### Fairness

`Consensus`: weak fairness of the two threads of each node (operating system
threads that are not blocked run, and sleeps end); none between the sources of
messages, since the receive uses `MPI_ANY_SOURCE`; none for starting rounds.
`Election`: some enabled step is taken, time included.  `Recovery`: the same for threads
and time, and a connected client disconnects in the end (it waits
`RESPONSE_WAIT_DURATION` at most); none for crashes, recoveries or connections.
`Clients`: weak fairness of the clients together, of the client threads
together, of suspicion and election (the ping thread never stops), and of
`Recover`, because the operator is expected to bring "crashed" nodes back: a
client that has given up waits in the collective disconnect for such a node,
with the turn.  None for readmission: two nodes that come back
together may keep each other out for ever, which is the run `RecoveryLivelock`,
and a majority with them.  So `EveryClientFinishes` is claimed only of executions
in which one node at a time is down (`OneAtATime`), where the other two are a
majority whether it is readmitted or not; TLC refutes it without that condition,
as it does without `Recover`.  None for a connect to time out, nor for
crashes, failing rounds or the end of the turns.  Until "shutdown" no connect
times out (`NoConnectFails`); after it one may, and a client that exits so passes
no turn on, so executions with one are left out (`NobodyExits`).  `Shutdown`: some enabled step is taken; its
runs are finite.

## 4. Theorems

For every cluster size, every set of values and any number of rounds:

* `TypeCorrect` (`ConsensusProofs`): `Spec => []TypeOK` for any proposers, by the
  inductive `TypeInv`, which adds `InRound` (a proposer in a round has a value).
* `NoPromiseIsCountedTwice`, `AMajorityHasPromised`, `AProposerWritesFirst`,
  `LostRoundsAreRefused` (`ConsensusSafetyProofs`): `PromisesCounted`,
  `MajorityPromised` for odd clusters, `ProposerWritesFirst`, and
  `NoRoundIsRefused` as long as no node is readmitted, for any proposers;
  `CountInvariance` is the invariant of the first two.
* `ReplicationInvariance` (`SingleLeaderProofs`): `TypeInv /\ ReplicationInv` is
  an invariant of the single-leader protocol.
* `FollowersCopy`, `TransitIsExact`: its consequences `FollowersArePrefixes`
  and `LinesInTransit`.
* `Refinement`: the protocol implements `ReplicatedLog`.
* `ElectionTypes`, `WaitsEnd` (`ElectionProofs`): `TypeOK` of Election, and
  `AliveFlagIsCleared`, for any durations, crashes and delays.
* `OnlyTheHighestDeclares`, `TheHighestWins` (`ElectionProofs`):
  `OnlyHighestDeclares` and `HighestWins`, if the skews are small (below);
  `ElectionsKeepTime` is their invariant.
* `TypeInvariance`, `TypeCorrect`, `LeaderIsNeverSuspected` (`RecoveryProofs`):
  `TypeOK` of Recovery and `LeaderIsHeard`, for any cluster, crashes and clients.
* `ReadmittedMissesNothing`, `TheFirstRecoveryIsExact` (`RecoveryProofs`):
  `AdmittedMissesNothing` and `FirstRecoveryIsExact`, likewise.
* `OneClientAtATime`, `EveryConnectIsAccepted`, `ClientsTypes`,
  `NoCommandIsSkipped` (`ClientsProofs`): `TurnsExclude`, `NoConnectFails`,
  `TypeOK` and `NothingSkipped`, for any cluster, clients, command files,
  outages and number of faults.
* `LogsFollowTheTurns`, `ClientsKeepTheirOrder`, `EachExactlyOnce`
  (`ClientsOrderProofs`): `LogFollowsTurns`, `ClientOrder` and `ExactlyOnce`,
  likewise.
* `ShutdownTypes`, `RingIsSafe`, `NobodyIsLeftRunning` (`ShutdownProofs`):
  `TypeOK`, `RingStaysOpen` and `LeavesNobodyRunning`.

Replication: a follower appends whatever line comes, so its file is a prefix of
the leader's only if the next ACCEPTED in its channel is its next line.  This is
`LinesInTransit`: lines under way are the leader's, ascend, begin where the file
of a follower that still listens ends, leave no gap, and while the leader sends
none is missing.  It needs `OnlyLeaderProposes` (nobody else sends ACCEPTED) and
`LastLineIsValue` (between append and broadcast the last line is the value being
broadcast).  The case that matters is a suspicion: once a side has stopped
sending or listening it never resumes (`NodeStatus \subseteq {FALSE}`), so a gap
is never followed by a line that is written.  Readmission is what the state
transfer of `Recovery` is for.

Promises: a proposer counts an answer if its round id is that of the context, so
it must get only one such answer from each acceptor.  `CountInv` says why: on the
way from a proposer to an acceptor and back, ids ascend (`RoundsAscend`: those of
PREPAREs not yet answered are above those of PROMISEs under way), since a second
passes between two rounds and an acceptor promises only ids above its last one;
and the counted acceptors are different nodes bound by the round (`Counted`).
`AskInv`, for the rounds without an id, says that a PROPOSE is preceded in its
channel by a PREPARE unless its receiver has promised something already; it has
to follow a suspicion through both tables, and readmission breaks it (above).

The winner of an election: `ElectionInv` gives an election a clock t, in seconds
since its first call, and the highest running node h.  Every call comes before
the first wait is over (`Called`), and restarts the wait of those it reaches; a
lower node has been answered by h, or will be within the second (`LowerWaits`);
h is not answered, so its wait is over at twice ELECTION_WAIT_DURATION at the
latest (`TopWins`), and its VICTORY has arrived when the first `aliveWait`
thread wakes up (`OnTime`), so none ever restarts the election.  A crash between
two elections sets the clock to the negative time until the nodes that miss
their leader call the next one (`HasOldLeader`).  This needs `SkewsAreSmall`:
the nodes start less than one ELECTION_WAIT_DURATION apart, notice a failure
less than that apart, and less than the sleep of `handleNodeFailure` apart.
That is a statement about the machines, not about the code, which does nothing
to ensure it; TLC refutes `OnlyHighestDeclares` with
three nodes and `StartSkew = 2`, and `HighestWins` with `DetectionSkew = 2`.

Waits of an election: with the types, `AliveFlagIsCleared` is inductive: the thread that
sets the flag goes to sleep, time only brings it nearer to its check, and from
there every path ends by clearing the flag.  An ALIVE that the thread itself has
asked for may set it again, with another thread; that this need not come to an
end is the run `EndlessElection`.  The types need the counts of threads to
be numbers, so a
thread that moves must have been counted where it was.

Turns: `TurnInv` says that the client at work has read the file to its end, where
its own turn is, and that every turn but the last has been read by its client.
So whoever reads a new line is not at work, and two clients at work are at the
same last line.  A "shutdown" in the file ends the claim, and never leaves it.
`NoConnectFails` is the two together: a node that is not in its accept serves a
client that is at work (`ServiceInv`), which is not another one than the client
that connects, and this one is no longer connected.

The leader is heard: `HearInv` relates the loops of two ping threads.  When a
follower looks at its time stamp of the leader, a PING of the loop before has
reached it, or waits for it while it is "crashed" and is handled before its
ping thread goes on: the stamp is two loops old at most.  That is not
more than TIMEOUT_DURATION only if a timeout or a second is more than one loop,
which the theorem assumes; the code has a timeout of one second and
two loops in it.  The types need `NextSecondIsNew`: of the finitely many
recovery ids in use, none is the name of the new second.

A readmission misses nothing: an answer of f counts only while its id is the
recovery's or the current second's (`Live`), and then the STATE it answers had
the leader's whole file (`LatestInv`), since the client thread is locked out
until the id is erased.  `CurrentInv` says it of the file: from the answer on f
misses no line, and no STATE still under way lacks one.  The case that matters is
a node that crashes again, after it was readmitted, with a second STATE unread:
it would overwrite the lines it was sent later.  `UnhandledInv` says that this
node sends no PING, so the leader has stopped talking to it before the mutex is
released and a line is written.  That needs the recovery to last longer than a
suspicion takes, which is the hypothesis of the theorem, and the sleep of
ReplManager, without which a node could be up for a PING and not for a message.
TLC found no violation on small clusters with a RECOVERY_DURATION of 2 either, so
the hypothesis is what the proof uses, not known to be needed.
All of it stands on `ShapeInv` (which messages a channel may hold, and that the
leader's two tables agree) and `IdInv` (a message with the recovery's or the
current second's id is one of the thread that has the mutex).

The first recovery is exact: `SeenInv` follows the age of the leader's stamp
through the first crash, so that a node is suspected only when it has been away
for a timeout; `BackInv` says that nobody is sent a STATE while away; `WrittenInv`
says that a line waits in a loop's end only for a node that is away.  So while
a STATE is under way the ACCEPTEDs of before are handled and none comes
(`Unwritten`), and what f has and is sent is the leader's file (`Exact`).  A second
crash breaks `BackInv`, and `DuplicatedLine` shows what follows.

Commands: `ServiceInv` ties a node to the client it serves: whatever is in its
`inbox` or in its hands is that client's current command, a DISCONNECT is the last
message, and a SUCCESS under way is for a command that was written.  This needs
the collective disconnect: the client cannot go on to its next command while
the node still has the last one in hand, so a late SUCCESS is never taken for the
answer to another command.  `TypeOK` needs a part of it (who the peer is), so
both are proved together.

The files: a line is written for the command its client is at (`ServiceInv`), so
`FilesInOrder` only has to say that no file has a line of a command that has not
come yet, or of a turn after that of the client at work: what is appended is the
newest there is, or the same again.  The numbers of the turns in the turn file
ascend by one (`TurnNumbers`), and a readmitted node gets a file that is in
order.  `EachExactlyOnce` rests on
`Uneventful`: before the first fault every request is answered once and believed
(`AnswersOnce`), so every file has the lines of all turns that are over.

The ring: `RingInv` says that a port known to a neighbour is open until its owner
was told, that a node is told by the one before it only, and that only the leader's
predecessor stops.  `RingStaysOpen` follows for nodes that agree on the leader.
The stops: `StopInv` says that REPL and CLIENT stay active and are joined, that
REPL has told every receiver, and that it ends only after the ping thread did.

TLC has checked the strengthenings on the constants of the runs before they
were proved, those of Election also on three nodes that start at different times.

Assumptions: `ClusterSizeAssumption`, `ConsensusAssumption`,
`SingleLeaderAssumption` (one proposer, no readmission), `ElectionAssumption`,
`RecoveryAssumption`, `ClientsAssumption`; TLC evaluates them in the runs.  Some
theorems have a hypothesis of their own, which the constants of the runs meet:

| Theorem | Hypothesis | Without it |
|---|---|---|
| `AMajorityHasPromised` | `clusterSize % 2 = 1` | `(clusterSize - 1) / 2` others are no majority |
| `LostRoundsAreRefused` | `NodeStatus \subseteq {FALSE}` | a readmitted node accepts round -1 |
| `LeaderIsNeverSuspected` | `LoopsPerSecond > 1 \/ TIMEOUT_DURATION > 1` | a stamp two loops old is too old |
| `ReadmittedMissesNothing` | `LoopsPerSecond > 1`, `RECOVERY_DURATION >= TIMEOUT_DURATION + 2` (2; 3 and 1 in the code) | not known: the proof compares the two |
| `TheFirstRecoveryIsExact` | that of `LeaderIsNeverSuspected` | followers may drop the leader's lines |
| `OnlyTheHighestDeclares`, `TheHighestWins` | `SkewsAreSmall` | a lower node's wait is over before a higher one starts |

Only model-checked: liveness (`EveryLineIsCopied`, `EveryRoundEnds`,
`LeaderElected`, `Readmitted`, `EveryClientFinishes`, `EveryNodeExits`), which
is out of the prover's reach.  Every invariant of a passing run is proved, and so
is the refinement.

## 5. Not modelled, and plan

Not modelled: the conversion of messages to JSON and to 1000 bytes, which loses
the end of a long STATE; printing; the speeds, which only stretch sleeps; the
parsing of command files; what the scripts do besides launching processes and
the line in the turn file; the vendored library; MPI, which is external.

Next: the change of leader during a recovery, that is Election composed with
Recovery, with suspicions between running nodes, and `isAlive` and the
Messenger's table changed in two steps; then its theorems.
