----------------------------- MODULE SingleLeader ------------------------------
(****************************************************************************)
(* The reign of one leader: the only client thread that runs startConsensus *)
(* is Leader's, and a peer that is suspected is not readmitted.  (Readmis-  *)
(* sion goes through the FailureManager's state transfer.)  This is the     *)
(* situation the server is in after an election, and what it has to do then *)
(* is implement ReplicatedLog.                                              *)
(****************************************************************************)
EXTENDS Consensus

CONSTANT Leader

ASSUME SingleLeaderAssumption ==
  /\ Leader \in Node
  /\ Proposers = {Leader}
  /\ NodeStatus \subseteq {FALSE}

Follower == Node \ {Leader}

(****************************************************************************)
(* Every follower's file is a prefix of the leader's, at every moment: no   *)
(* line is lost, doubled, reordered or written before the leader has it,    *)
(* through timed-out rounds, retries and suspicions on either side.         *)
(****************************************************************************)
FollowersArePrefixes ==
  \A f \in Follower :
    /\ Len(log[f]) <= Len(log[Leader])
    /\ \A k \in DOMAIN log[f] : log[f][k] = log[Leader][k]

(****************************************************************************)
(* The consensus of one leader implements the replicated log: each append   *)
(* of startConsensus is a Write, each append of handleAcceptedMessage is a  *)
(* Copy of the next line, and nothing else touches a file.                  *)
(****************************************************************************)
Replication ==
  INSTANCE ReplicatedLog WITH
    Replica <- Follower,
    log     <- log[Leader],
    replica <- [f \in Follower |-> log[f]]

ImplementsReplicatedLog == Replication!Spec

\* Neither end of the link between the leader and f suspects the other.
LinkUp(f) ==
  /\ processIsAlive[Leader][idToIndex(Leader, f)]
  /\ processIsAlive[f][idToIndex(f, Leader)]

(****************************************************************************)
(* Every line of the leader's file reaches every follower whose link with   *)
(* the leader stays up: ACCEPTED is broadcast after the append whatever     *)
(* the followers answered, and nothing makes a learner skip it.             *)
(****************************************************************************)
EveryLineIsCopied ==
  \A f \in Follower : \A k \in 1 .. MaxClock + 1 :
    (Len(log[Leader]) >= k) ~> (Len(log[f]) >= k \/ ~ LinkUp(f))

(****************************************************************************)
(* A round ends: a client thread that entered startConsensus returns from   *)
(* it, with or without its majorities.                                      *)
(****************************************************************************)
EveryRoundEnds == (phase[Leader] # "idle") ~> (phase[Leader] = "idle")

--------------------------------------------------------------------------------
(* Why: the lines on their way to a follower.  Together with                *)
(* FollowersArePrefixes these parts are inductive.                          *)

\* Where the ACCEPTED messages are in the channel to f.
Lines(f) ==
  {k \in DOMAIN net[Leader][f] : net[Leader][f][k].code = "ACCEPTED"}

LineNo(f, k) == net[Leader][f][k].pos

\* How many lines the leader has broadcast: it appends before it broadcasts.
Sent == IF phase[Leader] = "accepted"
        THEN Len(log[Leader]) - 1
        ELSE Len(log[Leader])

\* f will write some more lines: it does not drop the leader's messages, or
\* received one before it began to.
Listening(f) ==
  \/ handling[f] = Leader
  \/ processIsAlive[f][idToIndex(f, Leader)]

OnlyLeaderProposes ==
  /\ \A n \in Follower : phase[n] = "idle"
  /\ \A s, d \in Node : \A k \in DOMAIN net[s][d] :
       net[s][d][k].code = "ACCEPTED" => s = Leader /\ d # Leader

LastLineIsValue ==
  phase[Leader] = "accepted"
    => /\ Len(log[Leader]) > 0
       /\ log[Leader][Len(log[Leader])] = value[Leader]

\* f has written no more lines than were sent, and a line under way is one of
\* the leader's.
LinesAreWritten(f) ==
  /\ Len(log[f]) <= Sent
  /\ \A k \in Lines(f) :
       /\ LineNo(f, k) \in 1 .. Sent
       /\ net[Leader][f][k].value = log[Leader][LineNo(f, k)]

LinesAscend(f) ==
  \A i, j \in Lines(f) : i < j => LineNo(f, i) < LineNo(f, j)

\* The next line under way is the next one f needs, and so on.
LinesFollow(f) ==
  Listening(f) =>
    \A k \in Lines(f) :
      /\ LineNo(f, k) > Len(log[f])
      /\ \A p \in Len(log[f]) + 1 .. LineNo(f, k) :
           \E i \in Lines(f) : i <= k /\ LineNo(f, i) = p

\* As long as the leader sends to f, every line f has not is under way.
NoLineMissing(f) ==
  Listening(f) /\ processIsAlive[Leader][idToIndex(Leader, f)] =>
    \A p \in Len(log[f]) + 1 .. Sent : \E i \in Lines(f) : LineNo(f, i) = p

(****************************************************************************)
(* The channel to a listening follower holds exactly the lines it has yet   *)
(* to write, in order and each once: what makes handleAcceptedMessage right *)
(* to append whatever line comes, without looking at its number.            *)
(****************************************************************************)
LinesInTransit ==
  \A f \in Follower :
    /\ LinesAreWritten(f)
    /\ LinesAscend(f)
    /\ LinesFollow(f)
    /\ NoLineMissing(f)

ReplicationInv ==
  /\ OnlyLeaderProposes
  /\ LastLineIsValue
  /\ LinesInTransit
  /\ FollowersArePrefixes
================================================================================
