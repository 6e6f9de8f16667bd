------------------------------- MODULE Messenger -------------------------------
(****************************************************************************)
(* The Messenger class (src/src/messenger.cc): what one node hands to MPI   *)
(* and takes from it on MPI_COMM_WORLD.                                     *)
(*                                                                          *)
(* MPI keeps the messages of one sender, receiver and tag in order, and     *)
(* loses none.  So the traffic of one tag is a function chan with           *)
(* chan[src][dst] the sequence of messages sent and not yet consumed; each  *)
(* manager's module has one such variable for its own tag.  What the        *)
(* program drops, it drops itself: messageShouldDrop consults the sender's  *)
(* table when a message is sent and the receiver's when it is received.     *)
(****************************************************************************)
EXTENDS Integers, Sequences

CONSTANT clusterSize            \* MPI_Comm_size: number of server processes

ASSUME ClusterSizeAssumption == clusterSize \in Nat \ {0}

Node == 0 .. clusterSize - 1    \* MPI ranks

(****************************************************************************)
(* m_processIsAlive and the FailureManager's isAlive have one entry for     *)
(* every node but the owner, so a node id is shifted to find its entry.     *)
(****************************************************************************)
Index == 0 .. clusterSize - 2

idToIndex(nodeId1, nodeId2) ==
  IF nodeId2 < nodeId1 THEN nodeId2 ELSE nodeId2 - 1

indexToId(nodeId, index) ==
  IF index < nodeId THEN index ELSE index + 1

AllAlive == [n \in Node |-> [i \in Index |-> TRUE]]

(****************************************************************************)
(* The drop rule, from the table isAlive of nodeId: messages to oneself and *)
(* heartbeats always pass, the others only while the table says "alive".    *)
(****************************************************************************)
messageShouldDrop(isAlive, nodeId, otherNodeId, tag) ==
  /\ otherNodeId # nodeId
  /\ ~ isAlive[idToIndex(nodeId, otherNodeId)]
  /\ tag # "FAILURE_DETECTION"

send(chan, isAlive, src, dst, tag, m) ==
  IF messageShouldDrop(isAlive[src], src, dst, tag)
  THEN chan
  ELSE [chan EXCEPT ![src][dst] = Append(@, m)]

(****************************************************************************)
(* broadcast(m, start, end, false): one send to every other node of         *)
(* start .. end - 1.                                                        *)
(****************************************************************************)
broadcast(chan, isAlive, src, start, end, tag, m) ==
  [chan EXCEPT ![src] =
     [d \in Node |->
        IF /\ d # src
           /\ start <= d /\ d < end
           /\ ~ messageShouldDrop(isAlive[src], src, d, tag)
        THEN Append(chan[src][d], m)
        ELSE chan[src][d]]]

consume(chan, src, dst) == [chan EXCEPT ![src][dst] = Tail(@)]

EmptyChannels == [s \in Node |-> [d \in Node |-> << >>]]

setNodeStatus(isAlive, nodeId, index, status) ==
  [isAlive EXCEPT ![nodeId][index] = status]
================================================================================
