----------------------------- MODULE ReplicatedLog -----------------------------
(****************************************************************************)
(* What replication promises during the reign of one leader: there is one   *)
(* log, only appended to, and every replica is a copy of a growing prefix   *)
(* of it.                                                                   *)
(****************************************************************************)
EXTENDS Naturals, Sequences

CONSTANTS Value, Replica

VARIABLES
  log,      \* the agreed lines
  replica   \* replica[f]: the lines f has copied

Init ==
  /\ log = << >>
  /\ replica = [f \in Replica |-> << >>]

Write(v) ==
  /\ log' = Append(log, v)
  /\ UNCHANGED replica

\* f copies the next line, and no other.
Copy(f) ==
  /\ Len(replica[f]) < Len(log)
  /\ replica' = [replica EXCEPT ![f] = Append(@, log[Len(@) + 1])]
  /\ UNCHANGED log

Next ==
  \/ \E v \in Value : Write(v)
  \/ \E f \in Replica : Copy(f)

Spec == Init /\ [][Next]_<<log, replica>>
================================================================================
