---------------------------- MODULE MCSingleLeader -----------------------------
(****************************************************************************)
(* Model values for SingleLeader.  The last node wins an election, so it is *)
(* the leader.                                                              *)
(****************************************************************************)
EXTENDS SingleLeader, TLC

CONSTANTS v1, v2

MCValue    == {v1, v2}
OneValue   == {v1}
ValueSymmetry == Permutations(MCValue)
LastNode   == clusterSize - 1
OnlyLast   == {clusterSize - 1}
Suspecting == {FALSE}

\* Followers do not exchange CONSENSUS messages while there is one leader, so
\* only suspicions on the leader's links are explored.
OnlyLeaderLinks ==
  \A f \in Follower : \A g \in Follower \ {f} :
    processIsAlive[f][idToIndex(f, g)]

\* The model treats the followers alike: follower 0's link is taken to be the
\* first to go down.
FirstLinkFirst == LinkUp(0) => LinkUp(1)
================================================================================
