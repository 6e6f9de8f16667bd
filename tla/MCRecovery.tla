------------------------------ MODULE MCRecovery -------------------------------
(****************************************************************************)
(* Constants of Recovery that a configuration file cannot write.  The last  *)
(* node, once the leader, has crashed and come back, and the one before it  *)
(* was elected meanwhile: so the leader has nodes on both sides, and the    *)
(* entries of its tables are shifted for one of them.                       *)
(****************************************************************************)
EXTENDS Recovery

SecondLastNode == clusterSize - 2
LastNode       == {clusterSize - 1}
Followers      == Node \ {SecondLastNode}
================================================================================
