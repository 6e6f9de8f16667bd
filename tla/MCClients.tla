------------------------------- MODULE MCClients -------------------------------
(****************************************************************************)
(* Constants of Clients that a configuration file cannot write.             *)
(****************************************************************************)
EXTENDS Clients

LeaderOnly == {{clusterSize - 1}}

\* The first leader, the one after it, both, or everybody.
LeadersOrAll ==
  {{clusterSize - 1}, {clusterSize - 2}, {clusterSize - 2, clusterSize - 1},
   Node}
================================================================================
