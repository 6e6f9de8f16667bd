------------------------------ MODULE MCElection -------------------------------
(****************************************************************************)
(* Constants and bounds of Election that a configuration file cannot write. *)
(****************************************************************************)
EXTENDS Election

LastNode  == {clusterSize - 1}
Everybody == Node

\* A crash comes while the threads wait, if it comes during an election.
CrashInAWait == crashed' # crashed => \A n \in Node : ~ Busy(n)

\* After such a crash the run goes as far as the first restart.
FirstRestart ==
  midway => \A n \in Node : /\ ~ WaitAt(n, "clear")
                            /\ WaitAt(n, "restart") => ~ WaitAt(n, "restart")'
================================================================================
