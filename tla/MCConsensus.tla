------------------------------ MODULE MCConsensus ------------------------------
(****************************************************************************)
(* Model values for Consensus: rounds of several proposers.                 *)
(****************************************************************************)
EXTENDS Consensus

CONSTANTS v1, v2

MCValue == {v1, v2}
OneValue == {v1}
OneProposer == {2}
TwoProposers == {1, 2}
NoStatus == {}

(****************************************************************************)
(* Two proposers draw one id each, and the model treats them alike: so the  *)
(* second is taken to be the first to draw an id above 0.                   *)
(****************************************************************************)
SecondDrawsHigher == clock[1] % RoundDuration <= clock[2] % RoundDuration
================================================================================
