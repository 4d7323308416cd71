-------------------------- MODULE MCAgentRegistry ---------------------------
(* AgentRegistry with handlers that are told apart by what they do only.   *)
EXTENDS AgentRegistry, TLC

JobSymmetry == Permutations(Jobs)
=============================================================================
