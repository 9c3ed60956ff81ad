--------------------------- MODULE MCAgentRequests ---------------------------
(***************************************************************************)
(* AgentRequests on a small instance: two commands in one group of a root  *)
(* and its worker, one of them posted twice.                               *)
(***************************************************************************)
EXTENDS AgentRequests, TLC

RequestSymmetry ==
  Permutations(Commands) \cup Permutations(Tasks) \cup Permutations(Messages)

=============================================================================
