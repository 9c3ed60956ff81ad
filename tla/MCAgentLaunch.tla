---------------------------- MODULE MCAgentLaunch ----------------------------
(***************************************************************************)
(* AgentLaunch on small instances: one root and its workers, in one pane   *)
(* or launched itself, with every interleaving of launch, stop, exit and   *)
(* restart.                                                                *)
(***************************************************************************)
EXTENDS AgentLaunch, TLC

TaskSymmetry == Permutations(Tasks)

=============================================================================
