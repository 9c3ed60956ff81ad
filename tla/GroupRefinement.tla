---------------------------- MODULE GroupRefinement ----------------------------
(***************************************************************************)
(* Orchestration implements AgentGroup: a root's state is its group's, and *)
(* a worker serves from its acceptance to its stop.                        *)
(***************************************************************************)
EXTENDS Orchestration

GroupOf(s) == IF s \in {"none", "active"} THEN s ELSE "ended"

Contract == INSTANCE AgentGroup WITH
  group   <- [r \in Roots |-> GroupOf(rootState[r])],
  serving <- {w \in Workers : proc[w] # "none" /\ avail[w] # "stopped"},
  boss    <- parent,
  doer    <- twork,
  place   <- tseq,
  work    <- tstate,
  told    <- tdone

\* Every operation is one step of the contract or none: assignments are started
\* in their turn, settled once, by a report or by the end of their worker, and
\* a group leaves as one, whichever handler, exit or restart makes the step.
KeepsContract == Contract!Spec

=============================================================================
