--------------------------- MODULE MCOrchestration ---------------------------
(***************************************************************************)
(* Orchestration on a small instance: two roots that compete for a pane    *)
(* and for workers, whose workers hold one or several assignments; and, so *)
(* that each limit has something to refuse, a spare root, worker and task. *)
(* The spare root may become active while the two workers start, and a     *)
(* state with the spare worker or the spare task in use is checked and not *)
(* explored any further.                                                   *)
(***************************************************************************)
EXTENDS GroupRefinement, TLC

CONSTANTS SpareRoot, SpareWorker, SpareTask

\* The spare ones keep their part, so they are no part of the symmetry.
GroupSymmetry == Permutations(Roots \ {SpareRoot})
                   \cup Permutations(Workers \ {SpareWorker})
                   \cup Permutations(Tasks \ {SpareTask})

SparesAtTheLimits ==
  /\ proc[SpareWorker] = "none" /\ tstate[SpareTask] = "none"
  /\ rootState[SpareRoot] \in {"none", "active"}
  /\ rootState[SpareRoot] = "active" =>
       \A w \in Workers \ {SpareWorker} : proc[w] = "starting" /\ avail[w] = "starting"

=============================================================================
