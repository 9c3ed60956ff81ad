------------------------------ MODULE AgentGroup ------------------------------
(***************************************************************************)
(* What agent orchestration promises a root, without the records it keeps  *)
(* for it: groups begin and end, workers serve one group and leave once,   *)
(* and each assignment is queued for one worker, started in its turn and   *)
(* settled once, by a report or because its worker left.                   *)
(* GroupRefinement shows that Orchestration implements it.                 *)
(***************************************************************************)
EXTENDS Naturals

CONSTANTS Roots, Workers, Tasks, None

VARIABLES
  group,    \* "none", "active" or "ended", by root
  serving,  \* the workers that may be given work
  boss,     \* the root of a worker, None before it is hired
  doer,     \* the worker of an assignment, None before it is made
  place,    \* its place among the worker's
  work,     \* "none", "queued", "running" or a result
  told      \* how often its end was announced

vars == <<group, serving, boss, doer, place, work, told>>

Results == {"succeeded", "failed", "cancelled", "interrupted"}
Open(t) == work[t] \in {"queued", "running"}

Init ==
  /\ group = [r \in Roots |-> "none"]
  /\ serving = {}
  /\ boss = [w \in Workers |-> None]
  /\ doer = [t \in Tasks |-> None]
  /\ place = [t \in Tasks |-> 0]
  /\ work = [t \in Tasks |-> "none"]
  /\ told = [t \in Tasks |-> 0]

Begin(r) ==
  /\ group[r] = "none"
  /\ group' = [group EXCEPT ![r] = "active"]
  /\ UNCHANGED <<serving, boss, doer, place, work, told>>

\* A new assignment goes behind all of its worker's.
Queue(w, t) ==
  /\ work[t] = "none"
  /\ work' = [work EXCEPT ![t] = "queued"]
  /\ doer' = [doer EXCEPT ![t] = w]
  /\ place' \in [Tasks -> Nat]
  /\ \A u \in Tasks \ {t} : /\ place'[u] = place[u]
                           /\ doer[u] = w => place[u] < place'[t]

Hire(r, w, t) ==
  /\ group[r] = "active" /\ boss[w] = None
  /\ serving' = serving \cup {w}
  /\ boss' = [boss EXCEPT ![w] = r]
  /\ Queue(w, t)
  /\ UNCHANGED <<group, told>>

Assign(w, t) ==
  /\ w \in serving /\ group[boss[w]] = "active"
  /\ Queue(w, t)
  /\ UNCHANGED <<group, serving, boss, told>>

\* The turn of an assignment: none of the same worker was queued before it.
Start(t) ==
  /\ work[t] = "queued" /\ doer[t] \in serving
  /\ \A u \in Tasks : work[u] = "queued" /\ doer[u] = doer[t] => place[t] <= place[u]
  /\ work' = [work EXCEPT ![t] = "running"]
  /\ UNCHANGED <<group, serving, boss, doer, place, told>>

Report(t, result) ==
  /\ Open(t)
  /\ work' = [work EXCEPT ![t] = result]
  /\ told' = [told EXCEPT ![t] = @ + 1]
  /\ UNCHANGED <<group, serving, boss, doer, place>>

\* The groups of R end and the workers of W leave, all those of the groups
\* among them; what the leaving workers had open is settled and announced.
Leave(R, W) ==
  /\ \A r \in R : group[r] = "active"
  /\ {w \in serving : boss[w] \in R} \subseteq W
  /\ group' = [r \in Roots |-> IF r \in R THEN "ended" ELSE group[r]]
  /\ serving' = serving \ W
  /\ work' \in [Tasks -> {"none", "queued", "running"} \cup Results]
  /\ \A t \in Tasks : IF doer[t] \in W /\ Open(t)
                      THEN work'[t] \in Results
                      ELSE work'[t] = work[t]
  /\ told' = [t \in Tasks |-> IF doer[t] \in W /\ Open(t) THEN told[t] + 1 ELSE told[t]]
  /\ UNCHANGED <<boss, doer, place>>

\* A group whose root never came up ends without its workers.
Abandon(r) ==
  /\ group[r] = "active"
  /\ group' = [group EXCEPT ![r] = "ended"]
  /\ UNCHANGED <<serving, boss, doer, place, work, told>>

Next ==
  \/ \E r \in Roots : Begin(r) \/ Abandon(r)
  \/ \E r \in Roots, w \in Workers, t \in Tasks : Hire(r, w, t)
  \/ \E w \in Workers, t \in Tasks : Assign(w, t)
  \/ \E t \in Tasks : Start(t)
  \/ \E t \in Tasks, result \in Results : Report(t, result)
  \/ \E R \in SUBSET Roots, W \in SUBSET Workers : Leave(R, W)

Spec == Init /\ [][Next]_vars

=============================================================================
