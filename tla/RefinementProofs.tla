--------------------------- MODULE RefinementProofs ---------------------------
(***************************************************************************)
(* That Orchestration keeps the contract of AgentGroup, for any number of  *)
(* roots, workers and assignments, and that the assignments of a worker    *)
(* start in the order they were queued.  Both rest on the group invariant  *)
(* of OrchestrationProofs.                                                 *)
(***************************************************************************)
EXTENDS GroupRefinement, OrchestrationProofs

-----------------------------------------------------------------------------
(* Assignments are numbered per worker, and started by their numbers.      *)

OrderInv ==
  /\ \A u \in Tasks : twork[u] # None =>
       /\ proc[twork[u]] # "none"
       /\ tseq[u] <= Cardinality(TasksOf(twork[u]))
  /\ \A t, u \in Tasks : twork[t] # None /\ twork[u] = twork[t] /\ u # t => tseq[u] # tseq[t]
  /\ StartedInOrder

\* A step that queues and starts nothing.
LEMMA NothingStartedOrder ==
  ASSUME OrderInv, UNCHANGED <<twork, tseq>>,
         \A w \in Workers : proc[w] # "none" => proc'[w] # "none",
         \A t \in Tasks : tstate'[t] \in {"queued", "running"} => tstate'[t] = tstate[t],
         TypeOK
  PROVE  OrderInv'
<1>1. \A u \in Tasks : TasksOf(twork[u])' = TasksOf(twork[u])
  BY DEF TasksOf
<1>2. \A u \in Tasks : twork'[u] # None =>
        proc'[twork'[u]] # "none" /\ tseq'[u] <= Cardinality(TasksOf(twork[u])')
  BY <1>1 DEF OrderInv, TypeOK
<1>3. StartedInOrder'
  BY DEF OrderInv, StartedInOrder
<1> QED BY <1>2, <1>3 DEF OrderInv, TasksOf

\* The first queued assignment of a worker starts.
LEMMA StartOrder ==
  ASSUME OrderInv, UNCHANGED <<twork, tseq>>, TypeOK,
         \A x \in Workers : proc[x] # "none" => proc'[x] # "none",
         NEW w \in Workers, NEW t \in FirstQueued(w), StartAssignment(w, t)
  PROVE  OrderInv'
<1>1. \A u \in Tasks : TasksOf(twork[u])' = TasksOf(twork[u])
  BY DEF TasksOf
<1>2. \A u \in Tasks : twork'[u] # None =>
        proc'[twork'[u]] # "none" /\ tseq'[u] <= Cardinality(TasksOf(twork[u])')
  BY <1>1 DEF OrderInv, TypeOK
<1>3. /\ t \in Tasks /\ twork[t] = w /\ w # None
      /\ \A u \in Tasks : tstate'[u] = IF u = t THEN "running" ELSE tstate[u]
      /\ \A u \in Tasks : twork[u] = w /\ tstate[u] = "queued" => tseq[t] <= tseq[u]
  BY OrchestrationAssumption DEF FirstQueued, Queued, TasksOf, StartAssignment, TypeOK
<1>4. ASSUME NEW v \in Tasks, NEW u \in Tasks,
             tstate'[v] = "queued", twork'[u] = twork'[v], tseq'[u] >= tseq'[v], u # v
      PROVE  tstate'[u] # "running"
  <2>1. tstate[v] = "queued" /\ v # t
    BY <1>3, <1>4
  <2>2. CASE u = t
    BY <1>3, <1>4, <2>1, <2>2 DEF OrderInv, TypeOK
  <2>3. CASE u # t
    BY <1>3, <1>4, <2>1, <2>3 DEF OrderInv, StartedInOrder
  <2> QED BY <2>2, <2>3
<1>5. StartedInOrder'
  BY <1>4 DEF StartedInOrder
<1> QED BY <1>2, <1>5 DEF OrderInv, TasksOf

\* A new assignment is the last of its worker's.
LEMMA QueueOrder ==
  ASSUME GroupInv, OrderInv, NEW w \in Workers, NEW t \in Tasks, tstate[t] = "none",
         \A x \in Workers : proc[x] # "none" => proc'[x] # "none",
         proc'[w] # "none",
         tstate' = [tstate EXCEPT ![t] = "queued"],
         twork' = [twork EXCEPT ![t] = w],
         tseq' = [tseq EXCEPT ![t] = Cardinality(TasksOf(w)) + 1]
  PROVE  /\ OrderInv'
         /\ \A u \in Tasks : u # t => tseq'[u] = tseq[u]
         /\ \A u \in Tasks : u # t /\ twork[u] = w => tseq[u] < tseq'[t]
<1> USE GroupInvParts, OrchestrationAssumption
<1> DEFINE n == Cardinality(TasksOf(w))
<1>1. twork[t] = None /\ w # None
  BY DEF TaskInv
<1>2. TasksOf(w) \in SUBSET Tasks /\ t \notin TasksOf(w) /\ IsFiniteSet(TasksOf(w)) /\ n \in Nat
  BY <1>1, TaskCountType, FS_Subset DEF TasksOf
<1>3. TasksOf(w)' = TasksOf(w) \cup {t}
  BY DEF TasksOf, TypeOK
<1>4. Cardinality(TasksOf(w)') = n + 1
  BY <1>2, <1>3, FS_AddElement
<1>5. ASSUME NEW u \in Tasks, u # t, twork[u] # w, twork[u] # None
      PROVE  TasksOf(twork[u])' = TasksOf(twork[u])
  BY <1>1, <1>5 DEF TasksOf, TypeOK
<1>6. ASSUME NEW u \in Tasks, twork'[u] = w
      PROVE  TasksOf(twork[u])' = TasksOf(w)'
  BY <1>6 DEF TasksOf
<1>7. /\ \A u \in Tasks : u # t => /\ tseq'[u] = tseq[u] /\ twork'[u] = twork[u]
                                   /\ tstate'[u] = tstate[u]
      /\ tseq'[t] = n + 1 /\ twork'[t] = w /\ tstate'[t] = "queued"
      /\ \A u \in Tasks : tseq[u] \in Nat
  BY DEF TypeOK
<1>8. \A u \in Tasks : u # t /\ twork[u] = w => tseq[u] < tseq'[t]
  <2> SUFFICES ASSUME NEW u \in Tasks, u # t, twork[u] = w
               PROVE  tseq[u] < tseq'[t]
    OBVIOUS
  <2>1. tseq[u] <= n
    BY <1>1 DEF OrderInv
  <2> QED BY <1>2, <1>7, <2>1
<1>9. ASSUME NEW u \in Tasks, twork'[u] # None
      PROVE  proc'[twork'[u]] # "none" /\ tseq'[u] <= Cardinality(TasksOf(twork[u])')
  <2>1. CASE u = t
    BY <1>2, <1>4, <1>6, <1>7, <2>1
  <2>2. CASE u # t /\ twork[u] = w
    BY <1>2, <1>4, <1>6, <1>7, <1>8, <2>2
  <2>3. CASE u # t /\ twork[u] # w
    <3>1. twork[u] \in Workers /\ twork'[u] = twork[u]
      BY <1>7, <1>9, <2>3 DEF TypeOK
    <3>2. TasksOf(twork[u])' = TasksOf(twork[u])
      BY <1>5, <2>3, <3>1, <1>9
    <3> QED BY <1>7, <1>9, <2>3, <3>1, <3>2 DEF OrderInv
  <2> QED BY <2>1, <2>2, <2>3
<1>10. \A v, u \in Tasks : twork'[v] # None /\ twork'[u] = twork'[v] /\ u # v
         => tseq'[u] # tseq'[v]
  BY <1>2, <1>7, <1>8 DEF OrderInv
<1>11. ASSUME NEW v \in Tasks, NEW u \in Tasks,
              tstate'[v] = "queued", twork'[u] = twork'[v], tseq'[u] >= tseq'[v], u # v
       PROVE  tstate'[u] # "running"
  BY <1>2, <1>7, <1>8, <1>11 DEF OrderInv, StartedInOrder
<1>12. StartedInOrder'
  BY <1>11 DEF StartedInOrder
<1> QED BY <1>7, <1>8, <1>9, <1>10, <1>12 DEF OrderInv

-----------------------------------------------------------------------------
(* The kinds of steps, each a step of the contract or none.                *)

Serving == {w \in Workers : proc[w] # "none" /\ avail[w] # "stopped"}
Kept    == OrderInv' /\ (Contract!Next \/ UNCHANGED Contract!vars)

\* A step the contract does not see.
LEMMA UnseenKept ==
  ASSUME TypeOK, OrderInv, UNCHANGED <<rootState, parent, tstate, twork, tseq, tdone>>,
         \A w \in Workers : /\ proc'[w] = "none" <=> proc[w] = "none"
                            /\ avail'[w] = "stopped" <=> avail[w] = "stopped"
  PROVE  Kept
<1>1. OrderInv'
  BY NothingStartedOrder
<1>2. Serving' = Serving
  BY DEF Serving
<1> QED BY <1>1, <1>2 DEF Kept, Contract!vars, Serving

\* The roots of R end and the workers of S leave: what S held is settled.
LEMMA LeaveKept ==
  ASSUME TypeOK, OrderInv, NEW R \in SUBSET Roots, NEW S \in SUBSET Workers,
         NEW outcome \in [Tasks -> Settled], Settle(S, outcome), Retire(S),
         UNCHANGED <<parent, twork, tseq>>,
         \A w \in Workers : proc'[w] = "none" <=> proc[w] = "none",
         \A w \in Workers : w \in Serving /\ parent[w] \in R => w \in S,
         \A r \in R : rootState[r] = "active" /\ rootState'[r] \notin {"none", "active"},
         \A r \in Roots \ R : rootState'[r] = rootState[r]
  PROVE  Kept
<1>1. \A t \in Tasks : /\ tstate'[t] = IF twork[t] \in S /\ Open(t) THEN outcome[t] ELSE tstate[t]
                       /\ tdone'[t] = IF twork[t] \in S /\ Open(t) THEN tdone[t] + 1 ELSE tdone[t]
  BY DEF Settle
<1>2. tdone' = [t \in Tasks |-> IF twork[t] \in S /\ Open(t) THEN tdone[t] + 1 ELSE tdone[t]]
  BY DEF Settle
<1>3. tstate' \in [Tasks -> TaskState]
  BY SettleType
<1>4. OrderInv'
  BY <1>1, NothingStartedOrder DEF Settled
<1>5. Serving' = Serving \ S
  BY DEF Serving, Retire
<1>6. [r \in Roots |-> GroupOf(rootState'[r])]
        = [r \in Roots |-> IF r \in R THEN "ended" ELSE GroupOf(rootState[r])]
  BY DEF GroupOf
<1>7. \A r \in R : GroupOf(rootState[r]) = "active"
  BY DEF GroupOf
<1>8. Contract!Leave(R, S)
  BY <1>1, <1>2, <1>3, <1>5, <1>6, <1>7
  DEF Contract!Leave, Contract!Open, Contract!Results, Open, Settled, TaskState, Serving
<1> QED BY <1>4, <1>8 DEF Kept, Contract!Next

\* The same by stop_worker on each of S, where some may be stopped already.
LEMMA StopKept ==
  ASSUME TypeOK, OrderInv, NEW R \in SUBSET Roots, NEW S \in SUBSET Workers, StopWorkers(S),
         UNCHANGED <<parent, twork, tseq>>,
         \A w \in Workers : proc'[w] = "none" <=> proc[w] = "none",
         \A w \in Workers : parent[w] \in R => w \in S,
         \A r \in R : rootState[r] = "active" /\ rootState'[r] \notin {"none", "active"},
         \A r \in Roots \ R : rootState'[r] = rootState[r]
  PROVE  Kept
<1> DEFINE stopping == {w \in S : avail[w] # "stopped"}
           outcome  == [t \in Tasks |-> "cancelled"]
<1>1. Retire(stopping) /\ Settle(stopping, outcome)
  BY DEF StopWorkers
<1>2. outcome \in [Tasks -> Settled]
  BY DEF Settled
<1>3. /\ stopping \in SUBSET Workers
      /\ \A w \in Workers : w \in Serving /\ parent[w] \in R => w \in stopping
  BY DEF Serving
<1> HIDE DEF stopping, outcome
<1> QED BY <1>1, <1>2, <1>3, LeaveKept

LEMMA StartKept ==
  ASSUME GroupInv, OrderInv, NEW w \in Workers, NEW t \in FirstQueued(w), StartAssignment(w, t),
         UNCHANGED <<rootState, parent, twork, tseq, tdone>>, avail[w] # "stopped", proc[w] # "none",
         \A x \in Workers : proc'[x] = "none" <=> proc[x] = "none"
  PROVE  Kept
<1> USE GroupInvParts
<1>1. OrderInv'
  BY StartOrder
<1>2. /\ t \in Tasks /\ twork[t] = w /\ tstate[t] = "queued"
      /\ \A u \in Tasks : twork[u] = w /\ tstate[u] = "queued" => tseq[t] <= tseq[u]
  BY DEF FirstQueued, Queued, TasksOf
<1>3. Serving' = Serving /\ w \in Serving
  BY DEF Serving, StartAssignment, TypeOK
<1>4. Contract!Start(t)
  BY <1>2, <1>3 DEF Contract!Start, Serving, StartAssignment
<1> QED BY <1>1, <1>2, <1>4 DEF Kept, Contract!Next

-----------------------------------------------------------------------------
(* Every operation is of one of these kinds, or begins, hires, assigns,    *)
(* reports or abandons.                                                    *)

LEMMA RegisterRootKept ==
  ASSUME GroupInv, OrderInv, NEW r \in Roots, NEW p, NEW managed \in BOOLEAN,
         RegisterRoot(r, p, managed)
  PROVE  Kept
<1> USE GroupInvParts, OrchestrationAssumption
<1>1. /\ UNCHANGED <<avail, parent, tstate, twork, tseq, tdone>>
      /\ \A w \in Workers : proc'[w] = proc[w]
      /\ rootState[r] = "none" /\ rootState' = [rootState EXCEPT ![r] = "active"]
  BY DEF RegisterRoot, idVars, taskVars, TypeOK, Runs, RootInv
<1>2. OrderInv'
  BY <1>1, NothingStartedOrder
<1>3. Serving' = Serving
  BY <1>1 DEF Serving
<1>4. Contract!Begin(r)
  BY <1>1, <1>3 DEF Contract!Begin, Serving, GroupOf, TypeOK
<1> QED BY <1>2, <1>4 DEF Kept, Contract!Next

LEMMA RootEndKept ==
  ASSUME GroupInv, OrderInv, NEW r \in Roots,
         FinishRoot(r) \/ StopGroup(r) \/ RootExited(r)
  PROVE  Kept
<1> USE GroupInvParts, OrchestrationAssumption
<1>1. /\ UNCHANGED <<parent, twork, tseq>>
      /\ \A w \in Workers : proc'[w] = proc[w]
  BY DEF FinishRoot, StopGroup, RootExited, idVars, TypeOK, Runs
<1>2. Group(r) \in SUBSET Workers /\ \A w \in Workers : parent[w] \in {r} => w \in Group(r)
  BY DEF Group
<1>3. ASSUME rootState[r] = "active", StopWorkers(Group(r)),
             NEW s \in {"completed", "cancelled", "interrupted"}, CloseRoot(r, s)
      PROVE  Kept
  <2>1. /\ \A q \in {r} : rootState[q] = "active" /\ rootState'[q] \notin {"none", "active"}
        /\ \A q \in Roots \ {r} : rootState'[q] = rootState[q]
    BY <1>3 DEF CloseRoot, TypeOK
  <2>2. {r} \in SUBSET Roots /\ \A w \in Workers : proc'[w] = "none" <=> proc[w] = "none"
    BY <1>1
  <2>3. TypeOK /\ OrderInv /\ UNCHANGED <<parent, twork, tseq>>
    BY <1>1
  <2> HIDE DEF Kept
  <2> QED BY <1>2, <1>3, <2>1, <2>2, <2>3, StopKept
<1>4. ASSUME StopWorkers(Group(r)), UNCHANGED rootState
      PROVE  Kept
  <2>1. {} \in SUBSET Roots
    OBVIOUS
  <2> QED BY <1>1, <1>2, <1>4, <2>1, StopKept
<1>5. ASSUME UNCHANGED <<rootState, avail, taskVars>>
      PROVE  Kept
  BY <1>1, <1>5, UnseenKept DEF taskVars
<1> QED BY <1>3, <1>4, <1>5 DEF FinishRoot, StopGroup, RootExited

LEMMA RootLaunchFailedKept ==
  ASSUME GroupInv, OrderInv, NEW r \in Roots, RootLaunchFailed(r)
  PROVE  Kept
<1> USE GroupInvParts, OrchestrationAssumption
<1>1. /\ UNCHANGED <<avail, parent, tstate, twork, tseq, tdone>>
      /\ \A w \in Workers : proc'[w] = proc[w]
  BY DEF RootLaunchFailed, idVars, taskVars, TypeOK, Runs
<1>2. CASE rootState[r] = "active"
  <2>1. rootState' = [rootState EXCEPT ![r] = "interrupted"]
    BY <1>2 DEF RootLaunchFailed, CloseRoot
  <2>2. OrderInv'
    BY <1>1, NothingStartedOrder
  <2>3. Serving' = Serving
    BY <1>1 DEF Serving
  <2>4. Contract!Abandon(r)
    BY <1>1, <1>2, <2>1, <2>3 DEF Contract!Abandon, Serving, GroupOf, TypeOK
  <2> QED BY <2>2, <2>4 DEF Kept, Contract!Next
<1>3. CASE rootState[r] # "active"
  BY <1>1, <1>3, UnseenKept DEF RootLaunchFailed
<1> QED BY <1>2, <1>3

LEMMA AcceptWorkerKept ==
  ASSUME GroupInv, OrderInv, NEW r \in Roots, NEW w \in Workers, NEW t \in Tasks,
         AcceptWorker(r, w, t)
  PROVE  Kept
<1> USE GroupInvParts, OrchestrationAssumption
<1>1. /\ proc[w] = "none" /\ proc'[w] = "starting"
      /\ \A x \in Workers : x # w => proc'[x] = proc[x]
      /\ tstate[t] = "none" /\ rootState[r] = "active"
      /\ avail[w] = "starting" /\ parent[w] = None
      /\ UNCHANGED <<rootState, avail, tdone>>
  BY DEF AcceptWorker, TypeOK, Runs, WorkerInv
<1>2. TasksOf(w) = {}
  BY <1>1 DEF TasksOf, OrderInv
<1>3. Cardinality(TasksOf(w)) + 1 = 1
  BY <1>2, FS_EmptySet
<1>4. /\ OrderInv'
      /\ \A u \in Tasks : u # t => tseq'[u] = tseq[u]
      /\ \A u \in Tasks : u # t /\ twork[u] = w => tseq[u] < tseq'[t]
  BY <1>1, <1>3, QueueOrder DEF AcceptWorker
<1>5. Serving' = Serving \cup {w}
  BY <1>1 DEF Serving
<1>6. tseq' \in [Tasks -> Nat]
  BY DEF AcceptWorker, TypeOK
<1>7. Contract!Queue(w, t)
  BY <1>1, <1>4, <1>6 DEF Contract!Queue, AcceptWorker
<1>8. Contract!Hire(r, w, t)
  BY <1>1, <1>5, <1>7 DEF Contract!Hire, Serving, GroupOf, AcceptWorker
<1> QED BY <1>4, <1>8 DEF Kept, Contract!Next

LEMMA AssignKept ==
  ASSUME GroupInv, OrderInv, NEW r \in Roots, NEW w \in Workers, NEW t \in Tasks,
         Assign(r, w, t)
  PROVE  Kept
<1> USE GroupInvParts, OrchestrationAssumption
<1>1. /\ UNCHANGED <<proc, rootState, avail, parent, tdone>>
      /\ tstate[t] = "none" /\ rootState[r] = "active" /\ parent[w] = r
      /\ avail[w] # "stopped" /\ proc[w] # "none"
  BY DEF Assign, runVars, Live
<1>2. /\ OrderInv'
      /\ \A u \in Tasks : u # t => tseq'[u] = tseq[u]
      /\ \A u \in Tasks : u # t /\ twork[u] = w => tseq[u] < tseq'[t]
  BY <1>1, QueueOrder DEF Assign, NextSequence
<1>3. Serving' = Serving /\ w \in Serving
  BY <1>1 DEF Serving
<1>4. tseq' \in [Tasks -> Nat]
  <2>1. NextSequence(w) \in Nat
    BY TaskCountType DEF NextSequence, TasksOf
  <2> QED BY <2>1 DEF Assign, TypeOK
<1>5. Contract!Queue(w, t)
  BY <1>1, <1>2, <1>4 DEF Contract!Queue, Assign
<1>6. Contract!Assign(w, t)
  BY <1>1, <1>3, <1>5 DEF Contract!Assign, Serving, GroupOf
<1> QED BY <1>2, <1>6 DEF Kept, Contract!Next

LEMMA StopWorkerKept ==
  ASSUME GroupInv, OrderInv, NEW w \in Workers, StopWorker(w)
  PROVE  Kept
<1> USE GroupInvParts
<1>1. UNCHANGED <<proc, rootState, parent, twork, tseq>> /\ StopWorkers({w})
  BY DEF StopWorker, runVars, idVars
<1>2. {w} \in SUBSET Workers /\ {} \in SUBSET Roots
  OBVIOUS
<1> QED BY <1>1, <1>2, StopKept

\* The launch of a worker failed, or its process ended.
LEMMA WorkerEndKept ==
  ASSUME GroupInv, OrderInv, NEW w \in Workers, Retire({w}),
         NEW outcome \in [Tasks -> Settled], Settle({w}, outcome),
         Live(w), NEW s \in {"exited", "lost"}, proc' = [proc EXCEPT ![w] = s],
         UNCHANGED <<rootState, parent, twork, tseq>>
  PROVE  Kept
<1> USE GroupInvParts
<1>1. \A x \in Workers : proc'[x] = "none" <=> proc[x] = "none"
  BY DEF Live, TypeOK, Runs
<1>2. {w} \in SUBSET Workers /\ {} \in SUBSET Roots
  OBVIOUS
<1> QED BY <1>1, <1>2, LeaveKept

LEMMA WorkerGoneKept ==
  ASSUME GroupInv, OrderInv, NEW w \in Workers,
         NEW code \in {"succeeded", "failed"}, WorkerLaunchFailed(w) \/ WorkerExited(w, code)
  PROVE  Kept
<1> DEFINE lost    == [t \in Tasks |-> "interrupted"]
           decided == [t \in Tasks |-> IF w \in ExitCodeWorkers /\ t \in RunningAtExit(w)
                                       THEN code ELSE "interrupted"]
<1>1. lost \in [Tasks -> Settled] /\ decided \in [Tasks -> Settled]
  BY DEF Settled
<1>2. CASE WorkerLaunchFailed(w)
  <2>1. /\ Retire({w}) /\ Settle({w}, lost) /\ Live(w)
        /\ proc' = [proc EXCEPT ![w] = "lost"]
        /\ UNCHANGED <<rootState, parent, twork, tseq>>
    BY <1>2 DEF WorkerLaunchFailed, idVars, Live
  <2> HIDE DEF lost
  <2> QED BY <1>1, <2>1, WorkerEndKept
<1>3. CASE WorkerExited(w, code)
  <2>1. /\ Retire({w}) /\ Settle({w}, decided) /\ Live(w)
        /\ proc' = [proc EXCEPT ![w] = "exited"]
        /\ UNCHANGED <<rootState, parent, twork, tseq>>
    BY <1>3 DEF WorkerExited, idVars
  <2> HIDE DEF decided
  <2> QED BY <1>1, <2>1, WorkerEndKept
<1> QED BY <1>2, <1>3

LEMMA MarkStartedKept ==
  ASSUME GroupInv, OrderInv, NEW x \in Runs, MarkStarted(x)
  PROVE  Kept
<1> USE GroupInvParts, OrchestrationAssumption
<1>1. /\ UNCHANGED <<rootState, parent, twork, tseq, tdone>>
      /\ proc[x] = "starting"
      /\ \A w \in Workers : proc'[w] = "none" <=> proc[w] = "none"
  BY DEF MarkStarted, MayRecordStart, idVars, TypeOK, Runs
<1>2. CASE x \in Roots
  <2>1. UNCHANGED <<avail, tstate>>
    BY <1>2 DEF MarkStarted
  <2> QED BY <1>1, <2>1, UnseenKept
<1>3. CASE x \in Workers
  <2>1. avail[x] # "stopped" /\ proc[x] # "none"
    BY <1>1, <1>3 DEF MarkStarted, MayRecordStart
  <2>2. ASSUME NEW t \in FirstQueued(x), StartAssignment(x, t)
        PROVE  Kept
    BY <1>1, <1>3, <2>1, <2>2, StartKept
  <2>3. ASSUME avail' = [avail EXCEPT ![x] = "idle"], UNCHANGED tstate
        PROVE  Kept
    <3>1. \A w \in Workers : avail'[w] = "stopped" <=> avail[w] = "stopped"
      BY <1>3, <2>1, <2>3 DEF TypeOK
    <3> QED BY <1>1, <2>3, <3>1, UnseenKept
  <2> QED BY <1>3, <2>2, <2>3 DEF MarkStarted
<1> QED BY <1>2, <1>3 DEF Runs

LEMMA ClaimNextKept ==
  ASSUME GroupInv, OrderInv, NEW w \in Workers, NEW mail \in BOOLEAN, ClaimNext(w, mail)
  PROVE  Kept
<1> USE GroupInvParts
<1>1. /\ UNCHANGED <<proc, rootState, parent, twork, tseq, tdone>>
      /\ avail[w] # "stopped" /\ proc[w] # "none"
  BY DEF ClaimNext, runVars, idVars, Live
<1>2. ASSUME NEW t \in FirstQueued(w), StartAssignment(w, t)
      PROVE  Kept
  BY <1>1, <1>2, StartKept
<1>3. ASSUME avail' = [avail EXCEPT ![w] = IF mail THEN "idle" ELSE "waiting"], UNCHANGED tstate
      PROVE  Kept
  <2>1. \A x \in Workers : avail'[x] = "stopped" <=> avail[x] = "stopped"
    BY <1>1, <1>3 DEF TypeOK
  <2> QED BY <1>1, <1>3, <2>1, UnseenKept
<1> QED BY <1>2, <1>3 DEF ClaimNext

LEMMA MarkWorkerIdleKept ==
  ASSUME GroupInv, OrderInv, NEW w \in Workers, MarkWorkerIdle(w)
  PROVE  Kept
<1> USE GroupInvParts
<1>1. UNCHANGED <<proc, rootState, parent, tstate, twork, tseq, tdone>>
  BY DEF MarkWorkerIdle, runVars, idVars, taskVars
<1>2. \A x \in Workers : avail'[x] = "stopped" <=> avail[x] = "stopped"
  BY DEF MarkWorkerIdle, TypeOK
<1> QED BY <1>1, <1>2, UnseenKept

LEMMA FinishTaskKept ==
  ASSUME GroupInv, OrderInv, NEW x \in Runs, NEW t \in Tasks,
         NEW outcome \in {"succeeded", "failed"}, FinishTask(x, t, outcome)
  PROVE  Kept
<1> USE GroupInvParts
<1>1. /\ UNCHANGED <<proc, rootState, parent, twork, tseq>>
      /\ Open(t)
      /\ tstate' = [tstate EXCEPT ![t] = outcome]
      /\ tdone' = [tdone EXCEPT ![t] = @ + 1]
      /\ avail' = [avail EXCEPT ![twork[t]] = IF cur[twork[t]] = t /\ @ = "busy" THEN "idle" ELSE @]
  BY DEF FinishTask, runVars, idVars
<1>2. \A w \in Workers : avail'[w] = "stopped" <=> avail[w] = "stopped"
  BY <1>1 DEF TypeOK
<1>3. OrderInv'
  BY <1>1, NothingStartedOrder DEF TypeOK
<1>4. Serving' = Serving
  BY <1>1, <1>2 DEF Serving
<1>5. Contract!Report(t, outcome)
  BY <1>1, <1>4 DEF Contract!Report, Contract!Open, Open, Serving
<1>6. outcome \in Contract!Results
  BY DEF Contract!Results
<1> QED BY <1>3, <1>5, <1>6 DEF Kept, Contract!Next

LEMMA InterruptLiveRunsKept ==
  ASSUME GroupInv, OrderInv, InterruptLiveRuns
  PROVE  Kept
<1> USE GroupInvParts, OrchestrationAssumption
<1> DEFINE lostWorkers == {w \in Workers : Live(w)}
           ending      == {r \in Roots : Live(r) /\ rootState[r] = "active"}
           stranded    == {w \in Workers : ~Live(w) /\ parent[w] \in ending /\ avail[w] # "stopped"}
           outcome     == [t \in Tasks |-> IF twork[t] \in stranded THEN "cancelled"
                                                                    ELSE "interrupted"]
<1>1. /\ Retire(lostWorkers \cup stranded) /\ Settle(lostWorkers \cup stranded, outcome)
      /\ UNCHANGED <<parent, twork, tseq>>
      /\ proc' = [x \in Runs |-> IF Live(x) THEN "lost" ELSE proc[x]]
      /\ rootState' = [r \in Roots |-> IF r \in ending THEN "interrupted" ELSE rootState[r]]
  BY DEF InterruptLiveRuns, idVars
<1>2. outcome \in [Tasks -> Settled]
  BY DEF Settled
<1>3. \A w \in Workers : proc'[w] = "none" <=> proc[w] = "none"
  BY <1>1 DEF Live, Runs
<1>4. /\ \A r \in ending : rootState[r] = "active" /\ rootState'[r] \notin {"none", "active"}
      /\ \A r \in Roots \ ending : rootState'[r] = rootState[r]
  BY <1>1
<1>5. /\ ending \in SUBSET Roots /\ lostWorkers \cup stranded \in SUBSET Workers
      /\ \A w \in Workers : w \in Serving /\ parent[w] \in ending => w \in lostWorkers \cup stranded
  BY DEF Serving
<1> HIDE DEF lostWorkers, ending, stranded, outcome
<1> QED BY <1>1, <1>2, <1>3, <1>4, <1>5, LeaveKept

-----------------------------------------------------------------------------
(* The two results.                                                        *)

LEMMA InitKept == Init => OrderInv /\ Contract!Init
<1> SUFFICES ASSUME Init PROVE OrderInv /\ Contract!Init
  OBVIOUS
<1>1. OrderInv
  BY DEF Init, OrderInv, StartedInOrder
<1>2. Contract!Init
  BY DEF Init, Contract!Init, GroupOf, Runs
<1> QED BY <1>1, <1>2

LEMMA NextKept == GroupInv /\ OrderInv /\ [Next]_vars => Kept
<1> SUFFICES ASSUME GroupInv, OrderInv, [Next]_vars PROVE Kept
  OBVIOUS
<1>1. ASSUME NEW r \in Roots, RootStep(r)
      PROVE  Kept
  <2>1. ASSUME NEW w \in Workers, NEW t \in Tasks, AcceptWorker(r, w, t) \/ Assign(r, w, t)
        PROVE  Kept
    BY <2>1, AcceptWorkerKept, AssignKept
  <2>2. ASSUME RegisterLead(r) \/ \E p \in Terminals : RegisterPane(r, p)
        PROVE  Kept
    BY <2>2, RegisterRootKept DEF RegisterLead, RegisterPane
  <2>3. CASE MarkStarted(r)
    BY <2>3, MarkStartedKept DEF Runs
  <2>4. CASE FinishRoot(r) \/ StopGroup(r) \/ RootExited(r)
    BY <2>4, RootEndKept
  <2>5. CASE RootLaunchFailed(r)
    BY <2>5, RootLaunchFailedKept
  <2> QED BY <1>1, <2>1, <2>2, <2>3, <2>4, <2>5 DEF RootStep
<1>2. ASSUME NEW w \in Workers, WorkerStep(w)
      PROVE  Kept
  <2>1. ASSUME NEW code \in {"succeeded", "failed"}, WorkerLaunchFailed(w) \/ WorkerExited(w, code)
        PROVE  Kept
    BY <2>1, WorkerGoneKept
  <2>2. CASE MarkStarted(w)
    BY <2>2, MarkStartedKept DEF Runs
  <2>3. CASE StopWorker(w)
    BY <2>3, StopWorkerKept
  <2>4. ASSUME NEW mail \in BOOLEAN, ClaimNext(w, mail)
        PROVE  Kept
    BY <2>4, ClaimNextKept
  <2>5. CASE MarkWorkerIdle(w)
    BY <2>5, MarkWorkerIdleKept
  <2> QED BY <1>2, <2>1, <2>2, <2>3, <2>4, <2>5 DEF WorkerStep
<1>3. ASSUME NEW x \in Runs, NEW t \in Tasks, NEW outcome \in {"succeeded", "failed"},
             FinishTask(x, t, outcome)
      PROVE  Kept
  BY <1>3, FinishTaskKept
<1>4. CASE InterruptLiveRuns
  BY <1>4, InterruptLiveRunsKept
<1>5. CASE UNCHANGED vars
  BY <1>5, UnseenKept, GroupInvParts DEF vars
<1> QED BY <1>1, <1>2, <1>3, <1>4, <1>5 DEF Next

\* For any number of workers and assignments, no assignment starts before one
\* queued earlier for the same worker, whichever of `next' (model.rs
\* claim_next) and the recorded start (mark_started) starts it.
THEOREM InStartOrder == Spec => []StartedInOrder
<1>1. Spec => []OrderInv
  BY GroupInvariant, InitKept, NextKept, PTL DEF Spec, Kept
<1> QED BY <1>1, PTL DEF OrderInv

\* The model of the records implements the contract of AgentGroup: every
\* method of Model (orchestration/model.rs) is one of its steps or none.
THEOREM ContractKept == Spec => KeepsContract
<1>1. GroupInv /\ OrderInv /\ [Next]_vars => OrderInv' /\ [Contract!Next]_(Contract!vars)
  BY NextKept DEF Kept
<1> QED BY <1>1, GroupInvariant, InitKept, PTL DEF Spec, KeepsContract, Contract!Spec

=============================================================================
