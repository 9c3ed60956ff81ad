------------------------- MODULE OrchestrationProofs -------------------------
(***************************************************************************)
(* Proofs about Orchestration for every number of roots, workers,          *)
(* assignments and panes and every value of the limits.                    *)
(***************************************************************************)
EXTENDS Orchestration, FiniteSetTheorems, TLAPS

-----------------------------------------------------------------------------
(* The steps shared by the actions keep the types of what they assign.     *)

LEMMA WorkerCountType ==
  ASSUME NEW S \in SUBSET Workers
  PROVE  Cardinality(S) \in Nat
  BY FS_Subset, FS_CardinalityType, OrchestrationAssumption

LEMMA TaskCountType ==
  ASSUME NEW S \in SUBSET Tasks
  PROVE  Cardinality(S) \in Nat
  BY FS_Subset, FS_CardinalityType, OrchestrationAssumption

LEMMA RootCountType ==
  ASSUME NEW S \in SUBSET Roots
  PROVE  Cardinality(S) \in Nat
  BY FS_Subset, FS_CardinalityType, OrchestrationAssumption

LEMMA RefreshBudgetType ==
  ASSUME TypeOK, NEW r, RefreshBudget(r)
  PROVE  liveWorkers' \in [Roots -> Nat]
<1>1. Cardinality(LiveOf(r)') \in Nat
  <2>1. LiveOf(r)' \in SUBSET Workers
    BY DEF LiveOf, Group
  <2> QED BY <2>1, WorkerCountType
<1> QED BY <1>1 DEF TypeOK, RefreshBudget

LEMMA RetireType ==
  ASSUME TypeOK, NEW S, Retire(S)
  PROVE  avail' \in [Workers -> WorkerAvail]
  BY DEF TypeOK, Retire, WorkerAvail

LEMMA SettleType ==
  ASSUME TypeOK, NEW S, NEW outcome \in [Tasks -> Settled], Settle(S, outcome)
  PROVE  /\ tstate' \in [Tasks -> TaskState]
         /\ tdone' \in [Tasks -> Nat]
         /\ cur' \in [Workers -> Tasks \cup {None}]
  BY DEF TypeOK, Settle, TaskState

LEMMA StopWorkersType ==
  ASSUME TypeOK, NEW S, StopWorkers(S)
  PROVE  /\ avail' \in [Workers -> WorkerAvail]
         /\ tstate' \in [Tasks -> TaskState]
         /\ tdone' \in [Tasks -> Nat]
         /\ cur' \in [Workers -> Tasks \cup {None}]
<1>1. [t \in Tasks |-> "cancelled"] \in [Tasks -> Settled]
  BY DEF Settled
<1> QED BY <1>1, RetireType, SettleType DEF StopWorkers

LEMMA CloseRootType ==
  ASSUME TypeOK, NEW r \in Roots, NEW s \in RootState, CloseRoot(r, s)
  PROVE  rootState' \in [Roots -> RootState] /\ rdone' \in [Roots -> Nat]
  BY DEF TypeOK, CloseRoot

LEMMA StartAssignmentType ==
  ASSUME TypeOK, NEW w \in Workers, NEW t \in Tasks, StartAssignment(w, t)
  PROVE  /\ tstate' \in [Tasks -> TaskState]
         /\ cur' \in [Workers -> Tasks \cup {None}]
         /\ avail' \in [Workers -> WorkerAvail]
  BY DEF TypeOK, StartAssignment, TaskState, WorkerAvail

-----------------------------------------------------------------------------
(* Type correctness, action by action.                                     *)

LEMMA RootStepType ==
  ASSUME TypeOK, NEW r \in Roots, RootStep(r)
  PROVE  TypeOK'
<1>1. ASSUME NEW p \in Terminals, NEW managed \in BOOLEAN, RegisterRoot(r, p, managed)
      PROVE  TypeOK'
  <2>1. Cardinality({q \in Roots : proc[q] # "none"}) + 1 \in Nat
    BY RootCountType
  <2>2. /\ proc' \in [Runs -> ProcState]
        /\ rootState' \in [Roots -> RootState]
        /\ term' \in [Roots -> Terminals \cup {None}]
        /\ born' \in [Roots -> Nat]
    BY <1>1, <2>1 DEF TypeOK, RegisterRoot, Runs, ProcState, RootState
  <2> QED BY <1>1, <2>2
          DEF TypeOK, RegisterRoot, idVars, taskVars, costVars
<1>2. ASSUME NEW p \in Terminals, RegisterPane(r, p)
      PROVE  TypeOK'
  BY <1>1, <1>2 DEF RegisterPane
<1>3. CASE RegisterLead(r)
  BY <1>1, <1>3 DEF RegisterLead, Terminals
<1>4. CASE FinishRoot(r)
  <2>1. rootState' \in [Roots -> RootState] /\ rdone' \in [Roots -> Nat]
    BY <1>4, CloseRootType DEF FinishRoot, RootState
  <2>2. liveWorkers' \in [Roots -> Nat]
    BY <1>4, RefreshBudgetType DEF FinishRoot
  <2>3. StopWorkers(Group(r))
    BY <1>4 DEF FinishRoot
  <2> QED BY <1>4, <2>1, <2>2, <2>3, StopWorkersType DEF FinishRoot, TypeOK, idVars
<1>5. CASE StopGroup(r)
  <2>1. rootState' \in [Roots -> RootState] /\ rdone' \in [Roots -> Nat]
    BY <1>5, CloseRootType DEF StopGroup, RootState, TypeOK
  <2>2. liveWorkers' \in [Roots -> Nat]
    BY <1>5, RefreshBudgetType DEF StopGroup
  <2>3. StopWorkers(Group(r))
    BY <1>5 DEF StopGroup
  <2> QED BY <1>5, <2>1, <2>2, <2>3, StopWorkersType DEF StopGroup, TypeOK, idVars
<1>6. CASE MarkStarted(r)
  <2>1. proc' \in [Runs -> ProcState]
    BY <1>6 DEF MarkStarted, TypeOK, Runs, ProcState
  <2>2. UNCHANGED <<avail, cur, tstate, liveWorkers>>
    BY <1>6, OrchestrationAssumption DEF MarkStarted
  <2> QED BY <1>6, <2>1, <2>2 DEF MarkStarted, TypeOK, idVars
<1>7. CASE RootLaunchFailed(r)
  <2>1. rootState' \in [Roots -> RootState] /\ rdone' \in [Roots -> Nat]
    BY <1>7, CloseRootType DEF RootLaunchFailed, RootState, TypeOK
  <2>2. liveWorkers' \in [Roots -> Nat]
    BY <1>7, RefreshBudgetType DEF RootLaunchFailed
  <2>3. proc' \in [Runs -> ProcState]
    BY <1>7 DEF RootLaunchFailed, TypeOK, Runs, ProcState
  <2> QED BY <1>7, <2>1, <2>2, <2>3 DEF RootLaunchFailed, TypeOK, idVars, taskVars
<1>8. CASE RootExited(r)
  <2>1. rootState' \in [Roots -> RootState] /\ rdone' \in [Roots -> Nat]
    BY <1>8, CloseRootType DEF RootExited, RootState, TypeOK
  <2>2. liveWorkers' \in [Roots -> Nat]
    BY <1>8, RefreshBudgetType DEF RootExited
  <2>3. proc' \in [Runs -> ProcState]
    BY <1>8 DEF RootExited, TypeOK, Runs, ProcState
  <2>4. StopWorkers(Group(r)) \/ UNCHANGED <<avail, taskVars>>
    BY <1>8 DEF RootExited
  <2>5. /\ avail' \in [Workers -> WorkerAvail]
        /\ tstate' \in [Tasks -> TaskState]
        /\ tdone' \in [Tasks -> Nat]
        /\ cur' \in [Workers -> Tasks \cup {None}]
    BY <2>4, StopWorkersType DEF TypeOK, taskVars
  <2> QED BY <1>8, <2>1, <2>2, <2>3, <2>5 DEF RootExited, TypeOK, idVars
<1>9. ASSUME NEW w \in Workers, NEW t \in Tasks, AcceptWorker(r, w, t)
      PROVE  TypeOK'
  <2>1. liveWorkers' \in [Roots -> Nat]
    BY <1>9, RefreshBudgetType DEF AcceptWorker
  <2>2. /\ proc' \in [Runs -> ProcState]
        /\ parent' \in [Workers -> Roots \cup {None}]
        /\ tstate' \in [Tasks -> TaskState]
        /\ twork' \in [Tasks -> Workers \cup {None}]
        /\ tseq' \in [Tasks -> Nat]
        /\ consumed' \in [Roots -> Nat]
    BY <1>9 DEF AcceptWorker, TypeOK, Runs, ProcState, TaskState
  <2> QED BY <1>9, <2>1, <2>2 DEF AcceptWorker, TypeOK
<1>10. ASSUME NEW w \in Workers, NEW t \in Tasks, Assign(r, w, t)
       PROVE  TypeOK'
  <2>1. NextSequence(w) \in Nat
    BY TaskCountType DEF NextSequence, TasksOf
  <2>2. /\ tstate' \in [Tasks -> TaskState]
        /\ twork' \in [Tasks -> Workers \cup {None}]
        /\ tseq' \in [Tasks -> Nat]
    BY <1>10, <2>1 DEF Assign, TypeOK, TaskState
  <2> QED BY <1>10, <2>2 DEF Assign, TypeOK, runVars, costVars
<1> QED BY <1>2, <1>3, <1>4, <1>5, <1>6, <1>7, <1>8, <1>9, <1>10 DEF RootStep

LEMMA WorkerStepType ==
  ASSUME TypeOK, NEW w \in Workers, WorkerStep(w)
  PROVE  TypeOK'
<1>1. CASE MarkStarted(w)
  <2>1. proc' \in [Runs -> ProcState]
    BY <1>1 DEF MarkStarted, TypeOK, Runs, ProcState
  <2>2. w \notin Roots
    BY OrchestrationAssumption
  <2>3. liveWorkers' \in [Roots -> Nat]
    BY <1>1, <2>2, RefreshBudgetType DEF MarkStarted
  <2>4. /\ tstate' \in [Tasks -> TaskState]
        /\ cur' \in [Workers -> Tasks \cup {None}]
        /\ avail' \in [Workers -> WorkerAvail]
    <3>1. CASE \E t \in FirstQueued(w) : StartAssignment(w, t)
      BY <3>1, StartAssignmentType DEF FirstQueued, Queued, TasksOf
    <3>2. CASE avail' = [avail EXCEPT ![w] = "idle"] /\ UNCHANGED <<cur, tstate>>
      BY <3>2 DEF TypeOK, WorkerAvail
    <3> QED BY <1>1, <2>2, <3>1, <3>2 DEF MarkStarted
  <2> QED BY <1>1, <2>1, <2>3, <2>4 DEF MarkStarted, TypeOK, idVars
<1>2. CASE WorkerLaunchFailed(w)
  <2>1. [t \in Tasks |-> "interrupted"] \in [Tasks -> Settled]
    BY DEF Settled
  <2>2. /\ tstate' \in [Tasks -> TaskState]
        /\ tdone' \in [Tasks -> Nat]
        /\ cur' \in [Workers -> Tasks \cup {None}]
    BY <1>2, <2>1, SettleType DEF WorkerLaunchFailed
  <2>3. avail' \in [Workers -> WorkerAvail] /\ liveWorkers' \in [Roots -> Nat]
    BY <1>2, RetireType, RefreshBudgetType DEF WorkerLaunchFailed
  <2>4. proc' \in [Runs -> ProcState]
    BY <1>2 DEF WorkerLaunchFailed, TypeOK, Runs, ProcState
  <2> QED BY <1>2, <2>2, <2>3, <2>4 DEF WorkerLaunchFailed, TypeOK, idVars
<1>3. ASSUME NEW code \in {"succeeded", "failed"}, WorkerExited(w, code)
      PROVE  TypeOK'
  <2> DEFINE outcome == [t \in Tasks |-> IF w \in ExitCodeWorkers /\ t \in RunningAtExit(w)
                                         THEN code ELSE "interrupted"]
  <2>1. outcome \in [Tasks -> Settled]
    BY DEF Settled
  <2>2. Settle({w}, outcome)
    BY <1>3 DEF WorkerExited
  <2> HIDE DEF outcome
  <2>3. /\ tstate' \in [Tasks -> TaskState]
        /\ tdone' \in [Tasks -> Nat]
        /\ cur' \in [Workers -> Tasks \cup {None}]
    BY <2>1, <2>2, SettleType
  <2>4. avail' \in [Workers -> WorkerAvail] /\ liveWorkers' \in [Roots -> Nat]
    BY <1>3, RetireType, RefreshBudgetType DEF WorkerExited
  <2>5. proc' \in [Runs -> ProcState]
    BY <1>3 DEF WorkerExited, TypeOK, Runs, ProcState
  <2> QED BY <1>3, <2>3, <2>4, <2>5 DEF WorkerExited, TypeOK, idVars
<1>4. CASE StopWorker(w)
  <2>1. liveWorkers' \in [Roots -> Nat]
    BY <1>4, RefreshBudgetType DEF StopWorker
  <2>2. StopWorkers({w})
    BY <1>4 DEF StopWorker
  <2> QED BY <1>4, <2>1, <2>2, StopWorkersType DEF StopWorker, TypeOK, idVars, runVars
<1>5. ASSUME NEW mail \in BOOLEAN, ClaimNext(w, mail)
      PROVE  TypeOK'
  <2>1. /\ tstate' \in [Tasks -> TaskState]
        /\ cur' \in [Workers -> Tasks \cup {None}]
        /\ avail' \in [Workers -> WorkerAvail]
    <3>1. CASE \E t \in FirstQueued(w) : StartAssignment(w, t)
      BY <3>1, StartAssignmentType DEF FirstQueued, Queued, TasksOf
    <3>2. CASE /\ avail' = [avail EXCEPT ![w] = IF mail THEN "idle" ELSE "waiting"]
               /\ UNCHANGED <<tstate, cur>>
      BY <3>2 DEF TypeOK, WorkerAvail
    <3> QED BY <1>5, <3>1, <3>2 DEF ClaimNext
  <2> QED BY <1>5, <2>1 DEF ClaimNext, TypeOK, idVars, runVars, costVars
<1>6. CASE MarkWorkerIdle(w)
  <2>1. avail' \in [Workers -> WorkerAvail]
    BY <1>6 DEF MarkWorkerIdle, TypeOK, WorkerAvail
  <2> QED BY <1>6, <2>1 DEF MarkWorkerIdle, TypeOK, idVars, runVars, costVars, taskVars
<1> QED BY <1>1, <1>2, <1>3, <1>4, <1>5, <1>6 DEF WorkerStep

LEMMA FinishTaskType ==
  ASSUME TypeOK, NEW x \in Runs, NEW t \in Tasks, NEW outcome \in {"succeeded", "failed"},
         FinishTask(x, t, outcome)
  PROVE  TypeOK'
<1>1. tstate' \in [Tasks -> TaskState] /\ tdone' \in [Tasks -> Nat]
  BY DEF FinishTask, TypeOK, TaskState, Settled
<1>2. cur' \in [Workers -> Tasks \cup {None}] /\ avail' \in [Workers -> WorkerAvail]
  BY DEF FinishTask, TypeOK, WorkerAvail
<1> QED BY <1>1, <1>2 DEF FinishTask, TypeOK, idVars, runVars, costVars

LEMMA InterruptLiveRunsType ==
  ASSUME TypeOK, InterruptLiveRuns
  PROVE  TypeOK'
<1> DEFINE ending   == {r \in Roots : Live(r) /\ rootState[r] = "active"}
           lost     == {w \in Workers : Live(w)}
           stranded == {w \in Workers : ~Live(w) /\ parent[w] \in ending /\ avail[w] # "stopped"}
           outcome  == [t \in Tasks |-> IF twork[t] \in stranded THEN "cancelled"
                                                                 ELSE "interrupted"]
<1>1. /\ Retire(lost \cup stranded)
      /\ Settle(lost \cup stranded, outcome)
  BY DEF InterruptLiveRuns
<1>2. outcome \in [Tasks -> Settled]
  BY DEF Settled
<1>3. /\ proc' \in [Runs -> ProcState]
      /\ rootState' \in [Roots -> RootState]
      /\ rdone' \in [Roots -> Nat]
  BY DEF InterruptLiveRuns, TypeOK, ProcState, RootState
<1>4. liveWorkers' \in [Roots -> Nat]
  <2>1. \A r \in Roots : Cardinality(LiveOf(r)') \in Nat
    BY WorkerCountType DEF LiveOf, Group
  <2> QED BY <2>1 DEF InterruptLiveRuns, TypeOK
<1> HIDE DEF ending, lost, stranded, outcome
<1>5. /\ avail' \in [Workers -> WorkerAvail]
      /\ tstate' \in [Tasks -> TaskState]
      /\ tdone' \in [Tasks -> Nat]
      /\ cur' \in [Workers -> Tasks \cup {None}]
  BY <1>1, <1>2, RetireType, SettleType
<1> QED BY <1>3, <1>4, <1>5 DEF InterruptLiveRuns, TypeOK, idVars

LEMMA NextType == TypeOK /\ [Next]_vars => TypeOK'
<1> SUFFICES ASSUME TypeOK, [Next]_vars PROVE TypeOK'
  OBVIOUS
<1>1. CASE \E r \in Roots : RootStep(r)
  BY <1>1, RootStepType
<1>2. CASE \E w \in Workers : WorkerStep(w)
  BY <1>2, WorkerStepType
<1>3. CASE \E x \in Runs, t \in Tasks, outcome \in {"succeeded", "failed"} :
             FinishTask(x, t, outcome)
  BY <1>3, FinishTaskType
<1>4. CASE InterruptLiveRuns
  BY <1>4, InterruptLiveRunsType
<1>5. CASE UNCHANGED vars
  BY <1>5 DEF vars, TypeOK
<1> QED BY <1>1, <1>2, <1>3, <1>4, <1>5 DEF Next

LEMMA InitType == Init => TypeOK
  BY DEF Init, TypeOK, ProcState, RootState, WorkerAvail, TaskState

\* Every field keeps to its type whatever is called in whatever order.
THEOREM TypeCorrect == Spec => []TypeOK
  BY InitType, NextType, PTL DEF Spec

-----------------------------------------------------------------------------
(* The group invariant.  It falls into what is said of the assignments,    *)
(* of the workers' records, and of the roots.                              *)

TaskInv ==
  /\ OpenTaskHasLiveWorker
  /\ CurrentTaskRuns
  /\ \A t \in Tasks : tstate[t] = "none" <=> twork[t] = None
  /\ \A t \in Tasks : tdone[t] = IF tstate[t] \in Settled THEN 1 ELSE 0

WorkerInv ==
  \A w \in Workers :
    /\ proc[w] = "none" <=> parent[w] = None
    /\ proc[w] = "none" => avail[w] = "starting"
    /\ proc[w] \in {"exited", "lost"} => avail[w] = "stopped"
    /\ parent[w] # None => proc[parent[w]] # "none"

RootInv ==
  /\ \A r \in Roots : rootState[r] = "none" <=> proc[r] = "none"
  /\ \A r \in Roots : rdone[r] = IF rootState[r] \in {"none", "active"} THEN 0 ELSE 1

LEMMA GroupInvParts ==
  GroupInv <=> TypeOK /\ TaskInv /\ WorkerInv /\ RootInv /\ ClosedGroupStopped
  BY DEF GroupInv, RecordsMatch, EndAnnouncedOnce, TaskInv, WorkerInv, RootInv

\* The same for the next state.
LEMMA GroupInvPartsPrime ==
  TypeOK' /\ TaskInv' /\ WorkerInv' /\ RootInv' /\ ClosedGroupStopped' => GroupInv'
  BY DEF GroupInv, RecordsMatch, EndAnnouncedOnce, TaskInv, WorkerInv, RootInv

\* Settling and retiring the same workers keeps the assignments in order.
LEMMA SettleTasks ==
  ASSUME TypeOK, TaskInv, NEW S \in SUBSET Workers, NEW outcome \in [Tasks -> Settled],
         Settle(S, outcome), Retire(S), UNCHANGED twork,
         \A w \in Workers \ S : proc'[w] = proc[w]
  PROVE  TaskInv'
<1>1. ASSUME NEW t \in Tasks, Open(t)'
      PROVE  Open(t) /\ tstate'[t] = tstate[t] /\ twork[t] \in Workers \ S
  BY <1>1 DEF Settle, Open, Settled, TaskInv, OpenTaskHasLiveWorker
<1>2. OpenTaskHasLiveWorker'
  BY <1>1 DEF OpenTaskHasLiveWorker, TaskInv, Retire, Live
<1>3. CurrentTaskRuns'
  BY DEF CurrentTaskRuns, TaskInv, Settle, TypeOK
<1>4. \A t \in Tasks : tstate'[t] = "none" <=> twork'[t] = None
  BY DEF TaskInv, Settle, Settled, Open
<1>5. \A t \in Tasks : tdone'[t] = IF tstate'[t] \in Settled THEN 1 ELSE 0
  BY DEF TaskInv, Settle, Settled, Open
<1> QED BY <1>2, <1>3, <1>4, <1>5 DEF TaskInv

LEMMA StopTasks ==
  ASSUME TypeOK, TaskInv, NEW S \in SUBSET Workers, StopWorkers(S), UNCHANGED twork,
         \A w \in Workers : proc'[w] = proc[w]
  PROVE  /\ TaskInv'
         /\ \A w \in Workers : avail'[w] = IF w \in S THEN "stopped" ELSE avail[w]
<1> DEFINE stopping == {w \in S : avail[w] # "stopped"}
           outcome  == [t \in Tasks |-> "cancelled"]
<1>1. Retire(stopping) /\ Settle(stopping, outcome)
  BY DEF StopWorkers
<1>2. outcome \in [Tasks -> Settled]
  BY DEF Settled
<1>3. \A w \in Workers : avail'[w] = IF w \in S THEN "stopped" ELSE avail[w]
  BY <1>1 DEF Retire
<1> HIDE DEF outcome
<1>4. TaskInv'
  BY <1>1, <1>2, SettleTasks
<1> QED BY <1>3, <1>4

LEMMA StartTasks ==
  ASSUME TypeOK, TaskInv, NEW w \in Workers, NEW t \in FirstQueued(w),
         StartAssignment(w, t), UNCHANGED <<twork, tdone>>,
         \A x \in Workers : Live(x) => Live(x)'
  PROVE  TaskInv'
<1>1. t \in Tasks /\ twork[t] = w /\ tstate[t] = "queued"
  BY DEF FirstQueued, Queued, TasksOf
<1>2. OpenTaskHasLiveWorker'
  BY <1>1 DEF OpenTaskHasLiveWorker, TaskInv, StartAssignment, Open, TypeOK
<1>3. CurrentTaskRuns'
  BY <1>1 DEF CurrentTaskRuns, TaskInv, StartAssignment, TypeOK
<1>4. \A u \in Tasks : tstate'[u] = "none" <=> twork'[u] = None
  BY <1>1 DEF TaskInv, StartAssignment, TypeOK
<1>5. \A u \in Tasks : tdone'[u] = IF tstate'[u] \in Settled THEN 1 ELSE 0
  BY <1>1 DEF TaskInv, StartAssignment, TypeOK, Settled
<1> QED BY <1>2, <1>3, <1>4, <1>5 DEF TaskInv

\* A step that leaves assignments and workers alone and no live worker dead.
LEMMA SameTasks ==
  ASSUME TaskInv, UNCHANGED <<tstate, twork, tdone, cur, avail>>,
         \A x \in Workers : Live(x) => Live(x)'
  PROVE  TaskInv'
  BY DEF TaskInv, OpenTaskHasLiveWorker, CurrentTaskRuns, Open

-----------------------------------------------------------------------------
(* The group invariant, action by action.                                  *)

LEMMA RegisterRootInv ==
  ASSUME GroupInv, NEW r \in Roots, NEW p, NEW managed \in BOOLEAN, RegisterRoot(r, p, managed)
  PROVE  TaskInv' /\ WorkerInv' /\ RootInv' /\ ClosedGroupStopped'
<1> USE GroupInvParts
<1>1. \A w \in Workers : proc'[w] = proc[w]
  BY OrchestrationAssumption DEF RegisterRoot, TypeOK, Runs
<1>2. TaskInv'
  BY <1>1, SameTasks DEF RegisterRoot, idVars, taskVars, Live
<1>3. WorkerInv'
  BY <1>1 DEF RegisterRoot, WorkerInv, TypeOK, Runs, idVars
<1>4. RootInv'
  BY DEF RegisterRoot, RootInv, TypeOK, Runs
<1>5. ClosedGroupStopped'
  BY <1>1 DEF RegisterRoot, ClosedGroupStopped, WorkerInv, TypeOK, Runs, idVars
<1> QED BY <1>2, <1>3, <1>4, <1>5

\* Closing a root together with its group.
LEMMA CloseGroupInv ==
  ASSUME GroupInv, NEW r \in Roots, NEW s \in {"completed", "cancelled", "interrupted"},
         rootState[r] = "active", CloseRoot(r, s), StopWorkers(Group(r)),
         UNCHANGED <<twork, parent>>,
         \A w \in Workers : proc'[w] = proc[w],
         \A q \in Roots : (proc'[q] = "none" <=> proc[q] = "none")
                          /\ (proc[q] = "lost" => proc'[q] = "lost")
  PROVE  TaskInv' /\ WorkerInv' /\ RootInv' /\ ClosedGroupStopped'
<1> USE GroupInvParts
<1>1. TaskInv' /\ \A w \in Workers : avail'[w] = IF w \in Group(r) THEN "stopped" ELSE avail[w]
  BY StopTasks DEF Group
<1>2. \A w \in Workers : parent[w] # None => parent[w] \in Roots
  BY DEF TypeOK
<1>3. WorkerInv'
  BY <1>1, <1>2, OrchestrationAssumption DEF WorkerInv, Group
<1>4. RootInv'
  BY DEF RootInv, CloseRoot, TypeOK
<1>5. ClosedGroupStopped'
  BY <1>1, <1>2 DEF ClosedGroupStopped, WorkerInv, CloseRoot, Group, TypeOK
<1> QED BY <1>1, <1>3, <1>4, <1>5

\* Stopping workers of any group while every process goes on.
LEMMA StopSomeInv ==
  ASSUME GroupInv, NEW S \in SUBSET Workers, StopWorkers(S),
         \A w \in S : proc[w] # "none",
         UNCHANGED <<proc, rootState, twork, parent, rdone>>
  PROVE  TaskInv' /\ WorkerInv' /\ RootInv' /\ ClosedGroupStopped'
<1> USE GroupInvParts
<1>1. TaskInv' /\ \A w \in Workers : avail'[w] = IF w \in S THEN "stopped" ELSE avail[w]
  BY StopTasks
<1>2. WorkerInv'
  BY <1>1 DEF WorkerInv
<1>3. RootInv'
  BY DEF RootInv
<1>4. ClosedGroupStopped'
  BY <1>1 DEF ClosedGroupStopped
<1> QED BY <1>1, <1>2, <1>3, <1>4

\* One worker's process ends, and everything it held is settled.
LEMMA EndWorkerInv ==
  ASSUME GroupInv, NEW w \in Workers, NEW s \in {"exited", "lost"},
         NEW outcome \in [Tasks -> Settled],
         Live(w), proc' = [proc EXCEPT ![w] = s], Retire({w}), Settle({w}, outcome),
         UNCHANGED <<rootState, twork, parent, rdone>>
  PROVE  TaskInv' /\ WorkerInv' /\ RootInv' /\ ClosedGroupStopped'
<1> USE GroupInvParts
<1>1. /\ \A x \in Runs \ {w} : proc'[x] = proc[x]
      /\ proc'[w] = s
  BY DEF TypeOK, Runs
<1>2. \A x \in Workers : avail'[x] = IF x = w THEN "stopped" ELSE avail[x]
  BY DEF Retire
<1>3. TaskInv'
  BY <1>1, SettleTasks DEF Runs
<1>4. \A x \in Workers : parent[x] # None => parent[x] \in Roots /\ parent[x] # w
  BY OrchestrationAssumption DEF TypeOK
<1>5. WorkerInv'
  BY <1>1, <1>2, <1>4 DEF WorkerInv, Live, Runs
<1>6. RootInv'
  BY <1>1, OrchestrationAssumption DEF RootInv, Runs
<1>7. ClosedGroupStopped'
  BY <1>1, <1>2, <1>4 DEF ClosedGroupStopped, WorkerInv, Live, Runs
<1> QED BY <1>3, <1>5, <1>6, <1>7

\* A live worker that was not stopped changes its availability to another one.
LEMMA AvailabilityInv ==
  ASSUME GroupInv, NEW w \in Workers, Live(w), avail[w] # "stopped",
         NEW a \in WorkerAvail \ {"stopped"}, avail' = [avail EXCEPT ![w] = a],
         UNCHANGED <<proc, rootState, parent, rdone>>
  PROVE  WorkerInv' /\ RootInv' /\ ClosedGroupStopped'
<1> USE GroupInvParts
<1>1. WorkerInv'
  BY DEF WorkerInv, Live, TypeOK
<1>2. RootInv'
  BY DEF RootInv
<1>3. ClosedGroupStopped'
  BY DEF ClosedGroupStopped, Live, TypeOK
<1> QED BY <1>1, <1>2, <1>3

LEMMA FinishRootInv ==
  ASSUME GroupInv, NEW r \in Roots, FinishRoot(r)
  PROVE  TaskInv' /\ WorkerInv' /\ RootInv' /\ ClosedGroupStopped'
<1>1. /\ rootState[r] = "active" /\ CloseRoot(r, "completed") /\ StopWorkers(Group(r))
      /\ UNCHANGED <<twork, parent, proc>>
  BY DEF FinishRoot, idVars
<1> QED BY <1>1, CloseGroupInv

LEMMA StopGroupInv ==
  ASSUME GroupInv, NEW r \in Roots, StopGroup(r)
  PROVE  TaskInv' /\ WorkerInv' /\ RootInv' /\ ClosedGroupStopped'
<1>1. StopWorkers(Group(r)) /\ UNCHANGED <<twork, parent, proc>>
  BY DEF StopGroup, idVars
<1>2. CASE rootState[r] = "active"
  BY <1>1, <1>2, CloseGroupInv DEF StopGroup
<1>3. CASE rootState[r] # "active"
  <2>1. UNCHANGED <<rootState, rdone>>
    BY <1>3 DEF StopGroup
  <2>2. \A w \in Group(r) : proc[w] # "none"
    BY OrchestrationAssumption, GroupInvParts DEF Group, WorkerInv
  <2>3. Group(r) \in SUBSET Workers
    BY DEF Group
  <2> QED BY <1>1, <2>1, <2>2, <2>3, StopSomeInv
<1> QED BY <1>2, <1>3

LEMMA RootExitedInv ==
  ASSUME GroupInv, NEW r \in Roots, RootExited(r)
  PROVE  TaskInv' /\ WorkerInv' /\ RootInv' /\ ClosedGroupStopped'
<1> USE GroupInvParts
<1>1. /\ \A w \in Workers : proc'[w] = proc[w]
      /\ \A q \in Roots : q # r => proc'[q] = proc[q]
      /\ proc[r] \in {"starting", "running"} /\ proc'[r] = "exited"
      /\ UNCHANGED <<twork, parent>>
  BY OrchestrationAssumption DEF RootExited, Live, TypeOK, Runs, idVars
<1>2. CASE rootState[r] = "active" /\ CloseRoot(r, "interrupted") /\ StopWorkers(Group(r))
  BY <1>1, <1>2, CloseGroupInv
<1>3. CASE rootState[r] # "active" /\ UNCHANGED <<rootState, rdone, avail, taskVars>>
  <2>1. TaskInv'
    BY <1>1, <1>3, SameTasks DEF taskVars, Live
  <2>2. WorkerInv'
    BY <1>1, <1>3 DEF WorkerInv, TypeOK
  <2>3. RootInv'
    BY <1>1, <1>3 DEF RootInv
  <2>4. ClosedGroupStopped'
    BY <1>1, <1>3 DEF ClosedGroupStopped, WorkerInv, TypeOK
  <2> QED BY <2>1, <2>2, <2>3, <2>4
<1> QED BY <1>2, <1>3 DEF RootExited

LEMMA RootLaunchFailedInv ==
  ASSUME GroupInv, NEW r \in Roots, RootLaunchFailed(r)
  PROVE  TaskInv' /\ WorkerInv' /\ RootInv' /\ ClosedGroupStopped'
<1> USE GroupInvParts
<1>1. /\ \A w \in Workers : proc'[w] = proc[w]
      /\ \A q \in Roots : q # r => proc'[q] = proc[q]
      /\ proc[r] = "starting" /\ proc'[r] = "lost"
      /\ UNCHANGED <<twork, parent, avail, tstate, tdone, cur>>
  BY OrchestrationAssumption DEF RootLaunchFailed, TypeOK, Runs, idVars, taskVars
<1>2. \/ /\ rootState[r] = "active"
         /\ CloseRoot(r, "interrupted")
      \/ UNCHANGED <<rootState, rdone>>
  BY DEF RootLaunchFailed
<1>3. TaskInv'
  BY <1>1, SameTasks DEF Live
<1>4. WorkerInv'
  BY <1>1 DEF WorkerInv, TypeOK
<1>5. RootInv'
  BY <1>1, <1>2 DEF RootInv, CloseRoot, TypeOK
<1>6. ClosedGroupStopped'
  BY <1>1, <1>2 DEF ClosedGroupStopped, WorkerInv, CloseRoot, TypeOK
<1> QED BY <1>3, <1>4, <1>5, <1>6

LEMMA AcceptWorkerInv ==
  ASSUME GroupInv, NEW r \in Roots, NEW w \in Workers, NEW t \in Tasks, AcceptWorker(r, w, t)
  PROVE  TaskInv' /\ WorkerInv' /\ RootInv' /\ ClosedGroupStopped'
<1> USE GroupInvParts, OrchestrationAssumption
<1>1. /\ proc[w] = "none" /\ proc'[w] = "starting"
      /\ \A x \in Runs : x # w => proc'[x] = proc[x]
      /\ parent'[w] = r /\ \A x \in Workers : x # w => parent'[x] = parent[x]
      /\ rootState[r] = "active"
      /\ UNCHANGED <<rootState, avail, cur, tdone, rdone>>
  BY DEF AcceptWorker, TypeOK, Runs
<1>2. /\ tstate[t] = "none" /\ tstate'[t] = "queued" /\ twork'[t] = w
      /\ \A u \in Tasks : u # t => tstate'[u] = tstate[u] /\ twork'[u] = twork[u]
  BY DEF AcceptWorker, TypeOK
<1>3. avail[w] = "starting" /\ proc[r] # "none"
  BY <1>1 DEF WorkerInv, RootInv
<1>4. OpenTaskHasLiveWorker'
  BY <1>1, <1>2, <1>3 DEF OpenTaskHasLiveWorker, TaskInv, Open, Live, Runs
<1>5. CurrentTaskRuns'
  BY <1>1, <1>2 DEF CurrentTaskRuns, TaskInv, TypeOK
<1>6. TaskInv'
  BY <1>1, <1>2, <1>4, <1>5 DEF TaskInv, Settled
<1>7. WorkerInv'
  BY <1>1, <1>3 DEF WorkerInv, Runs, TypeOK
<1>8. RootInv'
  BY <1>1 DEF RootInv, Runs
<1>9. ClosedGroupStopped'
  BY <1>1, <1>3 DEF ClosedGroupStopped, WorkerInv, Runs, TypeOK
<1> QED BY <1>6, <1>7, <1>8, <1>9

LEMMA AssignInv ==
  ASSUME GroupInv, NEW r \in Roots, NEW w \in Workers, NEW t \in Tasks, Assign(r, w, t)
  PROVE  TaskInv' /\ WorkerInv' /\ RootInv' /\ ClosedGroupStopped'
<1> USE GroupInvParts, OrchestrationAssumption
<1>1. UNCHANGED <<proc, rootState, avail, parent, cur, tdone, rdone>>
  BY DEF Assign, runVars, costVars
<1>2. /\ tstate[t] = "none" /\ tstate'[t] = "queued" /\ twork'[t] = w
      /\ \A u \in Tasks : u # t => tstate'[u] = tstate[u] /\ twork'[u] = twork[u]
      /\ avail[w] # "stopped" /\ Live(w)
  BY DEF Assign, TypeOK
<1>3. OpenTaskHasLiveWorker'
  BY <1>1, <1>2 DEF OpenTaskHasLiveWorker, TaskInv, Open, Live
<1>4. CurrentTaskRuns'
  BY <1>1, <1>2 DEF CurrentTaskRuns, TaskInv, TypeOK
<1>5. TaskInv'
  BY <1>1, <1>2, <1>3, <1>4 DEF TaskInv, Settled
<1> QED BY <1>1, <1>5 DEF WorkerInv, RootInv, ClosedGroupStopped

LEMMA MarkStartedInv ==
  ASSUME GroupInv, NEW x \in Runs, MarkStarted(x)
  PROVE  TaskInv' /\ WorkerInv' /\ RootInv' /\ ClosedGroupStopped'
<1> USE GroupInvParts, OrchestrationAssumption
<1>1. /\ proc[x] = "starting" /\ proc'[x] = "running"
      /\ \A y \in Runs : y # x => proc'[y] = proc[y]
      /\ UNCHANGED <<rootState, twork, parent, tdone, rdone>>
  BY DEF MarkStarted, MayRecordStart, TypeOK, Runs, idVars
<1>2. \A w \in Workers : Live(w) => Live(w)'
  BY <1>1 DEF Live, Runs
<1>3. RootInv'
  BY <1>1 DEF RootInv, Runs
<1>4. CASE x \in Roots
  <2>1. UNCHANGED <<avail, cur, tstate>>
    BY <1>4 DEF MarkStarted
  <2>2. TaskInv'
    BY <1>1, <1>2, <2>1, SameTasks
  <2>3. WorkerInv'
    BY <1>1, <2>1 DEF WorkerInv, Runs, TypeOK
  <2>4. ClosedGroupStopped'
    BY <1>1, <2>1 DEF ClosedGroupStopped, WorkerInv, Runs, TypeOK
  <2> QED BY <1>3, <2>2, <2>3, <2>4
<1>5. CASE x \in Workers
  <2>1. PICK a \in {"busy", "idle"} : avail' = [avail EXCEPT ![x] = a]
    BY <1>5 DEF MarkStarted, StartAssignment
  <2>2. avail[x] # "stopped"
    BY <1>5 DEF MarkStarted, MayRecordStart
  <2>3. TaskInv'
    <3>1. CASE \E t \in FirstQueued(x) : StartAssignment(x, t)
      BY <1>1, <1>2, <1>5, <3>1, StartTasks
    <3>2. CASE avail' = [avail EXCEPT ![x] = "idle"] /\ UNCHANGED <<cur, tstate>>
      BY <1>1, <1>2, <1>5, <3>2
      DEF TaskInv, OpenTaskHasLiveWorker, CurrentTaskRuns, Open, TypeOK
    <3> QED BY <1>5, <3>1, <3>2 DEF MarkStarted
  <2>4. WorkerInv'
    BY <1>1, <1>5, <2>1, <2>2 DEF WorkerInv, Runs, TypeOK
  <2>5. ClosedGroupStopped'
    BY <1>1, <1>5, <2>1, <2>2 DEF ClosedGroupStopped, WorkerInv, Runs, TypeOK, MarkStarted,
                                  MayRecordStart
  <2> QED BY <1>3, <2>3, <2>4, <2>5
<1> QED BY <1>4, <1>5 DEF Runs

LEMMA WorkerStepInv ==
  ASSUME GroupInv, NEW w \in Workers, WorkerStep(w)
  PROVE  TaskInv' /\ WorkerInv' /\ RootInv' /\ ClosedGroupStopped'
<1> USE GroupInvParts
<1>1. CASE MarkStarted(w)
  BY <1>1, MarkStartedInv DEF Runs
<1>2. CASE WorkerLaunchFailed(w)
  <2>1. [t \in Tasks |-> "interrupted"] \in [Tasks -> Settled]
    BY DEF Settled
  <2>2. Live(w)
    BY <1>2 DEF WorkerLaunchFailed, Live
  <2> QED BY <1>2, <2>1, <2>2, EndWorkerInv DEF WorkerLaunchFailed, idVars
<1>3. ASSUME NEW code \in {"succeeded", "failed"}, WorkerExited(w, code)
      PROVE  TaskInv' /\ WorkerInv' /\ RootInv' /\ ClosedGroupStopped'
  <2> DEFINE outcome == [t \in Tasks |-> IF w \in ExitCodeWorkers /\ t \in RunningAtExit(w)
                                         THEN code ELSE "interrupted"]
  <2>1. outcome \in [Tasks -> Settled]
    BY DEF Settled
  <2>2. Settle({w}, outcome)
    BY <1>3 DEF WorkerExited
  <2> HIDE DEF outcome
  <2> QED BY <1>3, <2>1, <2>2, EndWorkerInv DEF WorkerExited, idVars
<1>4. CASE StopWorker(w)
  BY <1>4, StopSomeInv DEF StopWorker, runVars, idVars
<1>5. ASSUME NEW mail \in BOOLEAN, ClaimNext(w, mail)
      PROVE  TaskInv' /\ WorkerInv' /\ RootInv' /\ ClosedGroupStopped'
  <2>1. /\ avail[w] # "stopped" /\ Live(w)
        /\ UNCHANGED <<proc, rootState, parent, rdone, twork, tdone>>
    BY <1>5 DEF ClaimNext, runVars, idVars
  <2>2. CASE \E t \in FirstQueued(w) : StartAssignment(w, t)
    <3>1. avail' = [avail EXCEPT ![w] = "busy"]
      BY <2>2 DEF StartAssignment
    <3>2. TaskInv'
      BY <2>1, <2>2, StartTasks DEF Live
    <3> QED BY <2>1, <3>1, <3>2, AvailabilityInv DEF WorkerAvail
  <2>3. ASSUME NEW a \in {"idle", "waiting"}, avail' = [avail EXCEPT ![w] = a],
               UNCHANGED <<tstate, cur>>
        PROVE  TaskInv' /\ WorkerInv' /\ RootInv' /\ ClosedGroupStopped'
    <3>1. TaskInv'
      BY <2>1, <2>3 DEF TaskInv, OpenTaskHasLiveWorker, CurrentTaskRuns, Open, Live, TypeOK
    <3> QED BY <2>1, <2>3, <3>1, AvailabilityInv DEF WorkerAvail
  <2> QED BY <1>5, <2>2, <2>3 DEF ClaimNext
<1>6. CASE MarkWorkerIdle(w)
  <2>1. /\ avail[w] = "waiting" /\ avail' = [avail EXCEPT ![w] = "idle"]
        /\ UNCHANGED <<proc, rootState, parent, rdone, twork, tdone, tstate, cur>>
    BY <1>6 DEF MarkWorkerIdle, runVars, idVars, taskVars
  <2>2. Live(w)
    BY <2>1 DEF WorkerInv, Live, TypeOK, Runs, ProcState
  <2>3. TaskInv'
    BY <2>1 DEF TaskInv, OpenTaskHasLiveWorker, CurrentTaskRuns, Open, Live, TypeOK
  <2> QED BY <2>1, <2>2, <2>3, AvailabilityInv DEF WorkerAvail
<1> QED BY <1>1, <1>2, <1>3, <1>4, <1>5, <1>6 DEF WorkerStep

LEMMA FinishTaskInv ==
  ASSUME GroupInv, NEW x \in Runs, NEW t \in Tasks, NEW outcome \in {"succeeded", "failed"},
         FinishTask(x, t, outcome)
  PROVE  TaskInv' /\ WorkerInv' /\ RootInv' /\ ClosedGroupStopped'
<1> USE GroupInvParts
<1> DEFINE w == twork[t]
<1>1. w \in Workers /\ Live(w) /\ avail[w] # "stopped"
  BY DEF FinishTask, TaskInv, OpenTaskHasLiveWorker
<1>2. PICK a \in WorkerAvail \ {"stopped"} : avail' = [avail EXCEPT ![w] = a]
  BY <1>1 DEF FinishTask, TypeOK, WorkerAvail
<1>3. /\ UNCHANGED <<proc, rootState, parent, rdone, twork>>
      /\ Open(t)
      /\ tstate' = [tstate EXCEPT ![t] = outcome]
      /\ tdone'  = [tdone EXCEPT ![t] = @ + 1]
      /\ cur'    = [cur EXCEPT ![w] = IF @ = t THEN None ELSE @]
  BY DEF FinishTask, runVars, idVars
<1>4. OpenTaskHasLiveWorker'
  BY <1>1, <1>2, <1>3 DEF OpenTaskHasLiveWorker, TaskInv, Open, Live, TypeOK
<1>5. CurrentTaskRuns'
  BY <1>1, <1>3 DEF CurrentTaskRuns, TaskInv, TypeOK
<1>6. \A u \in Tasks : tstate'[u] = "none" <=> twork'[u] = None
  BY <1>3 DEF TaskInv, Open, TypeOK
<1>7. \A u \in Tasks : tdone'[u] = IF tstate'[u] \in Settled THEN 1 ELSE 0
  BY <1>3 DEF TaskInv, Open, TypeOK, Settled
<1>8. TaskInv'
  BY <1>4, <1>5, <1>6, <1>7 DEF TaskInv
<1> QED BY <1>1, <1>2, <1>3, <1>8, AvailabilityInv

LEMMA InterruptLiveRunsInv ==
  ASSUME GroupInv, InterruptLiveRuns
  PROVE  TaskInv' /\ WorkerInv' /\ RootInv' /\ ClosedGroupStopped'
<1> USE GroupInvParts, OrchestrationAssumption
<1> DEFINE ending   == {r \in Roots : Live(r) /\ rootState[r] = "active"}
           lost     == {w \in Workers : Live(w)}
           stranded == {w \in Workers : ~Live(w) /\ parent[w] \in ending /\ avail[w] # "stopped"}
           outcome  == [t \in Tasks |-> IF twork[t] \in stranded THEN "cancelled"
                                                                 ELSE "interrupted"]
<1>1. /\ Retire(lost \cup stranded) /\ Settle(lost \cup stranded, outcome)
      /\ \A x \in Runs : proc'[x] = IF Live(x) THEN "lost" ELSE proc[x]
      /\ \A r \in Roots : rootState'[r] = IF r \in ending THEN "interrupted" ELSE rootState[r]
      /\ \A r \in Roots : rdone'[r] = IF r \in ending THEN rdone[r] + 1 ELSE rdone[r]
      /\ UNCHANGED <<twork, parent>>
  BY DEF InterruptLiveRuns, idVars
<1>2. outcome \in [Tasks -> Settled]
  BY DEF Settled
<1>3. \A w \in Workers : avail'[w] = IF w \in lost \cup stranded THEN "stopped" ELSE avail[w]
  BY <1>1 DEF Retire
<1>4. TaskInv'
  <2>1. \A w \in Workers \ (lost \cup stranded) : proc'[w] = proc[w]
    BY <1>1 DEF Runs
  <2> HIDE DEF outcome
  <2> QED BY <1>1, <1>2, <2>1, SettleTasks
<1>5. stranded = {}
  BY DEF WorkerInv, ClosedGroupStopped, Live, TypeOK, Runs, ProcState
<1>6. WorkerInv'
  BY <1>1, <1>3, <1>5 DEF WorkerInv, Live, Runs, TypeOK
<1>7. RootInv'
  BY <1>1 DEF RootInv, Live, Runs, TypeOK
<1>8. ClosedGroupStopped'
  BY <1>1, <1>3, <1>5 DEF ClosedGroupStopped, WorkerInv, Live, Runs, TypeOK
<1> QED BY <1>4, <1>6, <1>7, <1>8

-----------------------------------------------------------------------------
(* The group invariant holds in every reachable state.                     *)

LEMMA InitGroupInv == Init => GroupInv
<1> SUFFICES ASSUME Init PROVE GroupInv
  OBVIOUS
<1>1. TypeOK
  BY InitType
<1>2. RecordsMatch
  BY DEF Init, RecordsMatch, Runs
<1>3. OpenTaskHasLiveWorker /\ CurrentTaskRuns
  BY DEF Init, OpenTaskHasLiveWorker, CurrentTaskRuns, Open
<1>4. ClosedGroupStopped /\ EndAnnouncedOnce
  BY DEF Init, ClosedGroupStopped, EndAnnouncedOnce, Settled, Runs
<1> QED BY <1>1, <1>2, <1>3, <1>4 DEF GroupInv

LEMMA NextGroupInv == GroupInv /\ [Next]_vars => GroupInv'
<1> SUFFICES ASSUME GroupInv, [Next]_vars PROVE GroupInv'
  OBVIOUS
<1>1. TypeOK'
  BY NextType DEF GroupInv
<1>2. ASSUME NEW r \in Roots, RootStep(r)
      PROVE  TaskInv' /\ WorkerInv' /\ RootInv' /\ ClosedGroupStopped'
  <2>1. ASSUME NEW p \in Terminals, RegisterPane(r, p)
        PROVE  TaskInv' /\ WorkerInv' /\ RootInv' /\ ClosedGroupStopped'
    BY <2>1, RegisterRootInv DEF RegisterPane
  <2>2. CASE RegisterLead(r)
    BY <2>2, RegisterRootInv DEF RegisterLead
  <2>3. CASE MarkStarted(r)
    BY <2>3, MarkStartedInv DEF Runs
  <2>4. CASE FinishRoot(r) \/ StopGroup(r) \/ RootLaunchFailed(r) \/ RootExited(r)
    BY <2>4, FinishRootInv, StopGroupInv, RootLaunchFailedInv, RootExitedInv
  <2>5. ASSUME NEW w \in Workers, NEW t \in Tasks, AcceptWorker(r, w, t) \/ Assign(r, w, t)
        PROVE  TaskInv' /\ WorkerInv' /\ RootInv' /\ ClosedGroupStopped'
    BY <2>5, AcceptWorkerInv, AssignInv
  <2> QED BY <1>2, <2>1, <2>2, <2>3, <2>4, <2>5 DEF RootStep
<1>3. ASSUME NEW w \in Workers, WorkerStep(w)
      PROVE  TaskInv' /\ WorkerInv' /\ RootInv' /\ ClosedGroupStopped'
  BY <1>3, WorkerStepInv
<1>4. ASSUME NEW x \in Runs, NEW t \in Tasks, NEW outcome \in {"succeeded", "failed"},
             FinishTask(x, t, outcome)
      PROVE  TaskInv' /\ WorkerInv' /\ RootInv' /\ ClosedGroupStopped'
  BY <1>4, FinishTaskInv
<1>5. ASSUME InterruptLiveRuns
      PROVE  TaskInv' /\ WorkerInv' /\ RootInv' /\ ClosedGroupStopped'
  BY <1>5, InterruptLiveRunsInv
<1>6. ASSUME UNCHANGED vars
      PROVE  TaskInv' /\ WorkerInv' /\ RootInv' /\ ClosedGroupStopped'
  BY <1>6, GroupInvParts
  DEF vars, TaskInv, OpenTaskHasLiveWorker, CurrentTaskRuns, WorkerInv, RootInv,
      ClosedGroupStopped, Open, Live
<1>7. TaskInv' /\ WorkerInv' /\ RootInv' /\ ClosedGroupStopped'
  BY <1>2, <1>3, <1>4, <1>5, <1>6 DEF Next
<1> QED BY <1>1, <1>7, GroupInvPartsPrime

\* The inductive invariant: the four safety properties below with the facts
\* that tie the fields of a record together (RecordsMatch).
THEOREM GroupInvariant == Spec => []GroupInv
  BY InitGroupInv, NextGroupInv, PTL DEF Spec

\* For any number of runs and assignments, an assignment that is not settled
\* has a worker whose process is live and that was not stopped: every way a
\* worker ends (model.rs stop_worker, mark_exited, mark_launch_failed,
\* interrupt_live_runs) settles what it held in the same write.
THEOREM OpenTasksAreServed == Spec => []OpenTaskHasLiveWorker
  BY GroupInvariant, PTL DEF GroupInv

\* A root that finished, was stopped or exited has only stopped workers.
THEOREM ClosedGroupsStop == Spec => []ClosedGroupStopped
  BY GroupInvariant, PTL DEF GroupInv

\* One end event per settled assignment and per ended root, none before.
THEOREM EndsAnnouncedOnce == Spec => []EndAnnouncedOnce
  BY GroupInvariant, PTL DEF GroupInv

-----------------------------------------------------------------------------
(* Ends are final.                                                         *)

Final ==
  /\ \A t \in Tasks : tstate[t] \in Settled => tstate'[t] = tstate[t]
  /\ \A x \in Runs : proc[x] \in {"exited", "lost"} => proc'[x] = proc[x]
  /\ \A w \in Workers : avail[w] = "stopped" => avail'[w] = "stopped"
  /\ \A r \in Roots : rootState[r] \notin {"none", "active"} => rootState'[r] = rootState[r]

LEMMA SettleFinal ==
  ASSUME NEW S, NEW outcome, Settle(S, outcome)
  PROVE  \A t \in Tasks : tstate[t] \in Settled => tstate'[t] = tstate[t]
  BY DEF Settle, Open, Settled

LEMMA StopWorkersFinal ==
  ASSUME NEW S, StopWorkers(S)
  PROVE  /\ \A t \in Tasks : tstate[t] \in Settled => tstate'[t] = tstate[t]
         /\ \A w \in Workers : avail[w] = "stopped" => avail'[w] = "stopped"
  BY SettleFinal DEF StopWorkers, Retire

LEMMA StartAssignmentFinal ==
  ASSUME TypeOK, NEW w \in Workers, avail[w] # "stopped",
         NEW t \in FirstQueued(w), StartAssignment(w, t)
  PROVE  /\ \A u \in Tasks : tstate[u] \in Settled => tstate'[u] = tstate[u]
         /\ \A x \in Workers : avail[x] = "stopped" => avail'[x] = "stopped"
  BY DEF StartAssignment, FirstQueued, Queued, Settled, TypeOK

LEMMA RootStepFinal ==
  ASSUME GroupInv, NEW r \in Roots, RootStep(r)
  PROVE  Final
<1> USE OrchestrationAssumption, GroupInvParts DEF Runs, idVars, taskVars
<1>1. ASSUME NEW p, NEW managed, RegisterRoot(r, p, managed)
      PROVE  Final
  BY <1>1 DEF RegisterRoot, Final, TypeOK, RootInv
<1>2. CASE FinishRoot(r)
  BY <1>2, StopWorkersFinal DEF FinishRoot, Final, CloseRoot, TypeOK
<1>3. CASE StopGroup(r)
  BY <1>3, StopWorkersFinal DEF StopGroup, Final, CloseRoot, TypeOK
<1>4. CASE MarkStarted(r)
  BY <1>4 DEF MarkStarted, MayRecordStart, Final, TypeOK
<1>5. CASE RootLaunchFailed(r)
  BY <1>5 DEF RootLaunchFailed, Final, CloseRoot, TypeOK
<1>6. CASE RootExited(r)
  <2>1. /\ \A t \in Tasks : tstate[t] \in Settled => tstate'[t] = tstate[t]
        /\ \A w \in Workers : avail[w] = "stopped" => avail'[w] = "stopped"
    BY <1>6, StopWorkersFinal DEF RootExited
  <2>2. \A q \in Roots : rootState[q] \notin {"none", "active"} => rootState'[q] = rootState[q]
    BY <1>6 DEF RootExited, CloseRoot, TypeOK
  <2> QED BY <1>6, <2>1, <2>2 DEF RootExited, Final, Live, TypeOK
<1>7. ASSUME NEW w \in Workers, NEW t \in Tasks, AcceptWorker(r, w, t)
      PROVE  Final
  BY <1>7 DEF AcceptWorker, Final, TypeOK, Settled
<1>8. ASSUME NEW w \in Workers, NEW t \in Tasks, Assign(r, w, t)
      PROVE  Final
  BY <1>8 DEF Assign, runVars, Final, TypeOK, Settled
<1> QED BY <1>1, <1>2, <1>3, <1>4, <1>5, <1>6, <1>7, <1>8
        DEF RootStep, RegisterPane, RegisterLead

LEMMA WorkerStepFinal ==
  ASSUME GroupInv, NEW w \in Workers, WorkerStep(w)
  PROVE  Final
<1> USE OrchestrationAssumption, GroupInvParts DEF Runs, idVars, runVars, taskVars
<1>1. CASE MarkStarted(w)
  <2>1. /\ proc[w] = "starting" /\ proc' = [proc EXCEPT ![w] = "running"]
        /\ avail[w] # "stopped" /\ rootState' = rootState
    BY <1>1 DEF MarkStarted, MayRecordStart
  <2>2. /\ \A u \in Tasks : tstate[u] \in Settled => tstate'[u] = tstate[u]
        /\ \A x \in Workers : avail[x] = "stopped" => avail'[x] = "stopped"
    <3>1. CASE \E t \in FirstQueued(w) : StartAssignment(w, t)
      BY <2>1, <3>1, StartAssignmentFinal
    <3>2. CASE avail' = [avail EXCEPT ![w] = "idle"] /\ UNCHANGED <<cur, tstate>>
      BY <2>1, <3>2 DEF TypeOK
    <3> QED BY <1>1, <3>1, <3>2 DEF MarkStarted
  <2> QED BY <2>1, <2>2 DEF Final, TypeOK
<1>2. CASE WorkerLaunchFailed(w)
  BY <1>2, SettleFinal DEF WorkerLaunchFailed, Retire, Final, TypeOK
<1>3. ASSUME NEW code, WorkerExited(w, code)
      PROVE  Final
  <2>1. \A t \in Tasks : tstate[t] \in Settled => tstate'[t] = tstate[t]
    BY <1>3, SettleFinal DEF WorkerExited
  <2> QED BY <1>3, <2>1 DEF WorkerExited, Live, Retire, Final, TypeOK
<1>4. CASE StopWorker(w)
  BY <1>4, StopWorkersFinal DEF StopWorker, Final
<1>5. ASSUME NEW mail, ClaimNext(w, mail)
      PROVE  Final
  <2>1. avail[w] # "stopped" /\ UNCHANGED runVars
    BY <1>5 DEF ClaimNext
  <2>2. CASE \E t \in FirstQueued(w) : StartAssignment(w, t)
    BY <2>1, <2>2, StartAssignmentFinal DEF Final
  <2>3. CASE /\ avail' = [avail EXCEPT ![w] = IF mail THEN "idle" ELSE "waiting"]
             /\ UNCHANGED <<tstate, cur>>
    BY <2>1, <2>3 DEF Final, TypeOK
  <2> QED BY <1>5, <2>2, <2>3 DEF ClaimNext
<1>6. CASE MarkWorkerIdle(w)
  BY <1>6 DEF MarkWorkerIdle, Final, TypeOK
<1> QED BY <1>1, <1>2, <1>3, <1>4, <1>5, <1>6 DEF WorkerStep

LEMMA NextFinal == GroupInv /\ [Next]_vars => Final \/ UNCHANGED vars
<1> SUFFICES ASSUME GroupInv, Next PROVE Final
  OBVIOUS
<1>1. ASSUME NEW x \in Runs, NEW t \in Tasks, NEW outcome \in {"succeeded", "failed"},
             FinishTask(x, t, outcome)
      PROVE  Final
  BY <1>1 DEF FinishTask, Open, Settled, Final, runVars, GroupInv, TypeOK
<1>2. CASE InterruptLiveRuns
  <2>1. \A t \in Tasks : tstate[t] \in Settled => tstate'[t] = tstate[t]
    BY <1>2, SettleFinal DEF InterruptLiveRuns
  <2>2. \A w \in Workers : avail[w] = "stopped" => avail'[w] = "stopped"
    BY <1>2 DEF InterruptLiveRuns, Retire
  <2> QED BY <1>2, <2>1, <2>2 DEF InterruptLiveRuns, Final, Live
<1> QED BY <1>1, <1>2, RootStepFinal, WorkerStepFinal DEF Next

\* No report, exit code, stop, late start or restart changes a settled
\* assignment, revives a process, puts a stopped worker back to work or
\* reopens a root.
THEOREM EndsStayFinal == Spec => EndsAreFinal
<1>1. GroupInv /\ [Next]_vars =>
        [/\ \A t \in Tasks : tstate[t] \in Settled => tstate'[t] = tstate[t]
         /\ \A x \in Runs : proc[x] \in {"exited", "lost"} => proc'[x] = proc[x]
         /\ \A w \in Workers : avail[w] = "stopped" => avail'[w] = "stopped"
         /\ \A r \in Roots : rootState[r] \notin {"none", "active"}
                               => rootState'[r] = rootState[r]]_vars
  BY NextFinal DEF Final
<1> QED BY <1>1, GroupInvariant, PTL DEF Spec, EndsAreFinal

-----------------------------------------------------------------------------
(* Capacity.  A start consumes one of the root's starts for good, so the   *)
(* inductive invariant counts them; the copies of the counts are exact.    *)

CapacityInv ==
  /\ Cardinality(LiveTotal) <= MaxWorkersPerInstance
  /\ \A r \in Roots : /\ Cardinality(LiveOf(r)) <= MaxWorkersPerRoot
                      /\ liveWorkers[r] = Cardinality(LiveOf(r))
                      /\ Cardinality(Group(r)) = consumed[r]
                      /\ consumed[r] <= TotalStarts

LEMMA WorkerSubset ==
  ASSUME NEW S \in SUBSET Workers, NEW T \in SUBSET S
  PROVE  /\ IsFiniteSet(S)
         /\ Cardinality(S) \in Nat /\ Cardinality(T) \in Nat
         /\ Cardinality(T) <= Cardinality(S)
<1>1. IsFiniteSet(S)
  BY FS_Subset, OrchestrationAssumption
<1> QED BY <1>1, FS_Subset, FS_CardinalityType

LEMMA WorkerAdded ==
  ASSUME NEW S \in SUBSET Workers, NEW w \in Workers \ S
  PROVE  Cardinality(S \cup {w}) = Cardinality(S) + 1
  BY WorkerSubset, FS_AddElement

\* A step that starts no worker: the groups stay, no process comes to life,
\* and the count of every root whose live workers change is refreshed.
LEMMA NoStartCapacity ==
  ASSUME CapacityInv, UNCHANGED <<parent, consumed>>,
         \A w \in Workers : Live(w)' => Live(w),
         \A r \in Roots : \/ liveWorkers'[r] = Cardinality(LiveOf(r)')
                          \/ LiveOf(r)' = LiveOf(r) /\ liveWorkers'[r] = liveWorkers[r]
  PROVE  CapacityInv'
<1>1. LiveTotal' \in SUBSET LiveTotal /\ LiveTotal \in SUBSET Workers
  BY DEF LiveTotal
<1>2. Cardinality(LiveTotal') <= MaxWorkersPerInstance
  BY <1>1, WorkerSubset, OrchestrationAssumption DEF CapacityInv
<1>3. ASSUME NEW r \in Roots
      PROVE  /\ Cardinality(LiveOf(r)') <= MaxWorkersPerRoot
             /\ liveWorkers'[r] = Cardinality(LiveOf(r)')
             /\ Cardinality(Group(r)') = consumed'[r]
             /\ consumed'[r] <= TotalStarts
  <2>1. LiveOf(r)' \in SUBSET LiveOf(r) /\ LiveOf(r) \in SUBSET Workers
    BY DEF LiveOf, Group
  <2>2. Cardinality(LiveOf(r)') <= MaxWorkersPerRoot
    BY <2>1, WorkerSubset, OrchestrationAssumption DEF CapacityInv
  <2>3. liveWorkers'[r] = Cardinality(LiveOf(r)')
    BY DEF CapacityInv
  <2>4. Group(r)' = Group(r)
    BY DEF Group
  <2> QED BY <2>2, <2>3, <2>4 DEF CapacityInv
<1> QED BY <1>2, <1>3 DEF CapacityInv

\* The same with every process left as alive as it was and the count of at
\* most one root refreshed.
LEMMA SameProcCapacity ==
  ASSUME TypeOK, CapacityInv, UNCHANGED <<parent, consumed>>, NEW r,
         \A w \in Workers : Live(w)' = Live(w),
         RefreshBudget(r) \/ UNCHANGED liveWorkers
  PROVE  CapacityInv'
<1>1. \A q \in Roots : LiveOf(q)' = LiveOf(q)
  BY DEF LiveOf, Group
<1>2. \A q \in Roots : \/ liveWorkers'[q] = Cardinality(LiveOf(q)')
                       \/ LiveOf(q)' = LiveOf(q) /\ liveWorkers'[q] = liveWorkers[q]
  BY <1>1 DEF RefreshBudget, TypeOK
<1> QED BY <1>2, NoStartCapacity

\* One worker's process ends and its root's count is refreshed.
LEMMA EndCapacity ==
  ASSUME TypeOK, CapacityInv, UNCHANGED <<parent, consumed>>, NEW w \in Workers,
         NEW s \in {"exited", "lost"}, proc' = [proc EXCEPT ![w] = s], RefreshBudget(parent[w])
  PROVE  CapacityInv'
<1>1. /\ \A x \in Workers : Live(x)' => Live(x)
      /\ \A x \in Workers \ {w} : Live(x)' = Live(x)
  BY DEF Live, TypeOK, Runs
<1>2. ASSUME NEW q \in Roots, q # parent[w]
      PROVE  LiveOf(q)' = LiveOf(q) /\ liveWorkers'[q] = liveWorkers[q]
  BY <1>1, <1>2 DEF LiveOf, Group, RefreshBudget, TypeOK
<1>3. ASSUME NEW q \in Roots, q = parent[w]
      PROVE  liveWorkers'[q] = Cardinality(LiveOf(q)')
  BY <1>3 DEF RefreshBudget, TypeOK
<1> QED BY <1>1, <1>2, <1>3, NoStartCapacity

LEMMA AcceptCapacity ==
  ASSUME GroupInv, CapacityInv, NEW r \in Roots, NEW w \in Workers, NEW t \in Tasks,
         AcceptWorker(r, w, t)
  PROVE  CapacityInv'
<1> USE OrchestrationAssumption, GroupInvParts
<1>1. /\ proc[w] = "none" /\ parent[w] = None
      /\ \A x \in Workers : Live(x)' <=> Live(x) \/ x = w
      /\ \A x \in Workers : parent'[x] = IF x = w THEN r ELSE parent[x]
      /\ ~Live(w)
  BY DEF AcceptWorker, WorkerInv, Live, TypeOK, Runs
<1>2. /\ LiveTotal' = LiveTotal \cup {w} /\ w \notin LiveTotal
      /\ LiveOf(r)' = LiveOf(r) \cup {w} /\ w \notin LiveOf(r)
      /\ Group(r)' = Group(r) \cup {w} /\ w \notin Group(r)
  BY <1>1 DEF LiveTotal, LiveOf, Group
<1>3. LiveTotal \in SUBSET Workers /\ LiveOf(r) \in SUBSET Workers /\ Group(r) \in SUBSET Workers
  BY DEF LiveTotal, LiveOf, Group
<1>4. /\ Cardinality(LiveTotal') = Cardinality(LiveTotal) + 1
      /\ Cardinality(LiveOf(r)') = Cardinality(LiveOf(r)) + 1
      /\ Cardinality(Group(r)') = Cardinality(Group(r)) + 1
  BY <1>2, <1>3, WorkerAdded
<1>5. /\ Cardinality(LiveTotal) \in Nat /\ Cardinality(LiveOf(r)) \in Nat
      /\ consumed[r] \in Nat
  BY <1>3, WorkerSubset DEF TypeOK
<1>6. /\ Cardinality(LiveTotal') <= MaxWorkersPerInstance
      /\ Cardinality(LiveOf(r)') <= MaxWorkersPerRoot
      /\ consumed'[r] = consumed[r] + 1 /\ consumed'[r] <= TotalStarts
      /\ liveWorkers'[r] = Cardinality(LiveOf(r)')
  BY <1>4, <1>5 DEF AcceptWorker, RefreshBudget, TypeOK
<1>7. ASSUME NEW q \in Roots, q # r
      PROVE  /\ LiveOf(q)' = LiveOf(q) /\ Group(q)' = Group(q)
             /\ liveWorkers'[q] = liveWorkers[q] /\ consumed'[q] = consumed[q]
  BY <1>1, <1>7 DEF LiveOf, Group, AcceptWorker, RefreshBudget, TypeOK
<1> QED BY <1>4, <1>6, <1>7 DEF CapacityInv

LEMMA RootStepCapacity ==
  ASSUME GroupInv, CapacityInv, NEW r \in Roots, RootStep(r)
  PROVE  CapacityInv'
<1> USE OrchestrationAssumption, GroupInvParts DEF idVars, costVars
<1>1. ASSUME NEW p, NEW managed, RegisterRoot(r, p, managed)
      PROVE  CapacityInv'
  <2>1. \A w \in Workers : Live(w)' = Live(w)
    BY <1>1 DEF RegisterRoot, Live, TypeOK, Runs
  <2> QED BY <1>1, <2>1, SameProcCapacity DEF RegisterRoot
<1>2. CASE FinishRoot(r) \/ StopGroup(r)
  <2>1. UNCHANGED <<proc, parent, consumed>> /\ RefreshBudget(r)
    BY <1>2 DEF FinishRoot, StopGroup
  <2> QED BY <2>1, SameProcCapacity DEF Live
<1>3. CASE MarkStarted(r)
  <2>1. \A w \in Workers : Live(w)' = Live(w)
    BY <1>3 DEF MarkStarted, Live, TypeOK, Runs
  <2>2. UNCHANGED <<parent, consumed, liveWorkers>>
    BY <1>3 DEF MarkStarted
  <2> QED BY <2>1, <2>2, SameProcCapacity
<1>4. CASE RootLaunchFailed(r) \/ RootExited(r)
  <2>1. \A w \in Workers : Live(w)' = Live(w)
    BY <1>4 DEF RootLaunchFailed, RootExited, Live, TypeOK, Runs
  <2>2. UNCHANGED <<parent, consumed>> /\ RefreshBudget(r)
    BY <1>4 DEF RootLaunchFailed, RootExited
  <2> QED BY <2>1, <2>2, SameProcCapacity
<1>5. ASSUME NEW w \in Workers, NEW t \in Tasks, Assign(r, w, t)
      PROVE  CapacityInv'
  BY <1>5, SameProcCapacity DEF Assign, runVars, Live
<1> QED BY <1>1, <1>2, <1>3, <1>4, <1>5, AcceptCapacity
        DEF RootStep, RegisterPane, RegisterLead

LEMMA WorkerStepCapacity ==
  ASSUME GroupInv, CapacityInv, NEW w \in Workers, WorkerStep(w)
  PROVE  CapacityInv'
<1> USE GroupInvParts, OrchestrationAssumption DEF idVars, costVars
<1>1. CASE MarkStarted(w)
  <2>1. \A x \in Workers : Live(x)' = Live(x)
    BY <1>1 DEF MarkStarted, MayRecordStart, Live, TypeOK, Runs
  <2>2. UNCHANGED <<parent, consumed>> /\ RefreshBudget(parent[w])
    BY <1>1 DEF MarkStarted
  <2> QED BY <2>1, <2>2, SameProcCapacity
<1>2. CASE WorkerLaunchFailed(w)
  BY <1>2, EndCapacity DEF WorkerLaunchFailed
<1>3. ASSUME NEW code, WorkerExited(w, code)
      PROVE  CapacityInv'
  BY <1>3, EndCapacity DEF WorkerExited
<1>4. CASE StopWorker(w)
  BY <1>4, SameProcCapacity DEF StopWorker, runVars, Live
<1>5. ASSUME NEW mail, ClaimNext(w, mail)
      PROVE  CapacityInv'
  BY <1>5, SameProcCapacity DEF ClaimNext, runVars, Live
<1>6. CASE MarkWorkerIdle(w)
  BY <1>6, SameProcCapacity DEF MarkWorkerIdle, runVars, Live
<1> QED BY <1>1, <1>2, <1>3, <1>4, <1>5, <1>6 DEF WorkerStep

LEMMA InterruptCapacity ==
  ASSUME GroupInv, CapacityInv, InterruptLiveRuns
  PROVE  CapacityInv'
<1> USE GroupInvParts, OrchestrationAssumption
<1>1. /\ UNCHANGED <<parent, consumed>>
      /\ \A w \in Workers : ~Live(w)'
  BY DEF InterruptLiveRuns, idVars, Live, Runs
<1>2. ASSUME NEW r \in Roots, proc[r] = "none"
      PROVE  LiveOf(r)' = LiveOf(r) /\ liveWorkers'[r] = liveWorkers[r]
  <2>1. Group(r) = {}
    BY <1>2 DEF Group, WorkerInv
  <2> QED BY <1>1, <1>2, <2>1 DEF LiveOf, Group, InterruptLiveRuns
<1>3. ASSUME NEW r \in Roots, proc[r] # "none"
      PROVE  liveWorkers'[r] = Cardinality(LiveOf(r)')
  BY <1>3 DEF InterruptLiveRuns
<1> QED BY <1>1, <1>2, <1>3, NoStartCapacity

LEMMA InitCapacity == Init => CapacityInv
<1> SUFFICES ASSUME Init PROVE CapacityInv
  OBVIOUS
<1>1. LiveTotal = {} /\ \A r \in Roots : LiveOf(r) = {} /\ Group(r) = {}
  BY OrchestrationAssumption DEF Init, LiveTotal, LiveOf, Group, Live, Runs
<1> QED BY <1>1, FS_EmptySet, OrchestrationAssumption DEF CapacityInv, Init

LEMMA NextCapacity == GroupInv /\ CapacityInv /\ [Next]_vars => CapacityInv'
<1> SUFFICES ASSUME GroupInv, CapacityInv, [Next]_vars PROVE CapacityInv'
  OBVIOUS
<1> USE GroupInvParts
<1>1. ASSUME NEW x \in Runs, NEW t \in Tasks, NEW outcome \in {"succeeded", "failed"},
             FinishTask(x, t, outcome)
      PROVE  CapacityInv'
  BY <1>1, SameProcCapacity DEF FinishTask, runVars, idVars, costVars, Live
<1>2. CASE UNCHANGED vars
  BY <1>2, SameProcCapacity DEF vars, Live
<1> QED BY <1>1, <1>2, RootStepCapacity, WorkerStepCapacity, InterruptCapacity DEF Next

\* The limits hold for every number of concurrent launches, exits, failed
\* launches and restarts, and a root sees the real count of its live workers.
THEOREM LimitsHold == Spec => []CapacityHeld
<1>1. CapacityInv => CapacityHeld
  BY DEF CapacityInv, CapacityHeld
<1> QED BY <1>1, GroupInvariant, InitCapacity, NextCapacity, PTL DEF Spec

-----------------------------------------------------------------------------
(* One group per terminal.  An active root is live and newer than every    *)
(* other root its terminal ever had, and no root is newer than the number  *)
(* of roots registered so far; so registering again in its terminal finds  *)
(* it and returns it.                                                      *)

Used == {r \in Roots : proc[r] # "none"}

TerminalInv ==
  /\ \A r \in Used : born[r] <= Cardinality(Used)
  /\ \A r \in Roots : rootState[r] = "active" => Live(r)
  /\ \A r \in Roots, q \in Used :
       rootState[r] = "active" /\ q # r /\ term[q] = term[r] => born[q] < born[r]

LEMMA TerminalInvUnique ==
  TypeOK /\ RootInv /\ TerminalInv => OneActiveRootPerTerminal
  BY DEF TerminalInv, OneActiveRootPerTerminal, RootInv, Used, TypeOK

\* A step that registers no root, closes roots or leaves them, and closes
\* every root whose process it ends.
LEMMA SameRootsTerminal ==
  ASSUME TerminalInv, UNCHANGED <<term, born>>,
         \A r \in Roots : proc'[r] = "none" <=> proc[r] = "none",
         \A r \in Roots : rootState'[r] = "active" => rootState[r] = "active"
                                                    /\ (Live(r) => Live(r)')
  PROVE  TerminalInv'
<1>1. Used' = Used
  BY DEF Used
<1> QED BY <1>1 DEF TerminalInv, Used

LEMMA RegisterTerminal ==
  ASSUME GroupInv, TerminalInv, NEW r \in Roots, NEW p, NEW managed,
         RegisterRoot(r, p, managed)
  PROVE  TerminalInv'
<1> USE GroupInvParts
<1> DEFINE count == Cardinality(Used)
<1>1. /\ proc[r] = "none" /\ proc'[r] \in {"starting", "running"}
      /\ \A q \in Roots : q # r => proc'[q] = proc[q] /\ rootState'[q] = rootState[q]
                                  /\ term'[q] = term[q] /\ born'[q] = born[q]
      /\ rootState'[r] = "active" /\ term'[r] = p /\ born'[r] = count + 1
  BY DEF RegisterRoot, TypeOK, Runs, Used
<1>2. /\ Used' = Used \cup {r} /\ r \notin Used
      /\ Cardinality(Used') = count + 1 /\ count \in Nat
  <2>1. Used' = Used \cup {r} /\ r \notin Used
    BY <1>1 DEF Used
  <2>2. IsFiniteSet(Used)
    BY FS_Subset, OrchestrationAssumption DEF Used
  <2> QED BY <2>1, <2>2, FS_AddElement, FS_CardinalityType
<1>3. \A q \in Roots : born[q] \in Nat
  BY DEF TypeOK
<1> HIDE DEF count
<1>4. \A q \in Used' : born'[q] <= Cardinality(Used')
  BY <1>1, <1>2, <1>3 DEF TerminalInv, Used, count
<1>5. ASSUME NEW q \in Roots, rootState[q] = "active", term[q] = p
      PROVE  FALSE
  <2>1. q \in LiveRootsAt(p)
    BY <1>5 DEF LiveRootsAt, TerminalInv
  <2>2. \A x \in LiveRootsAt(p) : born[x] <= born[q]
    BY <1>3, <1>5 DEF LiveRootsAt, TerminalInv, Live, Used
  <2> QED BY <1>5, <2>1, <2>2 DEF RegisterRoot, Newest
<1>6. \A q \in Roots : rootState'[q] = "active" => Live(q)'
  BY <1>1 DEF TerminalInv, Live
<1>7. ASSUME NEW x \in Roots, NEW q \in Used', rootState'[x] = "active", q # x,
             term'[q] = term'[x]
      PROVE  born'[q] < born'[x]
  <2>1. CASE x = r
    BY <1>1, <1>2, <1>3, <1>7, <2>1 DEF TerminalInv, Used, count
  <2>2. CASE x # r
    <3>1. rootState[x] = "active" /\ term[x] # p
      BY <1>1, <1>5, <1>7, <2>2
    <3> QED BY <1>1, <1>2, <1>7, <2>2, <3>1 DEF TerminalInv, Used
  <2> QED BY <2>1, <2>2
<1> QED BY <1>4, <1>6, <1>7 DEF TerminalInv, Used

LEMMA RootStepTerminal ==
  ASSUME GroupInv, TerminalInv, NEW r \in Roots, RootStep(r)
  PROVE  TerminalInv'
<1> USE OrchestrationAssumption, GroupInvParts DEF Runs, TypeOK
<1>1. CASE FinishRoot(r) \/ StopGroup(r)
  BY <1>1, SameRootsTerminal DEF FinishRoot, StopGroup, CloseRoot, Live
<1>2. CASE MarkStarted(r)
  BY <1>2, SameRootsTerminal DEF MarkStarted, MayRecordStart, Live
<1>3. CASE RootLaunchFailed(r)
  BY <1>3, SameRootsTerminal DEF RootLaunchFailed, CloseRoot, Live
<1>4. CASE RootExited(r)
  BY <1>4, SameRootsTerminal DEF RootExited, CloseRoot, Live
<1>5. ASSUME NEW w \in Workers, NEW t \in Tasks, AcceptWorker(r, w, t)
      PROVE  TerminalInv'
  BY <1>5, SameRootsTerminal DEF AcceptWorker, Live
<1>6. ASSUME NEW w \in Workers, NEW t \in Tasks, Assign(r, w, t)
      PROVE  TerminalInv'
  BY <1>6, SameRootsTerminal DEF Assign, runVars, Live
<1> QED BY <1>1, <1>2, <1>3, <1>4, <1>5, <1>6, RegisterTerminal
        DEF RootStep, RegisterPane, RegisterLead

LEMMA WorkerStepTerminal ==
  ASSUME GroupInv, TerminalInv, NEW w \in Workers, WorkerStep(w)
  PROVE  TerminalInv'
<1> USE OrchestrationAssumption, GroupInvParts
<1>1. /\ UNCHANGED <<term, born, rootState>>
      /\ \A r \in Roots : proc'[r] = proc[r]
  BY DEF WorkerStep, MarkStarted, WorkerLaunchFailed, WorkerExited, StopWorker, ClaimNext,
         MarkWorkerIdle, runVars, Runs, TypeOK
<1> QED BY <1>1, SameRootsTerminal DEF Live

LEMMA NextTerminal == GroupInv /\ TerminalInv /\ [Next]_vars => TerminalInv'
<1> SUFFICES ASSUME GroupInv, TerminalInv, [Next]_vars PROVE TerminalInv'
  OBVIOUS
<1>1. ASSUME NEW x \in Runs, NEW t \in Tasks, NEW outcome \in {"succeeded", "failed"},
             FinishTask(x, t, outcome)
      PROVE  TerminalInv'
  BY <1>1, SameRootsTerminal DEF FinishTask, runVars, Live
<1>2. CASE InterruptLiveRuns
  BY <1>2, SameRootsTerminal DEF InterruptLiveRuns, Live, Runs
<1>3. CASE UNCHANGED vars
  BY <1>3, SameRootsTerminal DEF vars, Live
<1> QED BY <1>1, <1>2, <1>3, RootStepTerminal, WorkerStepTerminal DEF Next

\* The newest live root of a terminal is its active one, if it has one.
LEMMA TerminalInvariant == Spec => []TerminalInv
<1>1. Init => TerminalInv
  BY DEF Init, TerminalInv, Used, Runs
<1> QED BY <1>1, GroupInvariant, NextTerminal, PTL DEF Spec

\* However often roots register, finish and register again in a terminal
\* (model.rs register_root, current_run_for_terminal), it has at most one
\* active root.
THEOREM OneGroupPerTerminal == Spec => []OneActiveRootPerTerminal
<1>1. GroupInv /\ TerminalInv => OneActiveRootPerTerminal
  BY GroupInvParts, TerminalInvUnique
<1> QED BY <1>1, GroupInvariant, TerminalInvariant, PTL

\* A root keeps its terminal.
LEMMA TermStays ==
  ASSUME [Next]_vars, NEW q \in Roots, proc[q] # "none"
  PROVE  term'[q] = term[q]
<1>1. ASSUME NEW r \in Roots, NEW p, NEW managed, RegisterRoot(r, p, managed)
      PROVE  term'[q] = term[q]
  BY <1>1 DEF RegisterRoot
<1>2. ASSUME NEW r \in Roots, RootStep(r)
      PROVE  term'[q] = term[q]
  BY <1>1, <1>2 DEF RootStep, RegisterPane, RegisterLead, FinishRoot, StopGroup, MarkStarted,
                    RootLaunchFailed, RootExited, AcceptWorker, Assign, runVars
<1>3. ASSUME NEW w \in Workers, WorkerStep(w)
      PROVE  UNCHANGED term
  BY <1>3 DEF WorkerStep, MarkStarted, WorkerLaunchFailed, WorkerExited, StopWorker, ClaimNext,
              MarkWorkerIdle, runVars
<1>4. ASSUME NEW x \in Runs, NEW t \in Tasks, NEW outcome, FinishTask(x, t, outcome)
      PROVE  UNCHANGED term
  BY <1>4 DEF FinishTask, runVars
<1>5. CASE InterruptLiveRuns
  BY <1>5 DEF InterruptLiveRuns
<1> QED BY <1>2, <1>3, <1>4, <1>5 DEF Next, vars

-----------------------------------------------------------------------------
(* One assignment beside the current one.                                  *)

\* A step after which nothing runs beside a current assignment that did not
\* before, and no worker starts.
LEMMA BesideKept ==
  ASSUME OneBesideCurrent,
         \A w \in Workers : /\ BesideCurrent(w)' \subseteq BesideCurrent(w)
                            /\ proc'[w] = "starting" => proc[w] = "starting"
  PROVE  OneBesideCurrent'
BY DEF OneBesideCurrent, BesideCurrent

LEMMA SettleBeside ==
  ASSUME NEW S, NEW outcome \in [Tasks -> Settled], Settle(S, outcome), UNCHANGED twork,
         NEW w \in Workers
  PROVE  BesideCurrent(w)' \subseteq BesideCurrent(w)
BY DEF Settle, BesideCurrent, TasksOf, Settled, Open

LEMMA StopBeside ==
  ASSUME NEW S, StopWorkers(S), UNCHANGED twork, NEW w \in Workers
  PROVE  BesideCurrent(w)' \subseteq BesideCurrent(w)
<1>1. [t \in Tasks |-> "cancelled"] \in [Tasks -> Settled]
  BY DEF Settled
<1> QED BY <1>1, SettleBeside DEF StopWorkers

LEMMA SameBeside ==
  ASSUME UNCHANGED <<tstate, twork, cur>>, NEW w \in Workers
  PROVE  BesideCurrent(w)' \subseteq BesideCurrent(w)
BY DEF BesideCurrent, TasksOf

\* `next' gives a worker an assignment only when it has no current one, so
\* that none is pushed aside; the record of a start may push one aside.
LEMMA StartBeside ==
  ASSUME GroupInv, NEW w \in Workers, NEW t \in FirstQueued(w), StartAssignment(w, t),
         UNCHANGED twork
  PROVE  \A x \in Workers : BesideCurrent(x)' \subseteq
           IF x = w THEN BesideCurrent(w) \cup {cur[w]} ELSE BesideCurrent(x)
<1>1. t \in Tasks /\ twork[t] = w
  BY DEF FirstQueued, Queued, TasksOf
<1> QED BY <1>1 DEF GroupInv, TypeOK, StartAssignment, BesideCurrent, TasksOf

LEMMA MarkStartedBeside ==
  ASSUME GroupInv, OneBesideCurrent, NEW x \in Runs, MarkStarted(x)
  PROVE  OneBesideCurrent'
<1> USE OrchestrationAssumption DEF GroupInv, TypeOK, Runs
<1>1. /\ proc[x] = "starting" /\ proc' = [proc EXCEPT ![x] = "running"] /\ UNCHANGED twork
  BY DEF MarkStarted, MayRecordStart, idVars
<1>2. CASE UNCHANGED <<cur, tstate>>
  BY <1>1, <1>2, SameBeside, BesideKept
<1>3. ASSUME x \in Workers, NEW t \in FirstQueued(x), StartAssignment(x, t)
      PROVE  OneBesideCurrent'
  <2>1. BesideCurrent(x) = {} /\ proc'[x] = "running"
    BY <1>1, <1>3 DEF OneBesideCurrent
  <2>2. \A y \in Workers : BesideCurrent(y)' \subseteq
          IF y = x THEN {cur[x]} ELSE BesideCurrent(y)
    BY <1>1, <1>3, <2>1, StartBeside
  <2>3. \A y \in Workers : proc'[y] = "starting" => proc[y] = "starting" /\ y # x
    BY <1>1, <1>3
  <2>4. \A y \in Workers : \A u, v \in BesideCurrent(y)' : u = v
    BY <2>2 DEF OneBesideCurrent
  <2> QED BY <2>2, <2>3, <2>4 DEF OneBesideCurrent
<1> QED BY <1>2, <1>3 DEF MarkStarted

LEMMA RootStepBeside ==
  ASSUME GroupInv, OneBesideCurrent, NEW r \in Roots, RootStep(r)
  PROVE  OneBesideCurrent'
<1> USE OrchestrationAssumption DEF GroupInv, TypeOK, Runs, idVars, runVars, taskVars
<1>1. ASSUME NEW p, NEW managed, RegisterRoot(r, p, managed)
      PROVE  OneBesideCurrent'
  <2>1. \A w \in Workers : proc'[w] = proc[w]
    BY <1>1 DEF RegisterRoot
  <2> QED BY <1>1, <2>1, SameBeside, BesideKept DEF RegisterRoot
<1>2. CASE FinishRoot(r) \/ StopGroup(r)
  <2>1. StopWorkers(Group(r)) /\ UNCHANGED <<proc, twork>>
    BY <1>2 DEF FinishRoot, StopGroup
  <2> QED BY <2>1, StopBeside, BesideKept
<1>3. CASE MarkStarted(r)
  BY <1>3, MarkStartedBeside
<1>4. CASE RootLaunchFailed(r) \/ RootExited(r)
  <2>1. /\ \A w \in Workers : proc'[w] = proc[w]
        /\ UNCHANGED twork
        /\ StopWorkers(Group(r)) \/ UNCHANGED <<tstate, cur>>
    BY <1>4 DEF RootLaunchFailed, RootExited
  <2> QED BY <2>1, StopBeside, SameBeside, BesideKept
<1>5. ASSUME NEW w \in Workers, NEW t \in Tasks, AcceptWorker(r, w, t)
      PROVE  OneBesideCurrent'
  <2>1. /\ proc[w] = "none" /\ proc' = [proc EXCEPT ![w] = "starting"]
        /\ tstate' = [tstate EXCEPT ![t] = "queued"] /\ twork' = [twork EXCEPT ![t] = w]
        /\ cur' = cur
    BY <1>5 DEF AcceptWorker
  <2>2. \A x \in Workers : BesideCurrent(x)' \subseteq BesideCurrent(x)
    BY <2>1 DEF BesideCurrent, TasksOf
  <2>3. BesideCurrent(w) = {}
    BY <2>1 DEF BesideCurrent, TasksOf, OpenTaskHasLiveWorker, Live, Open
  <2> QED BY <2>1, <2>2, <2>3 DEF OneBesideCurrent
<1>6. ASSUME NEW w \in Workers, NEW t \in Tasks, Assign(r, w, t)
      PROVE  OneBesideCurrent'
  <2>1. \A x \in Workers : BesideCurrent(x)' \subseteq BesideCurrent(x)
    BY <1>6 DEF Assign, BesideCurrent, TasksOf
  <2> QED BY <1>6, <2>1, BesideKept DEF Assign
<1> QED BY <1>1, <1>2, <1>3, <1>4, <1>5, <1>6 DEF RootStep, RegisterPane, RegisterLead

LEMMA WorkerStepBeside ==
  ASSUME GroupInv, OneBesideCurrent, NEW w \in Workers, WorkerStep(w)
  PROVE  OneBesideCurrent'
<1> USE OrchestrationAssumption DEF GroupInv, TypeOK, Runs, idVars, runVars, taskVars
<1>1. CASE MarkStarted(w)
  BY <1>1, MarkStartedBeside
<1>2. ASSUME NEW s \in {"lost", "exited"}, NEW outcome \in [Tasks -> Settled],
             proc' = [proc EXCEPT ![w] = s], Settle({w}, outcome), UNCHANGED twork
      PROVE  OneBesideCurrent'
  <2>1. \A x \in Workers : proc'[x] = "starting" => proc[x] = "starting"
    BY <1>2
  <2> QED BY <1>2, <2>1, SettleBeside, BesideKept
<1>3. CASE WorkerLaunchFailed(w)
  <2>1. [t \in Tasks |-> "interrupted"] \in [Tasks -> Settled]
    BY DEF Settled
  <2> QED BY <1>2, <1>3, <2>1 DEF WorkerLaunchFailed
<1>4. ASSUME NEW code \in {"succeeded", "failed"}, WorkerExited(w, code)
      PROVE  OneBesideCurrent'
  <2>1. PICK outcome \in [Tasks -> Settled] : Settle({w}, outcome)
    BY <1>4 DEF WorkerExited, Settled
  <2> QED BY <1>2, <1>4, <2>1 DEF WorkerExited
<1>5. CASE StopWorker(w)
  BY <1>5, StopBeside, BesideKept DEF StopWorker
<1>6. ASSUME NEW mail \in BOOLEAN, ClaimNext(w, mail)
      PROVE  OneBesideCurrent'
  <2>1. cur[w] = None /\ UNCHANGED <<proc, twork>>
    BY <1>6 DEF ClaimNext, Busy, Open, CurrentTaskRuns
  <2>2. ASSUME NEW t \in FirstQueued(w), StartAssignment(w, t)
        PROVE  OneBesideCurrent'
    <3>1. t \in Tasks /\ twork[t] = w /\ tstate[t] = "queued"
      BY <2>2 DEF FirstQueued, Queued, TasksOf
    <3>2. \A x \in Workers : BesideCurrent(x)' \subseteq BesideCurrent(x)
      BY <2>1, <2>2, <3>1 DEF BesideCurrent, TasksOf, StartAssignment
    <3> QED BY <2>1, <3>2, BesideKept
  <2>3. CASE UNCHANGED <<tstate, cur>>
    BY <2>1, <2>3, SameBeside, BesideKept
  <2> QED BY <1>6, <2>2, <2>3 DEF ClaimNext
<1>7. CASE MarkWorkerIdle(w)
  BY <1>7, SameBeside, BesideKept DEF MarkWorkerIdle
<1> QED BY <1>1, <1>3, <1>4, <1>5, <1>6, <1>7 DEF WorkerStep

LEMMA NextBeside == GroupInv /\ OneBesideCurrent /\ [Next]_vars => OneBesideCurrent'
<1> SUFFICES ASSUME GroupInv, OneBesideCurrent, [Next]_vars PROVE OneBesideCurrent'
  OBVIOUS
<1> USE OrchestrationAssumption DEF GroupInv, TypeOK, Runs, idVars, runVars, taskVars
<1>1. ASSUME NEW x \in Runs, NEW t \in Tasks, NEW outcome \in {"succeeded", "failed"},
             FinishTask(x, t, outcome)
      PROVE  OneBesideCurrent'
  <2>1. \A w \in Workers : BesideCurrent(w)' \subseteq BesideCurrent(w)
    BY <1>1 DEF FinishTask, BesideCurrent, TasksOf, OpenTaskHasLiveWorker
  <2> QED BY <1>1, <2>1, BesideKept DEF FinishTask
<1>2. CASE InterruptLiveRuns
  <2>1. PICK stranded, S :
          Settle(S, [t \in Tasks |-> IF twork[t] \in stranded THEN "cancelled" ELSE "interrupted"])
    BY <1>2 DEF InterruptLiveRuns
  <2>2. \A T : [t \in Tasks |-> IF twork[t] \in T THEN "cancelled" ELSE "interrupted"]
               \in [Tasks -> Settled]
    BY DEF Settled
  <2>3. UNCHANGED twork /\ \A w \in Workers : proc'[w] # "starting"
    BY <1>2 DEF InterruptLiveRuns, Live
  <2> QED BY <2>1, <2>2, <2>3, SettleBeside, BesideKept
<1>3. CASE UNCHANGED vars
  BY <1>3, SameBeside, BesideKept DEF vars
<1> QED BY <1>1, <1>2, <1>3, RootStepBeside, WorkerStepBeside DEF Next

\* What a bare `finish' reports and `next' redelivers is running, and how far
\* `next' in the window between the start of a process and its record
\* (model.rs claim_next, mark_started) takes a worker from the documented one
\* running assignment: to one beside its current one and never further.
THEOREM OneIsBesideCurrent == Spec => []CurrentAndOneBeside
<1>1. Init => OneBesideCurrent
  BY OrchestrationAssumption DEF Init, OneBesideCurrent, BesideCurrent, TasksOf
<1>2. Spec => []OneBesideCurrent
  BY <1>1, GroupInvariant, NextBeside, PTL DEF Spec
<1>3. GroupInv /\ OneBesideCurrent => CurrentAndOneBeside
  BY DEF GroupInv, CurrentAndOneBeside
<1> QED BY <1>2, <1>3, GroupInvariant, PTL

=============================================================================
