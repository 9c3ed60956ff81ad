---------------------------- MODULE Orchestration ----------------------------
(***************************************************************************)
(* The state every NotMux agent command is decided against: the runs       *)
(* (orchestrating roots and their workers) and the assignments, as         *)
(* src/src/orchestration/model.rs keeps them.  The store applies one       *)
(* command at a time to a copy of this state, writes it to disk and only   *)
(* then makes it visible (store.rs), so each method of `Model' is one      *)
(* action.  The methods are called by many actors (HTTP handlers of the    *)
(* root, its workers, the launcher, the exit recorder, startup) that read  *)
(* before they call: any method may be called in any state, and its own    *)
(* guards are all that protects the state.  Module AgentLaunch adds those  *)
(* callers and the processes they start.                                   *)
(*                                                                         *)
(* Abstracted: names, texts, paths, times and budgets' defaults; messages  *)
(* (a worker's mailbox is a Boolean input of ClaimNext); the event log,    *)
(* of which only the number of "finished" events per assignment and per    *)
(* root is kept.  mark_cleanup_failed is left out: every run is recorded   *)
(* with a terminal, so kill_runs never calls it.                           *)
(*                                                                         *)
(* A definition commented "Faulty" is a plausible wrong version of the one *)
(* after it; nothing uses it but the runs that show which property it      *)
(* breaks.                                                                 *)
(***************************************************************************)
EXTENDS Naturals, FiniteSets

CONSTANTS
  Roots,                  \* run ids of orchestrators
  Workers,                \* run ids of workers
  Tasks,                  \* assignment ids
  Panes,                  \* terminals of the user's own panes
  ExitCodeWorkers,        \* workers accepted with CompletionMode::ExitCode
  MaxWorkersPerRoot,      \* MAX_WORKERS_PER_ROOT
  MaxWorkersPerInstance,  \* MAX_WORKERS_PER_INSTANCE
  MaxQueued,              \* MAX_QUEUED_ASSIGNMENTS_PER_WORKER
  TotalStarts,            \* total_start_budget of every root
  None

ASSUME OrchestrationAssumption ==
  /\ IsFiniteSet(Roots) /\ IsFiniteSet(Workers) /\ IsFiniteSet(Tasks)
  /\ Roots \cap Workers = {} /\ Roots \cap Panes = {}
  /\ None \notin Roots \cup Workers \cup Tasks \cup Panes
  /\ ExitCodeWorkers \subseteq Workers
  /\ MaxWorkersPerRoot \in Nat \ {0} /\ MaxWorkersPerInstance \in Nat \ {0}
  /\ MaxQueued \in Nat \ {0} /\ TotalStarts \in Nat \ {0}

VARIABLES
  proc,         \* process_state of a run; "none": the id is not used yet
  rootState,    \* root_state of a root
  term,         \* terminal_id of a root; a launched root's is its own
  born,         \* created_at_ms of a root, as its rank
  avail,        \* worker_state of a worker
  parent,       \* root_id of a worker
  cur,          \* current_task_id of a worker
  tstate,       \* state of an assignment
  twork,        \* worker_id of an assignment
  tseq,         \* sequence of an assignment among its worker's
  consumed,     \* budget.consumed_starts of a root
  liveWorkers,  \* budget.live_workers of a root, the stored copy
  tdone,        \* number of AssignmentFinished events of an assignment
  rdone         \* number of RootFinished events of a root

runVars  == <<proc, rootState, term, born>>
taskVars == <<tstate, tdone, cur>>
idVars   == <<twork, tseq, parent>>
costVars == <<consumed, liveWorkers>>
vars == <<proc, rootState, term, born, avail, parent, cur, tstate, twork, tseq,
          consumed, liveWorkers, tdone, rdone>>

Runs        == Roots \cup Workers
Terminals   == Panes \cup Roots
ProcState   == {"none", "starting", "running", "exited", "lost"}
RootState   == {"none", "active", "completed", "cancelled", "interrupted"}
WorkerAvail == {"starting", "busy", "waiting", "idle", "stopped"}
Settled     == {"succeeded", "failed", "cancelled", "interrupted"}
TaskState   == {"none", "queued", "running"} \cup Settled

-----------------------------------------------------------------------------
(* What the methods ask of the state.                                      *)

Live(x) == proc[x] \in {"starting", "running"}
Open(t) == tstate[t] \in {"queued", "running"}

Group(r)   == {w \in Workers : parent[w] = r}
LiveOf(r)  == {w \in Group(r) : Live(w)}
LiveTotal  == {w \in Workers : Live(w)}
TasksOf(w) == {t \in Tasks : twork[t] = w}
Queued(w)  == {t \in TasksOf(w) : tstate[t] = "queued"}

\* Faulty: the queue is not sorted by sequence.
AnyQueued(w) == Queued(w)

FirstQueued(w) == {t \in Queued(w) : \A u \in Queued(w) : tseq[t] <= tseq[u]}

\* Faulty: a worker that is still starting is never busy.
BusyOnceStarted(w) == proc[w] = "running" /\ cur[w] # None

Busy(w) == cur[w] # None /\ Open(cur[w])

\* Assignments are never removed: the last sequence is their number.
NextSequence(w) == Cardinality(TasksOf(w)) + 1

\* Faulty: a root that is still starting does not hold its terminal.
RunningRootsAt(p) == {r \in Roots : term[r] = p /\ proc[r] = "running"}

LiveRootsAt(p) == {r \in Roots : term[r] = p /\ Live(r)}
Newest(S) == {r \in S : \A q \in S : born[q] <= born[r]}

-----------------------------------------------------------------------------
(* Steps the methods share.                                                *)

\* Faulty: the budget is counted before the process state changes.
RefreshBudgetFirst(r) ==
  liveWorkers' = [liveWorkers EXCEPT ![r] = Cardinality(LiveOf(r))]

RefreshBudget(r) ==
  liveWorkers' = [liveWorkers EXCEPT ![r] = Cardinality(LiveOf(r)')]

StartAssignment(w, t) ==
  /\ tstate' = [tstate EXCEPT ![t] = "running"]
  /\ cur'    = [cur EXCEPT ![w] = t]
  /\ avail'  = [avail EXCEPT ![w] = "busy"]

\* Every open assignment of the workers in S gets the result outcome[t], its
\* event, and the workers hold no assignment any more.
Settle(S, outcome) ==
  LET settles(t) == twork[t] \in S /\ Open(t)
  IN  /\ tstate' = [t \in Tasks |-> IF settles(t) THEN outcome[t] ELSE tstate[t]]
      /\ tdone'  = [t \in Tasks |-> IF settles(t) THEN tdone[t] + 1 ELSE tdone[t]]
      /\ cur'    = [w \in Workers |-> IF w \in S THEN None ELSE cur[w]]

Retire(S) == avail' = [w \in Workers |-> IF w \in S THEN "stopped" ELSE avail[w]]

\* Faulty: the assignments of the stopped workers stay open.
StopWorkersOnly(S) == Retire(S) /\ UNCHANGED taskVars

\* stop_worker on each worker of S: the ones already stopped stay as they are.
StopWorkers(S) ==
  LET stopping == {w \in S : avail[w] # "stopped"}
  IN  /\ Retire(stopping)
      /\ Settle(stopping, [t \in Tasks |-> "cancelled"])

CloseRoot(r, s) ==
  /\ rootState' = [rootState EXCEPT ![r] = s]
  /\ rdone'     = [rdone EXCEPT ![r] = @ + 1]

-----------------------------------------------------------------------------
Init ==
  /\ proc        = [x \in Runs |-> "none"]
  /\ rootState   = [r \in Roots |-> "none"]
  /\ term        = [r \in Roots |-> None]
  /\ born        = [r \in Roots |-> 0]
  /\ avail       = [w \in Workers |-> "starting"]
  /\ parent      = [w \in Workers |-> None]
  /\ cur         = [w \in Workers |-> None]
  /\ tstate      = [t \in Tasks |-> "none"]
  /\ twork       = [t \in Tasks |-> None]
  /\ tseq        = [t \in Tasks |-> 0]
  /\ consumed    = [r \in Roots |-> 0]
  /\ liveWorkers = [r \in Roots |-> 0]
  /\ tdone       = [t \in Tasks |-> 0]
  /\ rdone       = [r \in Roots |-> 0]

-----------------------------------------------------------------------------
(* Roots.                                                                  *)

\* The terminal's newest live run decides: an active root is returned as it
\* is, any other one is superseded by a new root.  A user's pane is running
\* already; a launched root (managed) starts in a terminal of its own.
RegisterRoot(r, p, managed) ==
  /\ proc[r] = "none"
  /\ \A q \in Newest(LiveRootsAt(p)) : rootState[q] # "active"
  /\ proc'      = [proc EXCEPT ![r] = IF managed THEN "starting" ELSE "running"]
  /\ rootState' = [rootState EXCEPT ![r] = "active"]
  /\ term'      = [term EXCEPT ![r] = p]
  /\ born'      = [born EXCEPT ![r] = Cardinality({q \in Roots : proc[q] # "none"}) + 1]
  /\ UNCHANGED <<avail, idVars, taskVars, costVars, rdone>>

\* `agent register', in a user's pane or in the terminal of a launched root.
RegisterPane(r, p) ==
  /\ p \in Roots => proc[p] # "none"
  /\ RegisterRoot(r, p, FALSE)

\* `agent lead': the terminal id is fresh.
RegisterLead(r) == RegisterRoot(r, r, TRUE)

FinishRoot(r) ==
  /\ rootState[r] = "active"
  /\ CloseRoot(r, "completed")
  /\ StopWorkers(Group(r))
  /\ UNCHANGED <<proc, term, born, idVars, consumed>>
  /\ RefreshBudget(r)

\* `stop' by a root without a target, or with itself as the target.
StopGroup(r) ==
  /\ proc[r] # "none"
  /\ IF rootState[r] = "active" THEN CloseRoot(r, "cancelled")
                                ELSE UNCHANGED <<rootState, rdone>>
  /\ StopWorkers(Group(r))
  /\ UNCHANGED <<proc, term, born, idVars, consumed>>
  /\ RefreshBudget(r)

-----------------------------------------------------------------------------
(* A worker's life.                                                        *)

AcceptWorker(r, w, t) ==
  /\ proc[w] = "none" /\ tstate[t] = "none"
  /\ rootState[r] = "active"
  /\ consumed[r] < TotalStarts
  /\ Cardinality(LiveOf(r)) < MaxWorkersPerRoot
  /\ Cardinality(LiveTotal) < MaxWorkersPerInstance
  /\ proc'     = [proc EXCEPT ![w] = "starting"]
  /\ parent'   = [parent EXCEPT ![w] = r]
  /\ tstate'   = [tstate EXCEPT ![t] = "queued"]
  /\ twork'    = [twork EXCEPT ![t] = w]
  /\ tseq'     = [tseq EXCEPT ![t] = 1]
  /\ consumed' = [consumed EXCEPT ![r] = @ + 1]
  /\ UNCHANGED <<rootState, term, born, avail, cur, tdone, rdone>>
  /\ RefreshBudget(r)

\* Faulty: a stop during the start is overlooked.
MayRecordStartAfterStop(x) == proc[x] = "starting"

\* Faulty: the record of the start revives a run whose exit came first.
MayRecordStartAfterExit(x) ==
  /\ proc[x] \in {"starting", "exited"}
  /\ rootState[IF x \in Roots THEN x ELSE parent[x]] = "active"

\* A stop recorded while the process was being started wins.
MayRecordStart(x) ==
  /\ proc[x] = "starting"
  /\ IF x \in Roots THEN rootState[x] = "active"
     ELSE avail[x] # "stopped" /\ rootState[parent[x]] = "active"

MarkStarted(x) ==
  /\ MayRecordStart(x)
  /\ proc' = [proc EXCEPT ![x] = "running"]
  /\ UNCHANGED <<rootState, term, born, idVars, consumed, tdone, rdone>>
  /\ \/ /\ x \in Roots
        /\ UNCHANGED <<avail, cur, tstate, liveWorkers>>
     \/ /\ x \in Workers
        /\ \E t \in FirstQueued(x) : StartAssignment(x, t)
        /\ RefreshBudget(parent[x])
     \/ /\ x \in Workers
        /\ FirstQueued(x) = {}
        /\ avail' = [avail EXCEPT ![x] = "idle"]
        /\ UNCHANGED <<cur, tstate>>
        /\ RefreshBudget(parent[x])

\* Faulty: the end of a root closed meanwhile is announced again.
RootLaunchFailedTwice(r) ==
  /\ proc[r] = "starting"
  /\ proc' = [proc EXCEPT ![r] = "lost"]
  /\ CloseRoot(r, "interrupted")
  /\ UNCHANGED <<term, born, avail, idVars, taskVars, costVars>>

\* A launched root that never came up ends, its workers are left alone.
RootLaunchFailed(r) ==
  /\ proc[r] = "starting"
  /\ proc' = [proc EXCEPT ![r] = "lost"]
  /\ IF rootState[r] = "active" THEN CloseRoot(r, "interrupted")
                                ELSE UNCHANGED <<rootState, rdone>>
  /\ UNCHANGED <<term, born, avail, idVars, taskVars, consumed>>
  /\ RefreshBudget(r)

WorkerLaunchFailed(w) ==
  /\ proc[w] = "starting"
  /\ proc' = [proc EXCEPT ![w] = "lost"]
  /\ Retire({w})
  /\ Settle({w}, [t \in Tasks |-> "interrupted"])
  /\ UNCHANGED <<rootState, term, born, idVars, consumed, rdone>>
  /\ RefreshBudget(parent[w])

\* Faulty: the exit of a root interrupts only the root.
RootExitedAlone(r) ==
  /\ Live(r)
  /\ proc' = [proc EXCEPT ![r] = "exited"]
  /\ IF rootState[r] = "active" THEN CloseRoot(r, "interrupted")
                                ELSE UNCHANGED <<rootState, rdone>>
  /\ UNCHANGED <<term, born, avail, idVars, taskVars, costVars>>

\* The process of a root ended: nothing more than that when the root was
\* closed before, the end of the whole group when it was active.
RootExited(r) ==
  /\ Live(r)
  /\ proc' = [proc EXCEPT ![r] = "exited"]
  /\ \/ /\ rootState[r] = "active"
        /\ CloseRoot(r, "interrupted")
        /\ StopWorkers(Group(r))
     \/ /\ rootState[r] # "active"
        /\ UNCHANGED <<rootState, rdone, avail, taskVars>>
  /\ UNCHANGED <<term, born, idVars, consumed>>
  /\ RefreshBudget(r)

\* The assignment an exit code decides: the current one, or the first queued
\* one when the process ended before its start was recorded.
RunningAtExit(w) ==
  IF proc[w] = "starting" /\ cur[w] = None
  THEN FirstQueued(w)
  ELSE {t \in TasksOf(w) : t = cur[w] /\ tstate[t] = "running"}

WorkerExited(w, code) ==
  /\ Live(w)
  /\ proc' = [proc EXCEPT ![w] = "exited"]
  /\ Retire({w})
  /\ Settle({w}, [t \in Tasks |-> IF w \in ExitCodeWorkers /\ t \in RunningAtExit(w)
                                  THEN code ELSE "interrupted"])
  /\ UNCHANGED <<rootState, term, born, idVars, consumed, rdone>>
  /\ RefreshBudget(parent[w])

\* `stop' by the root with this target, or by the worker itself.
StopWorker(w) ==
  /\ proc[w] # "none"
  /\ StopWorkers({w})
  /\ UNCHANGED <<runVars, idVars, consumed, rdone>>
  /\ RefreshBudget(parent[w])

-----------------------------------------------------------------------------
(* Assignments.                                                            *)

Assign(r, w, t) ==
  /\ tstate[t] = "none"
  /\ rootState[r] = "active" /\ parent[w] = r
  /\ avail[w] # "stopped" /\ Live(w)
  /\ Cardinality(Queued(w)) < MaxQueued
  /\ tstate' = [tstate EXCEPT ![t] = "queued"]
  /\ twork'  = [twork EXCEPT ![t] = w]
  /\ tseq'   = [tseq EXCEPT ![t] = NextSequence(w)]
  /\ UNCHANGED <<runVars, avail, parent, cur, costVars, tdone, rdone>>

\* `next': a stopped worker is told so and a busy one gets its assignment
\* again or its messages; neither changes anything.  mail: a message waits.
ClaimNext(w, mail) ==
  /\ avail[w] # "stopped" /\ Live(w)
  /\ ~Busy(w)
  /\ \/ \E t \in FirstQueued(w) : StartAssignment(w, t)
     \/ /\ FirstQueued(w) = {}
        /\ avail' = [avail EXCEPT ![w] = IF mail THEN "idle" ELSE "waiting"]
        /\ UNCHANGED <<tstate, cur>>
  /\ UNCHANGED <<runVars, idVars, costVars, tdone, rdone>>

\* A blocked `next' gave up.
MarkWorkerIdle(w) ==
  /\ avail[w] = "waiting"
  /\ avail' = [avail EXCEPT ![w] = "idle"]
  /\ UNCHANGED <<runVars, idVars, taskVars, costVars, rdone>>

MayReport(x, t) == x = twork[t] \/ x = parent[twork[t]]

FinishTask(x, t, outcome) ==
  /\ Open(t) /\ MayReport(x, t)
  /\ LET w == twork[t] IN
     /\ tstate' = [tstate EXCEPT ![t] = outcome]
     /\ tdone'  = [tdone EXCEPT ![t] = @ + 1]
     /\ cur'    = [cur EXCEPT ![w] = IF @ = t THEN None ELSE @]
     /\ avail'  = [avail EXCEPT ![w] = IF cur[w] = t /\ @ = "busy" THEN "idle" ELSE @]
  /\ UNCHANGED <<runVars, idVars, costVars, rdone>>

-----------------------------------------------------------------------------
(* Startup: the processes of the last session are gone.                    *)

InterruptLiveRuns ==
  LET lostWorkers == {w \in Workers : Live(w)}
      ending      == {r \in Roots : Live(r) /\ rootState[r] = "active"}
      stranded    == {w \in Workers : ~Live(w) /\ parent[w] \in ending /\ avail[w] # "stopped"}
  IN  /\ proc'      = [x \in Runs |-> IF Live(x) THEN "lost" ELSE proc[x]]
      /\ rootState' = [r \in Roots |-> IF r \in ending THEN "interrupted" ELSE rootState[r]]
      /\ rdone'     = [r \in Roots |-> IF r \in ending THEN rdone[r] + 1 ELSE rdone[r]]
      /\ Retire(lostWorkers \cup stranded)
      /\ Settle(lostWorkers \cup stranded,
                [t \in Tasks |-> IF twork[t] \in stranded THEN "cancelled" ELSE "interrupted"])
      /\ UNCHANGED <<term, born, idVars, consumed>>
      /\ liveWorkers' = [r \in Roots |-> IF proc[r] = "none" THEN liveWorkers[r]
                                         ELSE Cardinality(LiveOf(r)')]

-----------------------------------------------------------------------------
RootStep(r) ==
  \/ \E p \in Terminals : RegisterPane(r, p)
  \/ RegisterLead(r)
  \/ FinishRoot(r)
  \/ StopGroup(r)
  \/ MarkStarted(r)
  \/ RootLaunchFailed(r)
  \/ RootExited(r)
  \/ \E w \in Workers, t \in Tasks : AcceptWorker(r, w, t) \/ Assign(r, w, t)

WorkerStep(w) ==
  \/ MarkStarted(w)
  \/ WorkerLaunchFailed(w)
  \/ \E code \in {"succeeded", "failed"} : WorkerExited(w, code)
  \/ StopWorker(w)
  \/ \E mail \in BOOLEAN : ClaimNext(w, mail)
  \/ MarkWorkerIdle(w)

Next ==
  \/ \E r \in Roots : RootStep(r)
  \/ \E w \in Workers : WorkerStep(w)
  \/ \E x \in Runs, t \in Tasks, outcome \in {"succeeded", "failed"} : FinishTask(x, t, outcome)
  \/ InterruptLiveRuns

Spec == Init /\ [][Next]_vars

-----------------------------------------------------------------------------
(* What the state promises.                                                *)

TypeOK ==
  /\ proc \in [Runs -> ProcState]
  /\ rootState \in [Roots -> RootState]
  /\ term \in [Roots -> Terminals \cup {None}]
  /\ born \in [Roots -> Nat]
  /\ avail \in [Workers -> WorkerAvail]
  /\ parent \in [Workers -> Roots \cup {None}]
  /\ cur \in [Workers -> Tasks \cup {None}]
  /\ tstate \in [Tasks -> TaskState]
  /\ twork \in [Tasks -> Workers \cup {None}]
  /\ tseq \in [Tasks -> Nat]
  /\ consumed \in [Roots -> Nat]
  /\ liveWorkers \in [Roots -> Nat]
  /\ tdone \in [Tasks -> Nat]
  /\ rdone \in [Roots -> Nat]

\* An assignment that is queued or running has a worker that can still answer
\* for it: its process is live and it was not stopped.  Whatever ends the
\* worker (a stop, the end of its root, an exit, a failed launch, a restart)
\* settles all its assignments in the same write, so a root waiting for a
\* result never waits for a worker that is gone.
OpenTaskHasLiveWorker ==
  \A t \in Tasks : Open(t) => /\ twork[t] \in Workers
                              /\ Live(twork[t])
                              /\ avail[twork[t]] # "stopped"

\* The assignment `next' redelivers and a bare `finish' reports is the
\* worker's own and is running: no settling path forgets the pointer.
CurrentTaskRuns ==
  \A w \in Workers : cur[w] # None => /\ twork[cur[w]] = w
                                      /\ tstate[cur[w]] = "running"

\* Beside it a worker runs no other assignment, but for one it claimed before
\* its start was recorded: that is a single one for good, however many the
\* worker is given, claims and ends afterwards.
BesideCurrent(w) == {t \in TasksOf(w) : tstate[t] = "running" /\ cur[w] # t}

OneBesideCurrent ==
  \A w \in Workers : /\ proc[w] = "starting" => BesideCurrent(w) = {}
                     /\ \A t, u \in BesideCurrent(w) : t = u

\* What a worker runs, then: its current assignment and at most one beside it.
CurrentAndOneBeside == CurrentTaskRuns /\ OneBesideCurrent

\* Assignments of a worker start in the order they were queued, whichever of
\* `next', the recorded start and the exit starts them.
StartedInOrder ==
  \A t, u \in Tasks :
    /\ tstate[t] = "queued" /\ twork[u] = twork[t] /\ tseq[u] >= tseq[t] /\ u # t
    => tstate[u] # "running"

\* A root that ended took its group with it: no worker of it takes work.  The
\* exception is a launched root whose start could not be recorded: the code
\* leaves the workers it accepted meanwhile alone.
ClosedGroupStopped ==
  \A w \in Workers :
    proc[w] # "none" /\ rootState[parent[w]] # "active" /\ proc[parent[w]] # "lost"
    => avail[w] = "stopped"

\* Capacity and budget hold per root and over all roots, and the copy the
\* roots are shown is the real count after every operation.
CapacityHeld ==
  /\ Cardinality(LiveTotal) <= MaxWorkersPerInstance
  /\ \A r \in Roots : /\ Cardinality(LiveOf(r)) <= MaxWorkersPerRoot
                      /\ liveWorkers[r] = Cardinality(LiveOf(r))
                      /\ Cardinality(Group(r)) <= TotalStarts

\* A root waiting on the event log sees the end of every assignment and of
\* every root exactly once.
EndAnnouncedOnce ==
  /\ \A t \in Tasks : tdone[t] = IF tstate[t] \in Settled THEN 1 ELSE 0
  /\ \A r \in Roots : rdone[r] = IF rootState[r] \in {"none", "active"} THEN 0 ELSE 1

\* What ties the fields of a record together, whoever calls what: an id that is
\* not used has no other field set, and a worker whose process is gone is
\* stopped.
RecordsMatch ==
  /\ \A w \in Workers :
       /\ proc[w] = "none" <=> parent[w] = None
       /\ proc[w] = "none" => avail[w] = "starting"
       /\ proc[w] \in {"exited", "lost"} => avail[w] = "stopped"
       /\ parent[w] # None => proc[parent[w]] # "none"
  /\ \A r \in Roots : rootState[r] = "none" <=> proc[r] = "none"
  /\ \A t \in Tasks : tstate[t] = "none" <=> twork[t] = None

\* The inductive invariant behind OpenTaskHasLiveWorker, CurrentTaskRuns,
\* ClosedGroupStopped and EndAnnouncedOnce.
GroupInv ==
  /\ TypeOK
  /\ RecordsMatch
  /\ OpenTaskHasLiveWorker
  /\ CurrentTaskRuns
  /\ ClosedGroupStopped
  /\ EndAnnouncedOnce

\* A terminal leads at most one group at a time, however often roots are
\* finished and registered again in it.
OneActiveRootPerTerminal ==
  \A r, q \in Roots :
    rootState[r] = "active" /\ rootState[q] = "active" /\ term[r] = term[q] => r = q

\* Results are immutable and ends are final: no report, exit code, stop, late
\* start or restart changes a settled assignment, revives a process, puts a
\* stopped worker back to work or reopens a root.
EndsAreFinal ==
  [][/\ \A t \in Tasks : tstate[t] \in Settled => tstate'[t] = tstate[t]
     /\ \A x \in Runs : proc[x] \in {"exited", "lost"} => proc'[x] = proc[x]
     /\ \A w \in Workers : avail[w] = "stopped" => avail'[w] = "stopped"
     /\ \A r \in Roots : rootState[r] \notin {"none", "active"} => rootState'[r] = rootState[r]
    ]_vars

=============================================================================
