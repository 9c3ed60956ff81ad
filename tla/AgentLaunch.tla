----------------------------- MODULE AgentLaunch -----------------------------
(***************************************************************************)
(* Orchestration together with the processes behind the runs: the phases   *)
(* of a launch (orchestration/runtime.rs, remote/routes/agents.rs), the    *)
(* kills that follow a stop, and the way of a process exit from the PTY    *)
(* through the UI thread and the exit recorder into the store.             *)
(*                                                                         *)
(* Four kinds of threads interleave here.  A launch runs on a background   *)
(* thread, on the UI thread (start_process) and on a background thread     *)
(* again, and the three parts are separate steps.  Commands of roots and   *)
(* workers are store writes followed, later, by their kills.  Exits are    *)
(* picked up by the UI thread, which is busy while it starts a process,    *)
(* and recorded by one recorder thread.  A restart loses everything that   *)
(* is not in the store.                                                    *)
(*                                                                         *)
(* Abstracted: planning and preparing a launch (no store write), the pane  *)
(* of a run (its insertion may fail), deadlines (the first check may fail  *)
(* at any time).  The client of a launch may disconnect, which drops the   *)
(* handler where it awaits.  StoreMayFail lets the store writes of a       *)
(* launch and of an exit fail.                                             *)
(***************************************************************************)
EXTENDS Orchestration

CONSTANT StoreMayFail

ASSUME LaunchAssumption == StoreMayFail \in BOOLEAN /\ Panes \cap Workers = {}

VARIABLES
  phase,    \* how far the launch of a run is
  ui,       \* the run the UI thread is starting
  pty,      \* the process of a terminal
  killed,   \* terminals whose process was told to end
  kills,    \* runs whose kill is decided and not done yet
  exitAt,   \* how far the exit of a terminal is on its way to the store
  request,  \* the request record of the launch of a run
  late      \* history: the roots registered after their terminal's exit was handled

launchVars == <<phase, ui, pty, killed, kills, exitAt, request, late>>
allVars    == <<vars, launchVars>>

\* A launched run's terminal is its own.
AllTerminals == Panes \cup Runs
Phase    == {"idle", "intent", "checked", "launched", "ready", "refused", "unrecorded",
             "started", "failed", "lost", "dropped"}
InFlight == {"intent", "checked", "launched", "ready", "refused", "unrecorded"}

LaunchInit ==
  /\ Init
  /\ phase   = [x \in Runs |-> "idle"]
  /\ ui      = None
  /\ pty     = [p \in AllTerminals |-> IF p \in Panes THEN "up" ELSE "none"]
  /\ killed  = {}
  /\ kills   = {}
  /\ exitAt  = [p \in AllTerminals |-> "none"]
  /\ request = [x \in Runs |-> "free"]
  /\ late    = {}

Enter(x, ph) == phase' = [phase EXCEPT ![x] = ph]

\* kill_terminal reaches only a process the PTY manager knows.
KillTerminal(x) == killed' = IF pty[x] = "up" THEN killed \cup {x} ELSE killed

\* A command names a run whose process was up: it runs inside that process.
Called(x) ==
  /\ proc[x] # "none"
  /\ pty[IF x \in Roots THEN term[x] ELSE x] # "none"

-----------------------------------------------------------------------------
(* The launch of a run: intent, start, record.                             *)

SpawnIntent(r, w, t) ==
  /\ Called(r)
  /\ AcceptWorker(r, w, t)
  /\ Enter(w, "intent")
  /\ request' = [request EXCEPT ![w] = "reserved"]
  /\ UNCHANGED <<ui, pty, killed, kills, exitAt, late>>

LeadIntent(r) ==
  /\ RegisterLead(r)
  /\ Enter(r, "intent")
  /\ request' = [request EXCEPT ![r] = "reserved"]
  /\ UNCHANGED <<ui, pty, killed, kills, exitAt, late>>

\* may_start is the guard of recording the start, evaluated by a read.
CheckBeforeStart(x) ==
  /\ phase[x] = "intent" /\ ui = None
  /\ \/ MayRecordStart(x) /\ Enter(x, "checked") /\ ui' = x
     \/ Enter(x, "refused") /\ UNCHANGED ui     \* stopped, or past the deadline
  /\ UNCHANGED <<vars, pty, killed, kills, exitAt, request, late>>

LaunchProcess(x) ==
  /\ phase[x] = "checked"
  /\ \/ Enter(x, "launched") /\ pty' = [pty EXCEPT ![x] = "up"] /\ UNCHANGED ui
     \/ Enter(x, "refused") /\ ui' = None /\ UNCHANGED pty
  /\ UNCHANGED <<vars, killed, kills, exitAt, request, late>>

\* Faulty: a refused start leaves its process behind.
CheckAfterStartNoKill(x) ==
  /\ phase[x] = "launched"
  /\ ui' = None
  /\ Enter(x, IF MayRecordStart(x) THEN "ready" ELSE "refused")
  /\ UNCHANGED <<vars, pty, killed, kills, exitAt, request, late>>

\* The second check and the insertion of the pane.
CheckAfterStart(x) ==
  /\ phase[x] = "launched"
  /\ ui' = None
  /\ \/ /\ MayRecordStart(x) \/ proc[x] = "exited"
        /\ Enter(x, "ready")
        /\ UNCHANGED killed
     \/ /\ Enter(x, "refused")                 \* stopped, or no pane for it
        /\ KillTerminal(x)
  /\ UNCHANGED <<vars, pty, kills, exitAt, request, late>>

RecordStart(x) ==
  /\ phase[x] = "ready"
  /\ \/ MarkStarted(x)
     \/ proc[x] = "exited" /\ UNCHANGED vars
  /\ Enter(x, "started")
  /\ request' = [request EXCEPT ![x] = "recorded"]
  /\ UNCHANGED <<ui, pty, killed, kills, exitAt, late>>

\* Faulty: a process whose start could not be recorded is left running.
StartNotRecordedNoKill(x) ==
  /\ phase[x] = "ready"
  /\ ~MayRecordStart(x) \/ StoreMayFail
  /\ Enter(x, "unrecorded")
  /\ UNCHANGED <<vars, ui, pty, killed, kills, exitAt, request, late>>

StartNotRecorded(x) ==
  /\ phase[x] = "ready"
  /\ \/ ~MayRecordStart(x) /\ proc[x] # "exited"
     \/ StoreMayFail
  /\ Enter(x, "unrecorded")
  /\ KillTerminal(x)
  /\ UNCHANGED <<vars, ui, pty, kills, exitAt, request, late>>

LaunchFailed(x) == IF x \in Roots THEN RootLaunchFailed(x) ELSE WorkerLaunchFailed(x)

\* Faulty: the failure releases the request and forgets the run.
RecordFailureRequestOnly(x) ==
  /\ phase[x] \in {"refused", "unrecorded"}
  /\ request' = [request EXCEPT ![x] = "free"]
  /\ Enter(x, "failed")
  /\ UNCHANGED <<vars, ui, pty, killed, kills, exitAt, late>>

\* Faulty: the failure leaves the request reserved.
RecordFailureKeepsRequest(x) ==
  /\ phase[x] \in {"refused", "unrecorded"}
  /\ \/ LaunchFailed(x)
     \/ (proc[x] # "starting" \/ StoreMayFail) /\ UNCHANGED vars
  /\ Enter(x, "failed")
  /\ UNCHANGED <<ui, pty, killed, kills, exitAt, request, late>>

\* One write marks the run lost and releases its request; it does neither when
\* the run is not starting any more, and its failure is not looked at.
RecordFailure(x) ==
  /\ phase[x] \in {"refused", "unrecorded"}
  /\ \/ LaunchFailed(x) /\ request' = [request EXCEPT ![x] = "free"]
     \/ /\ proc[x] # "starting" \/ StoreMayFail
        /\ UNCHANGED <<vars, request>>
  /\ Enter(x, "failed")
  /\ UNCHANGED <<ui, pty, killed, kills, exitAt, late>>

\* The client is gone, and with it the future of the handler, where it awaits
\* the UI thread or a blocking one; what was handed to a thread is still done.
DropLaunch(x) ==
  /\ phase[x] \in {"intent", "ready", "refused"}
  /\ Enter(x, "dropped")
  /\ UNCHANGED <<vars, ui, pty, killed, kills, exitAt, request, late>>

-----------------------------------------------------------------------------
(* Commands, and the kills they leave to be done after the write.          *)

\* The UI thread looks up the project of the terminal, another thread writes the
\* run later, and neither looks at the process: it may have ended by then, and its
\* exit been handled.
RegisterCall(r, p) ==
  /\ pty[p] # "none"
  /\ RegisterPane(r, p)
  /\ late' = IF exitAt[p] \in {"recorded", "unrecorded"} THEN late \cup {r} ELSE late
  /\ UNCHANGED <<phase, ui, pty, killed, kills, exitAt, request>>

DecideKills(S) ==
  /\ kills' = kills \cup {w \in S : Live(w)}
  /\ UNCHANGED <<phase, ui, pty, killed, exitAt, request, late>>

EndGroupCall(r) ==
  /\ Called(r)
  /\ FinishRoot(r) \/ StopGroup(r)
  /\ DecideKills(Group(r))

StopWorkerCall(w) ==
  /\ StopWorker(w)
  /\ DecideKills({w})

WorkCall(w) ==
  /\ Called(w)
  /\ (\E mail \in BOOLEAN : ClaimNext(w, mail)) \/ MarkWorkerIdle(w)
  /\ UNCHANGED launchVars

AssignCall(r, w, t) ==
  /\ Called(r)
  /\ Assign(r, w, t)
  /\ UNCHANGED launchVars

ReportCall(x, t) ==
  /\ Called(x)
  /\ \E outcome \in {"succeeded", "failed"} : FinishTask(x, t, outcome)
  /\ UNCHANGED launchVars

KillRun(w) ==
  /\ w \in kills
  /\ kills' = kills \ {w}
  /\ KillTerminal(w)
  /\ UNCHANGED <<vars, phase, ui, pty, exitAt, request, late>>

-----------------------------------------------------------------------------
(* Exits.                                                                  *)

\* A process ends, by itself or because it was killed.
ProcessEnds(p) ==
  /\ pty[p] = "up"
  /\ pty'    = [pty EXCEPT ![p] = "gone"]
  /\ exitAt' = [exitAt EXCEPT ![p] = "event"]
  /\ UNCHANGED <<vars, phase, ui, killed, kills, request, late>>

\* The UI thread drains the PTY events and hands exits to the recorder.
ForwardExit(p) ==
  /\ exitAt[p] = "event" /\ ui = None
  /\ exitAt' = [exitAt EXCEPT ![p] = "queued"]
  /\ UNCHANGED <<vars, phase, ui, pty, killed, kills, request, late>>

\* Faulty: the exit of a run that is still starting is ignored.
RunningRunsAt(p) ==
  {x \in Runs : proc[x] = "running" /\ p = IF x \in Roots THEN term[x] ELSE x}

LiveRunsAt(p) == {x \in Runs : Live(x) /\ p = IF x \in Roots THEN term[x] ELSE x}

RunExited(x) ==
  IF x \in Roots THEN RootExited(x)
                 ELSE \E code \in {"succeeded", "failed"} : WorkerExited(x, code)

\* on_terminal_exit takes the first live run of the terminal in the order of
\* the run ids, which are random.
RecordExit(p) ==
  /\ exitAt[p] = "queued"
  /\ exitAt' = [exitAt EXCEPT ![p] = "recorded"]
  /\ \/ \E x \in LiveRunsAt(p) :
          /\ RunExited(x)
          /\ kills' = IF x \in Roots /\ rootState[x] = "active"
                      THEN kills \cup LiveOf(x) ELSE kills
     \/ LiveRunsAt(p) = {} /\ UNCHANGED <<vars, kills>>
  /\ UNCHANGED <<phase, ui, pty, killed, request, late>>

\* The write fails: that is logged, and the exit does not come again.
ExitNotRecorded(p) ==
  /\ StoreMayFail
  /\ exitAt[p] = "queued" /\ LiveRunsAt(p) # {}
  /\ exitAt' = [exitAt EXCEPT ![p] = "unrecorded"]
  /\ UNCHANGED <<vars, phase, ui, pty, killed, kills, request, late>>

-----------------------------------------------------------------------------
\* Quitting or crashing ends the launched processes and every thread; panes
\* come back with their session.  Opening the store interrupts live runs.
Restart ==
  /\ InterruptLiveRuns
  /\ phase'  = [x \in Runs |-> IF phase[x] \in InFlight THEN "lost" ELSE phase[x]]
  /\ ui'     = None
  /\ pty'    = [p \in AllTerminals |-> IF p \in Runs /\ pty[p] = "up" THEN "gone" ELSE pty[p]]
  /\ exitAt' = [p \in AllTerminals |-> IF p \in Runs /\ pty[p] # "none" THEN "recorded"
                                       ELSE IF exitAt[p] = "none" THEN "none" ELSE "recorded"]
  /\ killed' = {}
  /\ kills'  = {}
  /\ UNCHANGED <<request, late>>

-----------------------------------------------------------------------------
LaunchStep(x) ==
  \/ CheckBeforeStart(x)
  \/ LaunchProcess(x)
  \/ CheckAfterStart(x)
  \/ RecordStart(x)
  \/ StartNotRecorded(x)
  \/ RecordFailure(x)

ExitStep(p) == ForwardExit(p) \/ RecordExit(p)

RootCall(r) ==
  \/ LeadIntent(r)
  \/ \E p \in AllTerminals \ Workers : RegisterCall(r, p)
  \/ EndGroupCall(r)
  \/ \E w \in Workers, t \in Tasks : SpawnIntent(r, w, t) \/ AssignCall(r, w, t)

LaunchNext ==
  \/ \E x \in Runs : LaunchStep(x) \/ DropLaunch(x)
  \/ \E r \in Roots : RootCall(r)
  \/ \E w \in Workers : StopWorkerCall(w) \/ WorkCall(w) \/ KillRun(w)
  \/ \E x \in Runs, t \in Tasks : ReportCall(x, t)
  \/ \E p \in AllTerminals : ProcessEnds(p) \/ ExitStep(p) \/ ExitNotRecorded(p)
  \/ Restart

LaunchSpec == LaunchInit /\ [][LaunchNext]_allVars

\* The threads of NotMux run: a launch goes on, decided kills are carried out,
\* exits are forwarded and recorded, and a killed process ends (the kill ends
\* in SIGKILL).  Nothing is assumed of the agents or of the user.
Fairness ==
  /\ \A x \in Runs : WF_allVars(LaunchStep(x))
  /\ \A w \in Workers : WF_allVars(KillRun(w))
  /\ \A p \in AllTerminals : /\ WF_allVars(ExitStep(p))
                             /\ WF_allVars(p \in killed /\ ProcessEnds(p))

FairLaunchSpec == LaunchSpec /\ Fairness

-----------------------------------------------------------------------------
LaunchTypeOK ==
  /\ TypeOK
  /\ phase \in [Runs -> Phase]
  /\ ui \in Runs \cup {None}
  /\ pty \in [AllTerminals -> {"none", "up", "gone"}]
  /\ killed \subseteq AllTerminals
  /\ kills \subseteq Workers
  /\ exitAt \in [AllTerminals -> {"none", "event", "queued", "recorded", "unrecorded"}]
  /\ request \in [Runs -> {"free", "reserved", "recorded"}]
  /\ late \subseteq Roots

\* A confirmed stop wins over a start in progress: once the UI thread is done
\* with a launch, a process that was not told to end belongs to a run that is
\* running, or starting while its start is still to be recorded or its handler
\* was dropped; and to a stopped worker only while its kill is to be done.
NoUnwatchedProcess ==
  \A x \in Runs :
    pty[x] = "up" /\ x \notin killed /\ phase[x] \notin InFlight \ {"ready"}
    => /\ proc[x] = IF phase[x] \in {"ready", "dropped"} THEN "starting" ELSE "running"
       /\ x \in Workers => avail[x] # "stopped" \/ x \in kills

\* The exit of a terminal is on its way, or was lost by a failing write.
ExitPending(p) ==
  \/ exitAt[p] \in {"event", "queued"}
  \/ exitAt[p] = "unrecorded" /\ StoreMayFail

\* A run does not outlive its process: once that ended, its exit is on its way
\* until the worker is not live any more (even when it overtakes the record of
\* the start) and the root's group is closed.  An exit misses a root in two ways:
\* another run of the same terminal, a root that was closed before, takes it; or
\* it was handled before the root, looked up in time, was written.
EndReachesRun ==
  /\ \A w \in Workers : Live(w) /\ pty[w] = "gone" => ExitPending(w)
  /\ \A r \in Roots : rootState[r] = "active" /\ pty[term[r]] = "gone" =>
       \/ ExitPending(term[r])
       \/ \E q \in Roots \ {r} : term[q] = term[r] /\ proc[q] = "exited"
       \/ r \in late

\* No run is forgotten while it starts: its launch is going on or was dropped
\* with its client, and a launch that failed left its run starting or its
\* request reserved only where a write failed, or where the exit came first.
LaunchAccounted ==
  \A x \in Runs :
    /\ proc[x] = "starting" => \/ phase[x] \in InFlight \cup {"dropped"}
                               \/ phase[x] = "failed" /\ StoreMayFail
    /\ phase[x] = "failed" /\ request[x] # "free" => proc[x] = "exited" \/ StoreMayFail

\* How the steps of a launch and of an exit follow each other, whatever happens
\* in between: an id that is used has a record, its process comes up once, after
\* the first check, and an exit is on its way from the end of its process on.
LaunchOrder ==
  /\ \A x \in Runs :
       /\ phase[x] # "idle" => proc[x] # "none"
       /\ phase[x] \in InFlight => proc[x] \in {"starting", "exited"}
       /\ phase[x] \in {"idle", "intent", "checked"} => pty[x] = "none"
       /\ phase[x] \in {"refused", "unrecorded"} => pty[x] # "up" \/ x \in killed
       /\ phase[x] # "idle" /\ proc[x] = "exited" => pty[x] = "gone"
       /\ x \in Roots /\ phase[x] # "idle" => term[x] = x
       /\ x \in Roots /\ proc[x] # "none" => term[x] \in Terminals
  /\ \A p \in AllTerminals : exitAt[p] # "none" <=> pty[p] = "gone"

\* The inductive invariant behind the three properties.
LaunchInv ==
  /\ LaunchTypeOK
  /\ LaunchOrder
  /\ NoUnwatchedProcess
  /\ EndReachesRun
  /\ LaunchAccounted

\* The process of a stopped worker ends.
StoppedProcessEnds == \A w \in Workers : avail[w] = "stopped" ~> pty[w] # "up"

\* A launch is answered and its run is not left starting, unless its client
\* disconnected.
LaunchDecided ==
  \A x \in Runs :
    phase[x] = "intent" ~> \/ phase[x] \in {"started", "failed", "lost"} /\ proc[x] # "starting"
                           \/ phase[x] = "dropped"

\* A process that ended settles its worker, whichever record comes first.
EndSettlesWorker == \A w \in Workers : pty[w] = "gone" ~> ~Live(w)

-----------------------------------------------------------------------------
(* What the documentation says and the code does not keep.                 *)

\* docs/agent-orchestration.md: "Assignments per worker | 1 running, up to 16
\* queued".  `next' in the window between the start of the process and its
\* record claims the first assignment, and the record starts another one.
OneRunningAssignment ==
  \A w \in Workers : Cardinality({t \in TasksOf(w) : tstate[t] = "running"}) <= 1

\* docs/agent-orchestration.md: "A launch reserves its request id when the
\* intent is recorded; a failed start releases it."  An exit recorded before
\* the failure makes the releasing write an error.
FailedStartReleasesRequest ==
  \A x \in Runs : phase[x] = "failed" => request[x] = "free"

\* docs/agent-orchestration.md: "A root exit interrupts its group."  With an
\* earlier, finished root of the same terminal still recorded live, the exit
\* may be given to that one.  (A root registered after the exit is no part of it.)
RootExitInterruptsGroup ==
  \A r \in Roots \ late : rootState[r] = "active" => exitAt[term[r]] # "recorded"

=============================================================================
