----------------------------- MODULE LaunchProofs -----------------------------
(***************************************************************************)
(* Theorems about launches, kills and exits (AgentLaunch), for any number  *)
(* of roots and workers launched at the same time, with failing writes and *)
(* restarts at any moment.                                                 *)
(***************************************************************************)
EXTENDS AgentLaunch, RefinementProofs

-----------------------------------------------------------------------------
(* A launch only calls the methods of the group model.                     *)

LEMMA LaunchStepIsStep ==
  ASSUME NEW x \in Runs, LaunchStep(x)
  PROVE  [Next]_vars
<1>1. CASE RecordStart(x)
  BY <1>1 DEF RecordStart, Next, RootStep, WorkerStep, Runs
<1>2. CASE RecordFailure(x)
  BY <1>2 DEF RecordFailure, LaunchFailed, Next, RootStep, WorkerStep, Runs
<1>3. CASE CheckBeforeStart(x) \/ LaunchProcess(x) \/ CheckAfterStart(x) \/ StartNotRecorded(x)
  BY <1>3 DEF CheckBeforeStart, LaunchProcess, CheckAfterStart, StartNotRecorded
<1> QED BY <1>1, <1>2, <1>3 DEF LaunchStep

LEMMA RootCallIsStep ==
  ASSUME NEW r \in Roots, RootCall(r)
  PROVE  [Next]_vars
<1>1. CASE LeadIntent(r)
  BY <1>1 DEF LeadIntent, Next, RootStep
<1>2. ASSUME NEW p \in AllTerminals \ Workers, RegisterCall(r, p)
      PROVE  [Next]_vars
  BY <1>2 DEF RegisterCall, Next, RootStep, AllTerminals, Terminals, Runs
<1>3. CASE EndGroupCall(r)
  BY <1>3 DEF EndGroupCall, Next, RootStep
<1>4. ASSUME NEW w \in Workers, NEW t \in Tasks, SpawnIntent(r, w, t) \/ AssignCall(r, w, t)
      PROVE  [Next]_vars
  BY <1>4 DEF SpawnIntent, AssignCall, Next, RootStep
<1> QED BY <1>1, <1>2, <1>3, <1>4 DEF RootCall

LEMMA LaunchNextIsStep == [LaunchNext]_allVars => [Next]_vars
<1> SUFFICES ASSUME LaunchNext PROVE [Next]_vars
  BY DEF allVars
<1>1. ASSUME NEW w \in Workers, StopWorkerCall(w) \/ WorkCall(w) \/ KillRun(w)
      PROVE  [Next]_vars
  BY <1>1 DEF StopWorkerCall, WorkCall, KillRun, Next, WorkerStep
<1>2. ASSUME NEW x \in Runs, NEW t \in Tasks, ReportCall(x, t)
      PROVE  [Next]_vars
  BY <1>2 DEF ReportCall, Next
<1>3. ASSUME NEW p \in AllTerminals, ProcessEnds(p) \/ ExitStep(p) \/ ExitNotRecorded(p)
      PROVE  [Next]_vars
  <2>1. CASE ProcessEnds(p) \/ ForwardExit(p) \/ ExitNotRecorded(p)
    BY <2>1 DEF ProcessEnds, ForwardExit, ExitNotRecorded
  <2>2. CASE RecordExit(p)
    BY <2>2 DEF RecordExit, RunExited, LiveRunsAt, Next, RootStep, WorkerStep, Runs
  <2> QED BY <1>3, <2>1, <2>2 DEF ExitStep
<1>4. CASE Restart
  BY <1>4 DEF Restart, Next
<1>5. ASSUME NEW x \in Runs, DropLaunch(x)
      PROVE  [Next]_vars
  BY <1>5 DEF DropLaunch
<1> QED BY <1>1, <1>2, <1>3, <1>4, <1>5, LaunchStepIsStep, RootCallIsStep DEF LaunchNext

\* Whatever launches, kills and exits do around it, the records only go through
\* the steps of the group model: what is proved of Spec holds of LaunchSpec.
THEOREM LaunchKeepsGroup == LaunchSpec => Spec
<1>1. LaunchInit => Init
  BY DEF LaunchInit
<1> QED BY <1>1, LaunchNextIsStep, PTL DEF LaunchSpec, Spec

\* The contract of a group survives launches that fail, exits that come early
\* or late, and restarts between any two steps of them.
THEOREM LaunchesKeepContract == LaunchSpec => KeepsContract
BY LaunchKeepsGroup, ContractKept, PTL

-----------------------------------------------------------------------------
(* Types.                                                                  *)

LEMMA LaunchNextType ==
  ASSUME LaunchTypeOK, TypeOK', LaunchNext
  PROVE  LaunchTypeOK'
<1> USE DEF LaunchTypeOK, AllTerminals, Runs, Enter, KillTerminal, launchVars
<1>1. ASSUME NEW x \in Runs, LaunchStep(x)
      PROVE  LaunchTypeOK'
  <2>1. CASE CheckBeforeStart(x)
    BY <2>1 DEF CheckBeforeStart, Phase
  <2>2. CASE LaunchProcess(x)
    BY <2>2 DEF LaunchProcess, Phase
  <2>3. CASE CheckAfterStart(x)
    BY <2>3 DEF CheckAfterStart, Phase
  <2>4. CASE RecordStart(x)
    BY <2>4 DEF RecordStart, Phase
  <2>5. CASE StartNotRecorded(x)
    BY <2>5 DEF StartNotRecorded, Phase
  <2>6. CASE RecordFailure(x)
    BY <2>6 DEF RecordFailure, Phase
  <2> QED BY <1>1, <2>1, <2>2, <2>3, <2>4, <2>5, <2>6 DEF LaunchStep
<1>2. ASSUME NEW r \in Roots, RootCall(r)
      PROVE  LaunchTypeOK'
  <2>1. CASE LeadIntent(r)
    BY <2>1 DEF LeadIntent, Phase
  <2>2. ASSUME NEW p \in AllTerminals \ Workers, RegisterCall(r, p)
        PROVE  LaunchTypeOK'
    BY <2>2 DEF RegisterCall
  <2>3. CASE EndGroupCall(r)
    BY <2>3 DEF EndGroupCall, DecideKills, Group
  <2>4. ASSUME NEW w \in Workers, NEW t \in Tasks, SpawnIntent(r, w, t) \/ AssignCall(r, w, t)
        PROVE  LaunchTypeOK'
    BY <2>4 DEF SpawnIntent, AssignCall, Phase
  <2> QED BY <1>2, <2>1, <2>2, <2>3, <2>4 DEF RootCall
<1>3. ASSUME NEW w \in Workers, StopWorkerCall(w) \/ WorkCall(w) \/ KillRun(w)
      PROVE  LaunchTypeOK'
  BY <1>3 DEF StopWorkerCall, WorkCall, KillRun, DecideKills
<1>4. ASSUME NEW x \in Runs, NEW t \in Tasks, ReportCall(x, t)
      PROVE  LaunchTypeOK'
  BY <1>4 DEF ReportCall
<1>5. ASSUME NEW p \in AllTerminals, ProcessEnds(p) \/ ExitStep(p) \/ ExitNotRecorded(p)
      PROVE  LaunchTypeOK'
  BY <1>5 DEF ProcessEnds, ExitStep, ForwardExit, RecordExit, ExitNotRecorded, LiveOf, Group
<1>6. CASE Restart
  BY <1>6 DEF Restart, Phase
<1>7. ASSUME NEW x \in Runs, DropLaunch(x)
      PROVE  LaunchTypeOK'
  BY <1>7 DEF DropLaunch, Phase
<1> QED BY <1>1, <1>2, <1>3, <1>4, <1>5, <1>6, <1>7 DEF LaunchNext

\* Every field of a launch and of an exit keeps its type under any
\* interleaving of launches, commands, kills, exits and restarts.
THEOREM LaunchTypeCorrect == LaunchSpec => []LaunchTypeOK
<1>1. LaunchSpec => []TypeOK
  BY LaunchKeepsGroup, TypeCorrect, PTL
<1>2. LaunchInit /\ TypeOK => LaunchTypeOK
  BY DEF LaunchInit, LaunchTypeOK, AllTerminals, Phase
<1>3. LaunchTypeOK /\ TypeOK' /\ [LaunchNext]_allVars => LaunchTypeOK'
  <2>1. CASE UNCHANGED allVars
    BY <2>1 DEF LaunchTypeOK, allVars, launchVars
  <2> QED BY <2>1, LaunchNextType
<1> QED BY <1>1, <1>2, <1>3, PTL DEF LaunchSpec

-----------------------------------------------------------------------------
(* The invariant of launches, kills and exits.                             *)

Facts == LaunchOrder /\ NoUnwatchedProcess

\* A call that starts, ends and stops nothing.
LEMMA QuietCallFacts ==
  ASSUME LaunchTypeOK, Facts, UNCHANGED <<proc, term>>, UNCHANGED launchVars,
         \A w \in Workers : avail'[w] = "stopped" => avail[w] = "stopped"
  PROVE  Facts'
<1>1. LaunchOrder'
  BY DEF Facts, LaunchOrder, launchVars, InFlight
<1>2. NoUnwatchedProcess'
  BY DEF Facts, NoUnwatchedProcess, launchVars
<1> QED BY <1>1, <1>2 DEF Facts

\* A call that stops the workers of S, whose kills are decided.
LEMMA StoppingCallFacts ==
  ASSUME LaunchTypeOK, Facts, NEW S, UNCHANGED <<proc, term>>, DecideKills(S),
         \A w \in Workers : avail'[w] = "stopped" => avail[w] = "stopped" \/ w \in S
  PROVE  Facts'
<1>1. LaunchOrder'
  BY DEF Facts, LaunchOrder, DecideKills
<1>2. NoUnwatchedProcess'
  BY DEF Facts, NoUnwatchedProcess, DecideKills, Live, Runs
<1> QED BY <1>1, <1>2 DEF Facts

LEMMA StopWorkersStops ==
  ASSUME LaunchTypeOK, NEW S, StopWorkers(S)
  PROVE  \A w \in Workers : avail'[w] = "stopped" => avail[w] = "stopped" \/ w \in S
BY DEF StopWorkers, Retire

\* A run is given to the launcher: its id was not used before.
LEMMA IntentFacts ==
  ASSUME LaunchTypeOK, Facts, NEW x \in Runs, proc[x] = "none",
         proc' = [proc EXCEPT ![x] = "starting"], UNCHANGED avail,
         \/ x \in Workers /\ UNCHANGED term
         \/ x \in Roots /\ term' = [term EXCEPT ![x] = x],
         Enter(x, "intent"), UNCHANGED <<ui, pty, killed, kills, exitAt>>
  PROVE  Facts'
<1> USE OrchestrationAssumption DEF LaunchTypeOK, TypeOK, Runs, AllTerminals
<1>1. phase[x] = "idle" /\ pty[x] = "none" /\ exitAt[x] = "none"
  BY DEF Facts, LaunchOrder
<1>2. /\ phase'[x] = "intent" /\ proc'[x] = "starting"
      /\ \A y \in Runs : y # x => phase'[y] = phase[y] /\ proc'[y] = proc[y]
  BY DEF Enter
<1>3. LaunchOrder'
  BY <1>1, <1>2 DEF Facts, LaunchOrder, InFlight, Terminals
<1>4. NoUnwatchedProcess'
  BY <1>1, <1>2 DEF Facts, NoUnwatchedProcess
<1> QED BY <1>3, <1>4 DEF Facts

LEMMA MarkStartedEffect ==
  ASSUME LaunchTypeOK, NEW x \in Runs, MarkStarted(x)
  PROVE  /\ proc[x] = "starting"
         /\ proc' = [proc EXCEPT ![x] = "running"] /\ UNCHANGED term
         /\ \A w \in Workers : avail'[w] = "stopped" => avail[w] = "stopped" /\ w # x
<1> USE OrchestrationAssumption DEF LaunchTypeOK, TypeOK, Runs
<1>1. CASE x \in Roots
  BY <1>1 DEF MarkStarted, MayRecordStart
<1>2. CASE x \in Workers
  <2>1. avail[x] # "stopped"
    BY <1>2 DEF MarkStarted, MayRecordStart
  <2> QED BY <1>2, <2>1 DEF MarkStarted, MayRecordStart, StartAssignment
<1> QED BY <1>1, <1>2

LEMMA LaunchStepFacts ==
  ASSUME LaunchTypeOK, Facts, NEW x \in Runs, LaunchStep(x)
  PROVE  Facts'
<1> USE OrchestrationAssumption DEF LaunchTypeOK, TypeOK, Runs, AllTerminals, Enter, InFlight, vars
<1>1. CASE CheckBeforeStart(x)
  <2>1. pty[x] = "none"
    BY <1>1 DEF CheckBeforeStart, Facts, LaunchOrder
  <2>2. phase[x] = "intent" /\ phase' = [phase EXCEPT ![x] = phase'[x]]
        /\ phase'[x] \in {"checked", "refused"}
    BY <1>1 DEF CheckBeforeStart
  <2>3. UNCHANGED <<proc, avail, term, pty, killed, kills, exitAt>>
    BY <1>1 DEF CheckBeforeStart
  <2> QED BY <2>1, <2>2, <2>3
          DEF Facts, LaunchOrder, NoUnwatchedProcess
<1>2. CASE LaunchProcess(x)
  <2>1. phase[x] = "checked" /\ pty[x] = "none" /\ exitAt[x] = "none" /\ proc[x] # "exited"
    BY <1>2 DEF LaunchProcess, Facts, LaunchOrder
  <2>2. /\ phase' = [phase EXCEPT ![x] = phase'[x]]
        /\ \/ phase'[x] = "launched" /\ pty' = [pty EXCEPT ![x] = "up"]
           \/ phase'[x] = "refused" /\ UNCHANGED pty
    BY <1>2 DEF LaunchProcess
  <2>3. UNCHANGED <<proc, avail, term, killed, kills, exitAt>>
    BY <1>2 DEF LaunchProcess
  <2>4. LaunchOrder'
    BY <2>1, <2>2, <2>3 DEF Facts, LaunchOrder
  <2>5. NoUnwatchedProcess'
    BY <2>1, <2>2, <2>3 DEF Facts, NoUnwatchedProcess
  <2> QED BY <2>4, <2>5 DEF Facts
<1>3. CASE CheckAfterStart(x)
  <2>1. /\ phase[x] = "launched" /\ phase' = [phase EXCEPT ![x] = phase'[x]]
        /\ \/ /\ phase'[x] = "ready" /\ UNCHANGED killed
              /\ \/ proc[x] = "starting" /\ (x \in Workers => avail[x] # "stopped")
                 \/ proc[x] = "exited"
           \/ phase'[x] = "refused" /\ KillTerminal(x)
    BY <1>3 DEF CheckAfterStart, MayRecordStart
  <2>2. UNCHANGED <<proc, avail, term, pty, kills, exitAt>>
    BY <1>3 DEF CheckAfterStart
  <2>3. LaunchOrder'
    BY <2>1, <2>2 DEF Facts, LaunchOrder, KillTerminal
  <2>4. proc[x] = "exited" => pty[x] = "gone"
    BY <2>1 DEF Facts, LaunchOrder
  <2>5. NoUnwatchedProcess'
    BY <2>1, <2>2, <2>4 DEF Facts, NoUnwatchedProcess, KillTerminal
  <2> QED BY <2>3, <2>5 DEF Facts
<1>4. CASE RecordStart(x)
  <2>1. phase[x] = "ready" /\ phase' = [phase EXCEPT ![x] = "started"]
        /\ UNCHANGED <<pty, killed, kills, exitAt>>
    BY <1>4 DEF RecordStart
  <2>2. CASE MarkStarted(x)
    BY <2>1, <2>2, MarkStartedEffect
       DEF Facts, LaunchOrder, NoUnwatchedProcess
  <2>3. CASE proc[x] = "exited" /\ UNCHANGED vars
    BY <2>1, <2>3 DEF Facts, LaunchOrder, NoUnwatchedProcess
  <2> QED BY <1>4, <2>2, <2>3 DEF RecordStart
<1>5. CASE StartNotRecorded(x)
  <2>1. /\ phase[x] = "ready" /\ phase' = [phase EXCEPT ![x] = "unrecorded"] /\ KillTerminal(x)
        /\ UNCHANGED <<proc, avail, term, pty, kills, exitAt>>
    BY <1>5 DEF StartNotRecorded
  <2> QED BY <2>1
          DEF Facts, LaunchOrder, NoUnwatchedProcess, KillTerminal
<1>6. CASE RecordFailure(x)
  <2>1. /\ phase[x] \in {"refused", "unrecorded"} /\ phase' = [phase EXCEPT ![x] = "failed"]
        /\ UNCHANGED <<pty, killed, kills, exitAt>>
    BY <1>6 DEF RecordFailure
  <2>2. pty[x] # "up" \/ x \in killed
    BY <2>1 DEF Facts, LaunchOrder
  <2>3. UNCHANGED term
        /\ \/ UNCHANGED <<proc, avail>>
           \/ /\ proc[x] = "starting" /\ proc' = [proc EXCEPT ![x] = "lost"]
              /\ \A w \in Workers : w # x => avail'[w] = avail[w]
    BY <1>6 DEF RecordFailure, LaunchFailed, RootLaunchFailed, WorkerLaunchFailed, Retire
  <2> QED BY <2>1, <2>2, <2>3
          DEF Facts, LaunchOrder, NoUnwatchedProcess
<1> QED BY <1>1, <1>2, <1>3, <1>4, <1>5, <1>6 DEF LaunchStep

LEMMA DropLaunchFacts ==
  ASSUME LaunchTypeOK, Facts, NEW x \in Runs, DropLaunch(x)
  PROVE  Facts'
<1> USE DEF LaunchTypeOK, Runs, AllTerminals, Enter, InFlight, vars
<1>1. /\ phase[x] \in {"intent", "ready", "refused"} /\ phase' = [phase EXCEPT ![x] = "dropped"]
      /\ UNCHANGED <<proc, avail, term, pty, killed, kills, exitAt>>
  BY DEF DropLaunch
<1>2. phase[x] \in {"intent", "refused"} => pty[x] # "up" \/ x \in killed
  BY DEF Facts, LaunchOrder
<1> QED BY <1>1, <1>2 DEF Facts, LaunchOrder, NoUnwatchedProcess

\* An exit reaches the record of a run of its own terminal only after the
\* process ended.
LEMMA RecordExitFacts ==
  ASSUME LaunchTypeOK, Facts, NEW p \in AllTerminals, RecordExit(p)
  PROVE  Facts'
<1> USE OrchestrationAssumption, LaunchAssumption DEF LaunchTypeOK, TypeOK, Runs, AllTerminals
<1>1. /\ exitAt[p] = "queued" /\ exitAt' = [exitAt EXCEPT ![p] = "recorded"]
      /\ UNCHANGED <<phase, pty, killed>>
  BY DEF RecordExit
<1>2. pty[p] = "gone"
  BY <1>1 DEF Facts, LaunchOrder
<1>3. CASE LiveRunsAt(p) = {} /\ UNCHANGED <<vars, kills>>
  <2>1. p \in Workers => ~Live(p)
    BY <1>3 DEF LiveRunsAt
  <2> QED BY <1>1, <1>2, <1>3, <2>1
          DEF Facts, LaunchOrder, NoUnwatchedProcess, vars
<1>4. ASSUME NEW x \in LiveRunsAt(p), RunExited(x),
             kills' = IF x \in Roots /\ rootState[x] = "active" THEN kills \cup LiveOf(x) ELSE kills
      PROVE  Facts'
  <2>1. /\ x \in Runs /\ proc[x] # "none"
        /\ proc' = [proc EXCEPT ![x] = "exited"] /\ UNCHANGED term
    BY <1>4 DEF RunExited, RootExited, WorkerExited, LiveRunsAt, Live
  <2>2. IF x \in Roots THEN term[x] = p ELSE x = p
    BY <1>4 DEF LiveRunsAt
  <2>3. phase[x] # "idle" => x = p /\ pty[x] = "gone"
    BY <1>2, <2>1, <2>2 DEF Facts, LaunchOrder
  <2>4. phase[x] = "idle" => pty[x] = "none"
    BY <2>1 DEF Facts, LaunchOrder
  <2>5. \A w \in Workers : avail'[w] = "stopped" /\ w # x /\ Live(w) =>
          avail[w] = "stopped" \/ w \in kills'
    <3>1. CASE x \in Roots
      BY <1>4, <3>1, StopWorkersStops DEF RunExited, RootExited, LiveOf, Live
    <3>2. CASE x \in Workers
      BY <1>4, <3>2 DEF RunExited, WorkerExited, Retire
    <3> QED BY <2>1, <3>1, <3>2
  <2>6. kills \subseteq kills'
    BY <1>4
  <2>7. LaunchOrder'
    BY <1>1, <1>2, <2>1, <2>3, <2>4 DEF Facts, LaunchOrder, InFlight
  <2>8. NoUnwatchedProcess'
    BY <1>1, <2>1, <2>3, <2>4, <2>5, <2>6 DEF Facts, NoUnwatchedProcess, Live
  <2> QED BY <2>7, <2>8 DEF Facts
<1> QED BY <1>3, <1>4 DEF RecordExit

LEMMA ExitStepFacts ==
  ASSUME LaunchTypeOK, Facts, NEW p \in AllTerminals,
         ProcessEnds(p) \/ ExitStep(p) \/ ExitNotRecorded(p)
  PROVE  Facts'
<1> USE OrchestrationAssumption, LaunchAssumption
    DEF LaunchTypeOK, TypeOK, Runs, AllTerminals, vars
<1>1. CASE ProcessEnds(p)
  BY <1>1 DEF ProcessEnds, Facts, LaunchOrder, NoUnwatchedProcess
<1>2. CASE ForwardExit(p)
  BY <1>2 DEF ForwardExit, Facts, LaunchOrder, NoUnwatchedProcess
<1>3. CASE ExitNotRecorded(p)
  BY <1>3 DEF ExitNotRecorded, Facts, LaunchOrder, NoUnwatchedProcess
<1> QED BY <1>1, <1>2, <1>3, RecordExitFacts DEF ExitStep

LEMMA RootCallFacts ==
  ASSUME LaunchTypeOK, Facts, NEW r \in Roots, RootCall(r)
  PROVE  Facts'
<1> USE OrchestrationAssumption DEF Runs
<1>1. CASE LeadIntent(r)
  BY <1>1, IntentFacts DEF LeadIntent, RegisterLead, RegisterRoot
<1>2. ASSUME NEW p \in AllTerminals \ Workers, RegisterCall(r, p)
      PROVE  Facts'
  <2>1. proc[r] = "none" /\ phase[r] = "idle" /\ pty[r] = "none"
    BY <1>2 DEF RegisterCall, RegisterPane, RegisterRoot, Facts, LaunchOrder
  <2>2. /\ proc' = [proc EXCEPT ![r] = "running"] /\ term' = [term EXCEPT ![r] = p]
        /\ UNCHANGED <<avail, phase, pty, killed, kills, exitAt>>
    BY <1>2 DEF RegisterCall, RegisterPane, RegisterRoot
  <2>3. p \in Terminals
    BY DEF AllTerminals, Runs, Terminals
  <2> QED BY <2>1, <2>2, <2>3
          DEF Facts, LaunchOrder, NoUnwatchedProcess, InFlight, LaunchTypeOK, TypeOK
<1>3. CASE EndGroupCall(r)
  BY <1>3, StopWorkersStops, StoppingCallFacts DEF EndGroupCall, FinishRoot, StopGroup
<1>4. ASSUME NEW w \in Workers, NEW t \in Tasks, SpawnIntent(r, w, t) \/ AssignCall(r, w, t)
      PROVE  Facts'
  <2>1. CASE SpawnIntent(r, w, t)
    BY <2>1, IntentFacts DEF SpawnIntent, AcceptWorker
  <2>2. CASE AssignCall(r, w, t)
    BY <2>2, QuietCallFacts DEF AssignCall, Assign, runVars
  <2> QED BY <1>4, <2>1, <2>2
<1> QED BY <1>1, <1>2, <1>3, <1>4 DEF RootCall

LEMMA WorkerCallFacts ==
  ASSUME LaunchTypeOK, Facts, NEW w \in Workers, StopWorkerCall(w) \/ WorkCall(w) \/ KillRun(w)
  PROVE  Facts'
<1>1. CASE StopWorkerCall(w)
  BY <1>1, StopWorkersStops, StoppingCallFacts DEF StopWorkerCall, StopWorker, runVars
<1>2. CASE WorkCall(w)
  <2>1. UNCHANGED <<proc, term>> /\ UNCHANGED launchVars
    BY <1>2 DEF WorkCall, ClaimNext, MarkWorkerIdle, runVars
  <2>2. avail' = [avail EXCEPT ![w] = avail'[w]] /\ avail'[w] # "stopped"
    BY <1>2 DEF WorkCall, ClaimNext, MarkWorkerIdle, StartAssignment, LaunchTypeOK, TypeOK
  <2> QED BY <2>1, <2>2, QuietCallFacts DEF LaunchTypeOK, TypeOK
<1>3. CASE KillRun(w)
  BY <1>3 DEF KillRun, KillTerminal, Facts, LaunchOrder, NoUnwatchedProcess,
              vars
<1> QED BY <1>1, <1>2, <1>3

LEMMA ReportCallFacts ==
  ASSUME LaunchTypeOK, Facts, NEW x \in Runs, NEW t \in Tasks, ReportCall(x, t)
  PROVE  Facts'
<1>1. UNCHANGED <<proc, term>> /\ UNCHANGED launchVars
  BY DEF ReportCall, FinishTask, runVars
<1>2. \A w \in Workers : avail'[w] = "stopped" => avail[w] = "stopped"
  BY DEF ReportCall, FinishTask, LaunchTypeOK, TypeOK
<1> QED BY <1>1, <1>2, QuietCallFacts

LEMMA RestartFacts ==
  ASSUME LaunchTypeOK, Facts, Restart
  PROVE  Facts'
<1> USE DEF Runs, AllTerminals
<1>1. \A x \in Runs : proc'[x] = IF Live(x) THEN "lost" ELSE proc[x]
  BY DEF Restart, InterruptLiveRuns
<1>2. UNCHANGED term
  BY DEF Restart, InterruptLiveRuns
<1>3. \A x \in Runs : pty'[x] = IF pty[x] = "up" THEN "gone" ELSE pty[x]
  BY DEF Restart
<1>4. \A x \in Runs : /\ phase'[x] = "idle" <=> phase[x] = "idle"
                      /\ phase'[x] \notin InFlight
  BY DEF Restart, InFlight, LaunchTypeOK, Phase
<1>5. LaunchOrder'
  <2>1. \A p \in AllTerminals : exitAt'[p] # "none" <=> pty'[p] = "gone"
    BY DEF Restart, Facts, LaunchOrder, LaunchTypeOK
  <2> QED BY <1>1, <1>2, <1>3, <1>4, <2>1 DEF Facts, LaunchOrder, InFlight, Live, LaunchTypeOK
<1>6. NoUnwatchedProcess'
  BY <1>3 DEF NoUnwatchedProcess
<1> QED BY <1>5, <1>6 DEF Facts

LEMMA LaunchNextFacts == LaunchTypeOK /\ Facts /\ [LaunchNext]_allVars => Facts'
<1> SUFFICES ASSUME LaunchTypeOK, Facts, [LaunchNext]_allVars PROVE Facts'
  OBVIOUS
<1>1. CASE UNCHANGED allVars
  BY <1>1, QuietCallFacts DEF allVars, vars
<1>2. CASE LaunchNext
  BY <1>2, LaunchStepFacts, DropLaunchFacts, RootCallFacts, WorkerCallFacts, ReportCallFacts, ExitStepFacts,
     RestartFacts DEF LaunchNext
<1> QED BY <1>1, <1>2

LEMMA LaunchInitFacts == LaunchInit => Facts
<1> SUFFICES ASSUME LaunchInit PROVE Facts
  OBVIOUS
<1> USE OrchestrationAssumption, LaunchAssumption DEF LaunchInit, Init, Runs, AllTerminals
<1>1. \A x \in Runs : phase[x] = "idle" /\ proc[x] = "none" /\ pty[x] = "none"
  OBVIOUS
<1>2. LaunchOrder
  BY <1>1 DEF LaunchOrder, InFlight
<1>3. NoUnwatchedProcess
  BY <1>1 DEF NoUnwatchedProcess
<1> QED BY <1>2, <1>3 DEF Facts

-----------------------------------------------------------------------------
(* The end of a process reaches its run.                                   *)

\* What no step takes back: an exited run stays exited, a root its terminal,
\* and only an id that is new becomes a live worker or an active root.
LEMMA UsedStays ==
  ASSUME GroupInv, [Next]_vars
  PROVE  /\ \A q \in Roots : proc[q] = "exited" => proc'[q] = "exited" /\ term'[q] = term[q]
         /\ \A w \in Workers : Live(w)' => Live(w) \/ proc[w] = "none"
         /\ \A r \in Roots : rootState'[r] = "active" /\ proc[r] # "none" =>
              rootState[r] = "active" /\ term'[r] = term[r]
<1> USE GroupInvParts DEF TypeOK
<1>1. /\ \A x \in Runs : proc[x] \in {"exited", "lost"} => proc'[x] = proc[x]
      /\ \A r \in Roots : rootState[r] \notin {"none", "active"} => rootState'[r] = rootState[r]
  BY NextFinal DEF Final, vars
<1>2. \A w \in Workers : Live(w)' => Live(w) \/ proc[w] = "none"
  BY <1>1 DEF Live, Runs, ProcState
<1>3. \A r \in Roots : rootState'[r] = "active" /\ proc[r] # "none" => rootState[r] = "active"
  BY <1>1 DEF RootInv
<1> QED BY <1>1, <1>2, <1>3, TermStays DEF Runs

\* A step that takes no exit from its way, and registers no root in a terminal
\* whose exit was handled without noting that it came late.
LEMMA EndKept ==
  ASSUME LaunchTypeOK, Facts, GroupInv, GroupInv', [Next]_vars, EndReachesRun,
         \A p \in AllTerminals : pty'[p] = "gone" =>
           \/ ExitPending(p)' /\ pty[p] # "none"
           \/ pty[p] = "gone" /\ ~ExitPending(p),
         late \subseteq late',
         \A r \in Roots : proc[r] = "none" /\ proc'[r] # "none" =>
           /\ UNCHANGED <<pty, exitAt>>
           /\ pty[term'[r]] = "gone" => ExitPending(term'[r]) \/ r \in late'
  PROVE  EndReachesRun'
<1>1. ASSUME NEW w \in Workers, Live(w)', pty'[w] = "gone"
      PROVE  ExitPending(w)'
  <2>1. pty[w] # "none"
    BY <1>1 DEF AllTerminals, Runs
  <2>2. proc[w] # "none"
    BY <2>1 DEF Facts, LaunchOrder, Runs
  <2>3. Live(w)
    BY <1>1, <2>2, UsedStays
  <2> QED BY <1>1, <2>3 DEF EndReachesRun, AllTerminals, Runs
<1>2. ASSUME NEW r \in Roots, NEW p, rootState'[r] = "active", term'[r] = p, pty'[p] = "gone"
      PROVE  \/ ExitPending(p)' \/ r \in late'
             \/ \E q \in Roots \ {r} : term'[q] = p /\ proc'[q] = "exited"
  <2>1. proc'[r] # "none"
    BY <1>2, GroupInvParts DEF GroupInv, RecordsMatch
  <2>2. CASE proc[r] = "none"
    BY <1>2, <2>1, <2>2 DEF ExitPending
  <2>3. CASE proc[r] # "none"
    <3>1. rootState[r] = "active" /\ term[r] = p /\ p \in AllTerminals
      BY <1>2, <2>3, UsedStays DEF Facts, LaunchOrder, AllTerminals, Runs, Terminals
    <3>2. CASE pty[p] = "gone" /\ ~ExitPending(p)
      <4>1. r \in late \/ \E q \in Roots \ {r} : term[q] = p /\ proc[q] = "exited"
        BY <3>1, <3>2 DEF EndReachesRun
      <4> QED BY <3>1, <4>1, UsedStays
    <3> QED BY <1>2, <3>1, <3>2 DEF ExitPending
  <2> QED BY <2>2, <2>3
<1> QED BY <1>1, <1>2 DEF EndReachesRun, ExitPending

\* A step of the launch that registers no root and lets no process end.
LEMMA QuietEnd ==
  ASSUME LaunchTypeOK, Facts, GroupInv, GroupInv', [Next]_vars, EndReachesRun,
         UNCHANGED <<exitAt, late>>, \A p \in AllTerminals : pty'[p] = "gone" => pty[p] = "gone",
         \A r \in Roots : proc[r] = "none" => proc'[r] = "none"
  PROVE  EndReachesRun'
<1>1. \A p \in AllTerminals : pty'[p] = "gone" =>
        \/ ExitPending(p)' /\ pty[p] # "none"
        \/ pty[p] = "gone" /\ ~ExitPending(p)
  BY DEF ExitPending
<1> QED BY <1>1, EndKept

LEMMA LaunchStepEnd ==
  ASSUME LaunchTypeOK, Facts, GroupInv, GroupInv', EndReachesRun, NEW x \in Runs,
         LaunchStep(x) \/ DropLaunch(x)
  PROVE  EndReachesRun'
<1>1. [Next]_vars
  BY LaunchStepIsStep DEF DropLaunch
<1>2. /\ UNCHANGED <<exitAt, late>>
      /\ \A p \in AllTerminals : pty'[p] = "gone" => pty[p] = "gone"
  BY DEF LaunchStep, DropLaunch, CheckBeforeStart, LaunchProcess, CheckAfterStart, RecordStart,
         StartNotRecorded, RecordFailure, LaunchTypeOK
<1>3. \A r \in Roots : proc[r] = "none" => proc'[r] = "none"
  <2>1. CASE RecordStart(x)
    BY <2>1, MarkStartedEffect DEF RecordStart, vars, LaunchTypeOK, TypeOK, Runs
  <2>2. CASE RecordFailure(x)
    BY <2>2 DEF RecordFailure, LaunchFailed, RootLaunchFailed, WorkerLaunchFailed, vars,
                LaunchTypeOK, TypeOK, Runs
  <2>3. CASE UNCHANGED proc
    BY <2>3
  <2> QED BY <2>1, <2>2, <2>3 DEF LaunchStep, DropLaunch, CheckBeforeStart, LaunchProcess,
                                  CheckAfterStart, StartNotRecorded, vars
<1> QED BY <1>1, <1>2, <1>3, QuietEnd

LEMMA RootCallEnd ==
  ASSUME LaunchTypeOK, Facts, GroupInv, GroupInv', EndReachesRun, NEW r \in Roots, RootCall(r)
  PROVE  EndReachesRun'
<1> USE RootCallIsStep
<1>1. ASSUME NEW p \in AllTerminals, NEW managed, RegisterRoot(r, p, managed), late \subseteq late',
             pty[p] = "gone" => ExitPending(p) \/ r \in late', UNCHANGED <<pty, exitAt>>
      PROVE  EndReachesRun'
  <2>1. \A q \in Roots : proc[q] = "none" /\ proc'[q] # "none" => q = r
    BY <1>1 DEF RegisterRoot
  <2>2. term'[r] = p
    BY <1>1 DEF RegisterRoot, LaunchTypeOK, TypeOK
  <2>3. \A q \in AllTerminals : pty'[q] = "gone" =>
          \/ ExitPending(q)' /\ pty[q] # "none"
          \/ pty[q] = "gone" /\ ~ExitPending(q)
    BY <1>1 DEF ExitPending
  <2> QED BY <1>1, <2>1, <2>2, <2>3, EndKept
<1>2. CASE LeadIntent(r)
  <2>1. r \in AllTerminals /\ pty[r] # "gone"
    BY <1>2 DEF LeadIntent, RegisterLead, RegisterRoot, Facts, LaunchOrder, AllTerminals, Runs
  <2> QED BY <1>1, <1>2, <2>1 DEF LeadIntent, RegisterLead
<1>3. ASSUME NEW p \in AllTerminals \ Workers, RegisterCall(r, p)
      PROVE  EndReachesRun'
  <2>1. pty[p] = "gone" => ExitPending(p) \/ exitAt[p] \in {"recorded", "unrecorded"}
    BY DEF Facts, LaunchOrder, LaunchTypeOK, ExitPending
  <2> QED BY <1>1, <1>3, <2>1 DEF RegisterCall, RegisterPane
<1>4. CASE EndGroupCall(r)
  BY <1>4, QuietEnd DEF EndGroupCall, DecideKills, FinishRoot, StopGroup
<1>5. ASSUME NEW w \in Workers, NEW t \in Tasks, SpawnIntent(r, w, t) \/ AssignCall(r, w, t)
      PROVE  EndReachesRun'
  <2>1. UNCHANGED <<pty, exitAt, late>>
    BY <1>5 DEF SpawnIntent, AssignCall, launchVars
  <2>2. \A q \in Roots : proc[q] = "none" => proc'[q] = "none"
    BY <1>5, OrchestrationAssumption
       DEF SpawnIntent, AcceptWorker, AssignCall, Assign, runVars, LaunchTypeOK, TypeOK, Runs
  <2> QED BY <2>1, <2>2, QuietEnd
<1> QED BY <1>2, <1>3, <1>4, <1>5 DEF RootCall

\* A run of the terminal takes the exit that is recorded: the worker itself,
\* the active root, or another root, which then is the one that took it.
LEMMA RecordExitEnd ==
  ASSUME LaunchTypeOK, Facts, GroupInv, GroupInv', TerminalInv, [Next]_vars, EndReachesRun,
         NEW p \in AllTerminals, RecordExit(p)
  PROVE  EndReachesRun'
<1> USE OrchestrationAssumption, LaunchAssumption DEF LaunchTypeOK, TypeOK, Runs, AllTerminals
<1>1. /\ pty' = pty /\ pty[p] = "gone" /\ late' = late
      /\ \A q \in AllTerminals : q # p => exitAt'[q] = exitAt[q]
  BY DEF RecordExit, Facts, LaunchOrder
<1>2. \/ \E x \in LiveRunsAt(p) : RunExited(x)
      \/ LiveRunsAt(p) = {} /\ UNCHANGED vars
  BY DEF RecordExit
<1>3. \A y \in Runs : proc[y] = "none" => proc'[y] = "none"
  BY <1>2 DEF LiveRunsAt, RunExited, RootExited, WorkerExited, Live, vars
<1>4. ASSUME NEW w \in Workers, Live(w)', pty'[w] = "gone"
      PROVE  ExitPending(w)'
  <2>1. Live(w)
    BY <1>3, <1>4, UsedStays DEF Live
  <2>2. CASE w # p
    BY <1>1, <1>4, <2>1, <2>2 DEF EndReachesRun, ExitPending
  <2>3. CASE w = p
    <3>1. w \in LiveRunsAt(p)
      BY <2>1, <2>3 DEF LiveRunsAt
    <3>2. PICK x \in LiveRunsAt(p) : RunExited(x)
      BY <1>2, <3>1
    <3>3. x = w
      BY <2>3, <3>2 DEF LiveRunsAt, Facts, LaunchOrder, Live, Terminals
    <3> QED BY <1>4, <3>2, <3>3 DEF RunExited, WorkerExited, Live
  <2> QED BY <2>2, <2>3
<1>5. ASSUME NEW r \in Roots, NEW q, rootState'[r] = "active", term'[r] = q, pty'[q] = "gone"
      PROVE  \/ ExitPending(q)' \/ r \in late'
             \/ \E o \in Roots \ {r} : term'[o] = q /\ proc'[o] = "exited"
  <2>1. proc'[r] # "none"
    BY <1>5, GroupInvParts DEF GroupInv, RecordsMatch
  <2>2. rootState[r] = "active" /\ term[r] = q /\ q \in AllTerminals
    BY <1>3, <1>5, <2>1, UsedStays DEF Facts, LaunchOrder, Terminals
  <2>3. CASE q # p
    <3>1. CASE \E o \in Roots \ {r} : term[o] = q /\ proc[o] = "exited"
      BY <3>1, UsedStays
    <3>2. CASE ExitPending(q)
      BY <1>1, <2>2, <2>3, <3>2 DEF ExitPending
    <3> QED BY <1>1, <1>5, <2>2, <3>1, <3>2 DEF EndReachesRun
  <2>4. CASE q = p
    <3>1. r \in LiveRunsAt(p)
      BY <2>2, <2>4 DEF LiveRunsAt, TerminalInv
    <3>2. PICK x \in LiveRunsAt(p) : RunExited(x)
      BY <1>2, <3>1
    <3>3. x \in Roots /\ term[x] = p
      BY <2>2, <2>4, <3>2 DEF LiveRunsAt, Facts, LaunchOrder, Live, Terminals, TerminalInv
    <3>4. x # r /\ proc'[x] = "exited" /\ term'[x] = p
      BY <1>5, <3>2, <3>3 DEF RunExited, RootExited, CloseRoot
    <3> QED BY <2>4, <3>3, <3>4
  <2> QED BY <2>3, <2>4
<1> QED BY <1>4, <1>5 DEF EndReachesRun, ExitPending

\* A restart leaves no live run, so no active root.
LEMMA RestartEnd ==
  ASSUME TerminalInv', Restart
  PROVE  EndReachesRun'
<1>1. \A x \in Runs : ~Live(x)'
  BY DEF Restart, InterruptLiveRuns, Live
<1> QED BY <1>1 DEF TerminalInv, EndReachesRun, Runs

LEMMA LaunchNextEnd ==
  ASSUME LaunchTypeOK, Facts, GroupInv, GroupInv', TerminalInv, TerminalInv', EndReachesRun,
         [LaunchNext]_allVars
  PROVE  EndReachesRun'
<1> USE LaunchNextIsStep
<1>1. CASE UNCHANGED allVars
  BY <1>1, QuietEnd DEF allVars, launchVars, vars
<1>2. ASSUME NEW w \in Workers, StopWorkerCall(w) \/ WorkCall(w) \/ KillRun(w)
      PROVE  EndReachesRun'
  <2>1. UNCHANGED <<proc, pty, exitAt, late>>
    BY <1>2 DEF StopWorkerCall, StopWorker, WorkCall, ClaimNext, MarkWorkerIdle, KillRun, DecideKills,
                runVars, launchVars, vars
  <2>2. LaunchNext
    BY <1>2 DEF LaunchNext
  <2> QED BY <2>1, <2>2, QuietEnd
<1>3. ASSUME NEW x \in Runs, NEW t \in Tasks, ReportCall(x, t)
      PROVE  EndReachesRun'
  <2>1. UNCHANGED <<proc, pty, exitAt, late>>
    BY <1>3 DEF ReportCall, FinishTask, runVars, launchVars
  <2>2. LaunchNext
    BY <1>3 DEF LaunchNext
  <2> QED BY <2>1, <2>2, QuietEnd
<1>4. ASSUME NEW p \in AllTerminals, ProcessEnds(p) \/ ForwardExit(p) \/ ExitNotRecorded(p)
      PROVE  EndReachesRun'
  <2>1. \A q \in AllTerminals : pty'[q] = "gone" =>
          \/ ExitPending(q)' /\ pty[q] # "none"
          \/ pty[q] = "gone" /\ ~ExitPending(q)
    BY <1>4 DEF ProcessEnds, ForwardExit, ExitNotRecorded, ExitPending, LaunchTypeOK
  <2>2. UNCHANGED <<vars, late>>
    BY <1>4 DEF ProcessEnds, ForwardExit, ExitNotRecorded
  <2> QED BY <2>1, <2>2, EndKept DEF vars
<1>5. ASSUME NEW p \in AllTerminals, RecordExit(p)
      PROVE  EndReachesRun'
  <2>1. LaunchNext
    BY <1>5 DEF LaunchNext, ExitStep
  <2> QED BY <1>5, <2>1, RecordExitEnd
<1>6. CASE Restart
  BY <1>6, RestartEnd
<1> QED BY <1>1, <1>2, <1>3, <1>4, <1>5, <1>6, LaunchStepEnd, RootCallEnd DEF LaunchNext, ExitStep

-----------------------------------------------------------------------------
(* No launch is forgotten.                                                 *)

\* A step that leaves the launches alone and starts no run.
LEMMA AccountKept ==
  ASSUME LaunchAccounted, UNCHANGED <<phase, request>>,
         \A x \in Runs : /\ proc'[x] = "starting" => proc[x] = "starting"
                         /\ proc[x] = "exited" => proc'[x] = "exited"
  PROVE  LaunchAccounted'
BY DEF LaunchAccounted

\* A step of the launch of x, that leaves every other one alone.
LEMMA AccountStep ==
  ASSUME LaunchTypeOK, LaunchAccounted, NEW x \in Runs,
         NEW ph, phase' = [phase EXCEPT ![x] = ph],
         \A y \in Runs : y # x => proc'[y] = proc[y] /\ request'[y] = request[y],
         proc'[x] = "starting" => ph \in InFlight \cup {"dropped"} \/ (ph = "failed" /\ StoreMayFail),
         ph = "failed" /\ request'[x] # "free" => proc'[x] = "exited" \/ StoreMayFail
  PROVE  LaunchAccounted'
BY DEF LaunchAccounted, LaunchTypeOK

LEMMA LaunchStepAccounted ==
  ASSUME LaunchTypeOK, Facts, LaunchAccounted, NEW x \in Runs, LaunchStep(x) \/ DropLaunch(x)
  PROVE  LaunchAccounted'
<1> USE DEF Enter, InFlight, vars
<1>1. CASE CheckBeforeStart(x) \/ LaunchProcess(x) \/ CheckAfterStart(x) \/ StartNotRecorded(x)
           \/ DropLaunch(x)
  <2>1. UNCHANGED <<proc, request>>
    BY <1>1 DEF CheckBeforeStart, LaunchProcess, CheckAfterStart, StartNotRecorded, DropLaunch
  <2>2. PICK ph \in InFlight \cup {"dropped"} : phase' = [phase EXCEPT ![x] = ph]
    BY <1>1 DEF CheckBeforeStart, LaunchProcess, CheckAfterStart, StartNotRecorded, DropLaunch
  <2> QED BY <2>1, <2>2, AccountStep
<1>2. CASE RecordStart(x)
  <2>1. proc'[x] # "starting" /\ \A y \in Runs : y # x => proc'[y] = proc[y]
    BY <1>2, MarkStartedEffect DEF RecordStart, LaunchTypeOK, TypeOK
  <2>2. phase' = [phase EXCEPT ![x] = "started"]
    BY <1>2 DEF RecordStart
  <2>3. \A y \in Runs : y # x => request'[y] = request[y]
    BY <1>2 DEF RecordStart, LaunchTypeOK
  <2> QED BY <2>1, <2>2, <2>3, AccountStep
<1>3. CASE RecordFailure(x)
  <2>1. phase' = [phase EXCEPT ![x] = "failed"] /\ proc[x] \in {"starting", "exited"}
    BY <1>3 DEF RecordFailure, Facts, LaunchOrder
  <2>2. CASE LaunchFailed(x) /\ request' = [request EXCEPT ![x] = "free"]
    <3>1. proc' = [proc EXCEPT ![x] = "lost"]
      BY <2>2 DEF LaunchFailed, RootLaunchFailed, WorkerLaunchFailed
    <3>2. /\ proc'[x] = "lost" /\ request'[x] = "free"
          /\ \A y \in Runs : y # x => proc'[y] = proc[y] /\ request'[y] = request[y]
      BY <2>2, <3>1 DEF LaunchTypeOK, TypeOK
    <3> QED BY <2>1, <3>2, AccountStep
  <2>3. CASE (proc[x] # "starting" \/ StoreMayFail) /\ UNCHANGED <<vars, request>>
    <3>1. UNCHANGED <<proc, request>>
      BY <2>3
    <3> QED BY <2>1, <2>3, <3>1, AccountStep
  <2> QED BY <1>3, <2>2, <2>3 DEF RecordFailure
<1> QED BY <1>1, <1>2, <1>3 DEF LaunchStep

LEMMA LaunchNextAccounted ==
  ASSUME LaunchTypeOK, Facts, LaunchAccounted, GroupInv, [LaunchNext]_allVars
  PROVE  LaunchAccounted'
<1> USE OrchestrationAssumption DEF LaunchTypeOK, TypeOK
<1>0. \A x \in Runs : proc[x] = "exited" => proc'[x] = "exited"
  BY LaunchNextIsStep, NextFinal DEF Final, vars
<1>1. ASSUME NEW x \in Runs, LaunchStep(x) \/ DropLaunch(x)
      PROVE  LaunchAccounted'
  BY <1>1, LaunchStepAccounted
<1>2. ASSUME NEW x \in Runs, Enter(x, "intent"), request' = [request EXCEPT ![x] = "reserved"],
             proc' = [proc EXCEPT ![x] = "starting"]
      PROVE  LaunchAccounted'
  BY <1>2 DEF Enter, LaunchAccounted, InFlight
<1>3. ASSUME NEW r \in Roots, NEW w \in Workers, NEW t \in Tasks, SpawnIntent(r, w, t)
      PROVE  LaunchAccounted'
  BY <1>2, <1>3 DEF SpawnIntent, AcceptWorker, Runs
<1>4. ASSUME NEW r \in Roots, LeadIntent(r)
      PROVE  LaunchAccounted'
  BY <1>2, <1>4 DEF LeadIntent, RegisterLead, RegisterRoot, Runs
<1>5. ASSUME NEW r \in Roots, NEW p, RegisterCall(r, p)
      PROVE  LaunchAccounted'
  <2>1. \A x \in Runs : proc'[x] = "starting" => proc[x] = "starting"
    BY <1>5 DEF RegisterCall, RegisterPane, RegisterRoot
  <2> QED BY <1>0, <1>5, <2>1, AccountKept DEF RegisterCall
<1>6. ASSUME NEW r \in Roots, NEW w, NEW t, EndGroupCall(r) \/ AssignCall(r, w, t)
      PROVE  LaunchAccounted'
  <2>1. UNCHANGED <<proc, phase, request>>
    BY <1>6 DEF EndGroupCall, DecideKills, FinishRoot, StopGroup, AssignCall, Assign, runVars,
                launchVars
  <2> QED BY <2>1, AccountKept
<1>7. ASSUME NEW w \in Workers, StopWorkerCall(w) \/ WorkCall(w) \/ KillRun(w)
      PROVE  LaunchAccounted'
  <2>1. UNCHANGED <<proc, phase, request>>
    BY <1>7 DEF StopWorkerCall, StopWorker, WorkCall, ClaimNext, MarkWorkerIdle, KillRun, DecideKills,
                runVars, launchVars, vars
  <2> QED BY <2>1, AccountKept
<1>8. ASSUME NEW x \in Runs, NEW t \in Tasks, ReportCall(x, t)
      PROVE  LaunchAccounted'
  BY <1>8, AccountKept DEF ReportCall, FinishTask, runVars, launchVars
<1>9. ASSUME NEW p \in AllTerminals, ProcessEnds(p) \/ ExitStep(p) \/ ExitNotRecorded(p)
      PROVE  LaunchAccounted'
  <2>1. \A x \in Runs : proc'[x] = "starting" => proc[x] = "starting"
    BY <1>9 DEF ProcessEnds, ExitStep, ForwardExit, RecordExit, ExitNotRecorded, RunExited,
                RootExited, WorkerExited, vars
  <2>2. UNCHANGED <<phase, request>>
    BY <1>9 DEF ProcessEnds, ExitStep, ForwardExit, RecordExit, ExitNotRecorded
  <2> QED BY <1>0, <2>1, <2>2, AccountKept
<1>10. CASE Restart
  <2>1. /\ \A x \in Runs : proc'[x] # "starting"
        /\ \A x \in Runs : phase'[x] = "failed" => phase[x] = "failed"
        /\ request' = request
    BY <1>10 DEF Restart, InterruptLiveRuns, Live
  <2> QED BY <1>0, <2>1 DEF LaunchAccounted
<1>11. CASE UNCHANGED allVars
  BY <1>11, AccountKept DEF allVars, vars, launchVars
<1> QED BY <1>1, <1>3, <1>4, <1>5, <1>6, <1>7, <1>8, <1>9, <1>10, <1>11
        DEF LaunchNext, RootCall

-----------------------------------------------------------------------------
LEMMA LaunchInitEnds == LaunchInit => EndReachesRun /\ LaunchAccounted
BY OrchestrationAssumption
   DEF LaunchInit, Init, EndReachesRun, LaunchAccounted, Live, Runs, AllTerminals

\* The launches, kills and exits of any number of runs keep their order.
THEOREM LaunchInvariant == LaunchSpec => []LaunchInv
<1>1. LaunchSpec => [](GroupInv /\ TerminalInv)
  BY LaunchKeepsGroup, GroupInvariant, TerminalInvariant, PTL
<1>2. LaunchSpec => []Facts
  BY LaunchTypeCorrect, LaunchInitFacts, LaunchNextFacts, PTL DEF LaunchSpec
<1>3. /\ LaunchTypeOK /\ Facts /\ EndReachesRun /\ LaunchAccounted
      /\ GroupInv /\ GroupInv' /\ TerminalInv /\ TerminalInv' /\ [LaunchNext]_allVars
      => EndReachesRun' /\ LaunchAccounted'
  BY LaunchNextEnd, LaunchNextAccounted
<1>4. LaunchSpec => [](EndReachesRun /\ LaunchAccounted)
  BY <1>1, <1>2, <1>3, LaunchTypeCorrect, LaunchInitEnds, PTL DEF LaunchSpec
<1> QED BY <1>2, <1>4, LaunchTypeCorrect, PTL DEF LaunchInv, Facts

\* Once a launch is over, its process belongs to a running run or was told to
\* end, however the stop, the exit, a failing write and the three parts of the
\* launch (runtime.rs start_process, finish_start, kill_runs) interleave.
THEOREM NoProcessUnwatched == LaunchSpec => []NoUnwatchedProcess
BY LaunchInvariant, PTL DEF LaunchInv

\* The end of a process (runtime.rs on_terminal_exit, model.rs mark_exited)
\* is on its way, or the worker does not count as live and the group of the
\* root is closed: a late record of the start brings neither back, and only a
\* root closed before in the same terminal can take the exit of another one.
THEOREM EndsReachRuns == LaunchSpec => []EndReachesRun
BY LaunchInvariant, PTL DEF LaunchInv

\* A run is never left starting by a launch that is over (agents.rs launch,
\* runtime.rs finish_start, model.rs mark_launch_failed), and the id of one that
\* failed is free again, but for a failing write and for an exit that was first.
THEOREM LaunchesAccounted == LaunchSpec => []LaunchAccounted
BY LaunchInvariant, PTL DEF LaunchInv

=============================================================================
