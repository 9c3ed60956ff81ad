# Verification of NotMux in TLA+

NotMux is a terminal multiplexer and workspace for coding agents. This directory holds TLA+
models of the parts of it that have a protocol, the TLC configurations that check them, and
TLAPS proofs. Paths below are relative to the repository; in `PROJECT.json` they start with
`src/`, its root.

| Module | What it is | Code it stands for |
|---|---|---|
| `Orchestration` | runs and assignments; every method of `Model` that changes them | `src/orchestration/model.rs` |
| `AgentLaunch` | extends it with processes, launches, kills, exits and restarts | `src/orchestration/runtime.rs`, `store.rs`, `src/remote/routes/agents.rs`, `src/app/mod.rs` |
| `AgentRequests` | extends `Orchestration` with the command line client, its retries, request records, mailboxes and the waiting `next` | `src/orchestration/runtime.rs`, `model.rs`, `store.rs`, `src/remote/routes/agents.rs`, `src/cli/agent_commands.rs` |
| `AgentGroup` | abstract: what a group of agents promises | - |
| `GroupRefinement` | the mapping by which `Orchestration` implements `AgentGroup` | - |
| `Services` | the commands a project runs beside its terminals | `crates/notmux-services/src/manager.rs` |
| `Terminals` | sessions: a process, its reader, writer and waiter threads, its exit events | `crates/notmux-terminal/src/pty_manager.rs` |
| `HookTerminals` | extends it with panes, agents, hooks and the removal of a worktree | `src/app/mod.rs`, `crates/notmux-workspace/src/{state,lifecycle}.rs`, `crates/notmux-hooks/src/hooks.rs` |
| `Layout` | the tree of panes: pure operators | `crates/notmux-layout/src/lib.rs` |
| `Panes` | extends it with a project's two trees and the requests on them | `crates/notmux-workspace/src/actions/{layout,pin}.rs`, `src/workspace/actions/execute.rs` |
| `StreamServer` | the server's end of a remote connection, and the output bus | `src/remote/routes/stream.rs`, `pty_broadcaster.rs` |
| `RemoteClient` | extends it with the client's end | `crates/notmux-core/src/client`, `crates/notmux-remote-client/src` |
| `OrchestrationProofs`, `RefinementProofs`, `LaunchProofs`, `AgentRequestsProofs`, `ServicesProofs`, `HookTerminalsProofs`, `StreamProofs`, `ConnectionProofs` | theorems | |
| `MC*.tla`, `MC*.cfg` | instances for TLC | |

Run a configuration with `tlc -config MCGroups.cfg MCOrchestration.tla` (the module of each
is in `PROJECT.json`), a proof with `tlapm OrchestrationProofs.tla`.

A definition commented "Faulty" is a plausible wrong version of the one after it; nothing
uses it but the runs that show which property it breaks.

## 1. Inventory of the system

| Component | State | Operations | Meets others through |
|---|---|---|---|
| **Group model** (`orchestration/model.rs`) | runs, assignments, messages, events, request records | register, accept_worker, mark_started, mark_launch_failed, mark_exited, assign, claim_next, finish_task, finish_root, stop, send_message, ack, interrupt_live_runs | called by the runtime inside a store write |
| **Store** (`orchestration/store.rs`) | the visible model, the document on disk | read, mutate (one writer thread: copy, change, write, publish) | one job queue for all callers; a failed write changes nothing |
| **Runtime** (`orchestration/runtime.rs`, `mod.rs`) | launches in progress, change counter | plan, prepare, commit_intent, start_process, finish_start, handle, kill_runs, on_terminal_exit, wait | HTTP handlers on a thread pool, UI thread for processes and panes, exit-recorder thread |
| **Agent API and its client** (`remote/routes/agents.rs`, `cli/agent_commands.rs`) | one handler per post, the change receivers of those that wait | post and post again; resolve, look up, write, answer; sleep, wake, time out, be dropped | the store, the change counter, agents that run `notmux agent` |
| **PTY manager** (`crates/notmux-terminal`) | handles of processes, three threads each | create, kill, write, cleanup_exited | event channel to the UI thread |
| **Services** (`crates/notmux-services`) | instances with a status, terminal ownership | load, reload, start, stop, restart, exit with delayed restart | terminals, timers, restart tasks |
| **Hooks and lifecycle** (`crates/notmux-hooks`, `workspace/lifecycle.rs`) | hook terminals, removals that wait | run, rerun, dismiss, exit, close a worktree | exit events of terminals |
| **Workspace and layout** (`crates/notmux-workspace`, `-layout`, `-state`) | a tree of panes per project, pins and the pinned view's tree | requests on the UI thread, debounced save, validation | views, remote requests |
| **Remote server** (`remote/server.rs`, `routes/stream.rs`, `pty_broadcaster.rs`) | sessions: subscriptions, stream ids, output under way | subscribe, snapshot, coalesce, overrun, drain, push versions | bridge to the UI thread, bounded broadcast |
| **Remote client** (`crates/notmux-core/src/client`) | cached state, stream maps, attempts | dial, fetch, subscribe, follow, re-fetch, write, reconnect, pair | socket, event channel |
| **Remote authentication** (`remote/auth.rs`) | pairing code, tokens, their file | new code, try_pair, validate, refresh, revoke, reload | handlers in parallel, file on disk |
| Git, updater, agent detection, harness files, views, themes, mobile and web clients | | | see `PROJECT.json` for the reason each is left out |

**What is hard.**

- *Launches* cross three threads and two store writes, while the root may stop the worker or
  end, the new process may call back before its start is recorded, or exit before that;
  either write may fail, and NotMux may be restarted between any two steps. Commands decide
  kills in a write and carry them out after it. Every end must settle assignments and
  announce itself exactly once, or a root blocked in `wait` sleeps for ever.
- *Requests* may be posted three times, each post is served by a handler that goes on when its
  client no longer waits for it, and the reply or the process of either side may be lost at any point;
  between the look-up of a request and the write it asks for, another post of it may write.
  A `next` that waits must see every change that concerns it, though polls, writes and the
  announcement of a change are separate steps of different threads.
- *Service restarts* let go of the UI thread three times between taking the old terminal and
  starting the new one; exits arrive late and name a terminal, not a process.
- *Exits of terminals* are noticed by up to three threads at a time, and an id is reused when
  a pane is reconnected. The removal of a worktree waits for a hook that may be dismissed,
  rerun, killed or asked for twice.
- *Panes* live in two trees that are edited through paths of one and ids of both, and
  normalised after some of the edits.
- *The stream* relates three things that change on their own: the terminals of the server,
  the ids a session gave them, and what the client believes of both. Output goes through a
  bus that overwrites, next to snapshots drawn by another thread.

`PROJECT.json` lists each of these hazards at its line, with the properties that cover it or
the reason why none does.

**What makes each component correct.**

- *Group model*: an open assignment always has a worker that can answer for it; the worker's
  pointer names a running assignment of its own; assignments start in order; ends are final
  and announced once; a closed group takes no work; limits hold; a terminal leads one group.
- *Launch and exits*: no process is left that nobody ends; a stop wins over a start; an exit
  that overtakes the record of the start is not lost; launches are decided.
- *Services*: "running" and "restarting" are true; one process per service, none after a stop, a reload
  without it or an unload; a stop wins over a restart; a restart ends.
- *Terminals*: one report of an agent's exit, and never none; a process belongs to a pane or
  a hook.
- *Worktree removal*: it waits for a hook that is still to end, and is decided when it does.
- *Panes*: no pane twice, none lost but by a close, none hidden by what does not concern it;
  the pinned view shows the pinned panes in the order the user gave them.
- *Stream*: input and output reach their terminal; output continues what the screen shows; a
  client differs from the server only while word of it is under way; a closed terminal leaves it.
- *Requests*: each is applied at most once, and a retry gets the first answer.
- *Waiting*: no wake-up is lost.
- *Tokens* (planned): a revoked token stays revoked, on disk and after a reload.

## 2. How the modules correspond to the code

### Orchestration

The store applies one mutation at a time to a copy of `Model`, writes it to disk and then
makes it visible. So a method is one action. Who calls it does not matter here: callers
resolve their identity with a read *before* the write, so any method may run in any state
and only its own guards count. `Next` therefore allows every method always.

| Variable | Code |
|---|---|
| `proc`, `rootState`, `term`, `born` | `process_state`, `root_state`, `terminal_id`, `created_at_ms` (as a rank) of `RunRecord` |
| `avail`, `parent`, `cur` | `worker_state`, `role.root_id`, `current_task_id` |
| `tstate`, `twork`, `tseq` | `state`, `worker_id`, `sequence` of `AssignmentRecord` |
| `consumed`, `liveWorkers` | `budget.consumed_starts`, `budget.live_workers` |
| `tdone`, `rdone` | how many `AssignmentFinished` and `RootFinished` events the log holds |

| Action | Method | Worth noting |
|---|---|---|
| `RegisterPane`, `RegisterLead` | `register_root` | superseded unless the *newest* live run of the terminal is active |
| `AcceptWorker` | `accept_worker` | checks the limits, then the first assignment is queued |
| `MarkStarted` | `mark_started` | starts the first queued assignment |
| `RootLaunchFailed`, `WorkerLaunchFailed` | `mark_launch_failed` | |
| `RootExited`, `WorkerExited` | `mark_exited` | an early exit starts the first queued assignment before it is settled |
| `Assign`, `ClaimNext`, `MarkWorkerIdle`, `FinishTask` | same names | `finish_task` by the worker or its root, for any open assignment |
| `FinishRoot`, `StopGroup`, `StopWorker` | `finish_root`, `stop` | |
| `InterruptLiveRuns` | `interrupt_live_runs` | |

Operations that change nothing (a replayed assignment of a busy worker, the return of an
active root) are stutters. Abstracted: texts, names, times, messages (whether a message waits
is an input of `ClaimNext`), the contents of the event log. Not reachable and left out:
`mark_cleanup_failed`, because `kill_runs` calls it only for runs without a terminal and
every run is recorded with one.

### AgentGroup and GroupRefinement

`AgentGroup` knows no processes, pointers, counters, terminals or limits: groups begin and
end, workers serve one group and leave once, assignments are queued for one worker, started
in their turn and settled once. `GroupRefinement` maps a root's state to its group's, a
worker that is recorded and not stopped to a serving one, and assignments to themselves.
Every end of the code is the one step `Leave`, with the group or a worker alone; a launch of
a lead root that fails is `Abandon`, since the code does not stop workers accepted meanwhile.

### AgentLaunch

A launch is `SpawnIntent`/`LeadIntent` (`commit_intent`, one write) -> `CheckBeforeStart`,
`LaunchProcess`, `CheckAfterStart` (`start_process`, on the UI thread, which forwards no exits
meanwhile: variable `ui`) -> `RecordStart`, or `StartNotRecorded`/`RecordFailure`
(`finish_start`, the failure being a second write whose result is dropped). Commands are a
store write with the kills it decides (`EndGroupCall`, `StopWorkerCall`, ...) and the kills
themselves (`KillRun`), which reach only a process the PTY manager knows. An exit goes
`ProcessEnds` -> `ForwardExit` (UI thread) -> `RecordExit` (recorder thread, which picks *some*
live run of the terminal: the map is ordered by random ids). `Restart` loses phases, kills and
exits, and the store interrupts what was live; panes of the user come back with their session.

A caller is a process that is or was up (`Called`): this stands for the read that resolves
the caller, which may be older than the write. The same holds of `RegisterCall`: the pane is looked up on
the UI thread (`agents.rs:103-112`) and the root written later by a blocking thread
(`runtime.rs:281-318`); a root that is written when the exit of its terminal was handled is `late`. `DropLaunch` is the client
of a launch that disconnects: the future of `launch()` ends where it awaits, and nobody records the start. `StoreMayFail` lets both writes of a launch
fail, and the write of an exit (`ExitNotRecorded`), which is only logged. The pane of a run
is only a possible failure of `CheckAfterStart`, the launch deadline one of
`CheckBeforeStart`.

### AgentRequests

A command (`Commands`) is one run of `notmux agent ...` with one request id; `Issue` and
`Retry` are the posts of `call()`, and a pair of command and attempt is the handler that serves the
post. Its `phase` follows the route:

| Step | Code |
|---|---|
| `LookUp` | `wait_loop` marks the changes seen, `handle_registered` resolves the caller and looks the id up, by reads |
| `Write`, `Replay`, `Refuse` | the job of the store's writer: the second look-up, the operation and its record in one write, or an error and no write |
| `Bump` | after the write: waiters are told, and the answer is returned |
| `Sleep`, `Wake`, `Deadline` | the rest of `wait_loop` for a `next` that found nothing |
| `WaitEnded` | `wait_for` marks the worker idle when the time is over |
| `Drop` | the connection is gone and the future of the route with it; what already runs on a blocking thread goes on |
| `Elsewhere`, `BumpElsewhere` | launches and exits, which write and announce too |
| `Restart` | handlers and sleepers are gone; records and mailboxes are on disk; clients retry |

| Variable | Code |
|---|---|
| `want`, `attempt`, `got` | the request, the posts and the answer of a run of the client |
| `phase`, `reply`, `changed` | where a handler is, what it will answer, whether its `watch::Receiver` holds an unseen change |
| `record` | `requests` of `Model`: the stored answer under the id |
| `treq`, `mreq` | `request_id` of assignments and messages |
| `mto`, `acked` | `recipient_id`, `acknowledged` of messages |
| `unsent` | a launch or exit between its write and its `bump` |

The operations themselves are those of `Orchestration`, with `SendMessage`, `Ack` and the
messages of `claim_next` added. An answer is its kind and the ids it names. `Answer` lets the
reply get lost, so that the client posts again though the work is done. `ack` and `stop` have
no request id and no record. A `next` is recorded only when it hands out an assignment.

### Services

A method of `ServiceManager` runs on the UI thread and is one step.

| Variable | Code |
|---|---|
| `loaded`, `status`, `termOf`, `count` | `project_paths`; `status`, `terminal_id`, `restart_count` of a `ServiceInstance` ("absent": there is none) |
| `owner` | `terminal_to_service` |
| `timers` | restarts `on_terminal_exit` spawned that wait for their delay |
| `tasks` | the tasks of `restart_service`: `step` says whether the old terminal is still to be killed |
| `proc`, `killed`, `exits` | the process of a terminal, `kill` calls made for it, exit events under way |
| `launched`, `crossed` | history, see section 3 |

`Start` is `start_service` and `Remove` what stop, reload and unload share. `Load` and
`Reload` are given the services of the file. `RestartService`, `RestartKills` and
`RestartStarts` are the three parts of a requested restart that run on the UI thread;
`HandleExit` with `ServiceExited` is `on_terminal_exit`, which asks the terminal for the service and
not the service for its terminal. Exit codes are left out because the code restarts after
any of them, a zero included, though `docs/services.md:47` says "if it exits with a non-zero
code". One project; Docker Compose services are not modelled.

### Terminals and HookTerminals

A session is one process with its threads; an id may get a new session when a pane is
reconnected, so `handles` (the map of `PtyManager`) names the session an id has now.
`ReaderSeesEnd`, `ReaderStops`, `ReaderReports` are the reader loop and the part after it,
`WriterFails` the writer's report, `WaiterSees` and `WaiterReports` the waiter of an agent's
session, `Claim` the compare-and-swap of `claim_exit_report`, `Shutdown` the thread that
`kill` and `cleanup_exited` leave the rest to. `tty` says whether any process still has the
terminal open, which may outlast the session's own.

`HookTerminals` adds what the UI thread makes of it: `OpenPane`, `Reconnect`
(`ensure_terminal`), `ClosePane`; `RunHook`, `AnnouncesEnd`, `Rerun`, `Dismiss`;
`CloseWorktree`, `DeleteProject` with its queued kills; and `PtyEvent`, the handling of an
exit event: `cleanup_exited` for every one, `handle_hook_terminal_exits` for a hook's,
the removal that waited for it included. A `Rerun` kills the old terminal first and may then fail
to start the new one.

Not every hook gets an entry. `register_hook_terminal` ignores one whose project is gone by then
(`RegisterHook`: a before-remove hook of a close that was begun before the project was deleted),
nobody takes the result of `fire_post_merge` (`RunHookUnlisted`), and `fire_worktree_removed` runs after
the project is gone (the second half of `Delete`, which follows both the removal that waited for a hook
and the one that did not). Such a terminal is `unlisted`.

### Layout and Panes

`Layout` translates the pure functions on trees: looking up, removing, inserting,
normalising, filtering, activating. A tree is a pane, a split with a direction and children,
or a tab group with children and the one that is shown. Sizes of children, minimised and
detached panes are left out. `Panes` holds a project's `layout`, `pins`, `pinned` (the
pinned view's tree) and whether the pinned view is shown; an action is a request of
`execute_action_inner` with the call of `Synced` (`sync_pinned_layout`) that ends it. Paths
and ids are kept apart as in the code: a path is read in the tree of the current view
(`View`), then turned into one of the layout (`MainPaths`).

A request may come from a client whose knowledge is old, so an action asks for no more than the code
looks at: `SetActiveTab` stores any index, one that is not there included; `MoveToGroup` takes any node
for a group and looks what it is when the pane is out; `MovePane` may name a target that is not in the view. A request
that ends early then keeps what it did so far, without the update (`LeaveView`).

`bare` holds the panes without a terminal. A client's request creates the missing ones, or fails to
(`TerminalsFor`); it names a pane by its path in the layout, which `set_terminal_id` reads in the view
(`Supplied`). A frame gives the panes in sight theirs (`Render`). Loading normalises both trees and, without a session
backend, takes all terminals away (`Reopen`). This matters for `SplitTerminal`, which takes the
first pane without a terminal for the new one (`TakenForNew`), and for `PaneIds`, which does not count such panes.

### StreamServer and RemoteClient

`StreamServer` is one WebSocket session as a task between awaits (`Subscribe`, `Unsubscribe`,
`Input`, `Forward` of coalesced output, `Resync` after an overrun, `DrawSnapshot` for each
subscribed terminal, then `Drain`, `PushNews` for a new state version), the bus, and the
instance: a chunk is published (`Output`) before the UI thread shows it (`ShowOutput`).
`RemoteClient` is the task of a connection: `Dial`, `FirstState`, then one message or one
answer at a time (`LearnStreams`, `ShowFrame`, `Refetch`, `NewState`), the writer (`Write`),
and what ends a session: `SessionLost`, `DialFails` with `Retry` and its limit, `Refused` and
`Pair`, the user's `Reconnect`. The socket is `up` and `down`, two queues that keep order and
are lost together (`Hangup`). One simplification: `Reconnect` drops what the views had queued at once,
while the old writer task (`connection.rs:660`) may first write what is left in its closed channel to a connection
nobody reads any more. No property is about that input.

## 3. What the runs show

| Run | Instance | Shows | States |
|---|---|---|---|
| `groups` | 2 roots, 1 worker each, 2 assignments, queues of 2, 1 user pane and the roots' own terminals; a third root, worker and assignment | assignments are served, start in order and end once, a worker runs its current one and at most one beside it; groups end with their workers, limits, one group per terminal, `EndsAreFinal`; the refinement `KeepsContract` | 3*10^5 |
| `requests` | 1 root, 1 worker, 2 assignments, 2 messages, 1 pane; 2 commands, 3 posts | `RequestAppliedOnce`, `RetryReplays`, `NoLostWakeup` | 9*10^5 |
| `launch` | 1 root, 1 worker, 2 assignments, 1 pane, writes may fail, handlers may be dropped | `NoUnwatchedProcess`, `EndReachesRun` | 2*10^6 |
| `launch_live` | 1 launched root, 1 worker, 1 assignment, working disk, fairness | `LaunchAccounted`, stopped processes end, launches are decided, exits settle workers | 4*10^4 |
| `services` | 1 service, 1 automatic restart, 3 terminals, 2 requested restarts at a time | `StatusIsBacked`, `NoStrayProcess`, `StopWinsOverRestart`, `RestartEnds` | 8*10^4 |
| `panes` | 3 panes, zones left, bottom and center, 2 columns | `NoPaneTwice`, `PinnedPanesArranged`, `InSightStays`, `PaneLeavesKnowingly`, `ArrangementKept` | 2*10^4 |
| `terminals` | 2 sessions, 1 pane | `ExitReportedOnce`, `ProcessHasOwner`, `CloseWaitsForHook`, `ExitHandled`, `CloseDecided` | 5*10^5 |
| `stream` | 2 terminals, bus and queues of 2, 1 reconnection, six scenarios | `InputToItsTerminal`, `OutputToItsTerminal`, `OutputContinues`, `ClientFollows`, `ClosedTerminalLeaves` | 2*10^5 |
| `two_running`, `request_kept`, `root_exit_lost`, `pane_lost` | small instances | the four findings below | |

**Bounds.** Ids are used once and are finitely many; this and the limits of the code bound
every counter. The bounds are enough for the cases that matter:

- *groups*: a worker with one assignment running and one queued, or two queued before it has
  started; both kinds of completion; two roots in the same pane, one after the other or launched;
  and each limit has somebody to refuse: a third worker asks past the one worker of a root, past the
  two starts of its budget when an earlier worker has ended, and, for a third root, past the two of the instance;
  a third assignment asks past a queue of two. Dropping any one of the three guards of a start makes the run fail.
  `SparesAtTheLimits` keeps these three spare: a state in which the third worker or assignment is in use
  is checked and not explored any further, and the third root comes in only while the two workers start. Everything this run checks is proved for any number of
  roots, workers and assignments and for all limits (section 4).
- *requests*: three posts are a command posted twice beside another command (a change to be
  woken by, a stop, a close, a report); a second assignment and a second message are there for a command
  that is done twice to show. One worker is enough for `next`, since a handler looks at its own worker
  only. All three properties are proved for any number of each.
- *launch*: every order of the steps of a launch with stop, exit, failing writes and restart. Two
  launches at a time exceed what a run may take; that any number of them works is proved
  (section 4).
- *services*: three terminals are what a restart that crosses an automatic one needs (old,
  new, and the one of the crossing). Services share no state but the terminals, whose
  independence is part of the proof; the run has one.
- *panes*: three panes nest a split in a group in a split and leave a container with one
  child, and both ways of a lost move are reached: a drop on a pane that is not in the view, and a
  node that is no group. (The branch in which the removal itself dissolves the group takes four panes.)
  The states are few because a tree is normal after each request. `WithinEdge` ends the
  exploration, after the check of the step, where a pane is in the arrangement twice, and where one
  lacks a terminal while the layout is full or a group has no tab to show. A pane is split, or a tab added to it, at the
  path of a pane, as the views do. The zones left out differ from those kept by the side only.
- *terminals*: two sessions are a rerun next to its old terminal, a reconnection under an id
  whose former session still reports, two removals, or a removal and a hook that starts after it.
- *stream*: `MCRemoteClient` gives each scenario a budget and spends it on something else:
  terminals that come and go, more output than the bus holds, sessions that break twice.

**Symmetry** of ids is used in safety runs and for action properties; ids are compared for
equality and nothing else.

**Deadlock** is checked in every run but two: in `terminals` nothing is left to do once the
project is gone and its sessions are over, in `stream` once the scenario's budget is spent.

**Fairness** is weak throughout, and of steps that NotMux's own threads take without waiting
for anyone outside:

- `AgentLaunch`: the steps of each launch, each decided kill, forwarding and recording of
  each exit, and the end of a killed process (the kill escalates to SIGKILL). It is *not*
  justified when the HTTP client of a spawn disconnects: `DropLaunch` then takes the launch out
  of its reach, and `LaunchDecided` names this exception.
- `Services`: the timers, the restart tasks (the wait for old processes has a limit in the
  code) and the handling of exit events. No process is assumed to end, so `RestartEnds` does
  not rest on it.
- `AgentRequests` states no fairness: `NoLostWakeup` is a safety property, which says that a step
  of NotMux's own threads is pending, not that it is taken.
- `HookTerminals`: the UI thread's handling of events, and the threads of sessions. The
  writer is left out: nobody has to type. That a process ends, or lets go of its terminal, is the premise
  of the liveness properties and never assumed.
- `RemoteClient`: the session, the client's reader and writer, both UI threads. The network,
  the user and the programs in the terminals owe nothing.

**Exceptions the properties name.** Some properties hold but for a situation the code does
let happen. Each is remembered in a history variable (or named in the property), so that the
exception is no wider than said here. What an exception names is *allowed*: the property does not catch it, and the
hazards in `PROJECT.json` say so.

| Property | Exception | In the code |
|---|---|---|
| `ClosedGroupStopped` | a `lost` root | `mark_launch_failed` ends a launched root without stopping workers it accepted meanwhile |
| `CurrentAndOneBeside` | one assignment | it was claimed before the worker's start was recorded; finding 1 |
| `EndReachesRun` | another root of the terminal, a lost write, a `late` root | a root that was closed before takes the exit; finding 3. A failing write of an exit is only logged (`runtime.rs:1105`). A root that is written after its terminal's exit was handled is told of none and stays active (`runtime.rs:281-318`, `1085-1094`) |
| `LaunchAccounted` | `dropped`, a failing write, an exit that came first | the run stays starting, or its request reserved; finding 2 |
| `LaunchDecided` | a `dropped` launch | its client disconnected between two parts (`agents.rs:155`): the run stays starting until it is stopped, its process ends or NotMux restarts |
| `NoStrayProcess` | `crossed` | the late exit of a terminal the service has left is taken for its new one's (`manager.rs:740`): the service is marked crashed, or started again, while its process runs |
| `StopWinsOverRestart` | a timer | the delayed restart does not look whether the service was stopped during the delay (`manager.rs:777`) |
| `ExitReportedOnce` | `OfWriter` | the report of a failed write is claimed by nobody (`pty_manager.rs:1028`) |
| `ProcessHasOwner` | `dismissed`, `unlisted` | the terminal of a dismissed hook is not killed; hooks after a merge or a removal, and one that is late for its project, have no entry. Their terminals outlive the project, although `app/mod.rs:229-233` and `project.rs:276-279` say that deleting one ends all of its terminals |
| `NoPaneTwice` | `PlacesAgain`, in the arrangement only | a split in the pinned view takes the first pane without a terminal for the new one (`layout.rs:128`) and puts it beside its anchor without a look whether it is there already (`pin.rs:629-631`) |
| `PaneLeavesKnowingly`, `PinnedPanesArranged` | `LostMove`; the first also a close in the pinned view | a move takes the pane out before it finds its target (`layout.rs:1073-1081`) or that its target is no group (`1269-1302`), and ends there; finding 4 |
| `InSightStays` | a tab that is not there | `set_active_tab` stores any index (`layout.rs:812-819`) |
| `OutputContinues` | a frame that is `holed` or `replayed` (`gap`, `replay` of the session when it was sent) | the drain after snapshots discards output published before the UI thread showed it, and output of terminals subscribed earlier, although `stream.rs:139-140` says "The snapshot already contains their effects"; an overrun ends the drain early. Wider than the code's losses: `gap` is set for every chunk a drain discards, also for one the snapshot does show, so of the frame after such a drain nothing is said |
| `ClientFollows` | `missed`, `deaf` | a change between the fetch of the state and the server's watch, or a re-fetch that fails, is not told again; a subscription the full queue refused is not retried |

Three more behaviours the models reproduce without a property about them: the number of
reconnection attempts is never reset by a session that works; both reader and writer of a
shell may report its exit, the second of which ends the session a pane has been reconnected
to in between; and in the pinned view the terminal made for a new pane may be given to another one,
whose path in the arrangement is that of the new pane in the layout (`execute.rs:1295`).

### Findings

1. **Two running assignments** (`two_running`). The documentation allows a worker one. A
   worker that calls `next` before its start is recorded claims an assignment, and the record
   of the start starts a second one. `OneIsBesideCurrent` proves that this is all: no worker ever
   runs a third, since that record is the only step that pushes an assignment aside and comes once.
2. **A failed start keeps its request** (`request_kept`). When the process ended first and
   its exit is recorded, the write that would release the request id is an error.
   `LaunchesAccounted` proves that an exit that came first is the only way to this on a disk that works.
3. **A root's exit is given to another run** (`root_exit_lost`). A finished root stays live
   until its terminal exits; a new root in the same terminal can lose that exit to it, and
   its group goes on. `EndsReachRuns` proves that a worker never loses its exit so, and a root only
   to another root of its terminal or by being written when the exit was already handled.
4. **Closing a terminal closes another pane** (`pane_lost`). `CloseTerminal` finds the path
   of its terminal in the layout and hands it to a function that reads it in the tree on
   screen; in the pinned view that is another tree, and another pane may leave.

## 4. What is proved

TLAPS checks these for every value of the constants that meets the named assumptions.

| Theorem | Statement |
|---|---|
| `TypeCorrect`, `GroupInvariant` | `Spec => []TypeOK`, `Spec => []GroupInv` |
| `OpenTasksAreServed`, `ClosedGroupsStop`, `EndsAnnouncedOnce` | the three properties, from `GroupInv` |
| `OneIsBesideCurrent` | `Spec => []CurrentAndOneBeside` |
| `EndsStayFinal` | `Spec => EndsAreFinal` |
| `LimitsHold` | `Spec => []CapacityHeld` |
| `OneGroupPerTerminal` | `Spec => []OneActiveRootPerTerminal` |
| `InStartOrder` | `Spec => []StartedInOrder` |
| `ContractKept` | `Spec => KeepsContract` |
| `LaunchKeepsGroup`, `LaunchesKeepContract` | `LaunchSpec => Spec`, `LaunchSpec => KeepsContract` |
| `LaunchTypeCorrect`, `LaunchInvariant` | `LaunchSpec => []LaunchTypeOK`, `LaunchSpec => []LaunchInv` |
| `NoProcessUnwatched` | `LaunchSpec => []NoUnwatchedProcess` |
| `EndsReachRuns`, `LaunchesAccounted` | `LaunchSpec => []EndReachesRun`, `LaunchSpec => []LaunchAccounted` |
| `RequestsKeepGroup`, `RequestsKeepContract` | `RequestsSpec => Spec`, `RequestsSpec => KeepsContract` |
| `RequestsTypeCorrect`, `RecordsInvariant` | `RequestsSpec => []RequestTypeOK`, `RequestsSpec => []RecordInv` |
| `AppliedOnce`, `RetriesReplay`, `WakeupsReach` | `RequestsSpec => []RequestAppliedOnce`, `RetryReplays`, `[]NoLostWakeup` |
| `ServicesInvariant`, `ServicesTypeCorrect` | of `Services`: `Spec => []ServicesInv`, `Spec => []TypeOK` |
| `StatusBacked`, `NoProcessAstray` | `Spec => []StatusIsBacked`, `Spec => []NoStrayProcess` |
| `StopIsFinal` | `Spec => StopWinsOverRestart` |
| `HooksInvariant`, `HooksTypeCorrect` | of `HookTerminals`: `Spec => []HooksInv`, `Spec => []TypeOK` |
| `ProcessesAreOwned`, `RemovalAwaitsHook` | `Spec => []ProcessHasOwner`, `Spec => []CloseWaitsForHook` |
| `ExitIsReportedOnce` | `Spec => []ExitReportedOnce` |
| `StreamInvariant` | of `RemoteClient`: `Spec => []StreamInv` |
| `InputIsNeverMisdelivered`, `OutputIsNeverMisdelivered` | `Spec => []InputToItsTerminal`, `Spec => []OutputToItsTerminal` |
| `ConnectionInvariant`, `ConnectionTyped` | `Spec => []ConnectionInv`, `Spec => []TypeOK` |
| `OutputIsContinuous`, `ClientsFollow` | `Spec => []OutputContinues`, `Spec => []ClientFollows` |

*The group* (`OrchestrationProofs`; `OrchestrationAssumption`: finite sets of ids, positive
limits). None of the properties is inductive alone. That an open assignment has a live
worker needs that a worker whose process is gone is stopped, and that an accepted worker was
not used before; that pointer and assignment agree needs that whatever settles an assignment
clears its worker's pointer, which is the same lemma for all seven ends (`Settle`); an event
is counted once because only open assignments are settled. `RecordsMatch` collects these
facts, and `GroupInv` is the conjunction, preserved action by action. `EndsStayFinal` uses
`GroupInv` once more: a stopped worker holds nothing that could be started, and an end of a
root happens only to an active one. `OneBesideCurrent` is proved on top of `GroupInv`: while the
worker is starting nothing runs beside its current assignment, because `next` claims only when there
is no current one; the record of the start may then push one aside, and a worker starts once.

*Limits and terminals* (the last part of `OrchestrationProofs`). Every live worker belongs to its root's group and
each acceptance consumes a start (`CapacityInv`); the cardinalities are compared with the
lemmas of `FiniteSetTheorems`. An active root is live and newer than every other root ever
recorded for its terminal (`TerminalInv`), so that the look-up of the newest live root finds
it. Ranks grow with each registration: the theorem rests on a clock that does not step back,
which the code (`created_at_ms`) takes from the wall clock.

*Order and contract* (`RefinementProofs`). Sequence numbers of a worker's assignments are
distinct and at most their count, so a new one is behind all (`OrderInv`); the first
queued one is therefore the only one that can be started, in all three places that do.
`ContractKept` shows, action by action and from `GroupInv` and `OrderInv`, that each step is
the step of `AgentGroup` named in its lemma, or leaves the mapped state alone. As every step of a
launch and of a handler is a step of the group, launches and requests keep the contract too.

*Launches* (`LaunchProofs`; `LaunchAssumption`: no worker is a pane). `LaunchSpec => Spec`
first: every launch step makes a step of the group or leaves it alone, so the theorems
above hold with processes, launches and failing writes around. The invariant then adds
`LaunchOrder`: a process comes up once, after the first check, a refused or unrecorded start
has its process killed or none, an exit is under way only for a process that ended. Without
it `NoUnwatchedProcess` is not inductive: the record of a start would not know whether the
process is already gone. That the second check saw the run starting, and that every stop after
it decides a kill, is why a launch may be dropped then and its process is still within reach.
`EndReachesRun` adds how an exit is recorded: it goes to *some* live run of its terminal. A worker's
terminal is its own, so it is the worker. That of a root may have had others; an active root is live
(`TerminalInv`), so when the exit is spent on another run of the terminal, that run is a root whose
process is recorded as exited, and it stays so. A root that is written for a terminal whose exit was
handled before is `late`, and no other way is left. `LaunchAccounted` follows the phase of a launch to its
end: each of them records, drops or fails, and the failing write alone leaves a run starting.

*Requests* (`AgentRequestsProofs`; `RequestsAssumption`, `NoneAssumption`: ids are of one sort each,
and `None` is none of them). `RequestsSpec => Spec` first, as for launches. `RequestAppliedOnce` says nothing of the
record and is not inductive: `MadeIsRecorded` ties whatever a command made to its record, so that
the second look-up stops any other post of it. `RetryReplays` needs that a handler between its
write and its answer holds the recorded one (`ReplyIsRecorded`) and that no error is recorded
(`NoRefusalKept`). `NoLostWakeup` has to hold from the moment the answer is empty (`WakeInv`):
that write has looked at queue, mailbox and state and found nothing (`NothingLeft`, which needs
that a non-empty queue has a first one, `SomeFirstQueued`), the changes were marked before it, and any
write that gives the worker something leaves its thread with an announcement to make.

*Services* (`ServicesProofs`; `ServicesAssumption`). `Bookkeeping` says that a terminal is
its service's own, that the one a crashed service keeps is over (but for a crossed exit),
that a task kills only what its service has left, and that an unloaded project has no
instance. With it a start takes a terminal nobody knows, a kill by a task never hits the
terminal the service has now, and an exit reaches the service that runs in it. Two lemmas,
`StartKeeps` and `RemoveKeeps`, carry seven of the actions. `StopIsFinal` needs of it only that an
unloaded project has no stopped service. `RestartIsPending`, the half of `StatusIsBacked` that is not
in `ServicesInv`, is inductive with it (`RestartPendingStep`): whoever takes a restart out of its timer
or task starts the service then and there, for only an unloaded project has a timer that does nothing,
and that has no service left.

*Hooks* (`HookTerminalsProofs`; `TerminalsAssumption`, `HookTerminalsAssumption`). The two
properties are inductive once sessions, handles, events and hooks have their types and a
project that is gone has no hook left, whose end could bring a removal back. `DeleteKeeps` carries the
two ways a project ends, the hook that runs afterwards included, and `RegisterEffect` a hook that may be
late for its project: whatever opens a session names its owner or is `unlisted`. What a hook that is
waited for still needs is a session nobody was told the end of: a rerun kills one session and
opens another under the same removal, so the lemmas about a session that is opened
(`CreateKeepsSessions`), changed by its three threads (`ThreadStep`) or reported
(`HandledSession`) follow it from step to step. `ExitReportedOnce` is not inductive: it does
not say who reported. `Matches` does, as an equation: an agent's exit was heard of once if it was
claimed, and once more if a write failed; the waiter leaves nothing unclaimed behind; a shell's reader
has reported, or its terminal was killed. Reports are counted as a set of places in the sequence of events: a
report adds one place (`ReportCounts`), and the map from the places of the rest to those of the whole
shows that a handled event moves one from the sequence to the session (`HandledCounts`). That the exit
a removal waits for *will* be heard of takes `HandlesInv` besides: only a session that lost its handle is
killed, and neither a closed pane nor another hook takes the handle of this one, because their ids differ.

*Streams* (`StreamProofs`; `StreamAssumption`: finitely many terminals, a bus and a socket that hold something). Neither property is
inductive: an id that is under way meets subscriptions that do not exist yet. `OneMeaning` says
of every place that can hold an id (`Binds`: the server's subscriptions, messages both ways,
both maps of the client) that no two give it different terminals and that all ids are below
`next_stream_id`; so a subscription, the only step that brings up a new pair, gives out ids
nobody holds (`FreshNumbers`), and what an unsubscribe or a re-fetch leaves behind is harmless.
`FramesKnown` and `StreamsKnown` say that the client knows the id of a frame or is told of it
first. A session that ends takes all messages and, before the next dial, both maps with it
(`SilentWhenDown`, `MapsOfSession`), which is why ids may start at 1 again. `SessionShape` and
`ClientOK` say how far the two ends may be apart: whether a session is up decides what the client's
task may be doing, and the client's connections are those of its cached state.

*Connections* (`ConnectionProofs`; `StreamAssumption`, `ClientAssumption`: limits are natural numbers). `ClientFollows` is
about every moment of a session, also those in which an answer is under way: `StateFollowed` says that whenever
no message says "changed", the answer the client waits for, or else the state it keeps, holds the live
terminals. `AllRequested` says that each of those is subscribed, asked for or refused; it is kept
because an unsubscription under way is for a closed terminal, which takes `OnceOnly`: what the client
forgot or an answer lacks never comes back. `OutputInv` follows the chunks of a terminal. What is on
the bus, in a frame or on a screen was output (`BusBounded`, `FramesBounded`, `ScreensBounded`); what
is on the bus outside a resynchronisation is newer than every frame of its terminal under way, and a
frame is newer than the ones before it (`BusNewer`, `FramesNewer`), but for a replay; and where the last frame, or the screen, stands at `n`,
the next whole frame holds `n + 1` (`FramesContinue`) and the bus everything from `n + 1` on
(`BusContinues`). `OutputContinues` is the first place of it. The proof corrected the model: the
session's history variables alone do not decide it, since a snapshot resets `gap` while a frame with
a hole is still under way. Each frame therefore carries what held when it was sent.

The type invariants of `Orchestration`, `AgentLaunch` and `AgentRequests` are proved
and not part of a run.

*Only model-checked.* Liveness is beyond the proof system, which reasons about neither fairness nor
ENABLED here. What is proved is the safety each liveness property rests on, namely that whatever is to
bring its end about is pending until then; that it is taken is left to TLC and the stated fairness:

| Liveness (TLC) | What is pending meanwhile (proved) |
|---|---|
| `StoppedProcessEnds` | a kill for every stopped worker's process (`NoUnwatchedProcess`) |
| `LaunchDecided` | a phase of the launch for every run that is starting (`LaunchAccounted`) |
| `EndSettlesWorker` | the exit of every process that ended (`EndReachesRun`) |
| `RestartEnds` | a timer or a task for every service that restarts (`StatusIsBacked`) |
| `ExitHandled` | a report of every exit (`ExitReportedOnce`) |
| `CloseDecided` | the exit of every hook that is waited for (`CloseWaitsForHook`) |
| `ClosedTerminalLeaves` | word of every difference between client and server (`ClientFollows`) |

The invariants and action properties of `Panes` rest on what the operators of `Layout`
compute; those are recursive on trees, and what they keep takes an induction over the tree, which is
out of its reach. Every other safety property the passing runs check is proved.

## 5. Plan

1. Of requests: eviction of old records (a late retry is then done again), `wait` over the event log,
   liveness: a message or an assignment reaches a worker that keeps asking.
2. `RemoteAuth`: pairing, limits, token file writes out of order, reload, revocation.
3. Docker Compose services and their poller; several projects in the pinned view.
4. Saving and validation of the workspace; minimised and detached panes.

## 6. Not modelled

- *Of the orchestration*: the eviction of request records beyond 4096, conflicts of two payloads
  under one id (a client never makes one), pages, reads, `wait` (the loop of `next` with the event log for a
  queue), planning and preparing a launch, the store's file format.
- *Of services*: Docker Compose, detected ports. *Of hooks*: headless hooks (no state but a
  log) and the synchronous hook in a terminal, which nothing calls.
- *Of terminals*: output and its back-pressure, session backends (a killed tmux or dtach session
  may outlive its handle).
- *Of panes*: several projects, focus, names, editors and browsers; `close_tab`,
  `close_other_tabs` and `close_tabs_to_right`, which nothing calls.
- *Of the remote protocol*: authentication, sizes and resizes, git status, the other routes
  (one bridge request each).
- Rendering, terminal emulation, git, the updater, the harnesses' command lines and files,
  heuristics that detect agents, and the clients in other languages: I/O, parsing and
  formatting without a protocol of their own. `PROJECT.json` names each with its sources.
