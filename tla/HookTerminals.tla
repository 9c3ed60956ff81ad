----------------------------- MODULE HookTerminals -----------------------------
(***************************************************************************)
(* What the UI thread makes of terminals and their exits: the panes, agents *)
(* and hooks of one worktree project, and its removal, which waits for a    *)
(* hook (src/app/mod.rs; crates/notmux-workspace/src: state.rs,             *)
(* lifecycle.rs; crates/notmux-hooks/src/hooks.rs; src/views/panels/        *)
(* hook_panel.rs; src/workspace/actions/execute.rs).  The terminals are     *)
(* those of Terminals; a handler of the UI thread is one step.              *)
(*                                                                         *)
(* Abstracted: what a removal does besides (git, hooks without a terminal); *)
(* the log of hook executions; a batch of exit events, handled one by one  *)
(* here; services, which have a module of their own.  Hooks of a close that *)
(* was begun before may run when the project is gone.                      *)
(***************************************************************************)
EXTENDS Terminals, FiniteSets

CONSTANT MaxPanes  \* bound: panes at a time

ASSUME HookTerminalsAssumption == MaxPanes \in Nat

VARIABLES
  project,   \* "open", "closing" (is_closing) or "gone"
  panes,     \* the terminal ids in its layout
  agents,    \* those of managed panes
  hooks,     \* hook_terminals: "running" or "ended", "none" without an entry
  pending,   \* the hook terminals a removal of the project waits for
  registry,  \* terminal ids that have a Terminal to show
  dismissed, \* history: hook terminals the user dismissed
  unlisted   \* history: hook terminals that never had an entry

uiVars == <<project, panes, agents, hooks, pending, registry, dismissed, unlisted>>
vars   == <<terminalVars, uiVars>>

Init ==
  /\ TerminalInit
  /\ project = "open"
  /\ panes = {} /\ agents = {} /\ pending = {} /\ registry = {}
  /\ dismissed = {} /\ unlisted = {}
  /\ hooks = [i \in Ids |-> "none"]

Alive       == project # "gone"
HookEntries == {i \in Ids : hooks[i] # "none"}

-----------------------------------------------------------------------------
(* Panes.                                                                  *)

OpenPane(managed) ==
  /\ Alive /\ Cardinality(panes) < MaxPanes
  /\ \E i \in Fresh :
       /\ Create(i, managed)
       /\ panes' = panes \cup {i}
       /\ agents' = IF managed THEN agents \cup {i} ELSE agents
       /\ registry' = registry \cup {i}
  /\ UNCHANGED <<events, project, hooks, pending, dismissed, unlisted>>

\* ensure_terminal: a request names a pane whose terminal is gone.
Reconnect(i) ==
  /\ i \in panes \ (registry \cup agents)
  /\ IF handles[i] = 0 THEN Create(i, FALSE) ELSE UNCHANGED <<sessions, handles>>
  /\ registry' = registry \cup {i}
  /\ UNCHANGED <<events, project, panes, agents, hooks, pending, dismissed, unlisted>>

ClosePane(i) ==
  /\ i \in panes
  /\ handles' = Without({i})
  /\ panes' = panes \ {i} /\ agents' = agents \ {i} /\ registry' = registry \ {i}
  /\ UNCHANGED <<sessions, events, project, hooks, pending, dismissed, unlisted>>

-----------------------------------------------------------------------------
(* Hooks.                                                                  *)

\* register_hook_terminal: a project that is gone gets no entry.
RegisterHook(i) ==
  IF Alive THEN hooks' = [hooks EXCEPT ![i] = "running"] /\ UNCHANGED unlisted
           ELSE unlisted' = unlisted \cup {i} /\ UNCHANGED hooks

\* run_hook and register_hook_results.
RunHook ==
  /\ \E i \in Fresh :
       /\ Create(i, FALSE)
       /\ registry' = registry \cup {i}
       /\ RegisterHook(i)
  /\ UNCHANGED <<events, project, panes, agents, pending, dismissed>>

\* fire_post_merge: nobody takes the result of run_hook.
RunHookUnlisted ==
  /\ \E i \in Fresh :
       /\ Create(i, FALSE)
       /\ registry' = registry \cup {i}
       /\ unlisted' = unlisted \cup {i}
  /\ UNCHANGED <<events, project, panes, agents, hooks, pending, dismissed>>

\* A hook that goes on as a shell announces the end of its command in the
\* title of its terminal.
AnnouncesEnd(i) ==
  /\ hooks[i] = "running" /\ i \in registry \ pending
  /\ handles[i] # 0 /\ sessions[handles[i]].up
  /\ hooks' = [hooks EXCEPT ![i] = "ended"]
  /\ UNCHANGED <<terminalVars, project, panes, agents, pending, registry, dismissed, unlisted>>

\* Faulty: the terminal of the last run is not killed.
RerunBesideOld(i) ==
  /\ hooks[i] = "ended"
  /\ \E j \in Fresh :
       /\ Create(j, FALSE)
       /\ hooks' = [hooks EXCEPT ![i] = "none", ![j] = "running"]
       /\ registry' = (registry \ {i}) \cup {j}
  /\ UNCHANGED <<events, project, panes, agents, pending, dismissed, unlisted>>

\* rerun_hook: a new terminal takes the place of the killed one, if it starts.
Rerun(i) ==
  /\ hooks[i] = "ended"
  /\ \/ /\ Len(sessions) < MaxSessions
        /\ \E j \in Fresh :
             /\ sessions' = Append(sessions, NewSession(j, FALSE))
             /\ handles' = [Without({i}) EXCEPT ![j] = Len(sessions) + 1]
             /\ hooks' = [hooks EXCEPT ![i] = "none", ![j] = "running"]
             /\ registry' = (registry \ {i}) \cup {j}
     \/ handles' = Without({i}) /\ UNCHANGED <<sessions, hooks, registry>>
  /\ UNCHANGED <<events, project, panes, agents, pending, dismissed, unlisted>>

\* Faulty: the removal that waits for the hook is not cancelled.
DismissOnly(i) ==
  /\ hooks[i] # "none"
  /\ hooks' = [hooks EXCEPT ![i] = "none"]
  /\ registry' = registry \ {i}
  /\ dismissed' = dismissed \cup {i}
  /\ UNCHANGED <<terminalVars, project, panes, agents, pending, unlisted>>

\* dismiss_hook.  (The terminal is not killed.)
Dismiss(i) ==
  /\ hooks[i] # "none"
  /\ hooks' = [hooks EXCEPT ![i] = "none"]
  /\ pending' = pending \ {i}
  /\ project' = IF i \in pending THEN "open" ELSE project
  /\ registry' = registry \ {i}
  /\ dismissed' = dismissed \cup {i}
  /\ UNCHANGED <<terminalVars, panes, agents, unlisted>>

-----------------------------------------------------------------------------
(* The end of the project.                                                 *)

\* A removal that has to wait for a hook.  (Nothing keeps the user from asking
\* again while one waits, or from deleting the project before the hook starts.)
CloseWorktree ==
  /\ \E i \in Fresh :
       /\ Create(i, FALSE)
       /\ RegisterHook(i)
       /\ pending' = pending \cup {i}
       /\ registry' = registry \cup {i}
  /\ project' = IF Alive THEN "closing" ELSE project
  /\ UNCHANGED <<events, panes, agents, dismissed>>

\* delete_project, the observer that ends the terminals queued by it, and, when
\* it was the removal of a worktree, fire_worktree_removed, whose result nobody
\* takes.  known: the sessions by then.
Delete(others, known) ==
  LET ended == panes \cup HookEntries \cup others IN
  /\ project' = "gone"
  /\ panes' = {} /\ agents' = {}
  /\ hooks' = [i \in Ids |-> "none"]
  /\ \/ /\ sessions' = known
        /\ handles' = Without(ended)
        /\ registry' = registry \ ended
        /\ UNCHANGED unlisted
     \/ /\ Len(known) < MaxSessions
        /\ \E i \in Fresh :
             /\ sessions' = Append(known, NewSession(i, FALSE))
             /\ handles' = [Without(ended) EXCEPT ![i] = Len(known) + 1]
             /\ registry' = (registry \ ended) \cup {i}
             /\ unlisted' = unlisted \cup {i}

\* By the user, or by the removal of a worktree that waits for no hook.
DeleteProject ==
  /\ Alive
  /\ Delete({}, sessions)
  /\ UNCHANGED <<events, pending, dismissed>>

-----------------------------------------------------------------------------
(* An exit event: cleanup_exited, then what the terminal was.              *)

\* handle_hook_terminal_exits.  A removal that waits goes on after a hook
\* whose code is 0.
HookExit(i, coded, known) ==
  \/ /\ i \in pending /\ coded
     /\ Delete({i}, known)
  \/ /\ hooks' = [hooks EXCEPT ![i] = "ended"]
     /\ project' = IF i \in pending THEN "open" ELSE project
     /\ sessions' = known
     /\ handles' = Without({i})
     /\ UNCHANGED <<panes, agents, registry, unlisted>>

PtyEvent ==
  /\ events # <<>>
  /\ LET e     == Head(events)
         known == [sessions EXCEPT ![e.of].told = @ + 1]
     IN
     /\ events' = Tail(events)
     /\ IF hooks[e.id] # "none"
        THEN HookExit(e.id, e.coded, known) /\ pending' = pending \ {e.id}
        ELSE /\ sessions' = known
             /\ handles' = Without({e.id})
             /\ registry' = registry \ {e.id}
             /\ UNCHANGED <<project, panes, agents, hooks, pending, unlisted>>
  /\ UNCHANGED dismissed

-----------------------------------------------------------------------------
User ==
  \/ OpenPane(TRUE) \/ OpenPane(FALSE) \/ RunHook \/ RunHookUnlisted
  \/ CloseWorktree \/ DeleteProject
  \/ \E i \in Ids : \/ Reconnect(i) \/ ClosePane(i) \/ AnnouncesEnd(i) \/ Rerun(i) \/ Dismiss(i)

Next ==
  \/ User
  \/ PtyEvent
  \/ \E s \in Known : (Threads(s) \/ Processes(s)) /\ UNCHANGED uiVars

\* The UI thread and the threads of the sessions keep running; nothing says
\* that input is typed, so a writer need not fail.
Fairness ==
  /\ WF_vars(PtyEvent)
  /\ WF_vars(\E s \in Known : (Shutdown(s) \/ Reader(s) \/ Waiter(s)) /\ UNCHANGED uiVars)

Spec == Init /\ [][Next]_vars /\ Fairness

-----------------------------------------------------------------------------
TypeOK ==
  /\ TerminalsTypeOK
  /\ project \in {"open", "closing", "gone"}
  /\ agents \subseteq panes /\ panes \subseteq Ids /\ registry \subseteq Ids
  /\ \A i \in Ids : hooks[i] \in {"none", "running", "ended"}
  /\ pending \subseteq Ids /\ dismissed \subseteq Ids /\ unlisted \subseteq Ids

\* The reports of the exit of session s that are on their way, and how often the
\* UI thread hears of it with those.
Reports(s) == {n \in DOMAIN events : events[n].of = s}
Heard(s)   == sessions[s].told + Cardinality(Reports(s))

\* The reports of a failed write, which nobody claims.
OfWriter(s) == IF sessions[s].writer = "failed" THEN 1 ELSE 0

\* The UI thread hears of an exit once, beside the report of a failed write: the
\* reader and the waiter of an agent never both report it, and one of them
\* does, even if the session is killed; the reader of a shell reports it unless
\* its terminal was killed first.
ExitReportedOnce ==
  \A s \in Known :
    /\ Heard(s) <= 1 + OfWriter(s)
    /\ sessions[s].managed /\ sessions[s].waiter = "done" => Heard(s) = 1 + OfWriter(s)
    /\ ~sessions[s].managed /\ sessions[s].reader = "done" => sessions[s].shut \/ Heard(s) > 0

\* A process with a terminal belongs to a pane or a hook of the project; but for
\* a hook that was dismissed, and for one that never had an entry: that of a merge
\* or a finished removal, or one that was late for its project.
ProcessHasOwner ==
  \A i \in Ids : handles[i] # 0 => i \in panes \cup HookEntries \cup dismissed \cup unlisted

\* The exit of session s is still to be heard of, and will be: its terminal was
\* not killed, and its reader is there or has reported.
ToBeHeard(s) ==
  /\ sessions[s].told = 0 /\ ~sessions[s].shut
  /\ (sessions[s].reader = "reading" \/ Reports(s) # {})

\* A project that is closing waits for a hook, and a hook that is waited for is
\* still to end: its exit will be heard of, unless it is dismissed first.
CloseWaitsForHook ==
  Alive => /\ project = "closing" => pending # {}
           /\ \A i \in pending : /\ hooks[i] = "running"
                                 /\ handles[i] \in Known /\ ToBeHeard(handles[i])

Session ==
  [id : Ids, managed : BOOLEAN, up : BOOLEAN, tty : BOOLEAN, shut : BOOLEAN,
   reported : BOOLEAN, told : Nat, reader : {"reading", "ended", "done"},
   writer : {"waiting", "failed"}, waiter : {"waiting", "grace", "done"}]

\* What CloseWaitsForHook says of hooks, without the threads of their sessions.
RemovalWaits ==
  Alive => /\ project = "closing" => pending # {}
           /\ \A i \in pending : hooks[i] = "running"
                                 /\ \E s \in Known : sessions[s].id = i /\ sessions[s].told = 0

\* The inductive invariant of hooks: a project that is gone has no hook left whose
\* end could bring it back.
HooksInv ==
  /\ sessions \in Seq(Session) /\ handles \in [Ids -> Nat]
  /\ events \in Seq([id : Ids, coded : BOOLEAN, of : Nat])
  /\ hooks \in [Ids -> {"none", "running", "ended"}]
  /\ TypeOK
  /\ ~Alive => HookEntries = {}
  /\ ProcessHasOwner
  /\ RemovalWaits

\* The end of a session that the UI thread is still to hear of: of an agent in
\* every case, of a shell unless its terminal was killed meanwhile.
Unheard(s) ==
  /\ ~sessions[s].up /\ sessions[s].told = 0
  /\ IF sessions[s].managed THEN TRUE
     ELSE ~sessions[s].tty /\ handles[sessions[s].id] = s

\* Every exit is handled: none stays unheard for ever.  (Sessions being finitely
\* many, that is a time again and again when there is no unheard one.)
ExitHandled == []<>(\A s \in Known : ~Unheard(s))

\* A removal that waits for hook i, whose terminal nobody has open any more.
Overdue(i) ==
  Alive /\ i \in pending /\ \E s \in Known : sessions[s].id = i /\ ~sessions[s].tty

\* The removal of a worktree does not outlast the hook it waits for.
CloseDecided == []<>(\A i \in Ids : ~Overdue(i))

=============================================================================
