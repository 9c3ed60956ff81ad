------------------------------- MODULE Terminals -------------------------------
(***************************************************************************)
(* Terminals and the threads that watch them                               *)
(* (crates/notmux-terminal/src/pty_manager.rs).                            *)
(*                                                                         *)
(* A session is one process in a pseudo terminal with its reader and writer *)
(* threads and, when it is managed (an agent), a waiter thread that knows  *)
(* its exit code.  Any of the three may report the exit, on the channel of *)
(* the UI thread.  Several sessions may have the same terminal id, one     *)
(* after the other: a shell that is gone is reconnected under its id.      *)
(*                                                                         *)
(* Abstracted: output; of an exit code only whether the report may have one *)
(* (what it was is settled where it matters); session backends such as     *)
(* tmux; panics of a thread; the limit of the channel.  Timeouts pass      *)
(* whenever they may.                                                      *)
(*                                                                         *)
(* A definition commented "Faulty" is a plausible wrong version of the one *)
(* after it; nothing uses it but the runs that show which property it      *)
(* breaks.                                                                 *)
(***************************************************************************)
EXTENDS Naturals, Sequences

CONSTANT MaxSessions  \* bound: sessions in a behavior

ASSUME TerminalsAssumption == MaxSessions \in Nat \ {0}

VARIABLES
  sessions,  \* the sessions so far, in order
  handles,   \* terminals: the session of each id, 0 when it has none
  events     \* the exit events on their way to the UI thread

terminalVars == <<sessions, handles, events>>

Ids   == 1..MaxSessions
Known == DOMAIN sessions

TerminalInit ==
  /\ sessions = <<>>
  /\ handles = [i \in Ids |-> 0]
  /\ events = <<>>

\* The ids that were never used (uuids: the first of them will do).
Fresh == LET used == {sessions[s].id : s \in Known}
         IN  {i \in Ids \ used : \A j \in Ids \ used : i <= j}

-----------------------------------------------------------------------------
(* Requests.                                                               *)

NewSession(i, managed) ==
  [id |-> i, managed |-> managed,
   up |-> TRUE,          \* the process runs
   tty |-> TRUE,         \* some process has the terminal open
   shut |-> FALSE,       \* shutdown_handle is done
   reported |-> FALSE,   \* exit_reported
   told |-> 0,           \* history: how often the UI thread handled its exit
   reader |-> "reading", writer |-> "waiting",
   waiter |-> IF managed THEN "waiting" ELSE "done"]

IsBroken(ses) == ses.shut \/ ses.writer = "failed"

Create(i, managed) ==
  /\ Len(sessions) < MaxSessions
  /\ sessions' = Append(sessions, NewSession(i, managed))
  /\ handles' = [handles EXCEPT ![i] = Len(sessions) + 1]

\* kill and cleanup_exited take the handle out at once; Shutdown does the rest.
Without(ids) == [i \in Ids |-> IF i \in ids THEN 0 ELSE handles[i]]

-----------------------------------------------------------------------------
(* The processes.                                                          *)

Exits(s) ==
  /\ sessions[s].up
  /\ sessions' = [sessions EXCEPT ![s].up = FALSE]
  /\ UNCHANGED <<handles, events>>

\* The last process that had the terminal open closes it: at its exit or
\* before, or later, when it is another that was left behind.
LetsGo(s) ==
  /\ sessions[s].tty
  /\ sessions' = [sessions EXCEPT ![s].tty = FALSE]
  /\ UNCHANGED <<handles, events>>

\* shutdown_handle, on a thread of its own.
Shutdown(s) ==
  /\ handles[sessions[s].id] # s /\ ~sessions[s].shut
  /\ sessions' = [sessions EXCEPT ![s].shut = TRUE, ![s].up = FALSE]
  /\ UNCHANGED <<handles, events>>

-----------------------------------------------------------------------------
(* The threads of session s.                                               *)

Report(s, coded) ==
  events' = Append(events, [id |-> sessions[s].id, coded |-> coded, of |-> s])

\* claim_exit_report, then the event.
Claim(s, coded, thread) ==
  /\ sessions' = [sessions EXCEPT ![s] = [thread EXCEPT !.reported = TRUE]]
  /\ IF sessions[s].reported THEN UNCHANGED events ELSE Report(s, coded)

\* Faulty: the reader of a shell that cannot be reaped in time reports nothing.
ReaderSeesEndOfProcess(s) ==
  /\ sessions[s].reader = "reading" /\ ~sessions[s].tty
  /\ sessions' = [sessions EXCEPT
       ![s].reader = IF sessions[s].managed THEN "ended" ELSE "done"]
  /\ IF sessions[s].managed \/ sessions[s].up THEN UNCHANGED events ELSE Report(s, TRUE)
  /\ UNCHANGED handles

\* The end of the terminal, noticed even by a reader that should stop.  The
\* reader of a managed session then waits for the waiter; that of a shell
\* reports, with a code if the process can be reaped in time.
ReaderSeesEnd(s) ==
  /\ sessions[s].reader = "reading" /\ ~sessions[s].tty
  /\ IF sessions[s].managed
     THEN /\ sessions' = [sessions EXCEPT ![s].reader = "ended"]
          /\ UNCHANGED events
     ELSE /\ sessions' = [sessions EXCEPT ![s].reader = "done"]
          /\ Report(s, ~sessions[s].up)
  /\ UNCHANGED handles

ReaderStops(s) ==
  /\ sessions[s].reader = "reading" /\ IsBroken(sessions[s])
  /\ sessions' = [sessions EXCEPT ![s].reader = "done"]
  /\ UNCHANGED <<handles, events>>

\* With the code when the waiter has set it within the limit.
ReaderReports(s) ==
  /\ sessions[s].reader = "ended"
  /\ Claim(s, sessions[s].waiter # "waiting", [sessions[s] EXCEPT !.reader = "done"])
  /\ UNCHANGED handles

\* Input that was typed while there was a handle cannot be written: reported
\* without a claim.
WriterFails(s) ==
  /\ sessions[s].writer = "waiting" /\ ~sessions[s].tty
  /\ sessions' = [sessions EXCEPT ![s].writer = "failed"]
  /\ Report(s, FALSE)
  /\ UNCHANGED handles

\* Child::wait returns.
WaiterSees(s) ==
  /\ sessions[s].waiter = "waiting" /\ ~sessions[s].up
  /\ sessions' = [sessions EXCEPT ![s].waiter = "grace"]
  /\ UNCHANGED <<handles, events>>

\* Faulty: the waiter looks whether the exit was reported and reports in two
\* steps.
WaiterReportsUnclaimed(s) ==
  /\ sessions[s].waiter = "grace"
  /\ sessions' = [sessions EXCEPT ![s].waiter = "done"]
  /\ Report(s, TRUE)
  /\ UNCHANGED handles

\* Faulty: the waiter leaves a broken session to its reader.
WaiterStopsWhenBroken(s) ==
  /\ sessions[s].waiter = "grace"
  /\ IF IsBroken(sessions[s])
     THEN /\ sessions' = [sessions EXCEPT ![s].waiter = "done"]
          /\ UNCHANGED events
     ELSE Claim(s, TRUE, [sessions[s] EXCEPT !.waiter = "done"])
  /\ UNCHANGED handles

\* After the grace, unless the reader was first.
WaiterReports(s) ==
  /\ sessions[s].waiter = "grace"
  /\ Claim(s, TRUE, [sessions[s] EXCEPT !.waiter = "done"])
  /\ UNCHANGED handles

Reader(s) == ReaderSeesEnd(s) \/ ReaderStops(s) \/ ReaderReports(s)
Waiter(s) == WaiterSees(s) \/ WaiterReports(s)

Threads(s) == Shutdown(s) \/ Reader(s) \/ WriterFails(s) \/ Waiter(s)

Processes(s) == Exits(s) \/ LetsGo(s)

-----------------------------------------------------------------------------
TerminalsTypeOK ==
  /\ Len(sessions) <= MaxSessions
  /\ \A s \in Known :
       /\ sessions[s].id \in Ids
       /\ sessions[s].reader \in {"reading", "ended", "done"}
       /\ sessions[s].writer \in {"waiting", "failed"}
       /\ sessions[s].waiter \in {"waiting", "grace", "done"}
  /\ \A i \in Ids : handles[i] # 0 => handles[i] \in Known /\ sessions[handles[i]].id = i
  /\ \A n \in DOMAIN events : events[n].of \in Known /\ sessions[events[n].of].id = events[n].id

=============================================================================
