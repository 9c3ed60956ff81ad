------------------------------- MODULE Services -------------------------------
(***************************************************************************)
(* The commands a project runs beside its terminals                        *)
(* (crates/notmux-services/src/manager.rs): which service runs in which    *)
(* terminal, and what happens to it when its process ends, when the user   *)
(* starts, stops or restarts it, and when the project is loaded, reloaded  *)
(* and removed.                                                            *)
(*                                                                         *)
(* The manager lives on the UI thread, so a method is one step.  What      *)
(* interleaves is what the methods leave behind: the timer of an automatic *)
(* restart, the task of a requested restart (it looks for the processes    *)
(* off the UI thread, kills, waits and starts) and the exit events, which  *)
(* reach the UI thread some time after the process ended.                  *)
(*                                                                         *)
(* Abstracted: one project; the definition of a service is whether it      *)
(* starts with the project and whether it is restarted; exit codes (the    *)
(* code restarts after any of them); detected ports.  Docker Compose       *)
(* services are left out.                                                  *)
(*                                                                         *)
(* A definition commented "Faulty" is a plausible wrong version of the one *)
(* after it; nothing uses it but the runs that show which property it      *)
(* breaks.                                                                 *)
(***************************************************************************)
EXTENDS Naturals, FiniteSets

CONSTANTS
  Names,           \* services that may be in notmux.yaml
  AutoStart,       \* those with auto_start
  RestartOnCrash,  \* those with restart_on_crash
  MaxRestarts,     \* MAX_RESTART_COUNT
  MaxTerminals,    \* bound: terminals ever created
  MaxTasks,        \* bound: restart tasks at a time
  None

ASSUME ServicesAssumption ==
  /\ IsFiniteSet(Names) /\ AutoStart \subseteq Names /\ RestartOnCrash \subseteq Names
  /\ MaxRestarts \in Nat /\ MaxTerminals \in Nat /\ MaxTasks \in Nat
  /\ None \notin Names /\ None \notin Nat

VARIABLES
  loaded,   \* project_paths knows the project
  status,   \* status of a service's instance; "absent": there is none
  termOf,   \* terminal_id of an instance
  count,    \* restart_count of an instance
  owner,    \* terminal_to_service
  timers,   \* automatic restarts of a service that wait for their delay
  tasks,    \* requested restarts under way
  proc,     \* the process of a terminal
  killed,   \* terminals whose process was told to end
  exits,    \* exit events the UI thread has not handled yet
  launched, \* history: the service a terminal was created for
  crossed   \* history: the service took the exit of a terminal it had left

manager == <<loaded, status, termOf, count, owner>>
pty     == <<proc, killed, exits>>
history == <<launched, crossed>>
vars    == <<manager, timers, tasks, pty, history>>

Terminals == 1..MaxTerminals
Status    == {"absent", "stopped", "running", "crashed", "restarting"}
Fresh     == {p \in Terminals : proc[p] = "unused"}
Known     == {s \in Names : status[s] # "absent"}

\* The terminals of a restart that was requested and has not killed them yet.
Taken(s) == {k.term : k \in {j \in tasks : j.svc = s /\ j.step = "kill"}}

Init ==
  /\ loaded   = FALSE
  /\ status   = [s \in Names |-> "absent"]
  /\ termOf   = [s \in Names |-> None]
  /\ count    = [s \in Names |-> 0]
  /\ owner    = [p \in Terminals |-> None]
  /\ timers   = [s \in Names |-> 0]
  /\ tasks    = {}
  /\ proc     = [p \in Terminals |-> "unused"]
  /\ killed   = {}
  /\ exits    = {}
  /\ launched = [p \in Terminals |-> None]
  /\ crossed  = [s \in Names |-> FALSE]

-----------------------------------------------------------------------------
(* Steps the methods share.                                                *)

Kill(S) == killed' = killed \cup {p \in S : proc[p] = "up"}

Disown(S) == owner' = [p \in Terminals |-> IF p \in S THEN None ELSE owner[p]]

\* Faulty: the exit of the new terminal is not asked for.
CreateUnowned(f, old) ==
  /\ proc'     = [p \in Terminals |-> IF \E s \in DOMAIN f : f[s] = p THEN "up" ELSE proc[p]]
  /\ owner'    = [p \in Terminals |-> IF p \in old THEN None ELSE owner[p]]
  /\ launched' = [p \in Terminals |-> IF \E s \in DOMAIN f : f[s] = p
                                      THEN CHOOSE s \in DOMAIN f : f[s] = p ELSE launched[p]]

\* Service s gets the fresh terminal f[s]; the terminals in old are forgotten.
Create(f, old) ==
  LET svc(p) == CHOOSE s \in DOMAIN f : f[s] = p
      made   == {f[s] : s \in DOMAIN f}
  IN  /\ proc'     = [p \in Terminals |-> IF p \in made THEN "up" ELSE proc[p]]
      /\ owner'    = [p \in Terminals |-> IF p \in made THEN svc(p)
                                          ELSE IF p \in old THEN None ELSE owner[p]]
      /\ launched' = [p \in Terminals |-> IF p \in made THEN svc(p) ELSE launched[p]]

\* Terminals are numbered in the order they are created.
Placements(S) ==
  LET next == {p \in Fresh : Cardinality({q \in Fresh : q < p}) < Cardinality(S)}
  IN  {f \in [S -> next] : \A s, q \in S : s # q => f[s] # f[q]}

\* start_service on each service of S: one that runs is left alone.  The
\* terminal kept from a crash is forgotten; creating the new one may fail.
Start(S) ==
  LET startable == {s \in S \cap Known : status[s] # "running"}
  IN  \E up \in SUBSET startable : \E f \in Placements(up) :
        /\ status' = [s \in Names |-> IF s \in up THEN "running"
                                      ELSE IF s \in startable THEN "crashed" ELSE status[s]]
        /\ termOf' = [s \in Names |-> IF s \in up THEN f[s]
                                      ELSE IF s \in startable THEN None ELSE termOf[s]]
        /\ Create(f, {termOf[s] : s \in startable})

-----------------------------------------------------------------------------
(* The project.                                                            *)

\* A service with a saved terminal is reconnected, the others with auto_start
\* are started.
Load(cfg) ==
  /\ ~loaded
  /\ loaded' = TRUE
  /\ \E up \in SUBSET cfg, failed \in SUBSET (cfg \cap AutoStart) :
       /\ up \cap failed = {} /\ cfg \cap AutoStart \subseteq up \cup failed
       /\ \E f \in Placements(up) :
            /\ status' = [s \in Names |-> IF s \in up THEN "running"
                                          ELSE IF s \in failed THEN "crashed"
                                          ELSE IF s \in cfg THEN "stopped" ELSE status[s]]
            /\ termOf' = [s \in Names |-> IF s \in up THEN f[s]
                                          ELSE IF s \in cfg THEN None ELSE termOf[s]]
            /\ Create(f, {})
  /\ count' = [s \in Names |-> IF s \in cfg THEN 0 ELSE count[s]]
  /\ UNCHANGED <<timers, tasks, killed, exits, crossed>>

\* The instances of S go, and the terminals they hold with them.
Remove(S) ==
  LET held == {termOf[s] : s \in S} \ {None}
  IN  /\ Kill(held)
      /\ Disown(held)
      /\ termOf' = [s \in Names |-> IF s \in S THEN None ELSE termOf[s]]
      /\ count'  = [s \in Names |-> IF s \in S THEN 0 ELSE count[s]]

\* The project is removed, or its notmux.yaml is gone when it is reloaded.
Unload ==
  /\ loaded
  /\ loaded' = FALSE
  /\ Remove(Known)
  /\ status' = [s \in Names |-> "absent"]
  /\ UNCHANGED <<timers, tasks, proc, exits, history>>

\* Faulty: a service that left the file keeps its process.
ReloadKeepingProcess(cfg) ==
  /\ loaded
  /\ status' = [s \in Names |-> IF s \notin cfg THEN "absent"
                                ELSE IF s \notin Known THEN "stopped" ELSE status[s]]
  /\ termOf' = [s \in Names |-> IF s \notin cfg THEN None ELSE termOf[s]]
  /\ UNCHANGED <<loaded, count, owner, timers, tasks, proc, exits, killed, history>>

Reload(cfg) ==
  /\ loaded
  /\ Remove(Known \ cfg)
  /\ status' = [s \in Names |-> IF s \notin cfg THEN "absent"
                                ELSE IF s \notin Known THEN "stopped" ELSE status[s]]
  /\ UNCHANGED <<loaded, timers, tasks, proc, exits, history>>

-----------------------------------------------------------------------------
(* What the user asks for.                                                 *)

StartServices(S) ==
  /\ loaded
  /\ Start(S)
  /\ UNCHANGED <<loaded, count, timers, tasks, killed, exits, crossed>>

StopServices(S) ==
  LET stopping == S \cap Known
      held     == {termOf[s] : s \in stopping} \ {None}
  IN  /\ stopping # {}
      /\ Kill(held)
      /\ Disown(held)
      /\ termOf' = [s \in Names |-> IF s \in stopping THEN None ELSE termOf[s]]
      /\ status' = [s \in Names |-> IF s \in stopping THEN "stopped" ELSE status[s]]
      /\ count'  = [s \in Names |-> IF s \in stopping THEN 0 ELSE count[s]]
      /\ UNCHANGED <<loaded, timers, tasks, proc, exits, history>>

\* Faulty: a service without a terminal has nothing to wait for.
RestartNothingToKill(s) ==
  /\ loaded /\ s \in Known
  /\ status' = [status EXCEPT ![s] = "restarting"]
  /\ termOf' = [termOf EXCEPT ![s] = None]
  /\ count'  = [count EXCEPT ![s] = 0]
  /\ \E i \in 1..MaxTasks :
       /\ \A k \in tasks : k.id # i
       /\ \A j \in 1..(i - 1) : \E k \in tasks : k.id = j
       /\ tasks' = IF termOf[s] = None THEN tasks
                   ELSE tasks \cup {[id |-> i, svc |-> s, term |-> termOf[s], step |-> "kill"]}
  /\ UNCHANGED <<loaded, owner, timers, pty, history>>

\* The terminal is taken from the instance at once; it is killed, and its exit
\* disowned, by the task.
RestartService(s) ==
  /\ loaded /\ s \in Known
  /\ status' = [status EXCEPT ![s] = "restarting"]
  /\ termOf' = [termOf EXCEPT ![s] = None]
  /\ count'  = [count EXCEPT ![s] = 0]
  /\ \E i \in 1..MaxTasks :
       /\ \A k \in tasks : k.id # i
       /\ \A j \in 1..(i - 1) : \E k \in tasks : k.id = j
       /\ tasks' = tasks \cup {[id |-> i, svc |-> s, term |-> termOf[s],
                                step |-> IF termOf[s] = None THEN "start" ELSE "kill"]}
  /\ UNCHANGED <<loaded, owner, timers, pty, history>>

-----------------------------------------------------------------------------
(* What the requests leave behind.                                         *)

\* The processes of the old terminal are known: it is killed.
RestartKills(k) ==
  /\ k \in tasks /\ k.step = "kill"
  /\ Kill({k.term})
  /\ Disown({k.term})
  /\ tasks' = (tasks \ {k}) \cup {[k EXCEPT !.step = "start"]}
  /\ UNCHANGED <<loaded, status, termOf, count, timers, proc, exits, history>>

\* Faulty: the service is started whatever happened to it meanwhile.
RestartStartsAnyway(k) ==
  /\ k \in tasks /\ k.step = "start"
  /\ tasks' = tasks \ {k}
  /\ Start({k.svc})
  /\ UNCHANGED <<loaded, count, timers, killed, exits, crossed>>

\* The old processes ended, or were waited for long enough.
RestartStarts(k) ==
  /\ k \in tasks /\ k.step = "start"
  /\ tasks' = tasks \ {k}
  /\ Start({s \in {k.svc} : status[s] = "restarting"})
  /\ UNCHANGED <<loaded, count, timers, killed, exits, crossed>>

TimerFires(s) ==
  /\ timers[s] > 0
  /\ timers' = [timers EXCEPT ![s] = @ - 1]
  /\ Start(IF loaded THEN {s} ELSE {})
  /\ UNCHANGED <<loaded, count, tasks, killed, exits, crossed>>

\* The exit event may be missing for a process that was told to end.
ProcessEnds(p) ==
  /\ proc[p] = "up"
  /\ proc' = [proc EXCEPT ![p] = "ended"]
  /\ \/ exits' = exits \cup {p}
     \/ p \in killed /\ UNCHANGED exits
  /\ UNCHANGED <<manager, timers, tasks, killed, history>>

\* Faulty: one restart too many.
ExitOffByOne(s) ==
  \/ /\ s \in RestartOnCrash /\ count[s] <= MaxRestarts
     /\ status' = [status EXCEPT ![s] = "restarting"]
     /\ termOf' = [termOf EXCEPT ![s] = None]
     /\ count'  = [count EXCEPT ![s] = @ + 1]
     /\ timers' = [timers EXCEPT ![s] = @ + 1]
  \/ /\ s \notin RestartOnCrash \/ count[s] > MaxRestarts
     /\ status' = [status EXCEPT ![s] = "crashed"]
     /\ UNCHANGED <<termOf, count, timers>>

\* The instance is not asked which terminal it is in.
ServiceExited(s) ==
  \/ /\ s \in RestartOnCrash /\ count[s] < MaxRestarts
     /\ status' = [status EXCEPT ![s] = "restarting"]
     /\ termOf' = [termOf EXCEPT ![s] = None]
     /\ count'  = [count EXCEPT ![s] = @ + 1]
     /\ timers' = [timers EXCEPT ![s] = @ + 1]
  \/ /\ s \notin RestartOnCrash \/ count[s] >= MaxRestarts
     /\ status' = [status EXCEPT ![s] = "crashed"]
     /\ UNCHANGED <<termOf, count, timers>>

HandleExit(p) ==
  /\ p \in exits
  /\ exits' = exits \ {p}
  /\ Disown({p})
  /\ \/ /\ owner[p] \in Known
        /\ ServiceExited(owner[p])
        /\ crossed' = [crossed EXCEPT ![owner[p]] = @ \/ termOf[owner[p]] # p]
     \/ /\ owner[p] \notin Known
        /\ UNCHANGED <<status, termOf, count, timers, crossed>>
  /\ UNCHANGED <<loaded, tasks, proc, killed, launched>>

-----------------------------------------------------------------------------
UserStep ==
  \/ \E cfg \in SUBSET Names : Load(cfg) \/ Reload(cfg)
  \/ Unload
  \/ \E S \in {{s} : s \in Names} \cup {Known} : StartServices(S) \/ StopServices(S)
  \/ \E s \in Names : RestartService(s)

Next ==
  \/ UserStep
  \/ \E k \in tasks : RestartKills(k) \/ RestartStarts(k)
  \/ \E s \in Names : TimerFires(s)
  \/ \E p \in Terminals : ProcessEnds(p) \/ HandleExit(p)

\* The executor runs the tasks and the timers, and the UI thread the events.
\* Nothing is assumed of the user, or of a process nobody kills.
Fairness ==
  /\ \A i \in 1..MaxTasks :
       WF_vars(\E k \in tasks : k.id = i /\ (RestartKills(k) \/ RestartStarts(k)))
  /\ \A s \in Names : WF_vars(TimerFires(s))
  /\ \A p \in Terminals : WF_vars(HandleExit(p))

Spec == Init /\ [][Next]_vars /\ Fairness

-----------------------------------------------------------------------------
TypeOK ==
  /\ loaded \in BOOLEAN
  /\ status \in [Names -> Status]
  /\ termOf \in [Names -> Terminals \cup {None}]
  /\ count \in [Names -> 0..MaxRestarts]
  /\ owner \in [Terminals -> Names \cup {None}]
  /\ timers \in [Names -> Nat]
  /\ tasks \subseteq [id : 1..MaxTasks, svc : Names, term : Terminals \cup {None},
                      step : {"kill", "start"}]
  /\ proc \in [Terminals -> {"unused", "up", "ended"}]
  /\ killed \subseteq Terminals /\ exits \subseteq Terminals
  /\ launched \in [Terminals -> Names \cup {None}]
  /\ crossed \in [Names -> BOOLEAN]

\* "Running" is never left standing for a process that is gone: its terminal
\* is known to be the service's, and it is up or its exit is still to come,
\* however starts, restarts, exits and reloads of the service overlap.
RunningIsWatched ==
  \A s \in Names : status[s] = "running" =>
    /\ termOf[s] # None /\ owner[termOf[s]] = s
    /\ termOf[s] \notin killed
    /\ proc[termOf[s]] = "up" \/ termOf[s] \in exits

\* A restart is never only announced: a service shown as restarting has an
\* automatic restart whose delay runs, or a requested one that is under way.
RestartIsPending ==
  \A s \in Names : status[s] = "restarting" =>
    timers[s] > 0 \/ \E k \in tasks : k.svc = s

\* What a service shows is true of it: there is a process, or the report of its
\* end, behind a "running", and somebody who will start it behind a "restarting".
StatusIsBacked == RunningIsWatched /\ RestartIsPending

\* A service has one process: any other one started for it was told to end, or
\* is about to be by a restart.  So nothing of a service that was stopped,
\* dropped from the file or unloaded keeps running.  The one exception is a
\* service that took the exit of a terminal it had already left for its own.
NoStrayProcess ==
  \A p \in Terminals :
    LET s == launched[p] IN
    /\ proc[p] = "up" /\ p \notin killed
    /\ p \notin Taken(s) /\ ~crossed[s]
    => termOf[s] = p

\* What ties the manager, its tasks and the terminals together: a terminal is
\* an instance's own, the one a crashed service keeps is over, a task kills only
\* what its service has left.
Bookkeeping ==
  /\ ~loaded => Known = {}
  /\ \A s \in Names :
       /\ status[s] = "absent" => termOf[s] = None
       /\ termOf[s] # None => launched[termOf[s]] = s
       /\ termOf[s] # None /\ status[s] # "running" /\ ~crossed[s] => proc[termOf[s]] = "ended"
  /\ \A k \in tasks : k.step = "kill" => /\ k.term # None /\ launched[k.term] = k.svc
                                         /\ termOf[k.svc] # k.term
  /\ \A p \in Terminals :
       /\ launched[p] = None <=> proc[p] = "unused"
       /\ p \in killed => proc[p] # "unused"
       /\ p \in exits => proc[p] = "ended"

\* The inductive invariant behind RunningIsWatched and NoStrayProcess.
ServicesInv ==
  /\ TypeOK
  /\ Bookkeeping
  /\ RunningIsWatched
  /\ NoStrayProcess

\* A stop wins over a restart under way: only the user, or an automatic restart
\* whose delay was running, starts a stopped service.
StopWinsOverRestart ==
  [][\A s \in Names :
       status[s] = "stopped" /\ status'[s] = "running"
       => timers'[s] < timers[s] \/ StartServices({s}) \/ StartServices(Known)]_vars

\* A restart, requested or automatic, is carried through: the service does not
\* stay "restarting".
RestartEnds == \A s \in Names : status[s] = "restarting" ~> status[s] # "restarting"

=============================================================================
