---------------------------- MODULE AgentRequests ----------------------------
(***************************************************************************)
(* How the commands of `notmux agent' reach the group model of module      *)
(* Orchestration: the command line client and its retries                  *)
(* (src/src/cli/agent_commands.rs), the handlers of the HTTP route and the *)
(* loop that answers a blocked `next' (remote/routes/agents.rs), the       *)
(* request records that make a retry harmless (runtime.rs), the single     *)
(* writer of the store (store.rs) and the mailboxes (model.rs).            *)
(*                                                                         *)
(* A command is one run of the client and owns one request id.  It posts   *)
(* its request up to MaxAttempts times; every post that arrives is served  *)
(* by a handler of its own, and the handler of a post the client does not  *)
(* wait for any more goes on.  Handlers interleave with each other, with   *)
(* the threads that launch workers and record exits, and with a restart.   *)
(* The store applies one write at a time to a copy, saves the copy and     *)
(* only then shows it, so a write is one step; waking the waiters is a     *)
(* later one.                                                              *)
(*                                                                         *)
(* Abstracted: payloads and their digests (a client never uses an id for   *)
(* two payloads), outcomes, a `finish' without an assignment (it names the *)
(* current one), the eviction of request records beyond 4096, the pages of *)
(* a mailbox, commands that only read, `wait' (the loop of `next' over the *)
(* event log), kills and launched roots (module AgentLaunch), and the time *)
(* of a deadline, which may pass at any moment.                            *)
(***************************************************************************)
EXTENDS Orchestration

CONSTANTS
  Messages,     \* message ids
  Commands,     \* runs of the client, each with its request id
  MaxAttempts,  \* posts of one command
  MaxPosts,     \* bound: posts of all commands together
  MaxUnread     \* MAX_UNACKNOWLEDGED_MESSAGES

ASSUME RequestsAssumption ==
  /\ Messages \cap Tasks = {}
  /\ None \notin Messages \cup Commands
  /\ MaxAttempts \in Nat \ {0} /\ MaxPosts \in Nat /\ MaxUnread \in Nat

VARIABLES
  want,     \* the request of a command; None: not given yet
  attempt,  \* the last post of a command
  got,      \* the answer its client received; None: it has none, or gave up
  phase,    \* how far the handler of a post is; "none": there is none
  reply,    \* the answer of a handler that wrote and has not woken the waiters
  changed,  \* handlers whose change receiver holds a change they have not marked
  unsent,   \* a launch or an exit wrote and has not woken the waiters
  record,   \* the request records: the stored answer to a command
  treq,     \* request_id of an assignment
  mreq,     \* request_id of a message
  mto,      \* recipient_id of a message
  acked     \* the acknowledged messages

mailVars    == <<mreq, mto, acked>>
storeVars   == <<vars, treq, mailVars, record>>
clientVars  == <<want, attempt, got>>
handlerVars == <<phase, reply, changed>>
requestVars == <<storeVars, clientVars, handlerVars, unsent>>

Handlers == Commands \X (1..MaxAttempts)
Phase    == {"none", "sent", "unknown", "wrote", "empty", "asleep", "ended"}

\* arg: the worker, recipient, message, assignment or run the request names.
Requests ==
  [op : {"assign"}, by : Roots, arg : Workers]
  \cup [op : {"message"}, by : Runs, arg : Runs]
  \cup [op : {"ack"}, by : Runs, arg : Messages]
  \cup [op : {"finish"}, by : Runs, arg : Tasks]
  \cup [op : {"close", "stopGroup"}, by : Roots, arg : {None}]
  \cup [op : {"stopWorker"}, by : Runs, arg : Workers]
  \cup [op : {"next"}, by : Workers, arg : Tasks \cup {None}]

\* What a handler answers: of names the things made, handed out or delivered.
Replies == [kind : {"done", "task", "mail", "stopped", "nothing", "error"},
            of : SUBSET (Tasks \cup Messages)]

ASSUME NoneAssumption == None \notin Requests \cup Replies

Done(x)  == [kind |-> "done", of |-> {x}]
Task(t)  == [kind |-> "task", of |-> {t}]
Mail(S)  == [kind |-> "mail", of |-> S]
Plain(k) == [kind |-> k, of |-> {}]
Nothing  == Plain("nothing")

RequestsInit ==
  /\ Init
  /\ want    = [c \in Commands |-> None]
  /\ attempt = [c \in Commands |-> 0]
  /\ got     = [c \in Commands |-> None]
  /\ phase   = [h \in Handlers |-> "none"]
  /\ reply   = [h \in Handlers |-> None]
  /\ changed = {}
  /\ unsent  = FALSE
  /\ record  = [c \in Commands |-> None]
  /\ treq    = [t \in Tasks |-> None]
  /\ mreq    = [m \in Messages |-> None]
  /\ mto     = [m \in Messages |-> None]
  /\ acked   = {}

-----------------------------------------------------------------------------
(* The client.                                                             *)

Enter(h, ph) == phase' = [phase EXCEPT ![h] = ph]

Waits(c)    == want[c] # None /\ got[c] = None
WaitsFor(h) == Waits(h[1]) /\ attempt[h[1]] = h[2]
Posts       == {h \in Handlers : h[2] <= attempt[h[1]]}

\* What a run can know to ask for: its own group, and what exists.
Sensible(q) ==
  /\ proc[q.by] # "none"
  /\ q.op = "assign"     => q.by = parent[q.arg]
  /\ q.op = "stopWorker" => q.by \in {q.arg, parent[q.arg]}
  /\ q.op = "message"    => q.by # q.arg /\ proc[q.arg] # "none"
  /\ q.op = "ack"        => mto[q.arg] = q.by
  /\ q.op = "finish"     => tstate[q.arg] # "none" /\ MayReport(q.by, q.arg)
  /\ q.op = "next"       => q.arg \in {None, cur[q.by]}

Issue(c) ==
  /\ want[c] = None /\ Cardinality(Posts) < MaxPosts
  /\ \E q \in Requests : Sensible(q) /\ want' = [want EXCEPT ![c] = q]
  /\ attempt' = [attempt EXCEPT ![c] = 1]
  /\ Enter(<<c, 1>>, "sent")
  /\ UNCHANGED <<storeVars, got, reply, changed, unsent>>

\* The post or its answer was lost or took too long: the same id again.  After
\* the last attempt, or when the process of the client is killed, no post follows.
Retry(c) ==
  /\ Waits(c)
  /\ attempt[c] < MaxAttempts /\ Cardinality(Posts) < MaxPosts
  /\ attempt' = [attempt EXCEPT ![c] = @ + 1]
  /\ Enter(<<c, attempt[c] + 1>>, "sent")
  /\ UNCHANGED <<storeVars, want, got, reply, changed, unsent>>

-----------------------------------------------------------------------------
(* The methods of the model that module Orchestration leaves out.          *)

Unread(x) == {m \in Messages : mto[m] = x /\ m \notin acked}
RootOf(x) == IF x \in Roots THEN x ELSE parent[x]

Receives(x) ==
  /\ Live(x)
  /\ IF x \in Roots THEN rootState[x] = "active" ELSE avail[x] # "stopped"

SendMessage(c, x, y, m) ==
  /\ mto[m] = None
  /\ x # y /\ RootOf(x) = RootOf(y)
  /\ Receives(y)
  /\ Cardinality(Unread(y)) < MaxUnread
  /\ mto'  = [mto EXCEPT ![m] = y]
  /\ mreq' = [mreq EXCEPT ![m] = c]
  /\ UNCHANGED acked

Ack(x, m) ==
  /\ mto[m] = x
  /\ acked' = acked \cup {m}
  /\ UNCHANGED <<mreq, mto>>

-----------------------------------------------------------------------------
(* What a request does inside the writer of the store, and its answer r.   *)

Remember(c, r) == record' = [record EXCEPT ![c] = r]

AssignFor(c, q, r) ==
  /\ q.op = "assign"
  /\ \E t \in Tasks : /\ r = Done(t)
                      /\ Assign(q.by, q.arg, t)
                      /\ treq' = [treq EXCEPT ![t] = c]
  /\ Remember(c, r)
  /\ UNCHANGED mailVars

MessageFor(c, q, r) ==
  /\ q.op = "message"
  /\ \E m \in Messages : r = Done(m) /\ SendMessage(c, q.by, q.arg, m)
  /\ Remember(c, r)
  /\ UNCHANGED <<vars, treq>>

AckFor(q, r) ==
  /\ q.op = "ack" /\ r = Done(q.arg)
  /\ Ack(q.by, q.arg)
  /\ UNCHANGED <<vars, treq, record>>

FinishFor(c, q, r) ==
  /\ \/ q.op = "finish" /\ r = Done(q.arg) /\ FinishTask(q.by, q.arg, "succeeded")
     \/ q.op = "close" /\ r = Plain("done") /\ FinishRoot(q.by)
  /\ Remember(c, r)
  /\ UNCHANGED <<treq, mailVars>>

StopFor(q, r) ==
  /\ r = Plain("done")
  /\ \/ q.op = "stopGroup" /\ StopGroup(q.by)
     \/ q.op = "stopWorker" /\ StopWorker(q.arg)
  /\ UNCHANGED <<treq, mailVars, record>>

Stopped(w) == avail[w] = "stopped" \/ ~Live(w)
Inbox(w)   == IF Unread(w) = {} THEN Nothing ELSE Mail(Unread(w))

\* claim_next: the assignment the worker holds and did not name, the first one
\* of its queue, its messages, or nothing.  Only an assignment is remembered.
NextFor(c, q, r) ==
  /\ q.op = "next"
  /\ \/ /\ Stopped(q.by) /\ r = Plain("stopped")
        /\ UNCHANGED <<vars, record>>
     \/ /\ ~Stopped(q.by) /\ Busy(q.by)
        /\ \/ q.arg # cur[q.by] /\ r = Task(cur[q.by]) /\ Remember(c, r)
           \/ q.arg = cur[q.by] /\ r = Inbox(q.by) /\ UNCHANGED record
        /\ UNCHANGED vars
     \/ /\ ClaimNext(q.by, Unread(q.by) # {})
        /\ \/ FirstQueued(q.by) = {} /\ r = Inbox(q.by) /\ UNCHANGED record
           \/ FirstQueued(q.by) # {} /\ r = Task(cur'[q.by]) /\ Remember(c, r)
  /\ UNCHANGED <<treq, mailVars>>

Perform(c, q, r) ==
  \/ AssignFor(c, q, r) \/ MessageFor(c, q, r) \/ AckFor(q, r)
  \/ FinishFor(c, q, r) \/ StopFor(q, r) \/ NextFor(c, q, r)

\* The answers a request can have.
Answers(q) ==
  {Plain("done"), Plain("stopped"), Inbox(q.by)}
  \cup {Done(x) : x \in Tasks \cup Messages} \cup {Task(t) : t \in Tasks}

-----------------------------------------------------------------------------
(* A handler.                                                              *)

\* Faulty: the changes are marked when the sleep starts, after the answer.
Sleeping == {h \in Handlers : phase[h] = "asleep"}

\* The handlers that have marked the changes so far and may sleep on the next.
Asking == {h \in Handlers : phase[h] \in {"unknown", "wrote", "empty", "asleep"}}
KeepMarks == changed' = changed \cap Asking'

\* The handler ends with r.  The answer reaches the client that waits for it,
\* or is lost on the way.
Answer(h, r) ==
  /\ Enter(h, "none")
  /\ \/ WaitsFor(h) /\ got' = [got EXCEPT ![h[1]] = r]
     \/ UNCHANGED got
  /\ UNCHANGED <<want, attempt>>

\* An empty answer goes to the loop of the wait.
AnswerOrGoOn(h, r) ==
  \/ r # Nothing /\ Answer(h, r)
  \/ r = Nothing /\ Enter(h, "empty") /\ UNCHANGED clientVars

\* Faulty: a root that was closed is no caller any more.
ResolvesActive(x) == Receives(x)

\* resolve_caller, for anything but a read.
Resolves(x) == Live(x)

\* The handler marks the changes so far, resolves its caller and looks its id
\* up, all before the write.
LookUp(h) ==
  LET c == h[1] IN
  /\ phase[h] = "sent"
  /\ changed' = changed \ {h}
  /\ \/ ~Resolves(want[c].by) /\ Answer(h, Plain("error"))
     \/ Resolves(want[c].by) /\ record[c] # None /\ Answer(h, record[c])
     \/ /\ Resolves(want[c].by) /\ record[c] = None
        /\ Enter(h, "unknown")
        /\ UNCHANGED clientVars
  /\ UNCHANGED <<storeVars, reply, unsent>>

\* Faulty: the look-up before the write is enough.
UnknownBefore(c) == TRUE

Unknown(c) == record[c] = None

Changed == storeVars' # storeVars

\* The writer of the store looks the id up again, does what is asked and
\* remembers the answer.  What changed nothing is not written and wakes nobody.
Write(h) ==
  LET c == h[1] IN
  /\ phase[h] = "unknown"
  /\ Unknown(c)
  /\ \E q \in {want[c]} : \E r \in Answers(q) :
       /\ Perform(c, q, r)
       /\ \/ /\ Changed
             /\ Enter(h, "wrote")
             /\ reply' = [reply EXCEPT ![h] = r]
             /\ UNCHANGED clientVars
          \/ /\ ~Changed
             /\ AnswerOrGoOn(h, r)
             /\ UNCHANGED reply
  /\ KeepMarks
  /\ UNCHANGED unsent

Replay(h) ==
  /\ phase[h] = "unknown"
  /\ record[h[1]] # None
  /\ Answer(h, record[h[1]])
  /\ KeepMarks
  /\ UNCHANGED <<storeVars, reply, unsent>>

\* The model refuses what is asked, or the document cannot be written: the
\* store stays as it is.
Refuse(h) ==
  /\ phase[h] = "unknown"
  /\ record[h[1]] = None
  /\ Answer(h, Plain("error"))
  /\ KeepMarks
  /\ UNCHANGED <<storeVars, reply, unsent>>

Bump(h) ==
  /\ phase[h] = "wrote"
  /\ AnswerOrGoOn(h, reply[h])
  /\ reply' = [reply EXCEPT ![h] = None]
  /\ changed' = Asking'
  /\ UNCHANGED <<storeVars, unsent>>

\* Nothing yet: the handler sleeps until the next change, or ends when its
\* deadline has passed.
Sleep(h) ==
  /\ phase[h] = "empty"
  /\ Enter(h, "asleep") \/ Enter(h, "ended")
  /\ KeepMarks
  /\ UNCHANGED <<storeVars, clientVars, reply, unsent>>

\* Woken, the handler asks again.
Wake(h) ==
  /\ phase[h] = "asleep" /\ h \in changed
  /\ Enter(h, "sent")
  /\ KeepMarks
  /\ UNCHANGED <<storeVars, clientVars, reply, unsent>>

\* At the deadline it asks once more.
Deadline(h) ==
  /\ phase[h] = "asleep"
  /\ Enter(h, "sent")
  /\ KeepMarks
  /\ UNCHANGED <<storeVars, clientVars, reply, unsent>>

\* wait_ended makes the worker idle, and nobody is woken.
WaitEnded(h) ==
  /\ phase[h] = "ended"
  /\ \E w \in Workers :
       /\ w = want[h[1]].by
       /\ \/ Resolves(w) /\ MarkWorkerIdle(w)
          \/ ~(Resolves(w) /\ avail[w] = "waiting") /\ UNCHANGED vars
  /\ Answer(h, Nothing)
  /\ UNCHANGED <<treq, mailVars, record, reply, changed, unsent>>

\* The connection is gone: the task of the route is dropped where it awaits, but
\* not what runs on a blocking thread, whose answer is lost then (Answer).
Drop(h) ==
  /\ phase[h] \in {"sent", "empty", "asleep", "ended"}
  /\ Enter(h, "none")
  /\ KeepMarks
  /\ UNCHANGED <<storeVars, clientVars, reply, unsent>>

-----------------------------------------------------------------------------
(* The other threads that write, and the restart.                          *)

Elsewhere ==
  /\ \/ \E r \in Roots :
          \/ \E p \in Panes : RegisterPane(r, p)
          \/ RootExited(r)
          \/ \E w \in Workers, t \in Tasks : AcceptWorker(r, w, t)
     \/ \E w \in Workers :
          MarkStarted(w) \/ WorkerLaunchFailed(w) \/ WorkerExited(w, "failed")
  /\ unsent' = TRUE
  /\ UNCHANGED <<treq, mailVars, record, clientVars, handlerVars>>

BumpElsewhere ==
  /\ unsent
  /\ unsent' = FALSE
  /\ changed' = Asking
  /\ UNCHANGED <<storeVars, clientVars, phase, reply>>

Restart ==
  /\ InterruptLiveRuns
  /\ phase'   = [h \in Handlers |-> "none"]
  /\ reply'   = [h \in Handlers |-> None]
  /\ changed' = {}
  /\ unsent'  = FALSE
  /\ UNCHANGED <<treq, mailVars, record, clientVars>>

-----------------------------------------------------------------------------
ClientStep(c) == Issue(c) \/ Retry(c)

HandlerStep(h) ==
  \/ LookUp(h) \/ Write(h) \/ Replay(h) \/ Refuse(h) \/ Bump(h)
  \/ Sleep(h) \/ Wake(h) \/ Deadline(h) \/ WaitEnded(h) \/ Drop(h)

RequestsNext ==
  \/ \E c \in Commands : ClientStep(c)
  \/ \E h \in Handlers : HandlerStep(h)
  \/ Elsewhere
  \/ BumpElsewhere
  \/ Restart

RequestsSpec == RequestsInit /\ [][RequestsNext]_requestVars

-----------------------------------------------------------------------------
RequestTypeOK ==
  /\ TypeOK
  /\ want \in [Commands -> Requests \cup {None}]
  /\ attempt \in [Commands -> 0..MaxAttempts]
  /\ got \in [Commands -> Replies \cup {None}]
  /\ phase \in [Handlers -> Phase]
  /\ reply \in [Handlers -> Replies \cup {None}]
  /\ changed \subseteq Handlers
  /\ unsent \in BOOLEAN
  /\ record \in [Commands -> Replies \cup {None}]
  /\ treq \in [Tasks -> Commands \cup {None}]
  /\ mreq \in [Messages -> Commands \cup {None}]
  /\ mto \in [Messages -> Runs \cup {None}]
  /\ acked \subseteq Messages
  /\ \A h \in Handlers : phase[h] # "none" => want[h[1]] # None
  /\ \A h \in Handlers : phase[h] = "wrote" => reply[h] # None

\* A command makes at most one assignment or message, however many posts of it
\* arrive, overlap or outlive their connection, over restarts as well.
Made(c) == {t \in Tasks : treq[t] = c} \cup {m \in Messages : mreq[m] = c}
RequestAppliedOnce == \A c \in Commands : \A x, y \in Made(c) : x = y

\* Once a command is recorded, a later post of it is answered with what the
\* first one did: the same assignment or message, the assignment handed out or
\* reported, whatever became of it in between.  An error means that the
\* process of the caller is gone, not that the command failed.
RetryReplays ==
  [][\A c \in Commands :
       record[c] # None /\ got'[c] # got[c]
       => /\ got'[c].kind \in {"done", "task"} => got'[c] = record[c]
          /\ got'[c].kind = "error" => ~Live(want[c].by)]_requestVars

\* What a sleeping `next' waits for.
HasAnswer(h) ==
  LET q == want[h[1]] IN
  \/ record[h[1]] # None
  \/ Stopped(q.by)
  \/ Unread(q.by) # {}
  \/ IF Busy(q.by) THEN q.arg # cur[q.by] ELSE Queued(q.by) # {}

\* A `next' that sleeps although there is an assignment, a message or a stop
\* for its worker will be woken before its deadline: its receiver holds a
\* change it has not seen, or a thread that wrote one has still to tell.
NoLostWakeup ==
  \A h \in Handlers :
    phase[h] = "asleep" /\ HasAnswer(h)
    => h \in changed \/ unsent \/ \E g \in Handlers : phase[g] = "wrote"

=============================================================================
