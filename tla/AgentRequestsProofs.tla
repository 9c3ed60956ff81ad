------------------------- MODULE AgentRequestsProofs -------------------------
(***************************************************************************)
(* Theorems about commands, their retries and the blocked `next'           *)
(* (AgentRequests), for any number of commands, posts, handlers and        *)
(* restarts.                                                               *)
(***************************************************************************)
EXTENDS AgentRequests, RefinementProofs, WellFoundedInduction

-----------------------------------------------------------------------------
(* Requests and their answers.                                             *)

LEMMA RequestFields ==
  ASSUME NEW q \in Requests
  PROVE  /\ q.op \in {"assign", "message", "ack", "finish", "close", "stopGroup",
                      "stopWorker", "next"}
         /\ q.op = "assign" => q.by \in Roots /\ q.arg \in Workers
         /\ q.op = "message" => q.by \in Runs /\ q.arg \in Runs
         /\ q.op = "ack" => q.by \in Runs /\ q.arg \in Messages
         /\ q.op = "finish" => q.by \in Runs /\ q.arg \in Tasks
         /\ q.op \in {"close", "stopGroup"} => q.by \in Roots
         /\ q.op = "stopWorker" => q.by \in Runs /\ q.arg \in Workers
         /\ q.op = "next" => q.by \in Workers
BY DEF Requests

LEMMA ReplyFacts ==
  /\ \A x \in Tasks \cup Messages : Done(x) \in Replies
  /\ \A t \in Tasks : Task(t) \in Replies
  /\ \A S \in SUBSET Messages : Mail(S) \in Replies
  /\ \A k \in {"done", "stopped", "nothing", "error"} : Plain(k) \in Replies
BY DEF Replies, Done, Task, Mail, Plain

LEMMA AnswersAreReplies ==
  ASSUME NEW q \in Requests, NEW r \in Answers(q)
  PROVE  r \in Replies
<1>1. Inbox(q.by) \in Replies
  <2>1. Unread(q.by) \in SUBSET Messages
    BY DEF Unread
  <2> QED BY <2>1, ReplyFacts DEF Inbox, Nothing
<1> QED BY <1>1, ReplyFacts DEF Answers

-----------------------------------------------------------------------------
(* Commands only call the methods of the group model.                      *)

LEMMA CallIsStep ==
  ASSUME NEW c, NEW q \in Requests, NEW r, Perform(c, q, r)
  PROVE  [Next]_vars
<1> USE RequestFields
<1>1. CASE AssignFor(c, q, r)
  BY <1>1 DEF AssignFor, Next, RootStep
<1>2. CASE MessageFor(c, q, r) \/ AckFor(q, r)
  BY <1>2 DEF MessageFor, AckFor
<1>3. CASE FinishFor(c, q, r)
  BY <1>3 DEF FinishFor, Next, RootStep
<1>4. CASE StopFor(q, r)
  BY <1>4 DEF StopFor, Next, RootStep, WorkerStep
<1>5. CASE NextFor(c, q, r)
  <2>1. CASE UNCHANGED vars
    BY <2>1
  <2>2. CASE ClaimNext(q.by, Unread(q.by) # {})
    BY <1>5, <2>2 DEF NextFor, Next, WorkerStep
  <2> QED BY <1>5, <2>1, <2>2 DEF NextFor
<1> QED BY <1>1, <1>2, <1>3, <1>4, <1>5 DEF Perform

LEMMA ElsewhereIsStep == Elsewhere => [Next]_vars
<1> SUFFICES ASSUME Elsewhere PROVE [Next]_vars
  OBVIOUS
<1>1. ASSUME NEW r \in Roots,
             \/ \E p \in Panes : RegisterPane(r, p)
             \/ RootExited(r)
             \/ \E w \in Workers, t \in Tasks : AcceptWorker(r, w, t)
      PROVE  Next
  BY <1>1 DEF Next, RootStep, Terminals
<1>2. ASSUME NEW w \in Workers,
             MarkStarted(w) \/ WorkerLaunchFailed(w) \/ WorkerExited(w, "failed")
      PROVE  Next
  BY <1>2 DEF Next, WorkerStep
<1> QED BY <1>1, <1>2 DEF Elsewhere

\* What every post is about, known to its handler.
Requested(h) == want[h[1]] \in Requests

LEMMA HandlerIsStep ==
  ASSUME NEW h \in Handlers, phase[h] # "none" => Requested(h), HandlerStep(h)
  PROVE  [Next]_vars
<1>1. CASE Write(h)
  BY <1>1, CallIsStep DEF Write, Requested
<1>2. CASE WaitEnded(h)
  BY <1>2 DEF WaitEnded, Next, WorkerStep
<1>3. CASE LookUp(h) \/ Replay(h) \/ Refuse(h) \/ Bump(h) \/ Sleep(h) \/ Wake(h)
           \/ Deadline(h) \/ Drop(h)
  BY <1>3 DEF LookUp, Replay, Refuse, Bump, Sleep, Wake, Deadline, Drop, storeVars
<1> QED BY <1>1, <1>2, <1>3 DEF HandlerStep

LEMMA RequestsNextIsStep ==
  ASSUME RequestTypeOK, [RequestsNext]_requestVars
  PROVE  [Next]_vars
<1>1. ASSUME NEW c \in Commands, ClientStep(c)
      PROVE  UNCHANGED vars
  BY <1>1 DEF ClientStep, Issue, Retry, storeVars
<1>2. ASSUME NEW h \in Handlers, HandlerStep(h)
      PROVE  [Next]_vars
  <2>1. phase[h] # "none" => Requested(h)
    BY DEF RequestTypeOK, Requested, Handlers
  <2> QED BY <1>2, <2>1, HandlerIsStep
<1>3. CASE Elsewhere
  BY <1>3, ElsewhereIsStep
<1>4. CASE BumpElsewhere
  BY <1>4 DEF BumpElsewhere, storeVars
<1>5. CASE Restart
  BY <1>5 DEF Restart, Next
<1>6. CASE UNCHANGED requestVars
  BY <1>6 DEF requestVars, storeVars
<1> QED BY <1>1, <1>2, <1>3, <1>4, <1>5, <1>6 DEF RequestsNext

-----------------------------------------------------------------------------
LEMMA SomeFirstQueued ==
  ASSUME TypeOK, NEW w \in Workers, Queued(w) # {}
  PROVE  FirstQueued(w) # {}
<1> DEFINE T == {tseq[t] : t \in Queued(w)}
<1>1. T \subseteq Nat
  BY DEF TypeOK, Queued, TasksOf
<1>2. T # {}
  OBVIOUS
<1>3. PICK n \in T : \A m \in T : ~ (<<m, n>> \in OpToRel(<, Nat))
  BY <1>1, <1>2, NatLessThanWellFounded, WFMin
<1>4. ASSUME NEW m \in T
      PROVE  n <= m
  <2>1. m \in Nat /\ n \in Nat
    BY <1>1
  <2>2. m < n => <<m, n>> \in OpToRel(<, Nat)
    <3>1. ASSUME m < n PROVE <<m, n>> \in {ss \in Nat \X Nat : ss[1] < ss[2]}
      BY <2>1, <3>1
    <3> QED BY <3>1, Zenon DEF OpToRel
  <2>3. ~ (m < n)
    BY <1>3, <2>2, Zenon
  <2> QED BY <2>1, <2>3
<1>5. PICK t \in Queued(w) : tseq[t] = n
  BY <1>3
<1>6. t \in FirstQueued(w)
  BY <1>4, <1>5 DEF FirstQueued
<1> QED BY <1>6


-----------------------------------------------------------------------------
(* Types.                                                                  *)

LEMMA PerformType ==
  ASSUME RequestTypeOK, NEW c \in Commands, NEW q \in Requests, NEW r \in Replies,
         Perform(c, q, r)
  PROVE  /\ record' \in [Commands -> Replies \cup {None}]
         /\ treq' \in [Tasks -> Commands \cup {None}]
         /\ mreq' \in [Messages -> Commands \cup {None}]
         /\ mto' \in [Messages -> Runs \cup {None}]
         /\ acked' \subseteq Messages
<1> USE RequestFields DEF RequestTypeOK, Remember, mailVars
<1>1. CASE AssignFor(c, q, r)
  BY <1>1 DEF AssignFor
<1>2. CASE MessageFor(c, q, r)
  BY <1>2 DEF MessageFor, SendMessage
<1>3. CASE AckFor(q, r)
  BY <1>3 DEF AckFor, Ack
<1>4. CASE FinishFor(c, q, r)
  BY <1>4 DEF FinishFor
<1>5. CASE StopFor(q, r)
  BY <1>5 DEF StopFor
<1>6. CASE NextFor(c, q, r)
  BY <1>6 DEF NextFor
<1> QED BY <1>1, <1>2, <1>3, <1>4, <1>5, <1>6 DEF Perform

\* The conjuncts of RequestTypeOK about the client and its handlers.
CallTypes ==
  /\ want \in [Commands -> Requests \cup {None}]
  /\ attempt \in [Commands -> 0..MaxAttempts]
  /\ got \in [Commands -> Replies \cup {None}]
  /\ phase \in [Handlers -> Phase]
  /\ \A h \in Handlers : phase[h] # "none" => want[h[1]] # None

LEMMA AnswerType ==
  ASSUME CallTypes, NEW h \in Handlers, NEW r \in Replies, Answer(h, r)
  PROVE  CallTypes' /\ \A g \in Handlers : phase'[g] = "wrote" => phase[g] = "wrote" /\ g # h
BY DEF CallTypes, Answer, Enter, Phase, Handlers

LEMMA EnterType ==
  ASSUME CallTypes, NEW h \in Handlers, NEW ph \in Phase, phase[h] # "none",
         Enter(h, ph), UNCHANGED clientVars
  PROVE  /\ CallTypes'
         /\ \A g \in Handlers \ {h} : phase'[g] = phase[g]
         /\ phase'[h] = ph
BY DEF CallTypes, Enter, Phase, Handlers, clientVars

LEMMA GoOnType ==
  ASSUME CallTypes, NEW h \in Handlers, NEW r \in Replies, AnswerOrGoOn(h, r), phase[h] # "none"
  PROVE  CallTypes' /\ \A g \in Handlers : phase'[g] = "wrote" => phase[g] = "wrote" /\ g # h
<1>1. CASE Answer(h, r)
  BY <1>1, AnswerType
<1>2. CASE Enter(h, "empty") /\ UNCHANGED clientVars
  BY <1>2, EnterType DEF Phase
<1> QED BY <1>1, <1>2 DEF AnswerOrGoOn

\* The conjuncts about the store, and those about the waiters.
StoreTypes ==
  /\ record \in [Commands -> Replies \cup {None}]
  /\ treq \in [Tasks -> Commands \cup {None}]
  /\ mreq \in [Messages -> Commands \cup {None}]
  /\ mto \in [Messages -> Runs \cup {None}]
  /\ acked \subseteq Messages

WakeTypes ==
  /\ reply \in [Handlers -> Replies \cup {None}]
  /\ changed \subseteq Handlers
  /\ unsent \in BOOLEAN
  /\ \A h \in Handlers : phase[h] = "wrote" => reply[h] # None

LEMMA TypeParts == RequestTypeOK <=> TypeOK /\ CallTypes /\ StoreTypes /\ WakeTypes
  BY DEF RequestTypeOK, CallTypes, StoreTypes, WakeTypes

LEMMA TypePartsPrime == RequestTypeOK' <=> TypeOK' /\ CallTypes' /\ StoreTypes' /\ WakeTypes'
  BY DEF RequestTypeOK, CallTypes, StoreTypes, WakeTypes

LEMMA WriteType ==
  ASSUME RequestTypeOK, NEW h \in Handlers, Write(h)
  PROVE  CallTypes' /\ StoreTypes' /\ WakeTypes'
<1> DEFINE c == h[1]
           q == want[c]
<1>1. c \in Commands /\ q \in Requests /\ CallTypes /\ phase[h] # "none" /\ q # None
  BY TypeParts DEF Write, CallTypes, Handlers, RequestTypeOK
<1>2. PICK r \in Answers(q) :
        /\ Perform(c, q, r)
        /\ \/ Enter(h, "wrote") /\ reply' = [reply EXCEPT ![h] = r] /\ UNCHANGED clientVars
           \/ AnswerOrGoOn(h, r) /\ UNCHANGED reply
  BY DEF Write
<1>3. r \in Replies /\ r # None
  BY <1>1, AnswersAreReplies, NoneAssumption
<1>4. StoreTypes'
  BY <1>1, <1>2, <1>3, PerformType DEF StoreTypes
<1>5. changed' \subseteq Handlers /\ unsent' \in BOOLEAN
  BY DEF Write, KeepMarks, RequestTypeOK
<1>6. CASE Enter(h, "wrote") /\ reply' = [reply EXCEPT ![h] = r] /\ UNCHANGED clientVars
  <2>1. CallTypes' /\ \A g \in Handlers \ {h} : phase'[g] = phase[g]
    BY <1>1, <1>6, EnterType DEF Phase
  <2>2. \A g \in Handlers : phase'[g] = "wrote" => reply'[g] # None
    BY <1>3, <1>6, <2>1 DEF RequestTypeOK
  <2>3. reply' \in [Handlers -> Replies \cup {None}]
    BY <1>3, <1>6 DEF RequestTypeOK
  <2> QED BY <1>4, <1>5, <2>1, <2>2, <2>3 DEF WakeTypes
<1>7. CASE AnswerOrGoOn(h, r) /\ UNCHANGED reply
  <2>1. CallTypes' /\ \A g \in Handlers : phase'[g] = "wrote" => phase[g] = "wrote"
    BY <1>1, <1>3, <1>7, GoOnType
  <2> QED BY <1>4, <1>5, <1>7, <2>1 DEF WakeTypes, RequestTypeOK
<1> QED BY <1>2, <1>6, <1>7

\* A handler's step that leaves the store alone and ends or goes on.
LEMMA QuietType ==
  ASSUME RequestTypeOK, NEW h \in Handlers, phase[h] # "none",
         UNCHANGED <<treq, mailVars, record>>, unsent' \in BOOLEAN, changed' \subseteq Handlers,
         \/ \E r \in Replies : Answer(h, r) \/ AnswerOrGoOn(h, r)
         \/ \E ph \in Phase \ {"wrote"} : Enter(h, ph) /\ UNCHANGED clientVars,
         UNCHANGED reply \/ reply' = [reply EXCEPT ![h] = None]
  PROVE  CallTypes' /\ StoreTypes' /\ WakeTypes'
<1>1. CallTypes /\ StoreTypes /\ WakeTypes
  BY TypeParts
<1>2. CallTypes' /\ \A g \in Handlers : phase'[g] = "wrote" => phase[g] = "wrote" /\ g # h
  <2>1. ASSUME NEW r \in Replies, Answer(h, r) \/ AnswerOrGoOn(h, r)
        PROVE  CallTypes' /\ \A g \in Handlers : phase'[g] = "wrote" => phase[g] = "wrote" /\ g # h
    BY <1>1, <2>1, AnswerType, GoOnType
  <2>2. ASSUME NEW ph \in Phase \ {"wrote"}, Enter(h, ph), UNCHANGED clientVars
        PROVE  CallTypes' /\ \A g \in Handlers : phase'[g] = "wrote" => phase[g] = "wrote" /\ g # h
    BY <1>1, <2>2, EnterType
  <2> QED BY <2>1, <2>2
<1>3. StoreTypes'
  BY <1>1 DEF StoreTypes, mailVars
<1>4. WakeTypes'
  BY <1>1, <1>2 DEF WakeTypes
<1> QED BY <1>2, <1>3, <1>4

LEMMA HandlerType ==
  ASSUME RequestTypeOK, NEW h \in Handlers, HandlerStep(h)
  PROVE  CallTypes' /\ StoreTypes' /\ WakeTypes'
<1>1. h[1] \in Commands /\ changed \subseteq Handlers /\ unsent \in BOOLEAN
  BY DEF RequestTypeOK, Handlers
<1>2. changed \cap Asking' \subseteq Handlers /\ Asking' \subseteq Handlers
  BY <1>1 DEF Asking
<1>3. record[h[1]] # None => record[h[1]] \in Replies
  BY <1>1 DEF RequestTypeOK
<1>4. CASE LookUp(h)
  <2>1. \/ \E r \in Replies : Answer(h, r)
        \/ \E ph \in Phase \ {"wrote"} : Enter(h, ph) /\ UNCHANGED clientVars
    BY <1>3, <1>4, ReplyFacts DEF LookUp, Phase
  <2> QED BY <1>1, <1>4, <2>1, QuietType DEF LookUp, storeVars
<1>5. CASE Replay(h) \/ Refuse(h)
  <2>1. \E r \in Replies : Answer(h, r)
    BY <1>3, <1>5, ReplyFacts DEF Replay, Refuse
  <2> QED BY <1>1, <1>2, <1>5, <2>1, QuietType DEF Replay, Refuse, storeVars, KeepMarks
<1>6. CASE Bump(h)
  <2>1. reply[h] \in Replies
    BY <1>6 DEF Bump, RequestTypeOK
  <2> QED BY <1>1, <1>2, <1>6, <2>1, QuietType DEF Bump, storeVars
<1>7. CASE Sleep(h) \/ Wake(h) \/ Deadline(h) \/ Drop(h)
  <2>1. \E ph \in Phase \ {"wrote"} : Enter(h, ph) /\ UNCHANGED clientVars
    BY <1>7 DEF Sleep, Wake, Deadline, Drop, Phase
  <2> QED BY <1>1, <1>2, <1>7, <2>1, QuietType DEF Sleep, Wake, Deadline, Drop, storeVars, KeepMarks
<1>8. CASE WaitEnded(h)
  BY <1>1, <1>8, QuietType, ReplyFacts DEF WaitEnded, Nothing
<1> QED BY <1>4, <1>5, <1>6, <1>7, <1>8, WriteType DEF HandlerStep

LEMMA RequestsNextType ==
  ASSUME RequestTypeOK, [RequestsNext]_requestVars
  PROVE  RequestTypeOK'
<1>1. TypeOK'
  BY RequestsNextIsStep, NextType DEF RequestTypeOK
<1>2. ASSUME NEW c \in Commands, Issue(c) \/ Retry(c)
      PROVE  CallTypes' /\ StoreTypes' /\ WakeTypes'
  <2>1. ASSUME Issue(c)
        PROVE  CallTypes'
    <3>1. want' \in [Commands -> Requests \cup {None}] /\ want'[c] # None
      BY <2>1, NoneAssumption DEF Issue, RequestTypeOK
    <3>2. \A b \in Commands : want[b] # None => want'[b] # None
      BY <2>1, <3>1 DEF Issue, RequestTypeOK
    <3>3. attempt' \in [Commands -> 0..MaxAttempts]
      BY <2>1, RequestsAssumption DEF Issue, RequestTypeOK
    <3>4. <<c, 1>> \in Handlers /\ phase' = [phase EXCEPT ![<<c, 1>>] = "sent"]
      BY <2>1, RequestsAssumption DEF Issue, Enter, Handlers
    <3>5. \A h \in Handlers : phase'[h] # "none" => want'[h[1]] # None
      BY <3>1, <3>2, <3>4 DEF RequestTypeOK, Handlers
    <3>6. phase' \in [Handlers -> Phase]
      BY <3>4 DEF RequestTypeOK, Phase
    <3>7. got' \in [Commands -> Replies \cup {None}]
      BY <2>1 DEF Issue, RequestTypeOK
    <3> QED BY <3>1, <3>3, <3>5, <3>6, <3>7 DEF CallTypes
  <2>2. ASSUME Retry(c)
        PROVE  CallTypes'
    <3> DEFINE n == attempt[c] + 1
    <3>1. n \in 1..MaxAttempts /\ want[c] # None
      BY <2>2, RequestsAssumption DEF Retry, Waits, RequestTypeOK
    <3>2. attempt' \in [Commands -> 0..MaxAttempts]
      BY <2>2, <3>1, RequestsAssumption DEF Retry, RequestTypeOK
    <3>3. <<c, n>> \in Handlers /\ phase' = [phase EXCEPT ![<<c, n>>] = "sent"]
      BY <2>2, <3>1 DEF Retry, Enter, Handlers
    <3>4. \A h \in Handlers : phase'[h] # "none" => want'[h[1]] # None
      BY <2>2, <3>1, <3>3 DEF Retry, RequestTypeOK, Handlers
    <3>5. phase' \in [Handlers -> Phase]
      BY <3>3 DEF RequestTypeOK, Phase
    <3>6. got' \in [Commands -> Replies \cup {None}] /\ want' = want
      BY <2>2 DEF Retry, RequestTypeOK
    <3>7. want \in [Commands -> Requests \cup {None}]
      BY DEF RequestTypeOK
    <3> QED BY <3>2, <3>4, <3>5, <3>6, <3>7 DEF CallTypes
  <2>3. CallTypes'
    BY <1>2, <2>1, <2>2
  <2>4. StoreTypes'
    BY <1>2 DEF Issue, Retry, storeVars, mailVars, StoreTypes, RequestTypeOK
  <2>5. \A h \in Handlers : phase'[h] = "wrote" => phase[h] = "wrote"
    BY <1>2 DEF Issue, Retry, Enter, RequestTypeOK
  <2>6. WakeTypes'
    BY <1>2, <2>5 DEF Issue, Retry, WakeTypes, RequestTypeOK
  <2> QED BY <2>3, <2>4, <2>6
<1>3. CASE Elsewhere \/ BumpElsewhere \/ UNCHANGED requestVars
  <2>1. /\ UNCHANGED <<want, attempt, got, phase, reply, treq, mreq, mto, acked, record>>
        /\ changed' = changed \/ changed' = Asking
        /\ unsent' \in {unsent, TRUE, FALSE}
    BY <1>3 DEF Elsewhere, BumpElsewhere, requestVars, storeVars, mailVars, clientVars, handlerVars
  <2>2. changed' \subseteq Handlers /\ unsent' \in BOOLEAN
    BY <2>1 DEF Asking, RequestTypeOK
  <2>3. CallTypes' /\ StoreTypes'
    BY <2>1, TypeParts DEF CallTypes, StoreTypes
  <2>4. WakeTypes'
    BY <2>1, <2>2, TypeParts DEF WakeTypes
  <2> QED BY <1>1, <2>3, <2>4, TypePartsPrime
<1>4. CASE Restart
  <2>1. /\ phase' \in [Handlers -> Phase]
        /\ reply' \in [Handlers -> Replies \cup {None}]
        /\ \A h \in Handlers : phase'[h] = "none"
    BY <1>4 DEF Restart, Phase
  <2>2. UNCHANGED <<want, attempt, got, treq, mreq, mto, acked, record>>
    BY <1>4 DEF Restart, mailVars, clientVars
  <2>3. changed' \subseteq Handlers /\ unsent' \in BOOLEAN
    BY <1>4 DEF Restart
  <2>4. CallTypes'
    BY <2>1, <2>2, TypeParts DEF CallTypes
  <2>5. StoreTypes'
    BY <2>2, TypeParts DEF StoreTypes
  <2>6. WakeTypes'
    BY <2>1, <2>3 DEF WakeTypes
  <2> QED BY <1>1, <2>4, <2>5, <2>6, TypePartsPrime
<1> QED BY <1>1, <1>2, <1>3, <1>4, HandlerType, TypePartsPrime DEF RequestsNext, ClientStep

LEMMA RequestsInitType == RequestsInit => RequestTypeOK
<1> SUFFICES ASSUME RequestsInit PROVE RequestTypeOK
  OBVIOUS
<1>1. TypeOK
  BY InitType DEF RequestsInit
<1>2. CallTypes
  BY RequestsAssumption DEF RequestsInit, CallTypes, Phase
<1>3. StoreTypes
  BY DEF RequestsInit, StoreTypes
<1>4. WakeTypes
  BY DEF RequestsInit, WakeTypes
<1> QED BY <1>1, <1>2, <1>3, <1>4, TypeParts

\* Every field of a command, a handler, a mailbox and a record keeps its type
\* however posts, retries, wakes and restarts interleave.
THEOREM RequestsTypeCorrect == RequestsSpec => []RequestTypeOK
  BY RequestsInitType, RequestsNextType, PTL DEF RequestsSpec

\* Whatever the handlers of the commands do, the records only go through the
\* steps of the group model: what is proved of Spec holds of RequestsSpec.
THEOREM RequestsKeepGroup == RequestsSpec => Spec
<1>1. RequestsInit => Init
  BY DEF RequestsInit
<1> QED BY <1>1, RequestsTypeCorrect, RequestsNextIsStep, PTL DEF RequestsSpec, Spec

\* The contract of a group survives commands that are posted twice, answered
\* from their record or cut off by a restart: none is carried out in part.
THEOREM RequestsKeepContract == RequestsSpec => KeepsContract
BY RequestsKeepGroup, ContractKept, PTL

-----------------------------------------------------------------------------
(* The records and what the commands did.                                  *)

\* What a command made is the answer its record holds.
MadeIsRecorded ==
  \A c \in Commands :
    /\ \A t \in Tasks : treq[t] = c => record[c] = Done(t)
    /\ \A m \in Messages : mreq[m] = c => record[c] = Done(m)

\* The operations without a request id.
Unrecorded == {"ack", "stopGroup", "stopWorker"}

\* The answer a handler is about to give is the recorded one, unless the
\* operation has no record.
ReplyIsRecorded ==
  \A h \in Handlers :
    phase[h] = "wrote" /\ reply[h].kind \in {"done", "task"}
    => \/ record[h[1]] = reply[h]
       \/ record[h[1]] = None /\ want[h[1]].op \in Unrecorded

\* Refusals are not recorded, and no handler that wrote answers with one.
NoRefusalKept ==
  /\ \A c \in Commands : record[c] # None => record[c].kind \in {"done", "task"}
  /\ \A h \in Handlers : phase[h] = "wrote" => reply[h].kind # "error"

RecordInv == MadeIsRecorded /\ ReplyIsRecorded /\ NoRefusalKept

\* What the store does with a request whose id it does not know.
RecordStep(c, q, r) ==
  /\ \A d \in Commands : d # c => record'[d] = record[d]
  /\ record'[c] # record[c] => record'[c] = r /\ r.kind \in {"done", "task"}
  /\ q.op \in Unrecorded => record' = record
  /\ r.kind \in {"done", "task"} /\ q.op \notin Unrecorded => record'[c] = r
  /\ \A t \in Tasks : treq'[t] # treq[t] => treq'[t] = c /\ r = Done(t) /\ record'[c] = r
  /\ \A m \in Messages : mreq'[m] # mreq[m] => mreq'[m] = c /\ r = Done(m) /\ record'[c] = r

LEMMA PerformRecords ==
  ASSUME RequestTypeOK, NEW c \in Commands, NEW q \in Requests, NEW r \in Replies,
         Perform(c, q, r)
  PROVE  RecordStep(c, q, r)
<1>1. /\ record \in [Commands -> Replies \cup {None}]
      /\ treq \in [Tasks -> Commands \cup {None}]
      /\ mreq \in [Messages -> Commands \cup {None}]
  BY DEF RequestTypeOK
<1>2. CASE AssignFor(c, q, r)
  <2>1. PICK t \in Tasks : r = Done(t) /\ treq' = [treq EXCEPT ![t] = c]
    BY <1>2 DEF AssignFor
  <2>2. r.kind = "done"
    BY <2>1 DEF Done
  <2>3. record' = [record EXCEPT ![c] = r] /\ UNCHANGED mreq /\ q.op \notin Unrecorded
    BY <1>2 DEF AssignFor, Remember, mailVars, Unrecorded
  <2> QED BY <1>1, <2>1, <2>2, <2>3 DEF RecordStep
<1>3. CASE MessageFor(c, q, r)
  BY <1>1, <1>3 DEF MessageFor, SendMessage, Remember, RecordStep, Unrecorded, Done
<1>4. CASE AckFor(q, r) \/ StopFor(q, r)
  <2>1. q.op \in Unrecorded /\ UNCHANGED <<record, treq, mreq>>
    BY <1>4 DEF AckFor, Ack, StopFor, mailVars, Unrecorded
  <2> QED BY <2>1 DEF RecordStep
<1>5. CASE FinishFor(c, q, r)
  BY <1>1, <1>5 DEF FinishFor, Remember, mailVars, RecordStep, Unrecorded, Done, Plain
<1>6. CASE NextFor(c, q, r)
  <2>1. UNCHANGED <<treq, mreq>> /\ q.op \notin Unrecorded
    BY <1>6 DEF NextFor, mailVars, Unrecorded
  <2>2. \/ r \in {Plain("stopped"), Inbox(q.by)} /\ UNCHANGED record
        \/ r.kind = "task" /\ record' = [record EXCEPT ![c] = r]
    BY <1>6 DEF NextFor, Remember, Task
  <2>3. r \in {Plain("stopped"), Inbox(q.by)} => r.kind \notin {"done", "task"}
    BY DEF Plain, Inbox, Nothing, Mail
  <2> QED BY <1>1, <2>1, <2>2, <2>3 DEF RecordStep
<1> QED BY <1>2, <1>3, <1>4, <1>5, <1>6 DEF Perform

LEMMA WriteRecords ==
  ASSUME RequestTypeOK, RecordInv, NEW h \in Handlers, Write(h)
  PROVE  RecordInv'
<1> DEFINE c == h[1]
           q == want[c]
<1>1. c \in Commands /\ q \in Requests /\ CallTypes /\ phase[h] = "unknown" /\ record[c] = None
  BY TypeParts DEF Write, Unknown, CallTypes, Handlers, RequestTypeOK
<1>2. PICK r \in Answers(q) :
        /\ Perform(c, q, r)
        /\ \/ Enter(h, "wrote") /\ reply' = [reply EXCEPT ![h] = r] /\ UNCHANGED clientVars
           \/ AnswerOrGoOn(h, r) /\ UNCHANGED reply
  BY DEF Write
<1>3. r \in Replies
  BY <1>1, AnswersAreReplies
<1>4. RecordStep(c, q, r) /\ UNCHANGED want
  BY <1>1, <1>2, <1>3, PerformRecords DEF AnswerOrGoOn, Answer, clientVars
<1>5. MadeIsRecorded'
  <2>1. \A t \in Tasks : Done(t) # None
    BY ReplyFacts, NoneAssumption
  <2>2. \A m \in Messages : Done(m) # None
    BY ReplyFacts, NoneAssumption
  <2> QED BY <1>1, <1>4, <2>1, <2>2 DEF MadeIsRecorded, RecordInv, RecordStep
<1>6. \A g \in Handlers : phase'[g] = "wrote" =>
        \/ g # h /\ phase[g] = "wrote" /\ reply'[g] = reply[g]
        \/ g = h /\ reply'[g] = r
  <2>1. CASE Enter(h, "wrote") /\ reply' = [reply EXCEPT ![h] = r] /\ UNCHANGED clientVars
    BY <2>1 DEF Enter, RequestTypeOK
  <2>2. CASE AnswerOrGoOn(h, r) /\ UNCHANGED reply
    BY <1>1, <1>3, <2>2, GoOnType
  <2> QED BY <1>2, <2>1, <2>2
<1>7. ASSUME NEW g \in Handlers, phase'[g] = "wrote", reply'[g].kind \in {"done", "task"}
      PROVE  \/ record'[g[1]] = reply'[g]
             \/ record'[g[1]] = None /\ want'[g[1]].op \in Unrecorded
  <2>1. g[1] \in Commands
    BY DEF Handlers
  <2>2. CASE g = h /\ reply'[g] = r
    BY <1>1, <1>4, <1>7, <2>2 DEF RecordStep
  <2>3. CASE g # h /\ phase[g] = "wrote" /\ reply'[g] = reply[g] /\ g[1] # c
    BY <1>4, <1>7, <2>1, <2>3 DEF RecordStep, RecordInv, ReplyIsRecorded
  <2>4. CASE g # h /\ phase[g] = "wrote" /\ reply'[g] = reply[g] /\ g[1] = c
    <3>1. reply[g] # None
      BY <2>4 DEF RequestTypeOK
    <3>2. record[c] = None /\ q.op \in Unrecorded
      BY <1>1, <1>7, <2>4, <3>1 DEF RecordInv, ReplyIsRecorded
    <3> QED BY <1>4, <2>4, <3>2 DEF RecordStep
  <2> QED BY <1>6, <1>7, <2>2, <2>3, <2>4
<1>8. NoRefusalKept'
  <2>1. r.kind # "error"
    BY DEF Answers, Plain, Inbox, Nothing, Mail, Done, Task
  <2> QED BY <1>4, <1>6, <2>1 DEF RecordInv, NoRefusalKept, RecordStep
<1> QED BY <1>5, <1>7, <1>8 DEF RecordInv, ReplyIsRecorded

\* A step that brings up no new answer and leaves the records alone.
LEMMA QuietRecords ==
  ASSUME RecordInv, UNCHANGED <<record, treq, mreq>>,
         \A h \in Handlers : phase'[h] = "wrote" =>
           phase[h] = "wrote" /\ reply'[h] = reply[h] /\ want'[h[1]] = want[h[1]]
  PROVE  RecordInv'
<1>1. MadeIsRecorded'
  BY DEF RecordInv, MadeIsRecorded
<1>2. ReplyIsRecorded'
  BY DEF RecordInv, ReplyIsRecorded
<1>3. NoRefusalKept'
  BY DEF RecordInv, NoRefusalKept
<1> QED BY <1>1, <1>2, <1>3 DEF RecordInv

LEMMA NoneWroteByAnswer ==
  ASSUME RequestTypeOK, NEW h \in Handlers, phase[h] # "none",
         \/ \E r : Answer(h, r) \/ AnswerOrGoOn(h, r)
         \/ \E ph \in Phase \ {"wrote"} : Enter(h, ph) /\ UNCHANGED clientVars
  PROVE  UNCHANGED want /\ \A g \in Handlers : phase'[g] = "wrote" => phase[g] = "wrote" /\ g # h
BY DEF RequestTypeOK, Answer, AnswerOrGoOn, Enter, clientVars

LEMMA HandlerRecords ==
  ASSUME RequestTypeOK, RecordInv, NEW h \in Handlers, HandlerStep(h)
  PROVE  RecordInv'
<1>1. CASE LookUp(h) \/ Replay(h) \/ Refuse(h) \/ Bump(h) \/ Sleep(h) \/ Wake(h)
           \/ Deadline(h) \/ WaitEnded(h) \/ Drop(h)
  <2>1. phase[h] # "none" /\ UNCHANGED <<record, treq, mreq>>
    BY <1>1 DEF LookUp, Replay, Refuse, Bump, Sleep, Wake, Deadline, WaitEnded, Drop,
       storeVars, mailVars
  <2>2. \/ \E r : Answer(h, r) \/ AnswerOrGoOn(h, r)
        \/ \E ph \in Phase \ {"wrote"} : Enter(h, ph) /\ UNCHANGED clientVars
    BY <1>1 DEF LookUp, Replay, Refuse, Bump, Sleep, Wake, Deadline, WaitEnded, Drop, Phase
  <2>3. \A g \in Handlers : g # h => reply'[g] = reply[g]
    BY <1>1 DEF LookUp, Replay, Refuse, Bump, Sleep, Wake, Deadline, WaitEnded, Drop, RequestTypeOK
  <2> QED BY <2>1, <2>2, <2>3, NoneWroteByAnswer, QuietRecords
<1> QED BY <1>1, WriteRecords DEF HandlerStep

LEMMA RequestsNextRecords ==
  ASSUME RequestTypeOK, RecordInv, [RequestsNext]_requestVars
  PROVE  RecordInv'
<1>1. ASSUME NEW c \in Commands, ClientStep(c)
      PROVE  RecordInv'
  <2>1. UNCHANGED <<record, treq, mreq, reply>>
    BY <1>1 DEF ClientStep, Issue, Retry, storeVars, mailVars
  <2>2. \A h \in Handlers : phase'[h] = "wrote" => phase[h] = "wrote"
    BY <1>1 DEF ClientStep, Issue, Retry, Enter, RequestTypeOK
  <2>3. \A h \in Handlers : want[h[1]] # None => want'[h[1]] = want[h[1]]
    BY <1>1 DEF ClientStep, Issue, Retry, RequestTypeOK, Handlers
  <2>4. \A h \in Handlers : phase[h] = "wrote" => want[h[1]] # None
    BY DEF RequestTypeOK
  <2> QED BY <2>1, <2>2, <2>3, <2>4, QuietRecords
<1>2. CASE Elsewhere \/ BumpElsewhere \/ UNCHANGED requestVars
  <2>1. UNCHANGED <<record, treq, mreq, reply, phase, want>>
    BY <1>2 DEF Elsewhere, BumpElsewhere, requestVars, storeVars, mailVars, clientVars, handlerVars
  <2> QED BY <2>1, QuietRecords
<1>3. CASE Restart
  <2>1. UNCHANGED <<record, treq, mreq>> /\ \A h \in Handlers : phase'[h] = "none"
    BY <1>3 DEF Restart, mailVars
  <2> QED BY <2>1, QuietRecords
<1> QED BY <1>1, <1>2, <1>3, HandlerRecords DEF RequestsNext

LEMMA RequestsInitRecords == RequestsInit => RecordInv
  BY RequestsAssumption DEF RequestsInit, RecordInv, MadeIsRecorded, ReplyIsRecorded, NoRefusalKept

\* The inductive invariant of the request records.
THEOREM RecordsInvariant == RequestsSpec => []RecordInv
  BY RequestsTypeCorrect, RequestsInitRecords, RequestsNextRecords, PTL DEF RequestsSpec

\* However many posts of a command arrive and overlap, it makes one assignment
\* or message at most.
THEOREM AppliedOnce == RequestsSpec => []RequestAppliedOnce
<1>1. MadeIsRecorded => RequestAppliedOnce
  <2> SUFFICES ASSUME MadeIsRecorded, NEW c \in Commands, NEW x \in Made(c), NEW y \in Made(c)
               PROVE  x = y
    BY DEF RequestAppliedOnce
  <2>1. Done(x) = Done(y)
    BY DEF MadeIsRecorded, Made
  <2> QED BY <2>1 DEF Done
<1> QED BY <1>1, RecordsInvariant, PTL DEF RecordInv

LEMMA AnswersReplay ==
  ASSUME RequestTypeOK, RecordInv, [RequestsNext]_requestVars,
         NEW c \in Commands, record[c] # None, got'[c] # got[c]
  PROVE  /\ got'[c].kind \in {"done", "task"} => got'[c] = record[c]
         /\ got'[c].kind = "error" => ~Live(want[c].by)
<1>1. PICK h \in Handlers : HandlerStep(h)
  BY DEF RequestsNext, ClientStep, Issue, Retry, Elsewhere, BumpElsewhere, Restart,
     requestVars, clientVars
<1>2. ASSUME NEW r, Answer(h, r)
      PROVE  h[1] = c /\ got'[c] = r
  BY <1>2 DEF Answer, RequestTypeOK
<1>3. record[c].kind \in {"done", "task"}
  BY DEF RecordInv, NoRefusalKept
<1>4. CASE LookUp(h)
  <2>1. PICK r : Answer(h, r) /\ \/ ~Live(want[h[1]].by) /\ r = Plain("error")
                                 \/ r = record[h[1]]
    BY <1>4 DEF LookUp, Resolves, clientVars
  <2> QED BY <1>2, <1>3, <2>1 DEF Plain
<1>5. CASE Write(h) \/ Refuse(h)
  <2>1. record[h[1]] = None
    BY <1>5 DEF Write, Unknown, Refuse
  <2>2. h[1] = c
    BY <1>2, <1>5 DEF Write, Refuse, AnswerOrGoOn, clientVars
  <2> QED BY <2>1, <2>2
<1>6. CASE Replay(h)
  BY <1>2, <1>3, <1>6 DEF Replay
<1>7. CASE Bump(h)
  <2>1. Answer(h, reply[h]) /\ phase[h] = "wrote"
    BY <1>7 DEF Bump, AnswerOrGoOn, clientVars
  <2> QED BY <1>2, <2>1 DEF RecordInv, ReplyIsRecorded, NoRefusalKept
<1>8. CASE WaitEnded(h)
  BY <1>2, <1>8 DEF WaitEnded, Nothing, Plain
<1>9. CASE Sleep(h) \/ Wake(h) \/ Deadline(h) \/ Drop(h)
  BY <1>9 DEF Sleep, Wake, Deadline, Drop, clientVars
<1> QED BY <1>1, <1>4, <1>5, <1>6, <1>7, <1>8, <1>9 DEF HandlerStep

\* A later post is answered with what an earlier one did, and with an error
\* only when its caller is gone.
THEOREM RetriesReplay == RequestsSpec => RetryReplays
<1>1. RequestTypeOK /\ RecordInv /\ [RequestsNext]_requestVars =>
        [\A c \in Commands :
           record[c] # None /\ got'[c] # got[c]
           => /\ got'[c].kind \in {"done", "task"} => got'[c] = record[c]
              /\ got'[c].kind = "error" => ~Live(want[c].by)]_requestVars
  BY AnswersReplay
<1> QED BY <1>1, RequestsTypeCorrect, RecordsInvariant, PTL DEF RequestsSpec, RetryReplays

-----------------------------------------------------------------------------
(* The blocked `next'.                                                     *)


\* Only `next' waits, and every handler serves a post of its command.
WaitsForWork ==
  /\ \A h \in Handlers :
       /\ phase[h] \in {"empty", "asleep", "ended"} => want[h[1]].op = "next"
       /\ phase[h] = "wrote" /\ reply[h] = Nothing => want[h[1]].op = "next"
  /\ \A h \in Handlers : phase[h] # "none" => h[2] <= attempt[h[1]]

\* NoLostWakeup, of the handlers about to sleep as well.
WakeInv ==
  \A h \in Handlers :
    phase[h] \in {"empty", "asleep"} /\ HasAnswer(h)
    => h \in changed \/ unsent \/ \E g \in Handlers : phase[g] = "wrote"

LEMMA OnlyNextFindsNothing ==
  ASSUME NEW c, NEW q, Perform(c, q, Nothing)
  PROVE  NextFor(c, q, Nothing) /\ q.op = "next"
BY DEF Perform, AssignFor, MessageFor, AckFor, FinishFor, StopFor, NextFor, Nothing, Plain, Done

\* A `next' that finds nothing leaves nothing to be found.
LEMMA NothingLeft ==
  ASSUME TypeOK, NEW c, NEW q \in Requests, NextFor(c, q, Nothing)
  PROVE  /\ ~Stopped(q.by) /\ Unread(q.by) = {}
         /\ ~(IF Busy(q.by) THEN q.arg # cur[q.by] ELSE Queued(q.by) # {})
<1>1. q.by \in Workers
  BY RequestFields DEF NextFor
<1>2. Inbox(q.by) = Nothing => Unread(q.by) = {}
  BY DEF Inbox, Mail, Nothing, Plain
<1>3. Nothing # Plain("stopped") /\ \A t : Nothing # Task(t)
  BY DEF Nothing, Plain, Task
<1>4. CASE ~Stopped(q.by) /\ Busy(q.by)
  <2>1. ~ClaimNext(q.by, Unread(q.by) # {})
    BY <1>4 DEF ClaimNext
  <2> QED BY <1>2, <1>3, <1>4, <2>1 DEF NextFor
<1>5. CASE ClaimNext(q.by, Unread(q.by) # {})
  <2>1. ~Stopped(q.by) /\ ~Busy(q.by)
    BY <1>5 DEF ClaimNext, Stopped
  <2>2. FirstQueued(q.by) = {} /\ Inbox(q.by) = Nothing
    BY <1>3, <2>1 DEF NextFor
  <2> QED BY <1>1, <1>2, <2>1, <2>2, SomeFirstQueued
<1> QED BY <1>3, <1>4, <1>5 DEF NextFor

LEMMA SameAnswer ==
  ASSUME NEW h, UNCHANGED storeVars, want'[h[1]] = want[h[1]]
  PROVE  HasAnswer(h)' <=> HasAnswer(h)
BY DEF HasAnswer, storeVars, vars, mailVars, Stopped, Live, Unread, Busy, Open, Queued, TasksOf

\* A step after which the waiting handlers wait as before.
LEMMA QuietWake ==
  ASSUME WakeInv, unsent' = unsent,
         \A g \in Handlers : phase'[g] \in {"empty", "asleep"} =>
           /\ phase[g] \in {"empty", "asleep"}
           /\ HasAnswer(g)' => HasAnswer(g)
           /\ g \in changed => g \in changed',
         \A g \in Handlers : phase[g] = "wrote" => phase'[g] = "wrote"
  PROVE  WakeInv'
BY DEF WakeInv

\* What a step of one handler leaves of the others.
LEMMA OthersKept ==
  ASSUME RequestTypeOK, NEW h \in Handlers, HandlerStep(h)
  PROVE  /\ \A g \in Handlers : g # h => phase'[g] = phase[g] /\ reply'[g] = reply[g]
         /\ UNCHANGED <<want, attempt, unsent>>
<1>1. ASSUME NEW r, Answer(h, r) \/ AnswerOrGoOn(h, r)
      PROVE  UNCHANGED <<want, attempt>> /\ \A g \in Handlers : g # h => phase'[g] = phase[g]
  BY <1>1 DEF Answer, AnswerOrGoOn, Enter, clientVars, RequestTypeOK
<1>2. ASSUME NEW ph, Enter(h, ph), UNCHANGED clientVars
      PROVE  UNCHANGED <<want, attempt>> /\ \A g \in Handlers : g # h => phase'[g] = phase[g]
  BY <1>2 DEF Enter, clientVars, RequestTypeOK
<1>3. CASE Write(h)
  BY <1>1, <1>2, <1>3 DEF Write, RequestTypeOK
<1>4. CASE LookUp(h) \/ Replay(h) \/ Refuse(h) \/ Bump(h) \/ Sleep(h) \/ Wake(h)
           \/ Deadline(h) \/ WaitEnded(h) \/ Drop(h)
  <2>1. \/ \E r : Answer(h, r) \/ AnswerOrGoOn(h, r)
        \/ \E ph : Enter(h, ph) /\ UNCHANGED clientVars
    BY <1>4 DEF LookUp, Replay, Refuse, Bump, Sleep, Wake, Deadline, WaitEnded, Drop
  <2>2. unsent' = unsent /\ \A g \in Handlers : g # h => reply'[g] = reply[g]
    BY <1>4 DEF LookUp, Replay, Refuse, Bump, Sleep, Wake, Deadline, WaitEnded, Drop, RequestTypeOK
  <2> QED BY <1>1, <1>2, <2>1, <2>2
<1> QED BY <1>3, <1>4 DEF HandlerStep


\* Where one step of a handler can bring it.
LEMMA HandlerMoves ==
  ASSUME RequestTypeOK, WaitsForWork, NEW h \in Handlers, HandlerStep(h)
  PROVE  /\ phase[h] # "none"
         /\ phase'[h] \in {"empty", "asleep", "ended"} => want[h[1]].op = "next"
         /\ phase'[h] = "wrote" /\ reply'[h] = Nothing => want[h[1]].op = "next"
<1>1. CASE Write(h)
  <2>1. PICK r \in Answers(want[h[1]]) :
          /\ Perform(h[1], want[h[1]], r)
          /\ \/ Enter(h, "wrote") /\ reply' = [reply EXCEPT ![h] = r]
             \/ AnswerOrGoOn(h, r)
    BY <1>1 DEF Write
  <2>2. r = Nothing => want[h[1]].op = "next"
    BY <2>1, OnlyNextFindsNothing
  <2>3. phase[h] = "unknown"
    BY <1>1 DEF Write
  <2> QED BY <2>1, <2>2, <2>3 DEF AnswerOrGoOn, Answer, Enter, RequestTypeOK
<1>2. CASE LookUp(h) \/ Replay(h) \/ Refuse(h)
  BY <1>2 DEF LookUp, Replay, Refuse, Answer, Enter, RequestTypeOK
<1>3. CASE Bump(h)
  BY <1>3 DEF Bump, AnswerOrGoOn, Answer, Enter, RequestTypeOK, WaitsForWork
<1>4. CASE Sleep(h)
  BY <1>4 DEF Sleep, Enter, RequestTypeOK, WaitsForWork
<1>5. CASE Wake(h) \/ Deadline(h) \/ WaitEnded(h) \/ Drop(h)
  BY <1>5 DEF Wake, Deadline, WaitEnded, Drop, Answer, Enter, RequestTypeOK
<1> QED BY <1>1, <1>2, <1>3, <1>4, <1>5 DEF HandlerStep

LEMMA RequestsNextWaits ==
  ASSUME RequestTypeOK, WaitsForWork, [RequestsNext]_requestVars
  PROVE  WaitsForWork'
<1>1. ASSUME NEW h \in Handlers, HandlerStep(h)
      PROVE  WaitsForWork'
  BY <1>1, HandlerMoves, OthersKept DEF WaitsForWork
<1>2. ASSUME NEW c \in Commands, Issue(c)
      PROVE  WaitsForWork'
  <2>1. \A h \in Handlers : h[1] = c => phase[h] = "none"
    BY <1>2 DEF Issue, RequestTypeOK
  <2>2. /\ phase' = [phase EXCEPT ![<<c, 1>>] = "sent"]
        /\ attempt' = [attempt EXCEPT ![c] = 1]
        /\ \A d \in Commands : d # c => want'[d] = want[d]
        /\ reply' = reply
    BY <1>2 DEF Issue, Enter, RequestTypeOK
  <2>3. \A h \in Handlers : phase'[h] # "none" =>
          \/ h = <<c, 1>> /\ phase'[h] = "sent"
          \/ h[1] # c /\ phase'[h] = phase[h]
    BY <2>1, <2>2 DEF RequestTypeOK
  <2>4. attempt'[c] = 1 /\ \A d \in Commands : d # c => attempt'[d] = attempt[d]
    BY <2>2 DEF RequestTypeOK
  <2> QED BY <2>2, <2>3, <2>4 DEF WaitsForWork, Handlers
<1>3. ASSUME NEW c \in Commands, Retry(c)
      PROVE  WaitsForWork'
  <2>1. /\ phase' = [phase EXCEPT ![<<c, attempt[c] + 1>>] = "sent"]
        /\ attempt' = [attempt EXCEPT ![c] = attempt[c] + 1]
        /\ UNCHANGED <<want, reply>> /\ attempt[c] \in Nat
    BY <1>3, RequestsAssumption DEF Retry, Enter, RequestTypeOK
  <2>2. \A h \in Handlers : phase'[h] # "none" =>
          \/ h = <<c, attempt[c] + 1>> /\ phase'[h] = "sent"
          \/ phase'[h] = phase[h]
    BY <2>1 DEF RequestTypeOK
  <2>3. attempt'[c] = attempt[c] + 1 /\ \A d \in Commands : d # c => attempt'[d] = attempt[d]
    BY <2>1 DEF RequestTypeOK
  <2>4. \A h \in Handlers : h[1] \in Commands /\ h[2] \in Nat
    BY RequestsAssumption DEF Handlers
  <2> QED BY <2>1, <2>2, <2>3, <2>4 DEF WaitsForWork
<1>4. CASE Elsewhere \/ BumpElsewhere \/ UNCHANGED requestVars
  <2>1. UNCHANGED <<phase, reply, want, attempt>>
    BY <1>4 DEF Elsewhere, BumpElsewhere, requestVars, clientVars, handlerVars
  <2> QED BY <2>1 DEF WaitsForWork
<1>5. CASE Restart
  BY <1>5 DEF Restart, WaitsForWork
<1> QED BY <1>1, <1>2, <1>3, <1>4, <1>5 DEF RequestsNext, ClientStep

LEMMA WriteWakes ==
  ASSUME RequestTypeOK, WaitsForWork, WakeInv, NEW h \in Handlers, Write(h)
  PROVE  WakeInv'
<1> DEFINE q == want[h[1]]
<1>1. PICK r \in Answers(q) :
        /\ Perform(h[1], q, r)
        /\ \/ Enter(h, "wrote")
           \/ ~Changed /\ AnswerOrGoOn(h, r)
  BY DEF Write
<1>2. /\ phase[h] = "unknown" /\ record[h[1]] = None /\ q \in Requests
      /\ unsent' = unsent /\ changed' = changed \cap Asking'
  BY DEF Write, Unknown, KeepMarks, RequestTypeOK, Handlers
<1>3. \A g \in Handlers : g # h => phase'[g] = phase[g]
  BY OthersKept DEF HandlerStep
<1>4. UNCHANGED want
  BY OthersKept DEF HandlerStep
<1>5. CASE Enter(h, "wrote")
  <2>1. phase'[h] = "wrote"
    BY <1>5 DEF Enter, RequestTypeOK
  <2> QED BY <2>1 DEF WakeInv
<1>6. CASE ~Changed /\ AnswerOrGoOn(h, r)
  <2>1. UNCHANGED storeVars
    BY <1>6 DEF Changed
  <2>2. \A g \in Handlers : HasAnswer(g)' <=> HasAnswer(g)
    BY <1>4, <2>1, SameAnswer
  <2>3. ASSUME NEW g \in Handlers, g # h, phase'[g] \in {"empty", "asleep"}, HasAnswer(g)'
        PROVE  g \in changed' \/ unsent' \/ \E k \in Handlers : phase'[k] = "wrote"
    <3>1. g \in changed \/ unsent \/ \E k \in Handlers : phase[k] = "wrote"
      BY <1>3, <2>2, <2>3 DEF WakeInv
    <3>2. g \in Asking'
      BY <2>3 DEF Asking
    <3>3. \A k \in Handlers : phase[k] = "wrote" => phase'[k] = "wrote"
      BY <1>2, <1>3
    <3> QED BY <1>2, <3>1, <3>2, <3>3
  <2>4. phase'[h] \in {"empty", "asleep"} => ~HasAnswer(h)
    <3>1. phase'[h] \in {"empty", "asleep"} => r = Nothing
      BY <1>6 DEF AnswerOrGoOn, Answer, Enter, RequestTypeOK
    <3>2. r = Nothing => NextFor(h[1], q, Nothing)
      BY <1>1, OnlyNextFindsNothing
    <3> QED BY <1>2, <3>1, <3>2, NothingLeft DEF HasAnswer, RequestTypeOK
  <2> QED BY <2>2, <2>3, <2>4 DEF WakeInv
<1> QED BY <1>1, <1>5, <1>6

\* The end of a wait frees its worker, and no other waiter cares.
LEMMA WaitEndedWakes ==
  ASSUME RequestTypeOK, WaitsForWork, WakeInv, NEW h \in Handlers, WaitEnded(h)
  PROVE  WakeInv'
<1>1. /\ UNCHANGED <<proc, cur, tstate, twork, mto, acked, record, changed>>
      /\ \A w \in Workers : avail'[w] = "stopped" <=> avail[w] = "stopped"
  BY DEF WaitEnded, MarkWorkerIdle, vars, runVars, taskVars, idVars, mailVars, RequestTypeOK, TypeOK
<1>2. /\ UNCHANGED <<want, unsent>>
      /\ \A g \in Handlers : g # h => phase'[g] = phase[g]
      /\ phase'[h] = "none" /\ phase[h] = "ended"
  BY OthersKept DEF HandlerStep, WaitEnded, Answer, Enter, RequestTypeOK
<1>3. ASSUME NEW g \in Handlers, phase'[g] \in {"empty", "asleep"}
      PROVE  phase[g] \in {"empty", "asleep"} /\ (HasAnswer(g)' => HasAnswer(g))
  <2>1. phase[g] \in {"empty", "asleep"}
    BY <1>2, <1>3
  <2>2. want[g[1]] \in Requests
    BY <2>1 DEF RequestTypeOK, Handlers
  <2>3. want[g[1]].by \in Workers
    BY <2>1, <2>2, RequestFields DEF WaitsForWork
  <2> QED BY <1>1, <1>2, <2>1, <2>3
          DEF HasAnswer, Stopped, Live, Unread, Busy, Open, Queued, TasksOf
<1> QED BY <1>1, <1>2, <1>3, QuietWake

LEMMA HandlerWakes ==
  ASSUME RequestTypeOK, WaitsForWork, WakeInv, NEW h \in Handlers, HandlerStep(h)
  PROVE  WakeInv'
<1>1. /\ \A g \in Handlers : g # h => phase'[g] = phase[g]
      /\ UNCHANGED <<want, unsent>>
  BY OthersKept
<1>2. CASE LookUp(h) \/ Replay(h) \/ Refuse(h) \/ Sleep(h) \/ Wake(h) \/ Deadline(h) \/ Drop(h)
  <2>1. UNCHANGED storeVars
    BY <1>2 DEF LookUp, Replay, Refuse, Sleep, Wake, Deadline, Drop
  <2>2. /\ phase[h] # "wrote"
        /\ phase'[h] \in {"empty", "asleep"} => phase[h] = "empty" /\ h \in Asking'
    BY <1>2 DEF LookUp, Replay, Refuse, Sleep, Wake, Deadline, Drop, Answer, Enter, Asking,
       RequestTypeOK
  <2>3. changed' = changed \cap Asking' \/ (changed' = changed \ {h} /\ LookUp(h))
    BY <1>2 DEF LookUp, Replay, Refuse, Sleep, Wake, Deadline, Drop, KeepMarks
  <2>4. LookUp(h) => phase[h] = "sent"
    BY DEF LookUp
  <2>5. \A g \in Handlers : HasAnswer(g)' <=> HasAnswer(g)
    BY <1>1, <2>1, SameAnswer
  <2>6. \A g \in Handlers : g # h /\ phase'[g] \in {"empty", "asleep"} => g \in Asking'
    BY DEF Asking
  <2> QED BY <1>1, <2>2, <2>3, <2>4, <2>5, <2>6, QuietWake
<1>3. CASE Bump(h)
  <2>1. changed' = Asking'
    BY <1>3 DEF Bump
  <2> QED BY <2>1 DEF Asking, WakeInv
<1> QED BY <1>2, <1>3, WriteWakes, WaitEndedWakes DEF HandlerStep

LEMMA RequestsNextWakes ==
  ASSUME RequestTypeOK, WaitsForWork, WakeInv, [RequestsNext]_requestVars
  PROVE  WakeInv'
<1>1. ASSUME NEW c \in Commands, Issue(c) \/ Retry(c)
      PROVE  WakeInv'
  <2>1. UNCHANGED <<storeVars, changed, unsent>>
    BY <1>1 DEF Issue, Retry
  <2>2. \E n \in Nat : /\ phase' = [phase EXCEPT ![<<c, n>>] = "sent"]
                       /\ <<c, n>> \in Handlers => phase[<<c, n>>] = "none"
    <3>1. CASE Issue(c)
      <4>1. \A h \in Handlers : h[1] = c => phase[h] = "none"
        BY <3>1 DEF Issue, RequestTypeOK
      <4> QED BY <3>1, <4>1 DEF Issue, Enter
    <3>2. CASE Retry(c)
      <4>1. attempt[c] \in Nat
        BY RequestsAssumption DEF RequestTypeOK
      <4>2. ASSUME <<c, attempt[c] + 1>> \in Handlers
            PROVE  phase[<<c, attempt[c] + 1>>] = "none"
        <5> DEFINE h == <<c, attempt[c] + 1>>
        <5>1. h \in Handlers /\ h[1] = c /\ h[2] = attempt[c] + 1
          BY <4>2
        <5>2. ~(h[2] <= attempt[h[1]])
          BY <4>1, <5>1
        <5> HIDE DEF h
        <5>3. phase[h] = "none"
          BY <5>1, <5>2 DEF WaitsForWork
        <5> QED BY <5>3 DEF h
      <4>3. phase' = [phase EXCEPT ![<<c, attempt[c] + 1>>] = "sent"]
        BY <3>2 DEF Retry, Enter
      <4>4. attempt[c] + 1 \in Nat
        BY <4>1
      <4> QED BY <4>2, <4>3, <4>4
    <3> QED BY <1>1, <3>1, <3>2
  <2>3. \A g \in Handlers : phase'[g] \in {"empty", "asleep"} => phase[g] = phase'[g]
    BY <2>2 DEF RequestTypeOK
  <2>4. \A g \in Handlers : phase[g] = "wrote" => phase'[g] = "wrote"
    BY <2>2 DEF RequestTypeOK
  <2>5. \A g \in Handlers : want[g[1]] # None => want'[g[1]] = want[g[1]]
    BY <1>1 DEF Issue, Retry, RequestTypeOK, Handlers
  <2>6. \A g \in Handlers : phase[g] # "none" => want[g[1]] # None
    BY DEF RequestTypeOK
  <2>7. \A g \in Handlers : phase'[g] \in {"empty", "asleep"} => (HasAnswer(g)' => HasAnswer(g))
    BY <2>1, <2>3, <2>5, <2>6, SameAnswer
  <2> QED BY <2>1, <2>3, <2>4, <2>7, QuietWake
<1>2. CASE Elsewhere
  BY <1>2 DEF Elsewhere, WakeInv
<1>3. CASE BumpElsewhere
  BY <1>3 DEF BumpElsewhere, WakeInv, Asking
<1>4. CASE Restart
  BY <1>4 DEF Restart, WakeInv
<1>5. CASE UNCHANGED requestVars
  <2>1. UNCHANGED <<storeVars, want, phase, changed, unsent>>
    BY <1>5 DEF requestVars, clientVars, handlerVars
  <2>2. \A g \in Handlers : HasAnswer(g)' <=> HasAnswer(g)
    BY <2>1, SameAnswer
  <2> QED BY <2>1, <2>2, QuietWake
<1> QED BY <1>1, <1>2, <1>3, <1>4, <1>5, HandlerWakes DEF RequestsNext, ClientStep

LEMMA RequestsInitWakes == RequestsInit => WaitsForWork /\ WakeInv
  BY DEF RequestsInit, WaitsForWork, WakeInv

\* No sleeping `next' misses the change that concerns it.
THEOREM WakeupsReach == RequestsSpec => []NoLostWakeup
<1>1. WakeInv => NoLostWakeup
  BY DEF WakeInv, NoLostWakeup
<1> QED BY <1>1, RequestsTypeCorrect, RequestsInitWakes, RequestsNextWaits, RequestsNextWakes,
           PTL DEF RequestsSpec

=============================================================================
