----------------------------- MODULE RemoteClient -----------------------------
(***************************************************************************)
(* The client's end of a remote connection, composed with the server's     *)
(* (crates/notmux-core/src/client: connection.rs, state.rs;                *)
(* crates/notmux-remote-client/src: connection.rs, manager.rs, backend.rs). *)
(* The task of a connection dials, fetches the state, subscribes to its    *)
(* terminals and then follows the stream: one step reads a message, one    *)
(* receives an answer; a second task writes what the views queued.         *)
(*                                                                         *)
(* A screen is the number of the newest chunk it shows.  Abstracted: the   *)
(* health check and the validation of the token before the first dial, the *)
(* refresh of the token, back-off times, projects and layouts, the copies  *)
(* of the stream ids that the manager keeps and nobody reads; what the     *)
(* writer of a connection the user replaced still sends from its queue.    *)
(***************************************************************************)
EXTENDS StreamServer

CONSTANTS
  QueueSize,    \* messages the views may queue (256)
  UpSize,       \* messages under way to the server
  MaxAttempts,  \* reconnections of a task (10)
  Budgets       \* bound: what the surroundings may do, by scenario

ASSUME ClientAssumption ==
  /\ QueueSize \in Nat \ {0} /\ UpSize \in Nat \ {0} /\ MaxAttempts \in Nat
  /\ Budgets \subseteq [changes : Nat, chunks : Nat, texts : Nat, breaks : Nat]

VARIABLES
  phase,     \* the task: "dialing", "fetching", "open"; "pairing" or "off" without
  attempt,   \* reconnect_attempt
  request,   \* of the state: "none", "asked" or "answered"
  answer,    \* the terminals of the answer
  cached,    \* the terminals of cached_state
  reg,       \* terminals in the registry
  wired,     \* those whose input goes to the queue of this task
  queue,     \* ws_rx: what the views and the reader want written
  streams,   \* stream_map: the id of a terminal, 0 without
  names,     \* reverse_stream_map: pairs of an id and a terminal
  screen,    \* the newest chunk a terminal of the registry shows
  missed,    \* history: a change that no message will tell of
  deaf,      \* history: terminals whose subscription the full queue refused
  left       \* bound: what is left of the scenario's budget

clientVars == <<phase, attempt, request, answer, cached, reg, wired, queue, streams, names,
                screen, missed, deaf, left>>
vars       == <<serverVars, clientVars>>

NoStreams == [t \in Terms |-> 0]

Init ==
  /\ ServerInit
  /\ phase = "dialing" /\ attempt = 0 /\ request = "none" /\ answer = {} /\ cached = {}
  /\ reg = {} /\ wired = {} /\ queue = <<>> /\ names = {} /\ missed = FALSE /\ deaf = {}
  /\ streams = NoStreams /\ screen = [t \in Terms |-> 0]
  /\ left \in Budgets

Spend(what) == left[what] > 0 /\ left' = [left EXCEPT ![what] = @ - 1]

\* Faulty: a queue without a bound.
EnqueueAnyway(q, m) == Append(q, m)

Enqueue(q, m) == IF Len(q) < QueueSize THEN Append(q, m) ELSE q

-----------------------------------------------------------------------------
(* The instance and the views.                                             *)

Change ==
  /\ Spend("changes")
  /\ \E t \in Terms : ChangeTerminal(t, "unborn", "live") \/ ChangeTerminal(t, "live", "closed")
  /\ missed' = (missed \/ (news = "off" /\ (phase = "open" \/ request = "answered")))
  /\ UNCHANGED <<phase, attempt, request, answer, cached, reg, wired, queue, streams, names,
                 screen, deaf>>

Produce ==
  /\ Spend("chunks")
  /\ \E t \in Terms : Output(t)
  /\ UNCHANGED <<phase, attempt, request, answer, cached, reg, wired, queue, streams, names,
                 screen, missed, deaf>>

\* send_input: a view may hold a terminal that left the registry.
Type ==
  /\ Spend("texts")
  /\ \E t \in wired : queue' = Enqueue(queue, [kind |-> "text", term |-> t])
  /\ UNCHANGED <<serverVars, phase, attempt, request, answer, cached, reg, wired, streams,
                 names, screen, missed, deaf>>

Break ==
  /\ Spend("breaks")
  /\ Hangup
  /\ UNCHANGED <<phase, attempt, request, answer, cached, reg, wired, queue, streams, names,
                 screen, missed, deaf>>

-----------------------------------------------------------------------------
(* The task: a session.                                                    *)

\* The maps of a session are its own: they end with it.
Dial ==
  /\ phase = "dialing" /\ link = "down"
  /\ link' = "hello"
  /\ phase' = "fetching" /\ request' = "asked"
  /\ missed' = FALSE /\ deaf' = {}
  /\ UNCHANGED <<uiVars, news, bus, overrun, subs, nextId, busy, drawing, gap, replay, up, down,
                 attempt, answer, cached, reg, wired, queue, streams, names, screen, left>>

\* SessionError::Auth, from the dial or from the fetch.
Refused ==
  /\ phase \in {"dialing", "fetching"}
  /\ Spend("breaks")
  /\ phase' = "pairing" /\ request' = "none" /\ answer' = {}
  /\ IF link = "down" THEN UNCHANGED serverVars ELSE Hangup
  /\ UNCHANGED <<attempt, cached, reg, wired, queue, streams, names, screen, missed, deaf>>

\* SessionError::Transient: the next dial, or the end of the task.
Retry ==
  /\ request' = "none" /\ answer' = {}
  /\ streams' = NoStreams /\ names' = {}
  /\ IF attempt = MaxAttempts
     THEN phase' = "off" /\ UNCHANGED attempt
     ELSE phase' = "dialing" /\ attempt' = attempt + 1

DialFails ==
  /\ phase \in {"dialing", "fetching"}
  /\ Spend("breaks")
  /\ Retry
  /\ IF link = "down" THEN UNCHANGED serverVars ELSE Hangup
  /\ UNCHANGED <<cached, reg, wired, queue, screen, missed, deaf>>

\* The writer is aborted, with a message in its hand or not.
SessionLost ==
  /\ link = "down" /\ phase = "open" /\ request # "answered"
  /\ Retry
  /\ \/ UNCHANGED queue
     \/ queue # <<>> /\ queue' = Tail(queue)
  /\ UNCHANGED <<serverVars, cached, reg, wired, screen, missed, deaf, left>>

\* GetState, on the server's UI thread.
Answer ==
  /\ request = "asked"
  /\ request' = "answered" /\ answer' = Live
  /\ UNCHANGED <<serverVars, phase, attempt, cached, reg, wired, queue, streams, names,
                 screen, missed, deaf, left>>

NewScreens(terms) == [t \in Terms |-> IF t \in terms \ reg THEN 0 ELSE screen[t]]

\* remove_terminals_except, create_terminal (which keeps an old one), subscribe.
FirstState ==
  /\ phase = "fetching" /\ request = "answered"
  /\ reg' = answer
  /\ wired' = wired \cup (answer \ reg)
  /\ screen' = NewScreens(answer)
  /\ cached' = answer
  /\ phase' = "open" /\ request' = "none" /\ answer' = {}
  /\ up' = IF answer = {} \/ link = "down" THEN up
           ELSE Append(up, [kind |-> "subscribe", ids |-> answer])
  /\ UNCHANGED <<uiVars, sessionVars, down, attempt, queue, streams, names, missed, deaf, left>>

Reads(kind) == phase = "open" /\ request = "none" /\ down # <<>> /\ Head(down).kind = kind

\* `subscribed': both maps only grow, an id or a terminal told again is replaced.
LearnStreams ==
  /\ Reads("subscribed")
  /\ LET map == Head(down).map
         ids == {map[t] : t \in DOMAIN map}
     IN /\ streams' = [t \in Terms |-> IF t \in DOMAIN map THEN map[t] ELSE streams[t]]
        /\ names' = {p \in names : p[1] \notin ids} \cup {<<map[t], t>> : t \in DOMAIN map}
  /\ down' = Tail(down)
  /\ UNCHANGED <<uiVars, sessionVars, up, phase, attempt, request, answer, cached, reg, wired,
                 queue, screen, missed, deaf, left>>

\* A frame of an unknown id or for a terminal that is gone is dropped.
ShowFrame ==
  /\ Reads("snapshot") \/ Reads("output")
  /\ LET m      == Head(down)
         newest == IF m.kind = "snapshot" THEN m.chunk ELSE CHOOSE c \in m.chunks : \A d \in m.chunks : d <= c
     IN screen' = [t \in Terms |-> IF <<m.id, t>> \in names /\ t \in reg THEN newest ELSE screen[t]]
  /\ down' = Tail(down)
  /\ UNCHANGED <<uiVars, sessionVars, up, phase, attempt, request, answer, cached, reg, wired,
                 queue, streams, names, missed, deaf, left>>

\* `state_changed': the reader waits for the answer and reads nothing else.
Refetch ==
  /\ Reads("changed")
  /\ request' = "asked"
  /\ down' = Tail(down)
  /\ UNCHANGED <<uiVars, sessionVars, up, phase, attempt, answer, cached, reg, wired,
                 queue, streams, names, screen, missed, deaf, left>>

Added   == answer \ cached
Removed == cached \ answer

\* Faulty: a new terminal is not subscribed to.
NewStateUnsubscribed ==
  /\ phase = "open" /\ request = "answered"
  /\ reg' = (reg \cup Added) \ Removed
  /\ wired' = wired \cup (Added \ reg)
  /\ screen' = NewScreens(Added)
  /\ queue' = IF Removed = {} THEN queue ELSE Enqueue(queue, [kind |-> "unsubscribe", ids |-> Removed])
  /\ cached' = answer
  /\ request' = "none" /\ answer' = {} /\ missed' = FALSE
  /\ UNCHANGED <<serverVars, phase, attempt, streams, names, deaf, left>>

\* Faulty: what left the state is not looked for.
NewStateAddsOnly ==
  /\ phase = "open" /\ request = "answered"
  /\ reg' = reg \cup Added
  /\ wired' = wired \cup (Added \ reg)
  /\ screen' = NewScreens(Added)
  /\ queue' = IF Added = {} THEN queue ELSE Enqueue(queue, [kind |-> "subscribe", ids |-> Added])
  /\ cached' = cached \cup answer
  /\ request' = "none" /\ answer' = {} /\ missed' = FALSE
  /\ UNCHANGED <<serverVars, phase, attempt, streams, names, deaf, left>>

\* The answer to a re-fetch: diff_states and what follows from it.
NewState ==
  /\ phase = "open" /\ request = "answered"
  /\ reg' = (reg \cup Added) \ Removed
  /\ wired' = wired \cup (Added \ reg)
  /\ screen' = NewScreens(Added)
  /\ LET full == Added # {} /\ Len(queue) = QueueSize
         told == IF Added = {} THEN queue ELSE Enqueue(queue, [kind |-> "subscribe", ids |-> Added])
     IN /\ queue' = IF Removed = {} THEN told
                    ELSE Enqueue(told, [kind |-> "unsubscribe", ids |-> Removed])
        /\ deaf' = IF full THEN deaf \cup Added ELSE deaf
  /\ cached' = answer
  /\ request' = "none" /\ answer' = {} /\ missed' = FALSE
  /\ UNCHANGED <<serverVars, phase, attempt, streams, names, left>>

\* A re-fetch that fails is only logged.
RefetchFails ==
  /\ phase = "open" /\ request # "none"
  /\ Spend("breaks")
  /\ request' = "none" /\ answer' = {} /\ missed' = TRUE
  /\ UNCHANGED <<serverVars, phase, attempt, cached, reg, wired, queue, streams, names,
                 screen, deaf>>

\* The writer: input goes by stream id once the terminal has one.
Write ==
  /\ phase = "open" /\ link # "down" /\ queue # <<>> /\ Len(up) < UpSize
  /\ LET m == Head(queue)
     IN up' = Append(up, IF m.kind = "text" /\ streams[m.term] # 0
                         THEN [kind |-> "input", id |-> streams[m.term], term |-> m.term]
                         ELSE m)
  /\ queue' = Tail(queue)
  /\ UNCHANGED <<uiVars, sessionVars, down, phase, attempt, request, answer, cached, reg, wired,
                 streams, names, screen, missed, deaf, left>>

-----------------------------------------------------------------------------
(* The user.                                                               *)

\* disconnect and connect.  The task is aborted at its next await: terminals
\* it is creating meanwhile stay, with the closed queue.
Reconnect ==
  /\ Spend("breaks")
  /\ IF link = "down" THEN UNCHANGED serverVars ELSE Hangup
  /\ phase' = "dialing" /\ attempt' = 0 /\ request' = "none" /\ answer' = {} /\ cached' = {}
  /\ streams' = NoStreams /\ names' = {}
  /\ \/ reg' = {}
     \/ request = "answered" /\ reg' = IF phase = "fetching" THEN answer ELSE Added
  /\ wired' = {} /\ queue' = <<>>
  /\ screen' = [t \in Terms |-> 0]
  /\ UNCHANGED <<missed, deaf>>

\* pair: a queue of its own, and the terminals of the former task stay.
Pair ==
  /\ phase = "pairing"
  /\ phase' = "dialing" /\ attempt' = 0
  /\ wired' = {} /\ queue' = <<>>
  /\ UNCHANGED <<serverVars, request, answer, cached, reg, streams, names, screen, missed, deaf, left>>

-----------------------------------------------------------------------------

Server == ServerStep /\ UNCHANGED clientVars

UIThread == (\E t \in Terms : ShowOutput(t)) /\ UNCHANGED clientVars

Reader == Dial \/ SessionLost \/ FirstState \/ LearnStreams \/ ShowFrame \/ Refetch \/ NewState

Surroundings ==
  Change \/ Produce \/ Type \/ Break \/ Refused \/ DialFails \/ RefetchFails \/ Reconnect \/ Pair

Next == Server \/ UIThread \/ Reader \/ Answer \/ Write \/ Surroundings

\* The tasks of the runtime and both UI threads run; the network, the user and
\* the programs in the terminals owe nothing.
Fairness ==
  WF_vars(Server) /\ WF_vars(UIThread) /\ WF_vars(Reader) /\ WF_vars(Answer) /\ WF_vars(Write)

Spec == Init /\ [][Next]_vars /\ Fairness

-----------------------------------------------------------------------------
(* Properties.                                                             *)

TypeOK ==
  /\ fate \in [Terms -> {"unborn", "live", "closed"}]
  /\ \A t \in Terms : out[t] \in Nat /\ shown[t] \in 0..out[t] /\ screen[t] \in 0..out[t]
  /\ link \in {"down", "hello", "up"} /\ news \in {"off", "seen", "unseen"}
  /\ (link = "up") = (news # "off")
  /\ Len(bus) <= BusSize /\ Len(down) <= DownSize /\ Len(queue) <= QueueSize
  /\ Len(up) <= UpSize
  /\ \A t \in Subscribed : subs[t] < nextId
  /\ drawing \subseteq Subscribed /\ busy \in BOOLEAN /\ overrun \in BOOLEAN
  /\ phase \in {"dialing", "fetching", "open", "pairing", "off"}
  /\ attempt \in 0..MaxAttempts
  /\ request \in {"none", "asked", "answered"} /\ (phase = "fetching" => request # "none")
  /\ answer \subseteq Terms /\ cached \subseteq Terms /\ reg \subseteq Terms
  /\ wired \subseteq Terms /\ deaf \subseteq Terms
  /\ left \in [changes : Nat, chunks : Nat, texts : Nat, breaks : Nat]

\* What is typed into a terminal is never given to another: a stream id under
\* way to the server names the terminal it was written for, or none.
InputToItsTerminal ==
  \A i \in DOMAIN up : up[i].kind = "input" =>
    \A t \in Subscribed : subs[t] = up[i].id => t = up[i].term

\* A frame the client reads is one whose id it was told, as that terminal's.
OutputToItsTerminal ==
  (phase = "open" /\ down # <<>> /\ Head(down).kind \in {"snapshot", "output"}) =>
    {p \in names : p[1] = Head(down).id} = {<<Head(down).id, Head(down).term>>}

\* A frame of output continues what the screen shows: nothing comes twice,
\* unless an overrun ended the drain before it, and nothing is left out, unless
\* an overrun, a drain or a snapshot drawn too early left it out since the
\* terminal's frame before.
OutputContinues ==
  (phase = "open" /\ down # <<>> /\ Head(down).kind = "output" /\ Head(down).term \in reg) =>
    LET m == Head(down)
    IN /\ ~m.replayed => \A c \in m.chunks : c > screen[m.term]
       /\ ~m.replayed /\ ~m.holed => screen[m.term] + 1 \in m.chunks

\* A change of the state that a message tells of, or will.
Untold == news = "unseen" \/ \E k \in DOMAIN down : down[k].kind = "changed"

\* A message of a sequence asks for t's subscription, or for its end.
Says(s, kind, t) == \E k \in DOMAIN s : s[k].kind = kind /\ t \in s[k].ids

Requested(t) == Says(queue, "subscribe", t) \/ Says(up, "subscribe", t)

\* When no message tells of a change, the answer holds the terminals there are,
\* and so does the state the client keeps when it waits for none: unless a
\* change was missed (it fell between the first fetch and the server's watch,
\* or a re-fetch failed).
StateFollowed ==
  (link # "down" /\ ~Untold) =>
    /\ (phase = "open" /\ request = "none" /\ ~missed) => cached = Live
    /\ (request = "answered" /\ (phase = "open" \/ ~missed)) => answer = Live

\* Every live terminal of the client's state is subscribed, or will be, unless
\* the full queue refused it.
AllRequested ==
  (phase = "open" /\ link # "down") =>
    \A t \in cached \cap Live : t \in Subscribed \cup deaf \/ Requested(t)

\* A connected client differs from the server only while word of it is under
\* way: what it shows, what it is about to take over and what it is subscribed
\* to, whatever changes during its fetches and re-fetches.
ClientFollows ==
  /\ StateFollowed
  /\ phase = "open" => reg = cached
  /\ AllRequested

\* A terminal closed on the server leaves the client while it is connected.
ClosedTerminalLeaves ==
  \A t \in Terms :
    (phase = "open" /\ t \in cached /\ fate[t] = "closed" /\ ~missed)
      ~> (t \notin cached \/ phase # "open" \/ missed)

=============================================================================
