----------------------------- MODULE StreamServer -----------------------------
(***************************************************************************)
(* The server's end of a remote connection (src/remote/routes/stream.rs,   *)
(* pty_broadcaster.rs): the session behind one WebSocket, the terminals of *)
(* the instance it shows, and the bus that carries their output.           *)
(*                                                                         *)
(* A terminal's output is numbered in chunks.  Its PTY reader publishes a  *)
(* chunk on the bus before the UI thread puts it into the terminal, and a  *)
(* snapshot is drawn by the UI thread.  The session is one task: a step    *)
(* from one await to the next.                                             *)
(*                                                                         *)
(* Abstracted: authentication by a token in the URL, sizes and resizes,    *)
(* git status, ping, special keys, the `dropped' message (a toast).  A     *)
(* write on the socket is the hand-over to the writer task.  History: a    *)
(* frame of output carries what was left out before it (`holed') and       *)
(* whether it may repeat a snapshot (`replayed').                          *)
(***************************************************************************)
EXTENDS Naturals, SequencesExt, FiniteSets

CONSTANTS
  Terms,     \* terminal ids, each opened and closed once
  BusSize,   \* chunks the bus keeps for a receiver (4096)
  DownSize   \* messages to the client under way (512, and the socket)

ASSUME StreamAssumption ==
  IsFiniteSet(Terms) /\ BusSize \in Nat \ {0} /\ DownSize \in Nat \ {0, 1}

VARIABLES
  fate,      \* "unborn", "live" or "closed", by terminal
  out,       \* chunks its reader has published, by terminal
  shown,     \* chunks the UI thread has put into the terminal
  link,      \* the socket: "down", "hello" (auth_ok sent) or "up"
  news,      \* the state version: "off" (not watched), "seen" or "unseen"
  bus,       \* the chunks the session has not received, <<terminal, number>>
  overrun,   \* the bus has overwritten chunks the session had not received
  subs,      \* subscribed_ids: the stream id of a terminal, 0 without
  nextId,    \* next_stream_id
  busy,      \* the session answers a request for snapshots
  drawing,   \* the terminals whose snapshot is still to be drawn
  up, down,  \* messages to the server and to the client
  gap,       \* history: output left out since the last frame, by subscribed terminal
  replay     \* history: chunks older than a snapshot may be on the bus

uiVars      == <<fate, out, shown>>
sessionVars == <<link, news, bus, overrun, subs, nextId, busy, drawing, gap, replay>>
serverVars  == <<uiVars, sessionVars, up, down>>

Live       == {t \in Terms : fate[t] = "live"}
Subscribed == {t \in Terms : subs[t] # 0}

ServerInit ==
  /\ fate \in [Terms -> {"unborn", "live"}]
  /\ out = [t \in Terms |-> 0] /\ shown = [t \in Terms |-> 0]
  /\ link = "down" /\ news = "off" /\ up = <<>> /\ down = <<>> /\ bus = <<>>
  /\ overrun = FALSE /\ busy = FALSE /\ drawing = {} /\ replay = FALSE
  /\ subs = [t \in Terms |-> 0] /\ nextId = 1 /\ gap = [t \in Terms |-> FALSE]

-----------------------------------------------------------------------------
(* The instance.                                                           *)

\* Every change of the workspace bumps the version.
Announce == news' = IF news = "off" THEN "off" ELSE "unseen"

ChangeTerminal(t, from, to) ==
  /\ fate[t] = from
  /\ fate' = [fate EXCEPT ![t] = to]
  /\ Announce
  /\ UNCHANGED <<out, shown, link, bus, overrun, subs, nextId, busy, drawing, gap, replay, up, down>>

\* publish: without a receiver nothing is kept; a full bus loses its oldest.
Output(t) ==
  /\ fate[t] = "live"
  /\ out' = [out EXCEPT ![t] = @ + 1]
  /\ LET all == Append(bus, <<t, out[t] + 1>>)
         full == Len(bus) = BusSize
     IN IF news = "off"
        THEN UNCHANGED <<bus, overrun, gap>>
        ELSE /\ bus' = IF full THEN Tail(all) ELSE all
             /\ overrun' = (overrun \/ full)
             /\ gap' = IF full THEN [gap EXCEPT ![bus[1][1]] = TRUE] ELSE gap
  /\ UNCHANGED <<fate, shown, link, news, subs, nextId, busy, drawing, replay, up, down>>

ShowOutput(t) ==
  /\ fate[t] = "live" /\ shown[t] < out[t]
  /\ shown' = [shown EXCEPT ![t] = @ + 1]
  /\ UNCHANGED <<fate, out, sessionVars, up, down>>

-----------------------------------------------------------------------------
(* The session.                                                            *)

Loop    == link = "up" /\ ~busy
Room(n) == Len(down) + n <= DownSize

\* The receivers are taken after auth_ok was sent.
Watch ==
  /\ link = "hello"
  /\ link' = "up" /\ news' = "seen"
  /\ UNCHANGED <<uiVars, bus, overrun, subs, nextId, busy, drawing, gap, replay, up, down>>

Receives(kind) == Loop /\ up # <<>> /\ Head(up).kind = kind

\* Faulty: ids are counted from the terminals subscribed now.
NumberedByCount(ids) ==
  LET new == SetToSeq({t \in ids : subs[t] = 0})
  IN [t \in Terms |-> IF t \in ids /\ subs[t] = 0
                      THEN Cardinality(Subscribed) + CHOOSE i \in 1..Len(new) : new[i] = t
                      ELSE subs[t]]

Numbered(ids) ==
  LET new == SetToSeq({t \in ids : subs[t] = 0})
  IN [t \in Terms |-> IF t \in ids /\ subs[t] = 0
                      THEN nextId - 1 + CHOOSE i \in 1..Len(new) : new[i] = t
                      ELSE subs[t]]

\* Faulty: the ids are told after the snapshots.
SubscribeUntold ==
  /\ Receives("subscribe")
  /\ LET ids == Head(up).ids
     IN /\ subs' = Numbered(ids)
        /\ nextId' = nextId + Cardinality(ids \ Subscribed)
        /\ drawing' = ids
  /\ busy' = TRUE
  /\ up' = Tail(up)
  /\ UNCHANGED <<uiVars, link, news, bus, overrun, gap, replay, down>>

Subscribe ==
  /\ Receives("subscribe") /\ Room(1)
  /\ LET ids == Head(up).ids
     IN /\ subs' = Numbered(ids)
        /\ nextId' = nextId + Cardinality(ids \ Subscribed)
        /\ down' = Append(down, [kind |-> "subscribed", map |-> [t \in ids |-> subs'[t]]])
        /\ drawing' = ids
  /\ busy' = TRUE
  /\ up' = Tail(up)
  /\ UNCHANGED <<uiVars, link, news, bus, overrun, gap, replay>>

Unsubscribe ==
  /\ Receives("unsubscribe")
  /\ subs' = [t \in Terms |-> IF t \in Head(up).ids THEN 0 ELSE subs[t]]
  /\ up' = Tail(up)
  /\ UNCHANGED <<uiVars, link, news, bus, overrun, nextId, busy, drawing, gap, replay, down>>

\* Input for the terminal of a stream id, or named by its id: to the UI thread.
Input ==
  /\ Receives("input") \/ Receives("text")
  /\ up' = Tail(up)
  /\ UNCHANGED <<uiVars, sessionVars, down>>

PushNews ==
  /\ Loop /\ news = "unseen" /\ Room(1)
  /\ news' = "seen"
  /\ down' = Append(down, [kind |-> "changed"])
  /\ UNCHANGED <<uiVars, link, bus, overrun, subs, nextId, busy, drawing, gap, replay, up>>

\* The output branch: everything on the bus, one frame by stream.
Forward ==
  /\ Loop /\ bus # <<>> /\ ~overrun
  /\ LET Chunks(t) == {bus[i][2] : i \in {j \in DOMAIN bus : bus[j][1] = t}}
         busyTerms == SetToSeq({t \in Subscribed : Chunks(t) # {}})
         frames    == [i \in DOMAIN busyTerms |->
                         LET t == busyTerms[i]
                         IN [kind |-> "output", id |-> subs[t], term |-> t, chunks |-> Chunks(t),
                             holed |-> gap[t], replayed |-> replay]]
     IN /\ Room(Len(frames))
        /\ down' = down \o frames
        /\ gap' = [t \in Terms |-> gap[t] /\ Chunks(t) = {}]
  /\ bus' = <<>> /\ replay' = FALSE
  /\ UNCHANGED <<uiVars, link, news, overrun, subs, nextId, busy, drawing, up>>

\* RecvError::Lagged.
Resync ==
  /\ Loop /\ overrun
  /\ overrun' = FALSE
  /\ busy' = TRUE /\ drawing' = Subscribed
  /\ UNCHANGED <<uiVars, link, news, bus, subs, nextId, gap, replay, up, down>>

\* send_snapshots, for one terminal.
DrawSnapshot(t) ==
  /\ busy /\ t \in drawing /\ fate[t] = "live" /\ Room(1)
  /\ down' = Append(down, [kind |-> "snapshot", id |-> subs[t], term |-> t, chunk |-> shown[t]])
  /\ drawing' = drawing \ {t}
  /\ gap' = [gap EXCEPT ![t] = shown[t] < out[t]]
  /\ UNCHANGED <<uiVars, link, news, bus, overrun, subs, nextId, busy, replay, up>>

\* The terminal is gone, or the UI thread did not answer in time.
SkipSnapshot(t) ==
  /\ busy /\ t \in drawing
  /\ drawing' = drawing \ {t}
  /\ gap' = [gap EXCEPT ![t] = TRUE]
  /\ UNCHANGED <<uiVars, link, news, bus, overrun, subs, nextId, busy, replay, up, down>>

\* Faulty: what piled up meanwhile is sent after the snapshots.
DrainNothing ==
  /\ busy /\ drawing = {}
  /\ busy' = FALSE
  /\ UNCHANGED <<uiVars, link, news, bus, overrun, subs, nextId, drawing, gap, replay, up, down>>

\* `while try_recv().is_ok()': an overrun ends it before it took anything.
Drain ==
  /\ busy /\ drawing = {}
  /\ busy' = FALSE
  /\ overrun' = FALSE
  /\ IF overrun
     THEN replay' = TRUE /\ UNCHANGED <<bus, gap>>
     ELSE /\ bus' = <<>> /\ replay' = FALSE
          /\ gap' = [t \in Terms |-> gap[t] \/ \E i \in DOMAIN bus : bus[i][1] = t]
  /\ UNCHANGED <<uiVars, link, news, subs, nextId, drawing, up, down>>

\* The socket breaks or the server stops: nothing of a session survives.
Hangup ==
  /\ link # "down"
  /\ link' = "down" /\ news' = "off" /\ up' = <<>> /\ down' = <<>> /\ bus' = <<>>
  /\ overrun' = FALSE /\ busy' = FALSE /\ drawing' = {} /\ replay' = FALSE
  /\ subs' = [t \in Terms |-> 0] /\ nextId' = 1 /\ gap' = [t \in Terms |-> FALSE]
  /\ UNCHANGED uiVars

ServerStep ==
  \/ Watch \/ Subscribe \/ Unsubscribe \/ Input \/ PushNews \/ Forward \/ Resync \/ Drain
  \/ \E t \in Terms : DrawSnapshot(t) \/ SkipSnapshot(t)

=============================================================================
