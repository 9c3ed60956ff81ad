--------------------------- MODULE ConnectionProofs ---------------------------
(***************************************************************************)
(* Proofs about the remote connection, for any number of terminals and any *)
(* size of its buffers: a client with nothing to do shows what the server  *)
(* has, and the output a screen shows goes on where it stands.  The first  *)
(* part follows the states from the instance to the client, the second the *)
(* numbers of the chunks from the bus over the frames to the screen.       *)
(***************************************************************************)
EXTENDS StreamProofs

-----------------------------------------------------------------------------
(* What the client asked for, and what the server knows of.                *)

FrameOf(m, t) == IsFrame(m) /\ m.term = t
Framed(t)     == \E k \in DOMAIN down : FrameOf(down[k], t)

Dismissed(t) == Says(queue, "unsubscribe", t) \/ Says(up, "unsubscribe", t)
Known(t)     == t \in Subscribed \/ Framed(t) \/ Requested(t)

\* A terminal that the client ever knew was opened, and what it does not know
\* any more, or an answer does not hold, was closed: no terminal comes back.
OnceOnly ==
  \A t \in Terms :
    /\ (t \in answer \cup cached \/ Known(t)) => fate[t] # "unborn"
    /\ Dismissed(t) => fate[t] = "closed"
    /\ (phase = "open" /\ Known(t)) => (t \in cached \/ (fate[t] = "closed" /\ t \notin answer))
    /\ (request = "answered" /\ (t \in cached \/ Known(t)) /\ t \notin answer) => fate[t] = "closed"

LEMMA SaysAppended ==
  ASSUME NEW S, NEW s \in Seq(S), NEW m \in S, NEW kind, NEW t
  PROVE  Says(Append(s, m), kind, t) <=> (Says(s, kind, t) \/ (m.kind = kind /\ t \in m.ids))
<1>1. /\ Len(s) + 1 \in DOMAIN Append(s, m) /\ Append(s, m)[Len(s) + 1] = m
      /\ \A k \in DOMAIN s : k \in DOMAIN Append(s, m) /\ Append(s, m)[k] = s[k]
      /\ \A k \in DOMAIN Append(s, m) : k \in DOMAIN s \/ k = Len(s) + 1
  BY Appended
<1> QED BY <1>1 DEF Says

LEMMA SaysTailed ==
  ASSUME NEW S, NEW s \in Seq(S), s # <<>>, NEW kind, NEW t
  PROVE  Says(s, kind, t) <=> (Says(Tail(s), kind, t) \/ (Head(s).kind = kind /\ t \in Head(s).ids))
<1>1. /\ Head(s) = s[1] /\ 1 \in DOMAIN s
      /\ \A k \in DOMAIN Tail(s) : k + 1 \in DOMAIN s /\ Tail(s)[k] = s[k + 1]
      /\ \A k \in DOMAIN s : k # 1 => k - 1 \in DOMAIN Tail(s) /\ s[k] = Tail(s)[k - 1]
  BY Tailed
<1> QED BY <1>1 DEF Says

LEMMA SaysEnqueued ==
  ASSUME NEW q \in Seq(QueueMessages), NEW m \in QueueMessages, NEW kind, NEW t
  PROVE  /\ Enqueue(q, m) \in Seq(QueueMessages)
         /\ Says(q, kind, t) => Says(Enqueue(q, m), kind, t)
         /\ Says(Enqueue(q, m), kind, t) => (Says(q, kind, t) \/ (m.kind = kind /\ t \in m.ids))
         /\ Len(q) < QueueSize => (m.kind = kind /\ t \in m.ids => Says(Enqueue(q, m), kind, t))
BY SaysAppended DEF Enqueue

LEMMA SaysNothing == \A kind, t : ~Says(<<>>, kind, t)
BY DEF Says

\* The queue and the socket in the type that both have.
LEMMA WiresTyped ==
  StreamInv => up \in Seq(UpMessages) /\ queue \in Seq(QueueMessages) /\ down \in Seq(DownMessages)
BY DEF StreamInv, WireOK

\* A step after which nobody knows of more than before.
LEMMA KnowsNoMore ==
  ASSUME OnceOnly, fate' = fate, cached' \subseteq cached, answer' \subseteq answer,
         phase' = "open" => phase = "open" /\ cached' = cached,
         request' = "answered" => request = "answered" /\ answer' = answer,
         \A t \in Terms : /\ Known(t)' => Known(t)
                          /\ Dismissed(t)' => Dismissed(t)
  PROVE  OnceOnly'
BY DEF OnceOnly

\* What a step that leaves the messages alone leaves alone.
LEMMA SameKnown ==
  ASSUME UNCHANGED <<up, down, subs, queue>>
  PROVE  \A t : /\ Known(t)' <=> Known(t)
                /\ Requested(t)' <=> Requested(t)
                /\ Dismissed(t)' <=> Dismissed(t)
<1>1. \A t : Requested(t)' <=> Requested(t)
  BY DEF Requested, Says
<1>2. \A t : Dismissed(t)' <=> Dismissed(t)
  BY DEF Dismissed, Says
<1>3. \A t : Framed(t)' <=> Framed(t)
  BY DEF Framed, FrameOf
<1> QED BY <1>1, <1>2, <1>3 DEF Known, Subscribed

\* The server's session moves what it was asked for; it makes no one known.
LEMMA SessionKnows ==
  ASSUME StreamInv, HistoryOK, ServerStep, UNCHANGED queue
  PROVE  \A t \in Terms : /\ Known(t)' => Known(t)
                          /\ Dismissed(t)' => Dismissed(t)
<1>0. up \in Seq(UpMessages) /\ queue \in Seq(QueueMessages) /\ down \in Seq(DownMessages)
  BY WiresTyped
<1>00. \A t : /\ Says(up, "subscribe", t)' <=> Says(up', "subscribe", t)
              /\ Says(queue, "subscribe", t)' <=> Says(queue, "subscribe", t)
  BY DEF Says
<1>1. ASSUME Watch \/ Resync \/ Drain PROVE UNCHANGED <<up, down, subs>>
  BY <1>1 DEF Watch, Resync, Drain
<1>2. ASSUME up # <<>>, up' = Tail(up)
      PROVE  \A t : /\ Says(up, "subscribe", t) <=>
                         (Says(up', "subscribe", t) \/ (Head(up).kind = "subscribe" /\ t \in Head(up).ids))
                    /\ Dismissed(t)' => Dismissed(t)
  <2>1. \A kind, t : Says(up, kind, t) <=>
                       (Says(up', kind, t) \/ (Head(up).kind = kind /\ t \in Head(up).ids))
    BY <1>0, <1>2, SaysTailed
  <2>2. \A t : /\ Says(up, "unsubscribe", t)' <=> Says(up', "unsubscribe", t)
               /\ Says(queue, "unsubscribe", t)' <=> Says(queue, "unsubscribe", t)
    BY DEF Says
  <2> QED BY <2>1, <2>2 DEF Dismissed
<1>3. ASSUME NEW m \in DownMessages, down' = Append(down, m), NEW t
      PROVE  Framed(t)' => Framed(t) \/ FrameOf(m, t)
  BY <1>0, <1>3, Appended DEF Framed
<1>4. CASE Watch \/ Resync \/ Drain
  BY <1>1, <1>4, SameKnown
<1>5. CASE Subscribe
  <2> DEFINE m == [kind |-> "subscribed", map |-> [t \in Head(up).ids |-> subs'[t]]]
  <2>1. up # <<>> /\ up' = Tail(up) /\ Head(up).kind = "subscribe" /\ down' = Append(down, m)
    BY <1>5 DEF Subscribe, Receives
  <2>2. \A t \in Terms : subs'[t] # 0 => subs[t] # 0 \/ t \in Head(up).ids
    BY <1>5 DEF Subscribe, Numbered
  <2>3. \A t : Framed(t)' => Framed(t)
    <3> SUFFICES ASSUME NEW t, NEW k \in DOMAIN down', FrameOf(down'[k], t) PROVE Framed(t)
      BY DEF Framed
    <3>1. ~FrameOf(m, t)
      BY DEF FrameOf, IsFrame
    <3> HIDE DEF m
    <3>2. k \in DOMAIN down /\ down'[k] = down[k]
      BY <1>0, <2>1, <3>1
    <3> QED BY <3>2 DEF Framed
  <2> QED BY <1>00, <1>2, <2>1, <2>2, <2>3 DEF Known, Requested, Subscribed
<1>6. CASE Unsubscribe \/ Input
  <2>1. up # <<>> /\ up' = Tail(up) /\ down' = down
    BY <1>6 DEF Unsubscribe, Input, Receives
  <2>2. \A t \in Terms : subs'[t] # 0 => subs[t] # 0
    BY <1>6 DEF Unsubscribe, Input, sessionVars
  <2>3. \A t : Framed(t)' <=> Framed(t)
    BY <2>1 DEF Framed
  <2> QED BY <1>00, <1>2, <2>1, <2>2, <2>3 DEF Known, Requested, Subscribed
<1>7. CASE PushNews
  <2> DEFINE m == [kind |-> "changed"]
  <2>1. down' = Append(down, m) /\ UNCHANGED <<up, subs>>
    BY <1>7 DEF PushNews
  <2>2. m \in DownMessages /\ \A t : ~FrameOf(m, t)
    BY DEF DownMessages, FrameOf, IsFrame
  <2> HIDE DEF m
  <2>3. \A t : Framed(t)' => Framed(t)
    BY <1>3, <2>1, <2>2
  <2> QED BY <2>1, <2>3 DEF Known, Requested, Dismissed, Subscribed, Says
<1>8. CASE Forward
  <2>1. PICK f \in Seq(Frames) : down' = down \o f /\ \A k \in DOMAIN f : f[k].term \in Subscribed
    BY <1>8, Forwarded
  <2>2. UNCHANGED <<up, subs>>
    BY <1>8 DEF Forward
  <2>5. f \in Seq(DownMessages)
    BY DEF DownMessages
  <2>3. \A k \in DOMAIN down' : \/ k \in DOMAIN down /\ down'[k] = down[k]
                                \/ k - Len(down) \in DOMAIN f /\ down'[k] = f[k - Len(down)]
    BY <1>0, <2>1, <2>5, Joined
  <2>4. \A t : Framed(t)' => Framed(t) \/ t \in Subscribed
    BY <2>1, <2>3 DEF Framed, FrameOf
  <2> QED BY <2>2, <2>4 DEF Known, Requested, Dismissed, Subscribed, Says
<1>9. ASSUME NEW u \in Terms, DrawSnapshot(u) \/ SkipSnapshot(u)
      PROVE  \A t \in Terms : (Known(t)' => Known(t)) /\ (Dismissed(t)' => Dismissed(t))
  <2> DEFINE m == [kind |-> "snapshot", id |-> subs[u], term |-> u, chunk |-> shown[u]]
  <2>1. (down' = Append(down, m) \/ down' = down) /\ u \in Subscribed /\ UNCHANGED <<up, subs>>
    BY <1>9 DEF DrawSnapshot, SkipSnapshot, StreamInv, WireOK
  <2>2. m \in DownMessages /\ \A t : FrameOf(m, t) => t = u
    BY DEF DownMessages, Frames, FrameOf, IsFrame, StreamInv, WireOK
  <2> HIDE DEF m
  <2>3. \A t : Framed(t)' => Framed(t) \/ t = u
    BY <1>3, <2>1, <2>2 DEF Framed
  <2> QED BY <2>1, <2>3 DEF Known, Requested, Dismissed, Subscribed, Says
<1> QED BY <1>4, <1>5, <1>6, <1>7, <1>8, <1>9 DEF ServerStep

\* Tasks that end keep nothing for their successors but the views' queue.
LEMMA EndKnows ==
  ASSUME StreamInv, Break \/ Refused \/ DialFails \/ Reconnect
  PROVE  \A t \in Terms : /\ Known(t)' => Known(t)
                          /\ Dismissed(t)' => Dismissed(t)
<1>1. up' = <<>> /\ down' = <<>> /\ Subscribed' = {}
  <2>1. CASE Hangup
    BY <2>1 DEF Hangup, Subscribed
  <2>2. CASE link = "down" /\ UNCHANGED serverVars
    BY <2>2 DEF serverVars, sessionVars, Subscribed, StreamInv, SilentWhenDown
  <2> QED BY <2>1, <2>2 DEF Break, Refused, DialFails, Reconnect
<1>2. queue' = queue \/ queue' = <<>>
  BY DEF Break, Refused, DialFails, Reconnect
<1> QED BY <1>1, <1>2 DEF Known, Framed, Requested, Dismissed, Says

LEMMA OnceKept == StreamInv /\ HistoryOK /\ ClientOK /\ OnceOnly /\ [Next]_vars => OnceOnly'
<1> SUFFICES ASSUME StreamInv, HistoryOK, ClientOK, OnceOnly, [Next]_vars PROVE OnceOnly'
  OBVIOUS
<1>0. /\ up \in Seq(UpMessages) /\ queue \in Seq(QueueMessages) /\ down \in Seq(DownMessages)
      /\ answer \subseteq Terms /\ cached \subseteq Terms /\ wired \subseteq Terms
      /\ fate \in [Terms -> {"unborn", "live", "closed"}]
  BY WiresTyped DEF StreamInv, WireOK, ClientOK, TermsOK
<1>00. \A kind, t : /\ Says(up, kind, t)' <=> Says(up', kind, t)
                    /\ Says(queue, kind, t)' <=> Says(queue', kind, t)
  BY DEF Says
<1>1. CASE Server
  <2>1. fate' = fate
    BY <1>1 DEF Server, ServerStep, Watch, Subscribe, Unsubscribe, Input, PushNews, Forward, Resync,
       Drain, DrawSnapshot, SkipSnapshot, uiVars
  <2>2. UNCHANGED <<phase, request, answer, cached, queue>>
    BY <1>1 DEF Server, clientVars
  <2> QED BY <1>1, <2>1, <2>2, SessionKnows, KnowsNoMore DEF Server
<1>2. CASE UIThread \/ Produce \/ UNCHANGED vars
  <2>1. UNCHANGED <<up, down, subs, queue, fate, phase, request, answer, cached>>
    BY <1>2 DEF UIThread, ShowOutput, Produce, Output, vars, serverVars, sessionVars, uiVars, clientVars
  <2> QED BY <2>1, SameKnown, KnowsNoMore
<1>3. CASE Dial \/ SessionLost \/ RefetchFails \/ Pair
  <2>1. UNCHANGED <<up, down, subs, fate, cached>>
    BY <1>3 DEF Dial, SessionLost, RefetchFails, Pair, serverVars, sessionVars, uiVars
  <2>2. queue' = queue \/ queue' = <<>> \/ (queue # <<>> /\ queue' = Tail(queue))
    BY <1>3 DEF Dial, SessionLost, RefetchFails, Pair
  <2>3. \A kind, t : Says(queue', kind, t) => Says(queue, kind, t)
    <3>1. CASE queue' = <<>>
      BY <3>1, SaysNothing
    <3>2. CASE queue # <<>> /\ queue' = Tail(queue)
      BY <3>2, <1>0, SaysTailed
    <3> QED BY <2>2, <3>1, <3>2
  <2>4. \A t \in Terms : (Known(t)' => Known(t)) /\ (Dismissed(t)' => Dismissed(t))
    <3>1. \A t : Framed(t)' <=> Framed(t)
      BY <2>1 DEF Framed, FrameOf
    <3> QED BY <2>1, <2>3, <3>1, <1>00 DEF Known, Requested, Dismissed, Subscribed
  <2>5. /\ answer' \subseteq answer
        /\ phase' = "open" => phase = "open"
        /\ request' = "answered" => request = "answered" /\ answer' = answer
    BY <1>3 DEF Dial, SessionLost, Retry, RefetchFails, Pair
  <2> QED BY <2>1, <2>4, <2>5, KnowsNoMore
<1>4. CASE LearnStreams \/ ShowFrame \/ Refetch
  <2>1. /\ UNCHANGED <<up, subs, fate, cached, queue, phase, answer>> /\ down # <<>> /\ down' = Tail(down)
        /\ request' # "answered"
    BY <1>4 DEF LearnStreams, ShowFrame, Refetch, Reads, sessionVars, uiVars
  <2>2. \A t : Framed(t)' => Framed(t)
    BY <2>1, <1>0, Tailed DEF Framed, FrameOf
  <2>3. \A t \in Terms : (Known(t)' => Known(t)) /\ (Dismissed(t)' => Dismissed(t))
    BY <2>1, <2>2, <1>00 DEF Known, Requested, Dismissed, Subscribed
  <2> QED BY <2>1, <2>3, KnowsNoMore
<1>5. CASE Break \/ Refused \/ DialFails \/ Reconnect
  <2>1. fate' = fate
    BY <1>5 DEF Break, Refused, DialFails, Reconnect, Hangup, serverVars, uiVars
  <2>2. /\ cached' \subseteq cached /\ answer' \subseteq answer
        /\ phase' = "open" => phase = "open" /\ cached' = cached
        /\ request' = "answered" => request = "answered" /\ answer' = answer
    BY <1>5 DEF Break, Refused, DialFails, Reconnect, Retry
  <2> QED BY <1>5, <2>1, <2>2, EndKnows, KnowsNoMore
<1>6. CASE Answer
  <2>1. /\ UNCHANGED <<up, down, subs, queue, fate, phase, cached>> /\ answer' = Live
        /\ request' = "answered"
    BY <1>6 DEF Answer, serverVars, sessionVars, uiVars
  <2>2. \A t \in Terms : /\ Known(t)' <=> Known(t)
                         /\ Dismissed(t)' <=> Dismissed(t)
    BY <2>1, SameKnown
  <2>3. \A t \in Terms : t \in Live <=> fate[t] = "live"
    BY DEF Live
  <2>4. \A t \in Terms : fate[t] \in {"unborn", "live", "closed"}
    BY <1>0
  <2> QED BY <2>1, <2>2, <2>3, <2>4 DEF OnceOnly
<1>7. CASE Change
  <2>1. /\ UNCHANGED <<up, down, subs, queue, phase, cached, answer, request>>
        /\ \E u \in Terms : \/ fate[u] = "unborn" /\ fate' = [fate EXCEPT ![u] = "live"]
                            \/ fate[u] = "live" /\ fate' = [fate EXCEPT ![u] = "closed"]
    BY <1>7 DEF Change, ChangeTerminal
  <2>2. \A t \in Terms : /\ Known(t)' <=> Known(t)
                         /\ Dismissed(t)' <=> Dismissed(t)
    BY <2>1, SameKnown
  <2>3. \A t \in Terms : /\ fate[t] # "unborn" => fate'[t] # "unborn"
                         /\ fate[t] = "closed" => fate'[t] = "closed"
    BY <2>1, <1>0
  <2> QED BY <2>1, <2>2, <2>3 DEF OnceOnly
<1>8. CASE Type \/ Write
  <2>1. /\ UNCHANGED <<down, subs, fate, phase, cached, answer, request>>
        /\ \A kind \in {"subscribe", "unsubscribe"} : \A t :
             Says(queue', kind, t) \/ Says(up', kind, t) => Says(queue, kind, t) \/ Says(up, kind, t)
    <3>1. CASE Type
      <4>1. PICK u \in wired : queue' = Enqueue(queue, [kind |-> "text", term |-> u])
        BY <3>1 DEF Type
      <4> DEFINE m == [kind |-> "text", term |-> u]
      <4>2. m \in QueueMessages /\ m.kind = "text"
        BY <1>0 DEF QueueMessages
      <4> HIDE DEF m
      <4>3. \A kind \in {"subscribe", "unsubscribe"} : \A t : Says(queue', kind, t) => Says(queue, kind, t)
        BY <4>1, <4>2, <1>0, SaysEnqueued DEF m
      <4> QED BY <3>1, <4>3 DEF Type, serverVars, sessionVars, uiVars
    <3>2. CASE Write
      <4> DEFINE h == Head(queue)
                 m == IF h.kind = "text" /\ streams[h.term] # 0
                      THEN [kind |-> "input", id |-> streams[h.term], term |-> h.term] ELSE h
      <4>1. queue # <<>> /\ queue' = Tail(queue) /\ up' = Append(up, m) /\ h \in QueueMessages
        BY <3>2, <1>0 DEF Write
      <4>2. /\ m \in UpMessages
            /\ \A kind \in {"subscribe", "unsubscribe"} : m.kind = kind => h.kind = kind /\ m = h
        <5>1. h \in QueueMessages /\ streams \in [Terms -> Nat]
          BY <4>1 DEF StreamInv, WireOK
        <5>2. h.kind = "text" => h.term \in Terms
          BY <5>1 DEF QueueMessages
        <5>3. CASE h.kind = "text" /\ streams[h.term] # 0
          BY <5>1, <5>2, <5>3 DEF UpMessages
        <5>4. CASE ~(h.kind = "text" /\ streams[h.term] # 0)
          BY <5>1, <5>4 DEF UpMessages
        <5> QED BY <5>3, <5>4
      <4> HIDE DEF m, h
      <4>3. \A kind \in {"subscribe", "unsubscribe"} : \A t :
              Says(up', kind, t) => Says(up, kind, t) \/ (h.kind = kind /\ t \in h.ids)
        BY <4>1, <4>2, <1>0, SaysAppended
      <4>4. \A kind, t : Says(queue, kind, t) <=> Says(queue', kind, t) \/ (h.kind = kind /\ t \in h.ids)
        BY <4>1, <1>0, SaysTailed DEF h
      <4> QED BY <3>2, <4>3, <4>4 DEF Write, sessionVars, uiVars
    <3> QED BY <1>8, <3>1, <3>2
  <2>2. \A t : Framed(t)' <=> Framed(t)
    BY <2>1 DEF Framed, FrameOf
  <2>3. \A t \in Terms : (Known(t)' => Known(t)) /\ (Dismissed(t)' => Dismissed(t))
    BY <2>1, <2>2, <1>00 DEF Known, Requested, Dismissed, Subscribed
  <2> QED BY <2>1, <2>3, KnowsNoMore
<1>9. CASE FirstState
  <2> DEFINE m == [kind |-> "subscribe", ids |-> answer]
  <2>1. /\ UNCHANGED <<down, subs, fate, queue>> /\ cached' = answer /\ answer' = {}
        /\ phase = "fetching" /\ request = "answered" /\ phase' = "open" /\ request' = "none"
        /\ up' = up \/ up' = Append(up, m)
    BY <1>9 DEF FirstState, sessionVars, uiVars
  <2>2. m \in UpMessages /\ m.kind = "subscribe" /\ m.ids = answer
    BY <1>0 DEF UpMessages, QueueMessages
  <2> HIDE DEF m
  <2>3. \A kind, t : Says(up', kind, t) => Says(up, kind, t) \/ (kind = "subscribe" /\ t \in answer)
    <3>1. \A kind, t : Says(Append(up, m), kind, t) <=> (Says(up, kind, t) \/ (m.kind = kind /\ t \in m.ids))
      BY <2>2, <1>0, SaysAppended
    <3>2. CASE up' = up
      BY <3>2
    <3>3. CASE up' = Append(up, m)
      BY <3>1, <3>3, <2>2
    <3> QED BY <2>1, <3>2, <3>3
  <2>4. \A t : Framed(t)' <=> Framed(t)
    BY <2>1 DEF Framed, FrameOf
  <2>5. \A t \in Terms : /\ Known(t)' => Known(t) \/ t \in answer
                         /\ Dismissed(t)' => Dismissed(t)
    BY <2>1, <2>3, <2>4, <1>00 DEF Known, Requested, Dismissed, Subscribed
  <2> QED BY <2>1, <2>5 DEF OnceOnly
<1>10. CASE NewState
  <2> DEFINE sub == [kind |-> "subscribe", ids |-> Added]
             unsub == [kind |-> "unsubscribe", ids |-> Removed]
             told == IF Added = {} THEN queue ELSE Enqueue(queue, sub)
  <2>1. /\ UNCHANGED <<up, down, subs, fate, phase>> /\ cached' = answer /\ answer' = {}
        /\ phase = "open" /\ request = "answered" /\ request' = "none"
        /\ queue' = IF Removed = {} THEN told ELSE Enqueue(told, unsub)
    BY <1>10 DEF NewState, serverVars, sessionVars, uiVars
  <2>2. /\ sub \in QueueMessages /\ unsub \in QueueMessages
        /\ sub.kind = "subscribe" /\ sub.ids = Added /\ unsub.kind = "unsubscribe" /\ unsub.ids = Removed
    BY <1>0 DEF QueueMessages, Added, Removed
  <2> HIDE DEF sub, unsub
  <2>3. /\ told \in Seq(QueueMessages)
        /\ \A kind, t : Says(told, kind, t) => Says(queue, kind, t) \/ (kind = "subscribe" /\ t \in Added)
    BY <2>2, <1>0, SaysEnqueued
  <2> HIDE DEF told
  <2>4. \A kind, t : Says(queue', kind, t) => Says(told, kind, t) \/ (kind = "unsubscribe" /\ t \in Removed)
    BY <2>1, <2>2, <2>3, SaysEnqueued
  <2>5. \A t : Framed(t)' <=> Framed(t)
    BY <2>1 DEF Framed, FrameOf
  <2>6. \A t \in Terms : /\ Known(t)' => Known(t) \/ t \in answer
                         /\ Dismissed(t)' => Dismissed(t) \/ (t \in cached /\ t \notin answer)
    <3>1. \A t : /\ Says(queue', "subscribe", t) => Says(queue, "subscribe", t) \/ t \in Added
                 /\ Says(queue', "unsubscribe", t) => Says(queue, "unsubscribe", t) \/ t \in Removed
      BY <2>3, <2>4
    <3> QED BY <2>1, <2>5, <3>1, <1>00 DEF Known, Requested, Dismissed, Subscribed, Added, Removed
  <2> QED BY <2>1, <2>6 DEF OnceOnly
<1> QED BY <1>1, <1>2, <1>3, <1>4, <1>5, <1>6, <1>7, <1>8, <1>9, <1>10 DEF Next, Reader, Surroundings

-----------------------------------------------------------------------------
(* The client follows the state.                                           *)

LEMMA FollowedStill ==
  ASSUME StateFollowed, fate' = fate, link' # "down" => link # "down" /\ (~Untold' => ~Untold),
         (phase' = "open" /\ request' = "none" /\ ~missed') =>
           phase = "open" /\ request = "none" /\ ~missed /\ cached' = cached,
         (request' = "answered" /\ (phase' = "open" \/ ~missed')) =>
           request = "answered" /\ (phase = "open" \/ ~missed) /\ answer' = answer
  PROVE  StateFollowed'
BY DEF StateFollowed, Live

\* The server's session hides no change.
LEMMA SessionTells ==
  ASSUME StreamInv, HistoryOK, ClientOK, ServerStep
  PROVE  /\ fate' = fate /\ (link' # "down") = (link # "down")
         /\ Untold => Untold'
<1>0. down \in Seq(DownMessages)
  BY WiresTyped
<1>1. ASSUME NEW f \in Seq(DownMessages), down' = down \o f,
             \E k \in DOMAIN down : down[k].kind = "changed"
      PROVE  \E k \in DOMAIN down' : down'[k].kind = "changed"
  BY <1>0, <1>1, Joined
<1>2. ASSUME NEW m, m \in DownMessages, down' = Append(down, m),
             \E k \in DOMAIN down : down[k].kind = "changed"
      PROVE  \E k \in DOMAIN down' : down'[k].kind = "changed"
  BY <1>0, <1>2, Appended
<1>3. CASE Watch
  BY <1>3 DEF Watch, uiVars, Untold, ClientOK, SessionShape
<1>4. CASE Unsubscribe \/ Input \/ Resync \/ Drain
  BY <1>4 DEF Unsubscribe, Input, Resync, Drain, sessionVars, uiVars, Untold
<1>5. CASE Subscribe
  <2> DEFINE m == [kind |-> "subscribed", map |-> [t \in Head(up).ids |-> subs'[t]]]
  <2>1. fate' = fate /\ link' = link /\ news' = news /\ down' = Append(down, m)
    BY <1>5 DEF Subscribe, uiVars
  <2> HIDE DEF m
  <2>2. ASSUME NEW k \in DOMAIN down, down[k].kind = "changed" PROVE k \in DOMAIN down' /\ down'[k] = down[k]
    BY <1>0, <2>1
  <2> QED BY <2>1, <2>2 DEF Untold
<1>6. CASE PushNews
  <2> DEFINE m == [kind |-> "changed"]
  <2>1. fate' = fate /\ link' = link /\ down' = Append(down, m)
    BY <1>6 DEF PushNews, uiVars
  <2>2. m \in DownMessages /\ m.kind = "changed"
    BY DEF DownMessages
  <2> HIDE DEF m
  <2>3. Len(down) + 1 \in DOMAIN down' /\ down'[Len(down) + 1] = m
    BY <2>1, <2>2, <1>0, Appended
  <2> QED BY <2>1, <2>2, <2>3 DEF Untold
<1>7. CASE Forward
  <2>1. PICK f \in Seq(Frames) : down' = down \o f
    BY <1>7, Forwarded
  <2>2. f \in Seq(DownMessages)
    BY DEF DownMessages
  <2>3. fate' = fate /\ link' = link /\ news' = news
    BY <1>7 DEF Forward, uiVars
  <2> QED BY <2>1, <2>2, <2>3, <1>1 DEF Untold
<1>8. ASSUME NEW u \in Terms, DrawSnapshot(u) \/ SkipSnapshot(u)
      PROVE  /\ fate' = fate /\ link' = link /\ (Untold => Untold')
  <2> DEFINE m == [kind |-> "snapshot", id |-> subs[u], term |-> u, chunk |-> shown[u]]
  <2>1. fate' = fate /\ link' = link /\ news' = news /\ (down' = Append(down, m) \/ down' = down)
    BY <1>8 DEF DrawSnapshot, SkipSnapshot, uiVars
  <2> HIDE DEF m
  <2>2. ASSUME NEW k \in DOMAIN down, down[k].kind = "changed" PROVE k \in DOMAIN down' /\ down'[k] = down[k]
    BY <1>0, <2>1
  <2> QED BY <2>1, <2>2 DEF Untold
<1> QED BY <1>3, <1>4, <1>5, <1>6, <1>7, <1>8 DEF ServerStep

LEMMA FollowedKept == StreamInv /\ HistoryOK /\ ClientOK /\ StateFollowed /\ [Next]_vars => StateFollowed'
<1> SUFFICES ASSUME StreamInv, HistoryOK, ClientOK, StateFollowed, [Next]_vars PROVE StateFollowed'
  OBVIOUS
<1>0. down \in Seq(DownMessages) /\ SessionShape
  BY WiresTyped DEF ClientOK
<1>1. CASE Server
  <2>1. UNCHANGED <<phase, request, missed, cached, answer>>
    BY <1>1 DEF Server, clientVars
  <2> QED BY <1>1, <2>1, SessionTells, FollowedStill DEF Server
<1>2. CASE UIThread \/ Produce \/ Type \/ Write \/ Pair \/ UNCHANGED vars
  <2>1. /\ UNCHANGED <<fate, link, news, down, request, missed, cached, answer>>
        /\ phase' = phase \/ (phase = "pairing" /\ phase' = "dialing")
    BY <1>2 DEF UIThread, ShowOutput, Produce, Output, Type, Write, Pair, vars, serverVars, sessionVars,
       uiVars, clientVars
  <2>2. Untold' <=> Untold
    BY <2>1 DEF Untold
  <2>3. phase = "pairing" => request = "none"
    BY <1>0 DEF SessionShape
  <2> QED BY <2>1, <2>2, <2>3, FollowedStill
<1>3. CASE Dial \/ SessionLost \/ Break \/ Refused \/ DialFails \/ Reconnect
  <2>1. \/ link' = "down"
        \/ request' = "asked"
    BY <1>3 DEF Dial, SessionLost, Break, Refused, DialFails, Reconnect, Hangup, serverVars, sessionVars
  <2> QED BY <2>1 DEF StateFollowed
<1>4. CASE LearnStreams \/ ShowFrame
  <2>1. /\ UNCHANGED <<fate, link, news, phase, request, missed, cached, answer>>
        /\ down # <<>> /\ down' = Tail(down) /\ Head(down).kind # "changed"
    BY <1>4 DEF LearnStreams, ShowFrame, Reads, sessionVars, uiVars
  <2>2. Untold => Untold'
    <3>1. /\ Head(down) = down[1]
          /\ \A k \in DOMAIN down : k # 1 => k - 1 \in DOMAIN Tail(down) /\ down[k] = Tail(down)[k - 1]
      BY <1>0, <2>1, Tailed
    <3> QED BY <2>1, <3>1 DEF Untold
  <2> QED BY <2>1, <2>2, FollowedStill
<1>5. CASE Refetch
  BY <1>5 DEF Refetch, StateFollowed
<1>6. CASE Answer
  <2>1. answer' = Live /\ request' = "answered" /\ fate' = fate
    BY <1>6 DEF Answer, serverVars, uiVars
  <2> QED BY <2>1 DEF StateFollowed, Live
<1>7. CASE FirstState
  <2>1. /\ UNCHANGED <<fate, link, news, down, missed>> /\ phase = "fetching" /\ request = "answered"
        /\ request' = "none" /\ cached' = answer
    BY <1>7 DEF FirstState, sessionVars, uiVars
  <2>2. Untold' <=> Untold
    BY <2>1 DEF Untold
  <2> QED BY <2>1, <2>2 DEF StateFollowed, Live
<1>8. CASE NewState
  <2>1. /\ UNCHANGED <<fate, link, news, down>> /\ phase = "open" /\ request = "answered"
        /\ request' = "none" /\ cached' = answer
    BY <1>8 DEF NewState, serverVars, sessionVars, uiVars
  <2>2. Untold' <=> Untold
    BY <2>1 DEF Untold
  <2> QED BY <2>1, <2>2 DEF StateFollowed, Live
<1>9. CASE RefetchFails
  BY <1>9 DEF RefetchFails, StateFollowed
<1>10. CASE Change
  <2>1. /\ UNCHANGED <<link, down, phase, request, cached, answer>>
        /\ news' = IF news = "off" THEN "off" ELSE "unseen"
        /\ missed' = (missed \/ (news = "off" /\ (phase = "open" \/ request = "answered")))
    BY <1>10 DEF Change, ChangeTerminal, Announce
  <2>2. CASE news # "off"
    BY <2>1, <2>2 DEF StateFollowed, Untold
  <2>3. CASE news = "off"
    <3>1. (phase = "open" \/ request = "answered") => missed'
      BY <2>1, <2>3
    <3>2. link # "down" => ~(phase = "open" /\ request = "answered")
      BY <1>0, <2>3 DEF SessionShape, ClientOK, TasksOK
    <3> QED BY <2>1, <3>1, <3>2 DEF StateFollowed
  <2> QED BY <2>2, <2>3
<1> QED BY <1>1, <1>2, <1>3, <1>4, <1>5, <1>6, <1>7, <1>8, <1>9, <1>10 DEF Next, Reader, Surroundings

LEMMA RequestedStill ==
  ASSUME AllRequested, (phase' = "open" /\ link' # "down") => phase = "open" /\ link # "down",
         cached' \cap Live' \subseteq cached \cap Live, deaf \subseteq deaf',
         \A t \in cached' \cap Live' :
           t \in Subscribed \/ Requested(t) => t \in Subscribed' \/ Requested(t)'
  PROVE  AllRequested'
BY DEF AllRequested

\* The session takes a request away when it serves it, and serves an end of a
\* subscription for what was closed.
LEMMA SessionServes ==
  ASSUME StreamInv, OnceOnly, ServerStep, UNCHANGED queue
  PROVE  \A t \in Live : t \in Subscribed \/ Requested(t) => t \in Subscribed' \/ Requested(t)'
<1>0. up \in Seq(UpMessages) /\ queue \in Seq(QueueMessages) /\ subs \in [Terms -> Nat] /\ nextId \in Nat \ {0}
  BY WiresTyped DEF StreamInv, WireOK
<1>00. \A kind, t : /\ Says(up, kind, t)' <=> Says(up', kind, t)
                    /\ Says(queue, kind, t)' <=> Says(queue, kind, t)
  BY DEF Says
<1>1. ASSUME up # <<>>, up' = Tail(up), NEW kind, NEW t
      PROVE  Says(up, kind, t) <=> (Says(up', kind, t) \/ (Head(up).kind = kind /\ t \in Head(up).ids))
  BY <1>0, <1>1, SaysTailed
<1>2. CASE Watch \/ PushNews \/ Forward \/ Resync \/ Drain \/ \E t \in Terms : DrawSnapshot(t) \/ SkipSnapshot(t)
  <2>1. UNCHANGED <<up, subs>>
    BY <1>2 DEF Watch, PushNews, Forward, Resync, Drain, DrawSnapshot, SkipSnapshot
  <2> QED BY <2>1, <1>00 DEF Subscribed, Requested
<1>3. CASE Input
  <2>1. up # <<>> /\ up' = Tail(up) /\ subs' = subs /\ Head(up).kind # "subscribe"
    BY <1>3 DEF Input, Receives, sessionVars
  <2> QED BY <2>1, <1>00, <1>1 DEF Subscribed, Requested
<1>4. CASE Unsubscribe
  <2>1. /\ up # <<>> /\ up' = Tail(up) /\ Head(up).kind = "unsubscribe"
        /\ subs' = [t \in Terms |-> IF t \in Head(up).ids THEN 0 ELSE subs[t]]
    BY <1>4 DEF Unsubscribe, Receives
  <2>2. ASSUME NEW t \in Live PROVE t \notin Head(up).ids
    <3>1. t \in Head(up).ids => Dismissed(t)
      BY <2>1, <1>1 DEF Dismissed
    <3>2. t \in Terms /\ fate[t] # "closed"
      BY DEF Live
    <3> QED BY <3>1, <3>2 DEF OnceOnly
  <2>3. \A t \in Live : t \in Subscribed => t \in Subscribed'
    BY <2>1, <2>2 DEF Subscribed
  <2> QED BY <2>1, <2>3, <1>00, <1>1 DEF Requested
<1>5. CASE Subscribe
  <2>1. up # <<>> /\ up' = Tail(up) /\ subs' = Numbered(Head(up).ids) /\ Head(up).ids \subseteq Terms
    <3>1. up # <<>> /\ up' = Tail(up) /\ subs' = Numbered(Head(up).ids) /\ Head(up).kind = "subscribe"
      BY <1>5 DEF Subscribe, Receives
    <3>2. Head(up) \in UpMessages
      BY <3>1, <1>0, Tailed
    <3> QED BY <3>1, <3>2 DEF UpMessages, QueueMessages
  <2>2. \A t \in Terms : t \in Head(up).ids => subs'[t] # 0
    <3> DEFINE ids == Head(up).ids
               new == {t \in ids : subs[t] = 0}
    <3>1. \A t \in ids : subs[t] # 0 => subs'[t] # 0
      BY <2>1 DEF Numbered
    <3>2. ASSUME NEW t \in new PROVE subs'[t] # 0
      <4>1. IsFiniteSet(new)
        BY <2>1, FiniteTerms
      <4>2. \E i \in 1..Len(SetToSeq(new)) : SetToSeq(new)[i] = t
        BY <4>1, SequenceOfSet
      <4>3. (CHOOSE i \in 1..Len(SetToSeq(new)) : SetToSeq(new)[i] = t) \in 1..Len(SetToSeq(new))
        BY <4>2
      <4>4. subs'[t] = nextId - 1 + CHOOSE i \in 1..Len(SetToSeq(new)) : SetToSeq(new)[i] = t
        BY <2>1 DEF Numbered
      <4> HIDE DEF new
      <4> QED BY <4>3, <4>4, <1>0
    <3> QED BY <3>1, <3>2
  <2>3. \A t \in Terms : subs[t] # 0 => subs'[t] # 0
    BY <2>1, <2>2 DEF Numbered
  <2> QED BY <2>1, <2>2, <2>3, <1>00, <1>1 DEF Requested, Subscribed, Live
<1> QED BY <1>2, <1>3, <1>4, <1>5 DEF ServerStep

LEMMA RequestedKept ==
  StreamInv /\ HistoryOK /\ ClientOK /\ OnceOnly /\ AllRequested /\ [Next]_vars => AllRequested'
<1> SUFFICES ASSUME StreamInv, HistoryOK, ClientOK, OnceOnly, AllRequested, [Next]_vars PROVE AllRequested'
  OBVIOUS
<1>0. /\ up \in Seq(UpMessages) /\ queue \in Seq(QueueMessages)
      /\ answer \subseteq Terms /\ cached \subseteq Terms /\ wired \subseteq Terms
      /\ fate \in [Terms -> {"unborn", "live", "closed"}] /\ Len(queue) <= QueueSize /\ Len(queue) \in Nat
      /\ QueueSize \in Nat
  BY WiresTyped, ClientAssumption DEF StreamInv, WireOK, ClientOK, TermsOK, SizesOK
<1>00. \A kind, t : /\ Says(up, kind, t)' <=> Says(up', kind, t)
                    /\ Says(queue, kind, t)' <=> Says(queue', kind, t)
  BY DEF Says
<1>1. CASE Server
  <2>1. UNCHANGED <<phase, cached, deaf, queue>>
    BY <1>1 DEF Server, clientVars
  <2>2. fate' = fate /\ (link' # "down") = (link # "down")
    BY <1>1, SessionTells DEF Server
  <2>3. Live' = Live
    BY <2>2 DEF Live
  <2> QED BY <1>1, <2>1, <2>2, <2>3, SessionServes, RequestedStill DEF Server
<1>2. CASE UIThread \/ Produce \/ LearnStreams \/ ShowFrame \/ Refetch \/ Answer \/ RefetchFails \/ UNCHANGED vars
  <2>1. UNCHANGED <<fate, link, phase, up, subs, queue, cached, deaf>>
    BY <1>2 DEF UIThread, ShowOutput, Produce, Output, LearnStreams, ShowFrame, Refetch, Answer,
       RefetchFails, vars, serverVars, sessionVars, uiVars, clientVars
  <2> QED BY <2>1, <1>00 DEF AllRequested, Live, Subscribed, Requested
<1>3. CASE Dial \/ SessionLost \/ Break \/ Refused \/ DialFails \/ Reconnect \/ Pair
  <2>1. link' = "down" \/ phase' # "open"
    BY <1>3 DEF Dial, SessionLost, Retry, Break, Refused, DialFails, Reconnect, Pair, Hangup, serverVars,
       sessionVars
  <2> QED BY <2>1 DEF AllRequested
<1>4. CASE Change
  <2>1. /\ UNCHANGED <<up, subs, queue, phase, cached, deaf, link>>
        /\ \E u \in Terms : \/ fate[u] = "unborn" /\ fate' = [fate EXCEPT ![u] = "live"]
                            \/ fate[u] = "live" /\ fate' = [fate EXCEPT ![u] = "closed"]
    BY <1>4 DEF Change, ChangeTerminal
  <2>2. \A t \in Terms : fate'[t] = "live" => fate[t] = "live" \/ fate[t] = "unborn"
    BY <2>1, <1>0
  <2>3. \A t \in cached : t \in Live' => t \in Live
    BY <2>2, <1>0 DEF Live, OnceOnly
  <2>4. \A t : (Requested(t)' <=> Requested(t)) /\ (t \in Subscribed' <=> t \in Subscribed)
    BY <2>1, <1>00 DEF Requested, Subscribed
  <2> QED BY <2>1, <2>3, <2>4 DEF AllRequested
<1>5. CASE Type
  <2>1. PICK u \in wired : queue' = Enqueue(queue, [kind |-> "text", term |-> u])
    BY <1>5 DEF Type
  <2> DEFINE m == [kind |-> "text", term |-> u]
  <2>2. m \in QueueMessages
    BY <1>0 DEF QueueMessages
  <2>3. \A kind, t : Says(queue, kind, t) => Says(queue', kind, t)
    BY <2>1, <2>2, <1>0, SaysEnqueued
  <2>4. UNCHANGED <<fate, link, phase, up, subs, cached, deaf>>
    BY <1>5 DEF Type, serverVars, sessionVars, uiVars
  <2> QED BY <2>3, <2>4, <1>00 DEF AllRequested, Live, Subscribed, Requested
<1>6. CASE Write
  <2> DEFINE h == Head(queue)
             m == IF h.kind = "text" /\ streams[h.term] # 0
                  THEN [kind |-> "input", id |-> streams[h.term], term |-> h.term] ELSE h
  <2>1. queue # <<>> /\ queue' = Tail(queue) /\ up' = Append(up, m) /\ h \in QueueMessages
    BY <1>6, <1>0 DEF Write
  <2>2. m \in UpMessages /\ (h.kind = "subscribe" => m = h)
    <3>1. streams \in [Terms -> Nat]
      BY DEF StreamInv, WireOK
    <3>2. h.kind = "text" => h.term \in Terms
      BY <2>1 DEF QueueMessages
    <3> QED BY <2>1, <3>1, <3>2 DEF UpMessages
  <2> HIDE DEF m, h
  <2>3. \A t : Says(up', "subscribe", t) <=> Says(up, "subscribe", t) \/ (m.kind = "subscribe" /\ t \in m.ids)
    BY <2>1, <2>2, <1>0, SaysAppended
  <2>4. \A t : Says(queue, "subscribe", t) <=> Says(queue', "subscribe", t) \/ (h.kind = "subscribe" /\ t \in h.ids)
    BY <2>1, <1>0, SaysTailed DEF h
  <2>5. UNCHANGED <<fate, link, phase, subs, cached, deaf>>
    BY <1>6 DEF Write, sessionVars, uiVars
  <2> QED BY <2>2, <2>3, <2>4, <2>5, <1>00 DEF AllRequested, Live, Subscribed, Requested
<1>7. CASE FirstState
  <2> DEFINE m == [kind |-> "subscribe", ids |-> answer]
  <2>1. /\ cached' = answer /\ link' = link
        /\ answer = {} \/ link = "down" \/ up' = Append(up, m)
    BY <1>7 DEF FirstState, sessionVars
  <2>2. m \in UpMessages /\ m.kind = "subscribe" /\ m.ids = answer
    BY <1>0 DEF UpMessages, QueueMessages
  <2> HIDE DEF m
  <2>3. \A t : Says(Append(up, m), "subscribe", t) <=> Says(up, "subscribe", t) \/ t \in answer
    BY <2>2, <1>0, SaysAppended
  <2> QED BY <2>1, <2>3, <1>00 DEF AllRequested, Requested
<1>8. CASE NewState
  <2> DEFINE sub == [kind |-> "subscribe", ids |-> Added]
             unsub == [kind |-> "unsubscribe", ids |-> Removed]
             told == IF Added = {} THEN queue ELSE Enqueue(queue, sub)
  <2>1. /\ UNCHANGED <<fate, link, phase, up, subs>> /\ cached' = answer /\ phase = "open"
        /\ queue' = IF Removed = {} THEN told ELSE Enqueue(told, unsub)
        /\ deaf' = IF Added # {} /\ Len(queue) = QueueSize THEN deaf \cup Added ELSE deaf
    BY <1>8 DEF NewState, serverVars, sessionVars, uiVars
  <2>2. /\ sub \in QueueMessages /\ unsub \in QueueMessages
        /\ sub.kind = "subscribe" /\ sub.ids = Added /\ unsub.kind = "unsubscribe" /\ unsub.ids = Removed
    BY <1>0 DEF QueueMessages, Added, Removed
  <2> HIDE DEF sub, unsub
  <2>3. /\ told \in Seq(QueueMessages)
        /\ \A t : Says(queue, "subscribe", t) => Says(told, "subscribe", t)
        /\ Len(queue) # QueueSize => \A t \in Added : Says(told, "subscribe", t)
    <3>1. Len(queue) # QueueSize => Len(queue) < QueueSize
      BY <1>0
    <3> QED BY <2>2, <3>1, <1>0, SaysEnqueued
  <2> HIDE DEF told
  <2>4. \A t : Says(told, "subscribe", t) => Says(queue', "subscribe", t)
    BY <2>1, <2>2, <2>3, SaysEnqueued
  <2>5. \A t \in Added : t \in deaf' \/ Requested(t)'
    BY <2>1, <2>3, <2>4, <1>00 DEF Requested
  <2>6. \A t : Requested(t) => Requested(t)'
    BY <2>1, <2>3, <2>4, <1>00 DEF Requested
  <2>7. deaf \subseteq deaf'
    BY <2>1
  <2> QED BY <2>1, <2>5, <2>6, <2>7 DEF AllRequested, Live, Subscribed, Added
<1> QED BY <1>1, <1>2, <1>3, <1>4, <1>5, <1>6, <1>7, <1>8 DEF Next, Reader, Surroundings

-----------------------------------------------------------------------------
(* The numbers of chunks.                                                  *)

ChunksOf(m)   == IF m.kind = "snapshot" THEN {m.chunk} ELSE m.chunks
Newest(m, n)  == n \in ChunksOf(m) /\ \A c \in ChunksOf(m) : c <= n
Fresh(m)      == m.kind = "output" /\ ~m.replayed

\* Chunks are numbered as they are published, and the bus keeps the newest of a
\* terminal if it keeps any.
BusBounded ==
  \A k \in DOMAIN bus :
    /\ bus[k][2] <= out[bus[k][1]]
    /\ \E l \in k..Len(bus) : bus[l] = <<bus[k][1], out[bus[k][1]]>>

FramesBounded ==
  \A k \in DOMAIN down : IsFrame(down[k]) =>
    \E n \in Nat : n <= out[down[k].term] /\ Newest(down[k], n)

ScreensBounded ==
  screen \in [Terms -> Nat] /\ \A t \in Terms : shown[t] <= out[t] /\ screen[t] <= out[t]

\* A fresh frame is newer than the screen it is for and than every frame before
\* it; so is what the bus holds when the next frames are made of it.
FramesNewer ==
  \A k \in DOMAIN down : Fresh(down[k]) => \A c \in down[k].chunks :
    /\ screen[down[k].term] < c
    /\ \A j \in 1..(k - 1) : FrameOf(down[j], down[k].term) => \A d \in ChunksOf(down[j]) : d < c

BusNewer ==
  (~busy /\ ~replay) => \A i \in DOMAIN bus :
    /\ screen[bus[i][1]] < bus[i][2]
    /\ \A j \in DOMAIN down : FrameOf(down[j], bus[i][1]) => \A d \in ChunksOf(down[j]) : d < bus[i][2]

\* Where a terminal of the client stands when k more messages are read.
Stands(t, k, n) ==
  \/ n = screen[t] /\ \A l \in 1..k : ~FrameOf(down[l], t)
  \/ \E j \in 1..k : /\ FrameOf(down[j], t) /\ Newest(down[j], n)
                     /\ \A l \in (j + 1)..k : ~FrameOf(down[l], t)

\* A fresh frame without a hole goes on where the terminal stands; so does the
\* bus for a subscribed terminal without a gap.
FramesContinue ==
  \A t \in reg, k \in DOMAIN down, n \in Nat :
    (Fresh(down[k]) /\ down[k].term = t /\ ~down[k].holed /\ Stands(t, k - 1, n))
      => n + 1 \in down[k].chunks

BusContinues ==
  \A t \in reg, k \in {Len(down)}, n \in Nat :
    (t \in Subscribed \ drawing /\ ~gap[t] /\ Stands(t, k, n))
      => \A c \in Nat : (n < c /\ c <= out[t]) => c \in OnBus(t)

OutputInv ==
  /\ BusBounded /\ FramesBounded /\ ScreensBounded /\ FramesNewer /\ BusNewer
  /\ FramesContinue /\ BusContinues

LEMMA NewestOnBus ==
  ASSUME StreamInv, BusBounded, NEW t \in Terms, OnBus(t) # {}
  PROVE  out[t] \in OnBus(t) /\ OnBus(t) \subseteq Nat /\ \A c \in OnBus(t) : c <= out[t]
<1>1. bus \in Seq(Terms \X Nat) /\ out[t] \in Nat /\ Len(bus) \in Nat /\ DOMAIN bus = 1..Len(bus)
  BY DEF StreamInv, WireOK
<1>2. \A j \in DOMAIN bus : bus[j][2] \in Nat
  BY <1>1
<1>3. PICK k \in DOMAIN bus : bus[k][1] = t
  BY DEF OnBus
<1>4. PICK l \in k..Len(bus) : bus[l] = <<t, out[t]>>
  BY <1>3 DEF BusBounded
<1>5. l \in DOMAIN bus /\ bus[l][1] = t /\ bus[l][2] = out[t]
  BY <1>1, <1>3, <1>4
<1> QED BY <1>2, <1>5 DEF OnBus, BusBounded

LEMMA FrameTyped ==
  ASSUME StreamInv, NEW k \in DOMAIN down, IsFrame(down[k])
  PROVE  /\ down[k].term \in Terms /\ down[k].id \in Nat /\ ChunksOf(down[k]) \subseteq Nat
         /\ (down[k].kind = "output" =>
               down[k].chunks = ChunksOf(down[k]) /\ down[k].holed \in BOOLEAN /\ down[k].replayed \in BOOLEAN)
<1>1. down[k] \in DownMessages
  BY DEF StreamInv, WireOK
<1> QED BY <1>1 DEF DownMessages, Frames, IsFrame, ChunksOf

\* Steps that leave output alone.
OutputVars == <<out, shown, bus, down, screen, busy, replay, subs, drawing, gap, reg>>

LEMMA OutputUntouched == ASSUME OutputInv, UNCHANGED OutputVars PROVE OutputInv'
<1> USE DEF OutputVars
<1>1. BusBounded' /\ FramesBounded' /\ ScreensBounded'
  BY DEF OutputInv, BusBounded, FramesBounded, ScreensBounded
<1>2. FramesNewer' /\ BusNewer'
  BY DEF OutputInv, FramesNewer, BusNewer
<1>3. \A t, k, n : Stands(t, k, n)' <=> Stands(t, k, n)
  BY DEF Stands
<1>4. FramesContinue' /\ BusContinues'
  BY <1>3 DEF OutputInv, FramesContinue, BusContinues, Subscribed, OnBus
<1> QED BY <1>1, <1>2, <1>4 DEF OutputInv

LEMMA QuietSteps ==
  ASSUME OutputInv,
         \/ Change \/ Type \/ Answer \/ Write \/ RefetchFails \/ Pair \/ SessionLost \/ Dial
         \/ (UNCHANGED clientVars /\ (Watch \/ Input)) \/ UNCHANGED vars
  PROVE  OutputInv'
<1>1. UNCHANGED OutputVars
  <2>1. CASE Change \/ Dial
    BY <2>1 DEF Change, ChangeTerminal, Dial, OutputVars, uiVars
  <2>2. CASE Type \/ Answer \/ RefetchFails \/ Pair \/ SessionLost
    BY <2>2 DEF Type, Answer, RefetchFails, Pair, SessionLost, OutputVars, uiVars, serverVars, sessionVars
  <2>3. CASE Write \/ (UNCHANGED clientVars /\ (Watch \/ Input)) \/ UNCHANGED vars
    BY <2>3 DEF Write, clientVars, Watch, Input, vars, OutputVars, uiVars, serverVars, sessionVars
  <2> QED BY <2>1, <2>2, <2>3
<1> QED BY <1>1, OutputUntouched

LEMMA SessionEnds ==
  ASSUME StreamInv, ClientOK, OutputInv, Break \/ Refused \/ DialFails \/ Reconnect
  PROVE  OutputInv'
<1>1. Hangup \/ (link = "down" /\ UNCHANGED serverVars)
  BY DEF Break, Refused, DialFails, Reconnect
<1>2. down' = <<>> /\ bus' = <<>> /\ Subscribed' = {} /\ out' = out /\ shown' = shown
  <2>1. CASE Hangup
    BY <2>1 DEF Hangup, Subscribed, uiVars
  <2>2. CASE link = "down" /\ UNCHANGED serverVars
    <3>1. bus = <<>>
      BY <2>2 DEF ClientOK, SessionShape
    <3> QED BY <2>2, <3>1 DEF serverVars, sessionVars, uiVars, StreamInv, SilentWhenDown, Subscribed
  <2> QED BY <1>1, <2>1, <2>2
<1>3. screen' = screen \/ screen' = [t \in Terms |-> 0]
  BY DEF Break, Refused, DialFails, Reconnect
<1>4. out \in [Terms -> Nat] /\ shown \in [Terms -> Nat] /\ ScreensBounded
  BY DEF StreamInv, WireOK, OutputInv
<1>5. ScreensBounded'
  BY <1>2, <1>3, <1>4 DEF ScreensBounded
<1>6. BusBounded' /\ FramesBounded' /\ FramesNewer' /\ BusNewer'
  BY <1>2 DEF BusBounded, FramesBounded, FramesNewer, BusNewer
<1>7. FramesContinue' /\ BusContinues'
  BY <1>2 DEF FramesContinue, BusContinues
<1> QED BY <1>5, <1>6, <1>7 DEF OutputInv

-----------------------------------------------------------------------------
(* The client reads.                                                       *)

\* What reading a message does to the screens: only a frame changes one, to its
\* newest chunk.
ReadsInto(t) ==
  IF FrameOf(Head(down), t) /\ t \in reg THEN Newest(Head(down), screen'[t])
  ELSE screen'[t] = screen[t]

LEMMA OutputRead ==
  ASSUME StreamInv, OutputInv, down # <<>>, down' = Tail(down),
         UNCHANGED <<out, shown, bus, busy, replay, subs, drawing, gap, reg>>,
         screen' \in [Terms -> Nat], \A t \in Terms : ReadsInto(t)
  PROVE  OutputInv'
<1>1. /\ down \in Seq(DownMessages) /\ Len(down) \in Nat \ {0} /\ DOMAIN down = 1..Len(down)
      /\ DOMAIN down' = 1..(Len(down) - 1) /\ Len(down') = Len(down) - 1 /\ Head(down) = down[1]
      /\ \A k \in DOMAIN down' : k + 1 \in DOMAIN down /\ down'[k] = down[k + 1]
      /\ \A k \in DOMAIN down : k # 1 => k - 1 \in DOMAIN down' /\ down[k] = down'[k - 1]
  <2>1. down \in Seq(DownMessages)
    BY DEF StreamInv, WireOK
  <2> QED BY <2>1, Tailed
<1>2. \A t \in Terms : screen'[t] = screen[t] \/ (FrameOf(down[1], t) /\ Newest(down[1], screen'[t]))
  BY <1>1 DEF ReadsInto
<1>3. BusBounded'
  BY DEF OutputInv, BusBounded
<1>4. FramesBounded'
  BY <1>1 DEF OutputInv, FramesBounded
<1>5. ScreensBounded'
  <2> SUFFICES ASSUME NEW t \in Terms PROVE shown[t] <= out[t] /\ screen'[t] <= out[t]
    BY DEF ScreensBounded
  <2>1. shown[t] <= out[t] /\ screen[t] <= out[t]
    BY DEF OutputInv, ScreensBounded
  <2>2. ASSUME FrameOf(down[1], t), Newest(down[1], screen'[t]) PROVE screen'[t] <= out[t]
    <3>1. PICK n \in Nat : n <= out[t] /\ Newest(down[1], n)
      BY <2>2, <1>1 DEF OutputInv, FramesBounded, FrameOf
    <3>2. screen'[t] <= n
      BY <2>2, <3>1 DEF Newest
    <3>3. out[t] \in Nat /\ screen'[t] \in Nat
      BY DEF StreamInv, WireOK
    <3> QED BY <3>1, <3>2, <3>3
  <2> QED BY <2>1, <2>2, <1>2
<1>6. FramesNewer'
  <2> SUFFICES ASSUME NEW k \in DOMAIN down', Fresh(down'[k]), NEW c \in down'[k].chunks
               PROVE  /\ screen'[down'[k].term] < c
                      /\ \A j \in 1..(k - 1) : FrameOf(down'[j], down'[k].term) =>
                           \A d \in ChunksOf(down'[j]) : d < c
    BY DEF FramesNewer
  <2>1. /\ k + 1 \in DOMAIN down /\ down'[k] = down[k + 1] /\ 1 \in 1..k
        /\ \A j \in 1..(k - 1) : j + 1 \in 1..k /\ down'[j] = down[j + 1]
    BY <1>1
  <2> DEFINE t == down[k + 1].term
  <2>2. /\ screen[t] < c
        /\ \A j \in 1..k : FrameOf(down[j], t) => \A d \in ChunksOf(down[j]) : d < c
    <3>1. (k + 1) - 1 = k
      BY <1>1
    <3> QED BY <2>1, <3>1 DEF OutputInv, FramesNewer
  <2>3. t \in Terms
    BY <2>1, FrameTyped DEF Fresh, IsFrame
  <2>4. screen'[t] < c
    BY <1>2, <2>1, <2>2, <2>3 DEF Newest
  <2> QED BY <2>1, <2>2, <2>4
<1>7. BusNewer'
  <2> SUFFICES ASSUME ~busy, ~replay, NEW i \in DOMAIN bus
               PROVE  /\ screen'[bus[i][1]] < bus[i][2]
                      /\ \A j \in DOMAIN down' : FrameOf(down'[j], bus[i][1]) =>
                           \A d \in ChunksOf(down'[j]) : d < bus[i][2]
    BY DEF BusNewer
  <2>1. /\ screen[bus[i][1]] < bus[i][2]
        /\ \A j \in DOMAIN down : FrameOf(down[j], bus[i][1]) => \A d \in ChunksOf(down[j]) : d < bus[i][2]
    BY DEF OutputInv, BusNewer
  <2>2. bus[i][1] \in Terms
    BY DEF StreamInv, WireOK
  <2>3. screen'[bus[i][1]] < bus[i][2]
    <3>1. 1 \in DOMAIN down
      BY <1>1
    <3> QED BY <3>1, <1>2, <2>1, <2>2 DEF Newest
  <2> QED BY <1>1, <2>1, <2>3
<1>8. ASSUME NEW t \in reg, t \in Terms, NEW k \in Nat, k <= Len(down) - 1, NEW n, Stands(t, k, n)'
      PROVE  Stands(t, k + 1, n)
  <2>1. /\ \A j \in 1..k : j + 1 \in 1..(k + 1) /\ down'[j] = down[j + 1]
        /\ \A j \in 1..(k + 1) : j # 1 => j - 1 \in 1..k /\ down[j] = down'[j - 1]
        /\ 1 \in 1..(k + 1)
    BY <1>1, <1>8
  <2>2. CASE n = screen'[t] /\ \A l \in 1..k : ~FrameOf(down'[l], t)
    <3>1. \A l \in 2..(k + 1) : ~FrameOf(down[l], t)
      <4>1. \A l \in 2..(k + 1) : l \in 1..(k + 1) /\ l # 1
        BY <1>8
      <4> QED BY <2>1, <2>2, <4>1
    <3>2. CASE FrameOf(down[1], t)
      <4>1. Newest(down[1], n)
        BY <3>2, <2>2, <1>1, <1>8 DEF ReadsInto
      <4> QED BY <3>1, <3>2, <4>1, <2>1 DEF Stands
    <3>3. CASE ~FrameOf(down[1], t)
      <4>1. n = screen[t]
        BY <3>3, <2>2, <1>2, <1>8
      <4>2. \A l \in 1..(k + 1) : l = 1 \/ l \in 2..(k + 1)
        BY <1>8
      <4> QED BY <3>1, <3>3, <4>1, <4>2 DEF Stands
    <3> QED BY <3>2, <3>3
  <2>3. CASE \E j \in 1..k : /\ FrameOf(down'[j], t) /\ Newest(down'[j], n)
                             /\ \A l \in (j + 1)..k : ~FrameOf(down'[l], t)
    <3>1. PICK j \in 1..k : /\ FrameOf(down'[j], t) /\ Newest(down'[j], n)
                            /\ \A l \in (j + 1)..k : ~FrameOf(down'[l], t)
      BY <2>3
    <3>2. \A l \in (j + 2)..(k + 1) : l \in 1..(k + 1) /\ l # 1 /\ l - 1 \in (j + 1)..k
      BY <1>8
    <3>3. \A l \in (j + 2)..(k + 1) : ~FrameOf(down[l], t)
      BY <2>1, <3>1, <3>2
    <3>4. down'[j] = down[j + 1] /\ j + 1 \in 1..(k + 1)
      BY <2>1
    <3>5. FrameOf(down[j + 1], t) /\ Newest(down[j + 1], n)
      BY <3>1, <3>4
    <3>6. (j + 1) + 1 = j + 2
      BY <3>1, <1>8
    <3> QED BY <3>3, <3>4, <3>5, <3>6 DEF Stands
  <2> QED BY <1>8, <2>2, <2>3 DEF Stands
<1>9. FramesContinue'
  <2> SUFFICES ASSUME NEW t \in reg, NEW k \in DOMAIN down', NEW n \in Nat,
                      Fresh(down'[k]), down'[k].term = t, ~down'[k].holed, Stands(t, k - 1, n)'
               PROVE  n + 1 \in down'[k].chunks
    BY DEF FramesContinue
  <2>1. k + 1 \in DOMAIN down /\ down'[k] = down[k + 1] /\ k - 1 \in Nat /\ k - 1 <= Len(down) - 1
        /\ (k - 1) + 1 = (k + 1) - 1
    BY <1>1
  <2>2. t \in Terms
    BY <2>1, FrameTyped DEF Fresh, IsFrame
  <2>3. Stands(t, (k - 1) + 1, n)
    BY <2>1, <2>2, <1>8
  <2>4. Stands(t, (k + 1) - 1, n)
    BY <2>1, <2>3
  <2> QED BY <2>1, <2>4 DEF OutputInv, FramesContinue
<1>10. BusContinues'
  <2> SUFFICES ASSUME NEW t \in reg, NEW k, k = Len(down) - 1, NEW n \in Nat,
                      t \in Subscribed \ drawing, ~gap[t], Stands(t, k, n)'
               PROVE  \A c \in Nat : (n < c /\ c <= out[t]) => c \in OnBus(t)
    BY <1>1 DEF BusContinues, Subscribed, OnBus
  <2>1. t \in Terms /\ k \in Nat /\ k + 1 = Len(down)
    BY <1>1 DEF Subscribed
  <2>2. Stands(t, Len(down), n)
    BY <2>1, <1>8
  <2> QED BY <2>2 DEF OutputInv, BusContinues
<1> QED BY <1>3, <1>4, <1>5, <1>6, <1>7, <1>9, <1>10 DEF OutputInv

LEMMA MessageRead == StreamInv /\ OutputInv /\ (LearnStreams \/ Refetch) => OutputInv'
<1> SUFFICES ASSUME StreamInv, OutputInv, LearnStreams \/ Refetch PROVE OutputInv'
  OBVIOUS
<1>1. /\ down # <<>> /\ down' = Tail(down) /\ ~IsFrame(Head(down))
      /\ UNCHANGED <<out, shown, bus, busy, replay, subs, drawing, gap, reg, screen>>
  BY DEF LearnStreams, Refetch, Reads, IsFrame, uiVars, sessionVars
<1>2. screen' \in [Terms -> Nat]
  BY <1>1 DEF OutputInv, ScreensBounded
<1>3. \A t \in Terms : ReadsInto(t)
  BY <1>1 DEF ReadsInto, FrameOf
<1> QED BY <1>1, <1>2, <1>3, OutputRead

LEMMA FrameRead == StreamInv /\ OutputInv /\ ShowFrame => OutputInv'
<1> SUFFICES ASSUME StreamInv, OutputInv, ShowFrame PROVE OutputInv'
  OBVIOUS
<1> DEFINE m == Head(down)
           newest == IF m.kind = "snapshot" THEN m.chunk
                     ELSE CHOOSE c \in m.chunks : \A d \in m.chunks : d <= c
<1>1. /\ phase = "open" /\ down # <<>> /\ down' = Tail(down) /\ IsFrame(m)
      /\ UNCHANGED <<out, shown, bus, busy, replay, subs, drawing, gap, reg>>
      /\ screen' = [t \in Terms |-> IF <<m.id, t>> \in names /\ t \in reg THEN newest ELSE screen[t]]
  BY DEF ShowFrame, Reads, IsFrame, uiVars, sessionVars
<1>2. 1 \in DOMAIN down /\ down[1] = m
  BY <1>1 DEF StreamInv, WireOK
<1>3. Newest(m, newest) /\ newest \in Nat
  <2>1. PICK n \in Nat : Newest(m, n)
    BY <1>1, <1>2 DEF OutputInv, FramesBounded
  <2>2. ChunksOf(m) \subseteq Nat
    BY <1>1, <1>2, FrameTyped
  <2>3. CASE m.kind = "snapshot"
    BY <2>1, <2>2, <2>3 DEF Newest, ChunksOf
  <2>4. CASE m.kind # "snapshot"
    <3>1. ChunksOf(m) = m.chunks
      BY <2>4 DEF ChunksOf
    <3>2. newest = CHOOSE c \in m.chunks : \A d \in m.chunks : d <= c
      BY <2>4
    <3>3. \E c \in m.chunks : \A d \in m.chunks : d <= c
      BY <2>1, <3>1 DEF Newest
    <3>4. newest \in m.chunks /\ \A d \in m.chunks : d <= newest
      BY <3>2, <3>3
    <3> QED BY <2>2, <3>1, <3>4 DEF Newest
  <2> QED BY <2>3, <2>4
<1>4. m.id \in Nat /\ m.term \in Terms
  BY <1>1, <1>2, FrameTyped
<1>5. <<m.id, m.term>> \in names /\ link # "down"
  <2>1. \A j : j \notin 1..(1 - 1)
    OBVIOUS
  <2> QED BY <1>1, <1>2, <2>1 DEF StreamInv, FramesKnown, SilentWhenDown
<1>6. \A t \in Terms : <<m.id, t>> \in names <=> t = m.term
  BY <1>4, <1>5 DEF Binds, StreamInv, OneMeaning
<1> HIDE DEF newest, m
<1>7. screen' \in [Terms -> Nat]
  BY <1>1, <1>3 DEF OutputInv, ScreensBounded
<1>8. ASSUME NEW t \in Terms PROVE ReadsInto(t)
  <2>1. screen'[t] = IF t = m.term /\ t \in reg THEN newest ELSE screen[t]
    BY <1>1, <1>6
  <2>2. FrameOf(m, t) <=> t = m.term
    BY <1>1 DEF FrameOf
  <2> QED BY <1>3, <2>1, <2>2 DEF ReadsInto, m
<1> QED BY <1>1, <1>7, <1>8, OutputRead

-----------------------------------------------------------------------------
(* The server sends.                                                       *)

\* Frames that are sent change nothing of where a terminal stood before them.
LEMMA StandsBefore ==
  ASSUME StreamInv, NEW f \in Seq(DownMessages), down' = down \o f, screen' = screen,
         NEW t, NEW k \in Nat, NEW n, Stands(t, k, n)'
  PROVE  /\ k <= Len(down) => Stands(t, k, n)
         /\ (Len(down) <= k /\ k <= Len(down) + Len(f) /\
             \A i \in DOMAIN f : Len(down) + i <= k => ~FrameOf(f[i], t)) => Stands(t, Len(down), n)
<1>1. /\ DOMAIN down = 1..Len(down) /\ DOMAIN f = 1..Len(f) /\ Len(down) \in Nat /\ Len(f) \in Nat
      /\ \A l \in DOMAIN down : down'[l] = down[l]
      /\ \A l \in DOMAIN f : down'[Len(down) + l] = f[l]
  <2>1. down \in Seq(DownMessages)
    BY DEF StreamInv, WireOK
  <2> QED BY <2>1, Joined
<1>2. ASSUME k <= Len(down) PROVE Stands(t, k, n)
  <2>1. \A l \in 1..k : l \in DOMAIN down /\ down'[l] = down[l]
    BY <1>1, <1>2
  <2>2. CASE n = screen[t] /\ \A l \in 1..k : ~FrameOf(down'[l], t)
    BY <2>1, <2>2 DEF Stands
  <2>3. ASSUME NEW j \in 1..k, FrameOf(down'[j], t), Newest(down'[j], n),
               \A l \in (j + 1)..k : ~FrameOf(down'[l], t)
        PROVE  Stands(t, k, n)
    <3>1. \A l \in (j + 1)..k : l \in 1..k
      OBVIOUS
    <3> QED BY <2>1, <2>3, <3>1 DEF Stands
  <2> QED BY <2>2, <2>3 DEF Stands
<1>3. ASSUME Len(down) <= k, k <= Len(down) + Len(f),
             \A i \in DOMAIN f : Len(down) + i <= k => ~FrameOf(f[i], t)
      PROVE  Stands(t, Len(down), n)
  <2>1. \A l \in 1..Len(down) : l \in 1..k /\ down'[l] = down[l]
    BY <1>1, <1>3
  <2>2. CASE n = screen[t] /\ \A l \in 1..k : ~FrameOf(down'[l], t)
    BY <2>1, <2>2 DEF Stands
  <2>3. ASSUME NEW j \in 1..k, FrameOf(down'[j], t), Newest(down'[j], n),
               \A l \in (j + 1)..k : ~FrameOf(down'[l], t)
        PROVE  Stands(t, Len(down), n)
    <3>1. j \in 1..Len(down)
      <4> SUFFICES ASSUME ~(j <= Len(down)) PROVE FALSE
        BY <1>1
      <4> DEFINE i == j - Len(down)
      <4>1. i \in DOMAIN f /\ Len(down) + i = j /\ j <= k
        BY <1>1, <1>3
      <4> HIDE DEF i
      <4>2. down'[j] = f[i] /\ ~FrameOf(f[i], t)
        BY <1>1, <1>3, <4>1
      <4> QED BY <2>3, <4>2
    <3>2. \A l \in (j + 1)..Len(down) : l \in (j + 1)..k /\ l \in 1..Len(down)
      BY <1>1, <1>3
    <3> QED BY <2>1, <2>3, <3>1, <3>2 DEF Stands
  <2> QED BY <2>2, <2>3 DEF Stands
<1> QED BY <1>2, <1>3

LEMMA AppendJoins ==
  ASSUME NEW S, NEW s \in Seq(S), NEW m \in S
  PROVE  /\ Append(s, m) = s \o <<m>> /\ <<m>> \in Seq(S) /\ Len(<<m>>) = 1 /\ DOMAIN <<m>> = {1}
         /\ <<m>>[1] = m
OBVIOUS

LEMMA StandsAfter ==
  ASSUME StreamInv, NEW m \in DownMessages, down' = Append(down, m), screen' = screen,
         NEW t, NEW k, k = Len(down) + 1, NEW n, Stands(t, k, n)'
  PROVE  IF FrameOf(m, t) THEN Newest(m, n) ELSE Stands(t, Len(down), n)
<1>1. /\ down \in Seq(DownMessages) /\ Len(down) \in Nat /\ down'[Len(down) + 1] = m
      /\ DOMAIN down = 1..Len(down) /\ \A l \in DOMAIN down : down'[l] = down[l]
  <2>1. down \in Seq(DownMessages)
    BY DEF StreamInv, WireOK
  <2> QED BY <2>1, Appended
<1>2. CASE ~FrameOf(m, t)
  <2>1. down' = down \o <<m>> /\ <<m>> \in Seq(DownMessages) /\ Len(<<m>>) = 1
        /\ \A i \in DOMAIN <<m>> : ~FrameOf(<<m>>[i], t)
    BY <1>1, <1>2, AppendJoins
  <2>2. k \in Nat /\ Len(down) <= k /\ k <= Len(down) + Len(<<m>>)
    BY <1>1, <2>1
  <2> QED BY <1>2, <2>1, <2>2, StandsBefore
<1>3. CASE FrameOf(m, t)
  <2>1. k \in 1..k /\ k \in Nat /\ down'[k] = m
    BY <1>1
  <2>2. PICK j \in 1..k : /\ FrameOf(down'[j], t) /\ Newest(down'[j], n)
                          /\ \A l \in (j + 1)..k : ~FrameOf(down'[l], t)
    BY <1>3, <2>1 DEF Stands
  <2>3. j = k
    <3>1. j # k => k \in (j + 1)..k
      BY <2>1
    <3> QED BY <1>3, <2>1, <2>2, <3>1
  <2> QED BY <1>3, <2>1, <2>2, <2>3
<1> QED BY <1>2, <1>3

\* A message that carries no output, or a snapshot while the session is busy.
LEMMA MessageSent ==
  ASSUME StreamInv, OutputInv, NEW m \in DownMessages, down' = Append(down, m), ~Fresh(m),
         IsFrame(m) => busy' /\ \E n \in Nat : n <= out[m.term] /\ Newest(m, n),
         UNCHANGED <<out, shown, bus, screen, replay, reg>>, ~busy' => ~busy, BusContinues'
  PROVE  OutputInv'
<1>1. /\ down \in Seq(DownMessages) /\ DOMAIN down = 1..Len(down) /\ Len(down) \in Nat
      /\ DOMAIN down' = 1..(Len(down) + 1)
      /\ \A k \in DOMAIN down : k \in DOMAIN down' /\ down'[k] = down[k]
      /\ down'[Len(down) + 1] = m
      /\ \A k \in DOMAIN down' : k \in DOMAIN down \/ k = Len(down) + 1
  <2>1. down \in Seq(DownMessages)
    BY DEF StreamInv, WireOK
  <2> QED BY <2>1, Appended
<1>2. BusBounded' /\ ScreensBounded'
  BY DEF OutputInv, BusBounded, ScreensBounded
<1>3. FramesBounded'
  <2> SUFFICES ASSUME NEW k \in DOMAIN down', IsFrame(down'[k])
               PROVE  \E n \in Nat : n <= out[down'[k].term] /\ Newest(down'[k], n)
    BY DEF FramesBounded
  <2> QED BY <1>1 DEF OutputInv, FramesBounded
<1>4. ASSUME NEW k \in DOMAIN down', Fresh(down'[k])
      PROVE  /\ k \in DOMAIN down /\ down'[k] = down[k] /\ k - 1 \in Nat /\ k - 1 <= Len(down)
             /\ \A j \in 1..(k - 1) : down'[j] = down[j]
  <2>1. k \in DOMAIN down
    BY <1>1, <1>4
  <2> QED BY <2>1, <1>1
<1>5. FramesNewer'
  <2> SUFFICES ASSUME NEW k \in DOMAIN down', Fresh(down'[k]), NEW c \in down'[k].chunks
               PROVE  /\ screen[down'[k].term] < c
                      /\ \A j \in 1..(k - 1) : FrameOf(down'[j], down'[k].term) =>
                           \A d \in ChunksOf(down'[j]) : d < c
    BY DEF FramesNewer
  <2> QED BY <1>4 DEF OutputInv, FramesNewer
<1>6. BusNewer'
  <2> SUFFICES ASSUME ~busy', ~replay, NEW i \in DOMAIN bus
               PROVE  /\ screen[bus[i][1]] < bus[i][2]
                      /\ \A j \in DOMAIN down' : FrameOf(down'[j], bus[i][1]) =>
                           \A d \in ChunksOf(down'[j]) : d < bus[i][2]
    BY DEF BusNewer
  <2>1. ~FrameOf(m, bus[i][1])
    BY DEF FrameOf
  <2> QED BY <1>1, <2>1 DEF OutputInv, BusNewer
<1>7. FramesContinue'
  <2> SUFFICES ASSUME NEW t \in reg, NEW k \in DOMAIN down', NEW n \in Nat,
                      Fresh(down'[k]), down'[k].term = t, ~down'[k].holed, Stands(t, k - 1, n)'
               PROVE  n + 1 \in down'[k].chunks
    BY DEF FramesContinue
  <2>1. down' = down \o <<m>> /\ <<m>> \in Seq(DownMessages)
    BY <1>1
  <2>2. Stands(t, k - 1, n)
    <3>1. k - 1 \in Nat /\ k - 1 <= Len(down)
      BY <1>4
    <3> QED BY <2>1, <3>1, StandsBefore
  <2> QED BY <1>4, <2>2 DEF OutputInv, FramesContinue
<1> QED BY <1>2, <1>3, <1>5, <1>6, <1>7 DEF OutputInv

LEMMA NewsSent ==
  ASSUME StreamInv, OutputInv, PushNews, UNCHANGED clientVars
  PROVE  OutputInv'
<1> DEFINE m == [kind |-> "changed"]
<1>1. m \in DownMessages /\ ~Fresh(m) /\ ~IsFrame(m)
  BY DEF DownMessages, Fresh, IsFrame
<1>2. /\ down' = Append(down, m)
      /\ UNCHANGED <<out, shown, bus, screen, replay, reg, busy, subs, drawing, gap>>
  BY <1>1 DEF PushNews, clientVars, uiVars
<1>3. Len(down') = Len(down) + 1
  BY <1>1, <1>2, Appended DEF StreamInv, WireOK
<1> HIDE DEF m
<1>4. BusContinues'
  <2> SUFFICES ASSUME NEW t \in reg, NEW k, k = Len(down) + 1, NEW n \in Nat,
                      t \in Subscribed \ drawing, ~gap[t], Stands(t, k, n)'
               PROVE  \A c \in Nat : (n < c /\ c <= out[t]) => c \in OnBus(t)
    BY <1>2, <1>3 DEF BusContinues, Subscribed, OnBus
  <2>1. Stands(t, Len(down), n)
    BY <1>1, <1>2, StandsAfter DEF FrameOf
  <2> QED BY <2>1 DEF OutputInv, BusContinues
<1> QED BY <1>1, <1>2, <1>4, MessageSent

LEMMA SubscriptionSent ==
  ASSUME StreamInv, OutputInv, Subscribe, UNCHANGED clientVars
  PROVE  OutputInv'
<1> DEFINE ids == Head(up).ids
           m == [kind |-> "subscribed", map |-> [t \in ids |-> subs'[t]]]
<1>1. /\ down' = Append(down, m) /\ busy' /\ drawing' = ids /\ up # <<>> /\ ~busy
      /\ Head(up).kind = "subscribe"
      /\ subs' = Numbered(ids)
      /\ UNCHANGED <<out, shown, bus, screen, replay, reg, gap>>
  BY DEF Subscribe, Receives, Loop, clientVars, uiVars
<1>2. ids \in SUBSET Terms
  <2>1. Head(up) \in UpMessages
    BY <1>1, ReadByServer
  <2> QED BY <2>1, <1>1 DEF UpMessages, QueueMessages
<1>3. subs' \in [Terms -> Nat] /\ \A t \in Terms \ (ids \ Subscribed) : subs'[t] = subs[t]
  BY <1>1, <1>2, FreshNumbers
<1>4. m \in DownMessages /\ ~Fresh(m) /\ ~IsFrame(m)
  <2>1. [t \in ids |-> subs'[t]] \in [ids -> Nat]
    BY <1>2, <1>3
  <2>2. [t \in ids |-> subs'[t]] \in UNION {[S -> Nat] : S \in SUBSET Terms}
    BY <1>2, <2>1
  <2> HIDE DEF ids
  <2> QED BY <2>2 DEF DownMessages, Fresh, IsFrame
<1> HIDE DEF ids, m
<1>5. Subscribed' \ drawing' \subseteq Subscribed \ drawing
  <2>1. drawing = {}
    BY <1>1 DEF StreamInv, WireOK
  <2> QED BY <1>1, <1>3, <2>1 DEF Subscribed
<1>6. Len(down') = Len(down) + 1
  BY <1>1, <1>4, Appended DEF StreamInv, WireOK
<1>7. BusContinues'
  <2> SUFFICES ASSUME NEW t \in reg, NEW k, k = Len(down) + 1, NEW n \in Nat,
                      t \in Subscribed \ drawing, ~gap[t], Stands(t, k, n)'
               PROVE  \A c \in Nat : (n < c /\ c <= out[t]) => c \in OnBus(t)
    BY <1>1, <1>5, <1>6 DEF BusContinues, OnBus
  <2>1. Stands(t, Len(down), n)
    BY <1>1, <1>4, StandsAfter DEF FrameOf
  <2> QED BY <2>1 DEF OutputInv, BusContinues
<1> QED BY <1>1, <1>4, <1>7, MessageSent

\* A snapshot puts the terminal where the UI thread has it.
LEMMA SnapshotSent ==
  ASSUME StreamInv, HistoryOK, OutputInv, NEW u \in Terms, DrawSnapshot(u), UNCHANGED clientVars
  PROVE  OutputInv'
<1> DEFINE m == [kind |-> "snapshot", id |-> subs[u], term |-> u, chunk |-> shown[u]]
<1>1. /\ down' = Append(down, m) /\ busy' /\ drawing' = drawing \ {u}
      /\ gap' = [gap EXCEPT ![u] = shown[u] < out[u]]
      /\ UNCHANGED <<out, shown, bus, screen, replay, reg, subs>>
  BY DEF DrawSnapshot, clientVars, uiVars
<1>2. m \in DownMessages /\ ~Fresh(m) /\ IsFrame(m) /\ m.term = u
  BY DEF DownMessages, Frames, Fresh, IsFrame, StreamInv, WireOK
<1>3. shown[u] \in Nat /\ out[u] \in Nat /\ shown[u] <= out[u]
      /\ \A n : Newest(m, n) <=> n = shown[u]
  BY DEF StreamInv, WireOK, OutputInv, ScreensBounded, Newest, ChunksOf
<1> HIDE DEF m
<1>4. Len(down') = Len(down) + 1
  BY <1>1, <1>2, Appended DEF StreamInv, WireOK
<1>5. ASSUME NEW t \in Terms, ~gap'[t] PROVE IF t = u THEN shown[u] = out[u] ELSE ~gap[t]
  <2> DEFINE early == shown[u] < out[u]
  <2>1. gap' = [gap EXCEPT ![u] = early] /\ gap \in [Terms -> BOOLEAN]
    BY <1>1 DEF HistoryOK
  <2> HIDE DEF early
  <2>2. IF t = u THEN ~early ELSE ~gap[t]
    BY <1>5, <2>1
  <2> QED BY <2>2, <1>3 DEF early
<1>6. BusContinues'
  <2> SUFFICES ASSUME NEW t \in reg, NEW k, k = Len(down) + 1, NEW n \in Nat,
                      t \in Subscribed \ (drawing \ {u}), ~gap'[t], Stands(t, k, n)'
               PROVE  \A c \in Nat : (n < c /\ c <= out[t]) => c \in OnBus(t)
    BY <1>1, <1>4 DEF BusContinues, Subscribed, OnBus
  <2>1. (IF FrameOf(m, t) THEN Newest(m, n) ELSE Stands(t, Len(down), n)) /\ (FrameOf(m, t) <=> t = u)
    BY <1>1, <1>2, StandsAfter DEF FrameOf
  <2>2. t \in Terms
    BY DEF Subscribed
  <2>3. CASE t = u
    <3>1. n = out[t]
      BY <2>1, <2>2, <2>3, <1>3, <1>5
    <3> QED BY <3>1, <2>3, <1>3
  <2>4. CASE t # u
    BY <2>1, <2>2, <2>4, <1>5 DEF OutputInv, BusContinues
  <2> QED BY <2>3, <2>4
<1> QED BY <1>1, <1>2, <1>3, <1>6, MessageSent

-----------------------------------------------------------------------------
(* Steps that put nothing on the wire.                                     *)

\* What is under way is judged by the screens and by itself.
LEMMA WireJudged ==
  ASSUME StreamInv, OutputInv, UNCHANGED <<down, screen, reg>>,
         \A t \in Terms : out[t] <= out'[t] /\ out'[t] \in Nat
  PROVE  /\ FramesBounded' /\ FramesNewer' /\ FramesContinue'
         /\ \A t, k, n : Stands(t, k, n)' <=> Stands(t, k, n)
<1>1. \A t, k, n : Stands(t, k, n)' <=> Stands(t, k, n)
  BY DEF Stands
<1>2. FramesNewer' /\ FramesContinue'
  BY <1>1 DEF OutputInv, FramesNewer, FramesContinue
<1>3. FramesBounded'
  <2> SUFFICES ASSUME NEW k \in DOMAIN down, IsFrame(down[k])
               PROVE  \E n \in Nat : n <= out'[down[k].term] /\ Newest(down[k], n)
    BY DEF FramesBounded
  <2>1. down[k].term \in Terms /\ out[down[k].term] \in Nat
    BY FrameTyped DEF StreamInv, WireOK
  <2>2. PICK n \in Nat : n <= out[down[k].term] /\ Newest(down[k], n)
    BY DEF OutputInv, FramesBounded
  <2> QED BY <2>1, <2>2
<1> QED BY <1>1, <1>2, <1>3

LEMMA SessionWork ==
  ASSUME StreamInv, HistoryOK, OutputInv, UNCHANGED clientVars,
         Unsubscribe \/ Resync \/ (\E t \in Terms : SkipSnapshot(t) \/ ShowOutput(t))
  PROVE  OutputInv'
<1>1. UNCHANGED <<down, screen, reg, out, bus, replay>> /\ (~busy' => ~busy)
  BY DEF clientVars, Unsubscribe, Resync, SkipSnapshot, ShowOutput, uiVars, sessionVars
<1>2. out \in [Terms -> Nat] /\ shown \in [Terms -> Nat]
  BY DEF StreamInv, WireOK
<1>3. /\ FramesBounded' /\ FramesNewer' /\ FramesContinue'
      /\ \A t, k, n : Stands(t, k, n)' <=> Stands(t, k, n)
  BY <1>1, <1>2, WireJudged
<1>4. BusBounded' /\ BusNewer'
  BY <1>1 DEF OutputInv, BusBounded, BusNewer
<1>5. ScreensBounded'
  <2>1. CASE UNCHANGED shown
    BY <2>1, <1>1 DEF OutputInv, ScreensBounded
  <2>2. ASSUME NEW t \in Terms, ShowOutput(t) PROVE ScreensBounded'
    BY <1>1, <1>2, <2>2 DEF ShowOutput, OutputInv, ScreensBounded
  <2>3. shown' = shown \/ \E t \in Terms : ShowOutput(t)
    BY DEF Unsubscribe, Resync, SkipSnapshot, uiVars
  <2> QED BY <2>1, <2>2, <2>3
<1>6. \A t \in Terms : t \in Subscribed' \ drawing' /\ ~gap'[t] => t \in Subscribed \ drawing /\ ~gap[t]
  <2>1. CASE Unsubscribe
    BY <2>1 DEF Unsubscribe, Subscribed
  <2>2. CASE Resync
    BY <2>2 DEF Resync, Subscribed
  <2>3. ASSUME NEW t \in Terms, SkipSnapshot(t)
        PROVE  \A u \in Terms : u \in Subscribed' \ drawing' /\ ~gap'[u] => u \in Subscribed \ drawing /\ ~gap[u]
    BY <2>3 DEF SkipSnapshot, Subscribed, HistoryOK
  <2>4. ASSUME NEW t \in Terms, ShowOutput(t)
        PROVE  \A u \in Terms : u \in Subscribed' \ drawing' /\ ~gap'[u] => u \in Subscribed \ drawing /\ ~gap[u]
    BY <2>4 DEF ShowOutput, Subscribed, sessionVars
  <2> QED BY <2>1, <2>2, <2>3, <2>4
<1>7. BusContinues'
  BY <1>1, <1>3, <1>6 DEF OutputInv, BusContinues, Subscribed, OnBus
<1> QED BY <1>3, <1>4, <1>5, <1>7 DEF OutputInv

\* The end of a drain: the bus is empty, or it is known to hold old chunks.
LEMMA DrainEnds ==
  ASSUME StreamInv, HistoryOK, OutputInv, UNCHANGED clientVars, Drain
  PROVE  OutputInv'
<1>1. UNCHANGED <<down, screen, reg, out, shown, subs, drawing>> /\ drawing = {}
  BY DEF clientVars, Drain, uiVars
<1>2. out \in [Terms -> Nat]
  BY DEF StreamInv, WireOK
<1>3. /\ FramesBounded' /\ FramesNewer' /\ FramesContinue'
      /\ \A t, k, n : Stands(t, k, n)' <=> Stands(t, k, n)
  BY <1>1, <1>2, WireJudged
<1>4. (bus' = bus /\ replay' /\ gap' = gap)
      \/ (bus' = <<>> /\ gap' = [t \in Terms |-> gap[t] \/ \E i \in DOMAIN bus : bus[i][1] = t])
  BY DEF Drain
<1>5. BusBounded' /\ ScreensBounded' /\ BusNewer'
  <2>1. BusBounded /\ ScreensBounded
    BY DEF OutputInv
  <2>2. ScreensBounded'
    BY <1>1, <2>1 DEF ScreensBounded
  <2>3. CASE bus' = <<>>
    BY <2>2, <2>3 DEF BusBounded, BusNewer
  <2>4. CASE bus' = bus /\ replay'
    BY <1>1, <2>1, <2>2, <2>4 DEF BusBounded, BusNewer
  <2> QED BY <1>4, <2>2, <2>3, <2>4
<1>6. BusContinues'
  <2> SUFFICES ASSUME NEW t \in reg, NEW k, k = Len(down), NEW n \in Nat,
                      t \in Subscribed \ drawing, ~gap'[t], Stands(t, k, n),
                      NEW c \in Nat, n < c, c <= out[t]
               PROVE  c \in OnBus(t)'
    BY <1>1, <1>3 DEF BusContinues, Subscribed
  <2>1. t \in Terms
    BY DEF Subscribed
  <2>2. CASE bus' = bus /\ gap' = gap
    BY <2>2 DEF OutputInv, BusContinues, OnBus
  <2>3. CASE bus' = <<>> /\ gap' = [u \in Terms |-> gap[u] \/ \E i \in DOMAIN bus : bus[i][1] = u]
    <3>1. ~gap[t] /\ ~(\E i \in DOMAIN bus : bus[i][1] = t)
      BY <2>1, <2>3, Zenon
    <3>2. OnBus(t) = {}
      BY <3>1 DEF OnBus
    <3> QED BY <3>1, <3>2 DEF OutputInv, BusContinues
  <2> QED BY <1>4, <2>2, <2>3
<1> QED BY <1>3, <1>5, <1>6 DEF OutputInv

\* A new chunk is the newest, and the one it pushes off a full bus leaves a gap.
LEMMA OutputPublished ==
  ASSUME StreamInv, HistoryOK, ClientOK, OutputInv, Produce
  PROVE  OutputInv'
<1> PICK u \in Terms : Output(u)
  BY DEF Produce
<1>1. UNCHANGED <<down, screen, reg, shown, subs, drawing, busy, replay>>
  BY DEF Produce, Output
<1>2. /\ out \in [Terms -> Nat] /\ out' = [out EXCEPT ![u] = @ + 1] /\ out'[u] = out[u] + 1
      /\ \A t \in Terms : out[t] <= out'[t] /\ out'[t] \in Nat /\ (t # u => out'[t] = out[t])
  BY DEF StreamInv, WireOK, Output
<1>3. /\ FramesBounded' /\ FramesNewer' /\ FramesContinue'
      /\ \A t, k, n : Stands(t, k, n)' <=> Stands(t, k, n)
  BY <1>1, <1>2, WireJudged
<1>4. ScreensBounded'
  <2>1. shown \in [Terms -> Nat] /\ screen \in [Terms -> Nat] /\ ScreensBounded
    BY DEF StreamInv, WireOK, OutputInv, ScreensBounded
  <2> SUFFICES ASSUME NEW t \in Terms PROVE shown[t] <= out'[t] /\ screen[t] <= out'[t]
    BY <1>1, <2>1 DEF ScreensBounded
  <2>2. out[t] <= out'[t] /\ out'[t] \in Nat /\ out[t] \in Nat /\ shown[t] \in Nat /\ screen[t] \in Nat
    BY <1>2, <2>1
  <2>3. shown[t] <= out[t] /\ screen[t] <= out[t]
    BY <2>1 DEF ScreensBounded
  <2> QED BY <2>2, <2>3
<1> DEFINE e == <<u, out[u] + 1>>
           all == Append(bus, e)
<1>5. /\ e \in Terms \X Nat /\ e[1] = u /\ e[2] = out'[u] /\ e = <<u, out'[u]>>
      /\ bus \in Seq(Terms \X Nat) /\ BusSize \in Nat \ {0} /\ Len(bus) <= BusSize
  BY <1>2, StreamAssumption DEF StreamInv, WireOK, ClientOK, SizesOK
<1>6. \/ bus' = bus /\ gap' = gap /\ news = "off"
      \/ bus' = all /\ gap' = gap
      \/ Len(bus) = BusSize /\ bus' = Tail(all) /\ gap' = [gap EXCEPT ![bus[1][1]] = TRUE]
  BY DEF Output
<1> HIDE DEF e
<1>7. /\ all \in Seq(Terms \X Nat) /\ Len(all) = Len(bus) + 1 /\ Len(bus) \in Nat
      /\ DOMAIN bus = 1..Len(bus) /\ DOMAIN all = 1..(Len(bus) + 1)
      /\ \A k \in DOMAIN bus : all[k] = bus[k] /\ bus[k] \in Terms \X Nat
      /\ all[Len(bus) + 1] = e
      /\ \A k \in DOMAIN all : k \in DOMAIN bus \/ k = Len(bus) + 1
  BY <1>5, Appended
<1> HIDE DEF all
<1>8. /\ Tail(all) \in Seq(Terms \X Nat) /\ DOMAIN Tail(all) = 1..Len(bus) /\ Len(Tail(all)) = Len(bus)
      /\ \A k \in 1..Len(bus) : k + 1 \in DOMAIN all /\ Tail(all)[k] = all[k + 1]
      /\ \A k \in 2..(Len(bus) + 1) : k - 1 \in 1..Len(bus) /\ Tail(all)[k - 1] = all[k]
  <2>1. all # <<>>
    BY <1>7
  <2>2. \A k \in 2..(Len(bus) + 1) : k \in DOMAIN all /\ k # 1
    BY <1>7
  <2> QED BY <1>7, <2>1, <2>2, Tailed
<1>9. \A k \in DOMAIN all : /\ all[k][2] <= out'[all[k][1]]
                           /\ \E l \in k..Len(all) : all[l] = <<all[k][1], out'[all[k][1]]>>
  <2> SUFFICES ASSUME NEW k \in DOMAIN all
               PROVE  /\ all[k][2] <= out'[all[k][1]]
                      /\ \E l \in k..Len(all) : all[l] = <<all[k][1], out'[all[k][1]]>>
    OBVIOUS
  <2>1. CASE k = Len(bus) + 1
    <3>1. k \in k..Len(all)
      BY <2>1, <1>7
    <3>2. all[k][2] = out'[u] /\ all[k][1] = u /\ out'[u] \in Nat
      BY <2>1, <1>2, <1>5, <1>7
    <3> QED BY <2>1, <3>1, <3>2, <1>5, <1>7
  <2>2. CASE k \in DOMAIN bus
    <3> DEFINE t == bus[k][1]
    <3>1. t \in Terms /\ bus[k][2] \in Nat /\ all[k] = bus[k]
      BY <2>2, <1>7
    <3>2. bus[k][2] <= out[t]
      BY <2>2 DEF OutputInv, BusBounded
    <3>3. PICK l \in k..Len(bus) : bus[l] = <<t, out[t]>>
      BY <2>2 DEF OutputInv, BusBounded
    <3>4. all[k][2] <= out'[t]
      BY <3>1, <3>2, <1>2
    <3>5. CASE t = u
      <4>1. Len(bus) + 1 \in k..Len(all)
        BY <2>2, <1>7
      <4> QED BY <3>1, <3>4, <3>5, <4>1, <1>5, <1>7
    <3>6. CASE t # u
      <4>1. l \in k..Len(all) /\ l \in DOMAIN bus
        BY <2>2, <3>3, <1>7
      <4>2. all[l] = <<t, out'[t]>>
        BY <3>1, <3>3, <3>6, <4>1, <1>2, <1>7
      <4> QED BY <3>1, <3>4, <4>1, <4>2
    <3> QED BY <3>5, <3>6
  <2> QED BY <2>1, <2>2, <1>7
<1>10. BusBounded'
  <2>1. CASE bus' = bus /\ news = "off"
    BY <2>1 DEF ClientOK, SessionShape, BusBounded
  <2>2. CASE bus' = all
    BY <2>2, <1>9 DEF BusBounded
  <2>3. CASE bus' = Tail(all)
    <3> SUFFICES ASSUME NEW k \in 1..Len(bus)
                 PROVE  /\ Tail(all)[k][2] <= out'[Tail(all)[k][1]]
                        /\ \E l \in k..Len(bus) : Tail(all)[l] = <<Tail(all)[k][1], out'[Tail(all)[k][1]]>>
      BY <2>3, <1>8 DEF BusBounded
    <3>1. k + 1 \in DOMAIN all /\ Tail(all)[k] = all[k + 1]
      BY <1>8
    <3>2. PICK l \in (k + 1)..Len(all) : all[l] = <<all[k + 1][1], out'[all[k + 1][1]]>>
      BY <3>1, <1>9
    <3>3. l \in 2..(Len(bus) + 1) /\ l - 1 \in k..Len(bus)
      BY <1>7
    <3>4. Tail(all)[l - 1] = all[l]
      BY <3>3, <1>8
    <3>5. all[k + 1][2] <= out'[all[k + 1][1]]
      BY <3>1, <1>9
    <3> QED BY <3>1, <3>2, <3>3, <3>4, <3>5
  <2> QED BY <1>6, <2>1, <2>2, <2>3
<1>11. \A k \in DOMAIN bus' : bus'[k] = e \/ \E l \in DOMAIN bus : bus'[k] = bus[l]
  <2>1. CASE bus' = bus
    BY <2>1
  <2>2. CASE bus' = all
    BY <2>2, <1>7
  <2>3. CASE bus' = Tail(all)
    <3>1. \A k \in DOMAIN all : all[k] = e \/ \E l \in DOMAIN bus : all[k] = bus[l]
      BY <1>7
    <3> QED BY <2>3, <3>1, <1>8
  <2> QED BY <1>6, <2>1, <2>2, <2>3
<1>12. BusNewer'
  <2> SUFFICES ASSUME ~busy, ~replay, NEW i \in DOMAIN bus'
               PROVE  /\ screen[bus'[i][1]] < bus'[i][2]
                      /\ \A j \in DOMAIN down : FrameOf(down[j], bus'[i][1]) =>
                           \A d \in ChunksOf(down[j]) : d < bus'[i][2]
    BY <1>1 DEF BusNewer
  <2>1. ASSUME NEW l \in DOMAIN bus, bus'[i] = bus[l]
        PROVE  /\ screen[bus'[i][1]] < bus'[i][2]
               /\ \A j \in DOMAIN down : FrameOf(down[j], bus'[i][1]) =>
                    \A d \in ChunksOf(down[j]) : d < bus'[i][2]
    BY <2>1 DEF OutputInv, BusNewer
  <2>2. CASE bus'[i] = e
    <3>1. screen[u] <= out[u] /\ screen[u] \in Nat /\ out[u] \in Nat
      BY DEF OutputInv, ScreensBounded, StreamInv, WireOK
    <3>2. ASSUME NEW j \in DOMAIN down, FrameOf(down[j], u), NEW d \in ChunksOf(down[j])
          PROVE  d < out[u] + 1
      <4>1. PICK n \in Nat : n <= out[u] /\ Newest(down[j], n)
        BY <3>2 DEF OutputInv, FramesBounded, FrameOf
      <4>2. d <= n /\ d \in Nat
        BY <3>2, <4>1, FrameTyped DEF Newest, FrameOf
      <4> QED BY <3>1, <4>1, <4>2
    <3> QED BY <2>2, <3>1, <3>2, <1>2, <1>5
  <2> QED BY <2>1, <2>2, <1>11
<1>13. BusContinues'
  <2> SUFFICES ASSUME NEW t \in reg, NEW k, k = Len(down), NEW n \in Nat,
                      t \in Subscribed \ drawing, ~gap'[t], Stands(t, k, n),
                      NEW c \in Nat, n < c, c <= out'[t]
               PROVE  c \in OnBus(t)'
    BY <1>1, <1>3 DEF BusContinues, Subscribed
  <2>1. t \in Terms
    BY DEF Subscribed
  <2>2. news # "off"
    BY NoStreamYet DEF ClientOK, SessionShape
  <2>3. ~gap[t] /\ (bus' = all \/ (bus' = Tail(all) /\ Len(bus) = BusSize /\ t # bus[1][1]))
    <3>1. CASE bus' = all /\ gap' = gap
      BY <3>1
    <3>2. CASE Len(bus) = BusSize /\ bus' = Tail(all) /\ gap' = [gap EXCEPT ![bus[1][1]] = TRUE]
      <4>1. gap'[t] = IF t = bus[1][1] THEN TRUE ELSE gap[t]
        BY <2>1, <3>2 DEF HistoryOK
      <4> QED BY <3>2, <4>1
    <3> QED BY <1>6, <2>2, <3>1, <3>2
  <2>4. CASE t = u /\ c = out'[u]
    <3>1. \E l \in DOMAIN bus' : bus'[l] = e
      <4>1. CASE bus' = all
        BY <4>1, <1>7
      <4>2. CASE bus' = Tail(all) /\ Len(bus) = BusSize
        <5>1. Len(bus) + 1 \in 2..(Len(bus) + 1) /\ (Len(bus) + 1) - 1 = Len(bus) /\ Len(bus) \in 1..Len(bus)
          BY <4>2, <1>5, <1>7
        <5>2. Tail(all)[Len(bus)] = e
          BY <5>1, <1>7, <1>8
        <5> QED BY <4>2, <5>1, <5>2, <1>8
      <4> QED BY <2>3, <4>1, <4>2
    <3> QED BY <2>4, <3>1, <1>5 DEF OnBus
  <2>5. CASE ~(t = u /\ c = out'[u])
    <3>1. c <= out[t]
      BY <2>1, <2>5, <1>2
    <3>2. c \in OnBus(t)
      BY <2>3, <3>1 DEF OutputInv, BusContinues
    <3>3. PICK l \in DOMAIN bus : bus[l][1] = t /\ bus[l][2] = c
      BY <3>2 DEF OnBus
    <3>4. \E i \in DOMAIN bus' : bus'[i] = bus[l]
      <4>1. CASE bus' = all
        BY <4>1, <1>7
      <4>2. CASE bus' = Tail(all) /\ Len(bus) = BusSize /\ t # bus[1][1]
        <5>1. l # 1
          BY <3>3, <4>2
        <5>2. l \in 2..(Len(bus) + 1) /\ l \in DOMAIN bus
          BY <5>1, <1>7
        <5> QED BY <4>2, <5>2, <1>7, <1>8
      <4> QED BY <2>3, <4>1, <4>2
    <3> QED BY <3>3, <3>4 DEF OnBus
  <2> QED BY <2>4, <2>5
<1> QED BY <1>3, <1>4, <1>10, <1>12, <1>13 DEF OutputInv

-----------------------------------------------------------------------------
(* Terminals the client starts, and the output branch.                     *)

\* The client starts terminals that the session knows nothing of.
LEMMA ScreensRenewed ==
  ASSUME StreamInv, OutputInv, NEW A \in SUBSET Terms, \A t \in A : t \notin Subscribed /\ ~Framed(t),
         screen' = [t \in Terms |-> IF t \in A THEN 0 ELSE screen[t]], reg' \subseteq reg \cup A,
         UNCHANGED <<out, shown, bus, down, busy, replay, subs, drawing, gap>>
  PROVE  OutputInv'
<1>1. /\ out \in [Terms -> Nat] /\ bus \in Seq(Terms \X Nat) /\ screen \in [Terms -> Nat]
      /\ screen' \in [Terms -> Nat] /\ \A t \in Terms : screen'[t] <= screen[t]
  BY DEF StreamInv, WireOK, OutputInv, ScreensBounded
<1>2. BusBounded' /\ FramesBounded'
  BY DEF OutputInv, BusBounded, FramesBounded
<1>3. ScreensBounded'
  <2> SUFFICES ASSUME NEW t \in Terms PROVE shown[t] <= out[t] /\ screen'[t] <= out[t]
    BY <1>1 DEF ScreensBounded
  <2>1. shown[t] <= out[t] /\ screen[t] <= out[t]
    BY DEF OutputInv, ScreensBounded
  <2> QED BY <2>1, <1>1
<1>4. ASSUME NEW k \in DOMAIN down, IsFrame(down[k])
      PROVE  down[k].term \in Terms /\ down[k].term \notin A /\ screen'[down[k].term] = screen[down[k].term]
  BY <1>4, FrameTyped DEF Framed, FrameOf
<1>5. FramesNewer'
  BY <1>4 DEF OutputInv, FramesNewer, Fresh, IsFrame
<1>6. BusNewer'
  <2> SUFFICES ASSUME ~busy, ~replay, NEW i \in DOMAIN bus
               PROVE  /\ screen'[bus[i][1]] < bus[i][2]
                      /\ \A j \in DOMAIN down : FrameOf(down[j], bus[i][1]) =>
                           \A d \in ChunksOf(down[j]) : d < bus[i][2]
    BY DEF BusNewer
  <2>1. bus[i][1] \in Terms /\ bus[i][2] \in Nat
    BY <1>1
  <2>2. /\ screen[bus[i][1]] < bus[i][2]
        /\ \A j \in DOMAIN down : FrameOf(down[j], bus[i][1]) => \A d \in ChunksOf(down[j]) : d < bus[i][2]
    BY DEF OutputInv, BusNewer
  <2>3. screen'[bus[i][1]] \in Nat /\ screen[bus[i][1]] \in Nat /\ screen'[bus[i][1]] <= screen[bus[i][1]]
    BY <1>1, <2>1
  <2> QED BY <2>1, <2>2, <2>3
<1>7. \A t \in Terms \ A : \A k, n : Stands(t, k, n)' <=> Stands(t, k, n)
  <2> SUFFICES ASSUME NEW t \in Terms \ A PROVE \A k, n : Stands(t, k, n)' <=> Stands(t, k, n)
    OBVIOUS
  <2>1. screen'[t] = screen[t]
    OBVIOUS
  <2> QED BY <2>1 DEF Stands
<1>8. FramesContinue'
  <2> SUFFICES ASSUME NEW t \in reg', NEW k \in DOMAIN down, NEW n \in Nat,
                      Fresh(down[k]), down[k].term = t, ~down[k].holed, Stands(t, k - 1, n)'
               PROVE  n + 1 \in down[k].chunks
    BY DEF FramesContinue
  <2>1. t \in Terms \ A /\ t \in reg
    BY <1>4 DEF Fresh, IsFrame
  <2> QED BY <2>1, <1>7 DEF OutputInv, FramesContinue
<1>9. BusContinues'
  <2> SUFFICES ASSUME NEW t \in reg', NEW k, k = Len(down), NEW n \in Nat,
                      t \in Subscribed \ drawing, ~gap[t], Stands(t, k, n)'
               PROVE  \A c \in Nat : (n < c /\ c <= out[t]) => c \in OnBus(t)
    BY DEF BusContinues, Subscribed, OnBus
  <2>1. t \in Terms \ A /\ t \in reg
    BY DEF Subscribed
  <2> QED BY <2>1, <1>7 DEF OutputInv, BusContinues
<1> QED BY <1>2, <1>3, <1>5, <1>6, <1>8, <1>9 DEF OutputInv

\* The output branch: each frame goes on where its terminal stands, and nothing
\* is left behind.
LEMMA OutputSent ==
  ASSUME StreamInv, HistoryOK, OutputInv, Forward, UNCHANGED clientVars
  PROVE  OutputInv'
<1>1. /\ UNCHANGED <<out, shown, screen, reg, busy, subs, drawing>> /\ bus' = <<>> /\ ~replay'
      /\ ~busy /\ gap' = [t \in Terms |-> gap[t] /\ OnBus(t) = {}]
  BY DEF Forward, Loop, clientVars, uiVars, OnBus
<1>2. PICK f \in Seq(Frames) :
        /\ down' = down \o f
        /\ \A k \in DOMAIN f :
             /\ f[k].kind = "output" /\ f[k].term \in Subscribed
             /\ f[k].chunks = OnBus(f[k].term) /\ f[k].chunks # {}
             /\ f[k].holed = gap[f[k].term] /\ f[k].replayed = replay
        /\ \A t \in Subscribed : OnBus(t) # {} => \E k \in DOMAIN f : f[k].term = t
        /\ \A j, k \in DOMAIN f : f[j].term = f[k].term => j = k
  BY Forwarded
<1>3. f \in Seq(DownMessages) /\ down \in Seq(DownMessages)
  BY DEF DownMessages, StreamInv, WireOK
<1>4. /\ DOMAIN down = 1..Len(down) /\ DOMAIN f = 1..Len(f) /\ Len(down) \in Nat /\ Len(f) \in Nat
      /\ DOMAIN down' = 1..(Len(down) + Len(f)) /\ Len(down') = Len(down) + Len(f)
      /\ \A k \in DOMAIN down : k \in DOMAIN down' /\ down'[k] = down[k]
      /\ \A k \in DOMAIN f : Len(down) + k \in DOMAIN down' /\ down'[Len(down) + k] = f[k]
      /\ \A k \in DOMAIN down' : k \in DOMAIN down \/ (k - Len(down) \in DOMAIN f /\ down'[k] = f[k - Len(down)])
  BY <1>2, <1>3, Joined
<1>5. drawing = {} /\ out \in [Terms -> Nat] /\ bus \in Seq(Terms \X Nat) /\ screen \in [Terms -> Nat]
  BY <1>1 DEF StreamInv, WireOK, OutputInv, ScreensBounded
<1>6. ASSUME NEW k \in DOMAIN f
      PROVE  /\ f[k].term \in Terms /\ IsFrame(f[k]) /\ ChunksOf(f[k]) = OnBus(f[k].term)
             /\ \A n : Newest(f[k], n) <=> n = out[f[k].term]
             /\ \A t : FrameOf(f[k], t) <=> t = f[k].term
  <2>1. /\ f[k].term \in Terms /\ f[k].kind = "output" /\ f[k].chunks = OnBus(f[k].term)
        /\ OnBus(f[k].term) # {}
    BY <1>2 DEF Subscribed
  <2>2. /\ out[f[k].term] \in OnBus(f[k].term) /\ OnBus(f[k].term) \subseteq Nat
        /\ \A c \in OnBus(f[k].term) : c <= out[f[k].term]
    BY <2>1, NewestOnBus DEF OutputInv
  <2>3. ChunksOf(f[k]) = OnBus(f[k].term) /\ IsFrame(f[k])
    BY <2>1 DEF ChunksOf, IsFrame
  <2>4. out[f[k].term] \in Nat
    BY <2>1, <1>5
  <2> QED BY <2>1, <2>2, <2>3, <2>4 DEF Newest, FrameOf
<1>7. ASSUME ~replay, NEW t \in Terms, NEW c \in OnBus(t)
      PROVE  /\ screen[t] < c /\ c \in Nat
             /\ \A j \in DOMAIN down : FrameOf(down[j], t) => \A d \in ChunksOf(down[j]) : d < c
  <2>1. PICK i \in DOMAIN bus : bus[i][1] = t /\ bus[i][2] = c
    BY DEF OnBus
  <2>2. bus[i][2] \in Nat
    BY <1>5
  <2> QED BY <1>1, <1>7, <2>1, <2>2 DEF OutputInv, BusNewer
<1>8. BusBounded' /\ ScreensBounded' /\ BusNewer'
  <2>1. BusBounded' /\ BusNewer'
    BY <1>1 DEF BusBounded, BusNewer
  <2> QED BY <1>1, <2>1 DEF OutputInv, ScreensBounded
<1>9. FramesBounded'
  <2> SUFFICES ASSUME NEW k \in DOMAIN down', IsFrame(down'[k])
               PROVE  \E n \in Nat : n <= out[down'[k].term] /\ Newest(down'[k], n)
    BY <1>1 DEF FramesBounded
  <2>1. CASE k \in DOMAIN down
    BY <2>1, <1>4 DEF OutputInv, FramesBounded
  <2>2. ASSUME NEW i \in DOMAIN f, down'[k] = f[i] PROVE \E n \in Nat : n <= out[down'[k].term] /\ Newest(down'[k], n)
    <3>1. out[f[i].term] \in Nat /\ Newest(f[i], out[f[i].term])
      BY <1>5, <1>6
    <3> QED BY <2>2, <3>1
  <2> QED BY <1>4, <2>1, <2>2
<1>10. FramesNewer'
  <2> SUFFICES ASSUME NEW k \in DOMAIN down', Fresh(down'[k]), NEW c \in down'[k].chunks
               PROVE  /\ screen[down'[k].term] < c
                      /\ \A j \in 1..(k - 1) : FrameOf(down'[j], down'[k].term) =>
                           \A d \in ChunksOf(down'[j]) : d < c
    BY <1>1 DEF FramesNewer
  <2>1. CASE k \in DOMAIN down
    <3>1. \A j \in 1..(k - 1) : j \in DOMAIN down
      BY <2>1, <1>4
    <3> QED BY <2>1, <3>1, <1>4 DEF OutputInv, FramesNewer
  <2>2. CASE k \notin DOMAIN down
    <3> DEFINE i == k - Len(down)
    <3>1. i \in DOMAIN f /\ down'[k] = f[i] /\ k = Len(down) + i
      BY <2>2, <1>4
    <3> HIDE DEF i
    <3>2. ~replay /\ c \in OnBus(f[i].term) /\ f[i].term \in Terms
      BY <3>1, <1>2, <1>6 DEF Fresh
    <3>3. ASSUME NEW j \in 1..(k - 1), FrameOf(down'[j], f[i].term)
          PROVE  j \in DOMAIN down
      <4>1. CASE j \notin DOMAIN down
        <5> DEFINE l == j - Len(down)
        <5>1. l \in DOMAIN f /\ down'[j] = f[l] /\ j = Len(down) + l
          BY <4>1, <3>1, <1>4
        <5> HIDE DEF l
        <5>2. l = i
          BY <3>1, <3>3, <5>1, <1>2, <1>6
        <5> QED BY <3>1, <5>1, <5>2, <1>4
      <4> QED BY <4>1
    <3> QED BY <3>1, <3>2, <3>3, <1>4, <1>7
  <2> QED BY <2>1, <2>2
<1>11. FramesContinue'
  <2> SUFFICES ASSUME NEW t \in reg, NEW k \in DOMAIN down', NEW n \in Nat,
                      Fresh(down'[k]), down'[k].term = t, ~down'[k].holed, Stands(t, k - 1, n)'
               PROVE  n + 1 \in down'[k].chunks
    BY <1>1 DEF FramesContinue
  <2>1. CASE k \in DOMAIN down
    <3>1. k - 1 \in Nat /\ k - 1 <= Len(down)
      BY <2>1, <1>4
    <3>2. Stands(t, k - 1, n)
      BY <3>1, <1>1, <1>2, <1>3, StandsBefore
    <3> QED BY <2>1, <3>2, <1>4 DEF OutputInv, FramesContinue
  <2>2. CASE k \notin DOMAIN down
    <3> DEFINE i == k - Len(down)
    <3>1. i \in DOMAIN f /\ down'[k] = f[i] /\ k = Len(down) + i
      BY <2>2, <1>4
    <3> HIDE DEF i
    <3>2. t \in Subscribed /\ t \in Terms /\ ~gap[t] /\ ~replay /\ f[i].chunks = OnBus(t) /\ OnBus(t) # {}
      BY <3>1, <1>2, <1>6 DEF Fresh
    <3>3. Stands(t, Len(down), n)
      <4>1. k - 1 \in Nat /\ Len(down) <= k - 1 /\ k - 1 <= Len(down) + Len(f)
        BY <3>1, <1>4
      <4>2. \A l \in DOMAIN f : Len(down) + l <= k - 1 => ~FrameOf(f[l], t)
        <5>1. \A l \in DOMAIN f : Len(down) + l <= k - 1 => l # i
          BY <3>1, <1>4
        <5> QED BY <5>1, <3>1, <1>2, <1>6
      <4> QED BY <4>1, <4>2, <1>1, <1>2, <1>3, StandsBefore
    <3>4. PICK c \in OnBus(t) : c \in Nat /\ c <= out[t] /\ n < c
      <4>1. PICK c \in OnBus(t) : TRUE
        BY <3>2
      <4>2. n < c
        BY <3>2, <3>3, <1>7, <1>4 DEF Stands, Newest
      <4>3. c <= out[t] /\ c \in Nat
        BY <3>2, <1>7, NewestOnBus DEF OutputInv
      <4> QED BY <4>2, <4>3
    <3>5. n + 1 \in Nat /\ n < n + 1 /\ n + 1 <= out[t]
      BY <3>2, <3>4, <1>5
    <3>6. n + 1 \in OnBus(t)
      BY <3>2, <3>3, <3>5, <1>5 DEF OutputInv, BusContinues
    <3> QED BY <3>1, <3>2, <3>6
  <2> QED BY <2>1, <2>2
<1>12. BusContinues'
  <2> SUFFICES ASSUME NEW t \in reg, NEW k, k = Len(down) + Len(f), NEW n \in Nat,
                      t \in Subscribed, ~gap'[t], Stands(t, k, n)',
                      NEW c \in Nat, n < c, c <= out[t]
               PROVE  FALSE
    BY <1>1, <1>4 DEF BusContinues, Subscribed
  <2>1. t \in Terms /\ k \in Nat /\ Len(down) <= k /\ k <= Len(down) + Len(f)
    BY <1>4 DEF Subscribed
  <2>2. CASE OnBus(t) = {}
    <3>1. \A i \in DOMAIN f : ~FrameOf(f[i], t)
      BY <2>2, <1>2, <1>6
    <3>2. Stands(t, Len(down), n)
      BY <2>1, <3>1, <1>1, <1>2, <1>3, StandsBefore
    <3>3. ~gap[t]
      BY <2>1, <2>2, <1>1
    <3>4. c \in OnBus(t)
      BY <3>2, <3>3, <1>5 DEF OutputInv, BusContinues
    <3> QED BY <2>2, <3>4
  <2>3. CASE OnBus(t) # {}
    <3>1. PICK i \in DOMAIN f : f[i].term = t
      BY <2>3, <1>2
    <3> DEFINE l == Len(down) + i
    <3>2. l \in 1..k /\ l \in Nat /\ down'[l] = f[i] /\ FrameOf(down'[l], t)
      BY <3>1, <1>4, <1>6
    <3> HIDE DEF l
    <3>3. PICK j \in 1..k : /\ FrameOf(down'[j], t) /\ Newest(down'[j], n)
                            /\ \A h \in (j + 1)..k : ~FrameOf(down'[h], t)
      BY <3>2 DEF Stands
    <3>4. l <= j
      <4>1. j < l => l \in (j + 1)..k
        BY <3>2
      <4> QED BY <3>2, <3>3, <4>1
    <3>5. j \in DOMAIN down' /\ j \notin DOMAIN down
      BY <3>2, <3>4, <1>4 DEF l
    <3>6. PICK h \in DOMAIN f : down'[j] = f[h]
      BY <3>5, <1>4
    <3>7. n = out[t]
      BY <3>3, <3>6, <1>6
    <3> QED BY <3>7, <2>1, <1>5
  <2> QED BY <2>2, <2>3
<1> QED BY <1>8, <1>9, <1>10, <1>11, <1>12 DEF OutputInv

\* The task of the client puts a state in: terminals it starts are unknown yet.
LEMMA StateTaken ==
  ASSUME StreamInv, ClientOK, OnceOnly, OutputInv, FirstState \/ NewState
  PROVE  OutputInv'
<1>0. answer \subseteq Terms /\ cached \subseteq Terms /\ reg \subseteq Terms
  BY DEF StreamInv, WireOK, ClientOK, TermsOK
<1>1. CASE FirstState
  <2> DEFINE A == answer \ reg
  <2>1. /\ screen' = [t \in Terms |-> IF t \in A THEN 0 ELSE screen[t]] /\ reg' = answer
        /\ UNCHANGED <<out, shown, bus, down, busy, replay, subs, drawing, gap>>
    BY <1>1 DEF FirstState, NewScreens, uiVars, sessionVars
  <2>2. nextId = 1
    BY <1>1 DEF FirstState, ClientOK, SessionShape
  <2>3. \A t \in A : t \notin Subscribed /\ ~Framed(t)
    BY <2>2, NoStreamYet DEF Framed, FrameOf
  <2> QED BY <1>0, <2>1, <2>3, ScreensRenewed
<1>2. CASE NewState
  <2> DEFINE A == Added \ reg
  <2>1. /\ screen' = [t \in Terms |-> IF t \in A THEN 0 ELSE screen[t]] /\ reg' = (reg \cup Added) \ Removed
        /\ UNCHANGED <<out, shown, bus, down, busy, replay, subs, drawing, gap>>
    BY <1>2 DEF NewState, NewScreens, serverVars, uiVars, sessionVars
  <2>2. reg' \subseteq reg \cup A
    BY <2>1
  <2>3. \A t \in A : t \notin Subscribed /\ ~Framed(t)
    BY <1>0, <1>2 DEF NewState, Added, OnceOnly, Known
  <2>4. A \in SUBSET Terms
    BY <1>0 DEF Added
  <2> QED BY <2>1, <2>2, <2>3, <2>4, ScreensRenewed
<1> QED BY <1>1, <1>2

LEMMA OutputKept == StreamInv /\ HistoryOK /\ ClientOK /\ OnceOnly /\ OutputInv /\ [Next]_vars => OutputInv'
<1> SUFFICES ASSUME StreamInv, HistoryOK, ClientOK, OnceOnly, OutputInv, [Next]_vars PROVE OutputInv'
  OBVIOUS
<1>1. CASE Server
  BY <1>1, QuietSteps, SubscriptionSent, SessionWork, NewsSent, OutputSent, DrainEnds, SnapshotSent
     DEF Server, ServerStep
<1>2. CASE UIThread
  BY <1>2, SessionWork DEF UIThread
<1>3. CASE Reader
  BY <1>3, QuietSteps, StateTaken, MessageRead, FrameRead DEF Reader
<1>4. CASE Answer \/ Write \/ UNCHANGED vars
  BY <1>4, QuietSteps
<1>5. CASE Surroundings
  BY <1>5, QuietSteps, OutputPublished, SessionEnds DEF Surroundings
<1> QED BY <1>1, <1>2, <1>3, <1>4, <1>5 DEF Next

-----------------------------------------------------------------------------
(* The invariant of a connection, and what follows from it.                *)

ConnectionInv ==
  StreamInv /\ HistoryOK /\ ClientOK /\ OnceOnly /\ OutputInv /\ StateFollowed /\ AllRequested

LEMMA ConnectionInit == Init => ConnectionInv
<1> SUFFICES ASSUME Init PROVE ConnectionInv
  OBVIOUS
<1>1. StreamInv /\ ClientOK
  BY StreamInit, ClientInit
<1>2. /\ link = "down" /\ phase = "dialing" /\ request = "none" /\ up = <<>> /\ down = <<>> /\ bus = <<>>
      /\ queue = <<>> /\ Subscribed = {} /\ answer = {} /\ cached = {} /\ reg = {}
      /\ \A t \in Terms : out[t] = 0 /\ shown[t] = 0 /\ screen[t] = 0
      /\ screen \in [Terms -> Nat]
  BY DEF Init, ServerInit, Subscribed
<1>3. HistoryOK
  BY DEF Init, ServerInit, HistoryOK
<1>4. OnceOnly
  BY <1>2 DEF OnceOnly, Known, Framed, Requested, Dismissed, Says
<1>5. OutputInv
  BY <1>2 DEF OutputInv, BusBounded, FramesBounded, ScreensBounded, FramesNewer, BusNewer, FramesContinue,
     BusContinues
<1>6. StateFollowed /\ AllRequested
  BY <1>2 DEF StateFollowed, AllRequested
<1> QED BY <1>1, <1>3, <1>4, <1>5, <1>6 DEF ConnectionInv

\* The invariant of a connection: the numbers of the output from the bus to the
\* screen, and the states from the instance to the client.
THEOREM ConnectionInvariant == Spec => []ConnectionInv
<1>1. ConnectionInv /\ HistoryOK' /\ [Next]_vars => ConnectionInv'
  <2> SUFFICES ASSUME ConnectionInv, HistoryOK', [Next]_vars PROVE ConnectionInv'
    OBVIOUS
  <2> USE DEF ConnectionInv
  <2>1. StreamInv'
    BY StreamStep
  <2>2. ClientOK'
    BY TasksKept, ShapeKept, TermsKept, SizesKept DEF ClientOK
  <2>3. OnceOnly' /\ OutputInv'
    BY OnceKept, OutputKept
  <2>4. StateFollowed' /\ AllRequested'
    BY FollowedKept, RequestedKept
  <2> QED BY <2>1, <2>2, <2>3, <2>4
<1> QED BY <1>1, ConnectionInit, HistoryTyped, PTL DEF Spec

\* The types of the connection's variables, and the limits of its buffers.
THEOREM ConnectionTyped == Spec => []TypeOK
<1>1. ConnectionInv => TypeOK
  <2> SUFFICES ASSUME ConnectionInv PROVE TypeOK
    OBVIOUS
  <2>1. /\ StreamInv /\ TasksOK /\ SessionShape /\ TermsOK /\ SizesOK /\ ScreensBounded
    BY DEF ConnectionInv, ClientOK, OutputInv
  <2>2. \A t \in Terms : out[t] \in Nat /\ shown[t] \in 0..out[t] /\ screen[t] \in 0..out[t]
    BY <2>1 DEF StreamInv, WireOK, ScreensBounded
  <2>3. \A t \in Subscribed : subs[t] < nextId
    <3> SUFFICES ASSUME NEW t \in Subscribed PROVE subs[t] < nextId
      OBVIOUS
    <3>1. t \in Terms /\ subs[t] \in Nat /\ link # "down" /\ Binds(subs[t], t)
      BY <2>1 DEF Subscribed, StreamInv, WireOK, SilentWhenDown, Binds
    <3> QED BY <2>1, <3>1 DEF StreamInv, OneMeaning
  <2> QED BY <2>1, <2>2, <2>3 DEF TypeOK, StreamInv, WireOK, TasksOK, SessionShape, TermsOK, SizesOK
<1> QED BY <1>1, ConnectionInvariant, PTL

\* A frame of output the client reads goes on where its screen stands: nothing
\* comes twice and nothing is left out, but for what the frame owns up to.
THEOREM OutputIsContinuous == Spec => []OutputContinues
<1>1. ConnectionInv => OutputContinues
  <2> SUFFICES ASSUME ConnectionInv, down # <<>>, Head(down).kind = "output", Head(down).term \in reg,
                      ~Head(down).replayed
               PROVE  /\ \A c \in Head(down).chunks : c > screen[Head(down).term]
                      /\ ~Head(down).holed => screen[Head(down).term] + 1 \in Head(down).chunks
    BY DEF OutputContinues
  <2> DEFINE m == down[1]
  <2>1. 1 \in DOMAIN down /\ Head(down) = down[1]
    BY WiresTyped DEF ConnectionInv
  <2>2. Fresh(down[1]) /\ IsFrame(down[1])
    BY <2>1 DEF Fresh, IsFrame
  <2>3. m.term \in Terms /\ m.chunks \subseteq Nat /\ screen[m.term] \in Nat
    BY <2>1, <2>2, FrameTyped DEF ConnectionInv, OutputInv, ScreensBounded, Fresh
  <2>4. \A c \in m.chunks : screen[m.term] < c
    BY <2>1, <2>2 DEF ConnectionInv, OutputInv, FramesNewer
  <2>5. Stands(m.term, 1 - 1, screen[m.term])
    BY DEF Stands
  <2>6. ~m.holed => screen[m.term] + 1 \in m.chunks
    BY <2>1, <2>2, <2>3, <2>5 DEF ConnectionInv, OutputInv, FramesContinue
  <2> QED BY <2>1, <2>3, <2>4, <2>6
<1> QED BY <1>1, ConnectionInvariant, PTL

\* A connected client differs from the server only while word of the difference
\* is under way.
THEOREM ClientsFollow == Spec => []ClientFollows
<1>1. ConnectionInv => ClientFollows
  BY DEF ConnectionInv, ClientOK, SessionShape, ClientFollows
<1> QED BY <1>1, ConnectionInvariant, PTL

=============================================================================
