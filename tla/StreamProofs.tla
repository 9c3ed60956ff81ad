----------------------------- MODULE StreamProofs -----------------------------
(***************************************************************************)
(* Proofs about the remote connection: a stream id stands for one terminal *)
(* for as long as anybody holds it.  What is said of a session is said of  *)
(* every place where an id may be: the server's subscriptions, messages in *)
(* both directions, and the two maps of the client.  The last part is how  *)
(* far the two ends of a session may be apart, and how much is under way.  *)
(***************************************************************************)
EXTENDS RemoteClient, FiniteSetTheorems, TLAPS

\* What may be on the wire, and in the queue of the client's writer.
QueueMessages ==
  [kind : {"subscribe", "unsubscribe"}, ids : SUBSET Terms] \cup [kind : {"text"}, term : Terms]
UpMessages    == QueueMessages \cup [kind : {"input"}, id : Nat, term : Terms]
Frames        == [kind : {"snapshot"}, id : Nat, term : Terms, chunk : Nat]
                 \cup [kind : {"output"}, id : Nat, term : Terms, chunks : SUBSET Nat,
                       holed : BOOLEAN, replayed : BOOLEAN]
DownMessages  == Frames \cup [kind : {"changed"}]
                 \cup [kind : {"subscribed"}, map : UNION {[S -> Nat] : S \in SUBSET Terms}]

WireOK ==
  /\ out \in [Terms -> Nat] /\ shown \in [Terms -> Nat] /\ bus \in Seq(Terms \X Nat)
  /\ subs \in [Terms -> Nat] /\ nextId \in Nat \ {0}
  /\ drawing \subseteq Subscribed /\ (drawing # {} => busy)
  /\ up \in Seq(UpMessages) /\ down \in Seq(DownMessages) /\ queue \in Seq(QueueMessages)
  /\ streams \in [Terms -> Nat] /\ names \subseteq Nat \X Terms
  /\ answer \subseteq Terms /\ cached \subseteq Terms /\ wired \subseteq Terms

IsFrame(m) == m.kind \in {"snapshot", "output"}

\* Message m tells the client that terminal t has stream i.
Tells(m, i, t) == m.kind = "subscribed" /\ t \in DOMAIN m.map /\ m.map[t] = i

\* Message m uses stream i for terminal t, or tells of it; so does one of s.
Carries(m, i, t) == Tells(m, i, t) \/ (m.kind \in {"input", "snapshot", "output"} /\ m.id = i /\ m.term = t)
Within(s, i, t)  == \E k \in DOMAIN s : Carries(s[k], i, t)
Told(s, i, t)    == \E k \in DOMAIN s : Tells(s[k], i, t)

\* Stream i stands for terminal t somewhere.
Binds(i, t) ==
  \/ i # 0 /\ (subs[t] = i \/ streams[t] = i)
  \/ <<i, t>> \in names
  \/ Within(up, i, t) \/ Within(down, i, t)

SilentWhenDown == link = "down" => up = <<>> /\ down = <<>> /\ Subscribed = {}

MapsOfSession == phase # "open" => streams = NoStreams /\ names = {}

OneMeaning ==
  link # "down" =>
    /\ \A i \in Nat, t \in Terms : Binds(i, t) => 0 < i /\ i < nextId
    /\ \A i \in Nat, t, u \in Terms : Binds(i, t) /\ Binds(i, u) => t = u

\* The client knows the stream of a frame, or is told before it reads the frame.
FramesKnown ==
  \A k \in DOMAIN down : IsFrame(down[k]) =>
    \/ <<down[k].id, down[k].term>> \in names
    \/ \E j \in 1..(k - 1) : Tells(down[j], down[k].id, down[k].term)

StreamsKnown == \A t \in Subscribed : <<subs[t], t>> \in names \/ Told(down, subs[t], t)

HistoryOK == gap \in [Terms -> BOOLEAN] /\ replay \in BOOLEAN

StreamInv ==
  WireOK /\ SilentWhenDown /\ MapsOfSession /\ OneMeaning /\ FramesKnown /\ StreamsKnown

-----------------------------------------------------------------------------
(* Sequences of messages.                                                  *)

LEMMA WithinTail ==
  ASSUME NEW S, NEW s \in Seq(S), s # <<>>, NEW i, NEW t, Within(Tail(s), i, t)
  PROVE  Within(s, i, t)
<1>1. PICK k \in DOMAIN Tail(s) : Carries(Tail(s)[k], i, t)
  BY DEF Within
<1>2. k + 1 \in DOMAIN s /\ Tail(s)[k] = s[k + 1]
  OBVIOUS
<1> QED BY <1>1, <1>2 DEF Within

LEMMA WithinAppend ==
  ASSUME NEW S, NEW s \in Seq(S), NEW m \in S, NEW i, NEW t, Within(Append(s, m), i, t)
  PROVE  Within(s, i, t) \/ Carries(m, i, t)
<1>1. PICK k \in DOMAIN Append(s, m) : Carries(Append(s, m)[k], i, t)
  BY DEF Within
<1>2. (k \in DOMAIN s /\ Append(s, m)[k] = s[k]) \/ Append(s, m)[k] = m
  OBVIOUS
<1> QED BY <1>1, <1>2 DEF Within

LEMMA ToldAppend ==
  ASSUME NEW S, NEW s \in Seq(S), NEW m \in S, NEW i, NEW t
  PROVE  /\ Told(s, i, t) => Told(Append(s, m), i, t)
         /\ Tells(m, i, t) => Told(Append(s, m), i, t)
<1>1. /\ DOMAIN s \subseteq DOMAIN Append(s, m)
      /\ \A k \in DOMAIN s : Append(s, m)[k] = s[k]
      /\ Len(s) + 1 \in DOMAIN Append(s, m) /\ Append(s, m)[Len(s) + 1] = m
  OBVIOUS
<1> QED BY <1>1 DEF Told

LEMMA ToldTail ==
  ASSUME NEW S, NEW s \in Seq(S), s # <<>>, NEW i, NEW t, Told(s, i, t), ~Tells(Head(s), i, t)
  PROVE  Told(Tail(s), i, t)
<1>1. PICK k \in DOMAIN s : Tells(s[k], i, t)
  BY DEF Told
<1>2. k # 1 /\ Head(s) = s[1]
  BY <1>1
<1>3. k - 1 \in DOMAIN Tail(s) /\ Tail(s)[k - 1] = s[k]
  BY <1>2
<1> QED BY <1>1, <1>3 DEF Told

\* What two sequences make together.
LEMMA Joined ==
  ASSUME NEW S, NEW s \in Seq(S), NEW f \in Seq(S)
  PROVE  /\ s \o f \in Seq(S) /\ Len(s \o f) = Len(s) + Len(f)
         /\ DOMAIN s = 1..Len(s) /\ DOMAIN f = 1..Len(f) /\ Len(s) \in Nat /\ Len(f) \in Nat
         /\ DOMAIN (s \o f) = 1..(Len(s) + Len(f))
         /\ \A k \in DOMAIN s : k \in DOMAIN (s \o f) /\ (s \o f)[k] = s[k]
         /\ \A k \in DOMAIN f : Len(s) + k \in DOMAIN (s \o f) /\ (s \o f)[Len(s) + k] = f[k]
         /\ \A k \in DOMAIN (s \o f) : k \in DOMAIN s \/ (k - Len(s) \in DOMAIN f /\ (s \o f)[k] = f[k - Len(s)])
<1>1. s \o f \in Seq(S) /\ Len(s \o f) = Len(s) + Len(f) /\ Len(s) \in Nat /\ Len(f) \in Nat
  OBVIOUS
<1>2. \A k \in 1..Len(s \o f) : (s \o f)[k] = IF k <= Len(s) THEN s[k] ELSE f[k - Len(s)]
  BY <1>1
<1>3. DOMAIN s = 1..Len(s) /\ DOMAIN f = 1..Len(f) /\ DOMAIN (s \o f) = 1..(Len(s) + Len(f))
  BY <1>1
<1> DEFINE b == s \o f
<1> HIDE DEF b
<1>4. \A k \in 1..(Len(s) + Len(f)) : b[k] = IF k <= Len(s) THEN s[k] ELSE f[k - Len(s)]
  BY <1>1, <1>2 DEF b
<1>5. \A k \in 1..Len(s) : k \in 1..(Len(s) + Len(f)) /\ b[k] = s[k]
  BY <1>1, <1>4
<1>6. \A k \in 1..Len(f) : Len(s) + k \in 1..(Len(s) + Len(f)) /\ b[Len(s) + k] = f[k]
  BY <1>1, <1>4
<1>7. \A k \in 1..(Len(s) + Len(f)) :
        k \in 1..Len(s) \/ (k - Len(s) \in 1..Len(f) /\ b[k] = f[k - Len(s)])
  BY <1>1, <1>4
<1> QED BY <1>1, <1>3, <1>5, <1>6, <1>7 DEF b

LEMMA Appended ==
  ASSUME NEW S, NEW s \in Seq(S), NEW m \in S
  PROVE  /\ Append(s, m) \in Seq(S) /\ Len(Append(s, m)) = Len(s) + 1 /\ Len(s) \in Nat
         /\ DOMAIN s = 1..Len(s) /\ DOMAIN Append(s, m) = 1..(Len(s) + 1)
         /\ \A k \in DOMAIN s : k \in DOMAIN Append(s, m) /\ Append(s, m)[k] = s[k]
         /\ Append(s, m)[Len(s) + 1] = m
         /\ \A k \in DOMAIN Append(s, m) : k \in DOMAIN s \/ k = Len(s) + 1
OBVIOUS

LEMMA Tailed ==
  ASSUME NEW S, NEW s \in Seq(S), s # <<>>
  PROVE  /\ Tail(s) \in Seq(S) /\ Len(Tail(s)) = Len(s) - 1 /\ Len(s) \in Nat \ {0}
         /\ DOMAIN s = 1..Len(s) /\ DOMAIN Tail(s) = 1..(Len(s) - 1)
         /\ Head(s) = s[1] /\ s[1] \in S
         /\ \A k \in DOMAIN Tail(s) : k + 1 \in DOMAIN s /\ Tail(s)[k] = s[k + 1]
         /\ \A k \in DOMAIN s : k # 1 => k - 1 \in DOMAIN Tail(s) /\ s[k] = Tail(s)[k - 1]
OBVIOUS

\* The library's sequence of a finite set lists each member once.
LEMMA SequenceOfSet ==
  ASSUME NEW S, IsFiniteSet(S)
  PROVE  /\ SetToSeq(S) \in [1..Cardinality(S) -> S]
         /\ Cardinality(S) \in Nat /\ Len(SetToSeq(S)) = Cardinality(S)
         /\ \A x \in S : \E k \in 1..Cardinality(S) : SetToSeq(S)[k] = x
         /\ \A j, k \in 1..Cardinality(S) : SetToSeq(S)[j] = SetToSeq(S)[k] => j = k
<1> DEFINE n == Cardinality(S)
           f == SetToSeq(S)
<1>1. n \in Nat /\ ExistsBijection(1..n, S)
  BY FS_CardinalityType
<1>2. \E g \in [1..n -> S] : IsInjective(g)
  BY <1>1, Zenon DEF ExistsBijection, Bijection, Injection, IsInjective
<1>3. f \in [1..n -> S] /\ IsInjective(f)
  BY <1>2, Zenon DEF SetToSeq
<1>4. \A j, k \in 1..n : f[j] = f[k] => j = k
  BY <1>3 DEF IsInjective
<1>5. f \in Injection(1..n, S)
  BY <1>3, <1>4, Zenon DEF Injection, IsInjective
<1>6. IsFiniteSet(1..n) /\ Cardinality(1..n) = n
  BY <1>1, FS_Interval
<1>7. f \in Surjection(1..n, S)
  BY <1>5, <1>6, FS_Injection, Zenon
<1>8. \A x \in S : \E k \in 1..n : f[k] = x
  BY <1>7 DEF Surjection
<1>9. Len(f) = n
  BY <1>1, <1>3
<1> HIDE DEF f, n
<1> QED BY <1>1, <1>3, <1>4, <1>8, <1>9 DEF f, n

-----------------------------------------------------------------------------
(* Steps that leave the streams alone.                                     *)

Wire == <<up, down, subs, streams, names, nextId>>

\* What no step but a subscription and the end of a session does: bring up a
\* pair of a stream and a terminal that was nowhere before.
NothingNew == nextId' = nextId /\ \A i \in Nat, t \in Terms : Binds(i, t)' => Binds(i, t)

LEMMA MeaningKept ==
  ASSUME OneMeaning, NothingNew, link = "down" => link' = "down"
  PROVE  OneMeaning'
BY DEF OneMeaning, NothingNew

LEMMA WireUntouched ==
  ASSUME StreamInv, UNCHANGED Wire, link' = "down" <=> link = "down",
         phase' # "open" => phase # "open",
         out' \in [Terms -> Nat] /\ shown' \in [Terms -> Nat] /\ bus' \in Seq(Terms \X Nat),
         drawing' \subseteq Subscribed /\ (drawing' # {} => busy'),
         queue' \in Seq(QueueMessages),
         answer' \subseteq Terms /\ cached' \subseteq Terms /\ wired' \subseteq Terms
  PROVE  StreamInv'
<1>0. WireOK'
  BY DEF StreamInv, WireOK, Wire, Subscribed
<1>1. NothingNew
  BY DEF NothingNew, Wire, Binds, Within
<1>2. OneMeaning'
  BY <1>1, MeaningKept DEF StreamInv
<1>3. SilentWhenDown' /\ MapsOfSession'
  BY DEF StreamInv, SilentWhenDown, MapsOfSession, Wire, Subscribed
<1>4. FramesKnown' /\ StreamsKnown'
  BY DEF StreamInv, FramesKnown, StreamsKnown, Wire, Subscribed, Told
<1> QED BY <1>0, <1>2, <1>3, <1>4 DEF StreamInv

\* The queue takes what the views and the reader want written.
LEMMA Enqueued ==
  ASSUME NEW q \in Seq(QueueMessages), NEW m \in QueueMessages
  PROVE  Enqueue(q, m) \in Seq(QueueMessages)
BY DEF Enqueue

LEMMA ChangeKeeps == StreamInv /\ Change => StreamInv'
<1> SUFFICES ASSUME StreamInv, Change PROVE StreamInv'
  OBVIOUS
<1>1. UNCHANGED Wire /\ link' = link /\ phase' = phase
      /\ UNCHANGED <<out, shown, bus, drawing, busy, queue, answer, cached, wired>>
  BY DEF Change, ChangeTerminal, Wire
<1> QED BY <1>1, WireUntouched DEF StreamInv, WireOK

LEMMA ProduceKeeps == StreamInv /\ Produce => StreamInv'
<1> SUFFICES ASSUME StreamInv, NEW t \in Terms, Output(t),
                    UNCHANGED <<phase, answer, cached, wired, queue, streams, names>>
             PROVE  StreamInv'
  BY DEF Produce
<1>1. UNCHANGED Wire /\ link' = link /\ phase' = phase
      /\ UNCHANGED <<shown, drawing, busy, queue, answer, cached, wired>>
  BY DEF Output, Wire
<1>2. bus \in Seq(Terms \X Nat) /\ <<t, out[t] + 1>> \in Terms \X Nat /\ out' \in [Terms -> Nat]
  BY DEF StreamInv, WireOK, Output
<1>3. Append(bus, <<t, out[t] + 1>>) \in Seq(Terms \X Nat)
  BY <1>2
<1>4. Tail(Append(bus, <<t, out[t] + 1>>)) \in Seq(Terms \X Nat)
  BY <1>2, <1>3
<1>5. bus' \in Seq(Terms \X Nat)
  BY <1>2, <1>3, <1>4 DEF Output
<1> QED BY <1>1, <1>2, <1>5, WireUntouched DEF StreamInv, WireOK

LEMMA TypeKeeps == StreamInv /\ Type => StreamInv'
<1> SUFFICES ASSUME StreamInv, Type PROVE StreamInv'
  OBVIOUS
<1>1. UNCHANGED Wire /\ link' = link /\ phase' = phase
      /\ UNCHANGED <<out, shown, bus, drawing, busy, answer, cached, wired>>
  BY DEF Type, Wire, serverVars, sessionVars, uiVars
<1>2. PICK t \in wired : queue' = Enqueue(queue, [kind |-> "text", term |-> t])
  BY DEF Type
<1>3. [kind |-> "text", term |-> t] \in QueueMessages /\ queue \in Seq(QueueMessages)
  BY DEF StreamInv, WireOK, QueueMessages
<1>4. queue' \in Seq(QueueMessages)
  BY <1>2, <1>3, Enqueued
<1> QED BY <1>1, <1>4, WireUntouched DEF StreamInv, WireOK

\* Steps of the server's task and of the UI thread that put nothing on the wire.
LEMMA WatchKeeps ==
  ASSUME StreamInv, Watch \/ Resync \/ Drain \/ \E t \in Terms : SkipSnapshot(t) \/ ShowOutput(t),
         UNCHANGED clientVars
  PROVE  StreamInv'
<1>1. UNCHANGED Wire /\ (link' = "down" <=> link = "down") /\ phase' = phase
      /\ UNCHANGED <<out, queue, answer, cached, wired>>
  BY DEF Watch, Resync, Drain, SkipSnapshot, ShowOutput, Wire, clientVars, sessionVars, uiVars
<1>2. <<>> \in Seq(Terms \X Nat)
  OBVIOUS
<1>3. bus' \in Seq(Terms \X Nat)
  BY <1>2 DEF Watch, Resync, Drain, SkipSnapshot, ShowOutput, sessionVars, StreamInv, WireOK
<1>4. shown' \in [Terms -> Nat]
  <2>1. ASSUME NEW t \in Terms, ShowOutput(t) PROVE shown' \in [Terms -> Nat]
    BY <2>1 DEF ShowOutput, StreamInv, WireOK
  <2>2. shown' = shown \/ \E t \in Terms : ShowOutput(t)
    BY DEF Watch, Resync, Drain, SkipSnapshot, uiVars
  <2> QED BY <2>1, <2>2 DEF StreamInv, WireOK
<1>5. drawing' \subseteq Subscribed /\ (drawing' # {} => busy')
  BY DEF Watch, Resync, Drain, SkipSnapshot, ShowOutput, sessionVars, StreamInv, WireOK
<1> QED BY <1>1, <1>3, <1>4, <1>5, WireUntouched DEF StreamInv, WireOK

LEMMA AnswerKeeps ==
  ASSUME StreamInv, Answer \/ RefetchFails \/ Pair
  PROVE  StreamInv'
<1>1. UNCHANGED Wire /\ link' = link /\ (phase' # "open" => phase # "open")
      /\ UNCHANGED <<out, shown, bus, drawing, busy, cached>>
  BY DEF Answer, RefetchFails, Pair, Wire, serverVars, sessionVars, uiVars
<1>2. Live \subseteq Terms /\ <<>> \in Seq(QueueMessages)
  BY DEF Live
<1>3. answer' \subseteq Terms /\ wired' \subseteq Terms /\ queue' \in Seq(QueueMessages)
  BY <1>2 DEF StreamInv, WireOK, Answer, RefetchFails, Pair
<1> QED BY <1>1, <1>3, WireUntouched DEF StreamInv, WireOK

LEMMA NewStateKeeps == StreamInv /\ NewState => StreamInv'
<1> SUFFICES ASSUME StreamInv, NewState PROVE StreamInv'
  OBVIOUS
<1> DEFINE sub == [kind |-> "subscribe", ids |-> Added]
           unsub == [kind |-> "unsubscribe", ids |-> Removed]
           told == IF Added = {} THEN queue ELSE Enqueue(queue, sub)
<1>1. UNCHANGED Wire /\ link' = link /\ phase' = phase
      /\ UNCHANGED <<out, shown, bus, drawing, busy>>
  BY DEF NewState, Wire, serverVars, sessionVars, uiVars
<1>2. sub \in QueueMessages /\ unsub \in QueueMessages /\ queue \in Seq(QueueMessages)
  BY DEF StreamInv, WireOK, QueueMessages, Added, Removed
<1>3. told \in Seq(QueueMessages)
  BY <1>2, Enqueued
<1>4. Enqueue(told, unsub) \in Seq(QueueMessages)
  BY <1>2, <1>3, Enqueued
<1>5. queue' = IF Removed = {} THEN told ELSE Enqueue(told, unsub)
  BY DEF NewState
<1>6. queue' \in Seq(QueueMessages)
  BY <1>3, <1>4, <1>5
<1>7. answer' \subseteq Terms /\ cached' \subseteq Terms /\ wired' \subseteq Terms
  BY DEF NewState, StreamInv, WireOK, Added
<1> QED BY <1>1, <1>6, <1>7, WireUntouched DEF StreamInv, WireOK

-----------------------------------------------------------------------------
(* The end of a session and the start of the next.                         *)

LEMMA HangupEnds ==
  ASSUME StreamInv, Hangup
  PROVE  /\ link' = "down" /\ up' = <<>> /\ down' = <<>> /\ bus' = <<>> /\ nextId' = 1
         /\ subs' = NoStreams /\ drawing' = {} /\ UNCHANGED uiVars
BY DEF Hangup, NoStreams

\* Whatever becomes of the client's maps and queue, nothing is known of the next
\* session's streams.
LEMMA SessionOver ==
  ASSUME StreamInv, Hangup \/ (link = "down" /\ UNCHANGED serverVars), MapsOfSession',
         queue' \in Seq(QueueMessages), streams' \in [Terms -> Nat],
         names' \subseteq Nat \X Terms,
         answer' \subseteq Terms /\ cached' \subseteq Terms /\ wired' \subseteq Terms
  PROVE  StreamInv'
<1>1. /\ link' = "down" /\ up' = <<>> /\ down' = <<>> /\ bus' \in Seq(Terms \X Nat)
      /\ subs' \in [Terms -> Nat] /\ Subscribed' = {} /\ drawing' = {} /\ UNCHANGED uiVars
      /\ nextId' \in Nat \ {0}
  <2>1. CASE Hangup
    BY <2>1, HangupEnds DEF Subscribed, NoStreams
  <2>2. CASE link = "down" /\ UNCHANGED serverVars
    BY <2>2 DEF serverVars, sessionVars, StreamInv, WireOK, SilentWhenDown, Subscribed
  <2> QED BY <2>1, <2>2
<1>2. WireOK'
  BY <1>1 DEF StreamInv, WireOK, uiVars
<1>3. SilentWhenDown' /\ OneMeaning' /\ FramesKnown' /\ StreamsKnown'
  BY <1>1 DEF SilentWhenDown, OneMeaning, FramesKnown, StreamsKnown
<1> QED BY <1>2, <1>3 DEF StreamInv

LEMMA EndsKeep ==
  ASSUME StreamInv, Break \/ Refused \/ DialFails \/ SessionLost \/ Reconnect
  PROVE  StreamInv'
<1>1. Hangup \/ (link = "down" /\ UNCHANGED serverVars)
  BY DEF Break, Refused, DialFails, SessionLost, Reconnect
<1>2. NoStreams \in [Terms -> Nat] /\ <<>> \in Seq(QueueMessages)
      /\ (queue # <<>> => Tail(queue) \in Seq(QueueMessages))
  BY DEF NoStreams, StreamInv, WireOK
<1>3. queue' \in Seq(QueueMessages) /\ streams' \in [Terms -> Nat] /\ names' \subseteq Nat \X Terms
  BY <1>2 DEF Break, Refused, DialFails, SessionLost, Reconnect, Retry, StreamInv, WireOK
<1>4. answer' \subseteq Terms /\ cached' \subseteq Terms /\ wired' \subseteq Terms
  BY DEF Break, Refused, DialFails, SessionLost, Reconnect, Retry, StreamInv, WireOK
<1>5. MapsOfSession'
  BY DEF Break, Refused, DialFails, SessionLost, Reconnect, Retry, StreamInv, MapsOfSession,
         NoStreams
<1> QED BY <1>1, <1>3, <1>4, <1>5, SessionOver

LEMMA DialKeeps == StreamInv /\ Dial => StreamInv'
<1> SUFFICES ASSUME StreamInv, Dial PROVE StreamInv'
  OBVIOUS
<1>1. /\ up = <<>> /\ down = <<>> /\ Subscribed = {} /\ streams = NoStreams /\ names = {}
      /\ UNCHANGED Wire /\ phase' # "open"
  BY DEF StreamInv, Dial, SilentWhenDown, MapsOfSession, Wire
<1>2. \A i \in Nat, t \in Terms : ~Binds(i, t)'
  BY <1>1 DEF Binds, Within, Wire, Subscribed, NoStreams
<1>3. WireOK'
  BY <1>1 DEF StreamInv, WireOK, Dial, Wire, Subscribed, uiVars
<1>4. FramesKnown' /\ StreamsKnown' /\ SilentWhenDown' /\ MapsOfSession'
  BY <1>1 DEF FramesKnown, StreamsKnown, SilentWhenDown, MapsOfSession, Wire, Subscribed
<1> QED BY <1>2, <1>3, <1>4 DEF StreamInv, OneMeaning

-----------------------------------------------------------------------------
(* Messages to the server.                                                 *)

\* A step that writes or reads such messages tells of no pair that was nowhere.
LEMMA UpChanged ==
  ASSUME StreamInv, link' = link, link = "down" => up' = <<>>,
         UNCHANGED <<down, streams, names, nextId, out, shown, bus, drawing, busy>>,
         phase' # "open" => phase # "open",
         up' \in Seq(UpMessages), queue' \in Seq(QueueMessages),
         \A i \in Nat, t \in Terms : Within(up', i, t) => Binds(i, t),
         subs' \in [Terms -> Nat], \A t \in Terms : subs'[t] \in {0, subs[t]},
         drawing \subseteq Subscribed',
         answer' \subseteq Terms /\ cached' \subseteq Terms /\ wired' \subseteq Terms
  PROVE  StreamInv'
<1>1. WireOK'
  BY DEF StreamInv, WireOK
<1>2. \A t \in Subscribed' : t \in Subscribed /\ subs'[t] = subs[t]
  BY DEF Subscribed
<1>3. NothingNew
  BY DEF NothingNew, Binds
<1>4. OneMeaning'
  BY <1>3, MeaningKept DEF StreamInv
<1>5. SilentWhenDown' /\ MapsOfSession' /\ FramesKnown'
  BY <1>2 DEF StreamInv, SilentWhenDown, MapsOfSession, FramesKnown
<1>6. StreamsKnown'
  BY <1>2 DEF StreamInv, StreamsKnown
<1> QED BY <1>1, <1>4, <1>5, <1>6 DEF StreamInv

LEMMA ReadByServer ==
  ASSUME StreamInv, up # <<>>
  PROVE  /\ Tail(up) \in Seq(UpMessages) /\ Head(up) \in UpMessages
         /\ \A i \in Nat, t \in Terms : Within(Tail(up), i, t) => Binds(i, t)
<1>1. up \in Seq(UpMessages)
  BY DEF StreamInv, WireOK
<1>2. Tail(up) \in Seq(UpMessages) /\ Head(up) \in UpMessages
  BY <1>1
<1>3. \A i \in Nat, t \in Terms : Within(Tail(up), i, t) => Binds(i, t)
  BY <1>1, WithinTail DEF Binds
<1> QED BY <1>2, <1>3

LEMMA WrittenToServer ==
  ASSUME StreamInv, NEW m \in UpMessages,
         \A i \in Nat, t \in Terms : Carries(m, i, t) => Binds(i, t)
  PROVE  /\ Append(up, m) \in Seq(UpMessages)
         /\ \A i \in Nat, t \in Terms : Within(Append(up, m), i, t) => Binds(i, t)
<1>1. up \in Seq(UpMessages)
  BY DEF StreamInv, WireOK
<1>2. Append(up, m) \in Seq(UpMessages)
  BY <1>1
<1>3. \A i \in Nat, t \in Terms : Within(Append(up, m), i, t) => Binds(i, t)
  BY <1>1, WithinAppend DEF Binds
<1> QED BY <1>2, <1>3

LEMMA InputKeeps ==
  ASSUME StreamInv, Input \/ Unsubscribe, UNCHANGED clientVars
  PROVE  StreamInv'
<1>1. /\ up # <<>> /\ up' = Tail(up) /\ link = "up" /\ ~busy
      /\ UNCHANGED <<link, down, nextId, out, shown, bus, drawing, busy>>
  BY DEF Input, Unsubscribe, Receives, Loop, uiVars, sessionVars
<1>2. UNCHANGED <<streams, names, phase, queue, answer, cached, wired>>
  BY DEF clientVars
<1>3. subs' \in [Terms -> Nat] /\ \A t \in Terms : subs'[t] \in {0, subs[t]}
  BY DEF Input, Unsubscribe, sessionVars, StreamInv, WireOK
<1>4. drawing = {}
  BY <1>1 DEF StreamInv, WireOK
<1> QED BY <1>1, <1>2, <1>3, <1>4, ReadByServer, UpChanged DEF StreamInv, WireOK

LEMMA FirstStateKeeps == StreamInv /\ FirstState => StreamInv'
<1> SUFFICES ASSUME StreamInv, FirstState PROVE StreamInv'
  OBVIOUS
<1> DEFINE m == [kind |-> "subscribe", ids |-> answer]
<1>1. /\ phase' = "open"
      /\ UNCHANGED <<link, down, nextId, out, shown, bus, drawing, busy, subs, streams, names, queue>>
      /\ answer' = {} /\ cached' = answer /\ wired' = wired \cup (answer \ reg)
      /\ up' = up \/ (link # "down" /\ up' = Append(up, m))
  BY DEF FirstState, uiVars, sessionVars
<1>2. answer' \subseteq Terms /\ cached' \subseteq Terms /\ wired' \subseteq Terms
  BY <1>1 DEF StreamInv, WireOK
<1>3. m \in UpMessages /\ \A i \in Nat, t \in Terms : ~Carries(m, i, t)
  BY DEF StreamInv, WireOK, UpMessages, QueueMessages, Carries, Tells
<1>4. up' \in Seq(UpMessages) /\ \A i \in Nat, t \in Terms : Within(up', i, t) => Binds(i, t)
  <2>1. CASE up' = up
    BY <2>1 DEF Binds, StreamInv, WireOK
  <2>2. CASE up' = Append(up, m)
    BY <2>2, <1>3, WrittenToServer
  <2> QED BY <1>1, <2>1, <2>2
<1>5. link = "down" => up' = <<>>
  BY <1>1 DEF StreamInv, SilentWhenDown
<1>6. drawing \subseteq Subscribed' /\ subs' \in [Terms -> Nat] /\ queue' \in Seq(QueueMessages)
  BY <1>1 DEF StreamInv, WireOK, Subscribed
<1> QED BY <1>1, <1>2, <1>4, <1>5, <1>6, UpChanged

LEMMA WriteKeeps == StreamInv /\ Write => StreamInv'
<1> SUFFICES ASSUME StreamInv, Write PROVE StreamInv'
  OBVIOUS
<1> DEFINE q == Head(queue)
           m == IF q.kind = "text" /\ streams[q.term] # 0
                THEN [kind |-> "input", id |-> streams[q.term], term |-> q.term] ELSE q
<1>1. /\ link # "down" /\ queue # <<>> /\ up' = Append(up, m) /\ queue' = Tail(queue)
      /\ UNCHANGED <<link, down, nextId, out, shown, bus, drawing, busy, subs, streams, names,
                     phase, answer, cached, wired>>
  BY DEF Write, uiVars, sessionVars
<1>2. q \in QueueMessages /\ queue' \in Seq(QueueMessages)
  BY <1>1 DEF StreamInv, WireOK
<1>3. m \in UpMessages /\ \A i \in Nat, t \in Terms : Carries(m, i, t) => Binds(i, t)
  <2>1. CASE q.kind = "text" /\ streams[q.term] # 0
    <3>1. q.term \in Terms /\ streams[q.term] \in Nat
      BY <1>2, <2>1 DEF QueueMessages, StreamInv, WireOK
    <3>2. m = [kind |-> "input", id |-> streams[q.term], term |-> q.term]
      BY <2>1
    <3>3. \A i \in Nat, t \in Terms : Carries(m, i, t) => i = streams[q.term] /\ t = q.term
      BY <3>2 DEF Carries, Tells
    <3> QED BY <2>1, <3>1, <3>2, <3>3 DEF UpMessages, Binds
  <2>2. CASE ~(q.kind = "text" /\ streams[q.term] # 0)
    <3>1. m = q
      BY <2>2
    <3>2. \A i \in Nat, t \in Terms : ~Carries(q, i, t)
      BY <1>2 DEF QueueMessages, Carries, Tells
    <3> QED BY <1>2, <3>1, <3>2 DEF UpMessages
  <2> QED BY <2>1, <2>2
<1> HIDE DEF m
<1>4. /\ up' \in Seq(UpMessages)
      /\ \A i \in Nat, t \in Terms : Within(up', i, t) => Binds(i, t)
  BY <1>1, <1>3, WrittenToServer
<1>5. drawing \subseteq Subscribed' /\ subs' \in [Terms -> Nat]
  BY <1>1 DEF StreamInv, WireOK, Subscribed
<1> QED BY <1>1, <1>2, <1>4, <1>5, UpChanged DEF StreamInv, WireOK

-----------------------------------------------------------------------------
(* Messages to the client.                                                 *)

\* Frames of subscribed terminals, behind what is under way.
LEMMA SentFrames ==
  ASSUME StreamInv, link # "down", NEW f \in Seq(Frames \cup [kind : {"changed"}]),
         \A k \in DOMAIN f : IsFrame(f[k]) => f[k].term \in Subscribed /\ f[k].id = subs[f[k].term],
         down' = down \o f,
         UNCHANGED <<link, up, subs, streams, names, nextId, phase, out, shown, queue, answer,
                     cached, wired>>,
         bus' \in Seq(Terms \X Nat), drawing' \subseteq Subscribed, drawing' # {} => busy'
  PROVE  StreamInv'
<1>1. /\ f \in Seq(DownMessages)
      /\ \A k \in DOMAIN f : f[k] \in Frames \cup [kind : {"changed"}]
  BY DEF DownMessages
<1>2. down' \in Seq(DownMessages)
  BY <1>1 DEF StreamInv, WireOK
<1>3. /\ DOMAIN down \subseteq DOMAIN down' /\ \A k \in DOMAIN down : down'[k] = down[k]
      /\ \A k \in DOMAIN down' : k \in DOMAIN down \/ \E j \in DOMAIN f : down'[k] = f[j]
      /\ \A k \in DOMAIN down' : k \in DOMAIN down \/ DOMAIN down \subseteq 1..(k - 1)
  <2>1. down \in Seq(DownMessages) /\ f \in Seq(DownMessages)
    BY <1>1 DEF StreamInv, WireOK
  <2>2. Len(down') = Len(down) + Len(f)
    BY <2>1
  <2>3. \A k \in 1..Len(down') : down'[k] = IF k <= Len(down) THEN down[k] ELSE f[k - Len(down)]
    BY <2>1, <2>2
  <2>4. \A k \in 1..Len(down') : k \notin 1..Len(down) => k - Len(down) \in 1..Len(f)
    BY <2>1, <2>2
  <2>5. DOMAIN down = 1..Len(down) /\ DOMAIN f = 1..Len(f) /\ DOMAIN down' = 1..Len(down')
    BY <2>1
  <2>6. Len(down) \in Nat /\ Len(f) \in Nat
    BY <2>1
  <2>7. DOMAIN down \subseteq DOMAIN down' /\ \A k \in DOMAIN down : down'[k] = down[k]
    BY <2>2, <2>3, <2>5, <2>6
  <2>8. ASSUME NEW k \in DOMAIN down', k \notin DOMAIN down
        PROVE  (\E j \in DOMAIN f : down'[k] = f[j]) /\ DOMAIN down \subseteq 1..(k - 1)
    <3>1. k \in Nat /\ ~(k <= Len(down))
      BY <2>5, <2>6, <2>8
    <3>2. down'[k] = f[k - Len(down)] /\ k - Len(down) \in DOMAIN f
      BY <2>3, <2>4, <2>5, <2>8, <3>1
    <3> QED BY <2>5, <2>6, <3>1, <3>2
  <2> QED BY <2>7, <2>8
<1>4. WireOK'
  BY <1>2 DEF StreamInv, WireOK, Subscribed
<1>5. ASSUME NEW j \in DOMAIN f, NEW i \in Nat, NEW t \in Terms, Carries(f[j], i, t)
      PROVE  i # 0 /\ subs[t] = i
  <2>1. IsFrame(f[j]) /\ f[j].id = i /\ f[j].term = t
    BY <1>1, <1>5 DEF Frames, Carries, Tells, IsFrame
  <2> QED BY <2>1 DEF Subscribed
<1>6. NothingNew
  <2>1. ASSUME NEW i \in Nat, NEW t \in Terms, Within(down', i, t) PROVE Binds(i, t)
    <3>1. PICK k \in DOMAIN down' : Carries(down'[k], i, t)
      BY <2>1 DEF Within
    <3> QED BY <3>1, <1>3, <1>5 DEF Binds, Within
  <2> QED BY <2>1 DEF NothingNew, Binds
<1>7. OneMeaning' /\ SilentWhenDown' /\ MapsOfSession'
  BY <1>6, MeaningKept DEF StreamInv, SilentWhenDown, MapsOfSession
<1>8. FramesKnown'
  <2> SUFFICES ASSUME NEW k \in DOMAIN down', IsFrame(down'[k])
               PROVE  \/ <<down'[k].id, down'[k].term>> \in names
                      \/ \E j \in 1..(k - 1) : Tells(down'[j], down'[k].id, down'[k].term)
    BY DEF FramesKnown
  <2>1. CASE k \in DOMAIN down
    <3>1. 1..(k - 1) \subseteq DOMAIN down
      BY <2>1 DEF StreamInv, WireOK
    <3> QED BY <2>1, <3>1, <1>3 DEF StreamInv, FramesKnown
  <2>2. CASE k \notin DOMAIN down
    <3>1. PICK j \in DOMAIN f : down'[k] = f[j]
      BY <2>2, <1>3
    <3>2. f[j].term \in Subscribed /\ f[j].id = subs[f[j].term]
      BY <3>1
    <3>3. <<f[j].id, f[j].term>> \in names \/ Told(down, f[j].id, f[j].term)
      BY <3>2 DEF StreamInv, StreamsKnown
    <3> QED BY <2>2, <3>1, <3>3, <1>3 DEF Told
  <2> QED BY <2>1, <2>2
<1>9. StreamsKnown'
  BY <1>3 DEF StreamInv, StreamsKnown, Told, Subscribed
<1> QED BY <1>4, <1>7, <1>8, <1>9 DEF StreamInv

LEMMA PushNewsKeeps ==
  ASSUME StreamInv, PushNews, UNCHANGED clientVars
  PROVE  StreamInv'
<1> DEFINE f == <<[kind |-> "changed"]>>
<1>1. f \in Seq(Frames \cup [kind : {"changed"}]) /\ \A k \in DOMAIN f : ~IsFrame(f[k])
  BY DEF IsFrame
<1>2. down' = down \o f
  BY DEF PushNews, StreamInv, WireOK
<1>3. /\ link # "down"
      /\ UNCHANGED <<link, up, subs, streams, names, nextId, phase, out, shown, queue, answer,
                     cached, wired, bus, drawing, busy>>
  BY DEF PushNews, Loop, clientVars, uiVars
<1> HIDE DEF f
<1> QED BY <1>1, <1>2, <1>3, SentFrames DEF StreamInv, WireOK

LEMMA DrawKeeps ==
  ASSUME StreamInv, NEW t \in Terms, DrawSnapshot(t), UNCHANGED clientVars
  PROVE  StreamInv'
<1> DEFINE m == [kind |-> "snapshot", id |-> subs[t], term |-> t, chunk |-> shown[t]]
           f == <<m>>
<1>1. t \in Subscribed
  BY DEF DrawSnapshot, StreamInv, WireOK
<1>2. m \in Frames
  BY DEF Frames, StreamInv, WireOK
<1>3. f \in Seq(Frames \cup [kind : {"changed"}])
  BY <1>2
<1>4. \A k \in DOMAIN f : f[k].term \in Subscribed /\ f[k].id = subs[f[k].term]
  BY <1>1
<1>5. down' = down \o f
  <2>1. m \in DownMessages /\ down \in Seq(DownMessages)
    BY <1>2 DEF DownMessages, StreamInv, WireOK
  <2>2. Append(down, m) = down \o <<m>>
    BY <2>1
  <2> QED BY <2>2 DEF DrawSnapshot
<1>6. /\ link # "down" /\ drawing' \subseteq drawing
      /\ UNCHANGED <<link, up, subs, streams, names, nextId, phase, out, shown, queue, answer,
                     cached, wired, bus, busy>>
  BY <1>1 DEF DrawSnapshot, clientVars, uiVars, StreamInv, SilentWhenDown
<1> HIDE DEF f
<1> QED BY <1>3, <1>4, <1>5, <1>6, SentFrames DEF StreamInv, WireOK

LEMMA FiniteTerms == ASSUME NEW S \in SUBSET Terms PROVE IsFiniteSet(S)
BY FS_Subset, StreamAssumption

\* What the bus holds of a terminal.
OnBus(t) == {bus[i][2] : i \in {j \in DOMAIN bus : bus[j][1] = t}}

\* What the output branch sends: a frame for each subscribed terminal that is on
\* the bus.
LEMMA Forwarded ==
  ASSUME StreamInv, HistoryOK, Forward
  PROVE  \E f \in Seq(Frames) :
           /\ down' = down \o f /\ Len(down) + Len(f) <= DownSize
           /\ \A k \in DOMAIN f :
                /\ f[k].kind = "output" /\ f[k].term \in Subscribed /\ f[k].id = subs[f[k].term]
                /\ f[k].chunks = OnBus(f[k].term) /\ f[k].chunks # {}
                /\ f[k].holed = gap[f[k].term] /\ f[k].replayed = replay
           /\ \A t \in Subscribed : OnBus(t) # {} => \E k \in DOMAIN f : f[k].term = t
           /\ \A j, k \in DOMAIN f : f[j].term = f[k].term => j = k
<1> DEFINE S == {t \in Subscribed : OnBus(t) # {}}
           q == SetToSeq(S)
           f == [i \in DOMAIN q |->
                   [kind |-> "output", id |-> subs[q[i]], term |-> q[i], chunks |-> OnBus(q[i]),
                    holed |-> gap[q[i]], replayed |-> replay]]
<1>1. \A t : OnBus(t) \subseteq Nat
  <2>1. \A j \in DOMAIN bus : bus[j][2] \in Nat
    BY DEF StreamInv, WireOK
  <2> QED BY <2>1 DEF OnBus
<1>2. S \in SUBSET Terms
  BY DEF Subscribed
<1>3. /\ q \in [1..Cardinality(S) -> S] /\ Cardinality(S) \in Nat /\ Len(q) = Cardinality(S)
      /\ \A x \in S : \E k \in 1..Cardinality(S) : q[k] = x
      /\ \A j, k \in 1..Cardinality(S) : q[j] = q[k] => j = k
  BY <1>2, FiniteTerms, SequenceOfSet
<1>4. down' = down \o f /\ Len(down) + Len(f) <= DownSize
  BY DEF Forward, OnBus, Room
<1>5. DOMAIN q = 1..Cardinality(S) /\ \A k \in DOMAIN q : q[k] \in S
  BY <1>3
<1>6. \A k \in DOMAIN q : /\ q[k] \in Terms /\ q[k] \in Subscribed /\ subs[q[k]] \in Nat
                          /\ OnBus(q[k]) # {} /\ gap[q[k]] \in BOOLEAN /\ replay \in BOOLEAN
  BY <1>2, <1>5 DEF StreamInv, WireOK, HistoryOK
<1>7. \A t \in Subscribed : OnBus(t) # {} => \E k \in DOMAIN q : q[k] = t
  BY <1>3, <1>5
<1> HIDE DEF S, q
<1>8. \A k \in DOMAIN q : f[k] \in Frames
  BY <1>1, <1>6 DEF Frames
<1>9. f \in Seq(Frames)
  BY <1>3, <1>5, <1>8
<1>10. \A k \in DOMAIN f :
         /\ f[k].kind = "output" /\ f[k].term \in Subscribed /\ f[k].id = subs[f[k].term]
         /\ f[k].chunks = OnBus(f[k].term) /\ f[k].chunks # {}
         /\ f[k].holed = gap[f[k].term] /\ f[k].replayed = replay
  BY <1>6
<1>11. \A t \in Subscribed : OnBus(t) # {} => \E k \in DOMAIN f : f[k].term = t
  BY <1>7
<1>12. \A j, k \in DOMAIN f : f[j].term = f[k].term => j = k
  BY <1>3, <1>5
<1> HIDE DEF f
<1> QED BY <1>4, <1>9, <1>10, <1>11, <1>12

LEMMA ForwardKeeps ==
  ASSUME StreamInv, HistoryOK, Forward, UNCHANGED clientVars
  PROVE  StreamInv'
<1>1. PICK f \in Seq(Frames) :
        /\ down' = down \o f
        /\ \A k \in DOMAIN f : f[k].term \in Subscribed /\ f[k].id = subs[f[k].term]
  BY Forwarded
<1>2. f \in Seq(Frames \cup [kind : {"changed"}])
  OBVIOUS
<1>3. /\ link # "down" /\ bus' = <<>>
      /\ UNCHANGED <<link, up, subs, streams, names, nextId, phase, out, shown, queue, answer,
                     cached, wired, busy, drawing>>
  BY DEF Forward, Loop, clientVars, uiVars
<1>4. bus' \in Seq(Terms \X Nat) /\ drawing' \subseteq Subscribed /\ (drawing' # {} => busy')
  BY <1>3 DEF StreamInv, WireOK
<1> QED BY <1>1, <1>2, <1>3, <1>4, SentFrames

\* The client reads a message, and keeps what it was told.
LEMMA ReadByClient ==
  ASSUME StreamInv, phase = "open", down # <<>>, down' = Tail(down),
         UNCHANGED <<link, up, subs, nextId, phase, out, shown, bus, drawing, busy, queue, answer,
                     cached, wired>>,
         streams' \in [Terms -> Nat], names' \subseteq Nat \X Terms,
         \A i \in Nat, t \in Terms : <<i, t>> \in names' => Binds(i, t),
         \A t \in Terms : streams'[t] # 0 => Binds(streams'[t], t),
         \A i \in Nat, t \in Terms :
           <<i, t>> \in names \/ Tells(Head(down), i, t) => <<i, t>> \in names'
  PROVE  StreamInv'
<1>1. /\ down \in Seq(DownMessages) /\ down' \in Seq(DownMessages) /\ link # "down"
      /\ Head(down) = down[1] /\ \A k \in DOMAIN down' : k + 1 \in DOMAIN down /\ down'[k] = down[k + 1]
  BY DEF StreamInv, WireOK, SilentWhenDown
<1>2. WireOK'
  BY <1>1 DEF StreamInv, WireOK, Subscribed
<1>3. NothingNew
  <2>1. \A i \in Nat, t \in Terms : Within(down', i, t) => Binds(i, t)
    BY <1>1, WithinTail DEF Binds
  <2> QED BY <2>1 DEF NothingNew, Binds
<1>4. OneMeaning' /\ SilentWhenDown' /\ MapsOfSession'
  BY <1>1, <1>3, MeaningKept DEF StreamInv, SilentWhenDown, MapsOfSession
<1>5. FramesKnown'
  <2> SUFFICES ASSUME NEW k \in DOMAIN down', IsFrame(down'[k])
               PROVE  \/ <<down'[k].id, down'[k].term>> \in names'
                      \/ \E j \in 1..(k - 1) : Tells(down'[j], down'[k].id, down'[k].term)
    BY DEF FramesKnown
  <2> DEFINE i == down'[k].id
             t == down'[k].term
  <2>1. i \in Nat /\ t \in Terms
    <3>1. down'[k] \in DownMessages
      BY <1>1
    <3> QED BY <3>1 DEF IsFrame, DownMessages, Frames
  <2>2. k + 1 \in DOMAIN down /\ down[k + 1] = down'[k]
    BY <1>1
  <2>3. CASE <<i, t>> \in names
    BY <2>1, <2>3
  <2>4. ASSUME NEW j \in 1..k, Tells(down[j], i, t)
        PROVE  <<i, t>> \in names' \/ \E l \in 1..(k - 1) : Tells(down'[l], i, t)
    <3>1. CASE j = 1
      BY <2>1, <2>4, <3>1, <1>1
    <3>2. CASE j # 1
      <4>1. j - 1 \in 1..(k - 1) /\ j - 1 \in DOMAIN down'
        BY <3>2, <1>1
      <4>2. down'[j - 1] = down[j]
        BY <4>1, <1>1
      <4> QED BY <2>4, <4>1, <4>2
    <3> QED BY <3>1, <3>2
  <2>5. <<i, t>> \in names \/ \E j \in 1..k : Tells(down[j], i, t)
    BY <2>2, <1>1 DEF StreamInv, FramesKnown
  <2> QED BY <2>3, <2>4, <2>5
<1>6. StreamsKnown'
  <2> SUFFICES ASSUME NEW t \in Subscribed
               PROVE  <<subs[t], t>> \in names' \/ Told(down', subs[t], t)
    BY DEF StreamsKnown, Subscribed
  <2>1. subs[t] \in Nat /\ t \in Terms
    BY DEF StreamInv, WireOK, Subscribed
  <2>2. <<subs[t], t>> \in names \/ Told(down, subs[t], t)
    BY DEF StreamInv, StreamsKnown
  <2> QED BY <1>1, <2>1, <2>2, ToldTail
<1> QED BY <1>2, <1>4, <1>5, <1>6 DEF StreamInv

LEMMA ReadKeeps == StreamInv /\ (ShowFrame \/ Refetch) => StreamInv'
<1> SUFFICES ASSUME StreamInv, ShowFrame \/ Refetch PROVE StreamInv'
  OBVIOUS
<1>1. /\ phase = "open" /\ down # <<>> /\ down' = Tail(down) /\ Head(down).kind # "subscribed"
      /\ UNCHANGED <<link, up, subs, nextId, phase, out, shown, bus, drawing, busy, queue, answer,
                     cached, wired, streams, names>>
  BY DEF ShowFrame, Refetch, Reads, uiVars, sessionVars
<1>2. \A i, t : ~Tells(Head(down), i, t)
  BY <1>1 DEF Tells
<1>3. \A t \in Terms : streams[t] # 0 => Binds(streams[t], t)
  BY DEF Binds
<1>4. \A i \in Nat, t \in Terms : <<i, t>> \in names => Binds(i, t)
  BY DEF Binds
<1> QED BY <1>1, <1>2, <1>3, <1>4, ReadByClient DEF StreamInv, WireOK

-----------------------------------------------------------------------------
(* Subscriptions: the only source of streams, and how the client learns.   *)

\* A terminal that has no stream gets one that was never given out, and each a
\* different one.
LEMMA FreshNumbers ==
  ASSUME StreamInv, NEW ids \in SUBSET Terms
  PROVE  /\ Cardinality(ids \ Subscribed) \in Nat
         /\ Numbered(ids) \in [Terms -> Nat]
         /\ \A t \in Terms \ (ids \ Subscribed) : Numbered(ids)[t] = subs[t]
         /\ \A t \in ids \ Subscribed :
              /\ nextId <= Numbered(ids)[t]
              /\ Numbered(ids)[t] < nextId + Cardinality(ids \ Subscribed)
         /\ \A t, u \in ids \ Subscribed : Numbered(ids)[t] = Numbered(ids)[u] => t = u
<1> DEFINE N == {t \in ids : subs[t] = 0}
           q == SetToSeq(N)
           n == Cardinality(N)
           At(t) == CHOOSE i \in 1..Len(q) : q[i] = t
<1>1. N \in SUBSET Terms /\ N = ids \ Subscribed
  BY DEF Subscribed
<1>2. /\ n \in Nat /\ Len(q) = n /\ \A x \in N : \E k \in 1..n : q[k] = x
  BY <1>1, FiniteTerms, SequenceOfSet
<1>3. \A t \in N : At(t) \in 1..n /\ q[At(t)] = t
  BY <1>2
<1>4. Numbered(ids) = [t \in Terms |-> IF t \in ids /\ subs[t] = 0 THEN nextId - 1 + At(t) ELSE subs[t]]
  BY DEF Numbered
<1> HIDE DEF q, n, At
<1>5. Numbered(ids) = [t \in Terms |-> IF t \in N THEN nextId - 1 + At(t) ELSE subs[t]]
  BY <1>4
<1> HIDE DEF N
<1>6. nextId \in Nat \ {0} /\ subs \in [Terms -> Nat]
  BY DEF StreamInv, WireOK
<1>7. \A t \in N : /\ t \in Terms /\ Numbered(ids)[t] = nextId - 1 + At(t)
                   /\ Numbered(ids)[t] \in Nat
                   /\ nextId <= Numbered(ids)[t] /\ Numbered(ids)[t] < nextId + n
  BY <1>5, <1>1, <1>2, <1>3, <1>6
<1>8. \A t \in Terms \ N : Numbered(ids)[t] = subs[t]
  BY <1>5
<1>9. Numbered(ids) \in [Terms -> Nat]
  BY <1>5, <1>6, <1>7
<1>10. \A t, u \in N : Numbered(ids)[t] = Numbered(ids)[u] => t = u
  <2> SUFFICES ASSUME NEW t \in N, NEW u \in N, Numbered(ids)[t] = Numbered(ids)[u] PROVE t = u
    OBVIOUS
  <2>1. At(t) = At(u)
    BY <1>2, <1>3, <1>6, <1>7
  <2> QED BY <2>1, <1>3
<1> QED BY <1>1, <1>2, <1>7, <1>8, <1>9, <1>10 DEF n

LEMMA SubscribeKeeps ==
  ASSUME StreamInv, Subscribe, UNCHANGED clientVars
  PROVE  StreamInv'
<1> DEFINE ids == Head(up).ids
           N == ids \ Subscribed
           m == [kind |-> "subscribed", map |-> [t \in ids |-> subs'[t]]]
<1>1. /\ link = "up" /\ up # <<>> /\ Head(up).kind = "subscribe" /\ up' = Tail(up)
      /\ subs' = Numbered(ids) /\ nextId' = nextId + Cardinality(N)
      /\ down' = Append(down, m) /\ drawing' = ids /\ busy'
      /\ UNCHANGED <<link, streams, names, phase, out, shown, bus, queue, answer, cached, wired>>
  BY DEF Subscribe, Receives, Loop, clientVars, uiVars
<1>2. ids \in SUBSET Terms
  <2>1. Head(up) \in UpMessages
    BY <1>1, ReadByServer
  <2> QED BY <2>1, <1>1 DEF UpMessages, QueueMessages
<1>3. /\ Cardinality(N) \in Nat /\ subs' \in [Terms -> Nat]
      /\ \A t \in Terms \ N : subs'[t] = subs[t]
      /\ \A t \in N : nextId <= subs'[t] /\ subs'[t] < nextId'
      /\ \A t, u \in N : subs'[t] = subs'[u] => t = u
  BY <1>1, <1>2, FreshNumbers
<1> HIDE DEF N
<1>4. nextId \in Nat \ {0} /\ nextId' \in Nat \ {0} /\ nextId <= nextId'
  BY <1>1, <1>3 DEF StreamInv, WireOK
<1>5. Subscribed' = Subscribed \cup N /\ ids \subseteq Subscribed' /\ N \subseteq ids /\ N \subseteq Terms
  BY <1>2, <1>3, <1>4 DEF Subscribed, N
<1>6. m \in DownMessages
  <2>1. [t \in ids |-> subs'[t]] \in [ids -> Nat]
    BY <1>2, <1>3
  <2>2. [t \in ids |-> subs'[t]] \in UNION {[S -> Nat] : S \in SUBSET Terms}
    BY <1>2, <2>1
  <2> HIDE DEF ids
  <2> QED BY <2>2 DEF DownMessages
<1>7. down \in Seq(DownMessages) /\ down' \in Seq(DownMessages)
  BY <1>1, <1>6 DEF StreamInv, WireOK
<1>8. WireOK'
  BY <1>1, <1>2, <1>3, <1>4, <1>5, <1>7, ReadByServer DEF StreamInv, WireOK
<1>9. \A i, t : Tells(m, i, t) <=> t \in ids /\ i = subs'[t]
  BY DEF Tells
<1>10. \A i, t : Carries(m, i, t) => t \in ids /\ i = subs'[t]
  BY <1>9 DEF Carries
<1> HIDE DEF m, ids
<1>11. ASSUME NEW i \in Nat, NEW t \in Terms, Binds(i, t)'
       PROVE  Binds(i, t) \/ (t \in N /\ i = subs'[t])
  <2>1. CASE i # 0 /\ (subs'[t] = i \/ streams'[t] = i)
    BY <2>1, <1>1, <1>3 DEF Binds
  <2>2. CASE <<i, t>> \in names'
    BY <2>2, <1>1 DEF Binds
  <2>3. CASE Within(up', i, t)
    BY <2>3, <1>1, ReadByServer
  <2>4. CASE Within(down', i, t)
    <3>1. Within(down, i, t) \/ Carries(m, i, t)
      BY <2>4, <1>1, <1>6, <1>7, WithinAppend
    <3>2. CASE Within(down, i, t)
      BY <3>2 DEF Binds
    <3>3. CASE t \in ids /\ i = subs'[t]
      BY <3>3, <1>3, <1>5 DEF Binds, Subscribed
    <3> QED BY <3>1, <3>2, <3>3, <1>10
  <2> QED BY <1>11, <2>1, <2>2, <2>3, <2>4 DEF Binds
<1>12. /\ \A i \in Nat, t \in Terms : Binds(i, t) => 0 < i /\ i < nextId
       /\ \A i \in Nat, t, u \in Terms : Binds(i, t) /\ Binds(i, u) => t = u
  BY <1>1 DEF StreamInv, OneMeaning
<1>13. \A i \in Nat, t \in Terms : Binds(i, t)' => 0 < i /\ i < nextId'
  BY <1>3, <1>4, <1>11, <1>12
<1>14. ASSUME NEW i \in Nat, NEW t \in Terms, NEW u \in Terms, Binds(i, t)', Binds(i, u)'
       PROVE  t = u
  <2>1. Binds(i, t) \/ (t \in N /\ i = subs'[t])
    BY <1>11, <1>14
  <2>2. Binds(i, u) \/ (u \in N /\ i = subs'[u])
    BY <1>11, <1>14
  <2>3. \A v \in Terms : Binds(i, v) => i < nextId
    BY <1>12
  <2> QED BY <2>1, <2>2, <2>3, <1>3, <1>4, <1>12
<1>15. OneMeaning' /\ SilentWhenDown' /\ MapsOfSession'
  BY <1>1, <1>13, <1>14 DEF OneMeaning, SilentWhenDown, MapsOfSession, StreamInv
<1>16. FramesKnown'
  <2> SUFFICES ASSUME NEW k \in DOMAIN down', IsFrame(down'[k])
               PROVE  \/ <<down'[k].id, down'[k].term>> \in names
                      \/ \E j \in 1..(k - 1) : Tells(down'[j], down'[k].id, down'[k].term)
    BY <1>1 DEF FramesKnown
  <2>1. ~IsFrame(m)
    BY DEF IsFrame, m
  <2>2. k \in DOMAIN down /\ down'[k] = down[k] /\ \A j \in 1..(k - 1) : down'[j] = down[j]
    BY <1>1, <1>6, <1>7, <2>1
  <2> QED BY <2>2 DEF StreamInv, FramesKnown
<1>17. StreamsKnown'
  <2> SUFFICES ASSUME NEW t \in Subscribed'
               PROVE  <<subs'[t], t>> \in names \/ Told(down', subs'[t], t)
    BY <1>1 DEF StreamsKnown
  <2>1. CASE t \in N
    BY <2>1, <1>1, <1>5, <1>6, <1>7, <1>9, ToldAppend
  <2>2. CASE t \notin N
    <3>1. t \in Subscribed /\ subs'[t] = subs[t]
      BY <2>2, <1>3, <1>5 DEF Subscribed
    <3>2. <<subs[t], t>> \in names \/ Told(down, subs[t], t)
      BY <3>1 DEF StreamInv, StreamsKnown
    <3> QED BY <3>1, <3>2, <1>1, <1>6, <1>7, ToldAppend
  <2> QED BY <2>1, <2>2
<1> QED BY <1>8, <1>15, <1>16, <1>17 DEF StreamInv

LEMMA LearnKeeps == StreamInv /\ LearnStreams => StreamInv'
<1> SUFFICES ASSUME StreamInv, LearnStreams PROVE StreamInv'
  OBVIOUS
<1> DEFINE map == Head(down).map
           ids == {map[t] : t \in DOMAIN map}
<1>1. /\ phase = "open" /\ down # <<>> /\ Head(down).kind = "subscribed" /\ down' = Tail(down)
      /\ streams' = [t \in Terms |-> IF t \in DOMAIN map THEN map[t] ELSE streams[t]]
      /\ names' = {p \in names : p[1] \notin ids} \cup {<<map[t], t>> : t \in DOMAIN map}
      /\ UNCHANGED <<link, up, subs, nextId, phase, out, shown, bus, drawing, busy, queue, answer,
                     cached, wired>>
  BY DEF LearnStreams, Reads, uiVars, sessionVars
<1>2. DOMAIN map \subseteq Terms /\ \A t \in DOMAIN map : map[t] \in Nat
  <2>1. Head(down) \in DownMessages
    BY <1>1 DEF StreamInv, WireOK
  <2>2. map \in UNION {[S -> Nat] : S \in SUBSET Terms}
    BY <1>1, <2>1 DEF DownMessages, Frames
  <2> HIDE DEF map
  <2>3. PICK S \in SUBSET Terms : map \in [S -> Nat]
    BY <2>2
  <2> QED BY <2>3
<1>3. \A t \in DOMAIN map : Binds(map[t], t)
  <2>1. 1 \in DOMAIN down /\ down[1] = Head(down)
    BY <1>1 DEF StreamInv, WireOK
  <2>2. \A t \in DOMAIN map : Carries(down[1], map[t], t)
    BY <1>1, <2>1 DEF Carries, Tells
  <2> QED BY <2>1, <2>2 DEF Binds, Within
<1>4. \A i, t : Tells(Head(down), i, t) <=> t \in DOMAIN map /\ map[t] = i
  BY <1>1 DEF Tells
<1>5. link # "down"
  BY <1>1 DEF StreamInv, SilentWhenDown
<1>6. names \subseteq Nat \X Terms /\ \A i \in Nat, t \in Terms : <<i, t>> \in names => Binds(i, t)
  BY DEF StreamInv, WireOK, Binds
<1>7. \A t \in Terms : streams[t] # 0 => Binds(streams[t], t)
  BY DEF Binds
<1> HIDE DEF map
<1>8. streams' \in [Terms -> Nat] /\ \A t \in Terms : streams'[t] # 0 => Binds(streams'[t], t)
  BY <1>1, <1>2, <1>3, <1>7 DEF StreamInv, WireOK
<1>9. names' \subseteq Nat \X Terms /\ \A i \in Nat, t \in Terms : <<i, t>> \in names' => Binds(i, t)
  BY <1>1, <1>2, <1>3, <1>6
<1>10. ASSUME NEW i \in Nat, NEW t \in Terms, <<i, t>> \in names \/ Tells(Head(down), i, t)
       PROVE  <<i, t>> \in names'
  <2>1. CASE Tells(Head(down), i, t)
    BY <2>1, <1>1, <1>4
  <2>2. CASE <<i, t>> \in names /\ i \notin ids
    BY <2>2, <1>1
  <2>3. CASE <<i, t>> \in names /\ i \in ids
    <3>1. PICK u \in DOMAIN map : map[u] = i
      BY <2>3
    <3>2. Binds(i, t) /\ Binds(i, u) /\ u \in Terms
      BY <2>3, <3>1, <1>2, <1>3, <1>6
    <3>3. u = t
      BY <3>2, <1>5 DEF StreamInv, OneMeaning
    <3> QED BY <3>1, <3>3, <1>1
  <2> QED BY <1>10, <2>1, <2>2, <2>3
<1> QED BY <1>1, <1>8, <1>9, <1>10, ReadByClient

-----------------------------------------------------------------------------

\* What the history variables of the stream may say.
LEMMA HistoryTyped == Spec => []HistoryOK
<1>1. Init => HistoryOK
  BY DEF Init, ServerInit, HistoryOK
<1>2. HistoryOK /\ [Next]_vars => HistoryOK'
  <2> SUFFICES ASSUME HistoryOK, [Next]_vars PROVE HistoryOK'
    OBVIOUS
  <2> USE DEF HistoryOK
  <2>1. CASE Server
    <3>1. CASE Watch \/ Subscribe \/ Unsubscribe \/ Input \/ PushNews \/ Resync
      BY <3>1 DEF Watch, Subscribe, Unsubscribe, Input, PushNews, Resync, sessionVars
    <3>2. CASE Forward
      <4>1. \E C : gap' = [t \in Terms |-> gap[t] /\ C[t] = {}]
        <5> DEFINE C == [t \in Terms |-> {bus[i][2] : i \in {j \in DOMAIN bus : bus[j][1] = t}}]
        <5>1. gap' = [t \in Terms |-> gap[t] /\ C[t] = {}]
          BY <3>2, Zenon DEF Forward
        <5> QED BY <5>1
      <4>2. \A t \in Terms : gap'[t] \in BOOLEAN
        BY <4>1, Zenon
      <4> QED BY <3>2, <4>1, <4>2 DEF Forward
    <3>3. CASE Drain
      BY <3>3 DEF Drain
    <3>4. ASSUME NEW t \in Terms, DrawSnapshot(t) PROVE HistoryOK'
      <4> DEFINE early == shown[t] < out[t]
      <4>1. gap' = [gap EXCEPT ![t] = early] /\ replay' = replay
        BY <3>4 DEF DrawSnapshot
      <4>2. early \in BOOLEAN
        OBVIOUS
      <4> HIDE DEF early
      <4> QED BY <4>1, <4>2
    <3>5. ASSUME NEW t \in Terms, SkipSnapshot(t) PROVE HistoryOK'
      BY <3>5 DEF SkipSnapshot
    <3> QED BY <2>1, <3>1, <3>2, <3>3, <3>4, <3>5 DEF Server, ServerStep
  <2>2. CASE UIThread
    BY <2>2 DEF UIThread, ShowOutput, sessionVars
  <2>3. CASE Reader
    BY <2>3 DEF Reader, Dial, SessionLost, FirstState, LearnStreams, ShowFrame, Refetch, NewState,
       serverVars, sessionVars
  <2>4. CASE Answer \/ Write
    BY <2>4 DEF Answer, Write, serverVars, sessionVars
  <2>5. CASE Surroundings
    BY <2>5 DEF Surroundings, Change, ChangeTerminal, Produce, Output, Type, Break, Refused,
       DialFails, RefetchFails, Reconnect, Pair, Hangup, serverVars, sessionVars
  <2>6. CASE UNCHANGED vars
    BY <2>6 DEF vars, serverVars, sessionVars
  <2> QED BY <2>1, <2>2, <2>3, <2>4, <2>5, <2>6 DEF Next
<1> QED BY <1>1, <1>2, PTL DEF Spec

LEMMA StreamInit == Init => StreamInv
<1> SUFFICES ASSUME Init PROVE StreamInv
  OBVIOUS
<1>1. /\ link = "down" /\ up = <<>> /\ down = <<>> /\ bus = <<>> /\ queue = <<>> /\ names = {}
      /\ subs = NoStreams /\ streams = NoStreams /\ nextId = 1 /\ drawing = {} /\ answer = {}
      /\ cached = {} /\ wired = {} /\ out = NoStreams /\ shown = NoStreams
  BY DEF Init, ServerInit, NoStreams
<1>2. NoStreams \in [Terms -> Nat] /\ Subscribed = {}
  BY <1>1 DEF NoStreams, Subscribed
<1>3. WireOK
  BY <1>1, <1>2 DEF WireOK
<1> QED BY <1>1, <1>2, <1>3
        DEF StreamInv, SilentWhenDown, MapsOfSession, OneMeaning, FramesKnown, StreamsKnown

LEMMA StreamStep == StreamInv /\ HistoryOK /\ [Next]_vars => StreamInv'
<1> SUFFICES ASSUME StreamInv, HistoryOK, [Next]_vars PROVE StreamInv'
  OBVIOUS
<1>1. CASE Server
  BY <1>1, WatchKeeps, SubscribeKeeps, InputKeeps, PushNewsKeeps, ForwardKeeps, DrawKeeps
     DEF Server, ServerStep
<1>2. CASE UIThread
  BY <1>2, WatchKeeps DEF UIThread
<1>3. CASE Reader
  BY <1>3, DialKeeps, EndsKeep, FirstStateKeeps, LearnKeeps, ReadKeeps, NewStateKeeps DEF Reader
<1>4. CASE Answer \/ Write
  BY <1>4, AnswerKeeps, WriteKeeps
<1>5. CASE Surroundings
  BY <1>5, ChangeKeeps, ProduceKeeps, TypeKeeps, EndsKeep, AnswerKeeps DEF Surroundings
<1>6. CASE UNCHANGED vars
  <2>1. /\ UNCHANGED Wire /\ link' = link /\ phase' = phase
        /\ UNCHANGED <<out, shown, bus, drawing, busy, queue, answer, cached, wired>>
    BY <1>6 DEF vars, serverVars, sessionVars, uiVars, clientVars, Wire
  <2> QED BY <2>1, WireUntouched DEF StreamInv, WireOK
<1> QED BY <1>1, <1>2, <1>3, <1>4, <1>5, <1>6 DEF Next

\* In a session a stream id stands for one terminal, wherever it is held and
\* however long after; the client learns a stream before it reads its frames.
THEOREM StreamInvariant == Spec => []StreamInv
BY StreamInit, StreamStep, HistoryTyped, PTL DEF Spec

\* Input under way names, by its stream, the terminal it was typed into or none.
THEOREM InputIsNeverMisdelivered == Spec => []InputToItsTerminal
<1>1. StreamInv => InputToItsTerminal
  <2> SUFFICES ASSUME StreamInv, NEW i \in DOMAIN up, up[i].kind = "input",
                      NEW t \in Subscribed, subs[t] = up[i].id
               PROVE  t = up[i].term
    BY DEF InputToItsTerminal
  <2>1. up[i].term \in Terms /\ up[i].id \in Nat /\ t \in Terms /\ link # "down"
    <3>1. up[i] \in UpMessages
      BY DEF StreamInv, WireOK
    <3> QED BY <3>1 DEF UpMessages, QueueMessages, StreamInv, SilentWhenDown, Subscribed
  <2>2. Binds(up[i].id, t) /\ Binds(up[i].id, up[i].term)
    BY DEF Binds, Within, Carries, Subscribed
  <2> QED BY <2>1, <2>2 DEF StreamInv, OneMeaning
<1> QED BY <1>1, StreamInvariant, PTL

\* The client knows the stream of a frame it reads, as the frame's terminal only.
THEOREM OutputIsNeverMisdelivered == Spec => []OutputToItsTerminal
<1>1. StreamInv => OutputToItsTerminal
  <2> SUFFICES ASSUME StreamInv, down # <<>>, IsFrame(Head(down))
               PROVE  {p \in names : p[1] = Head(down).id} = {<<Head(down).id, Head(down).term>>}
    BY DEF OutputToItsTerminal, IsFrame
  <2> DEFINE i == Head(down).id
             t == Head(down).term
  <2>1. 1 \in DOMAIN down /\ down[1] = Head(down) /\ link # "down" /\ Head(down) \in DownMessages
    BY DEF StreamInv, WireOK, SilentWhenDown
  <2>2. i \in Nat /\ t \in Terms
    BY <2>1 DEF DownMessages, Frames, IsFrame
  <2>3. <<i, t>> \in names
    BY <2>1 DEF StreamInv, FramesKnown
  <2>4. ASSUME NEW p \in names, p[1] = i PROVE p = <<i, t>>
    <3>1. p = <<i, p[2]>> /\ p[2] \in Terms
      BY <2>4 DEF StreamInv, WireOK
    <3>2. Binds(i, t) /\ Binds(i, p[2])
      BY <2>3, <3>1 DEF Binds
    <3> QED BY <2>1, <2>2, <3>1, <3>2 DEF StreamInv, OneMeaning
  <2> QED BY <2>3, <2>4
<1> QED BY <1>1, StreamInvariant, PTL

-----------------------------------------------------------------------------
(* The shape of a session, and the types of what the stream leaves alone.  *)

TasksOK ==
  /\ phase \in {"dialing", "fetching", "open", "pairing", "off"} /\ attempt \in 0..MaxAttempts
  /\ request \in {"none", "asked", "answered"}
  /\ link \in {"down", "hello", "up"} /\ news \in {"off", "seen", "unseen"}
  /\ busy \in BOOLEAN /\ overrun \in BOOLEAN
  /\ left \in [changes : Nat, chunks : Nat, texts : Nat, breaks : Nat]

\* The server's session and the client's task are as far as each other allows.
SessionShape ==
  /\ (link = "up") = (news # "off")
  /\ news = "off" => bus = <<>>
  /\ link # "up" => nextId = 1 /\ down = <<>>
  /\ phase \in {"dialing", "pairing", "off"} => link = "down" /\ request = "none"
  /\ phase = "fetching" => request # "none" /\ up = <<>> /\ nextId = 1
  /\ phase = "open" => reg = cached /\ (request # "none" => link # "hello")

TermsOK ==
  /\ fate \in [Terms -> {"unborn", "live", "closed"}]
  /\ reg \subseteq Terms /\ deaf \subseteq Terms
  /\ request # "answered" => answer = {}

SizesOK ==
  /\ Len(bus) <= BusSize /\ Len(down) <= DownSize /\ Len(queue) <= QueueSize /\ Len(up) <= UpSize

ClientOK == TasksOK /\ SessionShape /\ TermsOK /\ SizesOK

LEMMA Spent ==
  ASSUME TasksOK, NEW what \in {"changes", "chunks", "texts", "breaks"}, Spend(what)
  PROVE  left' \in [changes : Nat, chunks : Nat, texts : Nat, breaks : Nat]
BY DEF TasksOK, Spend

LEMMA TasksKept == StreamInv /\ ClientOK /\ [Next]_vars => TasksOK'
<1> SUFFICES ASSUME StreamInv, ClientOK, [Next]_vars PROVE TasksOK'
  OBVIOUS
<1>0. TasksOK
  BY DEF ClientOK
<1>1. CASE Server
  <2> USE <1>0 DEF TasksOK
  <2>1. UNCHANGED <<phase, attempt, request, left>>
    BY <1>1 DEF Server, clientVars
  <2>2. CASE Watch \/ Subscribe \/ Unsubscribe \/ Input \/ PushNews \/ Resync \/ Drain
    BY <2>1, <2>2 DEF Watch, Subscribe, Unsubscribe, Input, PushNews, Resync, Drain, sessionVars
  <2>3. CASE Forward
    BY <2>1, <2>3 DEF Forward
  <2>4. ASSUME NEW t \in Terms, DrawSnapshot(t) \/ SkipSnapshot(t) PROVE TasksOK'
    BY <2>1, <2>4 DEF DrawSnapshot, SkipSnapshot
  <2> QED BY <1>1, <2>2, <2>3, <2>4 DEF Server, ServerStep
<1>2. CASE UIThread
  BY <1>0, <1>2 DEF UIThread, ShowOutput, sessionVars, clientVars, TasksOK
<1>3. CASE Reader
  <2> USE <1>0 DEF TasksOK
  <2>1. CASE Dial \/ FirstState \/ LearnStreams \/ ShowFrame \/ Refetch \/ NewState
    BY <2>1 DEF Dial, FirstState, LearnStreams, ShowFrame, Refetch, NewState, serverVars, sessionVars
  <2>2. CASE SessionLost
    BY <2>2, ClientAssumption DEF SessionLost, Retry, serverVars, sessionVars
  <2> QED BY <1>3, <2>1, <2>2 DEF Reader
<1>4. CASE Answer \/ Write
  BY <1>0, <1>4 DEF Answer, Write, serverVars, sessionVars, TasksOK
<1>5. CASE Surroundings
  <2>1. left' \in [changes : Nat, chunks : Nat, texts : Nat, breaks : Nat]
    <3>1. left' = left \/ \E what \in {"changes", "chunks", "texts", "breaks"} : Spend(what)
      BY <1>5 DEF Surroundings, Change, Produce, Type, Break, Refused, DialFails, RefetchFails,
         Reconnect, Pair
    <3> QED BY <1>0, <3>1, Spent DEF TasksOK
  <2> USE <1>0, <2>1 DEF TasksOK
  <2>2. CASE Change
    BY <2>2 DEF Change, ChangeTerminal, Announce
  <2>3. CASE Produce
    BY <2>3 DEF Produce, Output
  <2>4. CASE Type \/ RefetchFails \/ Pair
    BY <2>4, ClientAssumption DEF Type, RefetchFails, Pair, serverVars, sessionVars
  <2>5. CASE Break \/ Refused \/ DialFails \/ Reconnect
    <3>1. Hangup \/ UNCHANGED serverVars
      BY <2>5 DEF Break, Refused, DialFails, Reconnect
    <3>2. /\ link' \in {"down", "hello", "up"} /\ news' \in {"off", "seen", "unseen"}
          /\ busy' \in BOOLEAN /\ overrun' \in BOOLEAN
      BY <3>1 DEF Hangup, serverVars, sessionVars
    <3>3. /\ attempt' \in 0..MaxAttempts /\ request' \in {"none", "asked", "answered"}
          /\ phase' \in {"dialing", "fetching", "open", "pairing", "off"}
      BY <2>5, ClientAssumption DEF Break, Refused, DialFails, Reconnect, Retry
    <3> QED BY <3>2, <3>3
  <2> QED BY <1>5, <2>2, <2>3, <2>4, <2>5 DEF Surroundings
<1>6. CASE UNCHANGED vars
  BY <1>0, <1>6 DEF vars, serverVars, sessionVars, clientVars, TasksOK
<1> QED BY <1>1, <1>2, <1>3, <1>4, <1>5, <1>6 DEF Next

\* Before a session has given out a stream nobody is subscribed and no frame is
\* under way.
LEMMA NoStreamYet ==
  ASSUME StreamInv, nextId = 1
  PROVE  Subscribed = {} /\ \A k \in DOMAIN down : ~IsFrame(down[k])
<1>1. CASE link = "down"
  BY <1>1 DEF StreamInv, SilentWhenDown
<1>2. CASE link # "down"
  <2>1. \A i \in Nat, t \in Terms : ~Binds(i, t)
    BY <1>2 DEF StreamInv, OneMeaning
  <2>2. Subscribed = {}
    BY <2>1 DEF Binds, Subscribed, StreamInv, WireOK
  <2>3. ASSUME NEW k \in DOMAIN down, IsFrame(down[k]) PROVE FALSE
    <3>1. down[k] \in DownMessages
      BY DEF StreamInv, WireOK
    <3>2. down[k].id \in Nat /\ down[k].term \in Terms
      BY <2>3, <3>1 DEF DownMessages, Frames, IsFrame
    <3>3. Binds(down[k].id, down[k].term)
      BY <2>3 DEF Binds, Within, Carries, IsFrame
    <3> QED BY <2>1, <3>2, <3>3
  <2> QED BY <2>2, <2>3
<1> QED BY <1>1, <1>2

LEMMA ShapeKept == StreamInv /\ ClientOK /\ [Next]_vars => SessionShape'
<1> SUFFICES ASSUME StreamInv, ClientOK, [Next]_vars PROVE SessionShape'
  OBVIOUS
<1>0. SessionShape /\ SilentWhenDown /\ TasksOK /\ (drawing # {} => busy)
  BY DEF ClientOK, StreamInv, WireOK
<1> USE <1>0 DEF SessionShape, SilentWhenDown
<1>1. CASE Server
  <2>1. UNCHANGED <<phase, request, reg, cached>>
    BY <1>1 DEF Server, clientVars
  <2>2. CASE Watch \/ Unsubscribe \/ Input \/ PushNews \/ Resync \/ Drain
    BY <2>1, <2>2 DEF Watch, Unsubscribe, Input, PushNews, Resync, Drain, Receives, Loop,
       sessionVars
  <2>3. CASE Subscribe
    BY <2>1, <2>3 DEF Subscribe, Receives, Loop
  <2>4. CASE Forward
    BY <2>1, <2>4 DEF Forward, Loop
  <2>5. ASSUME NEW t \in Terms, DrawSnapshot(t) \/ SkipSnapshot(t) PROVE SessionShape'
    <3>1. link = "up"
      BY <2>5, NoStreamYet DEF DrawSnapshot, SkipSnapshot, StreamInv, WireOK
    <3> QED BY <2>1, <2>5, <3>1 DEF DrawSnapshot, SkipSnapshot
  <2> QED BY <1>1, <2>2, <2>3, <2>4, <2>5 DEF Server, ServerStep
<1>2. CASE UIThread
  BY <1>2 DEF UIThread, ShowOutput, sessionVars, clientVars
<1>3. CASE Reader
  <2>1. CASE Dial \/ FirstState
    BY <2>1 DEF Dial, FirstState, sessionVars
  <2>2. CASE LearnStreams \/ ShowFrame \/ Refetch
    BY <2>2 DEF LearnStreams, ShowFrame, Refetch, Reads, sessionVars
  <2>3. CASE SessionLost
    BY <2>3 DEF SessionLost, Retry, serverVars, sessionVars
  <2>4. CASE NewState
    BY <2>4 DEF NewState, Added, Removed, serverVars, sessionVars
  <2> QED BY <1>3, <2>1, <2>2, <2>3, <2>4 DEF Reader
<1>4. CASE Answer \/ Write
  BY <1>4 DEF Answer, Write, serverVars, sessionVars
<1>5. CASE Surroundings
  <2>1. CASE Change
    BY <2>1 DEF Change, ChangeTerminal, Announce, TasksOK
  <2>2. CASE Produce
    BY <2>2 DEF Produce, Output
  <2>3. CASE Type \/ RefetchFails \/ Pair
    BY <2>3 DEF Type, RefetchFails, Pair, serverVars, sessionVars
  <2>4. CASE Break \/ Refused \/ DialFails \/ Reconnect
    BY <2>4 DEF Break, Refused, DialFails, Reconnect, Retry, Hangup, serverVars, sessionVars
  <2> QED BY <1>5, <2>1, <2>2, <2>3, <2>4 DEF Surroundings
<1>6. CASE UNCHANGED vars
  BY <1>6 DEF vars, serverVars, sessionVars, clientVars
<1> QED BY <1>1, <1>2, <1>3, <1>4, <1>5, <1>6 DEF Next

LEMMA TermsKept == StreamInv /\ ClientOK /\ [Next]_vars => TermsOK'
<1> SUFFICES ASSUME StreamInv, ClientOK, [Next]_vars PROVE TermsOK'
  OBVIOUS
<1>0. TermsOK /\ SessionShape /\ answer \subseteq Terms /\ cached \subseteq Terms
  BY DEF ClientOK, StreamInv, WireOK
<1> USE <1>0 DEF TermsOK
<1>1. CASE Server
  <2>1. UNCHANGED <<request, reg, answer, deaf>>
    BY <1>1 DEF Server, clientVars
  <2>2. UNCHANGED fate
    BY <1>1 DEF Server, ServerStep, Watch, Subscribe, Unsubscribe, Input, PushNews, Forward, Resync,
       Drain, DrawSnapshot, SkipSnapshot, uiVars
  <2> QED BY <2>1, <2>2
<1>2. CASE UIThread
  BY <1>2 DEF UIThread, ShowOutput, clientVars
<1>3. CASE Reader
  <2>1. CASE Dial \/ SessionLost
    BY <2>1 DEF Dial, SessionLost, Retry, SessionShape, serverVars, uiVars
  <2>2. CASE FirstState \/ LearnStreams \/ ShowFrame \/ Refetch
    BY <2>2 DEF FirstState, LearnStreams, ShowFrame, Refetch, Reads, uiVars
  <2>3. CASE NewState
    BY <2>3 DEF NewState, Added, Removed, serverVars, uiVars
  <2> QED BY <1>3, <2>1, <2>2, <2>3 DEF Reader
<1>4. CASE Answer \/ Write
  BY <1>4 DEF Answer, Write, serverVars, uiVars
<1>5. CASE Surroundings
  <2>1. CASE Change
    BY <2>1 DEF Change, ChangeTerminal
  <2>2. CASE Produce
    BY <2>2 DEF Produce, Output
  <2>3. CASE Type \/ RefetchFails \/ Pair
    BY <2>3 DEF Type, RefetchFails, Pair, serverVars, uiVars
  <2>4. CASE Break \/ Refused \/ DialFails \/ Reconnect
    BY <2>4 DEF Break, Refused, DialFails, Reconnect, Retry, Hangup, Added, serverVars, uiVars
  <2> QED BY <1>5, <2>1, <2>2, <2>3, <2>4 DEF Surroundings
<1>6. CASE UNCHANGED vars
  BY <1>6 DEF vars, serverVars, uiVars, clientVars
<1> QED BY <1>1, <1>2, <1>3, <1>4, <1>5, <1>6 DEF Next

LEMMA EnqueueFits ==
  ASSUME NEW q \in Seq(QueueMessages), NEW m \in QueueMessages, Len(q) <= QueueSize
  PROVE  Enqueue(q, m) \in Seq(QueueMessages) /\ Len(Enqueue(q, m)) <= QueueSize
BY ClientAssumption DEF Enqueue

LEMMA SizesKept == StreamInv /\ HistoryOK /\ ClientOK /\ [Next]_vars => SizesOK'
<1> SUFFICES ASSUME StreamInv, HistoryOK, ClientOK, [Next]_vars PROVE SizesOK'
  OBVIOUS
<1>0. /\ SizesOK /\ SessionShape /\ bus \in Seq(Terms \X Nat) /\ out \in [Terms -> Nat]
      /\ down \in Seq(DownMessages) /\ up \in Seq(UpMessages) /\ queue \in Seq(QueueMessages)
      /\ Len(bus) \in Nat /\ Len(down) \in Nat /\ Len(up) \in Nat /\ Len(queue) \in Nat
  BY DEF ClientOK, StreamInv, WireOK
<1>00. /\ BusSize \in Nat \ {0} /\ DownSize \in Nat \ {0} /\ QueueSize \in Nat \ {0}
       /\ UpSize \in Nat \ {0} /\ Len(<<>>) = 0
  BY StreamAssumption, ClientAssumption
<1>000. /\ \A m : Len(Append(down, m)) = Len(down) + 1 /\ Len(Append(up, m)) = Len(up) + 1
        /\ down # <<>> => Len(Tail(down)) = Len(down) - 1
        /\ up # <<>> => Len(Tail(up)) = Len(up) - 1
        /\ queue # <<>> => Len(Tail(queue)) = Len(queue) - 1
  BY <1>0
<1> USE <1>0, <1>00 DEF SizesOK
<1>1. CASE Server
  <2>1. UNCHANGED queue
    BY <1>1 DEF Server, clientVars
  <2>2. CASE Watch \/ Resync \/ Drain
    BY <2>1, <2>2 DEF Watch, Resync, Drain
  <2>3. CASE Unsubscribe \/ Input
    BY <2>1, <2>3, <1>000 DEF Unsubscribe, Input, Receives, sessionVars
  <2>4. CASE Subscribe
    BY <2>1, <2>4, <1>000 DEF Subscribe, Receives, Room
  <2>5. CASE PushNews
    BY <2>1, <2>5, <1>000 DEF PushNews, Room
  <2>6. CASE Forward
    <3>1. PICK f \in Seq(Frames) : down' = down \o f /\ Len(down) + Len(f) <= DownSize
      BY <2>6, Forwarded
    <3>2. f \in Seq(DownMessages)
      BY DEF DownMessages
    <3>3. Len(down') <= DownSize
      BY <3>1, <3>2
    <3>4. bus' = <<>> /\ UNCHANGED <<up, queue>>
      BY <2>1, <2>6 DEF Forward
    <3> QED BY <3>3, <3>4
  <2>7. ASSUME NEW t \in Terms, DrawSnapshot(t) PROVE SizesOK'
    BY <2>1, <2>7, <1>000 DEF DrawSnapshot, Room
  <2>8. ASSUME NEW t \in Terms, SkipSnapshot(t) PROVE SizesOK'
    BY <2>1, <2>8 DEF SkipSnapshot
  <2> QED BY <1>1, <2>2, <2>3, <2>4, <2>5, <2>6, <2>7, <2>8 DEF Server, ServerStep
<1>2. CASE UIThread
  BY <1>2 DEF UIThread, ShowOutput, sessionVars, clientVars
<1>3. CASE Reader
  <2>1. CASE Dial
    BY <2>1 DEF Dial
  <2>2. CASE FirstState
    BY <2>2, <1>000 DEF FirstState, sessionVars, SessionShape
  <2>3. CASE LearnStreams \/ ShowFrame \/ Refetch
    BY <2>3, <1>000 DEF LearnStreams, ShowFrame, Refetch, Reads, sessionVars
  <2>4. CASE SessionLost
    BY <2>4, <1>000 DEF SessionLost, serverVars, sessionVars
  <2>5. CASE NewState
    <3> DEFINE sub == [kind |-> "subscribe", ids |-> Added]
               unsub == [kind |-> "unsubscribe", ids |-> Removed]
               told == IF Added = {} THEN queue ELSE Enqueue(queue, sub)
    <3>1. sub \in QueueMessages /\ unsub \in QueueMessages
      BY DEF StreamInv, WireOK, QueueMessages, Added, Removed
    <3>2. told \in Seq(QueueMessages) /\ Len(told) <= QueueSize
      BY <3>1, EnqueueFits
    <3>3. queue' = IF Removed = {} THEN told ELSE Enqueue(told, unsub)
      BY <2>5 DEF NewState
    <3> HIDE DEF told, unsub
    <3>4. Len(queue') <= QueueSize
      BY <3>1, <3>2, <3>3, EnqueueFits
    <3> QED BY <2>5, <3>4 DEF NewState, serverVars, sessionVars
  <2> QED BY <1>3, <2>1, <2>2, <2>3, <2>4, <2>5 DEF Reader
<1>4. CASE Answer \/ Write
  BY <1>4, <1>000 DEF Answer, Write, serverVars, sessionVars
<1>5. CASE Surroundings
  <2>1. CASE Change
    BY <2>1 DEF Change, ChangeTerminal
  <2>2. CASE Produce
    <3>1. PICK t \in Terms : Output(t)
      BY <2>2 DEF Produce
    <3>2. UNCHANGED <<down, up, queue>>
      BY <2>2, <3>1 DEF Produce, Output
    <3>3. <<t, out[t] + 1>> \in Terms \X Nat
      OBVIOUS
    <3> DEFINE all == Append(bus, <<t, out[t] + 1>>)
    <3>4. all \in Seq(Terms \X Nat) /\ Len(all) = Len(bus) + 1
      BY <3>3
    <3>5. bus' = bus \/ bus' = IF Len(bus) = BusSize THEN Tail(all) ELSE all
      BY <3>1 DEF Output
    <3> HIDE DEF all
    <3>6. all # <<>> /\ Len(Tail(all)) = Len(bus)
      BY <3>4
    <3>7. Len(bus') <= BusSize
      <4>1. CASE bus' = bus
        BY <4>1
      <4>2. CASE bus' = Tail(all)
        BY <4>2, <3>6
      <4>3. CASE bus' = all /\ Len(bus) # BusSize
        BY <4>3, <3>4
      <4> QED BY <3>5, <4>1, <4>2, <4>3
    <3> QED BY <3>2, <3>7
  <2>3. CASE Type
    <3>1. PICK t \in wired : queue' = Enqueue(queue, [kind |-> "text", term |-> t])
      BY <2>3 DEF Type
    <3>2. [kind |-> "text", term |-> t] \in QueueMessages
      BY DEF StreamInv, WireOK, QueueMessages
    <3> QED BY <2>3, <3>1, <3>2, EnqueueFits DEF Type, serverVars, sessionVars
  <2>4. CASE RefetchFails \/ Pair
    BY <2>4 DEF RefetchFails, Pair, serverVars, sessionVars
  <2>5. CASE Break \/ Refused \/ DialFails \/ Reconnect
    <3>1. Hangup \/ UNCHANGED serverVars
      BY <2>5 DEF Break, Refused, DialFails, Reconnect
    <3>2. queue' = queue \/ queue' = <<>>
      BY <2>5 DEF Break, Refused, DialFails, Reconnect
    <3>3. (bus' = bus /\ down' = down /\ up' = up) \/ (bus' = <<>> /\ down' = <<>> /\ up' = <<>>)
      BY <3>1 DEF Hangup, serverVars, sessionVars
    <3> QED BY <3>2, <3>3
  <2> QED BY <1>5, <2>1, <2>2, <2>3, <2>4, <2>5 DEF Surroundings
<1>6. CASE UNCHANGED vars
  BY <1>6 DEF vars, serverVars, sessionVars, clientVars
<1> QED BY <1>1, <1>2, <1>3, <1>4, <1>5, <1>6 DEF Next

LEMMA ClientInit == Init => ClientOK
<1> SUFFICES ASSUME Init PROVE ClientOK
  OBVIOUS
<1>1. SessionShape /\ TermsOK
  BY DEF Init, ServerInit, SessionShape, TermsOK
<1>3. TasksOK
  <2>1. left \in [changes : Nat, chunks : Nat, texts : Nat, breaks : Nat]
    BY ClientAssumption DEF Init
  <2>2. attempt \in 0..MaxAttempts
    BY ClientAssumption DEF Init
  <2> QED BY <2>1, <2>2 DEF Init, ServerInit, TasksOK
<1>2. SizesOK
  BY StreamAssumption, ClientAssumption DEF Init, ServerInit, SizesOK
<1> QED BY <1>1, <1>2, <1>3 DEF ClientOK

=============================================================================
