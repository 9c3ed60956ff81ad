-------------------------- MODULE HookTerminalsProofs --------------------------
(***************************************************************************)
(* Theorems about HookTerminals, for any number of sessions and panes.     *)
(***************************************************************************)
EXTENDS HookTerminals, FiniteSetTheorems, TLAPS

Event == [id : Ids, coded : BOOLEAN, of : Nat]

\* What Terminals' own steps keep.
SessionsOK ==
  /\ sessions \in Seq(Session) /\ handles \in [Ids -> Nat] /\ events \in Seq(Event)
  /\ TerminalsTypeOK

UiOK ==
  /\ hooks \in [Ids -> {"none", "running", "ended"}]
  /\ project \in {"open", "closing", "gone"}
  /\ agents \subseteq panes /\ panes \subseteq Ids /\ registry \subseteq Ids
  /\ pending \subseteq Ids /\ dismissed \subseteq Ids /\ unlisted \subseteq Ids
  /\ ~Alive => HookEntries = {}

LEMMA InvParts == HooksInv <=> SessionsOK /\ UiOK /\ ProcessHasOwner /\ RemovalWaits
BY DEF HooksInv, SessionsOK, UiOK, TypeOK, Event

\* A session that is waited for by the removal of its project.
Untold(i) == \E s \in Known : sessions[s].id = i /\ sessions[s].told = 0

-----------------------------------------------------------------------------
(* Sessions.                                                               *)

\* Sessions that are replaced, one by one, by others with the same id keep what
\* points to them right.
LEMMA ReplacedSession ==
  ASSUME SessionsOK, NEW s \in Known, NEW r \in Session, r.id = sessions[s].id,
         sessions' = [sessions EXCEPT ![s] = r]
  PROVE  /\ sessions' \in Seq(Session) /\ Len(sessions') = Len(sessions) /\ Known' = Known
         /\ sessions'[s] = r
         /\ \A q \in Known \ {s} : sessions'[q] = sessions[q]
         /\ \A q \in Known : sessions'[q].id = sessions[q].id
BY DEF SessionsOK, Known

LEMMA NewSessionOK ==
  ASSUME NEW i \in Ids, NEW managed \in BOOLEAN
  PROVE  /\ NewSession(i, managed) \in Session
         /\ NewSession(i, managed).id = i /\ NewSession(i, managed).told = 0
BY DEF NewSession, Session

LEMMA FreshIds ==
  ASSUME NEW i \in Fresh
  PROVE  i \in Ids /\ \A s \in Known : sessions[s].id # i
BY DEF Fresh

LEMMA AddedSession ==
  ASSUME NEW known \in Seq(Session), NEW r \in Session, Len(known) < MaxSessions,
         sessions' = Append(known, r)
  PROVE  /\ sessions' \in Seq(Session) /\ Len(sessions') = Len(known) + 1
         /\ Len(sessions') <= MaxSessions
         /\ Len(known) + 1 \in Known' /\ sessions'[Len(known) + 1] = r
         /\ \A q \in DOMAIN known : q \in Known' /\ sessions'[q] = known[q]
         /\ \A q \in Known' : q \in DOMAIN known \/ q = Len(known) + 1
BY TerminalsAssumption DEF Known, Ids

\* The next session: nobody has its number, and 0 is no session.
LEMMA NextSession ==
  ASSUME SessionsOK
  PROVE  /\ sessions \in Seq(Session) /\ Known = DOMAIN sessions
         /\ Len(sessions) + 1 \in Nat \ {0} /\ Len(sessions) + 1 \notin Known /\ 0 \notin Known
BY DEF SessionsOK, Known

\* Every handle names a session of its id, every event a session it came from.
LEMMA SessionsStayOK ==
  ASSUME SessionsOK, sessions' \in Seq(Session), Len(sessions') <= MaxSessions,
         \A q \in Known : q \in Known' /\ sessions'[q].id = sessions[q].id,
         handles' \in [Ids -> Nat],
         \A i \in Ids : handles'[i] # 0 =>
           handles'[i] = handles[i]
           \/ (handles'[i] \in Known' /\ sessions'[handles'[i]].id = i),
         events' \in Seq(Event),
         \A n \in DOMAIN events' :
           (\E m \in DOMAIN events : events'[n] = events[m])
           \/ (events'[n].of \in Known' /\ sessions'[events'[n].of].id = events'[n].id)
  PROVE  SessionsOK'
<1>1. \A s \in Known' : sessions'[s] \in Session
  BY DEF Known
<1>2. \A s \in Known' : /\ sessions'[s].id \in Ids
                        /\ sessions'[s].reader \in {"reading", "ended", "done"}
                        /\ sessions'[s].writer \in {"waiting", "failed"}
                        /\ sessions'[s].waiter \in {"waiting", "grace", "done"}
  BY <1>1 DEF Session
<1>3. \A i \in Ids : handles'[i] # 0 => handles'[i] \in Known' /\ sessions'[handles'[i]].id = i
  <2>1. \A i \in Ids : handles[i] # 0 => handles[i] \in Known /\ sessions[handles[i]].id = i
    BY DEF SessionsOK, TerminalsTypeOK
  <2>2. ASSUME NEW i \in Ids, handles'[i] # 0
        PROVE  handles'[i] \in Known' /\ sessions'[handles'[i]].id = i
    BY <2>1, <2>2
  <2> QED BY <2>2
<1>4. \A n \in DOMAIN events' :
        events'[n].of \in Known' /\ sessions'[events'[n].of].id = events'[n].id
  BY DEF SessionsOK, TerminalsTypeOK
<1> QED BY <1>2, <1>3, <1>4 DEF SessionsOK, TerminalsTypeOK, Event

\* What the UI thread heard and will hear of an exit, n times, says of its session.
Matches(ses, n) ==
  LET w == IF ses.writer = "failed" THEN 1 ELSE 0
  IN  /\ ses.managed => /\ n = w + (IF ses.reported THEN 1 ELSE 0)
                        /\ ses.waiter = "done" => ses.reported
      /\ ~ses.managed => /\ ses.reader \in {"reading", "done"} /\ ses.waiter = "done"
                         /\ n = w \/ (ses.reader = "done" /\ n = w + 1)
                         /\ ses.reader = "done" => ses.shut \/ n > 0

\* What becomes of session s when a thread or a process of it takes a step: k reports
\* of its exit are added.
Moves(s, r, k) ==
  /\ r.id = sessions[s].id /\ r.told = sessions[s].told /\ r.managed = sessions[s].managed
  /\ r.shut => sessions[s].shut \/ handles[sessions[s].id] # s
  /\ sessions' = [sessions EXCEPT ![s] = r]
  /\ k = 0 => events' = events
  /\ k = 1 => \E coded \in BOOLEAN :
               events' = Append(events, [id |-> sessions[s].id, coded |-> coded, of |-> s])
  /\ \A n \in Nat : Matches(sessions[s], n) => Matches(r, n + k)

LEMMA ThreadStep ==
  ASSUME SessionsOK, NEW s \in Known, Threads(s) \/ Processes(s)
  PROVE  handles' = handles /\ \E r \in Session, k \in {0, 1} : Moves(s, r, k)
<1>0. sessions[s] \in Session
  BY DEF SessionsOK, Known
<1>1. CASE Exits(s)
  <2> DEFINE r == [sessions[s] EXCEPT !.up = FALSE]
  <2>1. /\ r \in Session /\ r.id = sessions[s].id /\ r.told = sessions[s].told
        /\ r.managed = sessions[s].managed /\ r.reported = sessions[s].reported
        /\ r.shut = sessions[s].shut /\ r.reader = sessions[s].reader
        /\ r.writer = sessions[s].writer /\ r.waiter = sessions[s].waiter
    BY <1>0 DEF Session
  <2>2. sessions' = [sessions EXCEPT ![s] = r] /\ handles' = handles
    BY <1>1 DEF Exits
  <2> HIDE DEF r
  <2>3. events' = events
    BY <1>1 DEF Exits
  <2>4. \A n \in Nat : Matches(sessions[s], n) => Matches(r, n + 0)
    BY <1>1, <2>1 DEF Exits, Matches
  <2>5. r.shut => sessions[s].shut \/ handles[sessions[s].id] # s
    BY <2>1
  <2>6. Moves(s, r, 0)
    BY <2>1, <2>2, <2>3, <2>4, <2>5 DEF Moves
  <2> QED BY <2>1, <2>2, <2>6
<1>2. CASE LetsGo(s)
  <2> DEFINE r == [sessions[s] EXCEPT !.tty = FALSE]
  <2>1. /\ r \in Session /\ r.id = sessions[s].id /\ r.told = sessions[s].told
        /\ r.managed = sessions[s].managed /\ r.reported = sessions[s].reported
        /\ r.shut = sessions[s].shut /\ r.reader = sessions[s].reader
        /\ r.writer = sessions[s].writer /\ r.waiter = sessions[s].waiter
    BY <1>0 DEF Session
  <2>2. sessions' = [sessions EXCEPT ![s] = r] /\ handles' = handles
    BY <1>2 DEF LetsGo
  <2> HIDE DEF r
  <2>3. events' = events
    BY <1>2 DEF LetsGo
  <2>4. \A n \in Nat : Matches(sessions[s], n) => Matches(r, n + 0)
    BY <1>2, <2>1 DEF LetsGo, Matches
  <2>5. r.shut => sessions[s].shut \/ handles[sessions[s].id] # s
    BY <2>1
  <2>6. Moves(s, r, 0)
    BY <2>1, <2>2, <2>3, <2>4, <2>5 DEF Moves
  <2> QED BY <2>1, <2>2, <2>6
<1>3. CASE Shutdown(s)
  <2> DEFINE r == [[sessions[s] EXCEPT !.shut = TRUE] EXCEPT !.up = FALSE]
  <2>1. /\ r \in Session /\ r.id = sessions[s].id /\ r.told = sessions[s].told
        /\ r.managed = sessions[s].managed /\ r.reported = sessions[s].reported
        /\ r.reader = sessions[s].reader /\ r.writer = sessions[s].writer
        /\ r.waiter = sessions[s].waiter /\ r.shut
    BY <1>0 DEF Session
  <2>2. sessions' = [sessions EXCEPT ![s] = r] /\ handles' = handles
    BY <1>3 DEF Shutdown, SessionsOK, Known
  <2> HIDE DEF r
  <2>3. events' = events
    BY <1>3 DEF Shutdown
  <2>4. \A n \in Nat : Matches(sessions[s], n) => Matches(r, n + 0)
    BY <1>3, <2>1 DEF Shutdown, Matches
  <2>5. r.shut => sessions[s].shut \/ handles[sessions[s].id] # s
    BY <1>3 DEF Shutdown
  <2>6. Moves(s, r, 0)
    BY <2>1, <2>2, <2>3, <2>4, <2>5 DEF Moves
  <2> QED BY <2>1, <2>2, <2>6
<1>4. CASE ReaderSeesEnd(s)
  <2>1. CASE sessions[s].managed
    <3> DEFINE r == [sessions[s] EXCEPT !.reader = "ended"]
    <3>1. /\ r \in Session /\ r.id = sessions[s].id /\ r.told = sessions[s].told
          /\ r.managed = sessions[s].managed /\ r.reported = sessions[s].reported
          /\ r.shut = sessions[s].shut /\ r.writer = sessions[s].writer
          /\ r.waiter = sessions[s].waiter /\ r.reader = "ended"
      BY <1>0 DEF Session
    <3>2. sessions' = [sessions EXCEPT ![s] = r] /\ handles' = handles
      BY <1>4, <2>1 DEF ReaderSeesEnd
    <3> HIDE DEF r
    <3>3. events' = events
      BY <1>4, <2>1 DEF ReaderSeesEnd
    <3>4. \A n \in Nat : Matches(sessions[s], n) => Matches(r, n + 0)
      BY <1>4, <2>1, <3>1 DEF ReaderSeesEnd, Matches
    <3>5. r.shut => sessions[s].shut \/ handles[sessions[s].id] # s
      BY <3>1
    <3>6. Moves(s, r, 0)
      BY <3>1, <3>2, <3>3, <3>4, <3>5 DEF Moves
    <3> QED BY <3>1, <3>2, <3>6
  <2>2. CASE ~sessions[s].managed
    <3> DEFINE r == [sessions[s] EXCEPT !.reader = "done"]
    <3>1. /\ r \in Session /\ r.id = sessions[s].id /\ r.told = sessions[s].told
          /\ r.managed = sessions[s].managed /\ r.reported = sessions[s].reported
          /\ r.shut = sessions[s].shut /\ r.writer = sessions[s].writer
          /\ r.waiter = sessions[s].waiter /\ r.reader = "done"
      BY <1>0 DEF Session
    <3>2. sessions' = [sessions EXCEPT ![s] = r] /\ handles' = handles
      BY <1>4, <2>2 DEF ReaderSeesEnd
    <3> HIDE DEF r
    <3>3. \E coded \in BOOLEAN :
             events' = Append(events, [id |-> sessions[s].id, coded |-> coded, of |-> s])
      BY <1>4, <2>2 DEF ReaderSeesEnd, Report
    <3>4. \A n \in Nat : Matches(sessions[s], n) => Matches(r, n + 1)
      BY <1>4, <2>2, <3>1 DEF ReaderSeesEnd, Matches
    <3>5. r.shut => sessions[s].shut \/ handles[sessions[s].id] # s
      BY <3>1
    <3>6. Moves(s, r, 1)
      BY <3>1, <3>2, <3>3, <3>4, <3>5 DEF Moves
    <3> QED BY <3>1, <3>2, <3>6
  <2> QED BY <2>1, <2>2
<1>5. CASE ReaderStops(s)
  <2> DEFINE r == [sessions[s] EXCEPT !.reader = "done"]
  <2>1. /\ r \in Session /\ r.id = sessions[s].id /\ r.told = sessions[s].told
        /\ r.managed = sessions[s].managed /\ r.reported = sessions[s].reported
        /\ r.shut = sessions[s].shut /\ r.writer = sessions[s].writer
        /\ r.waiter = sessions[s].waiter /\ r.reader = "done"
    BY <1>0 DEF Session
  <2>2. sessions' = [sessions EXCEPT ![s] = r] /\ handles' = handles
    BY <1>5 DEF ReaderStops
  <2> HIDE DEF r
  <2>3. events' = events
    BY <1>5 DEF ReaderStops
  <2>4. \A n \in Nat : Matches(sessions[s], n) => Matches(r, n + 0)
    BY <1>5, <2>1 DEF ReaderStops, IsBroken, Matches
  <2>5. r.shut => sessions[s].shut \/ handles[sessions[s].id] # s
    BY <2>1
  <2>6. Moves(s, r, 0)
    BY <2>1, <2>2, <2>3, <2>4, <2>5 DEF Moves
  <2> QED BY <2>1, <2>2, <2>6
<1>6. CASE ReaderReports(s)
  <2>1. CASE sessions[s].reported
    <3> DEFINE r == [[sessions[s] EXCEPT !.reader = "done"] EXCEPT !.reported = TRUE]
    <3>1. /\ r \in Session /\ r.id = sessions[s].id /\ r.told = sessions[s].told
          /\ r.managed = sessions[s].managed /\ r.shut = sessions[s].shut
          /\ r.writer = sessions[s].writer /\ r.waiter = sessions[s].waiter
          /\ r.reader = "done" /\ r.reported
      BY <1>0 DEF Session
    <3>2. sessions' = [sessions EXCEPT ![s] = r] /\ handles' = handles
      BY <1>6, <2>1 DEF ReaderReports, Claim
    <3> HIDE DEF r
    <3>3. events' = events
      BY <1>6, <2>1 DEF ReaderReports, Claim
    <3>4. \A n \in Nat : Matches(sessions[s], n) => Matches(r, n + 0)
      BY <1>6, <2>1, <3>1 DEF ReaderReports, Claim, Matches
    <3>5. r.shut => sessions[s].shut \/ handles[sessions[s].id] # s
      BY <3>1
    <3>6. Moves(s, r, 0)
      BY <3>1, <3>2, <3>3, <3>4, <3>5 DEF Moves
    <3> QED BY <3>1, <3>2, <3>6
  <2>2. CASE ~sessions[s].reported
    <3> DEFINE r == [[sessions[s] EXCEPT !.reader = "done"] EXCEPT !.reported = TRUE]
    <3>1. /\ r \in Session /\ r.id = sessions[s].id /\ r.told = sessions[s].told
          /\ r.managed = sessions[s].managed /\ r.shut = sessions[s].shut
          /\ r.writer = sessions[s].writer /\ r.waiter = sessions[s].waiter
          /\ r.reader = "done" /\ r.reported
      BY <1>0 DEF Session
    <3>2. sessions' = [sessions EXCEPT ![s] = r] /\ handles' = handles
      BY <1>6, <2>2 DEF ReaderReports, Claim
    <3> HIDE DEF r
    <3>3. \E coded \in BOOLEAN :
             events' = Append(events, [id |-> sessions[s].id, coded |-> coded, of |-> s])
      BY <1>6, <2>2 DEF ReaderReports, Claim, Report
    <3>4. \A n \in Nat : Matches(sessions[s], n) => Matches(r, n + 1)
      BY <1>6, <2>2, <3>1 DEF ReaderReports, Claim, Matches
    <3>5. r.shut => sessions[s].shut \/ handles[sessions[s].id] # s
      BY <3>1
    <3>6. Moves(s, r, 1)
      BY <3>1, <3>2, <3>3, <3>4, <3>5 DEF Moves
    <3> QED BY <3>1, <3>2, <3>6
  <2> QED BY <2>1, <2>2
<1>7. CASE WriterFails(s)
  <2> DEFINE r == [sessions[s] EXCEPT !.writer = "failed"]
  <2>1. /\ r \in Session /\ r.id = sessions[s].id /\ r.told = sessions[s].told
        /\ r.managed = sessions[s].managed /\ r.reported = sessions[s].reported
        /\ r.shut = sessions[s].shut /\ r.reader = sessions[s].reader
        /\ r.waiter = sessions[s].waiter /\ r.writer = "failed"
    BY <1>0 DEF Session
  <2>2. sessions' = [sessions EXCEPT ![s] = r] /\ handles' = handles
    BY <1>7 DEF WriterFails
  <2> HIDE DEF r
  <2>3. \E coded \in BOOLEAN :
           events' = Append(events, [id |-> sessions[s].id, coded |-> coded, of |-> s])
    BY <1>7 DEF WriterFails, Report
  <2>4. \A n \in Nat : Matches(sessions[s], n) => Matches(r, n + 1)
    BY <1>7, <2>1 DEF WriterFails, Matches
  <2>5. r.shut => sessions[s].shut \/ handles[sessions[s].id] # s
    BY <2>1
  <2>6. Moves(s, r, 1)
    BY <2>1, <2>2, <2>3, <2>4, <2>5 DEF Moves
  <2> QED BY <2>1, <2>2, <2>6
<1>8. CASE WaiterSees(s)
  <2> DEFINE r == [sessions[s] EXCEPT !.waiter = "grace"]
  <2>1. /\ r \in Session /\ r.id = sessions[s].id /\ r.told = sessions[s].told
        /\ r.managed = sessions[s].managed /\ r.reported = sessions[s].reported
        /\ r.shut = sessions[s].shut /\ r.reader = sessions[s].reader
        /\ r.writer = sessions[s].writer /\ r.waiter = "grace"
    BY <1>0 DEF Session
  <2>2. sessions' = [sessions EXCEPT ![s] = r] /\ handles' = handles
    BY <1>8 DEF WaiterSees
  <2> HIDE DEF r
  <2>3. events' = events
    BY <1>8 DEF WaiterSees
  <2>4. \A n \in Nat : Matches(sessions[s], n) => Matches(r, n + 0)
    BY <1>8, <2>1 DEF WaiterSees, Matches
  <2>5. r.shut => sessions[s].shut \/ handles[sessions[s].id] # s
    BY <2>1
  <2>6. Moves(s, r, 0)
    BY <2>1, <2>2, <2>3, <2>4, <2>5 DEF Moves
  <2> QED BY <2>1, <2>2, <2>6
<1>9. CASE WaiterReports(s)
  <2>1. CASE sessions[s].reported
    <3> DEFINE r == [[sessions[s] EXCEPT !.waiter = "done"] EXCEPT !.reported = TRUE]
    <3>1. /\ r \in Session /\ r.id = sessions[s].id /\ r.told = sessions[s].told
          /\ r.managed = sessions[s].managed /\ r.shut = sessions[s].shut
          /\ r.reader = sessions[s].reader /\ r.writer = sessions[s].writer
          /\ r.waiter = "done" /\ r.reported
      BY <1>0 DEF Session
    <3>2. sessions' = [sessions EXCEPT ![s] = r] /\ handles' = handles
      BY <1>9, <2>1 DEF WaiterReports, Claim
    <3> HIDE DEF r
    <3>3. events' = events
      BY <1>9, <2>1 DEF WaiterReports, Claim
    <3>4. \A n \in Nat : Matches(sessions[s], n) => Matches(r, n + 0)
      BY <1>9, <2>1, <3>1 DEF WaiterReports, Claim, Matches
    <3>5. r.shut => sessions[s].shut \/ handles[sessions[s].id] # s
      BY <3>1
    <3>6. Moves(s, r, 0)
      BY <3>1, <3>2, <3>3, <3>4, <3>5 DEF Moves
    <3> QED BY <3>1, <3>2, <3>6
  <2>2. CASE ~sessions[s].reported
    <3> DEFINE r == [[sessions[s] EXCEPT !.waiter = "done"] EXCEPT !.reported = TRUE]
    <3>1. /\ r \in Session /\ r.id = sessions[s].id /\ r.told = sessions[s].told
          /\ r.managed = sessions[s].managed /\ r.shut = sessions[s].shut
          /\ r.reader = sessions[s].reader /\ r.writer = sessions[s].writer
          /\ r.waiter = "done" /\ r.reported
      BY <1>0 DEF Session
    <3>2. sessions' = [sessions EXCEPT ![s] = r] /\ handles' = handles
      BY <1>9, <2>2 DEF WaiterReports, Claim
    <3> HIDE DEF r
    <3>3. \E coded \in BOOLEAN :
             events' = Append(events, [id |-> sessions[s].id, coded |-> coded, of |-> s])
      BY <1>9, <2>2 DEF WaiterReports, Claim, Report
    <3>4. \A n \in Nat : Matches(sessions[s], n) => Matches(r, n + 1)
      BY <1>9, <2>2, <3>1 DEF WaiterReports, Claim, Matches
    <3>5. r.shut => sessions[s].shut \/ handles[sessions[s].id] # s
      BY <3>1
    <3>6. Moves(s, r, 1)
      BY <3>1, <3>2, <3>3, <3>4, <3>5 DEF Moves
    <3> QED BY <3>1, <3>2, <3>6
  <2> QED BY <2>1, <2>2
<1> QED BY <1>1, <1>2, <1>3, <1>4, <1>5, <1>6, <1>7, <1>8, <1>9
       DEF Threads, Processes, Reader, Waiter

-----------------------------------------------------------------------------
(* Reports.                                                                *)

LEMMA SomeFinite ==
  ASSUME NEW l \in Nat, NEW S, S \subseteq 1..l
  PROVE  IsFiniteSet(S) /\ Cardinality(S) \in Nat
<1>1. IsFiniteSet(1..l)
  BY FS_Interval
<1>2. IsFiniteSet(S)
  BY <1>1, FS_Subset
<1> QED BY <1>2, FS_CardinalityType

LEMMA ReportsFinite ==
  ASSUME events \in Seq(Event), NEW s
  PROVE  IsFiniteSet(Reports(s)) /\ Cardinality(Reports(s)) \in Nat
<1>1. Reports(s) \subseteq 1..Len(events) /\ Len(events) \in Nat
  BY DEF Reports
<1> QED BY <1>1, SomeFinite

LEMMA NextReportsFinite ==
  ASSUME events' \in Seq(Event), NEW s
  PROVE  IsFiniteSet(Reports(s)') /\ Cardinality(Reports(s)') \in Nat
<1>1. Reports(s)' \subseteq 1..Len(events') /\ Len(events') \in Nat
  BY DEF Reports
<1> QED BY <1>1, SomeFinite

LEMMA CountHeard ==
  ASSUME SessionsOK, NEW s \in Known
  PROVE  Heard(s) \in Nat /\ sessions[s].told \in Nat
<1>0. sessions[s] \in Session
  BY DEF SessionsOK, Known
<1>1. sessions[s].told \in Nat
  BY <1>0 DEF Session
<1>2. events \in Seq(Event)
  BY DEF SessionsOK
<1>3. Cardinality(Reports(s)) \in Nat
  BY <1>2, ReportsFinite
<1> QED BY <1>1, <1>3 DEF Heard

\* A report adds one to those of its session and none to those of another.
LEMMA ReportCounts ==
  ASSUME events \in Seq(Event), NEW s, NEW e \in Event, events' = Append(events, e)
  PROVE  Cardinality(Reports(s)') = Cardinality(Reports(s)) + (IF e.of = s THEN 1 ELSE 0)
<1>1. /\ DOMAIN events' = DOMAIN events \cup {Len(events) + 1}
      /\ \A n \in DOMAIN events : events'[n] = events[n]
      /\ events'[Len(events) + 1] = e
      /\ Len(events) + 1 \notin DOMAIN events
  OBVIOUS
<1>2. CASE e.of # s
  <2>1. Reports(s)' = Reports(s)
    BY <1>1, <1>2 DEF Reports
  <2>2. Cardinality(Reports(s)) \in Nat
    BY ReportsFinite
  <2> QED BY <1>2, <2>1, <2>2
<1>3. CASE e.of = s
  <2>1. Reports(s)' = Reports(s) \cup {Len(events) + 1} /\ Len(events) + 1 \notin Reports(s)
    BY <1>1, <1>3 DEF Reports
  <2>2. IsFiniteSet(Reports(s))
    BY ReportsFinite
  <2> QED BY <1>3, <2>1, <2>2, FS_AddElement
<1> QED BY <1>2, <1>3

\* A report that is handled is one fewer of its session.
LEMMA HandledCounts ==
  ASSUME events \in Seq(Event), events # <<>>, NEW s, events' = Tail(events)
  PROVE  Cardinality(Reports(s)) = Cardinality(Reports(s)')
                                   + (IF Head(events).of = s THEN 1 ELSE 0)
<1> DEFINE rest == Reports(s) \ {1}
           next == [n \in Reports(s)' |-> n + 1]
<1>1. /\ DOMAIN events' \subseteq Nat /\ Head(events) = events[1] /\ 1 \in DOMAIN events
      /\ \A n \in DOMAIN events' : n + 1 \in DOMAIN events /\ events'[n] = events[n + 1]
      /\ \A m \in DOMAIN events \ {1} : m - 1 \in DOMAIN events' /\ events'[m - 1] = events[m]
      /\ \A m \in DOMAIN events : m \in Nat
      /\ 0 \notin DOMAIN events'
  OBVIOUS
<1>2. \A n \in Reports(s)' : n \in Nat /\ n + 1 \in rest
  BY <1>1 DEF Reports
<1>3. next \in [Reports(s)' -> rest] /\ \A m, n \in Reports(s)' : next[m] = next[n] => m = n
  BY <1>2
<1>4. ASSUME NEW m \in rest PROVE \E n \in Reports(s)' : next[n] = m
  <2>1. m \in Nat /\ m - 1 \in Reports(s)'
    BY <1>1, <1>4 DEF Reports
  <2> QED BY <2>1
<1>5. next \in Bijection(Reports(s)', rest)
  BY <1>3, <1>4 DEF Bijection, Injection, IsInjective, Surjection
<1>6. IsFiniteSet(Reports(s)) /\ Cardinality(Reports(s)) \in Nat
  BY ReportsFinite
<1>7. events' \in Seq(Event)
  OBVIOUS
<1>8. IsFiniteSet(Reports(s)') /\ Cardinality(Reports(s)') \in Nat
  BY <1>7, NextReportsFinite
<1>9. Cardinality(rest) = Cardinality(Reports(s)')
  <2>1. ExistsBijection(Reports(s)', rest)
    BY <1>5 DEF ExistsBijection
  <2> HIDE DEF rest
  <2> QED BY <1>8, <2>1, FS_Bijection
<1>10. Cardinality(rest) = IF 1 \in Reports(s) THEN Cardinality(Reports(s)) - 1
                           ELSE Cardinality(Reports(s))
  BY <1>6, FS_RemoveElement
<1>11. 1 \in Reports(s) <=> Head(events).of = s
  BY <1>1 DEF Reports
<1> HIDE DEF rest
<1> QED BY <1>6, <1>8, <1>9, <1>10, <1>11

\* The events after a step of session s, and what they add to what is heard.
LEMMA ReportedEvents ==
  ASSUME SessionsOK, NEW s \in Known, NEW r, NEW k \in {0, 1}, Moves(s, r, k)
  PROVE  /\ events' \in Seq(Event)
         /\ \A n \in DOMAIN events' :
              (\E m \in DOMAIN events : events'[n] = events[m])
              \/ (events'[n].of = s /\ events'[n].id = sessions[s].id)
         /\ \A q : Cardinality(Reports(q)') = Cardinality(Reports(q)) + (IF q = s THEN k ELSE 0)
<1>0. events \in Seq(Event) /\ \A q : Cardinality(Reports(q)) \in Nat
  BY ReportsFinite DEF SessionsOK
<1>1. CASE k = 0
  <2>1. events' = events
    BY <1>1 DEF Moves
  <2>2. \A q : Reports(q)' = Reports(q)
    BY <2>1 DEF Reports
  <2> QED BY <1>0, <1>1, <2>1, <2>2
<1>2. CASE k = 1
  <2> PICK coded \in BOOLEAN :
        events' = Append(events, [id |-> sessions[s].id, coded |-> coded, of |-> s])
    BY <1>2 DEF Moves
  <2> DEFINE e == [id |-> sessions[s].id, coded |-> coded, of |-> s]
  <2>1. e \in Event /\ e.of = s /\ e.id = sessions[s].id
    BY DEF SessionsOK, TerminalsTypeOK, Known, Event
  <2>2. events' = Append(events, e)
    OBVIOUS
  <2> HIDE DEF e
  <2>3. \A q : Cardinality(Reports(q)') = Cardinality(Reports(q)) + (IF e.of = q THEN 1 ELSE 0)
    BY <1>0, <2>1, <2>2, ReportCounts
  <2>4. /\ events' \in Seq(Event)
        /\ \A n \in DOMAIN events' : (\E m \in DOMAIN events : events'[n] = events[m])
                                      \/ events'[n] = e
    BY <1>0, <2>1, <2>2
  <2> QED BY <1>2, <2>1, <2>3, <2>4
<1> QED BY <1>1, <1>2

-----------------------------------------------------------------------------
(* Sessions that are kept.                                                 *)

\* The sessions so far stay what they are, to those who look at ids, at who is
\* managed and at whether the UI thread handled the exit.
Kept == \A q \in Known : /\ q \in Known' /\ sessions'[q].id = sessions[q].id
                         /\ sessions'[q].told = sessions[q].told
                         /\ sessions'[q].managed = sessions[q].managed

LEMMA ThreadKeepsSessions ==
  ASSUME SessionsOK, NEW s \in Known, Threads(s) \/ Processes(s)
  PROVE  SessionsOK' /\ Kept
<1> PICK r \in Session, k \in {0, 1} : Moves(s, r, k)
  BY ThreadStep
<1>1. /\ r.id = sessions[s].id /\ r.told = sessions[s].told /\ r.managed = sessions[s].managed
      /\ sessions' = [sessions EXCEPT ![s] = r]
  BY DEF Moves
<1>2. /\ sessions' \in Seq(Session) /\ Len(sessions') = Len(sessions) /\ Known' = Known
      /\ sessions'[s] = r
      /\ \A q \in Known \ {s} : sessions'[q] = sessions[q]
      /\ \A q \in Known : sessions'[q].id = sessions[q].id
  BY <1>1, ReplacedSession
<1>3. handles' = handles
  BY ThreadStep
<1>4. /\ events' \in Seq(Event)
      /\ \A n \in DOMAIN events' :
           (\E m \in DOMAIN events : events'[n] = events[m])
           \/ (events'[n].of = s /\ events'[n].id = sessions[s].id)
  BY ReportedEvents
<1>5. Len(sessions') <= MaxSessions /\ handles' \in [Ids -> Nat]
  BY <1>2, <1>3 DEF SessionsOK, TerminalsTypeOK
<1>6. \A n \in DOMAIN events' :
        (\E m \in DOMAIN events : events'[n] = events[m])
        \/ (events'[n].of \in Known' /\ sessions'[events'[n].of].id = events'[n].id)
  BY <1>2, <1>4
<1>7. SessionsOK'
  BY <1>2, <1>3, <1>4, <1>5, <1>6, SessionsStayOK
<1>8. Kept
  BY <1>1, <1>2 DEF Kept
<1> QED BY <1>7, <1>8

\* A session under an id of its own, or one that has no handle.
LEMMA CreateKeepsSessions ==
  ASSUME SessionsOK, NEW i \in Ids, NEW managed \in BOOLEAN,
         NEW cleared \in SUBSET Ids,
         Len(sessions) < MaxSessions,
         sessions' = Append(sessions, NewSession(i, managed)),
         handles' = [Without(cleared) EXCEPT ![i] = Len(sessions) + 1],
         events' = events
  PROVE  /\ SessionsOK' /\ Kept /\ Untold(i)'
         /\ \A j \in Ids \ {i} : handles'[j] = IF j \in cleared THEN 0 ELSE handles[j]
<1> DEFINE r == NewSession(i, managed)
<1>1. r \in Session /\ r.id = i /\ r.told = 0
  BY NewSessionOK
<1>2. sessions' = Append(sessions, r)
  OBVIOUS
<1> HIDE DEF r
<1>3. /\ sessions' \in Seq(Session) /\ Len(sessions') = Len(sessions) + 1
      /\ Len(sessions') <= MaxSessions
      /\ Len(sessions) + 1 \in Known' /\ sessions'[Len(sessions) + 1] = r
      /\ \A q \in Known : q \in Known' /\ sessions'[q] = sessions[q]
  BY <1>1, <1>2, NextSession, AddedSession
<1>4. /\ handles' \in [Ids -> Nat]
      /\ handles'[i] = Len(sessions) + 1
      /\ \A j \in Ids \ {i} : handles'[j] = IF j \in cleared THEN 0 ELSE handles[j]
  <2>1. Len(sessions) + 1 \in Nat /\ \A j \in Ids : handles[j] \in Nat
    BY DEF SessionsOK
  <2> DEFINE h == [j \in Ids |-> IF j \in cleared THEN 0 ELSE handles[j]]
  <2>2. h \in [Ids -> Nat] /\ \A j \in Ids : h[j] = IF j \in cleared THEN 0 ELSE handles[j]
    BY <2>1
  <2>3. handles' = [h EXCEPT ![i] = Len(sessions) + 1]
    BY DEF Without
  <2> HIDE DEF h
  <2> QED BY <2>1, <2>2, <2>3
<1>5. \A j \in Ids : handles'[j] # 0 =>
        handles'[j] = handles[j]
        \/ (handles'[j] \in Known' /\ sessions'[handles'[j]].id = j)
  BY <1>1, <1>3, <1>4
<1>6. SessionsOK'
  <2>1. events' \in Seq(Event)
    BY DEF SessionsOK
  <2>2. \A n \in DOMAIN events' : \E m \in DOMAIN events : events'[n] = events[m]
    OBVIOUS
  <2>3. \A q \in Known : q \in Known' /\ sessions'[q].id = sessions[q].id
    BY <1>3
  <2> QED BY <1>3, <1>4, <1>5, <2>1, <2>2, <2>3, SessionsStayOK
<1>7. Kept /\ Untold(i)'
  BY <1>1, <1>3 DEF Kept, Untold
<1> QED BY <1>4, <1>6, <1>7

LEMMA PlainCreate ==
  ASSUME SessionsOK, NEW i \in Ids, NEW managed \in BOOLEAN, Create(i, managed),
         events' = events
  PROVE  /\ SessionsOK' /\ Kept /\ Untold(i)'
         /\ \A j \in Ids \ {i} : handles'[j] = handles[j]
<1>1. [Without({}) EXCEPT ![i] = Len(sessions) + 1] = [handles EXCEPT ![i] = Len(sessions) + 1]
  BY DEF Without, SessionsOK
<1>2. /\ Len(sessions) < MaxSessions
      /\ sessions' = Append(sessions, NewSession(i, managed))
      /\ handles' = [Without({}) EXCEPT ![i] = Len(sessions) + 1]
  BY <1>1 DEF Create
<1>3. {} \in SUBSET Ids
  OBVIOUS
<1> QED BY <1>2, <1>3, CreateKeepsSessions

\* Handles that are only taken away.
LEMMA ClearedHandles ==
  ASSUME SessionsOK, NEW cleared, handles' = Without(cleared), UNCHANGED <<sessions, events>>
  PROVE  /\ SessionsOK' /\ Kept
         /\ \A j \in Ids : handles'[j] = IF j \in cleared THEN 0 ELSE handles[j]
<1>1. /\ \A j \in Ids : handles'[j] = IF j \in cleared THEN 0 ELSE handles[j]
      /\ handles' \in [Ids -> Nat]
  <2>1. handles' = [j \in Ids |-> IF j \in cleared THEN 0 ELSE handles[j]]
    BY DEF Without
  <2>2. \A j \in Ids : handles[j] \in Nat
    BY DEF SessionsOK
  <2>3. \A j \in Ids : (IF j \in cleared THEN 0 ELSE handles[j]) \in Nat
    BY <2>2
  <2> QED BY <2>1, <2>3
<1>2. /\ sessions' \in Seq(Session) /\ events' \in Seq(Event) /\ Len(sessions') <= MaxSessions
      /\ \A q \in Known : q \in Known' /\ sessions'[q].id = sessions[q].id
      /\ \A n \in DOMAIN events' : \E m \in DOMAIN events : events'[n] = events[m]
      /\ Kept
  BY DEF SessionsOK, TerminalsTypeOK, Known, Kept
<1>3. \A j \in Ids : handles'[j] # 0 => handles'[j] = handles[j]
  BY <1>1
<1> QED BY <1>1, <1>2, <1>3, SessionsStayOK

LEMMA UntoldKept == ASSUME Kept, NEW i, Untold(i) PROVE Untold(i)'
BY DEF Kept, Untold

\* The hooks that are waited for, when sessions are kept.
LEMMA WaitKept ==
  ASSUME RemovalWaits, Kept, Alive,
         Alive' /\ project' = "closing" => pending' # {},
         \A i \in pending' : /\ hooks'[i] = "running"
                             /\ i \in pending \/ Untold(i)'
  PROVE  RemovalWaits'
<1>1. \A i \in pending : Untold(i)
  BY DEF RemovalWaits, Untold
<1>2. \A i \in pending : Untold(i)'
  BY <1>1, UntoldKept
<1> QED BY <1>2 DEF RemovalWaits, Untold

\* What is waited for, unfolded.
LEMMA Waiting ==
  ASSUME RemovalWaits, Alive
  PROVE  /\ project = "closing" => pending # {}
         /\ \A i \in pending : hooks[i] = "running" /\ Untold(i)
BY DEF RemovalWaits, Untold

-----------------------------------------------------------------------------
(* The steps.                                                              *)

LEMMA UnchangedUi ==
  ASSUME HooksInv, SessionsOK', Kept, UNCHANGED uiVars,
         \A i \in Ids : handles'[i] # 0 => handles[i] # 0
  PROVE  HooksInv'
<1>1. UiOK' /\ ProcessHasOwner'
  BY InvParts DEF UiOK, Alive, HookEntries, ProcessHasOwner, uiVars
<1>2. RemovalWaits'
  <2>1. CASE Alive
    BY <2>1, InvParts, WaitKept, Waiting DEF uiVars
  <2>2. CASE ~Alive
    BY <2>2 DEF uiVars, Alive, RemovalWaits
  <2> QED BY <2>1, <2>2
<1> QED BY <1>1, <1>2, InvParts DEF HooksInv, SessionsOK, UiOK, TypeOK, Event

LEMMA OpenPaneKeeps ==
  ASSUME HooksInv, NEW managed \in BOOLEAN, OpenPane(managed)
  PROVE  HooksInv'
<1>0. SessionsOK /\ UiOK /\ ProcessHasOwner /\ RemovalWaits
  BY InvParts
<1>1. PICK i \in Fresh :
        /\ Create(i, managed)
        /\ panes' = panes \cup {i}
        /\ agents' = IF managed THEN agents \cup {i} ELSE agents
        /\ registry' = registry \cup {i}
  BY DEF OpenPane
<1>2. Alive /\ UNCHANGED <<events, project, hooks, pending, dismissed, unlisted>>
      /\ i \in Ids
  BY FreshIds DEF OpenPane
<1>3. SessionsOK' /\ Kept /\ \A j \in Ids \ {i} : handles'[j] = handles[j]
  BY <1>0, <1>1, <1>2, PlainCreate
<1>4. UiOK' /\ ProcessHasOwner'
  BY <1>0, <1>1, <1>2, <1>3 DEF UiOK, ProcessHasOwner, Alive, HookEntries
<1>5. RemovalWaits'
  BY <1>0, <1>2, <1>3, WaitKept, Waiting
<1> QED BY <1>3, <1>4, <1>5 DEF HooksInv, SessionsOK, UiOK, TypeOK, Event

LEMMA ReconnectKeeps ==
  ASSUME HooksInv, NEW i \in Ids, Reconnect(i)
  PROVE  HooksInv'
<1>0. SessionsOK /\ UiOK /\ ProcessHasOwner /\ RemovalWaits
  BY InvParts
<1>1. /\ i \in panes /\ registry' = registry \cup {i}
      /\ UNCHANGED <<events, project, panes, agents, hooks, pending, dismissed, unlisted>>
      /\ IF handles[i] = 0 THEN Create(i, FALSE) ELSE UNCHANGED <<sessions, handles>>
  BY DEF Reconnect
<1>2. SessionsOK' /\ Kept /\ \A j \in Ids \ {i} : handles'[j] = handles[j]
  <2>1. CASE handles[i] = 0
    <3>1. Create(i, FALSE) /\ FALSE \in BOOLEAN /\ events' = events
      BY <1>1, <2>1
    <3> QED BY <1>0, <3>1, PlainCreate
  <2>2. CASE handles[i] # 0
    <3>1. UNCHANGED <<sessions, handles, events>>
      BY <1>1, <2>2
    <3> QED BY <1>0, <3>1 DEF SessionsOK, TerminalsTypeOK, Known, Kept
  <2> QED BY <2>1, <2>2
<1>3. UiOK' /\ ProcessHasOwner'
  BY <1>0, <1>1, <1>2 DEF UiOK, ProcessHasOwner, Alive, HookEntries
<1>4. RemovalWaits'
  <2>1. CASE Alive
    BY <2>1, <1>0, <1>1, <1>2, WaitKept, Waiting
  <2>2. CASE ~Alive
    BY <2>2, <1>1 DEF Alive, RemovalWaits
  <2> QED BY <2>1, <2>2
<1> QED BY <1>2, <1>3, <1>4 DEF HooksInv, SessionsOK, UiOK, TypeOK, Event

LEMMA ClosePaneKeeps ==
  ASSUME HooksInv, NEW i \in Ids, ClosePane(i)
  PROVE  HooksInv'
<1>0. SessionsOK /\ UiOK /\ ProcessHasOwner /\ RemovalWaits
  BY InvParts
<1>1. /\ i \in panes /\ handles' = Without({i})
      /\ panes' = panes \ {i} /\ agents' = agents \ {i} /\ registry' = registry \ {i}
      /\ UNCHANGED <<sessions, events, project, hooks, pending, dismissed, unlisted>>
  BY DEF ClosePane
<1>2. SessionsOK' /\ Kept /\ \A j \in Ids : handles'[j] = IF j \in {i} THEN 0 ELSE handles[j]
  BY <1>0, <1>1, ClearedHandles
<1>3. UiOK' /\ ProcessHasOwner'
  BY <1>0, <1>1, <1>2 DEF UiOK, ProcessHasOwner, Alive, HookEntries
<1>4. RemovalWaits'
  <2>1. CASE Alive
    BY <2>1, <1>0, <1>1, <1>2, WaitKept, Waiting
  <2>2. CASE ~Alive
    BY <2>2, <1>1 DEF Alive, RemovalWaits
  <2> QED BY <2>1, <2>2
<1> QED BY <1>2, <1>3, <1>4 DEF HooksInv, SessionsOK, UiOK, TypeOK, Event

\* A hook gets its entry, or it is one that never had any.
LEMMA RegisterEffect ==
  ASSUME UiOK, ProcessHasOwner, NEW i \in Ids, RegisterHook(i), registry' = registry \cup {i},
         project' \in {"open", "closing", "gone"}, Alive' <=> Alive,
         pending' \subseteq Ids, UNCHANGED <<panes, agents, dismissed>>,
         \A j \in Ids \ {i} : handles'[j] = handles[j]
  PROVE  /\ UiOK' /\ ProcessHasOwner'
         /\ Alive => hooks' = [hooks EXCEPT ![i] = "running"]
         /\ ~Alive => hooks' = hooks
<1>1. CASE Alive
  <2>1. hooks' = [hooks EXCEPT ![i] = "running"] /\ unlisted' = unlisted
    BY <1>1 DEF RegisterHook
  <2> QED BY <1>1, <2>1 DEF UiOK, ProcessHasOwner, HookEntries
<1>2. CASE ~Alive
  <2>1. hooks' = hooks /\ unlisted' = unlisted \cup {i}
    BY <1>2 DEF RegisterHook
  <2> QED BY <1>2, <2>1 DEF UiOK, ProcessHasOwner, HookEntries
<1> QED BY <1>1, <1>2

LEMMA RunHookKeeps == HooksInv /\ RunHook => HooksInv'
<1> SUFFICES ASSUME HooksInv, RunHook PROVE HooksInv'
  OBVIOUS
<1>0. SessionsOK /\ UiOK /\ ProcessHasOwner /\ RemovalWaits
  BY InvParts
<1>1. PICK i \in Fresh : Create(i, FALSE) /\ registry' = registry \cup {i} /\ RegisterHook(i)
  BY DEF RunHook
<1>2. UNCHANGED <<events, project, panes, agents, pending, dismissed>> /\ i \in Ids
  BY FreshIds DEF RunHook
<1>3. SessionsOK' /\ Kept /\ \A j \in Ids \ {i} : handles'[j] = handles[j]
  BY <1>0, <1>1, <1>2, PlainCreate
<1>4. /\ UiOK' /\ ProcessHasOwner'
      /\ Alive => hooks' = [hooks EXCEPT ![i] = "running"]
  <2>1. /\ project' \in {"open", "closing", "gone"} /\ (Alive' <=> Alive)
        /\ pending' \subseteq Ids /\ UNCHANGED <<panes, agents, dismissed>>
    BY <1>0, <1>2 DEF UiOK, Alive
  <2> QED BY <1>0, <1>1, <1>2, <1>3, <2>1, RegisterEffect
<1>5. CASE Alive
  <2>1. \A j \in pending' : hooks'[j] = "running" /\ j \in pending
    BY <1>0, <1>2, <1>4, <1>5, Waiting DEF UiOK
  <2>2. RemovalWaits'
    BY <1>0, <1>2, <1>3, <1>5, <2>1, WaitKept, Waiting
  <2> QED BY <1>3, <1>4, <2>2 DEF HooksInv, SessionsOK, UiOK, TypeOK, Event
<1>6. CASE ~Alive
  <2>1. RemovalWaits'
    BY <1>2, <1>6 DEF RemovalWaits, Alive
  <2> QED BY <1>3, <1>4, <2>1 DEF HooksInv, SessionsOK, UiOK, TypeOK, Event
<1> QED BY <1>5, <1>6

LEMMA RunHookUnlistedKeeps == HooksInv /\ RunHookUnlisted => HooksInv'
<1> SUFFICES ASSUME HooksInv, RunHookUnlisted PROVE HooksInv'
  OBVIOUS
<1>0. SessionsOK /\ UiOK /\ ProcessHasOwner /\ RemovalWaits
  BY InvParts
<1>1. PICK i \in Fresh : /\ Create(i, FALSE) /\ registry' = registry \cup {i}
                         /\ unlisted' = unlisted \cup {i}
  BY DEF RunHookUnlisted
<1>2. UNCHANGED <<events, project, panes, agents, hooks, pending, dismissed>> /\ i \in Ids
  BY FreshIds DEF RunHookUnlisted
<1>3. SessionsOK' /\ Kept /\ \A j \in Ids \ {i} : handles'[j] = handles[j]
  BY <1>0, <1>1, <1>2, PlainCreate
<1>4. UiOK' /\ ProcessHasOwner'
  BY <1>0, <1>1, <1>2, <1>3 DEF UiOK, ProcessHasOwner, Alive, HookEntries
<1>5. RemovalWaits'
  <2>1. CASE Alive
    BY <2>1, <1>0, <1>2, <1>3, WaitKept, Waiting
  <2>2. CASE ~Alive
    BY <2>2, <1>2 DEF Alive, RemovalWaits
  <2> QED BY <2>1, <2>2
<1> QED BY <1>3, <1>4, <1>5 DEF HooksInv, SessionsOK, UiOK, TypeOK, Event

LEMMA AnnouncesEndKeeps ==
  ASSUME HooksInv, NEW i \in Ids, AnnouncesEnd(i)
  PROVE  HooksInv'
<1>0. SessionsOK /\ UiOK /\ ProcessHasOwner /\ RemovalWaits
  BY InvParts
<1>1. /\ hooks[i] = "running" /\ i \notin pending /\ hooks' = [hooks EXCEPT ![i] = "ended"]
      /\ UNCHANGED <<sessions, handles, events, project, panes, agents, pending, registry>>
      /\ UNCHANGED <<dismissed, unlisted>>
  BY DEF AnnouncesEnd, terminalVars
<1>2. SessionsOK' /\ Kept
  BY <1>0, <1>1 DEF SessionsOK, TerminalsTypeOK, Known, Kept
<1>3. Alive
  BY <1>0, <1>1 DEF UiOK, HookEntries
<1>4. UiOK' /\ ProcessHasOwner'
  BY <1>0, <1>1, <1>3 DEF UiOK, ProcessHasOwner, Alive, HookEntries
<1>5. \A j \in pending' : hooks'[j] = "running" /\ j \in pending
  BY <1>0, <1>1, <1>3, Waiting DEF UiOK
<1>6. RemovalWaits'
  BY <1>0, <1>1, <1>2, <1>3, <1>5, WaitKept, Waiting
<1> QED BY <1>2, <1>4, <1>6 DEF HooksInv, SessionsOK, UiOK, TypeOK, Event

\* The hook that is run again is not waited for: it has ended.
LEMMA RerunKeeps ==
  ASSUME HooksInv, NEW i \in Ids, Rerun(i)
  PROVE  HooksInv'
<1>0. SessionsOK /\ UiOK /\ ProcessHasOwner /\ RemovalWaits
  BY InvParts
<1>1. /\ hooks[i] = "ended"
      /\ UNCHANGED <<events, project, panes, agents, pending, dismissed, unlisted>>
  BY DEF Rerun
<1>2. Alive
  BY <1>0, <1>1 DEF UiOK, HookEntries
<1>3. ASSUME NEW j \in Fresh, Len(sessions) < MaxSessions,
             sessions' = Append(sessions, NewSession(j, FALSE)),
             handles' = [Without({i}) EXCEPT ![j] = Len(sessions) + 1],
             hooks' = [hooks EXCEPT ![i] = "none", ![j] = "running"],
             registry' = (registry \ {i}) \cup {j}
      PROVE  HooksInv'
  <2>0. j \in Ids
    BY FreshIds
  <2>1. SessionsOK' /\ Kept
        /\ \A k \in Ids \ {j} : handles'[k] = IF k \in {i} THEN 0 ELSE handles[k]
    <3>1. {i} \in SUBSET Ids /\ FALSE \in BOOLEAN
      OBVIOUS
    <3> QED BY <1>0, <1>1, <1>3, <2>0, <3>1, CreateKeepsSessions
  <2>2. /\ hooks' \in [Ids -> {"none", "running", "ended"}] /\ hooks'[j] = "running"
        /\ \A k \in Ids \ {i, j} : hooks'[k] = hooks[k]
    BY <1>0, <1>3, <2>0 DEF UiOK
  <2>3. UiOK'
    BY <1>0, <1>1, <1>2, <1>3, <2>0, <2>2 DEF UiOK, Alive
  <2>4. ProcessHasOwner'
    BY <1>0, <1>1, <2>1, <2>2 DEF ProcessHasOwner, HookEntries
  <2>5. \A k \in pending' : hooks'[k] = "running" /\ k \in pending
    BY <1>0, <1>1, <1>2, <2>2, Waiting DEF UiOK
  <2>6. RemovalWaits'
    BY <1>0, <1>1, <1>2, <2>1, <2>5, WaitKept, Waiting
  <2> QED BY <2>1, <2>3, <2>4, <2>6 DEF HooksInv, SessionsOK, UiOK, TypeOK, Event
<1>4. CASE handles' = Without({i}) /\ UNCHANGED <<sessions, hooks, registry>>
  <2>1. SessionsOK' /\ Kept
        /\ \A k \in Ids : handles'[k] = IF k \in {i} THEN 0 ELSE handles[k]
    BY <1>0, <1>1, <1>4, ClearedHandles
  <2>2. UiOK' /\ ProcessHasOwner'
    BY <1>0, <1>1, <1>4, <2>1 DEF UiOK, ProcessHasOwner, Alive, HookEntries
  <2>3. RemovalWaits'
    BY <1>0, <1>1, <1>2, <1>4, <2>1, WaitKept, Waiting
  <2> QED BY <2>1, <2>2, <2>3 DEF HooksInv, SessionsOK, UiOK, TypeOK, Event
<1> QED BY <1>3, <1>4 DEF Rerun

\* A removal that waits for the hook is called off.
LEMMA DismissKeeps ==
  ASSUME HooksInv, NEW i \in Ids, Dismiss(i)
  PROVE  HooksInv'
<1>0. SessionsOK /\ UiOK /\ ProcessHasOwner /\ RemovalWaits
  BY InvParts
<1>1. /\ hooks[i] # "none" /\ hooks' = [hooks EXCEPT ![i] = "none"]
      /\ pending' = pending \ {i}
      /\ project' = IF i \in pending THEN "open" ELSE project
      /\ registry' = registry \ {i}
      /\ dismissed' = dismissed \cup {i}
      /\ UNCHANGED <<sessions, handles, events, panes, agents, unlisted>>
  BY DEF Dismiss, terminalVars
<1>2. SessionsOK' /\ Kept
  BY <1>0, <1>1 DEF SessionsOK, TerminalsTypeOK, Known, Kept
<1>3. Alive
  BY <1>0, <1>1 DEF UiOK, HookEntries
<1>4. UiOK' /\ ProcessHasOwner'
  BY <1>0, <1>1, <1>3 DEF UiOK, ProcessHasOwner, Alive, HookEntries
<1>5. \A j \in pending' : hooks'[j] = "running" /\ j \in pending
  BY <1>0, <1>1, <1>3, Waiting DEF UiOK
<1>6. project' = "closing" => pending' # {}
  BY <1>0, <1>1, <1>3, Waiting
<1>7. RemovalWaits'
  BY <1>0, <1>2, <1>3, <1>5, <1>6, WaitKept
<1> QED BY <1>2, <1>4, <1>7 DEF HooksInv, SessionsOK, UiOK, TypeOK, Event

LEMMA CloseWorktreeKeeps == HooksInv /\ CloseWorktree => HooksInv'
<1> SUFFICES ASSUME HooksInv, CloseWorktree PROVE HooksInv'
  OBVIOUS
<1>0. SessionsOK /\ UiOK /\ ProcessHasOwner /\ RemovalWaits
  BY InvParts
<1>1. PICK i \in Fresh : /\ Create(i, FALSE) /\ RegisterHook(i)
                         /\ pending' = pending \cup {i} /\ registry' = registry \cup {i}
  BY DEF CloseWorktree
<1>2. /\ project' = IF Alive THEN "closing" ELSE project
      /\ UNCHANGED <<events, panes, agents, dismissed>> /\ i \in Ids
  BY FreshIds DEF CloseWorktree
<1>3. SessionsOK' /\ Kept /\ Untold(i)' /\ \A j \in Ids \ {i} : handles'[j] = handles[j]
  BY <1>0, <1>1, <1>2, PlainCreate
<1>4. /\ UiOK' /\ ProcessHasOwner'
      /\ Alive => hooks' = [hooks EXCEPT ![i] = "running"]
  <2>1. /\ project' \in {"open", "closing", "gone"} /\ (Alive' <=> Alive)
        /\ pending' \subseteq Ids /\ UNCHANGED <<panes, agents, dismissed>>
    BY <1>0, <1>1, <1>2 DEF UiOK, Alive
  <2> QED BY <1>0, <1>1, <1>2, <1>3, <2>1, RegisterEffect
<1>5. CASE Alive
  <2>1. \A j \in pending' : hooks'[j] = "running" /\ (j \in pending \/ Untold(j)')
    BY <1>0, <1>1, <1>2, <1>3, <1>4, <1>5, Waiting DEF UiOK
  <2>2. pending' # {}
    BY <1>1
  <2>3. RemovalWaits'
    BY <1>0, <1>2, <1>3, <1>5, <2>1, <2>2, WaitKept
  <2> QED BY <1>3, <1>4, <2>3 DEF HooksInv, SessionsOK, UiOK, TypeOK, Event
<1>6. CASE ~Alive
  <2>1. RemovalWaits'
    BY <1>2, <1>6 DEF RemovalWaits, Alive
  <2> QED BY <1>3, <1>4, <2>1 DEF HooksInv, SessionsOK, UiOK, TypeOK, Event
<1> QED BY <1>5, <1>6

\* The sessions by the end of the project: as known, and that of a hook fired then.
LEMMA DeletedSessions ==
  ASSUME SessionsOK, NEW known \in Seq(Session), Len(known) = Len(sessions),
         NEW others, Delete(others, known)
  PROVE  /\ sessions' \in Seq(Session) /\ Len(sessions') <= MaxSessions
         /\ \A q \in Known : q \in Known' /\ sessions'[q] = known[q]
         /\ \A q \in Known' \ Known : ~sessions'[q].shut
         /\ handles' \in [Ids -> Nat]
         /\ \A j \in Ids : handles'[j] # 0 =>
              \/ handles'[j] = handles[j] /\ j \notin panes \cup HookEntries \cup others
              \/ /\ handles'[j] \in Known' \ Known /\ sessions'[handles'[j]].id = j
                 /\ j \in unlisted'
         /\ \/ sessions' = known
            \/ \E i \in Ids : /\ Len(known) < MaxSessions
                             /\ sessions' = Append(known, NewSession(i, FALSE))
<1> DEFINE ended == panes \cup HookEntries \cup others
           h     == [j \in Ids |-> IF j \in ended THEN 0 ELSE handles[j]]
<1>0. Len(sessions) <= MaxSessions /\ DOMAIN known = Known /\ Known = 1..Len(sessions)
  BY DEF SessionsOK, TerminalsTypeOK, Known
<1>1. h \in [Ids -> Nat] /\ Without(ended) = h
      /\ \A j \in Ids : h[j] # 0 => h[j] = handles[j] /\ j \notin ended
  <2>1. \A j \in Ids : handles[j] \in Nat
    BY DEF SessionsOK
  <2> QED BY <2>1 DEF Without
<1>2. CASE sessions' = known /\ handles' = Without(ended)
  <2>1. Known' = Known
    BY <1>0, <1>2 DEF Known
  <2> QED BY <1>0, <1>1, <1>2, <2>1
<1>3. ASSUME NEW i \in Fresh, Len(known) < MaxSessions,
             sessions' = Append(known, NewSession(i, FALSE)),
             handles' = [Without(ended) EXCEPT ![i] = Len(known) + 1],
             i \in unlisted'
      PROVE  /\ sessions' \in Seq(Session) /\ Len(sessions') <= MaxSessions
             /\ \A q \in Known : q \in Known' /\ sessions'[q] = known[q]
             /\ \A q \in Known' \ Known : ~sessions'[q].shut
             /\ handles' \in [Ids -> Nat]
             /\ \A j \in Ids : handles'[j] # 0 =>
                  \/ handles'[j] = handles[j] /\ j \notin ended
                  \/ /\ handles'[j] \in Known' \ Known /\ sessions'[handles'[j]].id = j
                     /\ j \in unlisted'
             /\ i \in Ids
  <2> DEFINE r == NewSession(i, FALSE)
  <2>0. i \in Ids
    BY FreshIds
  <2>1. r \in Session /\ r.id = i /\ ~r.shut
    BY <2>0, NewSessionOK DEF NewSession
  <2>2. sessions' = Append(known, r)
    BY <1>3
  <2> HIDE DEF r
  <2>3. /\ sessions' \in Seq(Session) /\ Len(sessions') <= MaxSessions
        /\ Len(known) + 1 \in Known' /\ sessions'[Len(known) + 1] = r
        /\ \A q \in DOMAIN known : q \in Known' /\ sessions'[q] = known[q]
        /\ \A q \in Known' : q \in DOMAIN known \/ q = Len(known) + 1
    BY <1>3, <2>1, <2>2, AddedSession
  <2>4. Len(known) + 1 \in Nat /\ Len(known) + 1 \notin Known
    BY <1>0
  <2> HIDE DEF h, ended
  <2>5. /\ handles' \in [Ids -> Nat] /\ handles'[i] = Len(known) + 1
        /\ \A j \in Ids \ {i} : handles'[j] = h[j]
    BY <1>1, <1>3, <2>0, <2>4
  <2> QED BY <1>0, <1>1, <1>3, <2>0, <2>1, <2>3, <2>4, <2>5
<1> QED BY <1>2, <1>3 DEF Delete

\* The end of the project leaves no handle but those of hooks that were dismissed
\* or have no entry.
LEMMA DeleteKeeps ==
  ASSUME SessionsOK, UiOK, ProcessHasOwner,
         NEW known \in Seq(Session), Len(known) = Len(sessions),
         \A q \in Known : known[q].id = sessions[q].id,
         NEW others, Delete(others, known),
         events' \in Seq(Event),
         \A n \in DOMAIN events' : \E m \in DOMAIN events : events'[n] = events[m],
         pending' \subseteq pending, dismissed' = dismissed
  PROVE  HooksInv'
<1>1. /\ sessions' \in Seq(Session) /\ Len(sessions') <= MaxSessions
      /\ \A q \in Known : q \in Known' /\ sessions'[q] = known[q]
      /\ handles' \in [Ids -> Nat]
      /\ \A j \in Ids : handles'[j] # 0 =>
           \/ handles'[j] = handles[j] /\ j \notin panes \cup HookEntries \cup others
           \/ /\ handles'[j] \in Known' \ Known /\ sessions'[handles'[j]].id = j
              /\ j \in unlisted'
  BY DeletedSessions
<1>2. SessionsOK'
  BY <1>1, SessionsStayOK
<1>3. /\ project' = "gone" /\ panes' = {} /\ agents' = {}
      /\ hooks' = [i \in Ids |-> "none"] /\ registry' \subseteq Ids
      /\ unlisted \subseteq unlisted' /\ unlisted' \subseteq Ids
  BY FreshIds DEF Delete, UiOK
<1>4. UiOK'
  BY <1>3 DEF UiOK, HookEntries
<1>5. ProcessHasOwner'
  BY <1>1, <1>3 DEF ProcessHasOwner
<1>6. RemovalWaits'
  BY <1>3 DEF RemovalWaits, Alive
<1> QED BY <1>2, <1>4, <1>5, <1>6 DEF HooksInv, SessionsOK, UiOK, TypeOK, Event

LEMMA DeleteProjectKeeps == HooksInv /\ DeleteProject => HooksInv'
<1> SUFFICES ASSUME HooksInv, DeleteProject PROVE HooksInv'
  OBVIOUS
<1>0. SessionsOK /\ UiOK /\ ProcessHasOwner
  BY InvParts
<1>1. Delete({}, sessions) /\ UNCHANGED <<events, pending, dismissed>>
  BY DEF DeleteProject
<1>2. sessions \in Seq(Session) /\ events' \in Seq(Event)
  BY <1>0, <1>1 DEF SessionsOK
<1>3. \A n \in DOMAIN events' : \E m \in DOMAIN events : events'[n] = events[m]
  BY <1>1
<1> QED BY <1>0, <1>1, <1>2, <1>3, DeleteKeeps

-----------------------------------------------------------------------------
(* Exit events.                                                            *)

\* The sessions when an exit was told, and the events that are left.
ToldNow == [sessions EXCEPT ![Head(events).of].told = @ + 1]

LEMMA ToldSessions ==
  ASSUME SessionsOK, events # <<>>
  PROVE  /\ ToldNow \in Seq(Session) /\ Len(ToldNow) = Len(sessions)
         /\ Head(events).id \in Ids /\ Head(events).of \in Known
         /\ sessions[Head(events).of].id = Head(events).id
         /\ \A q \in Known : ToldNow[q].id = sessions[q].id
         /\ \A q \in Known : ToldNow[q].shut => sessions[q].shut
         /\ \A q \in Known \ {Head(events).of} : ToldNow[q] = sessions[q]
<1> DEFINE e == Head(events)
           s == e.of
           r == [sessions[s] EXCEPT !.told = @ + 1]
<1>1. e \in Event /\ e = events[1] /\ 1 \in DOMAIN events
  BY DEF SessionsOK
<1>2. e.id \in Ids /\ s \in Known /\ sessions[s].id = e.id
  BY <1>1 DEF SessionsOK, TerminalsTypeOK, Event
<1>3. sessions[s] \in Session
  BY <1>2 DEF SessionsOK, Known
<1>4. /\ r \in Session /\ r.id = sessions[s].id /\ r.shut = sessions[s].shut
      /\ ToldNow = [sessions EXCEPT ![s] = r]
  BY <1>3 DEF Session, ToldNow
<1> HIDE DEF r, s, e
<1>5. /\ ToldNow \in Seq(Session) /\ Len(ToldNow) = Len(sessions) /\ ToldNow[s] = r
      /\ \A q \in Known \ {s} : ToldNow[q] = sessions[q]
  BY <1>2, <1>4 DEF SessionsOK, Known
<1> QED BY <1>2, <1>4, <1>5 DEF s, e

LEMMA TailEvents ==
  ASSUME SessionsOK, events # <<>>, events' = Tail(events)
  PROVE  /\ events' \in Seq(Event)
         /\ \A n \in DOMAIN events' : \E m \in DOMAIN events : events'[n] = events[m]
<1>1. events \in Seq(Event)
  BY DEF SessionsOK
<1>2. \A n \in DOMAIN Tail(events) : n + 1 \in DOMAIN events /\ Tail(events)[n] = events[n + 1]
  BY <1>1
<1> QED BY <1>1, <1>2

\* The exit of a session is handled: the sessions of other ids are as they were.
LEMMA HandledSession ==
  ASSUME SessionsOK, events # <<>>, NEW cleared, handles' = Without(cleared),
         events' = Tail(events), sessions' = ToldNow
  PROVE  /\ SessionsOK' /\ Head(events).id \in Ids
         /\ \A i \in Ids : i # Head(events).id /\ Untold(i) => Untold(i)'
         /\ \A j \in Ids : handles'[j] = IF j \in cleared THEN 0 ELSE handles[j]
<1>1. /\ sessions' \in Seq(Session) /\ Len(sessions') = Len(sessions)
      /\ Head(events).id \in Ids /\ sessions[Head(events).of].id = Head(events).id
      /\ \A q \in Known : sessions'[q].id = sessions[q].id
      /\ \A q \in Known \ {Head(events).of} : sessions'[q] = sessions[q]
  BY ToldSessions
<1>2. Known' = Known
  BY <1>1 DEF SessionsOK, Known
<1>3. /\ handles' \in [Ids -> Nat]
      /\ \A j \in Ids : handles'[j] = IF j \in cleared THEN 0 ELSE handles[j]
  <2>1. handles' = [j \in Ids |-> IF j \in cleared THEN 0 ELSE handles[j]]
    BY DEF Without
  <2>2. \A j \in Ids : handles[j] \in Nat
    BY DEF SessionsOK
  <2>3. \A j \in Ids : (IF j \in cleared THEN 0 ELSE handles[j]) \in Nat
    BY <2>2
  <2> QED BY <2>1, <2>3
<1>4. SessionsOK'
  <2>1. Len(sessions') <= MaxSessions
    BY <1>1 DEF SessionsOK, TerminalsTypeOK
  <2>2. \A j \in Ids : handles'[j] # 0 => handles'[j] = handles[j]
    BY <1>3
  <2> QED BY <1>1, <1>2, <1>3, <2>1, <2>2, TailEvents, SessionsStayOK
<1>5. \A i \in Ids : i # Head(events).id /\ Untold(i) => Untold(i)'
  BY <1>1, <1>2 DEF Untold
<1> QED BY <1>1, <1>3, <1>4, <1>5

LEMMA PtyEventKeeps == HooksInv /\ PtyEvent => HooksInv'
<1> SUFFICES ASSUME HooksInv, PtyEvent PROVE HooksInv'
  OBVIOUS
<1> DEFINE e == Head(events)
<1>0. SessionsOK /\ UiOK /\ ProcessHasOwner /\ RemovalWaits
  BY InvParts
<1>1. events # <<>> /\ events' = Tail(events) /\ dismissed' = dismissed
  BY DEF PtyEvent
<1>2. CASE hooks[e.id] = "none"
  <2>1. /\ sessions' = ToldNow /\ handles' = Without({e.id}) /\ registry' = registry \ {e.id}
        /\ UNCHANGED <<project, panes, agents, hooks, pending, unlisted>>
    BY <1>2 DEF PtyEvent, ToldNow
  <2>2. /\ SessionsOK' /\ e.id \in Ids
        /\ \A i \in Ids : i # e.id /\ Untold(i) => Untold(i)'
        /\ \A j \in Ids : handles'[j] = IF j \in {e.id} THEN 0 ELSE handles[j]
    BY <1>0, <1>1, <2>1, HandledSession
  <2>3. UiOK' /\ ProcessHasOwner'
    BY <1>0, <1>1, <2>1, <2>2 DEF UiOK, ProcessHasOwner, Alive, HookEntries
  <2>4. RemovalWaits'
    <3>1. CASE Alive
      <4>1. /\ project = "closing" => pending # {}
            /\ \A i \in pending : hooks[i] = "running" /\ Untold(i)
        BY <3>1, <1>0, Waiting
      <4>2. \A i \in pending : hooks'[i] = "running" /\ Untold(i)'
        BY <4>1, <1>0, <1>2, <2>1, <2>2 DEF UiOK
      <4> QED BY <4>1, <4>2, <2>1 DEF RemovalWaits, Untold
    <3>2. CASE ~Alive
      BY <3>2, <2>1 DEF Alive, RemovalWaits
    <3> QED BY <3>1, <3>2
  <2> QED BY <2>2, <2>3, <2>4 DEF HooksInv, SessionsOK, UiOK, TypeOK, Event
<1>3. CASE hooks[e.id] # "none"
  <2>0. HookExit(e.id, e.coded, ToldNow) /\ pending' = pending \ {e.id}
    BY <1>3 DEF PtyEvent, ToldNow
  <2>1. CASE Delete({e.id}, ToldNow)
    <3>1. /\ ToldNow \in Seq(Session) /\ Len(ToldNow) = Len(sessions)
          /\ \A q \in Known : ToldNow[q].id = sessions[q].id
      BY <1>0, <1>1, ToldSessions
    <3>2. /\ events' \in Seq(Event)
          /\ \A n \in DOMAIN events' : \E m \in DOMAIN events : events'[n] = events[m]
      BY <1>0, <1>1, TailEvents
    <3>3. pending' \subseteq pending
      BY <2>0
    <3> HIDE DEF e
    <3> QED BY <1>0, <1>1, <2>1, <3>1, <3>2, <3>3, DeleteKeeps
  <2>2. CASE /\ hooks' = [hooks EXCEPT ![e.id] = "ended"]
             /\ project' = IF e.id \in pending THEN "open" ELSE project
             /\ sessions' = ToldNow
             /\ handles' = Without({e.id})
             /\ UNCHANGED <<panes, agents, registry, unlisted>>
    <3>1. /\ SessionsOK' /\ e.id \in Ids
          /\ \A i \in Ids : i # e.id /\ Untold(i) => Untold(i)'
          /\ \A j \in Ids : handles'[j] = IF j \in {e.id} THEN 0 ELSE handles[j]
      BY <1>0, <1>1, <2>2, HandledSession
    <3> HIDE DEF e
    <3>2. Alive
      BY <1>0, <1>3, <3>1 DEF UiOK, HookEntries
    <3>3. UiOK' /\ ProcessHasOwner'
      BY <1>0, <1>1, <1>3, <2>0, <2>2, <3>1, <3>2 DEF UiOK, ProcessHasOwner, Alive, HookEntries
    <3>4. /\ project = "closing" => pending # {}
          /\ \A i \in pending : hooks[i] = "running" /\ Untold(i)
      BY <1>0, <3>2, Waiting
    <3>5. \A i \in pending' : hooks'[i] = "running" /\ Untold(i)'
      BY <3>1, <3>4, <1>0, <2>0, <2>2 DEF UiOK
    <3>6. project' = "closing" => pending' # {}
      BY <3>4, <2>0, <2>2
    <3>7. RemovalWaits'
      BY <3>5, <3>6 DEF RemovalWaits, Untold
    <3> QED BY <3>1, <3>3, <3>7 DEF HooksInv, SessionsOK, UiOK, TypeOK, Event
  <2> QED BY <2>0, <2>1, <2>2 DEF HookExit
<1> QED BY <1>2, <1>3

-----------------------------------------------------------------------------
LEMMA HooksInit == Init => HooksInv
<1> SUFFICES ASSUME Init PROVE HooksInv
  OBVIOUS
<1>1. sessions = <<>> /\ events = <<>> /\ handles = [i \in Ids |-> 0]
  BY DEF Init, TerminalInit
<1>2. SessionsOK
  BY <1>1, TerminalsAssumption DEF SessionsOK, TerminalsTypeOK, Known
<1>3. UiOK /\ ProcessHasOwner /\ RemovalWaits
  BY <1>1 DEF Init, UiOK, ProcessHasOwner, RemovalWaits, Alive
<1> QED BY <1>2, <1>3, InvParts

LEMMA HooksStep == HooksInv /\ [Next]_vars => HooksInv'
<1> SUFFICES ASSUME HooksInv, [Next]_vars PROVE HooksInv'
  OBVIOUS
<1>1. CASE User
  <2>1. TRUE \in BOOLEAN /\ FALSE \in BOOLEAN
    OBVIOUS
  <2> QED BY <1>1, <2>1, OpenPaneKeeps, RunHookKeeps, RunHookUnlistedKeeps,
             CloseWorktreeKeeps, DeleteProjectKeeps,
             ReconnectKeeps, ClosePaneKeeps, AnnouncesEndKeeps, RerunKeeps, DismissKeeps DEF User
<1>2. CASE PtyEvent
  BY <1>2, PtyEventKeeps
<1>3. ASSUME NEW s \in Known, Threads(s) \/ Processes(s), UNCHANGED uiVars PROVE HooksInv'
  <2>1. SessionsOK
    BY InvParts
  <2>2. SessionsOK' /\ Kept /\ handles' = handles
    BY <1>3, <2>1, ThreadKeepsSessions, ThreadStep
  <2> QED BY <1>3, <2>2, UnchangedUi
<1>4. CASE UNCHANGED vars
  <2>1. SessionsOK' /\ Kept /\ handles' = handles /\ UNCHANGED uiVars
    BY <1>4, InvParts DEF vars, terminalVars, SessionsOK, TerminalsTypeOK, Known, Kept
  <2> QED BY <2>1, UnchangedUi
<1> QED BY <1>1, <1>2, <1>3, <1>4 DEF Next

\* Sessions, handles, panes, hooks and waiting removals agree at every time,
\* whatever order the exits of terminals are reported and handled in.
THEOREM HooksInvariant == Spec => []HooksInv
BY HooksInit, HooksStep, PTL DEF Spec

\* Handles and events name sessions of their id, and only panes are agents.
THEOREM HooksTypeCorrect == Spec => []TypeOK
<1>1. HooksInv => TypeOK
  BY DEF HooksInv
<1> QED BY <1>1, HooksInvariant, PTL

\* No process with a terminal is left without a pane or a hook it belongs to, but
\* for a hook the user dismissed and one that never had an entry.
THEOREM ProcessesAreOwned == Spec => []ProcessHasOwner
<1>1. HooksInv => ProcessHasOwner
  BY DEF HooksInv
<1> QED BY <1>1, HooksInvariant, PTL

-----------------------------------------------------------------------------
(* Every exit is heard of.                                                 *)

\* The inductive invariant behind ExitReportedOnce: who reported an exit has
\* claimed it or noted that it did.
ReportsMatch == \A s \in Known : Matches(sessions[s], Heard(s))

\* A session that does not step is heard of as before.
LEMMA ReportsKept ==
  ASSUME SessionsOK, ReportsMatch, NEW s \in Known, sessions'[s] = sessions[s],
         Cardinality(Reports(s)') = Cardinality(Reports(s))
  PROVE  Matches(sessions'[s], Heard(s)')
BY DEF ReportsMatch, Heard

LEMMA NewSessionMatches ==
  ASSUME NEW i, NEW managed \in BOOLEAN
  PROVE  Matches(NewSession(i, managed), 0)
BY DEF Matches, NewSession

LEMMA UserReportsNothing ==
  ASSUME SessionsOK, User
  PROVE  /\ events' = events
         /\ \/ sessions' = sessions
            \/ \E i \in Ids, managed \in BOOLEAN :
                 Len(sessions) < MaxSessions /\ sessions' = Append(sessions, NewSession(i, managed))
<1>0. TRUE \in BOOLEAN /\ FALSE \in BOOLEAN
  OBVIOUS
<1>1. ASSUME NEW managed \in BOOLEAN, OpenPane(managed)
      PROVE  /\ events' = events
             /\ \E i \in Ids : Len(sessions) < MaxSessions
                               /\ sessions' = Append(sessions, NewSession(i, managed))
  BY <1>1, FreshIds DEF OpenPane, Create
<1>2. CASE RunHook \/ RunHookUnlisted \/ CloseWorktree
  <2>1. events' = events /\ \E i \in Ids : Len(sessions) < MaxSessions
                               /\ sessions' = Append(sessions, NewSession(i, FALSE))
    BY <1>2, FreshIds DEF RunHook, RunHookUnlisted, CloseWorktree, Create
  <2> QED BY <1>0, <2>1
<1>3. CASE DeleteProject
  <2>1. events' = events /\ Delete({}, sessions) /\ sessions \in Seq(Session)
    BY <1>3 DEF DeleteProject, SessionsOK
  <2> QED BY <1>0, <2>1, DeletedSessions
<1>4. ASSUME NEW i \in Ids, Reconnect(i)
      PROVE  /\ events' = events
             /\ \/ sessions' = sessions
                \/ Len(sessions) < MaxSessions /\ sessions' = Append(sessions, NewSession(i, FALSE))
  BY <1>4 DEF Reconnect, Create
<1>5. ASSUME NEW i \in Ids, ClosePane(i) \/ AnnouncesEnd(i) \/ Dismiss(i)
      PROVE  events' = events /\ sessions' = sessions
  BY <1>5 DEF ClosePane, AnnouncesEnd, Dismiss, terminalVars
<1>6. ASSUME NEW i \in Ids, Rerun(i)
      PROVE  /\ events' = events
             /\ \/ sessions' = sessions
                \/ \E j \in Ids : Len(sessions) < MaxSessions
                                  /\ sessions' = Append(sessions, NewSession(j, FALSE))
  BY <1>6, FreshIds DEF Rerun
<1> QED BY <1>0, <1>1, <1>2, <1>3, <1>4, <1>5, <1>6 DEF User

\* Sessions that match what was heard of them, and a new one nobody heard of.
LEMMA AddedReports ==
  ASSUME SessionsOK, NEW known \in Seq(Session), Len(known) = Len(sessions),
         \A n \in DOMAIN events' : events'[n].of \in Known,
         \A q \in Known : Matches(known[q], known[q].told + Cardinality(Reports(q)')),
         \/ sessions' = known
         \/ \E i \in Ids, managed \in BOOLEAN :
              Len(known) < MaxSessions /\ sessions' = Append(known, NewSession(i, managed))
  PROVE  ReportsMatch'
<1>0. DOMAIN known = Known
  BY DEF SessionsOK, Known
<1>1. CASE sessions' = known
  BY <1>0, <1>1 DEF ReportsMatch, Heard, Known
<1>2. ASSUME NEW i \in Ids, NEW managed \in BOOLEAN, Len(known) < MaxSessions,
             sessions' = Append(known, NewSession(i, managed))
      PROVE  ReportsMatch'
  <2> PICK new \in Nat : new = Len(known) + 1
    OBVIOUS
  <2> DEFINE r == NewSession(i, managed)
  <2>1. r \in Session /\ r.told = 0 /\ Matches(r, 0)
    BY NewSessionOK, NewSessionMatches
  <2>2. sessions' = Append(known, r)
    BY <1>2
  <2> HIDE DEF r
  <2>3. /\ sessions'[new] = r
        /\ \A q \in Known : sessions'[q] = known[q]
        /\ \A q \in Known' : q \in Known \/ q = new
    BY <1>0, <1>2, <2>1, <2>2, AddedSession
  <2>4. new \notin Known
    BY NextSession
  <2>5. Heard(new)' = 0
    <3>1. Reports(new)' = {}
      BY <2>4 DEF Reports
    <3>2. Cardinality(Reports(new)') = 0
      BY <3>1, FS_EmptySet
    <3>3. sessions'[new].told = 0
      BY <2>1, <2>3
    <3> QED BY <3>2, <3>3 DEF Heard
  <2>6. \A q \in Known : Matches(sessions'[q], Heard(q)')
    BY <2>3 DEF Heard
  <2> QED BY <2>1, <2>3, <2>5, <2>6 DEF ReportsMatch
<1> QED BY <1>1, <1>2

LEMMA UserReports ==
  ASSUME SessionsOK, ReportsMatch, events' = events,
         \/ sessions' = sessions
         \/ \E i \in Ids, managed \in BOOLEAN :
              Len(sessions) < MaxSessions /\ sessions' = Append(sessions, NewSession(i, managed))
  PROVE  ReportsMatch'
<1>1. \A s : Reports(s)' = Reports(s)
  BY DEF Reports
<1>2. \A n \in DOMAIN events' : events'[n].of \in Known
  BY DEF SessionsOK, TerminalsTypeOK
<1>3. \A q \in Known : Matches(sessions[q], sessions[q].told + Cardinality(Reports(q)'))
  BY <1>1 DEF ReportsMatch, Heard
<1>4. sessions \in Seq(Session)
  BY DEF SessionsOK
<1> QED BY <1>2, <1>3, <1>4, AddedReports

LEMMA ThreadReports ==
  ASSUME SessionsOK, ReportsMatch, NEW s \in Known, Threads(s) \/ Processes(s)
  PROVE  ReportsMatch'
<1> PICK r \in Session, k \in {0, 1} : Moves(s, r, k)
  BY ThreadStep
<1>1. /\ r.id = sessions[s].id /\ r.told = sessions[s].told
      /\ sessions' = [sessions EXCEPT ![s] = r]
      /\ \A n \in Nat : Matches(sessions[s], n) => Matches(r, n + k)
  BY DEF Moves
<1>2. /\ Known' = Known /\ sessions'[s] = r
      /\ \A q \in Known \ {s} : sessions'[q] = sessions[q]
  BY <1>1, ReplacedSession
<1>3. \A q : Cardinality(Reports(q)') = Cardinality(Reports(q)) + (IF q = s THEN k ELSE 0)
  BY ReportedEvents
<1>4. \A q : Cardinality(Reports(q)) \in Nat
  BY ReportsFinite DEF SessionsOK
<1>5. \A q \in Known \ {s} : Matches(sessions'[q], Heard(q)')
  BY <1>2, <1>3, <1>4, ReportsKept
<1>6. Matches(sessions'[s], Heard(s)')
  <2>1. Heard(s) \in Nat /\ sessions[s].told \in Nat
    BY CountHeard
  <2>2. Heard(s)' = Heard(s) + k
    BY <1>1, <1>2, <1>3, <1>4, <2>1 DEF Heard
  <2> QED BY <1>1, <1>2, <2>1, <2>2 DEF ReportsMatch
<1> QED BY <1>2, <1>5, <1>6 DEF ReportsMatch

\* When an exit is handled, a hook may be fired that follows the end of the project.
LEMMA ToldAppended ==
  ASSUME SessionsOK, PtyEvent
  PROVE  \/ sessions' = ToldNow
         \/ \E i \in Ids, managed \in BOOLEAN :
              Len(ToldNow) < MaxSessions /\ sessions' = Append(ToldNow, NewSession(i, managed))
<1> DEFINE e == Head(events)
<1>1. events # <<>>
  BY DEF PtyEvent
<1>2. ToldNow \in Seq(Session) /\ Len(ToldNow) = Len(sessions) /\ FALSE \in BOOLEAN
  BY <1>1, ToldSessions
<1>3. sessions' = ToldNow \/ Delete({e.id}, ToldNow)
  BY DEF PtyEvent, HookExit, ToldNow
<1>4. CASE Delete({e.id}, ToldNow)
  <2>1. \/ sessions' = ToldNow
        \/ \E i \in Ids : /\ Len(ToldNow) < MaxSessions
                         /\ sessions' = Append(ToldNow, NewSession(i, FALSE))
    BY <1>2, <1>4, DeletedSessions
  <2> QED BY <1>2, <2>1
<1> QED BY <1>3, <1>4

\* A report that is handled counts no longer among those on their way.
LEMMA HandledReports ==
  ASSUME SessionsOK, ReportsMatch, PtyEvent
  PROVE  ReportsMatch'
<1>1. events # <<>> /\ events' = Tail(events)
  BY DEF PtyEvent
<1>2. events \in Seq(Event)
  BY DEF SessionsOK
<1>3. /\ ToldNow \in Seq(Session) /\ Len(ToldNow) = Len(sessions)
      /\ Head(events).of \in Known
      /\ \A q \in Known \ {Head(events).of} : ToldNow[q] = sessions[q]
  BY <1>1, ToldSessions
<1> PICK s \in Known : s = Head(events).of
  BY <1>3
<1> DEFINE r == [sessions[s] EXCEPT !.told = @ + 1]
<1>4. sessions[s] \in Session
  BY <1>3 DEF SessionsOK, Known
<1>5. /\ r.told = sessions[s].told + 1 /\ sessions[s].told \in Nat
      /\ \A n : Matches(sessions[s], n) => Matches(r, n)
      /\ ToldNow[s] = r
  <2>1. sessions[s].told \in Nat
    BY <1>3, CountHeard
  <2>2. /\ r.told = sessions[s].told + 1
        /\ r.managed = sessions[s].managed /\ r.reported = sessions[s].reported
        /\ r.reader = sessions[s].reader /\ r.writer = sessions[s].writer
        /\ r.waiter = sessions[s].waiter /\ r.shut = sessions[s].shut
    BY <1>4, <2>1 DEF Session
  <2>3. ToldNow[s] = r
    BY <1>3 DEF ToldNow, SessionsOK, Known
  <2> HIDE DEF r
  <2>4. \A n : Matches(sessions[s], n) => Matches(r, n)
    BY <2>2 DEF Matches
  <2> QED BY <2>1, <2>2, <2>3, <2>4
<1>6. \A q : Cardinality(Reports(q)) = Cardinality(Reports(q)') + (IF s = q THEN 1 ELSE 0)
  BY <1>1, <1>2, HandledCounts
<1>7. \A q : Cardinality(Reports(q)) \in Nat /\ Cardinality(Reports(q)') \in Nat
  <2>1. events' \in Seq(Event)
    BY <1>1, <1>2
  <2> QED BY <1>2, <2>1, ReportsFinite, NextReportsFinite
<1> HIDE DEF r
<1>8. ASSUME NEW q \in Known
      PROVE  Matches(ToldNow[q], ToldNow[q].told + Cardinality(Reports(q)'))
  <2>1. Matches(sessions[q], sessions[q].told + Cardinality(Reports(q)))
    BY DEF ReportsMatch, Heard
  <2>2. CASE q # s
    <3>1. Cardinality(Reports(q)') = Cardinality(Reports(q)) /\ ToldNow[q] = sessions[q]
      BY <1>3, <1>6, <1>7, <2>2
    <3> QED BY <2>1, <3>1
  <2>3. CASE q = s
    <3>1. r.told + Cardinality(Reports(q)') = sessions[q].told + Cardinality(Reports(q))
      BY <1>5, <1>6, <1>7, <2>3
    <3> QED BY <1>5, <2>1, <2>3, <3>1
  <2> QED BY <2>2, <2>3
<1>9. \/ sessions' = ToldNow
      \/ \E i \in Ids, managed \in BOOLEAN :
           Len(ToldNow) < MaxSessions /\ sessions' = Append(ToldNow, NewSession(i, managed))
  BY <1>3, ToldAppended
<1>10. \A n \in DOMAIN events' : events'[n].of \in Known
  BY <1>1, TailEvents DEF SessionsOK, TerminalsTypeOK
<1> QED BY <1>3, <1>8, <1>9, <1>10, AddedReports

LEMMA ReportsInit == Init => ReportsMatch
BY DEF Init, TerminalInit, ReportsMatch, Known

LEMMA ReportsStep == HooksInv /\ ReportsMatch /\ [Next]_vars => ReportsMatch'
<1> SUFFICES ASSUME HooksInv, ReportsMatch, [Next]_vars PROVE ReportsMatch'
  OBVIOUS
<1>0. SessionsOK
  BY InvParts
<1>1. CASE User
  BY <1>0, <1>1, UserReportsNothing, UserReports
<1>2. CASE PtyEvent
  BY <1>0, <1>2, HandledReports
<1>3. ASSUME NEW s \in Known, Threads(s) \/ Processes(s)
      PROVE  ReportsMatch'
  BY <1>0, <1>3, ThreadReports
<1>4. CASE UNCHANGED vars
  BY <1>0, <1>4, UserReports DEF vars, terminalVars
<1> QED BY <1>1, <1>2, <1>3, <1>4 DEF Next

\* The UI thread hears of an exit once for all the threads that watch for it, and
\* of an agent's for certain, however reader, waiter, writer and a kill interleave.
THEOREM ExitIsReportedOnce == Spec => []ExitReportedOnce
<1>1. HooksInv /\ ReportsMatch => ExitReportedOnce
  <2> SUFFICES ASSUME HooksInv, ReportsMatch, NEW s \in Known
               PROVE  /\ Heard(s) <= 1 + OfWriter(s)
                      /\ sessions[s].managed /\ sessions[s].waiter = "done"
                           => Heard(s) = 1 + OfWriter(s)
                      /\ ~sessions[s].managed /\ sessions[s].reader = "done"
                           => sessions[s].shut \/ Heard(s) > 0
    BY DEF ExitReportedOnce
  <2>1. Heard(s) \in Nat
    BY CountHeard, InvParts
  <2>2. Matches(sessions[s], Heard(s))
    BY DEF ReportsMatch
  <2> QED BY <2>1, <2>2 DEF Matches, OfWriter
<1> QED BY <1>1, HooksInvariant, ReportsInit, ReportsStep, PTL DEF Spec

-----------------------------------------------------------------------------
(* What a removal waits for comes.                                         *)

LEMMA HandleNames ==
  ASSUME SessionsOK
  PROVE  /\ 0 \notin Known
         /\ \A i \in Ids : handles[i] \in Known => sessions[handles[i]].id = i
<1>1. 0 \notin Known
  BY DEF SessionsOK, Known
<1> QED BY <1>1 DEF SessionsOK, TerminalsTypeOK

Used(i) == \E s \in Known : sessions[s].id = i

\* The terminal of hook i is open, a shell's, and was not told to have ended.
Awaited(i) == handles[i] \in Known /\ sessions[handles[i]].told = 0
                                   /\ ~sessions[handles[i]].managed

\* Beside HooksInv and ReportsMatch, what CloseWaitsForHook rests on: only what
\* has lost its handle is shut down, and closing a pane takes no hook's handle.
HandlesInv ==
  /\ \A s \in Known : sessions[s].shut => handles[sessions[s].id] # s
  /\ \A i \in panes \cup HookEntries : Used(i)
  /\ panes \cap HookEntries = {}
  /\ Alive => \A i \in pending : Awaited(i)

\* No session that is started is shut down, and none that was is changed.
Started ==
  /\ \A q \in Known : q \in Known' /\ sessions'[q] = sessions[q]
  /\ \A q \in Known' \ Known : ~sessions'[q].shut

LEMMA UserStarts == ASSUME SessionsOK, User PROVE Started
<1>1. CASE sessions' = sessions
  BY <1>1 DEF Started, Known
<1>2. ASSUME NEW i \in Ids, NEW managed \in BOOLEAN, Len(sessions) < MaxSessions,
             sessions' = Append(sessions, NewSession(i, managed))
      PROVE  Started
  <2> DEFINE r == NewSession(i, managed)
  <2>1. r \in Session /\ ~r.shut
    BY NewSessionOK DEF NewSession
  <2>2. sessions' = Append(sessions, r)
    BY <1>2
  <2> HIDE DEF r
  <2> QED BY <1>2, <2>1, <2>2, NextSession, AddedSession DEF Started
<1> QED BY <1>1, <1>2, UserReportsNothing

\* The steps of the user: handles go or are new, and what is opened is no other's.
LEMMA HandlesKept ==
  ASSUME SessionsOK, SessionsOK', HandlesInv, Started,
         \A i \in Ids : handles'[i] = handles[i] \/ handles'[i] \notin Known,
         \A i \in panes' \cup HookEntries' : i \in panes \cup HookEntries \/ Used(i)',
         panes' \cap HookEntries' = {},
         Alive' => /\ Alive
                   /\ \A i \in pending' : Awaited(i)' \/ (i \in pending /\ handles'[i] = handles[i])
  PROVE  HandlesInv'
<1>1. ASSUME NEW s \in Known', sessions'[s].shut PROVE handles'[sessions'[s].id] # s
  <2>1. s \in Known /\ sessions'[s] = sessions[s]
    BY <1>1 DEF Started
  <2>2. handles[sessions[s].id] # s /\ sessions[s].id \in Ids
    BY <1>1, <2>1 DEF HandlesInv, SessionsOK, TerminalsTypeOK
  <2> QED BY <2>1, <2>2
<1>2. \A i : Used(i) => Used(i)'
  BY DEF Used, Started
<1>3. \A i \in panes' \cup HookEntries' : Used(i)'
  BY <1>2 DEF HandlesInv
<1>4. ASSUME Alive', NEW i \in pending' PROVE Awaited(i)'
  <2>1. CASE i \in pending /\ handles'[i] = handles[i]
    <3>1. Awaited(i)
      BY <1>4, <2>1 DEF HandlesInv
    <3> QED BY <2>1, <3>1 DEF Awaited, Started
  <2> QED BY <1>4, <2>1
<1> QED BY <1>1, <1>3, <1>4 DEF HandlesInv

\* What a created session brings.
LEMMA CreateStarts ==
  ASSUME SessionsOK, NEW i \in Ids, NEW managed \in BOOLEAN, Create(i, managed)
  PROVE  /\ Used(i)' /\ (~managed => Awaited(i)')
         /\ handles'[i] \notin Known
         /\ \A j \in Ids \ {i} : handles'[j] = handles[j]
<1> DEFINE r == NewSession(i, managed)
<1>1. r \in Session /\ r.id = i /\ r.told = 0 /\ r.managed = managed
  BY NewSessionOK DEF NewSession
<1>2. /\ sessions' = Append(sessions, r) /\ Len(sessions) < MaxSessions
      /\ handles' = [handles EXCEPT ![i] = Len(sessions) + 1]
  BY DEF Create
<1> HIDE DEF r
<1>3. Len(sessions) + 1 \in Known' /\ sessions'[Len(sessions) + 1] = r
  BY <1>1, <1>2, NextSession, AddedSession
<1>4. handles'[i] = Len(sessions) + 1 /\ \A j \in Ids \ {i} : handles'[j] = handles[j]
  BY <1>2 DEF SessionsOK
<1>5. Len(sessions) + 1 \notin Known
  BY DEF SessionsOK, Known
<1> QED BY <1>1, <1>3, <1>4, <1>5 DEF Used, Awaited

LEMMA FreshUnused == ASSUME NEW i \in Fresh PROVE ~Used(i)
BY FreshIds DEF Used

LEMMA UserKeepsHandles ==
  ASSUME HooksInv, HooksInv', HandlesInv, User
  PROVE  HandlesInv'
<1>0. SessionsOK /\ SessionsOK' /\ UiOK /\ Started /\ RemovalWaits
  BY InvParts, UserStarts DEF HooksInv, SessionsOK, TypeOK, Event
<1>n. 0 \notin Known
  BY <1>0, HandleNames
<1>w. Alive => \A i \in pending : hooks[i] = "running" /\ i \in HookEntries /\ i \notin panes
  BY <1>0 DEF RemovalWaits, HookEntries, HandlesInv, UiOK
<1>1. ASSUME NEW managed \in BOOLEAN, OpenPane(managed) PROVE HandlesInv'
  <2>1. PICK i \in Fresh : Create(i, managed) /\ panes' = panes \cup {i}
    BY <1>1 DEF OpenPane
  <2>2. Alive /\ UNCHANGED <<events, project, hooks, pending, dismissed>> /\ i \in Ids
    BY <1>1, FreshIds DEF OpenPane
  <2>3. /\ Used(i)' /\ handles'[i] \notin Known
        /\ \A j \in Ids \ {i} : handles'[j] = handles[j]
    BY <1>0, <2>1, <2>2, CreateStarts
  <2>4. i \notin HookEntries
    BY FreshUnused DEF HandlesInv
  <2>5. HookEntries' = HookEntries
    BY <2>2 DEF HookEntries
  <2> QED BY <1>0, <1>w, <2>1, <2>2, <2>3, <2>4, <2>5, HandlesKept DEF HandlesInv, UiOK
<1>2. ASSUME RunHook \/ RunHookUnlisted \/ CloseWorktree PROVE HandlesInv'
  <2>1. PICK i \in Fresh : /\ Create(i, FALSE)
                           /\ \/ hooks' = hooks /\ (pending' = pending \/ ~Alive)
                              \/ /\ hooks' = [hooks EXCEPT ![i] = "running"]
                                 /\ pending' \subseteq pending \cup {i}
    BY <1>2 DEF RunHook, RunHookUnlisted, CloseWorktree, RegisterHook
  <2>2. (Alive' <=> Alive) /\ panes' = panes /\ i \in Ids
    BY <1>2, FreshIds DEF RunHook, RunHookUnlisted, CloseWorktree, Alive
  <2>3. /\ Used(i)' /\ Awaited(i)' /\ handles'[i] \notin Known
        /\ \A j \in Ids \ {i} : handles'[j] = handles[j]
    <3>1. FALSE \in BOOLEAN
      OBVIOUS
    <3> QED BY <1>0, <2>1, <2>2, <3>1, CreateStarts
  <2>4. i \notin panes
    BY FreshUnused DEF HandlesInv
  <2>5. HookEntries' \subseteq HookEntries \cup {i}
    BY <1>0, <2>1, <2>2 DEF HookEntries, UiOK
  <2>6. Alive' => Alive /\ pending' \subseteq pending \cup {i}
    BY <2>1, <2>2
  <2> QED BY <1>0, <2>2, <2>3, <2>4, <2>5, <2>6, HandlesKept DEF HandlesInv, UiOK
<1>3. ASSUME DeleteProject PROVE HandlesInv'
  <2>1. Delete({}, sessions) /\ sessions \in Seq(Session)
    BY <1>0, <1>3 DEF DeleteProject, SessionsOK
  <2>2. project' = "gone" /\ panes' = {} /\ hooks' = [i \in Ids |-> "none"]
    BY <2>1 DEF Delete
  <2>3. ~Alive' /\ HookEntries' = {}
    BY <2>2 DEF Alive, HookEntries
  <2>4. \A i \in Ids : handles'[i] # 0 => handles'[i] = handles[i] \/ handles'[i] \notin Known
    BY <1>0, <2>1, DeletedSessions
  <2> QED BY <1>0, <1>n, <2>2, <2>3, <2>4, HandlesKept
<1>4. ASSUME NEW i \in Ids, Reconnect(i) PROVE HandlesInv'
  <2>1. /\ i \in panes /\ UNCHANGED <<project, panes, hooks, pending>>
        /\ IF handles[i] = 0 THEN Create(i, FALSE) ELSE UNCHANGED <<sessions, handles>>
    BY <1>4 DEF Reconnect
  <2>2. /\ handles'[i] = handles[i] \/ handles'[i] \notin Known
        /\ \A j \in Ids \ {i} : handles'[j] = handles[j]
    <3>1. FALSE \in BOOLEAN
      OBVIOUS
    <3> QED BY <1>0, <2>1, <3>1, CreateStarts
  <2>3. HookEntries' = HookEntries /\ (Alive' <=> Alive)
    BY <2>1 DEF HookEntries, Alive
  <2> QED BY <1>0, <1>w, <2>1, <2>2, <2>3, HandlesKept DEF HandlesInv, UiOK
<1>5. ASSUME NEW i \in Ids, ClosePane(i) PROVE HandlesInv'
  <2>1. /\ i \in panes /\ panes' = panes \ {i} /\ handles' = Without({i})
        /\ UNCHANGED <<project, hooks, pending>>
    BY <1>5 DEF ClosePane
  <2>2. /\ \A j \in Ids \ {i} : handles'[j] = handles[j]
        /\ handles'[i] = 0
    BY <2>1 DEF Without
  <2>3. HookEntries' = HookEntries /\ (Alive' <=> Alive)
    BY <2>1 DEF HookEntries, Alive
  <2> QED BY <1>0, <1>n, <1>w, <2>1, <2>2, <2>3, HandlesKept DEF HandlesInv, UiOK
<1>6. ASSUME NEW i \in Ids, AnnouncesEnd(i) \/ Dismiss(i) PROVE HandlesInv'
  <2>1. /\ hooks[i] # "none" /\ UNCHANGED <<handles, panes>> /\ pending' \subseteq pending
        /\ hooks' = [hooks EXCEPT ![i] = "ended"] \/ hooks' = [hooks EXCEPT ![i] = "none"]
    BY <1>6 DEF AnnouncesEnd, Dismiss, terminalVars
  <2>2. HookEntries' \subseteq HookEntries /\ Alive
    BY <1>0, <2>1 DEF HookEntries, UiOK
  <2> QED BY <1>0, <2>1, <2>2, HandlesKept DEF HandlesInv
<1>7. ASSUME NEW i \in Ids, Rerun(i) PROVE HandlesInv'
  <2>0. hooks[i] = "ended" /\ UNCHANGED <<project, panes, pending>> /\ (Alive' <=> Alive)
    BY <1>7 DEF Rerun, Alive
  <2>1. ASSUME NEW j \in Fresh, Len(sessions) < MaxSessions,
               sessions' = Append(sessions, NewSession(j, FALSE)),
               handles' = [Without({i}) EXCEPT ![j] = Len(sessions) + 1],
               hooks' = [hooks EXCEPT ![i] = "none", ![j] = "running"]
        PROVE  HandlesInv'
    <3>0. j \in Ids
      BY FreshIds
    <3>1. /\ handles'[j] = Len(sessions) + 1 /\ (i # j => handles'[i] = 0)
          /\ \A k \in Ids \ {i, j} : handles'[k] = handles[k]
      BY <2>1, <3>0 DEF Without
    <3>2. Len(sessions) + 1 \notin Known
      BY <1>0, NextSession
    <3>3. Used(j)'
      <4> DEFINE r == NewSession(j, FALSE)
      <4>1. r \in Session /\ r.id = j
        BY <3>0, NewSessionOK
      <4>2. sessions' = Append(sessions, r)
        BY <2>1
      <4> HIDE DEF r
      <4> QED BY <1>0, <2>1, <4>1, <4>2, NextSession, AddedSession DEF Used
    <3>4. j \notin panes \cup HookEntries
      BY FreshUnused DEF HandlesInv
    <3>5. HookEntries' \subseteq HookEntries \cup {j}
      BY <1>0, <2>0, <2>1, <3>0 DEF HookEntries, UiOK
    <3>6. Alive => i \notin pending /\ j \notin pending
      BY <1>w, <2>0, <3>4
    <3>7. Alive' => Alive /\ \A k \in pending' : k \in pending /\ handles'[k] = handles[k]
      BY <1>0, <2>0, <3>1, <3>6 DEF UiOK
    <3>8. panes' \cap HookEntries' = {}
      BY <2>0, <3>4, <3>5 DEF HandlesInv
    <3>9. \A k \in panes' \cup HookEntries' : k \in panes \cup HookEntries \/ Used(k)'
      BY <2>0, <3>3, <3>5
    <3>10. \A k \in Ids : handles'[k] = handles[k] \/ handles'[k] \notin Known
      BY <1>n, <3>1, <3>2
    <3> QED BY <1>0, <3>7, <3>8, <3>9, <3>10, HandlesKept
  <2>2. CASE handles' = Without({i}) /\ UNCHANGED <<sessions, hooks, registry>>
    <3>1. \A k \in Ids : handles'[k] = IF k = i THEN 0 ELSE handles[k]
      BY <2>2 DEF Without
    <3>2. HookEntries' = HookEntries
      BY <2>2 DEF HookEntries
    <3>3. Alive => i \notin pending
      BY <1>w, <2>0
    <3> QED BY <1>0, <1>n, <2>0, <3>1, <3>2, <3>3, HandlesKept DEF HandlesInv, UiOK
  <2> QED BY <1>7, <2>1, <2>2 DEF Rerun
<1> QED
  <2>1. TRUE \in BOOLEAN /\ FALSE \in BOOLEAN
    OBVIOUS
  <2> QED BY <2>1, <1>1, <1>2, <1>3, <1>4, <1>5, <1>6, <1>7 DEF User

\* A session is shut down only when its handle is gone.
LEMMA ThreadKeepsHandles ==
  ASSUME SessionsOK, HandlesInv, NEW s \in Known, Threads(s) \/ Processes(s), UNCHANGED uiVars
  PROVE  HandlesInv'
<1> PICK r \in Session, k \in {0, 1} : Moves(s, r, k)
  BY ThreadStep
<1>1. /\ r.id = sessions[s].id /\ r.told = sessions[s].told /\ r.managed = sessions[s].managed
      /\ r.shut => sessions[s].shut \/ handles[sessions[s].id] # s
      /\ sessions' = [sessions EXCEPT ![s] = r] /\ handles' = handles
  BY ThreadStep DEF Moves
<1>2. /\ Known' = Known /\ sessions'[s] = r
      /\ \A q \in Known \ {s} : sessions'[q] = sessions[q]
  BY <1>1, ReplacedSession
<1>3. \A q \in Known' : sessions'[q].shut => handles'[sessions'[q].id] # q
  BY <1>1, <1>2 DEF HandlesInv
<1>4. \A i : (Used(i) => Used(i)') /\ (Awaited(i) => Awaited(i)')
  BY <1>1, <1>2 DEF Used, Awaited
<1>5. UNCHANGED <<panes, hooks, project, pending>>
  BY DEF uiVars
<1> QED BY <1>3, <1>4, <1>5 DEF HandlesInv, HookEntries, Alive

\* An exit that is handled takes the handle of its terminal only, which is no
\* longer waited for then.
LEMMA HandledKeepsHandles ==
  ASSUME HooksInv, HandlesInv, PtyEvent
  PROVE  HandlesInv'
<1> DEFINE e == Head(events)
<1>0. SessionsOK /\ UiOK /\ RemovalWaits
  BY InvParts
<1>1. /\ ToldNow \in Seq(Session) /\ Len(ToldNow) = Len(sessions) /\ DOMAIN ToldNow = Known
      /\ e.id \in Ids /\ e.of \in Known /\ sessions[e.of].id = e.id
      /\ \A q \in Known : ToldNow[q].id = sessions[q].id
      /\ \A q \in Known : ToldNow[q].shut => sessions[q].shut
      /\ \A q \in Known \ {e.of} : ToldNow[q] = sessions[q]
  <2>1. events # <<>>
    BY DEF PtyEvent
  <2> QED BY <1>0, <2>1, ToldSessions DEF SessionsOK, Known
<1> HIDE DEF e
<1>2. \A q \in Known : q # 0 /\ sessions[q].id \in Ids
  BY <1>0, NextSession DEF SessionsOK, TerminalsTypeOK
<1>3. ASSUME sessions' = ToldNow, handles' = Without({e.id}), panes' = panes,
             HookEntries' = HookEntries,
             Alive' => /\ Alive
                       /\ \A j \in pending' : j \in pending \ {e.id}
      PROVE  HandlesInv'
  <2>1. Known' = Known /\ \A j \in Ids : handles'[j] = IF j = e.id THEN 0 ELSE handles[j]
    BY <1>1, <1>3 DEF Known, Without
  <2>2. ASSUME NEW q \in Known', sessions'[q].shut PROVE handles'[sessions'[q].id] # q
    <3>1. q \in Known /\ sessions[q].shut /\ sessions'[q].id = sessions[q].id
      BY <1>1, <1>3, <2>1, <2>2
    <3>2. handles[sessions[q].id] # q /\ sessions[q].id \in Ids /\ q # 0
      BY <1>2, <3>1 DEF HandlesInv
    <3> QED BY <2>1, <3>1, <3>2
  <2>3. ASSUME Alive', NEW j \in pending' PROVE Awaited(j)'
    <3>1. Awaited(j) /\ j # e.id /\ handles'[j] = handles[j] /\ j \in Ids
      BY <1>0, <1>3, <2>1, <2>3 DEF HandlesInv, UiOK
    <3>2. handles[j] # e.of
      BY <1>0, <1>1, <3>1, HandleNames DEF Awaited
    <3> QED BY <1>1, <1>3, <2>1, <3>1, <3>2 DEF Awaited
  <2>4. \A j : Used(j) => Used(j)'
    BY <1>1, <1>3, <2>1 DEF Used
  <2>5. (\A j \in panes' \cup HookEntries' : Used(j)') /\ panes' \cap HookEntries' = {}
    BY <1>3, <2>4 DEF HandlesInv
  <2> QED BY <2>2, <2>3, <2>5 DEF HandlesInv
<1>4. CASE hooks[e.id] = "none"
  <2>1. /\ sessions' = ToldNow /\ handles' = Without({e.id})
        /\ UNCHANGED <<project, panes, hooks, pending>>
    BY <1>4 DEF PtyEvent, ToldNow, e
  <2>2. Alive => e.id \notin pending
    BY <1>0, <1>4 DEF RemovalWaits
  <2> QED BY <1>3, <2>1, <2>2 DEF HookEntries, Alive
<1>5. CASE hooks[e.id] # "none"
  <2>0. HookExit(e.id, e.coded, ToldNow) /\ pending' = pending \ {e.id}
    BY <1>5 DEF PtyEvent, ToldNow, e
  <2>1. CASE Delete({e.id}, ToldNow)
    <3>1. project' = "gone" /\ panes' = {} /\ hooks' = [j \in Ids |-> "none"]
      BY <2>1 DEF Delete
    <3>2. ~Alive' /\ HookEntries' = {}
      BY <3>1 DEF Alive, HookEntries
    <3>3. /\ \A q \in Known : q \in Known' /\ sessions'[q] = ToldNow[q]
          /\ \A q \in Known' \ Known : ~sessions'[q].shut
          /\ \A j \in Ids : handles'[j] # 0 =>
               handles'[j] = handles[j] \/ handles'[j] \in Known' \ Known
      BY <1>0, <1>1, <2>1, DeletedSessions
    <3>4. ASSUME NEW q \in Known', sessions'[q].shut PROVE handles'[sessions'[q].id] # q
      <4>1. q \in Known /\ sessions[q].shut /\ sessions'[q].id = sessions[q].id
        BY <1>1, <3>3, <3>4
      <4>2. handles[sessions[q].id] # q /\ sessions[q].id \in Ids /\ q # 0
        BY <1>2, <4>1 DEF HandlesInv
      <4> QED BY <3>3, <4>1, <4>2
    <3> QED BY <3>1, <3>2, <3>4 DEF HandlesInv
  <2>2. CASE /\ hooks' = [hooks EXCEPT ![e.id] = "ended"]
             /\ sessions' = ToldNow /\ handles' = Without({e.id})
             /\ UNCHANGED panes
    <3>1. HookEntries' = HookEntries /\ Alive
      BY <1>0, <1>5, <1>1, <2>2 DEF HookEntries, UiOK
    <3> QED BY <1>3, <2>0, <2>2, <3>1
  <2> QED BY <2>0, <2>1, <2>2 DEF HookExit
<1> QED BY <1>4, <1>5

LEMMA HandlesInit == Init => HandlesInv
BY DEF Init, TerminalInit, HandlesInv, Known, HookEntries

LEMMA HandlesStep == HooksInv /\ HooksInv' /\ HandlesInv /\ [Next]_vars => HandlesInv'
<1> SUFFICES ASSUME HooksInv, HooksInv', HandlesInv, [Next]_vars PROVE HandlesInv'
  OBVIOUS
<1>1. CASE User
  BY <1>1, UserKeepsHandles
<1>2. CASE PtyEvent
  BY <1>2, HandledKeepsHandles
<1>3. ASSUME NEW s \in Known, Threads(s) \/ Processes(s), UNCHANGED uiVars
      PROVE  HandlesInv'
  BY <1>3, InvParts, ThreadKeepsHandles
<1>4. CASE UNCHANGED vars
  BY <1>4 DEF vars, terminalVars, uiVars, HandlesInv, Known, Used, Awaited, Alive, HookEntries
<1> QED BY <1>1, <1>2, <1>3, <1>4 DEF Next

\* A removal of the project never waits in vain: the hook it waits for runs in a
\* terminal nobody killed, whose reader is there or has reported its end.
THEOREM RemovalAwaitsHook == Spec => []CloseWaitsForHook
<1>1. HooksInv /\ ReportsMatch /\ HandlesInv => CloseWaitsForHook
  <2> SUFFICES ASSUME HooksInv, ReportsMatch, HandlesInv, Alive PROVE CloseWaitsForHook
    BY DEF CloseWaitsForHook
  <2>0. SessionsOK /\ UiOK /\ RemovalWaits
    BY InvParts
  <2>1. ASSUME NEW i \in pending PROVE ToBeHeard(handles[i])
    <3> PICK s \in Known : s = handles[i] /\ sessions[s].told = 0 /\ ~sessions[s].managed
      BY DEF HandlesInv, Awaited
    <3>1. sessions[s].id = i
      BY <2>0, HandleNames DEF UiOK
    <3>2. ~sessions[s].shut
      BY <3>1 DEF HandlesInv
    <3>3. Matches(sessions[s], Heard(s)) /\ Heard(s) = Cardinality(Reports(s))
      <4>1. Cardinality(Reports(s)) \in Nat
        <5>1. events \in Seq(Event)
          BY <2>0 DEF SessionsOK
        <5> QED BY <5>1, ReportsFinite
      <4> QED BY <4>1 DEF ReportsMatch, Heard
    <3>4. sessions[s].reader = "done" => Reports(s) # {}
      <4>1. sessions[s].reader = "done" => Heard(s) > 0
        BY <3>2, <3>3 DEF Matches
      <4>2. ~(0 > 0) /\ Cardinality({}) = 0
        BY FS_EmptySet
      <4> QED BY <3>3, <4>1, <4>2
    <3>5. sessions[s].reader \in {"reading", "done"}
      BY <3>3 DEF Matches
    <3> QED BY <3>2, <3>4, <3>5 DEF ToBeHeard
  <2>2. \A i \in pending : handles[i] \in Known
    BY DEF HandlesInv, Awaited
  <2> QED BY <2>0, <2>1, <2>2 DEF CloseWaitsForHook, RemovalWaits
<1>2. HooksInv /\ HandlesInv /\ [Next]_vars => HandlesInv'
  BY HooksStep, HandlesStep
<1> QED BY <1>1, <1>2, HooksInvariant, ReportsInit, ReportsStep, HandlesInit, PTL DEF Spec

=============================================================================
