---------------------------- MODULE ServicesProofs ----------------------------
(***************************************************************************)
(* Theorems about Services, for any number of services, terminals and      *)
(* restarts under way at the same time.                                    *)
(***************************************************************************)
EXTENDS Services, TLAPS

LEMMA NoneIsNoTerminal == None \notin Terminals /\ None \notin Names
BY ServicesAssumption DEF Terminals

-----------------------------------------------------------------------------
(* What the shared steps do.                                               *)

LEMMA CreateEffect ==
  ASSUME TypeOK, NEW D \in SUBSET Names, NEW old, NEW f \in Placements(D), Create(f, old)
  PROVE  /\ f \in [D -> Fresh]
         /\ \A s \in D : proc'[f[s]] = "up" /\ owner'[f[s]] = s /\ launched'[f[s]] = s
         /\ \A p \in Terminals : (\A s \in D : f[s] # p) =>
              /\ proc'[p] = proc[p] /\ launched'[p] = launched[p]
              /\ owner'[p] = IF p \in old THEN None ELSE owner[p]
         /\ proc' \in [Terminals -> {"unused", "up", "ended"}]
         /\ owner' \in [Terminals -> Names \cup {None}]
         /\ launched' \in [Terminals -> Names \cup {None}]
<1>1. f \in [D -> Fresh] /\ \A s, q \in D : s # q => f[s] # f[q]
  BY DEF Placements
<1>2. DOMAIN f = D /\ Fresh \subseteq Terminals
  BY <1>1 DEF Fresh
<1>3. \A p \in {f[s] : s \in D} : LET svc == CHOOSE s \in D : f[s] = p
                                IN  svc \in D /\ f[svc] = p
  OBVIOUS
<1>4. \A s \in D : (CHOOSE q \in D : f[q] = f[s]) = s
  BY <1>1, <1>3
<1>5. \A s \in D : proc'[f[s]] = "up" /\ owner'[f[s]] = s /\ launched'[f[s]] = s
  BY <1>1, <1>2, <1>4 DEF Create
<1>6. \A p \in Terminals : (\A s \in D : f[s] # p) =>
        /\ proc'[p] = proc[p] /\ launched'[p] = launched[p]
        /\ owner'[p] = IF p \in old THEN None ELSE owner[p]
  BY <1>2 DEF Create
<1>7. /\ proc' \in [Terminals -> {"unused", "up", "ended"}]
      /\ owner' \in [Terminals -> Names \cup {None}]
      /\ launched' \in [Terminals -> Names \cup {None}]
  BY <1>2, <1>3 DEF Create, TypeOK
<1> QED BY <1>1, <1>5, <1>6, <1>7


\* A start, whoever asks for it and whatever becomes of its task or its timer.
LEMMA StartKeeps ==
  ASSUME ServicesInv, NEW S, Start(S),
         UNCHANGED <<loaded, count, killed, exits, crossed>>,
         timers' \in [Names -> Nat], tasks' \subseteq tasks,
         \A k \in tasks : k.step = "kill" => k \in tasks'
  PROVE  ServicesInv'
<1> USE NoneIsNoTerminal
<1> DEFINE startable == {s \in S \cap Known : status[s] # "running"}
<1>1. PICK up \in SUBSET startable : \E f \in Placements(up) :
        /\ status' = [s \in Names |-> IF s \in up THEN "running"
                                      ELSE IF s \in startable THEN "crashed" ELSE status[s]]
        /\ termOf' = [s \in Names |-> IF s \in up THEN f[s]
                                      ELSE IF s \in startable THEN None ELSE termOf[s]]
        /\ Create(f, {termOf[s] : s \in startable})
  BY DEF Start
<1>2. PICK f \in Placements(up) :
        /\ status' = [s \in Names |-> IF s \in up THEN "running"
                                      ELSE IF s \in startable THEN "crashed" ELSE status[s]]
        /\ termOf' = [s \in Names |-> IF s \in up THEN f[s]
                                      ELSE IF s \in startable THEN None ELSE termOf[s]]
        /\ Create(f, {termOf[s] : s \in startable})
  BY <1>1
<1> DEFINE old == {termOf[s] : s \in startable}
<1>3. /\ TypeOK /\ Bookkeeping /\ RunningIsWatched /\ NoStrayProcess
      /\ startable \subseteq Known /\ startable \subseteq Names /\ up \in SUBSET Names
      /\ \A s \in startable : status[s] # "running" /\ status[s] # "absent"
  BY <1>1 DEF ServicesInv, Known
<1>4. /\ f \in [up -> Fresh]
      /\ \A s \in up : proc'[f[s]] = "up" /\ owner'[f[s]] = s /\ launched'[f[s]] = s
      /\ \A p \in Terminals : (\A s \in up : f[s] # p) =>
           /\ proc'[p] = proc[p] /\ launched'[p] = launched[p]
           /\ owner'[p] = IF p \in old THEN None ELSE owner[p]
      /\ proc' \in [Terminals -> {"unused", "up", "ended"}]
      /\ owner' \in [Terminals -> Names \cup {None}]
      /\ launched' \in [Terminals -> Names \cup {None}]
  <2> HIDE DEF startable
  <2>1. Create(f, old)
    BY <1>2
  <2> QED BY <1>2, <1>3, <2>1, CreateEffect
<1>5. \A s \in up : f[s] \in Terminals /\ proc[f[s]] = "unused"
  BY <1>4 DEF Fresh
<1>6. /\ \A s \in up : status'[s] = "running" /\ termOf'[s] = f[s]
      /\ \A s \in startable \ up : status'[s] = "crashed" /\ termOf'[s] = None
      /\ \A s \in Names \ startable : status'[s] = status[s] /\ termOf'[s] = termOf[s]
  BY <1>2, <1>3
<1> HIDE DEF startable
<1>7. TypeOK'
  BY <1>2, <1>3, <1>4, <1>5 DEF TypeOK, Status
\* A terminal in use is none of the new ones.
<1>8. \A p \in Terminals : proc[p] # "unused" => \A s \in up : f[s] # p
  BY <1>5
<1>9. \A s \in Names : termOf[s] # None =>
        /\ termOf[s] \in Terminals /\ launched[termOf[s]] = s /\ proc[termOf[s]] # "unused"
  BY <1>3 DEF TypeOK, Bookkeeping
<1>10. \A s \in Names \ startable : termOf[s] # None =>
         /\ proc'[termOf[s]] = proc[termOf[s]] /\ launched'[termOf[s]] = s
         /\ owner'[termOf[s]] = owner[termOf[s]]
  <2> SUFFICES ASSUME NEW s \in Names \ startable, termOf[s] # None
               PROVE  /\ proc'[termOf[s]] = proc[termOf[s]] /\ launched'[termOf[s]] = s
                      /\ owner'[termOf[s]] = owner[termOf[s]]
    OBVIOUS
  <2>1. \A q \in up : f[q] # termOf[s]
    BY <1>8, <1>9
  <2>2. termOf[s] \notin old
    BY <1>3, <1>9
  <2> QED BY <1>4, <1>9, <2>1, <2>2
<1>11. Bookkeeping'
  <2>1. (~loaded => Known = {})'
    BY <1>3, <1>6 DEF Bookkeeping, Known
  <2>2. ASSUME NEW s \in Names
        PROVE  /\ status'[s] = "absent" => termOf'[s] = None
               /\ termOf'[s] # None => launched'[termOf'[s]] = s
               /\ termOf'[s] # None /\ status'[s] # "running" /\ ~crossed'[s] =>
                    proc'[termOf'[s]] = "ended"
    <3>1. CASE s \in up
      BY <3>1, <1>4, <1>6
    <3>2. CASE s \in startable \ up
      BY <3>2, <1>6
    <3>3. CASE s \in Names \ startable
      BY <3>3, <1>3, <1>6, <1>10 DEF Bookkeeping
    <3> QED BY <3>1, <3>2, <3>3
  <2>3. ASSUME NEW k \in tasks', k.step = "kill"
        PROVE  k.term # None /\ launched'[k.term] = k.svc /\ termOf'[k.svc] # k.term
    <3>1. /\ k.term # None /\ launched[k.term] = k.svc /\ termOf[k.svc] # k.term
          /\ k.svc \in Names /\ k.term \in Terminals /\ proc[k.term] # "unused"
      BY <1>3, <2>3 DEF Bookkeeping, TypeOK
    <3>2. \A s \in up : f[s] # k.term
      BY <1>8, <3>1
    <3>3. launched'[k.term] = k.svc
      BY <1>4, <3>1, <3>2
    <3> QED BY <1>6, <3>1, <3>2, <3>3
  <2>4. ASSUME NEW p \in Terminals
        PROVE  /\ launched'[p] = None <=> proc'[p] = "unused"
               /\ p \in killed' => proc'[p] # "unused"
               /\ p \in exits' => proc'[p] = "ended"
    <3>0. /\ launched[p] = None <=> proc[p] = "unused"
          /\ p \in killed => proc[p] # "unused"
          /\ p \in exits => proc[p] = "ended"
      BY <1>3 DEF Bookkeeping
    <3>1. CASE \E s \in up : f[s] = p
      BY <3>0, <3>1, <1>3, <1>4, <1>5
    <3>2. CASE \A s \in up : f[s] # p
      BY <3>0, <3>2, <1>4
    <3> QED BY <3>1, <3>2
  <2> QED BY <2>1, <2>2, <2>3, <2>4 DEF Bookkeeping
<1>12. RunningIsWatched'
  <2> SUFFICES ASSUME NEW s \in Names, status'[s] = "running"
               PROVE  /\ termOf'[s] # None /\ owner'[termOf'[s]] = s
                      /\ termOf'[s] \notin killed'
                      /\ proc'[termOf'[s]] = "up" \/ termOf'[s] \in exits'
    BY DEF RunningIsWatched
  <2>1. CASE s \in up
    BY <2>1, <1>3, <1>4, <1>5, <1>6 DEF Bookkeeping
  <2>2. CASE s \in startable \ up
    BY <2>2, <1>6
  <2>3. CASE s \in Names \ startable
    BY <2>3, <1>3, <1>6, <1>10 DEF RunningIsWatched
  <2> QED BY <2>1, <2>2, <2>3
<1>13. NoStrayProcess'
  <2> SUFFICES ASSUME NEW p \in Terminals, proc'[p] = "up", p \notin killed',
                      p \notin Taken(launched[p])', ~crossed'[launched'[p]]
               PROVE  termOf'[launched'[p]] = p
    BY DEF NoStrayProcess
  <2>1. CASE \E s \in up : f[s] = p
    BY <2>1, <1>4, <1>6
  <2>2. CASE \A s \in up : f[s] # p
    <3>1. proc[p] = "up" /\ launched'[p] = launched[p] /\ launched[p] \in Names
      BY <2>2, <1>3, <1>4 DEF Bookkeeping, TypeOK
    <3>2. p \notin Taken(launched[p])
      BY <3>1, <1>3 DEF Taken, TypeOK
    <3>3. termOf[launched[p]] = p
      BY <3>1, <3>2, <1>3 DEF NoStrayProcess
    <3>4. launched[p] \notin startable
      BY <3>1, <3>3, <1>3 DEF Bookkeeping
    <3> QED BY <3>1, <3>3, <3>4, <1>6
  <2> QED BY <2>1, <2>2
<1> QED BY <1>7, <1>11, <1>12, <1>13 DEF ServicesInv

\* The services of S let go of their terminals, which are told to end: a stop,
\* a reload without them, the end of the project.
LEMMA RemoveKeeps ==
  ASSUME ServicesInv, NEW S \in SUBSET Names, Remove(S),
         UNCHANGED <<timers, tasks, proc, exits, history>>,
         loaded' \in BOOLEAN, status' \in [Names -> Status],
         \A s \in S : status'[s] \in {"absent", "stopped"},
         \A s \in Names \ S : status'[s] = status[s]
                              \/ (status[s] = "absent" /\ status'[s] = "stopped"),
         ~loaded' => \A s \in Names : status'[s] = "absent"
  PROVE  ServicesInv'
<1> USE NoneIsNoTerminal
<1> DEFINE held == {termOf[s] : s \in S} \ {None}
<1>1. /\ TypeOK /\ Bookkeeping /\ RunningIsWatched /\ NoStrayProcess
      /\ killed' = killed \cup {p \in held : proc[p] = "up"}
      /\ owner' = [p \in Terminals |-> IF p \in held THEN None ELSE owner[p]]
      /\ termOf' = [s \in Names |-> IF s \in S THEN None ELSE termOf[s]]
      /\ count' = [s \in Names |-> IF s \in S THEN 0 ELSE count[s]]
      /\ UNCHANGED <<timers, tasks, proc, exits, launched, crossed>>
  BY DEF ServicesInv, Remove, Kill, Disown, history
<1>2. \A s \in Names : termOf[s] # None =>
        termOf[s] \in Terminals /\ launched[termOf[s]] = s /\ proc[termOf[s]] # "unused"
  BY <1>1 DEF TypeOK, Bookkeeping
<1>3. held \subseteq Terminals
  BY <1>2
<1>4. \A s \in Names \ S : termOf[s] \notin held
  BY <1>2
<1>5. /\ \A s \in S : termOf'[s] = None
      /\ \A s \in Names \ S : termOf'[s] = termOf[s]
      /\ \A p \in Terminals \ held : owner'[p] = owner[p]
  BY <1>1
<1>6. TypeOK'
  <2>1. count' \in [Names -> 0..MaxRestarts]
    BY <1>1, ServicesAssumption DEF TypeOK
  <2>2. killed' \subseteq Terminals
    BY <1>1, <1>3 DEF TypeOK
  <2> HIDE DEF held
  <2>3. owner' \in [Terminals -> Names \cup {None}] /\ termOf' \in [Names -> Terminals \cup {None}]
    BY <1>1 DEF TypeOK
  <2> QED BY <1>1, <2>1, <2>2, <2>3 DEF TypeOK
<1>7. Bookkeeping'
  <2>1. (~loaded => Known = {})'
    BY DEF Known
  <2>2. ASSUME NEW s \in Names
        PROVE  /\ status'[s] = "absent" => termOf'[s] = None
               /\ termOf'[s] # None => launched'[termOf'[s]] = s
               /\ termOf'[s] # None /\ status'[s] # "running" /\ ~crossed'[s] =>
                    proc'[termOf'[s]] = "ended"
    BY <1>1, <1>5 DEF Bookkeeping
  <2>3. ASSUME NEW k \in tasks', k.step = "kill"
        PROVE  k.term # None /\ launched'[k.term] = k.svc /\ termOf'[k.svc] # k.term
    BY <2>3, <1>1 DEF Bookkeeping, TypeOK
  <2>4. ASSUME NEW p \in Terminals
        PROVE  /\ launched'[p] = None <=> proc'[p] = "unused"
               /\ p \in killed' => proc'[p] # "unused"
               /\ p \in exits' => proc'[p] = "ended"
    BY <1>1, <1>2 DEF Bookkeeping
  <2> QED BY <2>1, <2>2, <2>3, <2>4 DEF Bookkeeping
<1>8. RunningIsWatched'
  <2> SUFFICES ASSUME NEW s \in Names, status'[s] = "running"
               PROVE  /\ termOf'[s] # None /\ owner'[termOf'[s]] = s
                      /\ termOf'[s] \notin killed'
                      /\ proc'[termOf'[s]] = "up" \/ termOf'[s] \in exits'
    BY DEF RunningIsWatched
  <2>1. s \notin S /\ status[s] = "running"
    OBVIOUS
  <2>2. /\ termOf[s] # None /\ owner[termOf[s]] = s /\ termOf[s] \notin killed
        /\ proc[termOf[s]] = "up" \/ termOf[s] \in exits
    BY <2>1, <1>1 DEF RunningIsWatched
  <2> QED BY <2>1, <2>2, <1>1, <1>2, <1>4, <1>5
<1>9. NoStrayProcess'
  <2> SUFFICES ASSUME NEW p \in Terminals, proc'[p] = "up", p \notin killed',
                      p \notin Taken(launched[p])', ~crossed'[launched'[p]]
               PROVE  termOf'[launched'[p]] = p
    BY DEF NoStrayProcess
  <2>1. proc[p] = "up" /\ launched[p] \in Names /\ p \notin killed /\ p \notin held
    BY <1>1 DEF Bookkeeping, TypeOK
  <2>2. p \notin Taken(launched[p])
    BY <1>1 DEF Taken
  <2>3. termOf[launched[p]] = p
    BY <1>1, <2>1, <2>2 DEF NoStrayProcess
  <2>4. launched[p] \notin S
    BY <2>1, <2>3
  <2> QED BY <1>1, <1>5, <2>1, <2>3, <2>4
<1> QED BY <1>6, <1>7, <1>8, <1>9 DEF ServicesInv

-----------------------------------------------------------------------------
(* The project.                                                            *)

\* A project that is not loaded has no service, and every process left of it
\* was told to end or is about to be: nothing of it is adopted.
LEMMA LoadKeeps ==
  ASSUME ServicesInv, NEW cfg \in SUBSET Names, Load(cfg)
  PROVE  ServicesInv'
<1> USE NoneIsNoTerminal
<1>1. /\ TypeOK /\ Bookkeeping /\ RunningIsWatched /\ NoStrayProcess
      /\ loaded' = TRUE /\ ~loaded
      /\ count' = [s \in Names |-> IF s \in cfg THEN 0 ELSE count[s]]
      /\ UNCHANGED <<timers, tasks, killed, exits, crossed>>
  BY DEF ServicesInv, Load
<1>2. PICK up \in SUBSET cfg, failed \in SUBSET (cfg \cap AutoStart) :
        /\ up \cap failed = {} /\ cfg \cap AutoStart \subseteq up \cup failed
        /\ \E f \in Placements(up) :
             /\ status' = [s \in Names |-> IF s \in up THEN "running"
                                           ELSE IF s \in failed THEN "crashed"
                                           ELSE IF s \in cfg THEN "stopped" ELSE status[s]]
             /\ termOf' = [s \in Names |-> IF s \in up THEN f[s]
                                           ELSE IF s \in cfg THEN None ELSE termOf[s]]
             /\ Create(f, {})
  BY DEF Load
<1>3. PICK f \in Placements(up) :
        /\ status' = [s \in Names |-> IF s \in up THEN "running"
                                      ELSE IF s \in failed THEN "crashed"
                                      ELSE IF s \in cfg THEN "stopped" ELSE status[s]]
        /\ termOf' = [s \in Names |-> IF s \in up THEN f[s]
                                      ELSE IF s \in cfg THEN None ELSE termOf[s]]
        /\ Create(f, {})
  BY <1>2
<1>4. /\ up \in SUBSET Names
      /\ f \in [up -> Fresh]
      /\ \A s \in up : proc'[f[s]] = "up" /\ owner'[f[s]] = s /\ launched'[f[s]] = s
      /\ \A p \in Terminals : (\A s \in up : f[s] # p) =>
           /\ proc'[p] = proc[p] /\ launched'[p] = launched[p]
      /\ proc' \in [Terminals -> {"unused", "up", "ended"}]
      /\ owner' \in [Terminals -> Names \cup {None}]
      /\ launched' \in [Terminals -> Names \cup {None}]
  BY <1>1, <1>3, CreateEffect
<1>5. \A s \in up : f[s] \in Terminals /\ proc[f[s]] = "unused"
  BY <1>4 DEF Fresh
<1>6. \A s \in Names : status[s] = "absent" /\ termOf[s] = None
  BY <1>1 DEF Bookkeeping, Known, TypeOK
<1>7. /\ \A s \in up : status'[s] = "running" /\ termOf'[s] = f[s]
      /\ \A s \in Names \ up : status'[s] # "running" /\ termOf'[s] = None
  BY <1>3, <1>4, <1>6
<1>8. TypeOK'
  <2>1. count' \in [Names -> 0..MaxRestarts]
    BY <1>1, ServicesAssumption DEF TypeOK
  <2>2. status' \in [Names -> Status]
    BY <1>1, <1>3 DEF TypeOK, Status
  <2>3. termOf' \in [Names -> Terminals \cup {None}]
    BY <1>1, <1>3, <1>5 DEF TypeOK
  <2> QED BY <1>1, <1>4, <2>1, <2>2, <2>3 DEF TypeOK
<1>9. Bookkeeping'
  <2>1. ASSUME NEW s \in Names
        PROVE  /\ status'[s] = "absent" => termOf'[s] = None
               /\ termOf'[s] # None => launched'[termOf'[s]] = s
               /\ termOf'[s] # None /\ status'[s] # "running" /\ ~crossed'[s] =>
                    proc'[termOf'[s]] = "ended"
    BY <1>4, <1>7
  <2>2. ASSUME NEW k \in tasks', k.step = "kill"
        PROVE  k.term # None /\ launched'[k.term] = k.svc /\ termOf'[k.svc] # k.term
    <3>1. /\ k.term # None /\ launched[k.term] = k.svc
          /\ k.svc \in Names /\ k.term \in Terminals /\ proc[k.term] # "unused"
      BY <1>1, <2>2 DEF Bookkeeping, TypeOK
    <3>2. \A s \in up : f[s] # k.term
      BY <1>5, <3>1
    <3>3. launched'[k.term] = k.svc
      BY <1>4, <3>1, <3>2
    <3> QED BY <1>7, <3>1, <3>2, <3>3
  <2>3. ASSUME NEW p \in Terminals
        PROVE  /\ launched'[p] = None <=> proc'[p] = "unused"
               /\ p \in killed' => proc'[p] # "unused"
               /\ p \in exits' => proc'[p] = "ended"
    <3>0. /\ launched[p] = None <=> proc[p] = "unused"
          /\ p \in killed => proc[p] # "unused"
          /\ p \in exits => proc[p] = "ended"
      BY <1>1 DEF Bookkeeping
    <3>1. CASE \E s \in up : f[s] = p
      BY <3>0, <3>1, <1>1, <1>4, <1>5
    <3>2. CASE \A s \in up : f[s] # p
      BY <3>0, <3>2, <1>1, <1>4
    <3> QED BY <3>1, <3>2
  <2> QED BY <1>1, <2>1, <2>2, <2>3 DEF Bookkeeping
<1>10. RunningIsWatched'
  BY <1>1, <1>4, <1>5, <1>7 DEF RunningIsWatched, Bookkeeping
<1>11. NoStrayProcess'
  <2> SUFFICES ASSUME NEW p \in Terminals, proc'[p] = "up", p \notin killed',
                      p \notin Taken(launched[p])', ~crossed'[launched'[p]]
               PROVE  termOf'[launched'[p]] = p
    BY DEF NoStrayProcess
  <2>1. CASE \E s \in up : f[s] = p
    BY <2>1, <1>4, <1>7
  <2>2. CASE \A s \in up : f[s] # p
    <3>1. proc[p] = "up" /\ launched'[p] = launched[p] /\ launched[p] \in Names
      BY <2>2, <1>1, <1>4 DEF Bookkeeping, TypeOK
    <3>2. p \notin Taken(launched[p])
      BY <1>1, <3>1 DEF Taken, TypeOK
    <3> QED BY <1>1, <1>6, <3>1, <3>2 DEF NoStrayProcess
  <2> QED BY <2>1, <2>2
<1> QED BY <1>8, <1>9, <1>10, <1>11 DEF ServicesInv

LEMMA UnloadKeeps == ServicesInv /\ Unload => ServicesInv'
<1> SUFFICES ASSUME ServicesInv, Unload PROVE ServicesInv'
  OBVIOUS
<1>1. Known \in SUBSET Names /\ \A s \in Names \ Known : status[s] = "absent"
  BY DEF Known
<1>2. /\ loaded' \in BOOLEAN /\ status' \in [Names -> Status]
      /\ \A s \in Names : status'[s] = "absent"
  BY DEF Unload, Status
<1>3. Remove(Known) /\ UNCHANGED <<timers, tasks, proc, exits, history>>
  BY DEF Unload
<1>4. /\ \A s \in Known : status'[s] \in {"absent", "stopped"}
      /\ \A s \in Names \ Known : status'[s] = status[s]
  BY <1>1, <1>2
<1> QED BY <1>1, <1>2, <1>3, <1>4, RemoveKeeps

LEMMA ReloadKeeps ==
  ASSUME ServicesInv, NEW cfg \in SUBSET Names, Reload(cfg)
  PROVE  ServicesInv'
<1> DEFINE gone == Known \ cfg
<1>1. gone \in SUBSET Names /\ Remove(gone) /\ UNCHANGED <<timers, tasks, proc, exits, history>>
  BY DEF Known, Reload
<1>2. loaded' = TRUE
  BY DEF Reload, ServicesInv, TypeOK
<1>3. status' \in [Names -> Status]
  BY DEF Reload, Status, ServicesInv, TypeOK
<1>4. /\ \A s \in gone : status'[s] \in {"absent", "stopped"}
      /\ \A s \in Names \ gone : status'[s] = status[s]
                                 \/ (status[s] = "absent" /\ status'[s] = "stopped")
  <2>1. status' = [s \in Names |-> IF s \notin cfg THEN "absent"
                                  ELSE IF s \notin Known THEN "stopped" ELSE status[s]]
    BY DEF Reload
  <2>2. ASSUME NEW s \in gone PROVE status'[s] = "absent"
    BY <2>1, <2>2, <1>1
  <2>3. ASSUME NEW s \in Names \ gone
        PROVE  status'[s] = status[s] \/ (status[s] = "absent" /\ status'[s] = "stopped")
    BY <2>1 DEF Known
  <2> HIDE DEF gone
  <2> QED BY <2>2, <2>3
<1> HIDE DEF gone
<1> QED BY <1>1, <1>2, <1>3, <1>4, RemoveKeeps

-----------------------------------------------------------------------------
(* What the user asks for.                                                 *)

LEMMA StartServicesKeeps == ASSUME ServicesInv, NEW S, StartServices(S) PROVE ServicesInv'
BY StartKeeps DEF StartServices, ServicesInv, TypeOK

LEMMA StopServicesKeeps == ASSUME ServicesInv, NEW S, StopServices(S) PROVE ServicesInv'
<1> DEFINE stopping == S \cap Known
<1>1. stopping \in SUBSET Names /\ \A s \in stopping : status[s] # "absent"
  BY DEF Known
<1>2. Remove(stopping) /\ UNCHANGED <<loaded, timers, tasks, proc, exits, history>>
  BY DEF StopServices, Remove
<1>3. status' = [s \in Names |-> IF s \in stopping THEN "stopped" ELSE status[s]]
  BY DEF StopServices
<1>4. stopping # {}
  BY DEF StopServices
<1>5. loaded
  BY <1>4 DEF ServicesInv, Bookkeeping
<1> HIDE DEF stopping
<1>6. /\ loaded' \in BOOLEAN /\ status' \in [Names -> Status]
      /\ \A s \in stopping : status'[s] = "stopped"
      /\ \A s \in Names \ stopping : status'[s] = status[s]
  BY <1>1, <1>2, <1>3 DEF ServicesInv, TypeOK, Status
<1> QED BY <1>1, <1>2, <1>5, <1>6, RemoveKeeps

\* The terminal goes from the instance to the task.
LEMMA RestartServiceKeeps ==
  ASSUME ServicesInv, NEW s \in Names, RestartService(s)
  PROVE  ServicesInv'
<1> USE NoneIsNoTerminal
<1>1. /\ TypeOK /\ Bookkeeping /\ RunningIsWatched /\ NoStrayProcess
      /\ loaded /\ s \in Known
      /\ status' = [status EXCEPT ![s] = "restarting"]
      /\ termOf' = [termOf EXCEPT ![s] = None]
      /\ count'  = [count EXCEPT ![s] = 0]
      /\ UNCHANGED <<loaded, owner, timers, proc, killed, exits, launched, crossed>>
  BY DEF ServicesInv, RestartService, pty, history
<1>2. PICK i \in 1..MaxTasks :
        tasks' = tasks \cup {[id |-> i, svc |-> s, term |-> termOf[s],
                              step |-> IF termOf[s] = None THEN "start" ELSE "kill"]}
  BY DEF RestartService
<1> DEFINE new == [id |-> i, svc |-> s, term |-> termOf[s],
                   step |-> IF termOf[s] = None THEN "start" ELSE "kill"]
<1>3. /\ new.svc = s /\ new.term = termOf[s]
      /\ new.step = IF termOf[s] = None THEN "start" ELSE "kill"
      /\ new \in [id : 1..MaxTasks, svc : Names, term : Terminals \cup {None},
                  step : {"kill", "start"}]
      /\ tasks' = tasks \cup {new}
  BY <1>1, <1>2 DEF TypeOK
<1> HIDE DEF new
<1>4. /\ status'[s] = "restarting" /\ termOf'[s] = None
      /\ \A q \in Names \ {s} : status'[q] = status[q] /\ termOf'[q] = termOf[q]
  BY <1>1 DEF TypeOK
<1>5. TypeOK'
  <2>1. count' \in [Names -> 0..MaxRestarts]
    BY <1>1, ServicesAssumption DEF TypeOK
  <2> QED BY <1>1, <1>3, <2>1 DEF TypeOK, Status
<1>6. Bookkeeping'
  <2>1. ASSUME NEW k \in tasks', k.step = "kill"
        PROVE  k.term # None /\ launched'[k.term] = k.svc /\ termOf'[k.svc] # k.term
    <3>1. CASE k = new
      BY <3>1, <2>1, <1>1, <1>3, <1>4 DEF Bookkeeping
    <3>2. CASE k \in tasks
      <4>1. /\ k.term # None /\ launched[k.term] = k.svc /\ termOf[k.svc] # k.term
            /\ k.svc \in Names
        BY <3>2, <2>1, <1>1 DEF Bookkeeping, TypeOK
      <4> QED BY <4>1, <1>1, <1>4
    <3> QED BY <3>1, <3>2, <1>3
  <2>2. ASSUME NEW q \in Names
        PROVE  /\ status'[q] = "absent" => termOf'[q] = None
               /\ termOf'[q] # None => launched'[termOf'[q]] = q
               /\ termOf'[q] # None /\ status'[q] # "running" /\ ~crossed'[q] =>
                    proc'[termOf'[q]] = "ended"
    BY <1>1, <1>4 DEF Bookkeeping
  <2> QED BY <1>1, <2>1, <2>2 DEF Bookkeeping
<1>7. RunningIsWatched'
  BY <1>1, <1>4 DEF RunningIsWatched
<1>8. NoStrayProcess'
  <2> SUFFICES ASSUME NEW p \in Terminals, proc'[p] = "up", p \notin killed',
                      p \notin Taken(launched[p])', ~crossed'[launched'[p]]
               PROVE  termOf'[launched'[p]] = p
    BY DEF NoStrayProcess
  <2>1. launched[p] \in Names
    BY <1>1 DEF Bookkeeping, TypeOK
  <2>2. p \notin Taken(launched[p])
    BY <1>1, <1>3 DEF Taken
  <2>3. termOf[launched[p]] = p
    BY <1>1, <2>2 DEF NoStrayProcess
  <2>4. launched[p] # s
    <3> SUFFICES ASSUME launched[p] = s PROVE FALSE
      OBVIOUS
    <3>1. new.step = "kill" /\ new.svc = launched[p] /\ new.term = p
      BY <1>3, <2>3
    <3> QED BY <3>1, <1>1, <1>3 DEF Taken
  <2> QED BY <1>1, <1>4, <2>1, <2>3, <2>4
<1> QED BY <1>5, <1>6, <1>7, <1>8 DEF ServicesInv

-----------------------------------------------------------------------------
(* What the requests leave behind.                                         *)

\* A terminal that was taken from a service is not the one it has now.
LEMMA RestartKillsKeeps ==
  ASSUME ServicesInv, NEW k \in tasks, RestartKills(k)
  PROVE  ServicesInv'
<1> USE NoneIsNoTerminal
<1> DEFINE next == [k EXCEPT !.step = "start"]
<1>1. /\ TypeOK /\ Bookkeeping /\ RunningIsWatched /\ NoStrayProcess
      /\ k.step = "kill"
      /\ killed' = killed \cup {p \in {k.term} : proc[p] = "up"}
      /\ owner' = [p \in Terminals |-> IF p \in {k.term} THEN None ELSE owner[p]]
      /\ tasks' = (tasks \ {k}) \cup {next}
      /\ UNCHANGED <<loaded, status, termOf, count, timers, proc, exits, launched, crossed>>
  BY DEF ServicesInv, RestartKills, Kill, Disown, history
<1>2. /\ next.svc = k.svc /\ next.step = "start"
      /\ next \in [id : 1..MaxTasks, svc : Names, term : Terminals \cup {None},
                   step : {"kill", "start"}]
  BY <1>1 DEF TypeOK
<1>3. /\ k.term \in Terminals /\ k.svc \in Names /\ launched[k.term] = k.svc
      /\ termOf[k.svc] # k.term /\ proc[k.term] # "unused"
  BY <1>1 DEF TypeOK, Bookkeeping
<1> HIDE DEF next
<1>4. \A q \in Names : termOf[q] # None => termOf[q] \in Terminals /\ termOf[q] # k.term
  BY <1>1, <1>3 DEF TypeOK, Bookkeeping
<1>5. TypeOK'
  BY <1>1, <1>2, <1>3 DEF TypeOK
<1>6. Bookkeeping'
  <2>1. ASSUME NEW j \in tasks', j.step = "kill"
        PROVE  j.term # None /\ launched'[j.term] = j.svc /\ termOf'[j.svc] # j.term
    BY <2>1, <1>1, <1>2 DEF Bookkeeping
  <2>2. ASSUME NEW p \in Terminals
        PROVE  p \in killed' => proc'[p] # "unused"
    BY <1>1, <1>3 DEF Bookkeeping
  <2>3. \A p \in Terminals : /\ launched'[p] = None <=> proc'[p] = "unused"
                             /\ p \in exits' => proc'[p] = "ended"
    BY <1>1 DEF Bookkeeping
  <2> QED BY <1>1, <2>1, <2>2, <2>3 DEF Bookkeeping, Known
<1>7. RunningIsWatched'
  BY <1>1, <1>4 DEF RunningIsWatched
<1>8. NoStrayProcess'
  <2> SUFFICES ASSUME NEW p \in Terminals, proc'[p] = "up", p \notin killed',
                      p \notin Taken(launched[p])', ~crossed'[launched'[p]]
               PROVE  termOf'[launched'[p]] = p
    BY DEF NoStrayProcess
  <2>1. p # k.term
    BY <1>1
  <2>2. p \notin Taken(launched[p])
    BY <1>1, <2>1 DEF Taken
  <2> QED BY <1>1, <2>2 DEF NoStrayProcess
<1> QED BY <1>5, <1>6, <1>7, <1>8 DEF ServicesInv

LEMMA RestartStartsKeeps ==
  ASSUME ServicesInv, NEW k \in tasks, RestartStarts(k)
  PROVE  ServicesInv'
<1>1. /\ Start({s \in {k.svc} : status[s] = "restarting"})
      /\ UNCHANGED <<loaded, count, killed, exits, crossed>>
      /\ timers' \in [Names -> Nat] /\ tasks' \subseteq tasks
      /\ \A j \in tasks : j.step = "kill" => j \in tasks'
  BY DEF RestartStarts, ServicesInv, TypeOK
<1> QED BY <1>1, StartKeeps

LEMMA TimerFiresKeeps ==
  ASSUME ServicesInv, NEW s \in Names, TimerFires(s)
  PROVE  ServicesInv'
<1>1. timers' \in [Names -> Nat]
  BY DEF TimerFires, ServicesInv, TypeOK
<1>2. /\ Start(IF loaded THEN {s} ELSE {})
      /\ UNCHANGED <<loaded, count, killed, exits, crossed>> /\ tasks' = tasks
  BY DEF TimerFires
<1> QED BY <1>1, <1>2, StartKeeps

LEMMA ProcessEndsKeeps ==
  ASSUME ServicesInv, NEW p \in Terminals, ProcessEnds(p)
  PROVE  ServicesInv'
<1>1. /\ TypeOK /\ Bookkeeping /\ RunningIsWatched /\ NoStrayProcess
      /\ proc[p] = "up" /\ proc' = [proc EXCEPT ![p] = "ended"]
      /\ exits' = exits \cup {p} \/ (p \in killed /\ exits' = exits)
      /\ UNCHANGED <<loaded, status, termOf, count, owner, timers, tasks, killed, launched, crossed>>
  BY DEF ServicesInv, ProcessEnds, manager, history
<1>2. /\ proc'[p] = "ended"
      /\ \A q \in Terminals \ {p} : proc'[q] = proc[q]
  BY <1>1 DEF TypeOK
<1>3. \A s \in Names : termOf[s] # None => termOf[s] \in Terminals
  BY <1>1 DEF TypeOK
<1>4. TypeOK'
  BY <1>1 DEF TypeOK
<1>5. Bookkeeping'
  BY <1>1, <1>2, <1>3 DEF Bookkeeping, Known
<1>6. RunningIsWatched'
  BY <1>1, <1>2, <1>3 DEF RunningIsWatched
<1>7. NoStrayProcess'
  BY <1>1, <1>2 DEF NoStrayProcess, Taken
<1> QED BY <1>4, <1>5, <1>6, <1>7 DEF ServicesInv

\* An exit is taken by the service it belongs to, or that left the terminal;
\* the second case is remembered in crossed.
LEMMA HandleExitKeeps ==
  ASSUME ServicesInv, NEW p \in Terminals, HandleExit(p)
  PROVE  ServicesInv'
<1> USE NoneIsNoTerminal
<1>1. /\ TypeOK /\ Bookkeeping /\ RunningIsWatched /\ NoStrayProcess
      /\ p \in exits /\ exits' = exits \ {p}
      /\ owner' = [q \in Terminals |-> IF q \in {p} THEN None ELSE owner[q]]
      /\ UNCHANGED <<loaded, tasks, proc, killed, launched>>
  BY DEF ServicesInv, HandleExit, Disown
<1>2. proc[p] = "ended"
  BY <1>1 DEF Bookkeeping
<1>3. \A s \in Names : termOf[s] # None => termOf[s] \in Terminals /\ launched[termOf[s]] = s
  BY <1>1 DEF TypeOK, Bookkeeping
<1>4. CASE owner[p] \in Known
  <2> DEFINE s == owner[p]
  <2>1. /\ s \in Names /\ s \in Known /\ status[s] # "absent" /\ ServiceExited(s)
        /\ crossed' = [crossed EXCEPT ![s] = @ \/ termOf[s] # p]
    BY <1>4 DEF HandleExit, Known
  <2>2. /\ status' \in [Names -> Status] /\ count' \in [Names -> 0..MaxRestarts]
        /\ timers' \in [Names -> Nat] /\ termOf' \in [Names -> Terminals \cup {None}]
        /\ status'[s] \in {"restarting", "crashed"}
        /\ termOf'[s] = None \/ termOf'[s] = termOf[s]
        /\ \A q \in Names \ {s} : status'[q] = status[q] /\ termOf'[q] = termOf[q]
    <3> HIDE DEF s
    <3>1. CASE /\ s \in RestartOnCrash /\ count[s] < MaxRestarts
               /\ status' = [status EXCEPT ![s] = "restarting"]
               /\ termOf' = [termOf EXCEPT ![s] = None]
               /\ count'  = [count EXCEPT ![s] = @ + 1]
               /\ timers' = [timers EXCEPT ![s] = @ + 1]
      <4>1. count' \in [Names -> 0..MaxRestarts]
        BY <3>1, <1>1, <2>1, ServicesAssumption DEF TypeOK
      <4> QED BY <3>1, <4>1, <1>1, <2>1 DEF TypeOK, Status
    <3>2. CASE /\ status' = [status EXCEPT ![s] = "crashed"]
               /\ UNCHANGED <<termOf, count, timers>>
      BY <3>2, <1>1, <2>1 DEF TypeOK, Status
    <3> QED BY <3>1, <3>2, <2>1 DEF ServiceExited
  <2>3. /\ crossed' \in [Names -> BOOLEAN]
        /\ \A q \in Names \ {s} : crossed'[q] = crossed[q]
        /\ ~crossed'[s] => ~crossed[s] /\ termOf[s] = p
    <3> HIDE DEF s
    <3>1. crossed \in [Names -> BOOLEAN]
      BY <1>1 DEF TypeOK
    <3> QED BY <3>1, <2>1
  <2> HIDE DEF s
  <2>4. \A q \in Names \ {s} : status[q] = "running" => termOf[q] # p
    <3>1. s = owner[p]
      BY DEF s
    <3> QED BY <3>1, <1>1 DEF RunningIsWatched
  <2>5. TypeOK'
    BY <1>1, <2>2, <2>3 DEF TypeOK
  <2>6. Bookkeeping'
    <3>1. (~loaded => Known = {})'
      BY <1>1, <2>1 DEF Bookkeeping
    <3>2. ASSUME NEW q \in Names
          PROVE  /\ status'[q] = "absent" => termOf'[q] = None
                 /\ termOf'[q] # None => launched'[termOf'[q]] = q
                 /\ termOf'[q] # None /\ status'[q] # "running" /\ ~crossed'[q] =>
                      proc'[termOf'[q]] = "ended"
      <4>1. CASE q = s
        BY <4>1, <1>1, <1>2, <1>3, <2>1, <2>2, <2>3
      <4>2. CASE q # s
        BY <4>2, <1>1, <2>2, <2>3 DEF Bookkeeping
      <4> QED BY <4>1, <4>2
    <3>3. ASSUME NEW k \in tasks', k.step = "kill"
          PROVE  k.term # None /\ launched'[k.term] = k.svc /\ termOf'[k.svc] # k.term
      <4>1. /\ k.term # None /\ launched[k.term] = k.svc /\ termOf[k.svc] # k.term
            /\ k.svc \in Names
        BY <3>3, <1>1 DEF Bookkeeping, TypeOK
      <4> QED BY <4>1, <1>1, <2>2
    <3>4. \A q \in Terminals : /\ launched'[q] = None <=> proc'[q] = "unused"
                               /\ q \in killed' => proc'[q] # "unused"
                               /\ q \in exits' => proc'[q] = "ended"
      BY <1>1 DEF Bookkeeping
    <3> QED BY <3>1, <3>2, <3>3, <3>4 DEF Bookkeeping
  <2>7. RunningIsWatched'
    BY <1>1, <1>3, <2>1, <2>2, <2>4 DEF RunningIsWatched
  <2>8. NoStrayProcess'
    <3> SUFFICES ASSUME NEW q \in Terminals, proc'[q] = "up", q \notin killed',
                        q \notin Taken(launched[q])', ~crossed'[launched'[q]]
                 PROVE  termOf'[launched'[q]] = q
      BY DEF NoStrayProcess
    <3>1. launched[q] \in Names /\ q \notin Taken(launched[q])
      BY <1>1 DEF Bookkeeping, TypeOK, Taken
    <3>2. ~crossed[launched[q]]
      BY <1>1, <2>3, <3>1
    <3>3. termOf[launched[q]] = q
      BY <1>1, <3>1, <3>2 DEF NoStrayProcess
    <3>4. launched[q] # s
      BY <1>1, <1>2, <2>3, <3>3
    <3> QED BY <1>1, <2>2, <3>1, <3>3, <3>4
  <2> QED BY <2>5, <2>6, <2>7, <2>8 DEF ServicesInv
<1>5. CASE owner[p] \notin Known
  <2>1. UNCHANGED <<status, termOf, count, timers, crossed>>
    BY <1>5 DEF HandleExit
  <2>2. \A q \in Names : status[q] = "running" => q \in Known /\ termOf[q] # p
    BY <1>1, <1>5 DEF RunningIsWatched, Known
  <2>3. TypeOK'
    BY <1>1, <2>1 DEF TypeOK
  <2>4. Bookkeeping'
    BY <1>1, <2>1 DEF Bookkeeping, Known
  <2>5. RunningIsWatched'
    BY <1>1, <1>3, <2>1, <2>2 DEF RunningIsWatched
  <2>6. NoStrayProcess'
    BY <1>1, <2>1 DEF NoStrayProcess, Taken
  <2> QED BY <2>3, <2>4, <2>5, <2>6 DEF ServicesInv
<1> QED BY <1>4, <1>5

-----------------------------------------------------------------------------
LEMMA InitHolds == Init => ServicesInv
<1> SUFFICES ASSUME Init PROVE ServicesInv
  OBVIOUS
<1>1. TypeOK
  <2>1. count \in [Names -> 0..MaxRestarts]
    BY ServicesAssumption DEF Init
  <2>2. tasks \subseteq [id : 1..MaxTasks, svc : Names, term : Terminals \cup {None},
                         step : {"kill", "start"}]
    BY DEF Init
  <2>3. /\ loaded \in BOOLEAN
        /\ status \in [Names -> Status] /\ timers \in [Names -> Nat]
        /\ termOf \in [Names -> Terminals \cup {None}] /\ crossed \in [Names -> BOOLEAN]
    BY DEF Init, Status
  <2>4. /\ owner \in [Terminals -> Names \cup {None}]
        /\ proc \in [Terminals -> {"unused", "up", "ended"}]
        /\ launched \in [Terminals -> Names \cup {None}]
        /\ killed \subseteq Terminals /\ exits \subseteq Terminals
    BY DEF Init
  <2> QED BY <2>1, <2>2, <2>3, <2>4 DEF TypeOK
<1>2. Bookkeeping /\ RunningIsWatched /\ NoStrayProcess
  BY DEF Init, Bookkeeping, RunningIsWatched, NoStrayProcess, Known
<1> QED BY <1>1, <1>2 DEF ServicesInv

LEMMA StepKeeps == ServicesInv /\ [Next]_vars => ServicesInv'
<1> SUFFICES ASSUME ServicesInv, [Next]_vars PROVE ServicesInv'
  OBVIOUS
<1>1. CASE UNCHANGED vars
  BY <1>1 DEF ServicesInv, TypeOK, Bookkeeping, RunningIsWatched, NoStrayProcess, Known, Taken,
              vars, manager, pty, history
<1>2. ASSUME NEW cfg \in SUBSET Names, Load(cfg) PROVE ServicesInv'
  BY <1>2, LoadKeeps
<1>3. ASSUME NEW cfg \in SUBSET Names, Reload(cfg) PROVE ServicesInv'
  BY <1>3, ReloadKeeps
<1>4. CASE Unload
  BY <1>4, UnloadKeeps
<1>5. ASSUME NEW S, StartServices(S) \/ StopServices(S) PROVE ServicesInv'
  BY <1>5, StartServicesKeeps, StopServicesKeeps
<1>6. ASSUME NEW s \in Names, RestartService(s) \/ TimerFires(s) PROVE ServicesInv'
  BY <1>6, RestartServiceKeeps, TimerFiresKeeps
<1>7. ASSUME NEW k \in tasks, RestartKills(k) \/ RestartStarts(k) PROVE ServicesInv'
  BY <1>7, RestartKillsKeeps, RestartStartsKeeps
<1>8. ASSUME NEW p \in Terminals, ProcessEnds(p) \/ HandleExit(p) PROVE ServicesInv'
  BY <1>8, ProcessEndsKeeps, HandleExitKeeps
<1> QED BY <1>1, <1>2, <1>3, <1>4, <1>5, <1>6, <1>7, <1>8 DEF Next, UserStep

\* The manager, its tasks, the timers and the terminals agree at every time.
THEOREM ServicesInvariant == Spec => []ServicesInv
BY InitHolds, StepKeeps, PTL DEF Spec

\* Every variable of the manager keeps its type, and no service is restarted
\* more often in a row than MAX_RESTART_COUNT.
THEOREM ServicesTypeCorrect == Spec => []TypeOK
<1>1. ServicesInv => TypeOK
  BY DEF ServicesInv
<1> QED BY <1>1, ServicesInvariant, PTL


\* No process outlives what its service was told, but for a crossed exit.
THEOREM NoProcessAstray == Spec => []NoStrayProcess
<1>1. ServicesInv => NoStrayProcess
  BY DEF ServicesInv
<1> QED BY <1>1, ServicesInvariant, PTL

-----------------------------------------------------------------------------
(* What a service shows is backed by what is under way.                    *)

\* A start leaves none of the services it was asked to start "restarting", and
\* makes no other one so.
LEMMA StartEndsRestarting ==
  ASSUME TypeOK, NEW S, Start(S), NEW s \in Names, status'[s] = "restarting"
  PROVE  status[s] = "restarting" /\ s \notin S
BY DEF Start, Known, TypeOK

\* Whoever is to end a restart is still there, or the restart is over.
LEMMA RestartPendingStep ==
  ServicesInv /\ RestartIsPending /\ [Next]_vars => RestartIsPending'
<1> SUFFICES ASSUME ServicesInv, RestartIsPending, [Next]_vars,
                    NEW s \in Names, status'[s] = "restarting"
             PROVE  timers'[s] > 0 \/ \E k \in tasks' : k.svc = s
  BY DEF RestartIsPending
<1>0. TypeOK /\ (~loaded => \A q \in Names : status[q] = "absent")
  BY DEF ServicesInv, Bookkeeping, Known
<1>1. ASSUME status[s] = "restarting", timers' = timers, tasks' = tasks
      PROVE  timers'[s] > 0 \/ \E k \in tasks' : k.svc = s
  BY <1>1 DEF RestartIsPending
<1>2. CASE UNCHANGED vars
  BY <1>1, <1>2 DEF vars, manager
<1>3. ASSUME NEW cfg \in SUBSET Names, Load(cfg) PROVE FALSE
  BY <1>0, <1>3 DEF Load
<1>4. ASSUME NEW cfg \in SUBSET Names, Reload(cfg)
      PROVE  status[s] = "restarting" /\ timers' = timers /\ tasks' = tasks
  BY <1>4 DEF Reload
<1>5. CASE Unload
  BY <1>5 DEF Unload
<1>6. ASSUME NEW S, StartServices(S)
      PROVE  status[s] = "restarting" /\ timers' = timers /\ tasks' = tasks
  BY <1>0, <1>6, StartEndsRestarting DEF StartServices
<1>7. ASSUME NEW S, StopServices(S)
      PROVE  status[s] = "restarting" /\ timers' = timers /\ tasks' = tasks
  BY <1>7 DEF StopServices
<1>8. ASSUME NEW q \in Names, RestartService(q)
      PROVE  timers'[s] > 0 \/ \E k \in tasks' : k.svc = s
  <2>1. PICK i \in 1..MaxTasks :
          tasks' = tasks \cup {[id |-> i, svc |-> q, term |-> termOf[q],
                               step |-> IF termOf[q] = None THEN "start" ELSE "kill"]}
    BY <1>8 DEF RestartService
  <2>2. status' = [status EXCEPT ![q] = "restarting"] /\ timers' = timers
    BY <1>8 DEF RestartService
  <2>3. CASE s = q
    <3> DEFINE asked == [id |-> i, svc |-> q, term |-> termOf[q],
                         step |-> IF termOf[q] = None THEN "start" ELSE "kill"]
    <3>1. asked \in tasks'
      BY <2>1
    <3>2. asked.svc = s
      BY <2>3
    <3> QED BY <3>1, <3>2
  <2>4. CASE s # q
    <3>1. status[s] = "restarting"
      BY <2>2, <2>4, <1>0 DEF TypeOK
    <3> QED BY <3>1, <2>1, <2>2 DEF RestartIsPending
  <2> QED BY <2>3, <2>4
<1>9. ASSUME NEW k \in tasks, RestartKills(k)
      PROVE  timers'[s] > 0 \/ \E j \in tasks' : j.svc = s
  <2>1. /\ status[s] = "restarting" /\ timers' = timers
        /\ tasks' = (tasks \ {k}) \cup {[k EXCEPT !.step = "start"]}
        /\ [k EXCEPT !.step = "start"].svc = k.svc
    BY <1>0, <1>9 DEF RestartKills, TypeOK
  <2> QED BY <2>1 DEF RestartIsPending
<1>10. ASSUME NEW k \in tasks, RestartStarts(k)
       PROVE  timers'[s] > 0 \/ \E j \in tasks' : j.svc = s
  <2>1. tasks' = tasks \ {k} /\ timers' = timers
    BY <1>10 DEF RestartStarts
  <2>2. status[s] = "restarting" /\ s \notin {q \in {k.svc} : status[q] = "restarting"}
    BY <1>0, <1>10, StartEndsRestarting DEF RestartStarts
  <2> QED BY <2>1, <2>2 DEF RestartIsPending
<1>11. ASSUME NEW q \in Names, TimerFires(q)
       PROVE  timers'[s] > 0 \/ \E k \in tasks' : k.svc = s
  <2>1. status[s] = "restarting" /\ s \notin (IF loaded THEN {q} ELSE {})
    BY <1>0, <1>11, StartEndsRestarting DEF TimerFires
  <2>2. loaded /\ s # q
    BY <2>1, <1>0
  <2>3. tasks' = tasks /\ timers'[s] = timers[s]
    BY <2>2, <1>0, <1>11 DEF TimerFires, TypeOK
  <2> QED BY <2>1, <2>3 DEF RestartIsPending
<1>12. ASSUME NEW p \in Terminals, ProcessEnds(p)
       PROVE  status[s] = "restarting" /\ timers' = timers /\ tasks' = tasks
  BY <1>12 DEF ProcessEnds, manager
<1>13. ASSUME NEW p \in Terminals, HandleExit(p)
       PROVE  timers'[s] > 0 \/ \E k \in tasks' : k.svc = s
  <2>1. tasks' = tasks
    BY <1>13 DEF HandleExit
  <2>2. CASE owner[p] \in Known /\ ServiceExited(owner[p])
    <3>1. owner[p] \in Names
      BY <2>2 DEF Known
    <3>2. CASE s = owner[p]
      BY <2>2, <3>1, <3>2, <1>0 DEF ServiceExited, TypeOK
    <3>3. CASE s # owner[p]
      <4>1. status[s] = "restarting" /\ timers'[s] = timers[s]
        BY <2>2, <3>1, <3>3, <1>0 DEF ServiceExited, TypeOK
      <4> QED BY <4>1, <2>1 DEF RestartIsPending
    <3> QED BY <3>2, <3>3
  <2>3. CASE status' = status /\ timers' = timers
    BY <1>1, <2>1, <2>3
  <2> QED BY <1>13, <2>2, <2>3 DEF HandleExit
<1> QED BY <1>1, <1>2, <1>3, <1>4, <1>5, <1>6, <1>7, <1>8, <1>9, <1>10, <1>11, <1>12, <1>13
       DEF Next, UserStep

\* A service shown as running has a process, or the exit of it is on its way;
\* one shown as restarting has a timer or a task that will start it.
THEOREM StatusBacked == Spec => []StatusIsBacked
<1>1. Init => RestartIsPending
  BY DEF Init, RestartIsPending
<1>2. ServicesInv /\ RestartIsPending => StatusIsBacked
  BY DEF ServicesInv, StatusIsBacked
<1> QED BY <1>1, <1>2, ServicesInvariant, RestartPendingStep, PTL DEF Spec

-----------------------------------------------------------------------------
(* A stop wins over the restart it interrupts.                             *)

\* A start touches the status of no service it was not asked to start.
LEMMA StartTouches ==
  ASSUME NEW S, Start(S), NEW s \in Names, status[s] = "stopped", status'[s] = "running"
  PROVE  s \in S
BY DEF Start

LEMMA StopWinsStep ==
  ServicesInv /\ [Next]_vars =>
    [\A s \in Names :
       status[s] = "stopped" /\ status'[s] = "running"
       => timers'[s] < timers[s] \/ StartServices({s}) \/ StartServices(Known)]_vars
<1> SUFFICES ASSUME ServicesInv, [Next]_vars, NEW s \in Names,
                    status[s] = "stopped", status'[s] = "running"
             PROVE  timers'[s] < timers[s] \/ StartServices({s}) \/ StartServices(Known)
  OBVIOUS
<1>0. CASE UNCHANGED vars
  BY <1>0 DEF vars, manager
<1>1. ASSUME NEW cfg \in SUBSET Names, Load(cfg) PROVE FALSE
  BY <1>1 DEF Load, ServicesInv, Bookkeeping, Known
<1>2. ASSUME NEW cfg \in SUBSET Names, Reload(cfg) PROVE FALSE
  BY <1>2 DEF Reload
<1>3. CASE Unload
  BY <1>3 DEF Unload
<1>4. ASSUME NEW S, StartServices(S) PROVE s \in S
  BY <1>4, StartTouches DEF StartServices
<1>5. ASSUME NEW S, StopServices(S) PROVE FALSE
  BY <1>5 DEF StopServices
<1>6. ASSUME NEW q \in Names, RestartService(q) PROVE FALSE
  BY <1>6 DEF RestartService, ServicesInv, TypeOK
<1>7. ASSUME NEW k \in tasks, RestartKills(k) PROVE FALSE
  BY <1>7 DEF RestartKills
<1>8. ASSUME NEW k \in tasks, RestartStarts(k) PROVE FALSE
  BY <1>8, StartTouches DEF RestartStarts
<1>9. ASSUME NEW q \in Names, TimerFires(q) PROVE timers'[s] < timers[s]
  <2>1. s \in IF loaded THEN {q} ELSE {}
    BY <1>9, StartTouches DEF TimerFires
  <2> QED BY <1>9, <2>1 DEF TimerFires, ServicesInv, TypeOK
<1>10. ASSUME NEW p \in Terminals, ProcessEnds(p) PROVE FALSE
  BY <1>10 DEF ProcessEnds, manager
<1>11. ASSUME NEW p \in Terminals, HandleExit(p) PROVE FALSE
  BY <1>11 DEF HandleExit, ServiceExited, ServicesInv, TypeOK
<1>12. ASSUME NEW S \in {{q} : q \in Names} \cup {Known}, StartServices(S)
       PROVE  StartServices({s}) \/ StartServices(Known)
  <2>1. S = {s} \/ S = Known
    BY <1>4, <1>12
  <2> QED BY <1>12, <2>1
<1> QED BY <1>0, <1>1, <1>2, <1>3, <1>5, <1>6, <1>7, <1>8, <1>9, <1>10, <1>11, <1>12
       DEF Next, UserStep

\* No restart under way starts a service the user stopped: only the user does,
\* or the delay of an automatic restart that ran before the stop.
THEOREM StopIsFinal == Spec => StopWinsOverRestart
BY ServicesInvariant, StopWinsStep, PTL DEF Spec, StopWinsOverRestart

=============================================================================
