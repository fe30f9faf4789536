------------------------------ MODULE A2aProofs ------------------------------
(* What is proved of IdraExecutor, for every number of tasks, executions   *)
(* and text deltas: nothing follows the terminal status of a task, its     *)
(* text is the text its run streamed, and the status it ends with is the   *)
(* one its run reported.                                                   *)
EXTENDS A2aExecutor, TaskStore, SequenceLemmas, FiniteSetTheorems, TLAPS


(* An execution numbers the chunks of its artifact from 1.                 *)
States == [terminal : BOOLEAN, artifactStarted : BOOLEAN,
           pendingDelta : {NoDelta} \cup (Executions \X (0..MaxDeltas))]
Statuses == [status : {"submitted", "working"} \cup TerminalStatuses]
ArtifactChunks == [delta : Executions \X (0..MaxDeltas), append : BOOLEAN, last : BOOLEAN]
Events == Statuses \cup ArtifactChunks

NoTerminal(q) == \A i \in DOMAIN q : ~IsTerminal(q[i])

(* Bus q holds the two opening statuses, then the first n chunks of the    *)
(* stream of x, then, if the task has ended, its terminal status.          *)
Numbered(q, x, n, ended) ==
    /\ \A i \in 1..2 : IsStatus(q[i]) /\ ~IsTerminal(q[i])
    /\ \A k \in 1..n : q[k + 2] = Chunk(<<x, k>>, k > 1, ended /\ k = n)

Text(q, x, n, ended) ==
    /\ Len(q) = IF ended THEN n + 3 ELSE n + 2
    /\ Numbered(q, x, n, ended)
    /\ ended => IsTerminal(q[n + 3])

(* Delta n + 1 of x is pending, and the artifact is open if there was one. *)
Pends(s, x, n) == s.artifactStarted = (n > 0) /\ s.pendingDelta = <<x, n + 1>>

Opening == <<Status("submitted"), Status("working")>>

-----------------------------------------------------------------------------
LEMMA EventKinds ==
    /\ \A w : /\ IsStatus(Status(w)) /\ Status(w).status = w
              /\ IsTerminal(Status(w)) <=> w \in TerminalStatuses
    /\ \A d, a, l : ~IsStatus(Chunk(d, a, l)) /\ ~IsTerminal(Chunk(d, a, l))
BY DEF IsStatus, IsTerminal, Status, Chunk

LEMMA PublishDeltaEvents ==
    ASSUME NEW s \in States, NEW last \in BOOLEAN
    PROVE  /\ PublishDelta(s, last) \in Seq(Events)
           /\ s.pendingDelta = NoDelta => PublishDelta(s, last) = <<>>
           /\ s.pendingDelta # NoDelta =>
                PublishDelta(s, last) = <<Chunk(s.pendingDelta, s.artifactStarted, last)>>
<1>1. CASE s.pendingDelta = NoDelta
  <2>1. PublishDelta(s, last) = <<>>
    BY <1>1 DEF PublishDelta
  <2>2. <<>> \in Seq(Events)
    OBVIOUS
  <2>3. QED
    BY <1>1, <2>1, <2>2
<1>2. CASE s.pendingDelta # NoDelta
  <2>1. PublishDelta(s, last) = <<Chunk(s.pendingDelta, s.artifactStarted, last)>>
    BY <1>2 DEF PublishDelta
  <2>2. Chunk(s.pendingDelta, s.artifactStarted, last) \in Events
    BY <1>2 DEF States, Events, ArtifactChunks, Chunk
  <2>3. QED
    BY <1>2, <2>1, <2>2
<1>3. QED
  BY <1>1, <1>2

LEMMA StatusEvents ==
    /\ \A reason : StatusOf(reason) \in TerminalStatuses
    /\ \A reason : Status(StatusOf(reason)) \in Events
    /\ Opening \in Seq(Events)
<1>1. \A reason : StatusOf(reason) \in TerminalStatuses
  BY DEF StatusOf, TerminalStatuses
<1>2. \A w \in {"submitted", "working"} \cup TerminalStatuses : Status(w) \in Events
  BY DEF Events, Statuses, Status
<1>3. Opening \in Seq(Events)
  BY <1>2 DEF Opening
<1>4. QED
  BY <1>1, <1>2, <1>3

(* Events that are no terminal status leave the bus without one.           *)
LEMMA StaysOpen ==
    ASSUME NEW q \in Seq(Events), NoTerminal(q), NEW w \in Seq(Events), NoTerminal(w)
    PROVE  q \o w \in Seq(Events) /\ NoTerminal(q \o w)
<1>. DEFINE m == q \o w
<1>1. /\ m \in Seq(Events) /\ Len(m) = Len(q) + Len(w)
      /\ Len(q) \in Nat /\ Len(w) \in Nat
      /\ DOMAIN m = 1..Len(m) /\ DOMAIN q = 1..Len(q) /\ DOMAIN w = 1..Len(w)
      /\ \A i \in 1..Len(m) : m[i] = IF i <= Len(q) THEN q[i] ELSE w[i - Len(q)]
  BY ConcatProperties, LenProperties
<1>. HIDE DEF m
<1>2. ASSUME NEW i \in DOMAIN m PROVE ~IsTerminal(m[i])
  <2>1. i \in 1..Len(q) \/ (~(i <= Len(q)) /\ i - Len(q) \in 1..Len(w))
    BY <1>1
  <2>2. QED
    BY <1>1, <2>1 DEF NoTerminal
<1>3. QED
  BY <1>1, <1>2 DEF m, NoTerminal

LEMMA DeltaIsOpen ==
    ASSUME NEW s \in States, NEW last \in BOOLEAN
    PROVE  NoTerminal(PublishDelta(s, last))
<1>. DEFINE d == PublishDelta(s, last)
<1>1. /\ d = <<>> \/ d = <<Chunk(s.pendingDelta, s.artifactStarted, last)>>
      /\ d \in Seq(Events)
  BY PublishDeltaEvents
<1>. HIDE DEF d
<1>2. CASE d = <<>>
  BY <1>2 DEF NoTerminal, d
<1>3. CASE d = <<Chunk(s.pendingDelta, s.artifactStarted, last)>>
  <2>1. DOMAIN d = {1} /\ d[1] = Chunk(s.pendingDelta, s.artifactStarted, last)
    BY <1>3
  <2>2. QED
    BY <2>1, EventKinds DEF NoTerminal, d
<1>4. QED
  BY <1>1, <1>2, <1>3

LEMMA OpeningIsOpen ==
    NoTerminal(Opening)
<1>1. /\ DOMAIN Opening = {1, 2}
      /\ Opening[1] = Status("submitted") /\ Opening[2] = Status("working")
  BY DEF Opening
<1>2. QED
  BY <1>1, EventKinds DEF NoTerminal, TerminalStatuses

LEMMA OneMore ==
    ASSUME NEW q \in Seq(Events), NEW e \in Events
    PROVE  /\ q \o <<e>> \in Seq(Events) /\ Len(q \o <<e>>) = Len(q) + 1
           /\ Len(q) \in Nat /\ DOMAIN q = 1..Len(q)
           /\ DOMAIN (q \o <<e>>) = 1..(Len(q) + 1)
           /\ \A i \in 1..Len(q) : (q \o <<e>>)[i] = q[i]
           /\ (q \o <<e>>)[Len(q) + 1] = e
<1>. DEFINE w == <<e>>
            p == q \o w
<1>1. w \in Seq(Events) /\ Len(w) = 1 /\ w[1] = e
  OBVIOUS
<1>. HIDE DEF w
<1>2. /\ p \in Seq(Events) /\ Len(p) = Len(q) + Len(w)
      /\ \A i \in 1..(Len(q) + Len(w)) : p[i] = IF i <= Len(q) THEN q[i] ELSE w[i - Len(q)]
  BY <1>1, ConcatProperties
<1>. HIDE DEF p
<1>3. Len(q) \in Nat /\ DOMAIN q = 1..Len(q) /\ DOMAIN p = 1..Len(p)
  BY <1>2, LenProperties
<1>4. /\ Len(q) + 1 \in 1..(Len(q) + Len(w)) /\ ~(Len(q) + 1 <= Len(q))
      /\ (Len(q) + 1) - Len(q) = 1
  BY <1>1, <1>3
<1>5. p[Len(q) + 1] = e
  BY <1>1, <1>2, <1>4
<1>6. \A i \in 1..Len(q) : p[i] = q[i]
  BY <1>1, <1>2, <1>3
<1>7. QED
  BY <1>1, <1>2, <1>3, <1>5, <1>6 DEF p, w

(* A terminal status published last, on a bus without one, is the only one.*)
LEMMA EndingIsLast ==
    ASSUME NEW q \in Seq(Events), NoTerminal(q), NEW s \in States, NEW reason
    PROVE  LET p == q \o PublishDelta(s, TRUE) \o <<Status(StatusOf(reason))>>
           IN  /\ p \in Seq(Events)
               /\ \A i \in DOMAIN p :
                    IsTerminal(p[i]) => i = Len(p) /\ p[i].status = StatusOf(reason)
<1>. DEFINE m == q \o PublishDelta(s, TRUE)
            e == Status(StatusOf(reason))
            p == m \o <<e>>
<1>1. m \in Seq(Events) /\ NoTerminal(m) /\ e \in Events
  BY PublishDeltaEvents, DeltaIsOpen, StaysOpen, StatusEvents
<1>. HIDE DEF m, e
<1>2. /\ p \in Seq(Events) /\ Len(p) = Len(m) + 1 /\ Len(m) \in Nat
      /\ DOMAIN p = 1..(Len(m) + 1) /\ DOMAIN m = 1..Len(m)
      /\ \A i \in 1..Len(m) : p[i] = m[i]
      /\ p[Len(m) + 1] = e
  BY <1>1, OneMore
<1>. HIDE DEF p
<1>3. ASSUME NEW i \in DOMAIN p, IsTerminal(p[i])
      PROVE  i = Len(p) /\ p[i].status = StatusOf(reason)
  <2>1. ~(i \in 1..Len(m))
    BY <1>1, <1>2, <1>3 DEF NoTerminal
  <2>2. i = Len(m) + 1
    BY <2>1, <1>2
  <2>3. p[i] = e
    BY <2>2, <1>2
  <2>4. QED
    BY <2>2, <2>3, <1>2, EventKinds DEF e
<1>4. QED
  BY <1>2, <1>3 DEF p, m, e

-----------------------------------------------------------------------------
LEMMA TextOpens ==
    ASSUME NEW x
    PROVE  Text(<<>> \o Opening, x, 0, FALSE)
<1>1. /\ <<>> \o Opening = Opening /\ Len(Opening) = 2
      /\ Opening[1] = Status("submitted") /\ Opening[2] = Status("working")
  BY DEF Opening
<1>2. \A i \in 1..2 : i = 1 \/ i = 2
  OBVIOUS
<1>3. QED
  BY <1>1, <1>2, EventKinds DEF Text, Numbered, TerminalStatuses

(* The chunk that was pending is the next one of the text.                 *)
LEMMA TextGrows ==
    ASSUME NEW q \in Seq(Events), NEW x, NEW n \in Nat, Text(q, x, n, FALSE),
           NEW s \in States, Pends(s, x, n), NEW last \in BOOLEAN
    PROVE  LET p == q \o PublishDelta(s, last)
           IN  p \in Seq(Events) /\ Len(p) = n + 3 /\ Numbered(p, x, n + 1, last)
<1>. DEFINE d == PublishDelta(s, last)
            p == q \o d
<1>1. <<x, n + 1>> # NoDelta
  BY DEF NoDelta
<1>2. /\ d = <<Chunk(<<x, n + 1>>, n > 0, last)>> /\ d \in Seq(Events)
  BY <1>1, PublishDeltaEvents DEF Pends
<1>3. /\ Len(d) = 1 /\ d[1] = Chunk(<<x, n + 1>>, n > 0, last)
      /\ Len(q) = n + 2
  BY <1>2 DEF Text
<1>. HIDE DEF d
<1>4. /\ p \in Seq(Events) /\ Len(p) = n + 3
      /\ \A i \in 1..(n + 2) : p[i] = q[i]
      /\ p[n + 3] = d[1]
  <2>1. /\ p \in Seq(Events) /\ Len(p) = Len(q) + Len(d)
        /\ \A i \in 1..(Len(q) + Len(d)) : p[i] = IF i <= Len(q) THEN q[i] ELSE d[i - Len(q)]
    BY <1>2, ConcatProperties
  <2>. HIDE DEF p
  <2>2. n + 3 \in 1..(Len(q) + Len(d)) /\ ~(n + 3 <= Len(q)) /\ (n + 3) - Len(q) = 1
    BY <1>3
  <2>3. p[n + 3] = d[1]
    BY <2>1, <2>2
  <2>4. QED
    BY <1>3, <2>1, <2>3
<1>. HIDE DEF p
<1>5. ASSUME NEW k \in 1..(n + 1)
      PROVE  p[k + 2] = Chunk(<<x, k>>, k > 1, last /\ k = n + 1)
  <2>1. CASE k = n + 1
    <3>1. k + 2 = n + 3 /\ (k > 1) = (n > 0)
      BY <2>1
    <3>2. QED
      BY <2>1, <3>1, <1>3, <1>4
  <2>2. CASE k # n + 1
    <3>1. k \in 1..n /\ k + 2 \in 1..(n + 2)
      BY <2>2
    <3>2. q[k + 2] = Chunk(<<x, k>>, k > 1, FALSE)
      BY <3>1 DEF Text, Numbered
    <3>3. QED
      BY <2>2, <3>1, <3>2, <1>4
  <2>3. QED
    BY <2>1, <2>2
<1>6. \A i \in 1..2 : p[i] = q[i]
  BY <1>4
<1>7. QED
  BY <1>4, <1>5, <1>6 DEF Text, Numbered, p, d

(* The terminal status follows the text.                                   *)
LEMMA TextEnds ==
    ASSUME NEW q \in Seq(Events), NEW x, NEW n \in Nat, Len(q) = n + 2,
           Numbered(q, x, n, TRUE), NEW reason
    PROVE  Text(q \o <<Status(StatusOf(reason))>>, x, n, TRUE)
<1>. DEFINE e == <<Status(StatusOf(reason))>>
            p == q \o e
<1>1. e[1] = Status(StatusOf(reason))
  BY StatusEvents
<1>2. /\ Len(p) = n + 3
      /\ \A i \in 1..(n + 2) : p[i] = q[i]
      /\ p[n + 3] = e[1]
  BY <1>1, StatusEvents, OneMore DEF e
<1>. HIDE DEF p
<1>3. /\ \A i \in 1..2 : p[i] = q[i]
      /\ \A k \in 1..n : p[k + 2] = q[k + 2]
  BY <1>2
<1>4. IsTerminal(p[n + 3])
  BY <1>1, <1>2, StatusEvents, EventKinds
<1>5. QED
  BY <1>2, <1>3, <1>4 DEF Text, Numbered, p, e

(* Which events are chunks, and which are terminal.                        *)
LEMMA TextRead ==
    ASSUME NEW q \in Seq(Events), NEW x, NEW n \in Nat, NEW ended \in BOOLEAN,
           Text(q, x, n, ended)
    PROVE  /\ {i \in DOMAIN q : ~IsStatus(q[i])} = 3..(n + 2)
           /\ ended => {i \in DOMAIN q : IsTerminal(q[i])} = {n + 3}
           /\ ~ended => {i \in DOMAIN q : IsTerminal(q[i])} = {}
<1>1. DOMAIN q = 1..Len(q) /\ Len(q) = IF ended THEN n + 3 ELSE n + 2
  BY LenProperties DEF Text
<1>2. \A i \in 1..2 : IsStatus(q[i]) /\ ~IsTerminal(q[i])
  BY DEF Text, Numbered
<1>3. ASSUME NEW i \in 3..(n + 2)
      PROVE  ~IsStatus(q[i]) /\ ~IsTerminal(q[i])
  <2>1. i - 2 \in 1..n /\ (i - 2) + 2 = i
    OBVIOUS
  <2>2. q[i] = Chunk(<<x, i - 2>>, i - 2 > 1, ended /\ i - 2 = n)
    BY <2>1 DEF Text, Numbered
  <2>3. QED
    BY <2>2, EventKinds
<1>4. ended => IsTerminal(q[n + 3]) /\ IsStatus(q[n + 3])
  BY DEF Text, IsTerminal
<1>5. \A i \in DOMAIN q : i \in 1..2 \/ i \in 3..(n + 2) \/ (ended /\ i = n + 3)
  BY <1>1
<1>6. /\ \A i \in 3..(n + 2) : i \in DOMAIN q /\ i # n + 3
      /\ \A i \in 1..2 : ~(i \in 3..(n + 2)) /\ i # n + 3
      /\ ended => n + 3 \in DOMAIN q
      /\ ~(n + 3 \in 3..(n + 2))
  BY <1>1
<1>7. QED
  BY <1>2, <1>3, <1>4, <1>5, <1>6

-----------------------------------------------------------------------------
(* ExecutorTypeOK with the types of the Map, the states and the buses.     *)
MapSending ==
    \A t \in Tasks : activeRuns[t] # None =>
        TaskOf[activeRuns[t]] = t /\ phase[activeRuns[t]] = "sending"

PortTypes ==
    /\ run \in [Executions -> RunStatuses]
    /\ aborted \in SUBSET Executions
    /\ stopReason \in [Executions -> StopReasons \cup {"none"}]
    /\ emitted \in [Executions -> 0..MaxDeltas]
    /\ response \in [Executions -> {"pending", "text", "empty", "rejected"}]
    /\ cancelledBy \in SUBSET Tasks
    /\ cutOff \in SUBSET Executions

ExecutorTypes ==
    /\ activeRuns \in [Tasks -> Executions \cup {None}]
    /\ state \in [Executions -> States]
    /\ published \in [Tasks -> Seq(Events)]
    /\ phase \in [Executions -> {"idle", "refused", "sending", "done"}]
    /\ MapSending
    /\ PortTypes

(* The task whose state the Map holds open has no terminal status: this is *)
(* what lets finish() trust the flag of the state it finds.                *)
MapOpen ==
    \A t \in Tasks :
        activeRuns[t] # None /\ ~state[activeRuns[t]].terminal => NoTerminal(published[t])

LastOnly(t) ==
    \A i \in DOMAIN published[t] : IsTerminal(published[t][i]) => i = Len(published[t])

BusInv ==
    /\ ExecutorTypes
    /\ MapOpen
    /\ \A t \in Tasks : LastOnly(t)

LEMMA TypesImplyTypeOK ==
    ExecutorTypes => ExecutorTypeOK
<1>. SUFFICES ASSUME ExecutorTypes PROVE ExecutorTypeOK
  OBVIOUS
<1>1. \A s \in States :
        /\ DOMAIN s = DOMAIN ActiveRun
        /\ {s.terminal, s.artifactStarted} \subseteq BOOLEAN
        /\ s.pendingDelta \in {NoDelta} \cup (Executions \X (0..MaxDeltas))
  BY DEF States, ActiveRun
<1>2. \A x \in Executions : state[x] \in States
  BY DEF ExecutorTypes
<1>3. QED
  BY <1>1, <1>2 DEF ExecutorTypes, ExecutorTypeOK, MapSending, PortTypes

LEMMA FinishedTypes ==
    ASSUME NEW s \in States
    PROVE  /\ Finished(s) \in States
           /\ Finished(s).terminal
           /\ Finished(s).pendingDelta = s.pendingDelta
           /\ s.terminal => Finished(s) = s
BY DEF Finished, States

LEMMA FinishWithEffect ==
    ASSUME ExecutorTypes, NEW t \in Tasks, LastOnly(t), NEW s \in States,
           ~s.terminal => NoTerminal(published[t]), NEW reason, FinishWith(t, s, reason)
    PROVE  /\ published' \in [Tasks -> Seq(Events)]
           /\ \A u \in Tasks \ {t} : published'[u] = published[u]
           /\ LastOnly(t)'
           /\ s.terminal => published' = published
           /\ ~s.terminal =>
                /\ published'[t] =
                      published[t] \o PublishDelta(s, TRUE) \o <<Status(StatusOf(reason))>>
                /\ \A i \in DOMAIN published'[t] :
                      IsTerminal(published'[t][i]) => published'[t][i].status = StatusOf(reason)
<1>1. CASE s.terminal
  BY <1>1 DEF FinishWith, ExecutorTypes, LastOnly
<1>2. CASE ~s.terminal
  <2>. DEFINE p == published[t] \o PublishDelta(s, TRUE) \o <<Status(StatusOf(reason))>>
  <2>1. published[t] \in Seq(Events) /\ NoTerminal(published[t])
    BY <1>2 DEF ExecutorTypes
  <2>2. /\ p \in Seq(Events)
        /\ \A i \in DOMAIN p :
             IsTerminal(p[i]) => i = Len(p) /\ p[i].status = StatusOf(reason)
    BY <2>1, EndingIsLast
  <2>3. published' = [published EXCEPT ![t] = p]
    BY <1>2 DEF FinishWith
  <2>. HIDE DEF p
  <2>4. /\ published'[t] = p /\ published' \in [Tasks -> Seq(Events)]
        /\ \A u \in Tasks \ {t} : published'[u] = published[u]
    BY <2>2, <2>3 DEF ExecutorTypes
  <2>5. LastOnly(t)'
    BY <2>2, <2>4 DEF LastOnly
  <2>6. QED
    BY <1>2, <2>2, <2>4, <2>5 DEF p
<1>3. QED
  BY <1>1, <1>2

LEMMA FinishEffect ==
    ASSUME BusInv, NEW t \in Tasks, NEW reason, Finish(t, reason)
    PROVE  /\ published' \in [Tasks -> Seq(Events)]
           /\ state' \in [Executions -> States]
           /\ \A u \in Tasks \ {t} : published'[u] = published[u]
           /\ LastOnly(t)'
           /\ activeRuns[t] = None => UNCHANGED <<state, published>>
           /\ \A x \in Executions : activeRuns[t] # x => state'[x] = state[x]
           /\ \A x \in Executions : activeRuns[t] = x =>
                /\ state'[x] = Finished(state[x]) /\ state'[x].terminal
                /\ state[x].terminal => UNCHANGED <<state, published>>
                /\ ~state[x].terminal =>
                     /\ published'[t] = published[t] \o PublishDelta(state[x], TRUE)
                                          \o <<Status(StatusOf(reason))>>
                     /\ \A i \in DOMAIN published'[t] :
                          IsTerminal(published'[t][i]) => published'[t][i].status = StatusOf(reason)
<1>0. ExecutorTypes /\ LastOnly(t) /\ None \notin Executions
  BY ExecutorAssumption DEF BusInv
<1>1. CASE activeRuns[t] = None
  BY <1>0, <1>1 DEF Finish, ExecutorTypes, LastOnly
<1>2. CASE activeRuns[t] # None
  <2>. DEFINE x == activeRuns[t]
  <2>1. x \in Executions /\ state[x] \in States
    BY <1>0, <1>2 DEF ExecutorTypes
  <2>2. /\ FinishWith(t, state[x], reason)
        /\ state' = [state EXCEPT ![x] = Finished(@)]
    BY <1>2 DEF Finish
  <2>3. ~state[x].terminal => NoTerminal(published[t])
    BY <1>2 DEF BusInv, MapOpen
  <2>. HIDE DEF x
  <2>4. /\ published' \in [Tasks -> Seq(Events)]
        /\ \A u \in Tasks \ {t} : published'[u] = published[u]
        /\ LastOnly(t)'
        /\ state[x].terminal => published' = published
        /\ ~state[x].terminal =>
             /\ published'[t] =
                   published[t] \o PublishDelta(state[x], TRUE) \o <<Status(StatusOf(reason))>>
             /\ \A i \in DOMAIN published'[t] :
                   IsTerminal(published'[t][i]) => published'[t][i].status = StatusOf(reason)
    BY <1>0, <2>1, <2>2, <2>3, FinishWithEffect
  <2>5. /\ Finished(state[x]) \in States /\ Finished(state[x]).terminal
        /\ state[x].terminal => Finished(state[x]) = state[x]
    BY <2>1, FinishedTypes
  <2>6. /\ state' \in [Executions -> States]
        /\ state'[x] = Finished(state[x])
        /\ \A y \in Executions : y # x => state'[y] = state[y]
    BY <1>0, <2>1, <2>2, <2>5 DEF ExecutorTypes
  <2>7. state[x].terminal => state' = state
    BY <1>0, <2>1, <2>2, <2>5 DEF ExecutorTypes
  <2>8. QED
    BY <1>0, <1>2, <2>1, <2>4, <2>5, <2>6, <2>7 DEF x
<1>3. QED
  BY <1>1, <1>2

LEMMA HandleDeltaEffect ==
    ASSUME BusInv, NEW t \in Tasks, NEW delta \in Executions \X (0..MaxDeltas),
           HandleDelta(t, delta)
    PROVE  /\ published' \in [Tasks -> Seq(Events)]
           /\ state' \in [Executions -> States]
           /\ \A u \in Tasks \ {t} : published'[u] = published[u]
           /\ LastOnly(t)'
           /\ NoTerminal(published[t]) => NoTerminal(published'[t])
           /\ activeRuns[t] = None => UNCHANGED <<state, published>>
           /\ \A x \in Executions : activeRuns[t] # x => state'[x] = state[x]
           /\ \A x \in Executions : activeRuns[t] = x =>
                /\ state[x].terminal => UNCHANGED <<state, published>>
                /\ ~state[x].terminal =>
                     /\ published'[t] = published[t] \o PublishDelta(state[x], FALSE)
                     /\ ~state'[x].terminal
                     /\ state'[x].pendingDelta = delta
                     /\ state'[x].artifactStarted <=>
                          (state[x].artifactStarted \/ state[x].pendingDelta # NoDelta)
<1>0. ExecutorTypes /\ LastOnly(t) /\ None \notin Executions
  BY ExecutorAssumption DEF BusInv
<1>1. CASE activeRuns[t] = None \/ state[activeRuns[t]].terminal
  <2>1. UNCHANGED <<state, published>>
    BY <1>1 DEF HandleDelta
  <2>2. QED
    BY <1>0, <1>1, <2>1 DEF ExecutorTypes, LastOnly
<1>2. CASE activeRuns[t] # None /\ ~state[activeRuns[t]].terminal
  <2>. DEFINE x == activeRuns[t]
              p == published[t] \o PublishDelta(state[x], FALSE)
              r == [state[x] EXCEPT !.pendingDelta = delta,
                        !.artifactStarted = state[x].artifactStarted
                                            \/ state[x].pendingDelta # NoDelta]
  <2>1. x \in Executions /\ state[x] \in States /\ ~state[x].terminal
    BY <1>0, <1>2 DEF ExecutorTypes
  <2>2. /\ published' = [published EXCEPT ![t] = p]
        /\ state' = [state EXCEPT ![x] = r]
    BY <1>0, <1>2, <2>1 DEF HandleDelta, ExecutorTypes, States
  <2>3. published[t] \in Seq(Events) /\ NoTerminal(published[t])
    BY <1>0, <1>2 DEF BusInv, MapOpen, ExecutorTypes
  <2>. HIDE DEF x
  <2>4. p \in Seq(Events) /\ NoTerminal(p)
    BY <2>1, <2>3, PublishDeltaEvents, DeltaIsOpen, StaysOpen
  <2>5. /\ r \in States /\ ~r.terminal /\ r.pendingDelta = delta
        /\ r.artifactStarted <=> (state[x].artifactStarted \/ state[x].pendingDelta # NoDelta)
    BY <2>1 DEF States
  <2>. HIDE DEF p, r
  <2>6. /\ state' \in [Executions -> States]
        /\ state'[x] = r
        /\ \A y \in Executions : y # x => state'[y] = state[y]
    BY <1>0, <2>1, <2>2, <2>5 DEF ExecutorTypes
  <2>7. /\ published' \in [Tasks -> Seq(Events)]
        /\ \A u \in Tasks \ {t} : published'[u] = published[u]
        /\ published'[t] = p
    BY <1>0, <2>2, <2>4 DEF ExecutorTypes
  <2>8. LastOnly(t)'
    BY <2>4, <2>7 DEF LastOnly, NoTerminal
  <2>9. QED
    BY <1>0, <1>2, <2>1, <2>4, <2>5, <2>6, <2>7, <2>8 DEF x, p
<1>3. QED
  BY <1>1, <1>2

(* What execute() does after the await, when its own state is open.  It    *)
(* may find the state of a later execution in the Map.                     *)
Told(x) ==
    [state[x] EXCEPT !.pendingDelta =
        IF response[x] = "text" /\ ~state[x].artifactStarted /\ state[x].pendingDelta = NoDelta
        THEN WholeText(x) ELSE @]
Verdict(x) == IF response[x] = "rejected" THEN "error" ELSE "end_turn"

LEMMA FinishOwnEffect ==
    ASSUME BusInv, NEW x \in Executions, ~state[x].terminal, FinishOwn(x)
    PROVE  LET t == TaskOf[x] IN
           /\ published' \in [Tasks -> Seq(Events)]
           /\ state' \in [Executions -> States]
           /\ \A u \in Tasks \ {t} : published'[u] = published[u]
           /\ LastOnly(t)'
           /\ \A y \in Executions : TaskOf[y] # t => state'[y] = state[y]
           /\ \A y \in Executions : y # x /\ y # activeRuns[t] => state'[y] = state[y]
           /\ activeRuns[t] = x =>
                /\ state'[x].terminal
                /\ published'[t] = published[t] \o PublishDelta(Told(x), TRUE)
                                     \o <<Status(StatusOf(Verdict(x)))>>
                /\ \A i \in DOMAIN published'[t] :
                     IsTerminal(published'[t][i]) =>
                        published'[t][i].status = StatusOf(Verdict(x))
<1>. DEFINE t == TaskOf[x]
            found == activeRuns[t]
            told == [state EXCEPT ![x] = Told(x)]
<1>0. /\ ExecutorTypes /\ t \in Tasks /\ LastOnly(t) /\ None \notin Executions
      /\ MaxDeltas \in Nat /\ found \in Executions \cup {None}
      /\ found # None => TaskOf[found] = t
      /\ state[x] \in States
  BY ExecutorAssumption DEF BusInv, ExecutorTypes, MapSending, PortTypes
<1>1. Told(x) \in States /\ ~Told(x).terminal
  <2>1. WholeText(x) \in Executions \X (0..MaxDeltas)
    BY <1>0 DEF WholeText
  <2>2. QED
    BY <1>0, <2>1 DEF Told, States
<1>2. [state EXCEPT ![x].pendingDelta =
          IF response[x] = "text" /\ ~state[x].artifactStarted /\ state[x].pendingDelta = NoDelta
          THEN WholeText(x) ELSE @] = told
  BY <1>0 DEF Told, ExecutorTypes
<1>3. /\ told \in [Executions -> States]
      /\ told[x] = Told(x)
      /\ \A y \in Executions : y # x => told[y] = state[y]
      /\ \A y \in Executions : told[y].terminal <=> state[y].terminal
  <2>1. /\ told \in [Executions -> States]
        /\ told[x] = Told(x)
        /\ \A y \in Executions : y # x => told[y] = state[y]
    BY <1>0, <1>1 DEF ExecutorTypes
  <2>. HIDE DEF told
  <2>2. QED
    BY <1>1, <2>1
<1>4. CASE found = None
  <2>1. state' = told /\ published' = published
    BY <1>2, <1>4 DEF FinishOwn
  <2>. HIDE DEF told
  <2>2. x # found
    BY <1>0, <1>4
  <2>3. LastOnly(t)'
    BY <1>0, <2>1 DEF LastOnly
  <2>4. \A y \in Executions : TaskOf[y] # t => y # x
    OBVIOUS
  <2>5. QED
    BY <1>0, <1>3, <2>1, <2>2, <2>3, <2>4 DEF ExecutorTypes
<1>5. CASE found # None
  <2>1. /\ FinishWith(t, told[found], Verdict(x))
        /\ state' = [told EXCEPT ![found] = Finished(@)]
    BY <1>2, <1>5 DEF FinishOwn, Verdict
  <2>2. found \in Executions /\ told[found] \in States /\ TaskOf[found] = t
    BY <1>0, <1>3, <1>5
  <2>. HIDE DEF told, found
  <2>3. ~told[found].terminal => NoTerminal(published[t])
    BY <1>0, <1>3, <1>5, <2>2 DEF BusInv, MapOpen, found
  <2>4. /\ published' \in [Tasks -> Seq(Events)]
        /\ \A u \in Tasks \ {t} : published'[u] = published[u]
        /\ LastOnly(t)'
        /\ ~told[found].terminal =>
             /\ published'[t] =
                   published[t] \o PublishDelta(told[found], TRUE) \o <<Status(StatusOf(Verdict(x)))>>
             /\ \A i \in DOMAIN published'[t] :
                   IsTerminal(published'[t][i]) => published'[t][i].status = StatusOf(Verdict(x))
    <3>1. PICK s \in States : s = told[found]
      BY <2>2
    <3>2. PICK reason : reason = Verdict(x)
      OBVIOUS
    <3>3. FinishWith(t, s, reason) /\ (~s.terminal => NoTerminal(published[t]))
      BY <2>1, <2>3, <3>1, <3>2
    <3>4. ExecutorTypes /\ LastOnly(t) /\ t \in Tasks
      BY <1>0
    <3>. HIDE DEF t
    <3>5. /\ published' \in [Tasks -> Seq(Events)]
          /\ \A u \in Tasks \ {t} : published'[u] = published[u]
          /\ LastOnly(t)'
          /\ ~s.terminal =>
               /\ published'[t] =
                     published[t] \o PublishDelta(s, TRUE) \o <<Status(StatusOf(reason))>>
               /\ \A i \in DOMAIN published'[t] :
                     IsTerminal(published'[t][i]) => published'[t][i].status = StatusOf(reason)
      BY <3>3, <3>4, FinishWithEffect
    <3>6. QED
      BY <3>1, <3>2, <3>5
  <2>5. Finished(told[found]) \in States /\ Finished(told[found]).terminal
    BY <2>2, FinishedTypes
  <2>6. /\ state' \in [Executions -> States]
        /\ state'[found] = Finished(told[found])
        /\ \A y \in Executions : y # found => state'[y] = told[y]
    BY <1>3, <2>1, <2>2, <2>5
  <2>7. /\ \A y \in Executions : TaskOf[y] # t => state'[y] = state[y]
        /\ \A y \in Executions : y # x /\ y # found => state'[y] = state[y]
    BY <1>3, <2>2, <2>6
  <2>8. QED
    BY <1>1, <1>3, <2>4, <2>5, <2>6, <2>7 DEF found
<1>6. QED
  BY <1>4, <1>5

-----------------------------------------------------------------------------
(* The bus invariant is kept by every step.                                *)
LEMMA BusInit ==
    ExecutorInit => BusInv
<1>. SUFFICES ASSUME ExecutorInit PROVE BusInv
  OBVIOUS
<1>1. ActiveRun \in States /\ 0 \in 0..MaxDeltas
  BY ExecutorAssumption DEF ActiveRun, States
<1>2. <<>> \in Seq(Events)
  OBVIOUS
<1>3. ExecutorTypes
  BY <1>1, <1>2 DEF ExecutorInit, ExecutorTypes, MapSending, PortTypes,
     StopReasons, RunStatuses
<1>4. MapOpen /\ \A t \in Tasks : LastOnly(t)
  BY DEF ExecutorInit, MapOpen, LastOnly
<1>5. QED
  BY <1>3, <1>4 DEF BusInv

LEMMA BusStep ==
    ASSUME BusInv, [ExecutorNext]_allVars
    PROVE  BusInv'
<1>. USE DEF BusInv
<1>0. /\ ExecutorTypes /\ MapOpen /\ \A t \in Tasks : LastOnly(t)
      /\ None \notin Executions /\ TaskOf \in [Executions -> Tasks] /\ MaxDeltas \in Nat
  BY ExecutorAssumption
<1>1. CASE UNCHANGED allVars
  BY <1>0, <1>1 DEF allVars, executorVars, portVars, ExecutorTypes, MapSending, PortTypes, MapOpen,
     LastOnly, NoTerminal
<1>2. ASSUME NEW x \in Executions, Refuse(x)
      PROVE  BusInv'
  <2>1. ExecutorTypes'
    BY <1>0, <1>2 DEF Refuse, portVars, ExecutorTypes, MapSending, PortTypes
  <2>2. QED
    BY <1>0, <1>2, <2>1 DEF Refuse, MapOpen, LastOnly, NoTerminal
<1>3. ASSUME NEW x \in Executions, Execute(x)
      PROVE  BusInv'
  <2>. DEFINE t == TaskOf[x]
  <2>1. /\ phase[x] = "idle" /\ NoTerminal(published[t])
        /\ activeRuns' = [activeRuns EXCEPT ![t] = x]
        /\ phase' = [phase EXCEPT ![x] = "sending"]
        /\ published' = [published EXCEPT ![t] = @ \o Opening]
        /\ UNCHANGED <<state, aborted, stopReason, emitted, cancelledBy, cutOff>>
        /\ run' \in [Executions -> RunStatuses]
        /\ response' \in [Executions -> {"pending", "text", "empty", "rejected"}]
    <3>1. /\ phase[x] = "idle" /\ NoTerminal(published[t])
          /\ activeRuns' = [activeRuns EXCEPT ![t] = x]
          /\ phase' = [phase EXCEPT ![x] = "sending"]
          /\ published' = [published EXCEPT ![t] = @ \o Opening]
          /\ UNCHANGED <<state, aborted, stopReason, emitted, cancelledBy, cutOff>>
      BY <1>3 DEF Execute, Opening, NoTerminal
    <3>2. /\ run' = run \/ run' = [run EXCEPT ![x] = "queued"]
          /\ response' = response \/ response' = [response EXCEPT ![x] = "rejected"]
      BY <1>3 DEF Execute
    <3>3. /\ run' \in [Executions -> RunStatuses]
          /\ response' \in [Executions -> {"pending", "text", "empty", "rejected"}]
      BY <1>0, <3>2 DEF ExecutorTypes, PortTypes, RunStatuses
    <3>4. QED
      BY <3>1, <3>3
  <2>2. t \in Tasks /\ published[t] \in Seq(Events)
    BY <1>0 DEF ExecutorTypes
  <2>3. published[t] \o Opening \in Seq(Events) /\ NoTerminal(published[t] \o Opening)
    BY <2>1, <2>2, StaysOpen, OpeningIsOpen, StatusEvents
  <2>4. /\ published' \in [Tasks -> Seq(Events)]
        /\ NoTerminal(published'[t])
        /\ \A u \in Tasks : u # t => published'[u] = published[u]
    BY <1>0, <2>1, <2>2, <2>3 DEF ExecutorTypes
  <2>5. ExecutorTypes'
    <3>1. activeRuns' \in [Tasks -> Executions \cup {None}] /\ state' \in [Executions -> States]
      BY <1>0, <2>1 DEF ExecutorTypes
    <3>2. \A u \in Tasks : activeRuns'[u] # None =>
             TaskOf[activeRuns'[u]] = u /\ phase'[activeRuns'[u]] = "sending"
      BY <1>0, <2>1 DEF ExecutorTypes, MapSending, PortTypes
    <3>3. PortTypes'
      BY <1>0, <2>1, <3>2 DEF ExecutorTypes, MapSending, PortTypes
    <3>4. QED
      BY <1>0, <2>1, <2>4, <3>1, <3>2, <3>3 DEF ExecutorTypes, MapSending
  <2>6. MapOpen'
    <3>1. \A u \in Tasks : u # t => activeRuns'[u] = activeRuns[u]
      BY <1>0, <2>1 DEF ExecutorTypes
    <3>2. QED
      BY <1>0, <2>1, <2>4, <3>1 DEF MapOpen
  <2>7. (\A u \in Tasks : LastOnly(u))'
    BY <1>0, <2>4 DEF LastOnly, NoTerminal
  <2>8. QED
    BY <2>5, <2>6, <2>7
<1>4. ASSUME UNCHANGED executorVars, UNCHANGED cancelledBy,
             run' \in [Executions -> RunStatuses], aborted' \subseteq Executions,
             UNCHANGED <<stopReason, emitted>>, cutOff' \subseteq Executions,
             response' \in [Executions -> {"pending", "text", "empty", "rejected"}]
      PROVE  BusInv'
  <2>1. UNCHANGED <<activeRuns, state, phase, published>>
    BY <1>4 DEF executorVars
  <2>2. PortTypes'
    BY <1>0, <1>4 DEF ExecutorTypes, PortTypes
  <2>3. ExecutorTypes'
    BY <1>0, <2>1, <2>2 DEF ExecutorTypes, MapSending
  <2>4. MapOpen' /\ (\A t \in Tasks : LastOnly(t))'
    BY <1>0, <2>1 DEF MapOpen, LastOnly
  <2>5. QED
    BY <2>3, <2>4
<1>5. ASSUME NEW x \in Executions, Start(x) \/ SettleRun(x) \/ LeaveRegistry(x)
      PROVE  BusInv'
  <2>1. /\ UNCHANGED executorVars /\ UNCHANGED cancelledBy /\ UNCHANGED aborted
        /\ UNCHANGED <<stopReason, emitted>> /\ UNCHANGED cutOff
        /\ \E w \in RunStatuses : run' = [run EXCEPT ![x] = w]
        /\ \/ response' = response
           \/ \E w \in {"text", "empty", "rejected"} : response' = [response EXCEPT ![x] = w]
    <3>1. CASE Start(x)
      BY <3>1 DEF Start, RunStatuses
    <3>2. CASE SettleRun(x)
      BY <3>2 DEF SettleRun, RunStatuses
    <3>3. CASE LeaveRegistry(x)
      BY <3>3 DEF LeaveRegistry, RunStatuses
    <3>4. QED
      BY <1>5, <3>1, <3>2, <3>3
  <2>2. /\ run' \in [Executions -> RunStatuses]
        /\ response' \in [Executions -> {"pending", "text", "empty", "rejected"}]
        /\ aborted \subseteq Executions /\ cutOff \subseteq Executions
    <3>1. /\ run \in [Executions -> RunStatuses]
          /\ response \in [Executions -> {"pending", "text", "empty", "rejected"}]
          /\ aborted \subseteq Executions /\ cutOff \subseteq Executions
      BY <1>0 DEF ExecutorTypes, PortTypes
    <3>2. PICK w \in RunStatuses : run' = [run EXCEPT ![x] = w]
      BY <2>1
    <3>3. run' \in [Executions -> RunStatuses]
      BY <3>1, <3>2
    <3>4. response' \in [Executions -> {"pending", "text", "empty", "rejected"}]
      <4>1. CASE response' = response
        BY <3>1, <4>1
      <4>2. CASE response' # response
        <5>1. PICK word \in {"text", "empty", "rejected"} : response' = [response EXCEPT ![x] = word]
          BY <2>1, <4>2
        <5>2. QED
          BY <3>1, <5>1
      <4>3. QED
        BY <4>1, <4>2
    <3>5. QED
      BY <3>1, <3>3, <3>4
  <2>3. QED
    BY <1>4, <2>1, <2>2
<1>6. CASE Shutdown
  BY <1>0, <1>4, <1>6 DEF Shutdown, CancelRuns, Registered, ExecutorTypes, MapSending, PortTypes,
     RunStatuses
<1>7. ASSUME NEW x \in Executions, Stream(x)
      PROVE  BusInv'
  <2>. DEFINE t == TaskOf[x]
              delta == <<x, emitted[x] + 1>>
  <2>1. t \in Tasks /\ delta \in Executions \X (0..MaxDeltas)
    BY <1>0, <1>7 DEF Stream, ExecutorTypes, MapSending, PortTypes
  <2>2. HandleDelta(t, delta)
    BY <1>7 DEF Stream
  <2>3. emitted' \in [Executions -> 0..MaxDeltas]
    BY <1>0, <1>7 DEF Stream, ExecutorTypes, MapSending, PortTypes
  <2>. HIDE DEF t, delta
  <2>4. /\ published' \in [Tasks -> Seq(Events)]
        /\ state' \in [Executions -> States]
        /\ \A u \in Tasks \ {t} : published'[u] = published[u]
        /\ LastOnly(t)'
        /\ NoTerminal(published[t]) => NoTerminal(published'[t])
        /\ activeRuns[t] = None => UNCHANGED <<state, published>>
        /\ \A y \in Executions : activeRuns[t] # y => state'[y] = state[y]
        /\ \A y \in Executions : activeRuns[t] = y =>
             (state[y].terminal => UNCHANGED <<state, published>>)
    BY <2>1, <2>2, HandleDeltaEffect
  <2>5. ExecutorTypes'
    BY <1>0, <1>7, <2>3, <2>4 DEF Stream, ExecutorTypes, MapSending, PortTypes
  <2>6. MapOpen'
    <3>0. activeRuns' = activeRuns
      BY <1>7 DEF Stream
    <3>1. SUFFICES ASSUME NEW u \in Tasks, activeRuns[u] # None,
                          ~state'[activeRuns[u]].terminal
                   PROVE  NoTerminal(published'[u])
      BY <3>0 DEF MapOpen
    <3>2. activeRuns[u] \in Executions /\ TaskOf[activeRuns[u]] = u
      BY <1>0, <3>1 DEF ExecutorTypes, MapSending
    <3>3. CASE u = t
      <4>1. ~state[activeRuns[u]].terminal
        BY <2>4, <3>1, <3>2, <3>3
      <4>2. NoTerminal(published[u])
        BY <1>0, <3>1, <4>1 DEF MapOpen
      <4>3. QED
        BY <2>4, <3>3, <4>2
    <3>4. CASE u # t
      <4>1. activeRuns[t] # activeRuns[u]
        BY <1>0, <2>1, <3>1, <3>2, <3>4 DEF ExecutorTypes, MapSending
      <4>2. NoTerminal(published[u])
        BY <1>0, <2>4, <3>1, <3>2, <4>1 DEF MapOpen
      <4>3. QED
        BY <2>4, <3>4, <4>2
    <3>5. QED
      BY <3>3, <3>4
  <2>7. (\A u \in Tasks : LastOnly(u))'
    BY <1>0, <2>1, <2>4 DEF LastOnly
  <2>8. QED
    BY <2>5, <2>6, <2>7
<1>8. ASSUME NEW t \in Tasks, NEW reason, Finish(t, reason), UNCHANGED <<activeRuns, phase>>, PortTypes'
      PROVE  BusInv'
  <2>1. /\ published' \in [Tasks -> Seq(Events)]
        /\ state' \in [Executions -> States]
        /\ \A u \in Tasks \ {t} : published'[u] = published[u]
        /\ LastOnly(t)'
        /\ activeRuns[t] = None => UNCHANGED <<state, published>>
        /\ \A y \in Executions : activeRuns[t] # y => state'[y] = state[y]
        /\ \A y \in Executions : activeRuns[t] = y => state'[y].terminal
    BY <1>8, FinishEffect
  <2>2. ExecutorTypes'
    BY <1>0, <1>8, <2>1 DEF ExecutorTypes, MapSending
  <2>3. MapOpen'
    <3>1. SUFFICES ASSUME NEW u \in Tasks, activeRuns[u] # None,
                          ~state'[activeRuns[u]].terminal
                   PROVE  NoTerminal(published'[u])
      BY <1>8 DEF MapOpen
    <3>2. activeRuns[u] \in Executions /\ TaskOf[activeRuns[u]] = u
      BY <1>0, <3>1 DEF ExecutorTypes, MapSending
    <3>3. activeRuns[t] # activeRuns[u] /\ u # t
      BY <2>1, <3>1, <3>2
    <3>4. NoTerminal(published[u])
      BY <1>0, <2>1, <3>1, <3>2, <3>3 DEF MapOpen
    <3>5. QED
      BY <2>1, <3>3, <3>4
  <2>4. (\A u \in Tasks : LastOnly(u))'
    BY <1>0, <2>1 DEF LastOnly
  <2>5. QED
    BY <2>2, <2>3, <2>4
<1>9. ASSUME NEW x \in Executions, Report(x)
      PROVE  BusInv'
  <2>1. PICK reason \in StopReasons :
          /\ stopReason' = [stopReason EXCEPT ![x] = reason]
          /\ Finish(TaskOf[x], reason)
    BY <1>9 DEF Report
  <2>2. TaskOf[x] \in Tasks
    BY <1>0
  <2>3. PortTypes'
    BY <1>0, <1>9, <2>1 DEF Report, ExecutorTypes, MapSending, PortTypes
  <2>4. UNCHANGED <<activeRuns, phase>>
    BY <1>9 DEF Report
  <2>5. QED
    BY <1>8, <2>1, <2>2, <2>3, <2>4
<1>10. ASSUME NEW t \in Tasks, CancelTask(t)
       PROVE  BusInv'
  <2>1. Finish(t, "cancelled") /\ UNCHANGED <<activeRuns, phase>>
    BY <1>10 DEF CancelTask
  <2>2. /\ run' \in [Executions -> RunStatuses]
        /\ response' \in [Executions -> {"pending", "text", "empty", "rejected"}]
        /\ aborted' \subseteq Executions /\ cancelledBy' \subseteq Tasks
        /\ UNCHANGED <<stopReason, emitted, cutOff>>
    BY <1>0, <1>10 DEF CancelTask, CancelRuns, Registered, ExecutorTypes, MapSending, PortTypes,
       RunStatuses
  <2>3. PortTypes'
    BY <1>0, <2>1, <2>2 DEF ExecutorTypes, MapSending, PortTypes
  <2>4. QED
    BY <1>8, <2>1, <2>3
<1>11. ASSUME NEW x \in Executions, Resume(x)
       PROVE  BusInv'
  <2>. DEFINE t == TaskOf[x]
  <2>0. t \in Tasks
    BY <1>0
  <2>1. /\ published' \in [Tasks -> Seq(Events)]
        /\ state' \in [Executions -> States]
        /\ \A u \in Tasks \ {t} : published'[u] = published[u]
        /\ LastOnly(t)'
        /\ \A y \in Executions : TaskOf[y] # t => state'[y] = state[y]
    <3>1. CASE state[x].terminal
      BY <1>0, <1>11, <3>1 DEF Resume, ExecutorTypes, LastOnly
    <3>2. CASE ~state[x].terminal
      BY <1>11, <3>2, FinishOwnEffect DEF Resume
    <3>3. QED
      BY <3>1, <3>2
  <2>2. /\ activeRuns' = [activeRuns EXCEPT ![t] = None]
        /\ phase' = [phase EXCEPT ![x] = "done"]
        /\ UNCHANGED <<portVars, cancelledBy, cutOff>>
    BY <1>11 DEF Resume, Forget
  <2>3. /\ activeRuns' \in [Tasks -> Executions \cup {None}]
        /\ activeRuns'[t] = None
        /\ \A u \in Tasks : u # t => activeRuns'[u] = activeRuns[u]
    BY <1>0, <2>0, <2>2 DEF ExecutorTypes
  <2>4. \A u \in Tasks : activeRuns'[u] # None =>
             TaskOf[activeRuns'[u]] = u /\ phase'[activeRuns'[u]] = "sending" /\ u # t
    BY <1>0, <2>2, <2>3 DEF ExecutorTypes, MapSending, PortTypes
  <2>5. ExecutorTypes'
    BY <1>0, <2>1, <2>2, <2>3, <2>4 DEF ExecutorTypes, MapSending, PortTypes, portVars
  <2>6. MapOpen'
    <3>1. \A u \in Tasks : activeRuns'[u] # None =>
             /\ u # t /\ activeRuns[u] = activeRuns'[u] /\ activeRuns[u] \in Executions
             /\ state'[activeRuns[u]] = state[activeRuns[u]]
      BY <1>0, <2>1, <2>3, <2>4 DEF ExecutorTypes
    <3>2. QED
      BY <1>0, <2>1, <3>1 DEF MapOpen, NoTerminal
  <2>7. (\A u \in Tasks : LastOnly(u))'
    BY <1>0, <2>0, <2>1 DEF LastOnly
  <2>8. QED
    BY <2>5, <2>6, <2>7
<1>12. QED
  BY <1>1, <1>2, <1>3, <1>5, <1>6, <1>7, <1>9, <1>10, <1>11 DEF ExecutorNext

(* Every variable keeps its type, and nothing is published on a task after *)
(* its terminal status.                                                    *)
THEOREM NothingAfterTheEnd ==
    ExecutorSpec => []TerminalIsLast
<1>1. BusInv => TerminalIsLast
  BY TypesImplyTypeOK DEF BusInv, TerminalIsLast, TerminalsOf, LastOnly
<1>2. BusInv /\ [ExecutorNext]_allVars => BusInv'
  BY BusStep
<1>3. QED
  BY BusInit, <1>1, <1>2, PTL DEF ExecutorSpec

-----------------------------------------------------------------------------
(* What is true of every execution and run.                                *)
Unmade ==
    \A x \in Executions : phase[x] \in {"idle", "refused"} =>
        /\ state[x] = ActiveRun
        /\ run[x] = "none"
        /\ stopReason[x] = "none"
        /\ response[x] = "pending"
        /\ emitted[x] = 0
        /\ x \notin aborted \cup cutOff

UnmadeTask ==
    \A t \in Tasks : Made(t) = {} => published[t] = <<>> /\ t \notin cancelledBy

RunsRespond ==
    \A x \in Executions :
        /\ run[x] \in {"queued", "running"} => response[x] = "pending"
        /\ run[x] = "queued" => stopReason[x] = "none" /\ emitted[x] = 0
        /\ phase[x] = "done" => run[x] \in {"none", "gone"}
        /\ response[x] = "text" => emitted[x] > 0

RunInv == Unmade /\ UnmadeTask /\ RunsRespond

LEMMA RunInit ==
    ExecutorInit => RunInv
BY DEF ExecutorInit, RunInv, Unmade, UnmadeTask, RunsRespond, ActiveRun

(* Only execute() makes an execution count, and nothing uncounts one.      *)
LEMMA MadeGrows ==
    ASSUME BusInv, [ExecutorNext]_allVars
    PROVE  /\ \A t \in Tasks : Made(t) \subseteq Made(t)'
           /\ \A x \in Executions : Execute(x) =>
                /\ x \notin Made(TaskOf[x])
                /\ Made(TaskOf[x])' = Made(TaskOf[x]) \cup {x}
                /\ \A t \in Tasks \ {TaskOf[x]} : Made(t)' = Made(t)
           /\ (\A x \in Executions : ~Execute(x)) => \A t \in Tasks : Made(t)' = Made(t)
<1>0. phase \in [Executions -> {"idle", "refused", "sending", "done"}]
  BY DEF BusInv, ExecutorTypes
<1>1. ASSUME phase' = phase PROVE \A t \in Tasks : Made(t)' = Made(t)
  BY <1>1 DEF Made
<1>2. ASSUME NEW x \in Executions, Refuse(x) \/ Resume(x)
      PROVE  \A t \in Tasks : Made(t)' = Made(t)
  <2>1. CASE Refuse(x)
    BY <1>0, <2>1 DEF Refuse, Made
  <2>2. CASE Resume(x)
    BY <1>0, <2>2 DEF Resume, Made
  <2>3. QED
    BY <1>2, <2>1, <2>2
<1>3. ASSUME NEW x \in Executions, Execute(x)
      PROVE  /\ x \notin Made(TaskOf[x])
             /\ Made(TaskOf[x])' = Made(TaskOf[x]) \cup {x}
             /\ \A t \in Tasks \ {TaskOf[x]} : Made(t)' = Made(t)
  <2>1. phase[x] = "idle" /\ phase' = [phase EXCEPT ![x] = "sending"]
    BY <1>3 DEF Execute
  <2>2. QED
    BY <1>0, <2>1 DEF Made
<1>4. CASE \E x \in Executions : Execute(x)
  BY <1>3, <1>4
<1>5. CASE \A x \in Executions : ~Execute(x)
  <2>1. \A x \in Executions :
           Start(x) \/ Stream(x) \/ Report(x) \/ SettleRun(x) \/ LeaveRegistry(x) => phase' = phase
    BY DEF Start, Stream, Report, SettleRun, LeaveRegistry, executorVars
  <2>2. (\E t \in Tasks : CancelTask(t)) \/ Shutdown \/ UNCHANGED allVars => phase' = phase
    BY DEF CancelTask, Shutdown, executorVars, allVars
  <2>3. \A t \in Tasks : Made(t)' = Made(t)
    BY <1>1, <1>2, <1>5, <2>1, <2>2 DEF ExecutorNext
  <2>4. QED
    BY <1>5, <2>3
<1>6. QED
  BY <1>4, <1>5

LEMMA RegisteredIsMade ==
    ASSUME BusInv, Unmade, NEW x \in Executions, run[x] # "none"
    PROVE  x \in Made(TaskOf[x])
BY DEF BusInv, ExecutorTypes, Unmade, Made

LEMMA UnmadeStep ==
    ASSUME BusInv, RunInv, [ExecutorNext]_allVars
    PROVE  Unmade'
<1>0. /\ ExecutorTypes /\ Unmade /\ RunsRespond
      /\ None \notin Executions /\ TaskOf \in [Executions -> Tasks]
  BY ExecutorAssumption DEF BusInv, RunInv
<1>. DEFINE Same(y) == /\ state'[y] = state[y] /\ run'[y] = run[y]
                       /\ stopReason'[y] = stopReason[y] /\ response'[y] = response[y]
                       /\ emitted'[y] = emitted[y]
                       /\ (y \in aborted') <=> (y \in aborted)
                       /\ (y \in cutOff') <=> (y \in cutOff)
<1>. DEFINE NotYet(y) == phase[y] \in {"idle", "refused"}
<1>1. SUFFICES ASSUME NEW y \in Executions, NotYet(y)'
               PROVE  NotYet(y) /\ Same(y)
  BY <1>0 DEF Unmade
<1>2. NotYet(y) => /\ run[y] = "none" /\ \A t \in Tasks : activeRuns[t] # y
                   /\ phase[y] # "sending"
  BY <1>0 DEF Unmade, ExecutorTypes, MapSending
<1>3. CASE UNCHANGED allVars
  BY <1>1, <1>3 DEF allVars, executorVars, portVars
<1>4. ASSUME NEW x \in Executions, Refuse(x)
      PROVE  NotYet(y) /\ Same(y)
  <2>1. Same(y)
    BY <1>4 DEF Refuse, portVars
  <2>2. NotYet(y)
    BY <1>0, <1>1, <1>4 DEF Refuse, ExecutorTypes
  <2>3. QED
    BY <2>1, <2>2
<1>5. ASSUME NEW x \in Executions, Execute(x)
      PROVE  NotYet(y) /\ Same(y)
  <2>1. y # x /\ NotYet(y)
    BY <1>0, <1>1, <1>5 DEF Execute, ExecutorTypes
  <2>2. \/ run' = run
        \/ run' = [run EXCEPT ![x] = "queued"]
    BY <1>5 DEF Execute
  <2>3. \/ response' = response
        \/ response' = [response EXCEPT ![x] = "rejected"]
    BY <1>5 DEF Execute
  <2>4. run'[y] = run[y] /\ response'[y] = response[y]
    BY <1>0, <2>1, <2>2, <2>3 DEF ExecutorTypes, PortTypes
  <2>5. UNCHANGED <<state, aborted, stopReason, emitted, cancelledBy, cutOff>>
    BY <1>5 DEF Execute
  <2>6. QED
    BY <2>1, <2>4, <2>5
<1>6. ASSUME NEW x \in Executions, Start(x) \/ SettleRun(x) \/ LeaveRegistry(x)
      PROVE  NotYet(y) /\ Same(y)
  <2>1. /\ NotYet(y) /\ run[x] # "none"
        /\ UNCHANGED <<state, aborted, stopReason, emitted, cutOff>>
    BY <1>1, <1>6 DEF Start, SettleRun, LeaveRegistry, executorVars
  <2>2. x # y
    BY <1>2, <2>1
  <2>3. run'[y] = run[y] /\ response'[y] = response[y]
    BY <1>0, <1>6, <2>2 DEF Start, SettleRun, LeaveRegistry, ExecutorTypes, PortTypes
  <2>4. QED
    BY <2>1, <2>3
<1>7. ASSUME NEW x \in Executions, Stream(x)
      PROVE  NotYet(y) /\ Same(y)
  <2>1. /\ NotYet(y) /\ run[x] # "none" /\ HandleDelta(TaskOf[x], <<x, emitted[x] + 1>>)
        /\ emitted' = [emitted EXCEPT ![x] = @ + 1]
        /\ UNCHANGED <<run, aborted, stopReason, response, cutOff>>
    BY <1>1, <1>7 DEF Stream
  <2>2. x # y /\ activeRuns[TaskOf[x]] # y
    BY <1>0, <1>2, <2>1
  <2>3. emitted'[y] = emitted[y]
    BY <1>0, <2>1, <2>2 DEF ExecutorTypes, PortTypes
  <2>4. state'[y] = state[y]
    BY <1>0, <2>1, <2>2 DEF HandleDelta, ExecutorTypes
  <2>5. QED
    BY <2>1, <2>3, <2>4
<1>8. ASSUME NEW x \in Executions, Report(x)
      PROVE  NotYet(y) /\ Same(y)
  <2>1. PICK reason \in StopReasons :
          /\ stopReason' = [stopReason EXCEPT ![x] = reason]
          /\ Finish(TaskOf[x], reason)
    BY <1>8 DEF Report
  <2>2. /\ NotYet(y) /\ run[x] # "none"
        /\ UNCHANGED <<run, aborted, emitted, response, cutOff>>
    BY <1>1, <1>8 DEF Report
  <2>3. x # y /\ activeRuns[TaskOf[x]] # y
    BY <1>0, <1>2, <2>2
  <2>4. state'[y] = state[y] /\ stopReason'[y] = stopReason[y]
    BY <1>0, <2>1, <2>3 DEF Finish, ExecutorTypes, PortTypes
  <2>5. QED
    BY <2>2, <2>4
<1>9. ASSUME NEW xs \in SUBSET Registered, CancelRuns(xs), NotYet(y)
      PROVE  /\ run'[y] = run[y] /\ stopReason'[y] = stopReason[y]
             /\ response'[y] = response[y] /\ emitted'[y] = emitted[y]
             /\ (y \in aborted') <=> (y \in aborted)
             /\ y \notin xs
  <2>1. y \notin xs
    BY <1>2, <1>9 DEF Registered
  <2>2. QED
    BY <1>9, <2>1 DEF CancelRuns
<1>10. CASE Shutdown
  <2>1. CancelRuns(Registered \ aborted) /\ NotYet(y) /\ state' = state
    BY <1>1, <1>10 DEF Shutdown, executorVars
  <2>2. (y \in cutOff') <=> (y \in cutOff)
    BY <1>2, <1>10, <2>1 DEF Shutdown, Registered
  <2>3. QED
    BY <1>9, <2>1, <2>2
<1>11. ASSUME NEW t \in Tasks, CancelTask(t)
       PROVE  NotYet(y) /\ Same(y)
  <2>1. /\ CancelRuns({z \in Registered \ aborted : TaskOf[z] = t})
        /\ NotYet(y) /\ Finish(t, "cancelled") /\ cutOff' = cutOff
    BY <1>1, <1>11 DEF CancelTask
  <2>2. activeRuns[t] # y
    BY <1>2, <2>1
  <2>3. state'[y] = state[y]
    BY <1>0, <2>1, <2>2 DEF Finish, ExecutorTypes
  <2>4. QED
    BY <1>9, <2>1, <2>3
<1>12. ASSUME NEW x \in Executions, Resume(x)
       PROVE  NotYet(y) /\ Same(y)
  <2>1. /\ phase[x] = "sending" /\ phase' = [phase EXCEPT ![x] = "done"]
        /\ UNCHANGED <<portVars, cutOff>>
    BY <1>12 DEF Resume
  <2>2. y # x /\ NotYet(y)
    BY <1>0, <1>1, <2>1 DEF ExecutorTypes
  <2>3. state'[y] = state[y]
    <3>1. CASE state[x].terminal
      BY <1>12, <3>1 DEF Resume
    <3>2. CASE ~state[x].terminal
      <4>1. FinishOwn(x)
        BY <1>12, <3>2 DEF Resume
      <4>2. \A z \in Executions : z # x /\ z # activeRuns[TaskOf[x]] => state'[z] = state[z]
        BY <3>2, <4>1, FinishOwnEffect
      <4>3. QED
        BY <1>0, <1>2, <2>2, <4>2
    <3>3. QED
      BY <3>1, <3>2
  <2>4. QED
    BY <2>1, <2>2, <2>3 DEF portVars
<1>13. QED
  BY <1>3, <1>4, <1>5, <1>6, <1>7, <1>8, <1>10, <1>11, <1>12 DEF ExecutorNext

LEMMA UnmadeTaskStep ==
    ASSUME BusInv, RunInv, [ExecutorNext]_allVars
    PROVE  UnmadeTask'
<1>0. /\ ExecutorTypes /\ Unmade /\ UnmadeTask
      /\ None \notin Executions /\ TaskOf \in [Executions -> Tasks]
  BY ExecutorAssumption DEF BusInv, RunInv
<1>1. SUFFICES ASSUME NEW t \in Tasks, Made(t)' = {}
               PROVE  published'[t] = published[t] /\ (t \in cancelledBy' => t \in cancelledBy)
  BY <1>0, MadeGrows DEF UnmadeTask
<1>2. Made(t) = {}
  BY <1>1, MadeGrows
<1>3. /\ activeRuns[t] = None
      /\ \A x \in Executions : run[x] # "none" \/ phase[x] = "sending" => TaskOf[x] # t
  BY <1>0, <1>2, RegisteredIsMade DEF ExecutorTypes, MapSending, Made
<1>4. CASE UNCHANGED <<published, cancelledBy>>
  BY <1>4
<1>5. ASSUME NEW x \in Executions,
             Refuse(x) \/ Start(x) \/ SettleRun(x) \/ LeaveRegistry(x)
      PROVE  UNCHANGED <<published, cancelledBy>>
  BY <1>5 DEF Refuse, Start, SettleRun, LeaveRegistry, executorVars
<1>6. Shutdown \/ UNCHANGED allVars => UNCHANGED <<published, cancelledBy>>
  BY DEF Shutdown, executorVars, allVars
<1>7. ASSUME NEW x \in Executions, Execute(x)
      PROVE  published'[t] = published[t] /\ cancelledBy' = cancelledBy
  <2>1. TaskOf[x] # t
    BY <1>1, <1>7, MadeGrows
  <2>2. QED
    BY <1>0, <1>7, <2>1 DEF Execute, ExecutorTypes
<1>8. ASSUME NEW x \in Executions, Stream(x) \/ Report(x) \/ Resume(x)
      PROVE  published'[t] = published[t] /\ cancelledBy' = cancelledBy
  <2>1. TaskOf[x] # t /\ TaskOf[x] \in Tasks
    BY <1>0, <1>3, <1>8 DEF Stream, Report, Resume
  <2>2. CASE Stream(x)
    BY <1>0, <2>1, <2>2 DEF Stream, HandleDelta, ExecutorTypes
  <2>3. CASE Report(x)
    BY <1>0, <2>1, <2>3 DEF Report, Finish, FinishWith, ExecutorTypes
  <2>4. CASE Resume(x)
    BY <1>0, <2>1, <2>4 DEF Resume, FinishOwn, FinishWith, ExecutorTypes
  <2>5. QED
    BY <1>8, <2>2, <2>3, <2>4
<1>9. ASSUME NEW u \in Tasks, CancelTask(u)
      PROVE  published'[t] = published[t] /\ cancelledBy' = cancelledBy \cup {u} /\ u # t
  <2>1. u # t
    BY <1>3, <1>9 DEF CancelTask
  <2>2. QED
    BY <1>0, <1>9, <2>1 DEF CancelTask, Finish, FinishWith, ExecutorTypes
<1>10. QED
  BY <1>5, <1>6, <1>7, <1>8, <1>9 DEF ExecutorNext

LEMMA RunsRespondStep ==
    ASSUME BusInv, RunInv, [ExecutorNext]_allVars
    PROVE  RunsRespond'
<1>0. /\ ExecutorTypes /\ PortTypes /\ Unmade /\ RunsRespond /\ MaxDeltas \in Nat
      /\ phase \in [Executions -> {"idle", "refused", "sending", "done"}]
  BY ExecutorAssumption DEF BusInv, RunInv, ExecutorTypes
<1>. USE DEF RunsRespond
<1>1. CASE UNCHANGED allVars
  BY <1>0, <1>1 DEF allVars, executorVars, portVars
<1>2. ASSUME NEW x \in Executions, Refuse(x)
      PROVE  RunsRespond'
  BY <1>0, <1>2 DEF Refuse, portVars
<1>3. ASSUME NEW x \in Executions, Execute(x)
      PROVE  RunsRespond'
  <2>1. /\ phase[x] = "idle" /\ stopReason[x] = "none" /\ emitted[x] = 0
        /\ response[x] = "pending" /\ run[x] = "none"
    BY <1>0, <1>3 DEF Execute, Unmade
  <2>2. /\ UNCHANGED <<stopReason, emitted>>
        /\ phase' = [phase EXCEPT ![x] = "sending"]
    BY <1>3 DEF Execute
  <2>3. \/ run' = run /\ response' = [response EXCEPT ![x] = "rejected"]
        \/ run' = [run EXCEPT ![x] = "queued"] /\ response' = response
    BY <1>3 DEF Execute
  <2>4. QED
    BY <1>0, <2>1, <2>2, <2>3 DEF PortTypes
<1>4. ASSUME NEW x \in Executions, Start(x)
      PROVE  RunsRespond'
  BY <1>0, <1>4 DEF Start, executorVars, PortTypes
<1>5. ASSUME NEW x \in Executions, Stream(x)
      PROVE  RunsRespond'
  BY <1>0, <1>5 DEF Stream, PortTypes
<1>6. ASSUME NEW x \in Executions, Report(x)
      PROVE  RunsRespond'
  BY <1>0, <1>6 DEF Report, PortTypes
<1>7. ASSUME NEW x \in Executions, SettleRun(x)
      PROVE  RunsRespond'
  <2>1. /\ run[x] = "running" /\ run' = [run EXCEPT ![x] = "settled"]
        /\ UNCHANGED <<phase, stopReason, emitted>>
        /\ \E w \in {"text", "empty", "rejected"} :
             response' = [response EXCEPT ![x] = w] /\ (w = "text" => emitted[x] > 0)
    BY <1>7 DEF SettleRun, executorVars
  <2>2. QED
    BY <1>0, <2>1 DEF PortTypes
<1>8. ASSUME NEW x \in Executions, LeaveRegistry(x)
      PROVE  RunsRespond'
  BY <1>0, <1>8 DEF LeaveRegistry, executorVars, PortTypes
<1>9. ASSUME NEW xs \in SUBSET Executions, CancelRuns(xs), phase' = phase
      PROVE  RunsRespond'
  BY <1>0, <1>9 DEF CancelRuns, PortTypes
<1>10. CASE Shutdown
  BY <1>9, <1>10 DEF Shutdown, Registered, executorVars
<1>11. ASSUME NEW t \in Tasks, CancelTask(t)
       PROVE  RunsRespond'
  BY <1>9, <1>11 DEF CancelTask, Registered
<1>12. ASSUME NEW x \in Executions, Resume(x)
       PROVE  RunsRespond'
  BY <1>0, <1>12 DEF Resume, portVars
<1>13. QED
  BY <1>1, <1>2, <1>3, <1>4, <1>5, <1>6, <1>7, <1>8, <1>10, <1>11, <1>12 DEF ExecutorNext

LEMMA RunStep ==
    ASSUME BusInv, RunInv, [ExecutorNext]_allVars
    PROVE  RunInv'
BY UnmadeStep, UnmadeTaskStep, RunsRespondStep DEF RunInv

-----------------------------------------------------------------------------
(* What is true of the only execution of its task, whose state the Map     *)
(* holds until it returns: the state is closed exactly when the run has    *)
(* reported or the task was cancelled or execute() has returned, ...       *)
Sole(x) ==
    /\ run[x] # "none"
    /\ phase[x] = "sending" => activeRuns[TaskOf[x]] = x
    /\ stopReason[x] # "none" \/ TaskOf[x] \in cancelledBy => state[x].terminal
    /\ TaskOf[x] \in cancelledBy => x \in aborted
    /\ state[x].terminal /\ stopReason[x] = "none" =>
         TaskOf[x] \in cancelledBy \/ phase[x] = "done"
    /\ phase[x] = "done" => state[x].terminal
    /\ run[x] \in {"settled", "gone"} /\ stopReason[x] = "none" =>
         \/ response[x] = "rejected" /\ emitted[x] = 0
         \/ TaskOf[x] \in cancelledBy
         \/ x \in cutOff /\ emitted[x] = 0

(* ... while it is open all chunks but the pending one are on the bus, ... *)
Streamed(x) ==
    IF state[x].terminal
    THEN \E n \in 0..MaxDeltas :
            Text(published[TaskOf[x]], x, n, TRUE) /\ (x \notin aborted => n = emitted[x])
    ELSE IF emitted[x] = 0
    THEN /\ Text(published[TaskOf[x]], x, 0, FALSE)
         /\ state[x].artifactStarted = FALSE /\ state[x].pendingDelta = NoDelta
    ELSE /\ Text(published[TaskOf[x]], x, emitted[x] - 1, FALSE)
         /\ Pends(state[x], x, emitted[x] - 1)

(* ... and the terminal status is the one of the report.                   *)
Outcome(x) ==
    CASE TaskOf[x] \in cancelledBy \/ stopReason[x] = "cancelled" -> "canceled"
      [] TaskOf[x] \notin cancelledBy /\ stopReason[x] = "end_turn" -> "completed"
      [] OTHER -> "failed"

Reported(x) ==
    x \notin cutOff =>
        \A i \in DOMAIN published[TaskOf[x]] :
            IsTerminal(published[TaskOf[x]][i]) => published[TaskOf[x]][i].status = Outcome(x)

Alone(x) == Sole(x) /\ Streamed(x) /\ Reported(x)

ExecutorInv ==
    /\ BusInv
    /\ RunInv
    /\ \A x \in Executions : Only(x) => Alone(x)

(* A step that does not touch an execution.                                *)
LEMMA Untouched ==
    ASSUME NEW y \in Executions, Alone(y),
           state'[y] = state[y], phase'[y] = phase[y], run'[y] = run[y],
           stopReason'[y] = stopReason[y], emitted'[y] = emitted[y], response'[y] = response[y],
           (y \in aborted') <=> (y \in aborted), (y \in cutOff') <=> (y \in cutOff),
           published'[TaskOf[y]] = published[TaskOf[y]],
           activeRuns'[TaskOf[y]] = activeRuns[TaskOf[y]],
           (TaskOf[y] \in cancelledBy') <=> (TaskOf[y] \in cancelledBy)
    PROVE  Alone(y)'
<1>1. Sole(y)'
  BY DEF Alone, Sole
<1>2. Streamed(y)'
  BY DEF Alone, Streamed
<1>3. Reported(y)'
  BY DEF Alone, Reported, Outcome
<1>4. QED
  BY <1>1, <1>2, <1>3 DEF Alone

LEMMA OnlyFacts ==
    ASSUME BusInv, Unmade, NEW x \in Executions, Only(x)
    PROVE  /\ \A y \in Executions : run[y] # "none" /\ TaskOf[y] = TaskOf[x] => y = x
           /\ activeRuns[TaskOf[x]] \in {x, None}
           /\ phase[x] \in {"sending", "done"}
           /\ TaskOf[x] \in Tasks
<1>1. /\ TaskOf[x] \in Tasks
      /\ phase[x] \in {"sending", "done"}
  BY ExecutorAssumption DEF Only, Made
<1>2. \A y \in Executions : run[y] # "none" => y \in Made(TaskOf[y])
  BY RegisteredIsMade
<1>3. activeRuns[TaskOf[x]] # None => activeRuns[TaskOf[x]] \in Made(TaskOf[x])
  BY <1>1 DEF BusInv, ExecutorTypes, MapSending, Made
<1>4. QED
  BY <1>1, <1>2, <1>3 DEF Only

(* What finish() adds to the bus of a task whose stream is in order.       *)
LEMMA StreamedEnds ==
    ASSUME BusInv, NEW x \in Executions, Streamed(x), ~state[x].terminal, NEW reason
    PROVE  Text(published[TaskOf[x]] \o PublishDelta(state[x], TRUE)
                    \o <<Status(StatusOf(reason))>>, x, emitted[x], TRUE)
<1>. DEFINE q == published[TaskOf[x]]
            m == q \o PublishDelta(state[x], TRUE)
<1>1. /\ q \in Seq(Events) /\ state[x] \in States /\ emitted[x] \in Nat
  BY ExecutorAssumption DEF BusInv, ExecutorTypes, PortTypes
<1>2. CASE emitted[x] = 0
  <2>1. Text(q, x, 0, FALSE) /\ state[x].pendingDelta = NoDelta
    BY <1>2 DEF Streamed
  <2>2. PublishDelta(state[x], TRUE) = <<>>
    BY <1>1, <2>1, PublishDeltaEvents
  <2>3. m = q
    BY <1>1, <2>2, ConcatEmptySeq
  <2>. HIDE DEF q, m
  <2>4. Len(q) = 0 + 2 /\ Numbered(q, x, 0, TRUE) /\ 0 \in Nat
    BY <2>1 DEF Text, Numbered
  <2>5. Text(q \o <<Status(StatusOf(reason))>>, x, 0, TRUE)
    BY <1>1, <2>4, TextEnds
  <2>6. QED
    BY <1>2, <2>3, <2>5 DEF q, m
<1>3. CASE emitted[x] # 0
  <2>. DEFINE n == emitted[x] - 1
  <2>1. n \in Nat /\ emitted[x] = n + 1 /\ (n + 1) + 2 = n + 3 /\ n + 1 \in Nat
    BY <1>1, <1>3
  <2>2. Text(q, x, n, FALSE) /\ Pends(state[x], x, n)
    BY <1>3 DEF Streamed
  <2>. HIDE DEF n, q
  <2>3. m \in Seq(Events) /\ Len(m) = n + 3 /\ Numbered(m, x, n + 1, TRUE)
    BY <1>1, <2>1, <2>2, TextGrows
  <2>. HIDE DEF m
  <2>4. Text(m \o <<Status(StatusOf(reason))>>, x, n + 1, TRUE)
    BY <2>1, <2>3, TextEnds
  <2>5. QED
    BY <2>1, <2>4 DEF m, q
<1>4. QED
  BY <1>2, <1>3

-----------------------------------------------------------------------------
(* Each action keeps Alone: one lemma per action that touches its subject. *)
LEMMA ExecuteAlone ==
    ASSUME ExecutorInv, [ExecutorNext]_allVars, NEW x \in Executions, Execute(x), Only(x)'
    PROVE  Alone(x)'
<1>. DEFINE t == TaskOf[x]
<1>0. /\ BusInv /\ ExecutorTypes /\ PortTypes /\ Unmade /\ UnmadeTask
      /\ t \in Tasks /\ None \notin Executions /\ MaxDeltas \in Nat
  BY ExecutorAssumption DEF ExecutorInv, BusInv, RunInv, ExecutorTypes
<1>1. Made(t) = {}
  <2>1. Made(t)' = Made(t) \cup {x} /\ x \notin Made(t)
    BY <1>0, MadeGrows
  <2>2. Made(t)' = {x}
    BY DEF Only
  <2>3. QED
    BY <2>1, <2>2
<1>2. /\ phase[x] = "idle" /\ phase' = [phase EXCEPT ![x] = "sending"]
      /\ activeRuns' = [activeRuns EXCEPT ![t] = x]
      /\ published' = [published EXCEPT ![t] = @ \o Opening]
      /\ UNCHANGED <<state, aborted, stopReason, emitted, cancelledBy, cutOff>>
  BY DEF Execute, Opening
<1>3. /\ state[x] = ActiveRun /\ stopReason[x] = "none" /\ emitted[x] = 0
      /\ x \notin aborted /\ x \notin cutOff /\ response[x] = "pending"
      /\ published[t] = <<>> /\ t \notin cancelledBy
  BY <1>0, <1>1, <1>2 DEF Unmade, UnmadeTask
<1>4. run' = [run EXCEPT ![x] = "queued"]
  <2>1. \A y \in Registered : TaskOf[y] # t
    BY <1>0, <1>1, RegisteredIsMade DEF Registered
  <2>2. QED
    BY <2>1 DEF Execute
<1>5. /\ run'[x] = "queued" /\ activeRuns'[t] = x /\ phase'[x] = "sending"
      /\ published'[t] = <<>> \o Opening /\ published'[t] \in Seq(Events)
  <2>1. <<>> \o Opening \in Seq(Events)
    BY StatusEvents, ConcatEmptySeq
  <2>2. QED
    BY <1>0, <1>2, <1>3, <1>4, <2>1 DEF ExecutorTypes, PortTypes
<1>6. Text(published'[t], x, 0, FALSE)
  BY <1>5, TextOpens
<1>7. Sole(x)'
  <2>1. /\ run'[x] = "queued" /\ activeRuns'[TaskOf[x]] = x /\ phase'[x] = "sending"
        /\ stopReason'[x] = "none" /\ TaskOf[x] \notin cancelledBy'
        /\ ~state'[x].terminal
    BY <1>2, <1>3, <1>5 DEF ActiveRun
  <2>2. QED
    BY <2>1 DEF Sole
<1>8. Streamed(x)'
  <2>1. /\ ~state'[x].terminal /\ emitted'[x] = 0
        /\ state'[x].artifactStarted = FALSE /\ state'[x].pendingDelta = NoDelta
    BY <1>2, <1>3 DEF ActiveRun
  <2>2. QED
    BY <1>6, <2>1 DEF Streamed
<1>9. Reported(x)'
  <2>1. {i \in DOMAIN published'[t] : IsTerminal(published'[t][i])} = {}
    BY <1>5, <1>6, TextRead
  <2>2. QED
    BY <2>1 DEF Reported
<1>10. QED
  BY <1>7, <1>8, <1>9 DEF Alone

LEMMA StreamAlone ==
    ASSUME ExecutorInv, NEW x \in Executions, Stream(x), Only(x)
    PROVE  Alone(x)'
<1>. DEFINE t == TaskOf[x]
            delta == <<x, emitted[x] + 1>>
<1>0. /\ BusInv /\ ExecutorTypes /\ PortTypes /\ Unmade /\ RunsRespond
      /\ Sole(x) /\ Streamed(x) /\ Reported(x)
      /\ t \in Tasks /\ None \notin Executions /\ MaxDeltas \in Nat
      /\ published[t] \in Seq(Events) /\ state[x] \in States /\ emitted[x] \in Nat
  BY ExecutorAssumption DEF ExecutorInv, BusInv, RunInv, Alone, ExecutorTypes, PortTypes
<1>1. /\ run[x] = "running" /\ stopReason[x] = "none" /\ emitted[x] < MaxDeltas
      /\ emitted' = [emitted EXCEPT ![x] = @ + 1]
      /\ HandleDelta(t, delta)
      /\ UNCHANGED <<activeRuns, phase, run, aborted, stopReason, response, cancelledBy, cutOff>>
  BY DEF Stream
<1>2. emitted'[x] = emitted[x] + 1
  BY <1>0, <1>1 DEF PortTypes
<1>3. phase[x] = "sending" /\ activeRuns[t] = x
  BY <1>0, <1>1, OnlyFacts DEF RunsRespond, Sole
<1>4. delta \in Executions \X (0..MaxDeltas)
  BY <1>0, <1>1
<1>5. CASE state[x].terminal
  <2>1. UNCHANGED <<state, published>>
    BY <1>0, <1>1, <1>3, <1>5 DEF HandleDelta
  <2>2. t \in cancelledBy /\ x \in aborted
    BY <1>0, <1>1, <1>3, <1>5 DEF Sole
  <2>3. Sole(x)'
    BY <1>0, <1>1, <2>1 DEF Sole
  <2>4. Streamed(x)'
    BY <1>0, <1>1, <1>5, <2>1, <2>2 DEF Streamed
  <2>5. Reported(x)'
    BY <1>0, <1>1, <2>1 DEF Reported, Outcome
  <2>6. QED
    BY <2>3, <2>4, <2>5 DEF Alone
<1>6. CASE ~state[x].terminal
  <2>1. /\ published'[t] = published[t] \o PublishDelta(state[x], FALSE)
        /\ ~state'[x].terminal
        /\ state'[x].pendingDelta = delta
        /\ state'[x].artifactStarted <=>
             (state[x].artifactStarted \/ state[x].pendingDelta # NoDelta)
        /\ published' \in [Tasks -> Seq(Events)]
        /\ state'[x] \in States
    <3>1. HandleDelta(t, delta) /\ t \in Tasks /\ delta \in Executions \X (0..MaxDeltas)
      BY <1>0, <1>1, <1>4
    <3>. HIDE DEF delta, t
    <3>2. /\ published' \in [Tasks -> Seq(Events)]
          /\ state' \in [Executions -> States]
          /\ \A y \in Executions : activeRuns[t] = y /\ ~state[y].terminal =>
                     /\ published'[t] = published[t] \o PublishDelta(state[y], FALSE)
                     /\ ~state'[y].terminal
                     /\ state'[y].pendingDelta = delta
                     /\ state'[y].artifactStarted <=>
                          (state[y].artifactStarted \/ state[y].pendingDelta # NoDelta)
      BY <1>0, <3>1, HandleDeltaEffect
    <3>3. QED
      BY <1>3, <1>6, <3>2
  <2>2. Sole(x)'
    BY <1>0, <1>1, <1>3, <1>6, <2>1 DEF Sole
  <2>3. Text(published'[t], x, emitted[x], FALSE) /\ Pends(state'[x], x, emitted[x])
    <3>1. CASE emitted[x] = 0
      <4>1. /\ Text(published[t], x, 0, FALSE)
            /\ state[x].artifactStarted = FALSE /\ state[x].pendingDelta = NoDelta
        BY <1>0, <1>6, <3>1 DEF Streamed
      <4>2. PublishDelta(state[x], FALSE) = <<>>
        BY <1>0, <4>1, PublishDeltaEvents
      <4>3. published'[t] = published[t]
        BY <1>0, <2>1, <4>2, ConcatEmptySeq
      <4>4. Pends(state'[x], x, 0)
        BY <2>1, <3>1, <4>1 DEF Pends, States
      <4>5. QED
        BY <3>1, <4>1, <4>3, <4>4
    <3>2. CASE emitted[x] # 0
      <4>. DEFINE n == emitted[x] - 1
                  p == published[t] \o PublishDelta(state[x], FALSE)
      <4>1. n \in Nat /\ emitted[x] = n + 1 /\ (n + 1) + 2 = n + 3 /\ n + 1 > 0
        BY <1>0, <3>2
      <4>2. Text(published[t], x, n, FALSE) /\ Pends(state[x], x, n)
        BY <1>0, <1>6, <3>2 DEF Streamed
      <4>. HIDE DEF n, t
      <4>3. p \in Seq(Events) /\ Len(p) = n + 3 /\ Numbered(p, x, n + 1, FALSE)
        BY <1>0, <4>1, <4>2, TextGrows
      <4>. HIDE DEF p
      <4>4. Text(p, x, n + 1, FALSE)
        BY <4>1, <4>3 DEF Text
      <4>5. state[x].pendingDelta # NoDelta
        BY <4>2 DEF Pends, NoDelta
      <4>6. state'[x].artifactStarted = TRUE
        BY <2>1, <4>5 DEF States
      <4>7. Pends(state'[x], x, n + 1)
        BY <2>1, <4>1, <4>6 DEF Pends
      <4>8. QED
        BY <2>1, <4>1, <4>4, <4>7 DEF p
    <3>3. QED
      BY <3>1, <3>2
  <2>4. Streamed(x)'
    <3>1. emitted'[x] # 0 /\ emitted'[x] - 1 = emitted[x]
      BY <1>0, <1>2
    <3>2. QED
      BY <2>1, <2>3, <3>1 DEF Streamed
  <2>5. Reported(x)'
    <3>1. {i \in DOMAIN published'[t] : IsTerminal(published'[t][i])} = {}
      BY <1>0, <2>1, <2>3, TextRead
    <3>2. QED
      BY <3>1 DEF Reported
  <2>6. QED
    BY <2>2, <2>4, <2>5 DEF Alone
<1>7. QED
  BY <1>5, <1>6

(* The state that the Map holds is closed by finish().                     *)
LEMMA FinishAlone ==
    ASSUME ExecutorInv, NEW x \in Executions, Only(x), ~state[x].terminal,
           activeRuns[TaskOf[x]] = x, NEW reason \in StopReasons, Finish(TaskOf[x], reason)
    PROVE  /\ state'[x].terminal
           /\ Text(published'[TaskOf[x]], x, emitted[x], TRUE)
           /\ \A i \in DOMAIN published'[TaskOf[x]] :
                IsTerminal(published'[TaskOf[x]][i]) =>
                    published'[TaskOf[x]][i].status = StatusOf(reason)
<1>. DEFINE t == TaskOf[x]
<1>0. BusInv /\ Streamed(x) /\ t \in Tasks
  BY ExecutorAssumption DEF ExecutorInv, Alone
<1>1. /\ state'[x].terminal
      /\ published'[t] = published[t] \o PublishDelta(state[x], TRUE)
                             \o <<Status(StatusOf(reason))>>
      /\ \A i \in DOMAIN published'[t] :
           IsTerminal(published'[t][i]) => published'[t][i].status = StatusOf(reason)
  <2>1. Finish(t, reason) /\ activeRuns[t] = x
    OBVIOUS
  <2>. HIDE DEF t
  <2>2. \A y \in Executions : activeRuns[t] = y =>
           /\ state'[y].terminal
           /\ ~state[y].terminal =>
                /\ published'[t] = published[t] \o PublishDelta(state[y], TRUE)
                                     \o <<Status(StatusOf(reason))>>
                /\ \A i \in DOMAIN published'[t] :
                     IsTerminal(published'[t][i]) => published'[t][i].status = StatusOf(reason)
    BY <1>0, <2>1, FinishEffect
  <2>3. QED
    BY <2>1, <2>2
<1>2. QED
  BY <1>0, <1>1, StreamedEnds

LEMMA ReportAlone ==
    ASSUME ExecutorInv, NEW x \in Executions, Report(x), Only(x)
    PROVE  Alone(x)'
<1>. DEFINE t == TaskOf[x]
<1>0. /\ BusInv /\ ExecutorTypes /\ PortTypes /\ Unmade /\ RunsRespond
      /\ Sole(x) /\ Streamed(x) /\ Reported(x) /\ t \in Tasks /\ None \notin Executions
  BY ExecutorAssumption DEF ExecutorInv, BusInv, RunInv, Alone, ExecutorTypes
<1>1. PICK reason \in StopReasons :
        /\ stopReason' = [stopReason EXCEPT ![x] = reason]
        /\ Finish(t, reason)
  BY DEF Report
<1>2. /\ run[x] = "running" /\ stopReason[x] = "none"
      /\ UNCHANGED <<activeRuns, phase, run, aborted, emitted, response, cancelledBy, cutOff>>
  BY DEF Report
<1>3. stopReason'[x] = reason /\ reason # "none"
  BY <1>0, <1>1 DEF PortTypes, StopReasons
<1>4. phase[x] = "sending" /\ activeRuns[t] = x
  BY <1>0, <1>2, OnlyFacts DEF RunsRespond, Sole
<1>5. CASE state[x].terminal
  <2>1. UNCHANGED <<state, published>>
    <3>1. Finish(t, reason) /\ t \in Tasks
      BY <1>0, <1>1
    <3>. HIDE DEF t
    <3>2. \A y \in Executions : activeRuns[t] = y =>
             (state[y].terminal => UNCHANGED <<state, published>>)
      BY <1>0, <3>1, FinishEffect
    <3>3. QED
      BY <1>4, <1>5, <3>2
  <2>2. t \in cancelledBy
    BY <1>0, <1>2, <1>4, <1>5 DEF Sole
  <2>3. Sole(x)'
    BY <1>0, <1>2, <1>3, <2>1, <2>2 DEF Sole
  <2>4. Streamed(x)'
    BY <1>0, <1>2, <2>1 DEF Streamed
  <2>5. Reported(x)'
    BY <1>0, <1>2, <2>1, <2>2 DEF Reported, Outcome
  <2>6. QED
    BY <2>3, <2>4, <2>5 DEF Alone
<1>6. CASE ~state[x].terminal
  <2>1. /\ state'[x].terminal
        /\ Text(published'[t], x, emitted[x], TRUE)
        /\ \A i \in DOMAIN published'[t] :
             IsTerminal(published'[t][i]) => published'[t][i].status = StatusOf(reason)
    BY <1>1, <1>4, <1>6, FinishAlone
  <2>2. t \notin cancelledBy
    BY <1>0, <1>6 DEF Sole
  <2>3. Sole(x)'
    BY <1>0, <1>2, <1>3, <1>4, <2>1, <2>2 DEF Sole
  <2>4. Streamed(x)'
    BY <1>0, <1>2, <2>1 DEF Streamed, PortTypes
  <2>5. Outcome(x)' = StatusOf(reason)
    BY <1>2, <1>3, <2>2 DEF Outcome, StatusOf, StopReasons
  <2>6. Reported(x)'
    BY <2>1, <2>5 DEF Reported
  <2>7. QED
    BY <2>3, <2>4, <2>6 DEF Alone
<1>7. QED
  BY <1>5, <1>6

LEMMA CancelAlone ==
    ASSUME ExecutorInv, NEW x \in Executions, CancelTask(TaskOf[x]), Only(x)
    PROVE  Alone(x)'
<1>. DEFINE t == TaskOf[x]
            xs == {y \in Registered \ aborted : TaskOf[y] = t}
<1>0. /\ BusInv /\ ExecutorTypes /\ PortTypes /\ Unmade /\ RunsRespond
      /\ Sole(x) /\ Streamed(x) /\ Reported(x) /\ t \in Tasks /\ None \notin Executions
  BY ExecutorAssumption DEF ExecutorInv, BusInv, RunInv, Alone, ExecutorTypes
<1>1. /\ activeRuns[t] # None /\ ~state[activeRuns[t]].terminal /\ xs # {}
      /\ CancelRuns(xs) /\ Finish(t, "cancelled")
      /\ cancelledBy' = cancelledBy \cup {t}
      /\ UNCHANGED <<activeRuns, phase, cutOff>>
  BY DEF CancelTask
<1>2. activeRuns[t] = x /\ x \in xs
  <2>1. \A y \in xs : run[y] # "none" /\ TaskOf[y] = t /\ y \in Executions
    BY DEF Registered
  <2>2. \A y \in xs : y = x
    BY <1>0, <2>1, OnlyFacts
  <2>3. activeRuns[t] = x
    BY <1>0, <1>1, OnlyFacts
  <2>. HIDE DEF xs
  <2>4. QED
    BY <1>1, <2>2, <2>3
<1>3. /\ x \in aborted' /\ run'[x] \in {run[x], "settled"}
      /\ UNCHANGED <<stopReason, emitted>>
  <2>. HIDE DEF xs
  <2>1. QED
    BY <1>1, <1>2 DEF CancelRuns
<1>4. /\ state'[x].terminal
      /\ Text(published'[t], x, emitted[x], TRUE)
      /\ \A i \in DOMAIN published'[t] :
           IsTerminal(published'[t][i]) => published'[t][i].status = StatusOf("cancelled")
  BY <1>1, <1>2, FinishAlone DEF StopReasons
<1>5. t \in cancelledBy'
  BY <1>1
<1>6. Sole(x)'
  BY <1>0, <1>1, <1>2, <1>3, <1>4, <1>5 DEF Sole
<1>7. Streamed(x)'
  BY <1>0, <1>3, <1>4 DEF Streamed, PortTypes
<1>8. Outcome(x)' = StatusOf("cancelled")
  BY <1>5 DEF Outcome, StatusOf
<1>9. Reported(x)'
  BY <1>4, <1>8 DEF Reported
<1>10. QED
  BY <1>6, <1>7, <1>9 DEF Alone

LEMMA ShutdownAlone ==
    ASSUME ExecutorInv, NEW x \in Executions, Shutdown, Only(x)
    PROVE  Alone(x)'
<1>. DEFINE xs == Registered \ aborted
<1>0. RunsRespond /\ Sole(x) /\ Streamed(x) /\ Reported(x)
  BY DEF ExecutorInv, RunInv, Alone
<1>1. /\ CancelRuns(xs)
      /\ cutOff' = cutOff \cup {y \in xs : run[y] = "queued"}
      /\ UNCHANGED <<activeRuns, state, phase, published, cancelledBy>>
  BY DEF Shutdown, executorVars
<1>. HIDE DEF xs
<1>2. /\ aborted' = aborted \cup xs /\ UNCHANGED <<stopReason, emitted>>
      /\ run'[x] = IF x \in xs /\ run[x] = "queued" THEN "settled" ELSE run[x]
      /\ response'[x] = IF x \in xs /\ run[x] = "queued" THEN "empty" ELSE response[x]
  BY <1>1 DEF CancelRuns
<1>3. Streamed(x)'
  BY <1>0, <1>1, <1>2 DEF Streamed
<1>4. Reported(x)'
  BY <1>0, <1>1, <1>2 DEF Reported, Outcome
<1>5. Sole(x)'
  <2>1. CASE x \in xs /\ run[x] = "queued"
    <3>1. x \in cutOff' /\ emitted'[x] = 0 /\ run'[x] = "settled"
      BY <1>0, <1>1, <1>2, <2>1 DEF RunsRespond
    <3>2. QED
      BY <1>0, <1>1, <1>2, <2>1, <3>1 DEF Sole
  <2>2. CASE ~(x \in xs /\ run[x] = "queued")
    <3>1. run'[x] = run[x] /\ response'[x] = response[x]
      BY <1>2, <2>2
    <3>2. QED
      BY <1>0, <1>1, <1>2, <3>1 DEF Sole
  <2>3. QED
    BY <2>1, <2>2
<1>6. QED
  BY <1>3, <1>4, <1>5 DEF Alone

LEMMA ResumeAlone ==
    ASSUME ExecutorInv, NEW x \in Executions, Resume(x), Only(x)
    PROVE  Alone(x)'
<1>. DEFINE t == TaskOf[x]
<1>0. /\ BusInv /\ ExecutorTypes /\ PortTypes /\ Unmade /\ RunsRespond
      /\ Sole(x) /\ Streamed(x) /\ Reported(x) /\ t \in Tasks /\ None \notin Executions
      /\ state[x] \in States
  BY ExecutorAssumption DEF ExecutorInv, BusInv, RunInv, Alone, ExecutorTypes
<1>1. /\ phase[x] = "sending" /\ run[x] \in {"none", "gone"} /\ phase'[x] = "done"
      /\ IF state[x].terminal THEN UNCHANGED <<state, published>> ELSE FinishOwn(x)
      /\ UNCHANGED <<run, aborted, stopReason, emitted, response, cancelledBy, cutOff>>
  BY <1>0 DEF Resume, portVars, ExecutorTypes
<1>2. activeRuns[t] = x
  BY <1>0, <1>1 DEF Sole
<1>3. CASE state[x].terminal
  <2>1. UNCHANGED <<state, published>>
    BY <1>1, <1>3
  <2>2. Sole(x)'
    BY <1>0, <1>1, <1>3, <2>1 DEF Sole
  <2>3. Streamed(x)'
    BY <1>0, <1>1, <2>1 DEF Streamed
  <2>4. Reported(x)'
    BY <1>0, <1>1, <2>1 DEF Reported, Outcome
  <2>5. QED
    BY <2>2, <2>3, <2>4 DEF Alone
<1>4. CASE ~state[x].terminal
  <2>1. /\ stopReason[x] = "none" /\ t \notin cancelledBy
        /\ emitted[x] = 0
        /\ response[x] = "rejected" \/ x \in cutOff
    BY <1>0, <1>1, <1>4 DEF Sole
  <2>2. Told(x) = state[x]
    <3>1. response[x] # "text"
      BY <1>0, <2>1 DEF RunsRespond
    <3>2. QED
      BY <1>0, <3>1 DEF Told, States
  <2>3. /\ state'[x].terminal
        /\ published'[t] = published[t] \o PublishDelta(state[x], TRUE)
                               \o <<Status(StatusOf(Verdict(x)))>>
        /\ \A i \in DOMAIN published'[t] :
             IsTerminal(published'[t][i]) => published'[t][i].status = StatusOf(Verdict(x))
    BY <1>0, <1>1, <1>2, <1>4, <2>2, FinishOwnEffect
  <2>4. Text(published'[t], x, emitted[x], TRUE)
    BY <1>0, <1>4, <2>3, StreamedEnds
  <2>5. Sole(x)'
    BY <1>0, <1>1, <2>1, <2>3 DEF Sole
  <2>6. Streamed(x)'
    BY <1>0, <1>1, <2>3, <2>4 DEF Streamed, PortTypes
  <2>7. Reported(x)'
    <3>1. SUFFICES ASSUME x \notin cutOff
                   PROVE  Outcome(x)' = StatusOf(Verdict(x))
      BY <1>1, <2>3 DEF Reported
    <3>2. StatusOf(Verdict(x)) = "failed"
      BY <2>1, <3>1 DEF Verdict, StatusOf
    <3>3. Outcome(x)' = "failed"
      BY <1>1, <2>1 DEF Outcome
    <3>4. QED
      BY <3>2, <3>3
  <2>8. QED
    BY <2>5, <2>6, <2>7 DEF Alone
<1>5. QED
  BY <1>3, <1>4

LEMMA RunMoves ==
    ASSUME ExecutorInv, NEW x \in Executions, Only(x),
           Start(x) \/ SettleRun(x) \/ LeaveRegistry(x)
    PROVE  Alone(x)'
<1>0. /\ Sole(x) /\ Streamed(x) /\ Reported(x) /\ PortTypes
  BY DEF ExecutorInv, Alone, BusInv, ExecutorTypes
<1>1. UNCHANGED <<activeRuns, state, phase, published, aborted, stopReason, emitted,
                  cancelledBy, cutOff>>
  BY DEF Start, SettleRun, LeaveRegistry, executorVars
<1>2. Streamed(x)' /\ Reported(x)'
  BY <1>0, <1>1 DEF Streamed, Reported, Outcome
<1>3. \/ run'[x] = "running"
      \/ /\ run'[x] = "settled"
         /\ stopReason[x] = "none" => response'[x] = "rejected" /\ emitted[x] = 0
      \/ run[x] = "settled" /\ run'[x] = "gone" /\ response' = response
  BY <1>0 DEF Start, SettleRun, LeaveRegistry, PortTypes
<1>4. Sole(x)'
  BY <1>0, <1>1, <1>3 DEF Sole
<1>5. QED
  BY <1>2, <1>4 DEF Alone

LEMMA AloneStep ==
    ASSUME ExecutorInv, [ExecutorNext]_allVars, NEW y \in Executions, Only(y)'
    PROVE  Alone(y)'
<1>0. /\ BusInv /\ ExecutorTypes /\ PortTypes /\ Unmade
      /\ TaskOf[y] \in Tasks /\ TaskOf \in [Executions -> Tasks] /\ None \notin Executions
  BY ExecutorAssumption DEF ExecutorInv, BusInv, RunInv, ExecutorTypes
<1>1. CASE UNCHANGED allVars
  <2>1. Only(y)
    BY <1>1 DEF allVars, executorVars, Only, Made
  <2>2. Alone(y)
    BY <2>1 DEF ExecutorInv
  <2>3. QED
    BY <1>1, <2>2, Untouched DEF allVars, executorVars, portVars
<1>2. ASSUME NEW x \in Executions, Execute(x), TaskOf[y] = TaskOf[x]
      PROVE  Alone(y)'
  <2>1. x \in Made(TaskOf[y])'
    BY <1>0, <1>2, MadeGrows
  <2>2. x = y
    BY <2>1 DEF Only
  <2>3. QED
    BY <1>2, <2>2, ExecuteAlone
<1>3. ASSUME NEW x \in Executions, Execute(x), TaskOf[y] # TaskOf[x]
      PROVE  Alone(y)'
  <2>1. Made(TaskOf[y])' = Made(TaskOf[y])
    BY <1>0, <1>3, MadeGrows
  <2>2. Alone(y)
    BY <2>1 DEF Only, ExecutorInv
  <2>3. /\ activeRuns' = [activeRuns EXCEPT ![TaskOf[x]] = x]
        /\ phase' = [phase EXCEPT ![x] = "sending"]
        /\ published' = [published EXCEPT ![TaskOf[x]] = @ \o Opening]
        /\ run' = run \/ run' = [run EXCEPT ![x] = "queued"]
        /\ response' = response \/ response' = [response EXCEPT ![x] = "rejected"]
        /\ UNCHANGED <<state, aborted, stopReason, emitted, cancelledBy, cutOff>>
    BY <1>3 DEF Execute, Opening
  <2>4. /\ activeRuns'[TaskOf[y]] = activeRuns[TaskOf[y]] /\ phase'[y] = phase[y]
        /\ published'[TaskOf[y]] = published[TaskOf[y]]
        /\ run'[y] = run[y] /\ response'[y] = response[y]
    BY <1>0, <1>3, <2>3 DEF ExecutorTypes, PortTypes
  <2>5. QED
    BY <2>2, <2>3, <2>4, Untouched
<1>4. CASE \A x \in Executions : ~Execute(x)
  <2>1. Only(y) /\ Alone(y)
    <3>1. Made(TaskOf[y])' = Made(TaskOf[y])
      BY <1>0, <1>4, MadeGrows
    <3>2. QED
      BY <3>1 DEF Only, ExecutorInv
  <2>2. \A x \in Executions : run[x] # "none" \/ phase[x] = "sending" =>
           x = y \/ TaskOf[x] # TaskOf[y]
    BY <1>0, <2>1, RegisteredIsMade DEF Only, Made
  <2>3. ASSUME NEW x \in Executions, Refuse(x)
        PROVE  Alone(y)'
    <3>1. x # y
      BY <1>0, <2>1, <2>3, OnlyFacts DEF Refuse
    <3>2. phase'[y] = phase[y]
      BY <1>0, <2>3, <3>1 DEF Refuse, ExecutorTypes
    <3>3. QED
      BY <2>1, <2>3, <3>2, Untouched DEF Refuse, portVars
  <2>4. ASSUME NEW x \in Executions, Start(x) \/ SettleRun(x) \/ LeaveRegistry(x)
        PROVE  Alone(y)'
    <3>1. CASE x = y
      BY <2>1, <2>4, <3>1, RunMoves
    <3>2. CASE x # y
      <4>1. run'[y] = run[y] /\ response'[y] = response[y]
        BY <1>0, <2>4, <3>2 DEF Start, SettleRun, LeaveRegistry, PortTypes
      <4>2. UNCHANGED <<executorVars, aborted, stopReason, emitted, cancelledBy, cutOff>>
        BY <2>4 DEF Start, SettleRun, LeaveRegistry
      <4>3. QED
        BY <2>1, <4>1, <4>2, Untouched DEF executorVars
    <3>3. QED
      BY <3>1, <3>2
  <2>5. ASSUME NEW x \in Executions, Stream(x)
        PROVE  Alone(y)'
    <3>1. CASE x = y
      BY <2>1, <2>5, <3>1, StreamAlone
    <3>2. CASE x # y
      <4>1. /\ TaskOf[x] # TaskOf[y] /\ HandleDelta(TaskOf[x], <<x, emitted[x] + 1>>)
            /\ emitted'[y] = emitted[y]
            /\ UNCHANGED <<activeRuns, phase, run, aborted, stopReason, response, cancelledBy,
                           cutOff>>
        BY <1>0, <2>2, <2>5, <3>2 DEF Stream, PortTypes
      <4>2. activeRuns[TaskOf[x]] # y
        BY <1>0, <4>1 DEF ExecutorTypes, MapSending
      <4>3. state'[y] = state[y] /\ published'[TaskOf[y]] = published[TaskOf[y]]
        BY <1>0, <4>1, <4>2 DEF HandleDelta, ExecutorTypes
      <4>4. QED
        BY <2>1, <4>1, <4>3, Untouched
    <3>3. QED
      BY <3>1, <3>2
  <2>6. ASSUME NEW x \in Executions, Report(x)
        PROVE  Alone(y)'
    <3>1. CASE x = y
      BY <2>1, <2>6, <3>1, ReportAlone
    <3>2. CASE x # y
      <4>1. /\ TaskOf[x] # TaskOf[y] /\ \E reason : Finish(TaskOf[x], reason)
            /\ stopReason'[y] = stopReason[y]
            /\ UNCHANGED <<activeRuns, phase, run, aborted, emitted, response, cancelledBy,
                           cutOff>>
        BY <1>0, <2>2, <2>6, <3>2 DEF Report, PortTypes
      <4>2. activeRuns[TaskOf[x]] # y
        BY <1>0, <4>1 DEF ExecutorTypes, MapSending
      <4>3. state'[y] = state[y] /\ published'[TaskOf[y]] = published[TaskOf[y]]
        BY <1>0, <4>1, <4>2 DEF Finish, FinishWith, ExecutorTypes
      <4>4. QED
        BY <2>1, <4>1, <4>3, Untouched
    <3>3. QED
      BY <3>1, <3>2
  <2>7. ASSUME NEW x \in Executions, Resume(x)
        PROVE  Alone(y)'
    <3>1. CASE x = y
      BY <2>1, <2>7, <3>1, ResumeAlone
    <3>2. CASE x # y
      <4>1. /\ TaskOf[x] # TaskOf[y] /\ phase'[y] = phase[y]
            /\ activeRuns'[TaskOf[y]] = activeRuns[TaskOf[y]]
            /\ IF state[x].terminal THEN UNCHANGED <<state, published>> ELSE FinishOwn(x)
            /\ UNCHANGED <<portVars, cancelledBy, cutOff>>
        BY <1>0, <2>2, <2>7, <3>2 DEF Resume, Forget, ExecutorTypes
      <4>2. state'[y] = state[y] /\ published'[TaskOf[y]] = published[TaskOf[y]]
        <5>1. CASE state[x].terminal
          BY <4>1, <5>1
        <5>2. CASE ~state[x].terminal
          BY <1>0, <4>1, <5>2, FinishOwnEffect
        <5>3. QED
          BY <5>1, <5>2
      <4>3. QED
        BY <2>1, <4>1, <4>2, Untouched DEF portVars
    <3>3. QED
      BY <3>1, <3>2
  <2>8. CASE Shutdown
    BY <2>1, <2>8, ShutdownAlone
  <2>9. ASSUME NEW t \in Tasks, CancelTask(t)
        PROVE  Alone(y)'
    <3>1. CASE TaskOf[y] = t
      BY <2>1, <2>9, <3>1, CancelAlone
    <3>2. CASE TaskOf[y] # t
      <4>1. /\ CancelRuns({z \in Registered \ aborted : TaskOf[z] = t}) /\ Finish(t, "cancelled")
            /\ cancelledBy' = cancelledBy \cup {t}
            /\ UNCHANGED <<activeRuns, phase, cutOff>>
        BY <2>9 DEF CancelTask
      <4>2. /\ run'[y] = run[y] /\ response'[y] = response[y]
            /\ (y \in aborted') <=> (y \in aborted)
            /\ UNCHANGED <<stopReason, emitted>>
        BY <3>2, <4>1 DEF CancelRuns
      <4>3. activeRuns[t] # y
        BY <1>0, <3>2 DEF ExecutorTypes, MapSending
      <4>4. state'[y] = state[y] /\ published'[TaskOf[y]] = published[TaskOf[y]]
        BY <1>0, <3>2, <4>1, <4>3 DEF Finish, FinishWith, ExecutorTypes
      <4>5. QED
        BY <2>1, <3>2, <4>1, <4>2, <4>4, Untouched
    <3>3. QED
      BY <3>1, <3>2
  <2>10. QED
    BY <1>1, <1>4, <2>3, <2>4, <2>5, <2>6, <2>7, <2>8, <2>9 DEF ExecutorNext
<1>5. QED
  BY <1>2, <1>3, <1>4

LEMMA ExecutorInvStep ==
    ExecutorInv /\ [ExecutorNext]_allVars => ExecutorInv'
<1>. SUFFICES ASSUME ExecutorInv, [ExecutorNext]_allVars PROVE ExecutorInv'
  OBVIOUS
<1>1. BusInv' /\ RunInv'
  BY BusStep, RunStep DEF ExecutorInv
<1>2. \A y \in Executions : Only(y)' => Alone(y)'
  BY AloneStep
<1>3. QED
  BY <1>1, <1>2 DEF ExecutorInv

LEMMA ExecutorInvInit ==
    ExecutorInit => ExecutorInv
<1>1. ExecutorInit => \A x \in Executions : ~Only(x)
  BY ExecutorAssumption DEF ExecutorInit, Only, Made
<1>2. QED
  BY <1>1, BusInit, RunInit DEF ExecutorInv

(* The executor's invariant: types, one terminal status per task, and, for *)
(* the only execution of a task, what its state says of its bus.           *)
THEOREM ExecutorInvariant ==
    ExecutorSpec => []ExecutorInv
BY ExecutorInvInit, ExecutorInvStep, PTL DEF ExecutorSpec

(* A task ends as its run reported, as canceled if cancelTask() accepted,  *)
(* and as failed if its run reported nothing.                              *)
THEOREM EndsLikeItsRun ==
    ExecutorSpec => []EndsAsReported
<1>1. ExecutorInv => EndsAsReported
  BY DEF ExecutorInv, Alone, Reported, Outcome, EndsAsReported, TerminalsOf, EventsOf
<1>2. QED
  BY <1>1, ExecutorInvariant, PTL

(* The chunks on the bus of a task are the deltas its run streamed, each   *)
(* once, in order, the last one marked when the task has ended.            *)
THEOREM TextArrivesInOrder ==
    ExecutorSpec => []TextInOrder
<1>1. ASSUME ExecutorInv PROVE TextInOrder
  <2>. SUFFICES ASSUME NEW x \in Executions, Only(x)
       PROVE  LET ended == TerminalsOf(TaskOf[x]) # {}
                  Nth(i) == Cardinality({j \in Chunks(x) : j <= i})
              IN  /\ \A i \in Chunks(x) :
                       EventsOf(x)[i] = Chunk(<<x, Nth(i)>>, Nth(i) > 1,
                                              ended /\ Nth(i) = Cardinality(Chunks(x)))
                  /\ ended /\ x \notin aborted => Cardinality(Chunks(x)) = emitted[x]
    BY DEF TextInOrder
  <2>. DEFINE q == published[TaskOf[x]]
  <2>0. /\ q \in Seq(Events) /\ Streamed(x) /\ MaxDeltas \in Nat /\ emitted[x] \in Nat
        /\ state[x].terminal \in BOOLEAN
    BY <1>1, ExecutorAssumption DEF ExecutorInv, Alone, BusInv, ExecutorTypes, PortTypes, States
  <2>1. PICK n \in Nat, ended \in BOOLEAN :
          /\ Text(q, x, n, ended)
          /\ ended /\ x \notin aborted => n = emitted[x]
    <3>1. CASE state[x].terminal
      <4>1. PICK n \in 0..MaxDeltas :
              Text(q, x, n, TRUE) /\ (x \notin aborted => n = emitted[x])
        BY <2>0, <3>1 DEF Streamed
      <4>2. n \in Nat
        BY <2>0
      <4>3. QED
        BY <4>1, <4>2
    <3>2. CASE ~state[x].terminal
      <4>1. PICK n \in Nat : Text(q, x, n, FALSE)
        <5>1. CASE emitted[x] = 0
          <6>1. Text(q, x, 0, FALSE)
            BY <2>0, <3>2, <5>1 DEF Streamed
          <6>2. QED
            BY <6>1
        <5>2. CASE emitted[x] # 0
          <6>1. Text(q, x, emitted[x] - 1, FALSE)
            BY <2>0, <3>2, <5>2, Zenon DEF Streamed
          <6>2. emitted[x] - 1 \in Nat
            BY <2>0, <5>2
          <6>3. QED
            BY <6>1, <6>2
        <5>3. QED
          BY <5>1, <5>2
      <4>2. QED
        BY <4>1
    <3>3. QED
      BY <3>1, <3>2
  <2>2. /\ {i \in DOMAIN q : ~IsStatus(q[i])} = 3..(n + 2)
        /\ {i \in DOMAIN q : IsTerminal(q[i])} # {} <=> ended
    <3>1. q \in Seq(Events) /\ Text(q, x, n, ended)
      BY <2>0, <2>1
    <3>. HIDE DEF q
    <3>2. /\ {i \in DOMAIN q : ~IsStatus(q[i])} = 3..(n + 2)
          /\ ended => {i \in DOMAIN q : IsTerminal(q[i])} = {n + 3}
          /\ ~ended => {i \in DOMAIN q : IsTerminal(q[i])} = {}
      BY <3>1, TextRead
    <3>3. QED
      BY <3>2
  <2>3. Chunks(x) = 3..(n + 2) /\ (TerminalsOf(TaskOf[x]) # {} <=> ended)
    BY <2>2 DEF Chunks, EventsOf, TerminalsOf
  <2>4. Cardinality(Chunks(x)) = n
    BY <2>3, FS_Interval
  <2>5. ASSUME NEW i \in Chunks(x)
        PROVE  /\ Cardinality({j \in Chunks(x) : j <= i}) = i - 2
               /\ EventsOf(x)[i] = Chunk(<<x, i - 2>>, i - 2 > 1, ended /\ i - 2 = n)
    <3>1. i \in 3..(n + 2) /\ {j \in Chunks(x) : j <= i} = 3..i
      BY <2>3
    <3>2. Cardinality(3..i) = i - 2
      BY <3>1, FS_Interval
    <3>3. i - 2 \in 1..n /\ (i - 2) + 2 = i
      BY <3>1
    <3>4. q[i] = Chunk(<<x, i - 2>>, i - 2 > 1, ended /\ i - 2 = n)
      BY <2>1, <3>3 DEF Text, Numbered
    <3>5. QED
      BY <3>1, <3>2, <3>4 DEF EventsOf
  <2>6. QED
    BY <2>1, <2>3, <2>4, <2>5
<1>2. QED
  BY <1>1, ExecutorInvariant, PTL

-----------------------------------------------------------------------------
(***************************************************************************)
(* Proofs about TaskStore, for every set of tasks and owners, every        *)
(* retention, and every directory the server may be started on.            *)
(*                                                                         *)
(* StoreInv adds to the types where an open task can be: before the        *)
(* constructor, anywhere; during its loop, only in files still to be       *)
(* looked at; after it, only among the tasks of this process.  And every   *)
(* file belongs to an id that was used, so that a new task never takes the *)
(* place of a record.                                                      *)
(*                                                                         *)
(* ListInv is about a client on its way through the pages: what it was     *)
(* shown stays on this side of its cursor, what did not change and was not *)
(* shown stays behind it.  For this a finite set of records must have a    *)
(* listing in the order of list() (CanBeListed), by induction on its size. *)
(***************************************************************************)


(* Where the open tasks are, in each phase of the process.                 *)
OpenTracked ==
    /\ process = "starting" => \A t \in TaskIds : files[t].state \in Open => t \in todo
    /\ process = "up" => \A t \in TaskIds : files[t].state \in Open => t \in ours
    /\ process = "up" => todo = {}
    /\ process # "up" => ours = {}

(* No file without an id that was given to a task.                         *)
FilesUsed == \A t \in TaskIds : files[t] # NoFile => t \in used

StoreInv == TaskTypeOK /\ OpenTracked /\ FilesUsed

-----------------------------------------------------------------------------
(* A file is a record exactly when its state is one of a task.             *)
LEMMA FileKinds ==
    ASSUME NEW f \in Record \cup {NoFile, Damaged}
    PROVE  /\ Read(f) <=> f.state \in Open \cup TERMINAL_STATES
           /\ Read(f) => f # NoFile
BY DEF Read, Record, NoFile, Damaged, Open, TERMINAL_STATES

(* The synchronous sweep removes expired records and touches nothing else. *)
LEMMA MaintainedFiles ==
    ASSUME TaskTypeOK
    PROVE  /\ Maintained \in [TaskIds -> Record \cup {NoFile, Damaged}]
           /\ \A t \in TaskIds :
                \/ Maintained[t] = files[t]
                \/ /\ Maintained[t] = NoFile /\ Read(files[t])
                   /\ Expired(files[t]) /\ files[t].state \in TERMINAL_STATES
BY DEF Maintained, TaskTypeOK, Expired

(* The constructor's turn at a file leaves no open task there, and what    *)
(* has ended as it was.                                                    *)
LEMMA RecoveredFile ==
    ASSUME TaskTypeOK, TaskStoreAssumption, NEW f \in Record \cup {NoFile, Damaged}
    PROVE  /\ Recovered(f) \in Record \cup {NoFile, Damaged}
           /\ Recovered(f).state \notin Open
           /\ Recovered(f) # NoFile => f # NoFile
           /\ Read(f) =>
                \/ Recovered(f) = NoFile /\ Expired(f)
                \/ /\ Recovered(f) # NoFile /\ Recovered(f).owner = f.owner
                   /\ f.state \in TERMINAL_STATES => Recovered(f) = f
<1>1. clock \in 0..MaxTime
  BY DEF TaskTypeOK
<1>2. CASE ~Read(f)
  BY <1>2, FileKinds DEF Recovered, Open, TERMINAL_STATES
<1>3. CASE Read(f) /\ f.state \notin TERMINAL_STATES
  <2>1. Recovered(f) = [f EXCEPT !.state = "failed", !.time = clock]
    BY <1>3 DEF Recovered
  <2>2. /\ f \in Record /\ [f EXCEPT !.state = "failed", !.time = clock] \in Record
        /\ [f EXCEPT !.state = "failed", !.time = clock].owner = f.owner
        /\ [f EXCEPT !.state = "failed", !.time = clock].state = "failed"
    BY <1>1, <1>3 DEF Read, Record, TERMINAL_STATES
  <2>3. [f EXCEPT !.state = "failed", !.time = clock] # NoFile
    BY <2>2 DEF NoFile
  <2>4. f # NoFile
    BY <1>3, FileKinds
  <2>5. QED
    BY <1>3, <2>1, <2>2, <2>3, <2>4 DEF Open
<1>4. CASE Read(f) /\ f.state \in TERMINAL_STATES
  <2>1. f.state \notin Open /\ NoFile.state \notin Open /\ f # NoFile
    BY <1>4, FileKinds DEF Open, TERMINAL_STATES, NoFile
  <2>2. Recovered(f) = IF Expired(f) THEN NoFile ELSE f
    BY <1>4 DEF Recovered
  <2>3. QED
    BY <1>4, <2>1, <2>2
<1>5. QED
  BY <1>2, <1>3, <1>4

-----------------------------------------------------------------------------
LEMMA StoreInitInv == Init => StoreInv
<1>. SUFFICES ASSUME Init PROVE StoreInv
  OBVIOUS
<1>1. files \in [TaskIds -> Record \cup {NoFile, Damaged}] /\ 0 \in 0..MaxTime
  BY TaskStoreAssumption DEF Init
<1>2. QED
  BY <1>1 DEF Init, StoreInv, TaskTypeOK, OpenTracked, FilesUsed

(* What a step of the store may do: the invariant and the promise on the   *)
(* records follow together, from the same facts about the step.            *)
Preserved == StoreInv' /\ RecordsKept

(* A step that leaves the files alone.                                     *)
LEMMA FilesAlone ==
    ASSUME TaskTypeOK, files' = files
    PROVE  RecordsKept
BY FileKinds DEF RecordsKept, TaskTypeOK

LEMMA RecoverStep ==
    ASSUME StoreInv, NEW t \in TaskIds, Recover(t)
    PROVE  Preserved
<1>1. /\ process = "starting" /\ t \in todo
      /\ files' = [files EXCEPT ![t] = Recovered(files[t])]
      /\ todo' = todo \ {t} /\ Watch
      /\ UNCHANGED <<process, ours, used, clock, listing>>
  BY DEF Recover
<1>2. TaskTypeOK /\ files \in [TaskIds -> Record \cup {NoFile, Damaged}]
  BY DEF StoreInv, TaskTypeOK
<1>3. /\ Recovered(files[t]) \in Record \cup {NoFile, Damaged}
      /\ Recovered(files[t]).state \notin Open
      /\ Recovered(files[t]) # NoFile => files[t] # NoFile
      /\ Read(files[t]) =>
           \/ Recovered(files[t]) = NoFile /\ Expired(files[t])
           \/ /\ Recovered(files[t]) # NoFile
              /\ Recovered(files[t]).owner = files[t].owner
              /\ files[t].state \in TERMINAL_STATES => Recovered(files[t]) = files[t]
  BY <1>2, RecoveredFile, TaskStoreAssumption
<1>4. \A u \in TaskIds : files'[u] = IF u = t THEN Recovered(files[t]) ELSE files[u]
  BY <1>1, <1>2
<1>5. TaskTypeOK'
  BY <1>1, <1>2, <1>3 DEF TaskTypeOK, Watch
<1>6. OpenTracked' /\ FilesUsed'
  BY <1>1, <1>3, <1>4 DEF StoreInv, OpenTracked, FilesUsed
<1>7. RecordsKept
  BY <1>2, <1>3, <1>4, FileKinds DEF RecordsKept
<1>8. QED
  BY <1>5, <1>6, <1>7 DEF Preserved, StoreInv

LEMMA SaveStep ==
    ASSUME StoreInv, NEW t \in TaskIds, NEW o \in Owners,
           NEW s \in Open \cup TERMINAL_STATES, Save(t, o, s)
    PROVE  Preserved
<1>. DEFINE record == [owner |-> o, state |-> s, time |-> clock]
            mine == Read(Maintained[t]) => Maintained[t].owner = o
<1>1. /\ process = "up" /\ Reports(t, s)
      /\ files' = IF mine THEN [Maintained EXCEPT ![t] = record] ELSE Maintained
      /\ used' = used \cup {t} /\ ours' = ours \cup {t} /\ Watch
      /\ UNCHANGED <<process, todo, clock, listing>>
  BY DEF Save, Written
<1>2. TaskTypeOK /\ files \in [TaskIds -> Record \cup {NoFile, Damaged}]
  BY DEF StoreInv, TaskTypeOK
<1>3. record \in Record /\ record.owner = o /\ record # NoFile
  BY <1>2 DEF TaskTypeOK, Record, NoFile
<1>. HIDE DEF record
<1>4. /\ Maintained \in [TaskIds -> Record \cup {NoFile, Damaged}]
      /\ \A u \in TaskIds :
           \/ Maintained[u] = files[u]
           \/ /\ Maintained[u] = NoFile /\ Read(files[u])
              /\ Expired(files[u]) /\ files[u].state \in TERMINAL_STATES
  BY <1>2, MaintainedFiles
<1>5. /\ files' \in [TaskIds -> Record \cup {NoFile, Damaged}]
      /\ \A u \in TaskIds : u # t => files'[u] = Maintained[u]
      /\ files'[t] = IF mine THEN record ELSE Maintained[t]
  BY <1>1, <1>3, <1>4
<1>. HIDE DEF mine
<1>6. TaskTypeOK'
  BY <1>1, <1>2, <1>5 DEF TaskTypeOK, Watch
<1>7. OpenTracked' /\ FilesUsed'
  <2>1. NoFile.state \notin Open
    BY DEF NoFile, Open
  <2>2. QED
    BY <1>1, <1>4, <1>5, <2>1 DEF StoreInv, OpenTracked, FilesUsed
<1>8. \A u \in TaskIds : Read(files[u]) => files[u] # NoFile
  BY <1>2, FileKinds
<1>9. RecordsKept
  <2>1. ASSUME NEW u \in TaskIds, Read(files[u]), files'[u] = Maintained[u]
        PROVE  \/ files'[u] = NoFile /\ Expired(files[u])
               \/ files'[u] # NoFile /\ files'[u] = files[u]
    BY <1>4, <1>8, <2>1
  <2>2. ASSUME Read(files[t]), mine, files'[t] = record
        PROVE  /\ files'[t] # NoFile
               /\ files'[t].owner = files[t].owner
               /\ files[t].state \notin TERMINAL_STATES
    <3>1. t \in used
      BY <1>8, <2>2 DEF StoreInv, FilesUsed
    <3>2. files[t].state \in Open /\ files[t].state \notin TERMINAL_STATES
      BY <1>1, <3>1 DEF Reports, Open, TERMINAL_STATES
    <3>3. Maintained[t] = files[t]
      BY <1>4, <3>2
    <3>4. files[t].owner = o
      BY <2>2, <3>3 DEF mine
    <3>5. QED
      BY <1>3, <2>2, <3>2, <3>4
  <2>3. QED
    BY <1>5, <2>1, <2>2 DEF RecordsKept
<1>10. QED
  BY <1>6, <1>7, <1>9 DEF Preserved, StoreInv

(* A load, a failed save, a page of a listing: only the sweep.             *)
LEMMA SweepStep ==
    ASSUME StoreInv, process = "up", files' = Maintained, same' \subseteq TaskIds,
           UNCHANGED <<process, todo, ours, used, clock>>
    PROVE  Preserved
<1>1. TaskTypeOK /\ files \in [TaskIds -> Record \cup {NoFile, Damaged}]
  BY DEF StoreInv, TaskTypeOK
<1>2. /\ Maintained \in [TaskIds -> Record \cup {NoFile, Damaged}]
      /\ \A u \in TaskIds :
           \/ Maintained[u] = files[u]
           \/ /\ Maintained[u] = NoFile /\ Read(files[u])
              /\ Expired(files[u]) /\ files[u].state \in TERMINAL_STATES
  BY <1>1, MaintainedFiles
<1>3. TaskTypeOK'
  BY <1>1, <1>2 DEF TaskTypeOK
<1>4. OpenTracked' /\ FilesUsed'
  <2>1. NoFile.state \notin Open
    BY DEF NoFile, Open
  <2>2. QED
    BY <1>2, <2>1 DEF StoreInv, OpenTracked, FilesUsed
<1>5. RecordsKept
  BY <1>1, <1>2, FileKinds DEF RecordsKept
<1>6. QED
  BY <1>3, <1>4, <1>5 DEF Preserved, StoreInv

LEMMA StoreNextInv == StoreInv /\ [Next]_vars => StoreInv' /\ [RecordsKept]_vars
<1>. SUFFICES ASSUME StoreInv, [Next]_vars
              PROVE  StoreInv' /\ [RecordsKept]_vars
  OBVIOUS
<1>0. TaskTypeOK
  BY DEF StoreInv
<1>1. CASE Construct
  <2>1. StoreInv'
    <3>1. /\ process = "down" /\ process' = "starting"
          /\ todo' = {t \in TaskIds : files[t] # NoFile}
          /\ UNCHANGED <<files, ours, used, clock, listing, same>>
      BY <1>1 DEF Construct
    <3>2. \A t \in TaskIds : files[t].state \in Open => files[t] # NoFile
      BY DEF NoFile, Open
    <3>3. QED
      BY <3>1, <3>2 DEF StoreInv, TaskTypeOK, OpenTracked, FilesUsed
  <2>2. QED
    BY <1>0, <1>1, <2>1, FilesAlone DEF Construct
<1>2. ASSUME NEW t \in TaskIds, Recover(t)
      PROVE  StoreInv' /\ [RecordsKept]_vars
  BY <1>2, RecoverStep DEF Preserved
<1>3. CASE Constructed
  <2>1. StoreInv'
    BY <1>3 DEF Constructed, StoreInv, TaskTypeOK, OpenTracked, FilesUsed
  <2>2. QED
    BY <1>0, <1>3, <2>1, FilesAlone DEF Constructed
<1>4. CASE Stop
  <2>1. StoreInv'
    BY <1>4 DEF Stop, StoreInv, TaskTypeOK, OpenTracked, FilesUsed
  <2>2. QED
    BY <1>0, <1>4, <2>1, FilesAlone DEF Stop
<1>5. ASSUME NEW t \in TaskIds, NEW o \in Owners, NEW s \in Open \cup TERMINAL_STATES,
             Save(t, o, s)
      PROVE  StoreInv' /\ [RecordsKept]_vars
  BY <1>5, SaveStep DEF Preserved
<1>6. CASE Touch
  <2>1. same' \subseteq TaskIds
    BY <1>0, <1>6 DEF Touch, Watch, TaskTypeOK
  <2>2. QED
    BY <1>6, <2>1, SweepStep DEF Touch, Preserved
<1>7. ASSUME NEW o \in Owners, NEW filter \in Filters, NEW size \in PageSizes,
             ListFirst(o, filter, size)
      PROVE  StoreInv' /\ [RecordsKept]_vars
  <2>1. same' \subseteq TaskIds
    BY <1>7 DEF ListFirst, Matching, ReadAll
  <2>2. QED
    BY <1>7, <2>1, SweepStep DEF ListFirst, Preserved
<1>8. CASE ListNext
  <2>1. same' \subseteq TaskIds
    BY <1>0, <1>8 DEF ListNext, Watch, TaskTypeOK
  <2>2. QED
    BY <1>8, <2>1, SweepStep DEF ListNext, Preserved
<1>9. CASE Tick
  <2>1. StoreInv'
    <3>1. clock' \in 0..MaxTime
      BY <1>0, <1>9, TaskStoreAssumption DEF Tick, TaskTypeOK
    <3>2. QED
      BY <1>9, <3>1 DEF Tick, StoreInv, TaskTypeOK, OpenTracked, FilesUsed
  <2>2. QED
    BY <1>0, <1>9, <2>1, FilesAlone DEF Tick
<1>10. CASE UNCHANGED vars
  BY <1>10 DEF vars, StoreInv, TaskTypeOK, OpenTracked, FilesUsed
<1>11. QED
  BY <1>1, <1>2, <1>3, <1>4, <1>5, <1>6, <1>7, <1>8, <1>9, <1>10 DEF Next

(* The strengthened invariant holds in every reachable state.              *)
THEOREM StoreInvariant == Spec => []StoreInv
BY StoreInitInv, StoreNextInv, PTL DEF Spec

(* A restart settles the tasks it interrupted and nothing else: while the  *)
(* server answers, every open task is one this process runs, a record      *)
(* keeps its owner, and one that has ended stays as it is until it         *)
(* expires.                                                                *)
THEOREM RestartsSettle == Spec => RestartSettles
<1>1. StoreInv => TaskTypeOK /\ OpenIsOurs
  BY DEF StoreInv, OpenTracked, OpenIsOurs
<1>2. QED
  BY <1>1, StoreInvariant, StoreNextInv, PTL DEF Spec, RestartSettles

-----------------------------------------------------------------------------
(* Listing.                                                                *)
(*                                                                         *)
(* What makes a walk through the pages complete is the order: a task that  *)
(* changes gets a later time and moves towards the pages already shown.    *)
(* So whatever was shown stays on this side of the cursor, and what did    *)
(* not change and was not shown stays behind it.                           *)

Cursors == [time : Nat, id : TaskIds]
Walks == [stage : {"paging", "done"}, owner : Owners, filter : Filters,
          size : PageSizes, token : {<<>>} \cup {<<c>> : c \in Cursors},
          shown : Seq(TaskIds), cut : BOOLEAN]

(* Task t comes after the task that cursor c was made of.                  *)
Past(fs, t, c) ==
    \/ fs[t].time < c.time
    \/ fs[t].time = c.time /\ t < c.id

(* A client on its way through the pages: its cursor is a task; what it    *)
(* was shown is not ahead of it, and was not saved in the future; what it  *)
(* watches is in the listing, and ahead unless it was shown.               *)
Walking(l, fs, watched, given, now) ==
    /\ l \in Walks /\ l.stage = "paging" /\ l.token # <<>>
    /\ IsInjective(l.shown) /\ ToSet(l.shown) \subseteq given
    /\ \A t \in ToSet(l.shown) :
         /\ Read(fs[t]) => ~Past(fs, t, l.token[1])
         /\ fs[t].state \in Open => fs[t].time <= now
    /\ l.token[1].id \in watched => fs[l.token[1].id].time = l.token[1].time
    /\ watched \subseteq Matching(fs, l.owner, l.filter)
    /\ \A t \in watched : t \in ToSet(l.shown) \/ Past(fs, t, l.token[1])

ListInv ==
    /\ IsFiniteSet(used)
    /\ \A t \in ours : Read(files[t]) => files[t].time <= clock
    /\ listing = Idle \/ Walking(listing, files, same, used, clock)

-----------------------------------------------------------------------------
(* A finite set of records can be listed in the order of list().           *)
LEMMA CanBeListed ==
    ASSUME NEW fs, NEW S \in SUBSET TaskIds, IsFiniteSet(S), \A t \in S : fs[t].time \in Nat
    PROVE  \E q \in [1..Cardinality(S) -> S] :
               \A i, j \in 1..Cardinality(S) : i < j => Before(fs, q[i], q[j])
<1>. DEFINE Listable(A, n) ==
                \E q \in [1..n -> A] : \A i, j \in 1..n : i < j => Before(fs, q[i], q[j])
            T == {n \in Nat : \A A \in SUBSET S : Cardinality(A) = n => Listable(A, n)}
<1>1. 0 \in T
  <2>. SUFFICES ASSUME NEW A \in SUBSET S, Cardinality(A) = 0 PROVE Listable(A, 0)
    BY Zenon
  <2>1. A = {} /\ 1..0 = {}
    BY FS_Subset, FS_EmptySet
  <2>2. [i \in 1..0 |-> i] \in [1..0 -> A]
    BY <2>1
  <2>3. \A q \in [1..0 -> A] : \A i, j \in 1..0 : i < j => Before(fs, q[i], q[j])
    OBVIOUS
  <2>4. QED
    BY <2>2, <2>3
<1>2. ASSUME NEW n \in Nat, n \in T PROVE n + 1 \in T
  <2>0. n + 1 \in Nat
    OBVIOUS
  <2>. SUFFICES ASSUME NEW A \in SUBSET S, Cardinality(A) = n + 1 PROVE Listable(A, n + 1)
    BY <2>0, Zenon
  <2>1. IsFiniteSet(A) /\ A # {} /\ A \subseteq Nat
    <3>1. IsFiniteSet(A)
      BY FS_Subset
    <3>2. n + 1 # 0
      OBVIOUS
    <3>3. A # {}
      BY <3>2, FS_EmptySet
    <3>4. QED
      BY <3>1, <3>3, TaskStoreAssumption
  <2>2. PICK b \in A : \A t \in A \ {b} : Before(fs, t, b)
    <3>. DEFINE Times == {x \in Nat : \E t \in A : fs[t].time = x}
    <3>1. Times # {} /\ \A t \in A : fs[t].time \in Times
      BY <2>1
    <3>2. PICK first \in Times : \A x \in Times : first <= x
      BY <3>1, LeastNumber
    <3>. DEFINE Among == {t \in A : fs[t].time = first}
    <3>3. Among # {} /\ Among \in SUBSET Nat
      BY <2>1, <3>2
    <3>4. PICK b \in Among : \A t \in Among : b <= t
      BY <3>3, LeastNumber
    <3>5. ASSUME NEW t \in A \ {b} PROVE Before(fs, t, b)
      <4>1. fs[t].time \in Nat /\ first \in Nat /\ first <= fs[t].time /\ fs[b].time = first
        BY <3>1, <3>2, <3>4
      <4>2. fs[t].time = first => t \in Among
        OBVIOUS
      <4>3. t \in Nat /\ b \in Nat /\ t # b
        BY <2>1, <3>4
      <4>. HIDE DEF Among, Times
      <4>4. QED
        BY <4>1, <4>2, <4>3, <3>4 DEF Before
    <3>6. QED
      BY <3>4, <3>5
  <2>3. Cardinality(A \ {b}) = n
    <3>1. Cardinality(A \ {b}) = Cardinality(A) - 1
      BY <2>1, FS_RemoveElement
    <3>2. QED
      BY <3>1
  <2>4. PICK q \in [1..n -> A \ {b}] : \A i, j \in 1..n : i < j => Before(fs, q[i], q[j])
    BY <1>2, <2>3
  <2>. DEFINE r == [i \in 1..(n + 1) |-> IF i = n + 1 THEN b ELSE q[i]]
  <2>5. r \in [1..(n + 1) -> A]
    BY <2>4
  <2>6. ASSUME NEW i \in 1..(n + 1), NEW j \in 1..(n + 1), i < j
        PROVE  Before(fs, r[i], r[j])
    <3>1. i \in 1..n /\ r[i] = q[i] /\ q[i] \in A \ {b}
      BY <2>4, <2>6
    <3>2. j = n + 1 \/ j \in 1..n
      OBVIOUS
    <3>3. QED
      BY <2>2, <2>4, <2>6, <3>1, <3>2
  <2>. HIDE DEF r
  <2>7. QED
    BY <2>5, <2>6
<1>. HIDE DEF T
<1>3. \A n \in Nat : n \in T
  BY <1>1, <1>2, NatInductionOnSets
<1>4. Cardinality(S) \in T /\ S \in SUBSET S
  BY <1>3, FS_CardinalityType
<1>5. Listable(S, Cardinality(S))
  BY <1>4 DEF T
<1>6. QED
  BY <1>5

(* What sort() returns: every task once, in that order.                    *)
LEMMA SortedListing ==
    ASSUME NEW fs, NEW S \in SUBSET TaskIds, IsFiniteSet(S), \A t \in S : fs[t].time \in Nat
    PROVE  /\ Sorted(fs, S) \in Seq(S)
           /\ \A t \in S : \E i \in 1..Len(Sorted(fs, S)) : Sorted(fs, S)[i] = t
           /\ \A i, j \in 1..Len(Sorted(fs, S)) :
                i < j => Before(fs, Sorted(fs, S)[i], Sorted(fs, S)[j])
<1>. DEFINE n == Cardinality(S)
            all == Sorted(fs, S)
<1>1. n \in Nat
  BY FS_CardinalityType
<1>2. /\ all \in [1..n -> S]
      /\ \A i, j \in DOMAIN all : i < j => Before(fs, all[i], all[j])
  BY CanBeListed DEF Sorted
<1>3. all \in Seq(S) /\ Len(all) = n /\ DOMAIN all = 1..n
  BY <1>1, <1>2, SeqDef, LenProperties
<1>. HIDE DEF all
<1>4. \A i, j \in 1..n : i # j => all[i] # all[j]
  <2>. SUFFICES ASSUME NEW i \in 1..n, NEW j \in 1..n, i < j, all[i] = all[j] PROVE FALSE
    BY <1>1
  <2>1. all[i] \in Nat /\ fs[all[i]].time \in Nat
    BY <1>2, TaskStoreAssumption
  <2>2. Before(fs, all[i], all[j])
    BY <1>2, <1>3
  <2>3. QED
    BY <2>1, <2>2 DEF Before
<1>5. all \in Injection(1..n, S)
  BY <1>2, <1>4 DEF Injection, IsInjective
<1>6. IsFiniteSet(1..n) /\ Cardinality(1..n) = n
  BY <1>1, FS_Interval
<1>7. all \in Surjection(1..n, S)
  BY <1>5, <1>6, FS_Injection
<1>8. QED
  BY <1>2, <1>3, <1>7 DEF Surjection, all

-----------------------------------------------------------------------------
(* The times of records and cursors are numbers.                           *)
LEMMA Times ==
    ASSUME StoreInv
    PROVE  /\ clock \in Nat
           /\ \A f \in Record \cup {NoFile, Damaged} : Read(f) => f.time \in Nat
           /\ \A t \in TaskIds : files[t] \in Record \cup {NoFile, Damaged}
BY TaskStoreAssumption DEF StoreInv, TaskTypeOK, Read, Record

LEMMA CursorOf ==
    ASSUME NEW l \in Walks, l.token # <<>>
    PROVE  l.token[1] \in Cursors /\ l.token[1].time \in Nat /\ l.token[1].id \in TaskIds
<1>1. PICK c \in Cursors : l.token = <<c>>
  BY DEF Walks
<1>2. QED
  BY <1>1 DEF Cursors

(* Steps that move files while a client thinks.                            *)
LEMMA FilesMove ==
    ASSUME StoreInv, ListInv, listing' = listing, Watch,
           used \subseteq used', clock' \in Nat, clock <= clock',
           \A t \in used :
               \/ files'[t] = files[t]
               \/ ~Read(files'[t]) /\ files'[t].state \notin Open
               \/ files[t].state \in Open /\ Read(files'[t]) /\ files'[t].time = clock
    PROVE  listing' = Idle \/ Walking(listing', files', same', used', clock')
<1>. SUFFICES ASSUME listing # Idle PROVE Walking(listing', files', same', used', clock')
  OBVIOUS
<1>. DEFINE l == listing
            c == l.token[1]
<1>1. Walking(l, files, same, used, clock)
  BY DEF ListInv
<1>2. /\ l \in Walks /\ l.stage = "paging" /\ l.token # <<>>
      /\ IsInjective(l.shown) /\ ToSet(l.shown) \subseteq used
      /\ \A t \in ToSet(l.shown) :
           /\ Read(files[t]) => ~Past(files, t, c)
           /\ files[t].state \in Open => files[t].time <= clock
      /\ c.id \in same => files[c.id].time = c.time
      /\ same \subseteq Matching(files, l.owner, l.filter)
      /\ \A t \in same : t \in ToSet(l.shown) \/ Past(files, t, c)
  BY <1>1 DEF Walking
<1>3. c.time \in Nat /\ c.id \in TaskIds
  BY <1>2, CursorOf
<1>. HIDE DEF l, c
<1>4. same' = {t \in same : files'[t] = files[t]}
  BY DEF Watch
<1>5. used \subseteq TaskIds
  BY DEF StoreInv, TaskTypeOK
<1>6. ASSUME NEW t \in ToSet(l.shown)
      PROVE  /\ Read(files'[t]) => ~Past(files', t, c)
             /\ files'[t].state \in Open => files'[t].time <= clock'
  <2>1. t \in used /\ t \in TaskIds /\ files[t] \in Record \cup {NoFile, Damaged} /\ clock \in Nat
    BY <1>2, <1>5, Times
  <2>2. Read(files[t]) => files[t].time \in Nat
    BY <2>1, Times
  <2>3. files[t].state \in Open => Read(files[t])
    BY <2>1, FileKinds
  <2>4. t \in Nat /\ c.id \in Nat
    BY <1>3, <2>1, TaskStoreAssumption
  <2>5. CASE files'[t] = files[t]
    BY <1>2, <2>2, <2>3, <2>5, <2>1 DEF Past
  <2>6. CASE ~Read(files'[t]) /\ files'[t].state \notin Open
    BY <2>6
  <2>7. CASE files[t].state \in Open /\ Read(files'[t]) /\ files'[t].time = clock
    <3>1. files[t].time \in Nat /\ files[t].time <= clock /\ ~Past(files, t, c)
      BY <1>2, <2>2, <2>3, <2>7
    <3>2. QED
      BY <1>3, <2>1, <2>4, <2>7, <3>1 DEF Past
  <2>8. QED
    BY <2>1, <2>5, <2>6, <2>7
<1>7. same' \subseteq Matching(files', l.owner, l.filter)
  BY <1>2, <1>4 DEF Matching, ReadAll
<1>8. \A t \in same' : t \in ToSet(l.shown) \/ Past(files', t, c)
  BY <1>2, <1>4 DEF Past
<1>9. c.id \in same' => files'[c.id].time = c.time
  BY <1>2, <1>4
<1>10. l' = l /\ ToSet(l.shown) \subseteq used' /\ l' = listing' /\ c = l.token[1]
  BY <1>2 DEF l, c
<1>11. QED
  BY <1>2, <1>6, <1>7, <1>8, <1>9, <1>10 DEF Walking

-----------------------------------------------------------------------------
(* Pages.                                                                  *)

(* slice(a, b) of an array.                                                *)
LEMMA Slice ==
    ASSUME NEW S, NEW q \in Seq(S), NEW a \in 0..Len(q), NEW b \in a..Len(q)
    PROVE  /\ SubSeq(q, a + 1, b) \in Seq(S)
           /\ Len(SubSeq(q, a + 1, b)) = b - a
           /\ \A i \in 1..(b - a) : SubSeq(q, a + 1, b)[i] = q[a + i]
<1>1. Len(q) \in Nat /\ a \in Int /\ b \in Int /\ a + 1 \in Int
  BY LenProperties
<1>2. \A i \in (a + 1)..b : q[i] \in S
  BY <1>1, ElementOfSeq
<1>3. /\ SubSeq(q, a + 1, b) \in Seq(S)
      /\ Len(SubSeq(q, a + 1, b)) = IF a + 1 <= b THEN b - (a + 1) + 1 ELSE 0
      /\ \A i \in 1..(b - (a + 1) + 1) : SubSeq(q, a + 1, b)[i] = q[a + 1 + i - 1]
  BY <1>1, <1>2, SubSeqProperties
<1>4. QED
  BY <1>1, <1>3

(* concat() of arrays that have nothing in common.                         *)
LEMMA JoinSet ==
    ASSUME NEW S, NEW p \in Seq(S), NEW q \in Seq(S)
    PROVE  /\ p \o q \in Seq(S)
           /\ ToSet(p \o q) = ToSet(p) \cup ToSet(q)
           /\ IsInjective(p) /\ IsInjective(q) /\ ToSet(p) \cap ToSet(q) = {}
                => IsInjective(p \o q)
<1>. DEFINE r == p \o q
<1>1. /\ r \in Seq(S) /\ Len(r) = Len(p) + Len(q)
      /\ \A i \in 1..(Len(p) + Len(q)) :
            r[i] = IF i <= Len(p) THEN p[i] ELSE q[i - Len(p)]
  BY ConcatProperties
<1>2. /\ Len(p) \in Nat /\ DOMAIN p = 1..Len(p)
      /\ Len(q) \in Nat /\ DOMAIN q = 1..Len(q)
      /\ DOMAIN r = 1..(Len(p) + Len(q))
  BY <1>1, LenProperties
<1>. HIDE DEF r
<1>3. \A i \in 1..Len(p) : i \in DOMAIN r /\ r[i] = p[i]
  BY <1>1, <1>2
<1>4. \A i \in 1..Len(q) : i + Len(p) \in DOMAIN r /\ r[i + Len(p)] = q[i]
  BY <1>1, <1>2
<1>5. \A i \in DOMAIN r : \/ i \in 1..Len(p)
                          \/ i - Len(p) \in 1..Len(q) /\ r[i] = q[i - Len(p)] /\ i \notin 1..Len(p)
  BY <1>1, <1>2
<1>6. ToSet(r) = ToSet(p) \cup ToSet(q)
  <2>1. ToSet(r) \subseteq ToSet(p) \cup ToSet(q)
    BY <1>2, <1>3, <1>5 DEF ToSet
  <2>2. ToSet(p) \subseteq ToSet(r)
    BY <1>2, <1>3 DEF ToSet
  <2>3. ToSet(q) \subseteq ToSet(r)
    BY <1>2, <1>4 DEF ToSet
  <2>4. QED
    BY <2>1, <2>2, <2>3
<1>7. ASSUME IsInjective(p), IsInjective(q), ToSet(p) \cap ToSet(q) = {}
      PROVE  IsInjective(r)
  <2>. SUFFICES ASSUME NEW i \in DOMAIN r, NEW j \in DOMAIN r, r[i] = r[j] PROVE i = j
    BY DEF IsInjective
  <2>1. \A a \in 1..Len(p), b \in 1..Len(q) : p[a] # q[b]
    BY <1>2, <1>7 DEF ToSet
  <2>2. CASE i \in 1..Len(p) /\ j \in 1..Len(p)
    BY <1>2, <1>3, <1>7, <2>2 DEF IsInjective
  <2>3. CASE i \notin 1..Len(p) /\ j \notin 1..Len(p)
    <3>1. i - Len(p) = j - Len(p)
      BY <1>2, <1>5, <1>7, <2>3 DEF IsInjective
    <3>2. QED
      BY <1>2, <3>1
  <2>4. CASE i \in 1..Len(p) /\ j \notin 1..Len(p)
    BY <1>3, <1>5, <2>1, <2>4
  <2>5. CASE i \notin 1..Len(p) /\ j \in 1..Len(p)
    BY <1>3, <1>5, <2>1, <2>5
  <2>6. QED
    BY <2>2, <2>3, <2>4, <2>5
<1>8. QED
  BY <1>1, <1>6, <1>7 DEF r

LEMMA LesserOf ==
    ASSUME NEW a \in Nat, NEW b \in Nat
    PROVE  Min({a, b}) = IF a <= b THEN a ELSE b
<1>1. \E x \in {a, b} : \A y \in {a, b} : x <= y
  OBVIOUS
<1>2. Min({a, b}) \in {a, b} /\ \A y \in {a, b} : Min({a, b}) <= y
  BY <1>1 DEF Min
<1>3. QED
  BY <1>2

LEMMA Offsets ==
    ASSUME NEW k \in Nat, NEW p \in Nat, NEW n \in Nat, k + p <= n
    PROVE  /\ \A i \in 1..p : k + i \in 1..(k + p)
           /\ \A i \in (k + 1)..(k + p) : i - k \in 1..p /\ k + (i - k) = i
           /\ \A i \in (k + p + 1)..n : i \in 1..n /\ k + p < i
           /\ \A i \in 1..(k + p) : i \in 1..n
           /\ p > 0 /\ k > 0 => k \in 1..n /\ k \in 1..(k + p - 1)
OBVIOUS

LEMMA TasksAreNumbers == \A t \in TaskIds : t \in Nat
BY TaskStoreAssumption

(* A page is cut from a listing of the tasks M behind its entry k (0: the  *)
(* first page), for a client that was shown what is not ahead of k, all    *)
(* that it watches up to k, and nothing behind k.                          *)
Turns(fs, M, all, k, l, watched) ==
    /\ M \subseteq TaskIds /\ \A t \in M : fs[t].time \in Nat
    /\ all \in Seq(M) /\ \A t \in M : \E i \in 1..Len(all) : all[i] = t
    /\ \A i, j \in 1..Len(all) : i < j => Before(fs, all[i], all[j])
    /\ k \in 0..Len(all)
    /\ l \in Walks /\ l.stage = "paging" /\ IsInjective(l.shown)
    /\ \A i \in (k + 1)..Len(all) : all[i] \notin ToSet(l.shown)
    /\ \A t \in ToSet(l.shown) : Read(fs[t]) =>
         fs[t].time \in Nat /\ k > 0 /\ ~Before(fs, all[k], t)
    /\ watched \subseteq M
    /\ \A i \in 1..k : all[i] \in watched => all[i] \in ToSet(l.shown)

(* The client has the page: no task came twice, and one that it watches    *)
(* has come or is behind the cursor it was given.                          *)
Turned(fs, M, l, watched, W) ==
    /\ W \in Walks /\ W.owner = l.owner /\ W.filter = l.filter /\ ~W.cut
    /\ IsInjective(W.shown)
    /\ ToSet(l.shown) \subseteq ToSet(W.shown)
    /\ ToSet(W.shown) \subseteq ToSet(l.shown) \cup M
    /\ W.stage = "done" => watched \subseteq ToSet(W.shown)
    /\ W.stage = "paging" =>
         /\ W.token # <<>> /\ fs[W.token[1].id].time = W.token[1].time
         /\ \A t \in ToSet(W.shown) : Read(fs[t]) => ~Past(fs, t, W.token[1])
         /\ \A t \in watched : t \in ToSet(W.shown) \/ Past(fs, t, W.token[1])

(* The order of the listing is strict: it goes one way only, and through.  *)
LEMMA BeforeIsStrict ==
    ASSUME NEW fs, NEW a \in Nat, fs[a].time \in Nat
    PROVE  ~Before(fs, a, a)
BY DEF Before

(* If a task comes before a second and that before a third, so does it.    *)
LEMMA BeforeIsTransitive ==
    ASSUME NEW fs, NEW a \in Nat, NEW b \in Nat, NEW c \in Nat,
           fs[a].time \in Nat, fs[b].time \in Nat, fs[c].time \in Nat,
           Before(fs, a, b), Before(fs, b, c)
    PROVE  Before(fs, a, c)
BY DEF Before

(* A page cut from the sorted listing at offset k carries the walk on: it  *)
(* repeats nothing, stays within what matches, and its token divides what  *)
(* was shown from what is still to come.                                   *)
LEMMA PageTurned ==
    ASSUME NEW fs, NEW M, NEW all, NEW k, NEW l, NEW watched,
           Turns(fs, M, all, k, l, watched)
    PROVE  Turned(fs, M, l, watched, PageOf(l, fs, SubSeq(all, k + 1, Len(all)), FALSE))
<1>. SUFFICES
        ASSUME M \in SUBSET TaskIds, \A t \in M : fs[t].time \in Nat,
               all \in Seq(M),
               \A t \in M : \E i \in 1..Len(all) : all[i] = t,
               \A i, j \in 1..Len(all) : i < j => Before(fs, all[i], all[j]),
               k \in 0..Len(all),
               l \in Walks, l.stage = "paging", IsInjective(l.shown),
               \A i \in (k + 1)..Len(all) : all[i] \notin ToSet(l.shown),
               \A t \in ToSet(l.shown) : Read(fs[t]) =>
                   fs[t].time \in Nat /\ k > 0 /\ ~Before(fs, all[k], t),
               watched \in SUBSET M,
               \A i \in 1..k : all[i] \in watched => all[i] \in ToSet(l.shown),
               NEW W, W = PageOf(l, fs, SubSeq(all, k + 1, Len(all)), FALSE)
        PROVE  Turned(fs, M, l, watched, W)
  BY DEF Turns
<1>. DEFINE rest == SubSeq(all, k + 1, Len(all))
            p == Min({l.size, Len(rest)})
            page == SubSeq(rest, 1, p)
            more == page # <<>> /\ Len(rest) > Len(page)
<1>1. /\ Len(all) \in Nat /\ k \in Nat /\ k <= Len(all)
      /\ \A i \in 1..Len(all) : all[i] \in M /\ all[i] \in Nat /\ fs[all[i]].time \in Nat
  <2>1. Len(all) \in Nat
    BY LenProperties
  <2>2. k \in Nat /\ k <= Len(all)
    BY <2>1
  <2>3. \A i \in 1..Len(all) : all[i] \in M
    BY ElementOfSeq
  <2>4. \A t \in M : t \in Nat
    BY TasksAreNumbers
  <2>5. QED
    BY <2>1, <2>2, <2>3, <2>4
<1>2. /\ rest \in Seq(M) /\ Len(rest) = Len(all) - k
      /\ \A i \in 1..(Len(all) - k) : rest[i] = all[k + i]
  <2>1. Len(all) \in k..Len(all)
    BY <1>1
  <2>2. QED
    BY <2>1, Slice
<1>3. l.size \in Nat \ {0} /\ l.shown \in Seq(TaskIds)
  BY TaskStoreAssumption DEF Walks
<1>. HIDE DEF rest
<1>4. p \in 0..Len(rest) /\ (p = l.size \/ p = Len(rest)) /\ Len(rest) \in Nat
  <2>1. Len(rest) \in Nat
    BY <1>1, <1>2
  <2>2. p = IF l.size <= Len(rest) THEN l.size ELSE Len(rest)
    BY <1>3, <2>1, LesserOf
  <2>3. QED
    BY <1>3, <2>1, <2>2
<1>. HIDE DEF p
<1>5. /\ page \in Seq(M) /\ Len(page) = p
      /\ \A i \in 1..p : page[i] = all[k + i] /\ k + i \in 1..Len(all)
  <2>1. page = SubSeq(rest, 0 + 1, p) /\ 0 \in 0..Len(rest) /\ p \in 0..Len(rest) /\ p - 0 = p
    BY <1>4
  <2>2. /\ page \in Seq(M) /\ Len(page) = p - 0
        /\ \A i \in 1..(p - 0) : page[i] = rest[0 + i]
    BY <1>2, <2>1, Slice
  <2>3. ASSUME NEW i \in 1..p
        PROVE  page[i] = all[k + i] /\ k + i \in 1..Len(all)
    <3>1. i \in 1..(Len(all) - k) /\ 0 + i = i /\ i \in 1..(p - 0)
      BY <1>1, <1>2, <1>4
    <3>2. k + i \in 1..Len(all)
      BY <1>1, <3>1
    <3>3. QED
      BY <1>2, <2>2, <3>1, <3>2
  <2>4. QED
    BY <2>1, <2>2, <2>3
<1>. HIDE DEF page
<1>5a. p \in Nat /\ k + p \in Nat /\ k + p <= Len(all)
  BY <1>1, <1>2, <1>4
<1>5b. /\ \A i \in 1..p : k + i \in 1..(k + p)
       /\ \A i \in (k + 1)..(k + p) : i - k \in 1..p /\ k + (i - k) = i
       /\ \A i \in (k + p + 1)..Len(all) : i \in 1..Len(all) /\ k + p < i
       /\ \A i \in 1..(k + p) : i \in 1..Len(all)
       /\ p > 0 /\ k > 0 => k \in 1..Len(all) /\ k \in 1..(k + p - 1)
  BY <1>1, <1>5a, Offsets
<1>6. /\ more <=> Len(all) > k + p
      /\ more => p >= 1
  <2>1. page # <<>> <=> p >= 1
    BY <1>5a, <1>5, EmptySeq
  <2>2. Len(rest) > p => p >= 1
    BY <1>3, <1>4
  <2>3. Len(rest) > p <=> Len(all) > k + p
    BY <1>1, <1>2, <1>5a
  <2>4. QED
    BY <1>5, <2>1, <2>2, <2>3
<1>. HIDE DEF more
<1>7. W = [l EXCEPT !.stage = IF more THEN "paging" ELSE "done",
                    !.token = IF more THEN Token(fs, Last(page)) ELSE @,
                    !.shown = @ \o page,
                    !.cut = FALSE]
  BY DEF PageOf, rest, p, page, more
<1>8. page \in Seq(TaskIds)
  BY <1>5, SeqMonotonic
<1>9. DOMAIN page = 1..p
  BY <1>5, LenProperties
<1>10. ToSet(page) \cap ToSet(l.shown) = {}
  <2>1. \A i \in 1..p : k + i \in (k + 1)..Len(all)
    BY <1>1, <1>5
  <2>2. \A i \in 1..p : page[i] \notin ToSet(l.shown)
    BY <1>5, <2>1
  <2>. QED
    BY <1>9, <2>2 DEF ToSet
<1>11. IsInjective(page)
  <2>. SUFFICES ASSUME NEW i \in 1..p, NEW j \in 1..p, i < j, page[i] = page[j] PROVE FALSE
    BY <1>4, <1>9 DEF IsInjective
  <2>1. k + i \in 1..Len(all) /\ k + j \in 1..Len(all) /\ k + i < k + j
    BY <1>1, <1>5
  <2>2. Before(fs, all[k + i], all[k + j]) /\ all[k + i] = all[k + j]
    BY <1>5, <2>1
  <2>3. all[k + i] \in Nat /\ fs[all[k + i]].time \in Nat
    BY <1>1, <2>1
  <2>. DEFINE t == all[k + i]
  <2>4. Before(fs, t, t) /\ t \in Nat /\ fs[t].time \in Nat
    BY <2>2, <2>3
  <2>. HIDE DEF t
  <2>. QED
    BY <2>4, BeforeIsStrict
<1>. DEFINE shown == l.shown \o page
<1>12. /\ shown \in Seq(TaskIds) /\ IsInjective(shown)
       /\ ToSet(shown) = ToSet(l.shown) \cup ToSet(page)
  BY <1>3, <1>8, <1>10, <1>11, JoinSet
<1>. HIDE DEF shown
<1>13. ToSet(page) \subseteq M
  BY <1>1, <1>5, <1>9 DEF ToSet
<1>14. \A t \in watched : \/ t \in ToSet(shown)
                          \/ \E i \in (k + p + 1)..Len(all) : all[i] = t
  <2>. SUFFICES ASSUME NEW t \in watched
                PROVE  \/ t \in ToSet(shown)
                       \/ \E i \in (k + p + 1)..Len(all) : all[i] = t
    OBVIOUS
  <2>1. PICK i \in 1..Len(all) : all[i] = t
    OBVIOUS
  <2>2. CASE i \in 1..k
    BY <1>12, <2>1, <2>2
  <2>3. CASE i \in (k + 1)..(k + p)
    <3>1. i - k \in 1..p /\ k + (i - k) = i
      BY <1>5b, <2>3
    <3>2. page[i - k] = t
      BY <1>5, <2>1, <3>1
    <3>3. QED
      BY <1>9, <1>12, <3>1, <3>2 DEF ToSet
  <2>4. CASE i \in (k + p + 1)..Len(all)
    BY <2>1, <2>4
  <2>5. i \in 1..k \/ i \in (k + 1)..(k + p) \/ i \in (k + p + 1)..Len(all)
    BY <1>1, <1>5a
  <2>. QED
    BY <2>2, <2>3, <2>4, <2>5
<1>15. CASE ~more
  <2>1. W = [l EXCEPT !.stage = "done", !.shown = shown, !.cut = FALSE]
    BY <1>7, <1>15 DEF shown, Walks
  <2>2. /\ W \in Walks /\ W.owner = l.owner /\ W.filter = l.filter /\ ~W.cut
        /\ W.shown = shown /\ W.stage = "done"
    BY <1>12, <2>1 DEF Walks
  <2>3. k + p + 1 > Len(all)
    BY <1>1, <1>2, <1>4, <1>6, <1>15
  <2>4. watched \subseteq ToSet(shown)
    BY <1>1, <1>4, <1>14, <2>3
  <2>5. QED
    BY <1>12, <1>13, <2>2, <2>4 DEF Turned
<1>16. CASE more
  <2>. DEFINE e == all[k + p]
              c == [time |-> fs[e].time, id |-> e]
  <2>1. p \in 1..Len(rest) /\ p >= 1 /\ k + p \in 1..Len(all) /\ Last(page) = e
    BY <1>1, <1>2, <1>3, <1>4, <1>5, <1>6, <1>16 DEF Last
  <2>2. e \in M /\ e \in Nat /\ fs[e].time \in Nat /\ c \in Cursors
    BY <1>1, <2>1 DEF Cursors
  <2>3. W = [l EXCEPT !.stage = "paging", !.token = <<c>>, !.shown = shown, !.cut = FALSE]
    BY <1>7, <1>16, <2>1 DEF shown, Token
  <2>. HIDE DEF c
  <2>4. <<c>> \in {<<>>} \cup {<<d>> : d \in Cursors} /\ <<c>>[1] = c /\ <<c>> # <<>>
    BY <2>2
  <2>. DEFINE token == <<c>>
  <2>. HIDE DEF token
  <2>4a. /\ W \in Walks /\ W.owner = l.owner /\ W.filter = l.filter /\ ~W.cut
         /\ W.shown = shown /\ W.stage = "paging" /\ W.token = token
    <3>1. token \in {<<>>} \cup {<<d>> : d \in Cursors}
      BY <2>4 DEF token
    <3>2. W = [l EXCEPT !.stage = "paging", !.token = token, !.shown = shown, !.cut = FALSE]
      BY <2>3 DEF token
    <3>. QED
      BY <1>12, <3>1, <3>2 DEF Walks
  <2>4b. W.token[1] = c /\ W.token # <<>>
    BY <2>4, <2>4a DEF token
  <2>5. c.id = e /\ c.time = fs[e].time
    BY DEF c
  <2>. HIDE DEF e
  <2>6. \A t : t \in Nat /\ fs[t].time \in Nat => (Past(fs, t, c) <=> Before(fs, e, t))
    BY <2>2, <2>5 DEF Past, Before
  <2>7. \A i \in 1..(k + p - 1) : Before(fs, all[i], e)
    <3>. SUFFICES ASSUME NEW i \in 1..(k + p - 1) PROVE Before(fs, all[i], e)
      OBVIOUS
    <3>1. i \in 1..Len(all) /\ i < k + p
      BY <1>1, <1>5a
    <3>. QED
      BY <2>1, <3>1 DEF e
  <2>8. \A i \in 1..(k + p) : ~Past(fs, all[i], c)
    <3>. SUFFICES ASSUME NEW i \in 1..(k + p) PROVE ~Past(fs, all[i], c)
      OBVIOUS
    <3>1. i \in 1..Len(all) /\ all[i] \in Nat /\ fs[all[i]].time \in Nat
      <4>1. i \in 1..Len(all)
        BY <1>5b
      <4>2. QED
        BY <1>1, <4>1
    <3>2. all[i] = e \/ Before(fs, all[i], e)
      BY <1>5a, <2>7 DEF e
    <3>3. ~Before(fs, e, all[i])
      BY <2>2, <3>1, <3>2, BeforeIsStrict, BeforeIsTransitive
    <3>4. QED
      BY <2>6, <3>1, <3>3
  <2>9. ASSUME NEW t \in ToSet(shown), Read(fs[t])
        PROVE  ~Past(fs, t, c)
    <3>1. CASE t \in ToSet(page)
      <4>1. PICK i \in 1..p : t = page[i]
        BY <1>9, <3>1 DEF ToSet
      <4>2. k + i \in 1..(k + p)
        BY <1>5b
      <4>2a. t = all[k + i]
        BY <1>5, <4>1
      <4>3. QED
        BY <2>8, <4>2, <4>2a
    <3>2. CASE t \in ToSet(l.shown)
      <4>1. fs[t].time \in Nat /\ k > 0 /\ ~Before(fs, all[k], t)
        BY <2>9, <3>2
      <4>2. t \in Nat
        BY <1>3, <3>2, LenProperties, TasksAreNumbers DEF ToSet
      <4>3. Before(fs, all[k], e) /\ all[k] \in Nat /\ fs[all[k]].time \in Nat
        <5>1. k \in 1..Len(all) /\ k \in 1..(k + p - 1)
          BY <1>5b, <2>1, <4>1
        <5>. QED
          BY <1>1, <2>7, <5>1
      <4>4. ~Before(fs, e, t)
        BY <2>2, <4>1, <4>2, <4>3, BeforeIsTransitive
      <4>5. QED
        BY <2>6, <4>1, <4>2, <4>4
    <3>3. QED
      BY <1>12, <2>9, <3>1, <3>2
  <2>10. ASSUME NEW t \in watched, t \notin ToSet(shown)
         PROVE  Past(fs, t, c)
    <3>1. PICK i \in (k + p + 1)..Len(all) : all[i] = t
      BY <1>14, <2>10
    <3>2. Before(fs, e, t) /\ t \in Nat /\ fs[t].time \in Nat
      <4>1. i \in 1..Len(all) /\ k + p < i /\ k + p \in 1..Len(all)
        BY <1>5b, <2>1
      <4>2. t \in Nat /\ fs[t].time \in Nat
        BY <1>1, <3>1, <4>1
      <4>3. Before(fs, all[k + p], all[i])
        BY <4>1
      <4>. QED
        BY <3>1, <4>2, <4>3 DEF e
    <3>3. QED
      BY <2>6, <3>2
  <2>11. QED
    BY <1>12, <1>13, <2>4a, <2>4b, <2>5, <2>9, <2>10 DEF Turned
<1>17. QED
  BY <1>15, <1>16

(* The page of a walk, whether it begins or goes on.                       *)
Begins(l) == l.token = <<>> /\ l.shown = <<>>
Continues(l) ==
    /\ Walking(l, files, same, used, clock)
    /\ same' = {t \in same : files'[t] = files[t]}

(* What list() has to choose from.                                         *)
LEMMA Candidates ==
    ASSUME StoreInv, IsFiniteSet(used), NEW o, NEW filter
    PROVE  /\ Matching(Maintained, o, filter) \in SUBSET TaskIds
           /\ IsFiniteSet(Matching(Maintained, o, filter))
           /\ \A t \in Matching(Maintained, o, filter) :
                /\ t \in used /\ Read(Maintained[t]) /\ Maintained[t].time \in Nat
<1>1. TaskTypeOK /\ used \subseteq TaskIds
  BY DEF StoreInv, TaskTypeOK
<1>2. /\ Maintained \in [TaskIds -> Record \cup {NoFile, Damaged}]
      /\ \A t \in TaskIds : Maintained[t] = files[t] \/ Maintained[t] = NoFile
  BY <1>1, MaintainedFiles
<1>3. \A t \in TaskIds : Read(Maintained[t]) => t \in used /\ Maintained[t].time \in Nat
  <2>. SUFFICES ASSUME NEW t \in TaskIds, Read(Maintained[t])
                PROVE  t \in used /\ Maintained[t].time \in Nat
    OBVIOUS
  <2>1. Maintained[t] \in Record \cup {NoFile, Damaged}
    BY <1>2
  <2>2. Maintained[t] # NoFile /\ Maintained[t].time \in Nat
    BY <2>1, FileKinds, Times
  <2>3. QED
    BY <1>2, <2>2 DEF StoreInv, FilesUsed
<1>4. Matching(Maintained, o, filter) \in SUBSET used
  BY <1>3 DEF Matching, ReadAll
<1>5. QED
  BY <1>1, <1>3, <1>4, FS_Subset DEF Matching, ReadAll

LEMMA PageStep ==
    ASSUME StoreInv, ListInv, process = "up", files' = Maintained,
           UNCHANGED <<used, clock>>,
           NEW l \in Walks, l.stage = "paging",
           same' \subseteq Matching(Maintained, l.owner, l.filter),
           Begins(l) \/ Continues(l)
    PROVE  /\ PageSound(Page(l))
           /\ Page(l).stage = "paging" => Walking(Page(l), files', same', used', clock')
<1>. DEFINE fs == Maintained
            M == Matching(fs, l.owner, l.filter)
            all == Sorted(fs, M)
            c == l.token[1]
            W == Page(l)
<1>. SUFFICES /\ PageSound(W)
              /\ W.stage = "paging" => Walking(W, files', same', used', clock')
  OBVIOUS
<1>1. TaskTypeOK /\ used \subseteq TaskIds /\ IsFiniteSet(used)
  BY DEF StoreInv, TaskTypeOK, ListInv
<1>. HIDE DEF W, all, M, c
<1>2. \A t \in TaskIds : fs[t] = files[t] \/ fs[t] = NoFile
  BY <1>1, MaintainedFiles
<1>3. ~Read(NoFile) /\ NoFile.state \notin Open
  BY FileKinds DEF NoFile, Open
<1>4. /\ M \in SUBSET TaskIds /\ IsFiniteSet(M)
      /\ \A t \in M : t \in used /\ Read(fs[t]) /\ fs[t].time \in Nat
  <2>1. /\ Matching(Maintained, l.owner, l.filter) \in SUBSET TaskIds
        /\ IsFiniteSet(Matching(Maintained, l.owner, l.filter))
        /\ \A t \in Matching(Maintained, l.owner, l.filter) :
                /\ t \in used /\ Read(Maintained[t]) /\ Maintained[t].time \in Nat
    BY <1>1, Candidates
  <2>2. QED
    BY <2>1 DEF fs, M
<1>. HIDE DEF fs
<1>5. /\ all \in Seq(M)
      /\ \A t \in M : \E i \in 1..Len(all) : all[i] = t
      /\ \A i, j \in 1..Len(all) : i < j => Before(fs, all[i], all[j])
  BY <1>4, SortedListing DEF all
<1>6. Len(all) \in Nat /\ DOMAIN all = 1..Len(all) /\ \A i \in 1..Len(all) : all[i] \in M
  BY <1>5, LenProperties, ElementOfSeq
<1>7. \A t \in M : t \in Nat /\ fs[t].time \in Nat
  BY <1>4, TasksAreNumbers
<1>8. W = PageFrom(l, fs, all, CursorIndex(fs, all, l.token))
  BY DEF Page, PageIn, fs, M, all, W
<1>9. IsInjective(l.shown) /\ ToSet(l.shown) \subseteq used
  <2>1. CASE Begins(l)
    BY <2>1 DEF Begins, IsInjective, ToSet
  <2>2. CASE Continues(l)
    BY <2>2 DEF Continues, Walking
  <2>3. QED
    BY <2>1, <2>2
<1>10. \A t \in TaskIds : fs[t].state \in Open => fs[t].time <= clock
  <2>. SUFFICES ASSUME NEW t \in TaskIds, fs[t].state \in Open PROVE fs[t].time <= clock
    OBVIOUS
  <2>1. fs[t] = files[t]
    BY <1>2, <1>3
  <2>2. Read(files[t]) /\ t \in ours
    BY <2>1, FileKinds, Times DEF StoreInv, OpenTracked
  <2>3. QED
    BY <2>1, <2>2 DEF ListInv
<1>11. files' = fs
  BY DEF fs
<1>12. ASSUME Continues(l)
       PROVE  /\ l.token # <<>> /\ c.time \in Nat /\ c.id \in Nat
              /\ \A t \in ToSet(l.shown) : Read(fs[t]) => fs[t].time \in Nat /\ ~Past(fs, t, c)
              /\ c.id \in same' => fs[c.id].time = c.time
              /\ \A t \in same' : t \in ToSet(l.shown) \/ Past(fs, t, c)
  <2>1. /\ l.token # <<>>
        /\ \A t \in ToSet(l.shown) : Read(files[t]) => ~Past(files, t, c)
        /\ c.id \in same => files[c.id].time = c.time
        /\ \A t \in same : t \in ToSet(l.shown) \/ Past(files, t, c)
        /\ same' = {t \in same : fs[t] = files[t]}
    BY <1>11, <1>12 DEF Continues, Walking, c
  <2>2. c.time \in Nat /\ c.id \in Nat
    BY <2>1, CursorOf, TasksAreNumbers DEF c
  <2>3. \A t \in ToSet(l.shown) : Read(fs[t]) => fs[t].time \in Nat /\ ~Past(fs, t, c)
    <3>. SUFFICES ASSUME NEW t \in ToSet(l.shown), Read(fs[t])
                  PROVE  fs[t].time \in Nat /\ ~Past(fs, t, c)
      OBVIOUS
    <3>1. t \in TaskIds
      BY <1>1, <1>9
    <3>2. fs[t] = files[t] /\ files[t] \in Record \cup {NoFile, Damaged}
      BY <1>2, <1>3, <3>1, Times
    <3>3. Read(files[t]) /\ files[t].time \in Nat
      BY <3>2, Times
    <3>4. QED
      BY <2>1, <3>2, <3>3 DEF Past
  <2>4. c.id \in same' => fs[c.id].time = c.time
    BY <2>1
  <2>5. \A t \in same' : t \in ToSet(l.shown) \/ Past(fs, t, c)
    BY <2>1 DEF Past
  <2>6. QED
    BY <2>1, <2>2, <2>3, <2>4, <2>5
<1>13. same' \in SUBSET M
  BY DEF M, fs
(* The page behind entry k.                                                *)
<1>14. ASSUME NEW k \in 0..Len(all),
              W = PageOf(l, fs, SubSeq(all, k + 1, Len(all)), FALSE),
              \A i \in (k + 1)..Len(all) : all[i] \notin ToSet(l.shown),
              \A t \in ToSet(l.shown) : Read(fs[t]) =>
                  fs[t].time \in Nat /\ k > 0 /\ ~Before(fs, all[k], t),
              \A i \in 1..k : all[i] \in same' => all[i] \in ToSet(l.shown)
       PROVE  /\ PageSound(W)
              /\ W.stage = "paging" => Walking(W, files', same', used', clock')
  <2>1. /\ W \in Walks /\ W.owner = l.owner /\ W.filter = l.filter /\ ~W.cut
        /\ IsInjective(W.shown)
        /\ ToSet(W.shown) \subseteq ToSet(l.shown) \cup M
        /\ W.stage = "done" => same' \subseteq ToSet(W.shown)
        /\ W.stage = "paging" =>
             /\ W.token # <<>> /\ fs[W.token[1].id].time = W.token[1].time
             /\ \A t \in ToSet(W.shown) : Read(fs[t]) => ~Past(fs, t, W.token[1])
             /\ \A t \in same' : t \in ToSet(W.shown) \/ Past(fs, t, W.token[1])
    <3>1. Turns(fs, M, all, k, l, same')
      BY <1>4, <1>5, <1>9, <1>13, <1>14 DEF Turns
    <3>2. Turned(fs, M, l, same', W)
      BY <1>14, <3>1, PageTurned
    <3>3. QED
      BY <3>2 DEF Turned
  <2>2. PageSound(W)
    BY <2>1 DEF PageSound
  <2>3. ToSet(W.shown) \subseteq used'
    BY <1>4, <1>9, <2>1
  <2>4. \A t \in ToSet(W.shown) : fs[t].state \in Open => fs[t].time <= clock'
    BY <1>1, <1>10, <2>3
  <2>5. ASSUME W.stage = "paging"
        PROVE  Walking(W, files', same', used', clock')
    <3>1. same' \subseteq Matching(fs, W.owner, W.filter)
      BY <1>13, <2>1 DEF M
    <3>2. QED
      BY <1>11, <2>1, <2>3, <2>4, <2>5, <3>1 DEF Walking
  <2>6. QED
    BY <2>2, <2>5
<1>15. CASE Begins(l)
  <2>1. CursorIndex(fs, all, l.token) = {0}
    BY <1>15 DEF Begins, CursorIndex
  <2>2. Min({0}) = 0
    BY LesserOf
  <2>3. W = PageOf(l, fs, SubSeq(all, 0 + 1, Len(all)), FALSE)
    BY <1>8, <2>1, <2>2 DEF PageFrom, Behind
  <2>. DEFINE k == 0
  <2>4. /\ k \in 0..Len(all) /\ W = PageOf(l, fs, SubSeq(all, k + 1, Len(all)), FALSE)
        /\ ToSet(l.shown) = {} /\ 1..k = {}
    BY <1>6, <1>15, <2>3 DEF Begins, ToSet
  <2>. HIDE DEF k
  <2>5. QED
    BY <1>14, <2>4
<1>16. CASE Continues(l)
  <2>. DEFINE index == {i \in 1..Len(all) : AtCursor(fs, all[i], c)}
  <2>1. CursorIndex(fs, all, l.token) = index
    BY <1>6, <1>12, <1>16 DEF CursorIndex, c
  <2>2. CASE index = {}
    <3>1. W = PageOf(l, fs, <<>>, TRUE)
      BY <1>8, <2>1, <2>2 DEF PageFrom, Behind
    <3>2. /\ W.stage = "done" /\ W.cut /\ W.token = l.token /\ W.shown = l.shown
      <4>1. SubSeq(<<>>, 1, Min({l.size, Len(<<>>)})) = <<>>
        <5>1. l.size \in Nat /\ Len(<<>>) = 0
          BY TaskStoreAssumption, EmptySeq DEF Walks
        <5>2. Min({l.size, 0}) = 0
          BY <5>1, LesserOf
        <5>3. QED
          BY <5>1, <5>2, SubSeqEmpty
      <4>2. W = [l EXCEPT !.stage = "done", !.token = @, !.shown = @ \o <<>>, !.cut = TRUE]
        BY <3>1, <4>1 DEF PageOf
      <4>3. l.shown \o <<>> = l.shown
        BY ConcatEmptySeq DEF Walks
      <4>4. QED
        BY <4>2, <4>3 DEF Walks
    <3>3. c.id \notin same'
      <4>. SUFFICES ASSUME c.id \in same' PROVE FALSE
        OBVIOUS
      <4>1. c.id \in M /\ fs[c.id].time = c.time
        BY <1>12, <1>13, <1>16
      <4>2. PICK i \in 1..Len(all) : all[i] = c.id
        BY <1>5, <4>1
      <4>3. QED
        BY <2>2, <4>1, <4>2 DEF AtCursor
    <3>4. QED
      BY <1>9, <3>2, <3>3 DEF PageSound, c
  <2>3. ASSUME NEW k \in index
        PROVE  /\ PageSound(W)
               /\ W.stage = "paging" => Walking(W, files', same', used', clock')
    <3>1. k \in 1..Len(all) /\ all[k] = c.id /\ fs[all[k]].time = c.time
      BY DEF AtCursor
    <3>2. all[k] \in M /\ all[k] \in Nat /\ fs[all[k]].time \in Nat
      BY <1>6, <1>7, <3>1
    <3>3. \A t \in Nat : fs[t].time \in Nat => (Past(fs, t, c) <=> Before(fs, all[k], t))
      BY <3>1, <3>2 DEF Past, Before
    <3>4. \A i \in 1..k : ~Past(fs, all[i], c)
      <4>. SUFFICES ASSUME NEW i \in 1..k PROVE ~Past(fs, all[i], c)
        OBVIOUS
      <4>1. i \in 1..Len(all) /\ all[i] \in M /\ all[i] \in Nat /\ fs[all[i]].time \in Nat
        BY <1>6, <1>7, <3>1
      <4>2. all[i] = all[k] \/ Before(fs, all[i], all[k])
        <5>1. i = k \/ i < k
          BY <1>6, <3>1
        <5>2. CASE i < k
          BY <1>5, <3>1, <4>1, <5>2
        <5>3. QED
          BY <5>1, <5>2
      <4>3. ~Before(fs, all[k], all[i])
        BY <3>2, <4>1, <4>2, BeforeIsStrict, BeforeIsTransitive
      <4>4. QED
        BY <3>3, <4>1, <4>3
    <3>5. \A i \in (k + 1)..Len(all) : Past(fs, all[i], c) /\ all[i] # all[k]
      <4>. SUFFICES ASSUME NEW i \in (k + 1)..Len(all)
                    PROVE  Past(fs, all[i], c) /\ all[i] # all[k]
        OBVIOUS
      <4>1. i \in 1..Len(all) /\ k < i
        BY <1>6, <3>1
      <4>2. all[i] \in M /\ all[i] \in Nat /\ fs[all[i]].time \in Nat
        BY <1>6, <1>7, <4>1
      <4>3. Before(fs, all[k], all[i])
        BY <1>5, <3>1, <4>1
      <4>4. QED
        BY <3>2, <3>3, <4>2, <4>3, BeforeIsStrict
    <3>6. index = {k}
      <4>. SUFFICES ASSUME NEW j \in index, j # k PROVE FALSE
        OBVIOUS
      <4>1. j \in 1..Len(all) /\ all[j] = all[k]
        BY <3>1 DEF AtCursor
      <4>2. j < k \/ k < j
        BY <1>6, <3>1, <4>1
      <4>3. Before(fs, all[k], all[k])
        BY <1>5, <3>1, <4>1, <4>2
      <4>4. QED
        BY <3>2, <4>3, BeforeIsStrict
    <3>. HIDE DEF index
    <3>7. Min({k}) = k
      BY <1>6, <3>1, LesserOf
    <3>8. W = PageOf(l, fs, SubSeq(all, k + 1, Len(all)), FALSE)
      BY <1>8, <2>1, <3>6, <3>7 DEF PageFrom, Behind
    <3>9. \A i \in (k + 1)..Len(all) : all[i] \notin ToSet(l.shown)
      <4>1. \A i \in (k + 1)..Len(all) : all[i] \in M
        BY <1>6, <3>1
      <4>2. QED
        BY <1>4, <1>12, <1>16, <3>5, <4>1
    <3>10. \A t \in ToSet(l.shown) : Read(fs[t]) =>
               fs[t].time \in Nat /\ k > 0 /\ ~Before(fs, all[k], t)
      <4>1. \A t \in ToSet(l.shown) : t \in Nat
        BY <1>1, <1>9, TasksAreNumbers
      <4>2. k > 0
        BY <1>6, <3>1
      <4>3. QED
        BY <1>12, <1>16, <3>3, <4>1, <4>2
    <3>11. \A i \in 1..k : all[i] \in same' => all[i] \in ToSet(l.shown)
      BY <1>12, <1>16, <3>4
    <3>12. k \in 0..Len(all)
      BY <1>6, <3>1
    <3>13. QED
      BY <1>14, <3>8, <3>9, <3>10, <3>11, <3>12
  <2>4. QED
    BY <2>2, <2>3
<1>17. QED
  BY <1>15, <1>16

-----------------------------------------------------------------------------
(* Every step keeps the walk, and each page of it is sound.                *)
Shown == listing.stage = "paging" /\ listing' # listing => PageSound(Page(listing))

LEMMA ListInitInv == Init => ListInv
BY TaskStoreAssumption DEF Init, ListInv

(* What the files are after a sweep.                                       *)
LEMMA Swept ==
    ASSUME StoreInv
    PROVE  \A t \in TaskIds :
             /\ Maintained[t] # files[t] => Maintained[t] = NoFile
             /\ files[t].state \in Open => Maintained[t] = files[t] /\ Read(files[t])
             /\ ~Read(NoFile) /\ NoFile.state \notin Open
<1>1. ~Read(NoFile) /\ NoFile.state \notin Open
  BY FileKinds DEF NoFile, Open
<1>2. TaskTypeOK
  BY DEF StoreInv
<1>3. \A t \in TaskIds : files[t].state \in Open => Read(files[t])
  BY FileKinds, Times
<1>4. QED
  BY <1>1, <1>2, <1>3, MaintainedFiles DEF Open, TERMINAL_STATES

LEMMA SaveWalk ==
    ASSUME StoreInv, ListInv, NEW t \in TaskIds, NEW o \in Owners,
           NEW s \in Open \cup TERMINAL_STATES, Save(t, o, s)
    PROVE  ListInv' /\ Shown
<1>. DEFINE record == [owner |-> o, state |-> s, time |-> clock]
            mine == Read(Maintained[t]) => Maintained[t].owner = o
<1>1. /\ Reports(t, s)
      /\ files' = IF mine THEN [Maintained EXCEPT ![t] = record] ELSE Maintained
      /\ used' = used \cup {t} /\ ours' = ours \cup {t} /\ Watch
      /\ clock' = clock /\ listing' = listing
  BY DEF Save, Written
<1>2. /\ clock \in Nat /\ used \subseteq TaskIds /\ ours \subseteq used /\ TaskTypeOK
      /\ record \in Record /\ record.time = clock /\ Read(record)
  BY Times DEF StoreInv, TaskTypeOK, Record, Read
<1>. HIDE DEF record
<1>3. Maintained \in [TaskIds -> Record \cup {NoFile, Damaged}]
  BY <1>2, MaintainedFiles
<1>4. /\ \A u \in TaskIds : u # t => files'[u] = Maintained[u]
      /\ files'[t] = IF mine THEN record ELSE Maintained[t]
  BY <1>1, <1>3
<1>5. t \notin used => mine
  BY Swept DEF StoreInv, FilesUsed
<1>. HIDE DEF mine
<1>6. t \in used => t \in ours /\ files[t].state \in Open /\ Maintained[t] = files[t]
  BY <1>1, Swept DEF Reports
<1>7. IsFiniteSet(used')
  BY <1>1, FS_AddElement DEF ListInv
<1>8. \A u \in ours' : Read(files'[u]) => files'[u].time <= clock'
  <2>. SUFFICES ASSUME NEW u \in ours', Read(files'[u]) PROVE files'[u].time <= clock
    BY <1>1
  <2>1. CASE u = t
    BY <1>2, <1>4, <1>5, <1>6, <2>1 DEF ListInv
  <2>2. CASE u # t
    <3>1. u \in ours /\ u \in TaskIds /\ files'[u] = Maintained[u]
      BY <1>1, <1>2, <1>4, <2>2
    <3>2. Maintained[u] = files[u]
      BY <3>1, Swept
    <3>3. QED
      BY <3>1, <3>2 DEF ListInv
  <2>3. QED
    BY <2>1, <2>2
<1>9. \A u \in used :
         \/ files'[u] = files[u]
         \/ ~Read(files'[u]) /\ files'[u].state \notin Open
         \/ files[u].state \in Open /\ Read(files'[u]) /\ files'[u].time = clock
  <2>. SUFFICES ASSUME NEW u \in used
                PROVE  \/ files'[u] = files[u]
                       \/ ~Read(files'[u]) /\ files'[u].state \notin Open
                       \/ files[u].state \in Open /\ Read(files'[u]) /\ files'[u].time = clock
    OBVIOUS
  <2>1. CASE u = t
    BY <1>2, <1>4, <1>6, <2>1
  <2>2. CASE u # t
    BY <1>2, <1>4, <2>2, Swept
  <2>3. QED
    BY <2>1, <2>2
<1>10. listing' = Idle \/ Walking(listing', files', same', used', clock')
  BY <1>1, <1>2, <1>9, FilesMove
<1>11. QED
  BY <1>1, <1>7, <1>8, <1>10 DEF ListInv, Shown

(* A sweep, alone or with a page.                                          *)
LEMMA SweepWalk ==
    ASSUME StoreInv, ListInv, files' = Maintained, UNCHANGED <<ours, used, clock>>
    PROVE  /\ IsFiniteSet(used')
           /\ \A u \in ours' : Read(files'[u]) => files'[u].time <= clock'
           /\ Watch /\ listing' = listing => ListInv' /\ Shown
<1>1. used \subseteq TaskIds /\ ours \subseteq used /\ clock \in Nat
  BY Times DEF StoreInv, TaskTypeOK
<1>2. \A u \in ours' : Read(files'[u]) => files'[u].time <= clock'
  BY <1>1, Swept DEF ListInv
<1>3. ASSUME Watch, listing' = listing
      PROVE  listing' = Idle \/ Walking(listing', files', same', used', clock')
  <2>1. \A u \in used :
           \/ files'[u] = files[u]
           \/ ~Read(files'[u]) /\ files'[u].state \notin Open
    BY <1>1, Swept
  <2>2. clock' \in Nat /\ clock <= clock' /\ used \subseteq used'
    BY <1>1
  <2>3. QED
    BY <1>3, <2>1, <2>2, FilesMove
<1>4. QED
  BY <1>2, <1>3 DEF ListInv, Shown

LEMMA RecoverWalk ==
    ASSUME StoreInv, ListInv, NEW t \in TaskIds, Recover(t)
    PROVE  ListInv' /\ Shown
<1>1. /\ process = "starting" /\ files' = [files EXCEPT ![t] = Recovered(files[t])] /\ Watch
      /\ UNCHANGED <<process, ours, used, clock, listing>>
  BY DEF Recover
<1>2. /\ ours = {} /\ used \subseteq TaskIds /\ clock \in Nat /\ TaskTypeOK
      /\ files \in [TaskIds -> Record \cup {NoFile, Damaged}]
  BY <1>1, Times DEF StoreInv, TaskTypeOK, OpenTracked
<1>3. \A u \in TaskIds : files'[u] = IF u = t THEN Recovered(files[t]) ELSE files[u]
  BY <1>1, <1>2
<1>4. \/ Recovered(files[t]) = files[t]
      \/ ~Read(Recovered(files[t])) /\ Recovered(files[t]).state \notin Open
      \/ /\ files[t].state \in Open /\ Read(Recovered(files[t]))
         /\ Recovered(files[t]).time = clock
  <2>1. CASE Read(files[t]) /\ files[t].state \notin TERMINAL_STATES
    <3>1. files[t].state \in Open /\ files[t] \in Record
      BY <1>2, <2>1, FileKinds DEF Read
    <3>2. Recovered(files[t]) = [files[t] EXCEPT !.state = "failed", !.time = clock]
      BY <2>1 DEF Recovered
    <3>3. clock \in 0..MaxTime
      BY <1>2 DEF TaskTypeOK
    <3>4. [files[t] EXCEPT !.state = "failed", !.time = clock] \in Record
      BY <3>1, <3>3 DEF Record, TERMINAL_STATES
    <3>5. [files[t] EXCEPT !.state = "failed", !.time = clock].time = clock
      BY <3>1 DEF Record
    <3>6. QED
      BY <3>1, <3>2, <3>4, <3>5 DEF Read
  <2>2. CASE ~(Read(files[t]) /\ files[t].state \notin TERMINAL_STATES)
    BY <2>2, Swept DEF Recovered
  <2>3. QED
    BY <2>1, <2>2
<1>5. \A u \in used :
         \/ files'[u] = files[u]
         \/ ~Read(files'[u]) /\ files'[u].state \notin Open
         \/ files[u].state \in Open /\ Read(files'[u]) /\ files'[u].time = clock
  BY <1>2, <1>3, <1>4
<1>6. clock' \in Nat /\ clock <= clock' /\ used \subseteq used' /\ listing' = listing
  BY <1>1, <1>2
<1>7. listing' = Idle \/ Walking(listing', files', same', used', clock')
  BY <1>1, <1>5, <1>6, FilesMove
<1>8. QED
  BY <1>1, <1>2, <1>7 DEF ListInv, Shown

(* Steps that leave files and walk alone.                                  *)
LEMMA StillWalk ==
    ASSUME StoreInv, ListInv, UNCHANGED <<files, used, listing, same>>,
           ours' \subseteq ours, clock' \in Nat, clock <= clock'
    PROVE  ListInv' /\ Shown
<1>1. clock \in Nat /\ ours \subseteq TaskIds
  BY Times DEF StoreInv, TaskTypeOK
<1>2. Watch
  BY DEF Watch
<1>3. listing' = Idle \/ Walking(listing', files', same', used', clock')
  BY <1>2, FilesMove
<1>4. \A u \in ours' : Read(files'[u]) => files'[u].time <= clock'
  <2>. SUFFICES ASSUME NEW u \in ours', Read(files[u]) PROVE files[u].time <= clock'
    OBVIOUS
  <2>1. files[u].time <= clock /\ files[u].time \in Nat
    BY <1>1, Times DEF ListInv
  <2>2. QED
    BY <1>1, <2>1
<1>5. QED
  BY <1>3, <1>4 DEF ListInv, Shown

LEMMA FirstWalk ==
    ASSUME StoreInv, ListInv, NEW o \in Owners, NEW filter \in Filters,
           NEW size \in PageSizes, ListFirst(o, filter, size)
    PROVE  ListInv' /\ Shown
<1>. DEFINE l == [stage |-> "paging", owner |-> o, filter |-> filter, size |-> size,
                  token |-> <<>>, shown |-> <<>>, cut |-> FALSE]
<1>1. /\ process = "up" /\ listing.stage = "idle" /\ files' = Maintained
      /\ listing' = Goes(Page(l))
      /\ same' = Matching(Maintained, o, filter)
      /\ UNCHANGED <<process, todo, ours, used, clock>>
  BY DEF ListFirst
<1>2. <<>> \in Seq(TaskIds)
  BY EmptySeq
<1>3. /\ l \in Walks /\ l.stage = "paging" /\ l.owner = o /\ l.filter = filter
      /\ l.token = <<>> /\ l.shown = <<>>
  BY <1>2 DEF Walks
<1>. HIDE DEF l
<1>4. Page(l).stage = "paging" => Walking(Page(l), files', same', used', clock')
  BY <1>1, <1>3, PageStep DEF Begins
<1>5. listing' = Idle \/ Walking(listing', files', same', used', clock')
  BY <1>1, <1>4 DEF Goes
<1>6. QED
  BY <1>1, <1>5, SweepWalk DEF ListInv, Shown

LEMMA NextWalk ==
    ASSUME StoreInv, ListInv, ListNext
    PROVE  ListInv' /\ Shown
<1>1. /\ process = "up" /\ listing.stage = "paging" /\ files' = Maintained
      /\ listing' = Goes(Page(listing))
      /\ same' = {t \in same : files'[t] = files[t]}
      /\ UNCHANGED <<process, todo, ours, used, clock>>
  BY DEF ListNext, Watch
<1>2. Walking(listing, files, same, used, clock)
  BY <1>1 DEF ListInv, Idle
<1>3. listing \in Walks
  BY <1>2 DEF Walking
<1>4. same' \subseteq Matching(Maintained, listing.owner, listing.filter)
  BY <1>1, <1>2 DEF Walking, Matching, ReadAll
<1>5. /\ PageSound(Page(listing))
      /\ Page(listing).stage = "paging" => Walking(Page(listing), files', same', used', clock')
  BY <1>1, <1>2, <1>3, <1>4, PageStep DEF Continues
<1>6. listing' = Idle \/ Walking(listing', files', same', used', clock')
  BY <1>1, <1>5 DEF Goes
<1>7. QED
  BY <1>1, <1>5, <1>6, SweepWalk DEF ListInv, Shown

LEMMA ListNextInv ==
    StoreInv /\ ListInv /\ [Next]_vars => ListInv' /\ [Shown]_vars
<1>. SUFFICES ASSUME StoreInv, ListInv, [Next]_vars PROVE ListInv' /\ Shown
  OBVIOUS
<1>0. clock \in Nat
  BY Times
<1>1. CASE Construct
  BY <1>0, <1>1, StillWalk DEF Construct
<1>2. ASSUME NEW t \in TaskIds, Recover(t) PROVE ListInv' /\ Shown
  BY <1>2, RecoverWalk
<1>3. CASE Constructed
  BY <1>0, <1>3, StillWalk DEF Constructed
<1>4. CASE Stop
  BY <1>0, <1>4, StillWalk DEF Stop
<1>5. ASSUME NEW t \in TaskIds, NEW o \in Owners, NEW s \in Open \cup TERMINAL_STATES,
             Save(t, o, s)
      PROVE  ListInv' /\ Shown
  BY <1>5, SaveWalk
<1>6. CASE Touch
  BY <1>6, SweepWalk DEF Touch
<1>7. ASSUME NEW o \in Owners, NEW filter \in Filters, NEW size \in PageSizes,
             ListFirst(o, filter, size)
      PROVE  ListInv' /\ Shown
  BY <1>7, FirstWalk
<1>8. CASE ListNext
  BY <1>8, NextWalk
<1>9. CASE Tick
  BY <1>0, <1>9, StillWalk DEF Tick
<1>10. CASE UNCHANGED vars
  BY <1>0, <1>10, StillWalk DEF vars
<1>11. QED
  BY <1>1, <1>2, <1>3, <1>4, <1>5, <1>6, <1>7, <1>8, <1>9, <1>10 DEF Next

(* A client that walks through the pages of its tasks, while they are      *)
(* saved, expire and the server restarts, is shown no task twice and every *)
(* task that stayed as it was, unless the last task of a page changed or   *)
(* went (list, store.ts:59), for any number of tasks and any page size.    *)
THEOREM PagesAreComplete == Spec => ListingComplete
<1>1. StoreInv /\ ListInv /\ [Next]_vars =>
        ListInv' /\ [listing.stage = "paging" /\ listing' # listing => PageSound(Page(listing))]_vars
  BY ListNextInv DEF Shown
<1>2. QED
  BY <1>1, ListInitInv, StoreInvariant, PTL DEF Spec, ListingComplete
=============================================================================
