-------------------------- MODULE AgentRunsProofs ---------------------------
(***************************************************************************)
(* Proofs about AgentScheduler, AgentSchedulerBypass and AgentRuns, for    *)
(* every set of calls (sends, wipes and edits), every assignment of keys   *)
(* and priorities, every number of slots.                                  *)
(*                                                                         *)
(* The scheduler.  The inductive invariant is Consistent (the three        *)
(* records of who has a slot agree, and no entry is queued twice or queued *)
(* and running) with WorkConserving.  All four operations end with Pump,   *)
(* so the work is one lemma about Pump (PumpLemma) and, for each           *)
(* operation, the facts about the values it calls Pump with.               *)
(*                                                                         *)
(* Its priorities.  BypassInv ties the history variable to the counter of  *)
(* next(): a low entry that can start was passed over at most as often as  *)
(* the counter says, and a high one only by the dequeue that reset it.     *)
(*                                                                         *)
(* The agent.  AgentInv adds to the scheduler's invariant what ties the    *)
(* queue, the registry, the copies the tasks hold and the files together.  *)
(* Two facts carry the argument.  The line of a session is in the order of *)
(* the calls (LineInOrder): whoever begins was called after all whose      *)
(* messages are on disk.  And the task that holds the slot of a session    *)
(* has on disk exactly its own copy (FilesFollow): nobody else writes      *)
(* while it does.                                                          *)
(***************************************************************************)
EXTENDS AgentRuns, AgentSchedulerBypass, SequenceLemmas, FiniteSetTheorems

(* What Pump finds and leaves: q, busy, n and held are consistent.         *)
Consistent(q, busy, n, held) ==
    /\ q \in Seq(Runs)
    /\ held \in SUBSET Runs
    /\ IsFiniteSet(held)
    /\ n = Cardinality(held)
    /\ n <= Concurrency
    /\ busy = {KeyOf[r] : r \in held}
    /\ \A r, s \in held : KeyOf[r] = KeyOf[s] => r = s
    /\ \A i, j \in DOMAIN q : q[i] = q[j] => i = j
    /\ \A i \in DOMAIN q : q[i] \notin held

SchedulerInv ==
    /\ Consistent(queue, activeKeys, active, running)
    /\ WorkConserving
    /\ higherPriorityDequeues \in Nat
    /\ settled \in SUBSET running

(* The precondition under which one pass of pump()'s loop is enough.       *)
OnePass(q, busy, n) ==
    \/ n + 1 >= Concurrency
    \/ \A i, j \in Eligible(q, busy) : i = j

-----------------------------------------------------------------------------
(* Eligible entries are positions of the array.                            *)
LEMMA EligiblePositions ==
    ASSUME NEW q \in Seq(Runs), NEW busy, NEW i \in Eligible(q, busy)
    PROVE  i \in 1..Len(q) /\ q[i] \in Runs
BY LenProperties, ElementOfSeq DEF Eligible

(* Taking an entry, and so its key, makes no other entry eligible.         *)
LEMMA DequeueEligible ==
    ASSUME NEW q \in Seq(Runs), NEW busy, NEW i \in Eligible(q, busy),
           NEW j \in Eligible(RemoveAt(q, i), busy \cup {KeyOf[q[i]]})
    PROVE  \E m \in Eligible(q, busy) : m # i /\ q[m] = RemoveAt(q, i)[j]
<1> DEFINE p == RemoveAt(q, i)
           m == IF j < i THEN j ELSE j + 1
<1>1. i \in 1..Len(q) /\ Len(q) \in Nat
  BY EligiblePositions, LenProperties
<1>2. /\ p \in Seq(Runs)
      /\ Len(p) = Len(q) - 1
      /\ \A a \in 1..(Len(q) - 1) : p[a] = IF a < i THEN q[a] ELSE q[a + 1]
  BY <1>1, RemoveAtProperties
<1> HIDE DEF p
<1>3. /\ j \in 1..(Len(q) - 1)
      /\ KeyOf[p[j]] \notin busy /\ KeyOf[p[j]] # KeyOf[q[i]]
      /\ \A a \in 1..(j - 1) : KeyOf[p[a]] # KeyOf[p[j]]
  <2>1. j \in Eligible(p, busy \cup {KeyOf[q[i]]})
    BY DEF p
  <2>2. j \in 1..Len(p)
    BY <2>1, <1>2, EligiblePositions
  <2>3. QED
    BY <2>1, <2>2, <1>2 DEF Eligible
<1>4. m \in 1..Len(q) /\ m # i /\ p[j] = q[m]
  BY <1>1, <1>2, <1>3
<1>5. ASSUME NEW a \in 1..(m - 1)
      PROVE  KeyOf[q[a]] # KeyOf[q[m]]
  <2>1. CASE a = i
    BY <2>1, <1>3, <1>4
  <2>2. CASE a < i
    <3>1. a \in 1..(j - 1) /\ a \in 1..(Len(q) - 1)
      BY <2>2, <1>1, <1>3
    <3>2. p[a] = q[a]
      BY <3>1, <2>2, <1>2
    <3>3. QED
      BY <3>1, <3>2, <1>3, <1>4
  <2>3. CASE a > i
    <3>1. a - 1 \in 1..(j - 1) /\ a - 1 \in 1..(Len(q) - 1) /\ ~(a - 1 < i) /\ (a - 1) + 1 = a
      BY <2>3, <1>1, <1>3
    <3>2. p[a - 1] = q[a]
      BY <3>1, <1>2
    <3>3. QED
      BY <3>1, <3>2, <1>3, <1>4
  <2>4. QED
    BY <2>1, <2>2, <2>3, <1>1, <1>4
<1>6. m \in Eligible(q, busy)
  <2>1. m \in DOMAIN q
    BY <1>4, LenProperties
  <2>2. QED
    BY <2>1, <1>3, <1>4, <1>5 DEF Eligible
<1>7. QED
  BY <1>4, <1>6 DEF p

(* No entry is eligible exactly when the key of each is taken: the first   *)
(* entry with a free key would be.                                         *)
LEMMA NothingEligible ==
    ASSUME NEW q \in Seq(Runs), NEW busy
    PROVE  Eligible(q, busy) = {} <=> \A i \in DOMAIN q : KeyOf[q[i]] \in busy
<1>1. DOMAIN q = 1..Len(q) /\ Len(q) \in Nat
  BY LenProperties
<1>2. ASSUME NEW i \in DOMAIN q, KeyOf[q[i]] \notin busy
      PROVE  Eligible(q, busy) # {}
  <2>. DEFINE T == {j \in 1..Len(q) : KeyOf[q[j]] \notin busy}
  <2>1. T \in SUBSET Nat /\ T # {}
    BY <1>1, <1>2
  <2>2. PICK m \in T : \A j \in T : m <= j
    BY <2>1, LeastNumber
  <2>3. \A j \in 1..(m - 1) : j \in 1..Len(q) /\ ~(m <= j)
    BY <1>1
  <2>4. \A j \in 1..(m - 1) : KeyOf[q[j]] \in busy
    BY <2>2, <2>3
  <2>5. m \in Eligible(q, busy)
    BY <1>1, <2>4 DEF Eligible
  <2>6. QED
    BY <2>5
<1>3. QED
  BY <1>2 DEF Eligible

(* splice() of an entry that could not start makes no other one eligible.  *)
LEMMA SpliceEligible ==
    ASSUME NEW q \in Seq(Runs), NEW busy, NEW i \in 1..Len(q),
           Eligible(q, busy) = {}
    PROVE  Eligible(RemoveAt(q, i), busy) = {}
<1>. DEFINE p == RemoveAt(q, i)
<1>1. /\ p \in Seq(Runs)
      /\ Len(p) = Len(q) - 1
      /\ \A a \in 1..(Len(q) - 1) : p[a] = IF a < i THEN q[a] ELSE q[a + 1]
      /\ Len(q) \in Nat /\ DOMAIN q = 1..Len(q)
  BY RemoveAtProperties, LenProperties
<1>. HIDE DEF p
<1>2. DOMAIN p = 1..(Len(q) - 1)
  BY <1>1, LenProperties
<1>3. \A a \in 1..Len(q) : KeyOf[q[a]] \in busy
  BY <1>1, NothingEligible
<1>4. \A a \in DOMAIN p : KeyOf[p[a]] \in busy
  BY <1>1, <1>2, <1>3
<1>5. QED
  BY <1>1, <1>4, NothingEligible DEF p

(* push() makes at most the new entry eligible.                            *)
LEMMA PushEligible ==
    ASSUME NEW q \in Seq(Runs), NEW busy, NEW r \in Runs,
           Eligible(q, busy) = {},
           NEW j \in Eligible(Append(q, r), busy)
    PROVE  j = Len(q) + 1
<1>1. /\ Append(q, r) \in Seq(Runs)
      /\ Len(Append(q, r)) = Len(q) + 1
      /\ \A a \in 1..Len(q) : Append(q, r)[a] = q[a]
      /\ Len(q) \in Nat /\ DOMAIN q = 1..Len(q)
  BY AppendProperties, LenProperties
<1>2. j \in 1..(Len(q) + 1)
  BY <1>1, EligiblePositions
<1>3. SUFFICES ASSUME j \in 1..Len(q)
               PROVE  j \in Eligible(q, busy)
  BY <1>1, <1>2
<1>4. KeyOf[q[j]] \notin busy
  BY <1>1, <1>3 DEF Eligible
<1>5. \A a \in 1..(j - 1) : KeyOf[q[a]] # KeyOf[q[j]]
  <2>1. ASSUME NEW a \in 1..(j - 1)
        PROVE  KeyOf[q[a]] # KeyOf[q[j]]
    <3>1. a \in 1..Len(q)
      BY <1>1, <1>3
    <3>2. KeyOf[Append(q, r)[a]] # KeyOf[Append(q, r)[j]]
      BY DEF Eligible
    <3>3. QED
      BY <3>1, <3>2, <1>1, <1>3
  <2>2. QED
    BY <2>1
<1>6. QED
  BY <1>1, <1>3, <1>4, <1>5 DEF Eligible

(* Freeing one key makes at most one entry eligible.                       *)
LEMMA FreeEligible ==
    ASSUME NEW q \in Seq(Runs), NEW busy, NEW k,
           Eligible(q, busy) = {},
           NEW i \in Eligible(q, busy \ {k}), NEW j \in Eligible(q, busy \ {k})
    PROVE  i = j
<1>1. i \in 1..Len(q) /\ j \in 1..Len(q) /\ Len(q) \in Nat
  BY EligiblePositions, LenProperties
<1>2. KeyOf[q[i]] = k /\ KeyOf[q[j]] = k
  BY DEF Eligible
<1>3. ~(i < j) /\ ~(j < i)
  <2>1. ASSUME i < j PROVE FALSE
    <3>1. i \in 1..(j - 1)
      BY <1>1, <2>1
    <3>2. QED
      BY <3>1, <1>2 DEF Eligible
  <2>2. ASSUME j < i PROVE FALSE
    <3>1. j \in 1..(i - 1)
      BY <1>1, <2>2
    <3>2. QED
      BY <3>1, <1>2 DEF Eligible
  <2>3. QED
    BY <2>1, <2>2
<1>4. QED
  BY <1>1, <1>3

-----------------------------------------------------------------------------
(* pump() keeps the records consistent, takes a slot from nobody, and one  *)
(* pass of its loop leaves no eligible entry beside a free slot.           *)
LEMMA PumpLemma ==
    ASSUME NEW q, NEW busy, NEW n, NEW held,
           Consistent(q, busy, n, held), OnePass(q, busy, n),
           higherPriorityDequeues \in Nat,
           Pump(q, busy, n, held)
    PROVE  /\ Consistent(queue', activeKeys', active', running')
           /\ WorkConserving'
           /\ higherPriorityDequeues' \in Nat
           /\ held \subseteq running'
<1>. USE SchedulerAssumption
<1>0. q \in Seq(Runs) /\ n \in Nat
  BY FS_CardinalityType DEF Consistent
<1>1. ASSUME n < Concurrency, NEW i \in Eligible(q, busy), Dequeue(q, busy, n, held, i)
      PROVE  /\ Consistent(queue', activeKeys', active', running')
             /\ WorkConserving'
             /\ higherPriorityDequeues' \in Nat
             /\ held \subseteq running'
  <2>1. /\ queue' = RemoveAt(q, i)
        /\ activeKeys' = busy \cup {KeyOf[q[i]]}
        /\ active' = n + 1
        /\ running' = held \cup {q[i]}
        /\ higherPriorityDequeues' \in Nat
    BY <1>1 DEF Dequeue
  <2>2. i \in 1..Len(q) /\ q[i] \in Runs /\ Len(q) \in Nat /\ DOMAIN q = 1..Len(q)
    BY <1>0, EligiblePositions, LenProperties
  <2>3. /\ queue' \in Seq(Runs)
        /\ Len(queue') = Len(q) - 1
        /\ DOMAIN queue' = 1..(Len(q) - 1)
        /\ \A j \in 1..(Len(q) - 1) : queue'[j] = IF j < i THEN q[j] ELSE q[j + 1]
    <3>1. /\ queue' \in Seq(Runs)
          /\ Len(queue') = Len(q) - 1
          /\ \A j \in 1..(Len(q) - 1) : queue'[j] = IF j < i THEN q[j] ELSE q[j + 1]
      BY <1>0, <2>1, <2>2, RemoveAtProperties
    <3>2. DOMAIN queue' = 1..Len(queue')
      BY <3>1, LenProperties
    <3>3. QED
      BY <3>1, <3>2
  <2>4. q[i] \notin held /\ KeyOf[q[i]] \notin busy
    BY <2>2 DEF Consistent, Eligible
  <2>5. /\ IsFiniteSet(running')
        /\ active' = Cardinality(running')
    BY <2>1, <2>4, FS_AddElement DEF Consistent
  <2>6. active' <= Concurrency
    BY <1>0, <1>1, <2>1
  <2>7. /\ activeKeys' = {KeyOf[r] : r \in running'}
        /\ \A r, s \in running' : KeyOf[r] = KeyOf[s] => r = s
    BY <2>1, <2>4 DEF Consistent
  <2>8. \A a, b \in DOMAIN queue' : queue'[a] = queue'[b] => a = b
    <3>1. SUFFICES ASSUME NEW a \in 1..(Len(q) - 1), NEW b \in 1..(Len(q) - 1),
                          queue'[a] = queue'[b]
                   PROVE  a = b
      BY <2>3
    <3>2. PICK c \in 1..Len(q) : c = (IF a < i THEN a ELSE a + 1) /\ queue'[a] = q[c]
      BY <2>2, <2>3
    <3>3. PICK d \in 1..Len(q) : d = (IF b < i THEN b ELSE b + 1) /\ queue'[b] = q[d]
      BY <2>2, <2>3
    <3>4. c = d
      BY <3>1, <3>2, <3>3, <2>2 DEF Consistent
    <3>5. QED
      BY <3>2, <3>3, <3>4, <2>2
  <2>9. \A a \in DOMAIN queue' : queue'[a] \notin running'
    <3>1. SUFFICES ASSUME NEW a \in 1..(Len(q) - 1)
                   PROVE  queue'[a] \notin running'
      BY <2>3
    <3>2. PICK c \in 1..Len(q) : c # i /\ queue'[a] = q[c]
      <4>1. CASE a < i
        BY <4>1, <2>2, <2>3
      <4>2. CASE ~(a < i)
        BY <4>2, <2>2, <2>3
      <4>3. QED
        BY <4>1, <4>2
    <3>3. q[c] \notin held /\ q[c] # q[i]
      BY <3>2, <2>2 DEF Consistent
    <3>4. QED
      BY <3>2, <3>3, <2>1
  <2>10. Consistent(queue', activeKeys', active', running')
    BY <2>1, <2>2, <2>3, <2>5, <2>6, <2>7, <2>8, <2>9 DEF Consistent
  <2>11. WorkConserving'
    <3>1. CASE n + 1 >= Concurrency
      BY <3>1, <2>1 DEF WorkConserving
    <3>2. CASE \A a, b \in Eligible(q, busy) : a = b
      <4>1. Eligible(RemoveAt(q, i), busy \cup {KeyOf[q[i]]}) = {}
        BY <3>2, <1>0, DequeueEligible
      <4>2. Eligible(queue', activeKeys') = {}
        BY <4>1, <2>1
      <4>3. QED
        BY <4>2 DEF WorkConserving, Eligible
    <3>3. QED
      BY <3>1, <3>2 DEF OnePass
  <2>12. QED
    BY <2>1, <2>10, <2>11
<1>2. ASSUME n >= Concurrency \/ Eligible(q, busy) = {},
             queue' = q, activeKeys' = busy, active' = n, running' = held,
             higherPriorityDequeues' = higherPriorityDequeues
      PROVE  /\ Consistent(queue', activeKeys', active', running')
             /\ WorkConserving'
             /\ higherPriorityDequeues' \in Nat
             /\ held \subseteq running'
  BY <1>2 DEF WorkConserving, Eligible
<1>3. QED
  BY <1>1, <1>2 DEF Pump

-----------------------------------------------------------------------------
(* What each operation finds when it calls pump().                         *)
(* What push() of a new entry leaves, in an array that has nothing to      *)
(* start or when there is no slot.                                         *)
LEMMA PushCallsPump ==
    ASSUME NEW q, NEW busy, NEW n, NEW held, Consistent(q, busy, n, held),
           n >= Concurrency \/ Eligible(q, busy) = {},
           NEW r \in Runs, r \notin ToSet(q) \cup held
    PROVE  /\ Consistent(Append(q, r), busy, n, held)
           /\ OnePass(Append(q, r), busy, n)
<1>. USE SchedulerAssumption
<1>1. /\ q \in Seq(Runs) /\ Len(q) \in Nat /\ DOMAIN q = 1..Len(q)
      /\ n \in Nat
  BY LenProperties, FS_CardinalityType DEF Consistent
<1>2. /\ Append(q, r) \in Seq(Runs)
      /\ Len(Append(q, r)) = Len(q) + 1
      /\ \A a \in 1..Len(q) : Append(q, r)[a] = q[a]
      /\ Append(q, r)[Len(q) + 1] = r
  BY <1>1, AppendProperties
<1>3. DOMAIN Append(q, r) = 1..(Len(q) + 1)
  BY <1>2, LenProperties
<1>4. \A a \in 1..Len(q) : q[a] # r /\ q[a] \notin held
  BY <1>1 DEF ToSet, Consistent
<1>5. \A i, j \in DOMAIN Append(q, r) :
        Append(q, r)[i] = Append(q, r)[j] => i = j
  <2>1. \A i, j \in 1..Len(q) : q[i] = q[j] => i = j
    BY <1>1 DEF Consistent
  <2>2. \A i \in 1..(Len(q) + 1) : i \in 1..Len(q) \/ i = Len(q) + 1
    BY <1>1
  <2>3. QED
    BY <1>2, <1>3, <1>4, <2>1, <2>2
<1>6. \A i \in DOMAIN Append(q, r) : Append(q, r)[i] \notin held
  <2>1. \A i \in 1..(Len(q) + 1) : i \in 1..Len(q) \/ i = Len(q) + 1
    BY <1>1
  <2>2. QED
    BY <1>2, <1>3, <1>4, <2>1
<1>7. OnePass(Append(q, r), busy, n)
  <2>1. CASE n >= Concurrency
    BY <2>1, <1>1 DEF OnePass
  <2>2. CASE Eligible(q, busy) = {}
    BY <2>2, <1>1, PushEligible DEF OnePass
  <2>3. QED
    BY <2>1, <2>2
<1>8. QED
  BY <1>2, <1>5, <1>6, <1>7 DEF Consistent

LEMMA SubmitCallsPump ==
    ASSUME SchedulerInv, NEW r \in Runs, r \notin Queued \cup running
    PROVE  /\ Consistent(Append(queue, r), activeKeys, active, running)
           /\ OnePass(Append(queue, r), activeKeys, active)
BY PushCallsPump DEF SchedulerInv, WorkConserving, Queued

LEMMA AbortCallsPump ==
    ASSUME SchedulerInv, NEW i \in DOMAIN queue
    PROVE  /\ Consistent(RemoveAt(queue, i), activeKeys, active, running)
           /\ \/ active >= Concurrency
              \/ Eligible(RemoveAt(queue, i), activeKeys) = {}
<1>. DEFINE p == RemoveAt(queue, i)
<1>1. /\ queue \in Seq(Runs) /\ Len(queue) \in Nat /\ DOMAIN queue = 1..Len(queue)
      /\ i \in 1..Len(queue)
  BY LenProperties DEF SchedulerInv, Consistent
<1>2. /\ p \in Seq(Runs)
      /\ Len(p) = Len(queue) - 1
      /\ \A a \in 1..(Len(queue) - 1) : p[a] = IF a < i THEN queue[a] ELSE queue[a + 1]
  BY <1>1, RemoveAtProperties
<1>3. active >= Concurrency \/ Eligible(p, activeKeys) = {}
  BY <1>1, SpliceEligible DEF SchedulerInv, WorkConserving
<1>. HIDE DEF p
<1>4. DOMAIN p = 1..(Len(queue) - 1)
  BY <1>2, LenProperties
<1>5. ASSUME NEW a \in 1..(Len(queue) - 1)
      PROVE  /\ (IF a < i THEN a ELSE a + 1) \in 1..Len(queue)
             /\ p[a] = queue[IF a < i THEN a ELSE a + 1]
  <2>1. CASE a < i
    BY <1>1, <1>2, <2>1
  <2>2. CASE ~(a < i)
    <3>1. a + 1 \in 1..Len(queue)
      BY <1>1
    <3>2. QED
      BY <1>2, <2>2, <3>1
  <2>3. QED
    BY <2>1, <2>2
<1>6. \A a, b \in DOMAIN p : p[a] = p[b] => a = b
  <2>1. SUFFICES ASSUME NEW a \in 1..(Len(queue) - 1), NEW b \in 1..(Len(queue) - 1),
                        p[a] = p[b]
                 PROVE  a = b
    BY <1>4
  <2>2. PICK c \in 1..Len(queue) : c = (IF a < i THEN a ELSE a + 1) /\ p[a] = queue[c]
    BY <1>5
  <2>3. PICK d \in 1..Len(queue) : d = (IF b < i THEN b ELSE b + 1) /\ p[b] = queue[d]
    BY <1>5
  <2>4. c = d
    BY <2>1, <2>2, <2>3, <1>1 DEF SchedulerInv, Consistent
  <2>5. QED
    BY <2>2, <2>3, <2>4, <1>1
<1>7. \A a \in DOMAIN p : p[a] \notin running
  BY <1>1, <1>4, <1>5 DEF SchedulerInv, Consistent
<1>8. Consistent(p, activeKeys, active, running)
  BY <1>2, <1>6, <1>7 DEF SchedulerInv, Consistent
<1>9. QED
  BY <1>3, <1>8 DEF p

LEMMA ReleaseCallsPump ==
    ASSUME SchedulerInv, NEW r \in running
    PROVE  /\ Consistent(queue, activeKeys \ {KeyOf[r]}, active - 1, running \ {r})
           /\ OnePass(queue, activeKeys \ {KeyOf[r]}, active - 1)
<1>. USE SchedulerAssumption
<1>1. /\ IsFiniteSet(running \ {r})
      /\ Cardinality(running \ {r}) = active - 1
      /\ active \in Nat /\ active - 1 \in Nat
  <2>1. IsFiniteSet(running) /\ active = Cardinality(running)
    BY DEF SchedulerInv, Consistent
  <2>2. /\ IsFiniteSet(running \ {r})
        /\ Cardinality(running \ {r}) = Cardinality(running) - 1
    BY <2>1, FS_RemoveElement
  <2>3. Cardinality(running) \in Nat /\ Cardinality(running \ {r}) \in Nat
    BY <2>1, <2>2, FS_CardinalityType
  <2>4. QED
    BY <2>1, <2>2, <2>3
<1>2. activeKeys \ {KeyOf[r]} = {KeyOf[s] : s \in running \ {r}}
  BY DEF SchedulerInv, Consistent
<1>3. active - 1 <= Concurrency
  BY <1>1 DEF SchedulerInv, Consistent
<1>4. Consistent(queue, activeKeys \ {KeyOf[r]}, active - 1, running \ {r})
  BY <1>1, <1>2, <1>3 DEF SchedulerInv, Consistent
<1>5. OnePass(queue, activeKeys \ {KeyOf[r]}, active - 1)
  <2>1. CASE active >= Concurrency
    BY <2>1, <1>1 DEF OnePass
  <2>2. CASE Eligible(queue, activeKeys) = {}
    BY <2>2, <1>4, FreeEligible DEF OnePass, Consistent
  <2>3. QED
    BY <2>1, <2>2 DEF SchedulerInv, WorkConserving
<1>6. QED
  BY <1>4, <1>5

-----------------------------------------------------------------------------
LEMMA InitInv == Init => SchedulerInv
<1>. SUFFICES ASSUME Init PROVE SchedulerInv
  OBVIOUS
<1>1. /\ queue = <<>> /\ activeKeys = {} /\ active = 0 /\ running = {} /\ settled = {}
      /\ higherPriorityDequeues = 0
  BY DEF Init
<1>2. /\ queue \in Seq(Runs) /\ DOMAIN queue = {}
      /\ IsFiniteSet(running) /\ Cardinality(running) = 0
  BY <1>1, FS_EmptySet
<1>3. WorkConserving
  BY <1>2 DEF WorkConserving, Eligible
<1>4. QED
  BY <1>1, <1>2, <1>3, SchedulerAssumption DEF SchedulerInv, Consistent

LEMMA NextInv == SchedulerInv /\ [Next]_vars => SchedulerInv'
<1>. SUFFICES ASSUME SchedulerInv, [Next]_vars
              PROVE  SchedulerInv'
  OBVIOUS
<1>1. ASSUME NEW r \in Runs, Submit(r)
      PROVE  SchedulerInv'
  <2>1. /\ r \notin Queued \cup running
        /\ Pump(Append(queue, r), activeKeys, active, running)
        /\ settled' = settled
    BY <1>1 DEF Submit
  <2>2. QED
    BY <2>1, SubmitCallsPump, PumpLemma DEF SchedulerInv
<1>2. ASSUME NEW r \in Runs, Abort(r)
      PROVE  SchedulerInv'
  <2>1. PICK i \in DOMAIN queue : Pump(RemoveAt(queue, i), activeKeys, active, running)
    BY <1>2 DEF Abort
  <2>2. OnePass(RemoveAt(queue, i), activeKeys, active)
    <3>1. active \in Nat /\ Concurrency \in Nat
      BY FS_CardinalityType, SchedulerAssumption DEF SchedulerInv, Consistent
    <3>2. QED
      BY <3>1, AbortCallsPump DEF OnePass
  <2>3. settled' = settled
    BY <1>2 DEF Abort
  <2>4. QED
    BY <2>1, <2>2, <2>3, AbortCallsPump, PumpLemma DEF SchedulerInv
<1>3. ASSUME NEW r \in Runs, Settle(r)
      PROVE  SchedulerInv'
  BY <1>3 DEF Settle, SchedulerInv, Consistent, WorkConserving, Eligible
<1>4. ASSUME NEW r \in Runs, Release(r)
      PROVE  SchedulerInv'
  <2>1. /\ r \in running
        /\ Pump(queue, activeKeys \ {KeyOf[r]}, active - 1, running \ {r})
        /\ settled' = settled \ {r}
    BY <1>4 DEF Release, SchedulerInv
  <2>2. /\ Consistent(queue', activeKeys', active', running')
        /\ WorkConserving'
        /\ higherPriorityDequeues' \in Nat
        /\ running \ {r} \subseteq running'
    BY <2>1, ReleaseCallsPump, PumpLemma DEF SchedulerInv
  <2>3. QED
    BY <2>1, <2>2 DEF SchedulerInv
<1>5. CASE UNCHANGED vars
  BY <1>5 DEF vars, SchedulerInv, Consistent, WorkConserving, Eligible
<1>6. QED
  BY <1>1, <1>2, <1>3, <1>4, <1>5 DEF Next

(* The strengthened invariant holds in every reachable state.              *)
THEOREM SchedulerInvariant == Spec => []SchedulerInv
BY InitInv, NextInv, PTL DEF Spec

LEMMA SchedulerTypes == SchedulerInv => TypeOK
<1>. SUFFICES ASSUME SchedulerInv PROVE TypeOK
  OBVIOUS
<1>1. active \in Nat
  BY FS_CardinalityType DEF SchedulerInv, Consistent
<1>2. \A r \in running : KeyOf[r] \in Keys
  BY SchedulerAssumption DEF SchedulerInv, Consistent
<1>3. QED
  BY <1>1, <1>2 DEF SchedulerInv, Consistent, TypeOK

(* Type correctness of the scheduler's state.                              *)
THEOREM TypeCorrect == Spec => []TypeOK
BY SchedulerTypes, SchedulerInvariant, PTL

(* One run per session and at most Concurrency in all, with the counter    *)
(* and the key set of the scheduler exact.                                 *)
THEOREM SlotsAreAccounted == Spec => []SlotsAccounted
<1>1. SchedulerInv => SlotsAccounted
  BY DEF SchedulerInv, Consistent, SlotsAccounted
<1>2. QED
  BY <1>1, SchedulerInvariant, PTL

(* No run that could start waits beside a free slot.                       *)
THEOREM WorkIsConserved == Spec => []WorkConserving
<1>1. SchedulerInv => WorkConserving
  BY DEF SchedulerInv
<1>2. QED
  BY <1>1, SchedulerInvariant, PTL

(* The pump() of onAbort finds no free slot or nothing to start.           *)
LEMMA AbortLeavesSlots ==
    ASSUME SchedulerInv, NEW r \in Runs, Abort(r)
    PROVE  running' = running
<1>1. PICK i \in DOMAIN queue : Pump(RemoveAt(queue, i), activeKeys, active, running)
  BY DEF Abort
<1>2. \/ active >= Concurrency
      \/ Eligible(RemoveAt(queue, i), activeKeys) = {}
  BY AbortCallsPump
<1>3. active \in Nat /\ Concurrency \in Nat
  BY FS_CardinalityType, SchedulerAssumption DEF SchedulerInv, Consistent
<1>4. QED
  BY <1>1, <1>2, <1>3 DEF Pump

(* Cancelling a queued run starts no other run.                            *)
THEOREM CancellingStartsNothing == Spec => AbortStartsNothing
<1>1. SchedulerInv /\ [Next]_vars => [\A r \in Runs : Abort(r) => running' = running]_vars
  BY AbortLeavesSlots
<1>2. QED
  BY <1>1, SchedulerInvariant, PTL DEF Spec, AbortStartsNothing

-----------------------------------------------------------------------------
(* pump() starts no entry behind another one with its key.                 *)
LEMMA PumpTakesFirst ==
    ASSUME NEW q, NEW busy, NEW n, NEW held,
           Consistent(q, busy, n, held),
           Pump(q, busy, n, held),
           NEW i \in DOMAIN q, NEW j \in DOMAIN q,
           i < j, KeyOf[q[i]] = KeyOf[q[j]]
    PROVE  q[j] \notin running'
<1>1. q \in Seq(Runs) /\ DOMAIN q = 1..Len(q) /\ Len(q) \in Nat /\ q[j] \notin held
  BY LenProperties DEF Consistent
<1>2. CASE running' = held
  BY <1>1, <1>2
<1>3. ASSUME NEW x \in Eligible(q, busy), running' = held \cup {q[x]}
      PROVE  q[j] \notin running'
  <2>1. x \in 1..Len(q)
    BY <1>1, EligiblePositions
  <2>2. ASSUME q[j] = q[x] PROVE FALSE
    <3>1. j = x
      BY <1>1, <2>1, <2>2 DEF Consistent
    <3>2. i \in 1..(x - 1)
      BY <1>1, <2>1, <3>1
    <3>3. QED
      BY <3>1, <3>2 DEF Eligible
  <2>3. QED
    BY <1>1, <1>3, <2>2
<1>4. QED
  BY <1>2, <1>3 DEF Pump, Dequeue

(* First come, first served within a session.                              *)
THEOREM SessionsAreFifo == Spec => NoOvertaking
<1>. DEFINE Fifo == \A i, j \in DOMAIN queue :
                      i < j /\ KeyOf[queue[i]] = KeyOf[queue[j]] => queue[j] \notin running'
<1>1. ASSUME SchedulerInv, Next, NEW i \in DOMAIN queue, NEW j \in DOMAIN queue,
             i < j, KeyOf[queue[i]] = KeyOf[queue[j]]
      PROVE  queue[j] \notin running'
  <2>1. queue \in Seq(Runs) /\ DOMAIN queue = 1..Len(queue) /\ Len(queue) \in Nat
    BY <1>1, LenProperties DEF SchedulerInv, Consistent
  <2>2. queue[j] \notin running
    BY <1>1 DEF SchedulerInv, Consistent
  <2>3. ASSUME NEW r \in Runs, Submit(r)
        PROVE  queue[j] \notin running'
    <3>1. /\ r \notin Queued \cup running
          /\ Pump(Append(queue, r), activeKeys, active, running)
      BY <2>3 DEF Submit
    <3>2. Consistent(Append(queue, r), activeKeys, active, running)
      BY <1>1, <3>1, SubmitCallsPump
    <3>3. /\ Append(queue, r) \in Seq(Runs)
          /\ Len(Append(queue, r)) = Len(queue) + 1
          /\ \A a \in 1..Len(queue) : Append(queue, r)[a] = queue[a]
      BY <2>1, AppendProperties
    <3>4. DOMAIN Append(queue, r) = 1..(Len(queue) + 1)
      BY <3>3, LenProperties
    <3>5. /\ i \in DOMAIN Append(queue, r) /\ j \in DOMAIN Append(queue, r)
          /\ Append(queue, r)[i] = queue[i] /\ Append(queue, r)[j] = queue[j]
      BY <1>1, <2>1, <3>3, <3>4
    <3>6. Append(queue, r)[j] \notin running'
      BY <1>1, <3>1, <3>2, <3>5, PumpTakesFirst
    <3>7. QED
      BY <3>5, <3>6
  <2>4. ASSUME NEW r \in Runs, Abort(r)
        PROVE  queue[j] \notin running'
    BY <1>1, <2>2, <2>4, AbortLeavesSlots
  <2>5. ASSUME NEW r \in Runs, Settle(r)
        PROVE  queue[j] \notin running'
    BY <2>2, <2>5 DEF Settle
  <2>6. ASSUME NEW r \in Runs, Release(r)
        PROVE  queue[j] \notin running'
    <3>1. /\ r \in running
          /\ Pump(queue, activeKeys \ {KeyOf[r]}, active - 1, running \ {r})
      BY <1>1, <2>6 DEF Release, SchedulerInv
    <3>2. QED
      BY <1>1, <3>1, ReleaseCallsPump, PumpTakesFirst
  <2>7. QED
    BY <1>1, <2>3, <2>4, <2>5, <2>6 DEF Next
<1>2. SchedulerInv /\ [Next]_vars => [Fifo]_vars
  BY <1>1
<1>3. QED
  BY <1>2, SchedulerInvariant, PTL DEF Spec, NoOvertaking

-----------------------------------------------------------------------------
(* How often a ready run was passed over is bounded by the counter that    *)
(* next() keeps, which is back at 0 after the turn of a lower priority.    *)
BypassInv ==
    /\ passed \in [Runs -> Nat]
    /\ higherPriorityDequeues <= MaxBypass
    /\ \A r \in Runs :
         /\ ~Ready(r) => passed[r] = 0
         /\ PriorityOf[r] = "low" => passed[r] <= higherPriorityDequeues
         /\ PriorityOf[r] = "high" =>
              passed[r] = 0 \/ (passed[r] = 1 /\ higherPriorityDequeues = 0)

(* Whoever is first in an array that pump() finds is ahead in the queue,   *)
(* and none of its entries has a slot.                                     *)
InOrder(q) ==
    /\ \A i, j \in DOMAIN q : i < j => Ahead(q[i], q[j])
    /\ \A i \in DOMAIN q : q[i] \notin running

(* Nobody starts.                                                          *)
LEMMA NobodyPasses ==
    ASSUME SchedulerInv, BypassInv, running' \subseteq running,
           higherPriorityDequeues' = higherPriorityDequeues,
           passed' = [r \in Runs |-> Count(r)]
    PROVE  BypassInv'
<1>1. \A r \in Runs : passed'[r] = IF Ready(r)' THEN passed[r] ELSE 0
  BY DEF Count
<1>2. passed' \in [Runs -> Nat]
  BY <1>1 DEF BypassInv
<1>3. higherPriorityDequeues \in Nat
  BY DEF SchedulerInv
<1>4. ASSUME NEW r \in Runs
      PROVE  /\ ~Ready(r)' => passed'[r] = 0
             /\ PriorityOf[r] = "low" => passed'[r] <= higherPriorityDequeues'
             /\ PriorityOf[r] = "high" =>
                  passed'[r] = 0 \/ (passed'[r] = 1 /\ higherPriorityDequeues' = 0)
  BY <1>1, <1>3 DEF BypassInv
<1>5. QED
  BY <1>2, <1>4 DEF BypassInv

(* What next() has decided when a younger entry i is taken instead of m.   *)
LEMMA PassedOver ==
    ASSUME NEW q \in Seq(Runs), NEW busy, NEW i \in DOMAIN q, IsNext(q, busy, i),
           NEW m \in Eligible(q, busy), m < i, q[m] \in Runs
    PROVE  /\ PriorityOf[q[m]] = "low" => ~LowerTurn(q, busy) /\ Lower(q, busy) # {}
           /\ PriorityOf[q[m]] = "high" => LowerTurn(q, busy)
<1>0. /\ PriorityOf \in [Runs -> Priorities]
      /\ \A j \in Eligible(q, busy) : q[j] \in Runs
      /\ DOMAIN q = 1..Len(q) /\ Len(q) \in Nat
  BY SchedulerAssumption, EligiblePositions, LenProperties
<1>1. \A r \in Runs : /\ Order(r) \in 0..2
                      /\ PriorityOf[r] = "low" => Order(r) = 2
                      /\ PriorityOf[r] = "high" => Order(r) = 0
  BY <1>0 DEF Order, PRIORITY_ORDER, Priorities
<1>2. m \notin Candidates(q, busy)
  <2>1. m \in 1..Len(q) /\ i \in 1..Len(q)
    BY <1>0, EligiblePositions
  <2>2. QED
    BY <1>0, <2>1 DEF IsNext
<1>3. ASSUME PriorityOf[q[m]] = "low"
      PROVE  ~LowerTurn(q, busy) /\ Lower(q, busy) # {}
  <2>1. ASSUME m \notin Lower(q, busy) PROVE Lower(q, busy) = {}
    <3>1. m \in Preferred(q, busy) /\ Order(q[m]) = 2
      BY <1>1, <1>3, <2>1 DEF Lower
    <3>2. \A j \in Eligible(q, busy) : Order(q[j]) \in 0..2 /\ Order(q[m]) <= Order(q[j])
      BY <1>0, <1>1, <3>1 DEF Preferred
    <3>3. \A j \in Eligible(q, busy) : Order(q[j]) = 2
      BY <3>1, <3>2
    <3>4. QED
      BY <3>3 DEF Lower, Preferred
  <2>2. CASE LowerTurn(q, busy)
    BY <1>2, <2>1, <2>2 DEF Candidates, LowerTurn
  <2>3. CASE ~LowerTurn(q, busy)
    BY <1>2, <2>3 DEF Candidates, Lower
  <2>4. QED
    BY <2>2, <2>3
<1>4. ASSUME PriorityOf[q[m]] = "high"
      PROVE  LowerTurn(q, busy)
  <2>1. \A j \in Eligible(q, busy) : Order(q[m]) <= Order(q[j])
    BY <1>0, <1>1, <1>4
  <2>2. m \in Preferred(q, busy)
    BY <2>1 DEF Preferred
  <2>3. QED
    BY <1>2, <2>2 DEF Candidates
<1>5. QED
  BY <1>3, <1>4

(* pump() starts an entry: those passed over are counted.                  *)
LEMMA PumpCounts ==
    ASSUME SchedulerInv, BypassInv, NEW q, NEW busy, NEW n, NEW held,
           q \in Seq(Runs), InOrder(q), held \subseteq running,
           Pump(q, busy, n, held), passed' = [r \in Runs |-> Count(r)]
    PROVE  BypassInv'
<1>0. /\ higherPriorityDequeues \in Nat /\ MaxBypass \in Nat \ {0}
      /\ DOMAIN q = 1..Len(q) /\ Len(q) \in Nat
  BY SchedulerAssumption, LenProperties DEF SchedulerInv
<1>1. CASE running' = held /\ UNCHANGED higherPriorityDequeues
  BY <1>1, NobodyPasses
<1>2. ASSUME NEW i \in Eligible(q, busy), IsNext(q, busy, i), Dequeue(q, busy, n, held, i)
      PROVE  BypassInv'
  <2>1. i \in DOMAIN q /\ q[i] \in Runs /\ q[i] \notin running
    BY <1>0, EligiblePositions DEF InOrder
  <2>2. /\ queue' = RemoveAt(q, i) /\ activeKeys' = busy \cup {KeyOf[q[i]]}
        /\ running' = held \cup {q[i]}
        /\ higherPriorityDequeues' = IF LowerTurn(q, busy) \/ Lower(q, busy) = {}
                                     THEN 0 ELSE higherPriorityDequeues + 1
    BY <1>2 DEF Dequeue
  <2>3. running' \ running = {q[i]}
    BY <2>1, <2>2
  <2>4. \A r \in Runs : passed'[r] = IF ~Ready(r)' THEN 0
                                     ELSE IF Ahead(q[i], r) THEN 0
                                     ELSE IF passed[r] < PassedCap THEN passed[r] + 1
                                     ELSE PassedCap
    BY <2>3 DEF Count
  <2>5. higherPriorityDequeues' \in Nat /\ higherPriorityDequeues' <= MaxBypass
    <3>1. CASE LowerTurn(q, busy) \/ Lower(q, busy) = {}
      BY <1>0, <2>2, <3>1
    <3>2. CASE ~LowerTurn(q, busy) /\ Lower(q, busy) # {}
      <4>1. higherPriorityDequeues < MaxBypass
        BY <1>0, <3>2 DEF LowerTurn
      <4>2. QED
        BY <1>0, <2>2, <3>2, <4>1
    <3>3. QED
      BY <3>1, <3>2
  <2>6. passed' \in [Runs -> Nat]
    <3>1. \A r \in Runs : passed[r] \in Nat /\ PassedCap \in Nat
      BY <1>0 DEF BypassInv, PassedCap
    <3>2. \A r \in Runs : passed'[r] \in Nat
      BY <2>4, <3>1
    <3>3. QED
      BY <3>2
  <2>7. ASSUME NEW r \in Runs, Ready(r)', ~Ahead(q[i], r)
        PROVE  /\ PriorityOf[r] = "low" => ~LowerTurn(q, busy) /\ Lower(q, busy) # {}
               /\ PriorityOf[r] = "high" => LowerTurn(q, busy)
    <3>1. PICK j \in Eligible(RemoveAt(q, i), busy \cup {KeyOf[q[i]]}) : RemoveAt(q, i)[j] = r
      BY <2>2, <2>7 DEF Ready, Eligible
    <3>2. PICK m \in Eligible(q, busy) : m # i /\ q[m] = r
      BY <3>1, DequeueEligible
    <3>3. m \in 1..Len(q)
      BY EligiblePositions
    <3>4. m < i
      BY <1>0, <2>1, <2>7, <3>2, <3>3 DEF InOrder
    <3>5. QED
      BY <1>2, <2>1, <3>2, <3>4, PassedOver
  <2>8. ASSUME NEW r \in Runs
        PROVE  /\ ~Ready(r)' => passed'[r] = 0
               /\ PriorityOf[r] = "low" => passed'[r] <= higherPriorityDequeues'
               /\ PriorityOf[r] = "high" =>
                    passed'[r] = 0 \/ (passed'[r] = 1 /\ higherPriorityDequeues' = 0)
    <3>1. CASE ~Ready(r)' \/ Ahead(q[i], r)
      <4>1. passed'[r] = 0
        BY <2>4, <3>1
      <4>2. QED
        BY <2>5, <4>1
    <3>2. CASE Ready(r)' /\ ~Ahead(q[i], r)
      <4>1. passed[r] \in Nat /\ PassedCap = MaxBypass + 2
        BY DEF BypassInv, PassedCap
      <4>2. passed'[r] = IF passed[r] < PassedCap THEN passed[r] + 1 ELSE PassedCap
        BY <2>4, <3>2
      <4>3. CASE PriorityOf[r] = "low"
        <5>1. higherPriorityDequeues' = higherPriorityDequeues + 1
          BY <2>2, <2>7, <3>2, <4>3
        <5>2. passed[r] <= higherPriorityDequeues /\ higherPriorityDequeues <= MaxBypass
          BY <4>3 DEF BypassInv
        <5>3. QED
          BY <1>0, <3>2, <4>1, <4>2, <4>3, <5>1, <5>2
      <4>4. CASE PriorityOf[r] = "high"
        <5>1. LowerTurn(q, busy)
          BY <2>7, <3>2, <4>4
        <5>2. higherPriorityDequeues' = 0 /\ higherPriorityDequeues # 0
          BY <1>0, <2>2, <5>1 DEF LowerTurn
        <5>3. passed[r] = 0
          BY <4>4, <5>2 DEF BypassInv
        <5>4. QED
          BY <1>0, <3>2, <4>1, <4>2, <4>4, <5>2, <5>3
      <4>5. QED
        BY <3>2, <4>3, <4>4
    <3>3. QED
      BY <3>1, <3>2
  <2>9. QED
    BY <2>5, <2>6, <2>8 DEF BypassInv
<1>3. QED
  BY <1>1, <1>2 DEF Pump

(* The arrays with which the operations call pump() are in order.          *)
LEMMA ArraysInOrder ==
    ASSUME SchedulerInv
    PROVE  /\ queue \in Seq(Runs) /\ InOrder(queue)
           /\ \A r \in Runs : r \notin Queued \cup running =>
                Append(queue, r) \in Seq(Runs) /\ InOrder(Append(queue, r))
           /\ \A i \in DOMAIN queue :
                RemoveAt(queue, i) \in Seq(Runs) /\ InOrder(RemoveAt(queue, i))
<1>1. /\ queue \in Seq(Runs) /\ DOMAIN queue = 1..Len(queue) /\ Len(queue) \in Nat
      /\ \A i \in DOMAIN queue : queue[i] \notin running
  BY LenProperties DEF SchedulerInv, Consistent
<1>2. \A i, j \in DOMAIN queue : i < j => Ahead(queue[i], queue[j])
  BY DEF Ahead
<1>3. InOrder(queue)
  BY <1>1, <1>2 DEF InOrder
<1>4. ASSUME NEW r \in Runs, r \notin Queued \cup running
      PROVE  Append(queue, r) \in Seq(Runs) /\ InOrder(Append(queue, r))
  <2>1. /\ Append(queue, r) \in Seq(Runs) /\ Len(Append(queue, r)) = Len(queue) + 1
        /\ \A a \in 1..Len(queue) : Append(queue, r)[a] = queue[a]
        /\ Append(queue, r)[Len(queue) + 1] = r
    BY <1>1, AppendProperties
  <2>2. DOMAIN Append(queue, r) = 1..(Len(queue) + 1)
    BY <2>1, LenProperties
  <2>3. Ahead(queue[1], r) /\ \A s : Ahead(s, r)
    BY <1>4 DEF Ahead
  <2>4. ASSUME NEW i \in 1..(Len(queue) + 1), NEW j \in 1..(Len(queue) + 1), i < j
        PROVE  Ahead(Append(queue, r)[i], Append(queue, r)[j])
    <3>1. CASE j = Len(queue) + 1
      BY <2>1, <2>3, <3>1
    <3>2. CASE j # Len(queue) + 1
      <4>1. i \in 1..Len(queue) /\ j \in 1..Len(queue)
        BY <1>1, <2>4, <3>2
      <4>2. QED
        BY <1>1, <1>2, <2>1, <2>4, <4>1
    <3>3. QED
      BY <3>1, <3>2
  <2>5. ASSUME NEW i \in 1..(Len(queue) + 1)
        PROVE  Append(queue, r)[i] \notin running
    BY <1>1, <1>4, <2>1
  <2>6. QED
    BY <2>1, <2>2, <2>4, <2>5 DEF InOrder
<1>5. ASSUME NEW i \in DOMAIN queue
      PROVE  RemoveAt(queue, i) \in Seq(Runs) /\ InOrder(RemoveAt(queue, i))
  <2>. DEFINE p == RemoveAt(queue, i)
  <2>1. /\ p \in Seq(Runs) /\ Len(p) = Len(queue) - 1
        /\ \A a \in 1..(Len(queue) - 1) : p[a] = IF a < i THEN queue[a] ELSE queue[a + 1]
    BY <1>1, RemoveAtProperties
  <2>. HIDE DEF p
  <2>2. DOMAIN p = 1..(Len(queue) - 1)
    BY <1>1, <2>1, LenProperties
  <2>3. ASSUME NEW a \in DOMAIN p, NEW b \in DOMAIN p, a < b
        PROVE  Ahead(p[a], p[b])
    <3>1. PICK c \in 1..Len(queue) : c = (IF a < i THEN a ELSE a + 1) /\ p[a] = queue[c]
      BY <1>1, <2>1, <2>2
    <3>2. PICK d \in 1..Len(queue) : d = (IF b < i THEN b ELSE b + 1) /\ p[b] = queue[d]
      BY <1>1, <2>1, <2>2
    <3>3. c < d
      BY <1>1, <2>2, <2>3, <3>1, <3>2
    <3>4. QED
      BY <1>1, <1>2, <3>1, <3>2, <3>3
  <2>4. ASSUME NEW a \in DOMAIN p PROVE p[a] \notin running
    BY <1>1, <2>1, <2>2
  <2>5. QED
    BY <2>1, <2>3, <2>4 DEF InOrder, p
<1>6. QED
  BY <1>1, <1>3, <1>4, <1>5

(* What an operation counts.                                               *)
LEMMA BypassKept ==
    ASSUME SchedulerInv, BypassInv, HNext
    PROVE  BypassInv'
<1>1. Next /\ passed' = [r \in Runs |-> Count(r)]
  BY DEF HNext
<1>2. ASSUME NEW r \in Runs, Submit(r)
      PROVE  BypassInv'
  <2>1. r \notin Queued \cup running /\ Pump(Append(queue, r), activeKeys, active, running)
    BY <1>2 DEF Submit
  <2>2. Append(queue, r) \in Seq(Runs) /\ InOrder(Append(queue, r))
    BY <2>1, ArraysInOrder
  <2>3. QED
    BY <1>1, <2>1, <2>2, PumpCounts
<1>3. ASSUME NEW r \in Runs, Abort(r)
      PROVE  BypassInv'
  <2>1. PICK i \in DOMAIN queue : Pump(RemoveAt(queue, i), activeKeys, active, running)
    BY <1>3 DEF Abort
  <2>2. RemoveAt(queue, i) \in Seq(Runs) /\ InOrder(RemoveAt(queue, i))
    BY ArraysInOrder
  <2>3. QED
    BY <1>1, <2>1, <2>2, PumpCounts
<1>4. ASSUME NEW r \in Runs, Settle(r)
      PROVE  BypassInv'
  BY <1>1, <1>4, NobodyPasses DEF Settle
<1>5. ASSUME NEW r \in Runs, Release(r)
      PROVE  BypassInv'
  <2>1. Pump(queue, activeKeys \ {KeyOf[r]}, active - 1, running \ {r})
    BY <1>5 DEF Release
  <2>2. queue \in Seq(Runs) /\ InOrder(queue) /\ running \ {r} \subseteq running
    BY ArraysInOrder
  <2>3. QED
    BY <1>1, <2>1, <2>2, PumpCounts
<1>6. QED
  BY <1>1, <1>2, <1>3, <1>4, <1>5 DEF Next

(* A ready run of low priority is passed over by at most MaxBypass younger *)
(* ones, one of high priority by at most one, whatever is submitted,       *)
(* aborted and released meanwhile and however many slots there are.        *)
THEOREM BypassIsBounded == HSpec => []BypassBounded
<1>1. HInit => SchedulerInv /\ BypassInv
  <2>. SUFFICES ASSUME HInit PROVE SchedulerInv /\ BypassInv
    OBVIOUS
  <2>1. SchedulerInv
    BY InitInv DEF HInit
  <2>2. /\ passed = [r \in Runs |-> 0] /\ higherPriorityDequeues = 0 /\ MaxBypass \in Nat
    BY SchedulerAssumption DEF HInit, Init
  <2>3. QED
    BY <2>1, <2>2 DEF BypassInv
<1>2. SchedulerInv /\ BypassInv /\ [HNext]_hvars => SchedulerInv' /\ BypassInv'
  <2>. SUFFICES ASSUME SchedulerInv, BypassInv, [HNext]_hvars PROVE SchedulerInv' /\ BypassInv'
    OBVIOUS
  <2>1. SchedulerInv'
    BY NextInv DEF HNext, hvars
  <2>2. CASE HNext
    BY <2>1, <2>2, BypassKept
  <2>3. CASE UNCHANGED hvars
    BY <2>1, <2>3 DEF hvars, vars, BypassInv, Ready, Eligible
  <2>4. QED
    BY <2>1, <2>2, <2>3
<1>3. SchedulerInv /\ BypassInv => BypassBounded
  <2>. SUFFICES ASSUME SchedulerInv, BypassInv, NEW r \in Runs
                PROVE  /\ PriorityOf[r] = "low" => passed[r] <= MaxBypass
                       /\ PriorityOf[r] = "high" => passed[r] <= 1
    BY DEF BypassBounded
  <2>1. /\ passed[r] \in Nat /\ higherPriorityDequeues \in Nat /\ MaxBypass \in Nat
        /\ higherPriorityDequeues <= MaxBypass
    BY SchedulerAssumption DEF BypassInv, SchedulerInv
  <2>2. PriorityOf[r] = "low" => passed[r] <= higherPriorityDequeues
    BY DEF BypassInv
  <2>3. PriorityOf[r] = "high" => passed[r] = 0 \/ passed[r] = 1
    BY DEF BypassInv
  <2>4. QED
    BY <2>1, <2>2, <2>3
<1>4. QED
  BY <1>1, <1>2, <1>3, PTL DEF HSpec

-----------------------------------------------------------------------------
(* Every variable of the agent alone has a value of its kind.              *)
AgentTypes ==
    /\ lifecycle \in [Sends -> Statuses]
    /\ memory \in [Sends -> Seq(Messages)]
    /\ outcome \in [Runs -> Outcomes]
    /\ captured \in [Wipes -> SUBSET Sends]
    /\ stored \in [Keys -> Seq(Messages)]
    /\ before \in [Runs -> SUBSET Sends]

(* The pending calls are those the scheduler has and has not settled.      *)
CallsMatch ==
    \A c \in Runs :
        /\ outcome[c] = "pending" <=> c \in Queued \cup (running \ settled)
        /\ c \in settled => outcome[c] # "unmade"

(* How far a send has come, told by its record, its session and its        *)
(* promise.                                                                *)
RecordsMatch ==
    \A r \in Sends :
        /\ outcome[r] = "unmade" => lifecycle[r] = "none" /\ memory[r] = <<>>
        /\ outcome[r] = "pending" => lifecycle[r] # "none"
        /\ lifecycle[r] = "queued" => outcome[r] = "pending" /\ memory[r] = <<>>
        /\ lifecycle[r] = "running" => memory[r] # <<>>
        /\ r \in Queued => lifecycle[r] = "queued"

(* The history of a call names calls of its session, made already.         *)
BeforeSound ==
    \A c \in Runs :
        /\ \A r \in before[c] : KeyOf[r] = KeyOf[c] /\ outcome[r] # "unmade"
        /\ outcome[c] = "unmade" => before[c] = {}

(* A wipe leaves none of the sends before it in the queue, and finishes    *)
(* after all of them.                                                      *)
WipesCancel ==
    \A o \in Wipes :
        /\ captured[o] \subseteq before[o]
        /\ before[o] \cap Queued = {}
        /\ outcome[o] = "finished" => \A r \in before[o] : outcome[r] # "pending"

(* A task that writes has on disk what it has in memory; what is on disk   *)
(* was written by sends of the session; a copy holds messages of its own   *)
(* run and of earlier ones.                                                *)
FilesFollow ==
    /\ \A r \in (running \ settled) \cap Sends :
         memory[r] # <<>> => stored[KeyOf[r]] = memory[r]
    /\ \A s \in Keys : \A i \in DOMAIN stored[s] :
         KeyOf[stored[s][i].run] = s /\ memory[stored[s][i].run] # <<>>
    /\ \A r \in Sends : \A i \in DOMAIN memory[r] :
         memory[r][i].run = r \/ memory[r][i].run \in before[r]

(* Who holds the slot of a session was called before those that wait, who  *)
(* were called in the order they wait in.                                  *)
LineInOrder(q, held, bef) ==
    /\ \A i, j \in DOMAIN q :
         i < j /\ KeyOf[q[i]] = KeyOf[q[j]] /\ q[i] \in Sends => q[i] \in bef[q[j]]
    /\ \A c \in held \cap Sends : \A j \in DOMAIN q :
         KeyOf[c] = KeyOf[q[j]] => c \in bef[q[j]]

(* A send that has not begun was called after those that have.             *)
BegunBefore ==
    \A r, t \in Sends :
        /\ KeyOf[r] = KeyOf[t]
        /\ memory[r] # <<>>
        /\ outcome[t] = "pending"
        /\ memory[t] = <<>>
        => r \in before[t]

AgentInv ==
    /\ SchedulerInv
    /\ AgentTypes
    /\ CallsMatch
    /\ RecordsMatch
    /\ BeforeSound
    /\ WipesCancel
    /\ FilesFollow
    /\ LineInOrder(queue, running, before)
    /\ BegunBefore
    /\ HistoryInOrder
    /\ WipedStaysWiped

(* The sends of the session of c made so far: what Made records.           *)
MadeOf(c) == {r \in Sends : KeyOf[r] = KeyOf[c] /\ outcome[r] # "unmade"}

-----------------------------------------------------------------------------
(* What is in the queue does not hold a slot; who shares a session with    *)
(* a run that holds its slot waits, or is that run.                        *)
LEMMA OneHolder ==
    ASSUME SchedulerInv
    PROVE  /\ Queued \cap running = {}
           /\ Queued \subseteq Runs /\ running \subseteq Runs /\ settled \subseteq running
           /\ DOMAIN queue = 1..Len(queue) /\ Len(queue) \in Nat
           /\ \A i \in DOMAIN queue : queue[i] \in Queued
           /\ \A c \in Queued : \E i \in DOMAIN queue : c = queue[i]
           /\ \A r, s \in running : KeyOf[r] = KeyOf[s] => r = s
<1>1. queue \in Seq(Runs) /\ DOMAIN queue = 1..Len(queue) /\ Len(queue) \in Nat
  BY LenProperties DEF SchedulerInv, Consistent
<1>2. \A i \in DOMAIN queue : queue[i] \in Runs
  BY <1>1, ElementOfSeq
<1>3. QED
  BY <1>1, <1>2 DEF SchedulerInv, Consistent, Queued, ToSet

(* filter() of the queue leaves something to pump() that needs no pumping. *)
LEMMA KeptCallsPump ==
    ASSUME SchedulerInv, NEW S
    PROVE  /\ Consistent(Kept(queue, S), activeKeys, active, running)
           /\ \/ active >= Concurrency
              \/ Eligible(Kept(queue, S), activeKeys) = {}
           /\ OnePass(Kept(queue, S), activeKeys, active)
           /\ ToSet(Kept(queue, S)) = Queued \cap S
<1>. DEFINE p == Kept(queue, S)
<1>1. queue \in Seq(Runs) /\ NoRepeats(queue)
  BY DEF SchedulerInv, Consistent, NoRepeats
<1>2. p \in Seq(Runs) /\ ToSet(p) = Queued \cap S /\ NoRepeats(p)
  BY <1>1, KeptSet DEF Queued
<1>. HIDE DEF p
<1>3. \A i \in DOMAIN p : p[i] \in Queued
  BY <1>2 DEF ToSet
<1>4. \A c \in Queued : \E i \in DOMAIN queue : c = queue[i]
  BY OneHolder
<1>5. Consistent(p, activeKeys, active, running)
  BY <1>2, <1>3, OneHolder DEF SchedulerInv, Consistent, NoRepeats
<1>6. ASSUME Eligible(queue, activeKeys) = {}
      PROVE  Eligible(p, activeKeys) = {}
  <2>1. \A i \in DOMAIN queue : KeyOf[queue[i]] \in activeKeys
    BY <1>1, <1>6, NothingEligible
  <2>2. \A i \in DOMAIN p : KeyOf[p[i]] \in activeKeys
    BY <2>1, <1>3, <1>4
  <2>3. QED
    BY <1>2, <2>2, NothingEligible
<1>7. active >= Concurrency \/ Eligible(p, activeKeys) = {}
  BY <1>6 DEF SchedulerInv, WorkConserving
<1>8. active \in Nat /\ Concurrency \in Nat
  BY FS_CardinalityType, SchedulerAssumption DEF SchedulerInv, Consistent
<1>9. OnePass(p, activeKeys, active)
  BY <1>7, <1>8 DEF OnePass
<1>10. QED
  BY <1>2, <1>5, <1>7, <1>9 DEF p

(* filter() keeps the line of each session in its order.                   *)
LEMMA KeptLine ==
    ASSUME NEW q \in Seq(Runs), NEW S, NEW held, NEW bef,
           LineInOrder(q, held, bef)
    PROVE  LineInOrder(Kept(q, S), held, bef)
<1>. DEFINE p == Kept(q, S)
<1>0. /\ p \in Seq(Runs)
      /\ \E f \in [1..Len(p) -> 1..Len(q)] :
            /\ \A j, k \in 1..Len(p) : j < k => f[j] < f[k]
            /\ \A k \in 1..Len(p) : p[k] = q[f[k]] /\ q[f[k]] \in S
            /\ \A i \in 1..Len(q) : q[i] \in S => \E k \in 1..Len(p) : i = f[k]
  BY KeptProperties
<1>. HIDE DEF p
<1>1. DOMAIN p = 1..Len(p) /\ DOMAIN q = 1..Len(q)
  BY <1>0, LenProperties
<1>2. PICK f \in [1..Len(p) -> 1..Len(q)] :
        /\ \A j, k \in 1..Len(p) : j < k => f[j] < f[k]
        /\ \A k \in 1..Len(p) : p[k] = q[f[k]] /\ q[f[k]] \in S
  BY <1>0
<1>3. \A k \in DOMAIN p : f[k] \in DOMAIN q /\ p[k] = q[f[k]]
  BY <1>1, <1>2
<1>4. LineInOrder(p, held, bef)
  BY <1>1, <1>2, <1>3 DEF LineInOrder
<1>5. QED
  BY <1>4 DEF p

(* A call made now comes after those that wait or run.                     *)
LEMMA PushedLine ==
    ASSUME NEW q \in Seq(Runs), NEW held, NEW bef, NEW c \in Runs, NEW aft,
           LineInOrder(q, held, bef),
           \A d \in ToSet(q) : aft[d] = bef[d],
           \A d \in (ToSet(q) \cup held) \cap Sends : KeyOf[d] = KeyOf[c] => d \in aft[c]
    PROVE  LineInOrder(Append(q, c), held, aft)
<1>. DEFINE p == Append(q, c)
<1>1. /\ p \in Seq(Runs) /\ Len(p) = Len(q) + 1
      /\ \A a \in 1..Len(q) : p[a] = q[a]
      /\ p[Len(q) + 1] = c
      /\ Len(q) \in Nat /\ DOMAIN q = 1..Len(q)
  BY AppendProperties, LenProperties
<1>. HIDE DEF p
<1>2. DOMAIN p = 1..(Len(q) + 1)
  BY <1>1, LenProperties
<1>3. \A a \in DOMAIN p : \/ a \in DOMAIN q /\ p[a] = q[a] /\ q[a] \in ToSet(q)
                          \/ a = Len(q) + 1 /\ p[a] = c
  BY <1>1, <1>2 DEF ToSet
<1>4. ASSUME NEW i \in DOMAIN p, NEW j \in DOMAIN p,
             i < j, KeyOf[p[i]] = KeyOf[p[j]], p[i] \in Sends
      PROVE  p[i] \in aft[p[j]]
  <2>1. i \in DOMAIN q /\ p[i] = q[i] /\ q[i] \in ToSet(q)
    BY <1>1, <1>2, <1>3, <1>4
  <2>2. CASE j \in DOMAIN q /\ p[j] = q[j] /\ q[j] \in ToSet(q)
    BY <1>4, <2>1, <2>2 DEF LineInOrder
  <2>3. CASE p[j] = c
    BY <1>4, <2>1, <2>3
  <2>4. QED
    BY <1>3, <2>2, <2>3
<1>5. ASSUME NEW d \in held \cap Sends, NEW j \in DOMAIN p, KeyOf[d] = KeyOf[p[j]]
      PROVE  d \in aft[p[j]]
  BY <1>3, <1>5 DEF LineInOrder
<1>6. QED
  BY <1>4, <1>5 DEF LineInOrder, p

(* pump() loses and adds no call, and keeps the lines in their order.      *)
LEMMA PumpMoves ==
    ASSUME NEW q, NEW busy, NEW n, NEW held,
           Consistent(q, busy, n, held), Pump(q, busy, n, held)
    PROVE  /\ Queued' \cup running' = ToSet(q) \cup held
           /\ \A bef : LineInOrder(q, held, bef) => LineInOrder(queue', running', bef)
<1>1. q \in Seq(Runs) /\ DOMAIN q = 1..Len(q) /\ Len(q) \in Nat /\ NoRepeats(q)
  BY LenProperties DEF Consistent, NoRepeats
<1>2. CASE queue' = q /\ running' = held
  BY <1>2 DEF Queued
<1>3. ASSUME NEW x \in Eligible(q, busy), queue' = RemoveAt(q, x),
             running' = held \cup {q[x]}
      PROVE  /\ Queued' \cup running' = ToSet(q) \cup held
             /\ \A bef : LineInOrder(q, held, bef) => LineInOrder(queue', running', bef)
  <2>. DEFINE p == RemoveAt(q, x)
              At(a) == IF a < x THEN a ELSE a + 1
  <2>1. x \in 1..Len(q) /\ q[x] \in Runs
    BY <1>1, EligiblePositions
  <2>2. /\ p \in Seq(Runs) /\ Len(p) = Len(q) - 1
        /\ \A a \in 1..(Len(q) - 1) : p[a] = IF a < x THEN q[a] ELSE q[a + 1]
    BY <1>1, <2>1, RemoveAtProperties
  <2>3. ToSet(p) = ToSet(q) \ {q[x]}
    BY <1>1, <2>1, RemoveAtSet
  <2>. HIDE DEF p
  <2>4. DOMAIN p = 1..(Len(q) - 1)
    BY <2>2, LenProperties
  <2>5. q[x] \in ToSet(q)
    BY <1>1, <2>1 DEF ToSet
  <2>6. ToSet(p) \cup running' = ToSet(q) \cup held
    BY <1>3, <2>3, <2>5
  <2>7. \A a \in DOMAIN p : At(a) \in DOMAIN q /\ At(a) # x /\ p[a] = q[At(a)]
    BY <1>1, <2>1, <2>2, <2>4
  <2>8. \A a, b \in DOMAIN p : a < b => At(a) < At(b)
    BY <1>1, <2>1, <2>4
  <2>9. \A a \in DOMAIN p : KeyOf[q[x]] = KeyOf[q[At(a)]] => x < At(a)
    <3>1. SUFFICES ASSUME NEW a \in DOMAIN p, ~(x < At(a))
                   PROVE  KeyOf[q[x]] # KeyOf[q[At(a)]]
      OBVIOUS
    <3>2. At(a) \in 1..(x - 1)
      BY <1>1, <2>1, <2>7, <3>1
    <3>. HIDE DEF At
    <3>3. QED
      BY <3>2 DEF Eligible
  <2>. HIDE DEF At
  <2>10. ASSUME NEW bef, LineInOrder(q, held, bef)
         PROVE  LineInOrder(p, running', bef)
    <3>1. ASSUME NEW i \in DOMAIN p, NEW j \in DOMAIN p,
                 i < j, KeyOf[p[i]] = KeyOf[p[j]], p[i] \in Sends
          PROVE  p[i] \in bef[p[j]]
      BY <2>7, <2>8, <2>10, <3>1 DEF LineInOrder
    <3>2. ASSUME NEW c \in running' \cap Sends, NEW j \in DOMAIN p,
                 KeyOf[c] = KeyOf[p[j]]
          PROVE  c \in bef[p[j]]
      <4>1. CASE c \in held
        BY <2>7, <2>10, <3>2, <4>1 DEF LineInOrder
      <4>2. CASE c = q[x]
        BY <1>1, <2>1, <2>7, <2>9, <2>10, <3>2, <4>2 DEF LineInOrder
      <4>3. QED
        BY <1>3, <4>1, <4>2
    <3>3. QED
      BY <3>1, <3>2 DEF LineInOrder
  <2>11. QED
    BY <1>3, <2>6, <2>10 DEF p, Queued
<1>4. QED
  BY <1>2, <1>3 DEF Pump, Dequeue

-----------------------------------------------------------------------------
(* A call is made once, and is pending from then until it ends.            *)
CallsAdvance ==
    \A c \in Runs :
        \/ /\ outcome[c] = "unmade" /\ outcome'[c] = "unmade"
           /\ before'[c] = before[c]
        \/ /\ outcome[c] = "unmade" /\ outcome'[c] = "pending"
           /\ before'[c] = MadeOf(c)
        \/ /\ outcome[c] # "unmade" /\ outcome'[c] # "unmade"
           /\ outcome'[c] = "pending" => outcome[c] = "pending"
           /\ before'[c] = before[c]

LEMMA HistorySound ==
    ASSUME AgentInv, CallsAdvance
    PROVE  BeforeSound'
<1>1. ASSUME NEW c \in Runs, NEW r \in before'[c]
      PROVE  KeyOf[r] = KeyOf[c] /\ outcome'[r] # "unmade"
  <2>1. KeyOf[r] = KeyOf[c] /\ outcome[r] # "unmade" /\ r \in Runs
    BY <1>1, AgentAssumption DEF AgentInv, BeforeSound, AgentTypes, CallsAdvance, MadeOf
  <2>2. QED
    BY <2>1 DEF CallsAdvance
<1>2. ASSUME NEW c \in Runs, outcome'[c] = "unmade"
      PROVE  before'[c] = {}
  BY <1>2 DEF AgentInv, BeforeSound, CallsAdvance
<1>3. QED
  BY <1>1, <1>2 DEF BeforeSound

(* A step that writes nothing, and lets no task that has begun before go   *)
(* on writing, keeps what is on disk in order.                             *)
LEMMA QuietStep ==
    ASSUME AgentInv, CallsAdvance, memory' = memory, stored' = stored,
           \A r \in (running' \ settled') \cap Sends :
               r \in running \ settled \/ memory[r] = <<>>,
           \A o \in Wipes : outcome'[o] = "finished" => outcome[o] = "finished"
    PROVE  FilesFollow' /\ BegunBefore' /\ HistoryInOrder' /\ WipedStaysWiped'
<1>. Sends \subseteq Runs /\ Wipes \subseteq Runs
  BY AgentAssumption
<1>1. \A r \in Sends : memory[r] # <<>> => outcome[r] # "unmade"
  BY DEF AgentInv, RecordsMatch
<1>2. \A r \in Sends : memory[r] # <<>> => before'[r] = before[r]
  BY <1>1 DEF CallsAdvance
<1>3. \A s \in Keys : \A i \in DOMAIN stored[s] :
        stored[s][i].run \in Sends /\ memory[stored[s][i].run] # <<>>
  <2>1. \A s \in Keys : stored[s] \in Seq(Messages)
    BY DEF AgentInv, AgentTypes
  <2>2. \A s \in Keys : \A i \in DOMAIN stored[s] : stored[s][i] \in Messages
    BY <2>1, ElementOfSeq, LenProperties
  <2>3. QED
    BY <2>2 DEF AgentInv, FilesFollow, Messages
<1>4. FilesFollow'
  <2>1. \A r \in (running' \ settled') \cap Sends :
          memory'[r] # <<>> => stored'[KeyOf[r]] = memory'[r]
    BY DEF AgentInv, FilesFollow
  <2>2. ASSUME NEW r \in Sends, NEW i \in DOMAIN memory[r]
        PROVE  memory[r][i].run = r \/ memory[r][i].run \in before'[r]
    <3>1. memory[r] # <<>>
      BY <2>2
    <3>2. QED
      BY <3>1, <1>2 DEF AgentInv, FilesFollow
  <2>3. QED
    BY <2>1, <2>2 DEF AgentInv, FilesFollow
<1>5. BegunBefore'
  <2>1. ASSUME NEW r \in Sends, NEW t \in Sends, KeyOf[r] = KeyOf[t],
               memory[r] # <<>>, outcome'[t] = "pending", memory[t] = <<>>
        PROVE  r \in before'[t]
    <3>1. CASE outcome[t] = "unmade" /\ before'[t] = MadeOf(t)
      BY <2>1, <3>1, <1>1 DEF MadeOf
    <3>2. CASE outcome[t] = "pending" /\ before'[t] = before[t]
      BY <2>1, <3>2 DEF AgentInv, BegunBefore
    <3>3. QED
      BY <2>1, <3>1, <3>2 DEF CallsAdvance
  <2>2. QED
    BY <2>1 DEF BegunBefore
<1>6. HistoryInOrder'
  BY <1>2, <1>3 DEF AgentInv, HistoryInOrder
<1>7. WipedStaysWiped'
  <2>1. \A o \in Wipes : outcome[o] = "finished" => before'[o] = before[o]
    BY DEF CallsAdvance
  <2>2. QED
    BY <2>1 DEF AgentInv, WipedStaysWiped, SessionOf
<1>8. QED
  BY <1>4, <1>5, <1>6, <1>7

(* What a step that ends with pump() leaves.                               *)
LEMMA PumpStep ==
    ASSUME SchedulerInv, NEW q, NEW busy, NEW n, NEW held,
           Consistent(q, busy, n, held), OnePass(q, busy, n),
           Pump(q, busy, n, held), settled' \subseteq held
    PROVE  /\ SchedulerInv'
           /\ held \subseteq running'
           /\ Queued' \subseteq ToSet(q)
           /\ Queued' \cup (running' \ settled') = (ToSet(q) \cup held) \ settled'
<1>1. /\ Consistent(queue', activeKeys', active', running')
      /\ WorkConserving'
      /\ higherPriorityDequeues' \in Nat
      /\ held \subseteq running'
  BY PumpLemma DEF SchedulerInv
<1>2. SchedulerInv'
  BY <1>1 DEF SchedulerInv
<1>3. Queued' \cup running' = ToSet(q) \cup held
  BY PumpMoves
<1>4. Queued' \cap running' = {}
  BY <1>1 DEF Consistent, Queued, ToSet
<1>5. QED
  BY <1>1, <1>2, <1>3, <1>4

(* Wipes and what they wait for, in a step that makes no wipe and finishes *)
(* none.                                                                   *)
LEMMA WipesCancelKept ==
    ASSUME AgentInv, CallsAdvance, captured' = captured,
           \A o \in Wipes : before'[o] = before[o],
           \A o \in Wipes : outcome'[o] = "finished" => outcome[o] = "finished",
           \A c \in Queued' : c \in Queued \/ outcome[c] = "unmade"
    PROVE  WipesCancel'
<1>. Sends \subseteq Runs /\ Wipes \subseteq Runs
  BY AgentAssumption
<1>1. \A o \in Wipes : \A r \in before[o] : r \in Runs /\ outcome[r] # "unmade"
  BY DEF AgentInv, BeforeSound, AgentTypes
<1>2. ASSUME NEW o \in Wipes
      PROVE  before'[o] \cap Queued' = {}
  BY <1>1 DEF AgentInv, WipesCancel
<1>3. ASSUME NEW o \in Wipes, outcome'[o] = "finished", NEW r \in before'[o]
      PROVE  outcome'[r] # "pending"
  BY <1>1, <1>3 DEF AgentInv, WipesCancel, CallsAdvance
<1>4. QED
  BY <1>2, <1>3 DEF AgentInv, WipesCancel

-----------------------------------------------------------------------------
(* send() and editUserMessage(): one call more at the end of the line.     *)
LEMMA SubmittedStep ==
    ASSUME AgentInv, NEW c \in Runs \ Wipes, outcome[c] = "unmade",
           outcome' = [outcome EXCEPT ![c] = "pending"],
           Submit(c), Made(c), UNCHANGED <<memory, captured, stored>>,
           c \in Sends => lifecycle' = [lifecycle EXCEPT ![c] = "queued"],
           c \notin Sends => lifecycle' = lifecycle
    PROVE  AgentInv'
<1>. Sends \subseteq Runs /\ Wipes \subseteq Runs
  BY AgentAssumption
<1>1. /\ SchedulerInv /\ settled' = settled /\ settled \subseteq running
      /\ c \notin Queued \cup running
      /\ Pump(Append(queue, c), activeKeys, active, running)
      /\ queue \in Seq(Runs)
  BY DEF AgentInv, Submit, SchedulerInv, Consistent
<1>2. /\ Consistent(Append(queue, c), activeKeys, active, running)
      /\ OnePass(Append(queue, c), activeKeys, active)
  BY <1>1, SubmitCallsPump
<1>3. ToSet(Append(queue, c)) = Queued \cup {c}
  BY <1>1, AppendSet DEF Queued
<1>4. /\ SchedulerInv'
      /\ Queued' \subseteq Queued \cup {c}
      /\ Queued' \cup (running' \ settled') = (Queued \cup {c} \cup running) \ settled
  BY <1>1, <1>2, <1>3, PumpStep
<1>5. outcome \in [Runs -> Outcomes] /\ before \in [Runs -> SUBSET Sends]
  BY DEF AgentInv, AgentTypes
<1>6. before' = [before EXCEPT ![c] = MadeOf(c)]
  BY DEF Made, MadeOf, SessionOf
<1>7. AgentTypes'
  <2>1. lifecycle' \in [Sends -> Statuses]
    BY DEF AgentInv, AgentTypes, Statuses
  <2>2. before' \in [Runs -> SUBSET Sends] /\ outcome' \in [Runs -> Outcomes]
    BY <1>5, <1>6 DEF MadeOf, Outcomes
  <2>3. QED
    BY <2>1, <2>2 DEF AgentInv, AgentTypes
<1>8. CallsAdvance
  BY <1>5, <1>6 DEF CallsAdvance
<1>9. CallsMatch'
  <2>1. c \notin settled
    BY <1>1
  <2>2. \A d \in Runs : d \in Queued \cup (running \ settled)
                          <=> d \in (Queued \cup running) \ settled
    BY <1>1, OneHolder
  <2>3. \A d \in Runs : outcome'[d] = "pending" <=> d \in (Queued \cup {c} \cup running) \ settled
    BY <1>5, <2>1, <2>2 DEF AgentInv, CallsMatch
  <2>4. \A d \in Runs : d \in settled => outcome'[d] # "unmade"
    BY <1>5 DEF AgentInv, CallsMatch
  <2>5. QED
    BY <1>1, <1>4, <2>3, <2>4 DEF CallsMatch
<1>10. RecordsMatch'
  BY <1>4, <1>5 DEF AgentInv, AgentTypes, RecordsMatch
<1>11. WipesCancel'
  BY <1>4, <1>5, <1>6, <1>8, WipesCancelKept
<1>12. /\ FilesFollow' /\ BegunBefore' /\ HistoryInOrder' /\ WipedStaysWiped'
  <2>1. ASSUME NEW r \in (running' \ settled') \cap Sends
        PROVE  r \in running \ settled \/ memory[r] = <<>>
    BY <1>4 DEF AgentInv, RecordsMatch
  <2>2. \A o \in Wipes : outcome'[o] = "finished" => outcome[o] = "finished"
    BY <1>5
  <2>3. QED
    BY <1>8, <2>1, <2>2, QuietStep
<1>13. LineInOrder(queue', running', before')
  <2>1. \A d \in (Queued \cup running) : d \in Runs /\ outcome[d] # "unmade" /\ d # c
    BY <1>1, OneHolder DEF AgentInv, CallsMatch
  <2>2. LineInOrder(queue, running, before)
    BY DEF AgentInv
  <2>3. \A d \in ToSet(queue) : before'[d] = before[d]
    BY <1>5, <1>6, <2>1 DEF Queued
  <2>4. \A d \in (ToSet(queue) \cup running) \cap Sends : KeyOf[d] = KeyOf[c] => d \in before'[c]
    BY <1>5, <1>6, <2>1 DEF Queued, MadeOf
  <2>5. LineInOrder(Append(queue, c), running, before')
    BY <1>1, <2>2, <2>3, <2>4, PushedLine
  <2>6. QED
    BY <1>1, <1>2, <2>5, PumpMoves
<1>14. QED
  BY <1>4, <1>7, <1>8, <1>9, <1>10, <1>11, <1>12, <1>13, HistorySound DEF AgentInv

LEMMA SendStep ==
    ASSUME AgentInv, NEW r \in Sends, Send(r)
    PROVE  AgentInv'
<1>1. r \in Runs \ Wipes
  BY AgentAssumption
<1>2. QED
  BY <1>1, SubmittedStep DEF Send

LEMMA EditStep ==
    ASSUME AgentInv, NEW o \in Edits, Edit(o)
    PROVE  AgentInv'
<1>1. o \in Runs \ Wipes /\ o \notin Sends
  BY AgentAssumption
<1>2. QED
  BY <1>1, SubmittedStep DEF Edit

(* cancelRun: of the records, those in the queue end as cancelled and the  *)
(* others are told.                                                        *)
LEMMA CancelStep ==
    ASSUME AgentInv, NEW records \in SUBSET Recorded, CancelOnly(records)
    PROVE  AgentInv'
<1>. Sends \subseteq Runs /\ Wipes \subseteq Runs
  BY AgentAssumption
<1>. DEFINE p == Remaining(records)
<1>1. /\ SchedulerInv /\ settled' = settled /\ settled \subseteq running
      /\ Pump(p, activeKeys, active, running)
      /\ memory' = memory /\ captured' = captured /\ stored' = stored /\ before' = before
      /\ queue \in Seq(Runs) /\ Queued \subseteq Runs /\ Queued \cap running = {}
  BY OneHolder DEF AgentInv, CancelOnly, SchedulerInv, Consistent
<1>2. /\ Consistent(p, activeKeys, active, running)
      /\ OnePass(p, activeKeys, active)
      /\ ToSet(p) = Queued \cap (Runs \ records)
  BY <1>1, KeptCallsPump DEF Remaining
<1>. HIDE DEF p
<1>3. /\ SchedulerInv'
      /\ Queued' \subseteq Queued \ records
      /\ Queued' \cup (running' \ settled') = ((Queued \ records) \cup running) \ settled
  BY <1>1, <1>2, PumpStep
<1>4. /\ lifecycle' = [r \in Sends |-> IF r \in records THEN "cancelling" ELSE lifecycle[r]]
      /\ outcome' = [c \in Runs |-> IF c \in records \cap Queued THEN "cancelled" ELSE outcome[c]]
  BY DEF CancelOnly, Marked, Rejected
<1>5. \A c \in Queued : outcome[c] = "pending"
  BY <1>1 DEF AgentInv, CallsMatch
<1>6. AgentTypes'
  <2>1. lifecycle' \in [Sends -> Statuses] /\ outcome' \in [Runs -> Outcomes]
    BY <1>4 DEF AgentInv, AgentTypes, Statuses, Outcomes
  <2>2. QED
    BY <1>1, <2>1 DEF AgentInv, AgentTypes
<1>7. CallsAdvance
  BY <1>1, <1>4, <1>5 DEF CallsAdvance
<1>8. CallsMatch'
  <2>1. \A d \in Runs : outcome[d] = "pending" <=> d \in (Queued \cup running) \ settled
    BY <1>1 DEF AgentInv, CallsMatch
  <2>2. \A d \in Runs : outcome'[d] = "pending" <=> d \in ((Queued \ records) \cup running) \ settled
    BY <1>1, <1>4, <2>1
  <2>3. \A d \in Runs : d \in settled => outcome'[d] # "unmade"
    BY <1>4 DEF AgentInv, CallsMatch
  <2>4. QED
    BY <1>1, <1>3, <2>2, <2>3 DEF CallsMatch
<1>9. RecordsMatch'
  <2>1. \A r \in records : r \in Sends /\ lifecycle[r] # "none"
    BY DEF Recorded
  <2>2. QED
    BY <1>1, <1>3, <1>4, <1>5, <2>1 DEF AgentInv, RecordsMatch
<1>10. WipesCancel'
  <2>1. \A o \in Wipes : outcome'[o] = "finished" => outcome[o] = "finished"
    BY <1>4
  <2>2. QED
    BY <1>1, <1>3, <1>7, <2>1, WipesCancelKept
<1>11. /\ FilesFollow' /\ BegunBefore' /\ HistoryInOrder' /\ WipedStaysWiped'
  <2>1. ASSUME NEW r \in (running' \ settled') \cap Sends
        PROVE  r \in running \ settled \/ memory[r] = <<>>
    BY <1>3 DEF AgentInv, RecordsMatch
  <2>2. \A o \in Wipes : outcome'[o] = "finished" => outcome[o] = "finished"
    BY <1>4
  <2>3. QED
    BY <1>1, <1>7, <2>1, <2>2, QuietStep
<1>12. LineInOrder(queue', running', before')
  <2>1. LineInOrder(p, running, before)
    BY <1>1, KeptLine DEF AgentInv, Remaining, p
  <2>2. QED
    BY <1>1, <1>2, <2>1, PumpMoves
<1>13. QED
  BY <1>3, <1>6, <1>7, <1>8, <1>9, <1>10, <1>11, <1>12, HistorySound DEF AgentInv

(* clearMessages() and deleteSession(): all the sends of the session are   *)
(* cancelled, and what is left of the line has the wipe at its end.        *)
LEMMA WipeStep ==
    ASSUME AgentInv, NEW o \in Wipes, Wipe(o)
    PROVE  AgentInv'
<1>. Sends \subseteq Runs /\ Wipes \subseteq Runs /\ Sends \cap Wipes = {}
  BY AgentAssumption
<1>. DEFINE records == Matching(SessionOf(o))
            p == Remaining(records)
<1>1. /\ SchedulerInv /\ settled' = settled /\ settled \subseteq running
      /\ Pump(Append(p, o), activeKeys, active, running)
      /\ memory' = memory /\ stored' = stored
      /\ captured' = [captured EXCEPT ![o] = records]
      /\ Queued \subseteq Runs /\ Queued \cap running = {}
      /\ outcome[o] = "unmade"
  BY OneHolder DEF AgentInv, Wipe
<1>2. /\ records \subseteq Sends
      /\ \A r \in Sends : r \in records <=> lifecycle[r] # "none" /\ KeyOf[r] = KeyOf[o]
  BY DEF Matching, Recorded, SessionOf
<1>3. /\ lifecycle' = [r \in Sends |-> IF r \in records THEN "cancelling" ELSE lifecycle[r]]
      /\ outcome' = [c \in Runs |-> IF c = o THEN "pending"
                                    ELSE IF c \in records \cap Queued THEN "cancelled"
                                    ELSE outcome[c]]
  BY DEF Wipe, Marked, Rejected
<1>4. before' = [before EXCEPT ![o] = MadeOf(o)] /\ before \in [Runs -> SUBSET Sends]
  BY DEF Wipe, Made, MadeOf, SessionOf, AgentInv, AgentTypes
<1>5. /\ Consistent(p, activeKeys, active, running)
      /\ active >= Concurrency \/ Eligible(p, activeKeys) = {}
      /\ ToSet(p) = Queued \cap (Runs \ records)
      /\ queue \in Seq(Runs)
  BY <1>1, KeptCallsPump DEF Remaining, SchedulerInv, Consistent
<1>6. LineInOrder(p, running, before)
  BY <1>5, KeptLine DEF AgentInv, Remaining
<1>. HIDE DEF p, records
<1>7. o \notin Queued \cup running
  BY <1>1 DEF AgentInv, CallsMatch
<1>8. /\ Consistent(Append(p, o), activeKeys, active, running)
      /\ OnePass(Append(p, o), activeKeys, active)
      /\ ToSet(Append(p, o)) = (Queued \ records) \cup {o}
      /\ p \in Seq(Runs)
  <2>1. p \in Seq(Runs)
    BY <1>5 DEF Consistent
  <2>2. ToSet(Append(p, o)) = ToSet(p) \cup {o}
    BY <2>1, AppendSet
  <2>3. ToSet(p) = Queued \ records
    BY <1>1, <1>5
  <2>4. /\ Consistent(Append(p, o), activeKeys, active, running)
        /\ OnePass(Append(p, o), activeKeys, active)
    BY <1>5, <1>7, <2>3, PushCallsPump
  <2>5. QED
    BY <2>1, <2>2, <2>3, <2>4
<1>9. /\ SchedulerInv'
      /\ Queued' \subseteq (Queued \ records) \cup {o}
      /\ Queued' \cup (running' \ settled') = ((Queued \ records) \cup {o} \cup running) \ settled
  BY <1>1, <1>8, PumpStep
<1>10. \A c \in Queued : outcome[c] = "pending"
  BY <1>1 DEF AgentInv, CallsMatch
<1>11. AgentTypes'
  <2>1. lifecycle' \in [Sends -> Statuses] /\ outcome' \in [Runs -> Outcomes]
    BY <1>3 DEF AgentInv, AgentTypes, Statuses, Outcomes
  <2>2. captured' \in [Wipes -> SUBSET Sends] /\ before' \in [Runs -> SUBSET Sends]
    BY <1>1, <1>2, <1>4 DEF AgentInv, AgentTypes, MadeOf
  <2>3. QED
    BY <1>1, <2>1, <2>2 DEF AgentInv, AgentTypes
<1>12. CallsAdvance
  BY <1>1, <1>2, <1>3, <1>4, <1>10 DEF CallsAdvance
<1>13. CallsMatch'
  <2>1. \A d \in Runs : outcome[d] = "pending" <=> d \in (Queued \cup running) \ settled
    BY <1>1 DEF AgentInv, CallsMatch
  <2>2. \A d \in Runs : outcome'[d] = "pending" <=> d \in ((Queued \ records) \cup {o} \cup running) \ settled
    BY <1>1, <1>2, <1>3, <1>7, <2>1
  <2>3. \A d \in Runs : d \in settled => outcome'[d] # "unmade"
    BY <1>3 DEF AgentInv, CallsMatch
  <2>4. QED
    BY <1>1, <1>9, <2>2, <2>3 DEF CallsMatch
<1>14. RecordsMatch'
  BY <1>1, <1>2, <1>3, <1>9, <1>10 DEF AgentInv, RecordsMatch
<1>15. WipesCancel'
  <2>1. \A c \in Runs : \A r \in before[c] : r \in Runs /\ outcome[r] # "unmade"
    BY <1>4 DEF AgentInv, BeforeSound
  <2>2. /\ captured'[o] \subseteq before'[o]
        /\ before'[o] \cap Queued' = {}
        /\ outcome'[o] # "finished"
    <3>1. \A r \in records : KeyOf[r] = KeyOf[o] /\ outcome[r] # "unmade"
      BY <1>2 DEF AgentInv, RecordsMatch
    <3>2. captured'[o] = records /\ before'[o] = MadeOf(o)
      BY <1>1, <1>4 DEF AgentInv, AgentTypes
    <3>3. \A r \in Sends \cap Queued : KeyOf[r] = KeyOf[o] => r \in records
      BY <1>2, <1>10 DEF AgentInv, RecordsMatch
    <3>4. QED
      BY <1>2, <1>3, <1>9, <3>1, <3>2, <3>3 DEF MadeOf
  <2>3. ASSUME NEW w \in Wipes, w # o
        PROVE  /\ captured'[w] \subseteq before'[w]
               /\ before'[w] \cap Queued' = {}
               /\ outcome'[w] = "finished" => \A r \in before'[w] : outcome'[r] # "pending"
    <3>1. captured'[w] = captured[w] /\ before'[w] = before[w] /\ w \in Runs
      BY <1>1, <1>4, <2>3 DEF AgentInv, AgentTypes
    <3>2. \A r \in before[w] : r # o
      BY <1>4, <3>1
    <3>3. outcome'[w] = "finished" => outcome[w] = "finished"
      BY <1>3, <2>3
    <3>4. \A r \in before[w] : outcome'[r] = "pending" => outcome[r] = "pending"
      BY <1>3, <2>1, <3>2
    <3>5. QED
      BY <1>9, <3>1, <3>2, <3>3, <3>4 DEF AgentInv, WipesCancel
  <2>4. QED
    BY <2>2, <2>3 DEF WipesCancel
<1>16. /\ FilesFollow' /\ BegunBefore' /\ HistoryInOrder' /\ WipedStaysWiped'
  <2>1. ASSUME NEW r \in (running' \ settled') \cap Sends
        PROVE  r \in running \ settled \/ memory[r] = <<>>
    BY <1>9 DEF AgentInv, RecordsMatch
  <2>2. \A w \in Wipes : outcome'[w] = "finished" => outcome[w] = "finished"
    BY <1>3
  <2>3. QED
    BY <1>1, <1>12, <2>1, <2>2, QuietStep
<1>17. LineInOrder(queue', running', before')
  <2>1. \A d \in ToSet(p) \cup running : d \in Runs /\ outcome[d] # "unmade" /\ d # o
    BY <1>1, <1>5, OneHolder DEF AgentInv, CallsMatch
  <2>2. \A d \in ToSet(p) : before'[d] = before[d]
    BY <1>4, <2>1
  <2>3. \A d \in (ToSet(p) \cup running) \cap Sends : KeyOf[d] = KeyOf[o] => d \in before'[o]
    BY <1>4, <2>1 DEF MadeOf
  <2>4. LineInOrder(Append(p, o), running, before')
    BY <1>6, <1>8, <2>2, <2>3, PushedLine
  <2>5. QED
    BY <1>1, <1>8, <2>4, PumpMoves
<1>18. QED
  BY <1>9, <1>11, <1>12, <1>13, <1>14, <1>15, <1>16, <1>17, HistorySound DEF AgentInv

(* The finally callback frees the slot of a call that has ended.           *)
LEMMA FreeStep ==
    ASSUME AgentInv, NEW c \in Runs, Free(c)
    PROVE  AgentInv'
<1>. Sends \subseteq Runs /\ Wipes \subseteq Runs
  BY AgentAssumption
<1>1. /\ SchedulerInv /\ settled \subseteq running
      /\ c \in settled /\ c \in running /\ settled' = settled \ {c}
      /\ Pump(queue, activeKeys \ {KeyOf[c]}, active - 1, running \ {c})
      /\ UNCHANGED <<lifecycle, memory, outcome, captured, stored, before>>
      /\ queue \in Seq(Runs) /\ Queued \cap running = {}
  BY OneHolder DEF AgentInv, Free, Release, agentVars, SchedulerInv, Consistent
<1>2. /\ Consistent(queue, activeKeys \ {KeyOf[c]}, active - 1, running \ {c})
      /\ OnePass(queue, activeKeys \ {KeyOf[c]}, active - 1)
  BY <1>1, ReleaseCallsPump
<1>3. /\ SchedulerInv'
      /\ Queued' \subseteq Queued
      /\ Queued' \cup (running' \ settled') = (Queued \cup (running \ {c})) \ (settled \ {c})
  BY <1>1, <1>2, PumpStep DEF Queued
<1>4. (Queued \cup (running \ {c})) \ (settled \ {c}) = Queued \cup (running \ settled)
  BY <1>1
<1>5. \A d \in settled' : d \in settled
  BY <1>1
<1>6. CallsAdvance
  BY <1>1 DEF CallsAdvance
<1>7. CallsMatch'
  BY <1>1, <1>3, <1>4, <1>5 DEF AgentInv, CallsMatch
<1>8. RecordsMatch' /\ AgentTypes'
  BY <1>1, <1>3 DEF AgentInv, RecordsMatch, AgentTypes
<1>9. WipesCancel'
  BY <1>1, <1>3, <1>6, WipesCancelKept
<1>10. /\ FilesFollow' /\ BegunBefore' /\ HistoryInOrder' /\ WipedStaysWiped'
  <2>1. ASSUME NEW r \in (running' \ settled') \cap Sends
        PROVE  r \in running \ settled \/ memory[r] = <<>>
    BY <1>3, <1>4 DEF AgentInv, RecordsMatch
  <2>2. QED
    BY <1>1, <1>6, <2>1, QuietStep
<1>11. LineInOrder(queue', running', before')
  <2>1. LineInOrder(queue, running \ {c}, before)
    BY DEF AgentInv, LineInOrder
  <2>2. QED
    BY <1>1, <1>2, <2>1, PumpMoves
<1>12. QED
  BY <1>3, <1>6, <1>7, <1>8, <1>9, <1>10, <1>11, HistorySound DEF AgentInv

-----------------------------------------------------------------------------
(* A step between the operations of the scheduler keeps its invariant.     *)
LEMMA SameScheduler ==
    ASSUME SchedulerInv, settled' \subseteq running,
           UNCHANGED <<queue, activeKeys, active, higherPriorityDequeues, running>>
    PROVE  SchedulerInv' /\ Queued' = Queued
BY DEF SchedulerInv, Consistent, WorkConserving, Eligible, Queued

(* A task settles: its call ends, and only what is said of the files and   *)
(* of wipes is left to show.                                               *)
LEMMA SettledCall ==
    ASSUME AgentInv, NEW c \in Runs, Settle(c),
           NEW v \in {"finished", "cancelled", "failed"},
           outcome' = [outcome EXCEPT ![c] = v],
           UNCHANGED <<lifecycle, memory, captured, before>>,
           stored' \in [Keys -> Seq(Messages)],
           c \in Sends => lifecycle[c] # "queued"
    PROVE  /\ SchedulerInv' /\ AgentTypes' /\ CallsMatch' /\ RecordsMatch'
           /\ LineInOrder(queue', running', before') /\ BegunBefore'
           /\ CallsAdvance /\ BeforeSound'
           /\ Queued' = Queued /\ running' = running
           /\ c \in running \ settled /\ settled' = settled \cup {c}
<1>. Sends \subseteq Runs
  BY AgentAssumption
<1>1. /\ c \in running \ settled /\ settled' = settled \cup {c}
      /\ UNCHANGED <<queue, activeKeys, active, higherPriorityDequeues, running>>
      /\ SchedulerInv /\ settled \subseteq running /\ Queued \cap running = {}
  BY OneHolder DEF AgentInv, Settle
<1>2. SchedulerInv' /\ Queued' = Queued
  BY <1>1, SameScheduler
<1>3. outcome \in [Runs -> Outcomes] /\ outcome[c] = "pending"
  BY <1>1 DEF AgentInv, AgentTypes, CallsMatch
<1>4. AgentTypes'
  BY <1>3 DEF AgentInv, AgentTypes, Outcomes
<1>5. CallsMatch'
  BY <1>1, <1>2, <1>3 DEF AgentInv, CallsMatch
<1>6. RecordsMatch'
  BY <1>2, <1>3 DEF AgentInv, RecordsMatch
<1>7. CallsAdvance
  BY <1>3 DEF CallsAdvance
<1>8. BegunBefore'
  BY <1>3 DEF AgentInv, BegunBefore
<1>9. LineInOrder(queue', running', before')
  BY <1>1 DEF AgentInv
<1>10. QED
  BY <1>1, <1>2, <1>4, <1>5, <1>6, <1>7, <1>8, <1>9, HistorySound

(* process() of a send returns, throws, or was never let in.               *)
LEMMA SettledSend ==
    ASSUME AgentInv, NEW r \in Sends, Settle(r),
           NEW v \in {"finished", "cancelled", "failed"},
           outcome' = [outcome EXCEPT ![r] = v],
           UNCHANGED <<lifecycle, memory, captured, stored, before>>,
           lifecycle[r] # "queued"
    PROVE  AgentInv'
<1>. Sends \subseteq Runs /\ Wipes \subseteq Runs /\ Sends \cap Wipes = {}
  BY AgentAssumption
<1>1. stored' \in [Keys -> Seq(Messages)] /\ outcome \in [Runs -> Outcomes]
  BY DEF AgentInv, AgentTypes
<1>2. /\ SchedulerInv' /\ AgentTypes' /\ CallsMatch' /\ RecordsMatch'
      /\ LineInOrder(queue', running', before') /\ BegunBefore'
      /\ CallsAdvance /\ BeforeSound'
      /\ Queued' = Queued /\ running' = running
      /\ settled' = settled \cup {r}
  BY <1>1, SettledCall
<1>3. \A o \in Wipes : outcome'[o] = "finished" => outcome[o] = "finished"
  BY <1>1
<1>4. WipesCancel'
  BY <1>2, <1>3, WipesCancelKept
<1>5. FilesFollow' /\ HistoryInOrder' /\ WipedStaysWiped'
  BY <1>2, <1>3, QuietStep
<1>6. QED
  BY <1>2, <1>4, <1>5 DEF AgentInv

LEMMA SkipStep ==
    ASSUME AgentInv, NEW r \in Sends, Skip(r)
    PROVE  AgentInv'
<1>1. /\ lifecycle[r] # "queued" /\ Settle(r)
      /\ outcome' = [outcome EXCEPT ![r] = "cancelled"]
      /\ UNCHANGED <<lifecycle, memory, captured, stored, before>>
  BY DEF Skip
<1>2. QED
  BY <1>1, SettledSend

LEMMA FinishStep ==
    ASSUME AgentInv, NEW r \in Sends, Finish(r)
    PROVE  AgentInv'
<1>1. /\ memory[r] # <<>> /\ Settle(r)
      /\ UNCHANGED <<lifecycle, memory, captured, stored, before>>
  BY DEF Finish
<1>2. PICK v \in {"finished", "cancelled", "failed"} : outcome' = [outcome EXCEPT ![r] = v]
  BY DEF Finish
<1>3. lifecycle[r] # "queued"
  BY <1>1 DEF AgentInv, RecordsMatch
<1>4. QED
  BY <1>1, <1>2, <1>3, SettledSend

(* cleanup() of a call that has ended.                                     *)
LEMMA CompleteStep ==
    ASSUME AgentInv, NEW r \in Sends, Complete(r)
    PROVE  AgentInv'
<1>. Sends \subseteq Runs /\ Wipes \subseteq Runs
  BY AgentAssumption
<1>1. /\ lifecycle' = [lifecycle EXCEPT ![r] = "none"] /\ outcome[r] # "pending"
      /\ UNCHANGED <<vars, memory, outcome, captured, stored, before>>
  BY DEF Complete
<1>2. /\ SchedulerInv /\ settled \subseteq running
      /\ UNCHANGED <<queue, activeKeys, active, higherPriorityDequeues, running, settled>>
  BY <1>1, OneHolder DEF AgentInv, vars
<1>3. SchedulerInv' /\ Queued' = Queued
  BY <1>2, SameScheduler
<1>4. AgentTypes' /\ RecordsMatch'
  <2>1. lifecycle \in [Sends -> Statuses]
    BY DEF AgentInv, AgentTypes
  <2>2. r \notin Queued
    BY <1>1 DEF AgentInv, CallsMatch
  <2>3. QED
    BY <1>1, <1>3, <2>1, <2>2 DEF AgentInv, AgentTypes, RecordsMatch, Statuses
<1>5. CallsMatch' /\ BeforeSound' /\ WipesCancel'
  BY <1>1, <1>2, <1>3 DEF AgentInv, CallsMatch, BeforeSound, WipesCancel
<1>6. FilesFollow' /\ BegunBefore' /\ HistoryInOrder' /\ WipedStaysWiped'
  <2>1. CallsAdvance
    BY <1>1 DEF CallsAdvance
  <2>2. QED
    BY <1>1, <1>2, <2>1, QuietStep
<1>7. LineInOrder(queue', running', before')
  BY <1>1, <1>2 DEF AgentInv
<1>8. QED
  BY <1>3, <1>4, <1>5, <1>6, <1>7 DEF AgentInv

-----------------------------------------------------------------------------
(* A message of the task that holds the slot of its session is added to    *)
(* what is on disk, by a task that begins (its user's message) or that has *)
(* on disk what it has in memory (an answer).                              *)
LEMMA WrittenMessage ==
    ASSUME AgentInv, NEW r \in Sends, r \in running \ settled,
           NEW m \in Messages, m.run = r, m.kind = "reply" \/ memory[r] = <<>>,
           memory[r] = <<>> \/ memory[r] = stored[KeyOf[r]],
           memory' = [memory EXCEPT ![r] = Append(stored[KeyOf[r]], m)],
           stored' = [stored EXCEPT ![KeyOf[r]] = Append(stored[KeyOf[r]], m)],
           UNCHANGED <<vars, outcome, before>>
    PROVE  /\ FilesFollow' /\ BegunBefore' /\ HistoryInOrder' /\ WipedStaysWiped'
           /\ memory' \in [Sends -> Seq(Messages)]
           /\ stored' \in [Keys -> Seq(Messages)]
           /\ memory'[r] # <<>>
<1>. DEFINE file == stored[KeyOf[r]]
            new == Append(file, m)
<1>. Sends \subseteq Runs /\ Wipes \subseteq Runs /\ Sends \cap Wipes = {}
  BY AgentAssumption
<1>1. /\ KeyOf[r] \in Keys
      /\ memory \in [Sends -> Seq(Messages)] /\ stored \in [Keys -> Seq(Messages)]
      /\ before \in [Runs -> SUBSET Sends]
  BY SchedulerAssumption DEF AgentInv, AgentTypes
<1>2. /\ file \in Seq(Messages) /\ DOMAIN file = 1..Len(file) /\ Len(file) \in Nat
      /\ \A i \in DOMAIN file : file[i] \in Messages /\ file[i].run \in Sends
  <2>1. file \in Seq(Messages)
    BY <1>1
  <2>. HIDE DEF file
  <2>2. DOMAIN file = 1..Len(file) /\ Len(file) \in Nat
    BY <2>1, LenProperties
  <2>3. \A i \in DOMAIN file : file[i] \in Messages
    BY <2>1, <2>2, ElementOfSeq
  <2>4. QED
    BY <2>1, <2>2, <2>3 DEF Messages
<1>3. /\ new \in Seq(Messages) /\ Len(new) = Len(file) + 1
      /\ \A i \in 1..Len(file) : new[i] = file[i]
      /\ new[Len(file) + 1] = m
  BY <1>2, AppendProperties
<1>4. memory' = [memory EXCEPT ![r] = new] /\ stored' = [stored EXCEPT ![KeyOf[r]] = new]
  OBVIOUS
<1>. HIDE DEF new
<1>5. DOMAIN new = 1..(Len(file) + 1) /\ new # <<>>
  BY <1>2, <1>3, LenProperties, EmptySeq
<1>6. \A i \in DOMAIN new : \/ i \in DOMAIN file /\ new[i] = file[i]
                            \/ i = Len(file) + 1 /\ new[i] = m
  BY <1>2, <1>3, <1>5
<1>7. \A i \in DOMAIN file : KeyOf[file[i].run] = KeyOf[r] /\ memory[file[i].run] # <<>>
  BY <1>1 DEF AgentInv, FilesFollow
<1>8. /\ queue' = queue /\ running' = running /\ settled' = settled /\ Queued' = Queued
      /\ outcome' = outcome /\ before' = before
      /\ outcome[r] = "pending"
  BY DEF vars, Queued, AgentInv, CallsMatch
<1>9. \A i \in DOMAIN file : file[i].run = r \/ file[i].run \in before[r]
  <2>1. CASE memory[r] = <<>>
    BY <1>2, <1>7, <1>8, <2>1 DEF AgentInv, BegunBefore
  <2>2. CASE memory[r] = file
    BY <2>2 DEF AgentInv, FilesFollow
  <2>3. QED
    BY <2>1, <2>2
<1>10. \A t \in running : KeyOf[t] = KeyOf[r] => t = r
  BY OneHolder DEF AgentInv
<1>11. FilesFollow'
  <2>1. ASSUME NEW t \in (running' \ settled') \cap Sends, memory'[t] # <<>>
        PROVE  stored'[KeyOf[t]] = memory'[t]
    <3>1. CASE t = r
      BY <1>1, <1>4, <3>1
    <3>2. CASE t # r
      <4>1. KeyOf[t] # KeyOf[r] /\ t \in running \ settled
        BY <1>8, <1>10, <2>1, <3>2
      <4>2. memory'[t] = memory[t] /\ stored'[KeyOf[t]] = stored[KeyOf[t]]
        BY <1>1, <1>4, <3>2, <4>1, SchedulerAssumption
      <4>3. QED
        BY <2>1, <4>1, <4>2 DEF AgentInv, FilesFollow
    <3>3. QED
      BY <3>1, <3>2
  <2>2. \A t \in Sends : memory[t] # <<>> => memory'[t] # <<>>
    BY <1>1, <1>4, <1>5
  <2>3. ASSUME NEW k \in Keys, NEW i \in DOMAIN stored'[k]
        PROVE  KeyOf[stored'[k][i].run] = k /\ memory'[stored'[k][i].run] # <<>>
    <3>1. CASE k = KeyOf[r]
      <4>1. stored'[k] = new
        BY <1>1, <1>4, <3>1
      <4>2. memory'[r] = new
        BY <1>1, <1>4
      <4>3. i \in DOMAIN new
        BY <4>1
      <4>4. CASE i \in DOMAIN file /\ new[i] = file[i]
        BY <1>2, <1>7, <2>2, <3>1, <4>1, <4>4
      <4>5. CASE new[i] = m
        BY <1>5, <3>1, <4>1, <4>2, <4>5
      <4>6. QED
        BY <1>6, <4>3, <4>4, <4>5
    <3>2. CASE k # KeyOf[r]
      <4>1. stored'[k] = stored[k]
        BY <1>1, <1>4, <3>2
      <4>2. stored[k] \in Seq(Messages) /\ i \in DOMAIN stored[k]
        BY <1>1, <4>1
      <4>3. stored[k][i] \in Messages
        BY <4>2, ElementOfSeq, LenProperties
      <4>4. stored[k][i].run \in Sends
        BY <4>3 DEF Messages
      <4>5. QED
        BY <2>2, <4>1, <4>2, <4>4 DEF AgentInv, FilesFollow
    <3>3. QED
      BY <3>1, <3>2
  <2>4. ASSUME NEW t \in Sends, NEW i \in DOMAIN memory'[t]
        PROVE  memory'[t][i].run = t \/ memory'[t][i].run \in before'[t]
    <3>1. CASE t = r
      <4>1. memory'[t] = new
        BY <1>1, <1>4, <3>1
      <4>2. QED
        BY <1>6, <1>8, <1>9, <2>4, <3>1, <4>1
    <3>2. CASE t # r
      BY <1>1, <1>4, <1>8, <2>4, <3>2 DEF AgentInv, FilesFollow
    <3>3. QED
      BY <3>1, <3>2
  <2>5. QED
    BY <2>1, <2>3, <2>4 DEF FilesFollow
<1>12. BegunBefore'
  <2>1. ASSUME NEW u \in Sends, NEW t \in Sends, KeyOf[u] = KeyOf[t],
               memory'[u] # <<>>, outcome'[t] = "pending", memory'[t] = <<>>
        PROVE  u \in before'[t]
    <3>1. t # r /\ memory[t] = <<>> /\ outcome[t] = "pending"
      BY <1>1, <1>4, <1>5, <1>8, <2>1
    <3>2. CASE u = r
      <4>1. t \notin running
        BY <1>10, <2>1, <3>1, <3>2
      <4>2. t \in Queued
        BY <3>1, <4>1 DEF AgentInv, CallsMatch
      <4>3. PICK j \in DOMAIN queue : t = queue[j]
        BY <4>2, OneHolder DEF AgentInv
      <4>4. QED
        BY <1>8, <2>1, <3>2, <4>3 DEF AgentInv, LineInOrder
    <3>3. CASE u # r
      BY <1>1, <1>4, <1>8, <2>1, <3>1, <3>3 DEF AgentInv, BegunBefore
    <3>4. QED
      BY <3>2, <3>3
  <2>2. QED
    BY <2>1 DEF BegunBefore
<1>13. HistoryInOrder'
  <2>1. ASSUME NEW k \in Keys, NEW i \in DOMAIN stored'[k], NEW j \in DOMAIN stored'[k], i < j
        PROVE  /\ \/ stored'[k][i].run = stored'[k][j].run
                  \/ stored'[k][i].run \in before'[stored'[k][j].run]
               /\ stored'[k][j].kind # "reply" => stored'[k][i].run # stored'[k][j].run
    <3>1. CASE k = KeyOf[r]
      <4>1. stored'[k] = new /\ i \in DOMAIN new /\ j \in DOMAIN new
        BY <1>1, <1>4, <2>1, <3>1
      <4>2. i \in DOMAIN file /\ new[i] = file[i]
        BY <1>2, <1>3, <1>5, <2>1, <4>1
      <4>3. CASE j \in DOMAIN file /\ new[j] = file[j]
        <5>1. /\ file[i].run = file[j].run \/ file[i].run \in before[file[j].run]
              /\ file[j].kind # "reply" => file[i].run # file[j].run
          BY <1>1, <2>1, <4>2, <4>3 DEF AgentInv, HistoryInOrder
        <5>2. stored'[k][i] = file[i] /\ stored'[k][j] = file[j] /\ before' = before
          BY <1>8, <4>1, <4>2, <4>3
        <5>3. QED
          BY <5>1, <5>2
      <4>4. CASE new[j] = m
        BY <1>7, <1>8, <1>9, <4>1, <4>2, <4>4
      <4>5. QED
        BY <1>6, <4>1, <4>3, <4>4
    <3>2. CASE k # KeyOf[r]
      <4>1. stored'[k] = stored[k]
        BY <1>1, <1>4, <3>2
      <4>2. /\ stored[k][i].run = stored[k][j].run \/ stored[k][i].run \in before[stored[k][j].run]
            /\ stored[k][j].kind # "reply" => stored[k][i].run # stored[k][j].run
        <5>1. HistoryInOrder /\ i \in DOMAIN stored[k] /\ j \in DOMAIN stored[k]
          BY <2>1, <4>1 DEF AgentInv
        <5>2. QED
          BY <2>1, <5>1 DEF HistoryInOrder
      <4>3. QED
        BY <1>8, <4>1, <4>2
    <3>3. QED
      BY <3>1, <3>2
  <2>2. QED
    BY <2>1 DEF HistoryInOrder
<1>14. WipedStaysWiped'
  <2>1. ASSUME NEW o \in Wipes, outcome'[o] = "finished", NEW i \in DOMAIN stored'[KeyOf[o]]
        PROVE  stored'[KeyOf[o]][i].run \notin before'[o]
    <3>1. r \notin before[o]
      BY <1>8, <2>1 DEF AgentInv, WipesCancel
    <3>2. \A x \in DOMAIN stored[KeyOf[o]] : stored[KeyOf[o]][x].run \notin before[o]
      BY <1>8, <2>1 DEF AgentInv, WipedStaysWiped, SessionOf
    <3>3. CASE KeyOf[o] = KeyOf[r]
      <4>1. stored'[KeyOf[o]] = new
        BY <1>1, <1>4, <3>3
      <4>2. QED
        BY <1>6, <1>8, <2>1, <3>1, <3>2, <3>3, <4>1
    <3>4. CASE KeyOf[o] # KeyOf[r]
      <4>1. stored'[KeyOf[o]] = stored[KeyOf[o]]
        BY <1>1, <1>4, <3>4, SchedulerAssumption
      <4>2. QED
        BY <1>8, <2>1, <3>2, <4>1
    <3>5. QED
      BY <3>3, <3>4
  <2>2. QED
    BY <2>1 DEF WipedStaysWiped, SessionOf
<1>15. /\ memory' \in [Sends -> Seq(Messages)]
       /\ stored' \in [Keys -> Seq(Messages)]
       /\ memory'[r] # <<>>
  <2>. HIDE DEF file
  <2>1. QED
    BY <1>1, <1>3, <1>4, <1>5
<1>16. QED
  BY <1>11, <1>12, <1>13, <1>14, <1>15

LEMMA BeginStep ==
    ASSUME AgentInv, NEW r \in Sends, Begin(r)
    PROVE  AgentInv'
<1>. DEFINE m == [run |-> r, kind |-> "user"]
<1>. Sends \subseteq Runs
  BY AgentAssumption
<1>1. /\ r \in running \ settled /\ lifecycle[r] = "queued" /\ memory[r] = <<>>
      /\ lifecycle' = [lifecycle EXCEPT ![r] = "running"]
      /\ memory' = [memory EXCEPT ![r] = Append(stored[KeyOf[r]], m)]
      /\ stored' = [stored EXCEPT ![KeyOf[r]] = Append(stored[KeyOf[r]], m)]
      /\ UNCHANGED <<vars, outcome, captured, before>>
  BY DEF Begin, SessionOf, AgentInv, RecordsMatch
<1>2. m \in Messages /\ m.run = r
  BY DEF Messages
<1>. HIDE DEF m
<1>3. /\ FilesFollow' /\ BegunBefore' /\ HistoryInOrder' /\ WipedStaysWiped'
      /\ memory' \in [Sends -> Seq(Messages)]
      /\ stored' \in [Keys -> Seq(Messages)]
      /\ memory'[r] # <<>>
  BY <1>1, <1>2, WrittenMessage
<1>4. /\ UNCHANGED <<queue, activeKeys, active, higherPriorityDequeues, running, settled>>
      /\ SchedulerInv /\ settled \subseteq running /\ Queued \cap running = {}
  BY <1>1, OneHolder DEF vars, AgentInv
<1>5. SchedulerInv' /\ Queued' = Queued
  BY <1>4, SameScheduler
<1>6. AgentTypes'
  BY <1>1, <1>3 DEF AgentInv, AgentTypes, Statuses
<1>7. RecordsMatch'
  <2>1. /\ lifecycle \in [Sends -> Statuses] /\ memory \in [Sends -> Seq(Messages)]
        /\ outcome[r] = "pending" /\ r \notin Queued
    BY <1>1, <1>4 DEF AgentInv, AgentTypes, CallsMatch
  <2>2. \A t \in Sends : t # r => lifecycle'[t] = lifecycle[t] /\ memory'[t] = memory[t]
    BY <1>1, <2>1
  <2>3. lifecycle'[r] = "running"
    BY <1>1, <2>1
  <2>4. QED
    BY <1>1, <1>3, <1>5, <2>1, <2>2, <2>3 DEF AgentInv, RecordsMatch
<1>8. CallsMatch' /\ BeforeSound' /\ WipesCancel'
  BY <1>1, <1>4, <1>5 DEF AgentInv, CallsMatch, BeforeSound, WipesCancel
<1>9. LineInOrder(queue', running', before')
  BY <1>1, <1>4 DEF AgentInv
<1>10. QED
  BY <1>3, <1>5, <1>6, <1>7, <1>8, <1>9 DEF AgentInv

LEMMA PersistStep ==
    ASSUME AgentInv, NEW r \in Sends, Persist(r)
    PROVE  AgentInv'
<1>. DEFINE m == [run |-> r, kind |-> "reply"]
<1>. Sends \subseteq Runs
  BY AgentAssumption
<1>1. /\ r \in running \ settled /\ memory[r] # <<>>
      /\ stored' = [stored EXCEPT ![KeyOf[r]] = memory'[r]]
      /\ memory' = [memory EXCEPT ![r] = Append(memory[r], m)] \/ memory' = memory
      /\ UNCHANGED <<vars, lifecycle, outcome, captured, before>>
  BY DEF Persist, SessionOf
<1>2. memory[r] = stored[KeyOf[r]] /\ KeyOf[r] \in Keys
  BY <1>1, SchedulerAssumption DEF AgentInv, FilesFollow
<1>3. memory \in [Sends -> Seq(Messages)] /\ stored \in [Keys -> Seq(Messages)]
  BY DEF AgentInv, AgentTypes
<1>4. m \in Messages /\ m.run = r /\ m.kind = "reply"
  BY DEF Messages
<1>. HIDE DEF m
<1>5. /\ UNCHANGED <<queue, activeKeys, active, higherPriorityDequeues, running, settled>>
      /\ SchedulerInv /\ settled \subseteq running
  BY <1>1, OneHolder DEF vars, AgentInv
<1>6. SchedulerInv' /\ Queued' = Queued
  BY <1>5, SameScheduler
<1>7. CASE memory' = [memory EXCEPT ![r] = Append(memory[r], m)]
  <2>1. /\ memory' = [memory EXCEPT ![r] = Append(stored[KeyOf[r]], m)]
        /\ stored' = [stored EXCEPT ![KeyOf[r]] = Append(stored[KeyOf[r]], m)]
    BY <1>1, <1>2, <1>3, <1>7
  <2>2. /\ FilesFollow' /\ BegunBefore' /\ HistoryInOrder' /\ WipedStaysWiped'
        /\ memory' \in [Sends -> Seq(Messages)]
        /\ stored' \in [Keys -> Seq(Messages)]
        /\ memory'[r] # <<>>
    BY <1>1, <1>2, <1>4, <2>1, WrittenMessage
  <2>3. \A t \in Sends : memory'[t] = <<>> <=> memory[t] = <<>>
    BY <1>1, <1>3, <1>7, <2>2
  <2>4. AgentTypes'
    BY <1>1, <2>2 DEF AgentInv, AgentTypes
  <2>5. CallsMatch' /\ RecordsMatch' /\ BeforeSound' /\ WipesCancel'
    BY <1>1, <1>5, <1>6, <2>3 DEF AgentInv, CallsMatch, RecordsMatch, BeforeSound, WipesCancel
  <2>6. LineInOrder(queue', running', before')
    BY <1>1, <1>5 DEF AgentInv
  <2>7. QED
    BY <1>6, <2>2, <2>4, <2>5, <2>6 DEF AgentInv
<1>8. CASE memory' = memory
  <2>1. stored' = stored
    BY <1>1, <1>2, <1>3, <1>8
  <2>2. CallsAdvance
    BY <1>1 DEF CallsAdvance
  <2>3. FilesFollow' /\ BegunBefore' /\ HistoryInOrder' /\ WipedStaysWiped'
    BY <1>1, <1>5, <1>8, <2>1, <2>2, QuietStep
  <2>4. AgentTypes' /\ CallsMatch' /\ RecordsMatch' /\ BeforeSound' /\ WipesCancel'
    BY <1>1, <1>5, <1>6, <1>8, <2>1
       DEF AgentInv, AgentTypes, CallsMatch, RecordsMatch, BeforeSound, WipesCancel
  <2>5. LineInOrder(queue', running', before')
    BY <1>1, <1>5 DEF AgentInv
  <2>6. QED
    BY <1>6, <2>3, <2>4, <2>5 DEF AgentInv
<1>9. QED
  BY <1>1, <1>7, <1>8

-----------------------------------------------------------------------------
(* A wipe that holds the slot of its session: none of the sends before it  *)
(* is left, in the queue or in the slot.                                   *)
LEMMA NoneBeforeWipe ==
    ASSUME AgentInv, NEW o \in Wipes \cap running, NEW r \in before[o]
    PROVE  outcome[r] # "pending"
<1>1. /\ r \in Sends /\ r \in Runs /\ r \notin Wipes /\ o \in Runs
      /\ KeyOf[r] = KeyOf[o] /\ r \notin Queued
  BY AgentAssumption DEF AgentInv, AgentTypes, BeforeSound, WipesCancel
<1>2. r \notin running
  BY <1>1, OneHolder DEF AgentInv
<1>3. QED
  BY <1>1, <1>2 DEF AgentInv, CallsMatch

LEMMA ApplyWipeStep ==
    ASSUME AgentInv, NEW o \in Wipes, ApplyWipe(o)
    PROVE  AgentInv'
<1>. Sends \subseteq Runs /\ Wipes \subseteq Runs /\ Sends \cap Wipes = {}
  BY AgentAssumption
<1>1. /\ Settle(o)
      /\ stored' = [stored EXCEPT ![KeyOf[o]] = <<>>]
      /\ outcome' = [outcome EXCEPT ![o] = "finished"]
      /\ UNCHANGED <<lifecycle, memory, captured, before>>
  BY DEF ApplyWipe, SessionOf
<1>2. stored \in [Keys -> Seq(Messages)] /\ outcome \in [Runs -> Outcomes]
  BY DEF AgentInv, AgentTypes
<1>3. /\ stored' \in [Keys -> Seq(Messages)]
      /\ \A k \in Keys : stored'[k] = IF k = KeyOf[o] THEN <<>> ELSE stored[k]
  <2>1. <<>> \in Seq(Messages)
    OBVIOUS
  <2>2. QED
    BY <1>1, <1>2, <2>1
<1>4. /\ SchedulerInv' /\ AgentTypes' /\ CallsMatch' /\ RecordsMatch'
      /\ LineInOrder(queue', running', before') /\ BegunBefore'
      /\ CallsAdvance /\ BeforeSound'
      /\ Queued' = Queued /\ running' = running
      /\ o \in running \ settled /\ settled' = settled \cup {o}
  BY <1>1, <1>3, SettledCall
<1>5. WipesCancel'
  <2>1. \A r \in before[o] : outcome[r] # "pending" /\ r \in Runs
    BY <1>4, NoneBeforeWipe DEF AgentInv, AgentTypes
  <2>2. \A w \in Wipes : \A r \in before[w] : r # o
    BY DEF AgentInv, AgentTypes
  <2>3. \A w \in Wipes : \A r \in before[w] : outcome'[r] = outcome[r]
    BY <1>1, <1>2, <2>2
  <2>4. \A w \in Wipes : w # o => outcome'[w] = outcome[w]
    BY <1>1, <1>2
  <2>5. QED
    BY <1>1, <1>4, <2>1, <2>3, <2>4 DEF AgentInv, WipesCancel
<1>6. FilesFollow'
  <2>1. ASSUME NEW r \in (running' \ settled') \cap Sends, memory'[r] # <<>>
        PROVE  stored'[KeyOf[r]] = memory'[r]
    <3>1. r \in running \ settled /\ r # o /\ r \in Runs
      BY <1>4
    <3>2. KeyOf[r] # KeyOf[o]
      BY <1>4, <3>1, OneHolder DEF AgentInv
    <3>3. QED
      BY <1>1, <1>3, <2>1, <3>1, <3>2, SchedulerAssumption DEF AgentInv, FilesFollow
  <2>2. \A k \in Keys : \A i \in DOMAIN stored'[k] :
          KeyOf[stored'[k][i].run] = k /\ memory'[stored'[k][i].run] # <<>>
    BY <1>1, <1>3 DEF AgentInv, FilesFollow
  <2>3. QED
    BY <1>1, <2>1, <2>2 DEF AgentInv, FilesFollow
<1>7. HistoryInOrder'
  BY <1>1, <1>3 DEF AgentInv, HistoryInOrder
<1>8. WipedStaysWiped'
  <2>1. ASSUME NEW w \in Wipes, outcome'[w] = "finished", NEW i \in DOMAIN stored'[KeyOf[w]]
        PROVE  stored'[KeyOf[w]][i].run \notin before'[w]
    <3>1. KeyOf[w] # KeyOf[o] /\ stored'[KeyOf[w]] = stored[KeyOf[w]]
      BY <1>3, <2>1, SchedulerAssumption
    <3>2. outcome[w] = "finished"
      BY <1>1, <1>2, <2>1, <3>1
    <3>3. QED
      BY <1>1, <2>1, <3>1, <3>2 DEF AgentInv, WipedStaysWiped, SessionOf
  <2>2. QED
    BY <2>1 DEF WipedStaysWiped, SessionOf
<1>9. QED
  BY <1>4, <1>5, <1>6, <1>7, <1>8 DEF AgentInv

(* The task of an edit changes what kind of user's message one is, or      *)
(* nothing.                                                                *)
LEMMA ApplyEditStep ==
    ASSUME AgentInv, NEW o \in Edits, ApplyEdit(o)
    PROVE  AgentInv'
<1>. DEFINE s == KeyOf[o]
<1>. /\ Sends \subseteq Runs /\ Wipes \subseteq Runs /\ o \in Runs
     /\ o \notin Sends /\ o \notin Wipes
  BY AgentAssumption
<1>1. /\ Settle(o)
      /\ \/ \E i \in DOMAIN stored[s] :
              /\ stored[s][i].kind \in {"user", "edited"}
              /\ stored' = [stored EXCEPT ![s][i].kind = "edited"]
         \/ stored' = stored
      /\ outcome' = [outcome EXCEPT ![o] = "finished"]
      /\ UNCHANGED <<lifecycle, memory, captured, before>>
  BY DEF ApplyEdit, SessionOf
<1>2. /\ stored \in [Keys -> Seq(Messages)] /\ outcome \in [Runs -> Outcomes]
      /\ s \in Keys
  BY SchedulerAssumption DEF AgentInv, AgentTypes
<1>3. \A k \in Keys : stored[k] \in Seq(Messages) /\ DOMAIN stored[k] = 1..Len(stored[k])
  BY <1>2, LenProperties
<1>4. /\ stored' \in [Keys -> Seq(Messages)]
      /\ \A k \in Keys : k # s => stored'[k] = stored[k]
      /\ \A k \in Keys : DOMAIN stored'[k] = DOMAIN stored[k]
      /\ \A k \in Keys : \A i \in DOMAIN stored[k] :
           /\ stored'[k][i].run = stored[k][i].run
           /\ stored'[k][i].kind = "reply" <=> stored[k][i].kind = "reply"
  <2>1. CASE stored' = stored
    BY <1>2, <2>1
  <2>2. ASSUME NEW i \in DOMAIN stored[s], stored[s][i].kind \in {"user", "edited"},
               stored' = [stored EXCEPT ![s][i].kind = "edited"]
        PROVE  /\ stored' \in [Keys -> Seq(Messages)]
               /\ \A k \in Keys : k # s => stored'[k] = stored[k]
               /\ \A k \in Keys : DOMAIN stored'[k] = DOMAIN stored[k]
               /\ \A k \in Keys : \A j \in DOMAIN stored[k] :
                    /\ stored'[k][j].run = stored[k][j].run
                    /\ stored'[k][j].kind = "reply" <=> stored[k][j].kind = "reply"
    <3>. DEFINE file == stored[s]
                e == [file[i] EXCEPT !.kind = "edited"]
                new == [file EXCEPT ![i] = e]
    <3>1. stored' = [stored EXCEPT ![s] = new]
      BY <2>2
    <3>2. file \in Seq(Messages) /\ i \in 1..Len(file) /\ file[i] \in Messages
      BY <1>2, <1>3, ElementOfSeq
    <3>3. e \in Messages /\ e.run = file[i].run /\ e.kind = "edited"
      BY <3>2 DEF Messages
    <3>. HIDE DEF e, file
    <3>4. /\ new \in Seq(Messages) /\ Len(new) = Len(file)
          /\ \A j \in 1..Len(file) : new[j] = IF j = i THEN e ELSE file[j]
      BY <3>2, <3>3, ExceptSeq
    <3>. HIDE DEF new
    <3>5. DOMAIN new = 1..Len(file) /\ DOMAIN file = 1..Len(file)
      BY <3>2, <3>4, LenProperties
    <3>6. \A j \in DOMAIN file : /\ new[j].run = file[j].run
                                 /\ new[j].kind = "reply" <=> file[j].kind = "reply"
      BY <2>2, <3>3, <3>4, <3>5 DEF file
    <3>7. stored' \in [Keys -> Seq(Messages)] /\ stored'[s] = new
          /\ \A k \in Keys : k # s => stored'[k] = stored[k]
      BY <1>2, <3>1, <3>4
    <3>8. QED
      BY <3>5, <3>6, <3>7 DEF file
  <2>3. QED
    BY <1>1, <2>1, <2>2
<1>. HIDE DEF s
<1>5. /\ SchedulerInv' /\ AgentTypes' /\ CallsMatch' /\ RecordsMatch'
      /\ LineInOrder(queue', running', before') /\ BegunBefore'
      /\ CallsAdvance /\ BeforeSound'
      /\ Queued' = Queued /\ running' = running
      /\ o \in running \ settled /\ settled' = settled \cup {o}
  BY <1>1, <1>4, SettledCall
<1>6. \A w \in Wipes : outcome'[w] = outcome[w]
  BY <1>1, <1>2
<1>7. WipesCancel'
  BY <1>1, <1>5, <1>6, WipesCancelKept
<1>8. FilesFollow'
  <2>1. ASSUME NEW r \in (running' \ settled') \cap Sends, memory'[r] # <<>>
        PROVE  stored'[KeyOf[r]] = memory'[r]
    <3>1. r \in running \ settled /\ r # o /\ r \in Runs
      BY <1>5
    <3>2. KeyOf[r] # s
      BY <1>5, <3>1, OneHolder DEF AgentInv, s
    <3>3. QED
      BY <1>1, <1>4, <2>1, <3>1, <3>2, SchedulerAssumption DEF AgentInv, FilesFollow
  <2>2. \A k \in Keys : \A i \in DOMAIN stored'[k] :
          KeyOf[stored'[k][i].run] = k /\ memory'[stored'[k][i].run] # <<>>
    BY <1>1, <1>4 DEF AgentInv, FilesFollow
  <2>3. QED
    BY <1>1, <2>1, <2>2 DEF AgentInv, FilesFollow
<1>9. HistoryInOrder'
  <2>1. ASSUME NEW k \in Keys, NEW i \in DOMAIN stored'[k], NEW j \in DOMAIN stored'[k], i < j
        PROVE  /\ \/ stored'[k][i].run = stored'[k][j].run
                  \/ stored'[k][i].run \in before'[stored'[k][j].run]
               /\ stored'[k][j].kind # "reply" => stored'[k][i].run # stored'[k][j].run
    <3>1. i \in DOMAIN stored[k] /\ j \in DOMAIN stored[k]
      BY <1>4, <2>1
    <3>2. /\ \/ stored[k][i].run = stored[k][j].run
             \/ stored[k][i].run \in before[stored[k][j].run]
          /\ stored[k][j].kind # "reply" => stored[k][i].run # stored[k][j].run
      BY <2>1, <3>1 DEF AgentInv, HistoryInOrder
    <3>3. QED
      BY <1>1, <1>4, <3>1, <3>2
  <2>2. QED
    BY <2>1 DEF HistoryInOrder
<1>10. WipedStaysWiped'
  <2>1. \A w \in Wipes : KeyOf[w] \in Keys
    BY SchedulerAssumption
  <2>2. QED
    BY <1>1, <1>4, <1>6, <2>1 DEF AgentInv, WipedStaysWiped, SessionOf
<1>11. QED
  BY <1>5, <1>7, <1>8, <1>9, <1>10 DEF AgentInv

-----------------------------------------------------------------------------
LEMMA AgentInitInv == AgentInit => AgentInv
<1>. SUFFICES ASSUME AgentInit PROVE AgentInv
  OBVIOUS
<1>1. /\ SchedulerInv
      /\ queue = <<>> /\ running = {} /\ settled = {} /\ Queued = {}
      /\ DOMAIN queue = {}
  <2>1. Init
    BY DEF AgentInit
  <2>2. QED
    BY <2>1, InitInv DEF Init, Queued, ToSet
<1>2. /\ lifecycle = [r \in Sends |-> "none"]
      /\ memory = [r \in Sends |-> <<>>]
      /\ outcome = [c \in Runs |-> "unmade"]
      /\ captured = [o \in Wipes |-> {}]
      /\ stored = [s \in Keys |-> <<>>]
      /\ before = [c \in Runs |-> {}]
      /\ Sends \subseteq Runs /\ Wipes \subseteq Runs
  BY AgentAssumption DEF AgentInit
<1>3. AgentTypes
  <2>1. <<>> \in Seq(Messages)
    OBVIOUS
  <2>2. QED
    BY <1>2, <2>1 DEF AgentTypes, Statuses, Outcomes
<1>4. CallsMatch /\ RecordsMatch /\ BeforeSound /\ WipesCancel /\ BegunBefore
  BY <1>1, <1>2 DEF CallsMatch, RecordsMatch, BeforeSound, WipesCancel, BegunBefore
<1>5. FilesFollow /\ HistoryInOrder /\ WipedStaysWiped
  BY <1>1, <1>2, SchedulerAssumption
     DEF FilesFollow, HistoryInOrder, WipedStaysWiped, SessionOf
<1>6. LineInOrder(queue, running, before)
  BY <1>1 DEF LineInOrder
<1>7. QED
  BY <1>1, <1>3, <1>4, <1>5, <1>6 DEF AgentInv

LEMMA AgentNextInv == AgentInv /\ [AgentNext]_allVars => AgentInv'
<1>. SUFFICES ASSUME AgentInv, [AgentNext]_allVars
              PROVE  AgentInv'
  OBVIOUS
<1>1. ASSUME NEW records \in SUBSET Cancellable, CancelOnly(records)
      PROVE  AgentInv'
  <2>1. records \in SUBSET Recorded
    BY DEF Cancellable, Recorded
  <2>2. QED
    BY <1>1, <2>1, CancelStep
<1>2. ASSUME NEW r \in Sends,
             \/ Send(r) \/ Begin(r) \/ Skip(r) \/ Persist(r) \/ Finish(r)
             \/ Complete(r) \/ Cancel(r)
      PROVE  AgentInv'
  <2>1. CASE Cancel(r)
    BY <1>1, <2>1 DEF Cancel
  <2>2. QED
    BY <1>2, <2>1, SendStep, BeginStep, SkipStep, PersistStep, FinishStep, CompleteStep
<1>3. ASSUME NEW w \in Windows, CancelWindow(w)
      PROVE  AgentInv'
  BY <1>1, <1>3 DEF CancelWindow
<1>4. CASE CancelAll
  BY <1>1, <1>4 DEF CancelAll
<1>5. ASSUME NEW o \in Wipes, Wipe(o) \/ ApplyWipe(o)
      PROVE  AgentInv'
  BY <1>5, WipeStep, ApplyWipeStep
<1>6. ASSUME NEW o \in Edits, Edit(o) \/ ApplyEdit(o)
      PROVE  AgentInv'
  BY <1>6, EditStep, ApplyEditStep
<1>7. ASSUME NEW c \in Runs, Free(c)
      PROVE  AgentInv'
  BY <1>7, FreeStep
<1>8. CASE UNCHANGED allVars
  <2>1. /\ UNCHANGED <<queue, activeKeys, active, higherPriorityDequeues, running, settled>>
        /\ UNCHANGED <<lifecycle, memory, outcome, captured, stored, before>>
        /\ SchedulerInv /\ settled \subseteq running
    BY <1>8, OneHolder DEF allVars, vars, agentVars, AgentInv
  <2>2. SchedulerInv' /\ Queued' = Queued
    BY <2>1, SameScheduler
  <2>3. CallsAdvance
    BY <2>1 DEF CallsAdvance
  <2>4. FilesFollow' /\ BegunBefore' /\ HistoryInOrder' /\ WipedStaysWiped'
    BY <2>1, <2>3, QuietStep
  <2>5. AgentTypes' /\ CallsMatch' /\ RecordsMatch' /\ BeforeSound' /\ WipesCancel'
    BY <2>1, <2>2
       DEF AgentInv, AgentTypes, CallsMatch, RecordsMatch, BeforeSound, WipesCancel
  <2>6. LineInOrder(queue', running', before')
    BY <2>1 DEF AgentInv
  <2>7. QED
    BY <2>2, <2>4, <2>5, <2>6 DEF AgentInv
<1>9. QED
  BY <1>2, <1>3, <1>4, <1>5, <1>6, <1>7, <1>8 DEF AgentNext

(* The strengthened invariant holds in every reachable state.              *)
THEOREM AgentInvariant == AgentSpec => []AgentInv
BY AgentInitInv, AgentNextInv, PTL DEF AgentSpec

(* The registry of send() and the scheduler never disagree about a call:   *)
(* a pending send can be found, and cancelled, and will be settled.        *)
THEOREM RegistryAgrees == AgentSpec => []RegistryMatchesScheduler
<1>1. AgentInv => RegistryMatchesScheduler
  <2>. SUFFICES ASSUME AgentInv PROVE RegistryMatchesScheduler
    OBVIOUS
  <2>1. AgentTypeOK
    BY SchedulerTypes DEF AgentInv, AgentTypes, AgentTypeOK
  <2>2. QED
    BY <2>1 DEF AgentInv, RegistryMatchesScheduler, CallsMatch, RecordsMatch, Recorded
<1>2. QED
  BY <1>1, AgentInvariant, PTL

(* clearMessages() and deleteSession() never wait, holding the slot of     *)
(* their session, for a run of it that has not ended.                      *)
THEOREM WipesNeverBlock == AgentSpec => []WipeNeverBlocks
<1>1. AgentInv => WipeNeverBlocks
  <2>. SUFFICES ASSUME AgentInv, NEW o \in Wipes \cap running, NEW r \in captured[o]
                PROVE  outcome[r] # "pending"
    BY DEF WipeNeverBlocks
  <2>1. r \in before[o]
    BY DEF AgentInv, WipesCancel
  <2>2. QED
    BY <2>1, NoneBeforeWipe
<1>2. QED
  BY <1>1, AgentInvariant, PTL

(* What a finished clear or delete has removed never comes back.           *)
THEOREM WipedNeverReturns == AgentSpec => []WipedStaysWiped
<1>1. AgentInv => WipedStaysWiped
  BY DEF AgentInv
<1>2. QED
  BY <1>1, AgentInvariant, PTL

(* A session on disk is one conversation, in the order of the sends.       *)
THEOREM HistoriesInOrder == AgentSpec => []HistoryInOrder
<1>1. AgentInv => HistoryInOrder
  BY DEF AgentInv
<1>2. QED
  BY <1>1, AgentInvariant, PTL

-----------------------------------------------------------------------------
(* A send cancelled before its task began leaves no message.               *)
THEOREM CancelledNeverBegins == AgentSpec => CancelledStaysOut
<1>. DEFINE StaysOut == \A r \in Sends :
              lifecycle[r] = "cancelling" /\ memory[r] = <<>> => memory'[r] = <<>>
<1>1. ASSUME AgentInv, AgentNext, NEW r \in Sends,
             lifecycle[r] = "cancelling", memory[r] = <<>>
      PROVE  memory'[r] = <<>>
  <2>1. memory \in [Sends -> Seq(Messages)]
    BY <1>1 DEF AgentInv, AgentTypes
  <2>2. ASSUME NEW t \in Sends, Begin(t)
        PROVE  memory'[r] = <<>>
    BY <1>1, <2>1, <2>2 DEF Begin
  <2>3. ASSUME NEW t \in Sends, Persist(t)
        PROVE  memory'[r] = <<>>
    BY <1>1, <2>1, <2>3 DEF Persist
  <2>4. CASE memory' = memory
    BY <1>1, <2>4
  <2>5. QED
    BY <1>1, <2>2, <2>3, <2>4
       DEF AgentNext, Send, Skip, Finish, Complete, Cancel, CancelWindow, CancelAll,
           CancelOnly, Wipe, ApplyWipe, Edit, ApplyEdit, Free, agentVars
<1>2. AgentInv /\ [AgentNext]_allVars => [StaysOut]_allVars
  BY <1>1
<1>3. QED
  BY <1>2, AgentInvariant, PTL DEF AgentSpec, CancelledStaysOut

(* No task writes over what another one, or an edit, has put on disk.      *)
THEOREM NothingIsOverwritten == AgentSpec => NothingOverwritten
<1>. DEFINE Grows(s) ==
              \/ IsPrefix(stored[s], stored'[s])
              \/ \E o \in (Wipes \cup Edits) \cap running :
                   SessionOf(o) = s /\ outcome'[o] # outcome[o]
<1>1. ASSUME AgentInv, AgentNext, NEW s \in Keys
      PROVE  Grows(s)
  <2>1. /\ stored \in [Keys -> Seq(Messages)] /\ memory \in [Sends -> Seq(Messages)]
        /\ outcome \in [Runs -> Outcomes]
    BY <1>1 DEF AgentInv, AgentTypes
  <2>2. IsPrefix(stored[s], stored[s])
        /\ \A m \in Messages : IsPrefix(stored[s], Append(stored[s], m))
    <3>1. stored[s] \in Seq(Messages)
      BY <2>1
    <3>2. IsPrefix(stored[s], stored[s])
      BY <3>1, PrefixOfItself
    <3>3. QED
      BY <3>1, <3>2, PrefixKept
  <2>3. ASSUME NEW r \in Sends, Begin(r)
        PROVE  Grows(s)
    <3>1. [run |-> r, kind |-> "user"] \in Messages
      BY DEF Messages
    <3>2. stored'[s] = stored[s]
          \/ stored'[s] = Append(stored[s], [run |-> r, kind |-> "user"])
      BY <2>1, <2>3 DEF Begin
    <3>3. QED
      BY <2>2, <3>1, <3>2
  <2>4. ASSUME NEW r \in Sends, Persist(r)
        PROVE  Grows(s)
    <3>1. [run |-> r, kind |-> "reply"] \in Messages
      BY DEF Messages
    <3>2. /\ r \in running \ settled /\ memory[r] # <<>>
          /\ stored' = [stored EXCEPT ![KeyOf[r]] = memory'[r]]
          /\ \/ memory' = [memory EXCEPT ![r] = Append(memory[r], [run |-> r, kind |-> "reply"])]
             \/ memory' = memory
      BY <2>4 DEF Persist, SessionOf
    <3>3. memory[r] = stored[KeyOf[r]]
      BY <1>1, <3>2 DEF AgentInv, FilesFollow
    <3>4. stored'[s] = stored[s]
          \/ stored'[s] = Append(stored[s], [run |-> r, kind |-> "reply"])
      BY <2>1, <3>2, <3>3
    <3>5. QED
      BY <2>2, <3>1, <3>4
  <2>5. ASSUME NEW o \in Wipes \cup Edits, Settle(o),
               outcome' = [outcome EXCEPT ![o] = "finished"],
               s = KeyOf[o] \/ stored'[s] = stored[s]
        PROVE  Grows(s)
    <3>1. o \in running \ settled /\ o \in Runs
      BY <2>5, AgentAssumption DEF Settle
    <3>2. outcome'[o] # outcome[o]
      BY <1>1, <2>1, <2>5, <3>1 DEF AgentInv, CallsMatch
    <3>3. QED
      BY <2>2, <2>5, <3>1, <3>2 DEF SessionOf
  <2>6. ASSUME NEW o \in Wipes, ApplyWipe(o)
        PROVE  Grows(s)
    <3>1. /\ Settle(o) /\ outcome' = [outcome EXCEPT ![o] = "finished"]
          /\ stored' = [stored EXCEPT ![KeyOf[o]] = <<>>]
      BY <2>6 DEF ApplyWipe, SessionOf
    <3>2. s = KeyOf[o] \/ stored'[s] = stored[s]
      BY <2>1, <3>1
    <3>3. QED
      BY <2>5, <3>1, <3>2
  <2>7. ASSUME NEW o \in Edits, ApplyEdit(o)
        PROVE  Grows(s)
    <3>1. /\ Settle(o) /\ outcome' = [outcome EXCEPT ![o] = "finished"]
          /\ \/ \E i \in DOMAIN stored[KeyOf[o]] :
                  stored' = [stored EXCEPT ![KeyOf[o]][i].kind = "edited"]
             \/ stored' = stored
      BY <2>7 DEF ApplyEdit, SessionOf
    <3>2. s = KeyOf[o] \/ stored'[s] = stored[s]
      BY <2>1, <3>1
    <3>3. QED
      BY <2>5, <3>1, <3>2
  <2>8. CASE stored' = stored
    BY <2>2, <2>8
  <2>9. QED
    BY <1>1, <2>3, <2>4, <2>6, <2>7, <2>8
       DEF AgentNext, Send, Skip, Finish, Complete, Cancel, CancelWindow, CancelAll,
           CancelOnly, Wipe, Edit, Free, agentVars
<1>2. AgentInv /\ [AgentNext]_allVars => [\A s \in Keys : Grows(s)]_allVars
  BY <1>1
<1>3. QED
  BY <1>2, AgentInvariant, PTL DEF AgentSpec, NothingOverwritten
=============================================================================
