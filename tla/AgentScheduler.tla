--------------------------- MODULE AgentScheduler ---------------------------
(***************************************************************************)
(* AgentRunScheduler (src/main/agent/agent_scheduler.ts): a queue of runs, *)
(* each with a key (its session) and a priority, from which pump() fills   *)
(* at most Concurrency slots, never two for one key.                       *)
(*                                                                         *)
(* A run of this module is one call of run(key, task, options); KeyOf and  *)
(* PriorityOf are its arguments.  A call that has ended may be made again, *)
(* so behaviours are unbounded although Runs is finite in a model.         *)
(*                                                                         *)
(* run() numbers entries with this.sequence++ and pushes them at the end,  *)
(* and splice keeps the order of the others: the order of the array is the *)
(* order of the sequence numbers, and "sort by sequence" is the order of   *)
(* the positions.                                                          *)
(***************************************************************************)
EXTENDS Naturals, Sequences, FiniteSets, SequencesExt

CONSTANTS
    Runs,           \* the calls of run()
    Keys,           \* the session ids used as keys
    KeyOf,          \* the key of each call
    PriorityOf,     \* the priority of each call
    Concurrency,    \* slots; agent.ts builds the scheduler with 3
    MaxBypass       \* higher-priority dequeues in a row; 3 in next()

Priorities == {"high", "normal", "low"}

ASSUME SchedulerAssumption ==
    /\ KeyOf \in [Runs -> Keys]
    /\ PriorityOf \in [Runs -> Priorities]
    /\ Concurrency \in Nat \ {0}
    /\ MaxBypass \in Nat \ {0}

VARIABLES
    queue,          \* entries not dequeued yet, in the order of the array
    activeKeys,     \* the Set of keys that have a slot
    active,         \* the number of slots taken
    higherPriorityDequeues,
    running,        \* dequeued runs whose promise chain has not reached finally
    settled         \* those of them whose task has settled, resolve/reject called

vars == <<queue, activeKeys, active, higherPriorityDequeues, running, settled>>

-----------------------------------------------------------------------------
PRIORITY_ORDER == [high |-> 0, normal |-> 1, low |-> 2]

Order(r) == PRIORITY_ORDER[PriorityOf[r]]

(* Wrong variants of this module's definitions (each says what it gets     *)
(* wrong) stand before them, to see that the properties notice.            *)
(* The filter of next() without its test of activeKeys.                    *)
EligibleThoughBusy(q, busy) ==
    {i \in DOMAIN q : \A j \in 1..(i - 1) : KeyOf[q[j]] # KeyOf[q[i]]}

(* The filter of next() without its test of earlier entries.               *)
EligibleInAnyOrder(q, busy) == {i \in DOMAIN q : KeyOf[q[i]] \notin busy}

(* The filter of next(): the key is free and no earlier entry has it.      *)
Eligible(q, busy) ==
    {i \in DOMAIN q : /\ KeyOf[q[i]] \notin busy
                      /\ \A j \in 1..(i - 1) : KeyOf[q[j]] # KeyOf[q[i]]}

(* Eligible entries of the best priority present, and the others.          *)
Preferred(q, busy) ==
    {i \in Eligible(q, busy) :
        \A j \in Eligible(q, busy) : Order(q[i]) <= Order(q[j])}

Lower(q, busy) == Eligible(q, busy) \ Preferred(q, busy)

(* One dequeue late: > for >=.                                             *)
LowerTurnLate(q, busy) ==
    /\ Lower(q, busy) # {}
    /\ higherPriorityDequeues > MaxBypass

(* It is the turn of a lower priority.                                     *)
LowerTurn(q, busy) ==
    /\ Lower(q, busy) # {}
    /\ higherPriorityDequeues >= MaxBypass

(* Strict priorities: the turn of the lower ones is counted, not taken.    *)
PreferredOnly(q, busy) == Preferred(q, busy)

Candidates(q, busy) ==
    IF LowerTurn(q, busy) THEN Lower(q, busy) ELSE Preferred(q, busy)

(* i is the entry next() returns.                                          *)
IsNext(q, busy, i) ==
    /\ i \in Candidates(q, busy)
    /\ \A j \in Candidates(q, busy) : i <= j

(* One pass of the loop of pump(): entry i takes a slot.                   *)
Dequeue(q, busy, n, held, i) ==
    /\ queue' = RemoveAt(q, i)
    /\ activeKeys' = busy \cup {KeyOf[q[i]]}
    /\ active' = n + 1
    /\ running' = held \cup {q[i]}
    /\ higherPriorityDequeues' =
         IF LowerTurn(q, busy) \/ Lower(q, busy) = {}
         THEN 0 ELSE higherPriorityDequeues + 1

(* pump(), called by every operation after its own update; q, busy, n and  *)
(* held are the values it finds.  The loop makes one pass at most, because *)
(* WorkConserving holds: after one pass its exit condition does.           *)
Pump(q, busy, n, held) ==
    \/ /\ n < Concurrency
       /\ \E i \in Eligible(q, busy) :
            IsNext(q, busy, i) /\ Dequeue(q, busy, n, held, i)
    \/ /\ n >= Concurrency \/ Eligible(q, busy) = {}
       /\ queue' = q
       /\ activeKeys' = busy
       /\ active' = n
       /\ running' = held
       /\ UNCHANGED higherPriorityDequeues

-----------------------------------------------------------------------------
Init ==
    /\ queue = <<>>
    /\ activeKeys = {}
    /\ active = 0
    /\ higherPriorityDequeues = 0
    /\ running = {}
    /\ settled = {}

Queued == ToSet(queue)

(* run() that leaves the pumping to whoever is running.                    *)
SubmitOnly(r) ==
    /\ r \notin Queued \cup running
    /\ queue' = Append(queue, r)
    /\ UNCHANGED <<activeKeys, active, higherPriorityDequeues, running, settled>>

(* run() with a signal that is not aborted (an aborted one is rejected and *)
(* changes nothing).                                                       *)
Submit(r) ==
    /\ r \notin Queued \cup running
    /\ Pump(Append(queue, r), activeKeys, active, running)
    /\ UNCHANGED settled

(* onAbort of a queued entry: splice, reject, pump.                        *)
Abort(r) ==
    /\ \E i \in DOMAIN queue :
         /\ queue[i] = r
         /\ Pump(RemoveAt(queue, i), activeKeys, active, running)
    /\ UNCHANGED settled

(* The task settles: entry.resolve or entry.reject runs and the caller may *)
(* go on, while the slot is freed one microtask later.                     *)
Settle(r) ==
    /\ r \in running \ settled
    /\ settled' = settled \cup {r}
    /\ UNCHANGED <<queue, activeKeys, active, higherPriorityDequeues, running>>

(* Wrong variant: a finally callback that does not pump.                   *)
ReleaseOnly(r) ==
    /\ r \in settled
    /\ settled' = settled \ {r}
    /\ activeKeys' = activeKeys \ {KeyOf[r]}
    /\ active' = active - 1
    /\ running' = running \ {r}
    /\ UNCHANGED <<queue, higherPriorityDequeues>>

(* The finally callback: free the slot and the key, pump.                  *)
Release(r) ==
    /\ r \in settled
    /\ settled' = settled \ {r}
    /\ Pump(queue, activeKeys \ {KeyOf[r]}, active - 1, running \ {r})

Next ==
    \E r \in Runs : Submit(r) \/ Abort(r) \/ Settle(r) \/ Release(r)

(* Callers may stop; a task settles (a run has a timeout) and the          *)
(* microtask of its finally runs.                                          *)
Fairness ==
    \A r \in Runs : WF_vars(Settle(r) \/ Release(r))

Spec == Init /\ [][Next]_vars

FairSpec == Spec /\ Fairness

-----------------------------------------------------------------------------
(* Every variable has a value of its kind; settled runs hold a slot.       *)
TypeOK ==
    /\ queue \in Seq(Runs)
    /\ activeKeys \in SUBSET Keys
    /\ active \in Nat
    /\ higherPriorityDequeues \in Nat
    /\ running \in SUBSET Runs
    /\ settled \in SUBSET running

(* The three records of who has a slot agree, through every interleaving   *)
(* of submissions, aborts and finally callbacks: the counter counts the    *)
(* runs that hold a slot, the Set holds exactly their keys, no two of them *)
(* share a key (delete() by one would free the key of the other), and they *)
(* never exceed the slots there are.                                       *)
SlotsAccounted ==
    /\ active = Cardinality(running)
    /\ active <= Concurrency
    /\ activeKeys = {KeyOf[r] : r \in running}
    /\ \A r, s \in running : KeyOf[r] = KeyOf[s] => r = s

(* pump() leaves no run that could start waiting beside a free slot; this  *)
(* is also the exit condition of its loop after a single pass.             *)
WorkConserving ==
    active >= Concurrency \/ Eligible(queue, activeKeys) = {}

(* A run never overtakes an earlier run of its own session, whatever their *)
(* priorities and whatever is aborted or released meanwhile.               *)
NoOvertaking ==
    [][\A i, j \in DOMAIN queue :
         i < j /\ KeyOf[queue[i]] = KeyOf[queue[j]] => queue[j] \notin running']_vars

(* Cancelling a queued run never starts another one: the pump() of onAbort *)
(* finds no slot or no entry, so a loop that cancels several runs cannot   *)
(* start, half way, a run it has still to cancel.                          *)
AbortStartsNothing ==
    [][\A r \in Runs : Abort(r) => running' = running]_vars

(* A run that no run of normal priority shares its session with and that   *)
(* is not of normal priority itself leaves the queue, whatever keeps being *)
(* submitted.  (A run of normal priority may wait for ever: when each      *)
(* fourth dequeue finds no high run, it takes the oldest low one instead.) *)
NoStarvation ==
    \A r \in {s \in Runs : \A t \in Runs :
                 KeyOf[t] = KeyOf[s] => PriorityOf[t] # "normal"} :
        r \in Queued ~> r \notin Queued
=============================================================================
