------------------------ MODULE AgentSchedulerBypass ------------------------
(***************************************************************************)
(* AgentScheduler with a history variable: how often, since an entry could *)
(* start and no entry older than it was taken, a younger one was preferred *)
(* to it.  It measures the promise behind higherPriorityDequeues: priority *)
(* may delay a run but only a bounded number of times.                     *)
(***************************************************************************)
EXTENDS AgentScheduler

VARIABLE
    passed          \* per run, younger entries dequeued past it

hvars == <<vars, passed>>

(* r waits, its key is free and no earlier entry has its key.              *)
Ready(r) == \E i \in Eligible(queue, activeKeys) : queue[i] = r

(* s is ahead of r in the array, or was there before r was pushed.         *)
Ahead(s, r) ==
    \/ r \notin Queued
    \/ \E i, j \in DOMAIN queue : i < j /\ queue[i] = s /\ queue[j] = r

(* A run of normal priority can be passed over for ever (see NoStarvation  *)
(* in AgentScheduler): the count stops here, above both bounds.            *)
PassedCap == MaxBypass + 2

(* At most one run starts in a step (WorkConserving); no run ready before  *)
(* and after a step with a start was itself taken.                         *)
Count(r) ==
    LET started == running' \ running
    IN  IF ~Ready(r)' THEN 0
        ELSE IF started = {} THEN passed[r]
        ELSE IF \E s \in started : Ahead(s, r) THEN 0
        ELSE IF passed[r] < PassedCap THEN passed[r] + 1
        ELSE PassedCap

HInit == Init /\ passed = [r \in Runs |-> 0]

HNext == Next /\ passed' = [r \in Runs |-> Count(r)]

HSpec == HInit /\ [][HNext]_hvars

HFairSpec == HSpec /\ Fairness

(* A ready run of low priority is passed over by at most MaxBypass younger *)
(* ones before it, or an older run, is taken; one of high priority by at   *)
(* most one, the turn next() gives to the lower priorities.                *)
BypassBounded ==
    \A r \in Runs :
        /\ PriorityOf[r] = "low" => passed[r] <= MaxBypass
        /\ PriorityOf[r] = "high" => passed[r] <= 1
=============================================================================
