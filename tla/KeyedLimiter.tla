---------------------------- MODULE KeyedLimiter ----------------------------
(***************************************************************************)
(* KeyedLimiter (src/main/agent/limiter.ts): per key, a LimiterState with  *)
(* a counter of leases and a list of waiters, kept in a Map and deleted    *)
(* from it when its last lease is released.                                *)
(*                                                                         *)
(* A client is one call of acquire(key, signal) and the lease it obtains;  *)
(* ClientKey is the trimmed key it asks for.  Leases and onAbort listeners *)
(* refer to the LimiterState itself, the Map may hold a newer one for the  *)
(* same key: NoDetachedState says that never happens, and while it holds   *)
(* one LimiterState per key is enough to describe the code.                *)
(***************************************************************************)
EXTENDS Naturals, Sequences, FiniteSets, SequencesExt

CONSTANTS
    Keys,           \* trimmed keys: a provider id, "subagents", a mutex key
    Clients,        \* calls of acquire
    ClientKey,      \* the key each call is made with
    Concurrency     \* leases per key; agent.ts builds limiters with 3

ASSUME LimiterAssumption ==
    /\ ClientKey \in [Clients -> Keys]
    /\ Concurrency \in Nat \ {0}

VARIABLES
    states,         \* the keys the Map has
    active,         \* per key, the lease counter of its LimiterState
    waiters,        \* per key, the waiters of its LimiterState
    lease           \* per client, what has become of its call

limiterVars == <<states, active, waiters, lease>>

(* none: not made, or rejected; waiting: its promise is pending; held: it  *)
(* has a lease; released: the released flag of that lease is set.          *)
Leases == {"none", "waiting", "held", "released"}

-----------------------------------------------------------------------------
LimiterInit ==
    /\ states = {}
    /\ active = [k \in Keys |-> 0]
    /\ waiters = [k \in Keys |-> <<>>]
    /\ lease = [c \in Clients |-> "none"]

(* acquire() of a signal that is not aborted: take a place or join the     *)
(* waiters of the state in the Map, a new one if there is none.            *)
Acquire(c) ==
    LET k == ClientKey[c]
        n == IF k \in states THEN active[k] ELSE 0
        w == IF k \in states THEN waiters[k] ELSE <<>>
    IN  /\ lease[c] \in {"none", "released"}
        /\ states' = states \cup {k}
        /\ \/ /\ n < Concurrency
              /\ active' = [active EXCEPT ![k] = n + 1]
              /\ waiters' = [waiters EXCEPT ![k] = w]
              /\ lease' = [lease EXCEPT ![c] = "held"]
           \/ /\ n >= Concurrency
              /\ active' = [active EXCEPT ![k] = n]
              /\ waiters' = [waiters EXCEPT ![k] = Append(w, c)]
              /\ lease' = [lease EXCEPT ![c] = "waiting"]

(* onAbort: only a waiter still in the list is taken out and rejected.     *)
AbortWait(c) ==
    LET k == ClientKey[c]
    IN  /\ \E i \in DOMAIN waiters[k] :
             /\ waiters[k][i] = c
             /\ waiters' = [waiters EXCEPT ![k] = RemoveAt(@, i)]
        /\ states' = IF active[k] = 0 /\ waiters'[k] = <<>>
                     THEN states \ {k} ELSE states
        /\ lease' = [lease EXCEPT ![c] = "none"]
        /\ UNCHANGED active

(* Wrong variants of release(): the counter is taken down although the     *)
(* place is handed on; the last waiter is served first.                    *)
GiveBack(c) ==
    LET k == ClientKey[c]
    IN  /\ lease[c] = "held"
        /\ lease' = [lease EXCEPT ![c] = "released"]
        /\ active' = [active EXCEPT ![k] = @ - 1]
        /\ states' = IF active'[k] = 0 THEN states \ {k} ELSE states
        /\ UNCHANGED waiters

HandOn(c, w, rest, n) ==
    LET k == ClientKey[c]
    IN  /\ lease[c] = "held"
        /\ lease' = [lease EXCEPT ![c] = "released", ![w] = "held"]
        /\ waiters' = [waiters EXCEPT ![k] = rest]
        /\ active' = [active EXCEPT ![k] = n]
        /\ UNCHANGED states

ReleaseCountsDown(c) ==
    LET k == ClientKey[c]
    IN  \/ waiters[k] # <<>> /\ HandOn(c, Head(waiters[k]), Tail(waiters[k]), active[k] - 1)
        \/ waiters[k] = <<>> /\ GiveBack(c)

ReleaseToLast(c) ==
    LET k == ClientKey[c]
    IN  \/ waiters[k] # <<>> /\ HandOn(c, Last(waiters[k]), Front(waiters[k]), active[k])
        \/ waiters[k] = <<>> /\ GiveBack(c)

(* release() of a lease: nothing the second time; else hand the place to   *)
(* the first waiter, or give it back.                                      *)
Release(c) ==
    LET k == ClientKey[c]
    IN  \/ /\ lease[c] = "released"
           /\ UNCHANGED limiterVars
        \/ /\ lease[c] = "held"
           /\ waiters[k] # <<>>
           /\ lease' = [lease EXCEPT ![c] = "released", ![Head(waiters[k])] = "held"]
           /\ waiters' = [waiters EXCEPT ![k] = Tail(@)]
           /\ UNCHANGED <<states, active>>
        \/ /\ lease[c] = "held"
           /\ waiters[k] = <<>>
           /\ lease' = [lease EXCEPT ![c] = "released"]
           /\ active' = [active EXCEPT ![k] = @ - 1]
           /\ states' = IF active'[k] = 0 THEN states \ {k} ELSE states
           /\ UNCHANGED waiters

LimiterNext == \E c \in Clients : Acquire(c) \/ AbortWait(c) \/ Release(c)

LimiterSpec == LimiterInit /\ [][LimiterNext]_limiterVars

(* Callers release in a finally block; nobody has to acquire or abort.     *)
FairLimiterSpec ==
    LimiterSpec /\ \A c \in Clients : WF_limiterVars(Release(c))

-----------------------------------------------------------------------------
Held(k) == {c \in Clients : ClientKey[c] = k /\ lease[c] = "held"}

(* Every variable has a value of its kind.                                 *)
LimiterTypeOK ==
    /\ states \in SUBSET Keys
    /\ active \in [Keys -> Nat]
    /\ waiters \in [Keys -> Seq(Clients)]
    /\ lease \in [Clients -> Leases]

(* The counter of a key is the number of its leases out, although a lease  *)
(* is handed from client to client without the counter being touched and   *)
(* release() may be called twice; and it never exceeds the limit.          *)
LeasesCounted ==
    \A k \in Keys : active[k] = Cardinality(Held(k)) /\ active[k] <= Concurrency

(* A key whose Map entry was deleted has no lease out and nobody waiting:  *)
(* otherwise the next acquire() would start a second counter beside the    *)
(* one those refer to, and the limit would not hold.                       *)
NoDetachedState ==
    \A k \in Keys \ states : Held(k) = {} /\ waiters[k] = <<>>

(* The waiting list is exactly the pending calls for its key, each once,   *)
(* and somebody waits only while every place is taken: a place is never    *)
(* lost between a release, an abort and the waiters.                       *)
NoLostPlace ==
    \A k \in Keys :
        /\ ToSet(waiters[k]) = {c \in Clients : ClientKey[c] = k /\ lease[c] = "waiting"}
        /\ \A i, j \in DOMAIN waiters[k] : waiters[k][i] = waiters[k][j] => i = j
        /\ waiters[k] # <<>> => active[k] = Concurrency

(* Counters, Map and flags implement first-come-first-served semaphores.   *)
Semaphore == INSTANCE FifoSemaphore
    WITH Capacity <- Concurrency,
         holders <- [k \in Keys |-> Held(k)],
         line <- waiters

ImplementsFifoSemaphore == Semaphore!SemaphoreSpec

(* Whoever waits gets a lease or is aborted, if those who hold one release *)
(* it.                                                                     *)
EveryWaiterServed ==
    \A c \in Clients : lease[c] = "waiting" ~> lease[c] # "waiting"
=============================================================================
