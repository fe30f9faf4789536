---------------------------- MODULE FifoSemaphore ---------------------------
(***************************************************************************)
(* What a keyed limiter promises, without its counters, maps and promises: *)
(* per key, at most Capacity holders; whoever does not fit stands in line  *)
(* and is let in first come, first served, at once when a holder leaves.   *)
(***************************************************************************)
EXTENDS Naturals, Sequences, FiniteSets, SequencesExt

CONSTANTS
    Keys,           \* independent semaphores
    Clients,        \* those who ask for them
    Capacity        \* places per key

VARIABLES
    holders,        \* per key, the clients that are in
    line            \* per key, the clients that wait

svars == <<holders, line>>

SemaphoreInit ==
    /\ holders = [k \in Keys |-> {}]
    /\ line = [k \in Keys |-> <<>>]

Enter(k, c) ==
    /\ Cardinality(holders[k]) < Capacity
    /\ line[k] = <<>>
    /\ holders' = [holders EXCEPT ![k] = @ \cup {c}]
    /\ UNCHANGED line

Wait(k, c) ==
    /\ Cardinality(holders[k]) = Capacity
    /\ line' = [line EXCEPT ![k] = Append(@, c)]
    /\ UNCHANGED holders

GiveUp(k, c) ==
    /\ \E i \in DOMAIN line[k] :
         /\ line[k][i] = c
         /\ line' = [line EXCEPT ![k] = RemoveAt(@, i)]
    /\ UNCHANGED holders

Leave(k, c) ==
    /\ c \in holders[k]
    /\ IF line[k] = <<>>
       THEN /\ holders' = [holders EXCEPT ![k] = @ \ {c}]
            /\ UNCHANGED line
       ELSE /\ holders' = [holders EXCEPT ![k] = (@ \ {c}) \cup {Head(line[k])}]
            /\ line' = [line EXCEPT ![k] = Tail(@)]

SemaphoreNext ==
    \E k \in Keys, c \in Clients :
        Enter(k, c) \/ Wait(k, c) \/ GiveUp(k, c) \/ Leave(k, c)

SemaphoreSpec == SemaphoreInit /\ [][SemaphoreNext]_svars
=============================================================================
