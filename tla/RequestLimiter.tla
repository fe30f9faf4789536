--------------------------- MODULE RequestLimiter ---------------------------
(***************************************************************************)
(* RequestLimiter (oauth/limit.ts): per key, the times of the requests     *)
(* admitted in the last Window, at most Limit of them.  The table has room *)
(* for MaxKeys keys; when it is full, the keys whose newest time has left  *)
(* the window are dropped, and a key that is not in it is refused.         *)
(*                                                                         *)
(* A table is a function from all keys to sequences of times, the empty    *)
(* one for a key the Map does not have: consume() stores no empty list.    *)
(* These are operators on a table; the module that has one keeps it in a   *)
(* variable of its own.                                                    *)
(***************************************************************************)
EXTENDS Integers, Sequences, FiniteSets, Filters

CONSTANTS
    Limit,    \* requests of one key in a window; 5 to 600 in the code
    Window,   \* length of the window; a minute in the code
    MaxKeys   \* keys the table may hold; 10,000 in the code

ASSUME LimiterAssumption ==
    /\ Limit \in Nat \ {0}
    /\ Window \in Nat \ {0}
    /\ MaxKeys \in Nat \ {0}

KeysOf(table) == { k \in DOMAIN table : table[k] # <<>> }

InWindow(times, now) == Kept(times, {t \in Nat : t > now - Window})

(* Wrong variant: the newest times of every key are dropped to make room.  *)
SweptOfAll(table, now) ==
    IF Cardinality(KeysOf(table)) < MaxKeys THEN table
    ELSE [k \in DOMAIN table |-> <<>>]

(* Only a full table is swept.                                             *)
Swept(table, now) ==
    IF Cardinality(KeysOf(table)) < MaxKeys THEN table
    ELSE [k \in DOMAIN table |->
             IF table[k] # <<>> /\ table[k][Len(table[k])] <= now - Window
             THEN <<>> ELSE table[k]]

(* consume(): whether the request of this key is admitted.                 *)
Admits(table, key, now) ==
    LET swept == Swept(table, now) IN
    /\ swept[key] # <<>> \/ Cardinality(KeysOf(swept)) < MaxKeys
    /\ Len(InWindow(swept[key], now)) < Limit

(* consume(): the table it leaves.                                         *)
Consume(table, key, now) ==
    LET swept == Swept(table, now)
        recent == InWindow(swept[key], now)
    IN  IF swept[key] = <<>> /\ Cardinality(KeysOf(swept)) >= MaxKeys THEN swept
        ELSE IF Len(recent) >= Limit THEN [swept EXCEPT ![key] = recent]
        ELSE [swept EXCEPT ![key] = Append(recent, now)]
=============================================================================
