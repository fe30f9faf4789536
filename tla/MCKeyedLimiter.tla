--------------------------- MODULE MCKeyedLimiter ---------------------------
(* KeyedLimiter with two places per key: four calls for one key, so that   *)
(* two wait, and one for another.                                          *)
EXTENDS KeyedLimiter

CONSTANTS k1, k2, c1, c2, c3, c4, c5

MCKeys == {k1, k2}
MCClients == {c1, c2, c3, c4, c5}
MCClientKey == [c \in MCClients |-> IF c = c5 THEN k2 ELSE k1]
=============================================================================
