----------------------- MODULE MCConfigurationServer -----------------------
(* ConfigurationServer with two visitors, three sessions of which two are  *)
(* kept, and two clients of which the first has two assertions, one more   *)
(* than the store keeps.                                                   *)
EXTENDS ConfigurationServer, TLC

MCAssertions ==
    {[client |-> "c1", jti |-> "j1", iat |-> 0, exp |-> 1],
     [client |-> "c1", jti |-> "j2", iat |-> 1, exp |-> 2],
     [client |-> "c2", jti |-> "j1", iat |-> 0, exp |-> 1]}

MCProviders == {[name |-> "openai", model |-> "m1"]}

MCBounds == [ticks |-> 3, requests |-> 4, failures |-> 1, restarts |-> 1]

MCSymmetry == Permutations(Administrators) \cup Permutations(Sessions)
=============================================================================
