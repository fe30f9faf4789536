---------------------------- MODULE MCTaskStore -----------------------------
(* Three tasks of two clients, with a directory that may hold a record of  *)
(* the version without owners, or a damaged file.                          *)
EXTENDS TaskStore

CONSTANTS alice, bob
MCTasks == 1..3
MCOwners == {alice, bob}
MCSymmetry == Permutations(MCOwners)
Old == [owner |-> Legacy, state |-> "working", time |-> 0]
MCDisks == {[t \in MCTasks |-> IF t = 1 THEN f ELSE NoFile] : f \in {NoFile, Damaged, Old}}
MCFilters == {[state |-> "any", after |-> 0]}
=============================================================================
