--------------------------- MODULE MCA2aExecutor ----------------------------
(* A2aExecutor on one task that gets two more messages while it is open.   *)
EXTENDS A2aExecutor

MCTasks == {"t"}
MCExecutions == {"t1", "t2", "t3"}
MCTaskOf == [x \in MCExecutions |-> "t"]
=============================================================================
