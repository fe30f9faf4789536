---------------------------- MODULE MCAgentRuns -----------------------------
(* AgentRuns on one session: three sends, so that one can run, one wait    *)
(* and one be made after the wipe.                                         *)
EXTENDS AgentRuns

MCSends == {"m1", "m2", "m3"}
MCWipes == {"w"}
MCRuns == MCSends \cup MCWipes
MCKeys == {"m"}
MCKeyOf == [c \in MCRuns |-> "m"]
MCPriorityOf == [c \in MCRuns |-> IF c = "m2" THEN "low" ELSE "high"]
MCWindows == {1, 2}
MCWindowOf == [r \in MCSends |-> IF r = "m1" THEN 1 ELSE 2]
=============================================================================
