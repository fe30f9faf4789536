-------------------------- MODULE MCAgentRunsLive ---------------------------
(* AgentRuns on one session, with an edit in the place of the third send.  *)
EXTENDS AgentRuns

MCSends == {"m1", "m2"}
MCWipes == {"w"}
MCEdits == {"e"}
MCRuns == MCSends \cup MCWipes \cup MCEdits
MCKeys == {"m"}
MCKeyOf == [c \in MCRuns |-> "m"]
MCPriorityOf == [c \in MCRuns |-> IF c = "m2" THEN "low" ELSE "high"]
MCWindows == {1, 2}
MCWindowOf == [r \in MCSends |-> IF r = "m1" THEN 1 ELSE 2]
=============================================================================
