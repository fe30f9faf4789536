----------------------- MODULE MCAgentSchedulerBypass -----------------------
(* AgentSchedulerBypass on five calls: two of high priority that can keep  *)
(* coming back, one normal, two low, one of them in the session of a high. *)
EXTENDS AgentSchedulerBypass

MCRuns == {"h1", "h2", "n", "l1", "l2"}
MCKeys == {"k1", "k2", "k3", "k4"}

MCKeyOf ==
    [r \in MCRuns |-> CASE r = "h1" -> "k1"
                        [] r \in {"h2", "l1"} -> "k2"
                        [] r = "n" -> "k3"
                        [] r = "l2" -> "k4"]

MCPriorityOf ==
    [r \in MCRuns |-> CASE r \in {"h1", "h2"} -> "high"
                        [] r = "n" -> "normal"
                        [] r \in {"l1", "l2"} -> "low"]
=============================================================================
