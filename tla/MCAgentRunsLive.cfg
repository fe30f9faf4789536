CONSTANTS
    Runs <- MCRuns
    Keys <- MCKeys
    KeyOf <- MCKeyOf
    PriorityOf <- MCPriorityOf
    Concurrency = 2
    MaxBypass = 3
    Sends <- MCSends
    Wipes <- MCWipes
    Edits <- MCEdits
    Windows <- MCWindows
    WindowOf <- MCWindowOf
    MaxReplies = 1
SPECIFICATION FairAgentSpec
PROPERTIES NothingOverwritten EveryCallEnds
CHECK_DEADLOCK FALSE
