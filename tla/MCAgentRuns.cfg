CONSTANTS
    Runs <- MCRuns
    Keys <- MCKeys
    KeyOf <- MCKeyOf
    PriorityOf <- MCPriorityOf
    Concurrency = 2
    MaxBypass = 3
    Sends <- MCSends
    Wipes <- MCWipes
    Edits = {}
    Windows <- MCWindows
    WindowOf <- MCWindowOf
    MaxReplies = 1
SPECIFICATION AgentSpec
INVARIANTS RegistryMatchesScheduler WipeNeverBlocks WipedStaysWiped HistoryInOrder
PROPERTIES CancelledStaysOut
CHECK_DEADLOCK FALSE
