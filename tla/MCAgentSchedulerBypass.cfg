CONSTANTS
    Runs <- MCRuns
    Keys <- MCKeys
    KeyOf <- MCKeyOf
    PriorityOf <- MCPriorityOf
    Concurrency = 2
    MaxBypass = 3
SPECIFICATION HFairSpec
INVARIANTS SlotsAccounted WorkConserving BypassBounded
PROPERTIES NoOvertaking AbortStartsNothing NoStarvation
