CONSTANTS
    Parent = "p"
    Children = {"c1", "c2"}
    Others = {"o"}
    Answers <- MCAnswers
    MaxTurns <- MCMaxTurns
    Errors <- MCErrors
    MaxRetries = 1
    MaxToolCalls = 3
    MaxKind <- MCMaxKind
    MaxLarge = 1
    LimiterConcurrency = 1
SPECIFICATION FairSpec
INVARIANTS EndsAsItWent HistorySound BudgetsKept
PROPERTIES EveryRunEnds
CHECK_DEADLOCK FALSE
