CONSTANTS
    Providers = {"openai", "anthropic", "chat"}
    NoResult = NoResult
    MaxItem = 2
    MinSystem = 2
    CutStep = 1
    MarkerLength = 1
    MarkerSize = 2
    AnswersOf <- MCAnswersOf
    UserSizes = {1, 4}
    ResultSizes = {1, 9}
    System = 5
    Tools = 1
    WorkspaceContext <- MCWorkspaceContext
    ContextTokens = 18
    SafetyTokens = 2
    MaxOutputTokens = 8
    MinInputTokens = 3
    OutputTokens = 4
    MaxToolOutput = 4
    MaxMessages = 5
SPECIFICATION Spec
INVARIANTS AnswerReachesAll RequestAnswered FitsAndKeepsLatest
CHECK_DEADLOCK FALSE
