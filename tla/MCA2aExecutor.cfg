CONSTANTS
    Tasks <- MCTasks
    Executions <- MCExecutions
    TaskOf <- MCTaskOf
    MaxDeltas = 2
    None = None
SPECIFICATION FairExecutorSpec
INVARIANTS TerminalIsLast TextInOrder EndsAsReported
PROPERTIES EveryTaskEnds
CHECK_DEADLOCK FALSE
