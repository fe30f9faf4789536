CONSTANTS
    Tasks <- MCTasks
    Executions <- MCExecutions
    TaskOf <- MCTaskOf
    MaxDeltas = 2
    None = None
SPECIFICATION ExecutorSpec
INVARIANTS CompletedWasReported
CHECK_DEADLOCK FALSE
