SPECIFICATION FairSpec
CONSTANTS
    Tasks <- OneTask
    Executions = {e1}
    Sessions = {s1}
    MaxConcurrent = 1
    Environment <- Leaky
    Replays <- WritingSteps
    ComputeType = "lambda-microvm"
    Nil = Nil
CHECK_DEADLOCK FALSE
PROPERTIES
    CounterRepaired
