SPECIFICATION FairSpec
CONSTANTS
    Tasks <- TwoTasks
    Executions = {e1, e2}
    Sessions = {s1}
    MaxConcurrent = 1
    Environment <- Orderly
    Replays = {}
    ComputeType = "agentcore"
    Nil = Nil
PROPERTIES
    EveryTaskEnds
