SPECIFICATION FairSpec
CONSTANTS
    Tasks <- OneTask
    Executions = {e1}
    Sessions = {s1}
    MaxConcurrent = 1
    Environment = {"agentDies", "sweep"}
    Replays = {}
    ComputeType = "agentcore"
    Nil = Nil
CHECK_DEADLOCK FALSE
PROPERTIES
    EveryTaskEnds
