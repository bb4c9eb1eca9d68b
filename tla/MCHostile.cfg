SPECIFICATION Spec
CONSTANTS
    Tasks <- TwoTasks
    Executions = {e1, e2}
    Sessions = {s1}
    MaxConcurrent = 1
    Environment <- Hostile
    Replays = {}
    ComputeType = "ecs"
    Nil = Nil
SYMMETRY Symmetry
INVARIANTS
    TypeOK
    OneDriver
PROPERTIES
    Contract
