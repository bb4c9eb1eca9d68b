SPECIFICATION Spec
CONSTANTS
    Tasks <- TwoTasks
    Executions = {e1, e2}
    Sessions = {s1}
    MaxConcurrent = 1
    Environment <- Benign
    Replays <- AllButFinalize
    ComputeType = "lambda-microvm"
    Nil = Nil
SYMMETRY Symmetry
INVARIANTS
    CapHonoured
    CounterCoversSlots
PROPERTIES
    CappedContract
