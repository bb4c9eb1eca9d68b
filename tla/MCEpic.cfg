SPECIFICATION Spec
CONSTANTS
    A = A
    B = B
    C = C
    r1 = r1
    r2 = r2
    Children = {A, B, C}
    DependsOn <- Join
    Reconcilers = {r1, r2}
    TaskIds = {1, 2, 3}
    Surface = "linear"
    Environment = {"crash", "lost", "redeliver", "throttle", "outage", "refused"}
    MaxFaults = 1
    MaxReopens = 0
    Nil = Nil
SYMMETRY Symmetry
INVARIANTS
    OneTaskAtATime
    NothingStranded
PROPERTIES
    ContractKept
