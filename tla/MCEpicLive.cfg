SPECIFICATION FairSpec
CONSTANTS
    A = A
    B = B
    C = C
    r1 = r1
    r2 = r2
    Children = {A, B}
    DependsOn <- Chain
    Reconcilers = {r1}
    TaskIds = {1, 2, 3, 4}
    Surface = "linear"
    Environment = {"crash", "lost", "redeliver", "throttle", "outage", "refused",
                   "retry", "fix"}
    MaxFaults = 1
    MaxReopens = 1
    Nil = Nil
INVARIANTS
    OneTaskAtATime
PROPERTIES
    EpicSettles
