SPECIFICATION Spec
CONSTANTS
    p1 = p1
    p2 = p2
    a1 = a1
    w1 = w1
    w2 = w2
    A = A
    B = B
    C = C
    D = D
    e1 = e1
    e2 = e2
    Sources = {"linear-label", "linear-comment", "jira-label", "jira-comment"}
    Deliveries = 2
    AsyncAttempts = 2
    IntakeEnvironment = {"storeError", "invokeError", "apiError", "crash", "late", "skew"}
    Processors = {p1, p2}
    Agents = {a1}
    Crew <- Crews
    MaxGenerations = 2
    MaxInstallations = 2
    GrantEnvironment = {"revoke", "lostResponse", "storeError", "vaultError",
                        "topicError", "remove"}
    Kinds = {"standalone", "orchestrated", "jira"}
    Writers = {w1, w2}
    MaxReplyAttempts = 2
    RetryAttempts = 2
    RepliesEnvironment = {"storeError", "apiError", "rejected", "lostResponse", "crash"}
    Nodes = {A, B, C, D}
    DependsOn <- Diamond
    Late = {D}
    Edits = {e1}
    StackEnvironment = {"failed", "unmerged", "rejected", "storeError"}
    PairNodes = {A, B}
    PairDependsOn <- Chain
    PairLate = {B}
    PairEdits = {e1, e2}
    PairEnvironment = {"failed", "rejected", "crash"}
    RestackAttempts = 1
CHECK_DEADLOCK FALSE
INVARIANTS
    OneOutcome
    LatchesExplained
    EventBecomesOneTask
    StackIsCurrent
PROPERTIES
    RequestsSettle
    RemovalIsFinal
    FalseLatchHeals
    ReportsAreTrue
