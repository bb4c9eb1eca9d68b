SPECIFICATION Spec
CONSTANTS
    ra = ra
    rb = rb
    rd = rd
    key = key
    NoTask = NoTask
    c1 = c1
    c2 = c2
    t1 = t1
    t2 = t2
    t3 = t3
    user = user
    teamA = teamA
    teamB = teamB
    n1 = n1
    n2 = n2
    spin = spin
    Requests = {ra, rb, rd}
    Keys = {key}
    KeyOf <- KeyOfRequest
    UserOf <- UserOfRequest
    Inline <- InlineOfRequest
    Presigned = {rb}
    CreationEnvironment = {"storeError", "s3Error", "ttl"}
    Attachments = {1, 2}
    Calls = {c1, c2}
    Contents <- ContentsOfTwo
    MaxUploads = 3
    BatchSize = 1
    SizeLimit = 2
    MaxConcurrent = 2
    UploadsEnvironment = {"deadline", "storeError", "screenError", "s3Error", "cancel"}
    Tasks = {t1, t2, t3}
    Cost <- CostOfTask
    TeamOf <- TeamOfTask
    User = user
    LimitOf <- LimitOfScope
    Rewrites = 1
    BudgetEnvironment = {"storeError", "crash"}
    Nudges = {n1, n2}
    RateLimit = 1
    Minutes = 2
    Spins = {spin}
    MaxDenials = 1
    SteerEnvironment = {"storeError"}
    Events <- EventsOfTask
    Origins = {"slack", "linear", "jira"}
    Cap = 2
    FanOutsEnvironment = {"storeError", "apiError", "rejected", "lostResponse", "crash"}
    Runs <- KindsOfRun
    MaxCommits = 1
    MaxFaults = 1
    SessionEnvironment = {"cancel", "gaveUp", "raises", "lost", "readError", "gitError",
                          "pushError", "apiError", "s3Error", "linearError"}
    RetryAttempts = 1
CHECK_DEADLOCK FALSE
INVARIANTS
    ScreenedSubmittedOnce
    OneTaskOrNothing
    PostedOnce
    PassedWasPosted
    CountedOnce
    NudgesHonoured
    ReportedAsDelivered
    RunAccountedFor
PROPERTIES
    NothingWaits
    AlarmsHonoured
    AgentStops
