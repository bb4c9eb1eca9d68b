SPECIFICATION FairSpec
CONSTANTS
    push = push
    write = write
    bash = bash
    edit = edit
    forcePush = forcePush
    anyWrite = anyWrite
    Nil = Nil
    Calls <- MCCalls
    Tools <- MCTools
    ToolOf <- MCToolOf
    Rules <- MCRules
    RulesOf <- MCRulesOf
    GateCap = 2
    RateLimit = 2
    DecisionLimit = 2
    Environment <- Racing
INVARIANTS
    TypeOK
    AwaitedByItsHook
    NeverAskedAgain
PROPERTIES
    GatePromise
    ApprovalTakesEffect
