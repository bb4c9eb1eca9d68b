SPECIFICATION Spec
CONSTANTS
    push = push
    write = write
    bash = bash
    edit = edit
    forcePush = forcePush
    anyWrite = anyWrite
    Nil = Nil
    Calls <- MCCalls
    Tools <- MCTools
    ToolOf <- MCToolOf
    Rules <- MCRules
    RulesOf <- MCRulesOf
    GateCap = 2
    RateLimit = 2
    DecisionLimit = 1
    Environment <- LateWrite
INVARIANTS
    ApprovalHonoured
