---------------------------- MODULE ApprovalGate ----------------------------
(***************************************************************************)
(* The human-in-the-loop gate of one task.  The agent's PreToolUse hook    *)
(* asks the policy engine about every tool call; a call that needs an      *)
(* approval writes a request and moves the task to AWAITING_APPROVAL in    *)
(* one transaction, polls the request until the user's answer or the       *)
(* deadline, and moves the task back.  Meanwhile the user approves, denies *)
(* or cancels, and the platform may end the task.                          *)
(*                                                                         *)
(* Hook, approval handlers, cancellation and repair jobs meet in two rows, *)
(* the TaskTable row of the task and the TaskApprovalsTable row of the     *)
(* request; each action is one store call with the local work up to the    *)
(* next.  A call that the engine permits or forbids outright changes       *)
(* nothing and is not an action.                                           *)
(***************************************************************************)
EXTENDS Integers, FiniteSets, TaskStatus

CONSTANTS
    Calls,          \* tool calls, each a tool with its input
    Tools,          \* tools
    ToolOf,         \* the tool of each call
    Rules,          \* soft-deny rules
    RulesOf,        \* the rules that match each call
    GateCap,        \* approval_gate_cap of the blueprint
    RateLimit,      \* APPROVAL_RATE_LIMIT gates per minute
    DecisionLimit,  \* APPROVE_RATE_LIMIT_PER_MINUTE answers per minute
    Environment,    \* what the surroundings may do in this instance
    Nil             \* no call, no request

EnvironmentEvents ==
    {"cancel",      \* the user cancels
     "platform",    \* a repair job or the orchestrator fails the task
     "agentDies",   \* the session stops without writing anything
     "storeError",  \* a write of the request, the counter or the resumption
                    \* fails, before or after it took effect
     "timeoutError"} \* so does the write of a timeout, or the read after it

\* The n-th gate of the task makes the n-th request; one more than the cap, so
\* that passing it would show.
Requests == 1..(GateCap + 1)

ASSUME GateAssumption ==
    /\ RulesOf \in [Calls -> SUBSET Rules]
    /\ ToolOf \in [Calls -> Tools]
    /\ IsFiniteSet(Calls) /\ IsFiniteSet(Rules) /\ IsFiniteSet(Tools)
    /\ GateCap \in Nat \ {0} /\ RateLimit \in Nat \ {0} /\ DecisionLimit \in Nat \ {0}
    /\ Environment \subseteq EnvironmentEvents
    /\ Nil \notin Calls /\ Nil \notin Nat

VARIABLES
    status,     \* TaskTable: status
    awaiting,   \* TaskTable: awaiting_approval_request_id
    gateCount,  \* TaskTable: approval_gate_count
    row,        \* TaskApprovalsTable: the requests
    decisions,  \* TaskApprovalsTable: the user's counter of this minute
    hook,       \* the PreToolUse hook of the agent
    engine,     \* the policy engine of the agent
    effect      \* history: what became of the call of each request

task == <<status, awaiting, gateCount>>
vars == <<status, awaiting, gateCount, row, decisions, hook, engine, effect>>

\* A scope pre-approves calls by tool or pattern, or by rule; "this_call"
\* pre-approves nothing.
ThisCall == [calls |-> {}, rules |-> {}]

Scopes ==
    {ThisCall}
    \cup {[calls |-> C, rules |-> {}] : C \in SUBSET Calls}
    \cup {[calls |-> {}, rules |-> {q}] : q \in Rules}

NoRow == [status |-> "NONE", call |-> Nil, scope |-> ThisCall]

Resting == [pc |-> "idle", call |-> Nil, request |-> Nil, outcome |-> "NONE", scope |-> ThisCall]

\* count: approval_gate_count; recent: gates in the rate window; allowlist; the
\* calls, and the rules of a tool, in the recent-decision cache; the denials to
\* inject.
FreshEngine == [count |-> 0, recent |-> 0, allow |-> ThisCall,
                cached |-> {}, cachedRules |-> {}, injections |-> {}]

Init ==
    /\ status = "RUNNING"
    /\ awaiting = Nil
    /\ gateCount = 0
    /\ row = [r \in Requests |-> NoRow]
    /\ decisions = 0
    /\ hook = Resting
    /\ engine = FreshEngine
    /\ effect = [r \in Requests |-> "none"]

-----------------------------------------------------------------------------
(***************************************************************************)
(* The hook                                                                *)
(***************************************************************************)

HookAt(pc) == hook.pc = pc

\* The rules a call matches, each with the call's tool.
ToolRules(c) == {ToolOf[c]} \X RulesOf[c]

Covers(scope, c) == c \in scope.calls \/ RulesOf[c] \cap scope.rules # {}

\* evaluate_tool_use reaches REQUIRE_APPROVAL: a rule matches, no granted scope
\* covers the call and no recent denial or timeout answers for it.
NeedsApproval(c) ==
    /\ RulesOf[c] # {}
    /\ ~Covers(engine.allow, c)
    /\ c \notin engine.cached
    /\ ToolRules(c) \cap engine.cachedRules = {}

\* Bug: the cap is compared with <=.
RequireApprovalPastCap(c) ==
    /\ HookAt("idle")
    /\ NeedsApproval(c)
    /\ engine.count <= GateCap
    /\ engine.recent < RateLimit
    /\ engine' = [engine EXCEPT !.count = @ + 1, !.recent = @ + 1]
    /\ hook' = [hook EXCEPT !.pc = "count", !.call = c, !.request = engine.count + 1]
    /\ UNCHANGED <<task, row, decisions, effect>>

\* A gated call within the cap and the rate; beyond them it is denied at once.
\* The counters are bumped before anything is written.
RequireApproval(c) ==
    /\ HookAt("idle")
    /\ NeedsApproval(c)
    /\ engine.count < GateCap
    /\ engine.recent < RateLimit
    /\ engine' = [engine EXCEPT !.count = @ + 1, !.recent = @ + 1]
    /\ hook' = [hook EXCEPT !.pc = "count", !.call = c, !.request = engine.count + 1]
    /\ UNCHANGED <<task, row, decisions, effect>>

\* increment_approval_gate_count_in_ddb, best-effort.
PersistGateCount ==
    /\ HookAt("count")
    /\ \/ gateCount' = gateCount + 1
       \/ "storeError" \in Environment /\ UNCHANGED gateCount
    /\ hook' = [hook EXCEPT !.pc = "write"]
    /\ UNCHANGED <<status, awaiting, row, decisions, engine, effect>>

\* The call is denied and the agent goes on.
Deny == hook' = Resting

\* transact_write_approval_request: both rows or neither.
WriteRequest ==
    LET Written ==
            /\ status = "RUNNING"
            /\ status' = "AWAITING_APPROVAL"
            /\ awaiting' = hook.request
            /\ row' = [row EXCEPT ![hook.request] =
                          [status |-> "PENDING", call |-> hook.call, scope |-> ThisCall]]
    IN
    /\ HookAt("write")
    /\ \/ /\ Written
          /\ hook' = [hook EXCEPT !.pc = "poll"]
          /\ UNCHANGED effect
       \/ /\ status # "RUNNING" \/ "storeError" \in Environment
          /\ Deny
          /\ UNCHANGED <<status, awaiting, row, effect>>
       \/ /\ "storeError" \in Environment
          /\ Written
          /\ Deny
          /\ effect' = [effect EXCEPT ![hook.request] = "blocked"]
    /\ UNCHANGED <<gateCount, decisions, engine>>

Asked == row[hook.request]

\* The outcome of the gate is known; the task is resumed next.
Resolve(outcome, scope) ==
    hook' = [hook EXCEPT !.pc = "resume", !.outcome = outcome, !.scope = scope]

\* _poll_for_decision reads the answer.
PollAnswer ==
    /\ HookAt("poll")
    /\ Asked.status \in {"APPROVED", "DENIED"}
    /\ Resolve(Asked.status, Asked.scope)
    /\ UNCHANGED <<task, row, decisions, engine, effect>>

\* Bug: at the deadline the call is denied and the task stays as it is.
PollTimeoutAbandoning ==
    /\ HookAt("poll")
    /\ Deny
    /\ effect' = [effect EXCEPT ![hook.request] = "blocked"]
    /\ UNCHANGED <<task, row, decisions, engine>>

\* The deadline passes (whatever the row holds by now), or polling has failed
\* ten times in a row.
PollTimeout ==
    /\ HookAt("poll")
    /\ hook' = [hook EXCEPT !.pc = "lapse"]
    /\ UNCHANGED <<task, row, decisions, engine, effect>>

\* best_effort_update_approval_status: TIMED_OUT if the row is still PENDING;
\* otherwise, and after an error, the row is read again.
WriteTimedOut ==
    LET Written ==
            /\ Asked.status = "PENDING"
            /\ row' = [row EXCEPT ![hook.request].status = "TIMED_OUT"]
    IN
    /\ HookAt("lapse")
    /\ \/ Written /\ Resolve("TIMED_OUT", ThisCall)
       \/ /\ Asked.status # "PENDING" \/ "timeoutError" \in Environment
          /\ hook' = [hook EXCEPT !.pc = "reread"]
          /\ UNCHANGED row
       \/ /\ "timeoutError" \in Environment
          /\ Written
          /\ hook' = [hook EXCEPT !.pc = "reread"]
    /\ UNCHANGED <<task, decisions, engine, effect>>

\* Bug: the hook keeps its local timeout instead of honouring the answer.
RereadIgnored ==
    /\ HookAt("reread")
    /\ Resolve("TIMED_OUT", ThisCall)
    /\ UNCHANGED <<task, row, decisions, engine, effect>>

\* _reconcile_late_decision: an answer that beat the timeout is honoured.
Reread ==
    /\ HookAt("reread")
    /\ \/ /\ Asked.status \in {"APPROVED", "DENIED"}
          /\ Resolve(Asked.status, Asked.scope)
       \/ /\ Asked.status \notin {"APPROVED", "DENIED"} \/ "timeoutError" \in Environment
          /\ Resolve("TIMED_OUT", ThisCall)
    /\ UNCHANGED <<task, row, decisions, engine, effect>>

\* Bug: a granted rule scope is lost.
LearnCallsOnly ==
    LET c == hook.call IN
    engine' =
        CASE hook.outcome = "APPROVED" ->
               [engine EXCEPT !.allow.calls = @ \cup hook.scope.calls]
          [] hook.outcome = "DENIED" ->
               [engine EXCEPT !.cached = @ \cup {c}, !.cachedRules = @ \cup ToolRules(c),
                              !.injections = @ \cup {hook.request}]
          [] OTHER -> [engine EXCEPT !.cached = @ \cup {c}]

\* What the engine learns from the outcome: a granted scope joins the
\* allowlist; a denial or timeout answers for the same call, a denial for every
\* rule it matched on that tool, and its reason is queued for the next turn.
Learn ==
    LET c == hook.call IN
    engine' =
        CASE hook.outcome = "APPROVED" ->
               [engine EXCEPT !.allow = [calls |-> @.calls \cup hook.scope.calls,
                                         rules |-> @.rules \cup hook.scope.rules]]
          [] hook.outcome = "DENIED" ->
               [engine EXCEPT !.cached = @ \cup {c}, !.cachedRules = @ \cup ToolRules(c),
                              !.injections = @ \cup {hook.request}]
          [] OTHER -> [engine EXCEPT !.cached = @ \cup {c}]

\* Bug: the request is not removed from the task when it resumes.
ResumeKeepingRequest ==
    /\ HookAt("resume")
    /\ IF status = "AWAITING_APPROVAL" /\ awaiting = hook.request
          THEN /\ status' = "RUNNING"
               /\ Learn
               /\ effect' = [effect EXCEPT ![hook.request] =
                                IF hook.outcome = "APPROVED" THEN "ran" ELSE "blocked"]
          ELSE /\ effect' = [effect EXCEPT ![hook.request] = "blocked"]
               /\ UNCHANGED <<status, engine>>
    /\ hook' = Resting
    /\ UNCHANGED <<awaiting, gateCount, row, decisions>>

\* Bug: only a denial blocks the call.
ResumeFailingOpen ==
    /\ HookAt("resume")
    /\ IF status = "AWAITING_APPROVAL" /\ awaiting = hook.request
          THEN status' = "RUNNING" /\ awaiting' = Nil
          ELSE UNCHANGED <<status, awaiting>>
    /\ Learn
    /\ effect' = [effect EXCEPT ![hook.request] =
                     IF hook.outcome = "DENIED" THEN "blocked" ELSE "ran"]
    /\ hook' = Resting
    /\ UNCHANGED <<gateCount, row, decisions>>

\* transact_resume_from_approval, then the answer to the agent: the call runs
\* if it was approved and the task was still waiting for this request.
Resume ==
    LET Resumed ==
            /\ status = "AWAITING_APPROVAL" /\ awaiting = hook.request
            /\ status' = "RUNNING"
            /\ awaiting' = Nil
        Blocked == effect' = [effect EXCEPT ![hook.request] = "blocked"]
    IN
    /\ HookAt("resume")
    /\ \/ /\ Resumed
          /\ Learn
          /\ effect' = [effect EXCEPT ![hook.request] =
                           IF hook.outcome = "APPROVED" THEN "ran" ELSE "blocked"]
       \/ /\ \/ status # "AWAITING_APPROVAL" \/ awaiting # hook.request
             \/ "storeError" \in Environment
          /\ Blocked
          /\ UNCHANGED <<status, awaiting, engine>>
       \/ /\ "storeError" \in Environment
          /\ Resumed /\ Blocked
          /\ UNCHANGED engine
    /\ hook' = Resting
    /\ UNCHANGED <<gateCount, row, decisions>>

-----------------------------------------------------------------------------
(***************************************************************************)
(* The rest of the agent                                                   *)
(***************************************************************************)

\* Between turns the agent stops if its task has been cancelled; otherwise, or
\* when that cannot be read, the queued denials are injected.
BetweenTurns ==
    /\ HookAt("idle")
    /\ \/ /\ status = "CANCELLED"
          /\ hook' = [hook EXCEPT !.pc = "gone"]
          /\ UNCHANGED engine
       \/ /\ status # "CANCELLED" \/ "storeError" \in Environment
          /\ engine' = [engine EXCEPT !.injections = {}]
          /\ UNCHANGED hook
    /\ UNCHANGED <<task, row, decisions, effect>>

\* An entry of the recent-decision cache is over its age or evicted.
CacheExpires ==
    /\ \/ \E c \in engine.cached : engine' = [engine EXCEPT !.cached = @ \ {c}]
       \/ \E q \in engine.cachedRules : engine' = [engine EXCEPT !.cachedRules = @ \ {q}]
    /\ UNCHANGED <<task, row, decisions, hook, effect>>

\* The oldest gate leaves the rate window.
RateWindowSlides ==
    /\ engine.recent > 0
    /\ engine' = [engine EXCEPT !.recent = @ - 1]
    /\ UNCHANGED <<task, row, decisions, hook, effect>>

\* The pipeline ends, or crashes at any point: write_terminal.
AgentFinish ==
    /\ hook.pc # "gone"
    /\ IF status \in {"RUNNING", "AWAITING_APPROVAL"}
          THEN \/ status' = "FAILED"
               \/ HookAt("idle") /\ status' = "COMPLETED"
          ELSE UNCHANGED status
    /\ hook' = [hook EXCEPT !.pc = "gone"]
    /\ UNCHANGED <<awaiting, gateCount, row, decisions, engine, effect>>

AgentDies ==
    /\ "agentDies" \in Environment
    /\ hook.pc # "gone"
    /\ hook' = [hook EXCEPT !.pc = "gone"]
    /\ UNCHANGED <<task, row, decisions, engine, effect>>

-----------------------------------------------------------------------------
(***************************************************************************)
(* The user and the platform                                               *)
(***************************************************************************)

\* Bug: the answer is checked against the request alone.
AnswerRequestAlone(r, answer, scope) ==
    /\ decisions < DecisionLimit
    /\ decisions' = decisions + 1
    /\ IF row[r].status = "PENDING"
          THEN row' = [row EXCEPT ![r].status = answer, ![r].scope = scope]
          ELSE UNCHANGED row
    /\ UNCHANGED <<task, hook, engine, effect>>

\* approve-task and deny-task: the user's rate counter, then one transaction
\* that answers a PENDING request of a task that waits for it.
AnswerRequest(r, answer, scope) ==
    /\ decisions < DecisionLimit
    /\ decisions' = decisions + 1
    /\ IF row[r].status = "PENDING" /\ status = "AWAITING_APPROVAL" /\ awaiting = r
          THEN row' = [row EXCEPT ![r].status = answer, ![r].scope = scope]
          ELSE UNCHANGED row
    /\ UNCHANGED <<task, hook, engine, effect>>

ApproveTask(r) == \E scope \in Scopes : AnswerRequest(r, "APPROVED", scope)

DenyTask(r) == AnswerRequest(r, "DENIED", ThisCall)

\* The next minute has a counter of its own.
NextMinute ==
    /\ decisions > 0
    /\ decisions' = 0
    /\ UNCHANGED <<task, row, hook, engine, effect>>

\* Bug: nobody looks after a task in AWAITING_APPROVAL.
FailTaskRunning ==
    /\ "platform" \in Environment
    /\ status = "RUNNING"
    /\ status' = "FAILED"
    /\ UNCHANGED <<awaiting, gateCount, row, decisions, hook, engine, effect>>

\* The user cancels, the stranded-task sweep finds an old approval, or
\* finalizeTask ends a RUNNING task whose heartbeats or polls ran out.  None of
\* them touches awaiting_approval_request_id.
CancelTask ==
    /\ "cancel" \in Environment
    /\ status \notin TerminalStatuses
    /\ status' = "CANCELLED"
    /\ UNCHANGED <<awaiting, gateCount, row, decisions, hook, engine, effect>>

FailTask ==
    /\ "platform" \in Environment
    /\ \/ status \notin TerminalStatuses /\ status' = "FAILED"
       \/ status = "RUNNING" /\ status' = "TIMED_OUT"
    /\ UNCHANGED <<awaiting, gateCount, row, decisions, hook, engine, effect>>

-----------------------------------------------------------------------------

Hook ==
    \/ PersistGateCount \/ WriteRequest \/ PollAnswer \/ PollTimeout
    \/ WriteTimedOut \/ Reread \/ Resume

User == \E r \in Requests : ApproveTask(r) \/ DenyTask(r)

\* The agent is gone and its task has ended.
Over ==
    /\ HookAt("gone") /\ status \in TerminalStatuses
    /\ UNCHANGED vars

Next ==
    \/ \E c \in Calls : RequireApproval(c)
    \/ Hook
    \/ BetweenTurns \/ CacheExpires \/ RateWindowSlides \/ AgentFinish \/ AgentDies
    \/ User \/ NextMinute \/ CancelTask \/ FailTask
    \/ Over

Spec == Init /\ [][Next]_vars

\* The hook goes on once it has begun (the clock brings every deadline), and
\* the sweep comes back to a task that stays in AWAITING_APPROVAL.
Fairness ==
    /\ WF_vars(Hook)
    /\ WF_vars(FailTask /\ status = "AWAITING_APPROVAL")

FairSpec == Spec /\ Fairness

-----------------------------------------------------------------------------
(***************************************************************************)
(* Properties                                                              *)
(***************************************************************************)

Pcs == {"idle", "count", "write", "poll", "lapse", "reread", "resume", "gone"}

Outcomes == {"NONE", "APPROVED", "DENIED", "TIMED_OUT"}

ScopeType == [calls : SUBSET Calls, rules : SUBSET Rules]

\* Every variable has its type: requests are numbered up to the cap, the
\* counters are natural numbers, the outcome is one of four.
TypeOK ==
    /\ status \in {"RUNNING", "AWAITING_APPROVAL"} \cup TerminalStatuses
    /\ awaiting \in Requests \cup {Nil}
    /\ gateCount \in Nat
    /\ row \in [Requests -> [status : {"NONE", "PENDING", "APPROVED", "DENIED", "TIMED_OUT"},
                             call : Calls \cup {Nil}, scope : ScopeType]]
    /\ decisions \in 0..DecisionLimit
    /\ hook \in [pc : Pcs, call : Calls \cup {Nil}, request : Requests \cup {Nil},
                 outcome : Outcomes, scope : ScopeType]
    /\ engine \in [count : 0..GateCap, recent : 0..RateLimit, allow : ScopeType,
                   cached : SUBSET Calls, cachedRules : SUBSET (Tools \X Rules),
                   injections : SUBSET Requests]
    /\ effect \in [Requests -> {"none", "ran", "blocked"}]

Waiting == hook.pc \in {"poll", "lapse", "reread", "resume"}

\* A task that is AWAITING_APPROVAL is waited for: its agent is in the gate of
\* the request the row names, or is gone; it never works on while the user is
\* being asked.
AwaitedByItsHook ==
    status = "AWAITING_APPROVAL" =>
        \/ Waiting /\ awaiting = hook.request
        \/ HookAt("gone")

\* status and awaiting_approval_request_id agree while the task lives.
RowsAgree ==
    /\ status = "RUNNING" => awaiting = Nil
    /\ status = "AWAITING_APPROVAL" => awaiting # Nil /\ row[awaiting].status # "NONE"

\* The user is not asked again about a call that a scope granted earlier in the
\* task covers.
NeverAskedAgain ==
    \A r \in Requests :
        effect[r] = "ran" /\ hook.pc \in {"count", "write"} => ~Covers(row[r].scope, hook.call)

\* Every exceptional branch ends in a denial: whatever fails, a gated call runs
\* only if its request was granted.
FailClosed == \A r \in Requests : effect[r] = "ran" => row[r].status = "APPROVED"

\* The gate as the user sees it.
verdicts == [r \in Requests |->
    CASE row[r].status = "NONE"      -> "none"
      [] row[r].status = "PENDING"   -> "open"
      [] row[r].status = "APPROVED"  -> "granted"
      [] row[r].status = "DENIED"    -> "refused"
      [] row[r].status = "TIMED_OUT" -> "lapsed"]

over == status \in TerminalStatuses

Gate == INSTANCE GateContract WITH verdict <- verdicts, effect <- effect, over <- over

\* The gate keeps its promise, however answers, deadlines, cancellations and
\* repair jobs race: no call runs without a grant, no answer is accepted for a
\* task that is over or overwritten, no grant is dropped while the task lives.
GatePromise == Gate!Spec

\* The user's intent is authoritative: an approval that was accepted is not
\* turned into a denial while the task lives.
ApprovalHonoured ==
    \A r \in Requests :
        row[r].status = "APPROVED" /\ effect[r] = "blocked" => over

\* An accepted approval takes effect in the end, or the task is over.
ApprovalTakesEffect ==
    \A r \in Requests : row[r].status = "APPROVED" ~> effect[r] = "ran" \/ over

\* No task stays in AWAITING_APPROVAL for ever, even when its agent is gone.
GateCloses == status = "AWAITING_APPROVAL" ~> status # "AWAITING_APPROVAL"
=============================================================================
