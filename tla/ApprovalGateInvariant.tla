----------------------- MODULE ApprovalGateInvariant -----------------------
(***************************************************************************)
(* Why the gate keeps its promise: the inductive invariants behind         *)
(* FailClosed and NeverAskedAgain, in any surroundings, and behind         *)
(* GatePromise, where no call of the agent to the tables fails.            *)
(***************************************************************************)
EXTENDS ApprovalGate

\* The agent's calls to the tables succeed.
Errorless == Environment \cap {"storeError", "timeoutError"} = {}

\* In a gate the hook works on the last request of the task, whose row it has
\* not written before its transaction.
InGate ==
    /\ hook.pc \notin {"idle", "gone"} => hook.call \in Calls /\ hook.request = engine.count
    /\ hook.pc \notin {"idle", "gone"} => engine.count > 0
    /\ \A r \in Requests :
         r > engine.count \/ (hook.pc \in {"count", "write"} /\ r = engine.count) =>
             row[r].status = "NONE" /\ effect[r] = "none"

\* The hook believes in an approval only if there is one.
OutcomeTrue ==
    HookAt("resume") /\ hook.outcome = "APPROVED" => row[hook.request].status = "APPROVED"

\* Inductive in any surroundings.
SafeInv == TypeOK /\ InGate /\ OutcomeTrue /\ FailClosed

\* One scope pre-approves all that another does.
Within(scope, other) == scope.calls \subseteq other.calls /\ scope.rules \subseteq other.rules

\* The engine has learnt every scope under which a call ran, the hook is about
\* to teach it the scope of the row, and a gate begins only for what is not covered.
Learnt ==
    /\ \A r \in Requests : effect[r] = "ran" => Within(row[r].scope, engine.allow)
    /\ HookAt("resume") /\ hook.outcome = "APPROVED" => hook.scope = row[hook.request].scope
    /\ hook.pc \in {"count", "write"} => ~Covers(engine.allow, hook.call)

\* What the hook believes is what the row says.
OutcomeExact ==
    /\ hook.pc \in {"poll", "lapse"} =>
         row[hook.request].status \in {"PENDING", "APPROVED", "DENIED"}
    /\ HookAt("reread") => row[hook.request].status \in {"APPROVED", "DENIED"}
    /\ HookAt("resume") =>
         hook.outcome # "NONE" /\ row[hook.request].status = hook.outcome

\* A request without an effect is the one the hook is waiting for.
OneOpen ==
    \A r \in Requests :
        row[r].status # "NONE" /\ effect[r] = "none" =>
            HookAt("gone") \/ (Waiting /\ r = hook.request)

\* The hook waits on its own request until the task is over, and a request that
\* is waited for has no effect yet.
WaitsOnItsOwn ==
    /\ Waiting => over \/ (status = "AWAITING_APPROVAL" /\ awaiting = hook.request)
    /\ Waiting => effect[hook.request] = "none"
    /\ status = "AWAITING_APPROVAL" => awaiting \in Requests /\ effect[awaiting] = "none"

\* Inductive, with SafeInv, where no call fails.
Promise == OutcomeExact /\ OneOpen /\ WaitsOnItsOwn
=============================================================================
