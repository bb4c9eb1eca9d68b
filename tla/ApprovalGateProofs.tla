------------------------- MODULE ApprovalGateProofs -------------------------
(***************************************************************************)
(* Proofs about ApprovalGate for any calls, rules and limits: the gate     *)
(* fails closed in any surroundings, and keeps its promise where the       *)
(* agent's calls to the tables succeed.                                    *)
(***************************************************************************)
EXTENDS ApprovalGateInvariant, TLAPS

USE GateAssumption

RowType ==
    [status : {"NONE", "PENDING", "APPROVED", "DENIED", "TIMED_OUT"},
     call : Calls \cup {Nil}, scope : ScopeType]

HookType ==
    [pc : Pcs, call : Calls \cup {Nil}, request : Requests \cup {Nil},
     outcome : Outcomes, scope : ScopeType]

EngineType ==
    [count : 0..GateCap, recent : 0..RateLimit, allow : ScopeType,
     cached : SUBSET Calls, cachedRules : SUBSET (Tools \X Rules),
     injections : SUBSET Requests]

\* Scopes are well typed.
LEMMA ScopesType == Scopes \subseteq ScopeType /\ ThisCall \in ScopeType
  BY DEF Scopes, ScopeType, ThisCall

\* No row, no hook and no engine state to begin with.
LEMMA StartType == NoRow \in RowType /\ Resting \in HookType /\ FreshEngine \in EngineType
  BY ScopesType DEF NoRow, Resting, FreshEngine, RowType, HookType, EngineType,
     Pcs, Outcomes

\* In a gate the request is one of the task's, at most the cap.
LEMMA RequestInGate ==
  ASSUME TypeOK, InGate, hook.pc \notin {"idle", "gone"}
  PROVE  hook.request \in Requests /\ hook.request \in Nat /\ hook.call \in Calls
  BY DEF TypeOK, InGate, Requests

\* Learning keeps the engine's type and its gate counter.
LEMMA LearnFacts ==
  ASSUME TypeOK, InGate, HookAt("resume"), Learn
  PROVE  engine' \in EngineType /\ engine'.count = engine.count
<1>1. hook.request \in Requests /\ hook.call \in Calls /\ hook.scope \in ScopeType
      /\ engine \in EngineType
  BY RequestInGate DEF HookAt, TypeOK, HookType, EngineType
<1>2. ToolRules(hook.call) \subseteq Tools \X Rules
  BY <1>1 DEF ToolRules
<1>3. CASE hook.outcome = "APPROVED"
  <2> DEFINE a == [calls |-> engine.allow.calls \cup hook.scope.calls,
                   rules |-> engine.allow.rules \cup hook.scope.rules]
  <2>1. a \in ScopeType
    BY <1>1 DEF EngineType, ScopeType
  <2>2. engine' = [engine EXCEPT !.allow = a]
    BY <1>3 DEF Learn
  <2>. HIDE DEF a
  <2>. QED  BY <1>1, <2>1, <2>2 DEF EngineType
<1>4. CASE hook.outcome = "DENIED"
  <2>1. engine' = [engine EXCEPT !.cached = @ \cup {hook.call},
                                 !.cachedRules = @ \cup ToolRules(hook.call),
                                 !.injections = @ \cup {hook.request}]
    BY <1>4 DEF Learn
  <2>. QED  BY <1>1, <1>2, <2>1 DEF EngineType
<1>5. CASE hook.outcome \notin {"APPROVED", "DENIED"}
  <2>1. engine' = [engine EXCEPT !.cached = @ \cup {hook.call}]
    BY <1>5 DEF Learn
  <2>. QED  BY <1>1, <2>1 DEF EngineType
<1>. QED  BY <1>3, <1>4, <1>5

(***************************************************************************)
(* The safe invariant, in any surroundings                                 *)
(***************************************************************************)

LEMMA SafeInit == Init => SafeInv
<1>. SUFFICES ASSUME Init PROVE SafeInv
  OBVIOUS
<1>1. TypeOK
  BY StartType DEF Init, TypeOK, RowType, HookType, EngineType
<1>2. InGate /\ OutcomeTrue /\ FailClosed
  BY DEF Init, Resting, NoRow, InGate, OutcomeTrue, FailClosed, HookAt
<1>. QED  BY <1>1, <1>2 DEF SafeInv

LEMMA SafeRequireApproval ==
  ASSUME SafeInv, NEW c \in Calls, RequireApproval(c)
  PROVE  SafeInv'
<1>. USE DEF SafeInv
<1>1. engine \in EngineType /\ hook \in HookType
  BY DEF TypeOK, EngineType, HookType
<1>2. engine' \in EngineType /\ engine'.count = engine.count + 1
  <2>1. engine.count + 1 \in 0..GateCap /\ engine.recent + 1 \in 0..RateLimit
    BY <1>1 DEF RequireApproval, EngineType
  <2>2. engine' = [engine EXCEPT !.count = @ + 1, !.recent = @ + 1]
    BY DEF RequireApproval
  <2>. QED  BY <1>1, <2>1, <2>2 DEF EngineType
<1>3. /\ hook' \in HookType
      /\ hook'.pc = "count" /\ hook'.call = c /\ hook'.request = engine.count + 1
  <2>1. engine.count + 1 \in Requests /\ "count" \in Pcs
    BY <1>1 DEF RequireApproval, EngineType, Requests, Pcs
  <2>2. hook' = [hook EXCEPT !.pc = "count", !.call = c, !.request = engine.count + 1]
    BY DEF RequireApproval
  <2>. QED  BY <1>1, <2>1, <2>2 DEF HookType
<1>4. UNCHANGED <<task, row, decisions, effect>>
  BY DEF RequireApproval
<1>5. TypeOK'
  BY <1>2, <1>3, <1>4 DEF TypeOK, EngineType, HookType, task
<1>6. InGate'
  <2>1. engine.count \in Nat
    BY <1>1 DEF EngineType
  <2>. SUFFICES ASSUME NEW r \in Requests,
                       r > engine.count + 1 \/ r = engine.count + 1
                PROVE  row[r].status = "NONE" /\ effect[r] = "none"
    BY <2>1, <1>2, <1>3, <1>4 DEF InGate
  <2>2. r > engine.count
    BY <2>1 DEF Requests
  <2>. QED  BY <2>2 DEF InGate
<1>7. OutcomeTrue' /\ FailClosed'
  BY <1>3, <1>4 DEF OutcomeTrue, FailClosed, HookAt
<1>. QED  BY <1>5, <1>6, <1>7

\* A step inside the gate that touches neither rows nor effects.
LEMMA SafeMove ==
  ASSUME SafeInv, hook.pc \notin {"idle", "gone"}, hook' \in HookType,
         hook'.call = hook.call /\ hook'.request = hook.request,
         hook.pc = "count" => hook'.pc \in {"write"},
         hook.pc # "count" => hook'.pc \notin {"count", "write"},
         hook'.pc = "resume" /\ hook'.outcome = "APPROVED" => row[hook.request].status = "APPROVED",
         UNCHANGED <<status, awaiting, row, decisions, engine, effect>>, gateCount' \in Nat
  PROVE  SafeInv'
<1>1. TypeOK'
  BY DEF SafeInv, TypeOK, HookType
<1>2. InGate'
  BY DEF SafeInv, InGate
<1>3. OutcomeTrue' /\ FailClosed'
  BY DEF SafeInv, OutcomeTrue, FailClosed, HookAt
<1>. QED  BY <1>1, <1>2, <1>3 DEF SafeInv

LEMMA SafePersistGateCount ==
  ASSUME SafeInv, PersistGateCount
  PROVE  SafeInv'
<1>1. hook \in HookType /\ gateCount' \in Nat
  BY DEF SafeInv, TypeOK, HookType, PersistGateCount
<1>2. hook' \in HookType /\ hook'.call = hook.call /\ hook'.request = hook.request
      /\ hook.pc = "count" /\ hook'.pc = "write"
  BY <1>1 DEF PersistGateCount, HookAt, HookType, Pcs
<1>. QED  BY <1>1, <1>2, SafeMove DEF PersistGateCount

\* Knowing the outcome.
LEMMA SafeResolve ==
  ASSUME SafeInv, hook.pc \notin {"idle", "gone", "count", "write"},
         NEW o \in Outcomes, NEW s \in ScopeType, Resolve(o, s),
         o = "APPROVED" => row[hook.request].status = "APPROVED"
  PROVE  /\ hook' \in HookType /\ hook'.call = hook.call
         /\ hook'.request = hook.request /\ hook'.pc = "resume" /\ hook'.outcome = o
<1>1. hook \in HookType
  BY DEF SafeInv, TypeOK, HookType
<1>. QED  BY <1>1 DEF Resolve, HookType, Pcs

LEMMA AskedType ==
  ASSUME SafeInv, hook.pc \notin {"idle", "gone"}
  PROVE  Asked \in RowType /\ {"APPROVED", "DENIED", "TIMED_OUT"} \subseteq Outcomes
  BY RequestInGate DEF SafeInv, TypeOK, Asked, RowType, Outcomes

LEMMA SafePollAnswer ==
  ASSUME SafeInv, PollAnswer
  PROVE  SafeInv'
<1>1. hook.pc = "poll" /\ gateCount' \in Nat
  BY DEF PollAnswer, HookAt, SafeInv, TypeOK, task
<1>2. Asked.status \in Outcomes /\ Asked.scope \in ScopeType
  BY <1>1, AskedType DEF PollAnswer, RowType
<1>3. /\ hook' \in HookType /\ hook'.call = hook.call
      /\ hook'.request = hook.request /\ hook'.pc = "resume" /\ hook'.outcome = Asked.status
  BY <1>1, <1>2, SafeResolve DEF PollAnswer, Asked
<1>. QED  BY <1>1, <1>3, SafeMove DEF PollAnswer, Asked, task

LEMMA SafePollTimeout ==
  ASSUME SafeInv, PollTimeout
  PROVE  SafeInv'
<1>1. hook \in HookType /\ gateCount' \in Nat /\ hook.pc = "poll"
  BY DEF SafeInv, TypeOK, HookType, PollTimeout, HookAt, task
<1>2. hook' \in HookType /\ hook'.call = hook.call /\ hook'.request = hook.request
      /\ hook'.pc = "lapse"
  BY <1>1 DEF PollTimeout, HookType, Pcs
<1>. QED  BY <1>1, <1>2, SafeMove DEF PollTimeout, task

LEMMA SafeReread ==
  ASSUME SafeInv, Reread
  PROVE  SafeInv'
<1>1. hook.pc = "reread" /\ gateCount' \in Nat
  BY DEF Reread, HookAt, SafeInv, TypeOK, task
<1>2. CASE Asked.status \in {"APPROVED", "DENIED"} /\ Resolve(Asked.status, Asked.scope)
  <2>1. Asked.status \in Outcomes /\ Asked.scope \in ScopeType
    BY <1>1, <1>2, AskedType DEF RowType
  <2>2. /\ hook' \in HookType /\ hook'.call = hook.call
        /\ hook'.request = hook.request /\ hook'.pc = "resume" /\ hook'.outcome = Asked.status
    BY <1>1, <1>2, <2>1, SafeResolve DEF Asked
  <2>. QED  BY <1>1, <2>2, SafeMove DEF Reread, Asked, task
<1>3. CASE Resolve("TIMED_OUT", ThisCall)
  <2>1. /\ hook' \in HookType /\ hook'.call = hook.call
        /\ hook'.request = hook.request /\ hook'.pc = "resume" /\ hook'.outcome = "TIMED_OUT"
    BY <1>1, <1>3, SafeResolve, ScopesType, AskedType
  <2>. QED  BY <1>1, <2>1, SafeMove DEF Reread, task
<1>. QED  BY <1>2, <1>3 DEF Reread

\* Leaving the gate with a denial: the hook rests.
LEMMA RestingIsSafe == Resting \in HookType /\ Resting.pc = "idle"
  BY StartType DEF Resting

LEMMA SafeWriteRequest ==
  ASSUME SafeInv, WriteRequest
  PROVE  SafeInv'
<1>1. hook \in HookType /\ hook.pc = "write" /\ hook.request = engine.count
      /\ engine.count \in Nat /\ engine' = engine /\ gateCount' = gateCount
      /\ decisions' = decisions
  BY DEF SafeInv, TypeOK, HookType, InGate, WriteRequest, HookAt
<1>2. hook.request \in Requests /\ hook.call \in Calls
  BY <1>1, RequestInGate DEF SafeInv
<1>3. row[hook.request].status = "NONE" /\ effect[hook.request] = "none"
  BY <1>1, <1>2 DEF SafeInv, InGate
<1>4. hook' = Resting \/ hook' = [hook EXCEPT !.pc = "poll"]
  BY DEF WriteRequest, Deny
<1>5. /\ hook' \in HookType
      /\ hook'.pc \in {"idle", "poll"}
      /\ hook'.pc = "poll" => hook'.request = hook.request /\ hook'.call = hook.call
  <2>1. CASE hook' = Resting
    BY <2>1, RestingIsSafe
  <2>2. CASE hook' = [hook EXCEPT !.pc = "poll"]
    BY <1>1, <2>2 DEF HookType, Pcs
  <2>. QED  BY <1>4, <2>1, <2>2
<1> DEFINE asked == [status |-> "PENDING", call |-> hook.call, scope |-> ThisCall]
<1>6. \/ status' = status /\ awaiting' = awaiting /\ row' = row
      \/ /\ status' = "AWAITING_APPROVAL" /\ awaiting' = hook.request
         /\ row' = [row EXCEPT ![hook.request] = asked]
  BY DEF WriteRequest
<1>7. effect' = effect \/ effect' = [effect EXCEPT ![hook.request] = "blocked"]
  BY DEF WriteRequest
<1>8. asked \in RowType /\ asked.status = "PENDING"
  BY <1>2, ScopesType DEF RowType
<1>9. row \in [Requests -> RowType] /\ effect \in [Requests -> {"none", "ran", "blocked"}]
  BY DEF SafeInv, TypeOK, RowType
<1>. HIDE DEF asked
<1>10. /\ row' \in [Requests -> RowType]
       /\ \A r \in Requests : r # hook.request => row'[r] = row[r]
  BY <1>6, <1>8, <1>9
<1>11. /\ effect' \in [Requests -> {"none", "ran", "blocked"}]
       /\ effect'[hook.request] # "ran"
       /\ \A r \in Requests : r # hook.request => effect'[r] = effect[r]
  BY <1>2, <1>3, <1>7, <1>9
<1>12. TypeOK'
  BY <1>1, <1>2, <1>5, <1>6, <1>10, <1>11 DEF SafeInv, TypeOK, HookType, RowType
<1>13. InGate'
  <2>1. ASSUME NEW r \in Requests, r > engine.count
        PROVE  row'[r].status = "NONE" /\ effect'[r] = "none"
    <3>1. r # hook.request
      BY <1>1, <2>1 DEF Requests
    <3>2. row[r].status = "NONE" /\ effect[r] = "none"
      BY <2>1 DEF SafeInv, InGate
    <3>. QED  BY <1>10, <1>11, <3>1, <3>2
  <2>2. hook'.pc \notin {"idle", "gone"} => hook'.pc = "poll"
    BY <1>5
  <2>3. hook.call \in Calls /\ engine.count > 0
    BY <1>1 DEF SafeInv, InGate
  <2>. QED  BY <1>1, <1>5, <2>1, <2>2, <2>3 DEF InGate
<1>14. OutcomeTrue' /\ FailClosed'
  BY <1>2, <1>5, <1>10, <1>11 DEF SafeInv, OutcomeTrue, FailClosed, HookAt
<1>. QED  BY <1>12, <1>13, <1>14 DEF SafeInv

LEMMA SafeWriteTimedOut ==
  ASSUME SafeInv, WriteTimedOut
  PROVE  SafeInv'
<1>1. hook \in HookType /\ hook.pc = "lapse" /\ hook.request = engine.count
      /\ engine.count \in Nat /\ UNCHANGED <<status, awaiting, gateCount, decisions, engine, effect>>
  BY DEF SafeInv, TypeOK, HookType, InGate, WriteTimedOut, HookAt, task
<1>2. hook.request \in Requests
  BY <1>1, RequestInGate DEF SafeInv
<1>3. row \in [Requests -> RowType]
  BY DEF SafeInv, TypeOK, RowType
<1>4. \/ row' = row
      \/ /\ row[hook.request].status = "PENDING"
         /\ row' = [row EXCEPT ![hook.request].status = "TIMED_OUT"]
  BY DEF WriteTimedOut, Asked
<1>5. /\ row' \in [Requests -> RowType]
      /\ \A r \in Requests : row[r].status # "PENDING" => row'[r] = row[r]
  <2>1. CASE row' = row
    BY <1>3, <2>1
  <2>2. CASE /\ row[hook.request].status = "PENDING"
             /\ row' = [row EXCEPT ![hook.request].status = "TIMED_OUT"]
    <3>1. [row[hook.request] EXCEPT !.status = "TIMED_OUT"] \in RowType
      BY <1>2, <1>3 DEF RowType
    <3>. QED  BY <1>2, <1>3, <2>2, <3>1
  <2>. QED  BY <1>4, <2>1, <2>2
<1>6. /\ hook' \in HookType /\ hook'.call = hook.call /\ hook'.request = hook.request
      /\ hook'.pc \in {"resume", "reread"}
      /\ hook'.pc = "resume" => hook'.outcome = "TIMED_OUT"
  <2>1. CASE Resolve("TIMED_OUT", ThisCall)
    BY <1>1, <2>1, SafeResolve, ScopesType, AskedType
  <2>2. CASE hook' = [hook EXCEPT !.pc = "reread"]
    BY <1>1, <2>2 DEF HookType, Pcs
  <2>. QED  BY <2>1, <2>2 DEF WriteTimedOut
<1>7. TypeOK'
  BY <1>1, <1>5, <1>6 DEF SafeInv, TypeOK, HookType, RowType
<1>8. InGate'
  BY <1>1, <1>5, <1>6 DEF SafeInv, InGate
<1>9. OutcomeTrue' /\ FailClosed'
  BY <1>1, <1>5, <1>6 DEF SafeInv, OutcomeTrue, FailClosed, HookAt
<1>. QED  BY <1>7, <1>8, <1>9 DEF SafeInv

LEMMA SafeResume ==
  ASSUME SafeInv, Resume
  PROVE  SafeInv'
<1>1. hook \in HookType /\ hook.pc = "resume" /\ hook.request = engine.count
      /\ UNCHANGED <<gateCount, row, decisions>> /\ hook' = Resting
  BY DEF SafeInv, TypeOK, HookType, InGate, Resume, HookAt
<1>2. hook.request \in Requests
  BY <1>1, RequestInGate DEF SafeInv
<1>3. engine' \in EngineType /\ engine'.count = engine.count
  <2>1. CASE engine' = engine
    BY <2>1 DEF SafeInv, TypeOK, EngineType
  <2>2. CASE Learn
    BY <1>1, <2>2, LearnFacts DEF SafeInv, HookAt
  <2>. QED  BY <2>1, <2>2 DEF Resume
<1>4. \/ effect' = [effect EXCEPT ![hook.request] = "blocked"]
      \/ hook.outcome = "APPROVED" /\ effect' = [effect EXCEPT ![hook.request] = "ran"]
  BY DEF Resume
<1>5. effect \in [Requests -> {"none", "ran", "blocked"}]
  BY DEF SafeInv, TypeOK
<1>6. /\ effect' \in [Requests -> {"none", "ran", "blocked"}]
      /\ \A r \in Requests : r # hook.request => effect'[r] = effect[r]
      /\ effect'[hook.request] = "ran" => hook.outcome = "APPROVED"
  BY <1>2, <1>4, <1>5
<1>7. status' \in {status, "RUNNING"} /\ awaiting' \in {awaiting, Nil}
  BY DEF Resume
<1>8. TypeOK'
  BY <1>1, <1>3, <1>6, <1>7, RestingIsSafe DEF SafeInv, TypeOK, HookType, EngineType
<1>9. InGate'
  <2>1. ASSUME NEW r \in Requests, r > engine.count
        PROVE  row[r].status = "NONE" /\ effect'[r] = "none"
    <3>1. r # hook.request
      BY <1>1, <2>1 DEF Requests
    <3>. QED  BY <1>6, <2>1, <3>1 DEF SafeInv, InGate
  <2>. QED  BY <1>1, <1>3, <2>1, RestingIsSafe DEF InGate
<1>10. OutcomeTrue' /\ FailClosed'
  BY <1>1, <1>6, RestingIsSafe DEF SafeInv, OutcomeTrue, FailClosed, HookAt
<1>. QED  BY <1>8, <1>9, <1>10 DEF SafeInv

\* The agent between calls: its hook rests where it was or is gone, and its
\* engine keeps the gate counter.
LEMMA SafeElsewhere ==
  ASSUME SafeInv, hook' = hook \/ hook' = [hook EXCEPT !.pc = "gone"],
         engine' \in EngineType, engine'.count = engine.count,
         status' = status \/ status' \in {"RUNNING"} \cup TerminalStatuses,
         UNCHANGED <<awaiting, gateCount, row, decisions, effect>>
  PROVE  SafeInv'
<1>1. hook' \in HookType /\ hook'.pc \in {hook.pc, "gone"}
      /\ hook'.call = hook.call /\ hook'.request = hook.request
      /\ hook'.outcome = hook.outcome
  <2>1. hook \in HookType
    BY DEF SafeInv, TypeOK, HookType
  <2>. QED  BY <2>1 DEF HookType, Pcs
<1>2. TypeOK'
  BY <1>1 DEF SafeInv, TypeOK, HookType, EngineType
<1>3. InGate' /\ OutcomeTrue' /\ FailClosed'
  BY <1>1 DEF SafeInv, InGate, OutcomeTrue, FailClosed, HookAt
<1>. QED  BY <1>2, <1>3 DEF SafeInv

\* The engine's own upkeep.
LEMMA EngineUpkeep ==
  ASSUME TypeOK, BetweenTurns \/ CacheExpires \/ RateWindowSlides
  PROVE  /\ engine' \in EngineType /\ engine'.count = engine.count
         /\ hook' = hook \/ hook' = [hook EXCEPT !.pc = "gone"]
         /\ UNCHANGED <<task, row, decisions, effect>>
<1>1. engine \in EngineType
  BY DEF TypeOK, EngineType
<1>2. CASE BetweenTurns
  BY <1>1, <1>2 DEF BetweenTurns, EngineType
<1>3. CASE CacheExpires
  BY <1>1, <1>3 DEF CacheExpires, EngineType
<1>4. CASE RateWindowSlides
  <2>1. engine.recent - 1 \in 0..RateLimit
    BY <1>1, <1>4 DEF RateWindowSlides, EngineType
  <2>2. engine' = [engine EXCEPT !.recent = @ - 1] /\ hook' = hook
    BY <1>4 DEF RateWindowSlides
  <2>. QED  BY <1>1, <1>4, <2>1, <2>2 DEF RateWindowSlides, EngineType
<1>. QED  BY <1>2, <1>3, <1>4

\* An answer changes nothing but the counter and a PENDING row.
LEMMA AnswerFacts ==
  ASSUME SafeInv, NEW r \in Requests, NEW a \in {"APPROVED", "DENIED"},
         NEW s \in ScopeType, AnswerRequest(r, a, s)
  PROVE  /\ decisions' \in 0..DecisionLimit
         /\ UNCHANGED <<task, hook, engine, effect>>
         /\ row' \in [Requests -> RowType]
         /\ \A q \in Requests : row[q].status # "PENDING" => row'[q] = row[q]
         /\ \/ row' = row
            \/ /\ row[r].status = "PENDING" /\ status = "AWAITING_APPROVAL" /\ awaiting = r
               /\ row'[r].status = a
               /\ \A q \in Requests : q # r => row'[q] = row[q]
<1>1. row \in [Requests -> RowType] /\ decisions \in 0..DecisionLimit
  BY DEF SafeInv, TypeOK, RowType
<1>2. decisions' \in 0..DecisionLimit /\ UNCHANGED <<task, hook, engine, effect>>
  BY <1>1 DEF AnswerRequest
<1>3. CASE row' = row
  BY <1>1, <1>2, <1>3
<1>4. CASE /\ row[r].status = "PENDING" /\ status = "AWAITING_APPROVAL" /\ awaiting = r
           /\ row' = [row EXCEPT ![r].status = a, ![r].scope = s]
  <2> DEFINE answered == [row[r] EXCEPT !.status = a, !.scope = s]
  <2>1. answered \in RowType /\ answered.status = a
    BY <1>1 DEF RowType
  <2>2. row' = [row EXCEPT ![r] = answered]
    BY <1>1, <1>4 DEF RowType
  <2>. HIDE DEF answered
  <2>. QED  BY <1>1, <1>2, <1>4, <2>1, <2>2
<1>. QED  BY <1>3, <1>4 DEF AnswerRequest

\* Every answer of the user is an answer to some request.
LEMMA UserAnswers ==
  ASSUME User
  PROVE  \E r \in Requests, a \in {"APPROVED", "DENIED"}, s \in ScopeType :
           AnswerRequest(r, a, s)
  BY ScopesType DEF User, ApproveTask, DenyTask

LEMMA SafeUser ==
  ASSUME SafeInv, User
  PROVE  SafeInv'
<1>1. PICK r \in Requests, a \in {"APPROVED", "DENIED"}, s \in ScopeType :
        AnswerRequest(r, a, s)
  BY UserAnswers
<1>2. /\ decisions' \in 0..DecisionLimit
      /\ UNCHANGED <<task, hook, engine, effect>>
      /\ row' \in [Requests -> RowType]
      /\ \A q \in Requests : row[q].status # "PENDING" => row'[q] = row[q]
  BY <1>1, AnswerFacts
<1>3. TypeOK'
  BY <1>2 DEF SafeInv, TypeOK, RowType, task
<1>4. InGate'
  BY <1>2 DEF SafeInv, InGate
<1>5. OutcomeTrue'
  <2>1. HookAt("resume") => hook.request \in Requests
    BY RequestInGate DEF SafeInv, HookAt
  <2>. QED  BY <1>2, <2>1 DEF SafeInv, OutcomeTrue, HookAt
<1>6. FailClosed'
  BY <1>2 DEF SafeInv, FailClosed
<1>. QED  BY <1>3, <1>4, <1>5, <1>6 DEF SafeInv

\* Whatever happens, the gate stays safe.
LEMMA SafeStep == SafeInv /\ [Next]_vars => SafeInv'
<1>. SUFFICES ASSUME SafeInv, [Next]_vars PROVE SafeInv'
  OBVIOUS
<1>1. engine \in EngineType /\ decisions \in 0..DecisionLimit
  BY DEF SafeInv, TypeOK, EngineType
<1>2. ASSUME NEW c \in Calls, RequireApproval(c) PROVE SafeInv'
  BY <1>2, SafeRequireApproval
<1>3. CASE Hook
  BY <1>3, SafePersistGateCount, SafeWriteRequest, SafePollAnswer, SafePollTimeout,
     SafeWriteTimedOut, SafeReread, SafeResume DEF Hook
<1>4. CASE BetweenTurns \/ CacheExpires \/ RateWindowSlides
  BY <1>4, EngineUpkeep, SafeElsewhere DEF SafeInv, task
<1>5. CASE AgentFinish \/ AgentDies
  <2>1. engine' = engine /\ hook' = [hook EXCEPT !.pc = "gone"]
    BY <1>5 DEF AgentFinish, AgentDies
  <2>2. status' = status \/ status' \in TerminalStatuses
    BY <1>5 DEF AgentFinish, AgentDies, task, TerminalStatuses
  <2>3. UNCHANGED <<awaiting, gateCount, row, decisions, effect>>
    BY <1>5 DEF AgentFinish, AgentDies, task
  <2>. QED  BY <1>1, <2>1, <2>2, <2>3, SafeElsewhere
<1>6. CASE User
  BY <1>6, SafeUser
<1>7. CASE NextMinute
  <2>1. decisions' \in 0..DecisionLimit /\ UNCHANGED <<task, row, hook, engine, effect>>
    BY <1>1, <1>7 DEF NextMinute
  <2>. QED  BY <2>1 DEF SafeInv, TypeOK, InGate, OutcomeTrue, FailClosed, HookAt, task
<1>8. CASE CancelTask \/ FailTask
  <2>1. status' \in TerminalStatuses
    BY <1>8 DEF CancelTask, FailTask, TerminalStatuses
  <2>2. UNCHANGED <<awaiting, gateCount, row, decisions, hook, engine, effect>>
    BY <1>8 DEF CancelTask, FailTask
  <2>. QED  BY <1>1, <2>1, <2>2, SafeElsewhere
<1>9. CASE UNCHANGED vars
  BY <1>9 DEF vars, SafeInv, TypeOK, InGate, OutcomeTrue, FailClosed, HookAt
<1>. QED  BY <1>2, <1>3, <1>4, <1>5, <1>6, <1>7, <1>8, <1>9 DEF Next, Over

\* Every variable of the gate keeps its type: the gates of a task never exceed
\* the cap, whatever fails.
THEOREM GateTypeCorrect == Spec => []TypeOK
<1>1. SafeInv => TypeOK
  BY DEF SafeInv
<1>. QED  BY <1>1, SafeInit, SafeStep, PTL DEF Spec

\* The gate fails closed: in any surroundings, with any calls of the agent to
\* the tables failing before or after they took effect, no gated call runs
\* unless its request was approved.
THEOREM GateFailsClosed == Spec => []FailClosed
<1>1. SafeInv => FailClosed
  BY DEF SafeInv
<1>. QED  BY <1>1, SafeInit, SafeStep, PTL DEF Spec

(***************************************************************************)
(* The two rows agree                                                      *)
(***************************************************************************)

LEMMA RowsInit == Init => RowsAgree
  BY DEF Init, RowsAgree

\* The task's row changes with the request or not at all, until the task ends.
LEMMA RowsStep ==
  ASSUME SafeInv, RowsAgree, [Next]_vars
  PROVE  RowsAgree'
<1>1. row \in [Requests -> RowType]
  BY DEF SafeInv, TypeOK, RowType
<1>2. ASSUME UNCHANGED <<status, awaiting>>,
             \A r \in Requests : row[r].status # "NONE" => row'[r].status # "NONE"
      PROVE  RowsAgree'
  <2>1. awaiting # Nil => awaiting \in Requests
    BY DEF SafeInv, TypeOK
  <2>. QED  BY <1>2, <2>1 DEF RowsAgree
<1>3. ASSUME status' \notin {"RUNNING", "AWAITING_APPROVAL"}
      PROVE  RowsAgree'
  BY <1>3 DEF RowsAgree
<1>4. CASE WriteRequest
  <2>1. hook.request \in Requests /\ Nil \notin Requests
    BY <1>4, RequestInGate DEF SafeInv, WriteRequest, HookAt, Requests
  <2>2. CASE UNCHANGED <<status, awaiting, row>>
    BY <1>2, <2>2
  <2>3. CASE /\ status' = "AWAITING_APPROVAL" /\ awaiting' = hook.request
             /\ row' = [row EXCEPT ![hook.request] =
                           [status |-> "PENDING", call |-> hook.call, scope |-> ThisCall]]
    BY <1>1, <2>1, <2>3 DEF RowsAgree
  <2>. QED  BY <1>4, <2>2, <2>3 DEF WriteRequest
<1>5. CASE WriteTimedOut
  <2>1. hook.request \in Requests /\ UNCHANGED <<status, awaiting>>
    BY <1>5, RequestInGate DEF SafeInv, WriteTimedOut, HookAt, task
  <2>2. row' = row \/ row' = [row EXCEPT ![hook.request].status = "TIMED_OUT"]
    BY <1>5 DEF WriteTimedOut
  <2>3. \A r \in Requests : row[r].status # "NONE" => row'[r].status # "NONE"
    BY <1>1, <2>1, <2>2 DEF RowType
  <2>. QED  BY <1>2, <2>1, <2>3
<1>6. CASE Resume
  <2>1. CASE UNCHANGED <<status, awaiting, row>>
    BY <1>2, <2>1
  <2>2. CASE status' = "RUNNING" /\ awaiting' = Nil
    BY <2>2 DEF RowsAgree
  <2>. QED  BY <1>6, <2>1, <2>2 DEF Resume
<1>7. CASE User
  <2>1. PICK r \in Requests, a \in {"APPROVED", "DENIED"}, s \in ScopeType :
          AnswerRequest(r, a, s)
    BY <1>7, UserAnswers
  <2>2. UNCHANGED <<status, awaiting>>
    BY <2>1, AnswerFacts DEF task
  <2>3. \A q \in Requests : row[q].status # "NONE" => row'[q].status # "NONE"
    BY <2>1, AnswerFacts
  <2>. QED  BY <1>2, <2>2, <2>3
<1>8. CASE AgentFinish \/ CancelTask \/ FailTask
  <2>1. status' = status \/ status' \notin {"RUNNING", "AWAITING_APPROVAL"}
    BY <1>8 DEF AgentFinish, CancelTask, FailTask
  <2>2. UNCHANGED <<awaiting, row>>
    BY <1>8 DEF AgentFinish, CancelTask, FailTask
  <2>. QED  BY <1>2, <1>3, <2>1, <2>2
<1>9. CASE \/ \E c \in Calls : RequireApproval(c)
           \/ PersistGateCount \/ PollAnswer \/ PollTimeout \/ Reread
           \/ BetweenTurns \/ CacheExpires \/ RateWindowSlides \/ AgentDies
           \/ NextMinute \/ UNCHANGED vars
  <2>1. UNCHANGED <<status, awaiting, row>>
    BY <1>9 DEF RequireApproval, PersistGateCount, PollAnswer, PollTimeout, Reread,
       BetweenTurns, CacheExpires, RateWindowSlides, AgentDies, NextMinute, vars, task
  <2>. QED  BY <1>2, <2>1
<1>. QED  BY <1>4, <1>5, <1>6, <1>7, <1>8, <1>9 DEF Next, Hook, Over

\* In any surroundings the task's row and the request agree while the task
\* lives: a running task waits for nothing, and one that awaits an approval
\* names a request that exists.
THEOREM RowsAlwaysAgree == Spec => []RowsAgree
  BY SafeInit, SafeStep, RowsInit, RowsStep, PTL DEF Spec

(***************************************************************************)
(* What a scope has granted is not asked again                             *)
(***************************************************************************)

\* A step that leaves the rows of the calls that ran, and lets nothing run, and in
\* which the engine forgets no scope.
LEMMA LearntKept ==
  ASSUME SafeInv, Learnt,
         \A r \in Requests : effect'[r] = "ran" => effect[r] = "ran" /\ row'[r] = row[r],
         Within(engine.allow, engine'.allow),
         hook'.pc = "resume" /\ hook'.outcome = "APPROVED" =>
           hook'.scope = row'[hook'.request].scope,
         hook'.pc \in {"count", "write"} => ~Covers(engine'.allow, hook'.call)
  PROVE  Learnt'
<1>1. ASSUME NEW r \in Requests, effect'[r] = "ran"
      PROVE  Within(row[r].scope, engine'.allow) /\ row'[r] = row[r]
  BY <1>1 DEF Learnt, Within
<1>2. (\A r \in Requests : effect[r] = "ran" => Within(row[r].scope, engine.allow))'
  BY <1>1 DEF Within
<1>. QED  BY <1>2 DEF Learnt, HookAt

LEMMA LearntInit == Init => Learnt
  BY DEF Init, Learnt, Resting, HookAt

\* The engine learns the scope of the row.
LEMMA LearntResume ==
  ASSUME SafeInv, Learnt, Resume
  PROVE  Learnt'
<1>1. /\ hook.pc = "resume" /\ hook.request \in Requests /\ hook' = Resting
      /\ engine \in EngineType /\ row' = row
      /\ effect \in [Requests -> {"none", "ran", "blocked"}]
  BY RequestInGate DEF SafeInv, TypeOK, EngineType, Resume, HookAt
<1>2. hook'.pc = "idle"
  BY <1>1 DEF Resting
<1>3. CASE engine' = engine /\ effect' = [effect EXCEPT ![hook.request] = "blocked"]
  BY <1>1, <1>2, <1>3, LearntKept DEF Within
<1>4. CASE /\ Learn
           /\ effect' = [effect EXCEPT ![hook.request] =
                             IF hook.outcome = "APPROVED" THEN "ran" ELSE "blocked"]
  <2>1. CASE hook.outcome # "APPROVED"
    <3>1. engine'.allow = engine.allow
      BY <1>1, <1>4, <2>1 DEF Learn, EngineType
    <3>2. \A r \in Requests : effect'[r] = "ran" => effect[r] = "ran"
      BY <1>1, <1>4, <2>1
    <3>. QED  BY <1>1, <1>2, <3>1, <3>2, LearntKept DEF Within
  <2>2. CASE hook.outcome = "APPROVED"
    <3>1. hook.scope = row[hook.request].scope
      BY <1>1, <2>2 DEF Learnt, HookAt
    <3>2. engine' = [engine EXCEPT !.allow =
                       [calls |-> engine.allow.calls \cup hook.scope.calls,
                        rules |-> engine.allow.rules \cup hook.scope.rules]]
      BY <1>4, <2>2 DEF Learn
    <3>3. engine'.allow = [calls |-> engine.allow.calls \cup hook.scope.calls,
                           rules |-> engine.allow.rules \cup hook.scope.rules]
      BY <1>1, <3>2 DEF EngineType
    <3>4. Within(engine.allow, engine'.allow) /\ Within(hook.scope, engine'.allow)
      BY <3>3 DEF Within
    <3>5. \A r \in Requests : effect'[r] = "ran" => r = hook.request \/ effect[r] = "ran"
      BY <1>1, <1>4
    <3>6. \A r \in Requests : effect'[r] = "ran" => Within(row[r].scope, engine'.allow)
      BY <3>1, <3>4, <3>5 DEF Learnt, Within
    <3>7. (\A r \in Requests : effect[r] = "ran" => Within(row[r].scope, engine.allow))'
      BY <1>1, <3>6 DEF Within
    <3>. QED  BY <1>2, <3>7 DEF Learnt, HookAt
  <2>. QED  BY <2>1, <2>2
<1>. QED  BY <1>3, <1>4 DEF Resume

\* The hook takes the scope from the row, or none.
LEMMA LearntResolve ==
  ASSUME SafeInv, Learnt, hook.pc \notin {"idle", "gone", "count", "write"},
         UNCHANGED <<row, effect, engine>>,
         \/ Resolve(Asked.status, Asked.scope)
         \/ Resolve("TIMED_OUT", ThisCall)
  PROVE  Learnt'
<1>1. hook \in HookType
  BY DEF SafeInv, TypeOK, HookType
<1>2. /\ hook'.pc = "resume" /\ hook'.request = hook.request
      /\ \/ hook'.scope = row[hook.request].scope
         \/ hook'.outcome = "TIMED_OUT"
  BY <1>1 DEF Resolve, HookType, Asked
<1>. QED  BY <1>2, LearntKept DEF Within

LEMMA LearntStep ==
  ASSUME SafeInv, Learnt, [Next]_vars
  PROVE  Learnt'
<1>1. /\ row \in [Requests -> RowType] /\ hook \in HookType /\ engine \in EngineType
      /\ effect \in [Requests -> {"none", "ran", "blocked"}]
      /\ \A r \in Requests : effect[r] = "ran" => row[r].status = "APPROVED"
  BY DEF SafeInv, TypeOK, RowType, HookType, EngineType, FailClosed
<1>2. ASSUME UNCHANGED <<row, effect>>, engine'.allow = engine.allow,
             hook' = hook \/ hook'.pc \notin {"count", "write", "resume"}
      PROVE  Learnt'
  BY <1>2, LearntKept DEF Learnt, HookAt, Within
<1>3. ASSUME NEW c \in Calls, RequireApproval(c) PROVE Learnt'
  <2>1. hook' = [hook EXCEPT !.pc = "count", !.call = c, !.request = engine.count + 1]
        /\ engine' = [engine EXCEPT !.count = @ + 1, !.recent = @ + 1]
        /\ UNCHANGED <<row, effect>> /\ ~Covers(engine.allow, c)
    BY <1>3 DEF RequireApproval, NeedsApproval
  <2>2. hook'.pc = "count" /\ hook'.call = c /\ engine'.allow = engine.allow
    BY <1>1, <2>1 DEF HookType, EngineType
  <2>. QED  BY <2>1, <2>2, LearntKept DEF Within
<1>4. CASE PersistGateCount
  <2>1. hook.pc = "count" /\ hook'.pc = "write" /\ hook'.call = hook.call
        /\ UNCHANGED <<row, effect, engine>>
    BY <1>1, <1>4 DEF PersistGateCount, HookAt, HookType
  <2>. QED  BY <2>1, LearntKept DEF Learnt, Within
<1>5. CASE WriteRequest
  <2>1. /\ hook.pc = "write" /\ hook.request \in Requests /\ engine' = engine
        /\ hook.request = engine.count
    BY <1>5, RequestInGate DEF WriteRequest, HookAt, SafeInv, InGate
  <2>2. effect[hook.request] = "none"
    BY <2>1 DEF SafeInv, InGate
  <2>3. hook'.pc \in {"idle", "poll"}
    BY <1>1, <1>5 DEF WriteRequest, Deny, Resting, HookType
  <2>4. /\ row' = row \/ row' = [row EXCEPT ![hook.request] =
                                    [status |-> "PENDING", call |-> hook.call, scope |-> ThisCall]]
        /\ effect' = effect \/ effect' = [effect EXCEPT ![hook.request] = "blocked"]
    BY <1>5 DEF WriteRequest
  <2>5. \A r \in Requests : effect'[r] = "ran" => effect[r] = "ran" /\ row'[r] = row[r]
    BY <1>1, <2>1, <2>2, <2>4
  <2>. QED  BY <2>1, <2>3, <2>5, LearntKept DEF Within
<1>6. CASE PollAnswer \/ Reread
  <2>1. hook.pc \in {"poll", "reread"} /\ UNCHANGED <<row, effect, engine>>
    BY <1>6 DEF PollAnswer, Reread, HookAt
  <2>. QED  BY <1>6, <2>1, LearntResolve DEF PollAnswer, Reread
<1>7. CASE PollTimeout
  <2>1. hook'.pc = "lapse" /\ UNCHANGED <<row, effect, engine>>
    BY <1>1, <1>7 DEF PollTimeout, HookType
  <2>. QED  BY <1>2, <2>1
<1>8. CASE WriteTimedOut
  <2>1. hook.pc = "lapse" /\ hook.request \in Requests /\ UNCHANGED <<effect, engine>>
    BY <1>8, RequestInGate DEF WriteTimedOut, HookAt, SafeInv
  <2>2. \/ hook'.pc = "reread"
        \/ hook'.pc = "resume" /\ hook'.outcome = "TIMED_OUT"
    BY <1>1, <1>8 DEF WriteTimedOut, Resolve, HookType
  <2>3. \/ row' = row
        \/ /\ row[hook.request].status = "PENDING"
           /\ row' = [row EXCEPT ![hook.request].status = "TIMED_OUT"]
    BY <1>8 DEF WriteTimedOut, Asked
  <2>4. \A r \in Requests : row[r].status # "PENDING" => row'[r] = row[r]
    BY <1>1, <2>1, <2>3
  <2>. QED  BY <1>1, <2>1, <2>2, <2>4, LearntKept DEF Within
<1>9. CASE Resume
  BY <1>9, LearntResume
<1>10. CASE BetweenTurns \/ CacheExpires \/ RateWindowSlides
  <2>1. UNCHANGED <<row, effect>> /\ (hook' = hook \/ hook' = [hook EXCEPT !.pc = "gone"])
    BY <1>10, EngineUpkeep DEF SafeInv
  <2>2. engine'.allow = engine.allow
    BY <1>1, <1>10 DEF BetweenTurns, CacheExpires, RateWindowSlides, EngineType
  <2>3. hook' = hook \/ hook'.pc = "gone"
    BY <1>1, <2>1 DEF HookType
  <2>. QED  BY <1>2, <2>1, <2>2, <2>3
<1>11. CASE AgentFinish \/ AgentDies
  <2>1. UNCHANGED <<row, effect, engine>> /\ hook'.pc = "gone"
    BY <1>1, <1>11 DEF AgentFinish, AgentDies, HookType
  <2>. QED  BY <1>2, <2>1
<1>12. CASE User
  <2>1. PICK r \in Requests, a \in {"APPROVED", "DENIED"}, s \in ScopeType :
          AnswerRequest(r, a, s)
    BY <1>12, UserAnswers
  <2>2. /\ UNCHANGED <<hook, engine, effect>>
        /\ \A q \in Requests : row[q].status # "PENDING" => row'[q] = row[q]
    BY <2>1, AnswerFacts
  <2>3. HookAt("resume") /\ hook.outcome = "APPROVED" =>
          hook.request \in Requests /\ row[hook.request].status = "APPROVED"
    BY RequestInGate DEF SafeInv, OutcomeTrue, HookAt
  <2>4. HookAt("resume") /\ hook.outcome = "APPROVED" =>
          hook.scope = row'[hook.request].scope
    BY <2>2, <2>3 DEF Learnt
  <2>. QED  BY <1>1, <2>2, <2>4, LearntKept DEF Learnt, HookAt, Within
<1>13. CASE NextMinute \/ CancelTask \/ FailTask \/ UNCHANGED vars
  BY <1>2, <1>13 DEF NextMinute, CancelTask, FailTask, vars, task
<1>. QED  BY <1>3, <1>4, <1>5, <1>6, <1>7, <1>8, <1>9, <1>10, <1>11, <1>12, <1>13
          DEF Next, Hook, Over

\* In any surroundings the user is not asked about a call that a scope granted
\* earlier covers: what runs is learnt before the next call is evaluated.
THEOREM GrantsRemembered == Spec => []NeverAskedAgain
<1>1. ASSUME Learnt PROVE NeverAskedAgain
  BY <1>1 DEF Learnt, NeverAskedAgain, Within, Covers
<1>. QED  BY <1>1, SafeInit, SafeStep, LearntInit, LearntStep, PTL DEF Spec

-----------------------------------------------------------------------------
(***************************************************************************)
(* The gate keeps the promise of GateContract, where the agent's calls to  *)
(* the tables succeed.                                                     *)
(***************************************************************************)


Verdict(s) ==
    CASE s = "NONE"      -> "none"
      [] s = "PENDING"   -> "open"
      [] s = "APPROVED"  -> "granted"
      [] s = "DENIED"    -> "refused"
      [] s = "TIMED_OUT" -> "lapsed"

LEMMA VerdictOfRow == verdicts = [r \in Requests |-> Verdict(row[r].status)]
  BY DEF verdicts, Verdict

\* Unchanged rows, unchanged verdicts.
LEMMA SameVerdicts ==
  ASSUME row' = row
  PROVE  verdicts' = verdicts
  BY DEF verdicts

\* One request changes its verdict.
LEMMA NewVerdict ==
  ASSUME NEW q \in Requests, NEW s,
         \A r \in Requests : row'[r].status = IF r = q THEN s ELSE row[r].status
  PROVE  verdicts' = [verdicts EXCEPT ![q] = Verdict(s)]
<1>1. verdicts' = [r \in Requests |-> Verdict(row'[r].status)]
  BY DEF verdicts, Verdict
<1>. QED  BY <1>1, VerdictOfRow

GateStep == [Gate!Next]_(Gate!gvars)

\* The hook moves, no request changes, the task does not end.
LEMMA Unseen ==
  ASSUME row' = row, effect' = effect, over' = over
  PROVE  GateStep
  BY SameVerdicts DEF GateStep, Gate!gvars

LEMMA PromiseInit == Init => Promise /\ Gate!Init
<1>. SUFFICES ASSUME Init PROVE Promise /\ Gate!Init
  OBVIOUS
<1>1. Promise
  BY DEF Init, Resting, NoRow, Promise, OutcomeExact, OneOpen, WaitsOnItsOwn,
     HookAt, Waiting
<1>2. verdicts = [r \in Requests |-> "none"]
  BY DEF Init, NoRow, verdicts
<1>3. ~over
  BY DEF Init, over, TerminalStatuses
<1>. QED  BY <1>1, <1>2, <1>3 DEF Init, Gate!Init

\* Outside a gate nothing is waited for.
LEMMA PromiseRequireApproval ==
  ASSUME SafeInv, Promise, NEW c \in Calls, RequireApproval(c)
  PROVE  Promise' /\ GateStep
<1>1. hook.pc = "idle" /\ UNCHANGED <<task, row, decisions, effect>>
  BY DEF RequireApproval, HookAt
<1>2. hook'.pc = "count"
  BY DEF RequireApproval, SafeInv, TypeOK
<1>3. Promise'
  BY <1>1, <1>2 DEF Promise, OutcomeExact, OneOpen, WaitsOnItsOwn, HookAt, Waiting,
     task, over
<1>. QED  BY <1>1, <1>3, Unseen DEF task, over

LEMMA PromisePersistGateCount ==
  ASSUME SafeInv, Promise, PersistGateCount
  PROVE  Promise' /\ GateStep
<1>1. hook.pc = "count" /\ UNCHANGED <<status, awaiting, row, effect>>
  BY DEF PersistGateCount, HookAt
<1>2. hook'.pc = "write"
  BY DEF PersistGateCount, SafeInv, TypeOK
<1>3. Promise'
  BY <1>1, <1>2 DEF Promise, OutcomeExact, OneOpen, WaitsOnItsOwn, HookAt, Waiting, over
<1>. QED  BY <1>1, <1>3, Unseen DEF over

LEMMA PromiseWriteRequest ==
  ASSUME Errorless, SafeInv, Promise, WriteRequest
  PROVE  Promise' /\ GateStep
<1>1. hook.pc = "write" /\ hook.request = engine.count /\ hook.request \in Requests
  BY RequestInGate DEF SafeInv, InGate, WriteRequest, HookAt
<1>2. row[hook.request].status = "NONE" /\ effect[hook.request] = "none"
  BY <1>1 DEF SafeInv, InGate
<1>3. \A r \in Requests : row[r].status # "NONE" => effect[r] # "none"
  BY <1>1 DEF Promise, OneOpen, HookAt, Waiting
<1>4. CASE hook' = Resting /\ UNCHANGED <<status, awaiting, row, effect>>
  <2>1. Promise'
    BY <1>3, <1>4, RestingIsSafe
       DEF Promise, OutcomeExact, OneOpen, WaitsOnItsOwn, HookAt, Waiting, over
  <2>. QED  BY <1>4, <2>1, Unseen DEF over
<1> DEFINE asked == [status |-> "PENDING", call |-> hook.call, scope |-> ThisCall]
<1>5. CASE /\ status = "RUNNING" /\ status' = "AWAITING_APPROVAL"
           /\ awaiting' = hook.request
           /\ row' = [row EXCEPT ![hook.request] = asked]
           /\ hook' = [hook EXCEPT !.pc = "poll"]
           /\ effect' = effect
  <2>1. hook'.pc = "poll" /\ hook'.request = hook.request
    BY <1>5 DEF SafeInv, TypeOK
  <2>2. row \in [Requests -> RowType] /\ asked.status = "PENDING"
    BY DEF SafeInv, TypeOK, RowType
  <2>. HIDE DEF asked
  <2>3. /\ row'[hook.request].status = "PENDING"
        /\ \A r \in Requests : r # hook.request => row'[r] = row[r]
    BY <1>1, <1>5, <2>2
  <2>4. Promise'
    BY <1>1, <1>2, <1>3, <1>5, <2>1, <2>3
       DEF Promise, OutcomeExact, OneOpen, WaitsOnItsOwn, HookAt, Waiting, over
  <2>5. verdicts' = [verdicts EXCEPT ![hook.request] = Verdict("PENDING")]
    BY <1>1, <2>3, NewVerdict
  <2>6. Verdict("PENDING") = "open" /\ verdicts[hook.request] = "none"
    BY <1>1, <1>2, VerdictOfRow DEF Verdict
  <2>7. \A q \in Requests : verdicts[q] # "none" => effect[q] # "none"
    BY <1>3, VerdictOfRow DEF Verdict
  <2>8. ~over /\ over' = over
    BY <1>5 DEF over, TerminalStatuses
  <2>9. Gate!Open(hook.request)
    BY <1>5, <2>5, <2>6, <2>7, <2>8 DEF Gate!Open
  <2>. QED  BY <1>1, <2>4, <2>9 DEF GateStep, Gate!Next
<1>. QED  BY <1>4, <1>5 DEF WriteRequest, Deny, Errorless

\* Between the request and the resumption the hook only learns what the row
\* says.
LEMMA PromiseKnown ==
  ASSUME SafeInv, Promise, hook.pc \in {"poll", "lapse", "reread"},
         hook'.request = hook.request,
         UNCHANGED <<status, awaiting, row, effect>>,
         \/ hook'.pc = "lapse" /\ hook.pc = "poll"
         \/ hook'.pc = "reread" /\ row[hook.request].status \in {"APPROVED", "DENIED"}
         \/ /\ hook'.pc = "resume" /\ hook'.outcome # "NONE"
            /\ hook'.outcome = row[hook.request].status
  PROVE  Promise' /\ GateStep
<1>1. Promise'
  BY DEF Promise, OutcomeExact, OneOpen, WaitsOnItsOwn, HookAt, Waiting, over
<1>. QED  BY <1>1, Unseen DEF over

LEMMA PromisePollAnswer ==
  ASSUME SafeInv, Promise, PollAnswer
  PROVE  Promise' /\ GateStep
<1>1. hook.pc = "poll" /\ UNCHANGED <<status, awaiting, row, effect>>
  BY DEF PollAnswer, HookAt, task
<1>2. Asked.status \in Outcomes /\ Asked.scope \in ScopeType
  BY <1>1, AskedType DEF PollAnswer, RowType
<1>3. /\ hook'.request = hook.request /\ hook'.pc = "resume"
      /\ hook'.outcome = row[hook.request].status
  BY <1>1, <1>2, SafeResolve DEF PollAnswer, Asked
<1>4. row[hook.request].status # "NONE"
  BY DEF PollAnswer, Asked
<1>. QED  BY <1>1, <1>3, <1>4, PromiseKnown

LEMMA PromisePollTimeout ==
  ASSUME SafeInv, Promise, PollTimeout
  PROVE  Promise' /\ GateStep
<1>1. hook.pc = "poll" /\ UNCHANGED <<status, awaiting, row, effect>>
  BY DEF PollTimeout, HookAt, task
<1>2. hook'.request = hook.request /\ hook'.pc = "lapse"
  BY DEF PollTimeout, SafeInv, TypeOK
<1>. QED  BY <1>1, <1>2, PromiseKnown

LEMMA PromiseReread ==
  ASSUME Errorless, SafeInv, Promise, Reread
  PROVE  Promise' /\ GateStep
<1>1. hook.pc = "reread" /\ UNCHANGED <<status, awaiting, row, effect>>
  BY DEF Reread, HookAt, task
<1>2. row[hook.request].status \in {"APPROVED", "DENIED"}
  BY <1>1 DEF Promise, OutcomeExact, HookAt
<1>3. Resolve(Asked.status, Asked.scope)
  BY <1>2 DEF Reread, Asked, Errorless
<1>4. Asked.status \in Outcomes /\ Asked.scope \in ScopeType
  BY <1>1, <1>2, AskedType DEF RowType, Asked
<1>5. /\ hook'.request = hook.request /\ hook'.pc = "resume"
      /\ hook'.outcome = row[hook.request].status
  BY <1>1, <1>3, <1>4, SafeResolve DEF Asked
<1>. QED  BY <1>1, <1>2, <1>5, PromiseKnown

LEMMA PromiseWriteTimedOut ==
  ASSUME Errorless, SafeInv, Promise, WriteTimedOut
  PROVE  Promise' /\ GateStep
<1>1. hook.pc = "lapse" /\ UNCHANGED <<status, awaiting, effect>>
  BY DEF WriteTimedOut, HookAt, task
<1>2. row[hook.request].status \in {"PENDING", "APPROVED", "DENIED"}
  BY <1>1 DEF Promise, OutcomeExact, HookAt
<1>3. hook.request \in Requests /\ row \in [Requests -> RowType]
  BY <1>1, RequestInGate DEF SafeInv, TypeOK, RowType
<1>4. CASE /\ row[hook.request].status # "PENDING"
           /\ hook' = [hook EXCEPT !.pc = "reread"] /\ row' = row
  <2>1. hook'.pc = "reread" /\ hook'.request = hook.request
    BY <1>4 DEF SafeInv, TypeOK
  <2>. QED  BY <1>1, <1>2, <1>4, <2>1, PromiseKnown
<1>5. CASE /\ row[hook.request].status = "PENDING"
           /\ row' = [row EXCEPT ![hook.request].status = "TIMED_OUT"]
           /\ Resolve("TIMED_OUT", ThisCall)
  <2>1. /\ hook'.request = hook.request /\ hook'.pc = "resume"
        /\ hook'.outcome = "TIMED_OUT"
    BY <1>1, <1>5, SafeResolve, ScopesType, AskedType
  <2>2. \A r \in Requests : row'[r].status =
           IF r = hook.request THEN "TIMED_OUT" ELSE row[r].status
    BY <1>3, <1>5 DEF RowType
  <2>3. OutcomeExact'
    BY <1>3, <2>1, <2>2 DEF OutcomeExact, HookAt
  <2>4. OneOpen'
    BY <1>1, <2>1, <2>2 DEF Promise, OneOpen, HookAt, Waiting
  <2>5. WaitsOnItsOwn'
    BY <1>1, <2>1 DEF Promise, WaitsOnItsOwn, Waiting, over
  <2>6. verdicts' = [verdicts EXCEPT ![hook.request] = "lapsed"]
    BY <1>3, <2>2, NewVerdict DEF Verdict
  <2>7. verdicts[hook.request] = "open"
    BY <1>3, <1>5, VerdictOfRow DEF Verdict
  <2>8. Gate!Lapse(hook.request)
    BY <1>1, <2>6, <2>7 DEF Gate!Lapse, over
  <2>. QED  BY <1>3, <2>3, <2>4, <2>5, <2>8 DEF Promise, GateStep, Gate!Next
<1>. QED  BY <1>4, <1>5 DEF WriteTimedOut, Errorless, Asked

LEMMA PromiseResume ==
  ASSUME Errorless, SafeInv, Promise, Resume
  PROVE  Promise' /\ GateStep
<1>1. hook.pc = "resume" /\ hook' = Resting /\ row' = row
  BY DEF Resume, HookAt
<1>2. hook.request \in Requests /\ effect \in [Requests -> {"none", "ran", "blocked"}]
  BY <1>1, RequestInGate DEF SafeInv, TypeOK
<1>3. /\ hook.outcome # "NONE" /\ row[hook.request].status = hook.outcome
      /\ hook.outcome \in Outcomes
  BY <1>1 DEF Promise, OutcomeExact, HookAt, SafeInv, TypeOK
<1>4. /\ effect[hook.request] = "none"
      /\ over \/ (status = "AWAITING_APPROVAL" /\ awaiting = hook.request)
  BY <1>1 DEF Promise, WaitsOnItsOwn, Waiting
<1>5. \E e \in {"ran", "blocked"} : effect' = [effect EXCEPT ![hook.request] = e]
  BY DEF Resume
<1>6. /\ \A r \in Requests : r # hook.request => effect'[r] = effect[r]
      /\ effect'[hook.request] # "none"
  BY <1>2, <1>5
<1>7. hook'.pc = "idle"
  BY <1>1, RestingIsSafe
<1>8. OutcomeExact'
  BY <1>7 DEF OutcomeExact, HookAt
<1>9. OneOpen'
  BY <1>1, <1>6, <1>7 DEF Promise, OneOpen, HookAt, Waiting
<1>10. WaitsOnItsOwn'
  <2>1. status' # "AWAITING_APPROVAL"
    BY <1>4 DEF Resume, Errorless, over, TerminalStatuses
  <2>. QED  BY <1>7, <2>1 DEF WaitsOnItsOwn, Waiting
<1>11. over' = over
  BY DEF Resume, over, TerminalStatuses
<1>12. verdicts' = verdicts
  BY <1>1, SameVerdicts
<1>13. verdicts[hook.request] = Verdict(hook.outcome)
  BY <1>2, <1>3, VerdictOfRow
<1>14. CASE /\ status = "AWAITING_APPROVAL" /\ hook.outcome = "APPROVED"
            /\ effect' = [effect EXCEPT ![hook.request] = "ran"]
  <2>1. ~over
    BY <1>14 DEF over, TerminalStatuses
  <2>2. verdicts[hook.request] = "granted"
    BY <1>13, <1>14 DEF Verdict
  <2>3. Gate!Run(hook.request)
    BY <1>4, <1>11, <1>12, <1>14, <2>1, <2>2 DEF Gate!Run
  <2>. QED  BY <1>2, <1>8, <1>9, <1>10, <2>3 DEF Promise, GateStep, Gate!Next
<1>15. CASE /\ effect' = [effect EXCEPT ![hook.request] = "blocked"]
            /\ hook.outcome # "APPROVED" \/ over
  <2>1. /\ verdicts[hook.request] # "none"
        /\ verdicts[hook.request] \in {"refused", "lapsed"} \/ over
    BY <1>3, <1>13, <1>15 DEF Verdict, Outcomes
  <2>2. Gate!Block(hook.request)
    BY <1>4, <1>11, <1>12, <1>15, <2>1 DEF Gate!Block
  <2>. QED  BY <1>2, <1>8, <1>9, <1>10, <2>2 DEF Promise, GateStep, Gate!Next
<1>. QED  BY <1>4, <1>14, <1>15 DEF Resume, Errorless

\* The agent leaves or rests, and the task stays as it is or ends.
LEMMA PromiseElsewhere ==
  ASSUME SafeInv, Promise, hook' = hook \/ hook'.pc = "gone",
         status' = status \/ (~over /\ over'),
         UNCHANGED <<awaiting, row, effect>>
  PROVE  Promise' /\ GateStep
<1>1. status' = "AWAITING_APPROVAL" => status = "AWAITING_APPROVAL"
  BY DEF over, TerminalStatuses
<1>2. Promise'
  BY <1>1 DEF Promise, OutcomeExact, OneOpen, WaitsOnItsOwn, HookAt, Waiting, over
<1>3. CASE status' = status
  BY <1>2, <1>3, Unseen DEF over
<1>4. CASE ~over /\ over'
  <2>1. Gate!Finish
    BY <1>4, SameVerdicts DEF Gate!Finish, over
  <2>. QED  BY <1>2, <2>1 DEF GateStep, Gate!Next
<1>. QED  BY <1>3, <1>4

LEMMA PromiseUser ==
  ASSUME SafeInv, Promise, User
  PROVE  Promise' /\ GateStep
<1>1. PICK r \in Requests, a \in {"APPROVED", "DENIED"}, s \in ScopeType :
        AnswerRequest(r, a, s)
  BY UserAnswers
<1>2. UNCHANGED <<status, awaiting, hook, effect>>
  BY <1>1, AnswerFacts DEF task
<1>3. CASE row' = row
  BY <1>2, <1>3, PromiseElsewhere
<1>4. CASE /\ row[r].status = "PENDING" /\ status = "AWAITING_APPROVAL" /\ awaiting = r
           /\ row'[r].status = a
           /\ \A q \in Requests : q # r => row'[q] = row[q]
  <2>1. ~over /\ effect[r] = "none"
    BY <1>4 DEF over, TerminalStatuses, Promise, WaitsOnItsOwn
  <2>2. OutcomeExact'
    <3>1. hook.pc \in {"poll", "lapse", "reread", "resume"} => hook.request \in Requests
      BY RequestInGate DEF SafeInv
    <3>2. HookAt("resume") => row[hook.request].status # "PENDING"
      BY DEF Promise, OutcomeExact, HookAt, SafeInv, TypeOK, Outcomes
    <3>. QED  BY <1>2, <1>4, <3>1, <3>2 DEF Promise, OutcomeExact, HookAt
  <2>3. OneOpen'
    BY <1>2, <1>4 DEF Promise, OneOpen, HookAt, Waiting
  <2>4. WaitsOnItsOwn'
    BY <1>2 DEF Promise, WaitsOnItsOwn, Waiting, over
  <2>5. \A q \in Requests : row'[q].status = IF q = r THEN a ELSE row[q].status
    BY <1>4
  <2>6. verdicts' = [verdicts EXCEPT ![r] = Verdict(a)]
    BY <2>5, NewVerdict
  <2>7. verdicts[r] = "open"
    BY <1>4, VerdictOfRow DEF Verdict
  <2>8. Verdict(a) \in {"granted", "refused"}
    BY DEF Verdict
  <2>9. Gate!Answer(r)
    BY <1>2, <2>1, <2>6, <2>7, <2>8 DEF Gate!Answer, over
  <2>. QED  BY <2>2, <2>3, <2>4, <2>9 DEF Promise, GateStep, Gate!Next
<1>. QED  BY <1>1, <1>3, <1>4, AnswerFacts

\* Every step keeps the promise and is a step of the contract, or none.
LEMMA PromiseStep ==
  ASSUME Errorless, SafeInv, Promise, [Next]_vars
  PROVE  Promise' /\ GateStep
<1>1. ASSUME NEW c \in Calls, RequireApproval(c) PROVE Promise' /\ GateStep
  BY <1>1, PromiseRequireApproval
<1>2. CASE Hook
  BY <1>2, PromisePersistGateCount, PromiseWriteRequest, PromisePollAnswer,
     PromisePollTimeout, PromiseWriteTimedOut, PromiseReread, PromiseResume DEF Hook
<1>3. CASE BetweenTurns \/ CacheExpires \/ RateWindowSlides
  <2>1. hook' = hook \/ hook' = [hook EXCEPT !.pc = "gone"]
    BY <1>3, EngineUpkeep DEF SafeInv
  <2>2. UNCHANGED <<status, awaiting, row, effect>>
    BY <1>3, EngineUpkeep DEF SafeInv, task
  <2>. QED  BY <2>1, <2>2, PromiseElsewhere DEF SafeInv, TypeOK
<1>4. CASE AgentFinish \/ AgentDies
  <2>1. hook'.pc = "gone"
    BY <1>4 DEF AgentFinish, AgentDies, SafeInv, TypeOK
  <2>2. status' = status \/ (~over /\ over')
    BY <1>4 DEF AgentFinish, AgentDies, task, over, TerminalStatuses
  <2>3. UNCHANGED <<awaiting, row, effect>>
    BY <1>4 DEF AgentFinish, AgentDies, task
  <2>. QED  BY <2>1, <2>2, <2>3, PromiseElsewhere
<1>5. CASE User
  BY <1>5, PromiseUser
<1>6. CASE NextMinute
  BY <1>6, PromiseElsewhere DEF NextMinute, task
<1>7. CASE CancelTask \/ FailTask
  <2>1. ~over /\ over'
    BY <1>7 DEF CancelTask, FailTask, over, TerminalStatuses
  <2>2. UNCHANGED <<awaiting, row, hook, effect>>
    BY <1>7 DEF CancelTask, FailTask
  <2>. QED  BY <2>1, <2>2, PromiseElsewhere
<1>8. CASE UNCHANGED vars
  BY <1>8, PromiseElsewhere DEF vars
<1>. QED  BY <1>1, <1>2, <1>3, <1>4, <1>5, <1>6, <1>7, <1>8 DEF Next, Over

\* Where the agent's calls to the tables succeed, the gate keeps its promise
\* whatever the user, the deadlines, the repair jobs and the agent's death do,
\* and in any order: one request at a time, answered or lapsed once, run only on
\* a grant, turned down only without one or when the task is over.
THEOREM GateKeepsPromise ==
  ASSUME Errorless
  PROVE  Spec => GatePromise
<1> DEFINE Inv == SafeInv /\ Promise
<1>1. Init => Inv /\ Gate!Init
  BY SafeInit, PromiseInit
<1>2. Inv /\ [Next]_vars => Inv' /\ [Gate!Next]_(Gate!gvars)
  BY SafeStep, PromiseStep DEF GateStep
<1>. HIDE DEF Inv
<1>. QED  BY <1>1, <1>2, PTL DEF Spec, GatePromise, Gate!Spec

\* While its agent lives, a task waits for an approval exactly where its hook
\* does: it never works on while the user is being asked, and never waits for a
\* request that nobody polls.
THEOREM AwaitedAlways ==
  ASSUME Errorless
  PROVE  Spec => []AwaitedByItsHook
<1> DEFINE Inv == SafeInv /\ Promise /\ RowsAgree
<1>1. Init => Inv
  BY SafeInit, PromiseInit, RowsInit
<1>2. Inv /\ [Next]_vars => Inv'
  BY SafeStep, PromiseStep, RowsStep
<1>3. Inv => AwaitedByItsHook
  BY DEF Promise, OneOpen, WaitsOnItsOwn, RowsAgree, AwaitedByItsHook
<1>. QED  BY <1>1, <1>2, <1>3, PTL DEF Spec
=============================================================================
