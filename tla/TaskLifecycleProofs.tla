------------------------ MODULE TaskLifecycleProofs ------------------------
(***************************************************************************)
(* Proofs about TaskLifecycle for any number of tasks, executions and      *)
(* sessions.                                                               *)
(***************************************************************************)
EXTENDS TaskLifecycleInvariant, FiniteSetTheorems, TLAPS

(***************************************************************************)
(* The transition table and the store calls                                *)
(***************************************************************************)

\* The transition table is defined exactly on the statuses.
LEMMA TableType == ValidTransitions \in [Statuses -> SUBSET Statuses]
  BY DEF ValidTransitions, Statuses, PreActiveStatuses, ActiveStatuses, TerminalStatuses

\* No ordinary status is the absence of a row.
LEMMA NoRow == NoStatus \notin Statuses /\ TerminalStatuses \subseteq Statuses
  BY DEF NoStatus, Statuses, PreActiveStatuses, ActiveStatuses, TerminalStatuses

ExecType ==
    [pc : Pcs, step : Steps, task : Tasks \cup {Nil}, seen : TaskStates,
     current : TaskStates, unhealthy : BOOLEAN, then : Pcs,
     handle : Sessions \cup {Nil}, slot : BOOLEAN]

SessionType ==
    [task : Tasks \cup {Nil}, mode : {"none", "booting", "working", "waiting", "gone"}]

\* A handler only moves itself.
LEMMA Becomes ==
  ASSUME TypeOK, NEW e \in Executions, NEW r, Become(e, r)
  PROVE  /\ exec'[e] = r
         /\ \A f \in Executions : f # e => exec'[f] = exec[f]
         /\ r \in ExecType => exec' \in [Executions -> ExecType]
  BY DEF TypeOK, Become, ExecType

\* Two records that differ only in what the next step forgets.
SameWork(r, q) ==
    /\ r.task = q.task /\ r.slot = q.slot /\ r.handle = q.handle
    /\ r.unhealthy = q.unhealthy

LEMMA GotoFacts ==
  ASSUME TypeOK, NEW e \in Executions, NEW p \in Pcs, Goto(e, p)
  PROVE  /\ exec' \in [Executions -> ExecType]
         /\ \A f \in Executions : f # e => exec'[f] = exec[f]
         /\ exec'[e].pc = p
         /\ exec'[e].step = exec[e].step /\ exec'[e].then = exec[e].then
         /\ exec'[e].current = exec[e].current
         /\ SameWork(exec'[e], exec[e])
<1> DEFINE r == [exec[e] EXCEPT !.pc = p]
<1>1. /\ r \in ExecType /\ r.pc = p /\ SameWork(r, exec[e])
      /\ r.step = exec[e].step /\ r.then = exec[e].then /\ r.current = exec[e].current
  BY DEF TypeOK, ExecType, SameWork
<1>2. Become(e, r)
  BY DEF Goto
<1>. HIDE DEF r
<1>. QED  BY <1>1, <1>2, Becomes

LEMMA GotoThenFacts ==
  ASSUME TypeOK, NEW e \in Executions, NEW p \in Pcs, NEW q \in Pcs,
         GotoThen(e, p, q)
  PROVE  /\ exec' \in [Executions -> ExecType]
         /\ \A f \in Executions : f # e => exec'[f] = exec[f]
         /\ exec'[e].pc = p /\ exec'[e].then = q
         /\ exec'[e].step = exec[e].step /\ exec'[e].current = exec[e].current
         /\ SameWork(exec'[e], exec[e])
<1> DEFINE r == [exec[e] EXCEPT !.pc = p, !.then = q]
<1>1. /\ r \in ExecType /\ r.pc = p /\ r.then = q /\ SameWork(r, exec[e])
      /\ r.step = exec[e].step /\ r.current = exec[e].current
  BY DEF TypeOK, ExecType, SameWork
<1>2. Become(e, r)
  BY DEF GotoThen
<1>. HIDE DEF r
<1>. QED  BY <1>1, <1>2, Becomes

LEMMA GotoWithFacts ==
  ASSUME TypeOK, NEW e \in Executions, NEW p \in Pcs, NEW c \in TaskStates,
         GotoWith(e, p, c)
  PROVE  /\ exec' \in [Executions -> ExecType]
         /\ \A f \in Executions : f # e => exec'[f] = exec[f]
         /\ exec'[e].pc = p /\ exec'[e].current = c
         /\ exec'[e].step = exec[e].step /\ exec'[e].then = exec[e].then
         /\ SameWork(exec'[e], exec[e])
<1> DEFINE r == [exec[e] EXCEPT !.pc = p, !.current = c]
<1>1. /\ r \in ExecType /\ r.pc = p /\ r.current = c /\ SameWork(r, exec[e])
      /\ r.step = exec[e].step /\ r.then = exec[e].then
  BY DEF TypeOK, ExecType, SameWork
<1>2. Become(e, r)
  BY DEF GotoWith
<1>. HIDE DEF r
<1>. QED  BY <1>1, <1>2, Becomes

LEMMA BeginFacts ==
  ASSUME TypeOK, NEW e \in Executions, NEW s \in Steps, Begin(e, s)
  PROVE  /\ exec' \in [Executions -> ExecType]
         /\ \A f \in Executions : f # e => exec'[f] = exec[f]
         /\ exec'[e].pc = s /\ exec'[e].step = s /\ exec'[e].then = "idle"
         /\ SameWork(exec'[e], exec[e])
<1> DEFINE keep == IF s \in {"admission-control", "pre-flight"} THEN exec[e].seen ELSE NoStatus
           r == [exec[e] EXCEPT !.pc = s, !.step = s, !.then = "idle",
                                !.current = NoStatus, !.seen = keep]
<1>1. exec[e] \in ExecType /\ keep \in TaskStates
  BY DEF TypeOK, ExecType, TaskStates
<1>2. "idle" \in Pcs /\ s \in Pcs /\ NoStatus \in TaskStates
  BY DEF Pcs, TaskStates
<1>3. r \in ExecType /\ r.pc = s /\ r.step = s /\ r.then = "idle" /\ SameWork(r, exec[e])
  <2>. HIDE DEF keep
  <2>. QED  BY <1>1, <1>2 DEF ExecType, SameWork
<1>4. Become(e, r)
  BY DEF Begin
<1>. HIDE DEF r
<1>. QED  BY <1>3, <1>4, Becomes

LEMMA IdleType == Idle \in ExecType
  BY DEF Idle, ExecType, Pcs, Steps, TaskStates

LEMMA EndFacts ==
  ASSUME TypeOK, HandlersPlaced, NEW e \in Executions, End(e), exec[e].pc # "idle"
  PROVE  /\ exec' \in [Executions -> ExecType]
         /\ \A f \in Executions : f # e => exec'[f] = exec[f]
         /\ exec'[e] = Idle
         /\ orphaned' \subseteq Tasks
  BY IdleType, Becomes DEF End, TypeOK, HandlersPlaced, Placed

LEMMA InvokeFacts ==
  ASSUME TypeOK, NEW t \in Tasks, Invoke(t)
  PROVE  \E e \in Executions :
           /\ exec[e].pc = "idle"
           /\ exec' \in [Executions -> ExecType]
           /\ \A f \in Executions : f # e => exec'[f] = exec[f]
           /\ exec'[e] = Invoked(t)
<1>1. PICK e \in Executions : exec[e].pc = "idle" /\ Become(e, Invoked(t))
  BY DEF Invoke
<1>2. Invoked(t) \in ExecType
  BY IdleType DEF Invoked, ExecType, Pcs, Steps
<1>. QED  BY <1>1, <1>2, Becomes

\* failTask either fails the task or leaves every task alone.
LEMMA FailTaskFacts ==
  ASSUME TypeOK, NEW e \in Executions, NEW from, NEW release \in BOOLEAN,
         NEW then \in {"thrown", "checkpoint"}, FailTask(e, from, release, then),
         exec[e].task \in Tasks
  PROVE  /\ exec' \in [Executions -> ExecType]
         /\ \A f \in Executions : f # e => exec'[f] = exec[f]
         /\ SameWork(exec'[e], exec[e]) /\ exec'[e].step = exec[e].step
         /\ \/ /\ Allowed(exec[e].task, from, "FAILED")
               /\ status' = [status EXCEPT ![exec[e].task] = "FAILED"]
               /\ exec'[e].pc = IF release THEN "release" ELSE then
               /\ exec'[e].then = IF release THEN then ELSE "idle"
            \/ /\ status' = status
               /\ exec'[e].pc = then /\ exec'[e].then = "idle"
<1>1. {"idle", "release", "thrown", "checkpoint"} \subseteq Pcs
  BY DEF Pcs
<1>2. CASE Allowed(exec[e].task, from, "FAILED") /\ release
  BY <1>1, <1>2, GotoThenFacts DEF FailTask, SetStatus
<1>3. CASE Allowed(exec[e].task, from, "FAILED") /\ ~release
  BY <1>1, <1>3, GotoThenFacts DEF FailTask, SetStatus
<1>4. CASE ~Allowed(exec[e].task, from, "FAILED")
  BY <1>1, <1>4, GotoThenFacts DEF FailTask
<1>. QED  BY <1>2, <1>3, <1>4
-----------------------------------------------------------------------------
(***************************************************************************)
(* Type correctness.  ExecMoved and StoreKept say of a step of execution e *)
(* what FrameType needs.                                                   *)
(***************************************************************************)

ExecMoved(e) ==
    /\ exec' \in [Executions -> ExecType]
    /\ \A f \in Executions : f # e => exec'[f] = exec[f]
    /\ Placed(exec[e])'

RowsKept ==
    /\ status' \in [Tasks -> TaskStates]
    /\ \A t \in Tasks : status[t] # NoStatus => status'[t] # NoStatus

SessionsTyped ==
    /\ session' \in [Sessions -> SessionType]
    /\ \A s \in Sessions : session'[s].mode # "none" => session'[s].task \in Tasks

StoreKept ==
    /\ RowsKept /\ SessionsTyped
    /\ active' \in Nat
    /\ UNCHANGED <<pickup, recount>>
    /\ orphaned' \subseteq Tasks

LEMMA FrameType ==
  ASSUME TypeOK, HandlersPlaced, NEW e \in Executions, ExecMoved(e), StoreKept
  PROVE  TypeOK' /\ HandlersPlaced'
<1>1. TypeOK'
  BY DEF TypeOK, ExecMoved, StoreKept, RowsKept, SessionsTyped, ExecType, SessionType
<1>2. ASSUME NEW f \in Executions, f # e
      PROVE  Placed(exec[f])'
  BY <1>2 DEF HandlersPlaced, Placed, ExecMoved, StoreKept, RowsKept
<1>3. /\ pickup.pc \in {"invoke", "requeue"} =>
             pickup.task \in Tasks /\ status'[pickup.task] # NoStatus
      /\ \A t \in pickup.batch : status'[t] # NoStatus
  BY DEF TypeOK, HandlersPlaced, StoreKept, RowsKept
<1>. QED  BY <1>1, <1>2, <1>3 DEF HandlersPlaced, ExecMoved, StoreKept, SessionsTyped

\* A step that leaves all rows, or all sessions, alone.
LEMMA RowsUnchanged ==
  ASSUME TypeOK, UNCHANGED status
  PROVE  RowsKept
  BY DEF TypeOK, RowsKept

LEMMA SessionsUnchanged ==
  ASSUME TypeOK, HandlersPlaced, UNCHANGED session
  PROVE  SessionsTyped
  BY DEF TypeOK, HandlersPlaced, SessionsTyped, SessionType

\* A write to one row.
LEMMA RowWritten ==
  ASSUME TypeOK, NEW t \in Tasks, NEW s \in Statuses, status' = [status EXCEPT ![t] = s]
  PROVE  RowsKept
  BY NoRow DEF TypeOK, RowsKept, TaskStates

LEMMA StopHandleFacts ==
  ASSUME TypeOK, HandlersPlaced, NEW e \in Executions, StopHandle(e)
  PROVE  /\ SessionsTyped
         /\ \A s \in Sessions : /\ session'[s].task = session[s].task
                                /\ \/ session'[s] = session[s]
                                   \/ session'[s].mode = "gone"
<1>1. CASE UNCHANGED session
  BY <1>1, SessionsUnchanged
<1>2. CASE /\ exec[e].handle \in Sessions /\ Live(exec[e].handle)
           /\ session' = [session EXCEPT ![exec[e].handle].mode = "gone"]
  BY <1>2 DEF TypeOK, HandlersPlaced, SessionsTyped, SessionType, Live
<1>. QED  BY <1>1, <1>2 DEF StopHandle
\* Where a handler that has moved stands.
LEMMA MovedOn ==
  ASSUME TypeOK, HandlersPlaced, NEW e \in Executions, exec[e].pc # "idle", RowsKept,
         exec' \in [Executions -> ExecType],
         \A f \in Executions : f # e => exec'[f] = exec[f],
         exec'[e].task = exec[e].task, exec'[e].pc # "idle",
         FitsStep(exec'[e].pc, exec'[e].step, exec'[e].then)
  PROVE  ExecMoved(e)
  BY DEF ExecMoved, Placed, RowsKept, HandlersPlaced

LEMMA MovedToIdle ==
  ASSUME NEW e \in Executions,
         exec' \in [Executions -> ExecType],
         \A f \in Executions : f # e => exec'[f] = exec[f],
         exec'[e] = Idle
  PROVE  ExecMoved(e)
<1>1. FitsStep("idle", "load-task", "idle")
  BY DEF FitsStep, Steps
<1>. QED  BY <1>1 DEF ExecMoved, Placed, Idle

\* A step of an orchestrator execution keeps the types and leaves the
\* execution at a place that fits its durable step.
LEMMA OrchestrateType ==
  ASSUME TypeOK, HandlersPlaced, NEW e \in Executions, Orchestrate(e) \/ Interrupt(e)
  PROVE  ExecMoved(e) /\ StoreKept
<1> USE DEF At
<1>1. exec[e] \in ExecType /\ FitsStep(exec[e].pc, exec[e].step, exec[e].then)
  BY DEF TypeOK, HandlersPlaced, ExecType, Placed
<1>2. ASSUME exec[e].pc # "idle"
      PROVE  exec[e].task \in Tasks /\ status[exec[e].task] \in Statuses
  BY <1>2 DEF Placed, TypeOK, TaskStates, NoStatus, HandlersPlaced
<1>3. active \in Nat /\ orphaned \subseteq Tasks
  BY DEF TypeOK
<1>4. CASE LoadTask(e)
  <2> DEFINE r == [exec[e] EXCEPT !.pc = "load-blueprint", !.step = "load-blueprint",
                                    !.seen = status[exec[e].task]]
  <2>1. /\ r \in ExecType /\ r.task = exec[e].task /\ r.pc = "load-blueprint"
        /\ FitsStep(r.pc, r.step, r.then)
    BY <1>1, <1>2, <1>4 DEF LoadTask, ExecType, Pcs, Steps, TaskStates, FitsStep
  <2>2. Become(e, r)
    BY <1>4 DEF LoadTask
  <2>3. ExecMoved(e)
    <3>. HIDE DEF r
    <3>. QED  BY <1>2, <1>4, <2>1, <2>2, Becomes, MovedOn, RowsUnchanged DEF LoadTask
  <2>. QED  BY <1>3, <1>4, <2>3, RowsUnchanged, SessionsUnchanged DEF LoadTask, StoreKept
<1>5. CASE LoadBlueprint(e)
  <2>1. ExecMoved(e) /\ RowsKept
    <3>1. CASE Begin(e, "admission-control") /\ UNCHANGED status
      BY <1>5, <3>1, BeginFacts, RowsUnchanged, MovedOn
         DEF LoadBlueprint, Steps, SameWork, FitsStep
    <3>2. CASE FailTask(e, exec[e].seen, FALSE, "thrown")
      BY <1>1, <1>2, <1>5, <3>2, FailTaskFacts, RowsUnchanged, RowWritten, MovedOn, NoRow
         DEF LoadBlueprint, Steps, SameWork, FitsStep, TerminalStatuses
    <3>. QED  BY <1>5, <3>1, <3>2 DEF LoadBlueprint
  <2>. QED  BY <1>3, <1>5, <2>1, SessionsUnchanged DEF LoadBlueprint, StoreKept
<1>6. CASE RereadForAdmission(e)
  <2>1. ExecMoved(e) /\ orphaned' \subseteq Tasks
    <3>1. CASE End(e)
      BY <1>6, <3>1, EndFacts, MovedToIdle DEF RereadForAdmission
    <3>2. CASE Goto(e, "admit") /\ UNCHANGED orphaned
      BY <1>1, <1>3, <1>6, <3>2, GotoFacts, MovedOn, RowsUnchanged
         DEF RereadForAdmission, Steps, Pcs, SameWork, FitsStep
    <3>. QED  BY <1>6, <3>1, <3>2 DEF RereadForAdmission
  <2>. QED  BY <1>3, <1>6, <2>1, RowsUnchanged, SessionsUnchanged DEF RereadForAdmission, StoreKept
<1>7. CASE AdmissionControl(e)
  <2>1. ExecMoved(e) /\ active' \in Nat
    <3>1. CASE active < MaxConcurrent
      <4> DEFINE r == [exec[e] EXCEPT !.pc = "checkpoint", !.then = "pre-flight", !.slot = TRUE]
      <4>1. /\ r \in ExecType /\ r.task = exec[e].task /\ r.pc = "checkpoint"
            /\ FitsStep(r.pc, r.step, r.then)
        BY <1>1, <1>7 DEF AdmissionControl, ExecType, Pcs, Steps, FitsStep
      <4>2. Become(e, r) /\ active' = active + 1 /\ status' = status
        BY <1>7, <3>1 DEF AdmissionControl
      <4>. HIDE DEF r
      <4>. QED  BY <1>3, <1>7, <4>1, <4>2, Becomes, MovedOn, RowsUnchanged DEF AdmissionControl
    <3>2. CASE ~(active < MaxConcurrent)
      BY <1>1, <1>3, <1>7, <3>2, GotoFacts, MovedOn, RowsUnchanged
         DEF AdmissionControl, Steps, Pcs, SameWork, FitsStep
    <3>. QED  BY <3>1, <3>2
  <2>. QED  BY <1>3, <1>7, <2>1, RowsUnchanged, SessionsUnchanged DEF AdmissionControl, StoreKept
<1>8. CASE QueueTask(e)
  <2>1. RowsKept
    BY <1>2, <1>8, RowsUnchanged, RowWritten
       DEF QueueTask, SetStatus, Statuses, PreActiveStatuses
  <2>2. ExecMoved(e)
    <3>1. GotoThen(e, "checkpoint", "idle") /\ exec[e].pc = "queue"
      BY <1>8 DEF QueueTask
    <3>2. "checkpoint" \in Pcs /\ "idle" \in Pcs
      BY DEF Pcs
    <3>. QED  BY <1>1, <2>1, <3>1, <3>2, GotoThenFacts, MovedOn DEF Steps, SameWork, FitsStep
  <2>. QED  BY <1>3, <1>8, <2>1, <2>2, SessionsUnchanged DEF QueueTask, StoreKept
<1>9. CASE RereadForPreflight(e)
  <2>1. ExecMoved(e) /\ orphaned' \subseteq Tasks
    <3>1. CASE End(e)
      BY <1>9, <3>1, EndFacts, MovedToIdle DEF RereadForPreflight
    <3>2. CASE GotoWith(e, "preflight-checks", status[exec[e].task]) /\ UNCHANGED orphaned
      <4>1. status[exec[e].task] \in TaskStates
        BY <1>2, <1>9 DEF RereadForPreflight, TaskStates
      <4>. QED  BY <1>1, <1>3, <1>9, <3>2, <4>1, GotoWithFacts, MovedOn, RowsUnchanged
                DEF RereadForPreflight, Steps, Pcs, SameWork, FitsStep
    <3>. QED  BY <1>9, <3>1, <3>2 DEF RereadForPreflight
  <2>. QED  BY <1>3, <1>9, <2>1, RowsUnchanged, SessionsUnchanged DEF RereadForPreflight, StoreKept
<1>10. CASE PreflightChecks(e)
  <2>1. ExecMoved(e) /\ RowsKept
    <3>1. CASE Begin(e, "hydrate-context") /\ UNCHANGED status
      BY <1>10, <3>1, BeginFacts, RowsUnchanged, MovedOn
         DEF PreflightChecks, Steps, SameWork, FitsStep
    <3>2. CASE FailTask(e, exec[e].current, TRUE, "checkpoint")
      BY <1>1, <1>2, <1>10, <3>2, FailTaskFacts, RowsUnchanged, RowWritten, MovedOn, NoRow
         DEF PreflightChecks, Steps, SameWork, FitsStep, TerminalStatuses
    <3>3. CASE FailTask(e, exec[e].seen, TRUE, "thrown")
      BY <1>1, <1>2, <1>10, <3>3, FailTaskFacts, RowsUnchanged, RowWritten, MovedOn, NoRow
         DEF PreflightChecks, Steps, SameWork, FitsStep, TerminalStatuses
    <3>. QED  BY <1>10, <3>1, <3>2, <3>3 DEF PreflightChecks
  <2>. QED  BY <1>3, <1>10, <2>1, SessionsUnchanged DEF PreflightChecks, StoreKept
<1>11. CASE StartHydration(e)
  <2>1. ExecMoved(e) /\ RowsKept
    <3>1. CASE SetStatus(exec[e].task, "HYDRATING") /\ Goto(e, "hydrating")
      <4>1. RowsKept
        BY <1>2, <1>11, <3>1, RowWritten DEF StartHydration, SetStatus, Statuses, ActiveStatuses
      <4>. QED  BY <1>1, <1>11, <3>1, <4>1, GotoFacts, MovedOn
                DEF StartHydration, Steps, Pcs, SameWork, FitsStep
    <3>2. CASE FailTask(e, "HYDRATING", TRUE, "thrown")
      BY <1>1, <1>2, <1>11, <3>2, FailTaskFacts, RowsUnchanged, RowWritten, MovedOn, NoRow
         DEF StartHydration, Steps, SameWork, FitsStep, TerminalStatuses
    <3>. QED  BY <1>11, <3>1, <3>2 DEF StartHydration
  <2>. QED  BY <1>3, <1>11, <2>1, SessionsUnchanged DEF StartHydration, StoreKept
<1>12. CASE HydrateContext(e)
  <2>1. ExecMoved(e) /\ RowsKept
    <3>1. CASE Begin(e, "start-session") /\ UNCHANGED status
      BY <1>12, <3>1, BeginFacts, RowsUnchanged, MovedOn
         DEF HydrateContext, Steps, SameWork, FitsStep
    <3>2. CASE FailTask(e, "HYDRATING", TRUE, "thrown")
      BY <1>1, <1>2, <1>12, <3>2, FailTaskFacts, RowsUnchanged, RowWritten, MovedOn, NoRow
         DEF HydrateContext, Steps, SameWork, FitsStep, TerminalStatuses
    <3>. QED  BY <1>12, <3>1, <3>2 DEF HydrateContext
  <2>. QED  BY <1>3, <1>12, <2>1, SessionsUnchanged DEF HydrateContext, StoreKept
<1>13. CASE StartSession(e)
  <2>1. CASE /\ FailTask(e, "HYDRATING", TRUE, "thrown")
             /\ UNCHANGED session
    <3>1. ExecMoved(e) /\ RowsKept
      BY <1>1, <1>2, <1>13, <2>1, FailTaskFacts, RowsUnchanged, RowWritten, MovedOn, NoRow
         DEF StartSession, Steps, SameWork, FitsStep, TerminalStatuses
    <3>. QED  BY <1>3, <1>13, <2>1, <3>1, SessionsUnchanged DEF StartSession, StoreKept
  <2>2. ASSUME NEW s \in Sessions,
               session' = [session EXCEPT ![s] = [task |-> exec[e].task, mode |-> "booting"]],
               Become(e, [exec[e] EXCEPT !.pc = "session-started", !.handle = s]),
               UNCHANGED status
        PROVE  ExecMoved(e) /\ StoreKept
    <3> DEFINE r == [exec[e] EXCEPT !.pc = "session-started", !.handle = s]
    <3>1. /\ r \in ExecType /\ r.task = exec[e].task /\ r.pc = "session-started"
          /\ FitsStep(r.pc, r.step, r.then)
      BY <1>1, <1>13 DEF StartSession, ExecType, Pcs, Steps, FitsStep
    <3>2. Become(e, r)
      BY <2>2
    <3>3. ExecMoved(e)
      <4>. HIDE DEF r
      <4>. QED  BY <1>13, <2>2, <3>1, <3>2, Becomes, MovedOn, RowsUnchanged DEF StartSession
    <3>4. SessionsTyped
      BY <1>2, <1>13, <2>2 DEF StartSession, TypeOK, HandlersPlaced, SessionsTyped, SessionType
    <3>. QED  BY <1>3, <1>13, <2>2, <3>3, <3>4, RowsUnchanged DEF StartSession, StoreKept
  <2>. QED  BY <1>13, <2>1, <2>2 DEF StartSession
<1>14. CASE RecordSession(e)
  <2>1. SessionsTyped
    BY <1>14, SessionsUnchanged, StopHandleFacts DEF RecordSession
  <2>2. ExecMoved(e) /\ RowsKept
    <3>1. CASE FailTask(e, "HYDRATING", TRUE, "thrown")
      BY <1>1, <1>2, <1>14, <3>1, FailTaskFacts, RowsUnchanged, RowWritten, MovedOn, NoRow
         DEF RecordSession, Steps, SameWork, FitsStep, TerminalStatuses
    <3>2. CASE /\ SetStatus(exec[e].task, "RUNNING")
               /\ GotoThen(e, "checkpoint", "await-agent-completion") \/ Goto(e, "thrown")
      <4>1. RowsKept
        BY <1>2, <1>14, <3>2, RowWritten DEF RecordSession, SetStatus, Statuses, ActiveStatuses
      <4>2. exec[e].step = "start-session" /\ exec[e].pc = "session-started"
        BY <1>1, <1>14 DEF RecordSession, FitsStep
      <4>3. {"checkpoint", "await-agent-completion", "thrown"} \subseteq Pcs
        BY DEF Pcs, Steps
      <4>4. CASE GotoThen(e, "checkpoint", "await-agent-completion")
        BY <4>1, <4>2, <4>3, <4>4, GotoThenFacts, MovedOn DEF Steps, SameWork, FitsStep
      <4>5. CASE Goto(e, "thrown")
        BY <4>1, <4>2, <4>3, <4>5, GotoFacts, MovedOn DEF Steps, SameWork, FitsStep
      <4>. QED  BY <3>2, <4>1, <4>4, <4>5
    <3>. QED  BY <1>14, <3>1, <3>2 DEF RecordSession
  <2>. QED  BY <1>3, <1>14, <2>1, <2>2 DEF RecordSession, StoreKept
<1>15. CASE PollTaskStatus(e)
  <2>1. ExecMoved(e)
    <3>1. CASE Begin(e, "finalize")
      BY <1>15, <3>1, BeginFacts, RowsUnchanged, MovedOn
         DEF PollTaskStatus, Steps, SameWork, FitsStep
    <3>2. ASSUME NEW stale \in BOOLEAN,
                 Become(e, [exec[e] EXCEPT !.pc = "poll-check",
                                           !.current = status[exec[e].task],
                                           !.unhealthy = stale])
          PROVE  ExecMoved(e)
      <4> DEFINE r == [exec[e] EXCEPT !.pc = "poll-check",
                                      !.current = status[exec[e].task],
                                      !.unhealthy = stale]
      <4>1. /\ r \in ExecType /\ r.task = exec[e].task /\ r.pc = "poll-check"
            /\ FitsStep(r.pc, r.step, r.then)
        <5>1. /\ status[exec[e].task] \in TaskStates /\ "poll-check" \in Pcs
              /\ exec[e].step = "await-agent-completion"
          BY <1>1, <1>2, <1>15 DEF PollTaskStatus, At, Pcs, Steps, FitsStep, TaskStates
        <5>2. r \in ExecType
          BY <1>1, <5>1 DEF ExecType
        <5>3. /\ r.task = exec[e].task /\ r.pc = "poll-check"
              /\ r.step = exec[e].step /\ r.then = exec[e].then
          BY <1>1 DEF ExecType
        <5>. QED  BY <5>1, <5>2, <5>3 DEF FitsStep, Steps
      <4>2. Become(e, r)
        BY <3>2
      <4>. HIDE DEF r
      <4>. QED  BY <1>15, <4>1, <4>2, Becomes, MovedOn, RowsUnchanged DEF PollTaskStatus
    <3>. QED  BY <1>15, <3>1, <3>2 DEF PollTaskStatus
  <2>. QED  BY <1>3, <1>15, <2>1, RowsUnchanged, SessionsUnchanged DEF PollTaskStatus, StoreKept
<1>16. CASE SubstrateFailed(e)
  <2>1. RowsKept
    BY <1>2, <1>16, RowsUnchanged, RowWritten, NoRow
       DEF SubstrateFailed, SetStatus, TerminalStatuses
  <2> DEFINE r == [exec[e] EXCEPT !.pc = "finalize", !.step = "finalize",
                                  !.current = NoStatus, !.unhealthy = FALSE]
  <2>2. /\ r \in ExecType /\ r.task = exec[e].task /\ r.pc = "finalize"
        /\ FitsStep(r.pc, r.step, r.then)
    <3>1. "finalize" \in Pcs /\ "finalize" \in Steps /\ NoStatus \in TaskStates
      BY DEF Pcs, Steps, TaskStates
    <3>2. r \in ExecType
      BY <1>1, <3>1 DEF ExecType
    <3>3. r.task = exec[e].task /\ r.pc = "finalize" /\ r.step = "finalize"
      BY <1>1 DEF ExecType
    <3>. HIDE DEF r
    <3>. QED  BY <3>2, <3>3 DEF FitsStep
  <2>3. Become(e, r)
    BY <1>16 DEF SubstrateFailed
  <2>4. ExecMoved(e)
    <3>. HIDE DEF r
    <3>. QED  BY <1>16, <2>1, <2>2, <2>3, Becomes, MovedOn DEF SubstrateFailed
  <2>. QED  BY <1>3, <1>16, <2>1, <2>4, SessionsUnchanged DEF SubstrateFailed, StoreKept
<1>17. CASE WaitStrategy(e)
  <2>1. ExecMoved(e)
    BY <1>17, BeginFacts, RowsUnchanged, MovedOn DEF WaitStrategy, Steps, SameWork, FitsStep
  <2>. QED  BY <1>3, <1>17, <2>1, RowsUnchanged, SessionsUnchanged DEF WaitStrategy, StoreKept
<1>18. CASE FinalizeRead(e)
  <2>1. /\ exec[e].step = "finalize" /\ exec[e].pc # "idle"
        /\ status[exec[e].task] \in TaskStates /\ "finalize-write" \in Pcs
        /\ GotoWith(e, "finalize-write", status[exec[e].task])
    BY <1>1, <1>2, <1>18 DEF FinalizeRead, FitsStep, Steps, Pcs, TaskStates
  <2>2. ExecMoved(e)
    BY <1>18, <2>1, GotoWithFacts, MovedOn, RowsUnchanged
       DEF FinalizeRead, Steps, SameWork, FitsStep
  <2>. QED  BY <1>3, <1>18, <2>2, RowsUnchanged, SessionsUnchanged DEF FinalizeRead, StoreKept
<1>19. CASE FinalizeWrite(e)
  <2>1. RowsKept
    BY <1>2, <1>19, RowsUnchanged, RowWritten, NoRow
       DEF FinalizeWrite, SetStatus, FinalStatus, TerminalStatuses
  <2>2. /\ exec[e].step = "finalize" /\ exec[e].pc # "idle"
        /\ "release" \in Pcs /\ "cleanup" \in Pcs /\ GotoThen(e, "release", "cleanup")
    BY <1>1, <1>19 DEF FinalizeWrite, FitsStep, Pcs
  <2>3. ExecMoved(e)
    BY <2>1, <2>2, GotoThenFacts, MovedOn DEF Steps, SameWork, FitsStep
  <2>. QED  BY <1>3, <1>19, <2>1, <2>3, SessionsUnchanged DEF FinalizeWrite, StoreKept
<1>20. CASE Cleanup(e)
  <2>1. /\ exec[e].step = "finalize" /\ exec[e].pc # "idle"
        /\ "checkpoint" \in Pcs /\ "idle" \in Pcs /\ GotoThen(e, "checkpoint", "idle")
    BY <1>1, <1>20 DEF Cleanup, FitsStep, Pcs
  <2>2. ExecMoved(e)
    BY <1>20, <2>1, GotoThenFacts, MovedOn, RowsUnchanged DEF Cleanup, Steps, SameWork, FitsStep
  <2>. QED  BY <1>3, <1>20, <2>2, RowsUnchanged, StopHandleFacts DEF Cleanup, StoreKept
<1>21. CASE ReleaseSlot(e)
  <2> DEFINE r == [exec[e] EXCEPT !.pc = exec[e].then, !.then = "idle", !.slot = FALSE]
  <2>1. /\ r \in ExecType /\ r.task = exec[e].task /\ r.pc # "idle"
        /\ FitsStep(r.pc, r.step, r.then)
    BY <1>1, <1>21 DEF ReleaseSlot, ExecType, Pcs, Steps, FitsStep
  <2>2. Become(e, r)
    BY <1>21 DEF ReleaseSlot
  <2>3. ExecMoved(e)
    <3>. HIDE DEF r
    <3>. QED  BY <1>21, <2>1, <2>2, Becomes, MovedOn, RowsUnchanged DEF ReleaseSlot
  <2>4. active' \in Nat
    BY <1>3, <1>21 DEF ReleaseSlot, Decrement
  <2>. QED  BY <1>3, <1>21, <2>3, <2>4, RowsUnchanged, SessionsUnchanged DEF ReleaseSlot, StoreKept
<1>22. CASE Checkpoint(e)
  <2>1. ExecMoved(e) /\ orphaned' \subseteq Tasks
    <3>1. CASE End(e)
      BY <1>22, <3>1, EndFacts, MovedToIdle DEF Checkpoint
    <3>2. CASE /\ Begin(e, exec[e].then) /\ UNCHANGED orphaned
               /\ exec[e].then \in {"pre-flight", "await-agent-completion"}
      BY <1>3, <1>22, <3>2, BeginFacts, RowsUnchanged, MovedOn
         DEF Checkpoint, Steps, SameWork, FitsStep
    <3>. QED  BY <1>1, <1>22, <3>1, <3>2 DEF Checkpoint, FitsStep
  <2>. QED  BY <1>3, <1>22, <2>1, RowsUnchanged, SessionsUnchanged DEF Checkpoint, StoreKept
<1>23. CASE RetryStep(e)
  <2>1. exec[e].step \in Steps \ {"idle"} /\ exec[e].step \in Pcs /\ Goto(e, exec[e].step)
    BY <1>1, <1>23 DEF RetryStep, ExecType, Steps, Pcs
  <2>2. ExecMoved(e)
    BY <1>1, <1>23, <2>1, GotoFacts, MovedOn, RowsUnchanged
       DEF RetryStep, Steps, SameWork, FitsStep
  <2>. QED  BY <1>3, <1>23, <2>2, RowsUnchanged, SessionsUnchanged DEF RetryStep, StoreKept
<1>24. CASE GiveUp(e)
  <2>1. ExecMoved(e) /\ orphaned' \subseteq Tasks
    BY <1>24, EndFacts, MovedToIdle DEF GiveUp
  <2>. QED  BY <1>3, <1>24, <2>1, RowsUnchanged, SessionsUnchanged DEF GiveUp, StoreKept
<1>25. CASE Interrupt(e)
  <2>1. /\ exec[e].step \in Steps \ {"idle"} /\ exec[e].step \in Pcs /\ "idle" \in Pcs
        /\ GotoThen(e, exec[e].step, "idle") /\ exec[e].pc # "idle"
    BY <1>1, <1>25 DEF Interrupt, ExecType, Steps, Pcs
  <2>2. ExecMoved(e)
    BY <1>25, <2>1, GotoThenFacts, MovedOn, RowsUnchanged
       DEF Interrupt, Steps, SameWork, FitsStep
  <2>. QED  BY <1>3, <1>25, <2>2, RowsUnchanged, SessionsUnchanged DEF Interrupt, StoreKept
<1>. QED
  BY <1>4, <1>5, <1>6, <1>7, <1>8, <1>9, <1>10, <1>11, <1>12, <1>13, <1>14, <1>15, <1>16,
     <1>17, <1>18, <1>19, <1>20, <1>21, <1>22, <1>23, <1>24, <1>25 DEF Orchestrate
\* The agents, the user and the scheduled jobs.
LEMMA OthersType ==
  ASSUME TypeOK, HandlersPlaced, Next,
         ~ \E e \in Executions : Orchestrate(e) \/ Interrupt(e)
  PROVE  TypeOK' /\ HandlersPlaced'
<1> DEFINE Inv == TypeOK /\ HandlersPlaced
<1>1. ASSUME UNCHANGED exec, RowsKept, SessionsTyped, active' \in Nat,
             UNCHANGED <<pickup, recount, orphaned>>
      PROVE  Inv'
  <2>1. TypeOK'
    BY <1>1 DEF TypeOK, RowsKept, SessionsTyped, SessionType
  <2>2. \A e \in Executions : Placed(exec[e])'
    BY <1>1 DEF HandlersPlaced, Placed, RowsKept
  <2>. QED  BY <1>1, <2>1, <2>2 DEF TypeOK, HandlersPlaced, RowsKept, SessionsTyped
<1>2. ASSUME UNCHANGED exec, RowsKept, UNCHANGED session, UNCHANGED <<active, orphaned>>,
             pickup' \in [pc : {"idle", "count", "flip", "invoke", "requeue"},
                          batch : SUBSET Tasks, task : Tasks \cup {Nil}],
             recount' \in [pc : {"idle", "scanned", "counted"}, stored : Nat, count : Nat],
             pickup'.pc \in {"invoke", "requeue"} =>
               pickup'.task \in Tasks /\ status'[pickup'.task] # NoStatus,
             \A t \in pickup'.batch : status'[t] # NoStatus
      PROVE  Inv'
  <2>1. TypeOK'
    BY <1>2 DEF TypeOK, RowsKept
  <2>2. \A e \in Executions : Placed(exec[e])'
    BY <1>2 DEF HandlersPlaced, Placed, RowsKept
  <2>. QED  BY <1>2, <2>1, <2>2 DEF HandlersPlaced
<1>3. ASSUME NEW t \in Tasks, CreateTask(t)
      PROVE  Inv'
  <2>1. RowsKept /\ status'[t] = "SUBMITTED"
    BY <1>3, RowWritten DEF CreateTask, SetStatus, Statuses, ActiveStatuses, TypeOK
  <2>2. CASE UNCHANGED exec
    BY <1>1, <1>3, <2>1, <2>2, SessionsUnchanged DEF CreateTask, TypeOK
  <2>3. CASE Invoke(t)
    <3>1. PICK e \in Executions : /\ exec[e].pc = "idle"
                                  /\ exec' \in [Executions -> ExecType]
                                  /\ \A f \in Executions : f # e => exec'[f] = exec[f]
                                  /\ exec'[e] = Invoked(t)
      BY <2>3, InvokeFacts
    <3>2. Placed(exec[e])'
      BY <2>1, <3>1, NoRow DEF Placed, Invoked, Idle, FitsStep, Steps, NoStatus
    <3>. QED  BY <1>3, <2>1, <3>1, <3>2, FrameType, SessionsUnchanged
              DEF CreateTask, ExecMoved, StoreKept, TypeOK
  <2>. QED  BY <1>3, <2>2, <2>3 DEF CreateTask
<1>4. ASSUME NEW t \in Tasks, Cancel(t)
      PROVE  Inv'
  <2>1. RowsKept
    BY <1>4, RowWritten, NoRow DEF Cancel, SetStatus, TerminalStatuses
  <2>2. SessionsTyped
    BY <1>4, SessionsUnchanged DEF Cancel, SetMode, TypeOK, HandlersPlaced, SessionsTyped,
                                   SessionType, Live
  <2>. QED  BY <1>1, <1>4, <2>1, <2>2 DEF Cancel, TypeOK
<1>5. ASSUME NEW t \in Tasks, ExpireQueuedTask(t) \/ FailStrandedTask(t)
      PROVE  Inv'
  <2>1. RowsKept
    BY <1>5, RowWritten, NoRow DEF ExpireQueuedTask, FailStrandedTask, SetStatus, TerminalStatuses
  <2>2. active' \in Nat
    BY <1>5 DEF ExpireQueuedTask, FailStrandedTask, Decrement, TypeOK
  <2>. QED  BY <1>1, <1>5, <2>1, <2>2, SessionsUnchanged DEF ExpireQueuedTask, FailStrandedTask
<1>6. ASSUME NEW s \in Sessions, Agent(s)
      PROVE  Inv'
  <2>1. session[s].task \in Tasks /\ session[s] \in SessionType
    BY <1>6 DEF Agent, AgentStart, PauseForApproval, ResumeFromApproval, AgentFinish, AgentDies,
                Live, TypeOK, HandlersPlaced, SessionType
  <2>2. RowsKept
    BY <1>6, <2>1, RowWritten, RowsUnchanged
       DEF Agent, AgentStart, PauseForApproval, ResumeFromApproval, AgentFinish, AgentDies,
           SetStatus, Statuses, ActiveStatuses, TerminalStatuses
  <2>3. \E m \in {"working", "waiting", "gone"} : SetMode(s, m)
    BY <1>6 DEF Agent, AgentStart, PauseForApproval, ResumeFromApproval, AgentFinish, AgentDies
  <2>4. SessionsTyped
    BY <2>1, <2>3 DEF SetMode, TypeOK, HandlersPlaced, SessionsTyped, SessionType
  <2>. QED  BY <1>1, <1>6, <2>2, <2>4
            DEF Agent, AgentStart, PauseForApproval, ResumeFromApproval, AgentFinish, AgentDies,
                TypeOK
<1>7. CASE Recount
  <2>1. Cardinality(Counted) \in Nat
    BY ConstantsAssumption, FS_Subset, FS_CardinalityType DEF Counted
  <2>2. RowsKept /\ UNCHANGED <<exec, session, pickup, orphaned>>
    BY <1>7, RowsUnchanged DEF Recount, ScanCounter, CountActiveTasks, CorrectDrift
  <2>3. /\ active' \in Nat
        /\ recount' \in [pc : {"idle", "scanned", "counted"}, stored : Nat, count : Nat]
    <3>1. /\ recount \in [pc : {"idle", "scanned", "counted"}, stored : Nat, count : Nat]
          /\ active \in Nat /\ recount.count \in Nat
      BY DEF TypeOK
    <3>2. CASE ScanCounter
      BY <3>1, <3>2 DEF ScanCounter
    <3>3. CASE CountActiveTasks
      BY <2>1, <3>1, <3>3 DEF CountActiveTasks
    <3>4. CASE CorrectDrift
      BY <3>1, <3>4 DEF CorrectDrift, RecountIdle
    <3>. QED  BY <1>7, <3>2, <3>3, <3>4 DEF Recount
  <2>4. TypeOK'
    BY <2>2, <2>3 DEF TypeOK, RowsKept
  <2>5. \A e \in Executions : Placed(exec[e])'
    BY <2>2 DEF HandlersPlaced, Placed, RowsKept
  <2>. QED  BY <2>2, <2>4, <2>5 DEF HandlersPlaced, RowsKept, TypeOK
<1>8. CASE Pickup
  <2>1. CASE ListQueuedTasks
    BY <1>2, <2>1, RowsUnchanged DEF ListQueuedTasks, Queued, NoStatus, TypeOK
  <2>2. CASE ReadActiveCount
    BY <1>2, <2>2, RowsUnchanged DEF ReadActiveCount, TypeOK, HandlersPlaced
  <2>3. CASE PickUpTask
    <3>1. CASE pickup.batch = {}
      BY <1>2, <2>3, <3>1, RowsUnchanged DEF PickUpTask, PickupIdle, TypeOK
    <3>2. ASSUME NEW t \in pickup.batch, status[t] = "QUEUED", SetStatus(t, "SUBMITTED"),
                 pickup' = [pickup EXCEPT !.pc = "invoke", !.task = t, !.batch = @ \ {t}]
          PROVE  Inv'
      <4>1. t \in Tasks /\ RowsKept /\ status'[t] # NoStatus
        BY <3>2, RowWritten DEF TypeOK, SetStatus, Statuses, ActiveStatuses, NoStatus
      <4>. QED  BY <1>2, <2>3, <3>2, <4>1 DEF PickUpTask, TypeOK, HandlersPlaced, RowsKept
    <3>3. ASSUME NEW t \in pickup.batch, pickup' = [pickup EXCEPT !.batch = @ \ {t}],
                 UNCHANGED status
          PROVE  Inv'
      BY <1>2, <2>3, <3>3, RowsUnchanged DEF PickUpTask, TypeOK, HandlersPlaced
    <3>. QED  BY <2>3, <3>1, <3>2, <3>3 DEF PickUpTask
  <2>4. CASE InvokeOrchestrator
    <3>1. /\ pickup.task \in Tasks /\ status[pickup.task] # NoStatus
          /\ UNCHANGED <<status, active, session, recount, orphaned>>
      BY <2>4 DEF InvokeOrchestrator, HandlersPlaced
    <3>2. /\ pickup' \in [pc : {"idle", "count", "flip", "invoke", "requeue"},
                          batch : SUBSET Tasks, task : Tasks \cup {Nil}]
          /\ pickup'.batch = pickup.batch
          /\ pickup'.pc = "requeue" => pickup'.task = pickup.task
          /\ pickup'.pc # "invoke"
      BY <2>4 DEF InvokeOrchestrator, TypeOK
    <3>3. CASE UNCHANGED exec
      BY <1>2, <3>1, <3>2, <3>3, RowsUnchanged DEF TypeOK, HandlersPlaced
    <3>4. CASE Invoke(pickup.task)
      <4>1. PICK e \in Executions : /\ exec[e].pc = "idle"
                                    /\ exec' \in [Executions -> ExecType]
                                    /\ \A f \in Executions : f # e => exec'[f] = exec[f]
                                    /\ exec'[e] = Invoked(pickup.task)
        BY <3>1, <3>4, InvokeFacts
      <4>2. Placed(exec[e])'
        BY <3>1, <4>1 DEF Placed, Invoked, Idle, FitsStep, Steps
      <4>3. \A f \in Executions : Placed(exec[f])'
        BY <3>1, <4>1, <4>2 DEF HandlersPlaced, Placed
      <4>4. TypeOK'
        BY <3>1, <3>2, <4>1 DEF TypeOK, ExecType
      <4>. QED  BY <3>1, <3>2, <4>3, <4>4 DEF HandlersPlaced, TypeOK
    <3>. QED  BY <2>4, <3>3, <3>4 DEF InvokeOrchestrator
  <2>5. CASE RequeueAfterInvokeFailure
    <3>1. pickup.task \in Tasks
      BY <2>5 DEF RequeueAfterInvokeFailure, HandlersPlaced
    <3>2. RowsKept
      BY <2>5, <3>1, RowWritten, RowsUnchanged
         DEF RequeueAfterInvokeFailure, SetStatus, Statuses, PreActiveStatuses
    <3>. QED  BY <1>2, <2>5, <3>2 DEF RequeueAfterInvokeFailure, TypeOK, HandlersPlaced, RowsKept
  <2>6. CASE PickupDies
    BY <1>2, <2>6, RowsUnchanged DEF PickupDies, PickupIdle, TypeOK
  <2>. QED  BY <1>8, <2>1, <2>2, <2>3, <2>4, <2>5, <2>6 DEF Pickup
<1>9. CASE Settled
  <2>1. UNCHANGED vars
    BY <1>9 DEF Settled
  <2>. QED  BY <1>1, <2>1, RowsUnchanged, SessionsUnchanged DEF vars, TypeOK
<1>. QED  BY <1>3, <1>4, <1>5, <1>6, <1>7, <1>8, <1>9 DEF Next
LEMMA TypeStep ==
  ASSUME TypeOK, HandlersPlaced, [Next]_vars
  PROVE  TypeOK' /\ HandlersPlaced'
<1>1. CASE UNCHANGED vars
  <2>1. TypeOK'
    BY <1>1 DEF TypeOK, vars
  <2>2. \A e \in Executions : Placed(exec[e])'
    BY <1>1 DEF HandlersPlaced, Placed, vars
  <2>. QED  BY <1>1, <2>1, <2>2 DEF HandlersPlaced, vars
<1>2. ASSUME NEW e \in Executions, Orchestrate(e) \/ Interrupt(e)
      PROVE  TypeOK' /\ HandlersPlaced'
  BY <1>2, OrchestrateType, FrameType
<1>. QED  BY <1>1, <1>2, OthersType

LEMMA TypeInit ==
  ASSUME Init
  PROVE  TypeOK /\ HandlersPlaced
<1>1. TypeOK
  BY IdleType DEF Init, TypeOK, ExecType, TaskStates, Unused, PickupIdle, RecountIdle
<1>2. Placed(Idle)
  BY DEF Placed, Idle, FitsStep, Steps
<1>. QED  BY <1>1, <1>2 DEF Init, HandlersPlaced, Unused, PickupIdle

\* Every variable keeps its type, in any surroundings.
THEOREM TypeCorrect == Spec => []TypeOK
<1>1. Init => TypeOK /\ HandlersPlaced
  BY TypeInit
<1>2. TypeOK /\ HandlersPlaced /\ [Next]_vars => (TypeOK /\ HandlersPlaced)'
  BY TypeStep
<1>. QED  BY <1>1, <1>2, PTL DEF Spec
-----------------------------------------------------------------------------
(***************************************************************************)
(* How statuses change                                                     *)
(***************************************************************************)

\* A change of one status that the user may see.
Legal(from, to) ==
    /\ from \notin TerminalStatuses
    /\ from = NoStatus => to = "SUBMITTED"
    /\ to \in NotStarted => from \in NotStarted
    /\ to = "HYDRATING" => from = "SUBMITTED"

Rewritten(t, to) ==
    /\ to \in Statuses
    /\ Legal(status[t], to)
    /\ status' = [status EXCEPT ![t] = to]

OneRowMoves == \E t \in Tasks : \E to \in Statuses : Rewritten(t, to)

\* transitionTask never touches a task that has ended.
LEMMA AllowedFromLive ==
  ASSUME NEW t \in Tasks, NEW from, NEW to, Allowed(t, from, to)
  PROVE  status[t] = from /\ from \in Statuses /\ from \notin TerminalStatuses
  BY DEF Allowed, ValidTransitions, TerminalStatuses

LEMMA FailTaskMoves ==
  ASSUME NEW e \in Executions, exec[e].task \in Tasks,
         NEW from, NEW release, NEW then, FailTask(e, from, release, then)
  PROVE  UNCHANGED status \/ Rewritten(exec[e].task, "FAILED")
  BY AllowedFromLive, NoRow
     DEF FailTask, SetStatus, Rewritten, Legal, TerminalStatuses, NotStarted

LEMMA OrchestrateMoves ==
  ASSUME TypeOK, HandlersPlaced, NEW e \in Executions, Orchestrate(e) \/ Interrupt(e)
  PROVE  UNCHANGED status \/ OneRowMoves
<1> DEFINE t == exec[e].task
<1>1. CASE UNCHANGED status
  BY <1>1
<1>2. CASE exec[e].pc = "idle"
  BY <1>2 DEF Orchestrate, Interrupt, LoadTask, LoadBlueprint, RereadForAdmission,
      AdmissionControl, QueueTask, RereadForPreflight, PreflightChecks, StartHydration,
      HydrateContext, StartSession, RecordSession, PollTaskStatus, SubstrateFailed,
      WaitStrategy, FinalizeRead, FinalizeWrite, Cleanup, ReleaseSlot, Checkpoint, RetryStep,
      GiveUp, At
<1>3. CASE exec[e].pc # "idle"
  <2>1. t \in Tasks /\ "FAILED" \in Statuses
    BY <1>3, NoRow DEF HandlersPlaced, Placed, TerminalStatuses
  <2>2. ASSUME NEW from, NEW release, NEW then, FailTask(e, from, release, then)
        PROVE  UNCHANGED status \/ OneRowMoves
    BY <2>1, <2>2, FailTaskMoves DEF OneRowMoves
  <2>3. CASE LoadBlueprint(e) \/ PreflightChecks(e) \/ HydrateContext(e) \/ StartSession(e)
    BY <2>2, <2>3 DEF LoadBlueprint, PreflightChecks, HydrateContext, StartSession
  <2>4. CASE QueueTask(e)
    BY <2>1, <2>4, AllowedFromLive
       DEF QueueTask, SetStatus, OneRowMoves, Rewritten, Legal, NotStarted, Statuses,
           PreActiveStatuses, NoStatus
  <2>5. CASE StartHydration(e)
    <3>1. CASE Allowed(t, "SUBMITTED", "HYDRATING") /\ SetStatus(t, "HYDRATING")
      <4>1. Rewritten(t, "HYDRATING")
        BY <2>1, <3>1, AllowedFromLive
           DEF SetStatus, Rewritten, Legal, NotStarted, Statuses, ActiveStatuses, NoStatus
      <4>. QED  BY <2>1, <4>1 DEF OneRowMoves, Rewritten
    <3>. QED  BY <2>2, <2>5, <3>1 DEF StartHydration
  <2>6. CASE RecordSession(e)
    <3>1. CASE Allowed(t, "HYDRATING", "RUNNING") /\ SetStatus(t, "RUNNING")
      <4>1. Rewritten(t, "RUNNING")
        BY <2>1, <3>1, AllowedFromLive
           DEF SetStatus, Rewritten, Legal, NotStarted, Statuses, ActiveStatuses, NoStatus
      <4>. QED  BY <2>1, <4>1 DEF OneRowMoves, Rewritten
    <3>. QED  BY <2>2, <2>6, <3>1 DEF RecordSession
  <2>7. CASE SubstrateFailed(e)
    BY <2>1, <2>7, AllowedFromLive, NoRow
       DEF SubstrateFailed, SetStatus, OneRowMoves, Rewritten, Legal, NotStarted,
           TerminalStatuses
  <2>8. CASE FinalizeWrite(e)
    <3>1. FinalStatus(exec[e].current, exec[e].unhealthy) \in {"FAILED", "TIMED_OUT"}
      BY DEF FinalStatus
    <3>. QED  BY <2>1, <2>8, <3>1, AllowedFromLive, NoRow
              DEF FinalizeWrite, SetStatus, OneRowMoves, Rewritten, Legal, NotStarted,
                  TerminalStatuses
  <2>. QED
    BY <1>1, <2>3, <2>4, <2>5, <2>6, <2>7, <2>8
       DEF Orchestrate, Interrupt, LoadTask, RereadForAdmission, AdmissionControl,
           RereadForPreflight, PollTaskStatus, WaitStrategy, FinalizeRead, Cleanup,
           ReleaseSlot, Checkpoint, RetryStep, GiveUp
<1>. QED  BY <1>2, <1>3

\* No step changes two statuses, or one of them illegally.
LEMMA StatusMoves ==
  ASSUME TypeOK, HandlersPlaced, [Next]_vars
  PROVE  UNCHANGED status \/ OneRowMoves
<1> USE DEF SetStatus, OneRowMoves, Rewritten, Legal, NotStarted, Statuses, ActiveStatuses,
            PreActiveStatuses, TerminalStatuses, NoStatus
<1>1. CASE UNCHANGED vars
  BY <1>1 DEF vars
<1>2. ASSUME NEW e \in Executions, Orchestrate(e) \/ Interrupt(e)
      PROVE  UNCHANGED status \/ OneRowMoves
  BY <1>2, OrchestrateMoves
<1>3. ASSUME NEW t \in Tasks, CreateTask(t)
      PROVE  UNCHANGED status \/ OneRowMoves
  BY <1>3 DEF CreateTask
<1>4. ASSUME NEW t \in Tasks, Cancel(t) \/ ExpireQueuedTask(t) \/ FailStrandedTask(t)
      PROVE  UNCHANGED status \/ OneRowMoves
  BY <1>4 DEF Cancel, ExpireQueuedTask, FailStrandedTask
<1>5. ASSUME NEW s \in Sessions, Agent(s)
      PROVE  UNCHANGED status \/ OneRowMoves
  <2>1. session[s].task \in Tasks
    BY <1>5 DEF Agent, AgentStart, PauseForApproval, ResumeFromApproval, AgentFinish, AgentDies,
                Live, HandlersPlaced
  <2>2. CASE AgentStart(s)
    BY <2>1, <2>2 DEF AgentStart
  <2>3. CASE PauseForApproval(s)
    BY <2>1, <2>3 DEF PauseForApproval
  <2>4. CASE ResumeFromApproval(s)
    BY <2>1, <2>4 DEF ResumeFromApproval
  <2>5. CASE AgentFinish(s)
    BY <2>1, <2>5 DEF AgentFinish
  <2>6. CASE AgentDies(s)
    BY <2>6 DEF AgentDies
  <2>. QED  BY <1>5, <2>2, <2>3, <2>4, <2>5, <2>6 DEF Agent
<1>6. CASE Pickup
  <2>1. CASE PickUpTask
    BY <2>1 DEF PickUpTask, TypeOK
  <2>2. CASE RequeueAfterInvokeFailure
    BY <2>2 DEF RequeueAfterInvokeFailure, HandlersPlaced
  <2>. QED  BY <1>6, <2>1, <2>2
            DEF Pickup, ListQueuedTasks, ReadActiveCount, InvokeOrchestrator, PickupDies
<1>7. CASE Recount
  BY <1>7 DEF Recount, ScanCounter, CountActiveTasks, CorrectDrift
<1>8. CASE Settled
  BY <1>8 DEF Settled, vars
<1>. QED  BY <1>1, <1>2, <1>3, <1>4, <1>5, <1>6, <1>7, <1>8 DEF Next
-----------------------------------------------------------------------------
(***************************************************************************)
(* The promise to the user, without the cap                                *)
(***************************************************************************)

LEMMA PhaseOf ==
  /\ Phase(NoStatus) = "absent"
  /\ \A s \in NotStarted \ {NoStatus} : Phase(s) = "waiting"
  /\ \A s \in TerminalStatuses : Phase(s) = "ended"
  /\ \A s \in Statuses \ (NotStarted \cup TerminalStatuses) : Phase(s) = "active"
  BY DEF Phase, NotStarted, Statuses, PreActiveStatuses, ActiveStatuses, TerminalStatuses,
         NoStatus

\* A change of one status is a step of the abstract specification, once there
\* is room.
LEMMA MoveRefines ==
  ASSUME TypeOK, NEW t \in Tasks, NEW to \in Statuses, Rewritten(t, to)
  PROVE  \/ UNCHANGED <<phases, outcomes>>
         \/ /\ phases[t] = "absent"
            /\ phases' = [phases EXCEPT ![t] = "waiting"] /\ UNCHANGED outcomes
         \/ /\ phases[t] = "waiting"
            /\ phases' = [phases EXCEPT ![t] = "active"] /\ UNCHANGED outcomes
         \/ /\ phases[t] \in {"waiting", "active"}
            /\ phases' = [phases EXCEPT ![t] = "ended"]
            /\ \E o \in TerminalStatuses : outcomes' = [outcomes EXCEPT ![t] = o]
<1>1. /\ phases' = [phases EXCEPT ![t] = Phase(to)]
      /\ outcomes' = [outcomes EXCEPT ![t] = Outcome(to)]
      /\ phases[t] = Phase(status[t]) /\ outcomes[t] = Outcome(status[t])
  BY DEF TypeOK, phases, outcomes, Rewritten
<1>2. status[t] \in Statuses \cup {NoStatus} /\ status[t] \notin TerminalStatuses
  BY DEF TypeOK, TaskStates, Rewritten, Legal
<1>3. Outcome(status[t]) = "none"
  BY <1>2 DEF Outcome
<1>4. CASE to \in TerminalStatuses
  <2>1. Phase(to) = "ended" /\ Outcome(to) = to
    BY <1>4, PhaseOf DEF Outcome
  <2>2. status[t] # NoStatus
    BY <1>4 DEF Rewritten, Legal, TerminalStatuses
  <2>3. phases[t] \in {"waiting", "active"}
    BY <1>1, <1>2, <2>2, PhaseOf
  <2>. QED  BY <1>1, <1>4, <2>1, <2>3
<1>5. CASE to \in NotStarted
  <2>1. Phase(to) = "waiting" /\ Outcome(to) = "none"
    BY <1>5, PhaseOf, NoRow DEF Outcome, NotStarted, TerminalStatuses, NoStatus
  <2>2. phases[t] \in {"absent", "waiting"}
    BY <1>1, <1>5, PhaseOf DEF Rewritten, Legal
  <2>3. outcomes' = outcomes
    BY <1>1, <1>3, <2>1 DEF outcomes
  <2>. QED  BY <1>1, <2>1, <2>2, <2>3 DEF phases
<1>6. CASE to \notin TerminalStatuses \cup NotStarted
  <2>1. Phase(to) = "active" /\ Outcome(to) = "none"
    BY <1>6, PhaseOf DEF Outcome
  <2>2. phases[t] \in {"waiting", "active"}
    BY <1>1, <1>2, <1>6, PhaseOf DEF Rewritten, Legal, NotStarted
  <2>3. outcomes' = outcomes
    BY <1>1, <1>3, <2>1 DEF outcomes
  <2>. QED  BY <1>1, <2>1, <2>2, <2>3 DEF phases
<1>. QED  BY <1>4, <1>5, <1>6

LEMMA ContractInit ==
  ASSUME Init
  PROVE  Uncapped!Init /\ Capped!Init
<1>1. Phase(NoStatus) = "absent" /\ Outcome(NoStatus) = "none"
  BY PhaseOf, NoRow DEF Outcome
<1>. QED  BY <1>1 DEF Init, Uncapped!Init, Capped!Init, phases, outcomes

\* An instance has its own copy of Cardinality, with the same definition.
LEMMA SameCardinality ==
  \A S : Uncapped!Cardinality(S) = Cardinality(S) /\ Capped!Cardinality(S) = Cardinality(S)
  BY DEF Uncapped!Cardinality, Capped!Cardinality, Cardinality

LEMMA UncappedRoom ==
  Cardinality({t \in Tasks : phases[t] = "active"}) < Cardinality(Tasks) + 1
  BY ConstantsAssumption, FS_Subset, FS_CardinalityType

\* A task waits, is worked on and ends, and its outcome is for ever, in any
\* surroundings: the sweeps, the recount and the replays included.
THEOREM ContractKept == Spec => Contract
<1>1. Init => Uncapped!Init
  BY ContractInit
<1>2. ASSUME TypeOK, HandlersPlaced, [Next]_vars
      PROVE  [Uncapped!Next]_(Uncapped!cvars)
  <2>1. CASE UNCHANGED status
    BY <2>1 DEF Uncapped!cvars, phases, outcomes
  <2>2. CASE OneRowMoves
    <3>1. PICK t \in Tasks, to \in Statuses : Rewritten(t, to)
      BY <2>2 DEF OneRowMoves
    <3>2. CASE UNCHANGED <<phases, outcomes>>
      BY <3>2 DEF Uncapped!cvars
    <3>3. CASE /\ phases[t] = "absent"
               /\ phases' = [phases EXCEPT ![t] = "waiting"] /\ UNCHANGED outcomes
      BY <3>3 DEF Uncapped!Next, Uncapped!Submit
    <3>4. CASE /\ phases[t] = "waiting"
               /\ phases' = [phases EXCEPT ![t] = "active"] /\ UNCHANGED outcomes
      <4>1. Cardinality(Uncapped!Active) < Cardinality(Tasks) + 1
        BY UncappedRoom DEF Uncapped!Active
      <4>2. Uncapped!Admit(t)
        BY <3>4, <4>1, SameCardinality DEF Uncapped!Admit
      <4>. QED  BY <4>2 DEF Uncapped!Next
    <3>5. CASE /\ phases[t] \in {"waiting", "active"}
               /\ phases' = [phases EXCEPT ![t] = "ended"]
               /\ \E o \in TerminalStatuses : outcomes' = [outcomes EXCEPT ![t] = o]
      BY <3>5 DEF Uncapped!Next, Uncapped!Finish
    <3>. QED  BY <1>2, <3>1, <3>2, <3>3, <3>4, <3>5, MoveRefines
  <2>. QED  BY <1>2, <2>1, <2>2, StatusMoves
<1>3. TypeOK /\ HandlersPlaced /\ [Next]_vars => (TypeOK /\ HandlersPlaced)'
  BY TypeStep
<1>. QED  BY <1>1, <1>2, <1>3, TypeInit, PTL DEF Spec, Contract, Uncapped!Spec
-----------------------------------------------------------------------------
(***************************************************************************)
(* What one step of an execution may change about it.  The conjuncts say   *)
(* by which action it comes to drive its task, to await its session, to be *)
(* admitted, to hold a slot, and to reach each call of the later steps.    *)
(***************************************************************************)

IsDriving(r) ==
    r.pc = "hydrating" \/ r.step \in {"start-session", "await-agent-completion", "finalize"}

Shape(e) ==
    LET t == exec[e].task
        r == exec[e]
        q == exec'[e]
    IN
    /\ \A f \in Executions : f # e => exec'[f] = exec[f]
    /\ q = Idle \/ q.task = t
    /\ IsDriving(q) =>
         IsDriving(r) \/ (status[t] = "SUBMITTED" /\ status'[t] = "HYDRATING")
    /\ Polling(q) =>
         Polling(r) \/ (status[t] = "HYDRATING" /\ status'[t] = "RUNNING")
    /\ Awaiting(q) =>
         \/ Awaiting(r) \/ "finalize" \in Replays
         \/ Admitted(r) /\ status[t] = "HYDRATING" /\ q.slot = r.slot
    /\ Admitted(q) => Admitted(r) \/ q.slot
    /\ q.slot = r.slot \/ AdmissionControl(e) \/ ReleaseSlot(e) \/ End(e)
    /\ q.pc = "release" =>
         \/ Admitted(r) /\ status[t] \notin TerminalStatuses /\ status'[t] = "FAILED"
         \/ FinalizeWrite(e)
    /\ q.pc = "poll-check" => PollTaskStatus(e)
    /\ q.pc = "finalize" => \/ PollTaskStatus(e) \/ SubstrateFailed(e) \/ WaitStrategy(e)
                            \/ "finalize" \in Replays
    /\ q.pc = "finalize-write" => FinalizeRead(e)

LEMMA IdleShape == ~IsDriving(Idle) /\ ~Polling(Idle) /\ ~Awaiting(Idle) /\ ~Admitted(Idle) /\ ~Idle.slot
                   /\ Idle.pc = "idle"
  BY DEF Idle, IsDriving, Polling, Awaiting, Admitted

LEMMA EndShape ==
  ASSUME TypeOK, HandlersPlaced, NEW e \in Executions, End(e), exec[e].pc # "idle"
  PROVE  Shape(e)
  BY EndFacts, IdleShape DEF Shape

LEMMA FailTaskShape ==
  ASSUME TypeOK, HandlersPlaced, NEW e \in Executions, exec[e].pc # "idle",
         NEW from, NEW release \in BOOLEAN, NEW then \in {"thrown", "checkpoint"},
         FailTask(e, from, release, then), 
         release => exec[e].step \in {"pre-flight", "hydrate-context", "start-session"}
  PROVE  Shape(e)
<1>1. exec[e].task \in Tasks
  BY DEF HandlersPlaced, Placed
<1>2. Allowed(exec[e].task, from, "FAILED") => status[exec[e].task] \notin TerminalStatuses
  BY <1>1, AllowedFromLive
<1>. QED  BY <1>1, <1>2, FailTaskFacts
          DEF Shape, SameWork, IsDriving, Polling, Awaiting, Admitted, TypeOK

LEMMA OrchestrateShape ==
  ASSUME TypeOK, HandlersPlaced, NEW e \in Executions, Orchestrate(e) \/ Interrupt(e)
  PROVE  Shape(e)
<1> USE DEF At
<1>1. /\ exec[e] \in ExecType /\ FitsStep(exec[e].pc, exec[e].step, exec[e].then)
      /\ exec[e].step \in Steps
  BY DEF TypeOK, HandlersPlaced, ExecType, Placed
<1>2. Steps \subseteq Pcs /\ {"admit", "queue", "preflight-checks", "hydrating", "checkpoint",
         "thrown", "idle", "finalize-write", "release", "cleanup"} \subseteq Pcs
  BY DEF Pcs
<1>3. CASE LoadTask(e)
  <2> DEFINE r == [exec[e] EXCEPT !.pc = "load-blueprint", !.step = "load-blueprint",
                                  !.seen = status[exec[e].task]]
  <2>1. /\ r.pc = "load-blueprint" /\ r.step = "load-blueprint"
        /\ r.task = exec[e].task /\ r.slot = exec[e].slot
    BY <1>1 DEF ExecType
  <2>2. Become(e, r)
    BY <1>3 DEF LoadTask
  <2>. HIDE DEF r
  <2>. QED  BY <2>1, <2>2, Becomes DEF Shape, IsDriving, Polling, Awaiting, Admitted
<1>4. CASE LoadBlueprint(e)
  BY <1>1, <1>4, BeginFacts, FailTaskShape
     DEF LoadBlueprint, Shape, FitsStep, Steps, SameWork, IsDriving, Polling, Awaiting, Admitted
<1>5. CASE RereadForAdmission(e)
  BY <1>1, <1>2, <1>5, EndShape, GotoFacts
     DEF RereadForAdmission, Shape, FitsStep, Steps, SameWork, IsDriving, Polling, Awaiting, Admitted
<1>6. CASE AdmissionControl(e)
  <2>1. CASE Goto(e, "queue")
    BY <1>1, <1>2, <1>6, <2>1, GotoFacts
       DEF AdmissionControl, Shape, FitsStep, SameWork, IsDriving, Polling, Awaiting, Admitted
  <2> DEFINE r == [exec[e] EXCEPT !.pc = "checkpoint", !.then = "pre-flight", !.slot = TRUE]
  <2>2. CASE Become(e, r)
    <3>1. /\ r.pc = "checkpoint" /\ r.then = "pre-flight" /\ r.slot /\ r.task = exec[e].task
          /\ r.step = "admission-control"
      BY <1>1, <1>6 DEF AdmissionControl, ExecType, FitsStep
    <3>. HIDE DEF r
    <3>. QED  BY <1>6, <2>2, <3>1, Becomes DEF Shape, IsDriving, Polling, Awaiting, Admitted
  <2>. QED  BY <1>6, <2>1, <2>2 DEF AdmissionControl
<1>7. CASE QueueTask(e)
  <2>1. GotoThen(e, "checkpoint", "idle") /\ exec[e].pc = "queue"
    BY <1>7 DEF QueueTask
  <2>. QED  BY <1>1, <1>2, <2>1, GotoThenFacts
            DEF Shape, FitsStep, SameWork, IsDriving, Polling, Awaiting, Admitted
<1>8. CASE RereadForPreflight(e)
  <2>1. End(e) \/ GotoWith(e, "preflight-checks", status[exec[e].task])
    BY <1>8 DEF RereadForPreflight
  <2>2. exec[e].pc = "pre-flight" /\ status[exec[e].task] \in TaskStates
    BY <1>8 DEF RereadForPreflight, TypeOK, HandlersPlaced, Placed
  <2>. QED  BY <1>1, <1>2, <2>1, <2>2, EndShape, GotoWithFacts
            DEF Shape, FitsStep, Steps, SameWork, IsDriving, Polling, Awaiting, Admitted
<1>9. CASE PreflightChecks(e)
  BY <1>1, <1>9, BeginFacts, FailTaskShape
     DEF PreflightChecks, Shape, FitsStep, Steps, SameWork, IsDriving, Polling, Awaiting, Admitted
<1>10. CASE StartHydration(e)
  <2>1. CASE FailTask(e, "HYDRATING", TRUE, "thrown")
    BY <1>1, <1>10, <2>1, FailTaskShape DEF StartHydration, FitsStep, Steps
  <2>2. CASE /\ Allowed(exec[e].task, "SUBMITTED", "HYDRATING")
             /\ SetStatus(exec[e].task, "HYDRATING") /\ Goto(e, "hydrating")
    <3>1. /\ status[exec[e].task] = "SUBMITTED" /\ status'[exec[e].task] = "HYDRATING"
          /\ exec[e].step = "hydrate-context"
      BY <1>1, <1>10, <2>2
         DEF StartHydration, Allowed, SetStatus, TypeOK, HandlersPlaced, Placed, FitsStep, Steps
    <3>. QED  BY <1>1, <1>2, <2>2, <3>1, GotoFacts
              DEF Shape, SameWork, IsDriving, Polling, Awaiting, Admitted
  <2>. QED  BY <1>10, <2>1, <2>2 DEF StartHydration
<1>11. CASE HydrateContext(e)
  BY <1>1, <1>11, BeginFacts, FailTaskShape
     DEF HydrateContext, Shape, FitsStep, Steps, SameWork, IsDriving, Polling, Awaiting, Admitted
<1>12. CASE StartSession(e)
  <2>1. CASE FailTask(e, "HYDRATING", TRUE, "thrown")
    BY <1>1, <1>12, <2>1, FailTaskShape DEF StartSession, FitsStep, Steps
  <2>2. ASSUME NEW s \in Sessions,
               Become(e, [exec[e] EXCEPT !.pc = "session-started", !.handle = s])
        PROVE  Shape(e)
    <3> DEFINE r == [exec[e] EXCEPT !.pc = "session-started", !.handle = s]
    <3>1. /\ r.pc = "session-started" /\ r.task = exec[e].task /\ r.slot = exec[e].slot
          /\ r.step = exec[e].step
      BY <1>1 DEF ExecType
    <3>2. Become(e, r)
      BY <2>2
    <3>. HIDE DEF r
    <3>. QED  BY <3>1, <3>2, Becomes DEF Shape, IsDriving, Polling, Awaiting, Admitted
  <2>. QED  BY <1>12, <2>1, <2>2 DEF StartSession
<1>13. CASE RecordSession(e)
  <2>1. CASE FailTask(e, "HYDRATING", TRUE, "thrown")
    BY <1>1, <1>13, <2>1, FailTaskShape DEF RecordSession, FitsStep, Steps
  <2>2. CASE /\ Allowed(exec[e].task, "HYDRATING", "RUNNING")
             /\ SetStatus(exec[e].task, "RUNNING")
             /\ \/ GotoThen(e, "checkpoint", "await-agent-completion")
                \/ Goto(e, "thrown")
    <3>1. /\ status[exec[e].task] = "HYDRATING" /\ status'[exec[e].task] = "RUNNING"
          /\ exec[e].step = "start-session" /\ "await-agent-completion" \in Pcs
      BY <1>1, <1>13, <2>2
         DEF RecordSession, Allowed, SetStatus, TypeOK, HandlersPlaced, Placed, FitsStep, Steps,
             Pcs
    <3>. QED  BY <1>1, <1>2, <2>2, <3>1, GotoFacts, GotoThenFacts
              DEF Shape, SameWork, IsDriving, Polling, Awaiting, Admitted
  <2>. QED  BY <1>13, <2>1, <2>2 DEF RecordSession
<1>14. CASE PollTaskStatus(e)
  <2>1. CASE Begin(e, "finalize")
    BY <1>1, <1>14, <2>1, BeginFacts
       DEF PollTaskStatus, Shape, FitsStep, Steps, SameWork, IsDriving, Polling, Awaiting, Admitted
  <2>2. ASSUME NEW stale \in BOOLEAN,
               Become(e, [exec[e] EXCEPT !.pc = "poll-check",
                                         !.current = status[exec[e].task],
                                         !.unhealthy = stale])
        PROVE  Shape(e)
    <3> DEFINE r == [exec[e] EXCEPT !.pc = "poll-check", !.current = status[exec[e].task],
                                    !.unhealthy = stale]
    <3>1. /\ r.pc = "poll-check" /\ r.task = exec[e].task /\ r.slot = exec[e].slot
          /\ r.step = exec[e].step
      BY <1>1 DEF ExecType
    <3>2. Become(e, r) /\ exec[e].pc = "await-agent-completion"
      BY <1>14, <2>2 DEF PollTaskStatus
    <3>. HIDE DEF r
    <3>. QED  BY <1>1, <1>14, <3>1, <3>2, Becomes
              DEF Shape, IsDriving, Polling, Awaiting, Admitted, FitsStep
  <2>. QED  BY <1>14, <2>1, <2>2 DEF PollTaskStatus
<1>15. CASE SubstrateFailed(e)
  <2> DEFINE r == [exec[e] EXCEPT !.pc = "finalize", !.step = "finalize",
                                  !.current = NoStatus, !.unhealthy = FALSE]
  <2>1. /\ r.pc = "finalize" /\ r.task = exec[e].task /\ r.slot = exec[e].slot
        /\ r.step = "finalize"
    BY <1>1 DEF ExecType
  <2>2. Become(e, r) /\ exec[e].pc = "poll-check"
    BY <1>15 DEF SubstrateFailed
  <2>. HIDE DEF r
  <2>. QED  BY <1>1, <1>15, <2>1, <2>2, Becomes
            DEF Shape, IsDriving, Polling, Awaiting, Admitted, FitsStep
<1>16. CASE WaitStrategy(e)
  <2>1. /\ Begin(e, "finalize") \/ Begin(e, "await-agent-completion")
        /\ exec[e].pc = "poll-check" /\ exec[e].step = "await-agent-completion"
    BY <1>1, <1>16 DEF WaitStrategy, FitsStep
  <2>. QED  BY <1>16, <2>1, BeginFacts
            DEF Shape, Steps, SameWork, IsDriving, Polling, Awaiting, Admitted
<1>17. CASE FinalizeRead(e)
  <2>1. /\ exec[e].step = "finalize" /\ exec[e].pc = "finalize"
        /\ status[exec[e].task] \in TaskStates
        /\ GotoWith(e, "finalize-write", status[exec[e].task])
    BY <1>1, <1>17 DEF FinalizeRead, FitsStep, Steps, TypeOK, HandlersPlaced, Placed
  <2>. QED  BY <1>2, <1>17, <2>1, GotoWithFacts
            DEF Shape, SameWork, IsDriving, Polling, Awaiting, Admitted
<1>18. CASE FinalizeWrite(e)
  <2>1. GotoThen(e, "release", "cleanup") /\ exec[e].step = "finalize"
    BY <1>1, <1>18 DEF FinalizeWrite, FitsStep
  <2>. QED  BY <1>2, <1>18, <2>1, GotoThenFacts
            DEF Shape, SameWork, IsDriving, Polling, Awaiting, Admitted
<1>19. CASE Cleanup(e)
  <2>1. GotoThen(e, "checkpoint", "idle") /\ exec[e].step = "finalize"
    BY <1>1, <1>19 DEF Cleanup, FitsStep
  <2>. QED  BY <1>2, <2>1, GotoThenFacts DEF Shape, SameWork, IsDriving, Polling, Awaiting, Admitted
<1>20. CASE ReleaseSlot(e)
  <2> DEFINE r == [exec[e] EXCEPT !.pc = exec[e].then, !.then = "idle", !.slot = FALSE]
  <2>1. /\ r.pc = exec[e].then /\ r.then = "idle" /\ r.task = exec[e].task
        /\ r.step = exec[e].step
    BY <1>1 DEF ExecType
  <2>2. Become(e, r) /\ exec[e].pc = "release"
    BY <1>20 DEF ReleaseSlot
  <2>. HIDE DEF r
  <2>. QED  BY <1>1, <1>20, <2>1, <2>2, Becomes
            DEF Shape, IsDriving, Polling, Awaiting, Admitted, FitsStep
<1>21. CASE Checkpoint(e)
  <2>1. CASE End(e)
    BY <1>21, <2>1, EndShape DEF Checkpoint
  <2>2. CASE Begin(e, exec[e].then) /\ exec[e].then # "idle"
    BY <1>1, <1>21, <2>2, BeginFacts
       DEF Checkpoint, Shape, FitsStep, Steps, SameWork, IsDriving, Polling, Awaiting, Admitted
  <2>. QED  BY <1>21, <2>1, <2>2 DEF Checkpoint
<1>22. CASE RetryStep(e)
  <2>1. Goto(e, exec[e].step) /\ exec[e].pc = "thrown"
    BY <1>22 DEF RetryStep
  <2>. QED  BY <1>1, <1>2, <2>1, GotoFacts
            DEF Shape, FitsStep, SameWork, IsDriving, Polling, Awaiting, Admitted
<1>23. CASE GiveUp(e)
  BY <1>23, EndShape DEF GiveUp
<1>24. CASE Interrupt(e)
  <2>1. GotoThen(e, exec[e].step, "idle") /\ exec[e].step \in Replays
    BY <1>24 DEF Interrupt
  <2>2. exec[e].pc # "idle" /\ exec[e].pc # exec[e].step
    BY <1>24 DEF Interrupt
  <2>3. Awaiting(exec'[e]) => Awaiting(exec[e]) \/ "finalize" \in Replays
    <3>1. exec'[e].pc = exec[e].step /\ exec'[e].then = "idle"
      BY <1>1, <1>2, <2>1, GotoThenFacts
    <3>2. CASE exec[e].step = "await-agent-completion"
      <4>1. exec[e].pc = "poll-check"
        BY <1>1, <2>2, <3>2 DEF ExecType, FitsStep, Steps, Pcs
      <4>. QED  BY <4>1 DEF Awaiting
    <3>3. CASE exec[e].step = "finalize"
      BY <2>1, <3>3
    <3>. QED  BY <1>1, <3>1, <3>2, <3>3 DEF Awaiting, Steps
  <2>. QED  BY <1>1, <1>2, <2>1, <2>2, <2>3, GotoThenFacts
            DEF Shape, SameWork, IsDriving, Polling, Admitted, Steps
<1>. QED
  BY <1>3, <1>4, <1>5, <1>6, <1>7, <1>8, <1>9, <1>10, <1>11, <1>12, <1>13, <1>14, <1>15, <1>16,
     <1>17, <1>18, <1>19, <1>20, <1>21, <1>22, <1>23, <1>24 DEF Orchestrate
-----------------------------------------------------------------------------
(***************************************************************************)
(* One driver per task                                                     *)
(***************************************************************************)

\* An execution starts at load-task, with a new record.
Spawned(e) ==
    /\ exec[e].pc = "idle"
    /\ \A f \in Executions : f # e => exec'[f] = exec[f]
    /\ \E t \in Tasks : exec'[e] = Invoked(t)
    /\ UNCHANGED <<active, session, orphaned>>

\* Steps of the other actors leave the executions alone or spawn one.
LEMMA OthersShape ==
  ASSUME TypeOK, HandlersPlaced, [Next]_vars,
         ~ \E e \in Executions : Orchestrate(e) \/ Interrupt(e)
  PROVE  /\ UNCHANGED exec \/ \E e \in Executions : Spawned(e)
         /\ UNCHANGED orphaned
<1>1. ASSUME NEW t \in Tasks, Invoke(t), UNCHANGED <<active, session, orphaned>>
      PROVE  \E e \in Executions : Spawned(e)
  BY <1>1, InvokeFacts DEF Spawned
<1>2. ASSUME NEW t \in Tasks,
             CreateTask(t) \/ Cancel(t) \/ ExpireQueuedTask(t) \/ FailStrandedTask(t)
      PROVE  /\ UNCHANGED exec \/ \E e \in Executions : Spawned(e)
             /\ UNCHANGED orphaned
  BY <1>1, <1>2 DEF CreateTask, Cancel, ExpireQueuedTask, FailStrandedTask
<1>3. CASE Pickup
  <2>1. CASE InvokeOrchestrator
    BY <1>1, <2>1 DEF InvokeOrchestrator, HandlersPlaced
  <2>. QED  BY <1>3, <2>1 DEF Pickup, ListQueuedTasks, ReadActiveCount, PickUpTask,
                              RequeueAfterInvokeFailure, PickupDies
<1>4. ASSUME NEW s \in Sessions, Agent(s)
      PROVE  UNCHANGED <<exec, orphaned>>
  BY <1>4 DEF Agent, AgentStart, PauseForApproval, ResumeFromApproval, AgentFinish, AgentDies
<1>. QED  BY <1>2, <1>3, <1>4
          DEF Next, vars, Settled, Recount, ScanCounter, CountActiveTasks, CorrectDrift

\* A session is started by a driver and keeps its task.
LEMMA SessionMoves ==
  ASSUME TypeOK, HandlersPlaced, [Next]_vars, NEW s \in Sessions
  PROVE  \/ session'[s] = session[s]
         \/ Live(s) /\ session'[s].task = session[s].task /\ session'[s].mode # "none"
         \/ \E e \in Executions : /\ StartSession(e) /\ session[s] = Unused
                                  /\ session'[s] = [task |-> exec[e].task, mode |-> "booting"]
<1> DEFINE Goal == \/ session'[s] = session[s]
                   \/ /\ Live(s) /\ session'[s].task = session[s].task
                      /\ session'[s].mode # "none"
                   \/ \E e \in Executions :
                        /\ StartSession(e) /\ session[s] = Unused
                        /\ session'[s] = [task |-> exec[e].task, mode |-> "booting"]
<1>1. ASSUME NEW x \in Sessions, Live(x), NEW m \in {"working", "waiting", "gone"},
             SetMode(x, m)
      PROVE  Goal
  BY <1>1 DEF SetMode, TypeOK
<1>2. ASSUME NEW e \in Executions, StopHandle(e)
      PROVE  Goal
  BY <1>2 DEF StopHandle, TypeOK
<1>3. ASSUME NEW e \in Executions, StartSession(e)
      PROVE  Goal
  BY <1>3 DEF StartSession, TypeOK
<1>4. ASSUME NEW e \in Executions, Orchestrate(e) \/ Interrupt(e)
      PROVE  Goal
  BY <1>2, <1>3, <1>4 DEF Orchestrate, Interrupt, LoadTask, LoadBlueprint, RereadForAdmission,
      AdmissionControl, QueueTask, RereadForPreflight, PreflightChecks, StartHydration,
      HydrateContext, RecordSession, PollTaskStatus, SubstrateFailed,
      WaitStrategy, FinalizeRead, FinalizeWrite, Cleanup, ReleaseSlot, Checkpoint, RetryStep,
      GiveUp
<1>5. ASSUME NEW x \in Sessions, Agent(x)
      PROVE  Goal
  BY <1>1, <1>5 DEF Agent, AgentStart, PauseForApproval, ResumeFromApproval, AgentFinish,
      AgentDies, Live
<1>6. ASSUME NEW t \in Tasks,
             CreateTask(t) \/ Cancel(t) \/ ExpireQueuedTask(t) \/ FailStrandedTask(t)
      PROVE  Goal
  BY <1>1, <1>6 DEF CreateTask, Cancel, ExpireQueuedTask, FailStrandedTask
<1>7. CASE Pickup \/ Recount \/ Settled \/ UNCHANGED vars
  BY <1>7 DEF Pickup, ListQueuedTasks, ReadActiveCount, PickUpTask, InvokeOrchestrator,
      RequeueAfterInvokeFailure, PickupDies, Recount, ScanCounter, CountActiveTasks,
      CorrectDrift, Settled, vars
<1>. QED  BY <1>4, <1>5, <1>6, <1>7 DEF Next

\* A task that has been hydrated stays hydrated; one that has started never
\* hydrates again; an outcome stays.
LEMMA StatusStable ==
  ASSUME TypeOK, HandlersPlaced, [Next]_vars, NEW t \in Tasks
  PROVE  /\ status[t] \notin NotStarted => status'[t] \notin NotStarted
         /\ status[t] \notin NotStarted \cup {"HYDRATING"} =>
              status'[t] \notin NotStarted \cup {"HYDRATING"}
         /\ status[t] \in TerminalStatuses => status'[t] = status[t]
<1>1. CASE UNCHANGED status
  BY <1>1
<1>2. ASSUME NEW u \in Tasks, NEW to \in Statuses, Rewritten(u, to)
      PROVE  /\ status[t] \notin NotStarted => status'[t] \notin NotStarted
             /\ status[t] \notin NotStarted \cup {"HYDRATING"} =>
                  status'[t] \notin NotStarted \cup {"HYDRATING"}
             /\ status[t] \in TerminalStatuses => status'[t] = status[t]
  BY <1>2 DEF Rewritten, Legal, TypeOK, NotStarted
<1>. QED  BY <1>1, <1>2, StatusMoves DEF OneRowMoves

LEMMA InvokedShape ==
  ASSUME NEW t
  PROVE  LET r == Invoked(t) IN
         /\ ~IsDriving(r) /\ ~Polling(r) /\ ~Awaiting(r) /\ ~Admitted(r) /\ ~r.slot
         /\ r.pc = "load-task"
  BY DEF Invoked, Idle, IsDriving, Polling, Awaiting, Admitted

LEMMA DriverStep ==
  ASSUME TypeOK, HandlersPlaced, Started, OneDriver, [Next]_vars
  PROVE  Started' /\ OneDriver'
<1>1. TypeOK' /\ HandlersPlaced'
  BY TypeStep
<1>2. Driving = {e \in Executions : IsDriving(exec[e])}
      /\ Driving' = {e \in Executions : IsDriving(exec'[e])}
  BY DEF Driving, IsDriving, At
<1>3. \A e \in Executions : IsDriving(exec[e]) \/ Polling(exec[e]) => exec[e].task \in Tasks
  BY IdleShape DEF HandlersPlaced, Placed
<1>4. ASSUME NEW e \in Executions, Orchestrate(e) \/ Interrupt(e)
      PROVE  /\ \A f \in Executions : IsDriving(exec'[f]) =>
                  status'[exec'[f].task] \notin NotStarted
             /\ \A f \in Executions : Polling(exec'[f]) =>
                  status'[exec'[f].task] \notin NotStarted \cup {"HYDRATING"}
             /\ OneDriver'
  <2>1. Shape(e)
    BY <1>4, OrchestrateShape
  <2>2. exec'[e] = Idle \/ exec'[e].task = exec[e].task
    BY <2>1 DEF Shape
  <2>3. IsDriving(exec'[e]) =>
          /\ exec'[e].task = exec[e].task
          /\ \/ IsDriving(exec[e])
             \/ status[exec[e].task] = "SUBMITTED" /\ status'[exec[e].task] = "HYDRATING"
    BY <2>1, <2>2, IdleShape DEF Shape
  <2>4. Polling(exec'[e]) =>
          /\ exec'[e].task = exec[e].task
          /\ \/ Polling(exec[e])
             \/ status[exec[e].task] = "HYDRATING" /\ status'[exec[e].task] = "RUNNING"
    BY <2>1, <2>2, IdleShape DEF Shape
  <2>5. \A f \in Executions : f # e => exec'[f] = exec[f]
    BY <2>1 DEF Shape
  <2>6. \A f \in Executions : IsDriving(exec'[f]) => status'[exec'[f].task] \notin NotStarted
    BY <1>2, <1>3, <2>3, <2>5, StatusStable DEF Started, NotStarted, NoStatus
  <2>7. \A f \in Executions : Polling(exec'[f]) =>
           status'[exec'[f].task] \notin NotStarted \cup {"HYDRATING"}
    BY <1>3, <2>4, <2>5, StatusStable DEF Started, NotStarted, NoStatus
  <2>8. OneDriver'
    BY <1>2, <2>3, <2>5 DEF OneDriver, Started, NotStarted
  <2>. QED  BY <2>6, <2>7, <2>8
<1>5. ASSUME ~ \E e \in Executions : Orchestrate(e) \/ Interrupt(e)
      PROVE  /\ \A f \in Executions : IsDriving(exec'[f]) =>
                  status'[exec'[f].task] \notin NotStarted
             /\ \A f \in Executions : Polling(exec'[f]) =>
                  status'[exec'[f].task] \notin NotStarted \cup {"HYDRATING"}
             /\ OneDriver'
             /\ \A f \in Executions : exec'[f].pc = "poll-check" => exec'[f] = exec[f]
  <2>1. \A f \in Executions :
           exec'[f] = exec[f] \/ (~IsDriving(exec'[f]) /\ ~Polling(exec'[f])
                                  /\ exec'[f].pc = "load-task")
    BY <1>5, OthersShape, InvokedShape DEF Spawned
  <2>2. /\ \A f \in Executions : IsDriving(exec'[f]) =>
             status'[exec'[f].task] \notin NotStarted
        /\ \A f \in Executions : Polling(exec'[f]) =>
             status'[exec'[f].task] \notin NotStarted \cup {"HYDRATING"}
    BY <1>2, <1>3, <2>1, StatusStable DEF Started
  <2>. QED  BY <1>2, <2>1, <2>2 DEF OneDriver
<1>6. ASSUME NEW s \in Sessions, session'[s].mode # "none"
      PROVE  status'[session'[s].task] \notin NotStarted
  <2>1. CASE session[s].mode # "none" /\ session'[s].task = session[s].task
    BY <2>1, StatusStable DEF Started, HandlersPlaced
  <2>2. ASSUME NEW e \in Executions, StartSession(e),
               session'[s] = [task |-> exec[e].task, mode |-> "booting"]
        PROVE  status'[session'[s].task] \notin NotStarted
    <3>1. IsDriving(exec[e])
      BY <2>2 DEF StartSession, At, IsDriving, HandlersPlaced, Placed, FitsStep, Steps
    <3>. QED  BY <1>2, <1>3, <2>2, <3>1, StatusStable DEF Started
  <2>. QED  BY <1>6, <2>1, <2>2, SessionMoves DEF Live
<1>7. ASSUME NEW e \in Executions, exec'[e].pc = "poll-check"
      PROVE  exec'[e].current # "HYDRATING"
  <2>1. CASE exec'[e] = exec[e]
    BY <1>7, <2>1 DEF Started, At
  <2>2. ASSUME Orchestrate(e) \/ Interrupt(e)
        PROVE  exec'[e].current # "HYDRATING"
    <3>1. PollTaskStatus(e)
      BY <1>7, <2>2, OrchestrateShape DEF Shape
    <3>2. Polling(exec[e]) /\ status[exec[e].task] # "HYDRATING"
      BY <3>1 DEF PollTaskStatus, At, Polling, Started, HandlersPlaced, Placed, FitsStep, Steps
    <3>3. exec[e] \in ExecType
      BY DEF TypeOK, ExecType
    <3>4. exec'[e].current = status[exec[e].task] \/ exec'[e].pc = "finalize"
      <4>1. CASE Begin(e, "finalize")
        BY <4>1, BeginFacts DEF Steps
      <4>2. ASSUME NEW stale \in BOOLEAN,
                   Become(e, [exec[e] EXCEPT !.pc = "poll-check",
                                             !.current = status[exec[e].task],
                                             !.unhealthy = stale])
            PROVE  exec'[e].current = status[exec[e].task]
        <5> DEFINE r == [exec[e] EXCEPT !.pc = "poll-check",
                                        !.current = status[exec[e].task],
                                        !.unhealthy = stale]
        <5>1. r.current = status[exec[e].task]
          BY <3>3 DEF ExecType
        <5>2. Become(e, r)
          BY <4>2
        <5>. HIDE DEF r
        <5>. QED  BY <5>1, <5>2, Becomes
      <4>. QED  BY <3>1, <4>1, <4>2 DEF PollTaskStatus
    <3>. QED  BY <1>7, <3>2, <3>4
  <2>3. CASE \E f \in Executions : f # e /\ (Orchestrate(f) \/ Interrupt(f))
    BY <2>1, <2>3, OrchestrateShape DEF Shape
  <2>. QED  BY <1>5, <1>7, <2>1, <2>2, <2>3
<1>. QED  BY <1>2, <1>4, <1>5, <1>6, <1>7 DEF Started, At

\* However executions, retries and ambiguous invocations interleave, at most
\* one execution hydrates a task and starts its sessions.
THEOREM DriverUnique == Spec => []OneDriver
<1> DEFINE Inv == TypeOK /\ HandlersPlaced /\ Started /\ OneDriver
<1>1. Init => Inv
  <2>1. ASSUME Init PROVE Started /\ OneDriver
    BY <2>1, IdleShape DEF Init, Started, OneDriver, Driving, At, IsDriving, Unused
  <2>. QED  BY <2>1, TypeInit
<1>2. Inv /\ [Next]_vars => Inv'
  BY TypeStep, DriverStep
<1>3. Inv => OneDriver
  OBVIOUS
<1>. QED  BY <1>1, <1>2, <1>3, PTL DEF Spec

-----------------------------------------------------------------------------
(***************************************************************************)
(* The concurrency cap, for any number of tasks, executions and sessions,  *)
(* in undisturbed surroundings: IInv is inductive.                         *)
(***************************************************************************)

\* The facts of the previous state that every step below starts from.
Before ==
    /\ TypeOK /\ HandlersPlaced /\ RecountOff
    /\ Started /\ OneDriver /\ SlotsHeld /\ Verdicts

(***************************************************************************)
(* The jobs that are out of the picture                                    *)
(***************************************************************************)

LEMMA RecountStays ==
  ASSUME Undisturbed, RecountOff, [Next]_vars
  PROVE  RecountOff'
<1>1. ASSUME NEW e \in Executions, Orchestrate(e) \/ Interrupt(e)
      PROVE  UNCHANGED recount
  BY <1>1 DEF Orchestrate, Interrupt, LoadTask, LoadBlueprint, RereadForAdmission,
      AdmissionControl, QueueTask, RereadForPreflight, PreflightChecks, StartHydration,
      HydrateContext, StartSession, RecordSession, PollTaskStatus, SubstrateFailed,
      WaitStrategy, FinalizeRead, FinalizeWrite, Cleanup, ReleaseSlot, Checkpoint, RetryStep,
      GiveUp
<1>2. ASSUME NEW s \in Sessions, Agent(s)
      PROVE  UNCHANGED recount
  BY <1>2 DEF Agent, AgentStart, PauseForApproval, ResumeFromApproval, AgentFinish, AgentDies
<1>3. ASSUME NEW t \in Tasks,
             CreateTask(t) \/ Cancel(t) \/ ExpireQueuedTask(t) \/ FailStrandedTask(t)
      PROVE  UNCHANGED recount
  BY <1>3 DEF CreateTask, Cancel, ExpireQueuedTask, FailStrandedTask
<1>4. CASE Pickup
  BY <1>4 DEF RecountOff, Pickup, ListQueuedTasks, ReadActiveCount, PickUpTask,
      InvokeOrchestrator, RequeueAfterInvokeFailure, PickupDies
<1>5. CASE Recount
  BY <1>5 DEF Undisturbed, RecountOff, RecountIdle, Recount, ScanCounter, CountActiveTasks,
      CorrectDrift
<1>. QED  BY <1>1, <1>2, <1>3, <1>4, <1>5 DEF RecountOff, Next, Settled, vars

\* An execution changes the counter by an admission or a release, and orphans a
\* task by its end.
LEMMA CounterMoves ==
  ASSUME NEW e \in Executions, Orchestrate(e) \/ Interrupt(e)
  PROVE  /\ UNCHANGED active \/ AdmissionControl(e) \/ ReleaseSlot(e)
         /\ UNCHANGED orphaned \/ End(e)
  BY DEF Orchestrate, Interrupt, LoadTask, LoadBlueprint, RereadForAdmission,
      AdmissionControl, QueueTask, RereadForPreflight, PreflightChecks, StartHydration,
      HydrateContext, StartSession, RecordSession, PollTaskStatus, SubstrateFailed,
      WaitStrategy, FinalizeRead, FinalizeWrite, Cleanup, ReleaseSlot, Checkpoint, RetryStep,
      GiveUp

\* Nobody else changes either.
LEMMA CounterFixed ==
  ASSUME Undisturbed, RecountOff, [Next]_vars,
         ~ \E e \in Executions : Orchestrate(e) \/ Interrupt(e)
  PROVE  UNCHANGED <<active, orphaned>>
<1>1. ASSUME NEW s \in Sessions, Agent(s)
      PROVE  UNCHANGED <<active, orphaned>>
  BY <1>1 DEF Agent, AgentStart, PauseForApproval, ResumeFromApproval, AgentFinish, AgentDies
<1>2. ASSUME NEW t \in Tasks,
             CreateTask(t) \/ Cancel(t) \/ ExpireQueuedTask(t) \/ FailStrandedTask(t)
      PROVE  UNCHANGED <<active, orphaned>>
  BY <1>2 DEF Undisturbed, CreateTask, Cancel, ExpireQueuedTask, FailStrandedTask
<1>3. CASE Pickup
  BY <1>3 DEF Pickup, ListQueuedTasks, ReadActiveCount, PickUpTask, InvokeOrchestrator,
      RequeueAfterInvokeFailure, PickupDies
<1>4. CASE Recount
  BY <1>4 DEF Undisturbed, RecountOff, RecountIdle, Recount, ScanCounter, CountActiveTasks,
      CorrectDrift
<1>. QED  BY <1>1, <1>2, <1>3, <1>4 DEF Next, Settled, vars
-----------------------------------------------------------------------------
(***************************************************************************)
(* A task judged lost stays lost until it ends                             *)
(***************************************************************************)

\* Only its own agent takes a RUNNING task to another status than an outcome.
LEMMA LostKeepsStatus ==
  ASSUME TypeOK, HandlersPlaced, [Next]_vars, NEW t \in Tasks,
         status[t] = "RUNNING", ~HasLiveSession(t)
  PROVE  status'[t] \in {"RUNNING"} \cup TerminalStatuses
<1> DEFINE Goal == status'[t] \in {"RUNNING"} \cup TerminalStatuses
<1>0. status \in [Tasks -> TaskStates]
  BY DEF TypeOK
<1>1. ASSUME NEW e \in Executions, Orchestrate(e) \/ Interrupt(e)
      PROVE  Goal
  <2>1. CASE UNCHANGED status
    BY <2>1
  <2>2. CASE exec[e].pc = "idle"
    <3>1. UNCHANGED status
      BY <1>1, <2>2
         DEF Orchestrate, Interrupt, LoadTask, LoadBlueprint, RereadForAdmission,
             AdmissionControl, QueueTask, RereadForPreflight, PreflightChecks, StartHydration,
             HydrateContext, StartSession, RecordSession, PollTaskStatus, SubstrateFailed,
             WaitStrategy, FinalizeRead, FinalizeWrite, Cleanup, ReleaseSlot, Checkpoint,
             RetryStep, GiveUp, At
    <3>. QED  BY <3>1
  <2>3. CASE exec[e].pc # "idle"
    <3>1. exec[e].task \in Tasks
      BY <2>3 DEF HandlersPlaced, Placed
    <3>2. ASSUME NEW from, NEW release, NEW then, FailTask(e, from, release, then)
          PROVE  Goal
      BY <1>0, <3>1, <3>2 DEF FailTask, SetStatus, TerminalStatuses
    <3>3. CASE LoadBlueprint(e) \/ PreflightChecks(e) \/ HydrateContext(e) \/ StartSession(e)
      BY <3>2, <3>3 DEF LoadBlueprint, PreflightChecks, HydrateContext, StartSession
    <3>4. CASE QueueTask(e) \/ StartHydration(e) \/ RecordSession(e)
      BY <1>0, <3>1, <3>2, <3>4
         DEF QueueTask, StartHydration, RecordSession, Allowed, SetStatus
    <3>5. CASE SubstrateFailed(e)
      BY <1>0, <3>1, <3>5 DEF SubstrateFailed, SetStatus, TerminalStatuses
    <3>6. CASE FinalizeWrite(e)
      <4>1. FinalStatus(exec[e].current, exec[e].unhealthy) \in TerminalStatuses
        BY DEF FinalStatus, TerminalStatuses
      <4>. QED  BY <1>0, <3>1, <3>6, <4>1 DEF FinalizeWrite, SetStatus
    <3>. QED
      BY <1>1, <2>1, <3>3, <3>4, <3>5, <3>6
         DEF Orchestrate, Interrupt, LoadTask, RereadForAdmission, AdmissionControl,
             RereadForPreflight, PollTaskStatus, WaitStrategy, FinalizeRead, Cleanup,
             ReleaseSlot, Checkpoint, RetryStep, GiveUp
  <2>. QED  BY <2>2, <2>3
<1>2. ASSUME NEW s \in Sessions, Agent(s)
      PROVE  Goal
  <2>1. Live(s) => session[s].task # t
    BY DEF HasLiveSession
  <2>2. Live(s)
    BY <1>2 DEF Agent, AgentStart, PauseForApproval, ResumeFromApproval, AgentFinish,
        AgentDies, Live
  <2>3. session[s].task \in Tasks
    BY <2>2 DEF HandlersPlaced, Live
  <2>. QED  BY <1>0, <1>2, <2>1, <2>2, <2>3
       DEF Agent, AgentStart, PauseForApproval, ResumeFromApproval, AgentFinish, AgentDies,
           SetStatus
<1>3. ASSUME NEW u \in Tasks,
             CreateTask(u) \/ Cancel(u) \/ ExpireQueuedTask(u) \/ FailStrandedTask(u)
      PROVE  Goal
  BY <1>0, <1>3 DEF CreateTask, Cancel, ExpireQueuedTask, FailStrandedTask, SetStatus,
      TerminalStatuses, NoStatus
<1>4. CASE Pickup
  BY <1>0, <1>4 DEF Pickup, ListQueuedTasks, ReadActiveCount, PickUpTask, InvokeOrchestrator,
      RequeueAfterInvokeFailure, PickupDies, SetStatus, TypeOK, HandlersPlaced
<1>. QED  BY <1>1, <1>2, <1>3, <1>4
          DEF Next, vars, Settled, Recount, ScanCounter, CountActiveTasks, CorrectDrift

\* Nobody starts a session for a task whose driver is past its own start.
LEMMA NoNewSession ==
  ASSUME TypeOK, HandlersPlaced, OneDriver, [Next]_vars, NEW e \in Executions,
         exec[e].pc \in {"poll-check", "finalize", "finalize-write"},
         NEW t \in Tasks, exec[e].task = t, ~HasLiveSession(t)
  PROVE  ~HasLiveSession(t)'
<1>1. e \in Driving
  BY DEF HandlersPlaced, Placed, FitsStep, Steps, Driving, At
<1>2. ASSUME NEW s \in Sessions, session'[s].task = t, Live(s)'
      PROVE  FALSE
  <2>1. CASE session'[s] = session[s]
    BY <1>2, <2>1 DEF HasLiveSession, Live
  <2>2. CASE Live(s) /\ session'[s].task = session[s].task
    BY <1>2, <2>2 DEF HasLiveSession
  <2>3. ASSUME NEW f \in Executions, StartSession(f),
               session'[s] = [task |-> exec[f].task, mode |-> "booting"]
        PROVE  FALSE
    <3>1. f \in Driving /\ exec[f].pc = "start-session"
      BY <2>3 DEF StartSession, At, HandlersPlaced, Placed, FitsStep, Steps, Driving
    <3>. QED  BY <1>1, <1>2, <2>3, <3>1 DEF OneDriver
  <2>. QED  BY <1>2, <2>1, <2>2, <2>3, SessionMoves
<1>. QED  BY <1>2 DEF HasLiveSession

\* What Verdicts says of one execution.
Judged(e) ==
    LET r == exec[e]
        t == r.task
        Lost == r.unhealthy /\ status[t] = "RUNNING" /\ ~HasLiveSession(t)
    IN
    /\ r.pc = "poll-check" /\ r.unhealthy => status[t] \in TerminalStatuses \/ Lost
    /\ r.pc = "finalize" => status[t] \in TerminalStatuses \/ Lost
    /\ r.pc = "finalize-write" =>
         status[t] \in TerminalStatuses \/ (Lost /\ r.current = "RUNNING")

LEMMA JudgedStays ==
  ASSUME Before, [Next]_vars, NEW e \in Executions, exec'[e] = exec[e]
  PROVE  Judged(e)'
<1> DEFINE t == exec[e].task
<1>1. TypeOK /\ HandlersPlaced /\ OneDriver /\ Judged(e)
  BY DEF Before, Verdicts, Judged
<1>2. CASE exec[e].pc \in {"poll-check", "finalize", "finalize-write"}
  <2>1. t \in Tasks
    BY <1>1, <1>2 DEF HandlersPlaced, Placed
  <2>2. status[t] \in TerminalStatuses => status'[t] \in TerminalStatuses
    BY <1>1, <2>1, StatusStable
  <2>3. status[t] = "RUNNING" /\ ~HasLiveSession(t) =>
          /\ status'[t] \in {"RUNNING"} \cup TerminalStatuses
          /\ ~HasLiveSession(t)'
    BY <1>1, <1>2, <2>1, LostKeepsStatus, NoNewSession
  <2>. QED  BY <1>1, <2>2, <2>3 DEF Judged, HasLiveSession
<1>3. CASE exec[e].pc \notin {"poll-check", "finalize", "finalize-write"}
  BY <1>3 DEF Judged
<1>. QED  BY <1>2, <1>3
\* A verdict about e is passed by a poll or by a read, and is true when passed.
LEMMA JudgedStep ==
  ASSUME Undisturbed, Before, [Next]_vars, NEW e \in Executions, Orchestrate(e) \/ Interrupt(e)
  PROVE  Judged(e)'
<1> DEFINE t == exec[e].task
<1>1. TypeOK /\ HandlersPlaced /\ Judged(e) /\ Shape(e) /\ Started
  BY OrchestrateShape DEF Before, Verdicts, Judged
<1>2. exec[e] \in ExecType
  BY <1>1 DEF TypeOK, ExecType
<1>3. ASSUME UNCHANGED session, NEW u
      PROVE  HasLiveSession(u)' <=> HasLiveSession(u)
  BY <1>3 DEF HasLiveSession, Live
<1>4. ASSUME exec'[e].pc = "poll-check"
      PROVE  Judged(e)'
  <2>1. PollTaskStatus(e)
    BY <1>1, <1>4 DEF Shape
  <2>2. ~Begin(e, "finalize")
    BY <1>1, <1>4, BeginFacts DEF Steps
  <2>3. PICK stale \in BOOLEAN :
          /\ stale => /\ status[t] = "RUNNING"
                      /\ ~HasLiveSession(t) \/ "staleBeat" \in Environment
          /\ Become(e, [exec[e] EXCEPT !.pc = "poll-check", !.current = status[t],
                                       !.unhealthy = stale])
    BY <2>1, <2>2 DEF PollTaskStatus
  <2> DEFINE r == [exec[e] EXCEPT !.pc = "poll-check", !.current = status[t],
                                  !.unhealthy = stale]
  <2>4. r.unhealthy = stale /\ r.task = t /\ r.pc = "poll-check"
    BY <1>2 DEF ExecType
  <2>5. Become(e, r) /\ UNCHANGED <<status, session>>
    BY <2>1, <2>3 DEF PollTaskStatus
  <2>. HIDE DEF r
  <2>6. exec'[e].unhealthy = stale /\ exec'[e].task = t
    BY <1>1, <2>4, <2>5, Becomes
  <2>. QED  BY <1>3, <1>4, <2>3, <2>5, <2>6 DEF Judged, Undisturbed
<1>5. ASSUME exec'[e].pc = "finalize"
      PROVE  Judged(e)'
  <2>1. CASE PollTaskStatus(e)
    <3>1. status[t] \in TerminalStatuses
      <4>1. ASSUME NEW stale \in BOOLEAN,
                   Become(e, [exec[e] EXCEPT !.pc = "poll-check", !.current = status[t],
                                             !.unhealthy = stale])
            PROVE  exec'[e].pc = "poll-check"
        <5> DEFINE r == [exec[e] EXCEPT !.pc = "poll-check", !.current = status[t],
                                        !.unhealthy = stale]
        <5>1. r.pc = "poll-check" /\ Become(e, r)
          BY <1>2, <4>1 DEF ExecType
        <5>. HIDE DEF r
        <5>. QED  BY <1>1, <5>1, Becomes
      <4>. QED  BY <1>5, <2>1, <4>1 DEF PollTaskStatus
    <3>2. UNCHANGED status /\ exec'[e].task = t
      BY <1>1, <1>5, <2>1, IdleShape DEF PollTaskStatus, Shape
    <3>. QED  BY <1>5, <3>1, <3>2 DEF Judged
  <2>2. CASE SubstrateFailed(e)
    <3>1. /\ status[t] \in Statuses \ TerminalStatuses /\ t \in Tasks
          /\ IF Allowed(t, status[t], "FAILED") THEN SetStatus(t, "FAILED")
             ELSE UNCHANGED status
      BY <1>1, <2>2 DEF SubstrateFailed, At, Undisturbed, HandlersPlaced, Placed, TypeOK,
                        TaskStates
    <3>2. Allowed(t, status[t], "FAILED")
      BY <3>1 DEF Allowed, ValidTransitions, Statuses, PreActiveStatuses, ActiveStatuses,
                  TerminalStatuses
    <3>3. status'[t] = "FAILED" /\ exec'[e].task = t
      BY <1>1, <1>5, <3>1, <3>2, IdleShape DEF SetStatus, TypeOK, Shape
    <3>. QED  BY <1>5, <3>3 DEF Judged, TerminalStatuses
  <2>3. CASE WaitStrategy(e)
    <3>1. exec[e].pc = "poll-check" /\ exec[e].current # "HYDRATING"
      BY <1>1, <2>3 DEF WaitStrategy, At, Started
    <3>2. Begin(e, "finalize") /\ exec[e].unhealthy
      <4>1. CASE Begin(e, "await-agent-completion")
        BY <1>1, <1>5, <4>1, BeginFacts DEF Steps
      <4>. QED  BY <2>3, <3>1, <4>1 DEF WaitStrategy, Undisturbed
    <3>3. SameWork(exec'[e], exec[e]) /\ UNCHANGED <<status, session>>
      BY <1>1, <2>3, <3>2, BeginFacts DEF Steps, WaitStrategy
    <3>. QED  BY <1>1, <1>3, <1>5, <3>1, <3>2, <3>3 DEF Judged, SameWork
  <2>. QED  BY <1>1, <1>5, <2>1, <2>2, <2>3 DEF Shape, Undisturbed
<1>6. ASSUME exec'[e].pc = "finalize-write"
      PROVE  Judged(e)'
  <2>1. FinalizeRead(e)
    BY <1>1, <1>6 DEF Shape
  <2>2. exec[e].pc = "finalize" /\ status[t] \in TaskStates /\ "finalize-write" \in Pcs
    BY <1>1, <2>1 DEF FinalizeRead, At, TypeOK, HandlersPlaced, Placed, Pcs
  <2>3. /\ SameWork(exec'[e], exec[e]) /\ exec'[e].current = status[t]
        /\ UNCHANGED <<status, session>>
    BY <1>1, <2>1, <2>2, GotoWithFacts DEF FinalizeRead
  <2>. QED  BY <1>1, <1>3, <1>6, <2>2, <2>3 DEF Judged, SameWork
<1>. QED  BY <1>4, <1>5, <1>6 DEF Judged

LEMMA VerdictsStep ==
  ASSUME Undisturbed, Before, [Next]_vars
  PROVE  Verdicts'
<1>1. ASSUME NEW e \in Executions
      PROVE  Judged(e)'
  <2>1. CASE exec'[e] = exec[e]
    BY <2>1, JudgedStays
  <2>2. CASE Orchestrate(e) \/ Interrupt(e)
    BY <2>2, JudgedStep
  <2>3. CASE \E f \in Executions : f # e /\ (Orchestrate(f) \/ Interrupt(f))
    BY <2>1, <2>3, OrchestrateShape DEF Shape, Before
  <2>4. CASE ~ \E f \in Executions : Orchestrate(f) \/ Interrupt(f)
    <3>1. exec'[e] = exec[e] \/ \E t \in Tasks : exec'[e] = Invoked(t)
      BY <2>4, OthersShape DEF Spawned, Before
    <3>2. ASSUME NEW t \in Tasks, exec'[e] = Invoked(t)
          PROVE  Judged(e)'
      BY <3>2, InvokedShape DEF Judged
    <3>. QED  BY <2>1, <3>1, <3>2
  <2>. QED  BY <2>2, <2>3, <2>4
<1>. QED  BY <1>1 DEF Verdicts, Judged
-----------------------------------------------------------------------------
(***************************************************************************)
(* An execution holds its slot from admission until its task has ended     *)
(***************************************************************************)

\* What SlotsHeld says of one execution.
Holds(e) ==
    LET r == exec[e] IN
    /\ Admitted(r) => r.slot \/ status[r.task] \in TerminalStatuses
    /\ Awaiting(r) => r.slot
    /\ r.pc = "release" => r.slot /\ status[r.task] \in TerminalStatuses

\* A handler that moves was at work.
LEMMA AtWork ==
  ASSUME NEW e \in Executions, Orchestrate(e) \/ Interrupt(e)
  PROVE  exec[e].pc # "idle"
  BY DEF Orchestrate, Interrupt, LoadTask, LoadBlueprint, RereadForAdmission,
      AdmissionControl, QueueTask, RereadForPreflight, PreflightChecks, StartHydration,
      HydrateContext, StartSession, RecordSession, PollTaskStatus, SubstrateFailed,
      WaitStrategy, FinalizeRead, FinalizeWrite, Cleanup, ReleaseSlot, Checkpoint, RetryStep,
      GiveUp, At

\* How the slot of e changes, and the counter with it.
LEMMA SlotMoves ==
  ASSUME Before, NEW e \in Executions, Orchestrate(e) \/ Interrupt(e)
  PROVE  \/ exec'[e].slot = exec[e].slot /\ UNCHANGED <<active, orphaned>>
         \/ /\ exec'[e].slot /\ exec'[e].pc = "checkpoint" /\ exec'[e].task = exec[e].task
            /\ active < MaxConcurrent /\ active' = active + 1 /\ UNCHANGED <<status, orphaned>>
         \/ /\ exec[e].pc = "release" /\ ~exec'[e].slot
            /\ exec'[e].pc \in {"checkpoint", "thrown", "cleanup"} /\ exec'[e].then = "idle"
            /\ exec'[e].task = exec[e].task
            /\ Decrement /\ UNCHANGED <<status, orphaned>>
         \/ exec'[e] = Idle /\ End(e) /\ UNCHANGED active
<1>1. /\ TypeOK /\ HandlersPlaced /\ Shape(e) /\ exec[e] \in ExecType
      /\ FitsStep(exec[e].pc, exec[e].step, exec[e].then) /\ "queue" \in Pcs
  BY OrchestrateShape DEF Before, TypeOK, ExecType, HandlersPlaced, Placed, Pcs
<1>2. CASE AdmissionControl(e)
  <2> DEFINE r == [exec[e] EXCEPT !.pc = "checkpoint", !.then = "pre-flight", !.slot = TRUE]
  <2>1. r.slot /\ r.pc = "checkpoint" /\ r.task = exec[e].task
    BY <1>1 DEF ExecType
  <2>2. CASE Goto(e, "queue") /\ UNCHANGED active
    BY <1>1, <1>2, <2>2, GotoFacts DEF SameWork, AdmissionControl
  <2>3. CASE active < MaxConcurrent /\ active' = active + 1 /\ Become(e, r)
    <3>. HIDE DEF r
    <3>. QED  BY <1>1, <1>2, <2>1, <2>3, Becomes DEF AdmissionControl
  <2>. QED  BY <1>2, <2>2, <2>3 DEF AdmissionControl
<1>3. CASE ReleaseSlot(e)
  <2> DEFINE r == [exec[e] EXCEPT !.pc = exec[e].then, !.then = "idle", !.slot = FALSE]
  <2>1. ~r.slot /\ r.pc = exec[e].then /\ r.then = "idle" /\ r.task = exec[e].task
    BY <1>1 DEF ExecType
  <2>2. /\ Become(e, r) /\ exec[e].pc = "release"
        /\ Decrement /\ UNCHANGED <<status, orphaned>>
    BY <1>3 DEF ReleaseSlot, At
  <2>3. exec[e].then \in {"checkpoint", "thrown", "cleanup"}
    BY <1>1, <2>2 DEF FitsStep
  <2>. HIDE DEF r
  <2>. QED  BY <1>1, <2>1, <2>2, <2>3, Becomes
<1>4. CASE UNCHANGED active /\ End(e)
  BY <1>1, <1>4, AtWork, EndFacts
<1>5. CASE UNCHANGED <<active, orphaned>> /\ ~End(e) /\ ~AdmissionControl(e) /\ ~ReleaseSlot(e)
  BY <1>1, <1>5 DEF Shape
<1>. QED  BY <1>2, <1>3, <1>4, <1>5, CounterMoves

LEMMA HoldsStays ==
  ASSUME Before, [Next]_vars, NEW e \in Executions, exec'[e] = exec[e]
  PROVE  Holds(e)'
<1>1. TypeOK /\ HandlersPlaced /\ Holds(e)
  BY DEF Before, SlotsHeld, Holds
<1>2. CASE exec[e].pc = "idle"
  <2>1. exec[e] = Idle
    BY <1>1, <1>2 DEF HandlersPlaced, Placed
  <2>. QED  BY <2>1, IdleShape DEF Holds
<1>3. CASE exec[e].pc # "idle"
  <2>1. status[exec[e].task] \in TerminalStatuses => status'[exec[e].task] \in TerminalStatuses
    BY <1>1, <1>3, StatusStable DEF HandlersPlaced, Placed
  <2>. QED  BY <1>1, <2>1 DEF Holds
<1>. QED  BY <1>2, <1>3

\* finalizeTask's write always finds a task that has ended or ends it.
LEMMA FinalizeEnds ==
  ASSUME Before, NEW e \in Executions, FinalizeWrite(e)
  PROVE  status'[exec[e].task] \in TerminalStatuses
<1> DEFINE t == exec[e].task
<1>1. /\ t \in Tasks /\ exec[e].pc = "finalize-write" /\ TypeOK
      /\ \/ status[t] \in TerminalStatuses
         \/ exec[e].unhealthy /\ status[t] = "RUNNING" /\ exec[e].current = "RUNNING"
  BY DEF Before, FinalizeWrite, At, Verdicts, HandlersPlaced, Placed
<1>2. CASE status[t] \in TerminalStatuses
  <2>1. ~Allowed(t, exec[e].current, FinalStatus(exec[e].current, exec[e].unhealthy))
    BY <1>1, <1>2, AllowedFromLive
  <2>. QED  BY <1>2, <2>1 DEF FinalizeWrite
<1>3. CASE /\ exec[e].unhealthy /\ status[t] = "RUNNING" /\ exec[e].current = "RUNNING"
  <2>1. Allowed(t, "RUNNING", "FAILED")
    BY <1>3 DEF Allowed, ValidTransitions, Statuses, ActiveStatuses
  <2>2. FinalStatus(exec[e].current, exec[e].unhealthy) = "FAILED"
    BY <1>3 DEF FinalStatus
  <2>. QED  BY <1>1, <1>3, <2>1, <2>2 DEF FinalizeWrite, SetStatus, TypeOK, TerminalStatuses
<1>. QED  BY <1>1, <1>2, <1>3

LEMMA HoldsStep ==
  ASSUME Undisturbed, Before, [Next]_vars, NEW e \in Executions, Orchestrate(e) \/ Interrupt(e)
  PROVE  Holds(e)'
<1> DEFINE t == exec[e].task
           r == exec[e]
           q == exec'[e]
<1>1. TypeOK /\ HandlersPlaced /\ Holds(e) /\ Shape(e)
  BY OrchestrateShape DEF Before, SlotsHeld, Holds
<1>2. CASE q = Idle
  BY <1>2, IdleShape DEF Holds
<1>3. CASE q # Idle /\ r.pc # "idle"
  <2>1. t \in Tasks /\ q.task = t
    BY <1>1, <1>3 DEF Shape, HandlersPlaced, Placed
  <2>2. status[t] \in TerminalStatuses => status'[t] \in TerminalStatuses
    BY <1>1, <2>1, StatusStable
  <2>3. CASE q.slot = r.slot
    <3>1. Admitted(q) => q.slot \/ status'[t] \in TerminalStatuses
      BY <1>1, <2>2, <2>3 DEF Holds, Shape
    <3>2. Awaiting(q) => q.slot
      BY <1>1, <2>3 DEF Holds, Shape, Undisturbed, TerminalStatuses
    <3>3. q.pc = "release" => q.slot /\ status'[t] \in TerminalStatuses
      <4>1. CASE Admitted(r) /\ status[t] \notin TerminalStatuses /\ status'[t] = "FAILED"
        BY <1>1, <2>3, <4>1 DEF Holds, TerminalStatuses
      <4>2. CASE FinalizeWrite(e)
        <5>1. r.pc = "finalize-write"
          BY <4>2 DEF FinalizeWrite, At
        <5>. QED  BY <1>1, <2>3, <4>2, <5>1, FinalizeEnds DEF Holds, Awaiting
      <4>. QED  BY <1>1, <4>1, <4>2 DEF Shape
    <3>. QED  BY <2>1, <3>1, <3>2, <3>3 DEF Holds
  <2>4. CASE q.slot /\ q.pc = "checkpoint"
    BY <2>1, <2>4 DEF Holds
  <2>5. CASE /\ r.pc = "release" /\ q.pc \in {"checkpoint", "thrown", "cleanup"}
             /\ q.then = "idle" /\ UNCHANGED status
    <3>1. status'[t] \in TerminalStatuses
      BY <1>1, <2>5 DEF Holds
    <3>2. ~Awaiting(q) /\ q.pc # "release"
      BY <2>5 DEF Awaiting
    <3>. QED  BY <2>1, <3>1, <3>2 DEF Holds
  <2>. QED  BY <1>3, <2>3, <2>4, <2>5, SlotMoves
<1>4. r.pc # "idle"
  BY AtWork
<1>. QED  BY <1>2, <1>3, <1>4

LEMMA SlotsHeldStep ==
  ASSUME Undisturbed, Before, [Next]_vars
  PROVE  SlotsHeld'
<1>1. ASSUME NEW e \in Executions
      PROVE  Holds(e)'
  <2>1. CASE exec'[e] = exec[e]
    BY <2>1, HoldsStays
  <2>2. CASE Orchestrate(e) \/ Interrupt(e)
    BY <2>2, HoldsStep
  <2>3. CASE \E f \in Executions : f # e /\ (Orchestrate(f) \/ Interrupt(f))
    BY <2>1, <2>3, OrchestrateShape DEF Shape, Before
  <2>4. CASE ~ \E f \in Executions : Orchestrate(f) \/ Interrupt(f)
    <3>1. exec'[e] = exec[e] \/ \E t \in Tasks : exec'[e] = Invoked(t)
      BY <2>4, OthersShape DEF Spawned, Before
    <3>2. ASSUME NEW t \in Tasks, exec'[e] = Invoked(t)
          PROVE  Holds(e)'
      BY <3>2, InvokedShape DEF Holds
    <3>. QED  BY <2>1, <3>1, <3>2
  <2>. QED  BY <2>2, <2>3, <2>4
<1>. QED  BY <1>1 DEF SlotsHeld, Holds
-----------------------------------------------------------------------------
(***************************************************************************)
(* The counter covers the slots                                            *)
(***************************************************************************)

LEMMA FiniteHolders ==
  ASSUME TypeOK
  PROVE  /\ IsFiniteSet(Holders) /\ Cardinality(Holders) \in Nat
         /\ IsFiniteSet(orphaned) /\ Cardinality(orphaned) \in Nat
<1>1. Holders \in SUBSET Executions /\ orphaned \in SUBSET Tasks
  BY DEF Holders, TypeOK
<1>. QED  BY <1>1, ConstantsAssumption, FS_Subset, FS_CardinalityType

LEMMA CounterStep ==
  ASSUME Undisturbed, Before, CounterInRange, [Next]_vars
  PROVE  CounterInRange'
<1>1. /\ TypeOK /\ active \in Nat /\ MaxConcurrent \in Nat
      /\ Cardinality(Holders) + Cardinality(orphaned) <= active /\ active <= MaxConcurrent
  BY ConstantsAssumption DEF Before, TypeOK, CounterInRange, CounterCoversSlots
<1>2. CASE UNCHANGED <<active, orphaned>> /\ Holders' = Holders
  BY <1>1, <1>2 DEF CounterInRange, CounterCoversSlots
<1>3. ASSUME NEW e \in Executions, Orchestrate(e) \/ Interrupt(e)
      PROVE  CounterInRange'
  <2>1. \A f \in Executions : f # e => exec'[f] = exec[f]
    BY <1>3, OrchestrateShape DEF Shape, Before
  <2>2. /\ exec'[e].slot /\ exec[e].slot => Holders' = Holders
        /\ ~exec'[e].slot /\ ~exec[e].slot => Holders' = Holders
        /\ exec'[e].slot => Holders' = Holders \cup {e}
        /\ ~exec'[e].slot => Holders' = Holders \ {e}
        /\ e \in Holders <=> exec[e].slot
    BY <2>1 DEF Holders
  <2>3. /\ Cardinality(Holders \cup {e}) <= Cardinality(Holders) + 1
        /\ Cardinality(Holders \cup {e}) \in Nat /\ Cardinality(Holders \ {e}) \in Nat
        /\ Cardinality(Holders \ {e}) = IF exec[e].slot THEN Cardinality(Holders) - 1
                                                        ELSE Cardinality(Holders)
    BY <1>1, <2>2, FiniteHolders, FS_AddElement, FS_RemoveElement, FS_CardinalityType
  <2>4. exec'[e].slot \in BOOLEAN /\ exec[e].slot \in BOOLEAN
    BY <1>1, TypeStep DEF Before, TypeOK
  <2>5. Cardinality(Holders) \in Nat /\ Cardinality(orphaned) \in Nat
    BY <1>1, FiniteHolders
  <2>6. CASE exec'[e].slot = exec[e].slot /\ UNCHANGED <<active, orphaned>>
    BY <1>2, <2>2, <2>4, <2>6
  <2>7. CASE /\ exec'[e].slot /\ active < MaxConcurrent /\ active' = active + 1
             /\ UNCHANGED orphaned
    <3>1. /\ Cardinality(Holders') \in Nat
          /\ Cardinality(Holders') <= Cardinality(Holders) + 1
      BY <2>2, <2>3, <2>7
    <3>. QED  BY <1>1, <2>7, <2>5, <3>1 DEF CounterInRange, CounterCoversSlots
  <2>8. CASE exec[e].pc = "release" /\ ~exec'[e].slot /\ Decrement /\ UNCHANGED orphaned
    <3>1. exec[e].slot
      BY <2>8 DEF Before, SlotsHeld
    <3>2. e \in Holders /\ Cardinality(Holders) # 0
      BY <1>1, <2>2, <3>1, FiniteHolders, FS_EmptySet
    <3>3. Cardinality(Holders') = Cardinality(Holders) - 1
      BY <2>2, <2>3, <2>8, <3>1
    <3>4. active' = active - 1 \/ active' = active
      BY <1>1, <2>8, <2>5, <3>2 DEF Decrement
    <3>. QED  BY <1>1, <2>8, <2>5, <3>3, <3>4 DEF CounterInRange, CounterCoversSlots
  <2>9. CASE exec'[e] = Idle /\ End(e) /\ UNCHANGED active
    <3>1. ~exec'[e].slot
      BY <2>9, IdleShape
    <3>2. CASE exec[e].slot
      <4>1. orphaned' = orphaned \cup {exec[e].task}
        BY <2>9, <3>2 DEF End
      <4>2. /\ Cardinality(orphaned') <= Cardinality(orphaned) + 1
            /\ Cardinality(orphaned') \in Nat
        <5>1. IsFiniteSet(orphaned)
          BY <1>1, FiniteHolders
        <5>2. /\ IsFiniteSet(orphaned')
              /\ Cardinality(orphaned') = IF exec[e].task \in orphaned
                    THEN Cardinality(orphaned) ELSE Cardinality(orphaned) + 1
          BY <4>1, <5>1, FS_AddElement
        <5>. QED  BY <2>5, <5>2
      <4>3. Cardinality(Holders') = Cardinality(Holders) - 1
        BY <2>2, <2>3, <3>1, <3>2
      <4>. QED  BY <1>1, <2>9, <2>5, <4>2, <4>3 DEF CounterInRange, CounterCoversSlots
    <3>3. CASE ~exec[e].slot
      BY <1>2, <2>2, <2>9, <3>1, <3>3 DEF End
    <3>. QED  BY <2>4, <3>2, <3>3
  <2>. QED  BY <1>3, <2>6, <2>7, <2>8, <2>9, SlotMoves
<1>4. CASE ~ \E e \in Executions : Orchestrate(e) \/ Interrupt(e)
  <2>1. UNCHANGED <<active, orphaned>>
    BY <1>4, CounterFixed DEF Before
  <2>2. ASSUME NEW f \in Executions
        PROVE  exec'[f].slot <=> exec[f].slot
    <3>1. CASE exec'[f] = exec[f]
      BY <3>1
    <3>2. ASSUME NEW t \in Tasks, exec'[f] = Invoked(t), exec[f].pc = "idle"
          PROVE  exec'[f].slot <=> exec[f].slot
      BY <3>2, InvokedShape, IdleShape DEF Before, HandlersPlaced, Placed
    <3>. QED  BY <1>4, <3>1, <3>2, OthersShape DEF Spawned, Before
  <2>3. Holders' = Holders
    BY <2>2 DEF Holders
  <2>. QED  BY <1>2, <2>1, <2>3
<1>. QED  BY <1>3, <1>4
-----------------------------------------------------------------------------
(***************************************************************************)
(* Every task that consumes a slot has one                                 *)
(***************************************************************************)

Slotted == ActiveStatuses \ {"SUBMITTED"}

\* A task comes to consume a slot by its hydration.
LEMMA ComesToConsume ==
  ASSUME Before, [Next]_vars, NEW t \in Tasks, status'[t] \in Slotted, status[t] \notin Slotted
  PROVE  \E e \in Executions : StartHydration(e) /\ exec[e].task = t /\ status[t] = "SUBMITTED"
                               /\ Goto(e, "hydrating")
<1> DEFINE Goal == \E e \in Executions : /\ StartHydration(e) /\ exec[e].task = t
                                         /\ status[t] = "SUBMITTED" /\ Goto(e, "hydrating")
<1>1. /\ TypeOK /\ HandlersPlaced /\ status \in [Tasks -> TaskStates]
      /\ \A s \in Sessions : session[s].mode # "none" => status[session[s].task] \notin NotStarted
  BY DEF Before, TypeOK, Started
<1>2. /\ status'[t] # status[t] /\ status'[t] \notin NotStarted \cup TerminalStatuses
      /\ status[t] \notin {"HYDRATING", "RUNNING", "AWAITING_APPROVAL", "FINALIZING"}
  BY DEF Slotted, NotStarted, NoStatus, TerminalStatuses, ActiveStatuses
<1>3. ASSUME NEW e \in Executions, Orchestrate(e) \/ Interrupt(e)
      PROVE  Goal
  <2>1. exec[e].task \in Tasks
    BY <1>1, <1>3, AtWork DEF HandlersPlaced, Placed
  <2>2. ASSUME NEW from, NEW release, NEW then, FailTask(e, from, release, then)
        PROVE  FALSE
    BY <1>1, <1>2, <2>1, <2>2 DEF FailTask, SetStatus, TerminalStatuses
  <2>3. ~UNCHANGED status
    BY <1>2
  <2>4. CASE LoadBlueprint(e) \/ PreflightChecks(e) \/ HydrateContext(e) \/ StartSession(e)
    BY <2>2, <2>3, <2>4 DEF LoadBlueprint, PreflightChecks, HydrateContext, StartSession
  <2>5. CASE QueueTask(e)
    BY <1>1, <1>2, <2>1, <2>5 DEF QueueTask, SetStatus, NotStarted
  <2>6. CASE StartHydration(e)
    BY <1>1, <1>2, <2>1, <2>2, <2>6 DEF StartHydration, SetStatus, Allowed
  <2>7. CASE RecordSession(e)
    BY <1>1, <1>2, <2>1, <2>2, <2>7 DEF RecordSession, SetStatus, Allowed
  <2>8. CASE SubstrateFailed(e)
    BY <1>1, <1>2, <2>1, <2>8 DEF SubstrateFailed, SetStatus, TerminalStatuses
  <2>9. CASE FinalizeWrite(e)
    <3>1. FinalStatus(exec[e].current, exec[e].unhealthy) \in TerminalStatuses
      BY DEF FinalStatus, TerminalStatuses
    <3>. QED  BY <1>1, <1>2, <2>1, <2>9, <3>1 DEF FinalizeWrite, SetStatus
  <2>. QED
    BY <1>3, <2>3, <2>4, <2>5, <2>6, <2>7, <2>8, <2>9
       DEF Orchestrate, Interrupt, LoadTask, RereadForAdmission, AdmissionControl,
           RereadForPreflight, PollTaskStatus, WaitStrategy, FinalizeRead, Cleanup,
           ReleaseSlot, Checkpoint, RetryStep, GiveUp
<1>4. ASSUME NEW s \in Sessions, Agent(s)
      PROVE  FALSE
  <2>1. Live(s) /\ session[s].mode # "none"
    BY <1>4 DEF Agent, AgentStart, PauseForApproval, ResumeFromApproval, AgentFinish,
        AgentDies, Live
  <2>2. session[s].task \in Tasks /\ status[session[s].task] \notin NotStarted
    BY <1>1, <2>1 DEF HandlersPlaced
  <2>. QED  BY <1>1, <1>2, <1>4, <2>2
       DEF Agent, AgentStart, PauseForApproval, ResumeFromApproval, AgentFinish, AgentDies,
           SetStatus, NotStarted, TerminalStatuses
<1>5. ASSUME NEW u \in Tasks,
             CreateTask(u) \/ Cancel(u) \/ ExpireQueuedTask(u) \/ FailStrandedTask(u)
      PROVE  FALSE
  BY <1>1, <1>2, <1>5 DEF CreateTask, Cancel, ExpireQueuedTask, FailStrandedTask, SetStatus,
      NotStarted, TerminalStatuses
<1>6. CASE Pickup
  BY <1>1, <1>2, <1>6 DEF Pickup, ListQueuedTasks, ReadActiveCount, PickUpTask,
      InvokeOrchestrator, RequeueAfterInvokeFailure, PickupDies, SetStatus, TypeOK,
      HandlersPlaced, NotStarted
<1>. QED  BY <1>2, <1>3, <1>4, <1>5, <1>6
          DEF Next, vars, Settled, Recount, ScanCounter, CountActiveTasks, CorrectDrift

\* What has been orphaned stays so.
LEMMA OrphansStay ==
  ASSUME Undisturbed, Before, [Next]_vars
  PROVE  orphaned \subseteq orphaned'
<1>1. ASSUME NEW e \in Executions, Orchestrate(e) \/ Interrupt(e)
      PROVE  orphaned \subseteq orphaned'
  BY <1>1, CounterMoves DEF End
<1>. QED  BY <1>1, CounterFixed DEF Before

LEMMA CoveredStep ==
  ASSUME Undisturbed, Before, Covered, [Next]_vars
  PROVE  Covered'
<1>1. TypeOK /\ HandlersPlaced /\ SlotsHeld
  BY DEF Before
<1>2. ASSUME NEW t \in Tasks, status'[t] \in Slotted, t \notin orphaned',
             NEW f \in Executions, exec[f].slot, exec[f].task = t, status[t] \in Slotted
      PROVE  \E e \in Executions : exec'[e].slot /\ exec'[e].task = t
  <2>1. CASE exec'[f] = exec[f]
    BY <1>2, <2>1
  <2>2. CASE Orchestrate(f) \/ Interrupt(f)
    <3>1. CASE exec'[f].slot = exec[f].slot
      BY <1>1, <1>2, <2>2, <3>1, OrchestrateShape, IdleShape DEF Shape
    <3>2. CASE exec'[f].slot /\ exec'[f].task = exec[f].task
      BY <1>2, <3>2
    <3>3. CASE exec[f].pc = "release" /\ UNCHANGED status
      BY <1>1, <1>2, <3>3 DEF SlotsHeld, Slotted, ActiveStatuses, TerminalStatuses
    <3>4. CASE End(f)
      BY <1>2, <3>4 DEF End
    <3>. QED  BY <2>2, <3>1, <3>2, <3>3, <3>4, SlotMoves
  <2>3. CASE \E e \in Executions : e # f /\ (Orchestrate(e) \/ Interrupt(e))
    BY <1>1, <2>1, <2>3, OrchestrateShape DEF Shape
  <2>4. CASE ~ \E e \in Executions : Orchestrate(e) \/ Interrupt(e)
    <3>1. exec[f].pc # "idle"
      BY <1>1, <1>2, IdleShape DEF HandlersPlaced, Placed
    <3>. QED  BY <1>1, <2>1, <2>4, <3>1, OthersShape DEF Spawned
  <2>. QED  BY <2>2, <2>3, <2>4
<1>3. ASSUME NEW t \in Tasks, status'[t] \in Slotted, status[t] \notin Slotted
      PROVE  \E e \in Executions : exec'[e].slot /\ exec'[e].task = t
  <2>1. PICK e \in Executions : /\ StartHydration(e) /\ exec[e].task = t
                                /\ status[t] = "SUBMITTED" /\ Goto(e, "hydrating")
    BY <1>3, ComesToConsume
  <2>2. exec[e].pc = "hydrate-context" /\ exec[e].step = "hydrate-context"
    BY <1>1, <2>1 DEF StartHydration, At, HandlersPlaced, Placed, FitsStep, Steps
  <2>3. exec[e].slot
    BY <1>1, <2>1, <2>2 DEF SlotsHeld, Admitted, TerminalStatuses
  <2>4. exec'[e].slot = exec[e].slot /\ exec'[e].task = t
    BY <1>1, <2>1, GotoFacts DEF SameWork, Pcs
  <2>. QED  BY <2>3, <2>4
<1>4. ASSUME NEW t \in Tasks, status'[t] \in Slotted
      PROVE  t \in orphaned' \/ \E e \in Executions : exec'[e].slot /\ exec'[e].task = t
  <2>1. CASE status[t] \notin Slotted
    BY <1>3, <1>4, <2>1
  <2>2. CASE status[t] \in Slotted
    <3>1. t \in orphaned \/ \E f \in Executions : exec[f].slot /\ exec[f].task = t
      BY <2>2 DEF Covered, Consuming, Holders, Slotted
    <3>. QED  BY <1>2, <1>4, <2>2, <3>1, OrphansStay
  <2>. QED  BY <2>1, <2>2
<1>. QED  BY <1>4 DEF Covered, Consuming, Holders, Slotted
-----------------------------------------------------------------------------
(***************************************************************************)
(* The invariant and what it gives                                         *)
(***************************************************************************)

LEMMA InvInit ==
  ASSUME Init
  PROVE  IInv
<1>1. TypeOK /\ HandlersPlaced
  BY TypeInit
<1>2. \A e \in Executions : exec[e] = Idle
  BY DEF Init
<1>3. Started /\ OneDriver /\ SlotsHeld /\ Verdicts /\ RecountOff
  BY <1>2, IdleShape
     DEF Init, Started, OneDriver, Driving, At, IsDriving, Unused, SlotsHeld, Verdicts,
         RecountOff, Idle
<1>4. Holders = {} /\ orphaned = {} /\ Consuming = {} /\ active = 0
  BY <1>2, IdleShape
     DEF Init, Holders, Consuming, ActiveStatuses, NoStatus
<1>5. CounterInRange
  BY <1>4, FS_EmptySet, ConstantsAssumption DEF CounterInRange, CounterCoversSlots
<1>6. Covered
  BY <1>4 DEF Covered
<1>. QED  BY <1>1, <1>3, <1>5, <1>6 DEF IInv

LEMMA InvStep ==
  ASSUME Undisturbed, IInv, [Next]_vars
  PROVE  IInv'
<1>1. Before /\ CounterInRange /\ Covered
  BY DEF IInv, Before
<1>2. TypeOK' /\ HandlersPlaced'
  BY <1>1, TypeStep DEF Before
<1>3. Started' /\ OneDriver'
  BY <1>1, DriverStep DEF Before
<1>4. RecountOff' /\ SlotsHeld' /\ Verdicts'
  BY <1>1, RecountStays, SlotsHeldStep, VerdictsStep DEF Before
<1>5. CounterInRange' /\ Covered'
  BY <1>1, CounterStep, CoveredStep
<1>. QED  BY <1>2, <1>3, <1>4, <1>5 DEF IInv

\* Every consuming task is orphaned or is the task of a holder, and the counter
\* pays for both.
LEMMA InvCap ==
  ASSUME IInv
  PROVE  CapHonoured
<1> DEFINE worked == {exec[e].task : e \in Holders}
           f == [e \in Holders |-> exec[e].task]
<1>1. TypeOK /\ Covered /\ CounterInRange
  BY DEF IInv
<1>2. /\ IsFiniteSet(Holders) /\ Cardinality(Holders) \in Nat
      /\ IsFiniteSet(orphaned) /\ Cardinality(orphaned) \in Nat
  BY <1>1, FiniteHolders
<1>3. f \in Surjection(Holders, worked)
  BY DEF Surjection
<1>4. IsFiniteSet(worked) /\ Cardinality(worked) <= Cardinality(Holders)
  <2>. HIDE DEF f, worked
  <2>. QED  BY <1>2, <1>3, FS_Surjection
<1>5. Consuming \subseteq orphaned \cup worked
  BY <1>1 DEF Covered
<1>6. /\ IsFiniteSet(orphaned \cup worked)
      /\ Cardinality(orphaned \cup worked) <= Cardinality(orphaned) + Cardinality(worked)
  <2>1. /\ IsFiniteSet(orphaned \cup worked)
        /\ Cardinality(orphaned \cup worked) =
             Cardinality(orphaned) + Cardinality(worked) - Cardinality(orphaned \cap worked)
    <3>. HIDE DEF worked
    <3>. QED  BY <1>2, <1>4, FS_Union
  <2>2. Cardinality(orphaned \cap worked) \in Nat /\ Cardinality(worked) \in Nat
    <3>. HIDE DEF worked
    <3>1. IsFiniteSet(orphaned \cap worked)
      BY <1>2, FS_Subset
    <3>. QED  BY <1>4, <3>1, FS_CardinalityType
  <2>. HIDE DEF worked
  <2>. QED  BY <1>2, <2>1, <2>2
<1>7. Cardinality(Consuming) <= Cardinality(orphaned \cup worked)
  <2>. HIDE DEF worked
  <2>. QED  BY <1>5, <1>6, FS_Subset
<1>8. /\ Cardinality(Holders) + Cardinality(orphaned) <= active
      /\ active <= MaxConcurrent /\ active \in Nat /\ MaxConcurrent \in Nat
  BY <1>1, ConstantsAssumption DEF CounterInRange, CounterCoversSlots, TypeOK
<1>9. /\ Cardinality(Consuming) \in Nat /\ Cardinality(worked) \in Nat
      /\ Cardinality(orphaned \cup worked) \in Nat
  <2>. HIDE DEF worked
  <2>. QED  BY <1>4, <1>5, <1>6, FS_Subset, FS_CardinalityType
<1>. QED
  <2>. HIDE DEF worked
  <2>. QED  BY <1>2, <1>4, <1>6, <1>7, <1>8, <1>9 DEF CapHonoured

\* In undisturbed surroundings (no sweep and no recount behind the handlers'
\* backs, no poll cap, no wrong verdict, no replay of finalize) a user never
\* has more than MaxConcurrent tasks between admission and their end.
THEOREM CapKept ==
  ASSUME Undisturbed
  PROVE  Spec => []CapHonoured
<1>1. Init => IInv
  BY InvInit
<1>2. IInv /\ [Next]_vars => IInv'
  BY InvStep
<1>3. IInv => CapHonoured
  BY InvCap
<1>. QED  BY <1>1, <1>2, <1>3, PTL DEF Spec

\* There the counter also never falls below the slots in use, so no release
\* takes the slot of another task.
THEOREM SlotsCounted ==
  ASSUME Undisturbed
  PROVE  Spec => []CounterCoversSlots
<1>1. Init => IInv
  BY InvInit
<1>2. IInv /\ [Next]_vars => IInv'
  BY InvStep
<1>3. IInv => CounterCoversSlots
  BY DEF IInv, CounterInRange
<1>. QED  BY <1>1, <1>2, <1>3, PTL DEF Spec

\* There an orchestration gives its slot back only when its task has ended.
THEOREM ReleasesEnded ==
  ASSUME Undisturbed
  PROVE  Spec => []ReleasedOnlyWhenEnded
<1>1. Init => IInv
  BY InvInit
<1>2. IInv /\ [Next]_vars => IInv'
  BY InvStep
<1>3. IInv => ReleasedOnlyWhenEnded
  BY DEF IInv, SlotsHeld, ReleasedOnlyWhenEnded, At
<1>. QED  BY <1>1, <1>2, <1>3, PTL DEF Spec

\* A task that becomes active found room.
LEMMA RoomToAdmit ==
  ASSUME TypeOK, TypeOK', CapHonoured', NEW t \in Tasks, phases[t] = "waiting",
         phases' = [phases EXCEPT ![t] = "active"]
  PROVE  Cardinality({u \in Tasks : phases[u] = "active"}) < MaxConcurrent
<1> DEFINE before == {u \in Tasks : phases[u] = "active"}
           after == {u \in Tasks : phases'[u] = "active"}
<1>1. \A u \in Tasks : phases'[u] = "active" => status'[u] \in ActiveStatuses \ {"SUBMITTED"}
  BY PhaseOf DEF phases, TypeOK, TaskStates, NotStarted, Statuses, PreActiveStatuses,
     TerminalStatuses, ActiveStatuses, Phase, NoStatus
<1>2. \A u \in Tasks : status'[u] \in ActiveStatuses \ {"SUBMITTED"} => phases'[u] = "active"
  BY DEF phases, Phase, PreActiveStatuses, TerminalStatuses, ActiveStatuses, NoStatus
<1>3. Consuming' = after
  BY <1>1, <1>2 DEF Consuming
<1>4. after = before \cup {t} /\ t \notin before
  BY DEF phases
<1>5. IsFiniteSet(before) /\ Cardinality(before) \in Nat
  BY ConstantsAssumption, FS_Subset, FS_CardinalityType
<1>6. Cardinality(after) = Cardinality(before) + 1
  <2>. HIDE DEF before, after
  <2>. QED  BY <1>4, <1>5, FS_AddElement
<1>7. Cardinality(after) <= MaxConcurrent /\ MaxConcurrent \in Nat
  BY <1>3, ConstantsAssumption DEF CapHonoured
<1>. QED  BY <1>5, <1>6, <1>7

\* There the implementation keeps the whole promise to the user: a task waits,
\* is worked on and ends, never more than MaxConcurrent at once, and its
\* outcome is for ever.
THEOREM CappedContractKept ==
  ASSUME Undisturbed
  PROVE  Spec => CappedContract
<1>1. Init => Capped!Init
  BY ContractInit
<1>2. ASSUME IInv, IInv', [Next]_vars
      PROVE  [Capped!Next]_(Capped!cvars)
  <2>0. TypeOK /\ HandlersPlaced /\ TypeOK' /\ CapHonoured'
    <3>1. IInv' => CapHonoured'
      BY InvCap, PTL
    <3>. QED  BY <1>2, <3>1 DEF IInv
  <2>1. CASE UNCHANGED status
    BY <2>1 DEF Capped!cvars, phases, outcomes
  <2>2. CASE OneRowMoves
    <3>1. PICK t \in Tasks, to \in Statuses : Rewritten(t, to)
      BY <2>2 DEF OneRowMoves
    <3>2. CASE UNCHANGED <<phases, outcomes>>
      BY <3>2 DEF Capped!cvars
    <3>3. CASE /\ phases[t] = "absent"
               /\ phases' = [phases EXCEPT ![t] = "waiting"] /\ UNCHANGED outcomes
      BY <3>3 DEF Capped!Next, Capped!Submit
    <3>4. CASE /\ phases[t] = "waiting"
               /\ phases' = [phases EXCEPT ![t] = "active"] /\ UNCHANGED outcomes
      <4>1. Cardinality(Capped!Active) < MaxConcurrent
        BY <2>0, <3>4, RoomToAdmit DEF Capped!Active
      <4>2. Capped!Admit(t)
        BY <3>4, <4>1, SameCardinality DEF Capped!Admit
      <4>. QED  BY <4>2 DEF Capped!Next
    <3>5. CASE /\ phases[t] \in {"waiting", "active"}
               /\ phases' = [phases EXCEPT ![t] = "ended"]
               /\ \E o \in TerminalStatuses : outcomes' = [outcomes EXCEPT ![t] = o]
      BY <3>5 DEF Capped!Next, Capped!Finish
    <3>. QED  BY <2>0, <3>1, <3>2, <3>3, <3>4, <3>5, MoveRefines
  <2>. QED  BY <1>2, <2>0, <2>1, <2>2, StatusMoves
<1>3. Init => IInv
  BY InvInit
<1>4. IInv /\ [Next]_vars => IInv'
  BY InvStep
<1>. QED  BY <1>1, <1>2, <1>3, <1>4, PTL DEF Spec, CappedContract, Capped!Spec
=============================================================================
