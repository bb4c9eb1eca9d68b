---------------------------- MODULE TaskLifecycle ----------------------------
(***************************************************************************)
(* The life of one user's tasks: submission, admission against the user's  *)
(* concurrency counter, the admission queue, the durable orchestration of  *)
(* each task, the agent session it launches, cancellation, and the two     *)
(* scheduled repair jobs.  Every handler runs concurrently with the others *)
(* and they meet only in two DynamoDB tables, so each action below is one  *)
(* store call together with the local computation up to the next one.      *)
(*                                                                         *)
(* One user is modelled: the counter row and the queue are keyed by        *)
(* user_id and no handler reads another user's rows.                       *)
(*                                                                         *)
(* An orchestration is a Lambda durable function.  A step that is          *)
(* interrupted after a store call and before its checkpoint runs again     *)
(* from its first call; a step that throws is retried or, when the retries *)
(* are spent, ends the execution.                                          *)
(***************************************************************************)
EXTENDS Integers, FiniteSets, TaskStatus

CONSTANTS
    Tasks,          \* task ids; they are ULIDs, so < is the order of created_at
    Executions,     \* orchestrator executions that may be live together (a bound)
    Sessions,       \* compute sessions that may ever be started (a bound)
    MaxConcurrent,  \* MAX_CONCURRENT_TASKS_PER_USER
    ComputeType,    \* the compute backend of the repository's blueprint
    Environment,    \* what the surroundings may do in this instance
    Replays,        \* durable steps that may be interrupted before their checkpoint
    Nil             \* no task, no session

Steps == {"load-task", "load-blueprint", "admission-control", "pre-flight",
          "hydrate-context", "start-session", "await-agent-completion", "finalize"}

EnvironmentEvents ==
    {"cancel",          \* the user cancels
     "lostInvoke",      \* an asynchronous invocation fails
     "ambiguousInvoke", \* it reports a failure although it was delivered
     "pickupDies",      \* the pickup Lambda dies between two calls
     "agentDies",       \* a session stops without writing anything
     "storeError",      \* the resume, the session_started or a decrement's write fails
     "staleBeat",       \* heartbeats look stale although the session lives
     "substrateError",  \* polling the ECS task of a living session keeps failing
     "pollCap",         \* MAX_POLL_ATTEMPTS is reached
     "sweep",           \* the stranded-task reconciler finds a task over age
     "recount"}         \* the concurrency reconciler runs

ASSUME ConstantsAssumption ==
    /\ Tasks \subseteq Nat /\ IsFiniteSet(Tasks)
    /\ IsFiniteSet(Executions)
    /\ MaxConcurrent \in Nat \ {0}
    /\ ComputeType \in {"agentcore", "ecs", "lambda-microvm"}
    /\ Environment \subseteq EnvironmentEvents
    /\ Replays \subseteq Steps
    /\ Nil \notin Nat /\ Nil \notin Sessions

VARIABLES
    status,     \* TaskTable: status of each task, "NONE" before it is created
    active,     \* UserConcurrency: active_count (0 also when absent)
    exec,       \* the orchestrator executions
    session,    \* the compute sessions and the agents in them
    pickup,     \* the admission-queue pickup Lambda
    recount,    \* the concurrency reconciler
    orphaned    \* history: tasks whose execution ended without a release

vars == <<status, active, exec, session, pickup, recount, orphaned>>

NoStatus == "NONE"

Idle == [pc |-> "idle", step |-> "load-task", task |-> Nil, seen |-> NoStatus,
         current |-> NoStatus, unhealthy |-> FALSE, then |-> "idle",
         handle |-> Nil, slot |-> FALSE]

Invoked(t) == [Idle EXCEPT !.pc = "load-task", !.task = t]

Unused == [task |-> Nil, mode |-> "none"]

PickupIdle == [pc |-> "idle", batch |-> {}, task |-> Nil]

RecountIdle == [pc |-> "idle", stored |-> 0, count |-> 0]

Init ==
    /\ status = [t \in Tasks |-> NoStatus]
    /\ active = 0
    /\ exec = [e \in Executions |-> Idle]
    /\ session = [s \in Sessions |-> Unused]
    /\ pickup = PickupIdle
    /\ recount = RecountIdle
    /\ orphaned = {}

-----------------------------------------------------------------------------
(***************************************************************************)
(* Store calls shared by the handlers                                      *)
(***************************************************************************)

\* A conditional write of the status: WHERE status = from.
SetStatus(t, to) == status' = [status EXCEPT ![t] = to]

\* Whether transitionTask(t, from, to) succeeds: the table allows it and the
\* condition on the row holds.
Allowed(t, from, to) ==
    /\ status[t] = from
    /\ from \in Statuses
    /\ to \in ValidTransitions[from]

\* Bug: the decrement without its condition.
DecrementUnguarded == active' = active - 1

\* decrementConcurrency: conditional on active_count > 0, never fails the caller,
\* not even when the write is lost.
Decrement ==
    \/ active' = IF active > 0 THEN active - 1 ELSE active
    \/ "storeError" \in Environment /\ UNCHANGED active

Become(e, r) == exec' = [exec EXCEPT ![e] = r]

\* An asynchronous invocation of the orchestrator for task t.
Invoke(t) ==
    \E e \in Executions :
        /\ exec[e].pc = "idle"
        /\ Become(e, Invoked(t))

Live(s) == session[s].mode \in {"booting", "working", "waiting"}

HasLiveSession(t) == \E s \in Sessions : session[s].task = t /\ Live(s)

At(e, pc) == exec[e].pc = pc

Goto(e, pc) == Become(e, [exec[e] EXCEPT !.pc = pc])

GotoThen(e, pc, then) == Become(e, [exec[e] EXCEPT !.pc = pc, !.then = then])

\* The status of the task is read before pc.
GotoWith(e, pc, current) == Become(e, [exec[e] EXCEPT !.pc = pc, !.current = current])

\* The next durable step begins.  The snapshot of load-task is used no later
\* than pre-flight.
Begin(e, step) ==
    Become(e, [exec[e] EXCEPT !.pc = step, !.step = step, !.then = "idle",
                              !.current = NoStatus,
                              !.seen = IF step \in {"admission-control", "pre-flight"}
                                        THEN @ ELSE NoStatus])

\* The execution is over; a slot it still holds stays counted for ever.
End(e) ==
    /\ Become(e, Idle)
    /\ orphaned' = IF exec[e].slot THEN orphaned \cup {exec[e].task} ELSE orphaned

-----------------------------------------------------------------------------
(***************************************************************************)
(* Submission                                                              *)
(***************************************************************************)

\* createTaskCore: the row is written SUBMITTED, then the orchestrator is
\* invoked; a failed invocation is only logged.
CreateTask(t) ==
    /\ status[t] = NoStatus
    /\ \A u \in Tasks : u < t => status[u] # NoStatus
    /\ SetStatus(t, "SUBMITTED")
    /\ \/ Invoke(t)
       \/ "lostInvoke" \in Environment /\ UNCHANGED exec
    /\ UNCHANGED <<active, session, pickup, recount, orphaned>>

-----------------------------------------------------------------------------
(***************************************************************************)
(* The durable orchestration, step by step                                 *)
(***************************************************************************)

LoadTask(e) ==
    /\ At(e, "load-task")
    /\ Become(e, [exec[e] EXCEPT !.pc = "load-blueprint", !.step = "load-blueprint",
                                 !.seen = status[exec[e].task]])
    /\ UNCHANGED <<status, active, session, pickup, recount, orphaned>>

\* Bug: failTask releases the slot even when another writer ended the task.
FailTaskAlwaysReleasing(e, from, release, then) ==
    LET t == exec[e].task IN
    /\ IF Allowed(t, from, "FAILED") THEN SetStatus(t, "FAILED") ELSE UNCHANGED status
    /\ IF release THEN GotoThen(e, "release", then) ELSE GotoThen(e, then, "idle")

\* failTask: FAILED if the row is still in from; only then is the slot
\* released, and only if the caller asks for it.
FailTask(e, from, release, then) ==
    LET t == exec[e].task IN
    IF Allowed(t, from, "FAILED")
        THEN /\ SetStatus(t, "FAILED")
             /\ IF release THEN GotoThen(e, "release", then) ELSE GotoThen(e, then, "idle")
        ELSE /\ GotoThen(e, then, "idle")
             /\ UNCHANGED status

\* The decrement that ends failTask and finalizeTask.
ReleaseSlot(e) ==
    /\ At(e, "release")
    /\ Decrement
    /\ Become(e, [exec[e] EXCEPT !.pc = exec[e].then, !.then = "idle",
                                 !.slot = FALSE])
    /\ UNCHANGED <<status, session, pickup, recount, orphaned>>

\* The step's result is checkpointed and the next step begins, or the
\* handler returns.
Checkpoint(e) ==
    /\ At(e, "checkpoint")
    /\ IF exec[e].then = "idle"
          THEN End(e)
          ELSE Begin(e, exec[e].then) /\ UNCHANGED orphaned
    /\ UNCHANGED <<status, active, session, pickup, recount>>

\* A step that threw is retried from its start,
RetryStep(e) ==
    /\ At(e, "thrown")
    /\ Goto(e, exec[e].step)
    /\ UNCHANGED <<status, active, session, pickup, recount, orphaned>>

\* or, when the retries are spent, the execution fails.
GiveUp(e) ==
    /\ At(e, "thrown")
    /\ End(e)
    /\ UNCHANGED <<status, active, session, pickup, recount>>

\* The Lambda is interrupted inside a step, after some of its calls and
\* before its checkpoint: the step runs again.
Interrupt(e) ==
    /\ exec[e].step \in Replays
    /\ exec[e].pc \notin {"idle", exec[e].step}
    /\ GotoThen(e, exec[e].step, "idle")
    /\ UNCHANGED <<status, active, session, pickup, recount, orphaned>>

LoadBlueprint(e) ==
    /\ At(e, "load-blueprint")
    /\ \/ Begin(e, "admission-control") /\ UNCHANGED status
       \/ FailTask(e, exec[e].seen, FALSE, "thrown")
    /\ UNCHANGED <<active, session, pickup, recount, orphaned>>

\* admission-control re-reads the row: a task that ended is not admitted.
RereadForAdmission(e) ==
    /\ At(e, "admission-control")
    /\ IF status[exec[e].task] \in TerminalStatuses
          THEN End(e)
          ELSE Goto(e, "admit") /\ UNCHANGED orphaned
    /\ UNCHANGED <<status, active, session, pickup, recount>>

\* Bug: the cap is compared with <=.
AdmissionControlOffByOne(e) ==
    /\ At(e, "admit")
    /\ IF active <= MaxConcurrent
          THEN /\ active' = active + 1
               /\ Become(e, [exec[e] EXCEPT !.pc = "checkpoint",
                                            !.then = "pre-flight",
                                            !.slot = TRUE])
          ELSE Goto(e, "queue") /\ UNCHANGED active
    /\ UNCHANGED <<status, session, pickup, recount, orphaned>>

\* admissionControl: one conditional increment.
AdmissionControl(e) ==
    /\ At(e, "admit")
    /\ IF active < MaxConcurrent
          THEN /\ active' = active + 1
               /\ Become(e, [exec[e] EXCEPT !.pc = "checkpoint",
                                            !.then = "pre-flight",
                                            !.slot = TRUE])
          ELSE Goto(e, "queue") /\ UNCHANGED active
    /\ UNCHANGED <<status, session, pickup, recount, orphaned>>

\* queueTask; a concurrent transition wins and the task is left alone.
QueueTask(e) ==
    LET t == exec[e].task IN
    /\ At(e, "queue")
    /\ IF Allowed(t, "SUBMITTED", "QUEUED") THEN SetStatus(t, "QUEUED") ELSE UNCHANGED status
    /\ GotoThen(e, "checkpoint", "idle")
    /\ UNCHANGED <<active, session, pickup, recount, orphaned>>

\* pre-flight re-reads the row; a cancelled task ends the execution here.
RereadForPreflight(e) ==
    /\ At(e, "pre-flight")
    /\ IF status[exec[e].task] \in TerminalStatuses
          THEN End(e)
          ELSE /\ GotoWith(e, "preflight-checks", status[exec[e].task])
               /\ UNCHANGED orphaned
    /\ UNCHANGED <<status, active, session, pickup, recount>>

\* The checks pass, do not pass (failTask from the status just read, the
\* handler returns), or throw (failTask from the status load-task read).
PreflightChecks(e) ==
    /\ At(e, "preflight-checks")
    /\ \/ Begin(e, "hydrate-context") /\ UNCHANGED status
       \/ FailTask(e, exec[e].current, TRUE, "checkpoint")
       \/ FailTask(e, exec[e].seen, TRUE, "thrown")
    /\ UNCHANGED <<active, session, pickup, recount, orphaned>>

\* Bug: hydration goes on when the task is already HYDRATING ("safe to retry").
StartHydrationTwice(e) ==
    LET t == exec[e].task IN
    /\ At(e, "hydrate-context")
    /\ IF status[t] \in {"SUBMITTED", "HYDRATING"}
          THEN SetStatus(t, "HYDRATING") /\ Goto(e, "hydrating")
          ELSE FailTask(e, "HYDRATING", TRUE, "thrown")
    /\ UNCHANGED <<active, session, pickup, recount, orphaned>>

\* hydrateAndTransition, first call: SUBMITTED -> HYDRATING.
StartHydration(e) ==
    LET t == exec[e].task IN
    /\ At(e, "hydrate-context")
    /\ IF Allowed(t, "SUBMITTED", "HYDRATING")
          THEN SetStatus(t, "HYDRATING") /\ Goto(e, "hydrating")
          ELSE FailTask(e, "HYDRATING", TRUE, "thrown")
    /\ UNCHANGED <<active, session, pickup, recount, orphaned>>

\* The payload is assembled, or a guardrail, attachment or registry error
\* fails the task.
HydrateContext(e) ==
    /\ At(e, "hydrating")
    /\ \/ Begin(e, "start-session") /\ UNCHANGED status
       \/ FailTask(e, "HYDRATING", TRUE, "thrown")
    /\ UNCHANGED <<active, session, pickup, recount, orphaned>>

\* startSessionWithRetry returns a handle or throws; the catch fails the task.
StartSession(e) ==
    /\ At(e, "start-session")
    /\ \/ \E s \in Sessions :
             /\ session[s] = Unused
             /\ session' = [session EXCEPT ![s] = [task |-> exec[e].task, mode |-> "booting"]]
             /\ Become(e, [exec[e] EXCEPT !.pc = "session-started",
                                          !.handle = s])
             /\ UNCHANGED status
       \/ FailTask(e, "HYDRATING", TRUE, "thrown") /\ UNCHANGED session
    /\ UNCHANGED <<active, pickup, recount, orphaned>>

\* stopSession, best-effort; the orchestrator stops only MicroVMs.
StopHandle(e) ==
    \/ UNCHANGED session
    \/ /\ ComputeType = "lambda-microvm"
       /\ exec[e].handle \in Sessions /\ Live(exec[e].handle)
       /\ session' = [session EXCEPT ![exec[e].handle].mode = "gone"]

\* HYDRATING -> RUNNING with the session's metadata, then the session_started
\* event.  If the agent's own write came first the transition fails.
RecordSession(e) ==
    LET t == exec[e].task IN
    /\ At(e, "session-started")
    /\ \/ /\ Allowed(t, "HYDRATING", "RUNNING")
          /\ SetStatus(t, "RUNNING")
          /\ \/ /\ GotoThen(e, "checkpoint", "await-agent-completion")
                /\ UNCHANGED session
             \/ /\ "storeError" \in Environment
                /\ Goto(e, "thrown")
                /\ StopHandle(e)
       \/ /\ ~Allowed(t, "HYDRATING", "RUNNING")
          /\ FailTask(e, "HYDRATING", TRUE, "thrown")
          /\ StopHandle(e)
    /\ UNCHANGED <<active, pickup, recount, orphaned>>

\* pollTaskStatus: the status, and for a RUNNING task whether its heartbeats
\* have stopped (an ECS task writes none).
PollTaskStatus(e) ==
    LET t == exec[e].task IN
    /\ At(e, "await-agent-completion")
    /\ IF status[t] \in TerminalStatuses
          THEN Begin(e, "finalize")
          ELSE \E stale \in BOOLEAN :
                 /\ stale => /\ ComputeType # "ecs"
                             /\ status[t] = "RUNNING"
                             /\ ~HasLiveSession(t) \/ "staleBeat" \in Environment
                 /\ Become(e, [exec[e] EXCEPT !.pc = "poll-check",
                                              !.current = status[t],
                                              !.unhealthy = stale])
    /\ UNCHANGED <<status, active, session, pickup, recount, orphaned>>

\* The substrate reports the session over: failTask, without a release, from
\* the status of this poll (ECS) or from a re-read one (MicroVM, which goes on
\* polling if the task has ended).
SubstrateFailed(e) ==
    LET t == exec[e].task
        from == IF ComputeType = "ecs" THEN exec[e].current ELSE status[t]
    IN
    /\ At(e, "poll-check")
    /\ ComputeType # "agentcore"
    /\ \/ ~HasLiveSession(t)
       \/ ComputeType = "ecs" /\ "substrateError" \in Environment
    /\ from \notin TerminalStatuses
    /\ IF Allowed(t, from, "FAILED") THEN SetStatus(t, "FAILED") ELSE UNCHANGED status
    /\ Become(e, [exec[e] EXCEPT !.pc = "finalize", !.step = "finalize",
                                 !.current = NoStatus, !.unhealthy = FALSE])
    /\ UNCHANGED <<active, session, pickup, recount, orphaned>>

\* waitStrategy: stop on a lost session, at the poll caps; else poll again.
WaitStrategy(e) ==
    /\ At(e, "poll-check")
    /\ \/ /\ \/ exec[e].unhealthy
             \/ "pollCap" \in Environment
             \/ exec[e].current = "HYDRATING"
          /\ Begin(e, "finalize")
       \/ /\ ~exec[e].unhealthy
          /\ Begin(e, "await-agent-completion")
    /\ UNCHANGED <<status, active, session, pickup, recount, orphaned>>

FinalizeRead(e) ==
    /\ At(e, "finalize")
    /\ GotoWith(e, "finalize-write", status[exec[e].task])
    /\ UNCHANGED <<status, active, session, pickup, recount, orphaned>>

\* The outcome finalizeTask tries to write for the status it has read.
FinalStatus(current, unhealthy) ==
    IF current = "HYDRATING" \/ (unhealthy /\ current \in {"RUNNING", "FINALIZING"})
        THEN "FAILED" ELSE "TIMED_OUT"

\* finalizeTask's write.  Every branch goes on to release the slot, whether
\* or not the write took effect.
FinalizeWrite(e) ==
    LET t == exec[e].task
        current == exec[e].current
        to == FinalStatus(current, exec[e].unhealthy)
    IN
    /\ At(e, "finalize-write")
    /\ IF /\ current \in {"RUNNING", "FINALIZING", "AWAITING_APPROVAL", "HYDRATING"}
          /\ Allowed(t, current, to)
          THEN SetStatus(t, to)
          ELSE UNCHANGED status
    /\ GotoThen(e, "release", "cleanup")
    /\ UNCHANGED <<active, session, pickup, recount, orphaned>>

\* After finalizeTask: a MicroVM is terminated.
Cleanup(e) ==
    /\ At(e, "cleanup")
    /\ StopHandle(e)
    /\ GotoThen(e, "checkpoint", "idle")
    /\ UNCHANGED <<status, active, pickup, recount, orphaned>>

Orchestrate(e) ==
    \/ LoadTask(e) \/ LoadBlueprint(e)
    \/ RereadForAdmission(e) \/ AdmissionControl(e) \/ QueueTask(e)
    \/ RereadForPreflight(e) \/ PreflightChecks(e)
    \/ StartHydration(e) \/ HydrateContext(e)
    \/ StartSession(e) \/ RecordSession(e)
    \/ PollTaskStatus(e) \/ SubstrateFailed(e) \/ WaitStrategy(e)
    \/ FinalizeRead(e) \/ FinalizeWrite(e) \/ Cleanup(e)
    \/ ReleaseSlot(e) \/ Checkpoint(e) \/ RetryStep(e) \/ GiveUp(e)

-----------------------------------------------------------------------------
(***************************************************************************)
(* The agent in a session                                                  *)
(***************************************************************************)

SetMode(s, mode) == session' = [session EXCEPT ![s].mode = mode]

\* write_running, then the pipeline goes on whether or not it took effect.
AgentStart(s) ==
    LET t == session[s].task IN
    /\ session[s].mode = "booting"
    /\ SetMode(s, "working")
    /\ IF status[t] \in {"SUBMITTED", "HYDRATING"}
          THEN SetStatus(t, "RUNNING")
          ELSE UNCHANGED status
    /\ UNCHANGED <<active, exec, pickup, recount, orphaned>>

\* transact_write_approval_request: only from RUNNING; otherwise the tool call
\* is denied and the agent works on.
PauseForApproval(s) ==
    LET t == session[s].task IN
    /\ session[s].mode = "working"
    /\ status[t] = "RUNNING"
    /\ SetStatus(t, "AWAITING_APPROVAL")
    /\ SetMode(s, "waiting")
    /\ UNCHANGED <<active, exec, pickup, recount, orphaned>>

\* transact_resume_from_approval, after a decision or the gate's timeout; the
\* agent works on even when the write does not happen.
ResumeFromApproval(s) ==
    LET t == session[s].task IN
    /\ session[s].mode = "waiting"
    /\ SetMode(s, "working")
    /\ \/ /\ status[t] = "AWAITING_APPROVAL"
          /\ SetStatus(t, "RUNNING")
       \/ /\ status[t] # "AWAITING_APPROVAL" \/ "storeError" \in Environment
          /\ UNCHANGED status
    /\ UNCHANGED <<active, exec, pickup, recount, orphaned>>

\* Bug: write_terminal without its condition.
AgentFinishOverwriting(s) ==
    LET t == session[s].task IN
    /\ Live(s)
    /\ SetMode(s, "gone")
    /\ \E outcome \in {"COMPLETED", "FAILED"} : SetStatus(t, outcome)
    /\ UNCHANGED <<active, exec, pickup, recount, orphaned>>

\* write_terminal: COMPLETED or FAILED at the end of the pipeline, FAILED when
\* the pipeline crashes at any point.
AgentFinish(s) ==
    LET t == session[s].task IN
    /\ Live(s)
    /\ SetMode(s, "gone")
    /\ IF status[t] \in {"RUNNING", "HYDRATING", "FINALIZING", "AWAITING_APPROVAL"}
          THEN \E outcome \in {"COMPLETED", "FAILED"} :
                 /\ outcome = "COMPLETED" => session[s].mode = "working"
                 /\ SetStatus(t, outcome)
          ELSE UNCHANGED status
    /\ UNCHANGED <<active, exec, pickup, recount, orphaned>>

AgentDies(s) ==
    /\ "agentDies" \in Environment
    /\ Live(s)
    /\ SetMode(s, "gone")
    /\ UNCHANGED <<status, active, exec, pickup, recount, orphaned>>

-----------------------------------------------------------------------------
(***************************************************************************)
(* Cancellation and the scheduled jobs                                     *)
(***************************************************************************)

\* The cancel handler: CANCELLED unless the task has ended.  It stops the
\* session only if the status it read earlier was RUNNING, and best-effort.
Cancel(t) ==
    /\ "cancel" \in Environment
    /\ status[t] \in Statuses \ TerminalStatuses
    /\ SetStatus(t, "CANCELLED")
    /\ \/ UNCHANGED session
       \/ \E s \in Sessions : session[s].task = t /\ Live(s) /\ SetMode(s, "gone")
    /\ UNCHANGED <<active, exec, pickup, recount, orphaned>>

Queued == {t \in Tasks : status[t] = "QUEUED"}

\* The admission-queue pickup: the queued tasks are listed,
ListQueuedTasks ==
    /\ pickup.pc = "idle"
    /\ Queued # {}
    /\ pickup' = [pickup EXCEPT !.pc = "count", !.batch = Queued]
    /\ UNCHANGED <<status, active, exec, session, recount, orphaned>>

\* then the counter is read and the oldest tasks that fit are kept,
ReadActiveCount ==
    LET available == MaxConcurrent - active IN
    /\ pickup.pc = "count"
    /\ pickup' = [pickup EXCEPT
            !.pc = "flip",
            !.batch = {t \in @ : Cardinality({u \in @ : u < t}) < available}]
    /\ UNCHANGED <<status, active, exec, session, recount, orphaned>>

\* then each, oldest first, goes QUEUED -> SUBMITTED unless a concurrent
\* transition won,
PickUpTask ==
    /\ pickup.pc = "flip"
    /\ IF pickup.batch = {}
          THEN pickup' = PickupIdle /\ UNCHANGED status
          ELSE \E t \in pickup.batch :
                 /\ \A u \in pickup.batch : t <= u
                 /\ IF status[t] = "QUEUED"
                       THEN /\ SetStatus(t, "SUBMITTED")
                            /\ pickup' = [pickup EXCEPT !.pc = "invoke", !.task = t,
                                                        !.batch = @ \ {t}]
                       ELSE /\ pickup' = [pickup EXCEPT !.batch = @ \ {t}]
                            /\ UNCHANGED status
    /\ UNCHANGED <<active, exec, session, recount, orphaned>>

\* and the orchestrator is invoked again.
InvokeOrchestrator ==
    /\ pickup.pc = "invoke"
    /\ \/ /\ Invoke(pickup.task)
          /\ pickup' = [pickup EXCEPT !.pc = "flip", !.task = Nil]
       \/ /\ \/ "lostInvoke" \in Environment /\ UNCHANGED exec
             \/ "ambiguousInvoke" \in Environment /\ Invoke(pickup.task)
          /\ pickup' = [pickup EXCEPT !.pc = "requeue"]
    /\ UNCHANGED <<status, active, session, recount, orphaned>>

\* Bug: the task is put back whatever has become of it.
RequeueUnconditionally ==
    /\ pickup.pc = "requeue"
    /\ SetStatus(pickup.task, "QUEUED")
    /\ pickup' = [pickup EXCEPT !.pc = "flip", !.task = Nil]
    /\ UNCHANGED <<active, exec, session, recount, orphaned>>

\* A failed invocation puts the task back if it is still SUBMITTED.
RequeueAfterInvokeFailure ==
    LET t == pickup.task IN
    /\ pickup.pc = "requeue"
    /\ IF status[t] = "SUBMITTED" THEN SetStatus(t, "QUEUED") ELSE UNCHANGED status
    /\ pickup' = [pickup EXCEPT !.pc = "flip", !.task = Nil]
    /\ UNCHANGED <<active, exec, session, recount, orphaned>>

PickupDies ==
    /\ "pickupDies" \in Environment
    /\ pickup.pc # "idle"
    /\ pickup' = PickupIdle
    /\ UNCHANGED <<status, active, exec, session, recount, orphaned>>

\* Bug: old tasks expire only when the user has room for another task.
ExpireQueuedTaskWithRoom(t) ==
    /\ status[t] = "QUEUED"
    /\ active < MaxConcurrent
    /\ SetStatus(t, "FAILED")
    /\ UNCHANGED <<active, exec, session, pickup, recount, orphaned>>

\* expireQueuedTask: a task over QUEUE_MAX_AGE_SECONDS fails; it holds no slot.
ExpireQueuedTask(t) ==
    /\ status[t] = "QUEUED"
    /\ SetStatus(t, "FAILED")
    /\ UNCHANGED <<active, exec, session, pickup, recount, orphaned>>

\* failStrandedTask: FAILED and, in every case, a decrement (which is lost if
\* the Lambda dies in between).
FailStrandedTask(t) ==
    /\ "sweep" \in Environment
    /\ status[t] \in {"SUBMITTED", "HYDRATING", "AWAITING_APPROVAL"}
    /\ SetStatus(t, "FAILED")
    /\ Decrement \/ UNCHANGED active
    /\ UNCHANGED <<exec, session, pickup, recount, orphaned>>

\* The concurrency reconciler reads the counter,
ScanCounter ==
    /\ "recount" \in Environment
    /\ recount.pc = "idle"
    /\ recount' = [recount EXCEPT !.pc = "scanned", !.stored = active]
    /\ UNCHANGED <<status, active, exec, session, pickup, orphaned>>

\* counts the user's tasks in four of the statuses,
Counted == {t \in Tasks : status[t] \in {"SUBMITTED", "HYDRATING", "RUNNING", "FINALIZING"}}

CountActiveTasks ==
    /\ recount.pc = "scanned"
    /\ recount' = [recount EXCEPT !.pc = "counted", !.count = Cardinality(Counted)]
    /\ UNCHANGED <<status, active, exec, session, pickup, orphaned>>

\* Bug: drift is corrected upwards only.
CorrectDriftUpwards ==
    /\ recount.pc = "counted"
    /\ active' = IF active = recount.stored /\ recount.count > active
                   THEN recount.count ELSE active
    /\ recount' = RecountIdle
    /\ UNCHANGED <<status, exec, session, pickup, orphaned>>

\* and stores that number if the counter still has the value it scanned.
CorrectDrift ==
    /\ recount.pc = "counted"
    /\ active' = IF active = recount.stored THEN recount.count ELSE active
    /\ recount' = RecountIdle
    /\ UNCHANGED <<status, exec, session, pickup, orphaned>>

-----------------------------------------------------------------------------

Agent(s) ==
    \/ AgentStart(s) \/ PauseForApproval(s) \/ ResumeFromApproval(s)
    \/ AgentFinish(s) \/ AgentDies(s)

Pickup ==
    \/ ListQueuedTasks \/ ReadActiveCount \/ PickUpTask \/ InvokeOrchestrator
    \/ RequeueAfterInvokeFailure \/ PickupDies

Recount == ScanCounter \/ CountActiveTasks \/ CorrectDrift

\* Every task has ended and every handler has returned.
Settled ==
    /\ \A t \in Tasks : status[t] \in TerminalStatuses
    /\ \A e \in Executions : exec[e].pc = "idle"
    /\ \A s \in Sessions : ~Live(s)
    /\ pickup.pc = "idle" /\ recount.pc = "idle"
    /\ UNCHANGED vars

Next ==
    \/ \E t \in Tasks :
         CreateTask(t) \/ Cancel(t) \/ ExpireQueuedTask(t) \/ FailStrandedTask(t)
    \/ \E e \in Executions : Orchestrate(e) \/ Interrupt(e)
    \/ \E s \in Sessions : Agent(s)
    \/ Pickup
    \/ Recount
    \/ Settled

Spec == Init /\ [][Next]_vars

-----------------------------------------------------------------------------
(***************************************************************************)
(* Properties                                                              *)
(***************************************************************************)

Pcs == Steps \cup {"idle", "admit", "queue", "preflight-checks", "hydrating",
                   "session-started", "poll-check", "finalize-write", "release",
                   "cleanup", "checkpoint", "thrown"}

TaskStates == Statuses \cup {NoStatus}

\* Every variable has its type: the statuses are those of TaskStatus, the
\* counter is never negative, every handler is at one of its own store calls.
TypeOK ==
    /\ status \in [Tasks -> TaskStates]
    /\ active \in Nat
    /\ exec \in [Executions ->
          [pc : Pcs, step : Steps, task : Tasks \cup {Nil}, seen : TaskStates,
           current : TaskStates, unhealthy : BOOLEAN, then : Pcs,
           handle : Sessions \cup {Nil}, slot : BOOLEAN]]
    /\ session \in [Sessions ->
          [task : Tasks \cup {Nil},
           mode : {"none", "booting", "working", "waiting", "gone"}]]
    /\ pickup \in [pc : {"idle", "count", "flip", "invoke", "requeue"}, batch : SUBSET Tasks,
                   task : Tasks \cup {Nil}]
    /\ recount \in [pc : {"idle", "scanned", "counted"}, stored : Nat, count : Nat]
    /\ orphaned \subseteq Tasks

\* Tasks in the states that own a slot: admitted and not ended.
Consuming == {t \in Tasks : status[t] \in ActiveStatuses \ {"SUBMITTED"}}

Holders == {e \in Executions : exec[e].slot}

\* The executions that have moved their task past SUBMITTED.
Driving == {e \in Executions : \/ At(e, "hydrating")
                               \/ exec[e].step \in {"start-session",
                                      "await-agent-completion", "finalize"}}

\* The per-user cap: never more than MAX_CONCURRENT_TASKS_PER_USER tasks are
\* between admission and their end, however executions, retries, cancellations
\* and pickups interleave.
CapHonoured == Cardinality(Consuming) <= MaxConcurrent

\* The counter never falls below the slots that executions hold or have lost:
\* no release takes a slot that another task is using.
CounterCoversSlots == Cardinality(Holders) + Cardinality(orphaned) <= active

\* An orchestration gives its slot back only when its task has ended.
ReleasedOnlyWhenEnded ==
    \A e \in Executions : At(e, "release") => status[exec[e].task] \in TerminalStatuses

\* A task may be invoked twice (an ambiguous invocation, a requeue), and still
\* at most one execution gets to hydrate it and start its sessions.
OneDriver == \A e, f \in Driving : exec[e].task = exec[f].task => e = f

-----------------------------------------------------------------------------
(***************************************************************************)
(* The promise to the user, with the cap and (where a repair job or a lost *)
(* checkpoint may disturb the counter) without it.                         *)
(***************************************************************************)

Phase(s) ==
    CASE s = NoStatus                                    -> "absent"
      [] s \in PreActiveStatuses \cup {"SUBMITTED"}      -> "waiting"
      [] s \in TerminalStatuses                          -> "ended"
      [] OTHER                                           -> "active"

Outcome(s) == IF s \in TerminalStatuses THEN s ELSE "none"

phases == [t \in Tasks |-> Phase(status[t])]

outcomes == [t \in Tasks |-> Outcome(status[t])]

Capped == INSTANCE TaskContract
    WITH Outcomes <- TerminalStatuses, MaxActive <- MaxConcurrent,
         phase <- phases, outcome <- outcomes

Uncapped == INSTANCE TaskContract
    WITH Outcomes <- TerminalStatuses, MaxActive <- Cardinality(Tasks) + 1,
         phase <- phases, outcome <- outcomes

\* A task waits, is worked on and ends, in that order and never more than
\* MaxConcurrent at once; nobody overwrites an outcome.
CappedContract == Capped!Spec

\* The same order and the same permanence of outcomes, whatever happens to
\* the counter.
Contract == Uncapped!Spec

-----------------------------------------------------------------------------
(***************************************************************************)
(* Liveness                                                                *)
(***************************************************************************)

\* Handlers that run go on; durable retries and polls of a dead session are
\* finite; an agent starts, comes out of a gate and finishes; the scheduled
\* jobs run again and again, so that a task that stays over age is found.
Fairness ==
    /\ \A e \in Executions :
         /\ WF_vars(Orchestrate(e))
         /\ SF_vars(GiveUp(e))
         /\ SF_vars(PollTaskStatus(e) /\ exec'[e].unhealthy)
    /\ \A s \in Sessions :
         /\ WF_vars(AgentStart(s))
         /\ WF_vars(ResumeFromApproval(s))
         /\ SF_vars(AgentFinish(s))
    /\ WF_vars(Pickup)
    /\ WF_vars(Recount)
    /\ \A t \in Tasks :
         /\ SF_vars(ExpireQueuedTask(t))
         /\ WF_vars(FailStrandedTask(t))

FairSpec == Spec /\ Fairness

\* Every task that is created eventually reaches a terminal status.
EveryTaskEnds ==
    \A t \in Tasks : status[t] # NoStatus ~> status[t] \in TerminalStatuses

\* Whatever slots cancellations, replays and the other jobs have lost or given
\* back twice, the concurrency reconciler brings the counter back to zero once
\* nothing of the user's is left: a leak never locks the user out for good.
CounterRepaired ==
    /\ \A t \in Tasks : status[t] \in TerminalStatuses
    /\ \A e \in Executions : exec[e].pc = "idle"
    ~> active = 0
=============================================================================
