----------------------- MODULE TaskLifecycleInvariant -----------------------
(***************************************************************************)
(* Why the concurrency cap holds: the inductive invariant behind           *)
(* CapHonoured, and the surroundings it needs.                             *)
(***************************************************************************)
EXTENDS TaskLifecycle

\* No job repairs or sweeps behind the orchestration's back, a session judged
\* dead is dead, the poll cap is not reached, and finalize is not run twice.
Undisturbed ==
    /\ Environment \cap {"sweep", "recount", "pollCap", "staleBeat"} = {}
    /\ "finalize" \notin Replays
    /\ ComputeType # "ecs"

NotStarted == {NoStatus, "PENDING_UPLOADS", "QUEUED", "SUBMITTED"}

\* What a handler does next fits the durable step it is in.
FitsStep(pc, step, then) ==
    /\ pc \in Steps => step = pc
    /\ pc \in {"admit", "queue"} => step = "admission-control"
    /\ pc = "preflight-checks" => step = "pre-flight"
    /\ pc = "hydrating" => step = "hydrate-context"
    /\ pc = "session-started" => step = "start-session"
    /\ pc = "poll-check" => step = "await-agent-completion"
    /\ pc \in {"finalize-write", "cleanup"} => step = "finalize"
    /\ pc = "thrown" =>
         step \in {"load-blueprint", "pre-flight", "hydrate-context", "start-session"}
    /\ pc = "release" =>
         \/ step = "pre-flight" /\ then \in {"checkpoint", "thrown"}
         \/ step \in {"hydrate-context", "start-session"} /\ then = "thrown"
         \/ step = "finalize" /\ then = "cleanup"
    /\ pc = "checkpoint" =>
         \/ step \in {"admission-control", "pre-flight", "finalize"} /\ then = "idle"
         \/ step = "admission-control" /\ then = "pre-flight"
         \/ step = "start-session" /\ then = "await-agent-completion"

\* An execution that is not idle works on a task.
Placed(r) ==
    /\ FitsStep(r.pc, r.step, r.then)
    /\ r.pc = "idle" => r = Idle
    /\ r.pc # "idle" => r.task \in Tasks /\ status[r.task] # NoStatus

HandlersPlaced ==
    /\ \A e \in Executions : Placed(exec[e])
    /\ \A s \in Sessions : session[s].mode # "none" => session[s].task \in Tasks
    /\ pickup.pc \in {"invoke", "requeue"} =>
         pickup.task \in Tasks /\ status[pickup.task] # NoStatus
    /\ \A t \in pickup.batch : status[t] # NoStatus

Admitted(r) ==
    \/ r.step \in {"pre-flight", "hydrate-context", "start-session"}
    \/ r.pc = "checkpoint" /\ r.then = "pre-flight"

Awaiting(r) ==
    \/ r.pc \in {"await-agent-completion", "poll-check", "finalize", "finalize-write"}
    \/ r.pc = "checkpoint" /\ r.then = "await-agent-completion"

Polling(r) ==
    \/ r.step \in {"await-agent-completion", "finalize"}
    \/ r.pc = "checkpoint" /\ r.then = "await-agent-completion"

\* An admitted execution holds its slot until its task has ended, and one
\* about to release has it to release.
SlotsHeld ==
    \A e \in Executions :
        LET r == exec[e] IN
        /\ Admitted(r) => r.slot \/ status[r.task] \in TerminalStatuses
        /\ Awaiting(r) => r.slot
        /\ r.pc = "release" => r.slot /\ status[r.task] \in TerminalStatuses

\* A task that is driven, or has a session, has been hydrated; one that is
\* polled has been started.
Started ==
    /\ \A e \in Driving : status[exec[e].task] \notin NotStarted
    /\ \A s \in Sessions : session[s].mode # "none" => status[session[s].task] \notin NotStarted
    /\ \A e \in Executions :
         Polling(exec[e]) => status[exec[e].task] \notin NotStarted \cup {"HYDRATING"}
    /\ \A e \in Executions : At(e, "poll-check") => exec[e].current # "HYDRATING"

\* A task judged unhealthy has ended or is RUNNING with nobody left to change
\* that, so finalizeTask's write takes effect.
Verdicts ==
    \A e \in Executions :
        LET r == exec[e]
            t == r.task
            Lost == r.unhealthy /\ status[t] = "RUNNING" /\ ~HasLiveSession(t)
        IN
        /\ r.pc = "poll-check" /\ r.unhealthy => status[t] \in TerminalStatuses \/ Lost
        /\ r.pc = "finalize" => status[t] \in TerminalStatuses \/ Lost
        /\ r.pc = "finalize-write" =>
             status[t] \in TerminalStatuses \/ (Lost /\ r.current = "RUNNING")

\* Every task that owns a slot owns it through an execution, or is one whose
\* execution is over.
Covered ==
    \A t \in Consuming :
        t \in orphaned \/ \E e \in Holders : exec[e].task = t

\* The counter is between the slots taken and the cap.
CounterInRange == CounterCoversSlots /\ active <= MaxConcurrent

RecountOff == recount = RecountIdle

\* The inductive invariant.
IInv ==
    /\ TypeOK /\ HandlersPlaced /\ RecountOff
    /\ Started /\ OneDriver /\ SlotsHeld /\ Verdicts
    /\ CounterInRange /\ Covered
=============================================================================
