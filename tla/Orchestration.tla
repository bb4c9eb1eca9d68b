---------------------------- MODULE Orchestration ----------------------------
(***************************************************************************)
(* The orchestration of one epic: its sub-issues are rows of a table, a    *)
(* row is released as a task when its predecessors have succeeded, and the *)
(* parent issue is settled when every row has ended.                       *)
(*                                                                         *)
(* Nothing but conditional writes of single rows keeps the handlers apart: *)
(* the reconciler runs once per event of the task table's stream, several  *)
(* at a time for different tasks; a scheduled sweep repairs what a lost    *)
(* event or a crash left behind; the webhook processor seeds the epic and  *)
(* retries it.  Each action is one call to a store with the computation up *)
(* to the next call.                                                       *)
(*                                                                         *)
(* A task is only what the rows and the idempotency index see of it: which *)
(* child it belongs to, the key it was created under, and how it ended.    *)
(***************************************************************************)
EXTENDS Naturals, OrchestrationPlan

CONSTANTS
    Reconcilers,    \* stream invocations that may run at a time (a bound)
    TaskIds,        \* ids for the tasks that may ever be created (a bound)
    Surface,        \* the issue tracker: its webhook processor runs the retry
    Environment,    \* what the surroundings may do in this instance
    MaxFaults,      \* faults that may happen in a behaviour (a bound)
    MaxReopens,     \* retries and fixes by the user in a behaviour (a bound)
    Nil             \* no task, no child

EnvironmentEvents ==
    {"crash",       \* a handler dies between two calls
     "lost",        \* the event it was handling is not delivered again
     "redeliver",   \* an ended task's event arrives again
     "throttle",    \* the user's free slots do not cover all releasable rows
     "outage",      \* a creation, or the write after it, fails
     "refused",     \* a creation is refused for good (guardrail, validation)
     "retry",       \* the user retries the epic
     "fix",         \* an iteration the user asked for repairs a failed child
     "hasty",       \* ... either of them while handlers are still at work
     "overlap"}     \* the sweep starts while another handler is releasing a row

ASSUME OrchestrationAssumption ==
    /\ IsFiniteSet(Reconcilers)
    /\ TaskIds \subseteq Nat /\ IsFiniteSet(TaskIds)
    /\ Surface \in {"linear", "jira"}
    /\ Environment \subseteq EnvironmentEvents
    /\ MaxFaults \in Nat /\ MaxReopens \in Nat
    /\ Nil \notin TaskIds /\ Nil \notin Children
    /\ {"sweep", "webhook"} \cap Reconcilers = {}

VARIABLES
    row,        \* OrchestrationTable: child_status and child_task_id of each child
    settled,    \* has the meta row a rollup_posted_at?
    task,       \* the tasks created for children
    worker,     \* the handlers
    delivered,  \* tasks whose terminal event has reached a reconciler
    faults,     \* faults so far
    reopens     \* retries and fixes so far

vars == <<row, settled, task, worker, delivered, faults, reopens>>

Workers == Reconcilers \cup {"sweep", "webhook"}

NoTask == [child |-> Nil, prior |-> Nil, state |-> "none"]

Ended == {"succeeded", "failed"}

Status(rows) == [c \in Children |-> rows[c].status]

SeededRows ==
    [c \in Children |->
        [status |-> IF DependsOn[c] = {} THEN "ready" ELSE "blocked", task |-> Nil]]

Idle == [pc |-> "idle", job |-> "none", event |-> Nil, child |-> Nil, rows |-> SeededRows,
         writes |-> {}, queue |-> {}, refused |-> {}, made |-> Nil]

\* A fault the surroundings may still inject.
Fault(kind) ==
    /\ kind \in Environment
    /\ faults < MaxFaults
    /\ faults' = faults + 1

\* readConcurrencyBudget: the rows this pass releases, the rest stay as they
\* are.  A smaller budget than the rows is a fault of the surroundings.
Throttled(rows, queue) ==
    \/ queue = rows /\ UNCHANGED faults
    \/ queue \in (SUBSET rows) \ {rows} /\ Fault("throttle")

\* The seeding handler is about to release the roots it has just written.
Init ==
    /\ row = SeededRows
    /\ settled = FALSE
    /\ task = [t \in TaskIds |-> NoTask]
    /\ worker = [w \in Workers |->
                    IF w = "webhook"
                    THEN [Idle EXCEPT !.pc = "release", !.job = "seed",
                                      !.queue = {c \in Children : DependsOn[c] = {}}]
                    ELSE Idle]
    /\ delivered = {}
    /\ faults = 0
    /\ reopens = 0

At(w, pc) == worker[w].pc = pc

\* No handler is at work, and every event there was has been handled.
AtRest ==
    /\ \A w \in Workers : At(w, "idle")
    /\ \A t \in TaskIds : task[t].state \in Ended => t \in delivered

(***************************************************************************)
(* The tasks                                                               *)
(***************************************************************************)

\* COMPLETED with build_passed not false, or any other terminal outcome.
TaskEnds(t) ==
    /\ task[t].state = "running"
    /\ \E s \in Ended : task' = [task EXCEPT ![t].state = s]
    /\ UNCHANGED <<row, settled, worker, delivered, faults, reopens>>

(***************************************************************************)
(* The reconciler: one invocation per terminal event                       *)
(***************************************************************************)

\* resolveSubIssueId: an event whose task is on no row is dropped.  Events
\* of one task are handled one after the other.
Deliver(w, t) ==
    /\ At(w, "idle")
    /\ task[t].state \in Ended
    /\ IF t \in delivered THEN Fault("redeliver") ELSE UNCHANGED faults
    /\ \A v \in Workers : worker[v].event # t
    /\ delivered' = delivered \cup {t}
    /\ worker' = [worker EXCEPT ![w] =
            IF \E c \in Children : row[c].task = t
            THEN [Idle EXCEPT !.pc = "load", !.job = "reconcile", !.event = t,
                              !.child = CHOOSE c \in Children : row[c].task = t]
            ELSE Idle]
    /\ UNCHANGED <<row, settled, task, reopens>>

Load(w) ==
    /\ At(w, "load")
    /\ worker' = [worker EXCEPT
            ![w].pc = "write",
            ![w].writes = ReconcilePlan(Status(row), worker[w].child,
                                        task[worker[w].event].state = "succeeded")]
    /\ UNCHANGED <<row, settled, task, delivered, faults, reopens>>

\* The condition of the write of one row.
Applies(w, wr) ==
    LET now == row[wr.child].status
    IN CASE wr.status = "skipped" -> now \in Waiting
         [] worker[w].job = "sweep" /\ wr.status = "ready" -> now = "releasing"
         [] worker[w].job = "retry" /\ Surface = "jira" /\ wr.status # "skipped" ->
              now = worker[w].rows[wr.child].status
         [] OTHER -> now # wr.status

\* A plan's writes, the child whose event this is first.
Write(w) ==
    /\ worker[w].pc \in {"write", "reset", "cascade"}
    /\ \E wr \in worker[w].writes :
        /\ \/ wr.child = worker[w].child
           \/ \A other \in worker[w].writes : other.child # worker[w].child
        /\ row' = IF Applies(w, wr)
                  THEN [row EXCEPT ![wr.child].status = wr.status] ELSE row
        /\ worker' = [worker EXCEPT ![w].writes = @ \ {wr}]
    /\ UNCHANGED <<settled, task, delivered, faults, reopens>>

Written(w, pc) == At(w, pc) /\ worker[w].writes = {}

\* Bug: what can be released is decided on the rows as they were before.
RereadNothing(w) ==
    /\ Written(w, "write") /\ worker[w].job = "reconcile"
    /\ LET plan == ReconcilePlan(Status(worker[w].rows), worker[w].child,
                                 task[worker[w].event].state = "succeeded")
       IN worker' = [worker EXCEPT ![w] = [@ EXCEPT
            !.pc = "release", !.child = Nil,
            !.queue = Releasable(After(Status(worker[w].rows), plan))]]
    /\ UNCHANGED <<row, settled, task, delivered, faults, reopens>>

\* The fresh read after the writes, and what it finds releasable.
Reread(w) ==
    /\ Written(w, "write") /\ worker[w].job = "reconcile"
    /\ \E queue \in SUBSET Children :
        /\ Throttled(Releasable(Status(row)), queue)
        /\ worker' = [worker EXCEPT ![w] = [@ EXCEPT !.pc = "release", !.rows = row,
                                                     !.queue = queue, !.child = Nil]]
    /\ UNCHANGED <<row, settled, task, delivered, reopens>>

(***************************************************************************)
(* releaseChild: claim the row, create its task, record it                 *)
(***************************************************************************)

\* Bug: the row is flipped without asking whether another releaser has it.
ClaimAnyway(w) ==
    /\ At(w, "release")
    /\ \E c \in worker[w].queue :
        /\ row' = [row EXCEPT ![c].status = "releasing"]
        /\ worker' = [worker EXCEPT ![w] = [@ EXCEPT
                !.queue = worker[w].queue \ {c}, !.pc = "lookup", !.child = c]]
    /\ UNCHANGED <<settled, task, delivered, faults, reopens>>

\* The claim is the serialization point: the loser goes on to its next row.
Claim(w) ==
    /\ At(w, "release")
    /\ \E c \in worker[w].queue :
        LET won == row[c].status \in Waiting
        IN /\ row' = IF won THEN [row EXCEPT ![c].status = "releasing"] ELSE row
           /\ worker' = [worker EXCEPT ![w] = [@ EXCEPT
                    !.queue = worker[w].queue \ {c},
                    !.pc = IF won THEN "lookup" ELSE "release",
                    !.child = IF won THEN c ELSE Nil]]
    /\ UNCHANGED <<settled, task, delivered, faults, reopens>>

\* The idempotency key is the child's, salted with the task it had before.
Created(c, prior) == {t \in TaskIds : task[t].child = c /\ task[t].prior = prior}

Prior(w) == worker[w].rows[worker[w].child].task

\* Bug: the task is created without an idempotency key.
LookupNothing(w) ==
    /\ At(w, "lookup")
    /\ worker' = [worker EXCEPT ![w].pc = "create"]
    /\ UNCHANGED <<row, settled, task, delivered, faults, reopens>>

\* createTaskCore looks its key up in the index first ...
Lookup(w) ==
    /\ At(w, "lookup")
    /\ LET same == Created(worker[w].child, Prior(w))
       IN worker' = [worker EXCEPT ![w] =
            IF same = {} THEN [@ EXCEPT !.pc = "create"]
            ELSE [@ EXCEPT !.pc = "record", !.made = CHOOSE t \in same : TRUE]]
    /\ UNCHANGED <<row, settled, task, delivered, faults, reopens>>

NewTask(w, t) ==
    /\ task[t] = NoTask
    /\ \A s \in TaskIds : s < t => task[s] # NoTask
    /\ task' = [task EXCEPT ![t] =
            [child |-> worker[w].child, prior |-> Prior(w), state |-> "running"]]

\* ... then screens the request and puts the task.
Create(w) ==
    /\ At(w, "create")
    /\ \E t \in TaskIds :
        /\ NewTask(w, t)
        /\ worker' = [worker EXCEPT ![w] = [@ EXCEPT !.pc = "record", !.made = t]]
    /\ UNCHANGED <<row, settled, delivered, faults, reopens>>

\* It is refused for good, or fails, perhaps after the task was put.
CreateRefused(w) ==
    /\ At(w, "create")
    /\ Fault("refused")
    /\ worker' = [worker EXCEPT ![w].pc = "refuse"]
    /\ UNCHANGED <<row, settled, task, delivered, reopens>>

CreateFails(w) ==
    /\ At(w, "create")
    /\ Fault("outage")
    /\ UNCHANGED task \/ \E t \in TaskIds : NewTask(w, t)
    /\ worker' = [worker EXCEPT ![w].pc = "rollback"]
    /\ UNCHANGED <<row, settled, delivered, reopens>>

\* Each of the three writes that end a release asks that the row is still
\* being released; whether it was or not, the next row follows.
EndRelease(w, new) ==
    LET c == worker[w].child
    IN /\ row' = IF row[c].status = "releasing" THEN [row EXCEPT ![c] = new] ELSE row
       /\ worker' = [worker EXCEPT ![w] = [@ EXCEPT
                !.pc = "release", !.child = Nil, !.made = Nil,
                !.refused = IF new.status = "failed" THEN worker[w].refused \cup {c}
                                                     ELSE worker[w].refused]]
       /\ UNCHANGED <<settled, task, delivered, reopens>>

Record(w) ==
    /\ At(w, "record")
    /\ EndRelease(w, [status |-> "released", task |-> worker[w].made])
    /\ UNCHANGED faults

RollBackClaim(w) ==
    /\ At(w, "rollback")
    /\ EndRelease(w, [row[worker[w].child] EXCEPT !.status = "ready"])
    /\ UNCHANGED faults

FailClaimTerminal(w) ==
    /\ At(w, "refuse")
    /\ EndRelease(w, [row[worker[w].child] EXCEPT !.status = "failed"])
    /\ UNCHANGED faults

\* The write that ends a release fails, and its error is only logged.
EndReleaseFails(w) ==
    /\ worker[w].pc \in {"record", "rollback", "refuse"}
    /\ Fault("outage")
    /\ worker' = [worker EXCEPT ![w] = [@ EXCEPT
            !.pc = "release", !.child = Nil, !.made = Nil,
            !.refused = IF At(w, "refuse") THEN worker[w].refused \cup {worker[w].child}
                                           ELSE worker[w].refused]]
    /\ UNCHANGED <<row, settled, task, delivered, reopens>>

(***************************************************************************)
(* After the releases                                                      *)
(***************************************************************************)

Released(w) == At(w, "release") /\ worker[w].queue = {}

\* applyTerminalCreateFailures: skip what depends on a refused child, and
\* carry both into the view the settle works from.
AppliesFailures(w) ==
    \/ worker[w].job \in {"reconcile", "seed"}
    \/ worker[w].job = "retry" /\ Surface = "jira"

ApplyTerminalCreateFailures(w) ==
    /\ Released(w) /\ AppliesFailures(w) /\ worker[w].refused # {}
    /\ LET failed == [c \in Children |-> IF c \in worker[w].refused THEN "failed"
                                         ELSE worker[w].rows[c].status]
           skips  == UNION {SkipPlan(failed, c) : c \in worker[w].refused}
           view   == After(failed, skips)
       IN worker' = [worker EXCEPT ![w] = [@ EXCEPT
                !.pc = "cascade", !.writes = skips, !.refused = {},
                !.rows = [c \in Children |-> [status |-> view[c],
                                              task |-> worker[w].rows[c].task]]]]
    /\ UNCHANGED <<row, settled, task, delivered, faults, reopens>>

NothingRefused(w) == Released(w) /\ (AppliesFailures(w) => worker[w].refused = {})

\* A seed, a retry and a sweep that released something leave the rest to others.
Finish(w) ==
    /\ \/ NothingRefused(w) /\ worker[w].job \in {"seed", "retry", "sweep"}
       \/ Written(w, "cascade") /\ worker[w].job \in {"seed", "retry"}
    /\ worker' = [worker EXCEPT ![w] = Idle]
    /\ UNCHANGED <<row, settled, task, delivered, faults, reopens>>

\* refreshPanelAndSettle on the view at hand: the first handler to find
\* every child ended claims the rollup and mirrors the outcome to the parent.
Settle(w) ==
    /\ \/ NothingRefused(w) /\ worker[w].job = "reconcile"
       \/ Written(w, "cascade") /\ worker[w].job = "reconcile"
       \/ At(w, "settle")
    /\ settled' = (settled \/ AllTerminal(Status(worker[w].rows)))
    /\ worker' = [worker EXCEPT ![w] = Idle]
    /\ UNCHANGED <<row, task, delivered, faults, reopens>>

(***************************************************************************)
(* The user reopens what has ended                                         *)
(***************************************************************************)

Reopens(event) ==
    /\ event \in Environment /\ reopens < MaxReopens
    /\ "hasty" \in Environment \/ AtRest
    /\ reopens' = reopens + 1

\* A retry of the epic: a comment or label is acted on once.  A child that
\* failed is ready or blocked again, a skipped one blocked.
Retry ==
    LET plan == RetryPlan(Status(row))
    IN /\ Reopens("retry")
       /\ At("webhook", "idle")
       /\ plan # {}
       /\ worker' = [worker EXCEPT !["webhook"] = [Idle EXCEPT
                !.pc = "write", !.job = "retry", !.rows = row, !.writes = plan,
                !.queue = ToRelease(Status(row), plan, "ready")]]
       /\ UNCHANGED <<row, settled, task, delivered, faults>>

\* maybeRecoverFailedNode: the terminal event of an iteration that succeeded
\* on a failed child, which must have had a task: its pull request is what
\* the iteration works on.  On any other child it changes no row.
Fix(w, c) ==
    LET plan == RecoveryPlan(Status(row), c)
    IN /\ Reopens("fix")
       /\ At(w, "idle")
       /\ row[c].task # Nil
       /\ plan # {}
       /\ worker' = [worker EXCEPT ![w] = [Idle EXCEPT
                !.pc = "write", !.job = "fix", !.child = c, !.writes = plan,
                !.queue = ToRelease(Status(row), plan, "blocked")]]
       /\ UNCHANGED <<row, settled, task, delivered, faults>>

ClearRollupClaim(w) ==
    /\ Written(w, "write") /\ worker[w].job \in {"retry", "fix"}
    /\ settled' = FALSE
    /\ worker' = [worker EXCEPT ![w].pc = "reread"]
    /\ UNCHANGED <<row, task, delivered, faults, reopens>>

\* They release what their plan found, not what the fresh read would find.
RereadToRelease(w) ==
    /\ At(w, "reread")
    /\ LET planned == IF worker[w].job = "retry" /\ Surface = "jira"
                      THEN {c \in worker[w].queue : row[c].status = "ready"}
                      ELSE worker[w].queue
       IN \E queue \in SUBSET planned :
            /\ Throttled(planned, queue)
            /\ worker' = [worker EXCEPT ![w] = [@ EXCEPT !.pc = "release", !.rows = row,
                                                         !.queue = queue, !.child = Nil]]
    /\ UNCHANGED <<row, settled, task, delivered, reopens>>

Refresh(w) ==
    /\ Released(w) /\ worker[w].job = "fix"
    /\ worker' = [worker EXCEPT ![w] = [@ EXCEPT !.pc = "settle", !.rows = row]]
    /\ UNCHANGED <<row, settled, task, delivered, faults, reopens>>

(***************************************************************************)
(* The scheduled sweep                                                     *)
(***************************************************************************)

Releasing(c) ==
    \E w \in Workers :
        /\ worker[w].pc \in {"lookup", "create", "record", "rollback", "refuse"}
        /\ worker[w].child = c

\* Bug: an epic whose children have all ended is skipped.
SweepLoadUnlessEnded ==
    /\ At("sweep", "idle")
    /\ ~AllTerminal(Status(row))
    /\ "overlap" \in Environment \/ \A c \in Children : ~Releasing(c)
    /\ worker' = [worker EXCEPT !["sweep"] = [Idle EXCEPT
            !.pc = "reset", !.job = "sweep", !.rows = row,
            !.writes = SetTo({c \in Children : row[c].status = "releasing"}, "ready"),
            !.queue = {c \in Children : row[c].status = "released"}]]
    /\ UNCHANGED <<row, settled, task, delivered, faults, reopens>>

\* Every row that is being released counts as stuck: nothing but the sweep's
\* ten-minute period keeps it from a release that is under way.
SweepLoad ==
    /\ At("sweep", "idle")
    /\ "overlap" \in Environment \/ \A c \in Children : ~Releasing(c)
    /\ worker' = [worker EXCEPT !["sweep"] = [Idle EXCEPT
            !.pc = IF AllTerminal(Status(row)) THEN "settle" ELSE "reset",
            !.job = "sweep", !.rows = row,
            !.writes = SetTo({c \in Children : row[c].status = "releasing"}, "ready"),
            !.queue = {c \in Children : row[c].status = "released"}]]
    /\ UNCHANGED <<row, settled, task, delivered, faults, reopens>>

\* Lost terminal events: a released child takes the outcome of its task.
Advance ==
    /\ Written("sweep", "reset")
    /\ \E c \in worker["sweep"].queue :
        LET outcome == task[worker["sweep"].rows[c].task].state
        IN /\ row' = IF outcome \in Ended THEN [row EXCEPT ![c].status = outcome] ELSE row
           /\ worker' = [worker EXCEPT !["sweep"].queue = @ \ {c}]
    /\ UNCHANGED <<settled, task, delivered, faults, reopens>>

SweepReread ==
    /\ Written("sweep", "reset") /\ worker["sweep"].queue = {}
    /\ worker' = [worker EXCEPT !["sweep"] = [@ EXCEPT
            !.pc = "cascade", !.rows = row, !.writes = DeadPlan(Status(row))]]
    /\ UNCHANGED <<row, settled, task, delivered, faults, reopens>>

SweepRelease ==
    /\ Written("sweep", "cascade")
    /\ LET found == Releasable(Status(worker["sweep"].rows))
       IN \E queue \in SUBSET found :
            /\ Throttled(found, queue)
            /\ worker' = [worker EXCEPT !["sweep"] = [@ EXCEPT
                    !.pc = IF found = {} THEN "settle" ELSE "release", !.queue = queue]]
    /\ UNCHANGED <<row, settled, task, delivered, reopens>>

(***************************************************************************)
(* Crashes                                                                 *)
(***************************************************************************)

\* The stream delivers a record again until its retries are spent.
Crash(w) ==
    /\ ~At(w, "idle")
    /\ Fault("crash")
    /\ worker' = [worker EXCEPT ![w] = Idle]
    /\ \/ delivered' = delivered \ {worker[w].event}
       \/ "lost" \in Environment /\ UNCHANGED delivered
    /\ UNCHANGED <<row, settled, task, reopens>>

(***************************************************************************)
(* The specification                                                       *)
(***************************************************************************)

Handle(w) ==
    \/ Load(w) \/ Write(w) \/ Reread(w)
    \/ Claim(w) \/ Lookup(w) \/ Create(w)
    \/ Record(w) \/ RollBackClaim(w) \/ FailClaimTerminal(w)
    \/ ApplyTerminalCreateFailures(w) \/ Finish(w) \/ Settle(w)
    \/ ClearRollupClaim(w) \/ RereadToRelease(w) \/ Refresh(w)

Fail(w) == CreateRefused(w) \/ CreateFails(w) \/ EndReleaseFails(w) \/ Crash(w)

Sweep == SweepLoad \/ Advance \/ SweepReread \/ SweepRelease

Next ==
    \/ \E t \in TaskIds : TaskEnds(t)
    \/ \E w \in Reconcilers, t \in TaskIds : Deliver(w, t)
    \/ \E w \in Workers : Handle(w) \/ Fail(w)
    \/ Retry
    \/ \E w \in Reconcilers, c \in Children : Fix(w, c)
    \/ Sweep

Spec == Init /\ [][Next]_vars

\* Lambda runs a handler it has started, EventBridge starts the sweep every
\* ten minutes, and the task lifecycle ends every task.
Fairness ==
    /\ \A t \in TaskIds : WF_vars(TaskEnds(t))
    /\ \A w \in Workers : WF_vars(Handle(w))
    /\ WF_vars(Sweep)

FairSpec == Spec /\ Fairness

(***************************************************************************)
(* Properties                                                              *)
(***************************************************************************)

Jobs == {"none", "reconcile", "seed", "retry", "fix", "sweep"}

Writes == [child : Children, status : ChildStatuses]

Rows == [Children -> [status : ChildStatuses, task : TaskIds \cup {Nil}]]

\* Every variable stays in its range, and a handler works on behalf of a
\* child only while it writes, creates or records for one.
TypeOK ==
    /\ row \in Rows
    /\ settled \in BOOLEAN
    /\ task \in [TaskIds -> [child : Children \cup {Nil}, prior : TaskIds \cup {Nil},
                             state : {"none", "running"} \cup Ended]]
    /\ worker \in [Workers ->
            [pc : {"idle", "load", "write", "reread", "release", "lookup", "create", "record",
                   "rollback", "refuse", "cascade", "settle", "reset"},
             job : Jobs, event : TaskIds \cup {Nil}, child : Children \cup {Nil},
             rows : Rows, writes : SUBSET Writes, queue : SUBSET Children,
             refused : SUBSET Children, made : TaskIds \cup {Nil}]]
    /\ delivered \subseteq TaskIds
    /\ faults \in 0 .. MaxFaults
    /\ reopens \in 0 .. MaxReopens

\* A child is worked on by one task at a time, however many handlers find it
\* releasable, die after creating its task, or release it again.
OneTaskAtATime ==
    \A t, u \in TaskIds :
        /\ task[t].state = "running" /\ task[u].state = "running"
        /\ task[t].child = task[u].child
        => t = u

\* When every event has been handled and nothing went wrong, no child is
\* left waiting although its predecessors all succeeded: of the handlers of
\* the predecessors' ends, the last to read the rows afresh released it.
NothingStranded ==
    AtRest /\ faults = 0 =>
        ~\E c \in Children : row[c].status \in Waiting /\ AllSucceeded(Status(row), c)

\* What a user sees of a child: a task of its current attempt is at work
\* from its creation on, recorded in the row or not yet.
Phase ==
    [c \in Children |->
        IF row[c].status \in TerminalChildStatuses THEN row[c].status
        ELSE IF row[c].status = "released" \/ Created(c, row[c].task) # {} THEN "working"
        ELSE "waiting"]

Contract == INSTANCE OrchestrationContract WITH phase <- Phase

\* The orchestration keeps the promises of its contract.
ContractKept == Contract!Spec

\* Sooner or later every child has ended and the parent has the outcome,
\* whatever was lost, refused or interrupted on the way.
EpicSettles == <>[](AllTerminal(Status(row)) /\ settled)
=============================================================================
