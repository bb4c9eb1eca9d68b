# Verification of the autonomous coding agents platform

TLA+ specifications of the concurrent core of this repository, the TLC
configurations that check them on small instances, and proofs that TLAPS checks
for every instance. Source paths below are relative to the repository
(`src/` in `PROJECT.json`); `handlers/` stands for `cdk/src/handlers/`.

A user submits a coding *task*; Lambda functions admit it against a per-user
cap, start a session in which an agent works on a repository, watch it and
record how it ended. A tool call of the agent may stop at a *gate* until a human
approves it. An *epic* is a graph of sub-issues, each of which becomes a task
when its predecessors have succeeded. Around the task stand services that create
it, receive its uploads, count its costs, tell GitHub, Slack, Linear and Jira
about it, and steer its agent. There is no central process: handlers
meet in DynamoDB tables, through conditional writes, and are driven by streams,
schedules and asynchronous invocations that are lost, repeated and reordered.
That meeting is what the specifications are about.

## 1. Inventory

State is what a component persists or carries across calls. "Hard" names the
behaviours tests hardly reach. The last column says what makes it correct.

| Component | State | Operations | Talks to | Hard | Correct when |
|---|---|---|---|---|---|
| **Task lifecycle and admission** `handlers/orchestrate-task.ts`, `handlers/shared/orchestrator.ts`, `reconcile-admission-queue.ts`, `cancel-task.ts`, `reconcile-stranded-tasks.ts`, `reconcile-concurrency.ts`, `agent/src/task_state.py` | status of each task, the user's `active_count`, durable execution and its checkpoints, session handle | load, admit or queue, pre-flight, hydrate, start session, poll, finalize; pick up, expire; cancel; sweep; recount | agent (status writes), compute strategies (start, poll, stop), creation (invocation) | replayed steps, two executions of one task, agent and orchestrator racing to RUNNING, stale polls, lost invocations, leaked or doubled releases | cap honoured, a release takes nobody else's slot, one driver per task, an outcome is permanent, every task ends, a leak is repaired |
| **Approval gate** `agent/src/hooks.py`, `policy.py`, `task_state.py`, `handlers/approve-task.ts`, `deny-task.ts` | request rows, task status and `awaiting_approval_request_id`, engine's allowlist, decision cache, rate window, gate count | evaluate, write request, poll, time out, re-read, resume, inject denial; approve, deny | task row (shared with the lifecycle), user's API | answer against deadline, a write that reports failure after it took effect, cancellation or sweep in between | a call runs only on a grant, an accepted approval takes effect, no answer to a dead task, no task waits for ever |
| **Orchestration of an epic** `handlers/shared/orchestration-*.ts`, `orchestration-reconciler.ts`, `reconcile-stranded-orchestrations.ts` | row of each child (status, task id), meta row with rollup claim | seed, release (claim, create, record), reconcile an end, skip, retry, recover, settle, sweep; merge the dependents of a revised branch again | task creation (idempotency key), task stream, issue tracker | concurrent releasers, lost or repeated events, crash between claim and record, refused creations, limited budget | one task per child at a time, a child only after its predecessors, no join stranded, the outcome claimed when and only when all have ended |
| **Task creation and uploads** `handlers/shared/create-task-core.ts`, `confirm-uploads.ts`, `cleanup-pending-uploads.ts` | task row before SUBMITTED, attachments, idempotency index | create, confirm, fail screening, expire | lifecycle (invocation), concurrency counter | confirmation against expiry, a slot taken twice, two creations with one key | one task per key, a slot per task, a confirmed upload is not deleted |
| **Budgets** `handlers/budget-rollup.ts`, `shared/budgets.ts` | spend of each budget, rolled-up marker, alert claim | add the cost of an ended task, claim and emit an alert | task stream | redelivery, emit before claim | cost added once, an alert per threshold |
| **Event fan-out** `handlers/fanout-task-events.ts` | comment id and markers on the task row | dispatch an event to GitHub, Slack, e-mail | event stream | post before marker, two creators of one comment | each event visible, none twice beyond the window the code accepts |
| **Iteration replies** `shared/iteration-reply-claim.ts`, `iteration-heartbeat.ts` | claim and reply id per comment | claim, post, mature, release | fan-out, issue tracker | claim leaked after failed releases | one reply per comment, in the end the final one |
| **Nudges** `handlers/nudge-task.ts`, `agent/src/nudge_reader.py` | nudge rows | send, read, mark consumed | agent between turns | crash between hand-over and mark | every nudge handed over, at most once more after a crash |
| **Cedar policies** `agent/src/policy.py`, `shared/cedar-policy.ts` | none | evaluate | gate | none: pure | the verdict follows the policies |
| **Linear, Jira, Slack, GitHub** `handlers/linear-*`, `jira-*`, `slack-*`, `github-*` | mappings, dedup claims, OAuth tokens | route a webhook to a task, an epic, a comment | creation, orchestration, gate endpoints | duplicate webhooks, two refreshers of one token | an event acted on once |
| **Hydration, pre-flight** `shared/context-hydration.ts`, `preflight.ts`, `repo-config.ts` | none | assemble a prompt, check preconditions | lifecycle (a step each) | failure of a remote read | bounded prompt; refuses rather than starts wrongly |
| **Compute strategies** `shared/strategies/`, `session-start-retry.ts` | session handle | start, poll, stop | lifecycle | a start that throws after it took effect, a false failure report | no session without a handle, none outlives its task |
| **Agent pipeline** `agent/src/pipeline.py`, `runner.py`, `server.py` | session's progress, task row | run, heartbeat, write the outcome | lifecycle, gate | crash at any point | the outcome is written once |
| **Progress and telemetry**, **workflows**, **memory**, **registry**, **API keys and authorizers**, **command line**, **infrastructure, docs and web** | events; step results; remote records; catalogue; a row per key; none; configuration | append; run in order; read and write; publish, resolve; create, delete, check; call the API; configure | their callers | none shared between actors | sequential or pure I/O |

What is modelled: the lifecycle, the gate and the epic in the three families of
modules of sections 2.1 to 2.3; creation and uploads, budgets, fan-out, replies,
nudges, the grant of a Linear workspace, the way of a webhook to a task, the
stack of an epic's pull requests and the agent's run in the ten modules of 2.4 to
2.13; the rest not at all (section 6). `PROJECT.json`
gives each component's status and what of it is left out.

## 2. Modules

| Module | Holds |
|---|---|
| `TaskStatus` | the statuses and the transition table of `cdk/src/constructs/task-status.ts` |
| `TaskContract` | abstract: a task waits, is worked on, ends; never more than `MaxActive` at once; outcomes are permanent |
| `TaskLifecycle` | the lifecycle, its properties, and its refinement of `TaskContract` (with the cap: `CappedContract`; without: `Contract`) |
| `TaskLifecycleInvariant`, `TaskLifecycleProofs` | the inductive invariant behind the cap, and the proofs, in any surroundings and in undisturbed ones |
| `GateContract` | abstract: one open request at a time, answered or lapsed once, a call runs only on a grant, a grant is turned down only because the task is over |
| `ApprovalGate` | the gate, its properties, and its refinement of `GateContract` (`GatePromise`) |
| `ApprovalGateInvariant`, `ApprovalGateProofs` | the invariants, and the proofs in any surroundings and in error-free ones |
| `OrchestrationPlan` | the graph and the pure planning functions of `shared/orchestration-reconcile.ts` |
| `OrchestrationContract` | abstract: a child starts after its predecessors succeeded, is skipped only below a failure, keeps its success; the outcome is claimed only when all have ended |
| `Orchestration` | the epic's handlers, their properties, and the refinement of `OrchestrationContract` (`ContractKept`) |
| `OrchestrationInvariant` | the layers of the epic's invariant: where handlers are, who holds a row, who will look at a child that waits, what may be worked on |
| `OrchestrationProofs`, `OrchestrationLockProofs`, `OrchestrationContractProofs` | the proofs: types and that nobody is stranded, one task for a child, and the refinement |
| `TaskCreation` | requests under one idempotency key, up to the row and the invocation |
| `PendingUploads` | a task whose attachments are uploaded, confirmed, screened, submitted or expired |
| `BudgetRollup` | admission by budget, the cost of an ended task, the alarms |
| `FanOut` | one task's events on their way to GitHub and to Slack, Linear or Jira |
| `IterationReply` | the reply to a comment: progress, outcome, retries |
| `Steering` | the nudge handler and the agent's Stop hook |
| `LinearGrant` | the rotating token of a Linear workspace, its latch, setup and removal |
| `WebhookIntake` | one event of a tracker, from its deliveries to a task |
| `Restack` | the stacked branches of an epic while revisions move through them |
| `AgentSession` | one run of the agent's pipeline: branch and pull request, verdict, markers, trace |
| `TaskServices` | creation, uploads, budgets, nudges, fan-out and the agent's run, side by side |
| `Trackers` | intake, grants, replies and stacks, side by side |
| `RestackProofs` | the proof about `Restack`, for any stack |
| `TrackerProofs` | the proofs about `WebhookIntake`, `IterationReply` and `LinearGrant`, and those of `RestackProofs` for the two stacks of `Trackers` |
| `TaskServiceProofs` | the proofs about `TaskCreation`, `FanOut`, `Steering`, `BudgetRollup`, `PendingUploads` and `AgentSession` |
| `MCTaskLifecycle`, `MCApprovalGate`, `MCOrchestration`, `MCTaskServices`, `MCTrackers` | values of the constants, and symmetries |

The ten services share no state with each other at this grain (each keeps
attributes of its own on the task's row), so `TaskServices` and `Trackers` put
them side by side: `subject` chooses at the start which one runs, the variables
of the others stay 0, and the properties say `subject = ... =>`. In `Trackers`
the grant may be worked on by several crews of resolvers, by subject (`Crew`). What one service promises
another is stated on both sides: `PendingUploads` has the admission of
`TaskLifecycle` as one action, `WebhookIntake` the key of `TaskCreation`,
`Orchestration` the creation, `Restack` the epic without its failures, and
`AgentSession` the orchestrator as three actions on the task's status.

Three conventions hold throughout. An action is one store call with the local
computation up to the next one, since that is the grain at which handlers
interleave. `Environment` is the set of things the surroundings may do in an
instance: crashes, losses, false reports, user actions, scheduled jobs; a run
chooses, a theorem assumes nothing or names what it excludes. Definitions whose
comment starts with "Bug:" are mutated forms that no specification uses; they
document what a property would notice.

### 2.1 TaskLifecycle

One user: counter row and queue are keyed by the user. `status` and `active` are
the TaskTable and UserConcurrency rows. `exec[e]` is a durable execution: `pc`
is its next call, `step` the durable step it is in (where an interruption or a
retry resumes), `seen` and `current` statuses it read earlier and still acts on,
`then` where a `release` returns to, `slot` whether an increment of its own is
outstanding. `session[s]` is a session and the agent in it, `pickup` and
`recount` the two multi-call jobs, `orphaned` a history variable: executions
that ended holding a slot. `Next` has the steps of `orchestrate-task.ts` in
order (`LoadTask` to `Cleanup`), `RetryStep`/`GiveUp` for a step that throws,
`Interrupt` for a Lambda that dies before the checkpoint, the agent's writes
(`AgentStart` to `AgentFinish`), and `Cancel`, `Pickup`, `ExpireQueuedTask`,
`FailStrandedTask` and `Recount`. Ages and time-outs are choices: whatever may
be over age may be found over age. A decrement may be lost (`storeError`), and its
caller goes on.

Left out: `PENDING_UPLOADS` (`PendingUploads` has it), memory, budgets and
metrics written by finalize, the heartbeats' ages, and other users.

### 2.2 ApprovalGate

One task and one life of its agent. `status`, `awaiting`, `gateCount` are the
task row, `row` the request rows (numbered by the gate count), `decisions` the
user's per-minute counter, `hook` the PreToolUse hook with the call and request
it works on, `engine` the policy engine's memory, `effect` a history variable:
what became of each call. `storeError` and `timeoutError` let a write fail
before or after it took effect. Gates are serialized: the SDK runs a hook to its
end before the next call of the agent.

Left out: expiry of rows by TTL, a container restart (the persisted count seeds
a new engine, `handlers/shared/orchestrator.ts:1039`), `initial_approvals` (the
allowlist starts empty), calls that are permitted or forbidden outright (they
change nothing), the refusal of a gate for lack of remaining session time,
scopes that do not parse, and audit and progress events.

### 2.3 Orchestration

One seeded epic. `row` has the status and task id of each child, `settled` says
whether the meta row has `rollup_posted_at`, `task` the tasks created for
children with the key they were created under (child and prior task id) and
their end, `worker` the handlers at work: invocations of the reconciler, the
sweep and the webhook processor. A worker carries the rows it read, the writes
its plan has left, the rows it is to release, and the children it saw refused.
`Deliver` to `Reread` are one reconciler invocation up to its fresh read,
`Claim`, `Lookup`, `Create`, `Record` (`RollBackClaim`, `FailClaimTerminal`)
are `releaseChild`, `ApplyTerminalCreateFailures`, `Finish` and `Settle` end a
handler; `Retry` and `Fix` with `ClearRollupClaim`, `RereadToRelease` and
`Refresh` are the user's two ways to reopen an epic; `SweepLoad` to
`SweepRelease` are the ten-minute sweep. A failed `Claim` call is the same to the
rest as a row the budget left out (`Throttled`). A crash or failure consumes one
of `MaxFaults`.

Left out: the batch writes of seeding and the extension of a seeded epic, the
restack cascade (which changes no child's status; 2.12), panel and comments, the
integration node, attachments, deduplication of webhooks, and the
delay of indexes and eventually consistent queries. `Settle` stops at the
winning claim of the rollup; the update of the parent issue that follows it can
be lost in a crash, and is not modelled.

### 2.4 TaskCreation

`createTaskCore`, for any number of `requests` under their keys. `tasks` and
`indexed` are the table and what its eventually consistent `IdempotencyIndex`
shows; `objects` the inline attachments in the bucket; `invoked` the
orchestrator's invocations. A request validates, looks its key up, reads the
task it found, is admitted by the budget and the screening (choices here),
stores its attachments one by one, checks their total, puts the row and invokes
or presigns. Left out: what makes a request invalid, the repository's
configuration, the contents of the row.

### 2.5 PendingUploads

`store[a]` is the versioned object of an attachment, delete markers included;
`row` the status and the attachment records; `calls[c]` a call of
`confirm-uploads` with the row it read, the version its HEAD found and the
results it has. Its actions are the handler's store calls in order, from
`ReadTask` to `InvokeOrchestrator`. `Upload` is the user's POST, which may come
again while a call screens; `Cleaner` is `cleanup-pending-uploads`,
`AdmissionControl` and `FinalizeTask` what the orchestration does with the slot
afterwards. Left out: a call that dies between two writes, a failing write of
`failTaskOnScreening`, URL attachments.

### 2.6 BudgetRollup

`spend`, `marked` and `alerted` are the budget rows and the task's
`budget_rolled_up_at`; `record[t]` is where a task is: admitted by user and team,
running, ended, and then the step of its stream record, with the alarms it has
still to ring. `WriteRollup` is the one transaction, `EmitAlert` and `ClaimAlert`
are two actions because the code emits first. A record is repeated
`RetryAttempts` times. Left out: the month's turn, the lookup of teams, the
commands that set a limit.

### 2.7 FanOut

`esm` is the event source's batch for one task: first and last record, the one at
hand, the first failure, the retries; `step` says how far each channel is with
the record at hand, which run concurrently. `row` has the markers, `github` and
`posts` what is visible outside. `RouteEvent`, `RecordSettled`, `EndBatch` are
the handler's loop with its per-task cap and `batchItemFailures`;
`UpsertTaskComment`, `DispatchToTracker`, `ClaimSlackPost` and so on are the
dispatchers, one action per call. A comment whose id or marker could not be
saved is not counted any more: the code accepts it, and says so. Left out: the
rendering, the e-mail channel (a log line), channels that have no origin.

### 2.8 IterationReply

`row` is the claim (`ack_replied_at`) and its attempts, `reply` and `reaction`
what the requester sees, `writers` the milestones and heartbeats that write
progress, `delivery` the stream record that says the outcome. `kind` is one of
the three places that write it: the fan-out for a comment on an issue, the
reconciler for one in an epic, the fan-out for Jira. The write of the claim wakes
the reconciler, which is in the model because it makes the retry.

### 2.9 Steering

`request[n]` is the nudge handler, `slots` its counter per minute; `agent` is the
Stop hook's position in `between_turns_hooks`, `text` what it has collected,
`injected` the agent's memory of what it has shown, `shown` what the agent saw.
A cancellation drops the text, as the code does. Left out: what a nudge says, and
the stuck guard's signature, which is a choice.

### 2.10 LinearGrant

`grant` is Linear's side: the last refresh token it accepts, of which
installation, alive or not. `secret` and `row` are Secrets Manager and the
registry, `job[r]` a resolver (a webhook processor or an agent) with what it
read, `setup` and `removal` the administrator's two procedures. A resolver asks
the vault, reads the secret, refreshes, reads again after a refusal, then claims
the announcement, announces and latches. `unsaved` and `published` are history.
Left out: access tokens and their age (a token may have run out any time), the
resolver's caches (arbitrary delay covers them), Jira's grant, which has no
latch.

### 2.11 WebhookIntake

`dedup` and `call` are the receiver, `queued` and `run` the processor's
asynchronous invocations, `task` the tasks of the event with the index and the
stored files, `told` what the issue says, `excuses` the faults met. `source`
distinguishes label and comment, Linear and Jira, which differ in what a replay
or a refusal does. Lambda's and the senders' retries come a minute or more
later, so the index has caught up (`CaughtUp`). A repeated delivery bears the
event's timestamp, and the receiver answers 401, before it claims anything, once
that is past its window: 60 seconds at Linear (`shared/linear-verify.ts:37`), one
hour at Jira (`shared/jira-verify.ts:50`, where an event without a timestamp
passes). So a repeated delivery of Linear goes to `RefuseStale`, unless the
receiver's clock lags ("skew"), and one of Jira to `Deliver`, unless it is "late".
Left out: signatures, the routing of an event to an epic (2.3) or to an iteration
(2.8), Slack's and GitHub's webhooks.

### 2.12 Restack

What happens to an epic's branches when its user has one revised. `head` is the
branch of each sub-issue on GitHub, as the set of the revisions (`Edits`) in it;
`task` has the tasks by idempotency key, each with the branch it set up from
(`base`) and what it has locally (`has`), and, when it has ended, which restacks
are still to be created for it. `Comment` is `iterateOrchestrationChild`;
`Claim`, `Create`, `Record` and `FirstEnds` are the first run of a sub-issue,
here without its failures; `SetUp` and `Push` in `Succeed` or `Fail` are
`setup_repo` and the post-hooks; `CascadeRestack`, `SpawnRestack` and
`ReopenEpic` are one invocation of `cascadeRestack`, which `Crash` may cut short
and the stream repeat. `missed` records the sub-issues for which something went
wrong that the code cannot repair: a restack that failed or was not created, a
predecessor not merged, a push rejected, a first run that had cut its branch and
had no pull request yet. `StackIsCurrent` says that nothing else makes a branch
stale. Left out: sub-issues that failed or were skipped, revisions of one branch
that conflict in content (left to the agent), human pushes and merges, the
panel.

### 2.13 AgentSession

What `run_task` in `agent/src/pipeline.py` does for one task, with the hooks of
`post_hooks.py`, the record of `task_state.py` and the markers of
`linear_reactions.py`. `task` is the record: status, pull request, whether the code
changed, trace. `run` is the pipeline: the kind of workflow, the step it is `at`,
and its locals (what the agent ended with, the build, the reason for a failure).
`repo` is the clone, the remote branch and its pull request; commits are counted,
so a branch is how many it has beyond its base, and `on_branch` says whether the
agent is still on the branch that the platform tracks. `issue` has our markers on
the Linear issue and the thread that sweeps earlier ones; `past` is history.

The actions come in the order of the code: `Boot`, `write_running`, `Hydrate`,
`react_task_started`, `SetupRepo`; the agent's own (`AgentEdits` to `AgentEnds`);
`Recheck` of a cancellation; the post-hooks `CommitWork`, `verify_build`, and
`ensure_pr` by its three strategies (`PushForPr` and `ResolvePr`, or `FindPr`,
`PushNewWork` and `CreatePr`), or `DeliverArtifact` without a repository; `Verdict`,
which is `_resolve_overall_task_status` and the delivery gate;
`react_task_finished`, the trace's upload, `EndRun` and, if that write was refused,
`HealTrace`. `Raise` may leave most steps for the crash handler (`RecordCrash`,
`ReactToCrash`), and the thread that ran it all writes once more
(`RecordCrashAgain`). `SweepLists` and `SweepDeletes` interleave with them; so do
`OrchestratorRuns`, `Cancel` and `GiveUp`. A call to the record, git, GitHub, S3 or
Linear fails by `Fails`, which the run bounds.

Left out: the death of the session (2.1), how the clone is set up and hydrated,
memory, Jira's comment and the project board, a restack's and a repository-bound
artifact's workflow, a pull request that the agent opens from another branch, the
wording of a build that timed out, a `rev-parse` that fails.

## 3. Runs

| Run | Instance | Distinct states | Shows |
|---|---|---|---|
| `MCBenign` | 2 tasks, 2 executions, 1 session, cap 1; cancel, agents that die, lost and doubly delivered invocations, pickup that dies, failing writes; every writing step but finalize replayable | 581,519 | `CapHonoured`, `CounterCoversSlots`, `CappedContract` |
| `MCHostile` | the same size on ECS; doubly delivered invocations, false substrate errors, poll cap, sweep | 1.2 million | `TypeOK`, `OneDriver`, `Contract` |
| `MCLive` | 2 tasks, cap 1, fair; lost invocations, pickup that dies, sweep | 65,908 | `EveryTaskEnds` |
| `MCRepair` | 1 task, fair; cancel, deaths, failing writes, stale beats, poll cap, sweep and recount, all writing steps replayable | 103,489 | `CounterRepaired` |
| `MCNeverEnds` | agent dies, sweep, fair | | violation of `EveryTaskEnds` |
| `MCGate` | 2 calls of 2 tools, 2 rules, 2 gates, fair; cancel, platform failure, death | 146,313 | `TypeOK`, `AwaitedByItsHook`, `NeverAskedAgain`, `GatePromise`, `ApprovalTakesEffect` |
| `MCGateErrors` | the same, every write and read may fail | 817,104 | `RowsAgree`, `FailClosed`, `GateCloses` |
| `MCLateApproval` | failing write of a time-out | | violation of `ApprovalHonoured` |
| `MCEpic` | a join of two roots, 2 reconciler invocations, sweep, seeding; one fault of any kind | 1,125,084 | `OneTaskAtATime`, `NothingStranded`, `ContractKept` |
| `MCEpicLive` | a chain of two, 1 reconciler invocation, sweep, one retry or fix, one fault, fair | 429,439 | `OneTaskAtATime`, `EpicSettles` |
| `MCTaskServices` | creation: 3 requests, 2 users, 1 key; uploads: 2 attachments, 3 uploads, 2 calls; budget: 3 tasks, 2 teams; steering: 2 nudges, 2 minutes; fan-out: 3 events, a Slack, Linear or Jira task; agent: 6 kinds of run, 1 commit, 1 fault | 787,603 | `OneTaskOrNothing`; `ScreenedSubmittedOnce`; `CountedOnce`, `AlarmsHonoured`; `NudgesHonoured`, `AgentStops`; `PostedOnce`, `PassedWasPosted`; `NothingWaits` (uploads and fan-out); `ReportedAsDelivered`, `RunAccountedFor` |
| `MCTrackers` | intake: 2 deliveries in time or late, 2 runs, 4 sources; grant: 2 processors, or 1 and an agent, 2 refresh tokens, 2 installations; reply: 2 writers, 2 attempts, 2 redeliveries; stack: a diamond and 1 revision, or 2 sub-issues, 2 revisions and crashes | 446,357 | `EventBecomesOneTask`, `ReportsAreTrue`; `LatchesExplained`, `RemovalIsFinal`, `FalseLatchHeals`; `OneOutcome`; `StackIsCurrent`; `RequestsSettle` (replies and stacks) |

A property of the last two runs is a conjunction of named parts of its module,
each with a comment of its own: `ScreenedSubmittedOnce`, for one, of
`ScreenedContent`, `AllWereScreened`, `SubmittedObjectsKept` and the parts of
`SubmittedOnce`.
`ReleasedOnlyWhenEnded` is proved (section 4) and no run repeats it.

Every property of a passing run has a mutant in `PROJECT.json`: a plausible bug
in the modelled code under which the run fails.

### Bounds

*Lifecycle.* Two tasks and a cap of 1 make a queue, a release that lets the next
in, and a slot that can be stolen; two executions let one task have both (a
double invocation) or each task one. One session suffices because a second start
then fails, which is a case of its own; `OneDriver` forbids that two executions
drive one task, not that a replayed start-session step of one execution starts a
second session. Nothing is counted without end: each task is created once, and retries
return to the same state. `MCRepair` has one task and one execution because a
leaked counter needs no second task, and its question, whether the counter
returns to zero, is the same for each leak.

*Gate.* Two calls, one matched by both rules and one of another tool matched by
one of them: enough for a scope by rule that covers another tool's call and a
denial remembered by rule that must not. `GateCap` and `RateLimit` of 2 let the
second gate meet what the first left behind, and the third meet the limits;
`Requests` has one number more than the cap so that passing it would show.

*Epic.* The join is the smallest graph with a race of predecessors, the chain
the smallest with something to skip. At most one task exists per child and prior
task, so three ids serve the join without retries and four the chain with one
retry; `Create` never waits for an id. `MaxFaults` of 1 lets every single fault
strike at every point; combinations of faults are not explored. `Surface` is
"linear" in the runs; the Jira variant of the retry differs in stricter
conditions, and passes `MCEpicLive`'s configuration as well. `Environment` has neither "hasty" nor
"overlap" in these runs (section 5).

*Creation.* The third request is another user's under the same key, one of the
first two has inline attachments, one uploads; more requests meet the same index.
*Uploads.* Two attachments in batches of one give a partial state between
batches; the third upload replaces a version after it was looked at; a call that
is done may be made again, so two calls are any number of which two overlap.
*Budget.* The first task uses up its team's limit to the cent, the second the
user's, the third would be admitted only wrongly. *Fan-out.* Three events of
which the last is one more than `Cap` allows an invocation that had the two
before it; one retry of a batch. *Steering.* The second nudge is one too many for
its minute, and the first minute's slot is not the second's. *Intake.* A second
delivery and a second run, after which the sender and Lambda differ no more from
the first; the second delivery may be in time or late, and Linear's is late by itself. *Grant.* Two refresh tokens are the rotation that the loser must
recognize; two installations a setup during a verdict on the one before. Processors
and agents are looked at in two crews, because an agent only ever spoils the
token; the theorems have no such bound. *Replies.* As many redeliveries as attempts, so that the release and the
record can each be the first to be exhausted. *Stack.* The diamond has two hops and
a sub-issue that two restacks reach by different ways, and whose first run may
come in between; the pair has two revisions that meet on one branch, before or
after its restack. `Late` may or may not have been released at the start.
*Agent's run.* Every kind of workflow; one commit tells a branch that has the work
from one that has not; one fault of any kind besides a raise and a cancellation or
an orchestrator that gives up. With two faults the properties hold as well (806
thousand states), which the run leaves out for its time.

`CHECK_DEADLOCK FALSE` stands where the instance can really stop: `MCRepair` and
`MCNeverEnds`, where an agent may die and leave its task RUNNING with nobody to
watch it, and in the two runs of the services, where an instance ends when its
task has.

### Fairness

*Lifecycle.* Executions go on (weak fairness of `Orchestrate`: durable functions
resume), retries are finite (`GiveUp`), a poll that can see a dead session sees
it in the end (three counters in `waitStrategy`), a booted agent starts, comes
out of a gate by its deadline and finishes, and the scheduled jobs come back:
pickup every minute, expiry within it, the sweep every 5 minutes, the recount
every 15. `EveryTaskEnds` is checked where sessions end by themselves;
`MCNeverEnds` shows what happens when they do not.

*Gate.* `Hook` is weakly fair because the clock brings each deadline and each
call returns. `FailTask` is weakly fair only in AWAITING_APPROVAL: the stranded
sweep looks for that status, and the fairness of `PollAnswer` is not assumed.
The user owes nothing.

*Epic.* Lambda runs a handler it started, the sweep comes every 10 minutes
(`cdk/src/constructs/stranded-orchestration-reconciler.ts:107`), and tasks end,
which is what the lifecycle is for. Delivery of events and the user's actions
are not fair: `EpicSettles` holds although every event may be lost, because the
sweep repairs.

*Services.* Each service has its own fairness (`Fairness` in its module); `TaskServices`
and `Trackers` join them into `Forever` and `SoonerOrLater`, which is the same since
only one service runs. The upload window passes and the clean-up comes every five
minutes; Lambda polls the stream and runs the handler; a turn of the agent ends
and its hooks return; a task ends, its streams are read, a record that threw
comes again until its retries are used up; the sweep of the epics comes every ten
minutes (`Scheduled` of `Restack`); resolvers are called again, and an
outage of the vault or the stores passes (`TroubleEnds`). Confirmations, user's
uploads, nudges, and the deliveries of a webhook owe nothing.

## 4. Proofs

All proofs are for any sets of tasks, executions, sessions, calls, rules,
children, events and resolvers, any limits and any number of faults, under the
named assumptions on the constants (`ConstantsAssumption`, `GateAssumption`,
`GraphAssumption`, `OrchestrationAssumption`, `CrewAssumption`,
`ServicesAssumption`, `StacksAssumption`) and, where the table says so, a hypothesis on the
surroundings. `ServicesAssumption` only types the parameters of the services
(costs are numbers, a run is one of the four workflows), `CrewAssumption` keeps
the names of the subjects apart, `StacksAssumption` says of both stacks that they
are `Stacked`: every sub-issue has its predecessors, and no comment is called like
a sub-issue; TLC evaluates all of them in the runs. A theorem about
a service is about `Spec` of `TaskServices` or `Trackers`, and its property is
the one that the run checks.

| Theorem | Assumes | Says |
|---|---|---|
| `TypeCorrect`, `DriverUnique`, `ContractKept` (`TaskLifecycleProofs`) | nothing more | `TypeOK`, `OneDriver`, `Contract` hold in any surroundings |
| `CapKept`, `SlotsCounted`, `ReleasesEnded`, `CappedContractKept` (`TaskLifecycleProofs`) | `Undisturbed` | `CapHonoured`, `CounterCoversSlots`, `ReleasedOnlyWhenEnded`, `CappedContract` |
| `GateTypeCorrect`, `GateFailsClosed`, `RowsAlwaysAgree`, `GrantsRemembered` (`ApprovalGateProofs`) | nothing more | `TypeOK`, `FailClosed`, `RowsAgree`, `NeverAskedAgain` whatever fails |
| `GateKeepsPromise`, `AwaitedAlways` (`ApprovalGateProofs`) | `Errorless` | `GatePromise`, `AwaitedByItsHook` |
| `HandlersInOrder`, `OrchestrationTyped` (`OrchestrationProofs`) | nothing more | `HandlersInv`, `TypeOK` in any surroundings |
| `NobodyStranded` (`OrchestrationProofs`) | `MaxReopens = 0` | `NothingStranded` |
| `RowsLocked`, `OneTaskEach` (`OrchestrationLockProofs`) | `Orderly` | `LockInv`, `OneTaskAtATime` |
| `WorkedInOrder`, `OrchestrationKeepsContract` (`OrchestrationContractProofs`) | `Undisturbed` | `ContractInv`, `ContractKept` |
| `OneTaskOfAnEvent`, `IntakeTellsTheTruth` (`TrackerProofs`) | nothing more | `EventBecomesOneTask`, `ReportsAreTrue` |
| `OneOutcomeOfARequest`, `DeathsExplained`, `RemovedForGood` (`TrackerProofs`) | nothing more | `OneOutcome`, `LatchesExplained`, `RemovalIsFinal` |
| `OneTaskOfARequest`, `OnePostOfEach` (`TaskServiceProofs`) | nothing more | `OneTaskOrNothing`, `PostedOnce` |
| `StackStaysCurrent` (`RestackProofs`), `StacksStayCurrent` (`TrackerProofs`) | `Stacked` | `StackIsCurrent` of any stack, and of the two that the run checks |
| `WhatPassedWasPosted`, `NudgesShownOnce`, `AlarmsRing`, `CostsAreCountedOnce`, `SubmittedAsScreened` (`TaskServiceProofs`) | the types of `Stream`, `Nudging`, `Priced`, `Uploading` | `PassedWasPosted`, `NudgesHonoured`, `AlarmsHonoured`, `CountedOnce`, `ScreenedSubmittedOnce` |
| `DeliveredAsReported`, `EveryRunAccountedFor` (`TaskServiceProofs`) | the types of `Running` | `ReportedAsDelivered`, `RunAccountedFor` |

*The lifecycle in any surroundings.* `OneDriver` is not inductive alone: that a
second execution cannot begin to hydrate follows because the first has moved the
task past SUBMITTED for good. `Started` (a driven task is past SUBMITTED) and
`HandlersPlaced` (an execution's next call fits the durable step it is in) close
the induction. `Contract` follows from them, since every write of a status is
either guarded by the status it replaces or refused on an ended task.

*The cap.* `CapHonoured` relates statuses with no counter in sight, so the
invariant `IInv` goes through the slots: a consuming task is the task of an
execution that holds a slot or of one that ended with it (`Covered`); the slots
held or orphaned are at most the counter (`CounterCoversSlots`); the counter is
at most the cap (`CounterInRange`). Preserving the middle one needs that a
release is made only by an execution that holds its slot and after its task has
ended (`SlotsHeld`), which in turn needs that finalize's verdict is never
refused (`Verdicts`): a task judged unhealthy has ended, or is RUNNING with
nobody left to move it. `Undisturbed` excludes exactly what breaks this: the
sweep and the recount (which change the counter behind the executions), the poll
cap, stale heartbeats, false ECS reports, and a replay of finalize. It is an
assumption on the constants `Environment`, `Replays` and `ComputeType`; cancellation,
agent deaths, lost or doubled invocations, failing writes and all other replays
stay allowed. `MCBenign` checks the same surroundings.

*The gate.* `SafeInv` adds to the types that a hook in a gate works on the
newest request (`InGate`) and believes in an approval only if the row has one
(`OutcomeTrue`); that is enough for `FailClosed` under every failure. `Promise`
adds that the hook's outcome is exactly the row's (`OutcomeExact`), that a
request without an effect is the one waited for (`OneOpen`), and that the task
waits for the hook's own request or is over (`WaitsOnItsOwn`). It needs
`Errorless`: `MCLateApproval` shows that a failing write of a time-out breaks the
promise.

`NeverAskedAgain` holds whatever fails. It rests on `Learnt`: what has run was
granted, and the scope of its grant is in the engine's allowlist by the time the
hook is free for another call; a call that the allowlist covers never reaches
the count of the gates.

*The epic.* Layers, each inductive on top of the first.
`HandlersInv` says where a handler is: the row of what it has read, the ids of
what it still has to write, that a counted task has a row. `LockInv` says that the
claim of a row is a lock: a child that is being released belongs to one worker
(`Held`), what was read of a row that may still be claimed is current, and the
key of a release names the last task of the child, which has ended before the
next one is created. `OneTaskAtATime` follows. It needs `Orderly`, which excludes
what is listed in section 5: a sweep that overlaps a release, a user who reopens
while handlers work, and two retries of the user with one repeated event.
`AttendedInv` says, until the first fault, that a child that waits for nothing any
more has a handler that will look at it: one that has still to read or to write
rows, or that has the child in its queue. The point is that a handler plans from
rows it has read, which others change meanwhile: of two that each end a predecessor
of a join, the one that writes last reads again after its write and sees both.
`NothingStranded` is about the moment when no handler is left. `MaxReopens = 0`,
because a retry or a fix does leave children to the sweep (section 5).
`ContractInv` says that a predecessor that was read as ended has ended so,
however old the read is, and that what is about to be skipped is below a child
that failed. It needs that nobody reopens the epic (`MaxReopens = 0`), for a
retry withdraws what a handler has read, and that an outage does not strike the
record of a refused creation, which lets the dependents be skipped below a child
that is released again (section 5). The refinement maps every handler's step to a
step of `OrchestrationContract` or a stutter, by `HandlersInv`, `LockInv` and
`ContractInv` together.

*The trackers.* `IntakeInv` says that a run past the lookup of the key has seen no
task, or the table still has to replicate it, and which run is the only one to
write; `ReportInv` adds that, as long as there is no excuse, a claim that outlives
its delivery stands for an invocation or for what came of one. `ReplyInv` says who holds the claim on a reply
(`ClaimHeld`), that an outcome once shown stays (`OutcomeKept`), and that a claim
nobody works under was answered, or is forsaken for a named reason
(`ClaimAnswered`). `GrantInv` relates each resolver's
copy to an installation and a generation of its token: one whose token was refused
while the grant is alive holds an old token, because another's refresh was not
saved (`JobExplained`), and a death that is on the row was published or is about
to be (`RowCovered`).

*The stacks.* `StackInv` says of each sub-issue and each predecessor what becomes of
a revision that is in the predecessor's branch and not in its own (`Carried`): the
sub-issue is `missed`, or the restack is due (a task that has ended and whose end
is still to be handled, with this dependent to come), or the revision is on its way
in a task that is queued to merge the branch or has merged it. It needs that a
restack's key names the one task whose end it follows (`KeysDiffer`, `KeysTrue`),
so that a key that is taken already means a task that has seen the
revision, and that a first run comes after those of its predecessors (`FirstRun`).
When all is handled nothing is due or on its way, and what is left is `missed`.
`TrackerProofs` takes the theorem twice, by `INSTANCE` of `RestackProofs`.

*The services.* `CreationInv` ties the row, the index of the key and the objects in
the bucket to the step of the one request that made them. `FanOutInv` bounds what
is posted by the marks on the row (`PostedOnce`), `PassedInv` relates the shard's
position to what the channels show (`OutcomeNotLost`). `RateInv` says that a
minute's counter is the number of its nudges that were let through, `SteerInv`
that a nudge in the text is remembered as injected and was not shown before. `BudgetInv` and `AlarmInv` say that
a scope with an alarm reached but not rung has a record on its way to ring it.
`CountedInv` says that what a scope has spent is the sum over its marked tasks. The
sum is a fold over a set, of which the lemmas from `TotalsExist` to `TotalWithout`
show what the proof needs: it is the only solution of its recursion on finite sets,
and any element may be taken out of it first. They are proved with a smallest
counterexample among the finite sets in place of an induction.
`UploadsInv` says of every confirmation what it has screened and in which
version, that a version a submitted task names was not deleted, and that
`active` is at most the calls between their admission and their outcome plus the
slots of the task. `SessionInv` relates the run's step to the clone and the
record: the remote is never ahead of the tracked branch, nor that of HEAD
(`BranchesKept`), a pull request has commits (`Delivers`), a run that was cancelled
in time is on its way out (`Stopped`), a trace is uploaded late and recorded before
the run leaves (`Traced`), a run that raised has recorded it or lost one write
(`CrashTold`).

*Model-checked only.* All liveness (`EveryTaskEnds`, `CounterRepaired`,
`ApprovalTakesEffect`, `GateCloses`, `EpicSettles`, `NothingWaits`, `AgentStops`,
`RequestsSettle`, `FalseLatchHeals`): it rests on fairness, which is out of the
prover's reach. Every safety property of a passing run is stated by a theorem,
whose hypothesis the run's instance satisfies. The properties of the two runs that
expect a violation are false.

## 5. Disagreements found

Two have a run that shows them; `PROJECT.json` quotes the lines.

- `MCNeverEnds`: an agent that writes RUNNING before its orchestrator does makes
  the orchestrator fail and leave; if it then dies, nothing ends the task
  (`handlers/orchestrate-task.ts:226`).
- `MCLateApproval`: a failed write of TIMED_OUT followed by a re-read that still
  sees PENDING lets an approval be accepted and then denied (`hooks.py:722`).

Others were met while modelling. The models contain them unless marked (n), and
the passing runs exclude their surroundings, or the property names the case,
where it has to.

*Lifecycle, gate, epic.*

- The poll cap releases the slot of a task in AWAITING_APPROVAL and leaves its
  status, because the table has no transition to TIMED_OUT
  (`handlers/shared/orchestrator.ts:1304`); with "pollCap" in its environment
  an instance of `MCBenign` violates `ReleasedOnlyWhenEnded`.
- The epic's sweep takes a live release for a dead one
  (`handlers/reconcile-stranded-orchestrations.ts:153`, where the comments of
  `orchestration-release.ts:441` and `:831` expect dead ones only); with "overlap"
  an instance of `MCEpic` has two tasks for a child.
- Finalize decrements the counter in the step that it checkpoints: replayed, it
  decrements twice (`orchestrator.ts:1448`), although "All steps are safe to
  retry" (`docs/design/ORCHESTRATOR.md:326`).
- The recount counts four statuses and not AWAITING_APPROVAL
  (`reconcile-concurrency.ts:31`), which `task-status.ts:91` calls active: while
  a task waits for its approval its slot is corrected away.
- The sweep decrements whether or not the task held a slot, and the execution it
  overtakes decrements again (`reconcile-stranded-tasks.ts:164`).
- A cancellation between admission and pre-flight leaks the slot: the execution
  ends at its re-read without a release (compare
  `docs/design/ORCHESTRATOR.md:140`). The recount repairs it (`MCRepair`).
- A requeue after an invocation that was delivered all the same leaves a task
  QUEUED although an execution holds a slot for it.
- The agent ends a task RUNNING or AWAITING_APPROVAL with COMPLETED, which the
  table of `task-status.ts` does not list for these.
- `awaiting_approval_request_id` survives cancellation, the sweep and the
  terminal write.
- A failed resume leaves the task AWAITING_APPROVAL while its agent works on.
- Two retries of the user and one repeated event of an earlier task that failed
  give a child two tasks at work: the reconciler's write asks only that the row
  is not already in the target status (`orchestration-reconciler.ts:566`), and
  compares the task's id at the read. An instance of `MCEpicLive` with
  "redeliver" and two reopenings shows it; `OneTaskEach` assumes `Orderly`.
- A refusal whose record fails (best effort, `orchestration-release.ts:833`) still
  skips the dependents (`applyTerminalCreateFailures`, `:958`), below a child that
  the sweep releases later. An instance of `MCEpic` with "outage", "refused" and two
  faults violates `ContractKept`; `OrchestrationKeepsContract` excludes it.
- A user who reopens an epic while handlers are at work ("hasty"): the reset's
  condition `child_status <> :s` takes a row back from a live releaser, so that
  two tasks work on one child, and a sweep that read the rows in the middle of
  the resets skips a child that is about to run. The passing runs let the user
  reopen an epic at rest, which is when a retry is offered.
- A repeated event after a fix fails the fixed child again
  (`orchestration-reconciler.ts:549`); retry and fix on Linear do not carry
  refused creations to the dependents, which then wait for the sweep.
- After a retry or a fix a child may wait for the sweep although all its
  predecessors succeeded: the reset's rows are written one by one and only what the
  plan has found is released afterwards (`linear-webhook-processor.ts:1700`), while
  a predecessor's reconciler that reads in between does not find the child ready.
  An instance of `MCEpic` with "fix" or "retry" and `MaxReopens` 1 violates
  `NothingStranded` without any fault; `NobodyStranded` assumes 0.
- (n) Heartbeats stop while the hook waits, so a task just resumed from a long
  approval looks stale; the model allows a false report at any time.
- (n) Unprocessed items of the seeding's batch write are not retried
  (`shared/orchestration-store.ts:540`).

*Creation and uploads.*

- `confirm-uploads.ts:443` takes a slot that the orchestration's admission takes
  again and only one is given back (compare `docs/design/ATTACHMENTS.md:1296`,
  `:1612`); `SlotsExplained` allows this second one and no third.
- A blocked attachment that the deadline's path has recorded is not pending any
  more, so that a later call submits the task without it
  (`docs/design/ATTACHMENTS.md:259`).
- Too large a total deletes versions that earlier calls recorded while another
  may submit the task (`confirm-uploads.ts:295`; `SubmittedObjectsKept` names it).
- The warning at `confirm-uploads.ts:546` says the reconciler picks up a task
  whose invocation failed; the sweep fails it.
- A presign failure writes FAILED whatever the status is, and a failed put leaves
  the inline objects (`create-task-core.ts`, both modelled).
- (n) New upload instructions on a replay (`docs/design/ATTACHMENTS.md:297`) are
  not made; a URL attachment counts as a missing upload
  (`confirm-uploads.ts:131`).

*Fan-out and replies.*

- Linear's "PR opened" is usually passed over on a first run: the event comes
  before the URL is on the row (`agent/src/pipeline.py:1504`,
  `task_state.py:268`).
- Slack's outcome is claimed before it is posted, so a retryable error loses it;
  a progress message that is posted after the outcome stays.
- A record fails with all records after it (`fanout-task-events.ts:2040`), not
  alone as the comment at `:1964` says; the per-task cap may drop an outcome.
- A standalone reply whose claim was released is not tried again: the handler
  returns normally, and the fan-out reads another table than the one the release
  wrote (`fanout-task-events.ts:1497`). `EpicAnswered` is about epics.

*Linear's grant.*

- A refresh that races one whose new token is not saved yet latches a living
  workspace (`linear-oauth-resolver.ts:1181`); an agent's refresh loses the new
  token altogether (`agent/src/config.py`, which trusts a grace period that
  `linear-oauth-resolver.ts:1315` denies). `NoFalseVerdict` names both.
- A straggler's `PutSecretValue` after a second setup overwrites the new token;
  the release of an announcement removes anybody's claim.
- (n) A workspace that a resolver has latched cannot be removed any more: DELETE
  answers 404 and its secret stays (the model's removal starts from an active
  row, as the code's).

*Intake and nudges.*

- A replayed Linear label is reported as a failure although the task exists
  (`linear-webhook-processor.ts:1506`, against the comment at `:1470`; Jira's
  processor at `jira-webhook-processor.ts:796` is right). `ReportsAreTrue`
  excepts it (`OnlyLabelMisreported`).
- A refused Linear comment is silent after its "On it", which a repeated run posts
  twice; a claim whose receiver crashed, or whose roll-back failed, drops the event
  for eight hours, whatever delivery comes; a put that throws but took effect loses its files
  (`task.unsure`).
- One failed invocation loses an event of Linear. The claim is rolled back "so
  Linear's next retry (+1m / +1h / +6h) can try dispatch again"
  (`linear-webhook.ts:292`), but retries bear the first delivery's timestamp
  (`:245`) and are refused as stale after 60 seconds (`:189`,
  `shared/linear-verify.ts:37`); the dedup window of eight hours (`:46`) is chosen
  for retries that never reach it. `NothingLostQuietly` therefore excepts an event
  whose deliveries all failed or came too late (`Undelivered`). At Jira the window
  is an hour, and the roll-back does what its comment says.
- A nudge that is accepted after the last Stop hook is never shown (202); its slot
  belongs to the minute before the screening.
- (n) A mention in Slack has no idempotency key.

*Stacked pull requests.*

- The comment at `orchestration-reconciler.ts:1002` says that `spawnRestackTask`
  has flipped the rows to `released`; it writes no row. So the rows stay
  terminal, and the sweep or the first leaf's restack claims the rollup again
  while other restacks are at work, where the comment at `:992` has the parent
  settle when they finish.
- Two tasks on one branch at once: the second push may be rejected, is noted on
  the pull request, and the task succeeds all the same (`ensure_pushed` in
  `agent/src/post_hooks.py`), so that its dependents are merged with a branch that
  lacks the revision.
- A dependent whose first run has set up and has no pull request yet is passed over
  (`orchestration-reconciler.ts:1402`), and so is one whose branch is not on its
  row yet (`orchestration-restack.ts:147`); nothing comes back to it, and it
  stays stale until the next revision. `missed` has all of these.
- A creation that fails is only logged, and a redelivery that finds the tasks of
  the first one created does not reopen the epic.

*The agent's run.*

- `deliverable=no_pr` tells the user that "the push succeeded" and the work "is safe
  on the branch" (`error-classifier.ts:592`, `pipeline.py:701`), but `ensure_pr`
  ignores what `ensure_pushed` returns (`post_hooks.py:677`) and the gate looks at
  the local HEAD (`pipeline.py:638`): with a failed push the work is gone with the
  clone. `SuccessIsEarned` is about COMPLETED only.
- `ensure_pr` takes a pull request that the agent opened and returns before it
  pushes (`post_hooks.py:655`), so that what `ensure_committed` has just saved
  never reaches it; the task is COMPLETED.
- An iteration whose push fails ends COMPLETED with its code "changed", since
  `CompareHead` looks at the clone; only a note on the pull request says so.
  `AnswerChangesNothing` is the other direction, which holds.
- A `rev-parse` "failure leaves it None, never flips the verdict"
  (`pipeline.py:1640`), but a time-out of it raises, and the crash handler makes
  the task FAILED and puts a cross beside the tick (`Raise` at "head").
- A run that finds its task cancelled returns without taking its eyes off the issue
  (against `linear_reactions.py:4`), as `MarkersCleared` excepts; a sweep that lists
  late may delete the tick or the cross of its own run.
- A workflow without a repository is not asked again whether it was cancelled, and
  delivers its artifact all the same; `StopIsHonoured` excepts it.

## 6. Plan

Done: the lifecycle, the gate and the epic, in this order because they carry the
platform's guarantees; then the services around the task; then the proofs of
section 4.

Proved are all safety properties that the runs check. What is left to prove is
weaker hypotheses: `OrchestrationKeepsContract` with a user who reopens the epic,
from a contract in which a retry withdraws what was skipped; `CapKept` with a sweep
or a recount, whose cap is one that the code keeps up to the slots it miscounts.
Liveness stays with TLC.

Next, extending the model: the claim of an epic's rollup and the update of the
parent as two actions, which a crash can separate; the extension of a seeded
epic; restacks below a sub-issue that failed and was fixed; start, poll and stop of a microVM session, whose
calls carry no client token; GitHub's deployment webhooks; the validation of a
graph (`orchestration-dag.ts`) as an operator. The number of runs and properties
is kept: a new question joins the run that has its instance.

Not modelled, and not planned: Cedar evaluation, hydration, memory, registry,
the files of a workflow and their validation, the command line and the web, which
are pure functions or input and output; signatures, routing and rendering of the trackers; API keys and
authorizers, single conditional writes with no protocol; and infrastructure,
whose schedules and retry counts appear here as fairness and bounds.

## 7. Running

    tlc -config MCGate.cfg MCApprovalGate.tla
    tlapm ApprovalGateProofs.tla

`MCBenign`, `MCHostile`, `MCLive`, `MCRepair` and `MCNeverEnds` go with `MCTaskLifecycle`; `MCGate*` and `MCLateApproval` with
`MCApprovalGate`; `MCEpic*` with `MCOrchestration`; `MCTaskServices` and
`MCTrackers` with the modules of their names. Each finishes within five
minutes on two cores.
