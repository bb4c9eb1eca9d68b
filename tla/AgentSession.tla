----------------------------- MODULE AgentSession -----------------------------
(***************************************************************************)
(* One run of the agent's pipeline: the repository it works in, what it    *)
(* delivers, the verdict it reaches and how that gets onto the task's      *)
(* record, while the user cancels, the orchestrator gives up, a write is   *)
(* lost, git and GitHub fail, or a step raises.  A second thread sweeps    *)
(* the markers of earlier runs off the Linear issue.                       *)
(*                                                                         *)
(* Commits are counted: a branch is the number of commits it has beyond    *)
(* its base, or beyond what it had when an iteration checked it out.       *)
(***************************************************************************)
EXTENDS Naturals, FiniteSets

CONSTANTS
    Runs,           \* what a run may be: its workflow, one of {"new-task",
                    \* "pr-iteration", "pr-review", "web-research"}, whether it is for
                    \* a Linear issue, traced, on a branch whose build is green
    MaxCommits,     \* commits the agent makes
    MaxFaults,      \* faults in a run, each kind once
    Environment     \* subset of {"cancel", "gaveUp", "raises"}, and of the faults
                    \* {"lost", "readError", "gitError", "pushError", "apiError",
                    \*  "s3Error", "linearError"}

VARIABLES
    task,       \* the record: status, pr, changed, trace
    run,        \* the pipeline's step and locals
    repo,       \* the clone, the remote branch and its pull request
    issue,      \* our markers on the Linear issue, and the sweep's thread
    past        \* history: cancelled before the agent stopped, delivered by the
                \* pipeline, and the faults so far

vars == <<task, run, repo, issue, past>>

May(event) == event \in Environment

\* A call to the record, git, GitHub, S3 or Linear that fails
Fails(fault) ==
    /\ May(fault) /\ fault \notin past.faults
    /\ Cardinality(past.faults) < MaxFaults
    /\ past' = [past EXCEPT !.faults = @ \cup {fault}]

Fine == past' = past

ReadOnly(w) == w = "pr-review"
is_pr_workflow(w) == w \in {"pr-iteration", "pr-review"}
RequiresRepo(w) == w # "web-research"

ensure_pr_strategy(w) ==
    CASE w = "pr-iteration" -> "push_resolve"
      [] w = "pr-review" -> "resolve"
      [] OTHER -> "create"

VerifyGate(w) == IF w = "pr-review" THEN "informational" ELSE "regression_only"

Init ==
    /\ task = [status |-> "HYDRATING", pr |-> FALSE, changed |-> TRUE,
               trace |-> FALSE]
    /\ \E r \in Runs :
         /\ run = [workflow |-> r.workflow, linear |-> r.linear, traced |-> r.traced,
                   build_before |-> r.green, at |-> "boot", agent |-> "none",
                   needs_input |-> FALSE, build |-> "passed", url |-> FALSE,
                   reason |-> "none", uploaded |-> FALSE, crashed |-> FALSE]
         /\ repo = [dirty |-> FALSE, head |-> 0, on_branch |-> TRUE, branch |-> 0,
                    remote |-> 0, pr |-> is_pr_workflow(r.workflow), artifact |-> FALSE]
    /\ issue = [marks |-> {"old"}, sweep |-> "idle", found |-> {}]
    /\ past = [cancelled |-> FALSE, shipped |-> FALSE, faults |-> {}]

-----------------------------------------------------------------------------
(***************************************************************************)
(* The start of a run                                                      *)
(***************************************************************************)

Step(from, to) == run.at = from /\ run' = [run EXCEPT !.at = to]

\* A write of the record that takes effect under its condition, and is lost if the
\* store fails; nobody hears of either.
Written(condition, record) ==
    \/ task' = (IF condition THEN record ELSE task) /\ Fine
    \/ task' = task /\ Fails("lost")

\* build_config and the session's credentials; what they raise is not run_task's to
\* report.
Boot ==
    /\ Step("boot", "running") \/ (May("raises") /\ Step("boot", "backup"))
    /\ UNCHANGED <<task, repo, issue, past>>

write_running ==
    /\ Step("running", "hydrate")
    /\ Written(task.status = "HYDRATING", [task EXCEPT !.status = "RUNNING"])
    /\ UNCHANGED <<repo, issue>>

Hydrate ==
    /\ Step("hydrate", IF RequiresRepo(run.workflow) THEN "ack" ELSE "agent")
    /\ UNCHANGED <<task, repo, issue, past>>

\* The eyes go up first, and the sweep of what was there before is another thread's.
react_task_started ==
    /\ Step("ack", "setup")
    /\ \/ ~run.linear /\ issue' = issue /\ Fine
       \/ /\ run.linear
          /\ issue' = [issue EXCEPT !.marks = @ \cup {"eyes"}, !.sweep = "list"]
          /\ Fine
       \/ run.linear /\ issue' = issue /\ Fails("linearError")
    /\ UNCHANGED <<task, repo>>

SetupRepo ==
    /\ Step("setup", "agent")
    /\ UNCHANGED <<task, repo, issue, past>>

-----------------------------------------------------------------------------
(***************************************************************************)
(* The agent at work in the clone                                          *)
(***************************************************************************)

Working ==
    run.at = "agent" /\ RequiresRepo(run.workflow) /\ ~ReadOnly(run.workflow)

InRepo(r) == repo' = r /\ UNCHANGED <<task, run, issue, past>>

AgentEdits ==
    /\ Working /\ ~repo.dirty /\ repo.head < MaxCommits
    /\ InRepo([repo EXCEPT !.dirty = TRUE])

\* HEAD moves, and with it the branch it is on.
Committed(r) == [r EXCEPT !.dirty = FALSE, !.head = @ + 1,
                          !.branch = IF r.on_branch THEN @ + 1 ELSE @]

AgentCommits ==
    Working /\ repo.dirty /\ InRepo(Committed(repo))

\* git checkout -b: a branch of its own, which the platform does not track
AgentLeavesBranch ==
    Working /\ repo.on_branch /\ InRepo([repo EXCEPT !.on_branch = FALSE])

AgentPushes ==
    /\ Working /\ repo.on_branch /\ repo.remote # repo.head
    /\ InRepo([repo EXCEPT !.remote = repo.head])

AgentOpensPr ==
    /\ Working /\ repo.on_branch /\ repo.remote > 0 /\ ~repo.pr
    /\ InRepo([repo EXCEPT !.pr = TRUE])

\* The agent stops: done, at a limit or an error, without a result, or asking.
AgentEnds ==
    /\ run.at = "agent"
    /\ \E result \in {"success", "error", "unknown"}, asks \in BOOLEAN :
         run' = [run EXCEPT
                    !.at = IF RequiresRepo(run.workflow) THEN "recheck" ELSE "deliver",
                    !.agent = result,
                    !.needs_input = asks /\ RequiresRepo(run.workflow)
                                         /\ ~is_pr_workflow(run.workflow)]
    /\ UNCHANGED <<task, repo, issue, past>>

-----------------------------------------------------------------------------
(***************************************************************************)
(* The post-hooks                                                          *)
(***************************************************************************)

\* Bug: what stopped the agent stops the pipeline.
TrustStopHook ==
    /\ Step("recheck", "commit")
    /\ UNCHANGED <<task, repo, issue, past>>

\* The status is read again before anything is shipped; one that cannot be read
\* counts as not cancelled.
Recheck ==
    /\ \/ task.status = "CANCELLED" /\ Step("recheck", "cancel_upload") /\ Fine
       \/ task.status # "CANCELLED" /\ Step("recheck", "commit") /\ Fine
       \/ Step("recheck", "commit") /\ Fails("readError")
    /\ UNCHANGED <<task, repo, issue>>

\* reconcile_agent_branch: the tracked branch is set to where the agent went.
Reconciled(r) == [r EXCEPT !.on_branch = TRUE, !.branch = r.head]

\* ensure_committed
Saved(r) == IF r.dirty THEN Committed(r) ELSE r

\* Nothing to verify or ship after a question, nothing to commit after a review.
NothingToCommit ==
    /\ run.at = "commit" /\ (run.needs_input \/ ReadOnly(run.workflow))
    /\ run' = [run EXCEPT !.at = IF run.needs_input THEN "verdict" ELSE "verify"]
    /\ UNCHANGED <<task, repo, issue, past>>

\* A git failure leaves undone what it fails at: git branch -f, the checkout of the
\* branch, or the commit.
CommitWork ==
    /\ ~run.needs_input /\ ~ReadOnly(run.workflow) /\ Step("commit", "verify")
    /\ \/ repo' = Saved(Reconciled(repo)) /\ Fine
       \/ /\ repo' \in {Saved(repo), Saved([repo EXCEPT !.branch = repo.head]),
                        Reconciled(repo)}
          /\ Fails("gitError")
    /\ UNCHANGED <<task, issue>>

\* An inert command has verified nothing and counts as passed; one that takes too
\* long counts as failed; one that the host has killed is told apart.
verify_build ==
    /\ run.at = "verify"
    /\ \E outcome \in {"passed", "failed", "infra"} :
         run' = [run EXCEPT !.at = "ensure", !.build = outcome]
    /\ UNCHANGED <<task, repo, issue, past>>

\* gh pr view
LookedUp(found) == (found = repo.pr /\ Fine) \/ (~found /\ Fails("apiError"))

Shipped == [past EXCEPT !.shipped = TRUE]

\* ensure_pushed: the tracked branch, whatever HEAD is on
PushBranch ==
    \/ repo' = [repo EXCEPT !.remote = repo.branch] /\ past' = Shipped
    \/ repo' = repo /\ Fails("pushError")

\* ensure_pr: an iteration pushes its commits,
PushForPr ==
    /\ ensure_pr_strategy(run.workflow) = "push_resolve" /\ Step("ensure", "resolve")
    /\ PushBranch
    /\ UNCHANGED <<task, issue>>

\* an iteration or a review takes the pull request that it has.
ResolvePr ==
    /\ \/ run.at = "resolve"
       \/ run.at = "ensure" /\ ensure_pr_strategy(run.workflow) = "resolve"
    /\ \E found \in BOOLEAN :
         LookedUp(found) /\ run' = [run EXCEPT !.at = "verdict", !.url = found]
    /\ UNCHANGED <<task, repo, issue>>

\* New work: a pull request that the agent opened is taken as it is,
FindPr ==
    /\ run.at = "ensure" /\ ensure_pr_strategy(run.workflow) = "create"
    /\ \E found \in BOOLEAN :
         /\ LookedUp(found)
         /\ run' = [run EXCEPT !.url = found,
                      !.at = IF found \/ repo.head = 0 THEN "verdict" ELSE "push"]
    /\ UNCHANGED <<task, repo, issue>>

\* without one, commits on HEAD are pushed, whether they arrive or not,
PushNewWork ==
    /\ Step("push", "create") /\ PushBranch
    /\ UNCHANGED <<task, issue>>

\* and gh pr create is refused for a branch that is not there or has one.
CreatePr ==
    /\ run.at = "create"
    /\ \/ /\ repo.remote > 0 /\ ~repo.pr
          /\ repo' = [repo EXCEPT !.pr = TRUE]
          /\ run' = [run EXCEPT !.at = "verdict", !.url = TRUE] /\ Fine
       \/ /\ (Fine /\ (repo.remote = 0 \/ repo.pr)) \/ Fails("apiError")
          /\ Step("create", "verdict") /\ repo' = repo
    /\ UNCHANGED <<task, issue>>

\* deliver_artifact of a workflow without a repository, whatever the agent's result:
\* a missing text or a mere promise is refused, and S3 may fail before or after it
\* has stored the text.
DeliverArtifact ==
    /\ run.at = "deliver"
    /\ \/ /\ repo' = [repo EXCEPT !.artifact = TRUE]
          /\ \/ past' = Shipped /\ run' = [run EXCEPT !.at = "verdict", !.url = TRUE]
             \/ Step("deliver", "verdict") /\ Fails("s3Error")
       \/ /\ Step("deliver", "verdict") /\ repo' = repo
          /\ Fine \/ Fails("s3Error")
    /\ UNCHANGED <<task, issue>>

-----------------------------------------------------------------------------
(***************************************************************************)
(* The verdict                                                             *)
(***************************************************************************)

\* gate_status
GatePassed(gate, passed, read_only, was_passing_before) ==
    \/ passed \/ gate = "informational" \/ read_only
    \/ gate # "strict" /\ ~was_passing_before

\* _apply_post_hook_gates
BuildOk ==
    GatePassed(VerifyGate(run.workflow), run.build = "passed", ReadOnly(run.workflow),
               run.build_before)

\* Bug: a build killed before and after the agent is no regression.
ResolvedByRegressionOnly ==
    CASE run.agent = "success" /\ BuildOk -> "none"
      [] run.agent = "unknown" -> "no_result"
      [] run.agent = "error" -> "agent"
      [] OTHER -> run.build

\* _resolve_overall_task_status, "none" for success: a killed build is no verdict,
\* whatever it was before the agent.
Resolved ==
    CASE run.build = "infra" /\ run.agent = "success" -> "infra"
      [] run.build # "infra" /\ run.agent = "success" /\ BuildOk -> "none"
      [] run.agent = "unknown" -> "no_result"
      [] run.agent = "error" -> "agent"
      [] OTHER -> run.build

\* _apply_delivery_gate, which looks at HEAD, and the gate of the artifact
Delivered(reason) ==
    CASE reason # "none" \/ run.url \/ is_pr_workflow(run.workflow) -> reason
      [] ~RequiresRepo(run.workflow) -> "no_artifact"
      [] OTHER -> IF repo.head > 0 THEN "no_pr" ELSE "lost"

\* A question is a success.
Verdict ==
    /\ run.at = "verdict"
    /\ run' = [run EXCEPT
                 !.at = IF RequiresRepo(run.workflow) THEN "react" ELSE "upload",
                 !.reason = IF run.needs_input THEN "none" ELSE Delivered(Resolved)]
    /\ UNCHANGED <<task, repo, issue, past>>

-----------------------------------------------------------------------------
(***************************************************************************)
(* What is left of a run                                                   *)
(***************************************************************************)

\* react_task_finished: the eyes go, if they were put up, and the outcome is marked;
\* either call may fail.
Reacts(mark, to) ==
    /\ run' = [run EXCEPT !.at = to]
    /\ \/ ~run.linear /\ issue' = issue /\ Fine
       \/ /\ run.linear /\ issue' = [issue EXCEPT !.marks = (@ \ {"eyes"}) \cup {mark}]
          /\ Fine
       \/ /\ run.linear
          /\ issue' \in {[issue EXCEPT !.marks = @ \cup {mark}],
                         [issue EXCEPT !.marks = @ \ {"eyes"}]}
          /\ Fails("linearError")
    /\ UNCHANGED <<task, repo>>

react_task_finished ==
    run.at = "react" /\ Reacts(IF run.reason = "none" THEN "check" ELSE "cross", "upload")

\* _maybe_upload_trace
Uploads(from, to, toWithout) ==
    /\ run.at = from
    /\ \/ run.traced /\ run' = [run EXCEPT !.at = to, !.uploaded = TRUE] /\ Fine
       \/ ~run.traced /\ run' = [run EXCEPT !.at = toWithout] /\ Fine
       \/ /\ run.traced /\ run' = [run EXCEPT !.at = toWithout, !.uploaded = FALSE]
          /\ Fails("s3Error")
    /\ UNCHANGED <<task, repo, issue>>

UploadTrace == Uploads("upload", "head", "head")
UploadTraceOfCancelled == Uploads("cancel_upload", "heal", "over")
UploadTraceOfCrashed == Uploads("crash_upload", "crash_write", "crash_write")

\* Has the iteration moved HEAD?  (EndRun writes the answer.)
CompareHead ==
    /\ Step("head", "terminal")
    /\ UNCHANGED <<task, repo, issue, past>>

Live == task.status \in {"HYDRATING", "RUNNING"}

\* Bug: a terminal write that is refused is the end of it.
WriteTerminalOnly(from, record, traced, to) ==
    /\ run.at = from
    /\ Written(Live, record)
    /\ run' = [run EXCEPT !.at = to]
    /\ UNCHANGED <<repo, issue>>

\* write_terminal: if the task has ended meanwhile, the trace is still written.
WriteTerminal(from, record, traced, to) ==
    /\ run.at = from
    /\ Written(Live, record)
    /\ run' = [run EXCEPT !.at =
                 IF ~Live /\ traced /\ past' = past THEN "heal" ELSE to]
    /\ UNCHANGED <<repo, issue>>

EndRun ==
    WriteTerminal("terminal",
        [task EXCEPT !.status = IF run.reason = "none" THEN "COMPLETED" ELSE "FAILED",
                     !.pr = run.url, !.trace = run.uploaded,
                     !.changed = ~run.needs_input
                                 /\ (is_pr_workflow(run.workflow) => repo.head > 0)],
        run.uploaded, "over")

\* write_trace_uri_conditional
HealTrace ==
    /\ Step("heal", IF run.crashed THEN "crash_react" ELSE "over")
    /\ Written(~Live /\ ~task.trace, [task EXCEPT !.trace = TRUE])
    /\ UNCHANGED <<repo, issue>>

-----------------------------------------------------------------------------
(***************************************************************************)
(* A step that raises                                                      *)
(***************************************************************************)

\* The handler at the end of run_task: the trace, once more, the record, the issue,
Raise ==
    /\ May("raises")
    /\ run.at \in {"hydrate", "setup", "commit", "verify", "ensure", "resolve", "push",
                   "create", "head"}
    /\ run' = [run EXCEPT !.at = "crash_upload", !.crashed = TRUE]
    /\ UNCHANGED <<task, repo, issue, past>>

Failed == [task EXCEPT !.status = "FAILED"]

RecordCrash ==
    WriteTerminal("crash_write", [Failed EXCEPT !.trace = run.uploaded], run.uploaded,
                  "crash_react")

ReactToCrash == run.at = "crash_react" /\ Reacts("cross", "backup")

\* Bug: the thread trusts the handler to have written.
TrustHandler ==
    /\ Step("backup", "over")
    /\ UNCHANGED <<task, repo, issue, past>>

\* and the thread that ran it writes once more what may have been lost.
RecordCrashAgain == WriteTerminal("backup", Failed, FALSE, "over")

-----------------------------------------------------------------------------
(***************************************************************************)
(* The sweep of the Linear issue                                           *)
(***************************************************************************)

Sweeps(from, new) ==
    /\ issue.sweep = from /\ issue' = new
    /\ UNCHANGED <<task, run, repo>>

\* All markers of ours but the eyes of this run, as they are by now
SweepLists ==
    \/ /\ Sweeps("list", [issue EXCEPT !.sweep = "delete",
                                         !.found = issue.marks \ {"eyes"}])
       /\ Fine
    \/ Sweeps("list", [issue EXCEPT !.sweep = "done"]) /\ Fails("linearError")

Forgotten(i) == [i EXCEPT !.sweep = "done", !.found = {}]

\* One call for each; one that fails leaves its marker.
SweepDeletes ==
    \/ Sweeps("delete", Forgotten([issue EXCEPT !.marks = @ \ issue.found])) /\ Fine
    \/ \E m \in issue.found :
         /\ Sweeps("delete",
                Forgotten([issue EXCEPT !.marks = @ \ (issue.found \ {m})]))
         /\ Fails("linearError")

-----------------------------------------------------------------------------
(***************************************************************************)
(* The world around the run                                                *)
(***************************************************************************)

\* The orchestrator's own transition, after the session is started
OrchestratorRuns ==
    /\ task.status = "HYDRATING" /\ task' = [task EXCEPT !.status = "RUNNING"]
    /\ UNCHANGED <<run, repo, issue, past>>

Cancel ==
    /\ May("cancel") /\ Live
    /\ task' = [task EXCEPT !.status = "CANCELLED"]
    /\ past' = [past EXCEPT !.cancelled =
                 run.at \in {"boot", "running", "hydrate", "ack", "setup", "agent",
                             "recheck"}]
    /\ UNCHANGED <<run, repo, issue>>

\* The orchestrator's polls run out.
GiveUp ==
    /\ May("gaveUp") /\ Live
    /\ task' = [task EXCEPT !.status = IF @ = "RUNNING" THEN "TIMED_OUT" ELSE "FAILED"]
    /\ UNCHANGED <<run, repo, issue, past>>

-----------------------------------------------------------------------------

Agent ==
    \/ AgentEdits \/ AgentCommits \/ AgentLeavesBranch \/ AgentPushes \/ AgentOpensPr
    \/ AgentEnds

Pipeline ==
    \/ Boot \/ write_running \/ Hydrate \/ react_task_started \/ SetupRepo
    \/ Recheck \/ NothingToCommit \/ CommitWork \/ verify_build \/ PushForPr
    \/ ResolvePr \/ FindPr \/ PushNewWork \/ CreatePr \/ DeliverArtifact
    \/ Verdict \/ react_task_finished \/ UploadTrace
    \/ UploadTraceOfCancelled \/ UploadTraceOfCrashed \/ CompareHead \/ EndRun
    \/ HealTrace \/ Raise \/ RecordCrash \/ ReactToCrash \/ RecordCrashAgain

Next ==
    \/ Agent \/ Pipeline \/ SweepLists \/ SweepDeletes
    \/ OrchestratorRuns \/ Cancel \/ GiveUp

Spec == Init /\ [][Next]_vars

-----------------------------------------------------------------------------
(***************************************************************************)
(* Properties                                                              *)
(***************************************************************************)

\* A task is COMPLETED only for work that can be found: new work in a pull request
\* that has commits, research in its artifact; the agent finished, and its build was
\* verified or was red before it.  A question needs none of this.
SuccessIsEarned ==
    task.status = "COMPLETED" /\ ~run.needs_input =>
        /\ run.agent = "success"
        /\ run.build # "infra"
        /\ run.build # "passed" => ReadOnly(run.workflow) \/ ~run.build_before
        /\ ensure_pr_strategy(run.workflow) = "create" /\ RequiresRepo(run.workflow) =>
              repo.pr /\ repo.remote > 0
        /\ ~RequiresRepo(run.workflow) => repo.artifact

\* An iteration that is reported to have changed nothing has changed nothing on the
\* pull request.
AnswerChangesNothing ==
    task.status = "COMPLETED" /\ is_pr_workflow(run.workflow) /\ ~task.changed =>
        repo.remote = 0

\* A task on a repository that is cancelled before its post-hooks begin ships nothing
\* afterwards, unless the one read that would tell fails.
StopIsHonoured ==
    past.cancelled /\ "readError" \notin past.faults /\ RequiresRepo(run.workflow) =>
        ~past.shipped

\* A trace that a run has uploaded last can be found from the record, whoever ended
\* the task.
TraceReachable ==
    run.at = "over" /\ run.uploaded /\ "lost" \notin past.faults => task.trace

\* A run_task that raised has ended its task, even if one write was lost.
CrashRecorded ==
    run.at = "over" /\ run.crashed => ~Live

\* The eyes and the markers of earlier runs do not outlive the run, as far as Linear
\* answers; only a cancelled run leaves its eyes.
MarkersCleared ==
    "linearError" \notin past.faults =>
        /\ run.at = "over" /\ "eyes" \in issue.marks => past.cancelled
        /\ issue.sweep = "done" => "old" \notin issue.marks

\* What the record of an ended task says is what was delivered.
ReportedAsDelivered == SuccessIsEarned /\ AnswerChangesNothing

\* Nothing that a run does, or leaves, goes unaccounted for.
RunAccountedFor == StopIsHonoured /\ TraceReachable /\ CrashRecorded /\ MarkersCleared
=============================================================================
