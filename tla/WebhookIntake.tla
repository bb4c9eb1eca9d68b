---------------------------- MODULE WebhookIntake ----------------------------
(***************************************************************************)
(* One event of a tracker, from its sender's webhook deliveries to a task. *)
(* The receiver claims the delivery and invokes the processor, which       *)
(* Lambda runs at least once; the processor stores the files of the issue, *)
(* creates the task under a key made from the event and tells the issue    *)
(* what became of it.  A sender repeats a delivery, and Lambda a run, a    *)
(* minute or more after the one before it ended.  The repeated delivery    *)
(* bears the event's timestamp, so its age grows past the receiver's       *)
(* window: within a minute at Linear, within an hour at Jira.  Neither     *)
(* clock is modelled; whether a delivery is on time is a choice.           *)
(***************************************************************************)
EXTENDS Integers

CONSTANTS
    Sources,        \* subset of {"linear-label", "linear-comment", "jira-label", "jira-comment"}
    Deliveries,     \* of the event by its sender, until one is answered with 200
    AsyncAttempts,  \* runs of one asynchronous invocation
    Environment     \* subset of {"storeError", "invokeError", "apiError", "crash"} and
                    \* of {"late", "skew"}: a delivery comes after its window; the
                    \* receiver's clock lags, and an old delivery looks new

VARIABLES
    source,     \* what the event is
    dedup,      \* the row that claims the event
    call,       \* the receiver: number of the delivery, and where its handler is
    queued,     \* invocations of the processor that have not started
    run,        \* the processor: where it is, its attempt, the files it stored
    task,       \* tasks of the event, whether the key's index shows one, its files
    told,       \* what was posted on the issue
    excuses     \* why nothing may have come of the event

vars == <<source, dedup, call, queued, run, task, told, excuses>>

Init ==
    /\ source \in Sources
    /\ dedup = FALSE
    /\ call = [n |-> 0, at |-> "failed"]
    /\ queued = 0
    /\ run = [at |-> "ended", attempt |-> 0, files |-> "none"]
    /\ task = [count |-> 0, indexed |-> FALSE, files |-> "none", unsure |-> FALSE]
    /\ told = {}
    /\ excuses = {}

May(fault) == fault \in Environment

FromLinear == source \in {"linear-label", "linear-comment"}

Label == source \in {"linear-label", "jira-label"}

-----------------------------------------------------------------------------
(***************************************************************************)
(* The receiver                                                            *)
(***************************************************************************)

Receive(at) == call.at = at /\ UNCHANGED <<source, run, task, told>>

\* The event's timestamp is past the window: it was before, or Linear repeats it.
Aged == call.at = "stale" \/ (FromLinear /\ call.n > 0)

\* The next delivery of an event that was not yet answered with 200
Arrive(at) ==
    /\ \E answered \in {"failed", "stale"} : Receive(answered)
    /\ call.n < Deliveries
    /\ call' = [n |-> call.n + 1, at |-> at]
    /\ UNCHANGED <<dedup, queued, excuses>>

Deliver == (Aged => May("skew")) /\ Arrive("claim")

\* Answered with 401 before anything is claimed
RefuseStale == (Aged \/ May("late")) /\ Arrive("stale")

\* A delivery that is there already is answered with 200 and goes no further.
ClaimDelivery ==
    /\ Receive("claim")
    /\ \/ ~dedup /\ dedup' = TRUE /\ call' = [call EXCEPT !.at = "invoke"]
          /\ excuses' = excuses
       \/ dedup /\ dedup' = dedup /\ call' = [call EXCEPT !.at = "deduped"]
          /\ excuses' = excuses
       \/ /\ May("storeError")
          /\ dedup' \in {dedup, TRUE} /\ call' = [call EXCEPT !.at = "failed"]
          /\ excuses' = IF dedup' THEN excuses \cup {"claim-kept"} ELSE excuses
    /\ UNCHANGED queued

\* An invocation that fails may have been accepted.
InvokeProcessor ==
    /\ Receive("invoke")
    /\ \/ queued' = queued + 1 /\ call' = [call EXCEPT !.at = "accepted"]
       \/ /\ May("invokeError")
          /\ queued' \in {queued, queued + 1} /\ call' = [call EXCEPT !.at = "rollback"]
    /\ UNCHANGED <<dedup, excuses>>

\* Bug: the claim outlives the invocation that failed.
KeepClaim ==
    /\ Receive("rollback")
    /\ call' = [call EXCEPT !.at = "failed"]
    /\ UNCHANGED <<dedup, queued, excuses>>

RollBackClaim ==
    /\ Receive("rollback")
    /\ call' = [call EXCEPT !.at = "failed"]
    /\ \/ dedup' = FALSE /\ excuses' = excuses
       \/ May("storeError") /\ dedup' = dedup /\ excuses' = excuses \cup {"claim-kept"}
    /\ UNCHANGED queued

CrashReceiver ==
    /\ May("crash")
    /\ \E at \in {"claim", "invoke", "rollback"} : Receive(at)
    /\ call' = [call EXCEPT !.at = "failed"]
    /\ excuses' = IF dedup THEN excuses \cup {"claim-kept"} ELSE excuses
    /\ UNCHANGED <<dedup, queued>>

Receiver ==
    \/ Deliver \/ RefuseStale \/ ClaimDelivery \/ InvokeProcessor
    \/ RollBackClaim \/ CrashReceiver

-----------------------------------------------------------------------------
(***************************************************************************)
(* The processor                                                           *)
(***************************************************************************)

Process(at) == run.at = at /\ UNCHANGED <<source, dedup, call, queued>>

GoTo(at) == run' = [run EXCEPT !.at = at]

\* By the time a run starts, the index shows what the run before it created.
CaughtUp == task.count = 0 \/ task.indexed

StartRun ==
    /\ run.at = "ended" /\ queued > 0 /\ CaughtUp
    /\ queued' = queued - 1
    /\ run' = [at |-> "route", attempt |-> 1, files |-> "none"]
    /\ UNCHANGED <<source, dedup, call, task, told, excuses>>

RetryRun ==
    /\ Process("waiting") /\ CaughtUp
    /\ GoTo("route")
    /\ UNCHANGED <<task, told, excuses>>

\* Posting on the issue is best effort.
Report(what) ==
    \/ told' = told \cup {what} /\ excuses' = excuses
    \/ May("apiError") /\ told' = told /\ excuses' = excuses \cup {"not-told"}

\* An event that cannot be attributed is refused on the issue; one whose
\* workspace has no usable grant is dropped, there being no way to tell.
RouteEvent ==
    /\ Process("route")
    /\ \/ GoTo(IF source = "linear-comment" THEN "ack" ELSE "files")
          /\ UNCHANGED <<told, excuses>>
       \/ GoTo("ended") /\ Report("refused")
       \/ GoTo("ended") /\ told' = told /\ excuses' = excuses \cup {"no-grant"}
    /\ UNCHANGED task

\* "On it", before anything is decided
AckComment ==
    /\ Process("ack")
    /\ Report("on-it")
    /\ GoTo("files")
    /\ UNCHANGED task

\* The files are screened and stored under a task id that is new in each run;
\* one that cannot be read, or is blocked, refuses the event.
HydrateAttachments ==
    /\ Process("files")
    /\ \/ /\ source # "jira-comment"
          /\ run' = [run EXCEPT !.at = "create", !.files = "its-own"]
          /\ UNCHANGED <<told, excuses>>
       \/ GoTo("create") /\ UNCHANGED <<told, excuses>>
       \/ source # "jira-comment" /\ GoTo("ended") /\ Report("refused")
    /\ UNCHANGED task

\* Bug: the key is made from the run instead of the event.
CreateUnderNewKey ==
    /\ Process("create")
    /\ GoTo("put")
    /\ UNCHANGED <<task, told, excuses>>

\* createTaskCore replays the task of the key, refuses the request or goes on.
LookUpKey ==
    /\ Process("create")
    /\ IF task.indexed THEN GoTo("replayed") ELSE GoTo("put") \/ GoTo("refused")
    /\ UNCHANGED <<task, told, excuses>>

\* A run that throws or dies is repeated by Lambda.
Throw ==
    \/ /\ run.attempt < AsyncAttempts
       /\ run' = [at |-> "waiting", attempt |-> run.attempt + 1, files |-> "none"]
       /\ excuses' = excuses
    \/ /\ run.attempt = AsyncAttempts
       /\ GoTo("ended")
       /\ excuses' = excuses \cup {"runs-exhausted"}

\* A write that fails may have taken effect.  It throws, and only the handler of
\* a Linear comment catches that, as a refusal.
PutTask ==
    LET stored == [task EXCEPT !.count = @ + 1,
                               !.files = IF run.files = "none" THEN "none" ELSE "kept"]
        own(files) == IF files = "none" THEN "none" ELSE "taken"
    IN  /\ Process("put")
        /\ \/ /\ task' = stored /\ GoTo("created")
              /\ excuses' = excuses
           \/ /\ May("storeError") /\ source = "linear-comment"
              /\ \/ task' = task /\ GoTo("refused")
                 \/ /\ task' = [stored EXCEPT !.unsure = TRUE]
                    /\ run' = [run EXCEPT !.at = "refused", !.files = own(@)]
              /\ excuses' = excuses
           \/ /\ May("storeError") /\ source # "linear-comment"
              /\ task' \in {task, stored}
              /\ Throw
        /\ told' = told

\* The courtesy comment on a labelled Linear issue, the reply a Jira comment gets
AnnounceTask ==
    /\ Process("created")
    /\ IF source \in {"linear-label", "jira-comment"}
         THEN Report("on-it") ELSE UNCHANGED <<told, excuses>>
    /\ GoTo("ended")
    /\ UNCHANGED task

\* cleanupPreScreenedAttachments, best effort: a run that made no task deletes
\* the files it stored.
CleanUpFiles ==
    \/ task' = [task EXCEPT !.files = IF run.files = "taken" THEN "deleted" ELSE @]
    \/ May("storeError") /\ task' = task

\* Bug: a replay is reported like any other answer that is not 201.
ReportReplay ==
    /\ Process("replayed")
    /\ CleanUpFiles
    /\ Report("refused")
    /\ GoTo("ended")

\* A replay is not a failure to the Jira processor, and is one to the Linear
\* processor when the event is a label.
ConcludeReplay ==
    /\ Process("replayed")
    /\ CleanUpFiles
    /\ IF source = "linear-label" THEN Report("refused") ELSE UNCHANGED <<told, excuses>>
    /\ GoTo("ended")

\* A refusal is posted, except to the author of a Linear comment.
ConcludeRefusal ==
    /\ Process("refused")
    /\ CleanUpFiles
    /\ IF source = "linear-comment"
         THEN told' = told /\ excuses' = excuses \cup {"comment-refused"}
         ELSE Report("refused")
    /\ GoTo("ended")

\* A run may die, or run out of time, anywhere.
CrashRun ==
    /\ May("crash")
    /\ \E at \in {"route", "ack", "files", "create", "put", "created", "replayed", "refused"} :
           Process(at)
    /\ Throw
    /\ UNCHANGED <<task, told>>

\* The index of the keys catches up with the table.
Replicate ==
    /\ task.count > 0 /\ ~task.indexed
    /\ task' = [task EXCEPT !.indexed = TRUE]
    /\ UNCHANGED <<source, dedup, call, queued, run, told, excuses>>

Processor ==
    \/ StartRun \/ RetryRun \/ RouteEvent \/ AckComment \/ HydrateAttachments \/ LookUpKey
    \/ PutTask \/ AnnounceTask \/ ConcludeReplay \/ ConcludeRefusal \/ CrashRun \/ Replicate

Next == Receiver \/ Processor

Spec == Init /\ [][Next]_vars

-----------------------------------------------------------------------------

\* The sender has given up: its last delivery failed, or came too late.
Undelivered == call.n = Deliveries /\ call.at \in {"failed", "stale"}

Settled ==
    /\ call.at \in {"accepted", "deduped"} \/ Undelivered
    /\ queued = 0 /\ run.at = "ended"

\* However often the event is delivered and its processor run, it becomes one
\* task.
OneTaskPerEvent == task.count <= 1

\* A task's files stay: what a run cleans up is what it stored itself.
TaskKeepsItsFiles == task.files = "deleted" => task.unsure

\* So the repeated deliveries and runs of an event come to one task, with its files.
EventBecomesOneTask == OneTaskPerEvent /\ TaskKeepsItsFiles

\* An event whose sender was answered with 200, but of which nothing came, neither
\* a task nor a word on the issue, met one of the faults the handlers cannot undo:
\* a claim that was kept although the processor was never invoked, every run of
\* the processor dying, an issue that could not be written to (or it is a Linear
\* comment whose task is refused, which is silent).  A failed invocation by itself
\* is not among them, for the claim is given back: what the next delivery in time
\* claims is processed.  Jira's repeated delivery is in time within the hour;
\* Linear's never is, so an event of Linear whose one invocation failed ends
\* Undelivered, its claim given back to nobody.
NothingLostQuietly ==
    Settled /\ task.count = 0 /\ "refused" \notin told =>
        excuses # {} \/ Undelivered

FalseRefusal ==
    /\ run.at \in {"replayed", "refused"} /\ told' # told /\ "refused" \in told'
    /\ task.count > 0 /\ ~task.unsure

\* An issue is told that its task could not be created only while it has none,
\* or when the write of the task failed and had taken effect.  (A replayed
\* Linear label is told so although it has one, and a run that is repeated may
\* refuse, for its files say, what an earlier one has created.)
OnlyLabelMisreported == FalseRefusal => source = "linear-label"

NoFalseFailure == [][OnlyLabelMisreported]_vars

=============================================================================
