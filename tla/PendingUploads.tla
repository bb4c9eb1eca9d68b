---------------------------- MODULE PendingUploads ----------------------------
(***************************************************************************)
(* A task whose attachments the user uploads by presigned POST: the row    *)
(* waits in PENDING_UPLOADS, concurrent calls of confirm-uploads screen    *)
(* the objects and submit or fail the task, and a scheduled clean-up       *)
(* expires it.  The bucket is versioned, so an object is a sequence of     *)
(* versions, and a delete that names no version only adds a marker.        *)
(***************************************************************************)
EXTENDS Integers, Sequences, FiniteSets, FiniteSetsExt

CONSTANTS
    Attachments,    \* 1 .. N, in the order of the row's list
    Calls,          \* concurrent invocations of confirm-uploads
    Contents,       \* [Attachments -> subset of {"clean", "large", "blocked", "malformed"}]
    MaxUploads,     \* bound: uploads to the keys of the task
    BatchSize,      \* SCREENING_CONCURRENCY
    SizeLimit,      \* MAX_TOTAL_ATTACHMENT_SIZE_BYTES; an object weighs 1, a large one 2
    MaxConcurrent,  \* the user's cap
    Environment     \* subset of {"deadline", "screenError", "storeError", "s3Error", "cancel"}

VARIABLES
    row,        \* the task's row: status and attachment records
    store,      \* the versions of each attachment's object
    calls,      \* the running invocations
    active,     \* the user's active_count
    invoked,    \* invocations of the orchestrator
    expired,    \* the upload window has passed
    cleaner,    \* the clean-up Lambda: "idle" or about to "delete"
    oversized   \* history: a call found the total too large

vars == <<row, store, calls, active, invoked, expired, cleaner, oversized>>

-----------------------------------------------------------------------------
(***************************************************************************)
(* Records and objects                                                     *)
(***************************************************************************)

Pending == [screening |-> "pending", version |-> 0]

NotScreened == [a \in Attachments |-> Pending]

PendingIn(atts) == {a \in Attachments : atts[a].screening = "pending"}

Merge(atts, screened) ==
    [a \in Attachments |-> IF screened[a] = Pending THEN atts[a] ELSE screened[a]]

\* The version a GET or HEAD without a version id finds: 0 for a 404.
Latest(a) ==
    LET alive == {v \in DOMAIN store[a] : ~store[a][v].gone}
        v == IF alive = {} THEN 0 ELSE Max(alive)
    IN  IF v # 0 /\ store[a][v].content = "marker" THEN 0 ELSE v

Weight(a, v) == IF v = 0 THEN 0 ELSE IF store[a][v].content = "large" THEN 2 ELSE 1

TotalSize(atts) == MapThenSumSet(LAMBDA a : Weight(a, atts[a].version), Attachments)

\* (A marker on top of another would change nothing.)
Delete(a, v) ==
    CASE v # 0         -> [store[a] EXCEPT ![v].gone = TRUE]
      [] Latest(a) = 0 -> store[a]
      [] OTHER         -> Append(store[a], [content |-> "marker", gone |-> FALSE])

Idle == [at |-> "idle", seen |-> NotScreened, meta |-> [a \in Attachments |-> 0],
         screened |-> NotScreened]

Init ==
    /\ row = [status |-> "PENDING_UPLOADS", atts |-> NotScreened]
    /\ store = [a \in Attachments |-> <<>>]
    /\ calls = [c \in Calls |-> Idle]
    /\ active = 0
    /\ invoked = 0
    /\ expired = FALSE
    /\ cleaner = "idle"
    /\ oversized = FALSE

\* A call that is done keeps nothing, and the user may call again.
GoTo(c, at) ==
    calls' = IF at = "done" THEN [calls EXCEPT ![c] = Idle] ELSE [calls EXCEPT ![c].at = at]

-----------------------------------------------------------------------------
(***************************************************************************)
(* confirm-uploads: one action per call to DynamoDB, S3 or Lambda          *)
(***************************************************************************)

ReadTask(c) ==
    /\ calls[c].at = "idle"
    /\ IF row.status = "PENDING_UPLOADS"
         THEN calls' = [calls EXCEPT
                ![c].seen = row.atts,
                ![c].at = IF PendingIn(row.atts) = {} THEN "admit" ELSE "head"]
         ELSE GoTo(c, "done")
    /\ UNCHANGED <<row, store, active, invoked, expired, cleaner, oversized>>

ToHead(c) == {a \in PendingIn(calls[c].seen) : calls[c].meta[a] = 0}

HeadObject(c) ==
    /\ calls[c].at = "head"
    /\ LET a == Min(ToHead(c)) IN
         IF Latest(a) = 0 THEN GoTo(c, "done")
         ELSE calls' = [calls EXCEPT
                ![c].meta[a] = Latest(a),
                ![c].at = IF ToHead(c) = {a} THEN "pre-check" ELSE "head"]
    /\ UNCHANGED <<row, store, active, invoked, expired, cleaner, oversized>>

PreCheckConcurrency(c) ==
    /\ calls[c].at = "pre-check"
    /\ \/ active < MaxConcurrent /\ GoTo(c, "screen")
       \/ active >= MaxConcurrent /\ GoTo(c, "done")
    /\ UNCHANGED <<row, store, active, invoked, expired, cleaner, oversized>>

ToScreen(c) == PendingIn(calls[c].seen) \cap PendingIn(calls[c].screened)

Batch(c) == {a \in ToScreen(c) : Cardinality({b \in ToScreen(c) : b < a}) < BatchSize}

\* Bug: the object is fetched without the version that HeadObject saw.
ScreenLatest(c, a) ==
    LET v == calls[c].meta[a] IN
    CASE Latest(a) = 0 \/ Weight(a, Latest(a)) # Weight(a, v)  -> "error"
      [] store[a][Latest(a)].content = "malformed"             -> "rejected"
      [] store[a][Latest(a)].content = "blocked"               -> "blocked"
      [] OTHER                                                 -> "passed"

\* The version that HeadObject saw is downloaded and screened.  A version that
\* was deleted in between is an error like an outage of the screening itself.
ScreenSingleAttachment(c, a) ==
    LET v == store[a][calls[c].meta[a]] IN
    CASE v.gone                     -> "error"
      [] v.content = "malformed"    -> "rejected"
      [] v.content = "blocked"      -> "blocked"
      [] OTHER                      -> "passed"

\* A batch is screened in parallel; its results are looked at in order, and
\* the first attachment that was rejected or failed ends the call.  A blocked
\* one does not: it is recorded and looked at when all are done.
ScreenBatch(c) ==
    /\ calls[c].at = "screen" /\ ToScreen(c) # {}
    /\ \E failing \in IF "screenError" \in Environment
                        THEN {{}} \cup {{a} : a \in Batch(c)} ELSE {{}} :
         LET Result(a) == IF a \in failing THEN "error" ELSE ScreenSingleAttachment(c, a)
             bad == {a \in Batch(c) : Result(a) \in {"rejected", "error"}}
         IN  IF bad # {}
               THEN GoTo(c, IF Result(Min(bad)) = "rejected" THEN "fail" ELSE "done")
               ELSE calls' = [calls EXCEPT ![c].screened = [a \in Attachments |->
                      IF a \in Batch(c)
                        THEN [screening |-> Result(a), version |-> calls[c].meta[a]]
                        ELSE @[a]]]
    /\ UNCHANGED <<row, store, active, invoked, expired, cleaner, oversized>>

\* The Lambda's deadline is near before the next batch: what has been screened
\* is merged into the attachments as this call read them, and the call ends.
PersistPartialScreeningState(c) ==
    /\ "deadline" \in Environment
    /\ calls[c].at = "screen" /\ ToScreen(c) # {}
    /\ row' = IF row.status = "PENDING_UPLOADS" /\ calls[c].screened # NotScreened
                THEN [row EXCEPT !.atts = Merge(calls[c].seen, calls[c].screened)]
                ELSE row
    /\ GoTo(c, "done")
    /\ UNCHANGED <<store, active, invoked, expired, cleaner, oversized>>

Final(c) == Merge(calls[c].seen, calls[c].screened)

\* Every pending attachment has a result.  Too large a total deletes the
\* objects and changes no status.
AllScreened(c) ==
    LET blocked == \E a \in Attachments : calls[c].screened[a].screening = "blocked"
        large == ~blocked /\ TotalSize(Final(c)) > SizeLimit
    IN  /\ calls[c].at = "screen" /\ ToScreen(c) = {}
        /\ GoTo(c, CASE blocked -> "fail" [] large -> "clean-up" [] OTHER -> "admit")
        /\ oversized' = (oversized \/ large)
        /\ UNCHANGED <<row, store, active, invoked, expired, cleaner>>

\* The task fails if it still waits; only then the objects are deleted.
FailTaskOnScreening(c) ==
    /\ calls[c].at = "fail"
    /\ IF row.status = "PENDING_UPLOADS"
         THEN row' = [row EXCEPT !.status = "FAILED"] /\ GoTo(c, "clean-up")
         ELSE row' = row /\ GoTo(c, "done")
    /\ UNCHANGED <<store, active, invoked, expired, cleaner, oversized>>

\* DeleteObjects names the version for the attachments that had one when the
\* call read the row, and none for the others.
CleanupAllAttachments(c) ==
    /\ calls[c].at = "clean-up"
    /\ \/ store' = [a \in Attachments |-> Delete(a, calls[c].seen[a].version)]
       \/ "s3Error" \in Environment /\ store' = store
    /\ GoTo(c, "done")
    /\ UNCHANGED <<row, active, invoked, expired, cleaner, oversized>>

CheckConcurrency(c) ==
    /\ calls[c].at = "admit"
    /\ \/ /\ active < MaxConcurrent
          /\ active' = active + 1
          /\ GoTo(c, "submit")
       \/ /\ active >= MaxConcurrent
          /\ active' = active
          /\ GoTo(c, "done")
    /\ UNCHANGED <<row, store, invoked, expired, cleaner, oversized>>

\* Bug: the task is submitted whatever its status is.
SubmitUnconditionally(c) ==
    /\ calls[c].at = "submit"
    /\ row' = [status |-> "SUBMITTED", atts |-> Final(c)]
    /\ GoTo(c, "invoke")
    /\ UNCHANGED <<store, active, invoked, expired, cleaner, oversized>>

\* PENDING_UPLOADS -> SUBMITTED; a failed write, which may have taken effect
\* all the same, takes the slot back.
TransitionToSubmitted(c) ==
    LET submitted == [status |-> "SUBMITTED", atts |-> Final(c)] IN
    /\ calls[c].at = "submit"
    /\ \/ /\ row.status = "PENDING_UPLOADS"
          /\ row' = submitted
          /\ GoTo(c, "invoke")
       \/ /\ row.status # "PENDING_UPLOADS"
          /\ row' = row
          /\ GoTo(c, "roll-back")
       \/ /\ "storeError" \in Environment
          /\ row' \in {row} \cup {r \in {submitted} : row.status = "PENDING_UPLOADS"}
          /\ GoTo(c, "roll-back")
    /\ UNCHANGED <<store, active, invoked, expired, cleaner, oversized>>

\* (Its three attempts count as one that works.)
DecrementConcurrency(c) ==
    /\ calls[c].at = "roll-back"
    /\ active' = IF active > 0 THEN active - 1 ELSE active
    /\ GoTo(c, "done")
    /\ UNCHANGED <<row, store, invoked, expired, cleaner, oversized>>

\* The asynchronous invocation is best effort.
InvokeOrchestrator(c) ==
    /\ calls[c].at = "invoke"
    /\ invoked' \in {invoked, invoked + 1}
    /\ GoTo(c, "done")
    /\ UNCHANGED <<row, store, active, expired, cleaner, oversized>>

ConfirmUploads(c) ==
    \/ ReadTask(c) \/ HeadObject(c) \/ PreCheckConcurrency(c) \/ ScreenBatch(c)
    \/ PersistPartialScreeningState(c) \/ AllScreened(c) \/ FailTaskOnScreening(c)
    \/ CleanupAllAttachments(c) \/ CheckConcurrency(c) \/ TransitionToSubmitted(c)
    \/ DecrementConcurrency(c) \/ InvokeOrchestrator(c)

-----------------------------------------------------------------------------
(***************************************************************************)
(* The user, the clean-up, the orchestrator                                *)
(***************************************************************************)

\* A presigned POST lasts ten minutes and asks nothing of the task's status.
Upload(a) ==
    LET Uploads(b) == Cardinality({v \in DOMAIN store[b] : store[b][v].content # "marker"})
    IN  /\ ~expired /\ MapThenSumSet(Uploads, Attachments) < MaxUploads
        /\ \E k \in Contents[a] :
             store' = [store EXCEPT ![a] = Append(@, [content |-> k, gone |-> FALSE])]
        /\ UNCHANGED <<row, calls, active, invoked, expired, cleaner, oversized>>

Expire ==
    /\ ~expired
    /\ expired' = TRUE
    /\ UNCHANGED <<row, store, calls, active, invoked, cleaner, oversized>>

CancelTask ==
    /\ "cancel" \in Environment
    /\ row.status = "PENDING_UPLOADS"
    /\ row' = [row EXCEPT !.status = "CANCELLED"]
    /\ UNCHANGED <<store, calls, active, invoked, expired, cleaner, oversized>>

\* Bug: only tasks none of whose attachments has been screened are expired.
CancelUntouched ==
    /\ cleaner = "idle" /\ expired
    /\ row.status = "PENDING_UPLOADS" /\ row.atts = NotScreened
    /\ row' = [row EXCEPT !.status = "CANCELLED"]
    /\ cleaner' = "delete"
    /\ UNCHANGED <<store, calls, active, invoked, expired, oversized>>

CancelExpiredTask ==
    /\ cleaner = "idle" /\ expired
    /\ row.status = "PENDING_UPLOADS"
    /\ row' = [row EXCEPT !.status = "CANCELLED"]
    /\ cleaner' = "delete"
    /\ UNCHANGED <<store, calls, active, invoked, expired, oversized>>

\* Every version under the task's prefix is listed and deleted, once.
CleanupTaskAttachments ==
    /\ cleaner = "delete"
    /\ \/ store' = [a \in Attachments |-> [v \in DOMAIN store[a] |->
                      [store[a][v] EXCEPT !.gone = TRUE]]]
       \/ "s3Error" \in Environment /\ store' = store
    /\ cleaner' = "idle"
    /\ UNCHANGED <<row, calls, active, invoked, expired, oversized>>

\* The execution that confirm-uploads started admits the task, for which it
\* takes a slot of its own, or queues it.
AdmissionControl ==
    /\ row.status = "SUBMITTED" /\ invoked > 0
    /\ \/ /\ active < MaxConcurrent
          /\ active' = active + 1
          /\ row' = [row EXCEPT !.status = "HYDRATING"]
       \/ /\ active >= MaxConcurrent
          /\ active' = active
          /\ row' = [row EXCEPT !.status = "QUEUED"]
    /\ UNCHANGED <<store, calls, invoked, expired, cleaner, oversized>>

\* The rest of the task's life: it ends and gives one slot back.
FinalizeTask ==
    /\ row.status = "HYDRATING"
    /\ row' = [row EXCEPT !.status = "COMPLETED"]
    /\ active' = IF active > 0 THEN active - 1 ELSE active
    /\ UNCHANGED <<store, calls, invoked, expired, cleaner, oversized>>

Cleaner == CancelExpiredTask \/ CleanupTaskAttachments

Next ==
    \/ \E c \in Calls : ConfirmUploads(c)
    \/ \E a \in Attachments : Upload(a)
    \/ Expire \/ CancelTask \/ Cleaner \/ AdmissionControl \/ FinalizeTask

Spec == Init /\ [][Next]_vars

\* The window passes and the five-minute schedule goes on.
Fairness == WF_vars(Expire) /\ WF_vars(Cleaner)

-----------------------------------------------------------------------------
(***************************************************************************)
(* What the confirmation promises                                          *)
(***************************************************************************)

Submitted == {"SUBMITTED", "QUEUED", "HYDRATING", "COMPLETED"}

\* What a record calls passed is what was screened: the version it names holds
\* clean content, however often the user uploads over the object meanwhile.
\* The agent later fetches that version (resolveAttachmentPayloads).
ScreenedContent ==
    \A a \in Attachments : row.atts[a].screening = "passed" =>
        store[a][row.atts[a].version].content \in {"clean", "large"}

\* No attachment of a submitted task escaped screening, in whichever calls,
\* cut short by the deadline or not, its screening was spread.
AllWereScreened ==
    row.status \in Submitted => PendingIn(row.atts) = {}

\* The versions a submitted task relies on are still there: neither another
\* call that fails its own screening nor the clean-up deletes them.  (A call
\* that finds the total too large deletes what earlier calls have recorded,
\* and the task may be submitted all the same.)
SubmittedObjectsKept ==
    row.status \in Submitted /\ ~oversized =>
        \A a \in Attachments : row.atts[a].screening = "passed" =>
            ~store[a][row.atts[a].version].gone

\* What the agent gets is what was screened, all of it, and still there.
OnlyScreenedSubmitted == ScreenedContent /\ AllWereScreened /\ SubmittedObjectsKept

\* However many calls confirm, the task's orchestrator is started at most
\* once, and for a task that was neither failed nor cancelled.
OrchestratedOnce ==
    invoked <= 1 /\ (invoked = 1 => row.status \in Submitted)

\* Confirmation and admission each take a slot for a submitted task; beyond
\* these, and those of calls between their two writes, no call keeps one.
SlotsExplained ==
    active <= Cardinality({c \in Calls : calls[c].at \in {"submit", "roll-back"}})
              + (IF row.status \in Submitted THEN 1 ELSE 0)
              + (IF row.status = "HYDRATING" THEN 1 ELSE 0)

\* However many calls confirm at once, one of them submits: one start of the
\* orchestrator, one slot.
SubmittedOnce == OrchestratedOnce /\ SlotsExplained

ScreenedSubmittedOnce == OnlyScreenedSubmitted /\ SubmittedOnce

\* No task waits for its uploads for ever.
Settled == row.status # "PENDING_UPLOADS"
=============================================================================
