---------------------------- MODULE TaskCreation ----------------------------
(***************************************************************************)
(* createTaskCore: requests, some of them retries under one idempotency    *)
(* key, are looked up in an eventually consistent index, admitted against  *)
(* the monthly budget, screened, have their inline attachments stored and  *)
(* become a row of the task table.                                         *)
(***************************************************************************)
EXTENDS Integers, FiniteSets

CONSTANTS
    Requests,       \* the requests; a task is named after the one that creates it
    Keys,           \* idempotency keys
    KeyOf,          \* [Requests -> Keys]
    UserOf,         \* the caller of each request
    Inline,         \* [Requests -> Nat], inline attachments of a request
    Presigned,      \* the requests with attachments to upload later
    Environment,    \* subset of {"storeError", "s3Error", "ttl"}
    NoTask

VARIABLES
    tasks,      \* status of the task of each request, "none" before
    indexed,    \* tasks that IdempotencyIndex shows
    objects,    \* stored inline attachments of each request
    requests,   \* where each request is, what it did and what it answered
    invoked     \* tasks whose orchestrator was invoked

vars == <<tasks, indexed, objects, requests, invoked>>

Init ==
    /\ tasks = [r \in Requests |-> "none"]
    /\ indexed = {}
    /\ objects = [r \in Requests |-> 0]
    /\ requests = [r \in Requests |-> [at |-> "new", found |-> NoTask, stored |-> 0,
                                       unindexed |-> {}, answer |-> "none"]]
    /\ invoked = {}

At(r, step) == requests[r].at = step

GoTo(r, step) == requests' = [requests EXCEPT ![r].at = step]

Answer(r, a) == requests' = [requests EXCEPT ![r].at = "done", ![r].answer = a]

Exists(r) == tasks[r] \notin {"none", "gone"}

-----------------------------------------------------------------------------
(***************************************************************************)
(* The handler                                                             *)
(***************************************************************************)

\* The request is valid, or is refused before anything is read or written.
\* (Which tasks the index did not yet show is remembered for the properties.)
ValidateRequest(r) ==
    /\ At(r, "new")
    /\ \/ requests' = [requests EXCEPT ![r].at = "look-up",
                                       ![r].unindexed = Requests \ indexed]
       \/ Answer(r, "refused")
    /\ UNCHANGED <<tasks, indexed, objects, invoked>>

\* The index is asked for one task with the key,
LookUpKey(r) ==
    LET same == {t \in indexed : KeyOf[t] = KeyOf[r]} IN
    /\ At(r, "look-up")
    /\ \/ same = {} /\ GoTo(r, "budget")
       \/ \E t \in same :
            requests' = [requests EXCEPT ![r].at = "get", ![r].found = t]
    /\ UNCHANGED <<tasks, indexed, objects, invoked>>

\* Bug: a task that has ended is no longer looked at.
ReplayLiveTask(r) ==
    LET t == requests[r].found IN
    /\ At(r, "get")
    /\ \/ Exists(t) /\ UserOf[t] = UserOf[r] /\ tasks[t] # "ENDED" /\ Answer(r, "replayed")
       \/ Exists(t) /\ UserOf[t] # UserOf[r] /\ Answer(r, "conflict")
       \/ (~Exists(t) \/ tasks[t] = "ENDED") /\ GoTo(r, "budget")
    /\ UNCHANGED <<tasks, indexed, objects, invoked>>

\* and the task is read: it is returned to its owner and is a conflict for
\* anybody else; a row that has gone since counts for nothing.
ReplayTask(r) ==
    LET t == requests[r].found IN
    /\ At(r, "get")
    /\ \/ Exists(t) /\ UserOf[t] = UserOf[r] /\ Answer(r, "replayed")
       \/ Exists(t) /\ UserOf[t] # UserOf[r] /\ Answer(r, "conflict")
       \/ ~Exists(t) /\ GoTo(r, "budget")
    /\ UNCHANGED <<tasks, indexed, objects, invoked>>

\* An exhausted budget, a failing check and too many teams all refuse.
AdmitBudget(r) ==
    /\ At(r, "budget")
    /\ GoTo(r, "screen") \/ Answer(r, "refused") \/ Answer(r, "error")
    /\ UNCHANGED <<tasks, indexed, objects, invoked>>

ScreenDescription(r) ==
    /\ At(r, "screen")
    /\ GoTo(r, "attach") \/ Answer(r, "refused") \/ Answer(r, "error")
    /\ UNCHANGED <<tasks, indexed, objects, invoked>>

\* A refusal once objects may be there: cleanupOrphanedAttachments deletes them,
\* best effort.  (That it failed is kept with the answer, for the properties.)
CleanupOrphanedAttachments(r) ==
    \/ /\ objects' = [objects EXCEPT ![r] = @ - requests[r].stored]
       /\ Answer(r, "refused") \/ Answer(r, "error")
    \/ /\ "s3Error" \in Environment
       /\ objects' = objects
       /\ Answer(r, "refused-not-cleaned-up")

\* The inline attachments are screened and stored one after the other.
StoreAttachment(r) ==
    /\ At(r, "attach")
    /\ \/ /\ requests[r].stored < Inline[r]
          /\ objects' = [objects EXCEPT ![r] = @ + 1]
          /\ requests' = [requests EXCEPT ![r].stored = @ + 1]
       \/ /\ requests[r].stored < Inline[r]
          /\ CleanupOrphanedAttachments(r)
       \/ /\ requests[r].stored = Inline[r]
          /\ GoTo(r, "size")
          /\ objects' = objects
    /\ UNCHANGED <<tasks, indexed, invoked>>

\* Attachments a caller screened before are taken over unless one has not
\* passed, and the sizes of all of them are added up.
CheckAttachmentRecords(r) ==
    /\ At(r, "size")
    /\ \/ GoTo(r, "put") /\ objects' = objects
       \/ CleanupOrphanedAttachments(r)
    /\ UNCHANGED <<tasks, indexed, invoked>>

InitialStatus(r) == IF r \in Presigned THEN "PENDING_UPLOADS" ELSE "SUBMITTED"

\* A write that fails, though it may have taken effect, is an error that
\* cleans nothing up.
PutTask(r) ==
    /\ At(r, "put")
    /\ \/ /\ tasks' = [tasks EXCEPT ![r] = InitialStatus(r)]
          /\ GoTo(r, IF r \in Presigned THEN "presign" ELSE "invoke")
       \/ /\ "storeError" \in Environment
          /\ tasks' \in {tasks, [tasks EXCEPT ![r] = InitialStatus(r)]}
          /\ Answer(r, "error")
    /\ UNCHANGED <<indexed, objects, invoked>>

\* Best effort, and asynchronous.
InvokeOrchestrator(r) ==
    /\ At(r, "invoke")
    /\ invoked' \in {invoked, invoked \cup {r}}
    /\ Answer(r, "created")
    /\ UNCHANGED <<tasks, indexed, objects>>

\* Without upload instructions the task is FAILED, whatever it was; that
\* write may fail too.
GenerateUploadInstructions(r) ==
    /\ At(r, "presign")
    /\ \/ Answer(r, "created") /\ tasks' = tasks
       \/ /\ Answer(r, "error")
          /\ \/ tasks' = [tasks EXCEPT ![r] = "FAILED"]
             \/ "storeError" \in Environment /\ tasks' = tasks
    /\ UNCHANGED <<indexed, objects, invoked>>

CreateTask(r) ==
    \/ ValidateRequest(r) \/ LookUpKey(r) \/ ReplayTask(r) \/ AdmitBudget(r)
    \/ ScreenDescription(r) \/ StoreAttachment(r) \/ CheckAttachmentRecords(r)
    \/ PutTask(r) \/ InvokeOrchestrator(r) \/ GenerateUploadInstructions(r)

-----------------------------------------------------------------------------

\* The index catches up with a row;
Replicate(r) ==
    /\ tasks[r] # "none" /\ r \notin indexed
    /\ indexed' = indexed \cup {r}
    /\ UNCHANGED <<tasks, objects, requests, invoked>>

\* a row is removed by its TTL long after the task has ended.
ExpireRow(r) ==
    /\ "ttl" \in Environment
    /\ tasks[r] \in {"FAILED", "ENDED"} /\ requests[r].at = "done"
    /\ tasks' = [tasks EXCEPT ![r] = "gone"]
    /\ UNCHANGED <<indexed, objects, requests, invoked>>

\* The rest of the task's life.
TaskEnds(r) ==
    /\ tasks[r] = "SUBMITTED"
    /\ tasks' = [tasks EXCEPT ![r] = "ENDED"]
    /\ UNCHANGED <<indexed, objects, requests, invoked>>

Next ==
    \E r \in Requests : CreateTask(r) \/ Replicate(r) \/ ExpireRow(r) \/ TaskEnds(r)

Spec == Init /\ [][Next]_vars

-----------------------------------------------------------------------------
(***************************************************************************)
(* What a caller may rely on                                               *)
(***************************************************************************)

\* A refused request leaves nothing in the bucket, unless S3 itself fails.
\* (A failing write of the row is an error and does leave its objects.)
RefusedStoresNothing ==
    \A r \in Requests : requests[r].answer \in {"refused", "conflict", "replayed"} =>
        objects[r] = 0

\* A request creates a second task for a key only if the index did not yet
\* show the first when it started, or showed another that was gone.
KeyNamesOneTask ==
    \A r, t \in Requests :
        r # t /\ KeyOf[r] = KeyOf[t] /\ Exists(r) /\ Exists(t) =>
            \/ t \in requests[r].unindexed
            \/ \E g \in Requests : KeyOf[g] = KeyOf[t] /\ tasks[g] = "gone"

\* A request, however often it is repeated, makes one task or leaves nothing.
OneTaskOrNothing == KeyNamesOneTask /\ RefusedStoresNothing
=============================================================================
