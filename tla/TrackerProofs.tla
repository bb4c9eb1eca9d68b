---------------------------- MODULE TrackerProofs ----------------------------
(***************************************************************************)
(* Proofs about what ties a tracker to a task: the events that come in     *)
(* (WebhookIntake), the replies that go out (IterationReply), the grant    *)
(* that every call to Linear needs (LinearGrant), and the stacks of pull   *)
(* requests (Restack).                                                     *)
(***************************************************************************)
EXTENDS Trackers, TLAPS

\* A step is one of the model that is looked at.
LEMMA OnlyOne ==
  ASSUME [Next]_vars
  PROVE  /\ subject' = subject
         /\ subject = "intake" => [Intake!Next]_(Intake!vars)
         /\ OfGrants => [Grant!Next]_(Grant!vars)
         /\ subject = "reply" => [Replies!Next]_(Replies!vars)
         /\ subject = "stack" => [Stack!Next]_(Stack!vars)
         /\ subject = "pair" => [Pair!Next]_(Pair!vars)
<1>. USE CrewAssumption DEF OfGrants
<1>1. CASE UNCHANGED vars
  BY <1>1 DEF vars, intakeVars, grantVars, repliesVars, stackVars,
     Intake!vars, Grant!vars, Replies!vars, Stack!vars, Pair!vars
<1>2. CASE Next
  BY <1>2 DEF Next, OnlyIntake, OnlyGrant, OnlyReplies, OnlyStack, OnlyPair
<1>. QED  BY <1>1, <1>2

-----------------------------------------------------------------------------
(***************************************************************************)
(* WebhookIntake: an event becomes one task, which keeps its files         *)
(***************************************************************************)

\* Once the key has been looked up in vain the event has no task; before that,
\* the index shows the one it may have.
KeyLookedUp ==
    /\ run.at \in {"route", "ack", "files", "create"} => Intake!CaughtUp
    /\ run.at = "put" => task.count = 0

\* What a run may delete as its own is a task's only when its write was unsure.
CleansUpItsOwn == run.files = "taken" => task.unsure

TaskFiles == {"none", "kept", "deleted"}

TaskType == [count : Nat, indexed : BOOLEAN, files : TaskFiles, unsure : BOOLEAN]

RunSteps == {"ended", "waiting", "route", "ack", "files", "create", "put", "created",
             "replayed", "refused"}

RunFiles == {"none", "its-own", "taken"}

RunType == [at : RunSteps, attempt : Int, files : RunFiles]

IntakeTyped == task \in TaskType /\ run \in RunType

IntakeInv ==
    /\ IntakeTyped
    /\ KeyLookedUp
    /\ CleansUpItsOwn
    /\ Intake!EventBecomesOneTask

LEMMA IntakeInit == Intake!Init => IntakeInv
  BY DEF Intake!Init, IntakeInv, IntakeTyped, TaskType, TaskFiles, RunType, RunSteps, RunFiles, KeyLookedUp,
     CleansUpItsOwn, Intake!CaughtUp, Intake!EventBecomesOneTask, Intake!OneTaskPerEvent,
     Intake!TaskKeepsItsFiles

LEMMA RunFields ==
  ASSUME run \in RunType
  PROVE  run.at \in RunSteps /\ run.attempt \in Int /\ run.files \in RunFiles
  BY DEF RunType

LEMMA GoToFields ==
  ASSUME run \in RunType, NEW s \in RunSteps, Intake!GoTo(s)
  PROVE  run' \in RunType /\ run'.at = s /\ run'.files = run.files
  BY DEF RunType, Intake!GoTo

LEMMA NewRun ==
  ASSUME NEW s \in RunSteps, NEW n, n \in Int \/ n = 1,
         run' = [at |-> s, attempt |-> n, files |-> "none"]
  PROVE  run' \in RunType /\ run'.at = s /\ run'.files = "none"
<1>1. "none" \in RunFiles /\ n \in Int
  BY DEF RunFiles
<1>. QED  BY <1>1 DEF RunType

\* A run that throws, wherever it is, forgets its files or is over.
LEMMA ThrowKeeps ==
  ASSUME IntakeInv, Intake!Throw, task' \in TaskType, task'.count <= 1,
         task'.files = "deleted" => task'.unsure, task.unsure => task'.unsure
  PROVE  IntakeInv'
<1>1. run \in RunType
  BY DEF IntakeInv, IntakeTyped
<1>2. "waiting" \in RunSteps /\ "ended" \in RunSteps
  BY DEF RunSteps
<1>3. /\ run' \in RunType /\ run'.at \in {"waiting", "ended"}
      /\ run'.files \in {run.files, "none"}
  <2>1. CASE run' = [at |-> "waiting", attempt |-> run.attempt + 1, files |-> "none"]
    <3>1. run.attempt + 1 \in Int
      BY <1>1, RunFields
    <3>. QED  BY <1>2, <2>1, <3>1, NewRun
  <2>2. CASE Intake!GoTo("ended")
    BY <1>1, <1>2, <2>2, GoToFields
  <2>. QED  BY <2>1, <2>2 DEF Intake!Throw
<1>. QED
  BY <1>3 DEF IntakeInv, IntakeTyped, KeyLookedUp, CleansUpItsOwn,
     Intake!EventBecomesOneTask, Intake!OneTaskPerEvent, Intake!TaskKeepsItsFiles

\* Cleaning up deletes a task's files only when its write was unsure.
LEMMA CleanUpKeeps ==
  ASSUME IntakeInv, Intake!CleanUpFiles
  PROVE  /\ task' \in TaskType /\ task'.count = task.count
         /\ task'.unsure = task.unsure /\ task'.indexed = task.indexed
         /\ task'.files = "deleted" => task'.unsure
  BY DEF IntakeInv, IntakeTyped, TaskType, TaskFiles, CleansUpItsOwn, Intake!CleanUpFiles,
     Intake!EventBecomesOneTask, Intake!TaskKeepsItsFiles

LEMMA FirstTask ==
  ASSUME task \in TaskType, task.count = 0, NEW f \in {"none", "kept"}, NEW new,
         new = [task EXCEPT !.count = task.count + 1, !.files = f]
  PROVE  /\ new \in TaskType /\ new.count = 1 /\ new.files # "deleted"
         /\ new.unsure = task.unsure
<1>1. task.count + 1 \in Nat /\ task.count + 1 = 1
  OBVIOUS
<1>2. f \in TaskFiles /\ f # "deleted"
  BY DEF TaskFiles
<1>. QED  BY <1>1, <1>2 DEF TaskType

LEMMA UnsureTask ==
  ASSUME task \in TaskType, NEW old \in TaskType, task' = [old EXCEPT !.unsure = TRUE]
  PROVE  task' \in TaskType /\ task'.count = old.count /\ task'.unsure
  BY DEF TaskType

LEMMA UnsureRun ==
  ASSUME run \in RunType, NEW f \in RunFiles, run' = [run EXCEPT !.at = "refused", !.files = f]
  PROVE  run' \in RunType /\ run'.at = "refused"
<1>1. "refused" \in RunSteps
  BY DEF RunSteps
<1>. QED  BY <1>1 DEF RunType

\* What holds between steps, but for where the run is.
LEMMA PutStart ==
  ASSUME IntakeInv, run.at = "put"
  PROVE  /\ run \in RunType /\ task \in TaskType /\ task.count = 0
         /\ task.files = "deleted" => task.unsure
         /\ run.files = "taken" => task.unsure
  BY DEF IntakeInv, IntakeTyped, KeyLookedUp, CleansUpItsOwn, 
     Intake!EventBecomesOneTask, Intake!TaskKeepsItsFiles

\* and is to hold after the step.
LEMMA Keeps ==
  ASSUME task' \in TaskType, run' \in RunType, task'.count <= 1,
         run'.at \in {"created", "refused"},
         task'.files = "deleted" => task'.unsure,
         run'.files = "taken" => task'.unsure
  PROVE  IntakeInv'
  BY DEF IntakeInv, IntakeTyped, KeyLookedUp, CleansUpItsOwn,
     Intake!EventBecomesOneTask, Intake!OneTaskPerEvent, Intake!TaskKeepsItsFiles

\* The task that is stored in a put is the event's first.
LEMMA PutKeeps ==
  ASSUME IntakeInv, Intake!PutTask
  PROVE  IntakeInv'
<1>1. run.at = "put"
  BY DEF Intake!PutTask, Intake!Process
<1>2. PICK f, g, stored :
        /\ f \in {"none", "kept"} /\ g \in {"none", "taken"}
        /\ stored = [task EXCEPT !.count = task.count + 1, !.files = f]
        /\ \/ task' = stored /\ Intake!GoTo("created")
           \/ task' = task /\ Intake!GoTo("refused")
           \/ /\ task' = [stored EXCEPT !.unsure = TRUE]
              /\ run' = [run EXCEPT !.at = "refused", !.files = g]
           \/ task' \in {task, stored} /\ Intake!Throw
  BY DEF Intake!PutTask
<1>3. /\ stored \in TaskType /\ stored.count = 1 /\ stored.files # "deleted"
      /\ stored.unsure = task.unsure
  BY <1>1, <1>2, PutStart, FirstTask
<1>4. "created" \in RunSteps /\ "refused" \in RunSteps /\ g \in RunFiles
  BY <1>2 DEF RunSteps, RunFiles
<1>5. CASE task' = stored /\ Intake!GoTo("created")
  BY <1>1, <1>3, <1>4, <1>5, PutStart, GoToFields, Keeps
<1>6. CASE task' = task /\ Intake!GoTo("refused")
  BY <1>1, <1>4, <1>6, PutStart, GoToFields, Keeps
<1>7. CASE /\ task' = [stored EXCEPT !.unsure = TRUE]
           /\ run' = [run EXCEPT !.at = "refused", !.files = g]
  <2>1. task' \in TaskType /\ task'.count = 1 /\ task'.unsure
    BY <1>1, <1>3, <1>7, PutStart, UnsureTask
  <2>2. run' \in RunType /\ run'.at = "refused"
    BY <1>1, <1>4, <1>7, PutStart, UnsureRun
  <2>. QED  BY <2>1, <2>2, Keeps
<1>8. CASE task' \in {task, stored} /\ Intake!Throw
  <2>1. /\ task' \in TaskType /\ task'.count <= 1
        /\ task'.files = "deleted" => task'.unsure
        /\ task.unsure => task'.unsure
    BY <1>1, <1>3, <1>8, PutStart
  <2>. QED  BY <1>8, <2>1, ThrowKeeps
<1>. QED  BY <1>2, <1>5, <1>6, <1>7, <1>8

LEMMA IntakeStep == IntakeInv /\ [Intake!Next]_(Intake!vars) => IntakeInv'
<1>. SUFFICES ASSUME IntakeInv, [Intake!Next]_(Intake!vars) PROVE IntakeInv'
  OBVIOUS
<1>1. run \in RunType /\ task \in TaskType
  BY DEF IntakeInv, IntakeTyped
<1>2. \A s \in {"route", "ended", "ack", "files", "create", "put", "replayed", "refused"} :
        s \in RunSteps
  BY DEF RunSteps
<1>. USE DEF IntakeInv, IntakeTyped, KeyLookedUp, CleansUpItsOwn, Intake!CaughtUp,
     Intake!EventBecomesOneTask, Intake!OneTaskPerEvent, Intake!TaskKeepsItsFiles
<1>3. CASE Intake!Receiver \/ UNCHANGED Intake!vars
  <2>1. UNCHANGED <<run, task>>
    BY <1>3 DEF Intake!Receiver, Intake!Deliver, Intake!RefuseStale, Intake!Arrive,
       Intake!ClaimDelivery, Intake!InvokeProcessor, Intake!RollBackClaim,
       Intake!CrashReceiver, Intake!Receive, Intake!vars
  <2>. QED  BY <2>1
<1>4. CASE Intake!StartRun
  <2>1. run' = [at |-> "route", attempt |-> 1, files |-> "none"]
    BY <1>4 DEF Intake!StartRun
  <2>2. run' \in RunType /\ run'.at = "route" /\ run'.files = "none"
    BY <1>2, <2>1, NewRun
  <2>3. Intake!CaughtUp /\ task' = task
    BY <1>4 DEF Intake!StartRun
  <2>. QED  BY <2>2, <2>3
<1>5. CASE Intake!RetryRun
  BY <1>1, <1>2, <1>5, GoToFields DEF Intake!RetryRun, Intake!Process
<1>6. CASE Intake!RouteEvent \/ Intake!AckComment \/ Intake!HydrateAttachments
  <2>1. task' = task /\ run.at \in {"route", "ack", "files"}
    BY <1>6 DEF Intake!RouteEvent, Intake!AckComment, Intake!HydrateAttachments, Intake!Process
  <2>2. run' \in RunType /\ run'.at # "put" /\ run'.files \in {run.files, "its-own"}
    <3>1. CASE \E s \in {"ended", "ack", "files", "create"} : Intake!GoTo(s)
      BY <1>1, <1>2, <3>1, GoToFields
    <3>2. CASE run' = [run EXCEPT !.at = "create", !.files = "its-own"]
      BY <1>1, <1>2, <3>2 DEF RunType, RunFiles
    <3>. QED
      BY <1>6, <3>1, <3>2 DEF Intake!RouteEvent, Intake!AckComment, Intake!HydrateAttachments
  <2>. QED  BY <2>1, <2>2
<1>7. CASE Intake!LookUpKey
  <2>1. task' = task /\ run.at = "create"
    BY <1>7 DEF Intake!LookUpKey, Intake!Process
  <2>2. PICK s \in {"replayed", "put", "refused"} :
          Intake!GoTo(s) /\ (s = "put" => ~task.indexed)
    BY <1>7 DEF Intake!LookUpKey
  <2>3. run' \in RunType /\ run'.at = s /\ run'.files = run.files
    BY <1>1, <1>2, <2>2, GoToFields
  <2>. QED  BY <2>1, <2>2, <2>3
<1>8. CASE Intake!AnnounceTask
  BY <1>1, <1>2, <1>8, GoToFields DEF Intake!AnnounceTask
<1>9. CASE Intake!ConcludeReplay \/ Intake!ConcludeRefusal
  <2>1. Intake!GoTo("ended") /\ Intake!CleanUpFiles
    BY <1>9 DEF Intake!ConcludeReplay, Intake!ConcludeRefusal
  <2>2. run' \in RunType /\ run'.at = "ended" /\ run'.files = run.files
    BY <1>1, <1>2, <2>1, GoToFields
  <2>. QED  BY <2>1, <2>2, CleanUpKeeps
<1>10. CASE Intake!CrashRun
  BY <1>1, <1>10, ThrowKeeps DEF Intake!CrashRun
<1>11. CASE Intake!Replicate
  BY <1>1, <1>11 DEF Intake!Replicate, TaskType
<1>. QED
  BY PutKeeps, <1>3, <1>4, <1>5, <1>6, <1>7, <1>8, <1>9, <1>10, <1>11
     DEF Intake!Next, Intake!Processor

\* However often an event is delivered and its processor run, wherever either
\* dies and whatever fails, it becomes at most one task, and a run cleans up no
\* files of a task of which its store had spoken.
THEOREM OneTaskOfAnEvent == Spec => []EventBecomesOneTask
<1>. DEFINE I == subject = "intake" => IntakeInv
<1>1. Init => I
  BY IntakeInit, CrewAssumption DEF Init
<1>2. I /\ [Next]_vars => I'
  BY OnlyOne, IntakeStep
<1>3. I => EventBecomesOneTask
  BY DEF EventBecomesOneTask, IntakeInv
<1>. HIDE DEF I
<1>. QED  BY <1>1, <1>2, <1>3, PTL DEF Spec

-----------------------------------------------------------------------------
(***************************************************************************)
(* WebhookIntake: what the issue is told is true, and silence has a cause  *)
(***************************************************************************)

CallType ==
    [n : Int, at : {"failed", "stale", "claim", "invoke", "rollback", "accepted", "deduped"}]

\* Something comes of the event, or has.
Underway == queued > 0 \/ run.at # "ended" \/ task.count > 0 \/ "refused" \in told

\* A claim that is held, but for the receiver that is about to invoke the processor
\* or to give the claim back, stands for an invocation.
ClaimCovered ==
    excuses = {} =>
        /\ dedup /\ call.at \notin {"invoke", "rollback"} => Underway
        /\ call.at \in {"accepted", "deduped"} => Underway

\* An answer that a run has is the truth about the task.
AnswerTrue ==
    /\ task.indexed => task.count > 0
    /\ run.at \in {"created", "replayed"} => task.count > 0
    /\ run.at = "refused" => task.count = 0 \/ source = "linear-comment"

ReportInv ==
    /\ queued \in Nat /\ call \in CallType
    /\ ClaimCovered
    /\ AnswerTrue

LEMMA ReportInit == Intake!Init => ReportInv
  BY DEF Intake!Init, ReportInv, CallType, ClaimCovered, AnswerTrue, Underway

\* What the receiver does stays covered.
LEMMA ReceiverCovered ==
  ASSUME ReportInv, Intake!Receiver
  PROVE  ReportInv'
<1>1. UNCHANGED <<source, run, task, told>>
  BY DEF Intake!Receiver, Intake!Deliver, Intake!RefuseStale, Intake!Arrive,
     Intake!ClaimDelivery, Intake!InvokeProcessor, Intake!RollBackClaim,
     Intake!CrashReceiver, Intake!Receive
<1>2. AnswerTrue'
  BY <1>1 DEF ReportInv, AnswerTrue
<1>3. queued' = queued \/ queued' = queued + 1
  BY DEF Intake!Receiver, Intake!Deliver, Intake!RefuseStale, Intake!Arrive,
     Intake!ClaimDelivery, Intake!InvokeProcessor, Intake!RollBackClaim,
     Intake!CrashReceiver
<1>4. queued' \in Nat /\ (Underway => Underway')
  BY <1>1, <1>3 DEF ReportInv, Underway
<1>5. call' \in CallType /\ ClaimCovered'
  <2>1. CASE Intake!Deliver \/ Intake!RefuseStale
    <3>1. PICK at \in {"claim", "stale"} : Intake!Arrive(at)
      BY <2>1 DEF Intake!Deliver, Intake!RefuseStale
    <3>. QED
      BY <1>4, <3>1 DEF Intake!Arrive, Intake!Receive, ReportInv, CallType, ClaimCovered
  <2>2. CASE Intake!ClaimDelivery
    BY <1>4, <2>2 DEF Intake!ClaimDelivery, Intake!Receive, ReportInv, CallType, ClaimCovered
  <2>3. CASE Intake!InvokeProcessor
    <3>1. call'.at = "accepted" => queued' = queued + 1
      BY <2>3 DEF Intake!InvokeProcessor, Intake!Receive, ReportInv, CallType
    <3>2. call'.at = "accepted" => Underway'
      BY <3>1 DEF ReportInv, Underway
    <3>. QED
      BY <2>3, <3>2 DEF Intake!InvokeProcessor, Intake!Receive, ReportInv, CallType, ClaimCovered
  <2>4. CASE Intake!RollBackClaim
    BY <1>4, <2>4 DEF Intake!RollBackClaim, Intake!Receive, ReportInv, CallType, ClaimCovered
  <2>5. CASE Intake!CrashReceiver
    BY <1>4, <2>5 DEF Intake!CrashReceiver, Intake!Receive, ReportInv, CallType, ClaimCovered
  <2>. QED  BY <2>1, <2>2, <2>3, <2>4, <2>5 DEF Intake!Receiver
<1>. QED  BY <1>2, <1>4, <1>5 DEF ReportInv

\* It stays covered while the processor goes on, and when it ends with a task, with
\* a word on the issue or with an excuse.
LEMMA ProcessorCovered ==
  ASSUME ReportInv, UNCHANGED <<source, dedup, call>>, queued' \in Nat,
         Underway' \/ excuses' # {}, AnswerTrue'
  PROVE  ReportInv'
  BY DEF ReportInv, ClaimCovered

\* A run that throws comes again, or is excused.
LEMMA ThrowCovered ==
  ASSUME Intake!Throw, run \in RunType
  PROVE  run'.at = "waiting" \/ (run'.at = "ended" /\ excuses' # {})
  BY DEF Intake!Throw, Intake!GoTo, RunType

LEMMA PutCovered ==
  ASSUME IntakeTyped, ReportInv, Intake!PutTask
  PROVE  ReportInv'
<1>1. /\ UNCHANGED <<source, dedup, call, queued, told>>
      /\ run \in RunType /\ task \in TaskType /\ queued \in Nat
  BY DEF Intake!PutTask, Intake!Process, IntakeTyped, ReportInv
<1>2. /\ task'.count \in Nat /\ task'.indexed = task.indexed
      /\ task'.count = task.count \/ task'.count = task.count + 1
  <2>1. PICK f, stored :
          /\ stored = [task EXCEPT !.count = task.count + 1, !.files = f]
          /\ task' = task \/ task' = stored \/ task' = [stored EXCEPT !.unsure = TRUE]
    BY DEF Intake!PutTask
  <2>2. task.count \in Nat /\ stored.count = task.count + 1 /\ stored.indexed = task.indexed
    BY <1>1, <2>1 DEF TaskType
  <2>3. \/ task' = task \/ task' = stored
        \/ task'.count = stored.count /\ task'.indexed = stored.indexed
    BY <1>1, <2>1 DEF TaskType
  <2>. QED  BY <2>2, <2>3
<1>3. \/ run'.at = "created" /\ task'.count = task.count + 1
      \/ run'.at = "refused" /\ source = "linear-comment"
      \/ Intake!Throw
  BY <1>1 DEF Intake!PutTask, Intake!GoTo, RunType, TaskType
<1>4. task.indexed => task.count > 0
  BY DEF ReportInv, AnswerTrue
<1>5. task.count \in Nat
  BY <1>1 DEF TaskType
<1>6. Underway' \/ excuses' # {}
  BY <1>1, <1>3, ThrowCovered DEF Underway
<1>7. AnswerTrue'
  BY <1>1, <1>2, <1>3, <1>4, <1>5, ThrowCovered DEF AnswerTrue
<1>. QED  BY <1>1, <1>6, <1>7, ProcessorCovered

LEMMA ReportStep == IntakeInv /\ ReportInv /\ [Intake!Next]_(Intake!vars) => ReportInv'
<1>. SUFFICES ASSUME IntakeInv, ReportInv, [Intake!Next]_(Intake!vars) PROVE ReportInv'
  OBVIOUS
<1>1. run \in RunType /\ task \in TaskType /\ queued \in Nat /\ AnswerTrue
  BY DEF IntakeInv, IntakeTyped, ReportInv
<1>2. CASE UNCHANGED Intake!vars
  BY <1>2 DEF Intake!vars, ReportInv, ClaimCovered, AnswerTrue, Underway
<1>3. CASE Intake!StartRun
  <2>1. UNCHANGED <<source, dedup, call, task>> /\ run'.at = "route" /\ queued' = queued - 1
    BY <1>3 DEF Intake!StartRun
  <2>2. queued > 0
    BY <1>3 DEF Intake!StartRun
  <2>3. queued' \in Nat
    BY <1>1, <2>1, <2>2
  <2>4. Underway' /\ AnswerTrue'
    BY <1>1, <2>1 DEF Underway, AnswerTrue
  <2>. QED  BY <2>1, <2>3, <2>4, ProcessorCovered
<1>4. CASE Intake!RetryRun \/ Intake!AckComment
  <2>1. UNCHANGED <<source, dedup, call, queued, task>> /\ run'.at \in {"route", "files"}
    BY <1>1, <1>4 DEF Intake!RetryRun, Intake!AckComment, Intake!Process, Intake!GoTo, RunType
  <2>2. Underway' /\ AnswerTrue'
    BY <1>1, <2>1 DEF Underway, AnswerTrue
  <2>. QED  BY <1>1, <2>1, <2>2, ProcessorCovered
<1>5. CASE Intake!RouteEvent \/ Intake!HydrateAttachments
  <2>1. UNCHANGED <<source, dedup, call, queued, task>>
    BY <1>5 DEF Intake!RouteEvent, Intake!HydrateAttachments, Intake!Process
  <2>2. \/ run'.at \in {"ack", "files", "create"}
        \/ run'.at = "ended" /\ (excuses' # {} \/ "refused" \in told')
    BY <1>1, <1>5 DEF Intake!RouteEvent, Intake!HydrateAttachments, Intake!GoTo, RunType,
       Intake!Report
  <2>3. (Underway' \/ excuses' # {}) /\ AnswerTrue'
    BY <1>1, <2>1, <2>2 DEF Underway, AnswerTrue
  <2>. QED  BY <1>1, <2>1, <2>3, ProcessorCovered
<1>6. CASE Intake!LookUpKey
  <2>1. UNCHANGED <<source, dedup, call, queued, task>> /\ run.at = "create"
    BY <1>6 DEF Intake!LookUpKey, Intake!Process
  <2>2. \/ run'.at = "replayed" /\ task.indexed
        \/ run'.at \in {"put", "refused"} /\ ~task.indexed
    BY <1>1, <1>6 DEF Intake!LookUpKey, Intake!GoTo, RunType
  <2>3. run'.at # "replayed" => task.count = 0
    BY <2>1, <2>2 DEF IntakeInv, KeyLookedUp, Intake!CaughtUp
  <2>4. Underway' /\ AnswerTrue'
    BY <1>1, <2>1, <2>2, <2>3 DEF Underway, AnswerTrue
  <2>. QED  BY <1>1, <2>1, <2>4, ProcessorCovered
<1>7. CASE Intake!AnnounceTask
  <2>1. UNCHANGED <<source, dedup, call, queued, task>> /\ run.at = "created" /\ run'.at = "ended"
    BY <1>1, <1>7 DEF Intake!AnnounceTask, Intake!Process, Intake!GoTo, RunType
  <2>2. Underway' /\ AnswerTrue'
    BY <1>1, <2>1 DEF Underway, AnswerTrue
  <2>. QED  BY <1>1, <2>1, <2>2, ProcessorCovered
<1>8. CASE Intake!ConcludeReplay \/ Intake!ConcludeRefusal
  <2>1. UNCHANGED <<source, dedup, call, queued>> /\ run'.at = "ended"
    BY <1>1, <1>8 DEF Intake!ConcludeReplay, Intake!ConcludeRefusal, Intake!Process,
       Intake!GoTo, RunType
  <2>2. task'.count = task.count /\ task'.indexed = task.indexed
    BY <1>1, <1>8 DEF Intake!ConcludeReplay, Intake!ConcludeRefusal, Intake!CleanUpFiles,
       TaskType
  <2>3. run.at = "replayed" \/ excuses' # {} \/ "refused" \in told'
    BY <1>8 DEF Intake!ConcludeReplay, Intake!ConcludeRefusal, Intake!Process, Intake!Report
  <2>4. (Underway' \/ excuses' # {}) /\ AnswerTrue'
    BY <1>1, <2>1, <2>2, <2>3 DEF Underway, AnswerTrue
  <2>. QED  BY <1>1, <2>1, <2>4, ProcessorCovered
<1>9. CASE Intake!CrashRun
  <2>1. UNCHANGED <<source, dedup, call, queued, task>> /\ Intake!Throw
    BY <1>9 DEF Intake!CrashRun, Intake!Process
  <2>2. (Underway' \/ excuses' # {}) /\ AnswerTrue'
    BY <1>1, <2>1, ThrowCovered DEF Underway, AnswerTrue
  <2>. QED  BY <1>1, <2>1, <2>2, ProcessorCovered
<1>10. CASE Intake!Replicate
  <2>1. /\ UNCHANGED <<source, dedup, call, queued, run, told>>
        /\ task'.count = task.count /\ task.count > 0
    BY <1>1, <1>10 DEF Intake!Replicate, TaskType
  <2>2. Underway' /\ AnswerTrue'
    BY <1>1, <2>1 DEF Underway, AnswerTrue
  <2>. QED  BY <1>1, <2>1, <2>2, ProcessorCovered
<1>. QED
  BY ReceiverCovered, PutCovered, <1>2, <1>3, <1>4, <1>5, <1>6, <1>7, <1>8, <1>9, <1>10
     DEF Intake!Next, Intake!Processor, IntakeInv

LEMMA NothingLostImplied == ReportInv => Intake!NothingLostQuietly
<1>. SUFFICES ASSUME ReportInv, Intake!Settled, task.count = 0, "refused" \notin told,
                     excuses = {}
              PROVE  Intake!Undelivered
  BY DEF Intake!NothingLostQuietly
<1>1. ~Underway
  BY DEF Intake!Settled, Underway
<1>. QED  BY <1>1 DEF Intake!Settled, ReportInv, ClaimCovered

LEMMA MisreportImplied ==
  ASSUME IntakeInv, ReportInv, [Intake!Next]_(Intake!vars)
  PROVE  [Intake!OnlyLabelMisreported]_(Intake!vars)
<1>. SUFFICES ASSUME IntakeInv, ReportInv, Intake!Next, Intake!FalseRefusal,
                     source # "linear-label"
              PROVE  FALSE
  BY DEF Intake!OnlyLabelMisreported
<1>. USE DEF Intake!FalseRefusal
<1>1. CASE Intake!Receiver
  BY <1>1 DEF Intake!Receiver, Intake!Deliver, Intake!RefuseStale, Intake!Arrive,
     Intake!ClaimDelivery, Intake!InvokeProcessor, Intake!RollBackClaim,
     Intake!CrashReceiver, Intake!Receive
<1>2. CASE Intake!ConcludeReplay
  BY <1>2 DEF Intake!ConcludeReplay
<1>3. CASE Intake!ConcludeRefusal
  <2>1. run.at = "refused" /\ source # "linear-comment"
    BY <1>3 DEF Intake!ConcludeRefusal, Intake!Process
  <2>2. task.count = 0
    BY <2>1 DEF ReportInv, AnswerTrue
  <2>. QED  BY <2>2
<1>4. CASE Intake!RouteEvent \/ Intake!AckComment \/ Intake!AnnounceTask \/ Intake!HydrateAttachments
  BY <1>4 DEF Intake!RouteEvent, Intake!AckComment, Intake!AnnounceTask,
     Intake!HydrateAttachments, Intake!Process
<1>5. CASE Intake!StartRun \/ Intake!RetryRun \/ Intake!LookUpKey \/ Intake!PutTask
           \/ Intake!CrashRun \/ Intake!Replicate
  BY <1>5 DEF Intake!StartRun, Intake!RetryRun, Intake!LookUpKey, Intake!PutTask,
     Intake!CrashRun, Intake!Replicate
<1>. QED  BY <1>1, <1>2, <1>3, <1>4, <1>5 DEF Intake!Next, Intake!Processor

\* An event of which nothing came met a fault nobody can undo, or none of its
\* deliveries both came in time and succeeded; and an issue is not told that its
\* event failed when there is a task, but for a Linear label.
THEOREM IntakeTellsTheTruth == Spec => ReportsAreTrue
<1>. DEFINE I == subject = "intake" => IntakeInv /\ ReportInv
            Quiet == subject = "intake" => Intake!NothingLostQuietly
            Step == subject = "intake" => Intake!OnlyLabelMisreported
<1>1. Init => I
  BY IntakeInit, ReportInit, CrewAssumption DEF Init
<1>2. I /\ [Next]_vars => I'
  BY OnlyOne, IntakeStep, ReportStep
<1>3. I => Quiet
  BY NothingLostImplied
<1>4. I /\ [Next]_vars => [Step]_vars
  <2>. SUFFICES ASSUME I, Next, subject = "intake" PROVE [Intake!OnlyLabelMisreported]_vars
    BY DEF vars
  <2>1. OnlyIntake /\ [Intake!OnlyLabelMisreported]_(Intake!vars)
    BY MisreportImplied, OnlyOne, CrewAssumption
       DEF Next, OnlyIntake, OnlyGrant, OnlyReplies, OnlyStack, OnlyPair, OfGrants
  <2>. QED  BY <2>1 DEF OnlyIntake, vars, intakeVars, Intake!vars
<1>5. Init /\ [][Next]_vars => []Quiet /\ [][Step]_vars
  <2>. HIDE DEF I, Quiet, Step
  <2>. QED  BY <1>1, <1>2, <1>3, <1>4, PTL
<1>. QED  BY <1>5, PTL DEF Spec, ReportsAreTrue

-----------------------------------------------------------------------------
(***************************************************************************)
(* IterationReply: the requester gets the outcome, once and for good       *)
(***************************************************************************)

DeliverySteps ==
    {"running", "idle", "threw", "claim", "edit", "verify", "repair", "react", "result",
     "fold", "release", "release-for-good", "release-result"}

RowType == [claimed : BOOLEAN, attempts : Int]

DeliveryType == [at : DeliverySteps, due : BOOLEAN, retries : Int]

ReplyTyped ==
    /\ row \in RowType
    /\ delivery \in DeliveryType
    /\ writers \in [Writers -> {"idle", "read", "write"}]
    /\ results \in {0, 1}

\* The steps that only an issue on Jira takes, which has no progress writers
JiraSteps == {"result", "fold", "release-for-good", "release-result"}

OnJira ==
    /\ delivery.at \in JiraSteps => kind = "jira"
    /\ kind = "jira" => \A w \in Writers : writers[w] = "idle"

\* Between the claim and its end the claim is held; the outcome was said before it is
\* verified, and before the result is posted.
AtRest == {"running", "idle", "threw", "claim"}

ClaimHeld ==
    /\ delivery.at \notin AtRest => row.claimed
    /\ delivery.at \in {"verify", "repair", "result", "fold", "release-result"} => said

\* The outcome that was verified stands, and no writer is about to overwrite it, unless
\* one was then or could not read.
OutcomeKept ==
    said /\ delivery.at \notin {"verify", "repair"} =>
        \/ racing # {} \/ forsaken
        \/ reply = "outcome" /\ \A w \in Writers : writers[w] # "write"

\* The claim outlives the result, so that it is not posted again.
ResultClaimed == results = 1 => row.claimed /\ delivery.at \in AtRest

\* At rest, a claim that is held stands for an answer, or for a fault.
ClaimAnswered ==
    delivery.at \in AtRest /\ row.claimed =>
        \/ said \/ reaction = "outcome" \/ forsaken
        \/ kind = "jira" /\ row.attempts = MaxReplyAttempts

ReplyInv ==
    /\ ReplyTyped
    /\ OnJira
    /\ ClaimHeld
    /\ OutcomeKept
    /\ ResultClaimed
    /\ ClaimAnswered

LEMMA ReplyInit == Replies!Init => ReplyInv
  BY DEF Replies!Init, ReplyInv, ReplyTyped, RowType, DeliveryType, DeliverySteps, OnJira,
     JiraSteps, ClaimHeld, AtRest, OutcomeKept, ResultClaimed, ClaimAnswered

LEMMA ReplyImplies == ReplyInv => Replies!OneOutcome
  BY DEF ReplyInv, ReplyTyped, OutcomeKept, ClaimAnswered, AtRest, Replies!At,
     Replies!OneOutcome, Replies!OutcomeStands, Replies!ResultOnce, Replies!ClaimNotSilent

\* What a writer does leaves the delivery alone, and an outcome that stands.
LEMMA ProgressKeeps ==
  ASSUME ReplyInv, NEW w \in Writers, Replies!Progress(w)
  PROVE  ReplyInv'
<1>1. UNCHANGED <<kind, row, delivery, results, said, reaction, forsaken>>
  BY DEF Replies!Progress, Replies!CheckClaim, Replies!ReadBody, Replies!WriteProgress
<1>2. kind # "jira"
  BY DEF Replies!Progress, Replies!CheckClaim, Replies!ReadBody, Replies!WriteProgress,
     ReplyInv, OnJira
<1>3. PICK at \in {"idle", "read", "write"} : writers' = [writers EXCEPT ![w] = at]
  BY DEF Replies!Progress, Replies!CheckClaim, Replies!ReadBody, Replies!WriteProgress,
     Replies!WriterAt
<1>4. /\ writers' \in [Writers -> {"idle", "read", "write"}] /\ writers'[w] = at
      /\ \A v \in Writers : v # w => writers'[v] = writers[v]
  BY <1>3 DEF ReplyInv, ReplyTyped
<1>5. OutcomeKept'
  <2>1. CASE Replies!CheckClaim(w)
    <3>1. UNCHANGED <<reply, racing>> /\ writers'[w] = "read"
      BY <2>1, <1>4 DEF Replies!CheckClaim, Replies!WriterAt, ReplyInv, ReplyTyped
    <3>. QED  BY <1>1, <1>4, <3>1 DEF ReplyInv, OutcomeKept
  <2>2. CASE Replies!ReadBody(w)
    <3>1. /\ reply' = reply
          /\ \/ racing' = racing /\ (writers'[w] = "idle" \/ reply # "outcome")
             \/ racing' = racing \cup {w}
      BY <2>2, <1>4 DEF Replies!ReadBody, Replies!WriterAt, ReplyInv, ReplyTyped
    <3>. QED  BY <1>1, <1>4, <3>1 DEF ReplyInv, OutcomeKept
  <2>3. CASE Replies!WriteProgress(w)
    <3>1. racing' = racing /\ writers[w] = "write"
      BY <2>3 DEF Replies!WriteProgress
    <3>. QED  BY <1>1, <1>4, <3>1 DEF ReplyInv, OutcomeKept
  <2>. QED  BY <2>1, <2>2, <2>3 DEF Replies!Progress
<1>. QED
  BY <1>1, <1>2, <1>4, <1>5
     DEF ReplyInv, ReplyTyped, OnJira, ClaimHeld, ResultClaimed, ClaimAnswered

LEMMA GoToDelivery ==
  ASSUME delivery \in DeliveryType, NEW s \in DeliverySteps, Replies!GoTo(s)
  PROVE  delivery' \in DeliveryType /\ delivery'.at = s
  BY DEF Replies!GoTo, DeliveryType

LEMMA WokenDelivery ==
  ASSUME delivery \in DeliveryType, NEW s \in DeliverySteps, Replies!Woken(s)
  PROVE  delivery' \in DeliveryType /\ delivery'.at = s
  BY DEF Replies!Woken, DeliveryType

\* A step of the delivery that leaves what was said alone
LEMMA DeliveryKeeps ==
  ASSUME ReplyInv, UNCHANGED <<kind, writers, results, said>>,
         row' \in RowType, delivery' \in DeliveryType,
         forsaken => forsaken', reply' \in {reply, "outcome"},
         delivery'.at \in JiraSteps => kind = "jira",
         delivery'.at \notin AtRest => row'.claimed,
         delivery'.at \in {"verify", "repair", "result", "fold", "release-result"} => said,
         said /\ delivery'.at \notin {"verify", "repair"} =>
            \/ forsaken' \/ racing' # {}
            \/ reply' = "outcome" /\ \A w \in Writers : writers[w] # "write"
            \/ delivery.at \notin {"verify", "repair"} /\ racing' = racing,
         results = 1 => row'.claimed /\ delivery'.at \in AtRest,
         delivery'.at \in AtRest /\ row'.claimed =>
            \/ said \/ reaction' = "outcome" \/ forsaken'
            \/ kind = "jira" /\ row'.attempts = MaxReplyAttempts
  PROVE  ReplyInv'
<1>1. OutcomeKept'
  BY DEF ReplyInv, OutcomeKept
<1>. QED
  BY <1>1 DEF ReplyInv, ReplyTyped, OnJira, ClaimHeld, ResultClaimed, ClaimAnswered

\* Records come, come again or are given up; a delivery dies.
LEMMA ScheduleKeeps ==
  ASSUME ReplyInv,
         Replies!TaskEnds \/ Replies!Deliver \/ Replies!Redeliver \/ Replies!Crash
  PROVE  ReplyInv'
<1>. USE DEF Replies!At, Replies!GoTo
<1>1. /\ UNCHANGED <<kind, row, reply, reaction, results, writers, said, racing>>
      /\ forsaken => forsaken'
  BY DEF Replies!TaskEnds, Replies!Deliver, Replies!Redeliver, Replies!Crash
<1>2. delivery \in DeliveryType
  BY DEF ReplyInv, ReplyTyped
<1>3. delivery' \in DeliveryType /\ delivery'.at \in {"idle", "claim", "threw"}
  <2>1. CASE Replies!Redeliver
    <3>1. delivery.retries + 1 \in Int
      BY <1>2 DEF DeliveryType
    <3>2. delivery' = [at |-> "idle", due |-> TRUE, retries |-> delivery.retries + 1]
      BY <2>1 DEF Replies!Redeliver
    <3>. QED  BY <3>1, <3>2 DEF DeliveryType, DeliverySteps
  <2>. QED
    BY <1>2, <2>1 DEF Replies!TaskEnds, Replies!Deliver, Replies!Crash, DeliveryType, DeliverySteps
<1>4. delivery.at \in AtRest \/ forsaken'
  BY DEF Replies!TaskEnds, Replies!Deliver, Replies!Redeliver, Replies!Crash, AtRest
<1>5. row' \in RowType /\ delivery'.at \in AtRest /\ delivery'.at \notin JiraSteps
  BY <1>1, <1>3 DEF ReplyInv, ReplyTyped, AtRest, JiraSteps
<1>6. delivery.at \in AtRest => delivery.at \notin {"verify", "repair"}
  BY DEF AtRest
<1>7. results = 1 => row'.claimed
  BY <1>1 DEF ReplyInv, ResultClaimed
<1>8. row'.claimed =>
        \/ said \/ reaction' = "outcome" \/ forsaken'
        \/ kind = "jira" /\ row'.attempts = MaxReplyAttempts
  BY <1>1, <1>4 DEF ReplyInv, ClaimAnswered
<1>. HIDE DEF Replies!At, Replies!GoTo
<1>. QED
  BY <1>1, <1>3, <1>4, <1>5, <1>6, <1>7, <1>8, DeliveryKeeps DEF AtRest

\* The claim is taken, is held already, or nobody knows.
LEMMA ClaimKeeps ==
  ASSUME ReplyInv, Replies!ClaimTerminalReply
  PROVE  ReplyInv'
<1>1. /\ UNCHANGED <<kind, writers, results, said, reply, reaction, racing>>
      /\ delivery.at = "claim" /\ delivery \in DeliveryType /\ row \in RowType
  BY DEF Replies!ClaimTerminalReply, Replies!At, ReplyInv, ReplyTyped
<1>2. "edit" \in DeliverySteps /\ "idle" \in DeliverySteps
  BY DEF DeliverySteps
<1>3. CASE ~row.claimed /\ row' = [row EXCEPT !.claimed = TRUE] /\ Replies!Woken("edit")
           /\ forsaken' = forsaken
  <2>1. delivery' \in DeliveryType /\ delivery'.at = "edit"
    BY <1>1, <1>2, <1>3, WokenDelivery
  <2>2. row' \in RowType /\ row'.claimed
    BY <1>1, <1>3 DEF RowType
  <2>3. results # 1
    BY <1>3 DEF ReplyInv, ResultClaimed
  <2>. QED  BY <1>1, <1>3, <2>1, <2>2, <2>3, DeliveryKeeps DEF JiraSteps, AtRest
<1>4. CASE row.claimed /\ Replies!GoTo("idle") /\ UNCHANGED <<row, forsaken>>
  <2>1. delivery' \in DeliveryType /\ delivery'.at = "idle"
    BY <1>1, <1>2, <1>4, GoToDelivery
  <2>2. \/ said \/ reaction = "outcome" \/ forsaken
        \/ kind = "jira" /\ row.attempts = MaxReplyAttempts
    BY <1>1, <1>4 DEF ReplyInv, ClaimAnswered, AtRest
  <2>. QED  BY <1>1, <1>4, <2>1, <2>2, DeliveryKeeps DEF JiraSteps, AtRest
<1>5. CASE row' \in {row, [row EXCEPT !.claimed = TRUE]} /\ Replies!GoTo("idle") /\ forsaken'
  <2>1. delivery' \in DeliveryType /\ delivery'.at = "idle"
    BY <1>1, <1>2, <1>5, GoToDelivery
  <2>2. row' \in RowType /\ (row.claimed => row'.claimed)
    BY <1>1, <1>5 DEF RowType
  <2>3. results = 1 => row.claimed
    BY DEF ReplyInv, ResultClaimed
  <2>. QED  BY <1>1, <1>5, <2>1, <2>2, <2>3, DeliveryKeeps DEF JiraSteps, AtRest
<1>. QED  BY <1>3, <1>4, <1>5 DEF Replies!ClaimTerminalReply

\* A step that says the outcome
LEMMA SayingKeeps ==
  ASSUME ReplyInv, UNCHANGED <<kind, row, writers, results, racing, reaction>>,
         forsaken => forsaken', said', reply' = "outcome", delivery' \in DeliveryType,
         delivery.at \notin AtRest, delivery'.at = "verify" \/ kind = "jira"
  PROVE  ReplyInv'
<1>1. row.claimed /\ results # 1
  BY DEF ReplyInv, ClaimHeld, ResultClaimed
<1>2. OutcomeKept'
  BY DEF ReplyInv, OnJira, OutcomeKept
<1>3. OnJira'
  BY DEF ReplyInv, OnJira, JiraSteps
<1>. QED
  BY <1>1, <1>2, <1>3 DEF ReplyInv, ReplyTyped, ClaimHeld, ResultClaimed, ClaimAnswered

LEMMA StepNames ==
  \A s \in {"idle", "threw", "edit", "verify", "repair", "react", "result", "fold",
            "release", "release-for-good", "release-result"} : s \in DeliverySteps
  BY DEF DeliverySteps

\* What is known of a delivery at work
LEMMA AtWork ==
  ASSUME ReplyInv, delivery.at \notin AtRest
  PROVE  /\ row.claimed /\ results # 1 /\ results = 0
         /\ row \in RowType /\ delivery \in DeliveryType
         /\ delivery.at \in JiraSteps => kind = "jira"
         /\ delivery.at \in {"verify", "repair", "result", "fold", "release-result"} => said
  BY DEF ReplyInv, ReplyTyped, ClaimHeld, ResultClaimed, OnJira

LEMMA EditKeeps ==
  ASSUME ReplyInv, Replies!EditReply
  PROVE  ReplyInv'
<1>1. /\ UNCHANGED <<kind, row, reaction, results, writers, racing, forsaken>>
      /\ delivery.at = "edit" /\ delivery.at \notin AtRest
  BY DEF Replies!EditReply, Replies!At, AtRest
<1>2. CASE reply' = "outcome" /\ said'
           /\ Replies!GoTo(IF kind = "jira" THEN "result" ELSE "verify")
  <2>1. delivery' \in DeliveryType /\ (delivery'.at = "verify" \/ kind = "jira")
    BY <1>1, <1>2, AtWork, StepNames, GoToDelivery
  <2>. QED  BY <1>1, <1>2, <2>1, SayingKeeps
<1>3. CASE reply' \in {reply, "outcome"} /\ said' = said
           /\ Replies!GoTo(IF delivery'.at = "release-for-good" THEN "release-for-good" ELSE "release")
           /\ (delivery'.at = "release-for-good" => kind = "jira")
  <2>1. delivery' \in DeliveryType /\ delivery'.at \in {"release", "release-for-good"}
    BY <1>1, <1>3, AtWork, StepNames, GoToDelivery
  <2>. QED  BY <1>1, <1>3, <2>1, AtWork, DeliveryKeeps DEF JiraSteps, AtRest
<1>4. \/ /\ reply' = "outcome" /\ said'
         /\ Replies!GoTo(IF kind = "jira" THEN "result" ELSE "verify")
      \/ /\ reply' \in {reply, "outcome"} /\ said' = said
         /\ \/ Replies!GoTo("release")
            \/ kind = "jira" /\ Replies!GoTo("release-for-good")
  BY DEF Replies!EditReply
<1>. QED  BY <1>1, <1>2, <1>3, <1>4, AtWork, StepNames, GoToDelivery

LEMMA VerifyKeeps ==
  ASSUME ReplyInv, Replies!VerifyOutcome \/ Replies!RepairOutcome
  PROVE  ReplyInv'
<1>1. /\ UNCHANGED <<kind, row, reaction, results, writers, said>>
      /\ delivery.at \in {"verify", "repair"} /\ delivery.at \notin AtRest
      /\ racing' = {w \in Writers : writers[w] = "write"}
  BY DEF Replies!VerifyOutcome, Replies!RepairOutcome, Replies!At, AtRest
<1>2. /\ reply' \in {reply, "outcome"} /\ (forsaken => forsaken')
      /\ \/ Replies!GoTo("repair")
         \/ Replies!GoTo("react") /\ (forsaken' \/ reply' = "outcome")
  BY DEF Replies!VerifyOutcome, Replies!RepairOutcome
<1>3. /\ delivery' \in DeliveryType
      /\ \/ delivery'.at = "repair"
         \/ delivery'.at = "react" /\ (forsaken' \/ reply' = "outcome")
  BY <1>1, <1>2, AtWork, StepNames, GoToDelivery
<1>4. racing' # {} \/ \A w \in Writers : writers[w] # "write"
  BY <1>1
<1>. QED  BY <1>1, <1>2, <1>3, <1>4, AtWork, DeliveryKeeps DEF JiraSteps, AtRest

LEMMA ReactionKeeps ==
  ASSUME ReplyInv, Replies!SwapReaction
  PROVE  ReplyInv'
<1>1. /\ UNCHANGED <<kind, row, reply, results, writers, said, racing>>
      /\ delivery.at = "react" /\ delivery.at \notin AtRest
      /\ Replies!GoTo("idle") /\ (reaction' = "outcome" \/ forsaken') /\ (forsaken => forsaken')
  BY DEF Replies!SwapReaction, Replies!At, AtRest
<1>2. delivery' \in DeliveryType /\ delivery'.at = "idle"
  BY <1>1, AtWork, StepNames, GoToDelivery
<1>. QED  BY <1>1, <1>2, AtWork, DeliveryKeeps DEF JiraSteps, AtRest

LEMMA ResultKeeps ==
  ASSUME ReplyInv, Replies!PostResult
  PROVE  ReplyInv'
<1>1. /\ UNCHANGED <<kind, row, reply, reaction, writers, said, racing, forsaken>>
      /\ delivery.at = "result" /\ delivery.at \notin AtRest
      /\ \/ results' = results + 1 /\ Replies!GoTo("idle")
         \/ results' = results /\ (Replies!GoTo("release-result") \/ Replies!GoTo("fold"))
  BY DEF Replies!PostResult, Replies!At, AtRest
<1>2. row.claimed /\ results = 0 /\ kind = "jira" /\ said
  BY <1>1, AtWork DEF JiraSteps
<1>3. /\ delivery' \in DeliveryType
      /\ \/ results' = 1 /\ delivery'.at = "idle"
         \/ results' = results /\ delivery'.at \in {"release-result", "fold"}
  BY <1>1, <1>2, AtWork, StepNames, GoToDelivery
<1>4. OutcomeKept'
  BY <1>1, <1>3 DEF ReplyInv, OutcomeKept
<1>. QED
  BY <1>1, <1>2, <1>3, <1>4
     DEF ReplyInv, ReplyTyped, OnJira, JiraSteps, ClaimHeld, AtRest, ResultClaimed,
         ClaimAnswered

LEMMA FoldKeeps ==
  ASSUME ReplyInv, Replies!FoldResult
  PROVE  ReplyInv'
<1>1. /\ UNCHANGED <<kind, row, reaction, results, writers, racing>>
      /\ delivery.at = "fold" /\ delivery.at \notin AtRest /\ Replies!GoTo("idle")
      /\ \/ reply' = "outcome" /\ said' = TRUE /\ forsaken' = forsaken
         \/ forsaken' = TRUE /\ UNCHANGED <<reply, said>>
  BY DEF Replies!FoldResult, Replies!At, AtRest
<1>2. kind = "jira" /\ said
  BY <1>1, AtWork DEF JiraSteps
<1>3. delivery' \in DeliveryType /\ delivery'.at = "idle"
  BY <1>1, AtWork, StepNames, GoToDelivery
<1>4. CASE reply' = "outcome" /\ said' = TRUE /\ forsaken' = forsaken
  BY <1>1, <1>2, <1>3, <1>4, SayingKeeps
<1>5. CASE forsaken' = TRUE /\ UNCHANGED <<reply, said>>
  BY <1>1, <1>3, <1>5, AtWork, DeliveryKeeps DEF JiraSteps, AtRest
<1>. QED  BY <1>1, <1>4, <1>5

\* A claim is handed back, or kept for good with an answer.
LEMMA ReleaseKeeps ==
  ASSUME ReplyInv, Replies!ReleaseReplyClaim
  PROVE  ReplyInv'
<1>1. /\ UNCHANGED <<kind, reply, reaction, results, writers, said, racing>>
      /\ delivery.at \in {"release", "release-for-good", "release-result"}
      /\ delivery.at \notin AtRest
  BY DEF Replies!ReleaseReplyClaim, Replies!Releasing, AtRest
<1>2. CASE row' = [claimed |-> FALSE, attempts |-> row.attempts + 1] /\ Replies!Released
           /\ forsaken' = forsaken
  <2>1. delivery' \in DeliveryType /\ delivery'.at \in {"idle", "threw"}
    BY <1>1, <1>2, AtWork, StepNames, GoToDelivery, WokenDelivery DEF Replies!Released
  <2>2. row.attempts + 1 \in Int
    BY <1>1, AtWork DEF RowType
  <2>3. row' \in RowType /\ ~row'.claimed
    BY <1>2, <2>2 DEF RowType
  <2>. QED  BY <1>1, <1>2, <2>1, <2>3, AtWork, DeliveryKeeps DEF JiraSteps, AtRest
<1>3. CASE /\ row' = row /\ Replies!Exhausted /\ (forsaken => forsaken')
           /\ row.attempts = MaxReplyAttempts \/ forsaken' \/ kind # "jira"
  <2>1. \/ kind # "jira" /\ delivery.at = "release" /\ Replies!GoTo("react")
        \/ kind = "jira" /\ delivery.at = "release-result" /\ Replies!GoTo("fold")
        \/ kind = "jira" /\ delivery.at # "release-result" /\ Replies!GoTo("idle")
    <3>1. delivery.at # "release" => kind = "jira"
      BY <1>1, AtWork DEF JiraSteps
    <3>. QED  BY <1>1, <1>3, <3>1 DEF Replies!Exhausted, Replies!At
  <2>2. /\ delivery' \in DeliveryType
        /\ \/ delivery'.at = "react"
           \/ delivery'.at = "fold" /\ kind = "jira" /\ delivery.at = "release-result"
           \/ delivery'.at = "idle" /\ kind = "jira"
    BY <1>1, <2>1, AtWork, StepNames, GoToDelivery
  <2>. QED  BY <1>1, <1>3, <2>2, AtWork, DeliveryKeeps DEF JiraSteps, AtRest
<1>4. CASE row' = row /\ Replies!Exhausted /\ forsaken' = (forsaken \/ kind = "jira")
  <2>1. (forsaken => forsaken') /\ (forsaken' \/ kind # "jira")
    BY <1>4
  <2>. QED  BY <1>3, <1>4, <2>1
<1>5. CASE /\ row.attempts = MaxReplyAttempts /\ row' = row /\ Replies!Exhausted
           /\ forsaken' = forsaken
  BY <1>3, <1>5
<1>. QED  BY <1>2, <1>4, <1>5 DEF Replies!ReleaseReplyClaim

LEMMA ReplyStep == ReplyInv /\ [Replies!Next]_(Replies!vars) => ReplyInv'
<1>. SUFFICES ASSUME ReplyInv, [Replies!Next]_(Replies!vars) PROVE ReplyInv'
  OBVIOUS
<1>1. CASE UNCHANGED Replies!vars
  BY <1>1 DEF Replies!vars, ReplyInv, ReplyTyped, OnJira, ClaimHeld, OutcomeKept,
     ResultClaimed, ClaimAnswered
<1>2. CASE \E w \in Writers : Replies!Progress(w)
  <2>1. PICK w \in Writers : Replies!Progress(w)
    BY <1>2
  <2>. QED  BY <2>1, ProgressKeeps
<1>3. CASE Replies!Delivery \/ Replies!TaskEnds \/ Replies!Redeliver \/ Replies!Crash
  BY <1>3, ScheduleKeeps, ClaimKeeps, EditKeeps, VerifyKeeps, ReactionKeeps, ResultKeeps,
     FoldKeeps, ReleaseKeeps DEF Replies!Delivery
<1>. QED  BY <1>1, <1>2, <1>3 DEF Replies!Next

\* However many writers of progress race the deliveries of the outcome, and however
\* often these come, fail or die: the outcome that was verified is overwritten only by
\* a writer that had read before, Jira gets one result, and no claim is held in
\* silence.
THEOREM OneOutcomeOfARequest == Spec => []OneOutcome
<1>. DEFINE I == subject = "reply" => ReplyInv
<1>1. Init => I
  BY ReplyInit, CrewAssumption DEF Init
<1>2. I /\ [Next]_vars => I'
  BY OnlyOne, ReplyStep
<1>3. I => OneOutcome
  BY ReplyImplies DEF OneOutcome
<1>. HIDE DEF I
<1>. QED  BY <1>1, <1>2, <1>3, PTL DEF Spec

-----------------------------------------------------------------------------
(***************************************************************************)
(* LinearGrant: a workspace that is recorded dead is dead, and somebody    *)
(* was told; what was removed stays removed                                *)
(***************************************************************************)

Resolvers == Processors \cup Agents

Token == [inst : Nat, gen : Nat]

JobSteps ==
    {"idle", "vault", "clear", "read", "refresh", "refresh-again", "put", "reread",
     "claim", "announce", "latch", "release"}

JobType == [at : JobSteps, inst : Nat, latched : BOOLEAN, token : Token,
            verdict : {"none", "consent", "rejected"}]

GrantTyped ==
    /\ grant \in [inst : Nat, gen : Nat, alive : BOOLEAN]
    /\ secret \in SUBSET Token
    /\ registry \in [status : {"active", "revoked", "absent"},
                     reason : {"none", "consent", "rejected", "admin"},
                     inst : Nat, claimed : BOOLEAN]
    /\ job \in [Resolvers -> JobType]

\* Nobody knows of an installation, or of a token, that is newer than Linear's; there
\* is one stored token; the row is behind while a setup is under way.
Bounded ==
    /\ \A t \in secret : t.inst <= grant.inst /\ t.gen <= grant.gen
    /\ \A s, t \in secret : s = t
    /\ registry.inst <= grant.inst
    /\ setup # "idle" => registry.inst < grant.inst

JobBounded(r) ==
    /\ job[r].inst <= grant.inst
    /\ job[r].token.inst <= grant.inst /\ job[r].token.gen <= grant.gen

\* A removal and a setup do not meet, and what is removed is gone.
Removed ==
    /\ removal # "idle" => setup = "idle"
    /\ removal \in {"deleted", "purged"} => secret = {}
    /\ registry.status = "absent" => removal # "idle"

\* A verdict is a processor's; a resolver whose token was refused while the grant of
\* that installation is alive holds an old token, and its verdict is explained.
Judging(r) == job[r].at \in {"claim", "announce", "latch"}

JobExplained(r) ==
    /\ Judging(r) => r \in Processors
    /\ job[r].at = "reread" /\ job[r].token.inst = grant.inst /\ grant.alive =>
         job[r].token.gen # grant.gen
    /\ Judging(r) /\ job[r].verdict = "rejected" /\ job[r].inst = grant.inst /\ grant.alive =>
         job[r].inst \in unsaved

\* The death of an installation was published, or somebody is about to.
Covered(i) ==
    i \in published \/ \E r \in Processors : job[r].at = "announce" /\ job[r].inst = i

LatchCovered(r) ==
    job[r].at = "latch" =>
        job[r].inst < registry.inst \/ registry.status = "absent" \/ Covered(job[r].inst)

RowCovered ==
    /\ registry.claimed => Covered(registry.inst)
    /\ registry.status = "revoked" /\ registry.reason \in {"rejected", "consent"} =>
         Covered(registry.inst)

GrantInv ==
    /\ GrantTyped
    /\ Bounded
    /\ Removed
    /\ Grant!NoFalseVerdict
    /\ RowCovered
    /\ \A r \in Resolvers : JobBounded(r) /\ JobExplained(r) /\ LatchCovered(r)

LEMMA GrantInit == Grant!Init => GrantInv
<1>. SUFFICES ASSUME Grant!Init PROVE GrantInv
  OBVIOUS
<1>1. /\ grant = [inst |-> 1, gen |-> 1, alive |-> TRUE]
      /\ secret \in SUBSET {[inst |-> 1, gen |-> 1]}
      /\ registry = [status |-> "active", reason |-> "none", inst |-> 1, claimed |-> FALSE]
      /\ job = [r \in Resolvers |-> Grant!Idle]
      /\ setup = "idle" /\ removal = "idle"
  BY DEF Grant!Init, Grant!Resolvers, Resolvers
<1>2. Grant!Idle \in JobType /\ Grant!Idle.at = "idle" /\ Grant!Idle.inst = 0
      /\ Grant!Idle.token.inst = 0 /\ Grant!Idle.token.gen = 0
  BY DEF Grant!Idle, Grant!NoToken, JobType, JobSteps, Token
<1>3. GrantTyped
  BY <1>1, <1>2 DEF GrantTyped, Token
<1>4. Bounded /\ Removed /\ Grant!NoFalseVerdict /\ RowCovered
  BY <1>1 DEF Bounded, Removed, Grant!NoFalseVerdict, RowCovered
<1>5. \A r \in Resolvers : JobBounded(r) /\ JobExplained(r) /\ LatchCovered(r)
  BY <1>1, <1>2 DEF JobBounded, JobExplained, Judging, LatchCovered
<1>. QED  BY <1>3, <1>4, <1>5 DEF GrantInv

LEMMA GrantImplies == GrantInv => Grant!LatchesExplained /\ Grant!RemovalLeavesNoSecret
  BY DEF GrantInv, RowCovered, Covered, Removed, Grant!LatchesExplained,
     Grant!LatchedIsPublished, Grant!RemovalLeavesNoSecret, Grant!At

\* One resolver has moved: where it is now, and what it knows.
NewJob(r, at, inst, token, verdict) ==
    /\ job' \in [Resolvers -> JobType]
    /\ \A q \in Resolvers : q # r => job'[q] = job[q]
    /\ job'[r].at = at /\ job'[r].inst = inst
    /\ job'[r].token = token /\ job'[r].verdict = verdict

LEMMA JobFields ==
  ASSUME GrantTyped, NEW r \in Resolvers
  PROVE  /\ job[r] \in JobType /\ job[r].inst \in Nat /\ job[r].token \in Token
         /\ job[r].token.inst \in Nat /\ job[r].token.gen \in Nat
         /\ grant.inst \in Nat /\ grant.gen \in Nat
         /\ registry.inst \in Nat
  BY DEF GrantTyped, JobType, Token

LEMMA GoToJob ==
  ASSUME GrantTyped, NEW r \in Resolvers, NEW s \in JobSteps, Grant!GoTo(r, s)
  PROVE  NewJob(r, s, job[r].inst, job[r].token, job[r].verdict)
<1>1. job' = [job EXCEPT ![r].at = s]
  BY DEF Grant!GoTo
<1>2. job[r] \in JobType /\ [job[r] EXCEPT !.at = s] \in JobType
  BY DEF GrantTyped, JobType
<1>3. job' \in [Resolvers -> JobType] /\ job'[r] = [job[r] EXCEPT !.at = s]
  BY <1>1, <1>2 DEF GrantTyped
<1>4. \A q \in Resolvers : q # r => job'[q] = job[q]
  BY <1>1 DEF GrantTyped
<1>. QED  BY <1>2, <1>3, <1>4 DEF NewJob, JobType

LEMMA IdleJob ==
  /\ Grant!Idle \in JobType /\ Grant!Idle.at = "idle" /\ Grant!Idle.inst = 0
  /\ Grant!Idle.token = Grant!NoToken /\ Grant!Idle.verdict = "none"
  /\ Grant!NoToken.inst = 0 /\ Grant!NoToken.gen = 0
  BY DEF Grant!Idle, Grant!NoToken, JobType, JobSteps, Token

\* A resolver is given a job that is put together anew.
LEMMA WholeJob ==
  ASSUME GrantTyped, NEW r \in Resolvers, NEW j \in JobType, job' = [job EXCEPT ![r] = j]
  PROVE  NewJob(r, j.at, j.inst, j.token, j.verdict)
  BY DEF GrantTyped, NewJob

LEMMA DoneJob ==
  ASSUME GrantTyped, NEW r \in Resolvers, Grant!Done(r)
  PROVE  NewJob(r, "idle", 0, Grant!NoToken, "none")
  BY IdleJob, WholeJob DEF Grant!Done

LEMMA VerdictJob ==
  ASSUME GrantTyped, NEW r \in Resolvers, NEW i \in Nat, NEW v \in {"consent", "rejected"},
         Grant!Verdict(r, i, v)
  PROVE  \/ r \in Processors /\ NewJob(r, "claim", i, Grant!NoToken, v)
         \/ NewJob(r, "idle", 0, Grant!NoToken, "none")
<1>. DEFINE j == [Grant!Idle EXCEPT !.at = "claim", !.inst = i, !.verdict = v]
<1>1. /\ j \in JobType /\ j.at = "claim" /\ j.inst = i /\ j.token = Grant!NoToken
      /\ j.verdict = v
  BY DEF Grant!Idle, Grant!NoToken, JobType, JobSteps, Token
<1>. HIDE DEF j
<1>2. CASE r \in Processors
  <2>1. job' = [job EXCEPT ![r] = j]
    BY <1>2 DEF Grant!Verdict, j
  <2>. QED  BY <1>1, <1>2, <2>1, WholeJob
<1>. QED  BY <1>2, DoneJob DEF Grant!Verdict

LEMMA UseOrRefreshJob ==
  ASSUME GrantTyped, NEW r \in Resolvers, NEW t \in Token,
         NEW s \in {"refresh", "refresh-again"}, Grant!UseOrRefresh(r, t, s)
  PROVE  \/ NewJob(r, s, 0, t, "none")
         \/ NewJob(r, "idle", 0, Grant!NoToken, "none")
<1>. DEFINE j == [Grant!Idle EXCEPT !.at = s, !.token = t]
<1>1. j \in JobType /\ j.at = s /\ j.inst = 0 /\ j.token = t /\ j.verdict = "none"
  BY DEF Grant!Idle, Grant!NoToken, JobType, JobSteps
<1>. HIDE DEF j
<1>2. CASE job' = [job EXCEPT ![r] = j]
  BY <1>1, <1>2, WholeJob
<1>. QED  BY <1>2, DoneJob DEF Grant!UseOrRefresh, j

CoveredNext(i) ==
    i \in published' \/ \E r \in Processors : job'[r].at = "announce" /\ job'[r].inst = i

\* The death of an installation stays published or about to be while one resolver
\* moves, unless it leaves without publishing.
LEMMA StillCovered ==
  ASSUME NEW r, NEW i, Covered(i), published \subseteq published',
         \A q \in Resolvers : q # r => job'[q] = job[q],
         job[r].at = "announce" /\ job[r].inst = i => i \in published'
  PROVE  CoveredNext(i)
  BY DEF Covered, CoveredNext, Resolvers

\* What may be said of a resolver that has moved, for the invariant to hold
Entitled(r, at, inst, token, verdict) ==
    /\ inst <= grant.inst /\ token.inst <= grant.inst /\ token.gen <= grant'.gen
    /\ at \in {"claim", "announce", "latch"} => r \in Processors
    /\ at = "reread" /\ token.inst = grant.inst /\ grant.alive => token.gen # grant'.gen
    /\ at \in {"claim", "announce", "latch"} /\ verdict = "rejected"
         /\ inst = grant.inst /\ grant.alive => inst \in unsaved'
    /\ at = "latch" =>
         inst < registry.inst \/ registry.status = "absent" \/ CoveredNext(inst)

\* Somebody who leaves the announcement has published, or was late.
Published(r) ==
    job[r].at = "announce" => job[r].inst \in published' \/ job[r].inst < registry.inst

LEMMA JobKeeps ==
  ASSUME GrantInv, NEW r \in Resolvers, NEW at, NEW inst, NEW token, NEW verdict,
         NewJob(r, at, inst, token, verdict), token \in Token, inst \in Nat,
         Entitled(r, at, inst, token, verdict), Published(r),
         GrantTyped', Bounded', Removed',
         grant'.inst = grant.inst, grant'.alive = grant.alive, grant.gen <= grant'.gen,
         registry'.inst = registry.inst,
         registry.status = "absent" => registry'.status = "absent",
         unsaved \subseteq unsaved', published \subseteq published',
         registry'.claimed => registry.claimed \/ CoveredNext(registry.inst),
         registry'.status = "revoked" /\ registry'.reason \in {"rejected", "consent"} =>
            \/ registry'.status = registry.status /\ registry'.reason = registry.reason
            \/ CoveredNext(registry.inst),
         Grant!NoFalseVerdict'
  PROVE  GrantInv'
<1>1. ASSUME NEW i, Covered(i), ~(i < registry.inst) PROVE CoveredNext(i)
  BY <1>1, StillCovered DEF Published, NewJob
<1>2. ~(registry.inst < registry.inst)
  BY JobFields DEF GrantInv
<1>3. RowCovered'
  <2>1. registry'.claimed => CoveredNext(registry.inst)
    BY <1>1, <1>2 DEF GrantInv, RowCovered
  <2>2. registry'.status = "revoked" /\ registry'.reason \in {"rejected", "consent"} =>
          CoveredNext(registry.inst)
    BY <1>1, <1>2 DEF GrantInv, RowCovered
  <2>. QED  BY <2>1, <2>2 DEF RowCovered, Covered, CoveredNext
<1>4. ASSUME NEW q \in Resolvers
      PROVE  (JobBounded(q) /\ JobExplained(q) /\ LatchCovered(q))'
  <2>1. CASE q = r
    <3>1. JobBounded(q)'
      BY <2>1 DEF NewJob, Entitled, JobBounded
    <3>2. JobExplained(q)'
      BY <2>1 DEF NewJob, Entitled, JobExplained, Judging
    <3>3. LatchCovered(q)'
      <4>. SUFFICES ASSUME job'[r].at = "latch"
                    PROVE  \/ job'[r].inst < registry'.inst \/ registry'.status = "absent"
                           \/ CoveredNext(job'[r].inst)
        BY <2>1 DEF LatchCovered, Covered, CoveredNext
      <4>1. at = "latch" /\ job'[r].inst = inst
        BY DEF NewJob
      <4>. QED  BY <4>1 DEF Entitled
    <3>. QED  BY <3>1, <3>2, <3>3
  <2>2. CASE q # r
    <3>1. job'[q] = job[q]
      BY <2>2 DEF NewJob
    <3>2. /\ JobBounded(q) /\ JobExplained(q) /\ LatchCovered(q)
          /\ job[q].token.gen \in Nat /\ job[q].inst \in Nat
          /\ grant.gen \in Nat /\ grant'.gen \in Nat
      BY JobFields DEF GrantInv, GrantTyped
    <3>3. JobBounded(q)'
      BY <3>1, <3>2 DEF JobBounded
    <3>4. JobExplained(q)'
      <4>1. grant.gen <= grant'.gen /\ job[q].token.gen <= grant.gen =>
              (job[q].token.gen # grant.gen => job[q].token.gen # grant'.gen)
        BY <3>2
      <4>. QED  BY <3>1, <3>2, <4>1 DEF JobBounded, JobExplained, Judging
    <3>5. LatchCovered(q)'
      <4>. SUFFICES ASSUME job[q].at = "latch"
                    PROVE  \/ job[q].inst < registry'.inst \/ registry'.status = "absent"
                           \/ CoveredNext(job[q].inst)
        BY <3>1 DEF LatchCovered, Covered, CoveredNext
      <4>. QED  BY <1>1, <3>2 DEF LatchCovered
    <3>. QED  BY <3>3, <3>4, <3>5
  <2>. QED  BY <2>1, <2>2
<1>. QED  BY <1>3, <1>4 DEF GrantInv

\* A step of a resolver that changes nothing but what it knows
LEMMA OnlyJobKeeps ==
  ASSUME GrantInv, NEW r \in Resolvers, NEW at, NEW inst, NEW token, NEW verdict,
         NewJob(r, at, inst, token, verdict), token \in Token, inst \in Nat,
         Entitled(r, at, inst, token, verdict), Published(r),
         UNCHANGED <<grant, secret, registry, setup, removal, unsaved, published>>
  PROVE  GrantInv'
<1>1. GrantTyped' /\ Bounded' /\ Removed' /\ Grant!NoFalseVerdict'
  BY DEF GrantInv, GrantTyped, Bounded, Removed, Grant!NoFalseVerdict, NewJob
<1>2. grant.gen <= grant'.gen
  BY JobFields DEF GrantInv
<1>. QED  BY <1>1, <1>2, JobKeeps

LEMMA IdleEntitled ==
  ASSUME GrantTyped, grant'.gen \in Nat, NEW r
  PROVE  /\ Entitled(r, "idle", 0, Grant!NoToken, "none")
         /\ Grant!NoToken \in Token /\ 0 \in Nat
<1>1. grant.inst \in Nat
  BY DEF GrantTyped
<1>2. Grant!NoToken \in Token
  BY DEF Grant!NoToken, Token
<1>. QED  BY <1>1, <1>2, IdleJob DEF Entitled

\* What is known of a resolver
LEMMA KnownJob ==
  ASSUME GrantInv, NEW r \in Resolvers
  PROVE  /\ GrantTyped /\ job[r].inst \in Nat /\ job[r].token \in Token
         /\ job[r].inst <= grant.inst /\ job[r].token.inst <= grant.inst
         /\ job[r].token.gen <= grant.gen
         /\ registry.inst \in Nat /\ registry.inst <= grant.inst
  BY JobFields DEF GrantInv, JobBounded, Bounded

\* A resolver goes on to a step at which it says nothing about the grant.
LEMMA QuietKeeps ==
  ASSUME GrantInv, NEW r \in Resolvers,
         NEW s \in {"idle", "vault", "clear", "read", "refresh", "refresh-again", "put", "release"},
         NEW i \in Nat, i <= grant.inst, NEW v,
         NewJob(r, s, i, job[r].token, v), Published(r),
         UNCHANGED <<grant, secret, registry, setup, removal, unsaved, published>>
  PROVE  GrantInv'
<1>1. Entitled(r, s, i, job[r].token, v)
  BY KnownJob DEF Entitled
<1>. QED  BY <1>1, KnownJob, OnlyJobKeeps

LEMMA ReadRowKeeps ==
  ASSUME GrantInv, NEW r \in Resolvers, Grant!ReadRow(r)
  PROVE  GrantInv'
<1>. DEFINE j == [job[r] EXCEPT !.at = Grant!FirstStep, !.inst = registry.inst,
                                !.latched = registry.status = "revoked"]
<1>1. /\ UNCHANGED <<grant, secret, registry, setup, removal, unsaved, published>>
      /\ job[r].at = "idle" /\ job' = [job EXCEPT ![r] = j]
  BY DEF Grant!ReadRow, Grant!At
<1>2. Grant!FirstStep \in {"vault", "read"} /\ Grant!FirstStep \in JobSteps
  BY DEF Grant!FirstStep, JobSteps
<1>3. /\ j \in JobType /\ j.at = Grant!FirstStep /\ j.inst = registry.inst
      /\ j.token = job[r].token /\ j.verdict = job[r].verdict
  BY <1>2, KnownJob, JobFields DEF JobType
<1>. HIDE DEF j
<1>4. NewJob(r, j.at, j.inst, j.token, j.verdict)
  BY <1>1, <1>3, KnownJob, WholeJob
<1>5. Published(r)
  BY <1>1 DEF Published
<1>6. NewJob(r, Grant!FirstStep, registry.inst, job[r].token, job[r].verdict)
  BY <1>3, <1>4
<1>. HIDE DEF Grant!FirstStep
<1>. QED  BY <1>1, <1>2, <1>5, <1>6, KnownJob, QuietKeeps

\* A resolver that is done, whatever it knew
LEMMA DoneKeeps ==
  ASSUME GrantInv, NEW r \in Resolvers, NewJob(r, "idle", 0, Grant!NoToken, "none"),
         UNCHANGED <<grant, secret, registry, setup, removal, unsaved, published>>,
         job[r].at # "announce"
  PROVE  GrantInv'
<1>1. Published(r)
  BY DEF Published
<1>. QED  BY <1>1, KnownJob, JobFields, IdleEntitled, OnlyJobKeeps

LEMMA VaultKeeps ==
  ASSUME GrantInv, NEW r \in Resolvers, Grant!AskVault(r) \/ Grant!VaultErrs(r)
  PROVE  GrantInv'
<1>1. /\ UNCHANGED <<grant, secret, registry, setup, removal, unsaved, published>>
      /\ job[r].at = "vault"
  BY DEF Grant!AskVault, Grant!VaultErrs, Grant!At
<1>2. \/ Grant!Done(r) \/ Grant!GoTo(r, "clear")
      \/ \E v \in {"none", "consent"} :
           job' = [job EXCEPT ![r].at = "read", ![r].verdict = v]
  BY DEF Grant!AskVault, Grant!VaultErrs, Grant!NoVaultToken
<1>3. Published(r)
  BY <1>1 DEF Published
<1>4. CASE Grant!Done(r)
  BY <1>1, <1>4, KnownJob, DoneJob, DoneKeeps
<1>5. CASE Grant!GoTo(r, "clear")
  <2>1. NewJob(r, "clear", job[r].inst, job[r].token, job[r].verdict)
    BY <1>5, KnownJob, GoToJob DEF JobSteps
  <2>. QED  BY <1>1, <1>3, <2>1, KnownJob, QuietKeeps
<1>6. ASSUME NEW v \in {"none", "consent"},
             job' = [job EXCEPT ![r].at = "read", ![r].verdict = v]
      PROVE  GrantInv'
  <2>. DEFINE j == [job[r] EXCEPT !.at = "read", !.verdict = v]
  <2>1. /\ j \in JobType /\ j.at = "read" /\ j.inst = job[r].inst
        /\ j.token = job[r].token /\ j.verdict = v
    BY KnownJob, JobFields DEF JobType, JobSteps
  <2>2. job' = [job EXCEPT ![r] = j]
    BY <1>6
  <2>. HIDE DEF j
  <2>3. NewJob(r, "read", job[r].inst, job[r].token, v)
    BY <2>1, <2>2, KnownJob, WholeJob
  <2>. QED  BY <1>1, <1>3, <2>3, KnownJob, QuietKeeps
<1>. QED  BY <1>2, <1>4, <1>5, <1>6

LEMMA ClearRevocationKeeps ==
  ASSUME GrantInv, NEW r \in Resolvers, Grant!ClearRevocation(r)
  PROVE  GrantInv'
<1>1. /\ UNCHANGED <<grant, secret, setup, removal, unsaved, published>>
      /\ job[r].at = "clear" /\ Grant!Done(r)
      /\ \/ registry' = registry
         \/ /\ registry.status = "revoked"
            /\ registry' = [registry EXCEPT !.status = "active", !.reason = "none",
                                            !.claimed = FALSE]
  BY DEF Grant!ClearRevocation, Grant!At
<1>2. NewJob(r, "idle", 0, Grant!NoToken, "none")
  BY <1>1, KnownJob, DoneJob
<1>3. registry' = registry \/ (registry'.status = "active" /\ ~registry'.claimed)
  BY <1>1, KnownJob DEF GrantTyped
<1>4. registry'.inst = registry.inst /\ (registry.status = "absent" => registry' = registry)
  BY <1>1, KnownJob DEF GrantTyped
<1>5. GrantTyped'
  BY <1>1, <1>2, KnownJob DEF GrantTyped, NewJob
<1>6. Bounded' /\ Removed' /\ Grant!NoFalseVerdict'
  BY <1>1, <1>3, <1>4 DEF GrantInv, Bounded, Removed, Grant!NoFalseVerdict
<1>7. Published(r)
  BY <1>1 DEF Published
<1>8. Entitled(r, "idle", 0, Grant!NoToken, "none") /\ Grant!NoToken \in Token /\ 0 \in Nat
  BY <1>1, KnownJob, JobFields, IdleEntitled
<1>9. grant.gen <= grant'.gen
  BY <1>1, KnownJob, JobFields
<1>. QED  BY <1>1, <1>2, <1>3, <1>4, <1>5, <1>6, <1>7, <1>8, <1>9, JobKeeps

\* A verdict on installation i, for which the resolver has its reasons
LEMMA VerdictKeeps ==
  ASSUME GrantInv, NEW r \in Resolvers, NEW i \in Nat, NEW v \in {"consent", "rejected"},
         Grant!Verdict(r, i, v), job[r].at # "announce", i <= grant.inst,
         v = "rejected" /\ i = grant.inst /\ grant.alive => i \in unsaved',
         UNCHANGED <<grant, secret, registry, setup, removal, published>>,
         unsaved \subseteq unsaved'
  PROVE  GrantInv'
<1>1. GrantTyped' /\ Bounded' /\ Removed' /\ Grant!NoFalseVerdict'
  <2>1. job' \in [Resolvers -> JobType]
    BY KnownJob, VerdictJob DEF NewJob
  <2>. QED
    BY <2>1 DEF GrantInv, GrantTyped, Bounded, Removed, Grant!NoFalseVerdict
<1>2. Published(r)
  BY DEF Published
<1>3. grant.gen <= grant'.gen
  BY KnownJob, JobFields
<1>4. Entitled(r, "idle", 0, Grant!NoToken, "none") /\ Grant!NoToken \in Token /\ 0 \in Nat
  BY KnownJob, JobFields, IdleEntitled
<1>5. CASE NewJob(r, "idle", 0, Grant!NoToken, "none")
  BY <1>1, <1>2, <1>3, <1>4, <1>5, JobKeeps
<1>6. CASE r \in Processors /\ NewJob(r, "claim", i, Grant!NoToken, v)
  <2>1. Entitled(r, "claim", i, Grant!NoToken, v)
    BY <1>6, KnownJob, JobFields, IdleJob DEF Entitled
  <2>. QED  BY <1>1, <1>2, <1>3, <1>4, <1>6, <2>1, JobKeeps
<1>. QED  BY <1>5, <1>6, KnownJob, VerdictJob

\* A resolver takes up the stored token, to use it or to refresh it.
LEMMA TokenKeeps ==
  ASSUME GrantInv, NEW r \in Resolvers, NEW t \in secret,
         NEW s \in {"refresh", "refresh-again"}, Grant!UseOrRefresh(r, t, s),
         job[r].at # "announce",
         UNCHANGED <<grant, secret, registry, setup, removal, unsaved, published>>
  PROVE  GrantInv'
<1>1. t \in Token /\ t.inst <= grant.inst /\ t.gen <= grant.gen
  BY DEF GrantInv, GrantTyped, Bounded
<1>2. Entitled(r, s, 0, t, "none") /\ 0 \in Nat
  BY <1>1, KnownJob, JobFields DEF Entitled
<1>3. Published(r)
  BY DEF Published
<1>4. CASE NewJob(r, s, 0, t, "none")
  BY <1>1, <1>2, <1>3, <1>4, OnlyJobKeeps
<1>. QED  BY <1>1, <1>4, KnownJob, UseOrRefreshJob, DoneKeeps

LEMMA ReadSecretKeeps ==
  ASSUME GrantInv, NEW r \in Resolvers, Grant!ReadSecret(r)
  PROVE  GrantInv'
<1>1. /\ UNCHANGED <<grant, secret, registry, setup, removal, unsaved, published>>
      /\ job[r].at = "read"
      /\ \/ Grant!Done(r)
         \/ Grant!Verdict(r, job[r].inst, "consent")
         \/ \E t \in secret : Grant!UseOrRefresh(r, t, "refresh")
  BY DEF Grant!ReadSecret, Grant!At
<1>2. CASE Grant!Done(r)
  BY <1>1, <1>2, KnownJob, DoneJob, DoneKeeps
<1>3. CASE Grant!Verdict(r, job[r].inst, "consent")
  BY <1>1, <1>3, KnownJob, VerdictKeeps
<1>4. ASSUME NEW t \in secret, Grant!UseOrRefresh(r, t, "refresh") PROVE GrantInv'
  BY <1>1, <1>4, TokenKeeps
<1>. QED  BY <1>1, <1>2, <1>3, <1>4

LEMMA PutSecretKeeps ==
  ASSUME GrantInv, NEW r \in Resolvers, Grant!PutSecret(r)
  PROVE  GrantInv'
<1>1. /\ UNCHANGED <<grant, registry, setup, removal, unsaved, published>>
      /\ job[r].at = "put" /\ Grant!Done(r)
      /\ secret' = secret \/ secret' = {job[r].token : s \in secret}
  BY DEF Grant!PutSecret, Grant!At
<1>2. NewJob(r, "idle", 0, Grant!NoToken, "none")
  BY <1>1, KnownJob, DoneJob
<1>3. \A t \in secret' : t \in secret \/ t = job[r].token
  BY <1>1
<1>4. \A s, t \in secret' : s = t
  BY <1>1 DEF GrantInv, Bounded
<1>5. secret = {} => secret' = {}
  BY <1>1
<1>6. GrantTyped'
  BY <1>1, <1>2, <1>3, KnownJob DEF GrantTyped, NewJob
<1>7. Bounded' /\ Removed' /\ Grant!NoFalseVerdict'
  BY <1>1, <1>3, <1>4, <1>5, KnownJob DEF GrantInv, Bounded, Removed, Grant!NoFalseVerdict
<1>8. Published(r)
  BY <1>1 DEF Published
<1>9. Entitled(r, "idle", 0, Grant!NoToken, "none") /\ Grant!NoToken \in Token /\ 0 \in Nat
  BY <1>1, KnownJob, JobFields, IdleEntitled
<1>10. grant.gen <= grant'.gen
  BY <1>1, KnownJob, JobFields
<1>. QED  BY <1>1, <1>2, <1>6, <1>7, <1>8, <1>9, <1>10, JobKeeps

LEMMA RereadKeeps ==
  ASSUME GrantInv, NEW r \in Resolvers, Grant!Reread(r)
  PROVE  GrantInv'
<1>1. /\ UNCHANGED <<grant, secret, registry, setup, removal, published>>
      /\ job[r].at = "reread"
  BY DEF Grant!Reread, Grant!At
<1>2. CASE Grant!Done(r) /\ unsaved' = unsaved
  BY <1>1, <1>2, KnownJob, DoneJob, DoneKeeps
<1>3. ASSUME NEW t \in secret, Grant!UseOrRefresh(r, t, "refresh-again"), unsaved' = unsaved
      PROVE  GrantInv'
  BY <1>1, <1>3, TokenKeeps
<1>4. ASSUME NEW t \in secret, t.gen = job[r].token.gen,
             Grant!Verdict(r, job[r].token.inst, "rejected"),
             unsaved' = unsaved \cup {i \in {job[r].token.inst} :
                                        Grant!Rotated /\ i >= registry.inst}
      PROVE  GrantInv'
  <2>1. ASSUME job[r].token.inst = grant.inst, grant.alive
        PROVE  job[r].token.inst \in unsaved'
    <3>1. job[r].token.gen # grant.gen
      BY <1>1, <2>1 DEF GrantInv, JobExplained
    <3>2. Grant!Rotated
      BY <1>4, <3>1 DEF Grant!Rotated, GrantInv, Bounded
    <3>3. job[r].token.inst >= registry.inst
      BY <2>1, KnownJob, JobFields
    <3>. QED  BY <1>4, <3>2, <3>3
  <2>2. job[r].token.inst \in Nat
    BY KnownJob, JobFields
  <2>. QED  BY <1>1, <1>4, <2>1, <2>2, KnownJob, VerdictKeeps
<1>. QED  BY <1>2, <1>3, <1>4 DEF Grant!Reread

LEMMA RefreshKeeps ==
  ASSUME GrantInv, NEW r \in Resolvers, Grant!Refresh(r)
  PROVE  GrantInv'
<1>1. /\ UNCHANGED <<secret, registry, setup, removal, unsaved, published>>
      /\ job[r].at \in {"refresh", "refresh-again"}
  BY DEF Grant!Refresh, Grant!At
<1>2. Published(r)
  BY <1>1 DEF Published
<1>3. CASE ~Grant!Accepted(r) /\ grant' = grant
  <2>1. Grant!Done(r) \/ Grant!GoTo(r, "reread")
    BY <1>3 DEF Grant!Refresh
  <2>2. CASE Grant!Done(r)
    BY <1>1, <1>3, <2>2, KnownJob, DoneJob, DoneKeeps
  <2>3. CASE Grant!GoTo(r, "reread")
    <3>1. NewJob(r, "reread", job[r].inst, job[r].token, job[r].verdict)
      BY <2>3, KnownJob, GoToJob DEF JobSteps
    <3>2. Entitled(r, "reread", job[r].inst, job[r].token, job[r].verdict)
      BY <1>3, KnownJob DEF Entitled, Grant!Accepted
    <3>. QED  BY <1>1, <1>2, <1>3, <3>1, <3>2, KnownJob, OnlyJobKeeps
  <2>. QED  BY <2>1, <2>2, <2>3
<1>4. CASE /\ grant' = [grant EXCEPT !.gen = @ + 1]
           /\ \/ job' = [job EXCEPT ![r].at = "put", ![r].token.gen = grant.gen + 1]
              \/ Grant!Done(r)
  <2>1. /\ grant'.inst = grant.inst /\ grant'.alive = grant.alive
        /\ grant'.gen = grant.gen + 1 /\ grant'.gen \in Nat /\ grant.gen <= grant'.gen
        /\ grant' \in [inst : Nat, gen : Nat, alive : BOOLEAN]
    BY <1>4, KnownJob DEF GrantTyped
  <2>2. Bounded' /\ Removed' /\ Grant!NoFalseVerdict'
    <3>1. \A t \in secret : t.gen \in Nat
      BY KnownJob DEF GrantTyped, Token
    <3>. QED
      BY <1>1, <2>1, <3>1, KnownJob, JobFields
         DEF GrantInv, Bounded, Removed, Grant!NoFalseVerdict
  <2>3. CASE Grant!Done(r)
    <3>1. NewJob(r, "idle", 0, Grant!NoToken, "none")
      BY <2>3, KnownJob, DoneJob
    <3>2. GrantTyped'
      BY <1>1, <2>1, <3>1, KnownJob DEF GrantTyped, NewJob
    <3>3. Entitled(r, "idle", 0, Grant!NoToken, "none") /\ Grant!NoToken \in Token /\ 0 \in Nat
      BY <2>1, KnownJob, JobFields, IdleEntitled
    <3>. QED  BY <1>1, <1>2, <2>1, <2>2, <3>1, <3>2, <3>3, JobKeeps
  <2>4. CASE job' = [job EXCEPT ![r].at = "put", ![r].token.gen = grant.gen + 1]
    <3>. DEFINE t == [job[r].token EXCEPT !.gen = grant.gen + 1]
                j == [job[r] EXCEPT !.at = "put", !.token = t]
    <3>1. /\ t \in Token /\ t.inst = job[r].token.inst /\ t.gen = grant'.gen
          /\ t.gen \in Nat
      BY <2>1, KnownJob, JobFields DEF Token
    <3>2. job' = [job EXCEPT ![r] = j]
      BY <2>4
    <3>. HIDE DEF t
    <3>3. /\ j \in JobType /\ j.at = "put" /\ j.inst = job[r].inst
          /\ j.token = t /\ j.verdict = job[r].verdict
      BY <3>1, KnownJob, JobFields DEF JobType, JobSteps
    <3>. HIDE DEF j
    <3>4. NewJob(r, "put", job[r].inst, t, job[r].verdict)
      BY <3>2, <3>3, KnownJob, WholeJob
    <3>5. GrantTyped'
      BY <1>1, <2>1, <3>4, KnownJob DEF GrantTyped, NewJob
    <3>6. Entitled(r, "put", job[r].inst, t, job[r].verdict)
      BY <2>1, <3>1, KnownJob DEF Entitled
    <3>. QED  BY <1>1, <1>2, <2>1, <2>2, <3>1, <3>4, <3>5, <3>6, KnownJob, JobKeeps
  <2>. QED  BY <1>4, <2>3, <2>4
<1>. QED  BY <1>3, <1>4 DEF Grant!Refresh

\* At the announcement and at the latch a resolver still stands by its verdict.
LEMMA JudgingEntitled ==
  ASSUME GrantInv, NEW r \in Resolvers, Judging(r), grant' = grant, unsaved' = unsaved,
         NEW s \in {"announce", "latch"},
         s = "latch" =>
            job[r].inst < registry.inst \/ registry.status = "absent" \/ CoveredNext(job[r].inst)
  PROVE  Entitled(r, s, job[r].inst, job[r].token, job[r].verdict)
<1>1. JobExplained(r)
  BY DEF GrantInv
<1>2. s # "reread"
  OBVIOUS
<1>. QED  BY <1>1, <1>2, KnownJob DEF JobExplained, Judging, Entitled

LEMMA ClaimAnnouncementKeeps ==
  ASSUME GrantInv, NEW r \in Resolvers, Grant!ClaimAnnouncement(r)
  PROVE  GrantInv'
<1>1. /\ UNCHANGED <<grant, secret, setup, removal, unsaved>>
      /\ job[r].at = "claim"
      /\ published' = published \cup {i \in {job[r].inst} : i > registry.inst}
  BY DEF Grant!ClaimAnnouncement, Grant!At
<1>2. \/ /\ Grant!GoTo(r, "announce")
         /\ \/ registry' = registry
            \/ Grant!Mine(r) /\ registry' = [registry EXCEPT !.claimed = TRUE]
      \/ /\ ~Grant!Mine(r) \/ registry.claimed
         /\ registry' = registry /\ Grant!GoTo(r, "latch")
  BY DEF Grant!ClaimAnnouncement
<1>3. Judging(r) /\ r \in Processors
  BY <1>1 DEF GrantInv, JobExplained, Judging
<1>4. /\ registry'.inst = registry.inst /\ registry'.status = registry.status
      /\ registry'.reason = registry.reason
      /\ registry' \in [status : {"active", "revoked", "absent"},
                        reason : {"none", "consent", "rejected", "admin"},
                        inst : Nat, claimed : BOOLEAN]
  BY <1>2, KnownJob DEF GrantTyped
<1>5. Bounded' /\ Removed' /\ Grant!NoFalseVerdict'
  BY <1>1, <1>4 DEF GrantInv, Bounded, Removed, Grant!NoFalseVerdict
<1>6. Published(r) /\ published \subseteq published' /\ grant.gen <= grant'.gen
  BY <1>1, KnownJob, JobFields DEF Published
<1>7. CASE Grant!GoTo(r, "announce")
  <2>1. NewJob(r, "announce", job[r].inst, job[r].token, job[r].verdict)
    BY <1>7, KnownJob, GoToJob DEF JobSteps
  <2>2. GrantTyped'
    BY <1>1, <1>4, <2>1, KnownJob DEF GrantTyped, NewJob
  <2>3. Entitled(r, "announce", job[r].inst, job[r].token, job[r].verdict)
    BY <1>1, <1>3, JudgingEntitled
  <2>4. registry'.claimed => registry.claimed \/ CoveredNext(registry.inst)
    <3>1. registry' = registry \/ job[r].inst = registry.inst
      BY <1>2, <1>7 DEF Grant!Mine, Grant!GoTo
    <3>2. CoveredNext(job[r].inst)
      BY <1>3, <2>1 DEF CoveredNext, NewJob
    <3>. QED  BY <3>1, <3>2
  <2>. QED
    BY <1>1, <1>4, <1>5, <1>6, <2>1, <2>2, <2>3, <2>4, KnownJob, JobKeeps
<1>8. CASE /\ ~Grant!Mine(r) \/ registry.claimed
           /\ registry' = registry /\ Grant!GoTo(r, "latch")
  <2>1. NewJob(r, "latch", job[r].inst, job[r].token, job[r].verdict)
    BY <1>8, KnownJob, GoToJob DEF JobSteps
  <2>2. GrantTyped'
    BY <1>1, <1>4, <2>1, KnownJob DEF GrantTyped, NewJob
  <2>3. job[r].inst < registry.inst \/ registry.status = "absent" \/ CoveredNext(job[r].inst)
    <3>1. CASE job[r].inst > registry.inst
      BY <1>1, <3>1 DEF CoveredNext
    <3>2. CASE job[r].inst = registry.inst /\ registry.status # "absent"
      <4>1. Covered(job[r].inst)
        BY <1>8, <3>2 DEF Grant!Mine, GrantInv, RowCovered
      <4>. QED  BY <1>1, <1>6, <2>1, <4>1, StillCovered DEF NewJob
    <3>. QED  BY <3>1, <3>2, KnownJob
  <2>4. Entitled(r, "latch", job[r].inst, job[r].token, job[r].verdict)
    BY <1>1, <1>3, <2>3, JudgingEntitled
  <2>. QED
    BY <1>1, <1>5, <1>6, <1>8, <2>1, <2>2, <2>4, KnownJob, JobKeeps
<1>. QED  BY <1>2, <1>7, <1>8

LEMMA AnnounceKeeps ==
  ASSUME GrantInv, NEW r \in Resolvers, Grant!Announce(r)
  PROVE  GrantInv'
<1>1. /\ UNCHANGED <<grant, secret, registry, setup, removal, unsaved>>
      /\ job[r].at = "announce"
      /\ published' = published \cup {i \in {job[r].inst} : i >= registry.inst}
      /\ Grant!GoTo(r, "latch") \/ Grant!GoTo(r, "release")
  BY DEF Grant!Announce, Grant!At
<1>2. job[r].inst \in published' \/ job[r].inst < registry.inst
  BY <1>1, KnownJob
<1>3. Published(r) /\ published \subseteq published' /\ grant.gen <= grant'.gen
  BY <1>1, <1>2, KnownJob, JobFields DEF Published
<1>4. Bounded' /\ Removed' /\ Grant!NoFalseVerdict'
  BY <1>1 DEF GrantInv, Bounded, Removed, Grant!NoFalseVerdict
<1>5. CASE Grant!GoTo(r, "latch")
  <2>1. NewJob(r, "latch", job[r].inst, job[r].token, job[r].verdict)
    BY <1>5, KnownJob, GoToJob DEF JobSteps
  <2>2. GrantTyped'
    BY <1>1, <2>1, KnownJob DEF GrantTyped, NewJob
  <2>3. Entitled(r, "latch", job[r].inst, job[r].token, job[r].verdict)
    BY <1>1, <1>2, JudgingEntitled DEF CoveredNext, Judging
  <2>. QED  BY <1>1, <1>3, <1>4, <2>1, <2>2, <2>3, KnownJob, JobKeeps
<1>6. CASE Grant!GoTo(r, "release")
  <2>1. NewJob(r, "release", job[r].inst, job[r].token, job[r].verdict)
    BY <1>6, KnownJob, GoToJob DEF JobSteps
  <2>2. GrantTyped'
    BY <1>1, <2>1, KnownJob DEF GrantTyped, NewJob
  <2>3. Entitled(r, "release", job[r].inst, job[r].token, job[r].verdict)
    BY <1>1, KnownJob DEF Entitled
  <2>. QED  BY <1>1, <1>3, <1>4, <2>1, <2>2, <2>3, KnownJob, JobKeeps
<1>. QED  BY <1>1, <1>5, <1>6

LEMMA ReleaseAnnouncementKeeps ==
  ASSUME GrantInv, NEW r \in Resolvers, Grant!ReleaseAnnouncement(r)
  PROVE  GrantInv'
<1>1. /\ UNCHANGED <<grant, secret, setup, removal, unsaved, published>>
      /\ job[r].at = "release" /\ Grant!Done(r)
      /\ registry' = registry \/ registry' = [registry EXCEPT !.claimed = FALSE]
  BY DEF Grant!ReleaseAnnouncement, Grant!At
<1>2. NewJob(r, "idle", 0, Grant!NoToken, "none")
  BY <1>1, KnownJob, DoneJob
<1>3. /\ registry'.inst = registry.inst /\ registry'.status = registry.status
      /\ registry'.reason = registry.reason
      /\ registry'.claimed => registry.claimed
      /\ registry' \in [status : {"active", "revoked", "absent"},
                        reason : {"none", "consent", "rejected", "admin"},
                        inst : Nat, claimed : BOOLEAN]
  BY <1>1, KnownJob DEF GrantTyped
<1>4. GrantTyped'
  BY <1>1, <1>2, <1>3, KnownJob DEF GrantTyped, NewJob
<1>5. Bounded' /\ Removed' /\ Grant!NoFalseVerdict'
  BY <1>1, <1>3 DEF GrantInv, Bounded, Removed, Grant!NoFalseVerdict
<1>6. Published(r) /\ grant.gen <= grant'.gen
  BY <1>1, KnownJob, JobFields DEF Published
<1>7. Entitled(r, "idle", 0, Grant!NoToken, "none") /\ Grant!NoToken \in Token /\ 0 \in Nat
  BY <1>1, KnownJob, JobFields, IdleEntitled
<1>. QED  BY <1>1, <1>2, <1>3, <1>4, <1>5, <1>6, <1>7, JobKeeps

LEMMA MarkRevokedKeeps ==
  ASSUME GrantInv, NEW r \in Resolvers, Grant!MarkRevoked(r)
  PROVE  GrantInv'
<1>1. /\ UNCHANGED <<grant, secret, setup, removal, unsaved, published>>
      /\ job[r].at = "latch" /\ Grant!Done(r)
  BY DEF Grant!MarkRevoked, Grant!At
<1>2. NewJob(r, "idle", 0, Grant!NoToken, "none")
  BY <1>1, KnownJob, DoneJob
<1>3. Published(r) /\ grant.gen <= grant'.gen
  BY <1>1, KnownJob, JobFields DEF Published
<1>4. Entitled(r, "idle", 0, Grant!NoToken, "none") /\ Grant!NoToken \in Token /\ 0 \in Nat
  BY <1>1, KnownJob, JobFields, IdleEntitled
<1>5. CASE registry' = registry
  BY <1>1, <1>2, <1>5, KnownJob, DoneKeeps
<1>6. CASE /\ registry.status = "active" /\ Grant!Mine(r)
           /\ registry' = [registry EXCEPT !.status = "revoked", !.reason = job[r].verdict]
  <2>1. /\ registry'.inst = registry.inst /\ registry'.status = "revoked"
        /\ registry'.reason = job[r].verdict /\ registry'.claimed = registry.claimed
        /\ job[r].inst = registry.inst /\ registry.status = "active"
    BY <1>6, KnownJob DEF GrantTyped, Grant!Mine
  <2>2. job[r].verdict \in {"none", "consent", "rejected"}
    BY KnownJob DEF GrantTyped, JobType
  <2>3. GrantTyped'
    BY <1>1, <1>2, <1>6, <2>2, KnownJob DEF GrantTyped, NewJob
  <2>4. Bounded' /\ Removed'
    BY <1>1, <2>1 DEF GrantInv, Bounded, Removed
  <2>5. Grant!NoFalseVerdict'
    <3>1. job[r].verdict = "rejected" /\ job[r].inst = grant.inst /\ grant.alive =>
            job[r].inst \in unsaved
      BY <1>1 DEF GrantInv, JobExplained, Judging
    <3>. QED  BY <1>1, <2>1, <3>1 DEF Grant!NoFalseVerdict
  <2>6. CoveredNext(registry.inst)
    <3>1. Covered(registry.inst)
      BY <1>1, <2>1, KnownJob DEF GrantInv, LatchCovered
    <3>. QED  BY <1>1, <1>2, <3>1, StillCovered DEF NewJob
  <2>. QED  BY <1>1, <1>2, <1>3, <1>4, <2>1, <2>3, <2>4, <2>5, <2>6, JobKeeps
<1>. QED  BY <1>5, <1>6 DEF Grant!MarkRevoked

\* A step of Linear or of the administrator: the resolvers stay where they are, and
\* what they know stays true or becomes a matter of the past.
LEMMA StandStill ==
  ASSUME GrantInv, job' = job, GrantTyped', Bounded', Removed', Grant!NoFalseVerdict',
         RowCovered', grant.gen <= grant'.gen,
         \/ grant'.inst > grant.inst
         \/ /\ grant'.inst = grant.inst /\ (grant'.alive => grant.alive)
            /\ grant'.gen = grant.gen,
         registry.inst <= registry'.inst,
         registry.status = "absent" => registry'.status = "absent",
         \A i \in unsaved : i \in unsaved' \/ i < grant'.inst,
         \A i \in published : i \in published' \/ i < registry'.inst
  PROVE  GrantInv'
<1>1. ASSUME NEW r \in Resolvers
      PROVE  (JobBounded(r) /\ JobExplained(r) /\ LatchCovered(r))'
  <2>1. /\ JobBounded(r) /\ JobExplained(r) /\ LatchCovered(r)
        /\ job[r].token.gen \in Nat /\ job[r].token.inst \in Nat /\ job[r].inst \in Nat
        /\ grant.inst \in Nat /\ grant.gen \in Nat
        /\ grant'.inst \in Nat /\ grant'.gen \in Nat
        /\ registry.inst \in Nat /\ registry'.inst \in Nat
    BY JobFields DEF GrantInv, GrantTyped
  <2>2. JobBounded(r)'
    BY <2>1 DEF JobBounded
  <2>3. JobExplained(r)'
    <3>1. CASE grant'.inst > grant.inst
      <4>1. job[r].inst # grant'.inst /\ job[r].token.inst # grant'.inst
        BY <2>1, <3>1 DEF JobBounded
      <4>. QED  BY <2>1, <4>1 DEF JobExplained, Judging
    <3>2. CASE /\ grant'.inst = grant.inst /\ (grant'.alive => grant.alive)
               /\ grant'.gen = grant.gen
      <4>1. job[r].inst = grant'.inst /\ job[r].inst \in unsaved => job[r].inst \in unsaved'
        BY <2>1
      <4>. QED  BY <2>1, <3>2, <4>1 DEF JobExplained, Judging
    <3>. QED  BY <3>1, <3>2
  <2>4. LatchCovered(r)'
    <3>. SUFFICES ASSUME job[r].at = "latch"
                  PROVE  \/ job[r].inst < registry'.inst \/ registry'.status = "absent"
                         \/ CoveredNext(job[r].inst)
      BY DEF LatchCovered, Covered, CoveredNext
    <3>1. CASE Covered(job[r].inst)
      BY <3>1 DEF Covered, CoveredNext
    <3>. QED  BY <2>1, <3>1 DEF LatchCovered
  <2>. QED  BY <2>2, <2>3, <2>4
<1>. QED  BY <1>1 DEF GrantInv

LEMMA GrantFields ==
  ASSUME GrantInv
  PROVE  /\ grant \in [inst : Nat, gen : Nat, alive : BOOLEAN]
         /\ grant.inst \in Nat /\ grant.gen \in Nat /\ registry.inst \in Nat
         /\ registry.inst <= grant.inst
  BY DEF GrantInv, GrantTyped, Bounded

LEMMA LinearKeeps ==
  ASSUME GrantInv, Grant!TroubleEnds \/ Grant!RevokeInLinear
  PROVE  GrantInv'
<1>1. /\ UNCHANGED <<secret, registry, job, setup, removal, unsaved, published>>
      /\ grant' = grant \/ grant' = [grant EXCEPT !.alive = FALSE]
  BY DEF Grant!TroubleEnds, Grant!RevokeInLinear
<1>2. /\ grant' \in [inst : Nat, gen : Nat, alive : BOOLEAN]
      /\ grant'.inst = grant.inst /\ grant'.gen = grant.gen
      /\ grant'.alive => grant.alive
  BY <1>1, GrantFields
<1>3. GrantTyped' /\ Bounded' /\ Removed' /\ Grant!NoFalseVerdict' /\ RowCovered'
  BY <1>1, <1>2 DEF GrantInv, GrantTyped, Bounded, Removed, Grant!NoFalseVerdict,
     RowCovered, Covered
<1>. QED  BY <1>1, <1>2, <1>3, GrantFields, StandStill

LEMMA ConsentKeeps ==
  ASSUME GrantInv, Grant!Consent
  PROVE  GrantInv'
<1>1. /\ UNCHANGED <<secret, registry, job, removal, unsaved, published>>
      /\ setup = "idle" /\ removal = "idle" /\ setup' = "consented"
      /\ grant' = [inst |-> grant.inst + 1, gen |-> grant.gen + (IF vaulted THEN 0 ELSE 1),
                   alive |-> TRUE]
  BY DEF Grant!Consent
<1>2. /\ grant' \in [inst : Nat, gen : Nat, alive : BOOLEAN]
      /\ grant'.inst = grant.inst + 1 /\ grant.gen <= grant'.gen /\ grant'.gen \in Nat
  BY <1>1, GrantFields
<1>3. GrantTyped' /\ Removed' /\ RowCovered'
  BY <1>1, <1>2 DEF GrantInv, GrantTyped, Removed, RowCovered, Covered
<1>4. Bounded' /\ Grant!NoFalseVerdict'
  <2>1. \A t \in secret : t.inst \in Nat /\ t.gen \in Nat
    BY DEF GrantInv, GrantTyped, Token
  <2>. QED
    BY <1>1, <1>2, <2>1, GrantFields DEF GrantInv, Bounded, Grant!NoFalseVerdict
<1>. QED  BY <1>1, <1>2, <1>3, <1>4, GrantFields, StandStill

LEMMA UpsertOauthSecretKeeps ==
  ASSUME GrantInv, Grant!UpsertOauthSecret
  PROVE  GrantInv'
<1>1. /\ UNCHANGED <<grant, registry, job, removal, unsaved, published>>
      /\ setup = "consented" /\ setup' = "stored"
      /\ \/ secret' = {[t EXCEPT !.inst = grant.inst] : t \in secret}
         \/ secret' = {[inst |-> grant.inst, gen |-> grant.gen]}
  BY DEF Grant!UpsertOauthSecret
<1>2. \A t \in secret' : t \in Token /\ t.inst <= grant.inst /\ t.gen <= grant.gen
  <2>1. \A t \in secret : t \in Token /\ t.gen <= grant.gen
    BY DEF GrantInv, GrantTyped, Bounded
  <2>. QED  BY <1>1, <2>1, GrantFields DEF Token
<1>3. \A s, t \in secret' : s = t
  BY <1>1 DEF GrantInv, Bounded
<1>4. GrantTyped' /\ Bounded' /\ Removed' /\ Grant!NoFalseVerdict' /\ RowCovered'
  BY <1>1, <1>2, <1>3 DEF GrantInv, GrantTyped, Bounded, Removed, Grant!NoFalseVerdict,
     RowCovered, Covered
<1>. QED  BY <1>1, <1>4, GrantFields, StandStill

LEMMA PutRegistryRowKeeps ==
  ASSUME GrantInv, Grant!PutRegistryRow
  PROVE  GrantInv'
<1>1. /\ UNCHANGED <<grant, secret, job, removal>>
      /\ setup = "stored" /\ setup' = "idle"
      /\ registry' = [status |-> "active", reason |-> "none", inst |-> grant.inst,
                      claimed |-> FALSE]
      /\ unsaved' = unsaved \ {registry.inst} /\ published' = published \ {registry.inst}
  BY DEF Grant!PutRegistryRow
<1>2. registry.inst < grant.inst /\ registry.status # "absent"
  BY <1>1 DEF GrantInv, Bounded, Removed
<1>3. /\ registry'.status = "active" /\ registry'.inst = grant.inst /\ ~registry'.claimed
      /\ registry' \in [status : {"active", "revoked", "absent"},
                        reason : {"none", "consent", "rejected", "admin"},
                        inst : Nat, claimed : BOOLEAN]
  BY <1>1, GrantFields
<1>4. GrantTyped' /\ Bounded' /\ Removed' /\ Grant!NoFalseVerdict' /\ RowCovered'
  BY <1>1, <1>3, GrantFields DEF GrantInv, GrantTyped, Bounded, Removed,
     Grant!NoFalseVerdict, RowCovered
<1>. QED  BY <1>1, <1>2, <1>3, <1>4, GrantFields, StandStill

LEMMA RemovalKeeps ==
  ASSUME GrantInv, Grant!RemoveWorkspace \/ Grant!DeleteSecret \/ Grant!PurgeRow
  PROVE  GrantInv'
<1>. DEFINE revoked == [registry EXCEPT !.status = "revoked", !.reason = "admin"]
            absent == [registry EXCEPT !.status = "absent", !.reason = "none",
                                       !.claimed = FALSE]
            Revoked == /\ registry.status = "active" /\ setup = "idle" /\ secret' = secret
                       /\ registry' = revoked /\ removal' = "revoked"
            Deleted == /\ registry' = registry /\ removal = "revoked"
                       /\ \/ removal' = "failed" /\ secret' = secret
                          \/ removal' = "deleted" /\ secret' = {}
            Purged == /\ removal = "deleted" /\ removal' = "purged" /\ secret' = secret
                      /\ registry' = absent
<1>1. /\ UNCHANGED <<grant, job, setup, unsaved, published>>
      /\ Revoked \/ Deleted \/ Purged
  <2>1. CASE Grant!RemoveWorkspace
    BY <2>1 DEF Grant!RemoveWorkspace
  <2>2. CASE Grant!DeleteSecret
    BY <2>2 DEF Grant!DeleteSecret
  <2>3. CASE Grant!PurgeRow
    BY <2>3 DEF Grant!PurgeRow
  <2>. QED  BY <2>1, <2>2, <2>3
<1>2. /\ registry'.inst = registry.inst
      /\ registry.status = "absent" => registry'.status = "absent"
      /\ \/ registry' = registry
         \/ /\ registry'.status = "revoked" /\ registry'.reason = "admin"
            /\ registry'.claimed = registry.claimed
         \/ registry'.status = "absent" /\ ~registry'.claimed
      /\ registry' \in [status : {"active", "revoked", "absent"},
                        reason : {"none", "consent", "rejected", "admin"},
                        inst : Nat, claimed : BOOLEAN]
  BY <1>1 DEF GrantInv, GrantTyped
<1>3. GrantTyped'
  BY <1>1, <1>2 DEF GrantInv, GrantTyped
<1>4. Bounded' /\ Removed'
  BY <1>1, <1>2 DEF GrantInv, Bounded, Removed
<1>5. Grant!NoFalseVerdict' /\ RowCovered'
  BY <1>1, <1>2 DEF GrantInv, Grant!NoFalseVerdict, RowCovered, Covered
<1>. QED  BY <1>1, <1>2, <1>3, <1>4, <1>5, GrantFields, StandStill

LEMMA GrantStep == GrantInv /\ [Grant!Next]_(Grant!vars) => GrantInv'
<1>. SUFFICES ASSUME GrantInv, [Grant!Next]_(Grant!vars) PROVE GrantInv'
  OBVIOUS
<1>1. CASE UNCHANGED Grant!vars
  <2>1. UNCHANGED <<grant, secret, registry, job, setup, removal, unsaved, published>>
    BY <1>1 DEF Grant!vars
  <2>2. GrantTyped' /\ Bounded' /\ Removed' /\ Grant!NoFalseVerdict' /\ RowCovered'
    BY <2>1 DEF GrantInv, GrantTyped, Bounded, Removed, Grant!NoFalseVerdict,
       RowCovered, Covered
  <2>. QED  BY <2>1, <2>2, GrantFields, StandStill
<1>2. CASE \E r \in Grant!Resolvers : Grant!Resolve(r)
  <2>1. PICK r \in Resolvers : Grant!Resolve(r)
    BY <1>2 DEF Grant!Resolvers, Resolvers
  <2>. QED
    BY <2>1, ReadRowKeeps, VaultKeeps, ClearRevocationKeeps, ReadSecretKeeps,
       RefreshKeeps, PutSecretKeeps, RereadKeeps, ClaimAnnouncementKeeps,
       AnnounceKeeps, ReleaseAnnouncementKeeps, MarkRevokedKeeps DEF Grant!Resolve
<1>3. CASE \/ Grant!TroubleEnds \/ Grant!RevokeInLinear \/ Grant!Consent
           \/ Grant!UpsertOauthSecret \/ Grant!PutRegistryRow
           \/ Grant!RemoveWorkspace \/ Grant!DeleteSecret \/ Grant!PurgeRow
  BY <1>3, LinearKeeps, ConsentKeeps, UpsertOauthSecretKeeps, PutRegistryRowKeeps,
     RemovalKeeps
<1>. QED  BY <1>1, <1>2, <1>3 DEF Grant!Next

\* A workspace that is recorded dead is dead, or its last rotation never reached the
\* secret; and somebody was told, or is about to be.
THEOREM DeathsExplained == Spec => []LatchesExplained
<1>. DEFINE I == OfGrants => GrantInv
<1>1. Init => I
  BY GrantInit, CrewAssumption DEF Init, OfGrants
<1>2. I /\ [Next]_vars => I'
  BY OnlyOne, GrantStep DEF OfGrants
<1>3. I => LatchesExplained
  BY GrantImplies DEF LatchesExplained
<1>. HIDE DEF I
<1>. QED  BY <1>1, <1>2, <1>3, PTL DEF Spec

LEMMA RemovalHolds ==
  ASSUME GrantInv, [Grant!Next]_(Grant!vars)
  PROVE  [Grant!RemovalStands]_(Grant!vars)
<1>. SUFFICES ASSUME registry.status = "revoked", registry.reason = "admin",
                     Grant!Next, registry'.status = "active", registry'.inst = registry.inst
              PROVE  FALSE
  BY DEF Grant!RemovalStands, Grant!vars
<1>1. registry' # registry
  OBVIOUS
<1>2. ASSUME NEW r \in Grant!Resolvers, Grant!Resolve(r) PROVE FALSE
  <2>1. \/ Grant!ClearRevocation(r) \/ Grant!ClaimAnnouncement(r)
        \/ Grant!ReleaseAnnouncement(r) \/ Grant!MarkRevoked(r)
    BY <1>1, <1>2 DEF Grant!Resolve, Grant!ReadRow, Grant!AskVault, Grant!VaultErrs,
       Grant!ReadSecret, Grant!Refresh, Grant!PutSecret, Grant!Reread, Grant!Announce
  <2>2. registry'.status = "revoked"
    BY <2>1 DEF GrantInv, GrantTyped, Grant!ClearRevocation, Grant!ClaimAnnouncement,
       Grant!ReleaseAnnouncement, Grant!MarkRevoked
  <2>. QED  BY <2>2
<1>3. ASSUME Grant!PutRegistryRow PROVE FALSE
  BY <1>3, GrantFields DEF Grant!PutRegistryRow, GrantInv, Bounded
<1>4. ASSUME Grant!RemoveWorkspace \/ Grant!PurgeRow PROVE FALSE
  BY <1>4 DEF Grant!RemoveWorkspace, Grant!PurgeRow, GrantInv, GrantTyped
<1>. QED
  BY <1>1, <1>2, <1>3, <1>4 DEF Grant!Next, Grant!TroubleEnds, Grant!RevokeInLinear,
     Grant!Consent, Grant!UpsertOauthSecret, Grant!DeleteSecret

\* What an administrator has removed stays removed until it is set up again, and no
\* resolver that was refreshing puts a token back into the secret that was deleted.
THEOREM RemovedForGood == Spec => RemovalIsFinal
<1>. DEFINE I == OfGrants => GrantInv
            Gone == OfGrants => Grant!RemovalLeavesNoSecret
            Step == OfGrants => Grant!RemovalStands
<1>1. Init => I
  BY GrantInit, CrewAssumption DEF Init, OfGrants
<1>2. I /\ [Next]_vars => I'
  BY OnlyOne, GrantStep DEF OfGrants
<1>3. I => Gone
  BY GrantImplies
<1>4. I /\ [Next]_vars => [Step]_vars
  <2>. SUFFICES ASSUME I, Next, OfGrants PROVE [Grant!RemovalStands]_vars
    BY DEF vars
  <2>1. OnlyGrant /\ [Grant!RemovalStands]_(Grant!vars)
    BY RemovalHolds, OnlyOne, CrewAssumption
       DEF Next, OnlyIntake, OnlyGrant, OnlyReplies, OnlyStack, OnlyPair, OfGrants
  <2>. QED  BY <2>1 DEF OnlyGrant, OfGrants, vars, grantVars, Grant!vars
<1>5. Init /\ [][Next]_vars => []Gone /\ [][Step]_vars
  <2>. HIDE DEF I, Gone, Step
  <2>. QED  BY <1>1, <1>2, <1>3, <1>4, PTL
<1>. QED  BY <1>5, PTL DEF Spec, RemovalIsFinal

-----------------------------------------------------------------------------
(***************************************************************************)
(* Restack: what RestackProofs shows of any stack, of the two of Trackers  *)
(***************************************************************************)

AnyStack == INSTANCE RestackProofs WITH
    row <- children, task <- restack, RetryAttempts <- RestackAttempts,
    Environment <- StackEnvironment

AnyPair == INSTANCE RestackProofs WITH
    Nodes <- PairNodes, DependsOn <- PairDependsOn, Late <- PairLate, Edits <- PairEdits,
    row <- children, task <- restack, RetryAttempts <- RestackAttempts,
    Environment <- PairEnvironment

\* The proofs are about the same steps.
LEMMA StackIsAStack ==
  /\ Stack!Stacked => AnyStack!Stacked
  /\ Stack!Init => AnyStack!Init
  /\ [Stack!Next]_(Stack!vars) => [AnyStack!Next]_(AnyStack!vars)
  /\ AnyStack!StackIsCurrent => Stack!StackIsCurrent
<1>1. /\ Stack!Stacked => AnyStack!Stacked
      /\ Stack!Init => AnyStack!Init
      /\ Stack!vars = AnyStack!vars
      /\ AnyStack!StackIsCurrent => Stack!StackIsCurrent
  BY DEF Stack!Stacked, AnyStack!Stacked, Stack!Init, AnyStack!Init, Stack!vars,
     AnyStack!vars, Stack!Dependents, AnyStack!Dependents, Stack!StackIsCurrent,
     AnyStack!StackIsCurrent, Stack!Stale, AnyStack!Stale, Stack!At, AnyStack!At
<1>. USE DEF Stack!At, AnyStack!At, Stack!May, AnyStack!May, Stack!Queued,
     AnyStack!Queued, Stack!Handled, AnyStack!Handled, Stack!Ended, AnyStack!Ended,
     Stack!Plus, AnyStack!Plus, Stack!FirstKey, AnyStack!FirstKey, Stack!EditKey,
     AnyStack!EditKey, Stack!CutBefore, AnyStack!CutBefore, Stack!Dependents,
     AnyStack!Dependents, Stack!AllTerminal, AnyStack!AllTerminal
<1>2. ASSUME NEW t PROVE Stack!SetUp(t) => AnyStack!SetUp(t)
  BY DEF Stack!SetUp, AnyStack!SetUp
<1>3. ASSUME NEW t PROVE Stack!Succeed(t) => AnyStack!Succeed(t)
  BY DEF Stack!Succeed, AnyStack!Succeed, Stack!Push, AnyStack!Push
<1>4. ASSUME NEW t PROVE Stack!Fail(t) => AnyStack!Fail(t)
  BY DEF Stack!Fail, AnyStack!Fail
<1>5. ASSUME NEW t PROVE Stack!CascadeRestack(t) => AnyStack!CascadeRestack(t)
  BY DEF Stack!CascadeRestack, AnyStack!CascadeRestack, Stack!DirectRestack,
     AnyStack!DirectRestack
<1>6. ASSUME NEW t PROVE Stack!ReopenEpic(t) => AnyStack!ReopenEpic(t)
  BY DEF Stack!ReopenEpic, AnyStack!ReopenEpic
<1>7. ASSUME NEW t, NEW d PROVE Stack!SpawnRestack(t, d) => AnyStack!SpawnRestack(t, d)
  BY DEF Stack!SpawnRestack, AnyStack!SpawnRestack, Stack!RestackKey,
     AnyStack!RestackKey, Stack!MergeBranches, AnyStack!MergeBranches
<1>8. ASSUME NEW t PROVE Stack!Crash(t) => AnyStack!Crash(t)
  BY DEF Stack!Crash, AnyStack!Crash
<1>9. ASSUME NEW n
      PROVE  /\ Stack!Claim(n) => AnyStack!Claim(n)
             /\ Stack!Create(n) => AnyStack!Create(n)
             /\ Stack!Record(n) => AnyStack!Record(n)
             /\ Stack!FirstEnds(n) => AnyStack!FirstEnds(n)
  BY DEF Stack!Claim, AnyStack!Claim, Stack!Create, AnyStack!Create, Stack!Record,
     AnyStack!Record, Stack!FirstEnds, AnyStack!FirstEnds
<1>10. ASSUME NEW e, NEW n PROVE Stack!Comment(e, n) => AnyStack!Comment(e, n)
  BY DEF Stack!Comment, AnyStack!Comment
<1>11. Stack!Sweep => AnyStack!Sweep
  BY DEF Stack!Sweep, AnyStack!Sweep
<1>12. Stack!Next => AnyStack!Next
  BY <1>2, <1>3, <1>4, <1>5, <1>6, <1>7, <1>8, <1>9, <1>10, <1>11
     DEF Stack!Next, AnyStack!Next, Stack!Scheduled, AnyStack!Scheduled, Stack!Handle,
         AnyStack!Handle
<1>. QED  BY <1>1, <1>12 DEF Stack!vars, AnyStack!vars

\* So they are for the other stack.
LEMMA PairIsAStack ==
  /\ Pair!Stacked => AnyPair!Stacked
  /\ Pair!Init => AnyPair!Init
  /\ [Pair!Next]_(Pair!vars) => [AnyPair!Next]_(AnyPair!vars)
  /\ AnyPair!StackIsCurrent => Pair!StackIsCurrent
<1>1. /\ Pair!Stacked => AnyPair!Stacked
      /\ Pair!Init => AnyPair!Init
      /\ Pair!vars = AnyPair!vars
      /\ AnyPair!StackIsCurrent => Pair!StackIsCurrent
  BY DEF Pair!Stacked, AnyPair!Stacked, Pair!Init, AnyPair!Init, Pair!vars,
     AnyPair!vars, Pair!Dependents, AnyPair!Dependents, Pair!StackIsCurrent,
     AnyPair!StackIsCurrent, Pair!Stale, AnyPair!Stale, Pair!At, AnyPair!At
<1>. USE DEF Pair!At, AnyPair!At, Pair!May, AnyPair!May, Pair!Queued, AnyPair!Queued,
     Pair!Handled, AnyPair!Handled, Pair!Ended, AnyPair!Ended, Pair!Plus, AnyPair!Plus,
     Pair!FirstKey, AnyPair!FirstKey, Pair!EditKey, AnyPair!EditKey, Pair!CutBefore,
     AnyPair!CutBefore, Pair!Dependents, AnyPair!Dependents, Pair!AllTerminal,
     AnyPair!AllTerminal
<1>2. ASSUME NEW t PROVE Pair!SetUp(t) => AnyPair!SetUp(t)
  BY DEF Pair!SetUp, AnyPair!SetUp
<1>3. ASSUME NEW t PROVE Pair!Succeed(t) => AnyPair!Succeed(t)
  BY DEF Pair!Succeed, AnyPair!Succeed, Pair!Push, AnyPair!Push
<1>4. ASSUME NEW t PROVE Pair!Fail(t) => AnyPair!Fail(t)
  BY DEF Pair!Fail, AnyPair!Fail
<1>5. ASSUME NEW t PROVE Pair!CascadeRestack(t) => AnyPair!CascadeRestack(t)
  BY DEF Pair!CascadeRestack, AnyPair!CascadeRestack, Pair!DirectRestack,
     AnyPair!DirectRestack
<1>6. ASSUME NEW t PROVE Pair!ReopenEpic(t) => AnyPair!ReopenEpic(t)
  BY DEF Pair!ReopenEpic, AnyPair!ReopenEpic
<1>7. ASSUME NEW t, NEW d PROVE Pair!SpawnRestack(t, d) => AnyPair!SpawnRestack(t, d)
  BY DEF Pair!SpawnRestack, AnyPair!SpawnRestack, Pair!RestackKey, AnyPair!RestackKey,
     Pair!MergeBranches, AnyPair!MergeBranches
<1>8. ASSUME NEW t PROVE Pair!Crash(t) => AnyPair!Crash(t)
  BY DEF Pair!Crash, AnyPair!Crash
<1>9. ASSUME NEW n
      PROVE  /\ Pair!Claim(n) => AnyPair!Claim(n)
             /\ Pair!Create(n) => AnyPair!Create(n)
             /\ Pair!Record(n) => AnyPair!Record(n)
             /\ Pair!FirstEnds(n) => AnyPair!FirstEnds(n)
  BY DEF Pair!Claim, AnyPair!Claim, Pair!Create, AnyPair!Create, Pair!Record,
     AnyPair!Record, Pair!FirstEnds, AnyPair!FirstEnds
<1>10. ASSUME NEW e, NEW n PROVE Pair!Comment(e, n) => AnyPair!Comment(e, n)
  BY DEF Pair!Comment, AnyPair!Comment
<1>11. Pair!Sweep => AnyPair!Sweep
  BY DEF Pair!Sweep, AnyPair!Sweep
<1>12. Pair!Next => AnyPair!Next
  BY <1>2, <1>3, <1>4, <1>5, <1>6, <1>7, <1>8, <1>9, <1>10, <1>11
     DEF Pair!Next, AnyPair!Next, Pair!Scheduled, AnyPair!Scheduled, Pair!Handle,
         AnyPair!Handle
<1>. QED  BY <1>1, <1>12 DEF Pair!vars, AnyPair!vars

\* Whatever revisions meet on a stack while its epic still grows: once all tasks are
\* done, a branch that lacks a revision of its predecessor's is one whose restack
\* failed, was refused or rejected, or came while its first task was at work.
THEOREM StacksStayCurrent == Spec => []StackIsCurrent
<1>. DEFINE I == /\ subject = "stack" => AnyStack!StackInv
                 /\ subject = "pair" => AnyPair!StackInv
<1>1. Init => I
  <2>. SUFFICES ASSUME Init PROVE I
    OBVIOUS
  <2>1. subject = "stack" => Stack!Init
    BY DEF Init
  <2>2. subject = "pair" => Pair!Init
    BY DEF Init
  <2>. QED  BY <2>1, <2>2, StackIsAStack, PairIsAStack, StacksAssumption,
               AnyStack!StackInit, AnyPair!StackInit
<1>2. I /\ [Next]_vars => I'
  <2>. SUFFICES ASSUME I, [Next]_vars PROVE I'
    OBVIOUS
  <2>1. CASE subject = "stack"
    <3>1. subject' = subject /\ [Stack!Next]_(Stack!vars)
      BY <2>1, OnlyOne
    <3>2. AnyStack!StackInv'
      BY <2>1, <3>1, StackIsAStack, StacksAssumption, AnyStack!StackStep
    <3>. QED  BY <2>1, <3>1, <3>2
  <2>2. CASE subject = "pair"
    <3>1. subject' = subject /\ [Pair!Next]_(Pair!vars)
      BY <2>2, OnlyOne
    <3>2. AnyPair!StackInv'
      BY <2>2, <3>1, PairIsAStack, StacksAssumption, AnyPair!StackStep
    <3>. QED  BY <2>2, <3>1, <3>2
  <2>. QED  BY <2>1, <2>2, OnlyOne
<1>3. I => StackIsCurrent
  BY StackIsAStack, PairIsAStack, StacksAssumption, AnyStack!CurrentImplied,
     AnyPair!CurrentImplied DEF StackIsCurrent
<1>. HIDE DEF I
<1>. QED  BY <1>1, <1>2, <1>3, PTL DEF Spec
=============================================================================
