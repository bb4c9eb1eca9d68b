-------------------------- MODULE TaskServiceProofs --------------------------
(***************************************************************************)
(* Proofs about the services around the task table, for any requests,      *)
(* events, budgets, nudges, uploads and runs: an inductive invariant of    *)
(* each, and with it the properties that the runs check.                   *)
(***************************************************************************)
EXTENDS TaskServices, FiniteSetTheorems, WellFoundedInduction, TLAPS

\* A step is one of the service that is looked at.
LEMMA OnlyOne ==
  ASSUME [Next]_vars
  PROVE  /\ subject' = subject
         /\ subject = "creation" => [Creation!Next]_(Creation!vars)
         /\ subject = "uploads" => [Uploads!Next]_(Uploads!vars)
         /\ subject = "budget" => [Budget!Next]_(Budget!vars)
         /\ subject = "steering" => [Steer!Next]_(Steer!vars)
         /\ subject = "fan-out" => [FanOuts!Next]_(FanOuts!vars)
         /\ subject = "session" => [Session!Next]_(Session!vars)
<1>1. CASE UNCHANGED vars
  BY <1>1 DEF vars, creationVars, uploadsVars, budgetVars, steerVars, fanOutsVars, sessionVars,
     Creation!vars, Uploads!vars, Budget!vars, Steer!vars, FanOuts!vars, Session!vars
<1>2. CASE Next
  BY <1>2 DEF Next, OnlyCreation, OnlyUploads, OnlyBudget, OnlySteer, OnlyFanOuts, OnlySession
<1>. QED  BY <1>1, <1>2

-----------------------------------------------------------------------------
(***************************************************************************)
(* TaskCreation: a request makes one task, or leaves nothing behind        *)
(***************************************************************************)

CreationSteps ==
    {"new", "look-up", "get", "budget", "screen", "attach", "size", "put", "presign",
     "invoke", "done"}

Answers ==
    {"none", "refused", "refused-not-cleaned-up", "replayed", "conflict", "error", "created"}

RequestType ==
    [at : CreationSteps, found : Requests \cup {NoTask}, stored : Int,
     unindexed : SUBSET Requests, answer : Answers]

CreationTyped ==
    /\ tasks \in [Requests ->
                    {"none", "PENDING_UPLOADS", "SUBMITTED", "FAILED", "ENDED", "gone"}]
    /\ indexed \in SUBSET Requests
    /\ objects \in [Requests -> Int]
    /\ requests \in [Requests -> RequestType]

\* Nothing is stored before the attachments are, what is stored is counted, and a
\* refusal has taken it away again.
ObjectsCounted(r) ==
    /\ requests[r].at # "done" => requests[r].answer = "none" /\ objects[r] = requests[r].stored
    /\ requests[r].at \in {"new", "look-up", "get", "budget", "screen"} => requests[r].stored = 0
    /\ requests[r].answer \in {"refused", "conflict", "replayed"} => objects[r] = 0

\* The index shows rows that were written; it has not lost what it showed before.
LookedUp(r) ==
    /\ tasks[r] # "none" => requests[r].at \in {"presign", "invoke", "done"}
    /\ tasks[r] = "gone" => requests[r].at = "done"
    /\ r \in indexed => tasks[r] # "none"
    /\ requests[r].at = "look-up" => \A t \in Requests \ requests[r].unindexed : t \in indexed
    /\ requests[r].at = "get" =>
         /\ requests[r].found \in Requests /\ KeyOf[requests[r].found] = KeyOf[r]
         /\ tasks[requests[r].found] # "none"

\* No other task of the key was to be seen, or the one that was has gone.
Cleared(r) ==
    \A t \in Requests : KeyOf[r] = KeyOf[t] =>
        \/ t \in requests[r].unindexed
        \/ \E g \in Requests : KeyOf[g] = KeyOf[t] /\ tasks[g] = "gone"

ClearedBeforeWrite(r) ==
    \/ requests[r].at \in {"budget", "screen", "attach", "size", "put", "presign", "invoke"}
    \/ tasks[r] # "none"
    => Cleared(r)

CreationInv ==
    /\ CreationTyped
    /\ \A r \in Requests : ObjectsCounted(r) /\ LookedUp(r) /\ ClearedBeforeWrite(r)

LEMMA CreationInit == Creation!Init => CreationInv
<1>. SUFFICES ASSUME Creation!Init PROVE CreationInv
  OBVIOUS
<1>1. CreationTyped
  BY DEF Creation!Init, CreationTyped, RequestType, CreationSteps, Answers
<1>2. \A r \in Requests : ObjectsCounted(r) /\ LookedUp(r) /\ ClearedBeforeWrite(r)
  BY DEF Creation!Init, ObjectsCounted, LookedUp, ClearedBeforeWrite
<1>. QED  BY <1>1, <1>2 DEF CreationInv

LEMMA CreationImplies == CreationInv => Creation!OneTaskOrNothing
<1>. SUFFICES ASSUME CreationInv PROVE Creation!OneTaskOrNothing
  OBVIOUS
<1>1. Creation!KeyNamesOneTask
  BY DEF CreationInv, ClearedBeforeWrite, Cleared, Creation!KeyNamesOneTask, Creation!Exists
<1>2. Creation!RefusedStoresNothing
  BY DEF CreationInv, ObjectsCounted, Creation!RefusedStoresNothing
<1>. QED  BY <1>1, <1>2 DEF Creation!OneTaskOrNothing

\* Rows that were written stay written, and those that have gone stay gone.
RowsGrow ==
    \A r \in Requests : /\ tasks[r] # "none" => tasks'[r] # "none"
                        /\ tasks[r] = "gone" => tasks'[r] = "gone"

\* A request that does not move keeps what is known of it.
LEMMA RequestStays ==
  ASSUME CreationInv, NEW r \in Requests, RowsGrow, indexed \subseteq indexed',
         requests'[r] = requests[r], objects'[r] = objects[r],
         tasks'[r] # "none" => tasks[r] # "none",
         tasks'[r] = "gone" => tasks[r] = "gone" \/ requests[r].at = "done",
         r \in indexed' => r \in indexed \/ tasks[r] # "none"
  PROVE  (ObjectsCounted(r) /\ LookedUp(r) /\ ClearedBeforeWrite(r))'
<1>1. ObjectsCounted(r) /\ LookedUp(r) /\ ClearedBeforeWrite(r)
  BY DEF CreationInv
<1>2. ObjectsCounted(r)'
  BY <1>1 DEF ObjectsCounted
<1>3. LookedUp(r)'
  BY <1>1 DEF LookedUp, RowsGrow
<1>4. ClearedBeforeWrite(r)'
  BY <1>1 DEF ClearedBeforeWrite, Cleared, RowsGrow
<1>. QED  BY <1>2, <1>3, <1>4

\* A request has moved: where it is, and what it knows.
NewRequest(r, at, found, stored, unindexed, answer) ==
    /\ requests' \in [Requests -> RequestType]
    /\ \A q \in Requests : q # r => requests'[q] = requests[q]
    /\ requests'[r].at = at /\ requests'[r].found = found /\ requests'[r].stored = stored
    /\ requests'[r].unindexed = unindexed /\ requests'[r].answer = answer

LEMMA RequestFields ==
  ASSUME CreationTyped, NEW r \in Requests
  PROVE  /\ requests[r] \in RequestType /\ requests[r].stored \in Int
         /\ requests[r].unindexed \in SUBSET Requests /\ objects[r] \in Int
         /\ requests[r].found \in Requests \cup {NoTask}
  BY DEF CreationTyped, RequestType

LEMMA WholeRequest ==
  ASSUME CreationTyped, NEW r \in Requests, NEW q \in RequestType,
         requests' = [requests EXCEPT ![r] = q]
  PROVE  NewRequest(r, q.at, q.found, q.stored, q.unindexed, q.answer)
  BY DEF CreationTyped, NewRequest

LEMMA GoToRequest ==
  ASSUME CreationTyped, NEW r \in Requests, NEW s \in CreationSteps, Creation!GoTo(r, s)
  PROVE  NewRequest(r, s, requests[r].found, requests[r].stored, requests[r].unindexed,
                    requests[r].answer)
<1>. DEFINE q == [requests[r] EXCEPT !.at = s]
<1>1. /\ q \in RequestType /\ q.at = s /\ q.found = requests[r].found
      /\ q.stored = requests[r].stored /\ q.unindexed = requests[r].unindexed
      /\ q.answer = requests[r].answer
  BY RequestFields DEF RequestType
<1>2. requests' = [requests EXCEPT ![r] = q]
  BY DEF Creation!GoTo
<1>. HIDE DEF q
<1>. QED  BY <1>1, <1>2, WholeRequest

LEMMA AnswerRequest ==
  ASSUME CreationTyped, NEW r \in Requests, NEW a \in Answers, Creation!Answer(r, a)
  PROVE  NewRequest(r, "done", requests[r].found, requests[r].stored,
                    requests[r].unindexed, a)
<1>. DEFINE q == [requests[r] EXCEPT !.at = "done", !.answer = a]
<1>1. /\ q \in RequestType /\ q.at = "done" /\ q.found = requests[r].found
      /\ q.stored = requests[r].stored /\ q.unindexed = requests[r].unindexed
      /\ q.answer = a
  <2>1. "done" \in CreationSteps
    BY DEF CreationSteps
  <2>. QED  BY <2>1, RequestFields DEF RequestType
<1>2. requests' = [requests EXCEPT ![r] = q]
  BY DEF Creation!Answer
<1>. HIDE DEF q
<1>. QED  BY <1>1, <1>2, WholeRequest

\* Only request r moves.
LEMMA RequestKeeps ==
  ASSUME CreationInv, NEW r \in Requests, CreationTyped', RowsGrow, indexed' = indexed,
         \A q \in Requests : q # r => /\ requests'[q] = requests[q]
                                      /\ objects'[q] = objects[q] /\ tasks'[q] = tasks[q],
         (ObjectsCounted(r) /\ LookedUp(r) /\ ClearedBeforeWrite(r))'
  PROVE  CreationInv'
<1>1. ASSUME NEW q \in Requests, q # r
      PROVE  (ObjectsCounted(q) /\ LookedUp(q) /\ ClearedBeforeWrite(q))'
  <2>1. /\ requests'[q] = requests[q] /\ objects'[q] = objects[q]
        /\ tasks'[q] = tasks[q]
    BY <1>1
  <2>. QED  BY <2>1, RequestStays
<1>. QED  BY <1>1 DEF CreationInv

\* Only request r moves, and it writes nothing.
LEMMA ReaderKeeps ==
  ASSUME CreationInv, NEW r \in Requests, NEW at, NEW found, NEW stored, NEW unindexed,
         NEW answer, NewRequest(r, at, found, stored, unindexed, answer),
         UNCHANGED <<tasks, indexed, objects>>,
         (ObjectsCounted(r) /\ LookedUp(r) /\ ClearedBeforeWrite(r))'
  PROVE  CreationInv'
<1>1. CreationTyped'
  BY DEF CreationInv, CreationTyped, NewRequest
<1>2. RowsGrow
  BY DEF RowsGrow
<1>. QED  BY <1>1, <1>2, RequestKeeps DEF NewRequest

LEMMA KnownRequest ==
  ASSUME CreationInv, NEW r \in Requests
  PROVE  CreationTyped /\ ObjectsCounted(r) /\ LookedUp(r) /\ ClearedBeforeWrite(r)
  BY DEF CreationInv

LEMMA ValidateKeeps ==
  ASSUME CreationInv, NEW r \in Requests, Creation!ValidateRequest(r)
  PROVE  CreationInv'
<1>1. /\ UNCHANGED <<tasks, indexed, objects>> /\ requests[r].at = "new"
  BY DEF Creation!ValidateRequest, Creation!At
<1>2. CASE requests' = [requests EXCEPT ![r].at = "look-up",
                                        ![r].unindexed = Requests \ indexed]
  <2>. DEFINE q == [requests[r] EXCEPT !.at = "look-up", !.unindexed = Requests \ indexed]
  <2>1. /\ q \in RequestType /\ q.at = "look-up" /\ q.found = requests[r].found
        /\ q.stored = requests[r].stored /\ q.unindexed = Requests \ indexed
        /\ q.answer = requests[r].answer
    <3>1. "look-up" \in CreationSteps
      BY DEF CreationSteps
    <3>. QED  BY <3>1, KnownRequest, RequestFields DEF RequestType
  <2>2. requests' = [requests EXCEPT ![r] = q]
    BY <1>2
  <2>. HIDE DEF q
  <2>3. NewRequest(r, "look-up", requests[r].found, requests[r].stored,
                   Requests \ indexed, requests[r].answer)
    BY <2>1, <2>2, KnownRequest, WholeRequest
  <2>4. (ObjectsCounted(r) /\ LookedUp(r) /\ ClearedBeforeWrite(r))'
    BY <1>1, <2>3, KnownRequest
       DEF NewRequest, ObjectsCounted, LookedUp, ClearedBeforeWrite
  <2>. QED  BY <1>1, <2>3, <2>4, ReaderKeeps
<1>3. CASE Creation!Answer(r, "refused")
  <2>1. NewRequest(r, "done", requests[r].found, requests[r].stored,
                   requests[r].unindexed, "refused")
    BY <1>3, KnownRequest, AnswerRequest DEF Answers
  <2>2. (ObjectsCounted(r) /\ LookedUp(r) /\ ClearedBeforeWrite(r))'
    BY <1>1, <2>1, KnownRequest
       DEF NewRequest, ObjectsCounted, LookedUp, ClearedBeforeWrite
  <2>. QED  BY <1>1, <2>1, <2>2, ReaderKeeps
<1>. QED  BY <1>2, <1>3 DEF Creation!ValidateRequest

LEMMA LookUpKeyKeeps ==
  ASSUME CreationInv, NEW r \in Requests, Creation!LookUpKey(r)
  PROVE  CreationInv'
<1>1. /\ UNCHANGED <<tasks, indexed, objects>> /\ requests[r].at = "look-up"
  BY DEF Creation!LookUpKey, Creation!At
<1>2. CASE {t \in indexed : KeyOf[t] = KeyOf[r]} = {} /\ Creation!GoTo(r, "budget")
  <2>1. NewRequest(r, "budget", requests[r].found, requests[r].stored,
                   requests[r].unindexed, requests[r].answer)
    BY <1>2, KnownRequest, GoToRequest DEF CreationSteps
  <2>2. Cleared(r)
    <3>. SUFFICES ASSUME NEW t \in Requests, KeyOf[r] = KeyOf[t],
                         t \notin requests[r].unindexed
                  PROVE  FALSE
      BY DEF Cleared
    <3>1. t \in indexed
      BY <1>1, KnownRequest DEF LookedUp
    <3>. QED  BY <1>2, <3>1
  <2>3. (ObjectsCounted(r) /\ LookedUp(r) /\ ClearedBeforeWrite(r))'
    BY <1>1, <2>1, <2>2, KnownRequest
       DEF NewRequest, ObjectsCounted, LookedUp, ClearedBeforeWrite, Cleared
  <2>. QED  BY <1>1, <2>1, <2>3, ReaderKeeps
<1>3. ASSUME NEW t \in indexed, KeyOf[t] = KeyOf[r],
             requests' = [requests EXCEPT ![r].at = "get", ![r].found = t]
      PROVE  CreationInv'
  <2>1. t \in Requests /\ tasks[t] # "none"
    BY KnownRequest DEF CreationInv, CreationTyped, LookedUp
  <2>. DEFINE q == [requests[r] EXCEPT !.at = "get", !.found = t]
  <2>2. /\ q \in RequestType /\ q.at = "get" /\ q.found = t
        /\ q.stored = requests[r].stored /\ q.unindexed = requests[r].unindexed
        /\ q.answer = requests[r].answer
    <3>1. "get" \in CreationSteps
      BY DEF CreationSteps
    <3>. QED  BY <2>1, <3>1, KnownRequest, RequestFields DEF RequestType
  <2>3. requests' = [requests EXCEPT ![r] = q]
    BY <1>3
  <2>. HIDE DEF q
  <2>4. NewRequest(r, "get", t, requests[r].stored, requests[r].unindexed,
                   requests[r].answer)
    BY <2>2, <2>3, KnownRequest, WholeRequest
  <2>5. (ObjectsCounted(r) /\ LookedUp(r) /\ ClearedBeforeWrite(r))'
    BY <1>1, <1>3, <2>1, <2>4, KnownRequest
       DEF NewRequest, ObjectsCounted, LookedUp, ClearedBeforeWrite
  <2>. QED  BY <1>1, <2>4, <2>5, ReaderKeeps
<1>. QED  BY <1>2, <1>3 DEF Creation!LookUpKey

\* Before the attachments are stored an answer leaves nothing behind.
LEMMA EarlyAnswer ==
  ASSUME CreationInv, NEW r \in Requests,
         requests[r].at \in {"get", "budget", "screen"},
         NEW a \in {"refused", "replayed", "conflict", "error"}, Creation!Answer(r, a),
         UNCHANGED <<tasks, indexed, objects>>
  PROVE  CreationInv'
<1>1. NewRequest(r, "done", requests[r].found, requests[r].stored,
                 requests[r].unindexed, a)
  BY KnownRequest, AnswerRequest DEF Answers
<1>2. (ObjectsCounted(r) /\ LookedUp(r) /\ ClearedBeforeWrite(r))'
  BY <1>1, KnownRequest DEF NewRequest, ObjectsCounted, LookedUp, ClearedBeforeWrite
<1>. QED  BY <1>1, <1>2, ReaderKeeps

\* A request that has not stored anything yet goes on.
LEMMA EarlyStep ==
  ASSUME CreationInv, NEW r \in Requests,
         NEW s \in {"budget", "screen", "attach"}, Creation!GoTo(r, s),
         requests[r].at \in {"get", "budget", "screen"}, Cleared(r),
         UNCHANGED <<tasks, indexed, objects>>
  PROVE  CreationInv'
<1>1. NewRequest(r, s, requests[r].found, requests[r].stored, requests[r].unindexed,
                 requests[r].answer)
  BY KnownRequest, GoToRequest DEF CreationSteps
<1>2. (ObjectsCounted(r) /\ LookedUp(r) /\ ClearedBeforeWrite(r))'
  BY <1>1, KnownRequest
     DEF NewRequest, ObjectsCounted, LookedUp, ClearedBeforeWrite, Cleared
<1>. QED  BY <1>1, <1>2, ReaderKeeps

LEMMA ReplayTaskKeeps ==
  ASSUME CreationInv, NEW r \in Requests, Creation!ReplayTask(r)
  PROVE  CreationInv'
<1>1. /\ UNCHANGED <<tasks, indexed, objects>> /\ requests[r].at = "get"
      /\ \/ Creation!Answer(r, "replayed") \/ Creation!Answer(r, "conflict")
         \/ ~Creation!Exists(requests[r].found) /\ Creation!GoTo(r, "budget")
  BY DEF Creation!ReplayTask, Creation!At
<1>2. CASE Creation!Answer(r, "replayed") \/ Creation!Answer(r, "conflict")
  BY <1>1, <1>2, EarlyAnswer
<1>3. CASE ~Creation!Exists(requests[r].found) /\ Creation!GoTo(r, "budget")
  <2>1. /\ requests[r].found \in Requests /\ KeyOf[requests[r].found] = KeyOf[r]
        /\ tasks[requests[r].found] = "gone"
    BY <1>1, <1>3, KnownRequest DEF LookedUp, Creation!Exists
  <2>2. Cleared(r)
    BY <2>1 DEF Cleared
  <2>. QED  BY <1>1, <1>3, <2>2, EarlyStep
<1>. QED  BY <1>1, <1>2, <1>3

LEMMA AdmitAndScreenKeep ==
  ASSUME CreationInv, NEW r \in Requests,
         Creation!AdmitBudget(r) \/ Creation!ScreenDescription(r)
  PROVE  CreationInv'
<1>1. /\ UNCHANGED <<tasks, indexed, objects>> /\ requests[r].at \in {"budget", "screen"}
      /\ \/ Creation!Answer(r, "refused") \/ Creation!Answer(r, "error")
         \/ Creation!GoTo(r, "screen") \/ Creation!GoTo(r, "attach")
  BY DEF Creation!AdmitBudget, Creation!ScreenDescription, Creation!At
<1>2. Cleared(r)
  BY <1>1, KnownRequest DEF ClearedBeforeWrite
<1>. QED  BY <1>1, <1>2, EarlyAnswer, EarlyStep

\* The row of r is written or changed, its objects counted, or neither.
LEMMA WriterKeeps ==
  ASSUME CreationInv, NEW r \in Requests, NEW at, NEW found, NEW stored, NEW unindexed,
         NEW answer, NewRequest(r, at, found, stored, unindexed, answer),
         CreationTyped', indexed' = indexed,
         \A q \in Requests : q # r => objects'[q] = objects[q] /\ tasks'[q] = tasks[q],
         tasks[r] # "none" => tasks'[r] # "none", tasks[r] = "gone" => tasks'[r] = "gone",
         (ObjectsCounted(r) /\ LookedUp(r) /\ ClearedBeforeWrite(r))'
  PROVE  CreationInv'
<1>1. RowsGrow
  BY DEF RowsGrow
<1>. QED  BY <1>1, RequestKeeps DEF NewRequest

\* The key stays cleared while rows grow.
LEMMA StillCleared ==
  ASSUME NEW r \in Requests, Cleared(r), RowsGrow,
         requests'[r].unindexed = requests[r].unindexed
  PROVE  Cleared(r)'
  BY DEF Cleared, RowsGrow

LEMMA CleanupKeeps ==
  ASSUME CreationInv, NEW r \in Requests, Creation!CleanupOrphanedAttachments(r),
         requests[r].at \in {"attach", "size"}, UNCHANGED <<tasks, indexed>>
  PROVE  CreationInv'
<1>1. \/ /\ objects' = [objects EXCEPT ![r] = @ - requests[r].stored]
         /\ Creation!Answer(r, "refused") \/ Creation!Answer(r, "error")
      \/ objects' = objects /\ Creation!Answer(r, "refused-not-cleaned-up")
  BY DEF Creation!CleanupOrphanedAttachments
<1>2. /\ objects' \in [Requests -> Int]
      /\ \A q \in Requests : q # r => objects'[q] = objects[q]
      /\ objects'[r] = objects[r] \/ objects'[r] = objects[r] - requests[r].stored
  BY <1>1, KnownRequest, RequestFields DEF CreationTyped
<1>3. ASSUME NEW a \in {"refused", "error", "refused-not-cleaned-up"}, Creation!Answer(r, a),
             a = "refused" => objects'[r] = 0
      PROVE  CreationInv'
  <2>1. NewRequest(r, "done", requests[r].found, requests[r].stored,
                   requests[r].unindexed, a)
    BY <1>3, KnownRequest, AnswerRequest DEF Answers
  <2>2. CreationTyped'
    BY <1>2, <2>1, KnownRequest DEF CreationTyped, NewRequest
  <2>3. ObjectsCounted(r)'
    BY <1>3, <2>1 DEF NewRequest, ObjectsCounted
  <2>4. LookedUp(r)' /\ ClearedBeforeWrite(r)'
    BY <2>1, KnownRequest DEF NewRequest, LookedUp, ClearedBeforeWrite
  <2>. QED  BY <1>2, <2>1, <2>2, <2>3, <2>4, WriterKeeps
<1>4. CASE /\ objects' = [objects EXCEPT ![r] = @ - requests[r].stored]
           /\ Creation!Answer(r, "refused") \/ Creation!Answer(r, "error")
  <2>1. objects[r] = requests[r].stored
    BY KnownRequest DEF ObjectsCounted
  <2>2. objects'[r] = 0
    BY <1>4, <2>1, KnownRequest, RequestFields DEF CreationTyped
  <2>. QED  BY <1>3, <1>4, <2>2
<1>. QED  BY <1>1, <1>3, <1>4

\* A request goes on to a step before the write, or to the one after it.
LEMMA LaterStep ==
  ASSUME CreationInv, NEW r \in Requests, NEW s \in {"size", "put"}, Creation!GoTo(r, s),
         requests[r].at \in {"attach", "size"}, UNCHANGED <<tasks, indexed, objects>>
  PROVE  CreationInv'
<1>1. NewRequest(r, s, requests[r].found, requests[r].stored, requests[r].unindexed,
                 requests[r].answer)
  BY KnownRequest, GoToRequest DEF CreationSteps
<1>2. (ObjectsCounted(r) /\ LookedUp(r) /\ ClearedBeforeWrite(r))'
  BY <1>1, KnownRequest
     DEF NewRequest, ObjectsCounted, LookedUp, ClearedBeforeWrite, Cleared
<1>. QED  BY <1>1, <1>2, ReaderKeeps

LEMMA AttachKeeps ==
  ASSUME CreationInv, NEW r \in Requests,
         Creation!StoreAttachment(r) \/ Creation!CheckAttachmentRecords(r)
  PROVE  CreationInv'
<1>1. /\ UNCHANGED <<tasks, indexed>> /\ requests[r].at \in {"attach", "size"}
  BY DEF Creation!StoreAttachment, Creation!CheckAttachmentRecords, Creation!At
<1>2. \/ /\ requests[r].at = "attach"
         /\ objects' = [objects EXCEPT ![r] = @ + 1]
         /\ requests' = [requests EXCEPT ![r].stored = @ + 1]
      \/ Creation!CleanupOrphanedAttachments(r)
      \/ objects' = objects /\ (Creation!GoTo(r, "size") \/ Creation!GoTo(r, "put"))
  BY DEF Creation!StoreAttachment, Creation!CheckAttachmentRecords, Creation!At
<1>3. CASE /\ requests[r].at = "attach"
           /\ objects' = [objects EXCEPT ![r] = @ + 1]
           /\ requests' = [requests EXCEPT ![r].stored = @ + 1]
  <2>. DEFINE q == [requests[r] EXCEPT !.stored = @ + 1]
  <2>1. /\ q \in RequestType /\ q.at = requests[r].at /\ q.found = requests[r].found
        /\ q.stored = requests[r].stored + 1 /\ q.unindexed = requests[r].unindexed
        /\ q.answer = requests[r].answer
    BY KnownRequest, RequestFields DEF RequestType
  <2>2. requests' = [requests EXCEPT ![r] = q]
    BY <1>3
  <2>. HIDE DEF q
  <2>3. NewRequest(r, requests[r].at, requests[r].found, requests[r].stored + 1,
                   requests[r].unindexed, requests[r].answer)
    BY <2>1, <2>2, KnownRequest, WholeRequest
  <2>4. /\ objects' \in [Requests -> Int] /\ objects'[r] = objects[r] + 1
        /\ \A p \in Requests : p # r => objects'[p] = objects[p]
    BY <1>3, KnownRequest, RequestFields DEF CreationTyped
  <2>5. CreationTyped'
    BY <1>1, <2>3, <2>4, KnownRequest DEF CreationTyped, NewRequest
  <2>6. ObjectsCounted(r)'
    BY <1>3, <2>3, <2>4, KnownRequest DEF NewRequest, ObjectsCounted
  <2>7. LookedUp(r)' /\ ClearedBeforeWrite(r)'
    BY <1>1, <1>3, <2>3, KnownRequest DEF NewRequest, LookedUp, ClearedBeforeWrite, Cleared
  <2>. QED  BY <1>1, <2>3, <2>4, <2>5, <2>6, <2>7, WriterKeeps
<1>. QED  BY <1>1, <1>2, <1>3, CleanupKeeps, LaterStep

\* The write of the row: what follows it, or an error.
LEMMA PutTaskKeeps ==
  ASSUME CreationInv, NEW r \in Requests, Creation!PutTask(r)
  PROVE  CreationInv'
<1>1. /\ UNCHANGED <<indexed, objects>> /\ requests[r].at = "put"
      /\ \/ tasks' = tasks
         \/ tasks' = [tasks EXCEPT ![r] = Creation!InitialStatus(r)]
      /\ \/ Creation!GoTo(r, "presign") \/ Creation!GoTo(r, "invoke")
         \/ Creation!Answer(r, "error")
      /\ tasks' = tasks => Creation!Answer(r, "error")
                             \/ tasks[r] = Creation!InitialStatus(r)
  BY KnownRequest DEF Creation!PutTask, Creation!At, CreationTyped
<1>2. Creation!InitialStatus(r) \in {"PENDING_UPLOADS", "SUBMITTED"}
  BY DEF Creation!InitialStatus
<1>3. tasks[r] = "none" /\ Cleared(r)
  BY <1>1, KnownRequest DEF CreationTyped, LookedUp, ClearedBeforeWrite
<1>4. /\ tasks' \in [Requests -> {"none", "PENDING_UPLOADS", "SUBMITTED", "FAILED",
                                  "ENDED", "gone"}]
      /\ \A q \in Requests : q # r => tasks'[q] = tasks[q]
      /\ tasks'[r] # "gone"
  BY <1>1, <1>2, <1>3, KnownRequest DEF CreationTyped
<1>5. RowsGrow
  BY <1>3, <1>4 DEF RowsGrow
<1>6. ASSUME NEW s \in {"presign", "invoke", "done"}, NEW a,
             NewRequest(r, s, requests[r].found, requests[r].stored,
                        requests[r].unindexed, a),
             s # "done" => a = requests[r].answer,
             s = "done" => a = "error"
      PROVE  CreationInv'
  <2>1. CreationTyped'
    BY <1>1, <1>4, <1>6, KnownRequest DEF CreationTyped, NewRequest
  <2>2. ObjectsCounted(r)'
    BY <1>1, <1>6, KnownRequest DEF NewRequest, ObjectsCounted
  <2>3. LookedUp(r)'
    BY <1>1, <1>3, <1>4, <1>6, KnownRequest DEF NewRequest, LookedUp
  <2>4. ClearedBeforeWrite(r)'
    BY <1>3, <1>5, <1>6, StillCleared DEF NewRequest, ClearedBeforeWrite
  <2>. QED  BY <1>1, <1>3, <1>4, <1>6, <2>1, <2>2, <2>3, <2>4, WriterKeeps
<1>7. "presign" \in CreationSteps /\ "invoke" \in CreationSteps /\ "error" \in Answers
  BY DEF CreationSteps, Answers
<1>8. CASE Creation!GoTo(r, "presign")
  <2>1. NewRequest(r, "presign", requests[r].found, requests[r].stored,
                   requests[r].unindexed, requests[r].answer)
    BY <1>7, <1>8, KnownRequest, GoToRequest
  <2>2. "presign" # "done" /\ "invoke" # "done"
    OBVIOUS
  <2>. QED  BY <1>6, <2>1, <2>2, Zenon
<1>9. CASE Creation!GoTo(r, "invoke")
  <2>1. NewRequest(r, "invoke", requests[r].found, requests[r].stored,
                   requests[r].unindexed, requests[r].answer)
    BY <1>7, <1>9, KnownRequest, GoToRequest
  <2>2. "presign" # "done" /\ "invoke" # "done"
    OBVIOUS
  <2>. QED  BY <1>6, <2>1, <2>2, Zenon
<1>10. CASE Creation!Answer(r, "error")
  <2>1. NewRequest(r, "done", requests[r].found, requests[r].stored,
                   requests[r].unindexed, "error")
    BY <1>7, <1>10, KnownRequest, AnswerRequest
  <2>2. "presign" # "done" /\ "invoke" # "done"
    OBVIOUS
  <2>. QED  BY <1>6, <2>1, <2>2, Zenon
<1>. QED  BY <1>1, <1>8, <1>9, <1>10

\* After the write the caller is answered.
LEMMA CreatedKeeps ==
  ASSUME CreationInv, NEW r \in Requests,
         Creation!InvokeOrchestrator(r) \/ Creation!GenerateUploadInstructions(r)
  PROVE  CreationInv'
<1>1. /\ UNCHANGED <<indexed, objects>> /\ requests[r].at \in {"invoke", "presign"}
      /\ \E a \in {"created", "error"} : Creation!Answer(r, a)
      /\ \/ tasks' = tasks
         \/ requests[r].at = "presign" /\ tasks' = [tasks EXCEPT ![r] = "FAILED"]
  BY DEF Creation!InvokeOrchestrator, Creation!GenerateUploadInstructions, Creation!At
<1>2. PICK a \in {"created", "error"} : Creation!Answer(r, a)
  BY <1>1
<1>3. NewRequest(r, "done", requests[r].found, requests[r].stored,
                 requests[r].unindexed, a)
  BY <1>2, KnownRequest, AnswerRequest DEF Answers
<1>4. Cleared(r)
  BY <1>1, KnownRequest DEF ClearedBeforeWrite
<1>5. CASE tasks' = tasks
  <2>1. (ObjectsCounted(r) /\ LookedUp(r) /\ ClearedBeforeWrite(r))'
    BY <1>1, <1>3, <1>4, <1>5, KnownRequest
       DEF NewRequest, ObjectsCounted, LookedUp, ClearedBeforeWrite, Cleared
  <2>. QED  BY <1>1, <1>3, <1>5, <2>1, ReaderKeeps
<1>6. CASE tasks' = [tasks EXCEPT ![r] = "FAILED"] /\ tasks[r] # "gone"
  <2>1. /\ tasks' \in [Requests -> {"none", "PENDING_UPLOADS", "SUBMITTED", "FAILED",
                                    "ENDED", "gone"}]
        /\ \A q \in Requests : q # r => tasks'[q] = tasks[q]
        /\ tasks'[r] = "FAILED"
    BY <1>6, KnownRequest DEF CreationTyped
  <2>2. RowsGrow
    BY <1>6, <2>1 DEF RowsGrow
  <2>3. CreationTyped'
    BY <1>1, <1>3, <2>1, KnownRequest DEF CreationTyped, NewRequest
  <2>4. ObjectsCounted(r)' /\ LookedUp(r)'
    BY <1>1, <1>3, <2>1, KnownRequest DEF NewRequest, ObjectsCounted, LookedUp
  <2>5. ClearedBeforeWrite(r)'
    BY <1>3, <1>4, <2>2, StillCleared DEF NewRequest, ClearedBeforeWrite
  <2>. QED  BY <1>1, <1>3, <1>6, <2>1, <2>3, <2>4, <2>5, WriterKeeps
<1>7. requests[r].at = "presign" => tasks[r] # "gone"
  BY KnownRequest DEF LookedUp
<1>. QED  BY <1>1, <1>5, <1>6, <1>7

\* The index catches up, a row expires, a task ends: no request moves.
LEMMA RowLives ==
  ASSUME CreationInv, NEW r \in Requests,
         Creation!Replicate(r) \/ Creation!ExpireRow(r) \/ Creation!TaskEnds(r)
  PROVE  CreationInv'
<1>1. /\ UNCHANGED <<objects, requests>>
      /\ \/ tasks' = tasks /\ tasks[r] # "none" /\ indexed' = indexed \cup {r}
         \/ /\ requests[r].at = "done" /\ tasks[r] # "none" /\ indexed' = indexed
            /\ tasks' = [tasks EXCEPT ![r] = "gone"]
         \/ /\ tasks[r] = "SUBMITTED" /\ indexed' = indexed
            /\ tasks' = [tasks EXCEPT ![r] = "ENDED"]
  BY DEF Creation!Replicate, Creation!ExpireRow, Creation!TaskEnds
<1>2. /\ tasks' \in [Requests -> {"none", "PENDING_UPLOADS", "SUBMITTED", "FAILED",
                                  "ENDED", "gone"}]
      /\ \A q \in Requests : q # r => tasks'[q] = tasks[q]
      /\ tasks'[r] # "none" /\ tasks[r] # "none"
      /\ tasks[r] = "gone" => tasks'[r] = "gone"
      /\ tasks'[r] = "gone" => tasks[r] = "gone" \/ requests[r].at = "done"
      /\ indexed' \in SUBSET Requests /\ indexed \subseteq indexed'
      /\ \A q \in indexed' : q \in indexed \/ q = r
  BY <1>1, KnownRequest DEF CreationTyped
<1>3. CreationTyped' /\ RowsGrow
  BY <1>1, <1>2, KnownRequest DEF CreationTyped, RowsGrow
<1>4. ASSUME NEW q \in Requests
      PROVE  (ObjectsCounted(q) /\ LookedUp(q) /\ ClearedBeforeWrite(q))'
  BY <1>1, <1>2, <1>3, RequestStays
<1>. QED  BY <1>3, <1>4 DEF CreationInv

LEMMA CreationStep == CreationInv /\ [Creation!Next]_(Creation!vars) => CreationInv'
<1>. SUFFICES ASSUME CreationInv, [Creation!Next]_(Creation!vars) PROVE CreationInv'
  OBVIOUS
<1>1. CASE UNCHANGED Creation!vars
  BY <1>1 DEF Creation!vars, CreationInv, CreationTyped, ObjectsCounted, LookedUp,
     ClearedBeforeWrite, Cleared
<1>2. CASE Creation!Next
  <2>1. PICK r \in Requests : \/ Creation!CreateTask(r) \/ Creation!Replicate(r)
                              \/ Creation!ExpireRow(r) \/ Creation!TaskEnds(r)
    BY <1>2 DEF Creation!Next
  <2>. QED
    BY <2>1, ValidateKeeps, LookUpKeyKeeps, ReplayTaskKeeps, AdmitAndScreenKeep,
       AttachKeeps, PutTaskKeeps, CreatedKeeps, RowLives DEF Creation!CreateTask
<1>. QED  BY <1>1, <1>2

\* However many requests under however many keys race each other and the index, a
\* request makes a second task only where the index did not show it the first, or
\* showed one that had gone; and a refusal leaves no object behind.
THEOREM OneTaskOfARequest == Spec => []OneTaskOrNothing
<1>. DEFINE I == subject = "creation" => CreationInv
<1>1. Init => I
  BY CreationInit DEF Init
<1>2. I /\ [Next]_vars => I'
  BY OnlyOne, CreationStep
<1>3. I => OneTaskOrNothing
  BY CreationImplies DEF OneTaskOrNothing
<1>. HIDE DEF I
<1>. QED  BY <1>1, <1>2, <1>3, PTL DEF Spec

-----------------------------------------------------------------------------
(***************************************************************************)
(* FanOut: what is posted is there once, and what has passed was posted    *)
(***************************************************************************)

FanOutSteps == {"idle", "todo", "ok", "failed", "save", "post", "clean-up"}

BatchType == [from : Int, to : Int, at : Int, failed : Int, count : Int, attempt : Int]

CommentType == [named : {"none", "shown", "deleted"}, others : Int, shows : Int]

FanOutTyped ==
    /\ esm \in BatchType
    /\ step \in [{"github", "origin"} -> FanOutSteps]
    /\ dispatched \in [marks : SUBSET FanOuts!Kinds, prUrl : BOOLEAN]
    /\ github \in CommentType
    /\ posts \in [FanOuts!Kinds -> Int]
    /\ said \in BOOLEAN

AtHand == FanOuts!Kind(esm.at)

\* A post of a kind is marked, or is about to be.
Saving(k) == step["origin"] = "save" /\ AtHand = k

PostsCounted ==
    /\ github.others = IF step["github"] = "save" THEN 1 ELSE 0
    /\ \A k \in FanOuts!Kinds \ {"alert"} :
         posts[k] <= (IF k \in dispatched.marks THEN 1 ELSE 0) + (IF Saving(k) THEN 1 ELSE 0)
    /\ posts["alert"] <= IF "alert" \in dispatched.marks THEN 1 ELSE 0

\* A tracker's comment was not marked before; Slack's outcome was, and is not there.
OriginKnows ==
    /\ origin # "slack" /\ step["origin"] = "save" => AtHand \notin dispatched.marks
    /\ origin = "slack" /\ step["origin"] \in {"todo", "post", "save", "clean-up"} =>
         AtHand \in FanOuts!ProgressMessages \cup {"alert"}
    /\ origin = "slack" /\ step["origin"] = "save" => AtHand # "alert"
    /\ origin = "slack" /\ step["origin"] = "post" /\ AtHand = "alert" =>
         posts["alert"] <= 0 /\ "alert" \in dispatched.marks
    /\ esm.to = 0 => \A c \in {"github", "origin"} : step[c] = "idle"

FanOutInv == FanOutTyped /\ PostsCounted /\ OriginKnows

LEMMA KindFacts ==
  /\ AtHand \in FanOuts!Kinds
  /\ origin # "slack" => AtHand # "alert"
  /\ origin = "slack" /\ FanOuts!Subscribed(origin, esm.at) =>
       AtHand \in FanOuts!ProgressMessages \cup {"alert"}
  /\ "alert" \in FanOuts!Kinds /\ "alert" \notin FanOuts!ProgressMessages
  /\ "pr" \in FanOuts!Kinds /\ "pr" \notin FanOuts!ProgressMessages
  /\ "final" \in FanOuts!Kinds /\ "final" \notin FanOuts!ProgressMessages
  /\ FanOuts!ProgressMessages \subseteq FanOuts!Kinds
<1>1. AtHand \in FanOuts!Kinds
  BY DEF AtHand, FanOuts!Kind, FanOuts!Kinds
<1>2. origin # "slack" => AtHand # "alert"
  BY DEF AtHand, FanOuts!Kind, FanOuts!ProgressMessages
<1>3. origin = "slack" /\ FanOuts!Subscribed(origin, esm.at) =>
        AtHand \in FanOuts!ProgressMessages \cup {"alert"}
  BY DEF AtHand, FanOuts!Kind, FanOuts!Subscribed, FanOuts!ChannelDefaults,
     FanOuts!TimedOut, FanOuts!TerminalEvents, FanOuts!ProgressMessages
<1>. QED  BY <1>1, <1>2, <1>3 DEF FanOuts!Kinds, FanOuts!ProgressMessages

LEMMA SameKind ==
  ASSUME origin' = origin, esm'.at = esm.at
  PROVE  AtHand' = AtHand
  BY DEF AtHand, FanOuts!Kind

LEMMA FanOutInit == FanOuts!Init => FanOutInv
<1>. SUFFICES ASSUME FanOuts!Init PROVE FanOutInv
  OBVIOUS
<1>1. /\ esm = [from |-> 1, to |-> 0, at |-> 0, failed |-> 0, count |-> 0, attempt |-> 0]
      /\ step = [c \in {"github", "origin"} |-> "idle"]
      /\ dispatched = [marks |-> {}, prUrl |-> FALSE]
      /\ github = [named |-> "none", others |-> 0, shows |-> 0]
      /\ posts = [k \in FanOuts!Kinds |-> 0] /\ said = FALSE
  BY DEF FanOuts!Init, FanOuts!NoBatch, FanOuts!Channels
<1>2. FanOutTyped
  <2>1. esm \in BatchType
    BY <1>1 DEF BatchType
  <2>2. step \in [{"github", "origin"} -> FanOutSteps]
    BY <1>1 DEF FanOutSteps
  <2>3. /\ dispatched \in [marks : SUBSET FanOuts!Kinds, prUrl : BOOLEAN]
        /\ posts \in [FanOuts!Kinds -> Int]
    BY <1>1
  <2>4. github \in CommentType
    BY <1>1 DEF CommentType
  <2>. QED  BY <1>1, <2>1, <2>2, <2>3, <2>4 DEF FanOutTyped
<1>3. PostsCounted
  BY <1>1, KindFacts DEF PostsCounted, Saving
<1>4. OriginKnows
  BY <1>1 DEF OriginKnows
<1>. QED  BY <1>2, <1>3, <1>4 DEF FanOutInv

LEMMA FanOutImplies == FanOutInv => FanOuts!PostedOnce
<1>. SUFFICES ASSUME FanOutInv PROVE FanOuts!PostedOnce
  OBVIOUS
<1>1. FanOuts!OneGithubComment
  BY DEF FanOutInv, PostsCounted, FanOuts!OneGithubComment, FanOuts!Unrecorded
<1>2. FanOuts!SlackOutcomeOnce
  BY KindFacts DEF FanOutInv, FanOutTyped, PostsCounted, FanOuts!SlackOutcomeOnce
<1>3. FanOuts!FinalCommentOnce
  <2>. SUFFICES ASSUME NEW k \in {"pr", "final"} PROVE posts[k] <= 1
    BY DEF FanOuts!FinalCommentOnce
  <2>1. k \in FanOuts!Kinds \ {"alert"} /\ k \notin FanOuts!ProgressMessages
    BY KindFacts
  <2>2. Saving(k) => k \notin dispatched.marks
    BY <2>1 DEF Saving, FanOutInv, OriginKnows
  <2>3. posts[k] \in Int
    BY <2>1 DEF FanOutInv, FanOutTyped
  <2>. QED  BY <2>1, <2>2, <2>3 DEF FanOutInv, PostsCounted
<1>4. FanOuts!NoGhostMessages
  <2>. SUFFICES ASSUME NEW k \in FanOuts!ProgressMessages
                PROVE  posts[k] <= 1 + IF FanOuts!AtSlack("save") /\ AtHand = k
                                         THEN 1 ELSE 0
    BY DEF FanOuts!NoGhostMessages, AtHand
  <2>1. k \in FanOuts!Kinds \ {"alert"} /\ posts[k] \in Int
    BY KindFacts DEF FanOutInv, FanOutTyped
  <2>2. Saving(k) /\ ~FanOuts!AtSlack("save") => k \notin dispatched.marks
    BY DEF Saving, FanOutInv, OriginKnows, FanOuts!AtSlack
  <2>3. Saving(k) /\ FanOuts!AtSlack("save") => FanOuts!AtSlack("save") /\ AtHand = k
    BY DEF Saving
  <2>. QED  BY <2>1, <2>2, <2>3 DEF FanOutInv, PostsCounted
<1>. QED  BY <1>1, <1>2, <1>3, <1>4 DEF FanOuts!PostedOnce

\* A step of a channel is one of the steps.
LEMMA StepOf ==
  ASSUME FanOutTyped, NEW c \in {"github", "origin"}, NEW s \in FanOutSteps,
         FanOuts!Step(c, s)
  PROVE  /\ step' \in [{"github", "origin"} -> FanOutSteps] /\ step'[c] = s
         /\ \A d \in {"github", "origin"} : d # c => step'[d] = step[d]
  BY DEF FanOutTyped, FanOuts!Step

LEMMA PostedFields ==
  ASSUME FanOutTyped
  PROVE  /\ \A k \in FanOuts!Kinds : posts[k] \in Int
         /\ github.others \in Int /\ github.shows \in Int
         /\ esm.from \in Int /\ esm.to \in Int /\ esm.at \in Int /\ esm.failed \in Int
         /\ esm.count \in Int /\ esm.attempt \in Int
         /\ dispatched.marks \in SUBSET FanOuts!Kinds
  BY DEF FanOutTyped, BatchType, CommentType

\* Between two records no channel is at work; nothing that was posted changes.
LEMMA LoopKeeps ==
  ASSUME FanOutInv, esm' \in BatchType, step' \in [{"github", "origin"} -> FanOutSteps],
         UNCHANGED <<origin, dispatched, github, posts, said>>,
         \A c \in {"github", "origin"} : step[c] \in {"idle", "ok", "failed"},
         \/ \A c \in {"github", "origin"} : step'[c] = "idle"
         \/ /\ esm'.at = esm.at /\ esm'.to # 0
            /\ step'["github"] \in {"todo", "ok"} /\ step'["origin"] \in {"todo", "ok"}
            /\ step'["origin"] = "todo" => FanOuts!Subscribed(origin, esm.at)
  PROVE  FanOutInv'
<1>1. FanOutTyped'
  BY DEF FanOutInv, FanOutTyped
<1>2. PostsCounted'
  BY DEF FanOutInv, PostsCounted, Saving
<1>3. OriginKnows'
  <2>1. CASE \A c \in {"github", "origin"} : step'[c] = "idle"
    BY <2>1 DEF OriginKnows
  <2>2. CASE /\ esm'.at = esm.at /\ esm'.to # 0
             /\ step'["github"] \in {"todo", "ok"} /\ step'["origin"] \in {"todo", "ok"}
             /\ step'["origin"] = "todo" => FanOuts!Subscribed(origin, esm.at)
    BY <2>2, SameKind, KindFacts DEF OriginKnows
  <2>. QED  BY <2>1, <2>2
<1>. QED  BY <1>1, <1>2, <1>3 DEF FanOutInv

LEMMA BatchFields ==
  ASSUME NEW b \in BatchType, NEW f \in Int, NEW t \in Int, NEW i \in Int, NEW n \in Int
  PROVE  /\ [b EXCEPT !.from = f, !.to = t, !.at = i, !.attempt = n] \in BatchType
         /\ [b EXCEPT !.to = t, !.at = i, !.failed = f, !.count = n] \in BatchType
         /\ [b EXCEPT !.at = i, !.failed = f] \in BatchType
         /\ [b EXCEPT !.from = f] \in BatchType
  BY DEF BatchType

LEMMA EmptyBatch == FanOuts!NoBatch \in BatchType
  BY DEF FanOuts!NoBatch, BatchType

\* A batch that comes again, or is given up, is a batch.
LEMMA RedeliverType ==
  ASSUME FanOutTyped, NEW f \in Int, FanOuts!Redeliver(f)
  PROVE  esm' \in BatchType
<1>1. \/ esm' = [FanOuts!NoBatch EXCEPT !.from = f, !.to = esm.to, !.at = f,
                                       !.attempt = esm.attempt + 1]
      \/ esm' = [FanOuts!NoBatch EXCEPT !.from = esm.to + 1]
  BY DEF FanOuts!Redeliver
<1>2. esm.to \in Int /\ esm.attempt + 1 \in Int /\ esm.to + 1 \in Int
  BY PostedFields
<1>3. /\ [FanOuts!NoBatch EXCEPT !.from = f, !.to = esm.to, !.at = f,
                                !.attempt = esm.attempt + 1] \in BatchType
      /\ [FanOuts!NoBatch EXCEPT !.from = esm.to + 1] \in BatchType
  BY <1>2, EmptyBatch, BatchFields, Zenon
<1>. QED  BY <1>1, <1>3, Zenon

LEMMA BatchKeeps ==
  ASSUME FanOutInv, FanOuts!Poll \/ FanOuts!EndBatch
  PROVE  FanOutInv'
<1>1. /\ UNCHANGED <<origin, dispatched, github, posts, said, step>>
      /\ \A c \in {"github", "origin"} : step[c] = "idle"
  BY DEF FanOutInv, OriginKnows, FanOuts!Poll, FanOuts!EndBatch, FanOuts!Idle,
     FanOuts!Running, FanOuts!Channels
<1>2. esm' \in BatchType
  <2>1. CASE FanOuts!Poll
    <3>1. PICK to \in esm.from .. Len(Events) :
            esm' = [esm EXCEPT !.to = to, !.at = esm.from, !.failed = 0, !.count = 0]
      BY <2>1 DEF FanOuts!Poll
    <3>2. to \in Int /\ esm \in BatchType /\ esm.from \in Int /\ 0 \in Int
      BY PostedFields DEF FanOutInv, FanOutTyped
    <3>3. [esm EXCEPT !.to = to, !.at = esm.from, !.failed = 0, !.count = 0] \in BatchType
      BY <3>2, BatchFields, Zenon
    <3>. QED  BY <3>1, <3>3, Zenon
  <2>2. CASE FanOuts!EndBatch
    <3>1. \/ esm' = [FanOuts!NoBatch EXCEPT !.from = esm.to + 1]
          \/ FanOuts!Redeliver(esm.failed)
      BY <2>2 DEF FanOuts!EndBatch
    <3>2. esm.to + 1 \in Int /\ esm.failed \in Int /\ FanOutTyped
      BY PostedFields DEF FanOutInv
    <3>3. [FanOuts!NoBatch EXCEPT !.from = esm.to + 1] \in BatchType
      BY <3>2, EmptyBatch, BatchFields, Zenon
    <3>4. CASE FanOuts!Redeliver(esm.failed)
      BY <3>2, <3>4, RedeliverType
    <3>5. CASE esm' = [FanOuts!NoBatch EXCEPT !.from = esm.to + 1]
      BY <3>3, <3>5, Zenon
    <3>. QED  BY <3>1, <3>4, <3>5
  <2>. QED  BY <2>1, <2>2
<1>3. step' \in [{"github", "origin"} -> FanOutSteps]
  BY <1>1 DEF FanOutInv, FanOutTyped
<1>. QED  BY <1>1, <1>2, <1>3, LoopKeeps

LEMMA RouteEventKeeps ==
  ASSUME FanOutInv, FanOuts!RouteEvent
  PROVE  FanOutInv'
<1>1. /\ UNCHANGED <<origin, dispatched, github, posts, said>> /\ esm.to # 0
      /\ \A c \in {"github", "origin"} : step[c] = "idle"
      /\ \/ step' = step /\ esm' = [esm EXCEPT !.at = esm.at + 1]
         \/ /\ esm' = [esm EXCEPT !.count = @ + 1]
            /\ step' = [c \in {"github", "origin"} |->
                          IF FanOuts!Wanted(c, esm.at) THEN "todo" ELSE "ok"]
  BY DEF FanOuts!RouteEvent, FanOuts!Running, FanOuts!Idle, FanOuts!Channels
<1>2. CASE step' = step /\ esm' = [esm EXCEPT !.at = esm.at + 1]
  <2>1. esm' \in BatchType
    BY <1>2, PostedFields DEF FanOutInv, FanOutTyped, BatchType
  <2>. QED  BY <1>1, <1>2, <2>1, LoopKeeps DEF FanOutInv, FanOutTyped
<1>3. CASE /\ esm' = [esm EXCEPT !.count = @ + 1]
           /\ step' = [c \in {"github", "origin"} |->
                         IF FanOuts!Wanted(c, esm.at) THEN "todo" ELSE "ok"]
  <2>1. esm' \in BatchType /\ esm'.at = esm.at /\ esm'.to = esm.to
    BY <1>3, PostedFields DEF FanOutInv, FanOutTyped, BatchType
  <2>2. "todo" \in FanOutSteps /\ "ok" \in FanOutSteps
    BY DEF FanOutSteps
  <2>3. /\ step' \in [{"github", "origin"} -> FanOutSteps]
        /\ step'["github"] \in {"todo", "ok"} /\ step'["origin"] \in {"todo", "ok"}
        /\ step'["origin"] = "todo" => FanOuts!Subscribed(origin, esm.at)
    BY <1>3, <2>2 DEF FanOuts!Wanted
  <2>. QED  BY <1>1, <2>1, <2>3, LoopKeeps
<1>. QED  BY <1>1, <1>2, <1>3

LEMMA RecordSettledKeeps ==
  ASSUME FanOutInv, FanOuts!RecordSettled
  PROVE  FanOutInv'
<1>1. /\ UNCHANGED <<origin, dispatched, github, posts, said>>
      /\ \A c \in {"github", "origin"} : step[c] \in {"ok", "failed"}
      /\ step' = [c \in {"github", "origin"} |-> "idle"]
  BY DEF FanOuts!RecordSettled, FanOuts!Channels
<1>2. esm' \in BatchType
  <2>1. PICK rejected \in BOOLEAN :
          esm' = [esm EXCEPT !.at = @ + 1,
                             !.failed = IF @ = 0 /\ rejected THEN esm.at ELSE @]
    BY DEF FanOuts!RecordSettled
  <2>. DEFINE f == IF esm.failed = 0 /\ rejected THEN esm.at ELSE esm.failed
  <2>2. esm' = [esm EXCEPT !.at = esm.at + 1, !.failed = f]
    BY <2>1
  <2>3. f \in Int /\ esm.at + 1 \in Int /\ esm \in BatchType
    BY PostedFields DEF FanOutInv, FanOutTyped
  <2>. HIDE DEF f
  <2>. QED  BY <2>2, <2>3, BatchFields
<1>3. step' \in [{"github", "origin"} -> FanOutSteps]
  BY <1>1 DEF FanOutSteps
<1>. QED  BY <1>1, <1>2, <1>3, LoopKeeps

LEMMA FanOutCrashKeeps ==
  ASSUME FanOutInv, FanOuts!Crash
  PROVE  FanOutInv'
<1>1. /\ UNCHANGED <<origin, dispatched, said>> /\ FanOuts!Redeliver(esm.from)
      /\ step' = [c \in {"github", "origin"} |-> "idle"]
      /\ github' = [github EXCEPT !.others = @ - IF step["github"] = "save" THEN 1 ELSE 0]
      /\ posts' = IF step["origin"] = "save"
                    THEN [posts EXCEPT ![AtHand] = @ - 1] ELSE posts
  BY DEF FanOuts!Crash, FanOuts!Unrecorded, FanOuts!Channels, AtHand
<1>2. esm' \in BatchType
  BY <1>1, PostedFields, RedeliverType DEF FanOutInv
<1>3. step' \in [{"github", "origin"} -> FanOutSteps]
  BY <1>1 DEF FanOutSteps
<1>4. posts' \in [FanOuts!Kinds -> Int] /\ github' \in CommentType /\ github'.others = 0
  BY <1>1, KindFacts, PostedFields DEF FanOutInv, FanOutTyped, CommentType, PostsCounted
<1>5. FanOutTyped'
  BY <1>1, <1>2, <1>3, <1>4 DEF FanOutInv, FanOutTyped
<1>6. ASSUME NEW k \in FanOuts!Kinds
      PROVE  posts'[k] = posts[k] - IF Saving(k) THEN 1 ELSE 0
  BY <1>1, <1>6, KindFacts, PostedFields DEF FanOutInv, FanOutTyped, Saving
<1>7. PostsCounted'
  <2>1. ASSUME NEW k \in FanOuts!Kinds \ {"alert"}
        PROVE  posts'[k] <= IF k \in dispatched.marks THEN 1 ELSE 0
    <3>1. posts[k] \in Int
      BY PostedFields DEF FanOutInv
    <3>. QED  BY <1>6, <2>1, <3>1 DEF FanOutInv, PostsCounted
  <2>2. posts'["alert"] <= IF "alert" \in dispatched.marks THEN 1 ELSE 0
    <3>1. posts["alert"] \in Int /\ "alert" \in FanOuts!Kinds
      BY KindFacts, PostedFields DEF FanOutInv
    <3>. QED  BY <1>6, <3>1 DEF FanOutInv, PostsCounted
  <2>. QED  BY <1>1, <1>4, <2>1, <2>2 DEF PostsCounted, Saving
<1>8. OriginKnows'
  BY <1>1 DEF OriginKnows
<1>. QED  BY <1>5, <1>7, <1>8 DEF FanOutInv

\* A channel that is at work, in an invocation
LEMMA AtWorkFacts ==
  ASSUME FanOutInv, NEW c \in {"github", "origin"}, step[c] # "idle"
  PROVE  esm.to # 0 /\ FanOutTyped
  BY DEF FanOutInv, OriginKnows

LEMMA CommentFields ==
  ASSUME NEW c \in CommentType, NEW x \in Int, NEW y \in Int
  PROVE  /\ [c EXCEPT !.shows = x, !.others = y] \in CommentType
         /\ [c EXCEPT !.named = "shown", !.others = y] \in CommentType
  BY DEF CommentType

LEMMA GithubKeeps ==
  ASSUME FanOutInv, FanOuts!UpsertTaskComment \/ FanOuts!SaveCommentState
  PROVE  FanOutInv'
<1>1. /\ UNCHANGED <<origin, esm, dispatched, posts, said>>
      /\ \/ /\ step["github"] = "todo"
            /\ \/ FanOuts!Step("github", "ok") /\ github'.others = github.others
               \/ FanOuts!Step("github", "failed") /\ github'.others = github.others
               \/ FanOuts!Step("github", "save") /\ github'.others = github.others + 1
         \/ /\ step["github"] = "save"
            /\ FanOuts!Step("github", "ok") /\ github'.others = github.others - 1
      /\ github' \in CommentType
  <2>. DEFINE edited == [github EXCEPT !.shows = esm.at]
              posted == [github EXCEPT !.shows = esm.at, !.others = github.others + 1]
              named == [github EXCEPT !.named = "shown", !.others = github.others - 1]
              lost == [github EXCEPT !.others = @ - 1]
  <2>1. /\ github \in CommentType /\ edited \in CommentType /\ posted \in CommentType
        /\ named \in CommentType /\ lost \in CommentType
        /\ edited.others = github.others /\ posted.others = github.others + 1
        /\ named.others = github.others - 1 /\ lost.others = github.others - 1
    <3>1. /\ github \in CommentType /\ esm.at \in Int
          /\ github.others + 1 \in Int /\ github.others - 1 \in Int
      BY PostedFields DEF FanOutInv, FanOutTyped
    <3>2. edited \in CommentType /\ edited.others = github.others
      BY <3>1 DEF CommentType
    <3>3. posted \in CommentType
      BY <3>1, CommentFields, Zenon
    <3>4. posted.others = github.others + 1
      BY <3>1 DEF CommentType
    <3>5. named \in CommentType
      BY <3>1, CommentFields, Zenon
    <3>6. named.others = github.others - 1
      BY <3>1 DEF CommentType
    <3>7. lost \in CommentType /\ lost.others = github.others - 1
      BY <3>1 DEF CommentType
    <3>. QED  BY <3>1, <3>2, <3>3, <3>4, <3>5, <3>6, <3>7, Zenon
  <2>2. \/ /\ UNCHANGED <<origin, esm, dispatched, posts, said>> /\ step["github"] = "todo"
           /\ \/ FanOuts!Step("github", "ok") /\ (github' = edited \/ github' = github)
              \/ FanOuts!Step("github", "failed") /\ (github' = edited \/ github' = github)
              \/ FanOuts!Step("github", "save") /\ github' = posted
        \/ /\ UNCHANGED <<origin, esm, dispatched, posts, said>> /\ step["github"] = "save"
           /\ FanOuts!Step("github", "ok") /\ (github' = named \/ github' = lost)
    <3>1. CASE FanOuts!UpsertTaskComment
      BY <3>1 DEF FanOuts!UpsertTaskComment
    <3>2. CASE FanOuts!SaveCommentState
      BY <3>2 DEF FanOuts!SaveCommentState
    <3>. QED  BY <3>1, <3>2
  <2>. HIDE DEF edited, posted, named, lost
  <2>. QED  BY <2>1, <2>2
<1>2. esm.to # 0 /\ FanOutTyped
  BY <1>1, AtWorkFacts
<1>3. /\ step' \in [{"github", "origin"} -> FanOutSteps]
      /\ step'["origin"] = step["origin"]
      /\ github'.others = IF step'["github"] = "save" THEN 1 ELSE 0
  <2>1. "ok" \in FanOutSteps /\ "failed" \in FanOutSteps /\ "save" \in FanOutSteps
    BY DEF FanOutSteps
  <2>2. github.others = IF step["github"] = "save" THEN 1 ELSE 0
    BY DEF FanOutInv, PostsCounted
  <2>3. CASE FanOuts!Step("github", "ok")
    BY <1>1, <1>2, <2>1, <2>2, <2>3, StepOf, PostedFields
  <2>4. CASE FanOuts!Step("github", "failed") /\ github'.others = github.others
    BY <1>1, <1>2, <2>1, <2>2, <2>4, StepOf, PostedFields
  <2>5. CASE FanOuts!Step("github", "save") /\ github'.others = github.others + 1
    BY <1>1, <1>2, <2>1, <2>2, <2>5, StepOf, PostedFields
  <2>. QED  BY <1>1, <2>3, <2>4, <2>5
<1>4. AtHand' = AtHand
  BY <1>1, SameKind
<1>5. FanOutTyped'
  BY <1>1, <1>2, <1>3 DEF FanOutTyped
<1>6. PostsCounted'
  BY <1>1, <1>3, <1>4 DEF FanOutInv, PostsCounted, Saving
<1>7. OriginKnows'
  BY <1>1, <1>2, <1>3, <1>4 DEF FanOutInv, OriginKnows
<1>. QED  BY <1>5, <1>6, <1>7 DEF FanOutInv

\* The channel of the origin moves; of the posts, only those of the kind at hand do.
LEMMA OriginStep ==
  ASSUME FanOutInv, NEW s \in FanOutSteps, FanOuts!Step("origin", s),
         step["origin"] # "idle", UNCHANGED <<origin, esm, github>>,
         said' \in BOOLEAN, posts' \in [FanOuts!Kinds -> Int],
         dispatched' \in [marks : SUBSET FanOuts!Kinds, prUrl : BOOLEAN],
         \A k \in FanOuts!Kinds \ {AtHand} :
            posts'[k] <= posts[k] /\ (k \in dispatched.marks <=> k \in dispatched'.marks),
         AtHand # "alert" =>
            posts'[AtHand] <= (IF AtHand \in dispatched'.marks THEN 1 ELSE 0)
                                + (IF s = "save" THEN 1 ELSE 0),
         AtHand = "alert" => posts'["alert"] <= IF "alert" \in dispatched'.marks THEN 1 ELSE 0,
         step["origin"] = "save" => s = "ok",
         origin # "slack" /\ s = "save" => AtHand \notin dispatched'.marks,
         origin = "slack" /\ s \in {"todo", "post", "save", "clean-up"} =>
            AtHand \in FanOuts!ProgressMessages \cup {"alert"},
         origin = "slack" /\ s = "save" => AtHand # "alert",
         origin = "slack" /\ s = "post" /\ AtHand = "alert" =>
            posts'["alert"] <= 0 /\ "alert" \in dispatched'.marks
  PROVE  FanOutInv'
<1>1. esm.to # 0 /\ FanOutTyped /\ AtHand' = AtHand /\ AtHand \in FanOuts!Kinds
  BY AtWorkFacts, SameKind, KindFacts
<1>2. /\ step' \in [{"github", "origin"} -> FanOutSteps]
      /\ step'["origin"] = s /\ step'["github"] = step["github"]
  BY <1>1, StepOf
<1>3. FanOutTyped'
  BY <1>1, <1>2 DEF FanOutTyped
<1>4. PostsCounted'
  <2>1. ASSUME NEW k \in FanOuts!Kinds \ {"alert"}
        PROVE  posts'[k] <= (IF k \in dispatched'.marks THEN 1 ELSE 0)
                              + (IF s = "save" /\ AtHand = k THEN 1 ELSE 0)
    <3>1. CASE k = AtHand
      BY <2>1, <3>1
    <3>2. CASE k # AtHand
      <4>1. posts[k] <= IF k \in dispatched.marks THEN 1 ELSE 0
        BY <2>1, <3>2 DEF FanOutInv, PostsCounted, Saving
      <4>2. posts[k] \in Int /\ posts'[k] \in Int
        BY <1>1, <2>1, PostedFields
      <4>. QED  BY <2>1, <3>2, <4>1, <4>2
    <3>. QED  BY <3>1, <3>2
  <2>2. posts'["alert"] <= IF "alert" \in dispatched'.marks THEN 1 ELSE 0
    <3>1. CASE AtHand # "alert"
      <4>1. "alert" \in FanOuts!Kinds /\ posts["alert"] \in Int /\ posts'["alert"] \in Int
        BY <1>1, PostedFields, KindFacts
      <4>. QED  BY <3>1, <4>1 DEF FanOutInv, PostsCounted
    <3>. QED  BY <3>1
  <2>. QED  BY <1>1, <1>2, <2>1, <2>2 DEF FanOutInv, PostsCounted, Saving
<1>5. OriginKnows'
  BY <1>1, <1>2 DEF OriginKnows
<1>. QED  BY <1>3, <1>4, <1>5 DEF FanOutInv

\* A post: it is there, or it is not and the channel is done with it.
LEMMA PostOutcome ==
  ASSUME FanOutTyped, NEW s, FanOuts!Post(s)
  PROVE  /\ said' \in BOOLEAN
         /\ \/ FanOuts!Step("origin", s) /\ posts' = [posts EXCEPT ![AtHand] = @ + 1]
            \/ FanOuts!Step("origin", "failed") /\ posts' = posts
            \/ FanOuts!Step("origin", "ok") /\ posts' = posts
  BY DEF FanOuts!Post, AtHand, FanOutTyped

\* The channel is done, and has neither posted nor marked anything.
LEMMA OriginDone ==
  ASSUME FanOutInv, NEW s \in {"ok", "failed"}, FanOuts!Step("origin", s),
         step["origin"] \in {"todo", "post"}, said' \in BOOLEAN,
         UNCHANGED <<origin, esm, github, dispatched, posts>>
  PROVE  FanOutInv'
<1>1. FanOutTyped /\ s \in FanOutSteps /\ AtHand \in FanOuts!Kinds
  BY KindFacts DEF FanOutInv, FanOutSteps
<1>2. \A k \in FanOuts!Kinds : posts[k] \in Int
  BY <1>1, PostedFields
<1>3. AtHand # "alert" => posts[AtHand] <= IF AtHand \in dispatched.marks THEN 1 ELSE 0
  BY <1>1, <1>2 DEF FanOutInv, PostsCounted, Saving
<1>4. posts["alert"] <= IF "alert" \in dispatched.marks THEN 1 ELSE 0
  BY DEF FanOutInv, PostsCounted
<1>5. /\ posts' \in [FanOuts!Kinds -> Int]
      /\ dispatched' \in [marks : SUBSET FanOuts!Kinds, prUrl : BOOLEAN]
  BY <1>1 DEF FanOutTyped
<1>. QED  BY <1>1, <1>2, <1>3, <1>4, <1>5, OriginStep

LEMMA KindAtHand ==
  ASSUME FanOutInv
  PROVE  /\ FanOutTyped /\ AtHand \in FanOuts!Kinds /\ posts[AtHand] \in Int
         /\ dispatched \in [marks : SUBSET FanOuts!Kinds, prUrl : BOOLEAN]
         /\ dispatched.marks \in SUBSET FanOuts!Kinds
         /\ posts \in [FanOuts!Kinds -> Int] /\ said \in BOOLEAN
         /\ "ok" \in FanOutSteps /\ "failed" \in FanOutSteps /\ "save" \in FanOutSteps
         /\ "post" \in FanOutSteps /\ "clean-up" \in FanOutSteps
         /\ AtHand # "alert" =>
              posts[AtHand] <= (IF AtHand \in dispatched.marks THEN 1 ELSE 0)
                                 + (IF step["origin"] = "save" THEN 1 ELSE 0)
         /\ posts["alert"] <= IF "alert" \in dispatched.marks THEN 1 ELSE 0
<1>1. /\ FanOutTyped /\ AtHand \in FanOuts!Kinds /\ posts[AtHand] \in Int
      /\ dispatched.marks \in SUBSET FanOuts!Kinds
  BY KindFacts, PostedFields DEF FanOutInv
<1>2. /\ "ok" \in FanOutSteps /\ "failed" \in FanOutSteps /\ "save" \in FanOutSteps
      /\ "post" \in FanOutSteps /\ "clean-up" \in FanOutSteps
  BY DEF FanOutSteps
<1>. QED  BY <1>1, <1>2 DEF FanOutInv, FanOutTyped, PostsCounted, Saving

LEMMA DispatchToTrackerKeeps ==
  ASSUME FanOutInv, FanOuts!DispatchToTracker
  PROVE  FanOutInv'
<1>1. /\ UNCHANGED <<origin, esm, dispatched, github>>
      /\ origin # "slack" /\ step["origin"] = "todo"
      /\ \/ FanOuts!Step("origin", "ok") /\ UNCHANGED <<posts, said>>
         \/ FanOuts!Step("origin", "failed") /\ UNCHANGED <<posts, said>>
         \/ AtHand \notin dispatched.marks /\ FanOuts!Post("save")
  BY DEF FanOuts!DispatchToTracker, FanOuts!AtTracker, AtHand
<1>2. CASE (FanOuts!Step("origin", "ok") \/ FanOuts!Step("origin", "failed"))
             /\ UNCHANGED posts /\ said' \in BOOLEAN
  BY <1>1, <1>2, OriginDone
<1>3. CASE /\ AtHand \notin dispatched.marks /\ FanOuts!Step("origin", "save")
           /\ posts' = [posts EXCEPT ![AtHand] = @ + 1] /\ said' \in BOOLEAN
  <2>1. /\ posts' \in [FanOuts!Kinds -> Int] /\ posts'[AtHand] = posts[AtHand] + 1
        /\ \A k \in FanOuts!Kinds \ {AtHand} : posts'[k] = posts[k] /\ posts[k] \in Int
    BY <1>3, KindAtHand, PostedFields
  <2>2. AtHand # "alert"
    BY <1>1, KindFacts
  <2>3. posts'[AtHand] <= (IF AtHand \in dispatched.marks THEN 1 ELSE 0) + 1
    BY <1>1, <1>3, <2>1, <2>2, KindAtHand
  <2>. QED  BY <1>1, <1>3, <2>1, <2>2, <2>3, KindAtHand, OriginStep
<1>. QED  BY <1>1, <1>2, <1>3, KindAtHand, PostOutcome

LEMMA SaveDispatchMarkerKeeps ==
  ASSUME FanOutInv, FanOuts!SaveDispatchMarker
  PROVE  FanOutInv'
<1>1. /\ UNCHANGED <<origin, esm, github, said>> /\ FanOuts!Step("origin", "ok")
      /\ origin # "slack" /\ step["origin"] = "save"
      /\ \/ /\ dispatched' = [dispatched EXCEPT !.marks = @ \cup {AtHand}]
            /\ posts' = posts
         \/ dispatched' = dispatched /\ posts' = [posts EXCEPT ![AtHand] = @ - 1]
  BY DEF FanOuts!SaveDispatchMarker, FanOuts!AtTracker, AtHand
<1>2. AtHand # "alert" /\ AtHand \notin dispatched.marks
  BY <1>1, KindFacts DEF FanOutInv, OriginKnows
<1>3. /\ posts' \in [FanOuts!Kinds -> Int]
      /\ dispatched' \in [marks : SUBSET FanOuts!Kinds, prUrl : BOOLEAN]
      /\ \A k \in FanOuts!Kinds \ {AtHand} :
            /\ posts'[k] <= posts[k]
            /\ k \in dispatched.marks <=> k \in dispatched'.marks
      /\ posts'[AtHand] <= IF AtHand \in dispatched'.marks THEN 1 ELSE 0
  <2>1. posts[AtHand] <= 1 /\ \A k \in FanOuts!Kinds : posts[k] \in Int
    BY <1>1, <1>2, KindAtHand, PostedFields
  <2>2. CASE /\ dispatched' = [dispatched EXCEPT !.marks = @ \cup {AtHand}]
             /\ posts' = posts
    <3>1. /\ dispatched' \in [marks : SUBSET FanOuts!Kinds, prUrl : BOOLEAN]
          /\ dispatched'.marks = dispatched.marks \cup {AtHand}
      BY <2>2, KindAtHand
    <3>. QED  BY <2>1, <2>2, <3>1, KindAtHand
  <2>3. CASE dispatched' = dispatched /\ posts' = [posts EXCEPT ![AtHand] = @ - 1]
    <3>1. /\ posts' \in [FanOuts!Kinds -> Int] /\ posts'[AtHand] = posts[AtHand] - 1
          /\ \A k \in FanOuts!Kinds \ {AtHand} : posts'[k] = posts[k]
      BY <2>1, <2>3, KindAtHand
    <3>. QED  BY <1>2, <2>1, <2>3, <3>1, KindAtHand
  <2>. QED  BY <1>1, <2>2, <2>3
<1>. QED  BY <1>1, <1>2, <1>3, KindAtHand, OriginStep

LEMMA ClaimSlackPostKeeps ==
  ASSUME FanOutInv, FanOuts!ClaimSlackPost
  PROVE  FanOutInv'
<1>1. /\ UNCHANGED <<origin, esm, github, posts, said>>
      /\ origin = "slack" /\ step["origin"] = "todo"
      /\ \/ AtHand # "alert" /\ FanOuts!Step("origin", "post") /\ dispatched' = dispatched
         \/ FanOuts!Step("origin", "ok") /\ dispatched' = dispatched
         \/ /\ AtHand = "alert" /\ AtHand \notin dispatched.marks
            /\ dispatched' = [dispatched EXCEPT !.marks = @ \cup {AtHand}]
            /\ FanOuts!Step("origin", "post")
         \/ FanOuts!Step("origin", "failed") /\ dispatched' = dispatched
  BY DEF FanOuts!ClaimSlackPost, FanOuts!AtSlack, AtHand
<1>2. AtHand \in FanOuts!ProgressMessages \cup {"alert"}
  BY <1>1 DEF FanOutInv, OriginKnows
<1>3. CASE (FanOuts!Step("origin", "ok") \/ FanOuts!Step("origin", "failed"))
             /\ dispatched' = dispatched
  BY <1>1, <1>3, KindAtHand, OriginDone
<1>4. CASE AtHand # "alert" /\ FanOuts!Step("origin", "post") /\ dispatched' = dispatched
  <2>1. /\ \A k \in FanOuts!Kinds \ {AtHand} : posts'[k] <= posts[k]
        /\ posts'[AtHand] <= IF AtHand \in dispatched.marks THEN 1 ELSE 0
    BY <1>1, <1>4, KindAtHand, PostedFields
  <2>. QED  BY <1>1, <1>2, <1>4, <2>1, KindAtHand, OriginStep
<1>5. CASE /\ AtHand = "alert" /\ AtHand \notin dispatched.marks
           /\ dispatched' = [dispatched EXCEPT !.marks = @ \cup {AtHand}]
           /\ FanOuts!Step("origin", "post")
  <2>1. /\ dispatched' \in [marks : SUBSET FanOuts!Kinds, prUrl : BOOLEAN]
        /\ dispatched'.marks = dispatched.marks \cup {"alert"}
    BY <1>5, KindAtHand
  <2>2. /\ \A k \in FanOuts!Kinds \ {AtHand} :
              posts'[k] <= posts[k] /\ (k \in dispatched.marks <=> k \in dispatched'.marks)
        /\ posts'["alert"] <= 0
    BY <1>1, <1>5, <2>1, KindAtHand, PostedFields
  <2>3. posts'["alert"] <= IF "alert" \in dispatched'.marks THEN 1 ELSE 0
    BY <1>1, <1>5, <2>1, <2>2, KindAtHand
  <2>. QED  BY <1>1, <1>2, <1>5, <2>1, <2>2, <2>3, KindAtHand, OriginStep
<1>. QED  BY <1>1, <1>3, <1>4, <1>5

LEMMA PostSlackMessageKeeps ==
  ASSUME FanOutInv, FanOuts!PostSlackMessage
  PROVE  FanOutInv'
<1>. DEFINE s == IF AtHand = "alert" THEN "clean-up" ELSE "save"
<1>1. /\ UNCHANGED <<origin, esm, github, dispatched>>
      /\ origin = "slack" /\ step["origin"] = "post" /\ FanOuts!Post(s)
  BY DEF FanOuts!PostSlackMessage, FanOuts!AtSlack, AtHand
<1>2. /\ AtHand \in FanOuts!ProgressMessages \cup {"alert"}
      /\ AtHand = "alert" => posts["alert"] <= 0 /\ "alert" \in dispatched.marks
  BY <1>1 DEF FanOutInv, OriginKnows
<1>3. /\ s \in FanOutSteps /\ (s = "save" => AtHand # "alert") /\ s # "post"
      /\ AtHand # "alert" => s = "save"
  BY KindAtHand
<1>. HIDE DEF s
<1>4. CASE (FanOuts!Step("origin", "ok") \/ FanOuts!Step("origin", "failed"))
             /\ UNCHANGED posts /\ said' \in BOOLEAN
  BY <1>1, <1>4, OriginDone
<1>5. CASE /\ FanOuts!Step("origin", s) /\ said' \in BOOLEAN
           /\ posts' = [posts EXCEPT ![AtHand] = @ + 1]
  <2>1. /\ posts' \in [FanOuts!Kinds -> Int] /\ posts'[AtHand] = posts[AtHand] + 1
        /\ \A k \in FanOuts!Kinds \ {AtHand} : posts'[k] <= posts[k]
    BY <1>5, KindAtHand, PostedFields
  <2>2. AtHand # "alert" =>
          posts'[AtHand] <= (IF AtHand \in dispatched.marks THEN 1 ELSE 0)
                              + (IF s = "save" THEN 1 ELSE 0)
    BY <1>1, <1>3, <2>1, KindAtHand
  <2>3. AtHand = "alert" => posts'["alert"] <= IF "alert" \in dispatched.marks THEN 1 ELSE 0
    BY <1>2, <2>1, KindAtHand
  <2>. QED  BY <1>1, <1>2, <1>3, <1>5, <2>1, <2>2, <2>3, KindAtHand, OriginStep
<1>. QED  BY <1>1, <1>4, <1>5, KindAtHand, PostOutcome

LEMMA StoreMessageTsKeeps ==
  ASSUME FanOutInv, FanOuts!StoreMessageTs
  PROVE  FanOutInv'
<1>1. /\ UNCHANGED <<origin, esm, github, said>> /\ FanOuts!Step("origin", "ok")
      /\ origin = "slack" /\ step["origin"] = "save"
      /\ \/ /\ dispatched' = [dispatched EXCEPT !.marks = @ \cup {AtHand}]
            /\ AtHand \notin dispatched.marks /\ posts' = posts
         \/ dispatched' = dispatched /\ posts' = [posts EXCEPT ![AtHand] = @ - 1]
  BY DEF FanOuts!StoreMessageTs, FanOuts!AtSlack, AtHand
<1>2. AtHand # "alert"
  BY <1>1 DEF FanOutInv, OriginKnows
<1>3. \A k \in FanOuts!Kinds : posts[k] \in Int
  BY KindAtHand, PostedFields
<1>4. CASE /\ dispatched' = [dispatched EXCEPT !.marks = @ \cup {AtHand}]
           /\ AtHand \notin dispatched.marks /\ posts' = posts
  <2>1. /\ dispatched' \in [marks : SUBSET FanOuts!Kinds, prUrl : BOOLEAN]
        /\ dispatched'.marks = dispatched.marks \cup {AtHand}
    BY <1>4, KindAtHand
  <2>2. /\ \A k \in FanOuts!Kinds \ {AtHand} :
              posts'[k] <= posts[k] /\ (k \in dispatched.marks <=> k \in dispatched'.marks)
        /\ posts'[AtHand] <= IF AtHand \in dispatched'.marks THEN 1 ELSE 0
    BY <1>1, <1>2, <1>3, <1>4, <2>1, KindAtHand
  <2>. QED  BY <1>1, <1>2, <1>4, <2>1, <2>2, KindAtHand, OriginStep
<1>5. CASE dispatched' = dispatched /\ posts' = [posts EXCEPT ![AtHand] = @ - 1]
  <2>1. /\ posts' \in [FanOuts!Kinds -> Int] /\ posts'[AtHand] = posts[AtHand] - 1
        /\ \A k \in FanOuts!Kinds \ {AtHand} : posts'[k] <= posts[k]
    BY <1>3, <1>5, KindAtHand
  <2>2. posts'[AtHand] <= IF AtHand \in dispatched.marks THEN 1 ELSE 0
    BY <1>1, <1>2, <2>1, KindAtHand
  <2>. QED  BY <1>1, <1>2, <1>5, <2>1, <2>2, KindAtHand, OriginStep
<1>. QED  BY <1>1, <1>4, <1>5

LEMMA TerminalCleanupKeeps ==
  ASSUME FanOutInv, FanOuts!TerminalCleanup
  PROVE  FanOutInv'
<1>1. /\ UNCHANGED <<origin, esm, github, dispatched, said>> /\ FanOuts!Step("origin", "ok")
      /\ origin = "slack" /\ step["origin"] = "clean-up"
      /\ posts' = [k \in FanOuts!Kinds |->
           posts[k] - IF k \in FanOuts!ProgressMessages \cap dispatched.marks THEN 1 ELSE 0]
  BY DEF FanOuts!TerminalCleanup, FanOuts!AtSlack
<1>2. \A k \in FanOuts!Kinds : posts[k] \in Int
  BY KindAtHand, PostedFields
<1>3. /\ posts' \in [FanOuts!Kinds -> Int]
      /\ \A k \in FanOuts!Kinds : posts'[k] <= posts[k] /\ posts'[k] \in Int
  BY <1>1, <1>2
<1>4. /\ AtHand # "alert" => posts'[AtHand] <= IF AtHand \in dispatched.marks THEN 1 ELSE 0
      /\ posts'["alert"] <= IF "alert" \in dispatched.marks THEN 1 ELSE 0
  BY <1>1, <1>2, <1>3, KindAtHand, KindFacts
<1>. QED  BY <1>1, <1>3, <1>4, KindAtHand, OriginStep

\* The agent's last write, and the user's hand: no channel moves.
LEMMA OutsideKeeps ==
  ASSUME FanOutInv, FanOuts!PersistPrUrl \/ FanOuts!UserDeletesComment
  PROVE  FanOutInv'
<1>1. /\ UNCHANGED <<origin, esm, step, posts, said>>
      /\ dispatched'.marks = dispatched.marks /\ github'.others = github.others
      /\ dispatched' \in [marks : SUBSET FanOuts!Kinds, prUrl : BOOLEAN]
      /\ github' \in CommentType
  BY DEF FanOuts!PersistPrUrl, FanOuts!UserDeletesComment, FanOutInv, FanOutTyped,
     CommentType
<1>2. AtHand' = AtHand
  BY <1>1, SameKind
<1>3. FanOutTyped'
  BY <1>1 DEF FanOutInv, FanOutTyped
<1>4. PostsCounted' /\ OriginKnows'
  BY <1>1, <1>2 DEF FanOutInv, PostsCounted, OriginKnows, Saving
<1>. QED  BY <1>3, <1>4 DEF FanOutInv

LEMMA FanOutStep == FanOutInv /\ [FanOuts!Next]_(FanOuts!vars) => FanOutInv'
<1>. SUFFICES ASSUME FanOutInv, [FanOuts!Next]_(FanOuts!vars) PROVE FanOutInv'
  OBVIOUS
<1>1. CASE UNCHANGED FanOuts!vars
  <2>1. UNCHANGED <<origin, esm, step, dispatched, github, posts, said>>
    BY <1>1 DEF FanOuts!vars
  <2>2. AtHand' = AtHand
    BY <2>1, SameKind
  <2>. QED
    BY <2>1, <2>2 DEF FanOutInv, FanOutTyped, PostsCounted, OriginKnows, Saving
<1>2. CASE FanOuts!Next
  BY <1>2, BatchKeeps, RouteEventKeeps, RecordSettledKeeps, FanOutCrashKeeps, GithubKeeps,
     DispatchToTrackerKeeps, SaveDispatchMarkerKeeps, ClaimSlackPostKeeps,
     PostSlackMessageKeeps, StoreMessageTsKeeps, TerminalCleanupKeeps, OutsideKeeps
     DEF FanOuts!Next, FanOuts!Handler
<1>. QED  BY <1>1, <1>2

\* However often records come again, whichever calls fail and wherever an invocation
\* dies: but for posts whose id was lost, a task has one comment on GitHub, one outcome
\* on its channel, and no second progress message.
THEOREM OnePostOfEach == Spec => []PostedOnce
<1>. DEFINE I == subject = "fan-out" => FanOutInv
<1>1. Init => I
  BY FanOutInit DEF Init
<1>2. I /\ [Next]_vars => I'
  BY OnlyOne, FanOutStep
<1>3. I => PostedOnce
  BY FanOutImplies DEF PostedOnce
<1>. HIDE DEF I
<1>. QED  BY <1>1, <1>2, <1>3, PTL DEF Spec

-----------------------------------------------------------------------------

\* The events are a sequence of types; the origins are those the handler knows.
GivenUp(ch, r) == \E why \in {ch, "dlq", "capped"} : <<why, r>> \in missed

ShownOrMissed(r) ==
    FanOuts!Subscribed("github", r) /\ ~GivenUp("github", r) => github.shows >= r

SaidOrMissed(r) ==
    origin # "slack" /\ Events[r] \in FanOuts!TimedOut /\ ~GivenUp(origin, r) => said

\* The records that are behind the batch, and those of the batch before its first
\* failure, have been dealt with.
Behind(r) == r < esm.from \/ (r < esm.at /\ (esm.failed = 0 \/ r < esm.failed))

PassedInv ==
    /\ origin \in Origins
    /\ esm.from >= 1 /\ esm.to >= 0
    /\ esm.to # 0 => esm.from <= esm.at
    /\ esm.to = 0 => esm.at = 0 /\ esm.failed = 0
    /\ esm.failed # 0 => esm.from <= esm.failed /\ esm.failed < esm.at
    /\ \A r \in DOMAIN Events : Behind(r) => ShownOrMissed(r) /\ SaidOrMissed(r)
    /\ step["github"] \in {"ok", "save"} => ShownOrMissed(esm.at)
    /\ step["origin"] = "ok" => SaidOrMissed(esm.at)
    /\ origin # "slack" /\ step["origin"] = "save" /\ AtHand = "final" => said
    /\ origin # "slack" /\ "final" \in dispatched.marks => said

LEMMA Position ==
  ASSUME Stream, NEW r \in DOMAIN Events
  PROVE  r \in Int /\ r >= 1
  BY DEF Stream

LEMMA EventFacts ==
  ASSUME Stream, origin \in Origins, NEW r
  PROVE  /\ origin # "slack" /\ Events[r] \in FanOuts!TimedOut =>
              /\ FanOuts!Subscribed(origin, r) /\ FanOuts!Kind(r) = "final"
              /\ FanOuts!ShouldFanOut(r)
         /\ FanOuts!Subscribed("github", r) => FanOuts!ShouldFanOut(r)
<1>1. "github" \in DOMAIN FanOuts!ChannelDefaults /\ "linear" \in DOMAIN FanOuts!ChannelDefaults
  BY DEF FanOuts!ChannelDefaults
<1>2. FanOuts!Subscribed("github", r) => FanOuts!ShouldFanOut(r)
  BY <1>1 DEF FanOuts!ShouldFanOut
<1>3. Events[r] \in FanOuts!TimedOut =>
        FanOuts!Subscribed("linear", r) /\ FanOuts!Subscribed("jira", r)
  BY DEF FanOuts!Subscribed, FanOuts!ChannelDefaults
<1>4. Events[r] \in FanOuts!TimedOut => FanOuts!ShouldFanOut(r)
  BY <1>1, <1>3 DEF FanOuts!ShouldFanOut
<1>5. origin # "slack" => origin \in {"linear", "jira"}
  BY DEF Stream
<1>6. origin # "slack" /\ Events[r] \in FanOuts!TimedOut => FanOuts!Kind(r) = "final"
  BY DEF FanOuts!Kind, FanOuts!TimedOut, FanOuts!TerminalEvents, FanOuts!ProgressMessages
<1>. QED  BY <1>2, <1>3, <1>4, <1>5, <1>6

LEMMA PassedInit ==
  ASSUME Stream, FanOuts!Init
  PROVE  PassedInv
<1>1. /\ esm.from = 1 /\ esm.to = 0 /\ esm.at = 0 /\ esm.failed = 0
      /\ step["github"] = "idle" /\ step["origin"] = "idle"
      /\ dispatched.marks = {} /\ origin \in Origins
  BY DEF FanOuts!Init, FanOuts!NoBatch, FanOuts!Channels
<1>. QED  BY <1>1, Position DEF PassedInv, Behind

\* What was given up stays given up, and what was said stays said.
LEMMA StillSaid ==
  ASSUME origin' = origin, missed \subseteq missed', said => said', NEW r, SaidOrMissed(r)
  PROVE  SaidOrMissed(r)'
  BY DEF SaidOrMissed, GivenUp

LEMMA StillShown ==
  ASSUME missed \subseteq missed', github'.shows = github.shows, NEW r, ShownOrMissed(r)
  PROVE  ShownOrMissed(r)'
  BY DEF ShownOrMissed, GivenUp

\* A step that leaves the batch where it is.
LEMMA ChannelPasses ==
  ASSUME Stream, FanOutInv, PassedInv, missed \subseteq missed', said => said', esm.to # 0,
         UNCHANGED <<origin, esm.from, esm.to, esm.at, esm.failed>>,
         github'.shows = github.shows \/ github'.shows = esm.at,
         step'["github"] \in {"ok", "save"} => ShownOrMissed(esm.at)',
         step'["origin"] = "ok" => SaidOrMissed(esm.at)',
         origin # "slack" /\ step'["origin"] = "save" /\ AtHand = "final" => said',
         origin # "slack" /\ "final" \in dispatched'.marks => said'
  PROVE  PassedInv'
<1>1. ASSUME NEW r \in DOMAIN Events, Behind(r)'
      PROVE  ShownOrMissed(r)' /\ SaidOrMissed(r)'
  <2>1. Behind(r) /\ ShownOrMissed(r) /\ SaidOrMissed(r)
    BY <1>1 DEF PassedInv, Behind
  <2>2. r \in Int /\ esm.at \in Int /\ esm.from \in Int
    BY Position, PostedFields DEF FanOutInv
  <2>3. r <= esm.at
    BY <2>1, <2>2 DEF PassedInv, Behind
  <2>4. github'.shows = esm.at => ShownOrMissed(r)'
    BY <2>2, <2>3 DEF ShownOrMissed
  <2>5. github'.shows = github.shows => ShownOrMissed(r)'
    BY <2>1, StillShown
  <2>6. SaidOrMissed(r)'
    BY <2>1, StillSaid
  <2>. QED  BY <2>4, <2>5, <2>6
<1>2. AtHand' = AtHand
  BY SameKind
<1>. QED  BY <1>1, <1>2 DEF PassedInv, Behind

\* A step of the loop after which no channel is at work.
LEMMA LoopPasses ==
  ASSUME Stream, PassedInv, missed \subseteq missed',
         UNCHANGED <<origin, dispatched, said>>, github'.shows = github.shows,
         \A c \in {"github", "origin"} : step'[c] = "idle",
         /\ esm'.from >= 1 /\ esm'.to >= 0
         /\ esm'.to # 0 => esm'.from <= esm'.at
         /\ esm'.to = 0 => esm'.at = 0 /\ esm'.failed = 0
         /\ esm'.failed # 0 => esm'.from <= esm'.failed /\ esm'.failed < esm'.at,
         \A r \in DOMAIN Events :
           Behind(r)' => Behind(r) \/ (ShownOrMissed(r) /\ SaidOrMissed(r))
                         \/ (\E why \in {"dlq", "capped"} : <<why, r>> \in missed')
  PROVE  PassedInv'
<1>1. ASSUME NEW r \in DOMAIN Events, Behind(r)'
      PROVE  ShownOrMissed(r)' /\ SaidOrMissed(r)'
  <2>1. CASE \E why \in {"dlq", "capped"} : <<why, r>> \in missed'
    BY <2>1 DEF ShownOrMissed, SaidOrMissed, GivenUp
  <2>2. CASE ShownOrMissed(r) /\ SaidOrMissed(r)
    BY <2>2, StillShown, StillSaid
  <2>3. Behind(r) => ShownOrMissed(r) /\ SaidOrMissed(r)
    BY DEF PassedInv
  <2>. QED  BY <1>1, <2>1, <2>2, <2>3
<1>. QED  BY <1>1 DEF PassedInv

\* The channel's record is the record of an invocation.
LEMMA AtRecord ==
  ASSUME FanOutInv, PassedInv, NEW c \in {"github", "origin"}, step[c] # "idle"
  PROVE  /\ esm.to # 0 /\ FanOutTyped
         /\ \A s \in FanOutSteps : FanOuts!Step(c, s) =>
              /\ step'[c] = s
              /\ \A d \in {"github", "origin"} : d # c => step'[d] = step[d]
<1>1. esm.to # 0 /\ FanOutTyped
  BY AtWorkFacts
<1>. QED  BY <1>1, StepOf

LEMMA GithubPasses ==
  ASSUME Stream, FanOutInv, PassedInv, FanOuts!UpsertTaskComment \/ FanOuts!SaveCommentState
  PROVE  PassedInv'
<1>1. /\ UNCHANGED <<origin, esm, dispatched, said>> /\ step["github"] # "idle"
      /\ missed \subseteq missed'
      /\ \/ github'.shows = esm.at /\ \E s \in {"ok", "save", "failed"} : FanOuts!Step("github", s)
         \/ github'.shows = github.shows /\ FanOuts!Step("github", "failed")
         \/ /\ github'.shows = github.shows /\ <<"github", esm.at>> \in missed'
            /\ FanOuts!Step("github", "ok")
         \/ /\ github'.shows = github.shows /\ step["github"] = "save"
            /\ FanOuts!Step("github", "ok")
  <2>1. CASE FanOuts!UpsertTaskComment
    BY <2>1 DEF FanOuts!UpsertTaskComment, FanOuts!GiveUp, FanOutInv, FanOutTyped,
       CommentType
  <2>2. CASE FanOuts!SaveCommentState
    BY <2>2 DEF FanOuts!SaveCommentState, FanOutInv, FanOutTyped, CommentType
  <2>. QED  BY <2>1, <2>2
<1>2. "ok" \in FanOutSteps /\ "save" \in FanOutSteps /\ "failed" \in FanOutSteps
  BY DEF FanOutSteps
<1>3. /\ esm.to # 0 /\ esm.at \in Int /\ step'["origin"] = step["origin"]
      /\ \A s \in {"ok", "save", "failed"} : FanOuts!Step("github", s) => step'["github"] = s
  BY <1>1, <1>2, AtRecord, PostedFields
<1>4. github'.shows = github.shows \/ github'.shows = esm.at
  BY <1>1
<1>5. step'["github"] \in {"ok", "save"} => ShownOrMissed(esm.at)'
  <2>1. CASE github'.shows = esm.at
    BY <1>1, <1>3, <2>1 DEF ShownOrMissed
  <2>2. CASE <<"github", esm.at>> \in missed'
    BY <1>1, <2>2 DEF ShownOrMissed, GivenUp
  <2>3. CASE github'.shows = github.shows /\ FanOuts!Step("github", "failed")
    BY <1>3, <2>3
  <2>4. CASE github'.shows = github.shows /\ step["github"] = "save"
    <3>1. ShownOrMissed(esm.at)
      BY <2>4 DEF PassedInv
    <3>. QED  BY <1>1, <2>4, <3>1 DEF ShownOrMissed, GivenUp
  <2>. QED  BY <1>1, <2>1, <2>2, <2>3, <2>4
<1>6. step'["origin"] = "ok" => SaidOrMissed(esm.at)'
  <2>1. step["origin"] = "ok" => SaidOrMissed(esm.at)
    BY DEF PassedInv
  <2>. QED  BY <1>1, <1>3, <2>1 DEF SaidOrMissed, GivenUp
<1>7. /\ origin # "slack" /\ step'["origin"] = "save" /\ AtHand = "final" => said'
      /\ origin # "slack" /\ "final" \in dispatched'.marks => said'
  BY <1>1, <1>3 DEF PassedInv
<1>. QED  BY <1>1, <1>3, <1>4, <1>5, <1>6, <1>7, ChannelPasses

\* A step of the origin's channel leaves the comment on GitHub alone.
LEMMA OriginPasses ==
  ASSUME Stream, FanOutInv, PassedInv, UNCHANGED <<origin, esm, github>>,
         missed \subseteq missed', said => said', step["origin"] # "idle",
         NEW s \in FanOutSteps, FanOuts!Step("origin", s),
         s = "ok" => SaidOrMissed(esm.at)',
         origin # "slack" /\ s = "save" /\ AtHand = "final" => said',
         origin # "slack" /\ "final" \in dispatched'.marks => said'
  PROVE  PassedInv'
<1>1. /\ esm.to # 0 /\ step'["origin"] = s /\ step'["github"] = step["github"]
  BY AtRecord
<1>2. step["github"] \in {"ok", "save"} => ShownOrMissed(esm.at)
  BY DEF PassedInv
<1>3. step'["github"] \in {"ok", "save"} => ShownOrMissed(esm.at)'
  BY <1>1, <1>2 DEF ShownOrMissed, GivenUp
<1>. QED  BY <1>1, <1>3, ChannelPasses

\* On Slack nothing is asked: what it said, it says without a marker.
LEMMA SlackPasses ==
  ASSUME Stream, FanOutInv, PassedInv,
         \/ FanOuts!ClaimSlackPost \/ FanOuts!PostSlackMessage
         \/ FanOuts!StoreMessageTs \/ FanOuts!TerminalCleanup
  PROVE  PassedInv'
<1>1. /\ UNCHANGED <<origin, esm, github>> /\ missed \subseteq missed'
      /\ said' \in BOOLEAN /\ (said => said') /\ step["origin"] # "idle" /\ origin = "slack"
      /\ \E s \in FanOutSteps : FanOuts!Step("origin", s)
  <2>1. CASE FanOuts!ClaimSlackPost
    BY <2>1 DEF FanOuts!ClaimSlackPost, FanOuts!AtSlack, FanOutInv, FanOutTyped, FanOutSteps
  <2>2. CASE FanOuts!PostSlackMessage
    BY <2>2 DEF FanOuts!PostSlackMessage, FanOuts!AtSlack, FanOuts!Post, FanOutInv,
       FanOutTyped, FanOutSteps
  <2>3. CASE FanOuts!StoreMessageTs
    BY <2>3 DEF FanOuts!StoreMessageTs, FanOuts!AtSlack, FanOutInv, FanOutTyped, FanOutSteps
  <2>4. CASE FanOuts!TerminalCleanup
    BY <2>4 DEF FanOuts!TerminalCleanup, FanOuts!AtSlack, FanOutInv, FanOutTyped, FanOutSteps
  <2>. QED  BY <2>1, <2>2, <2>3, <2>4
<1>2. PICK s \in FanOutSteps : FanOuts!Step("origin", s)
  BY <1>1
<1>3. SaidOrMissed(esm.at)'
  BY <1>1 DEF SaidOrMissed
<1>. QED  BY <1>1, <1>2, <1>3, OriginPasses

\* What a call to the tracker leaves behind: a comment that is there, one that is
\* lost, or a record given up.
LEMMA TrackerPost ==
  ASSUME FanOutInv, origin # "slack", FanOuts!Post("save")
  PROVE  /\ missed \subseteq missed' /\ (said => said')
         /\ \/ FanOuts!Step("origin", "save") /\ (AtHand = "final" => said')
            \/ FanOuts!Step("origin", "failed")
            \/ FanOuts!Step("origin", "ok") /\ <<origin, esm.at>> \in missed'
  BY DEF FanOuts!Post, FanOuts!GiveUp, AtHand, FanOutInv, FanOutTyped

LEMMA DispatchToTrackerPasses ==
  ASSUME Stream, FanOutInv, PassedInv, FanOuts!DispatchToTracker
  PROVE  PassedInv'
<1>1. /\ UNCHANGED <<origin, esm, dispatched, github>>
      /\ origin # "slack" /\ step["origin"] = "todo"
      /\ \/ /\ AtHand \in dispatched.marks \/ AtHand = "pr"
            /\ FanOuts!Step("origin", "ok") /\ UNCHANGED <<said, missed>>
         \/ FanOuts!Post("save")
         \/ FanOuts!Step("origin", "failed") /\ UNCHANGED <<said, missed>>
  BY DEF FanOuts!DispatchToTracker, FanOuts!AtTracker, AtHand
<1>2. "ok" \in FanOutSteps /\ "save" \in FanOutSteps /\ "failed" \in FanOutSteps
  BY DEF FanOutSteps
<1>3. "final" \in dispatched.marks => said
  BY <1>1 DEF PassedInv
<1>4. CASE /\ AtHand \in dispatched.marks \/ AtHand = "pr"
           /\ FanOuts!Step("origin", "ok") /\ UNCHANGED <<said, missed>>
  <2>1. Events[esm.at] \in FanOuts!TimedOut => AtHand = "final"
    BY <1>1, EventFacts DEF PassedInv, AtHand
  <2>2. SaidOrMissed(esm.at)'
    BY <1>1, <1>3, <1>4, <2>1 DEF SaidOrMissed
  <2>. QED  BY <1>1, <1>2, <1>3, <1>4, <2>2, OriginPasses
<1>5. CASE FanOuts!Step("origin", "failed") /\ missed \subseteq missed' /\ (said => said')
  BY <1>1, <1>2, <1>3, <1>5, OriginPasses
<1>6. CASE /\ missed \subseteq missed' /\ (said => said')
           /\ FanOuts!Step("origin", "save") /\ (AtHand = "final" => said')
  BY <1>1, <1>2, <1>3, <1>6, OriginPasses
<1>7. CASE /\ missed \subseteq missed' /\ (said => said')
           /\ FanOuts!Step("origin", "ok") /\ <<origin, esm.at>> \in missed'
  <2>1. SaidOrMissed(esm.at)'
    BY <1>1, <1>7 DEF SaidOrMissed, GivenUp
  <2>. QED  BY <1>1, <1>2, <1>3, <1>7, <2>1, OriginPasses
<1>. QED  BY <1>1, <1>4, <1>5, <1>6, <1>7, TrackerPost

LEMMA SaveDispatchMarkerPasses ==
  ASSUME Stream, FanOutInv, PassedInv, FanOuts!SaveDispatchMarker
  PROVE  PassedInv'
<1>1. /\ UNCHANGED <<origin, esm, github, said, missed>> /\ FanOuts!Step("origin", "ok")
      /\ origin # "slack" /\ step["origin"] = "save"
      /\ \/ dispatched' = [dispatched EXCEPT !.marks = @ \cup {AtHand}]
         \/ dispatched' = dispatched
  BY DEF FanOuts!SaveDispatchMarker, FanOuts!AtTracker, AtHand
<1>2. "ok" \in FanOutSteps
  BY DEF FanOutSteps
<1>3. dispatched'.marks \subseteq dispatched.marks \cup {AtHand}
  BY <1>1 DEF FanOutInv, FanOutTyped
<1>4. /\ AtHand = "final" => said
      /\ "final" \in dispatched.marks => said
  BY <1>1 DEF PassedInv
<1>5. Events[esm.at] \in FanOuts!TimedOut => AtHand = "final"
  BY <1>1, EventFacts DEF PassedInv, AtHand
<1>6. SaidOrMissed(esm.at)'
  BY <1>1, <1>4, <1>5 DEF SaidOrMissed
<1>. QED  BY <1>1, <1>2, <1>3, <1>4, <1>6, OriginPasses

LEMMA PollPasses ==
  ASSUME Stream, FanOutInv, PassedInv, FanOuts!Poll
  PROVE  PassedInv'
<1>1. PICK to \in esm.from .. Len(Events) :
        esm' = [esm EXCEPT !.to = to, !.at = esm.from, !.failed = 0, !.count = 0]
  BY DEF FanOuts!Poll
<1>2. UNCHANGED <<origin, step, dispatched, github, said, missed>> /\ esm.to = 0
  BY DEF FanOuts!Poll, FanOuts!Running
<1>3. /\ esm'.from = esm.from /\ esm'.to = to /\ esm'.at = esm.from /\ esm'.failed = 0
      /\ esm.from \in Int /\ esm.from >= 1 /\ to >= 1
  BY <1>1, PostedFields DEF FanOutInv, FanOutTyped, BatchType, PassedInv
<1>4. \A c \in {"github", "origin"} : step'[c] = "idle"
  BY <1>2 DEF FanOutInv, OriginKnows
<1>5. \A r \in DOMAIN Events : Behind(r)' => Behind(r)
  BY <1>3 DEF Behind
<1>. QED  BY <1>2, <1>3, <1>4, <1>5, LoopPasses

LEMMA RouteEventPasses ==
  ASSUME Stream, FanOutInv, PassedInv, FanOuts!RouteEvent
  PROVE  PassedInv'
<1>. DEFINE r == esm.at
<1>1. /\ UNCHANGED <<origin, dispatched, github, said>> /\ esm.to # 0
      /\ \A c \in {"github", "origin"} : step[c] = "idle"
      /\ \/ /\ ~FanOuts!ShouldFanOut(r) /\ esm' = [esm EXCEPT !.at = r + 1]
            /\ UNCHANGED <<step, missed>>
         \/ /\ esm' = [esm EXCEPT !.at = r + 1] /\ step' = step
            /\ missed' = missed \cup {<<"capped", r>>}
         \/ /\ esm' = [esm EXCEPT !.count = @ + 1] /\ missed' = missed
            /\ step' = [c \in {"github", "origin"} |->
                          IF FanOuts!Wanted(c, r) THEN "todo" ELSE "ok"]
  BY DEF FanOuts!RouteEvent, FanOuts!Running, FanOuts!Idle, FanOuts!Channels
<1>2. /\ r \in Int /\ esm.from \in Int /\ esm.failed \in Int /\ esm.from <= r
      /\ esm.from >= 1 /\ esm.to >= 0
      /\ esm.failed # 0 => esm.from <= esm.failed /\ esm.failed < r
  BY <1>1, PostedFields DEF FanOutInv, PassedInv
<1>3. CASE /\ esm' = [esm EXCEPT !.at = r + 1] /\ step' = step
           /\ \/ ~FanOuts!ShouldFanOut(r) /\ missed' = missed
              \/ missed' = missed \cup {<<"capped", r>>}
  <2>1. /\ esm'.from = esm.from /\ esm'.to = esm.to /\ esm'.failed = esm.failed
        /\ esm'.at = r + 1
    BY <1>3 DEF FanOutInv, FanOutTyped, BatchType
  <2>2. ASSUME NEW i \in DOMAIN Events, Behind(i)'
        PROVE  \/ Behind(i) \/ (ShownOrMissed(i) /\ SaidOrMissed(i))
               \/ \E why \in {"dlq", "capped"} : <<why, i>> \in missed'
    <3>1. Behind(i) \/ i = r
      BY <1>2, <2>1, <2>2, Position DEF Behind
    <3>2. ~FanOuts!ShouldFanOut(r) => ShownOrMissed(r) /\ SaidOrMissed(r)
      BY EventFacts DEF ShownOrMissed, SaidOrMissed, PassedInv
    <3>. QED  BY <1>3, <3>1, <3>2
  <2>. QED  BY <1>1, <1>2, <1>3, <2>1, <2>2, LoopPasses
<1>4. CASE /\ esm' = [esm EXCEPT !.count = @ + 1] /\ missed' = missed
           /\ step' = [c \in {"github", "origin"} |->
                         IF FanOuts!Wanted(c, r) THEN "todo" ELSE "ok"]
  <2>1. UNCHANGED <<esm.from, esm.to, esm.at, esm.failed>>
    BY <1>4 DEF FanOutInv, FanOutTyped, BatchType
  <2>2. step'["github"] \in {"ok", "save"} => ShownOrMissed(esm.at)'
    <3>1. step'["github"] \in {"ok", "save"} => ~FanOuts!Subscribed("github", r)
      BY <1>4 DEF FanOuts!Wanted
    <3>. QED  BY <2>1, <3>1 DEF ShownOrMissed, FanOuts!Subscribed
  <2>3. step'["origin"] = "ok" => SaidOrMissed(esm.at)'
    <3>1. step'["origin"] = "ok" => ~FanOuts!Subscribed(origin, r)
      BY <1>4 DEF FanOuts!Wanted
    <3>2. step'["origin"] = "ok" => ~(origin # "slack" /\ Events[r] \in FanOuts!TimedOut)
      BY <3>1, EventFacts DEF PassedInv
    <3>. QED  BY <1>1, <2>1, <3>2 DEF SaidOrMissed
  <2>4. step'["origin"] # "save"
    BY <1>4
  <2>. QED  BY <1>1, <1>4, <2>1, <2>2, <2>3, <2>4, ChannelPasses DEF PassedInv
<1>. QED  BY <1>1, <1>3, <1>4

LEMMA RecordSettledPasses ==
  ASSUME Stream, FanOutInv, PassedInv, FanOuts!RecordSettled
  PROVE  PassedInv'
<1>1. PICK rejected \in BOOLEAN :
        /\ (\E c \in {"github", "origin"} : step[c] = "failed") => rejected
        /\ esm' = [esm EXCEPT !.at = @ + 1,
                              !.failed = IF @ = 0 /\ rejected THEN esm.at ELSE @]
  BY DEF FanOuts!RecordSettled, FanOuts!Channels
<1>2. /\ UNCHANGED <<origin, dispatched, github, said, missed>>
      /\ \A c \in {"github", "origin"} : step[c] \in {"ok", "failed"} /\ step'[c] = "idle"
  BY DEF FanOuts!RecordSettled, FanOuts!Channels
<1>3. esm.to # 0
  BY <1>2, AtWorkFacts
<1>4. /\ esm.at \in Int /\ esm.from \in Int /\ esm.failed \in Int /\ esm.from <= esm.at
      /\ esm.from >= 1 /\ esm.to >= 0
      /\ esm.failed # 0 => esm.from <= esm.failed /\ esm.failed < esm.at
  BY <1>3, PostedFields DEF FanOutInv, PassedInv
<1>5. /\ esm'.from = esm.from /\ esm'.to = esm.to /\ esm'.at = esm.at + 1
      /\ esm'.failed = IF esm.failed = 0 /\ rejected THEN esm.at ELSE esm.failed
  BY <1>1 DEF FanOutInv, FanOutTyped, BatchType
<1>6. ~rejected => ShownOrMissed(esm.at) /\ SaidOrMissed(esm.at)
  BY <1>1, <1>2 DEF PassedInv
<1>7. ASSUME NEW i \in DOMAIN Events, Behind(i)'
      PROVE  Behind(i) \/ (ShownOrMissed(i) /\ SaidOrMissed(i))
  <2>1. Behind(i) \/ (i = esm.at /\ ~rejected)
    BY <1>4, <1>5, <1>7, Position DEF Behind
  <2>. QED  BY <1>6, <2>1
<1>8. /\ esm'.from >= 1 /\ esm'.to >= 0
      /\ esm'.to # 0 => esm'.from <= esm'.at
      /\ esm'.to = 0 => esm'.at = 0 /\ esm'.failed = 0
      /\ esm'.failed # 0 => esm'.from <= esm'.failed /\ esm'.failed < esm'.at
  BY <1>3, <1>4, <1>5
<1>. QED  BY <1>2, <1>7, <1>8, LoopPasses

\* A batch that comes again starts where it failed; one that is given up leaves its
\* rest in the dead-letter queue.
LEMMA RedeliverPasses ==
  ASSUME Stream, FanOutInv, PassedInv, esm.to # 0, NEW f \in Int, FanOuts!Redeliver(f),
         esm.from <= f, \A r \in DOMAIN Events : r < f => Behind(r),
         UNCHANGED <<origin, dispatched, said>>, github'.shows = github.shows,
         \A c \in {"github", "origin"} : step'[c] = "idle"
  PROVE  PassedInv'
<1>1. /\ esm.to \in Int /\ esm.from \in Int /\ esm.from >= 1 /\ esm.to >= 1
  BY PostedFields DEF FanOutInv, PassedInv
<1>2. \/ /\ esm'.from = f /\ esm'.to = esm.to /\ esm'.at = f /\ esm'.failed = 0
         /\ missed' = missed
      \/ /\ esm'.from = esm.to + 1 /\ esm'.to = 0 /\ esm'.at = 0 /\ esm'.failed = 0
         /\ missed' = missed \cup {<<"dlq", r>> : r \in f .. esm.to}
  BY DEF FanOuts!Redeliver, FanOuts!NoBatch
<1>3. ASSUME NEW i \in DOMAIN Events, Behind(i)'
      PROVE  Behind(i) \/ \E why \in {"dlq", "capped"} : <<why, i>> \in missed'
  <2>1. i < f \/ (i \in f .. esm.to /\ esm'.to = 0)
    BY <1>1, <1>2, <1>3, Position DEF Behind
  <2>2. esm'.to = 0 => missed' = missed \cup {<<"dlq", r>> : r \in f .. esm.to}
    BY <1>1, <1>2
  <2>. QED  BY <2>1, <2>2
<1>. QED  BY <1>1, <1>2, <1>3, LoopPasses

LEMMA EndBatchPasses ==
  ASSUME Stream, FanOutInv, PassedInv, FanOuts!EndBatch
  PROVE  PassedInv'
<1>1. /\ UNCHANGED <<origin, dispatched, github, said, step>> /\ esm.to # 0
      /\ \A c \in {"github", "origin"} : step[c] = "idle"
      /\ esm.at > esm.to
      /\ \/ /\ esm.failed = 0 /\ missed' = missed
            /\ esm' = [FanOuts!NoBatch EXCEPT !.from = esm.to + 1]
         \/ esm.failed # 0 /\ FanOuts!Redeliver(esm.failed)
  BY DEF FanOuts!EndBatch, FanOuts!Running, FanOuts!Idle, FanOuts!Channels
<1>2. /\ esm.to \in Int /\ esm.to >= 1 /\ esm.at \in Int /\ esm.from \in Int
      /\ esm.failed \in Int
      /\ esm.failed # 0 => esm.from <= esm.failed /\ esm.failed < esm.at
  BY <1>1, PostedFields DEF FanOutInv, PassedInv
<1>3. CASE /\ esm.failed = 0 /\ missed' = missed
           /\ esm' = [FanOuts!NoBatch EXCEPT !.from = esm.to + 1]
  <2>1. esm'.from = esm.to + 1 /\ esm'.to = 0 /\ esm'.at = 0 /\ esm'.failed = 0
    BY <1>3 DEF FanOuts!NoBatch
  <2>2. \A r \in DOMAIN Events : Behind(r)' => Behind(r)
    BY <1>1, <1>2, <1>3, <2>1, Position DEF Behind
  <2>. QED  BY <1>1, <1>2, <1>3, <2>1, <2>2, LoopPasses
<1>4. CASE esm.failed # 0 /\ FanOuts!Redeliver(esm.failed)
  <2>1. \A r \in DOMAIN Events : r < esm.failed => Behind(r)
    BY <1>2, <1>4, Position DEF Behind
  <2>. QED  BY <1>1, <1>2, <1>4, <2>1, RedeliverPasses
<1>. QED  BY <1>1, <1>3, <1>4

LEMMA FanOutCrashPasses ==
  ASSUME Stream, FanOutInv, PassedInv, FanOuts!Crash
  PROVE  PassedInv'
<1>1. /\ UNCHANGED <<origin, dispatched, said>> /\ FanOuts!Redeliver(esm.from)
      /\ \A c \in {"github", "origin"} : step'[c] = "idle"
      /\ esm.to # 0 /\ github'.shows = github.shows
  BY DEF FanOuts!Crash, FanOuts!Running, FanOuts!Channels, FanOutInv, FanOutTyped,
     CommentType
<1>2. esm.from \in Int /\ \A r \in DOMAIN Events : r < esm.from => Behind(r)
  BY PostedFields DEF FanOutInv, Behind
<1>. QED  BY <1>1, <1>2, RedeliverPasses

LEMMA OutsidePasses ==
  ASSUME PassedInv, FanOutInv,
         FanOuts!PersistPrUrl \/ FanOuts!UserDeletesComment \/ UNCHANGED FanOuts!vars
  PROVE  PassedInv'
<1>1. /\ UNCHANGED <<origin, esm, step, said, missed>>
      /\ dispatched'.marks = dispatched.marks /\ github'.shows = github.shows
  BY DEF FanOuts!PersistPrUrl, FanOuts!UserDeletesComment, FanOuts!vars, FanOutInv,
     FanOutTyped, CommentType
<1>2. AtHand' = AtHand
  BY <1>1, SameKind
<1>. QED
  BY <1>1, <1>2 DEF PassedInv, Behind, ShownOrMissed, SaidOrMissed, GivenUp

LEMMA PassedStep ==
  ASSUME Stream, FanOutInv, PassedInv, [FanOuts!Next]_(FanOuts!vars)
  PROVE  PassedInv'
  BY PollPasses, RouteEventPasses, RecordSettledPasses, EndBatchPasses, FanOutCrashPasses,
     GithubPasses, DispatchToTrackerPasses, SaveDispatchMarkerPasses, SlackPasses,
     OutsidePasses DEF FanOuts!Next, FanOuts!Handler

LEMMA PassedImplies ==
  ASSUME Stream, FanOutInv, PassedInv
  PROVE  FanOuts!OutcomeNotLost
<1>1. \A r \in FanOuts!Passed : r \in DOMAIN Events /\ Behind(r)
  BY DEF FanOuts!Passed, Behind
<1>2. \A ch : \A r \in DOMAIN Events : r \notin FanOuts!Missed(ch) => ~GivenUp(ch, r)
  BY DEF FanOuts!Missed, GivenUp
<1>3. FanOuts!GithubShowsLatest
  BY <1>1, <1>2 DEF PassedInv, ShownOrMissed, FanOuts!GithubShowsLatest
<1>4. FanOuts!FinalCommentNeverLost
  BY <1>1, <1>2 DEF PassedInv, SaidOrMissed, FanOuts!FinalCommentNeverLost
<1>. QED  BY <1>3, <1>4 DEF FanOuts!OutcomeNotLost

\* Whatever fails, comes again or dies: once a record has passed, GitHub's comment shows
\* its event or a later one and the tracker has the outcome, unless the record was given
\* up where it shows: in the dead-letter queue, at the cap, or by the channel's verdict.
THEOREM WhatPassedWasPosted == Spec => []PassedWasPosted
<1>. DEFINE I == subject = "fan-out" => FanOutInv /\ PassedInv
<1>1. Init => I
  BY FanOutInit, PassedInit, ServicesAssumption DEF Init
<1>2. I /\ [Next]_vars => I'
  BY OnlyOne, FanOutStep, PassedStep, ServicesAssumption
<1>3. I => PassedWasPosted
  BY PassedImplies, ServicesAssumption DEF PassedWasPosted
<1>. HIDE DEF I
<1>. QED  BY <1>1, <1>2, <1>3, PTL DEF Spec

-----------------------------------------------------------------------------
(***************************************************************************)
(* Steering: a nudge that is accepted reaches the agent, once              *)
(***************************************************************************)

\* Each minute has a counter, and no text of the guard or of a denial is a nudge.
NudgeSteps ==
    {"new", "screen", "409", "400", "rate", "put", "429", "stored", "500"}

NudgeType == [at : NudgeSteps, minute : 0 .. Minutes]

\* The counter of a minute counts the nudges of that minute that were let through.
RateInv ==
    /\ minute \in 1 .. Minutes
    /\ request \in [Nudges -> NudgeType]
    /\ slots \in [1 .. Minutes -> 0 .. RateLimit]
    /\ \A m \in 1 .. Minutes : slots[m] = Cardinality(Steer!InMinute(m))
    /\ \A n \in Nudges : request[n].at # "new" => request[n].minute \in 1 .. Minutes
    /\ \A n \in Nudges : request[n].at = "429" => slots[request[n].minute] >= RateLimit

\* What the agent was or is about to be shown is remembered as injected; what is being
\* marked is in the text, which is empty before the hooks have run.
SteerInv ==
    /\ agent.at \in -1 .. 5
    /\ shown \in [Nudges -> Int]
    /\ agent.at < 2 => text = {}
    /\ agent.read # {} => agent.at = 3
    /\ agent.read \subseteq text
    /\ \A n \in Nudges :
         /\ shown[n] >= 0
         /\ n \in text => n \in injected /\ shown[n] = 0
         /\ shown[n] > 0 => n \in injected /\ shown[n] <= 1
    /\ agent.read \subseteq Nudges /\ consumed \subseteq Nudges
    /\ Steer!ConsumedWasShown

LEMMA RateInit == Nudging /\ Steer!Init => RateInv
<1>. SUFFICES ASSUME Nudging, Steer!Init PROVE RateInv
  OBVIOUS
<1>1. /\ minute = 1 /\ slots = [m \in 1 .. Minutes |-> 0]
      /\ request = [n \in Nudges |-> [at |-> "new", minute |-> 0]]
  BY DEF Steer!Init
<1>2. request \in [Nudges -> NudgeType] /\ \A n \in Nudges : request[n].at = "new"
  BY <1>1 DEF NudgeType, NudgeSteps, Nudging
<1>3. \A m \in 1 .. Minutes : Steer!InMinute(m) = {}
  BY <1>2 DEF Steer!InMinute, Steer!LetThrough
<1>4. \A m \in 1 .. Minutes : slots[m] = Cardinality(Steer!InMinute(m))
  BY <1>1, <1>3, FS_EmptySet
<1>. QED  BY <1>1, <1>2, <1>4 DEF RateInv, Nudging

\* A step of the handler of one nudge
LEMMA NudgeStep ==
  ASSUME RateInv, NEW n \in Nudges, NEW from, NEW to \in NudgeSteps, Steer!Step(n, from, to)
  PROVE  /\ request[n].at = from /\ request' \in [Nudges -> NudgeType]
         /\ request'[n].at = to /\ request'[n].minute = request[n].minute
         /\ \A o \in Nudges : o # n => request'[o] = request[o]
  BY DEF RateInv, NudgeType, Steer!Step

\* A step that lets nothing through, nor refuses anything for the rate
LEMMA RateUntouched ==
  ASSUME Nudging, RateInv, NEW n \in Nudges, request' \in [Nudges -> NudgeType],
         UNCHANGED slots, minute' \in 1 .. Minutes,
         \A o \in Nudges : o # n => request'[o] = request[o],
         request'[n].at # "new" => request'[n].minute \in 1 .. Minutes,
         request'[n].at = "429" => slots[request'[n].minute] >= RateLimit,
         \A m \in 1 .. Minutes :
           request'[n].at \in Steer!LetThrough /\ request'[n].minute = m <=>
             request[n].at \in Steer!LetThrough /\ request[n].minute = m
  PROVE  RateInv'
<1>1. \A m \in 1 .. Minutes : Steer!InMinute(m)' = Steer!InMinute(m)
  BY DEF Steer!InMinute
<1>2. \A m \in 1 .. Minutes : slots'[m] = Cardinality(Steer!InMinute(m))
  BY DEF RateInv
<1>3. \A m \in 1 .. Minutes : slots'[m] = Cardinality(Steer!InMinute(m)')
  BY <1>1, <1>2
<1>. QED  BY <1>3 DEF RateInv

LEMMA NudgeSkips ==
  ASSUME Nudging, RateInv, NEW n \in Nudges, NEW from, NEW to \in NudgeSteps,
         Steer!Step(n, from, to), UNCHANGED <<minute, slots>>, from # "new", to # "new",
         to \in Steer!LetThrough <=> from \in Steer!LetThrough,
         to = "429" => slots[request[n].minute] >= RateLimit
  PROVE  RateInv'
<1>1. /\ request[n].at = from /\ request' \in [Nudges -> NudgeType]
      /\ request'[n].at = to /\ request'[n].minute = request[n].minute
      /\ \A o \in Nudges : o # n => request'[o] = request[o]
  BY NudgeStep
<1>. QED  BY <1>1, RateUntouched DEF RateInv

LEMMA TakeSlotKeeps ==
  ASSUME Nudging, RateInv, NEW n \in Nudges, Steer!TakeSlot(n)
  PROVE  RateInv'
<1>. DEFINE m == request[n].minute
<1>1. "put" \in NudgeSteps /\ "429" \in NudgeSteps /\ "put" \in Steer!LetThrough
      /\ "rate" \notin Steer!LetThrough /\ "429" \notin Steer!LetThrough
  BY DEF NudgeSteps, Steer!LetThrough
<1>2. /\ minute' = minute
      /\ \/ /\ Steer!Step(n, "rate", "put") /\ slots[m] < RateLimit
            /\ slots' = [slots EXCEPT ![m] = @ + 1]
         \/ Steer!Step(n, "rate", "429") /\ slots[m] >= RateLimit /\ slots' = slots
  BY DEF Steer!TakeSlot
<1>3. CASE Steer!Step(n, "rate", "429") /\ slots[m] >= RateLimit /\ slots' = slots
  BY <1>1, <1>2, <1>3, NudgeSkips
<1>4. CASE /\ Steer!Step(n, "rate", "put") /\ slots[m] < RateLimit
           /\ slots' = [slots EXCEPT ![m] = @ + 1]
  <2>1. /\ request[n].at = "rate" /\ request' \in [Nudges -> NudgeType]
        /\ request'[n].at = "put" /\ request'[n].minute = m
        /\ \A o \in Nudges : o # n => request'[o] = request[o]
    BY <1>1, <1>4, NudgeStep
  <2>2. m \in 1 .. Minutes
    BY <2>1 DEF RateInv
  <2>3. /\ slots' \in [1 .. Minutes -> 0 .. RateLimit] /\ slots'[m] = slots[m] + 1
        /\ \A k \in 1 .. Minutes : k # m => slots'[k] = slots[k]
    BY <1>4, <2>2 DEF RateInv, Nudging
  <2>4. /\ Steer!InMinute(m)' = Steer!InMinute(m) \cup {n} /\ n \notin Steer!InMinute(m)
        /\ \A k \in 1 .. Minutes : k # m => Steer!InMinute(k)' = Steer!InMinute(k)
    BY <1>1, <2>1, <2>2 DEF Steer!InMinute
  <2>5. Cardinality(Steer!InMinute(m)') = Cardinality(Steer!InMinute(m)) + 1
    <3>1. IsFiniteSet(Steer!InMinute(m))
      BY FS_Subset DEF Steer!InMinute, Nudging
    <3>. QED  BY <2>4, <3>1, FS_AddElement
  <2>6. ASSUME NEW k \in 1 .. Minutes
        PROVE  slots'[k] = Cardinality(Steer!InMinute(k)')
    <3>1. slots[k] = Cardinality(Steer!InMinute(k)) /\ slots[m] = Cardinality(Steer!InMinute(m))
      BY <2>2 DEF RateInv
    <3>2. CASE k = m
      BY <2>1, <2>3, <2>5, <3>1, <3>2
    <3>3. CASE k # m
      BY <2>3, <2>4, <3>1, <3>3
    <3>. QED  BY <3>2, <3>3
  <2>7. \A o \in Nudges : request'[o].at = "429" => slots'[request'[o].minute] >= RateLimit
    <3>. SUFFICES ASSUME NEW o \in Nudges, request'[o].at = "429"
                  PROVE  slots'[request'[o].minute] >= RateLimit
      OBVIOUS
    <3>1. /\ request'[o] = request[o] /\ request[o].minute \in 1 .. Minutes
          /\ slots[request[o].minute] >= RateLimit
      BY <2>1 DEF RateInv
    <3>. QED  BY <1>4, <2>3, <3>1 DEF RateInv, Nudging
  <2>8. \A o \in Nudges : request'[o].at # "new" => request'[o].minute \in 1 .. Minutes
    BY <2>1, <2>2 DEF RateInv
  <2>. QED  BY <1>2, <2>1, <2>3, <2>6, <2>7, <2>8 DEF RateInv
<1>. QED  BY <1>2, <1>3, <1>4

LEMMA HandleNudgeKeeps ==
  ASSUME Nudging, RateInv, NEW n \in Nudges, Steer!HandleNudge(n)
  PROVE  RateInv'
<1>1. /\ {"screen", "409", "400", "rate", "put", "stored", "500"} \subseteq NudgeSteps
      /\ {"screen", "409", "400", "rate", "new"} \cap Steer!LetThrough = {}
      /\ {"put", "stored", "500"} \subseteq Steer!LetThrough
  BY DEF NudgeSteps, Steer!LetThrough
<1>2. CASE Steer!CheckTask(n)
  <2>. DEFINE to == IF status = "RUNNING" THEN "screen" ELSE "409"
  <2>1. /\ request[n].at = "new" /\ UNCHANGED <<minute, slots>>
        /\ request' = [request EXCEPT ![n] = [at |-> to, minute |-> minute]]
    BY <1>2 DEF Steer!CheckTask
  <2>2. [at |-> to, minute |-> minute] \in NudgeType /\ to \notin Steer!LetThrough /\ to # "429"
    BY <1>1 DEF NudgeType, RateInv
  <2>. HIDE DEF to
  <2>3. /\ request' \in [Nudges -> NudgeType]
        /\ request'[n].at = to /\ request'[n].minute = minute
        /\ \A o \in Nudges : o # n => request'[o] = request[o]
    BY <2>1, <2>2 DEF RateInv
  <2>. QED  BY <1>1, <2>1, <2>2, <2>3, RateUntouched DEF RateInv
<1>3. CASE Steer!ScreenNudge(n)
  BY <1>1, <1>3, NudgeSkips DEF Steer!ScreenNudge
<1>4. CASE Steer!TakeSlot(n)
  BY <1>4, TakeSlotKeeps
<1>5. CASE Steer!PutNudge(n)
  BY <1>1, <1>5, NudgeSkips DEF Steer!PutNudge
<1>. QED  BY <1>2, <1>3, <1>4, <1>5 DEF Steer!HandleNudge

LEMMA RateStep ==
  ASSUME Nudging, RateInv, [Steer!Next]_(Steer!vars)
  PROVE  RateInv'
<1>1. CASE \E n \in Nudges : Steer!HandleNudge(n)
  BY <1>1, HandleNudgeKeeps
<1>2. CASE UNCHANGED <<request, slots>> /\ minute' \in {minute, minute + 1} \cap 1 .. Minutes
  BY <1>2 DEF RateInv, Steer!InMinute
<1>3. minute \in 1 .. Minutes
  BY DEF RateInv
<1>4. CASE Steer!Tick
  BY <1>2, <1>3, <1>4 DEF Steer!Tick, Steer!handler, Nudging
<1>5. CASE \/ Steer!DenyCall \/ Steer!EndTurn \/ Steer!StopHook \/ Steer!TaskEnds
           \/ UNCHANGED Steer!vars
  <2>1. UNCHANGED <<minute, request, slots>>
    BY <1>5 DEF Steer!DenyCall, Steer!EndTurn, Steer!StopHook, Steer!TaskEnds, Steer!handler,
       Steer!CancelHook, Steer!StuckHook, Steer!ReadPending, Steer!MarkConsumed,
       Steer!DenialHook, Steer!Resume, Steer!vars
  <2>. QED  BY <1>2, <1>3, <2>1
<1>. QED  BY <1>1, <1>4, <1>5 DEF Steer!Next

LEMMA HookPlaces ==
  /\ Steer!Hook("cancel") => agent.at = 1
  /\ Steer!Hook("stuck") => agent.at = 2
  /\ Steer!Hook("nudge") => agent.at = 3
  /\ Steer!Hook("denial") => agent.at = 4
<1>1. Len(Steer!between_turns_hooks) = 4
  BY DEF Steer!between_turns_hooks
<1>2. ASSUME NEW h, Steer!Hook(h)
      PROVE  agent.at \in {1, 2, 3, 4} /\ Steer!between_turns_hooks[agent.at] = h
  BY <1>1, <1>2 DEF Steer!Hook
<1>. QED  BY <1>2 DEF Steer!between_turns_hooks

LEMMA SteerInit == Steer!Init => SteerInv
<1>. SUFFICES ASSUME Steer!Init PROVE SteerInv
  OBVIOUS
<1>1. /\ agent = [at |-> 0, read |-> {}] /\ text = {} /\ consumed = {}
      /\ shown = [n \in Nudges |-> 0]
  BY DEF Steer!Init
<1>. QED  BY <1>1 DEF SteerInv, Steer!ConsumedWasShown

\* A hook that reads and marks nothing may add to the text what is not a nudge.
LEMMA HookPasses ==
  ASSUME SteerInv, UNCHANGED <<shown, injected, consumed>>, agent.at \in {0, 1, 2, 4},
         agent' = [at |-> agent.at + 1, read |-> {}],
         agent.at = 1 => text' = text, agent.at = 0 => text' = {},
         \A n \in Nudges : n \in text' <=> n \in text
  PROVE  SteerInv'
  BY DEF SteerInv, Steer!ConsumedWasShown

LEMMA ReadPendingKeeps ==
  ASSUME SteerInv, Steer!ReadPending
  PROVE  SteerInv'
<1>. DEFINE pending == Steer!Stored \ (consumed \cup injected)
<1>1. /\ agent.at = 3 /\ agent.read = {} /\ UNCHANGED <<consumed, shown>>
      /\ \/ /\ pending # {} /\ agent' = [agent EXCEPT !.read = pending]
            /\ text' = text \cup pending /\ injected' = injected \cup pending
         \/ agent' = [at |-> agent.at + 1, read |-> {}] /\ UNCHANGED <<text, injected>>
  BY HookPlaces DEF Steer!ReadPending, Steer!NextHook
<1>2. pending \subseteq Nudges /\ pending \cap injected = {}
  BY DEF Steer!Stored
<1>. HIDE DEF pending
<1>3. CASE agent' = [at |-> agent.at + 1, read |-> {}] /\ UNCHANGED <<text, injected>>
  BY <1>1, <1>3 DEF SteerInv, Steer!ConsumedWasShown
<1>4. CASE /\ agent' = [agent EXCEPT !.read = pending]
           /\ text' = text \cup pending /\ injected' = injected \cup pending
  <2>1. agent'.at = 3 /\ agent'.read = pending
    BY <1>1, <1>4 DEF SteerInv
  <2>2. \A n \in pending : shown[n] = 0
    BY <1>2 DEF SteerInv
  <2>. QED  BY <1>1, <1>2, <1>4, <2>1, <2>2 DEF SteerInv, Steer!ConsumedWasShown
<1>. QED  BY <1>1, <1>3, <1>4

LEMMA MarkConsumedKeeps ==
  ASSUME SteerInv, Steer!MarkConsumed
  PROVE  SteerInv'
<1>1. PICK n \in agent.read :
        /\ IF agent.read = {n} THEN agent' = [at |-> agent.at + 1, read |-> {}]
                               ELSE agent' = [agent EXCEPT !.read = @ \ {n}]
        /\ consumed' = consumed \cup {n} \/ consumed' = consumed
  BY DEF Steer!MarkConsumed, Steer!NextHook
<1>2. agent.at = 3 /\ UNCHANGED <<text, injected, shown>>
  BY HookPlaces DEF Steer!MarkConsumed
<1>3. agent'.at \in {3, 4} /\ agent'.read \subseteq agent.read
      /\ (agent'.read # {} => agent'.at = 3)
  <2>1. CASE agent.read = {n}
    BY <1>1, <1>2, <2>1
  <2>2. CASE agent.read # {n}
    <3>1. agent' = [agent EXCEPT !.read = agent.read \ {n}]
      BY <1>1, <2>2
    <3>2. /\ agent'.at = 3 \/ agent' = agent
          /\ agent'.read \subseteq agent.read
      BY <1>2, <3>1 DEF SteerInv
    <3>. QED  BY <1>2, <3>2
  <2>. QED  BY <2>1, <2>2
<1>4. n \in text /\ n \in Nudges
  BY DEF SteerInv
<1>. QED  BY <1>1, <1>2, <1>3, <1>4 DEF SteerInv, Steer!ConsumedWasShown

LEMMA ResumeKeeps ==
  ASSUME SteerInv, Steer!Resume
  PROVE  SteerInv'
<1>1. /\ agent' = [at |-> IF text = {} THEN -1 ELSE 0, read |-> {}]
      /\ shown' = [n \in Nudges |-> shown[n] + (IF n \in text THEN 1 ELSE 0)]
      /\ text' = {} /\ UNCHANGED <<injected, consumed>>
  BY DEF Steer!Resume
<1>2. agent'.at \in {-1, 0} /\ agent'.read = {}
  BY <1>1
<1>3. shown' \in [Nudges -> Int]
  BY <1>1 DEF SteerInv
<1>4. ASSUME NEW n \in Nudges
      PROVE  /\ shown'[n] >= 0
             /\ shown'[n] > 0 => n \in injected /\ shown'[n] <= 1
             /\ n \in text => shown'[n] > 0
             /\ shown[n] > 0 => shown'[n] > 0
  BY <1>1 DEF SteerInv
<1>. QED  BY <1>1, <1>2, <1>3, <1>4 DEF SteerInv, Steer!ConsumedWasShown

LEMMA SteerStep ==
  ASSUME Nudging, SteerInv, [Steer!Next]_(Steer!vars)
  PROVE  SteerInv'
<1>1. CASE UNCHANGED <<agent, text, shown, consumed, injected>>
  BY <1>1 DEF SteerInv, Steer!ConsumedWasShown
<1>2. CASE \/ \E n \in Nudges : Steer!HandleNudge(n)
           \/ Steer!DenyCall \/ Steer!TaskEnds \/ Steer!Tick \/ UNCHANGED Steer!vars
  BY <1>1, <1>2 DEF Steer!HandleNudge, Steer!CheckTask, Steer!ScreenNudge, Steer!TakeSlot,
     Steer!PutNudge, Steer!DenyCall, Steer!TaskEnds, Steer!Tick, Steer!hooks, Steer!vars
<1>3. CASE Steer!EndTurn
  <2>1. /\ agent.at = 0 /\ text' = {} /\ UNCHANGED <<shown, injected, consumed>>
        /\ agent' = [at |-> agent.at + 1, read |-> {}]
    BY <1>3 DEF Steer!EndTurn, Steer!NextHook
  <2>2. text = {}
    BY <2>1 DEF SteerInv
  <2>. QED  BY <2>1, <2>2, HookPasses
<1>4. CASE Steer!CancelHook
  <2>1. /\ agent.at = 1 /\ UNCHANGED <<shown, injected, consumed>>
        /\ \/ agent' = [at |-> -1, read |-> {}] /\ text' = {}
           \/ agent' = [at |-> agent.at + 1, read |-> {}] /\ text' = text
    BY <1>4, HookPlaces DEF Steer!CancelHook, Steer!NextHook
  <2>2. text = {}
    BY <2>1 DEF SteerInv
  <2>3. CASE agent' = [at |-> -1, read |-> {}] /\ text' = {}
    BY <2>1, <2>2, <2>3 DEF SteerInv, Steer!ConsumedWasShown
  <2>. QED  BY <2>1, <2>3, HookPasses
<1>5. CASE Steer!StuckHook
  <2>1. /\ agent.at = 2 /\ UNCHANGED <<shown, injected, consumed>>
        /\ agent' = [at |-> agent.at + 1, read |-> {}]
        /\ text' = text \/ \E s \in Spins : text' = text \cup {s}
    BY <1>5, HookPlaces DEF Steer!StuckHook, Steer!NextHook
  <2>2. \A n \in Nudges : n \in text' <=> n \in text
    BY <2>1 DEF Nudging
  <2>. QED  BY <2>1, <2>2, HookPasses
<1>6. CASE Steer!DenialHook
  <2>1. /\ agent.at = 4 /\ UNCHANGED <<shown, injected, consumed>>
        /\ agent' = [at |-> agent.at + 1, read |-> {}]
        /\ text' = text \/ text' = text \cup {"denial"}
    BY <1>6, HookPlaces DEF Steer!DenialHook, Steer!NextHook
  <2>2. \A n \in Nudges : n \in text' <=> n \in text
    BY <2>1 DEF Nudging
  <2>. QED  BY <2>1, <2>2, HookPasses
<1>. QED
  BY <1>2, <1>3, <1>4, <1>5, <1>6, ReadPendingKeeps, MarkConsumedKeeps, ResumeKeeps
     DEF Steer!Next, Steer!StopHook

LEMMA SteerImplies ==
  ASSUME Nudging, RateInv, SteerInv
  PROVE  Steer!NudgesHonoured
<1>1. Steer!ShownOnce
  <2>. SUFFICES ASSUME NEW n \in Nudges PROVE shown[n] <= 1
    BY DEF Steer!ShownOnce
  <2>. QED  BY DEF SteerInv
<1>2. ASSUME NEW n \in Nudges, request[n].at = "429"
      PROVE  /\ slots[request[n].minute] = RateLimit
             /\ Cardinality(Steer!InMinute(request[n].minute)) = RateLimit
  <2>. DEFINE m == request[n].minute
  <2>1. m \in 1 .. Minutes /\ slots[m] >= RateLimit
    BY <1>2 DEF RateInv
  <2>2. slots[m] \in 0 .. RateLimit /\ slots[m] = Cardinality(Steer!InMinute(m))
    BY <2>1 DEF RateInv
  <2>. QED  BY <2>1, <2>2 DEF Nudging
<1>3. Steer!LimitedByOthers
  BY <1>2, Zenon DEF Steer!LimitedByOthers, Steer!Cardinality, Cardinality
<1>. QED  BY <1>1, <1>3 DEF SteerInv, Steer!NudgesHonoured

\* However the turns, the messages and the failing writes interleave: a nudge that is
\* marked consumed was shown, none is shown twice, and a request is refused for its rate
\* only when a full minute of others was let through.
THEOREM NudgesShownOnce == Spec => []NudgesHonoured
<1>. DEFINE I == subject = "steering" => RateInv /\ SteerInv
<1>1. Init => I
  BY RateInit, SteerInit, ServicesAssumption DEF Init
<1>2. I /\ [Next]_vars => I'
  BY OnlyOne, RateStep, SteerStep, ServicesAssumption
<1>3. I => NudgesHonoured
  BY SteerImplies, ServicesAssumption DEF NudgesHonoured
<1>. HIDE DEF I
<1>. QED  BY <1>1, <1>2, <1>3, PTL DEF Spec

-----------------------------------------------------------------------------
(***************************************************************************)
(* BudgetRollup: an alarm that is reached rings, and closes its budget     *)
(***************************************************************************)

\* What tasks cost, and the limits of the scopes that pay for them: none is zero.
Alarms == Budget!Scopes \X {80, 100}

Reached(a) == 100 * spend[a[1]] >= a[2] * LimitOf[a[1]]

Handling == {"write", "read", "alarms", "dlq"}

\* Some record of the scope is still to come to the alarm, or was given up.
ToCome(a) ==
    \E t \in Tasks :
        /\ a[1] \in Budget!ScopesOf(t) /\ record[t].at \in Handling
        /\ record[t].at = "alarms" => a \in record[t].due

\* What is due or has rung was reached; what is claimed has rung.
AlarmInv ==
    /\ spend \in [Budget!Scopes -> Nat]
    /\ rung \subseteq Alarms /\ \A a \in rung : Reached(a)
    /\ alerted \subseteq rung
    /\ \A t \in Tasks : /\ record[t].due \subseteq Alarms /\ record[t].claim \subseteq rung
                        /\ \A a \in record[t].due : Reached(a)
    /\ \A a \in Alarms : Reached(a) => a \in rung \/ ToCome(a)

RecordSteps == {"new", "team", "refused", "running", "done"} \cup Handling

RecordType ==
    [at : RecordSteps, attempt : Int, rewrites : Int, due : SUBSET Alarms, claim : SUBSET Alarms]

BudgetInv == record \in [Tasks -> RecordType] /\ AlarmInv

LEMMA BudgetInit == Priced /\ Budget!Init => BudgetInv
<1>. SUFFICES ASSUME Priced, Budget!Init PROVE BudgetInv
  OBVIOUS
<1>1. /\ spend = [s \in Budget!Scopes |-> 0] /\ rung = {} /\ alerted = {}
      /\ record = [t \in Tasks |-> [at |-> "new", attempt |-> 0, rewrites |-> 0,
                                    due |-> {}, claim |-> {}]]
  BY DEF Budget!Init
<1>2. record \in [Tasks -> RecordType]
  BY <1>1 DEF RecordType, RecordSteps
<1>3. \A a \in Alarms : ~Reached(a)
  BY <1>1 DEF Alarms, Reached, Priced
<1>. QED
  <2>1. \A t \in Tasks : record[t].due = {} /\ record[t].claim = {}
    BY <1>1
  <2>. QED  BY <1>1, <1>2, <1>3, <2>1 DEF BudgetInv, AlarmInv

LEMMA RecordFields ==
  ASSUME NEW r \in RecordType, NEW x \in RecordSteps, NEW i \in Int, NEW j \in Int,
         NEW D \in SUBSET Alarms, NEW C \in SUBSET Alarms
  PROVE  /\ [r EXCEPT !.at = x] \in RecordType
         /\ [r EXCEPT !.at = x, !.attempt = i] \in RecordType
         /\ [r EXCEPT !.at = x, !.attempt = i, !.rewrites = j] \in RecordType
         /\ [r EXCEPT !.at = x, !.due = D] \in RecordType
         /\ [r EXCEPT !.claim = C] \in RecordType
         /\ [r EXCEPT !.due = D, !.claim = C] \in RecordType
         /\ [r EXCEPT !.at = x, !.attempt = i, !.due = D, !.claim = C] \in RecordType
<1>1. [r EXCEPT !.at = x] \in RecordType
  BY DEF RecordType
<1>2. [r EXCEPT !.at = x, !.attempt = i] \in RecordType
  BY DEF RecordType
<1>3. [r EXCEPT !.at = x, !.attempt = i, !.rewrites = j] \in RecordType
  BY DEF RecordType
<1>4. [r EXCEPT !.at = x, !.due = D] \in RecordType
  BY DEF RecordType
<1>5. [r EXCEPT !.claim = C] \in RecordType
  BY DEF RecordType
<1>6. [r EXCEPT !.due = D, !.claim = C] \in RecordType
  BY DEF RecordType
<1>7. [r EXCEPT !.at = x, !.attempt = i, !.due = D, !.claim = C] \in RecordType
  BY DEF RecordType
<1>. QED  BY <1>1, <1>2, <1>3, <1>4, <1>5, <1>6, <1>7

\* The record of one task moves on.
Goes(t, x, D, C) ==
    /\ record' \in [Tasks -> RecordType]
    /\ record'[t].at = x /\ record'[t].due = D /\ record'[t].claim = C
    /\ \A u \in Tasks : u # t => record'[u] = record[u]

LEMMA GoToGoes ==
  ASSUME BudgetInv, NEW t \in Tasks, NEW x \in RecordSteps, Budget!GoTo(t, x)
  PROVE  Goes(t, x, record[t].due, record[t].claim)
<1>1. record[t] \in RecordType /\ record' = [record EXCEPT ![t] = [record[t] EXCEPT !.at = x]]
  BY DEF BudgetInv, Budget!GoTo
<1>2. [record[t] EXCEPT !.at = x] \in RecordType
  BY <1>1 DEF RecordType
<1>. QED  BY <1>1, <1>2 DEF BudgetInv, Goes, RecordType

LEMMA FailGoes ==
  ASSUME BudgetInv, NEW t \in Tasks, Budget!Fail(t)
  PROVE  Goes(t, "write", {}, {}) \/ Goes(t, "dlq", {}, {})
<1>. DEFINE again == record[t].attempt <= RetryAttempts
            x == IF again THEN "write" ELSE "dlq"
            i == IF again THEN record[t].attempt + 1 ELSE record[t].attempt
            h == [record[t] EXCEPT !.at = x, !.attempt = i, !.due = {}, !.claim = {}]
<1>1. record[t] \in RecordType /\ record' = [record EXCEPT ![t] = h]
  BY DEF BudgetInv, Budget!Fail
<1>2. x \in {"write", "dlq"} /\ x \in RecordSteps /\ i \in Int /\ {} \in SUBSET Alarms
  BY <1>1 DEF RecordSteps, Handling, RecordType
<1>. HIDE DEF x, i
<1>3. h \in RecordType
  BY <1>1, <1>2, RecordFields, Zenon
<1>4. h.at = x /\ h.due = {} /\ h.claim = {}
  BY <1>1 DEF RecordType
<1>. HIDE DEF h
<1>. QED  BY <1>1, <1>2, <1>3, <1>4 DEF BudgetInv, Goes

\* A step that neither adds to a scope nor rings or claims an alarm: the task that was
\* to come to an alarm still is.
LEMMA Waits ==
  ASSUME BudgetInv, NEW t \in Tasks, NEW x \in RecordSteps, NEW D, NEW C, Goes(t, x, D, C),
         UNCHANGED <<spend, rung, alerted>>,
         D \subseteq record[t].due, C \subseteq record[t].claim,
         record[t].at \in Handling => x \in Handling,
         x = "alarms" => record[t].at = "alarms" /\ D = record[t].due
  PROVE  BudgetInv'
<1>1. \A a \in Alarms : Reached(a)' <=> Reached(a)
  BY DEF Reached
<1>2. ASSUME NEW a \in Alarms, ToCome(a) PROVE ToCome(a)'
  <2>1. PICK u \in Tasks :
          /\ a[1] \in Budget!ScopesOf(u) /\ record[u].at \in Handling
          /\ record[u].at = "alarms" => a \in record[u].due
    BY <1>2 DEF ToCome
  <2>2. /\ record'[u].at \in Handling
        /\ record'[u].at = "alarms" => a \in record'[u].due
    BY <2>1 DEF Goes
  <2>3. a[1] \in Budget!ScopesOf(u)
    BY <2>1
  <2>. QED  BY <2>2, <2>3 DEF ToCome, Budget!ScopesOf
<1>3. \A u \in Tasks : /\ record'[u].due \subseteq record[u].due
                       /\ record'[u].claim \subseteq record[u].claim
  BY DEF Goes
<1>4. \A a \in rung : Reached(a)'
  BY <1>1 DEF BudgetInv, AlarmInv
<1>5. \A u \in Tasks : \A a \in record'[u].due : Reached(a)'
  BY <1>1, <1>3 DEF BudgetInv, AlarmInv
<1>6. \A a \in Alarms : Reached(a)' => a \in rung' \/ ToCome(a)'
  BY <1>1, <1>2 DEF BudgetInv, AlarmInv
<1>. QED  BY <1>3, <1>4, <1>5, <1>6 DEF BudgetInv, AlarmInv, Goes

LEMMA FailKeeps ==
  ASSUME BudgetInv, NEW t \in Tasks, Budget!Fail(t), record[t].at \in Handling,
         UNCHANGED <<spend, rung, alerted>>
  PROVE  BudgetInv'
<1>1. "write" \in RecordSteps /\ "dlq" \in RecordSteps /\ "write" \in Handling /\ "dlq" \in Handling
  BY DEF RecordSteps, Handling
<1>. QED  BY <1>1, FailGoes, Waits

\* The cost is added while the task's record is handled: what is reached by it, the
\* record is still to come to.
LEMMA AddKeeps ==
  ASSUME Priced, BudgetInv, NEW t \in Tasks, NEW x \in {"write", "read", "dlq"},
         Goes(t, x, {}, {}) \/ Goes(t, x, record[t].due, record[t].claim),
         record[t].at = "write", UNCHANGED <<rung, alerted>>, spend' = Budget!Added(t)
  PROVE  BudgetInv'
<1>1. /\ spend' \in [Budget!Scopes -> Nat]
      /\ \A s \in Budget!Scopes : spend'[s] >= spend[s]
      /\ \A s \in Budget!Scopes : s \notin Budget!ScopesOf(t) => spend'[s] = spend[s]
  BY DEF BudgetInv, AlarmInv, Priced, Budget!Added
<1>2. \A a \in Alarms : Reached(a) => Reached(a)'
  <2>. SUFFICES ASSUME NEW a \in Alarms, Reached(a) PROVE Reached(a)'
    OBVIOUS
  <2>1. /\ a[1] \in Budget!Scopes /\ spend'[a[1]] >= spend[a[1]] /\ spend[a[1]] \in Nat
        /\ spend'[a[1]] \in Nat /\ a[2] * LimitOf[a[1]] \in Int
    BY <1>1 DEF Alarms, BudgetInv, AlarmInv, Priced
  <2>. QED  BY <2>1 DEF Reached
<1>3. ASSUME NEW a \in Alarms, Reached(a)' PROVE a \in rung' \/ ToCome(a)'
  <2>1. x \in Handling /\ x # "alarms"
    BY DEF Handling
  <2>2. CASE a[1] \in Budget!ScopesOf(t)
    BY <2>1, <2>2 DEF ToCome, Goes, Budget!ScopesOf
  <2>3. CASE a[1] \notin Budget!ScopesOf(t)
    <3>1. Reached(a)
      BY <1>1, <1>3, <2>3 DEF Reached, Alarms
    <3>2. CASE ToCome(a)
      <4>1. PICK u \in Tasks :
              /\ a[1] \in Budget!ScopesOf(u) /\ record[u].at \in Handling
              /\ record[u].at = "alarms" => a \in record[u].due
        BY <3>2 DEF ToCome
      <4>2. u # t /\ record'[u] = record[u]
        BY <2>3, <4>1 DEF Goes
      <4>. QED  BY <4>1, <4>2 DEF ToCome, Budget!ScopesOf
    <3>. QED  BY <3>1, <3>2 DEF BudgetInv, AlarmInv
  <2>. QED  BY <2>2, <2>3
<1>4. \A u \in Tasks : /\ record'[u].due \subseteq record[u].due
                       /\ record'[u].claim \subseteq record[u].claim
  BY DEF Goes
<1>5. \A a \in rung : Reached(a)'
  BY <1>2 DEF BudgetInv, AlarmInv
<1>6. \A u \in Tasks : \A a \in record'[u].due : a \in Alarms /\ Reached(a)'
  BY <1>2, <1>4 DEF BudgetInv, AlarmInv
<1>7. record' \in [Tasks -> RecordType]
  BY DEF Goes
<1>. QED  BY <1>1, <1>3, <1>4, <1>5, <1>6, <1>7 DEF BudgetInv, AlarmInv

LEMMA AdmitKeeps ==
  ASSUME BudgetInv, NEW t \in Tasks, Budget!AdmitUser(t) \/ Budget!AdmitTeam(t)
  PROVE  BudgetInv'
<1>1. /\ record[t].at \in {"new", "team"} /\ UNCHANGED <<spend, rung, alerted>>
      /\ \E x \in {"refused", "team", "running"} : Budget!GoTo(t, x)
  BY DEF Budget!AdmitUser, Budget!AdmitTeam, Budget!At
<1>2. PICK x \in {"refused", "team", "running"} : Budget!GoTo(t, x)
  BY <1>1
<1>3. x \in RecordSteps /\ x # "alarms" /\ record[t].at \notin Handling
  BY <1>1 DEF RecordSteps, Handling
<1>4. Goes(t, x, record[t].due, record[t].claim)
  BY <1>2, <1>3, GoToGoes
<1>. QED  BY <1>1, <1>3, <1>4, Waits

LEMMA TaskEndsKeeps ==
  ASSUME BudgetInv, NEW t \in Tasks, Budget!TaskEnds(t)
  PROVE  BudgetInv'
<1>. DEFINE n == record[t].rewrites + 1
            first == [record[t] EXCEPT !.at = "write", !.attempt = 1]
            again == [record[t] EXCEPT !.at = "write", !.attempt = 1, !.rewrites = n]
<1>1. /\ record' = [record EXCEPT ![t] = first] \/ record' = [record EXCEPT ![t] = again]
      /\ UNCHANGED <<spend, rung, alerted>> /\ record[t].at \in {"running", "done"}
  BY DEF Budget!TaskEnds, Budget!At
<1>2. record[t] \in RecordType /\ "write" \in RecordSteps /\ 1 \in Int /\ n \in Int
  BY DEF BudgetInv, RecordType, RecordSteps, Handling
<1>3. {} \in SUBSET Alarms
  OBVIOUS
<1>. HIDE DEF n
<1>4. first \in RecordType /\ again \in RecordType
  BY <1>2, <1>3, RecordFields, Zenon
<1>5. /\ first.at = "write" /\ first.due = record[t].due /\ first.claim = record[t].claim
      /\ again.at = "write" /\ again.due = record[t].due /\ again.claim = record[t].claim
  BY <1>2 DEF RecordType
<1>. HIDE DEF first, again
<1>6. Goes(t, "write", record[t].due, record[t].claim)
  BY <1>1, <1>4, <1>5 DEF BudgetInv, Goes
<1>7. "write" \in Handling
  BY DEF Handling
<1>. QED  BY <1>1, <1>2, <1>6, <1>7, Waits

LEMMA WriteRollupKeeps ==
  ASSUME Priced, BudgetInv, NEW t \in Tasks, Budget!WriteRollup(t)
  PROVE  BudgetInv'
<1>1. /\ record[t].at = "write" /\ UNCHANGED <<rung, alerted>>
      /\ \/ spend' = Budget!Added(t) /\ Budget!GoTo(t, "read")
         \/ spend' = spend /\ Budget!GoTo(t, "read")
         \/ (spend' = spend \/ spend' = Budget!Added(t)) /\ Budget!Fail(t)
  BY DEF Budget!WriteRollup, Budget!At
<1>2. /\ "read" \in RecordSteps /\ "read" \in Handling /\ "write" \in Handling
  BY DEF RecordSteps, Handling
<1>3. CASE Budget!GoTo(t, "read")
  <2>1. Goes(t, "read", record[t].due, record[t].claim)
    BY <1>2, <1>3, GoToGoes
  <2>2. CASE spend' = spend
    BY <1>1, <1>2, <2>1, <2>2, Waits
  <2>3. CASE spend' = Budget!Added(t)
    BY <1>1, <2>1, <2>3, AddKeeps
  <2>. QED  BY <1>1, <2>2, <2>3
<1>4. CASE Budget!Fail(t) /\ spend' = spend
  BY <1>1, <1>2, <1>4, FailKeeps
<1>5. CASE Budget!Fail(t) /\ spend' = Budget!Added(t)
  BY <1>1, <1>5, FailGoes, AddKeeps
<1>. QED  BY <1>1, <1>3, <1>4, <1>5

\* A record finds all alarms that are reached and not claimed.
LEMMA LoadBudgetStatesKeeps ==
  ASSUME Priced, BudgetInv, NEW t \in Tasks, Budget!LoadBudgetStates(t)
  PROVE  BudgetInv'
<1>. DEFINE D == {a \in Budget!ScopesOf(t) \X {80, 100} : Budget!Used(a[1], a[2])} \ alerted
            h == [record[t] EXCEPT !.at = "alarms", !.due = D]
<1>1. /\ record[t].at = "read" /\ UNCHANGED <<spend, rung, alerted>>
      /\ record' = [record EXCEPT ![t] = h] \/ Budget!Fail(t)
  BY DEF Budget!LoadBudgetStates, Budget!At
<1>2. /\ "alarms" \in RecordSteps /\ "alarms" \in Handling /\ "read" \in Handling
      /\ record[t] \in RecordType
  BY DEF RecordSteps, Handling, BudgetInv
<1>3. CASE Budget!Fail(t)
  BY <1>1, <1>2, <1>3, FailKeeps
<1>4. CASE record' = [record EXCEPT ![t] = h]
  <2>1. Budget!ScopesOf(t) \subseteq Budget!Scopes
    BY DEF Budget!ScopesOf, Budget!Scopes
  <2>2. /\ D \subseteq Alarms
        /\ \A a \in D : Reached(a)
        /\ \A a \in Alarms : a[1] \in Budget!ScopesOf(t) /\ Reached(a) => a \in D \cup alerted
    BY <2>1 DEF Alarms, Reached, Budget!Used
  <2>. HIDE DEF D
  <2>3. h \in RecordType /\ h.at = "alarms" /\ h.due = D /\ h.claim = record[t].claim
    BY <1>2, <2>2 DEF RecordType
  <2>. HIDE DEF h
  <2>4. Goes(t, "alarms", D, record[t].claim)
    BY <1>4, <2>3 DEF BudgetInv, Goes
  <2>5. \A a \in Alarms : Reached(a)' <=> Reached(a)
    BY <1>1 DEF Reached
  <2>6. ASSUME NEW a \in Alarms, Reached(a) PROVE a \in rung \/ ToCome(a)'
    <3>1. CASE a[1] \in Budget!ScopesOf(t)
      <4>1. a \in D \/ a \in rung
        BY <2>2, <2>6, <3>1 DEF BudgetInv, AlarmInv
      <4>. QED  BY <1>2, <2>4, <3>1, <4>1 DEF Goes, ToCome, Budget!ScopesOf
    <3>2. CASE a[1] \notin Budget!ScopesOf(t) /\ ToCome(a)
      <4>1. PICK u \in Tasks :
              /\ a[1] \in Budget!ScopesOf(u) /\ record[u].at \in Handling
              /\ record[u].at = "alarms" => a \in record[u].due
        BY <3>2 DEF ToCome
      <4>2. u # t /\ record'[u] = record[u]
        BY <2>4, <3>2, <4>1 DEF Goes
      <4>. QED  BY <4>1, <4>2 DEF ToCome, Budget!ScopesOf
    <3>3. a \in rung \/ ToCome(a)
      BY <2>6 DEF BudgetInv, AlarmInv
    <3>. QED  BY <3>1, <3>2, <3>3
  <2>7. \A u \in Tasks : /\ record'[u].due \subseteq Alarms
                         /\ record'[u].claim \subseteq rung
                         /\ \A a \in record'[u].due : Reached(a)'
    <3>. SUFFICES ASSUME NEW u \in Tasks
                  PROVE  /\ record'[u].due \subseteq Alarms /\ record'[u].claim \subseteq rung
                         /\ \A a \in record'[u].due : Reached(a)
      BY <2>5
    <3>1. CASE u = t
      BY <2>2, <2>4, <3>1 DEF Goes, BudgetInv, AlarmInv
    <3>2. CASE u # t
      BY <2>4, <3>2 DEF Goes, BudgetInv, AlarmInv
    <3>. QED  BY <3>1, <3>2
  <2>8. \A a \in rung : Reached(a)'
    BY <2>5 DEF BudgetInv, AlarmInv
  <2>9. \A a \in Alarms : Reached(a)' => a \in rung' \/ ToCome(a)'
    BY <1>1, <2>5, <2>6
  <2>. QED  BY <1>1, <2>4, <2>7, <2>8, <2>9 DEF BudgetInv, AlarmInv, Goes
<1>. QED  BY <1>1, <1>3, <1>4

\* An alarm that was due rings; a record that has none left is done.
LEMMA EmitAlertKeeps ==
  ASSUME BudgetInv, NEW t \in Tasks, Budget!EmitAlert(t)
  PROVE  BudgetInv'
<1>1. /\ record[t].at = "alarms" /\ UNCHANGED <<spend, alerted>>
      /\ \/ \E a \in record[t].due :
              rung' = rung \cup {a} /\ record' = [record EXCEPT ![t].claim = {a}]
         \/ record[t].due = {} /\ Budget!GoTo(t, "done") /\ rung' = rung
  BY DEF Budget!EmitAlert, Budget!At
<1>2. /\ record[t] \in RecordType /\ record[t].due \subseteq Alarms
      /\ \A a \in record[t].due : Reached(a)
  BY DEF BudgetInv, AlarmInv
<1>3. \A a \in Alarms : Reached(a)' <=> Reached(a)
  BY <1>1 DEF Reached
<1>4. CASE record[t].due = {} /\ Budget!GoTo(t, "done") /\ rung' = rung
  <2>1. Goes(t, "done", {}, record[t].claim)
    BY <1>4, GoToGoes DEF RecordSteps
  <2>2. ASSUME NEW a \in Alarms, ToCome(a) PROVE ToCome(a)'
    <3>1. PICK u \in Tasks :
            /\ a[1] \in Budget!ScopesOf(u) /\ record[u].at \in Handling
            /\ record[u].at = "alarms" => a \in record[u].due
      BY <2>2 DEF ToCome
    <3>2. u # t /\ record'[u] = record[u]
      BY <1>1, <1>4, <2>1, <3>1 DEF Goes
    <3>. QED  BY <3>1, <3>2 DEF ToCome, Budget!ScopesOf
  <2>3. \A u \in Tasks : record'[u].due = record[u].due /\ record'[u].claim = record[u].claim
    BY <1>4, <2>1 DEF Goes
  <2>4. \A a \in rung : Reached(a)'
    BY <1>3 DEF BudgetInv, AlarmInv
  <2>5. \A u \in Tasks : \A a \in record'[u].due : Reached(a)'
    BY <1>3, <2>3 DEF BudgetInv, AlarmInv
  <2>6. \A a \in Alarms : Reached(a)' => a \in rung' \/ ToCome(a)'
    BY <1>3, <1>4, <2>2 DEF BudgetInv, AlarmInv
  <2>. QED  BY <1>1, <1>4, <2>1, <2>3, <2>4, <2>5, <2>6 DEF BudgetInv, AlarmInv, Goes
<1>5. ASSUME NEW b \in record[t].due, rung' = rung \cup {b},
             record' = [record EXCEPT ![t].claim = {b}]
      PROVE  BudgetInv'
  <2>. DEFINE h == [record[t] EXCEPT !.claim = {b}]
  <2>1. /\ h \in RecordType /\ h.at = "alarms" /\ h.due = record[t].due /\ h.claim = {b}
        /\ record' = [record EXCEPT ![t] = h]
    BY <1>1, <1>2, <1>5 DEF RecordType
  <2>. HIDE DEF h
  <2>2. Goes(t, "alarms", record[t].due, {b})
    BY <2>1 DEF BudgetInv, Goes
  <2>3. \A u \in Tasks : record'[u].at = record[u].at /\ record'[u].due = record[u].due
    BY <1>1, <2>2 DEF Goes
  <2>4. ASSUME NEW a \in Alarms, ToCome(a) PROVE ToCome(a)'
    BY <2>3, <2>4 DEF ToCome, Budget!ScopesOf
  <2>5. \A a \in rung' : a \in Alarms /\ Reached(a)'
    BY <1>2, <1>3, <1>5 DEF BudgetInv, AlarmInv
  <2>6. \A u \in Tasks : /\ record'[u].due \subseteq Alarms
                         /\ \A a \in record'[u].due : Reached(a)'
    BY <1>3, <2>3 DEF BudgetInv, AlarmInv
  <2>7. \A u \in Tasks : record'[u].claim \subseteq rung'
    <3>. SUFFICES ASSUME NEW u \in Tasks PROVE record'[u].claim \subseteq rung'
      OBVIOUS
    <3>1. record[u].claim \subseteq rung
      BY DEF BudgetInv, AlarmInv
    <3>. QED  BY <1>5, <2>2, <3>1 DEF Goes
  <2>8. \A a \in Alarms : Reached(a)' => a \in rung' \/ ToCome(a)'
    BY <1>3, <1>5, <2>4 DEF BudgetInv, AlarmInv
  <2>9. alerted' \subseteq rung'
    BY <1>1, <1>5 DEF BudgetInv, AlarmInv
  <2>. QED  BY <1>1, <2>2, <2>5, <2>6, <2>7, <2>8, <2>9 DEF BudgetInv, AlarmInv, Goes
<1>. QED  BY <1>1, <1>4, <1>5

\* An alarm is claimed after it has rung.
LEMMA ClaimAlertKeeps ==
  ASSUME BudgetInv, NEW t \in Tasks, Budget!ClaimAlert(t)
  PROVE  BudgetInv'
<1>. DEFINE D == record[t].due \ record[t].claim
            h == [record[t] EXCEPT !.due = D, !.claim = {}]
<1>1. /\ record[t].at = "alarms" /\ UNCHANGED <<spend, rung>>
      /\ alerted' = alerted \/ alerted' = alerted \cup record[t].claim
      /\ record' = [record EXCEPT ![t] = h] \/ Budget!Fail(t)
  BY DEF Budget!ClaimAlert, Budget!At
<1>2. record[t] \in RecordType /\ record[t].claim \subseteq rung
  BY DEF BudgetInv, AlarmInv
<1>3. h \in RecordType /\ h.at = "alarms" /\ h.due = D /\ h.claim = {}
  BY <1>1, <1>2 DEF RecordType
<1>. HIDE DEF h
<1>4. \/ Goes(t, "alarms", D, {})
      \/ Goes(t, "write", {}, {}) \/ Goes(t, "dlq", {}, {})
  BY <1>1, <1>3, FailGoes DEF BudgetInv, Goes
<1>5. PICK x \in {"alarms", "write", "dlq"}, E \in {D, {}} :
        Goes(t, x, E, {}) /\ (x = "alarms" => E = D)
  BY <1>4
<1>6. /\ \A a \in Alarms : Reached(a)' <=> Reached(a)
      /\ alerted' \subseteq rung'
  BY <1>1, <1>2 DEF Reached, BudgetInv, AlarmInv
<1>7. ASSUME NEW a \in Alarms, ToCome(a) PROVE a \in rung \/ ToCome(a)'
  <2>1. PICK u \in Tasks :
          /\ a[1] \in Budget!ScopesOf(u) /\ record[u].at \in Handling
          /\ record[u].at = "alarms" => a \in record[u].due
    BY <1>7 DEF ToCome
  <2>2. CASE u # t
    <3>1. record'[u] = record[u]
      BY <1>5, <2>2 DEF Goes
    <3>. QED  BY <2>1, <3>1 DEF ToCome, Budget!ScopesOf
  <2>3. CASE u = t
    <3>1. a \in record[t].due
      BY <1>1, <2>1, <2>3
    <3>2. a \in rung \/ (record'[t].at \in Handling /\ (record'[t].at = "alarms" => a \in record'[t].due))
      BY <1>2, <1>5, <3>1 DEF Goes, Handling
    <3>. QED  BY <2>1, <2>3, <3>2 DEF ToCome, Budget!ScopesOf
  <2>. QED  BY <2>2, <2>3
<1>8. \A u \in Tasks : /\ record'[u].due \subseteq record[u].due
                       /\ record'[u].claim \subseteq record[u].claim
  BY <1>5 DEF Goes
<1>9. \A a \in rung : Reached(a)'
  BY <1>6 DEF BudgetInv, AlarmInv
<1>10. \A u \in Tasks : \A a \in record'[u].due : a \in Alarms /\ Reached(a)'
  BY <1>6, <1>8 DEF BudgetInv, AlarmInv
<1>11. \A a \in Alarms : Reached(a)' => a \in rung' \/ ToCome(a)'
  BY <1>1, <1>6, <1>7 DEF BudgetInv, AlarmInv
<1>12. record' \in [Tasks -> RecordType]
  BY <1>5 DEF Goes
<1>. QED  BY <1>1, <1>6, <1>8, <1>9, <1>10, <1>11, <1>12 DEF BudgetInv, AlarmInv

LEMMA BudgetStep ==
  ASSUME Priced, BudgetInv, [Budget!Next]_(Budget!vars)
  PROVE  BudgetInv'
<1>1. CASE UNCHANGED Budget!vars
  BY <1>1 DEF Budget!vars, BudgetInv, AlarmInv, Reached, ToCome, Budget!ScopesOf
<1>2. ASSUME NEW t \in Tasks, Budget!Crash(t) PROVE BudgetInv'
  BY <1>2, FailKeeps DEF Budget!Crash, Handling
<1>3. CASE Budget!Next
  BY <1>2, <1>3, AdmitKeeps, TaskEndsKeeps, WriteRollupKeeps, LoadBudgetStatesKeeps,
     EmitAlertKeeps, ClaimAlertKeeps DEF Budget!Next
<1>. QED  BY <1>1, <1>3

LEMMA AlarmsImplied ==
  ASSUME BudgetInv
  PROVE  Budget!AlarmNotLost
<1>1. ASSUME NEW s \in Budget!Scopes, NEW percent \in {80, 100}
      PROVE  (\A t \in Tasks : s \in Budget!ScopesOf(t) =>
                ~(record[t].at \in {"write", "read", "alarms", "dlq"}))
             /\ Budget!Used(s, percent) => <<s, percent>> \in rung
  <2>. DEFINE a == <<s, percent>>
  <2>1. /\ a \in Alarms /\ a[1] = s
        /\ Budget!Used(s, percent) => Reached(a)
    BY DEF Alarms, Reached, Budget!Used
  <2>2. ToCome(a) => \E t \in Tasks : /\ s \in Budget!ScopesOf(t)
                                      /\ record[t].at \in {"write", "read", "alarms", "dlq"}
    BY <2>1 DEF ToCome, Handling
  <2>3. Reached(a) => a \in rung \/ ToCome(a)
    BY <2>1 DEF BudgetInv, AlarmInv
  <2>. HIDE DEF a
  <2>4. Budget!Used(s, percent) => a \in rung \/ ToCome(a)
    BY <2>1, <2>3
  <2>. QED  BY <2>2, <2>4, Zenon DEF a
<1>. QED  BY <1>1, Zenon DEF Budget!AlarmNotLost

\* A caller passes the check of a budget only below its limit.
LEMMA AdmissionImplied ==
  ASSUME BudgetInv, [Budget!Next]_(Budget!vars)
  PROVE  [Budget!AdmittedBeforeAlarm]_(Budget!vars)
<1>. SUFFICES ASSUME Budget!Next PROVE Budget!AdmittedBeforeAlarm
  OBVIOUS
<1>. SUFFICES ASSUME NEW t \in Tasks
              PROVE  /\ Budget!At(t, "new") /\ record'[t].at = "team" => <<User, 100>> \notin rung
                     /\ Budget!At(t, "team") /\ record'[t].at = "running" =>
                          <<TeamOf[t], 100>> \notin rung
  BY DEF Budget!AdmittedBeforeAlarm
<1>1. ASSUME NEW s, <<s, 100>> \in rung PROVE Budget!Used(s, 100)
  BY <1>1 DEF BudgetInv, AlarmInv, Reached, Budget!Used
<1>2. PICK u \in Tasks :
        \/ Budget!AdmitUser(u) \/ Budget!AdmitTeam(u) \/ Budget!TaskEnds(u)
        \/ Budget!WriteRollup(u) \/ Budget!LoadBudgetStates(u) \/ Budget!EmitAlert(u)
        \/ Budget!ClaimAlert(u) \/ Budget!Crash(u)
  BY DEF Budget!Next
<1>3. CASE u = t /\ (Budget!AdmitUser(t) \/ Budget!AdmitTeam(t))
  <2>1. /\ record[t].at = "new" =>
             Budget!GoTo(t, IF Budget!Used(User, 100) THEN "refused" ELSE "team")
        /\ record[t].at = "team" =>
             Budget!GoTo(t, IF Budget!Used(TeamOf[t], 100) THEN "refused" ELSE "running")
    BY <1>3 DEF Budget!AdmitUser, Budget!AdmitTeam, Budget!At
  <2>2. \A x \in RecordSteps : Budget!GoTo(t, x) => record'[t].at = x
    BY GoToGoes DEF Goes
  <2>3. {"refused", "team", "running"} \subseteq RecordSteps
    BY DEF RecordSteps
  <2>. QED  BY <1>1, <2>1, <2>2, <2>3 DEF Budget!At
<1>4. CASE u # t
  <2>1. record'[t] = record[t]
    BY <1>2, <1>4 DEF BudgetInv, Budget!AdmitUser, Budget!AdmitTeam, Budget!TaskEnds,
       Budget!WriteRollup, Budget!LoadBudgetStates, Budget!EmitAlert, Budget!ClaimAlert,
       Budget!Crash, Budget!GoTo, Budget!Fail
  <2>. QED  BY <2>1 DEF Budget!At
<1>5. CASE u = t /\ ~(Budget!AdmitUser(t) \/ Budget!AdmitTeam(t))
  <2>1. record[t].at \notin {"new", "team"}
    BY <1>2, <1>5 DEF Budget!TaskEnds, Budget!WriteRollup, Budget!LoadBudgetStates,
       Budget!EmitAlert, Budget!ClaimAlert, Budget!Crash, Budget!At
  <2>. QED  BY <2>1 DEF Budget!At
<1>. QED  BY <1>3, <1>4, <1>5

\* Whatever fails and however often a record comes again: when the records of a scope have
\* been handled, each alarm the scope has reached has rung; and from then on no check of
\* that budget lets a task pass.
THEOREM AlarmsRing == Spec => AlarmsHonoured
<1>. DEFINE I == subject = "budget" => BudgetInv
            Rung == subject = "budget" => Budget!AlarmNotLost
            Step == subject = "budget" => Budget!AdmittedBeforeAlarm
<1>1. Init => I
  BY BudgetInit, ServicesAssumption DEF Init
<1>2. I /\ [Next]_vars => I'
  BY OnlyOne, BudgetStep, ServicesAssumption
<1>3. I => Rung
  BY AlarmsImplied, ServicesAssumption
<1>4. I /\ [Next]_vars => [Step]_vars
  <2>. SUFFICES ASSUME I, Next, subject = "budget" PROVE [Budget!AdmittedBeforeAlarm]_vars
    BY DEF vars
  <2>1. OnlyBudget /\ [Budget!AdmittedBeforeAlarm]_(Budget!vars)
    BY AdmissionImplied, OnlyOne, ServicesAssumption
       DEF Next, OnlyCreation, OnlyUploads, OnlyBudget, OnlySteer, OnlyFanOuts, OnlySession
  <2>. QED  BY <2>1 DEF OnlyBudget, vars, budgetVars, Budget!vars
<1>5. Init /\ [][Next]_vars => []Rung /\ [][Step]_vars
  <2>. HIDE DEF I, Rung, Step
  <2>. QED  BY <1>1, <1>2, <1>3, <1>4, PTL
<1>. QED  BY <1>5, PTL DEF Spec, AlarmsHonoured

-----------------------------------------------------------------------------
(***************************************************************************)
(* BudgetRollup: a cost is counted once.  A fold over a finite set is      *)
(* shown to solve its equation, and any element can be taken out of it.    *)
(***************************************************************************)

\* What tasks cost together, as CountedOnce adds it up.
Total(S) == Budget!MapThenSumSet(LAMBDA t : Cost[t], S)

Pick(s) == CHOOSE x \in s : TRUE

\* The equation that the fold solves on the subsets of a set.
Totals(f, S) ==
    f = [s \in SUBSET S |-> IF s = {} THEN 0 ELSE Cost[Pick(s)] + f[s \ {Pick(s)}]]

TotalsOf(S) == CHOOSE f : Totals(f, S)

LEMMA TotalIs == ASSUME NEW S PROVE Total(S) = TotalsOf(S)[S]
BY DEF Total, Budget!MapThenSumSet, Budget!MapThenFoldSet, TotalsOf, Totals, Pick

\* Among some finite sets there is one that none of the others is a part of.
LEMMA SmallestSet ==
  ASSUME NEW F, F # {}, \A s \in F : IsFiniteSet(s)
  PROVE  \E s \in F : \A u \in F : u \subseteq s => u = s
<1>. DEFINE R == {p \in Nat \X Nat : p[1] < p[2]}
            N == {Cardinality(s) : s \in F}
<1>1. IsWellFoundedOn(R, Nat)
  BY NatLessThanWellFounded DEF OpToRel
<1>2. N \subseteq Nat /\ N # {}
  BY FS_CardinalityType
<1>. HIDE DEF R
<1>3. PICK k \in N : \A m \in N : <<m, k>> \notin R
  <2>. HIDE DEF N
  <2>. QED  BY <1>1, <1>2, WFMin
<1>4. PICK s \in F : k = Cardinality(s)
  BY <1>3
<1>5. ASSUME NEW u \in F, u \subseteq s, u # s PROVE FALSE
  <2>1. Cardinality(u) \in Nat /\ Cardinality(s) \in Nat
    BY FS_CardinalityType
  <2>2. Cardinality(u) < Cardinality(s)
    BY <1>5, <2>1, FS_Subset
  <2>. QED  BY <1>3, <1>4, <2>1, <2>2 DEF R
<1>. QED  BY <1>5

LEMMA PickIn ==
  ASSUME NEW s, s # {}
  PROVE  Pick(s) \in s
BY DEF Pick

\* Two solutions agree where both are defined.
LEMMA TotalsAgree ==
  ASSUME NEW A, NEW B, NEW f, NEW g, Totals(f, A), Totals(g, B),
         NEW S \in SUBSET A, S \in SUBSET B, IsFiniteSet(S)
  PROVE  f[S] = g[S]
<1>. DEFINE F == {s \in SUBSET S : f[s] # g[s]}
<1>1. SUFFICES ASSUME F # {} PROVE FALSE
  OBVIOUS
<1>2. \A s \in F : IsFiniteSet(s)
  BY FS_Subset
<1>3. PICK s \in F : \A u \in F : u \subseteq s => u = s
  <2>. HIDE DEF F
  <2>. QED  BY <1>1, <1>2, SmallestSet
<1>4. /\ f[s] = IF s = {} THEN 0 ELSE Cost[Pick(s)] + f[s \ {Pick(s)}]
      /\ g[s] = IF s = {} THEN 0 ELSE Cost[Pick(s)] + g[s \ {Pick(s)}]
  BY DEF Totals
<1>5. s # {}
  BY <1>4
<1>6. s \ {Pick(s)} \in SUBSET S /\ s \ {Pick(s)} # s
  BY <1>5, PickIn
<1>7. f[s \ {Pick(s)}] = g[s \ {Pick(s)}]
  BY <1>3, <1>6
<1>. QED  BY <1>3, <1>4, <1>7

\* A finite set has a solution: that of a larger set is put together from
\* those of its parts.
LEMMA TotalsExist ==
  ASSUME NEW S, IsFiniteSet(S)
  PROVE  Totals(TotalsOf(S), S)
<1>. DEFINE F == {s \in SUBSET S : ~Totals(TotalsOf(s), s)}
<1>1. SUFFICES ASSUME F # {} PROVE FALSE
  OBVIOUS
<1>2. \A s \in F : IsFiniteSet(s)
  BY FS_Subset
<1>3. PICK s \in F : \A u \in F : u \subseteq s => u = s
  <2>. HIDE DEF F
  <2>. QED  BY <1>1, <1>2, SmallestSet
<1>4. \A u \in SUBSET s : u # s => Totals(TotalsOf(u), u) /\ IsFiniteSet(u)
  BY <1>3, FS_Subset
<1>. DEFINE rest(v) == v \ {Pick(v)}
            f == [v \in SUBSET s |-> IF v = {} THEN 0 ELSE Cost[Pick(v)] + TotalsOf(rest(v))[rest(v)]]
<1>5. ASSUME NEW v \in SUBSET s, v # {}
      PROVE  f[rest(v)] = TotalsOf(rest(v))[rest(v)]
  <2>. DEFINE u == rest(v)
  <2>1. u \in SUBSET s /\ u # s
    BY <1>5, PickIn
  <2>2. Totals(TotalsOf(u), u) /\ IsFiniteSet(u)
    BY <2>1, <1>4
  <2>3. TotalsOf(u)[u] = IF u = {} THEN 0 ELSE Cost[Pick(u)] + TotalsOf(u)[rest(u)]
    <3>. HIDE DEF u
    <3>. QED  BY <2>2 DEF Totals
  <2>4. CASE u = {}
    BY <2>1, <2>3, <2>4
  <2>5. CASE u # {}
    <3>1. rest(u) \in SUBSET s /\ rest(u) # s /\ rest(u) \in SUBSET u /\ rest(u) \in SUBSET rest(u)
      BY <2>1
    <3>2. Totals(TotalsOf(rest(u)), rest(u)) /\ IsFiniteSet(rest(u))
      BY <3>1, <1>4
    <3>3. TotalsOf(u)[rest(u)] = TotalsOf(rest(u))[rest(u)]
      <4>. HIDE DEF u, rest
      <4>. QED  BY <2>2, <3>1, <3>2, TotalsAgree
    <3>4. f[u] = Cost[Pick(u)] + TotalsOf(rest(u))[rest(u)]
      BY <2>1, <2>5
    <3>. QED  BY <2>3, <2>5, <3>3, <3>4
  <2>. QED  BY <2>4, <2>5
<1>6. Totals(f, s)
  <2>1. \A v \in SUBSET s : f[v] = IF v = {} THEN 0 ELSE Cost[Pick(v)] + f[rest(v)]
    BY <1>5
  <2>2. f = [v \in SUBSET s |-> f[v]]
    OBVIOUS
  <2>. HIDE DEF f
  <2>3. f = [v \in SUBSET s |-> IF v = {} THEN 0 ELSE Cost[Pick(v)] + f[rest(v)]]
    BY <2>1, <2>2
  <2>. QED  BY <2>3 DEF Totals
<1>7. Totals(TotalsOf(s), s)
  <2>. HIDE DEF f
  <2>. QED  BY <1>6 DEF TotalsOf
<1>. QED  BY <1>3, <1>7

\* What some tasks cost is what one of them and the others cost.
LEMMA TotalUnfolds ==
  ASSUME NEW S, IsFiniteSet(S)
  PROVE  Total(S) = IF S = {} THEN 0 ELSE Cost[Pick(S)] + Total(S \ {Pick(S)})
<1>. DEFINE rest == S \ {Pick(S)}
<1>1. IsFiniteSet(rest)
  BY FS_Subset
<1>2. Totals(TotalsOf(S), S) /\ Totals(TotalsOf(rest), rest)
  BY <1>1, TotalsExist
<1>3. TotalsOf(S)[S] = IF S = {} THEN 0 ELSE Cost[Pick(S)] + TotalsOf(S)[rest]
  BY <1>2 DEF Totals
<1>4. TotalsOf(S)[rest] = TotalsOf(rest)[rest]
  BY <1>1, <1>2, TotalsAgree
<1>. QED  BY <1>3, <1>4, TotalIs

LEMMA TotalType ==
  ASSUME Cost \in [Tasks -> Nat], NEW S \in SUBSET Tasks, IsFiniteSet(S)
  PROVE  Total(S) \in Nat
<1>. DEFINE F == {s \in SUBSET S : Total(s) \notin Nat}
<1>1. SUFFICES ASSUME F # {} PROVE FALSE
  OBVIOUS
<1>2. \A s \in F : IsFiniteSet(s)
  BY FS_Subset
<1>3. PICK s \in F : \A u \in F : u \subseteq s => u = s
  <2>. HIDE DEF F
  <2>. QED  BY <1>1, <1>2, SmallestSet
<1>4. Total(s) = IF s = {} THEN 0 ELSE Cost[Pick(s)] + Total(s \ {Pick(s)})
  BY <1>2, TotalUnfolds
<1>5. s # {}
  BY <1>3, <1>4
<1>6. Pick(s) \in s /\ s \ {Pick(s)} \in SUBSET S /\ s \ {Pick(s)} # s
  BY <1>5, PickIn
<1>7. Total(s \ {Pick(s)}) \in Nat /\ Cost[Pick(s)] \in Nat
  BY <1>3, <1>6
<1>. QED  BY <1>3, <1>4, <1>5, <1>7

\* Any of them can be taken out.
LEMMA TotalWithout ==
  ASSUME Cost \in [Tasks -> Nat], NEW S \in SUBSET Tasks, IsFiniteSet(S), NEW t \in S
  PROVE  Total(S) = Cost[t] + Total(S \ {t})
<1>. DEFINE F == {s \in SUBSET S : \E x \in s : Total(s) # Cost[x] + Total(s \ {x})}
<1>1. SUFFICES ASSUME F # {} PROVE FALSE
  OBVIOUS
<1>2. \A s \in F : IsFiniteSet(s)
  BY FS_Subset
<1>3. PICK s \in F : \A u \in F : u \subseteq s => u = s
  <2>. HIDE DEF F
  <2>. QED  BY <1>1, <1>2, SmallestSet
<1>4. PICK x \in s : Total(s) # Cost[x] + Total(s \ {x})
  OBVIOUS
<1>. DEFINE p == Pick(s)
<1>5. p \in s /\ Total(s) = Cost[p] + Total(s \ {p})
  BY <1>2, TotalUnfolds, PickIn
<1>. HIDE DEF p
<1>6. p # x
  BY <1>4, <1>5
<1>7. Total(s \ {p}) = Cost[x] + Total((s \ {p}) \ {x})
  <2>1. s \ {p} \in SUBSET S /\ s \ {p} # s /\ x \in s \ {p}
    BY <1>5, <1>6
  <2>. QED  BY <2>1, <1>3
<1>8. Total(s \ {x}) = Cost[p] + Total((s \ {x}) \ {p})
  <2>1. s \ {x} \in SUBSET S /\ s \ {x} # s /\ p \in s \ {x}
    BY <1>5, <1>6
  <2>. QED  BY <2>1, <1>3
<1>9. (s \ {p}) \ {x} = (s \ {x}) \ {p}
  OBVIOUS
<1>10. Total((s \ {x}) \ {p}) \in Nat /\ Cost[x] \in Nat /\ Cost[p] \in Nat
  <2>1. (s \ {x}) \ {p} \in SUBSET Tasks /\ IsFiniteSet((s \ {x}) \ {p})
    BY FS_Subset
  <2>. QED  BY <2>1, <1>5, TotalType
<1>. QED  BY <1>4, <1>5, <1>7, <1>8, <1>9, <1>10
LEMMA TotalOfNone == Total({}) = 0
BY TotalUnfolds, FS_EmptySet

\* The marked tasks are finitely many, and what they cost their scopes is spent.
MarkedOf(s) == {t \in marked : s \in Budget!ScopesOf(t)}

CountedInv ==
    /\ IsFiniteSet(marked) /\ marked \subseteq Tasks
    /\ spend \in [Budget!Scopes -> Nat]
    /\ \A s \in Budget!Scopes : spend[s] = Total(MarkedOf(s))

LEMMA CountedInit == Priced /\ Budget!Init => CountedInv
<1>. SUFFICES ASSUME Priced, Budget!Init PROVE CountedInv
  OBVIOUS
<1>1. marked = {} /\ spend = [s \in Budget!Scopes |-> 0]
  BY DEF Budget!Init
<1>2. \A s \in Budget!Scopes : MarkedOf(s) = {}
  BY <1>1 DEF MarkedOf
<1>. QED  BY <1>1, <1>2, TotalOfNone, FS_EmptySet DEF CountedInv

\* A task is marked in the transaction that adds its cost to its scopes.
LEMMA AddCounts ==
  ASSUME Priced, CountedInv, NEW t \in Tasks, t \notin marked,
         spend' = Budget!Added(t), marked' = marked \cup {t}
  PROVE  CountedInv'
<1>1. IsFiniteSet(marked') /\ marked' \subseteq Tasks
  BY FS_AddElement DEF CountedInv
<1>2. spend' \in [Budget!Scopes -> Nat]
  BY DEF CountedInv, Priced, Budget!Added
<1>3. ASSUME NEW s \in Budget!Scopes PROVE spend'[s] = Total(MarkedOf(s)')
  <2>1. /\ spend[s] = Total(MarkedOf(s))
        /\ spend'[s] = IF s \in Budget!ScopesOf(t) THEN spend[s] + Cost[t] ELSE spend[s]
        /\ spend[s] \in Nat /\ Cost[t] \in Nat
    BY DEF CountedInv, Budget!Added, Priced
  <2>2. CASE s \in Budget!ScopesOf(t)
    <3>1. MarkedOf(s)' = MarkedOf(s) \cup {t} /\ t \notin MarkedOf(s)
      BY <2>2 DEF MarkedOf, Budget!ScopesOf
    <3>2. MarkedOf(s)' \ {t} = MarkedOf(s) /\ t \in MarkedOf(s)'
      BY <3>1
    <3>3. MarkedOf(s)' \in SUBSET marked'
      BY DEF MarkedOf
    <3>4. MarkedOf(s)' \in SUBSET Tasks /\ IsFiniteSet(MarkedOf(s)')
      BY <1>1, <3>3, FS_Subset
    <3>5. Total(MarkedOf(s)') = Cost[t] + Total(MarkedOf(s)' \ {t})
      BY <3>2, <3>4, TotalWithout DEF Priced
    <3>6. Total(MarkedOf(s)' \ {t}) = spend[s]
      BY <2>1, <3>2
    <3>. QED  BY <2>1, <2>2, <3>5, <3>6
  <2>3. CASE s \notin Budget!ScopesOf(t)
    <3>1. MarkedOf(s)' = MarkedOf(s)
      BY <2>3 DEF MarkedOf, Budget!ScopesOf
    <3>. QED  BY <2>1, <2>3, <3>1
  <2>. QED  BY <2>2, <2>3
<1>. QED  BY <1>1, <1>2, <1>3 DEF CountedInv

LEMMA CountedStep ==
  ASSUME Priced, CountedInv, [Budget!Next]_(Budget!vars)
  PROVE  CountedInv'
<1>1. CASE UNCHANGED <<spend, marked>>
  BY <1>1 DEF CountedInv, MarkedOf, Budget!ScopesOf
<1>2. ASSUME NEW t \in Tasks, Budget!WriteRollup(t)
      PROVE  \/ UNCHANGED <<spend, marked>>
             \/ t \notin marked /\ spend' = Budget!Added(t) /\ marked' = marked \cup {t}
  BY <1>2 DEF Budget!WriteRollup
<1>3. ASSUME NEW t \in Tasks,
             \/ Budget!AdmitUser(t) \/ Budget!AdmitTeam(t) \/ Budget!TaskEnds(t)
             \/ Budget!LoadBudgetStates(t) \/ Budget!EmitAlert(t) \/ Budget!ClaimAlert(t)
             \/ Budget!Crash(t)
      PROVE  UNCHANGED <<spend, marked>>
  BY <1>3 DEF Budget!AdmitUser, Budget!AdmitTeam, Budget!TaskEnds, Budget!LoadBudgetStates,
              Budget!EmitAlert, Budget!ClaimAlert, Budget!Crash
<1>4. CASE UNCHANGED Budget!vars
  BY <1>1, <1>4 DEF Budget!vars
<1>5. CASE Budget!Next
  BY <1>1, <1>2, <1>3, <1>5, AddCounts DEF Budget!Next
<1>. QED  BY <1>4, <1>5

LEMMA CountedImplied ==
  ASSUME CountedInv
  PROVE  Budget!CountedOnce
BY DEF CountedInv, MarkedOf, Total, Budget!CountedOnce

\* A cost is counted once in each scope of its task: what a scope has spent is
\* what its marked tasks cost, whichever attempts at their records failed.
THEOREM CostsAreCountedOnce == Spec => []CountedOnce
<1>. DEFINE I == subject = "budget" => CountedInv
<1>1. Init => I
  BY CountedInit, ServicesAssumption DEF Init
<1>2. I /\ [Next]_vars => I'
  <2>. SUFFICES ASSUME I, [Next]_vars PROVE I'
    OBVIOUS
  <2>. QED  BY OnlyOne, CountedStep, ServicesAssumption
<1>3. I => CountedOnce
  BY CountedImplied DEF CountedOnce
<1>. HIDE DEF I
<1>. QED  BY <1>1, <1>2, <1>3, PTL DEF Spec

-----------------------------------------------------------------------------
(***************************************************************************)
(* PendingUploads: what is submitted was screened, and is submitted once   *)
(***************************************************************************)

VersionType == [content : {"clean", "large", "blocked", "malformed", "marker"}, gone : BOOLEAN]

ScreeningType == [screening : {"pending", "passed", "blocked"}, version : Int]

ConfirmSteps ==
    {"idle", "head", "pre-check", "screen", "fail", "clean-up", "admit", "submit",
     "roll-back", "invoke"}

ConfirmType ==
    [at : ConfirmSteps, seen : [Attachments -> ScreeningType], meta : [Attachments -> Int],
     screened : [Attachments -> ScreeningType]]

Waiting == {"PENDING_UPLOADS", "FAILED", "CANCELLED"}

UploadsTyped ==
    /\ waiting \in [status : Waiting \cup Uploads!Submitted,
                    atts : [Attachments -> ScreeningType]]
    /\ store \in [Attachments -> Seq(VersionType)]
    /\ calls \in [Calls -> ConfirmType]
    /\ active \in Nat /\ started \in Nat
    /\ cleaner \in {"idle", "delete"} /\ oversized \in BOOLEAN

\* An object's version that was uploaded, and one that is fit to be used
IsUpload(a, v) == v \in DOMAIN store[a] /\ store[a][v].content # "marker"

IsFit(a, v) == v \in DOMAIN store[a] /\ store[a][v].content \in {"clean", "large"}

Fit(atts) == \A a \in Attachments : atts[a].screening = "passed" => IsFit(a, atts[a].version)

\* What a call has looked up and screened so far.
ConfirmInOrder(c) ==
    /\ Fit(calls[c].seen) /\ Fit(calls[c].screened)
    /\ \A a \in Attachments :
         /\ calls[c].meta[a] = 0 \/ IsUpload(a, calls[c].meta[a])
         /\ calls[c].screened[a].screening = "pending" => calls[c].screened[a] = Uploads!Pending
    /\ calls[c].at = "idle" => calls[c].screened = Uploads!NotScreened
    /\ calls[c].at \in {"head", "pre-check"} => calls[c].screened = Uploads!NotScreened
    /\ calls[c].at \in {"pre-check", "screen"} =>
         \A a \in Uploads!PendingIn(calls[c].seen) : calls[c].meta[a] # 0
    /\ calls[c].at \in {"admit", "submit"} => Uploads!PendingIn(Uploads!Final(c)) = {}

\* While the task is neither failed nor cancelled nor found too large, nothing is deleted.
NothingDeleted ==
    waiting.status \in Uploads!Submitted \cup {"PENDING_UPLOADS"} /\ ~oversized =>
        /\ cleaner = "idle"
        /\ \A c \in Calls : calls[c].at # "clean-up"
        /\ \A a \in Attachments : \A v \in DOMAIN store[a] : ~store[a][v].gone

\* The call that submits is the one that starts the orchestrator.
OneStart ==
    /\ started <= 1
    /\ started = 1 => waiting.status \in Uploads!Submitted
    /\ \A c \in Calls : calls[c].at = "invoke" =>
         /\ started = 0 /\ waiting.status \in Uploads!Submitted
         /\ \A d \in Calls : calls[d].at = "invoke" => d = c

InSlot == {c \in Calls : calls[c].at \in {"submit", "roll-back"}}

TaskSlots ==
    (IF waiting.status \in Uploads!Submitted THEN 1 ELSE 0)
        + (IF waiting.status = "HYDRATING" THEN 1 ELSE 0)

UploadsInv ==
    /\ UploadsTyped
    /\ Fit(waiting.atts)
    /\ Uploads!AllWereScreened
    /\ \A c \in Calls : ConfirmInOrder(c)
    /\ NothingDeleted
    /\ OneStart
    /\ active <= Cardinality(InSlot) + TaskSlots

\* The latest of a finite number of versions is one of them.
LEMMA LastVersion ==
  ASSUME NEW n \in Nat, NEW S \in SUBSET (1 .. n), S # {}
  PROVE  Uploads!Max(S) \in S
<1>. DEFINE R == {p \in Nat \X Nat : p[1] < p[2]}
            T == {n - x : x \in S}
<1>1. IsWellFoundedOn(R, Nat)
  BY NatLessThanWellFounded DEF OpToRel
<1>2. T \subseteq Nat /\ T # {}
  <2>1. \A x \in S : n - x \in Nat
    OBVIOUS
  <2>2. PICK x \in S : TRUE
    OBVIOUS
  <2>3. n - x \in T
    BY <2>2
  <2>. QED  BY <2>1, <2>3
<1>. HIDE DEF R, T
<1>3. PICK k \in T : \A m \in T : <<m, k>> \notin R
  BY <1>1, <1>2, WFMin
<1>4. PICK x \in S : k = n - x
  BY <1>3 DEF T
<1>5. ASSUME NEW y \in S PROVE x >= y
  <2>1. n - y \in T /\ <<n - y, n - x>> \notin R
    BY <1>3, <1>4 DEF T
  <2>2. n - y \in Nat /\ n - x \in Nat
    OBVIOUS
  <2>. QED  BY <2>1, <2>2 DEF R
<1>. QED  BY <1>5 DEF Uploads!Max

LEMMA LatestIsUpload ==
  ASSUME UploadsTyped, NEW a \in Attachments, Uploads!Latest(a) # 0
  PROVE  IsUpload(a, Uploads!Latest(a)) /\ Uploads!Latest(a) \in Int
<1>. DEFINE alive == {v \in DOMAIN store[a] : ~store[a][v].gone}
            v == IF alive = {} THEN 0 ELSE Uploads!Max(alive)
<1>1. Len(store[a]) \in Nat /\ DOMAIN store[a] = 1 .. Len(store[a])
  BY DEF UploadsTyped
<1>2. Uploads!Latest(a) = IF v # 0 /\ store[a][v].content = "marker" THEN 0 ELSE v
  BY DEF Uploads!Latest
<1>3. v # 0 => v \in DOMAIN store[a]
  <2>1. alive \in SUBSET (1 .. Len(store[a]))
    BY <1>1
  <2>2. alive # {} => Uploads!Max(alive) \in alive
    BY <1>1, <2>1, LastVersion
  <2>. QED  BY <2>2
<1>. HIDE DEF v
<1>4. v # 0 /\ store[a][v].content # "marker" /\ Uploads!Latest(a) = v
  BY <1>2
<1>. QED  BY <1>1, <1>3, <1>4 DEF IsUpload

\* The bucket keeps what an upload holds: versions are added, deleted and never changed.
LEMMA StoreGrows ==
  ASSUME UploadsTyped, NEW a \in Attachments,
         DOMAIN store[a] \subseteq DOMAIN store'[a],
         \A v \in DOMAIN store[a] : store'[a][v].content = store[a][v].content
  PROVE  /\ \A v : IsUpload(a, v) => IsUpload(a, v)'
         /\ \A v : IsFit(a, v) => IsFit(a, v)'
  BY DEF IsUpload, IsFit

\* One call moves on, the others wait.
CallMoves(c) ==
    /\ calls' \in [Calls -> ConfirmType]
    /\ \A d \in Calls : d # c => calls'[d] = calls[d]

Alive(s) == s \in Uploads!Submitted \cup {"PENDING_UPLOADS"}

LEMMA IdleCall ==
  /\ Uploads!Idle \in ConfirmType /\ Uploads!Idle.at = "idle"
  /\ Uploads!Idle.seen = Uploads!NotScreened /\ Uploads!Idle.screened = Uploads!NotScreened
  /\ Uploads!Idle.meta = [a \in Attachments |-> 0]
  BY DEF Uploads!Idle, Uploads!NotScreened, Uploads!Pending, ConfirmType, ConfirmSteps,
     ScreeningType

LEMMA NothingScreened ==
  ASSUME NEW f, f = Uploads!NotScreened
  PROVE  /\ f \in [Attachments -> ScreeningType] /\ Fit(f)
         /\ \A a \in Attachments : f[a].screening = "pending" /\ f[a] = Uploads!Pending
  BY DEF Uploads!NotScreened, Uploads!Pending, ScreeningType, Fit

LEMMA GoToMoves ==
  ASSUME UploadsTyped, NEW c \in Calls, NEW at \in ConfirmSteps \cup {"done"},
         Uploads!GoTo(c, at)
  PROVE  /\ CallMoves(c)
         /\ at = "done" => calls'[c] = Uploads!Idle
         /\ at # "done" => /\ calls'[c].at = at /\ calls'[c].seen = calls[c].seen
                           /\ calls'[c].meta = calls[c].meta
                           /\ calls'[c].screened = calls[c].screened
<1>. DEFINE h == [calls[c] EXCEPT !.at = at]
<1>1. calls[c] \in ConfirmType /\ calls \in [Calls -> ConfirmType]
  BY DEF UploadsTyped
<1>2. CASE at = "done"
  BY <1>1, <1>2, IdleCall DEF Uploads!GoTo, CallMoves
<1>3. CASE at # "done"
  <2>1. calls' = [calls EXCEPT ![c] = h]
    BY <1>3 DEF Uploads!GoTo
  <2>2. /\ h \in ConfirmType /\ h.at = at /\ h.seen = calls[c].seen
        /\ h.meta = calls[c].meta /\ h.screened = calls[c].screened
    BY <1>1, <1>3 DEF ConfirmType
  <2>. HIDE DEF h
  <2>. QED  BY <1>1, <1>3, <2>1, <2>2 DEF CallMoves
<1>. QED  BY <1>2, <1>3

LEMMA IdleInOrder ==
  ASSUME NEW c \in Calls, calls'[c] = Uploads!Idle
  PROVE  ConfirmInOrder(c)'
<1>1. /\ calls'[c].at = "idle" /\ calls'[c].seen = Uploads!NotScreened
      /\ calls'[c].screened = Uploads!NotScreened
      /\ \A a \in Attachments : calls'[c].meta[a] = 0
  BY IdleCall
<1>2. /\ Fit(calls[c].seen)' /\ Fit(calls[c].screened)'
      /\ \A a \in Attachments : calls'[c].screened[a] = Uploads!Pending
  BY <1>1 DEF Fit, Uploads!NotScreened, Uploads!Pending
<1>. QED  BY <1>1, <1>2 DEF ConfirmInOrder

\* What one call does leaves the others' order alone.
LEMMA OthersInOrder ==
  ASSUME UploadsInv, NEW d \in Calls, calls'[d] = calls[d],
         \A a \in Attachments : \A v : /\ IsUpload(a, v) => IsUpload(a, v)'
                                       /\ IsFit(a, v) => IsFit(a, v)'
  PROVE  ConfirmInOrder(d)'
<1>1. ConfirmInOrder(d)
  BY DEF UploadsInv
<1>2. /\ Fit(calls[d].seen) => Fit(calls[d].seen)'
      /\ Fit(calls[d].screened) => Fit(calls[d].screened)'
  BY DEF Fit
<1>3. Uploads!PendingIn(Uploads!Final(d))' = Uploads!PendingIn(Uploads!Final(d))
  BY DEF Uploads!PendingIn, Uploads!Final, Uploads!Merge
<1>4. Uploads!PendingIn(calls'[d].seen) = Uploads!PendingIn(calls[d].seen)
  OBVIOUS
<1>. QED  BY <1>1, <1>2, <1>3, <1>4 DEF ConfirmInOrder

LEMMA CallKeeps ==
  ASSUME UploadsInv, NEW c \in Calls, CallMoves(c), UNCHANGED <<store, cleaner>>,
         active' \in Nat, started' \in Nat, oversized' \in BOOLEAN, oversized => oversized',
         waiting' \in [status : Waiting \cup Uploads!Submitted,
                       atts : [Attachments -> ScreeningType]],
         Fit(waiting.atts)', Uploads!AllWereScreened', ConfirmInOrder(c)',
         Alive(waiting'.status) => Alive(waiting.status),
         calls'[c].at = "clean-up" => ~Alive(waiting'.status) \/ oversized'
  PROVE  /\ UploadsTyped' /\ Fit(waiting.atts)' /\ NothingDeleted'
         /\ \A d \in Calls : ConfirmInOrder(d)'
<1>1. UploadsTyped'
  BY DEF UploadsInv, UploadsTyped, CallMoves
<1>3. NothingDeleted'
  BY DEF UploadsInv, NothingDeleted, CallMoves, Alive
<1>4. \A a \in Attachments : \A v : /\ IsUpload(a, v) => IsUpload(a, v)'
                                    /\ IsFit(a, v) => IsFit(a, v)'
  BY DEF IsUpload, IsFit
<1>5. \A d \in Calls : ConfirmInOrder(d)'
  <2>. SUFFICES ASSUME NEW d \in Calls, d # c PROVE ConfirmInOrder(d)'
    OBVIOUS
  <2>1. calls'[d] = calls[d]
    BY DEF CallMoves
  <2>. QED  BY <1>4, <2>1, OthersInOrder
<1>. QED  BY <1>1, <1>3, <1>5

\* A step before the task is submitted, of a call that holds no slot.
LEMMA QuietKeeps ==
  ASSUME UploadsInv, NEW c \in Calls, CallMoves(c),
         UNCHANGED <<waiting, store, active, started, cleaner>>,
         oversized' \in BOOLEAN, oversized => oversized', ConfirmInOrder(c)',
         calls[c].at \notin {"submit", "roll-back", "invoke"},
         calls'[c].at \notin {"submit", "roll-back", "invoke"},
         calls'[c].at = "clean-up" => ~Alive(waiting.status) \/ oversized'
  PROVE  UploadsInv'
<1>1. /\ UploadsTyped' /\ Fit(waiting.atts)' /\ NothingDeleted'
      /\ \A d \in Calls : ConfirmInOrder(d)'
  <2>1. /\ waiting' = waiting /\ active' \in Nat /\ started' \in Nat
        /\ waiting \in [status : Waiting \cup Uploads!Submitted,
                        atts : [Attachments -> ScreeningType]]
    BY DEF UploadsInv, UploadsTyped
  <2>2. Fit(waiting.atts)' /\ Uploads!AllWereScreened'
    BY DEF UploadsInv, Fit, IsFit, Uploads!AllWereScreened, Uploads!PendingIn,
       Uploads!Submitted
  <2>. QED  BY <2>1, <2>2, CallKeeps
<1>2. Uploads!AllWereScreened'
  BY DEF UploadsInv, Uploads!AllWereScreened, Uploads!PendingIn, Uploads!Submitted
<1>3. OneStart'
  BY DEF UploadsInv, OneStart, CallMoves, Uploads!Submitted
<1>4. InSlot' = InSlot /\ TaskSlots' = TaskSlots
  BY DEF InSlot, TaskSlots, CallMoves, Uploads!Submitted
<1>5. active' <= Cardinality(InSlot') + TaskSlots'
  BY <1>4 DEF UploadsInv
<1>. QED  BY <1>1, <1>2, <1>3, <1>5 DEF UploadsInv

\* A call goes on with what it has looked up and screened.
LEMMA SameFindings ==
  ASSUME UploadsInv, NEW c \in Calls, UNCHANGED store,
         calls'[c].seen = calls[c].seen, calls'[c].meta = calls[c].meta,
         calls'[c].screened = calls[c].screened,
         calls'[c].at \notin {"idle", "head"},
         calls'[c].at = "pre-check" => FALSE,
         calls'[c].at = "screen" => calls[c].at \in {"pre-check", "screen"},
         calls'[c].at \in {"admit", "submit"} =>
           \/ calls[c].at \in {"admit", "submit"}
           \/ Uploads!PendingIn(Uploads!Final(c)) = {}
  PROVE  ConfirmInOrder(c)'
<1>1. ConfirmInOrder(c)
  BY DEF UploadsInv
<1>2. /\ Fit(calls[c].seen) => Fit(calls[c].seen)'
      /\ Fit(calls[c].screened) => Fit(calls[c].screened)'
      /\ \A a \in Attachments : \A v : IsUpload(a, v) => IsUpload(a, v)'
  BY DEF Fit, IsFit, IsUpload
<1>3. Uploads!PendingIn(Uploads!Final(c))' = Uploads!PendingIn(Uploads!Final(c))
  BY DEF Uploads!PendingIn, Uploads!Final, Uploads!Merge
<1>. QED  BY <1>1, <1>2, <1>3 DEF ConfirmInOrder, Uploads!PendingIn

LEMMA ReadTaskKeeps ==
  ASSUME UploadsInv, NEW c \in Calls, Uploads!ReadTask(c)
  PROVE  UploadsInv'
<1>. DEFINE s == IF Uploads!PendingIn(waiting.atts) = {} THEN "admit" ELSE "head"
            h == [calls[c] EXCEPT !.seen = waiting.atts, !.at = s]
<1>1. /\ calls[c].at = "idle" /\ UNCHANGED <<waiting, store, active, started, cleaner, oversized>>
      /\ calls' = [calls EXCEPT ![c] = h] \/ Uploads!GoTo(c, "done")
  BY DEF Uploads!ReadTask
<1>2. /\ calls[c] \in ConfirmType /\ waiting.atts \in [Attachments -> ScreeningType]
      /\ UploadsTyped /\ oversized \in BOOLEAN /\ Fit(waiting.atts) /\ ConfirmInOrder(c)
  BY DEF UploadsInv, UploadsTyped
<1>3. CASE Uploads!GoTo(c, "done")
  <2>1. CallMoves(c) /\ calls'[c] = Uploads!Idle
    BY <1>2, <1>3, GoToMoves
  <2>. QED  BY <1>1, <1>2, <2>1, IdleCall, IdleInOrder, QuietKeeps
<1>4. CASE calls' = [calls EXCEPT ![c] = h]
  <2>1. s \in {"admit", "head"} /\ s \in ConfirmSteps
        /\ (s = "admit" => Uploads!PendingIn(waiting.atts) = {})
    BY DEF ConfirmSteps
  <2>. HIDE DEF s
  <2>2. /\ h \in ConfirmType /\ h.at = s /\ h.seen = waiting.atts
        /\ h.meta = calls[c].meta /\ h.screened = calls[c].screened
    BY <1>2, <2>1 DEF ConfirmType
  <2>. HIDE DEF h
  <2>3. CallMoves(c) /\ calls'[c] = h
    BY <1>4, <2>2 DEF CallMoves, UploadsInv, UploadsTyped
  <2>4. calls[c].screened = Uploads!NotScreened
    BY <1>1, <1>2 DEF ConfirmInOrder
  <2>5. /\ Fit(calls[c].seen)' /\ Fit(calls[c].screened)'
        /\ \A a \in Attachments : \A v : IsUpload(a, v) => IsUpload(a, v)'
    BY <1>1, <1>2, <2>2, <2>3 DEF ConfirmInOrder, Fit, IsFit, IsUpload
  <2>6. s = "admit" => Uploads!PendingIn(Uploads!Final(c))' = {}
    <3>1. Uploads!Final(c)' = Uploads!Merge(waiting.atts, Uploads!NotScreened)
      BY <2>2, <2>3, <2>4 DEF Uploads!Final, Uploads!Merge
    <3>2. Uploads!Merge(waiting.atts, Uploads!NotScreened) = waiting.atts
      BY <1>2 DEF Uploads!Merge, Uploads!NotScreened
    <3>3. Uploads!PendingIn(Uploads!Final(c))'
            = {a \in Attachments : Uploads!Final(c)'[a].screening = "pending"}
      BY DEF Uploads!PendingIn
    <3>. QED  BY <2>1, <3>1, <3>2, <3>3 DEF Uploads!PendingIn
  <2>7. ConfirmInOrder(c)'
    BY <1>2, <2>1, <2>2, <2>3, <2>4, <2>5, <2>6 DEF ConfirmInOrder, Uploads!NotScreened,
       Uploads!Pending
  <2>. QED  BY <1>1, <1>2, <2>1, <2>2, <2>3, <2>7, QuietKeeps
<1>. QED  BY <1>1, <1>3, <1>4

LEMMA HeadObjectKeeps ==
  ASSUME UploadsInv, NEW c \in Calls, Uploads!HeadObject(c)
  PROVE  UploadsInv'
<1>. DEFINE a == Uploads!Min(Uploads!ToHead(c))
            v == Uploads!Latest(a)
            s == IF Uploads!ToHead(c) = {a} THEN "pre-check" ELSE "head"
            m == [calls[c].meta EXCEPT ![a] = v]
            h == [calls[c] EXCEPT !.meta = m, !.at = s]
<1>1. /\ calls[c].at = "head" /\ UNCHANGED <<waiting, store, active, started, cleaner, oversized>>
      /\ \/ v # 0 /\ calls' = [calls EXCEPT ![c] = h]
         \/ Uploads!GoTo(c, "done")
  BY DEF Uploads!HeadObject
<1>2. /\ calls[c] \in ConfirmType /\ UploadsTyped /\ oversized \in BOOLEAN /\ ConfirmInOrder(c)
  BY DEF UploadsInv, UploadsTyped
<1>3. CASE Uploads!GoTo(c, "done")
  <2>1. CallMoves(c) /\ calls'[c] = Uploads!Idle
    BY <1>2, <1>3, GoToMoves
  <2>. QED  BY <1>1, <1>2, <2>1, IdleCall, IdleInOrder, QuietKeeps
<1>4. CASE v # 0 /\ calls' = [calls EXCEPT ![c] = h]
  <2>1. s \in {"pre-check", "head"} /\ s \in ConfirmSteps
        /\ (s = "pre-check" => Uploads!ToHead(c) = {a})
    BY DEF ConfirmSteps
  <2>2. a \in Attachments => IsUpload(a, v) /\ v \in Int
    BY <1>2, <1>4, LatestIsUpload
  <2>3. calls[c].meta \in [Attachments -> Int]
    BY <1>2 DEF ConfirmType
  <2>. HIDE DEF s, v
  <2>4. /\ m \in [Attachments -> Int]
        /\ \A b \in Attachments : m[b] = IF b = a THEN v ELSE calls[c].meta[b]
    BY <2>2, <2>3
  <2>5. Uploads!ToHead(c) = {b \in Attachments : calls[c].seen[b].screening = "pending" /\
                                                 calls[c].meta[b] = 0}
    BY DEF Uploads!ToHead, Uploads!PendingIn
  <2>. HIDE DEF m, a
  <2>6. /\ h \in ConfirmType /\ h.at = s /\ h.seen = calls[c].seen
        /\ h.meta = m /\ h.screened = calls[c].screened
    BY <1>2, <2>1, <2>4 DEF ConfirmType
  <2>. HIDE DEF h
  <2>7. CallMoves(c) /\ calls'[c] = h
    BY <1>4, <2>6 DEF CallMoves, UploadsInv, UploadsTyped
  <2>8. /\ Fit(calls[c].seen)' /\ Fit(calls[c].screened)'
        /\ \A b \in Attachments : \A w : IsUpload(b, w) => IsUpload(b, w)'
    BY <1>1, <1>2, <2>6, <2>7 DEF ConfirmInOrder, Fit, IsFit, IsUpload
  <2>9. \A b \in Attachments : m[b] = 0 \/ IsUpload(b, m[b])
    BY <1>2, <2>2, <2>4 DEF ConfirmInOrder
  <2>10. s = "pre-check" => \A b \in Attachments : calls[c].seen[b].screening = "pending" => m[b] # 0
    BY <1>4, <2>1, <2>4, <2>5
  <2>11. \A b \in Attachments : calls'[c].meta[b] = 0 \/ IsUpload(b, calls[c].meta[b])'
    <3>. SUFFICES ASSUME NEW b \in Attachments, calls'[c].meta[b] # 0
                  PROVE  IsUpload(b, calls[c].meta[b])'
      OBVIOUS
    <3>1. calls'[c].meta[b] = m[b]
      BY <2>6, <2>7
    <3>2. PICK w : w = m[b]
      OBVIOUS
    <3>3. IsUpload(b, w)'
      BY <2>8, <2>9, <3>1, <3>2
    <3>. QED  BY <3>1, <3>2, <3>3 DEF IsUpload
  <2>12. /\ calls'[c].at = s /\ calls'[c].seen = calls[c].seen
         /\ calls'[c].screened = Uploads!NotScreened
         /\ \A b \in Attachments : calls'[c].screened[b] = Uploads!Pending
    BY <1>1, <1>2, <2>6, <2>7 DEF ConfirmInOrder, Uploads!NotScreened
  <2>13. s = "pre-check" => \A b \in Uploads!PendingIn(calls'[c].seen) : calls'[c].meta[b] # 0
    <3>. SUFFICES ASSUME s = "pre-check", NEW b \in Uploads!PendingIn(calls'[c].seen)
                  PROVE  calls'[c].meta[b] # 0
      OBVIOUS
    <3>1. b \in Attachments /\ calls[c].seen[b].screening = "pending" /\ calls'[c].meta = m
      BY <2>6, <2>7, <2>12 DEF Uploads!PendingIn
    <3>. QED  BY <2>10, <3>1
  <2>14. ConfirmInOrder(c)'
    BY <2>1, <2>8, <2>11, <2>12, <2>13 DEF ConfirmInOrder, Uploads!NotScreened,
       Uploads!PendingIn
  <2>. QED  BY <1>1, <1>2, <2>1, <2>7, <2>12, <2>14, QuietKeeps
<1>. QED  BY <1>1, <1>3, <1>4

LEMMA PreCheckKeeps ==
  ASSUME UploadsInv, NEW c \in Calls, Uploads!PreCheckConcurrency(c)
  PROVE  UploadsInv'
<1>1. /\ calls[c].at = "pre-check"
      /\ UNCHANGED <<waiting, store, active, started, cleaner, oversized>>
      /\ Uploads!GoTo(c, "screen") \/ Uploads!GoTo(c, "done")
  BY DEF Uploads!PreCheckConcurrency
<1>2. UploadsTyped /\ oversized \in BOOLEAN /\ "screen" \in ConfirmSteps
  BY DEF UploadsInv, UploadsTyped, ConfirmSteps
<1>3. CASE Uploads!GoTo(c, "done")
  <2>1. CallMoves(c) /\ calls'[c] = Uploads!Idle
    BY <1>2, <1>3, GoToMoves
  <2>. QED  BY <1>1, <1>2, <2>1, IdleCall, IdleInOrder, QuietKeeps
<1>4. CASE Uploads!GoTo(c, "screen")
  <2>1. /\ CallMoves(c) /\ calls'[c].at = "screen" /\ calls'[c].seen = calls[c].seen
        /\ calls'[c].meta = calls[c].meta /\ calls'[c].screened = calls[c].screened
    BY <1>2, <1>4, GoToMoves
  <2>2. ConfirmInOrder(c)'
    BY <1>1, <2>1, SameFindings
  <2>. QED  BY <1>1, <1>2, <2>1, <2>2, QuietKeeps
<1>. QED  BY <1>1, <1>3, <1>4

\* A version that passes its screening is fit to be used.
LEMMA ScreenedFit ==
  ASSUME UploadsInv, NEW c \in Calls, calls[c].at = "screen", NEW a \in Uploads!ToScreen(c),
         NEW r, r = Uploads!ScreenSingleAttachment(c, a), r \notin {"rejected", "error"}
  PROVE  /\ a \in Attachments /\ r \in {"passed", "blocked"}
         /\ r = "passed" => IsFit(a, calls[c].meta[a])
<1>1. a \in Attachments /\ a \in Uploads!PendingIn(calls[c].seen)
  BY DEF Uploads!ToScreen, Uploads!PendingIn
<1>2. IsUpload(a, calls[c].meta[a])
  BY <1>1 DEF UploadsInv, ConfirmInOrder
<1>3. /\ calls[c].meta[a] \in DOMAIN store[a] /\ store[a] \in Seq(VersionType)
      /\ store[a][calls[c].meta[a]].content # "marker"
  BY <1>1, <1>2 DEF UploadsInv, UploadsTyped, IsUpload
<1>4. store[a][calls[c].meta[a]].content \in {"clean", "large", "blocked", "malformed"}
  <2>1. DOMAIN store[a] = 1 .. Len(store[a]) /\ Len(store[a]) \in Nat
    BY <1>3
  <2>2. PICK w : w = calls[c].meta[a]
    OBVIOUS
  <2>3. store[a][w] \in VersionType
    BY <1>3, <2>1, <2>2
  <2>. QED  BY <1>3, <2>2, <2>3 DEF VersionType
<1>5. /\ r \in {"passed", "blocked"}
      /\ r = "passed" => store[a][calls[c].meta[a]].content \notin {"malformed", "blocked"}
  BY DEF Uploads!ScreenSingleAttachment
<1>. QED  BY <1>1, <1>3, <1>4, <1>5 DEF IsFit

LEMMA ScreenBatchKeeps ==
  ASSUME UploadsInv, NEW c \in Calls, Uploads!ScreenBatch(c)
  PROVE  UploadsInv'
<1>. DEFINE batch == Uploads!Batch(c)
            Result(failing, a) ==
              IF a \in failing THEN "error" ELSE Uploads!ScreenSingleAttachment(c, a)
            New(failing) == [a \in Attachments |->
              IF a \in batch THEN [screening |-> Result(failing, a), version |-> calls[c].meta[a]]
                             ELSE calls[c].screened[a]]
<1>1. /\ calls[c].at = "screen"
      /\ UNCHANGED <<waiting, store, active, started, cleaner, oversized>>
      /\ \/ Uploads!GoTo(c, "fail") \/ Uploads!GoTo(c, "done")
         \/ \E failing \in SUBSET batch :
              /\ {a \in batch : Result(failing, a) \in {"rejected", "error"}} = {}
              /\ calls' = [calls EXCEPT ![c].screened = New(failing)]
  BY DEF Uploads!ScreenBatch
<1>2. /\ UploadsTyped /\ oversized \in BOOLEAN /\ "fail" \in ConfirmSteps
      /\ calls[c] \in ConfirmType /\ ConfirmInOrder(c)
  BY DEF UploadsInv, UploadsTyped, ConfirmSteps
<1>3. CASE Uploads!GoTo(c, "done")
  <2>1. CallMoves(c) /\ calls'[c] = Uploads!Idle
    BY <1>2, <1>3, GoToMoves
  <2>. QED  BY <1>1, <1>2, <2>1, IdleCall, IdleInOrder, QuietKeeps
<1>4. CASE Uploads!GoTo(c, "fail")
  <2>1. /\ CallMoves(c) /\ calls'[c].at = "fail" /\ calls'[c].seen = calls[c].seen
        /\ calls'[c].meta = calls[c].meta /\ calls'[c].screened = calls[c].screened
    BY <1>2, <1>4, GoToMoves
  <2>2. ConfirmInOrder(c)'
    BY <1>1, <2>1, SameFindings
  <2>. QED  BY <1>1, <1>2, <2>1, <2>2, QuietKeeps
<1>5. ASSUME NEW failing \in SUBSET batch,
             {a \in batch : Result(failing, a) \in {"rejected", "error"}} = {},
             calls' = [calls EXCEPT ![c].screened = New(failing)]
      PROVE  UploadsInv'
  <2>. DEFINE new == New(failing)
  <2>1. batch \subseteq Uploads!ToScreen(c)
    BY DEF Uploads!Batch
  <2>2. ASSUME NEW a \in batch
        PROVE  /\ Result(failing, a) \in {"passed", "blocked"}
               /\ Result(failing, a) = "passed" => IsFit(a, calls[c].meta[a])
               /\ a \in Attachments
    <3>1. Result(failing, a) = Uploads!ScreenSingleAttachment(c, a)
          /\ Result(failing, a) \notin {"rejected", "error"}
      BY <1>5, <2>2
    <3>. QED  BY <1>1, <2>1, <3>1, ScreenedFit
  <2>. HIDE DEF Result
  <2>3. \A a \in Attachments : calls[c].meta[a] \in Int /\ calls[c].screened[a] \in ScreeningType
    BY <1>2 DEF ConfirmType
  <2>4. ASSUME NEW a \in Attachments
        PROVE  /\ new[a] \in ScreeningType
               /\ new[a].screening = "passed" => IsFit(a, new[a].version)
               /\ new[a].screening = "pending" => new[a] = Uploads!Pending
    <3>1. CASE a \in batch
      <4>1. new[a] = [screening |-> Result(failing, a), version |-> calls[c].meta[a]]
        BY <3>1
      <4>. QED  BY <2>2, <2>3, <3>1, <4>1 DEF ScreeningType
    <3>2. CASE a \notin batch
      <4>1. new[a] = calls[c].screened[a]
        BY <3>2
      <4>. QED  BY <1>2, <2>3, <4>1 DEF ConfirmInOrder, Fit
    <3>. QED  BY <3>1, <3>2
  <2>5. new \in [Attachments -> ScreeningType]
    BY <2>4
  <2>. HIDE DEF new
  <2>. DEFINE h == [calls[c] EXCEPT !.screened = new]
  <2>6. calls' = [calls EXCEPT ![c] = h]
    BY <1>5 DEF new
  <2>7. /\ h \in ConfirmType /\ h.at = "screen" /\ h.seen = calls[c].seen
        /\ h.meta = calls[c].meta /\ h.screened = new
    BY <1>1, <1>2, <2>5 DEF ConfirmType
  <2>. HIDE DEF h
  <2>8. CallMoves(c) /\ calls'[c] = h
    BY <2>6, <2>7 DEF CallMoves, UploadsInv, UploadsTyped
  <2>9. /\ Fit(calls[c].seen)' /\ Fit(calls[c].screened)'
        /\ \A a \in Attachments : \A v : IsUpload(a, v) => IsUpload(a, v)'
    BY <1>1, <1>2, <2>4, <2>7, <2>8 DEF ConfirmInOrder, Fit, IsFit, IsUpload
  <2>10. \A a \in Uploads!PendingIn(calls[c].seen) : calls[c].meta[a] # 0
    BY <1>1, <1>2 DEF ConfirmInOrder
  <2>11. /\ calls'[c].at = "screen" /\ calls'[c].seen = calls[c].seen
         /\ calls'[c].meta = calls[c].meta /\ calls'[c].screened = new
    BY <2>7, <2>8
  <2>12. ConfirmInOrder(c)'
    BY <1>2, <2>4, <2>9, <2>10, <2>11 DEF ConfirmInOrder, Uploads!Pending, Uploads!PendingIn
  <2>. QED  BY <1>1, <1>2, <2>8, <2>11, <2>12, QuietKeeps
<1>. QED  BY <1>1, <1>3, <1>4, <1>5

\* When nothing is left to screen, nothing of what the call would write is pending.
LEMMA AllScreenedMeans ==
  ASSUME UploadsInv, NEW c \in Calls, Uploads!ToScreen(c) = {}
  PROVE  Uploads!PendingIn(Uploads!Final(c)) = {}
<1>. SUFFICES ASSUME NEW a \in Uploads!PendingIn(Uploads!Final(c)) PROVE FALSE
  OBVIOUS
<1>1. ConfirmInOrder(c)
  BY DEF UploadsInv
<1>2. /\ a \in Attachments /\ Uploads!Final(c)[a].screening = "pending"
      /\ Uploads!Final(c)[a]
           = IF calls[c].screened[a] = Uploads!Pending THEN calls[c].seen[a]
                                                       ELSE calls[c].screened[a]
  BY DEF Uploads!PendingIn, Uploads!Final, Uploads!Merge
<1>3. CASE calls[c].screened[a] = Uploads!Pending
  <2>1. calls[c].screened[a].screening = "pending" /\ calls[c].seen[a].screening = "pending"
    BY <1>2, <1>3 DEF Uploads!Pending
  <2>. QED  BY <1>2, <2>1 DEF Uploads!ToScreen, Uploads!PendingIn
<1>4. CASE calls[c].screened[a] # Uploads!Pending
  BY <1>1, <1>2, <1>4 DEF ConfirmInOrder
<1>. QED  BY <1>3, <1>4

LEMMA AllScreenedKeeps ==
  ASSUME UploadsInv, NEW c \in Calls, Uploads!AllScreened(c)
  PROVE  UploadsInv'
<1>. DEFINE blocked == \E a \in Attachments : calls[c].screened[a].screening = "blocked"
            large == ~blocked /\ Uploads!TotalSize(Uploads!Final(c)) > SizeLimit
            s == CASE blocked -> "fail" [] large -> "clean-up" [] OTHER -> "admit"
<1>1. /\ calls[c].at = "screen" /\ Uploads!ToScreen(c) = {}
      /\ UNCHANGED <<waiting, store, active, started, cleaner>>
      /\ Uploads!GoTo(c, s) /\ oversized' = (oversized \/ large)
  BY DEF Uploads!AllScreened
<1>2. UploadsTyped /\ oversized \in BOOLEAN
  BY DEF UploadsInv, UploadsTyped
<1>3. s \in {"fail", "clean-up", "admit"} /\ (s = "clean-up" => large)
  OBVIOUS
<1>. HIDE DEF s, large
<1>4. /\ CallMoves(c) /\ calls'[c].at = s /\ calls'[c].seen = calls[c].seen
      /\ calls'[c].meta = calls[c].meta /\ calls'[c].screened = calls[c].screened
  BY <1>1, <1>2, <1>3, GoToMoves DEF ConfirmSteps
<1>5. oversized' \in BOOLEAN /\ (oversized => oversized') /\ (s = "clean-up" => oversized')
  BY <1>1, <1>2, <1>3
<1>6. Uploads!PendingIn(Uploads!Final(c)) = {}
  BY <1>1, AllScreenedMeans
<1>7. ConfirmInOrder(c)'
  BY <1>1, <1>3, <1>4, <1>6, SameFindings
<1>. QED  BY <1>1, <1>3, <1>4, <1>5, <1>7, QuietKeeps

LEMMA MergeFits ==
  ASSUME NEW f \in [Attachments -> ScreeningType], NEW g \in [Attachments -> ScreeningType]
  PROVE  /\ Uploads!Merge(f, g) \in [Attachments -> ScreeningType]
         /\ Fit(f) /\ Fit(g) => Fit(Uploads!Merge(f, g))
<1>. DEFINE m == Uploads!Merge(f, g)
<1>1. /\ m \in [Attachments -> ScreeningType]
      /\ \A a \in Attachments : m[a] \in {f[a], g[a]}
  BY DEF Uploads!Merge
<1>. HIDE DEF m
<1>2. Fit(f) /\ Fit(g) => Fit(m)
  BY <1>1 DEF Fit
<1>. QED  BY <1>1, <1>2 DEF m

\* What a call would write into the row is fit to be used.
LEMMA FinalFits ==
  ASSUME UploadsInv, NEW c \in Calls
  PROVE  Uploads!Final(c) \in [Attachments -> ScreeningType] /\ Fit(Uploads!Final(c))
<1>1. /\ calls[c].seen \in [Attachments -> ScreeningType]
      /\ calls[c].screened \in [Attachments -> ScreeningType]
      /\ Fit(calls[c].seen) /\ Fit(calls[c].screened)
  BY DEF UploadsInv, UploadsTyped, ConfirmInOrder, ConfirmType
<1>. QED  BY <1>1, MergeFits DEF Uploads!Final

\* A call writes the row while the task waits, and leaves the slots alone.
LEMMA PersistPartialKeeps ==
  ASSUME UploadsInv, NEW c \in Calls, Uploads!PersistPartialScreeningState(c)
  PROVE  UploadsInv'
<1>1. /\ calls[c].at = "screen" /\ UNCHANGED <<store, active, started, cleaner, oversized>>
      /\ Uploads!GoTo(c, "done")
      /\ \/ waiting' = waiting
         \/ /\ waiting.status = "PENDING_UPLOADS"
            /\ waiting' = [waiting EXCEPT !.atts = Uploads!Final(c)]
  BY DEF Uploads!PersistPartialScreeningState, Uploads!Final
<1>2. /\ UploadsTyped /\ oversized \in BOOLEAN
      /\ waiting \in [status : Waiting \cup Uploads!Submitted,
                      atts : [Attachments -> ScreeningType]]
  BY DEF UploadsInv, UploadsTyped
<1>3. CallMoves(c) /\ calls'[c] = Uploads!Idle
  BY <1>1, <1>2, GoToMoves
<1>4. CASE waiting' = waiting
  BY <1>1, <1>2, <1>3, <1>4, IdleCall, IdleInOrder, QuietKeeps
<1>5. CASE waiting.status = "PENDING_UPLOADS" /\ waiting' = [waiting EXCEPT !.atts = Uploads!Final(c)]
  <2>. DEFINE f == Uploads!Final(c)
  <2>1. f \in [Attachments -> ScreeningType] /\ Fit(f)
    BY FinalFits
  <2>. HIDE DEF f
  <2>2. /\ waiting' \in [status : Waiting \cup Uploads!Submitted,
                         atts : [Attachments -> ScreeningType]]
        /\ waiting'.status = "PENDING_UPLOADS" /\ waiting.status = "PENDING_UPLOADS"
        /\ waiting'.atts = f
    BY <1>2, <1>5, <2>1 DEF f
  <2>3. Fit(waiting.atts)'
    BY <1>1, <2>1, <2>2 DEF Fit, IsFit
  <2>4. Uploads!AllWereScreened'
    BY <2>2 DEF Uploads!AllWereScreened, Uploads!Submitted
  <2>5. active' \in Nat /\ started' \in Nat
    BY <1>1 DEF UploadsInv, UploadsTyped
  <2>6. /\ UploadsTyped' /\ NothingDeleted' /\ \A d \in Calls : ConfirmInOrder(d)'
    BY <1>1, <1>2, <1>3, <2>2, <2>3, <2>4, <2>5, IdleCall, IdleInOrder, CallKeeps DEF Alive
  <2>7. OneStart'
    BY <1>1, <1>3, <2>2, IdleCall DEF UploadsInv, OneStart, CallMoves, Uploads!Submitted
  <2>8. InSlot' = InSlot /\ TaskSlots' = TaskSlots
    BY <1>1, <1>3, <2>2, IdleCall DEF InSlot, TaskSlots, CallMoves, Uploads!Submitted
  <2>9. active' <= Cardinality(InSlot') + TaskSlots'
    BY <1>1, <2>8 DEF UploadsInv
  <2>. QED  BY <2>3, <2>4, <2>6, <2>7, <2>9 DEF UploadsInv
<1>. QED  BY <1>1, <1>4, <1>5

\* A task fails while it waits: no call has started its orchestrator.
LEMMA FailTaskKeeps ==
  ASSUME UploadsInv, NEW c \in Calls, Uploads!FailTaskOnScreening(c)
  PROVE  UploadsInv'
<1>1. /\ calls[c].at = "fail" /\ UNCHANGED <<store, active, started, cleaner, oversized>>
      /\ \/ waiting' = waiting /\ Uploads!GoTo(c, "done")
         \/ /\ waiting.status = "PENDING_UPLOADS"
            /\ waiting' = [waiting EXCEPT !.status = "FAILED"]
            /\ Uploads!GoTo(c, "clean-up")
  BY DEF Uploads!FailTaskOnScreening
<1>2. /\ UploadsTyped /\ oversized \in BOOLEAN
      /\ waiting \in [status : Waiting \cup Uploads!Submitted,
                      atts : [Attachments -> ScreeningType]]
  BY DEF UploadsInv, UploadsTyped
<1>3. CASE waiting' = waiting /\ Uploads!GoTo(c, "done")
  <2>1. CallMoves(c) /\ calls'[c] = Uploads!Idle
    BY <1>2, <1>3, GoToMoves
  <2>. QED  BY <1>1, <1>2, <1>3, <2>1, IdleCall, IdleInOrder, QuietKeeps
<1>4. CASE /\ waiting.status = "PENDING_UPLOADS"
           /\ waiting' = [waiting EXCEPT !.status = "FAILED"]
           /\ Uploads!GoTo(c, "clean-up")
  <2>1. /\ CallMoves(c) /\ calls'[c].at = "clean-up" /\ calls'[c].seen = calls[c].seen
        /\ calls'[c].meta = calls[c].meta /\ calls'[c].screened = calls[c].screened
    BY <1>2, <1>4, GoToMoves DEF ConfirmSteps
  <2>2. /\ waiting' \in [status : Waiting \cup Uploads!Submitted,
                         atts : [Attachments -> ScreeningType]]
        /\ waiting'.status = "FAILED" /\ waiting.status = "PENDING_UPLOADS"
        /\ waiting'.atts = waiting.atts
    BY <1>2, <1>4 DEF Waiting
  <2>3. Fit(waiting.atts)' /\ Uploads!AllWereScreened'
    BY <1>1, <2>2 DEF UploadsInv, Fit, IsFit, Uploads!AllWereScreened, Uploads!Submitted
  <2>4. ConfirmInOrder(c)'
    BY <1>1, <2>1, SameFindings
  <2>5. active' \in Nat /\ started' \in Nat /\ ~Alive(waiting'.status)
    BY <1>1, <2>2 DEF UploadsInv, UploadsTyped, Alive, Uploads!Submitted
  <2>6. /\ UploadsTyped' /\ NothingDeleted' /\ \A d \in Calls : ConfirmInOrder(d)'
    BY <1>1, <1>2, <2>1, <2>2, <2>3, <2>4, <2>5, CallKeeps
  <2>7. OneStart'
    BY <1>1, <2>1, <2>2 DEF UploadsInv, UploadsTyped, OneStart, CallMoves, Uploads!Submitted
  <2>8. InSlot' = InSlot /\ TaskSlots' = TaskSlots
    BY <1>1, <2>1, <2>2 DEF InSlot, TaskSlots, CallMoves, Uploads!Submitted
  <2>9. active' <= Cardinality(InSlot') + TaskSlots'
    BY <1>1, <2>8 DEF UploadsInv
  <2>. QED  BY <2>3, <2>6, <2>7, <2>9 DEF UploadsInv
<1>. QED  BY <1>1, <1>3, <1>4

LEMMA FlagKeeps ==
  ASSUME NEW s \in Seq(VersionType), NEW n,
         DOMAIN n = DOMAIN s,
         \A w \in DOMAIN s : n[w] = s[w] \/ n[w] = [s[w] EXCEPT !.gone = TRUE],
         n = [w \in DOMAIN s |-> n[w]]
  PROVE  /\ n \in Seq(VersionType)
         /\ \A w \in DOMAIN s : n[w].content = s[w].content
<1>1. DOMAIN s = 1 .. Len(s) /\ Len(s) \in Nat /\ \A w \in DOMAIN s : s[w] \in VersionType
  OBVIOUS
<1>2. \A w \in DOMAIN s : n[w] \in VersionType /\ n[w].content = s[w].content
  <2>1. \A r \in VersionType : /\ [r EXCEPT !.gone = TRUE] \in VersionType
                               /\ [r EXCEPT !.gone = TRUE].content = r.content
    BY DEF VersionType
  <2>. QED  BY <1>1, <2>1
<1>3. n \in [1 .. Len(s) -> VersionType]
  BY <1>1, <1>2
<1>. QED  BY <1>1, <1>2, <1>3

LEMMA DeleteKeeps ==
  ASSUME UploadsTyped, NEW a \in Attachments, NEW v
  PROVE  /\ Uploads!Delete(a, v) \in Seq(VersionType)
         /\ DOMAIN store[a] \subseteq DOMAIN Uploads!Delete(a, v)
         /\ \A w \in DOMAIN store[a] : Uploads!Delete(a, v)[w].content = store[a][w].content
<1>. DEFINE s == store[a]
            n == [s EXCEPT ![v].gone = TRUE]
            marker == [content |-> "marker", gone |-> FALSE]
<1>1. s \in Seq(VersionType)
  BY DEF UploadsTyped
<1>2. \/ Uploads!Delete(a, v) = n
      \/ Uploads!Delete(a, v) = s
      \/ Uploads!Delete(a, v) = Append(s, marker)
  BY DEF Uploads!Delete
<1>3. n \in Seq(VersionType) /\ DOMAIN n = DOMAIN s /\ \A w \in DOMAIN s : n[w].content = s[w].content
  <2>1. DOMAIN n = DOMAIN s /\ n = [w \in DOMAIN s |-> n[w]]
    OBVIOUS
  <2>2. \A w \in DOMAIN s : n[w] = s[w] \/ n[w] = [s[w] EXCEPT !.gone = TRUE]
    OBVIOUS
  <2>. HIDE DEF n, s
  <2>. QED  BY <1>1, <2>1, <2>2, FlagKeeps
<1>4. marker \in VersionType
  BY DEF VersionType
<1>. HIDE DEF s, n, marker
<1>5. /\ Append(s, marker) \in Seq(VersionType) /\ DOMAIN s \subseteq DOMAIN Append(s, marker)
      /\ \A w \in DOMAIN s : Append(s, marker)[w] = s[w]
  BY <1>1, <1>4
<1>6. s = store[a]
  BY DEF s
<1>. QED  BY <1>1, <1>2, <1>3, <1>5, <1>6

\* Deleting adds markers or flags versions; what a version holds stays.
LEMMA GrownStore ==
  ASSUME UploadsInv, store' \in [Attachments -> Seq(VersionType)],
         \A a \in Attachments :
           /\ DOMAIN store[a] \subseteq DOMAIN store'[a]
           /\ \A v \in DOMAIN store[a] : store'[a][v].content = store[a][v].content
  PROVE  /\ \A a \in Attachments : \A v : /\ IsUpload(a, v) => IsUpload(a, v)'
                                          /\ IsFit(a, v) => IsFit(a, v)'
         /\ UNCHANGED waiting => Fit(waiting.atts)'
         /\ \A d \in Calls : calls'[d] = calls[d] => ConfirmInOrder(d)'
<1>1. UploadsTyped
  BY DEF UploadsInv
<1>2. \A a \in Attachments : \A v : /\ IsUpload(a, v) => IsUpload(a, v)'
                                    /\ IsFit(a, v) => IsFit(a, v)'
  BY <1>1, StoreGrows
<1>3. UNCHANGED waiting => Fit(waiting.atts)'
  BY <1>2 DEF UploadsInv, Fit
<1>4. \A d \in Calls : calls'[d] = calls[d] => ConfirmInOrder(d)'
  BY <1>2, OthersInOrder
<1>. QED  BY <1>2, <1>3, <1>4

LEMMA CleanupAllKeeps ==
  ASSUME UploadsInv, NEW c \in Calls, Uploads!CleanupAllAttachments(c)
  PROVE  UploadsInv'
<1>1. /\ calls[c].at = "clean-up" /\ Uploads!GoTo(c, "done")
      /\ UNCHANGED <<waiting, active, started, cleaner, oversized>>
      /\ \/ store' = [a \in Attachments |-> Uploads!Delete(a, calls[c].seen[a].version)]
         \/ store' = store
  BY DEF Uploads!CleanupAllAttachments
<1>2. /\ UploadsTyped /\ oversized \in BOOLEAN
      /\ store \in [Attachments -> Seq(VersionType)]
  BY DEF UploadsInv, UploadsTyped
<1>3. CallMoves(c) /\ calls'[c] = Uploads!Idle
  BY <1>1, <1>2, GoToMoves
<1>4. /\ store' \in [Attachments -> Seq(VersionType)]
      /\ \A a \in Attachments :
           /\ DOMAIN store[a] \subseteq DOMAIN store'[a]
           /\ \A v \in DOMAIN store[a] : store'[a][v].content = store[a][v].content
  BY <1>1, <1>2, DeleteKeeps
<1>5. /\ Fit(waiting.atts)' /\ \A d \in Calls : ConfirmInOrder(d)'
  <2>1. \A d \in Calls : d # c => calls'[d] = calls[d]
    BY <1>3 DEF CallMoves
  <2>. QED  BY <1>1, <1>3, <1>4, <2>1, GrownStore, IdleInOrder
<1>6. UploadsTyped'
  BY <1>1, <1>3, <1>4 DEF UploadsInv, UploadsTyped, CallMoves
<1>7. Uploads!AllWereScreened'
  BY <1>1 DEF UploadsInv, Uploads!AllWereScreened, Uploads!PendingIn, Uploads!Submitted
<1>8. NothingDeleted'
  BY <1>1 DEF UploadsInv, NothingDeleted, Uploads!Submitted
<1>9. OneStart'
  BY <1>1, <1>3, IdleCall DEF UploadsInv, OneStart, CallMoves, Uploads!Submitted
<1>10. InSlot' = InSlot /\ TaskSlots' = TaskSlots
  BY <1>1, <1>3, IdleCall DEF InSlot, TaskSlots, CallMoves, Uploads!Submitted
<1>11. active' <= Cardinality(InSlot') + TaskSlots'
  BY <1>1, <1>10 DEF UploadsInv
<1>. QED  BY <1>5, <1>6, <1>7, <1>8, <1>9, <1>11 DEF UploadsInv

\* One call takes a slot or leaves it.
LEMMA JoinsSlot ==
  ASSUME Uploading, NEW c \in Calls, CallMoves(c),
         calls[c].at \notin {"submit", "roll-back"}, calls'[c].at \in {"submit", "roll-back"}
  PROVE  /\ Cardinality(InSlot) \in Nat /\ Cardinality(InSlot') = Cardinality(InSlot) + 1
<1>1. InSlot \subseteq Calls /\ InSlot' = InSlot \cup {c} /\ c \notin InSlot
  BY DEF InSlot, CallMoves
<1>2. IsFiniteSet(InSlot)
  BY <1>1, FS_Subset DEF Uploading
<1>. QED  BY <1>1, <1>2, FS_AddElement, FS_CardinalityType

LEMMA LeavesSlot ==
  ASSUME Uploading, NEW c \in Calls, CallMoves(c),
         calls[c].at \in {"submit", "roll-back"}, calls'[c].at \notin {"submit", "roll-back"}
  PROVE  /\ Cardinality(InSlot) \in Nat /\ Cardinality(InSlot') = Cardinality(InSlot) - 1
<1>1. InSlot \subseteq Calls /\ InSlot' = InSlot \ {c} /\ c \in InSlot
  BY DEF InSlot, CallMoves
<1>2. IsFiniteSet(InSlot)
  BY <1>1, FS_Subset DEF Uploading
<1>. QED  BY <1>1, <1>2, FS_RemoveElement, FS_CardinalityType

LEMMA CheckConcurrencyKeeps ==
  ASSUME Uploading, UploadsInv, NEW c \in Calls, Uploads!CheckConcurrency(c)
  PROVE  UploadsInv'
<1>1. /\ calls[c].at = "admit" /\ UNCHANGED <<waiting, store, started, cleaner, oversized>>
      /\ \/ active' = active + 1 /\ Uploads!GoTo(c, "submit")
         \/ active' = active /\ Uploads!GoTo(c, "done")
  BY DEF Uploads!CheckConcurrency
<1>2. /\ UploadsTyped /\ oversized \in BOOLEAN /\ active \in Nat /\ started \in Nat
      /\ waiting \in [status : Waiting \cup Uploads!Submitted,
                      atts : [Attachments -> ScreeningType]]
  BY DEF UploadsInv, UploadsTyped
<1>3. CASE active' = active /\ Uploads!GoTo(c, "done")
  <2>1. CallMoves(c) /\ calls'[c] = Uploads!Idle
    BY <1>2, <1>3, GoToMoves
  <2>. QED  BY <1>1, <1>2, <1>3, <2>1, IdleCall, IdleInOrder, QuietKeeps
<1>4. CASE active' = active + 1 /\ Uploads!GoTo(c, "submit")
  <2>1. /\ CallMoves(c) /\ calls'[c].at = "submit" /\ calls'[c].seen = calls[c].seen
        /\ calls'[c].meta = calls[c].meta /\ calls'[c].screened = calls[c].screened
    BY <1>2, <1>4, GoToMoves DEF ConfirmSteps
  <2>2. ConfirmInOrder(c)'
    BY <1>1, <2>1, SameFindings
  <2>3. Fit(waiting.atts)' /\ Uploads!AllWereScreened'
    BY <1>1 DEF UploadsInv, Fit, IsFit, Uploads!AllWereScreened, Uploads!PendingIn,
       Uploads!Submitted
  <2>4. active' \in Nat
    BY <1>2, <1>4
  <2>5. /\ UploadsTyped' /\ NothingDeleted' /\ \A d \in Calls : ConfirmInOrder(d)'
    BY <1>1, <1>2, <2>1, <2>2, <2>3, <2>4, CallKeeps
  <2>6. OneStart'
    BY <1>1, <2>1 DEF UploadsInv, OneStart, CallMoves, Uploads!Submitted
  <2>7. Cardinality(InSlot) \in Nat /\ Cardinality(InSlot') = Cardinality(InSlot) + 1
    BY <1>1, <2>1, JoinsSlot
  <2>8. TaskSlots' = TaskSlots /\ TaskSlots \in Nat /\ active <= Cardinality(InSlot) + TaskSlots
    BY <1>1 DEF UploadsInv, TaskSlots, Uploads!Submitted
  <2>9. active' <= Cardinality(InSlot') + TaskSlots'
    BY <1>2, <1>4, <2>7, <2>8
  <2>. QED  BY <2>3, <2>5, <2>6, <2>9 DEF UploadsInv
<1>. QED  BY <1>1, <1>3, <1>4

\* A task that waits has no call that starts it.
LEMMA NotStartedYet ==
  ASSUME UploadsInv, waiting.status = "PENDING_UPLOADS"
  PROVE  started = 0 /\ \A c \in Calls : calls[c].at # "invoke"
  BY DEF UploadsInv, UploadsTyped, OneStart, Uploads!Submitted

LEMMA TransitionKeeps ==
  ASSUME Uploading, UploadsInv, NEW c \in Calls, Uploads!TransitionToSubmitted(c)
  PROVE  UploadsInv'
<1>. DEFINE f == Uploads!Final(c)
            submitted == [status |-> "SUBMITTED", atts |-> f]
<1>1. /\ calls[c].at = "submit" /\ UNCHANGED <<store, active, started, cleaner, oversized>>
      /\ waiting' = waiting \/ (waiting.status = "PENDING_UPLOADS" /\ waiting' = submitted)
      /\ \/ /\ waiting.status = "PENDING_UPLOADS" /\ waiting' = submitted
            /\ Uploads!GoTo(c, "invoke")
         \/ Uploads!GoTo(c, "roll-back")
  BY DEF Uploads!TransitionToSubmitted
<1>2. /\ UploadsTyped /\ oversized \in BOOLEAN /\ active \in Nat /\ started \in Nat
      /\ waiting \in [status : Waiting \cup Uploads!Submitted,
                      atts : [Attachments -> ScreeningType]]
      /\ Fit(waiting.atts) /\ Uploads!AllWereScreened /\ OneStart /\ NothingDeleted
      /\ active <= Cardinality(InSlot) + TaskSlots
  BY DEF UploadsInv, UploadsTyped
<1>3. /\ f \in [Attachments -> ScreeningType] /\ Fit(f)
      /\ Uploads!PendingIn(f) = {}
  BY <1>1, FinalFits DEF UploadsInv, ConfirmInOrder
<1>4. PICK s \in {"invoke", "roll-back"} :
        /\ Uploads!GoTo(c, s)
        /\ s = "invoke" => waiting.status = "PENDING_UPLOADS" /\ waiting' = submitted
  BY <1>1
<1>5. /\ CallMoves(c) /\ calls'[c].at = s /\ calls'[c].seen = calls[c].seen
      /\ calls'[c].meta = calls[c].meta /\ calls'[c].screened = calls[c].screened
  BY <1>2, <1>4, GoToMoves DEF ConfirmSteps
<1>6. ConfirmInOrder(c)'
  BY <1>1, <1>5, SameFindings
<1>. HIDE DEF f
<1>7. waiting' = submitted => /\ waiting'.status = "SUBMITTED" /\ waiting'.atts = f
                              /\ waiting' \in [status : Waiting \cup Uploads!Submitted,
                                               atts : [Attachments -> ScreeningType]]
  BY <1>3 DEF Uploads!Submitted
<1>. HIDE DEF submitted
<1>8. /\ Fit(waiting.atts)' /\ Uploads!AllWereScreened'
      /\ waiting' \in [status : Waiting \cup Uploads!Submitted,
                       atts : [Attachments -> ScreeningType]]
      /\ Alive(waiting'.status) => Alive(waiting.status)
  <2>1. CASE waiting' = waiting
    BY <1>1, <1>2, <2>1 DEF Fit, IsFit, Uploads!AllWereScreened, Uploads!PendingIn,
       Uploads!Submitted, Alive
  <2>2. CASE waiting.status = "PENDING_UPLOADS" /\ waiting' = submitted
    <3>1. Fit(waiting.atts)'
      BY <1>1, <1>3, <1>7, <2>2 DEF Fit, IsFit
    <3>2. Uploads!AllWereScreened'
      BY <1>3, <1>7, <2>2 DEF Uploads!AllWereScreened, Uploads!PendingIn
    <3>. QED  BY <1>7, <2>2, <3>1, <3>2 DEF Alive
  <2>. QED  BY <1>1, <2>1, <2>2
<1>9. /\ UploadsTyped' /\ NothingDeleted' /\ \A d \in Calls : ConfirmInOrder(d)'
  BY <1>1, <1>2, <1>5, <1>6, <1>8, CallKeeps
<1>10. OneStart'
  <2>1. CASE waiting' = waiting
    <3>1. s = "roll-back"
      BY <1>4, <1>7, <2>1
    <3>. QED  BY <1>1, <1>2, <1>5, <2>1, <3>1 DEF OneStart, CallMoves, Uploads!Submitted
  <2>2. CASE waiting.status = "PENDING_UPLOADS" /\ waiting' = submitted
    <3>1. started = 0 /\ \A d \in Calls : calls[d].at # "invoke"
      BY <2>2, NotStartedYet
    <3>2. waiting'.status \in Uploads!Submitted
      BY <1>7, <2>2 DEF Uploads!Submitted
    <3>3. started' = 0 /\ \A d \in Calls : calls'[d].at = "invoke" => d = c
      BY <1>1, <1>5, <3>1 DEF CallMoves
    <3>. QED  BY <3>2, <3>3 DEF OneStart, Uploads!Submitted
  <2>. QED  BY <1>1, <2>1, <2>2
<1>11. active' <= Cardinality(InSlot') + TaskSlots'
  <2>1. CASE s = "invoke"
    <3>1. Cardinality(InSlot) \in Nat /\ Cardinality(InSlot') = Cardinality(InSlot) - 1
      BY <1>1, <1>5, <2>1, LeavesSlot
    <3>2. TaskSlots = 0 /\ TaskSlots' = 1
      BY <1>4, <1>7, <2>1 DEF TaskSlots, Uploads!Submitted
    <3>. QED  BY <1>1, <1>2, <3>1, <3>2
  <2>2. CASE s = "roll-back"
    <3>1. InSlot' = InSlot
      BY <1>1, <1>5, <2>2 DEF InSlot, CallMoves
    <3>2. TaskSlots \in Nat /\ TaskSlots' \in Nat /\ TaskSlots <= TaskSlots'
      BY <1>1, <1>7 DEF TaskSlots, Uploads!Submitted
    <3>3. Cardinality(InSlot) \in Nat
      <4>1. IsFiniteSet(InSlot)
        BY FS_Subset DEF Uploading, InSlot
      <4>. QED  BY <4>1, FS_CardinalityType
    <3>. QED  BY <1>1, <1>2, <3>1, <3>2, <3>3
  <2>. QED  BY <2>1, <2>2
<1>. QED  BY <1>8, <1>9, <1>10, <1>11 DEF UploadsInv

LEMMA DecrementKeeps ==
  ASSUME Uploading, UploadsInv, NEW c \in Calls, Uploads!DecrementConcurrency(c)
  PROVE  UploadsInv'
<1>1. /\ calls[c].at = "roll-back" /\ Uploads!GoTo(c, "done")
      /\ UNCHANGED <<waiting, store, started, cleaner, oversized>>
      /\ active' = IF active > 0 THEN active - 1 ELSE active
  BY DEF Uploads!DecrementConcurrency
<1>2. /\ UploadsTyped /\ oversized \in BOOLEAN /\ active \in Nat /\ started \in Nat
      /\ waiting \in [status : Waiting \cup Uploads!Submitted,
                      atts : [Attachments -> ScreeningType]]
      /\ active <= Cardinality(InSlot) + TaskSlots
  BY DEF UploadsInv, UploadsTyped
<1>3. CallMoves(c) /\ calls'[c] = Uploads!Idle
  BY <1>1, <1>2, GoToMoves
<1>4. Fit(waiting.atts)' /\ Uploads!AllWereScreened'
  BY <1>1 DEF UploadsInv, Fit, IsFit, Uploads!AllWereScreened, Uploads!PendingIn,
     Uploads!Submitted
<1>5. active' \in Nat
  BY <1>1, <1>2
<1>6. /\ UploadsTyped' /\ NothingDeleted' /\ \A d \in Calls : ConfirmInOrder(d)'
  BY <1>1, <1>2, <1>3, <1>4, <1>5, IdleCall, IdleInOrder, CallKeeps
<1>7. OneStart'
  BY <1>1, <1>3, IdleCall DEF UploadsInv, OneStart, CallMoves, Uploads!Submitted
<1>8. Cardinality(InSlot) \in Nat /\ Cardinality(InSlot') = Cardinality(InSlot) - 1
      /\ Cardinality(InSlot') \in Nat
  <2>1. Cardinality(InSlot) \in Nat /\ Cardinality(InSlot') = Cardinality(InSlot) - 1
    BY <1>1, <1>3, IdleCall, LeavesSlot
  <2>2. IsFiniteSet(InSlot')
    BY FS_Subset DEF Uploading, InSlot
  <2>. QED  BY <2>1, <2>2, FS_CardinalityType
<1>9. TaskSlots' = TaskSlots /\ TaskSlots \in Nat
  BY <1>1 DEF TaskSlots, Uploads!Submitted
<1>10. active' <= Cardinality(InSlot') + TaskSlots'
  BY <1>1, <1>2, <1>8, <1>9
<1>. QED  BY <1>4, <1>6, <1>7, <1>10 DEF UploadsInv

LEMMA InvokeKeeps ==
  ASSUME UploadsInv, NEW c \in Calls, Uploads!InvokeOrchestrator(c)
  PROVE  UploadsInv'
<1>1. /\ calls[c].at = "invoke" /\ Uploads!GoTo(c, "done")
      /\ UNCHANGED <<waiting, store, active, cleaner, oversized>>
      /\ started' \in {started, started + 1}
  BY DEF Uploads!InvokeOrchestrator
<1>2. /\ UploadsTyped /\ oversized \in BOOLEAN /\ active \in Nat /\ started \in Nat
      /\ waiting \in [status : Waiting \cup Uploads!Submitted,
                      atts : [Attachments -> ScreeningType]]
      /\ OneStart /\ active <= Cardinality(InSlot) + TaskSlots
  BY DEF UploadsInv, UploadsTyped
<1>3. CallMoves(c) /\ calls'[c] = Uploads!Idle
  BY <1>1, <1>2, GoToMoves
<1>4. Fit(waiting.atts)' /\ Uploads!AllWereScreened'
  BY <1>1 DEF UploadsInv, Fit, IsFit, Uploads!AllWereScreened, Uploads!PendingIn,
     Uploads!Submitted
<1>5. /\ UploadsTyped' /\ NothingDeleted' /\ \A d \in Calls : ConfirmInOrder(d)'
  BY <1>1, <1>2, <1>3, <1>4, IdleCall, IdleInOrder, CallKeeps
<1>6. OneStart'
  <2>1. /\ started = 0 /\ waiting.status \in Uploads!Submitted
        /\ \A d \in Calls : calls[d].at = "invoke" => d = c
    BY <1>1, <1>2 DEF OneStart
  <2>2. \A d \in Calls : calls'[d].at # "invoke"
    BY <1>3, <2>1, IdleCall DEF CallMoves
  <2>. QED  BY <1>1, <2>1, <2>2 DEF OneStart, Uploads!Submitted
<1>7. InSlot' = InSlot /\ TaskSlots' = TaskSlots
  BY <1>1, <1>3, IdleCall DEF InSlot, TaskSlots, CallMoves, Uploads!Submitted
<1>8. active' <= Cardinality(InSlot') + TaskSlots'
  BY <1>1, <1>2, <1>7
<1>. QED  BY <1>4, <1>5, <1>6, <1>8 DEF UploadsInv

\* The row's status moves while the calls stand still.
LEMMA StatusKeeps ==
  ASSUME UploadsInv, UNCHANGED <<store, calls, started, oversized>>,
         active' \in Nat, cleaner' \in {"idle", "delete"},
         NEW s \in Waiting \cup Uploads!Submitted, waiting' = [waiting EXCEPT !.status = s],
         \/ waiting.status \in Uploads!Submitted /\ s \in Uploads!Submitted /\ cleaner' = cleaner
         \/ waiting.status = "PENDING_UPLOADS" /\ s \in {"FAILED", "CANCELLED"}
  PROVE  /\ UploadsTyped' /\ Fit(waiting.atts)' /\ Uploads!AllWereScreened'
         /\ \A c \in Calls : ConfirmInOrder(c)'
         /\ NothingDeleted' /\ OneStart' /\ InSlot' = InSlot /\ waiting'.status = s
<1>1. /\ UploadsTyped /\ NothingDeleted /\ OneStart /\ Fit(waiting.atts)
      /\ waiting \in [status : Waiting \cup Uploads!Submitted,
                      atts : [Attachments -> ScreeningType]]
      /\ Uploads!AllWereScreened
  BY DEF UploadsInv, UploadsTyped
<1>2. /\ waiting' \in [status : Waiting \cup Uploads!Submitted,
                       atts : [Attachments -> ScreeningType]]
      /\ waiting'.status = s /\ waiting'.atts = waiting.atts
  BY <1>1
<1>3. UploadsTyped'
  BY <1>1, <1>2 DEF UploadsTyped
<1>4. Fit(waiting.atts)'
  BY <1>1, <1>2 DEF Fit, IsFit
<1>5. Uploads!AllWereScreened'
  BY <1>1, <1>2 DEF Uploads!AllWereScreened, Uploads!PendingIn, Uploads!Submitted
<1>6. \A c \in Calls : ConfirmInOrder(c)'
  <2>1. \A a \in Attachments : \A v : /\ IsUpload(a, v) => IsUpload(a, v)'
                                      /\ IsFit(a, v) => IsFit(a, v)'
    BY DEF IsUpload, IsFit
  <2>. QED  BY <2>1, OthersInOrder
<1>7. NothingDeleted'
  BY <1>1, <1>2 DEF NothingDeleted, Uploads!Submitted
<1>8. OneStart'
  <2>1. CASE waiting.status = "PENDING_UPLOADS"
    <3>1. started = 0 /\ \A c \in Calls : calls[c].at # "invoke"
      BY <2>1, NotStartedYet
    <3>. QED  BY <3>1 DEF OneStart
  <2>2. CASE waiting.status \in Uploads!Submitted /\ s \in Uploads!Submitted
    BY <1>1, <1>2, <2>2 DEF OneStart, Uploads!Submitted
  <2>. QED  BY <2>1, <2>2
<1>. QED  BY <1>2, <1>3, <1>4, <1>5, <1>6, <1>7, <1>8 DEF InSlot

LEMMA CancelKeeps ==
  ASSUME UploadsInv, Uploads!CancelTask \/ Uploads!CancelExpiredTask
  PROVE  UploadsInv'
<1>1. /\ waiting.status = "PENDING_UPLOADS" /\ waiting' = [waiting EXCEPT !.status = "CANCELLED"]
      /\ UNCHANGED <<store, calls, active, started, oversized>>
      /\ cleaner' \in {cleaner, "delete"}
  BY DEF Uploads!CancelTask, Uploads!CancelExpiredTask
<1>2. /\ active' \in Nat /\ cleaner' \in {"idle", "delete"}
      /\ active <= Cardinality(InSlot) + TaskSlots
  BY <1>1 DEF UploadsInv, UploadsTyped
<1>3. /\ UploadsTyped' /\ Fit(waiting.atts)' /\ Uploads!AllWereScreened'
      /\ \A c \in Calls : ConfirmInOrder(c)'
      /\ NothingDeleted' /\ OneStart' /\ InSlot' = InSlot /\ waiting'.status = "CANCELLED"
  <2>1. "CANCELLED" \in Waiting \cup Uploads!Submitted
    BY DEF Waiting
  <2>. QED  BY <1>1, <1>2, <2>1, StatusKeeps
<1>4. TaskSlots' = TaskSlots
  BY <1>1, <1>3 DEF TaskSlots, Uploads!Submitted
<1>5. active' <= Cardinality(InSlot') + TaskSlots'
  BY <1>1, <1>2, <1>3, <1>4
<1>. QED  BY <1>3, <1>5 DEF UploadsInv

LEMMA AdmissionKeeps ==
  ASSUME Uploading, UploadsInv, Uploads!AdmissionControl \/ Uploads!FinalizeTask
  PROVE  UploadsInv'
<1>1. /\ UNCHANGED <<store, calls, started, cleaner, oversized>>
      /\ \/ /\ waiting.status = "SUBMITTED" /\ active' = active + 1
            /\ waiting' = [waiting EXCEPT !.status = "HYDRATING"]
         \/ /\ waiting.status = "SUBMITTED" /\ active' = active
            /\ waiting' = [waiting EXCEPT !.status = "QUEUED"]
         \/ /\ waiting.status = "HYDRATING" /\ active' = IF active > 0 THEN active - 1 ELSE active
            /\ waiting' = [waiting EXCEPT !.status = "COMPLETED"]
  BY DEF Uploads!AdmissionControl, Uploads!FinalizeTask
<1>2. /\ active \in Nat /\ cleaner' \in {"idle", "delete"}
      /\ active <= Cardinality(InSlot) + TaskSlots
  BY <1>1 DEF UploadsInv, UploadsTyped
<1>3. active' \in Nat
  BY <1>1, <1>2
<1>4. PICK s \in {"HYDRATING", "QUEUED", "COMPLETED"} :
        /\ waiting' = [waiting EXCEPT !.status = s]
        /\ \/ s = "HYDRATING" /\ waiting.status = "SUBMITTED" /\ active' = active + 1
           \/ s = "QUEUED" /\ waiting.status = "SUBMITTED" /\ active' = active
           \/ /\ s = "COMPLETED" /\ waiting.status = "HYDRATING"
              /\ active' = IF active > 0 THEN active - 1 ELSE active
  BY <1>1
<1>5. /\ s \in Waiting \cup Uploads!Submitted /\ s \in Uploads!Submitted
      /\ waiting.status \in Uploads!Submitted
  BY <1>4 DEF Uploads!Submitted
<1>6. /\ UploadsTyped' /\ Fit(waiting.atts)' /\ Uploads!AllWereScreened'
      /\ \A c \in Calls : ConfirmInOrder(c)'
      /\ NothingDeleted' /\ OneStart' /\ InSlot' = InSlot /\ waiting'.status = s
  BY <1>1, <1>2, <1>3, <1>4, <1>5, StatusKeeps
<1>7. Cardinality(InSlot) \in Nat
  <2>1. IsFiniteSet(InSlot)
    BY FS_Subset DEF Uploading, InSlot
  <2>. QED  BY <2>1, FS_CardinalityType
<1>8. \/ s = "HYDRATING" /\ TaskSlots = 1 /\ TaskSlots' = 2 /\ active' = active + 1
      \/ s = "QUEUED" /\ TaskSlots = 1 /\ TaskSlots' = 1 /\ active' = active
      \/ /\ s = "COMPLETED" /\ TaskSlots = 2 /\ TaskSlots' = 1
         /\ active' = IF active > 0 THEN active - 1 ELSE active
  BY <1>4, <1>6 DEF TaskSlots, Uploads!Submitted
<1>9. active' <= Cardinality(InSlot') + TaskSlots'
  BY <1>2, <1>6, <1>7, <1>8
<1>. QED  BY <1>6, <1>9 DEF UploadsInv

\* The user uploads over an object, or the clean-up deletes: the calls stand still.
LEMMA StoreKeeps ==
  ASSUME UploadsInv, UNCHANGED <<waiting, calls, active, started, oversized>>,
         cleaner' \in {"idle", "delete"},
         store' \in [Attachments -> Seq(VersionType)],
         \A a \in Attachments :
           /\ DOMAIN store[a] \subseteq DOMAIN store'[a]
           /\ \A v \in DOMAIN store[a] : store'[a][v].content = store[a][v].content,
         NothingDeleted'
  PROVE  UploadsInv'
<1>1. /\ Fit(waiting.atts)' /\ \A d \in Calls : ConfirmInOrder(d)'
  BY GrownStore
<1>2. UploadsTyped'
  BY DEF UploadsInv, UploadsTyped
<1>3. Uploads!AllWereScreened' /\ OneStart'
  BY DEF UploadsInv, Uploads!AllWereScreened, Uploads!PendingIn, Uploads!Submitted, OneStart
<1>4. InSlot' = InSlot /\ TaskSlots' = TaskSlots
  BY DEF InSlot, TaskSlots, Uploads!Submitted
<1>5. active' <= Cardinality(InSlot') + TaskSlots'
  BY <1>4 DEF UploadsInv
<1>. QED  BY <1>1, <1>2, <1>3, <1>5 DEF UploadsInv

LEMMA UploadKeeps ==
  ASSUME Uploading, UploadsInv, NEW a \in Attachments, Uploads!Upload(a)
  PROVE  UploadsInv'
<1>1. PICK k \in Contents[a] :
        store' = [store EXCEPT ![a] = Append(@, [content |-> k, gone |-> FALSE])]
  BY DEF Uploads!Upload
<1>2. UNCHANGED <<waiting, calls, active, started, cleaner, oversized>>
  BY DEF Uploads!Upload
<1>. DEFINE e == [content |-> k, gone |-> FALSE]
<1>3. e \in VersionType /\ ~e.gone
  BY DEF Uploading, VersionType
<1>. HIDE DEF e
<1>4. /\ store' = [store EXCEPT ![a] = Append(store[a], e)]
      /\ store \in [Attachments -> Seq(VersionType)] /\ cleaner' \in {"idle", "delete"}
  BY <1>1, <1>2 DEF e, UploadsInv, UploadsTyped
<1>5. /\ Append(store[a], e) \in Seq(VersionType)
      /\ DOMAIN store[a] \subseteq DOMAIN Append(store[a], e)
      /\ \A v \in DOMAIN store[a] : Append(store[a], e)[v] = store[a][v]
      /\ \A v \in DOMAIN Append(store[a], e) : v \in DOMAIN store[a] \/ Append(store[a], e)[v] = e
  BY <1>3, <1>4
<1>6. /\ store'[a] = Append(store[a], e)
      /\ \A b \in Attachments : b # a => store'[b] = store[b]
  BY <1>4
<1>7. /\ store' \in [Attachments -> Seq(VersionType)]
      /\ \A b \in Attachments :
           /\ DOMAIN store[b] \subseteq DOMAIN store'[b]
           /\ \A v \in DOMAIN store[b] : store'[b][v].content = store[b][v].content
  BY <1>4, <1>5, <1>6
<1>8. NothingDeleted'
  <2>. SUFFICES ASSUME waiting.status \in Uploads!Submitted \cup {"PENDING_UPLOADS"}, ~oversized
                PROVE  /\ cleaner' = "idle"
                       /\ \A c \in Calls : calls'[c].at # "clean-up"
                       /\ \A b \in Attachments : \A v \in DOMAIN store'[b] : ~store'[b][v].gone
    BY <1>2 DEF NothingDeleted, Uploads!Submitted
  <2>1. /\ cleaner = "idle" /\ \A c \in Calls : calls[c].at # "clean-up"
        /\ \A b \in Attachments : \A v \in DOMAIN store[b] : ~store[b][v].gone
    BY DEF UploadsInv, NothingDeleted
  <2>2. \A v \in DOMAIN store'[a] : ~store'[a][v].gone
    <3>. SUFFICES ASSUME NEW v \in DOMAIN store'[a] PROVE ~store'[a][v].gone
      OBVIOUS
    <3>1. v \in DOMAIN store[a] \/ store'[a][v] = e
      BY <1>5, <1>6
    <3>. QED  BY <1>3, <1>5, <1>6, <2>1, <3>1
  <2>. QED  BY <1>2, <1>6, <2>1, <2>2
<1>. QED  BY <1>2, <1>4, <1>7, <1>8, StoreKeeps

LEMMA CleanupTaskKeeps ==
  ASSUME UploadsInv, Uploads!CleanupTaskAttachments
  PROVE  UploadsInv'
<1>1. /\ cleaner = "delete" /\ cleaner' = "idle"
      /\ UNCHANGED <<waiting, calls, active, started, oversized>>
      /\ \/ store' = [a \in Attachments |-> [v \in DOMAIN store[a] |->
                        [store[a][v] EXCEPT !.gone = TRUE]]]
         \/ store' = store
  BY DEF Uploads!CleanupTaskAttachments
<1>2. store \in [Attachments -> Seq(VersionType)] /\ NothingDeleted
  BY DEF UploadsInv, UploadsTyped
<1>3. /\ store' \in [Attachments -> Seq(VersionType)]
      /\ \A a \in Attachments :
           /\ DOMAIN store[a] \subseteq DOMAIN store'[a]
           /\ \A v \in DOMAIN store[a] : store'[a][v].content = store[a][v].content
  <2>. SUFFICES ASSUME store' = [a \in Attachments |-> [v \in DOMAIN store[a] |->
                                  [store[a][v] EXCEPT !.gone = TRUE]]]
                PROVE  <1>3!1 /\ <1>3!2
    BY <1>1, <1>2
  <2>1. ASSUME NEW a \in Attachments
        PROVE  /\ store'[a] \in Seq(VersionType) /\ DOMAIN store'[a] = DOMAIN store[a]
               /\ \A v \in DOMAIN store[a] : store'[a][v].content = store[a][v].content
    <3>. DEFINE n == [v \in DOMAIN store[a] |-> [store[a][v] EXCEPT !.gone = TRUE]]
    <3>1. DOMAIN n = DOMAIN store[a] /\ n = [w \in DOMAIN store[a] |-> n[w]]
      OBVIOUS
    <3>2. \A w \in DOMAIN store[a] : n[w] = store[a][w] \/ n[w] = [store[a][w] EXCEPT !.gone = TRUE]
      OBVIOUS
    <3>3. store[a] \in Seq(VersionType)
      BY <1>2
    <3>4. store'[a] = n
      OBVIOUS
    <3>. HIDE DEF n
    <3>5. /\ n \in Seq(VersionType) /\ \A w \in DOMAIN store[a] : n[w].content = store[a][w].content
      BY <3>1, <3>2, <3>3, FlagKeeps
    <3>. QED  BY <3>1, <3>4, <3>5
  <2>2. DOMAIN store' = Attachments /\ store' = [a \in Attachments |-> store'[a]]
    OBVIOUS
  <2>. QED  BY <2>1, <2>2
<1>4. NothingDeleted'
  BY <1>1, <1>2 DEF NothingDeleted, Uploads!Submitted
<1>. QED  BY <1>1, <1>3, <1>4, StoreKeeps

LEMMA UploadsStutter ==
  ASSUME UploadsInv, UNCHANGED Uploads!vars \/ Uploads!Expire
  PROVE  UploadsInv'
<1>1. UNCHANGED <<waiting, store, calls, active, started, cleaner, oversized>>
  BY DEF Uploads!vars, Uploads!Expire
<1>2. NothingDeleted' /\ cleaner' \in {"idle", "delete"}
      /\ store' \in [Attachments -> Seq(VersionType)]
  BY <1>1 DEF UploadsInv, UploadsTyped, NothingDeleted, Uploads!Submitted
<1>. QED  BY <1>1, <1>2, StoreKeeps

LEMMA UploadsStep ==
  ASSUME Uploading, UploadsInv, [Uploads!Next]_(Uploads!vars)
  PROVE  UploadsInv'
<1>1. ASSUME NEW c \in Calls, Uploads!ConfirmUploads(c) PROVE UploadsInv'
  BY <1>1, ReadTaskKeeps, HeadObjectKeeps, PreCheckKeeps, ScreenBatchKeeps, PersistPartialKeeps,
     AllScreenedKeeps, FailTaskKeeps, CleanupAllKeeps, CheckConcurrencyKeeps, TransitionKeeps,
     DecrementKeeps, InvokeKeeps DEF Uploads!ConfirmUploads
<1>2. ASSUME NEW a \in Attachments, Uploads!Upload(a) PROVE UploadsInv'
  BY <1>2, UploadKeeps
<1>3. CASE Uploads!CancelTask \/ Uploads!CancelExpiredTask
  BY <1>3, CancelKeeps
<1>4. CASE Uploads!AdmissionControl \/ Uploads!FinalizeTask
  BY <1>4, AdmissionKeeps
<1>5. CASE Uploads!CleanupTaskAttachments
  BY <1>5, CleanupTaskKeeps
<1>6. CASE UNCHANGED Uploads!vars \/ Uploads!Expire
  BY <1>6, UploadsStutter
<1>. QED  BY <1>1, <1>2, <1>3, <1>4, <1>5, <1>6 DEF Uploads!Next, Uploads!Cleaner

LEMMA UploadsStart ==
  ASSUME Uploading, Uploads!Init
  PROVE  UploadsInv
<1>1. /\ waiting = [status |-> "PENDING_UPLOADS", atts |-> Uploads!NotScreened]
      /\ store = [a \in Attachments |-> <<>>]
      /\ calls = [c \in Calls |-> Uploads!Idle]
      /\ active = 0 /\ started = 0 /\ cleaner = "idle" /\ oversized = FALSE
  BY DEF Uploads!Init
<1>2. waiting.status = "PENDING_UPLOADS" /\ waiting.atts = Uploads!NotScreened
  BY <1>1
<1>3. waiting.atts \in [Attachments -> ScreeningType] /\ Fit(waiting.atts)
  BY <1>2, NothingScreened
<1>4. /\ waiting \in [status : Waiting \cup Uploads!Submitted,
                      atts : [Attachments -> ScreeningType]]
      /\ store \in [Attachments -> Seq(VersionType)]
      /\ calls \in [Calls -> ConfirmType]
  BY <1>1, <1>3, IdleCall DEF Waiting
<1>5. UploadsTyped
  BY <1>1, <1>4 DEF UploadsTyped
<1>6. Uploads!AllWereScreened /\ OneStart
  BY <1>1, <1>2, IdleCall DEF Uploads!AllWereScreened, Uploads!Submitted, OneStart
<1>7. ASSUME NEW c \in Calls PROVE ConfirmInOrder(c)
  <2>1. /\ calls[c].at = "idle" /\ calls[c].seen = Uploads!NotScreened
        /\ calls[c].screened = Uploads!NotScreened
        /\ \A a \in Attachments : calls[c].meta[a] = 0
    BY <1>1, IdleCall
  <2>. QED  BY <2>1, NothingScreened DEF ConfirmInOrder
<1>8. NothingDeleted
  BY <1>1, IdleCall DEF NothingDeleted
<1>9. active <= Cardinality(InSlot) + TaskSlots
  <2>1. InSlot = {} /\ TaskSlots = 0
    BY <1>1, <1>2, IdleCall DEF InSlot, TaskSlots, Uploads!Submitted
  <2>. QED  BY <1>1, <2>1, FS_EmptySet
<1>. QED  BY <1>3, <1>5, <1>6, <1>7, <1>8, <1>9 DEF UploadsInv

LEMMA UploadsImplies ==
  ASSUME Uploading, UploadsInv
  PROVE  Uploads!ScreenedSubmittedOnce
<1>1. Uploads!ScreenedContent
  BY DEF UploadsInv, Fit, IsFit, Uploads!ScreenedContent
<1>2. Uploads!SubmittedObjectsKept
  <2>. SUFFICES ASSUME waiting.status \in Uploads!Submitted, ~oversized, NEW a \in Attachments,
                       waiting.atts[a].screening = "passed"
                PROVE  ~store[a][waiting.atts[a].version].gone
    BY DEF Uploads!SubmittedObjectsKept
  <2>. QED  BY DEF UploadsInv, NothingDeleted, Fit, IsFit
<1>3. Uploads!OrchestratedOnce
  BY DEF UploadsInv, UploadsTyped, OneStart, Uploads!OrchestratedOnce
<1>4. Uploads!SlotsExplained
  <2>1. Uploads!Cardinality({c \in Calls : calls[c].at \in {"submit", "roll-back"}})
          = Cardinality(InSlot)
    BY Zenon DEF Uploads!Cardinality, Cardinality, InSlot
  <2>2. Uploads!SlotsExplained <=>
          active <= Cardinality(InSlot) + (IF waiting.status \in Uploads!Submitted THEN 1 ELSE 0)
                      + (IF waiting.status = "HYDRATING" THEN 1 ELSE 0)
    BY <2>1 DEF Uploads!SlotsExplained
  <2>3. active <= Cardinality(InSlot) + TaskSlots /\ Cardinality(InSlot) \in Nat
    <3>1. IsFiniteSet(InSlot)
      BY FS_Subset DEF Uploading, InSlot
    <3>. QED  BY <3>1, FS_CardinalityType DEF UploadsInv
  <2>. QED  BY <2>2, <2>3 DEF TaskSlots
<1>. QED  BY <1>1, <1>2, <1>3, <1>4 DEF UploadsInv, Uploads!ScreenedSubmittedOnce,
          Uploads!OnlyScreenedSubmitted, Uploads!SubmittedOnce

\* However many calls confirm an upload at once, are cut short or fail half-way, and however
\* often the user uploads over an object meanwhile, a task that is submitted has all of its
\* attachments screened, in the versions that were screened, and is submitted and started
\* once, with one slot.
THEOREM SubmittedAsScreened == Spec => []ScreenedSubmittedOnce
<1>. DEFINE I == subject = "uploads" => UploadsInv
<1>1. Init => I
  BY UploadsStart, ServicesAssumption DEF Init
<1>2. I /\ [Next]_vars => I'
  BY OnlyOne, UploadsStep, ServicesAssumption
<1>3. I => ScreenedSubmittedOnce
  BY UploadsImplies, ServicesAssumption DEF ScreenedSubmittedOnce
<1>. HIDE DEF I
<1>. QED  BY <1>1, <1>2, <1>3, PTL DEF Spec

-----------------------------------------------------------------------------
(***************************************************************************)
(* AgentSession: what a run reports was delivered, and nothing is left     *)
(* unaccounted for                                                         *)
(***************************************************************************)

EarlySteps == {"boot", "running", "hydrate", "ack", "setup", "agent", "recheck"}

CrashSteps == {"crash_upload", "crash_write", "crash_react"}

RunSteps ==
    EarlySteps \cup CrashSteps \cup
    {"commit", "verify", "ensure", "resolve", "push", "create", "deliver", "verdict",
     "react", "upload", "head", "terminal", "cancel_upload", "heal", "backup", "over"}

RunType ==
    [workflow : {"new-task", "pr-iteration", "pr-review", "web-research"},
     linear : BOOLEAN, traced : BOOLEAN, build_before : BOOLEAN, at : RunSteps,
     agent : {"none", "success", "error", "unknown"}, needs_input : BOOLEAN,
     build : {"passed", "failed", "infra"}, url : BOOLEAN,
     reason : {"none", "infra", "no_result", "agent", "passed", "failed", "no_artifact",
               "no_pr", "lost"},
     uploaded : BOOLEAN, crashed : BOOLEAN]

TaskType ==
    [status : {"HYDRATING", "RUNNING", "COMPLETED", "FAILED", "CANCELLED", "TIMED_OUT"},
     pr : BOOLEAN, changed : BOOLEAN, trace : BOOLEAN]

RepoType ==
    [dirty : BOOLEAN, head : Nat, on_branch : BOOLEAN, branch : Nat, remote : Nat,
     pr : BOOLEAN, artifact : BOOLEAN]

IssueType ==
    [marks : SUBSET {"old", "eyes", "check", "cross"},
     sweep : {"idle", "list", "delete", "done"},
     found : SUBSET {"old", "eyes", "check", "cross"}]

PastType ==
    [cancelled : BOOLEAN, shipped : BOOLEAN,
     faults : SUBSET {"lost", "readError", "gitError", "pushError", "apiError", "s3Error",
                      "linearError"}]

SessionTyped ==
    task \in TaskType /\ run \in RunType /\ repo \in RepoType /\ issue \in IssueType
    /\ past \in PastType

\* The tracked branch is never ahead of HEAD, nor the remote of the tracked branch.
BranchesKept ==
    /\ repo.on_branch => repo.branch = repo.head
    /\ repo.remote <= repo.branch /\ repo.branch <= repo.head

LEMMA SessionTypedInit == Running /\ Session!Init => SessionTyped
  BY DEF Running, Session!Init, SessionTyped, TaskType, RunType, RepoType, IssueType, PastType,
     RunSteps, EarlySteps, CrashSteps, Session!is_pr_workflow

\* A fault is remembered, and happens once.
LEMMA FaultRemembered ==
  ASSUME SessionTyped, NEW f \in {"lost", "readError", "gitError", "pushError", "apiError",
                                  "s3Error", "linearError"}, Session!Fails(f)
  PROVE  /\ past' \in PastType /\ past'.faults = past.faults \cup {f} /\ f \notin past.faults
         /\ past'.cancelled = past.cancelled /\ past'.shipped = past.shipped
  BY DEF SessionTyped, PastType, Session!Fails

\* The run goes to another step.
LEMMA RunMoves ==
  ASSUME SessionTyped, NEW from, NEW to \in RunSteps, Session!Step(from, to)
  PROVE  /\ run' \in RunType /\ run.at = from /\ run'.at = to /\ run' = [run EXCEPT !.at = to]
         /\ run'.workflow = run.workflow /\ run'.linear = run.linear /\ run'.traced = run.traced
         /\ run'.build_before = run.build_before /\ run'.agent = run.agent
         /\ run'.needs_input = run.needs_input /\ run'.build = run.build /\ run'.url = run.url
         /\ run'.reason = run.reason /\ run'.uploaded = run.uploaded /\ run'.crashed = run.crashed
  BY DEF SessionTyped, RunType, Session!Step

\* What git does to the clone.
LEMMA CloneForms ==
  ASSUME NEW r \in RepoType
  PROVE  /\ LET n == Session!Committed(r) IN
              /\ n \in RepoType /\ n.head = r.head + 1 /\ n.on_branch = r.on_branch
              /\ n.branch = (IF r.on_branch THEN r.branch + 1 ELSE r.branch)
              /\ n.remote = r.remote /\ n.pr = r.pr /\ n.artifact = r.artifact
         /\ LET n == Session!Reconciled(r) IN
              /\ n \in RepoType /\ n.head = r.head /\ n.on_branch /\ n.branch = r.head
              /\ n.remote = r.remote /\ n.pr = r.pr /\ n.artifact = r.artifact
         /\ LET n == [r EXCEPT !.branch = r.head] IN
              /\ n \in RepoType /\ n.head = r.head /\ n.on_branch = r.on_branch
              /\ n.branch = r.head
              /\ n.remote = r.remote /\ n.pr = r.pr /\ n.artifact = r.artifact
         /\ Session!Saved(r) \in {r, Session!Committed(r)}
<1>1. LET n == Session!Committed(r) IN
              /\ n \in RepoType /\ n.head = r.head + 1 /\ n.on_branch = r.on_branch
              /\ n.branch = (IF r.on_branch THEN r.branch + 1 ELSE r.branch)
              /\ n.remote = r.remote /\ n.pr = r.pr /\ n.artifact = r.artifact
  <2>. DEFINE b == IF r.on_branch THEN r.branch + 1 ELSE r.branch
              n == [r EXCEPT !.dirty = FALSE, !.head = r.head + 1, !.branch = b]
  <2>1. b \in Nat /\ r.head + 1 \in Nat
    BY DEF RepoType
  <2>2. Session!Committed(r) = n
    BY DEF RepoType, Session!Committed
  <2>. HIDE DEF b
  <2>3. /\ n \in RepoType /\ n.head = r.head + 1 /\ n.on_branch = r.on_branch /\ n.branch = b
        /\ n.remote = r.remote /\ n.pr = r.pr /\ n.artifact = r.artifact
    BY <2>1 DEF RepoType
  <2>. HIDE DEF n
  <2>. QED  BY <2>2, <2>3 DEF b
<1>2. LET n == Session!Reconciled(r) IN
              /\ n \in RepoType /\ n.head = r.head /\ n.on_branch /\ n.branch = r.head
              /\ n.remote = r.remote /\ n.pr = r.pr /\ n.artifact = r.artifact
  BY DEF RepoType, Session!Reconciled
<1>3. LET n == [r EXCEPT !.branch = r.head] IN
              /\ n \in RepoType /\ n.head = r.head /\ n.on_branch = r.on_branch
              /\ n.branch = r.head
              /\ n.remote = r.remote /\ n.pr = r.pr /\ n.artifact = r.artifact
  BY DEF RepoType
<1>4. Session!Saved(r) \in {r, Session!Committed(r)}
  BY DEF Session!Saved
<1>. QED  BY <1>1, <1>2, <1>3, <1>4

\* What is left in the clone when the work is committed, or when git fails at it.
LEMMA SavedForms ==
  ASSUME SessionTyped,
         repo' \in {Session!Saved(Session!Reconciled(repo)), Session!Saved(repo),
                   Session!Saved([repo EXCEPT !.branch = repo.head]), Session!Reconciled(repo)}
  PROVE  /\ repo' \in RepoType
         /\ repo'.remote = repo.remote /\ repo'.pr = repo.pr /\ repo'.artifact = repo.artifact
         /\ BranchesKept => BranchesKept'
<1>. DEFINE Good(n) == /\ n \in RepoType /\ n.remote = repo.remote
                       /\ n.pr = repo.pr /\ n.artifact = repo.artifact
                       /\ BranchesKept => /\ n.on_branch => n.branch = n.head
                                          /\ n.remote <= n.branch /\ n.branch <= n.head
<1>1. repo \in RepoType /\ Good(repo)
  BY DEF SessionTyped, BranchesKept
<1>2. Good(Session!Reconciled(repo)) /\ Good([repo EXCEPT !.branch = repo.head])
  BY <1>1, CloneForms DEF BranchesKept, RepoType
<1>3. ASSUME NEW n, Good(n) PROVE Good(Session!Committed(n))
  <2>1. n \in RepoType /\ n.remote \in Nat /\ n.branch \in Nat /\ n.head \in Nat
    BY <1>3 DEF RepoType
  <2>2. LET m == Session!Committed(n) IN
          /\ m \in RepoType /\ m.head = n.head + 1 /\ m.on_branch = n.on_branch
          /\ m.branch = (IF n.on_branch THEN n.branch + 1 ELSE n.branch)
          /\ m.remote = n.remote /\ m.pr = n.pr /\ m.artifact = n.artifact
    BY <2>1, CloneForms
  <2>. QED  BY <1>3, <2>1, <2>2
<1>4. \A n : Good(n) => Good(Session!Saved(n))
  BY <1>3 DEF Session!Saved
<1>5. Good(repo')
  BY <1>1, <1>2, <1>4
<1>6. ASSUME BranchesKept PROVE BranchesKept'
  <2>1. /\ repo'.on_branch => repo'.branch = repo'.head
        /\ repo'.remote <= repo'.branch /\ repo'.branch <= repo'.head
    BY <1>5, <1>6
  <2>. QED  BY <2>1 DEF BranchesKept
<1>. QED  BY <1>5, <1>6

\* A verdict is one of the known reasons.
LEMMA VerdictIsReason ==
  ASSUME SessionTyped
  PROVE  Session!Delivered(Session!Resolved)
           \in {"none", "infra", "no_result", "agent", "passed", "failed", "no_artifact",
               "no_pr", "lost"}
<1>1. Session!Resolved \in {"none", "infra", "no_result", "agent", "passed", "failed"}
  BY DEF SessionTyped, RunType, Session!Resolved
<1>. QED  BY <1>1 DEF Session!Delivered

\* Types are kept by the agent,
LEMMA AgentTyped ==
  ASSUME SessionTyped, Session!Agent
  PROVE  SessionTyped'
<1>1. CASE Session!AgentEnds
  BY <1>1 DEF SessionTyped, RunType, RunSteps, EarlySteps, CrashSteps, Session!AgentEnds
<1>2. CASE Session!AgentCommits
  BY <1>2, CloneForms DEF SessionTyped, Session!AgentCommits, Session!InRepo
<1>3. CASE Session!AgentEdits
  BY <1>3 DEF SessionTyped, RepoType, Session!AgentEdits, Session!InRepo
<1>4. CASE Session!AgentLeavesBranch
  BY <1>4 DEF SessionTyped, RepoType, Session!AgentLeavesBranch, Session!InRepo
<1>5. CASE Session!AgentPushes
  BY <1>5 DEF SessionTyped, RepoType, Session!AgentPushes, Session!InRepo
<1>6. CASE Session!AgentOpensPr
  BY <1>6 DEF SessionTyped, RepoType, Session!AgentOpensPr, Session!InRepo
<1>. QED  BY <1>1, <1>2, <1>3, <1>4, <1>5, <1>6 DEF Session!Agent

LEMMA TerminalTyped ==
  ASSUME SessionTyped, NEW from, NEW rec \in TaskType, NEW traced, NEW to \in RunSteps,
         Session!WriteTerminal(from, rec, traced, to)
  PROVE  SessionTyped'
<1>1. /\ task' \in {task, rec} /\ (past' = past \/ Session!Fails("lost"))
      /\ UNCHANGED <<repo, issue>>
      /\ \/ run' = [run EXCEPT !.at = to]
         \/ run' = [run EXCEPT !.at = "heal"]
  BY DEF Session!WriteTerminal, Session!Written, Session!Fine
<1>2. run' \in RunType
  BY <1>1 DEF SessionTyped, RunType, RunSteps
<1>3. past' \in PastType
  BY <1>1, FaultRemembered DEF SessionTyped
<1>. QED  BY <1>1, <1>2, <1>3 DEF SessionTyped

\* by the pipeline,
LEMMA PipeTyped ==
  ASSUME SessionTyped, Session!Pipeline
  PROVE  SessionTyped'
<1>1. CASE Session!Boot
  BY <1>1, RunMoves DEF SessionTyped, RunSteps, EarlySteps, Session!Boot
<1>2. CASE Session!write_running
  BY <1>2, RunMoves, FaultRemembered DEF SessionTyped, TaskType, RunSteps, EarlySteps,
     Session!write_running, Session!Written, Session!Fine
<1>3. CASE Session!Hydrate
  BY <1>3, RunMoves DEF SessionTyped, RunSteps, EarlySteps, Session!Hydrate
<1>4. CASE Session!react_task_started
  <2>1. /\ Session!Step("ack", "setup") /\ UNCHANGED <<task, repo>>
        /\ \/ issue' = issue
           \/ issue' = [issue EXCEPT !.marks = issue.marks \cup {"eyes"}, !.sweep = "list"]
        /\ past' = past \/ Session!Fails("linearError")
    BY <1>4 DEF Session!react_task_started, Session!Fine
  <2>2. issue' \in IssueType
    BY <2>1 DEF SessionTyped, IssueType
  <2>. QED  BY <2>1, <2>2, RunMoves, FaultRemembered DEF SessionTyped, RunSteps, EarlySteps
<1>5. CASE Session!SetupRepo
  BY <1>5, RunMoves DEF SessionTyped, RunSteps, EarlySteps, Session!SetupRepo
<1>6. CASE Session!Recheck
  BY <1>6, RunMoves, FaultRemembered DEF SessionTyped, RunSteps, EarlySteps, Session!Recheck,
     Session!Fine
<1>7. CASE Session!NothingToCommit
  BY <1>7 DEF SessionTyped, RunType, RunSteps, Session!NothingToCommit
<1>8. CASE Session!CommitWork
  BY <1>8, RunMoves, FaultRemembered, SavedForms DEF SessionTyped, RunSteps, Session!CommitWork,
     Session!Fine
<1>9. CASE Session!verify_build
  BY <1>9 DEF SessionTyped, RunType, RunSteps, Session!verify_build
<1>10. CASE Session!PushForPr \/ Session!PushNewWork
  BY <1>10, RunMoves, FaultRemembered DEF SessionTyped, RepoType, PastType, RunSteps,
     Session!PushForPr, Session!PushNewWork, Session!PushBranch, Session!Shipped
<1>11. CASE Session!ResolvePr \/ Session!FindPr
  BY <1>11, FaultRemembered DEF SessionTyped, RunType, RunSteps, Session!ResolvePr,
     Session!FindPr, Session!LookedUp, Session!Fine
<1>12. CASE Session!CreatePr
  <2>1. /\ UNCHANGED <<task, issue>> /\ (past' = past \/ Session!Fails("apiError"))
        /\ repo' = repo \/ repo' = [repo EXCEPT !.pr = TRUE]
        /\ \/ run' = [run EXCEPT !.at = "verdict", !.url = TRUE]
           \/ run' = [run EXCEPT !.at = "verdict"]
    BY <1>12 DEF Session!CreatePr, Session!Step, Session!Fine
  <2>2. run' \in RunType
    <3>1. run \in RunType /\ "verdict" \in RunSteps
      BY DEF SessionTyped, RunSteps
    <3>2. CASE run' = [run EXCEPT !.at = "verdict", !.url = TRUE]
      BY <3>1, <3>2 DEF RunType
    <3>3. CASE run' = [run EXCEPT !.at = "verdict"]
      BY <3>1, <3>3 DEF RunType
    <3>. QED  BY <2>1, <3>2, <3>3
  <2>3. repo' \in RepoType
    BY <2>1 DEF SessionTyped, RepoType
  <2>4. past' \in PastType
    BY <2>1, FaultRemembered DEF SessionTyped
  <2>. QED  BY <2>1, <2>2, <2>3, <2>4 DEF SessionTyped
<1>13. CASE Session!DeliverArtifact
  <2>1. /\ run.at = "deliver" /\ UNCHANGED <<task, issue>>
        /\ repo' = repo \/ repo' = [repo EXCEPT !.artifact = TRUE]
        /\ \/ run' = [run EXCEPT !.at = "verdict", !.url = TRUE]
           \/ Session!Step("deliver", "verdict")
        /\ \/ past' = past \/ Session!Fails("s3Error")
           \/ past' = [past EXCEPT !.shipped = TRUE]
    BY <1>13 DEF Session!DeliverArtifact, Session!Fine, Session!Shipped
  <2>2. repo' \in RepoType
    BY <2>1 DEF SessionTyped, RepoType
  <2>3. run' \in RunType
    BY <2>1, RunMoves DEF SessionTyped, RunType, RunSteps
  <2>4. past' \in PastType
    BY <2>1, FaultRemembered DEF SessionTyped, PastType
  <2>. QED  BY <2>1, <2>2, <2>3, <2>4 DEF SessionTyped
<1>14. CASE Session!Verdict
  <2>. DEFINE s == IF Session!RequiresRepo(run.workflow) THEN "react" ELSE "upload"
              reason == IF run.needs_input THEN "none" ELSE Session!Delivered(Session!Resolved)
  <2>1. run' = [run EXCEPT !.at = s, !.reason = reason] /\ UNCHANGED <<task, repo, issue, past>>
    BY <1>14 DEF Session!Verdict
  <2>2. s \in RunSteps
        /\ reason \in {"none", "infra", "no_result", "agent", "passed", "failed", "no_artifact",
               "no_pr", "lost"}
    BY VerdictIsReason DEF RunSteps
  <2>. HIDE DEF s, reason
  <2>. QED  BY <2>1, <2>2 DEF SessionTyped, RunType
<1>15. CASE Session!react_task_finished \/ Session!ReactToCrash
  BY <1>15, FaultRemembered DEF SessionTyped, RunType, IssueType, RunSteps,
     Session!react_task_finished, Session!ReactToCrash, Session!Reacts, Session!Fine
<1>16. CASE Session!UploadTrace \/ Session!UploadTraceOfCancelled \/ Session!UploadTraceOfCrashed
  <2>1. /\ UNCHANGED <<task, repo, issue>> /\ (past' = past \/ Session!Fails("s3Error"))
        /\ \E at \in {"head", "heal", "over", "crash_write"} :
             \/ run' = [run EXCEPT !.at = at, !.uploaded = TRUE]
             \/ run' = [run EXCEPT !.at = at, !.uploaded = FALSE]
             \/ run' = [run EXCEPT !.at = at]
    BY <1>16 DEF Session!UploadTrace, Session!UploadTraceOfCancelled,
       Session!UploadTraceOfCrashed, Session!Uploads, Session!Fine
  <2>2. run' \in RunType
    <3>1. PICK at \in RunSteps : \/ run' = [run EXCEPT !.at = at, !.uploaded = TRUE]
                                \/ run' = [run EXCEPT !.at = at, !.uploaded = FALSE]
                                \/ run' = [run EXCEPT !.at = at]
      BY <2>1 DEF RunSteps, CrashSteps
    <3>. QED  BY <3>1 DEF SessionTyped, RunType
  <2>3. past' \in PastType
    BY <2>1, FaultRemembered DEF SessionTyped
  <2>. QED  BY <2>1, <2>2, <2>3 DEF SessionTyped
<1>17. CASE Session!CompareHead
  BY <1>17, RunMoves DEF SessionTyped, RunSteps, Session!CompareHead
<1>18. CASE Session!EndRun
  <2>. DEFINE rec ==
         [task EXCEPT !.status = IF run.reason = "none" THEN "COMPLETED" ELSE "FAILED",
            !.pr = run.url, !.trace = run.uploaded,
            !.changed = ~run.needs_input
                          /\ (Session!is_pr_workflow(run.workflow) => repo.head > 0)]
  <2>1. Session!WriteTerminal("terminal", rec, run.uploaded, "over")
    BY <1>18 DEF Session!EndRun
  <2>2. rec \in TaskType
    BY DEF SessionTyped, TaskType, RunType
  <2>. HIDE DEF rec
  <2>. QED  BY <2>1, <2>2, TerminalTyped DEF RunSteps
<1>19. CASE Session!HealTrace
  BY <1>19, FaultRemembered, RunMoves DEF SessionTyped, TaskType, RunSteps, CrashSteps,
     Session!HealTrace, Session!Written, Session!Fine
<1>20. CASE Session!Raise
  BY <1>20 DEF SessionTyped, RunType, RunSteps, CrashSteps, Session!Raise
<1>21. CASE Session!RecordCrash \/ Session!RecordCrashAgain
  <2>. DEFINE rec == [task EXCEPT !.status = "FAILED", !.trace = run.uploaded]
  <2>1. \/ Session!WriteTerminal("crash_write", rec, run.uploaded, "crash_react")
        \/ Session!WriteTerminal("backup", Session!Failed, FALSE, "over")
    BY <1>21 DEF Session!RecordCrash, Session!RecordCrashAgain, Session!Failed
  <2>2. rec \in TaskType /\ Session!Failed \in TaskType
    BY DEF SessionTyped, TaskType, RunType, Session!Failed
  <2>. HIDE DEF rec
  <2>. QED  BY <2>1, <2>2, TerminalTyped DEF RunSteps, CrashSteps
<1>. QED  BY <1>1, <1>2, <1>3, <1>4, <1>5, <1>6, <1>7, <1>8, <1>9, <1>10, <1>11, <1>12, <1>13,
  <1>14, <1>15, <1>16, <1>17, <1>18, <1>19, <1>20, <1>21 DEF Session!Pipeline

\* and by what goes on around it.
LEMMA WorldTyped ==
  ASSUME SessionTyped,
         \/ Session!SweepLists \/ Session!SweepDeletes \/ Session!OrchestratorRuns
         \/ Session!Cancel \/ Session!GiveUp \/ UNCHANGED Session!vars
  PROVE  SessionTyped'
<1>1. CASE Session!SweepLists \/ Session!SweepDeletes
  <2>1. /\ UNCHANGED <<task, run, repo>> /\ (past' = past \/ Session!Fails("linearError"))
        /\ \/ issue' = [issue EXCEPT !.sweep = "delete", !.found = issue.marks \ {"eyes"}]
           \/ issue' = [issue EXCEPT !.sweep = "done"]
           \/ \E m \in SUBSET issue.marks :
                issue' = [issue EXCEPT !.marks = m, !.sweep = "done", !.found = {}]
    <3>1. CASE Session!SweepLists
      BY <3>1 DEF Session!SweepLists, Session!Sweeps, Session!Fine
    <3>2. CASE Session!SweepDeletes
      <4>1. PICK m \in SUBSET issue.marks :
              issue' = Session!Forgotten([issue EXCEPT !.marks = m])
        BY <3>2 DEF Session!SweepDeletes, Session!Sweeps
      <4>2. Session!Forgotten([issue EXCEPT !.marks = m])
              = [issue EXCEPT !.marks = m, !.sweep = "done", !.found = {}]
        BY DEF Session!Forgotten, SessionTyped, IssueType
      <4>. QED  BY <3>2, <4>1, <4>2 DEF Session!SweepDeletes, Session!Sweeps, Session!Fine
    <3>. QED  BY <1>1, <3>1, <3>2
  <2>2. issue' \in IssueType
    BY <2>1 DEF SessionTyped, IssueType
  <2>3. past' \in PastType
    BY <2>1, FaultRemembered DEF SessionTyped
  <2>. QED  BY <2>1, <2>2, <2>3 DEF SessionTyped
<1>2. CASE Session!OrchestratorRuns \/ Session!GiveUp
  <2>1. UNCHANGED <<run, repo, issue, past>>
        /\ \E s \in {"RUNNING", "TIMED_OUT", "FAILED"} : task' = [task EXCEPT !.status = s]
    BY <1>2 DEF Session!OrchestratorRuns, Session!GiveUp
  <2>. QED  BY <2>1 DEF SessionTyped, TaskType
<1>3. CASE Session!Cancel
  <2>1. UNCHANGED <<run, repo, issue>>
        /\ task' = [task EXCEPT !.status = "CANCELLED"]
        /\ \E b \in BOOLEAN : past' = [past EXCEPT !.cancelled = b]
    <3>. DEFINE b == run.at \in {"boot", "running", "hydrate", "ack", "setup", "agent", "recheck"}
    <3>1. past' = [past EXCEPT !.cancelled = b] /\ b \in BOOLEAN
      BY <1>3 DEF Session!Cancel
    <3>. HIDE DEF b
    <3>. QED  BY <1>3, <3>1 DEF Session!Cancel
  <2>2. task' \in TaskType
    BY <2>1 DEF SessionTyped, TaskType
  <2>3. past' \in PastType
    BY <2>1 DEF SessionTyped, PastType
  <2>. QED  BY <2>1, <2>2, <2>3 DEF SessionTyped
<1>4. CASE UNCHANGED Session!vars
  BY <1>4 DEF SessionTyped, Session!vars
<1>. QED  BY <1>1, <1>2, <1>3, <1>4

\* Which workflow takes which steps.
Placed ==
    /\ run.workflow = "web-research" =>
         run.at \notin {"ack", "setup", "recheck", "commit", "verify", "ensure", "resolve", "push",
                        "create", "react"}
    /\ run.at = "resolve" => run.workflow = "pr-iteration"
    /\ run.at \in {"push", "create"} => run.workflow = "new-task"
    /\ run.at = "deliver" => run.workflow = "web-research"
    /\ run.needs_input => ~Session!is_pr_workflow(run.workflow)

\* A pull request has commits; what a run says it has delivered is there.
Delivers ==
    /\ run.workflow = "new-task" /\ repo.pr => repo.remote > 0
    /\ run.workflow = "new-task" /\ run.url => repo.pr
    /\ run.workflow = "web-research" /\ run.url => repo.artifact

\* What a success of the run rests on
Earned ==
    /\ run.agent = "success"
    /\ run.build # "infra"
    /\ run.build # "passed" => Session!ReadOnly(run.workflow) \/ ~run.build_before
    /\ run.workflow = "new-task" => repo.pr /\ repo.remote > 0
    /\ run.workflow = "web-research" => repo.artifact

VerdictTrue ==
    /\ run.at \in {"react", "upload", "head", "terminal"} /\ run.reason = "none"
       /\ ~run.needs_input => Earned
    /\ task.status = "COMPLETED" =>
         /\ run.at = "over"
         /\ ~run.needs_input => Earned
         /\ Session!is_pr_workflow(run.workflow) /\ ~task.changed => repo.remote = 0

\* A run that was cancelled before its post-hooks takes the way out, or was not told.
Stopped ==
    /\ past.cancelled => task.status = "CANCELLED"
    /\ task.status = "CANCELLED" /\ run.at \in EarlySteps => past.cancelled
    /\ run.at = "cancel_upload" => past.cancelled
    /\ run.at \in EarlySteps => ~past.shipped
    /\ past.cancelled /\ "readError" \notin past.faults /\ run.workflow # "web-research" =>
         /\ run.at \in EarlySteps \cup CrashSteps \cup {"cancel_upload", "heal", "backup", "over"}
         /\ ~past.shipped

\* A trace is uploaded late, and on the record before the run leaves.
Traced ==
    /\ run.uploaded =>
         run.at \in CrashSteps \cup {"head", "terminal", "heal", "backup", "over"}
    /\ run.at = "heal" => ~Session!Live
    /\ "lost" \notin past.faults /\ run.uploaded /\ run.at \in {"crash_react", "backup", "over"} =>
         task.trace

\* A run that raised has recorded it, or a write was lost.
CrashTold ==
    /\ run.at \in CrashSteps => run.crashed
    /\ run.crashed => run.at \in CrashSteps \cup {"heal", "backup", "over"}
    /\ run.crashed /\ run.at \in {"crash_react", "backup"} =>
         ~Session!Live \/ "lost" \in past.faults
    /\ run.crashed /\ run.at = "over" => ~Session!Live

\* The eyes are up while the run works, and until it leaves the issue.
MarkersSwept ==
    "linearError" \notin past.faults =>
        /\ "eyes" \in issue.marks =>
             /\ run.linear /\ run.workflow # "web-research"
             /\ run.at \notin {"boot", "running", "hydrate", "ack", "upload", "head", "terminal",
                               "backup"}
             /\ run.at = "heal" => run.crashed \/ past.cancelled
             /\ run.at = "over" => past.cancelled
        /\ issue.sweep = "delete" /\ "old" \in issue.marks => "old" \in issue.found
        /\ issue.sweep = "done" => "old" \notin issue.marks

SessionInv ==
    /\ SessionTyped /\ BranchesKept /\ Placed /\ Delivers /\ VerdictTrue
    /\ Stopped /\ Traced /\ CrashTold /\ MarkersSwept
-----------------------------------------------------------------------------
\* What a step does to the run besides its place, and to the history
RunKeeps ==
    /\ run'.workflow = run.workflow /\ run'.linear = run.linear
    /\ run'.build_before = run.build_before /\ run'.agent = run.agent
    /\ run'.needs_input = run.needs_input /\ run'.build = run.build
    /\ run'.reason = run.reason /\ run'.crashed = run.crashed

PastKeeps(fault) ==
    /\ past'.cancelled = past.cancelled /\ past'.shipped = past.shipped
    /\ past'.faults \in {past.faults, past.faults \cup {fault}}

\* Where an upload of the trace leads, and with which flag
LEMMA UploadMoves ==
  ASSUME SessionTyped, NEW from, NEW to \in RunSteps, NEW without \in RunSteps,
         Session!Uploads(from, to, without)
  PROVE  /\ run.at = from /\ RunKeeps /\ run'.url = run.url /\ PastKeeps("s3Error")
         /\ UNCHANGED <<task, repo, issue>>
         /\ \/ run'.at = to /\ run'.uploaded
            \/ run'.at = without /\ (run'.uploaded => run.uploaded)
<1>1. /\ run.at = from /\ UNCHANGED <<task, repo, issue>>
      /\ \/ run' = [run EXCEPT !.at = to, !.uploaded = TRUE]
         \/ run' = [run EXCEPT !.at = without]
         \/ run' = [run EXCEPT !.at = without, !.uploaded = FALSE]
      /\ past' = past \/ Session!Fails("s3Error")
  BY DEF Session!Uploads, Session!Fine
<1>2. PastKeeps("s3Error")
  BY <1>1, FaultRemembered DEF PastKeeps
<1>. QED  BY <1>1, <1>2 DEF SessionTyped, RunType, RunKeeps

\* A pull request is created for a branch that is there.
LEMMA CreateMoves ==
  ASSUME SessionTyped, Session!CreatePr
  PROVE  /\ run.at = "create" /\ run'.at = "verdict" /\ RunKeeps /\ PastKeeps("apiError")
         /\ run'.uploaded = run.uploaded /\ UNCHANGED <<task, issue>>
         /\ repo'.on_branch = repo.on_branch /\ repo'.branch = repo.branch
         /\ repo'.head = repo.head /\ repo'.remote = repo.remote /\ repo'.artifact = repo.artifact
         /\ \/ repo.remote > 0 /\ repo'.pr
            \/ repo'.pr = repo.pr /\ run'.url = run.url
<1>1. /\ run.at = "create" /\ UNCHANGED <<task, issue>>
      /\ \/ /\ repo.remote > 0 /\ repo' = [repo EXCEPT !.pr = TRUE]
            /\ run' = [run EXCEPT !.at = "verdict", !.url = TRUE]
         \/ repo' = repo /\ run' = [run EXCEPT !.at = "verdict"]
      /\ past' = past \/ Session!Fails("apiError")
  BY DEF Session!CreatePr, Session!Step, Session!Fine
<1>2. PastKeeps("apiError")
  BY <1>1, FaultRemembered DEF PastKeeps
<1>. QED  BY <1>1, <1>2 DEF SessionTyped, RunType, RepoType, RunKeeps

\* An artifact that is reported is stored.
LEMMA DeliverMoves ==
  ASSUME SessionTyped, Session!DeliverArtifact
  PROVE  /\ run.at = "deliver" /\ run'.at = "verdict" /\ RunKeeps
         /\ run'.uploaded = run.uploaded /\ UNCHANGED <<task, issue>>
         /\ repo'.on_branch = repo.on_branch /\ repo'.branch = repo.branch
         /\ repo'.head = repo.head /\ repo'.remote = repo.remote /\ repo'.pr = repo.pr
         /\ repo.artifact => repo'.artifact
         /\ run'.url => run.url \/ repo'.artifact
         /\ past'.cancelled = past.cancelled
         /\ past'.faults \in {past.faults, past.faults \cup {"s3Error"}}
<1>1. /\ run.at = "deliver" /\ UNCHANGED <<task, issue>>
      /\ repo' = repo \/ repo' = [repo EXCEPT !.artifact = TRUE]
      /\ \/ /\ run' = [run EXCEPT !.at = "verdict", !.url = TRUE]
            /\ repo' = [repo EXCEPT !.artifact = TRUE]
         \/ run' = [run EXCEPT !.at = "verdict"]
      /\ \/ past' = [past EXCEPT !.shipped = TRUE]
         \/ past' = past
         \/ Session!Fails("s3Error")
  BY DEF Session!DeliverArtifact, Session!Shipped, Session!Step, Session!Fine
<1>2. /\ past'.cancelled = past.cancelled
      /\ past'.faults \in {past.faults, past.faults \cup {"s3Error"}}
  BY <1>1, FaultRemembered DEF SessionTyped, PastType
<1>. QED  BY <1>1, <1>2 DEF SessionTyped, RunType, RepoType, RunKeeps

\* The verdict is kept, and changes nothing else.
LEMMA VerdictMoves ==
  ASSUME SessionTyped, Session!Verdict
  PROVE  /\ run.at = "verdict" /\ UNCHANGED <<task, repo, issue, past>>
         /\ run'.at = IF run.workflow = "web-research" THEN "upload" ELSE "react"
         /\ run'.reason = "none" /\ ~run.needs_input =>
              Session!Delivered(Session!Resolved) = "none"
         /\ run'.workflow = run.workflow /\ run'.linear = run.linear
         /\ run'.build_before = run.build_before /\ run'.agent = run.agent
         /\ run'.needs_input = run.needs_input /\ run'.build = run.build /\ run'.url = run.url
         /\ run'.uploaded = run.uploaded /\ run'.crashed = run.crashed
<1>. DEFINE s == IF Session!RequiresRepo(run.workflow) THEN "react" ELSE "upload"
            r == IF run.needs_input THEN "none" ELSE Session!Delivered(Session!Resolved)
<1>1. /\ run.at = "verdict" /\ run' = [run EXCEPT !.at = s, !.reason = r]
      /\ UNCHANGED <<task, repo, issue, past>>
  BY DEF Session!Verdict
<1>2. /\ s = IF run.workflow = "web-research" THEN "upload" ELSE "react"
      /\ r = "none" /\ ~run.needs_input => Session!Delivered(Session!Resolved) = "none"
  BY DEF Session!RequiresRepo
<1>. HIDE DEF s, r
<1>. QED  BY <1>1, <1>2 DEF SessionTyped, RunType

\* A success that the verdict reaches is earned.
LEMMA VerdictEarned ==
  ASSUME SessionTyped, Delivers, Session!Delivered(Session!Resolved) = "none"
  PROVE  Earned
<1>1. /\ Session!Resolved = "none"
      /\ run.url \/ Session!is_pr_workflow(run.workflow)
  BY DEF SessionTyped, RunType, Session!Resolved, Session!Delivered
<1>2. /\ run.agent = "success" /\ run.build # "infra"
      /\ Session!BuildOk
  BY <1>1 DEF SessionTyped, RunType, Session!Resolved
<1>3. run.build # "passed" => Session!ReadOnly(run.workflow) \/ ~run.build_before
  BY <1>2 DEF Session!BuildOk, Session!GatePassed, Session!VerifyGate, Session!ReadOnly
<1>4. /\ run.workflow = "new-task" => repo.pr /\ repo.remote > 0
      /\ run.workflow = "web-research" => repo.artifact
  BY <1>1 DEF Delivers, Session!is_pr_workflow
<1>. QED  BY <1>2, <1>3, <1>4 DEF Earned

\* A terminal write takes effect on a task that lives; nobody hears of one that is lost.
LEMMA TerminalMoves ==
  ASSUME SessionTyped, NEW from, NEW rec, NEW traced \in BOOLEAN, NEW to \in RunSteps,
         Session!WriteTerminal(from, rec, traced, to)
  PROVE  /\ run.at = from /\ RunKeeps /\ PastKeeps("lost")
         /\ run'.url = run.url /\ run'.uploaded = run.uploaded /\ UNCHANGED <<repo, issue>>
         /\ \/ task' = IF Session!Live THEN rec ELSE task
            \/ /\ task' = task /\ "lost" \in past'.faults /\ "lost" \notin past.faults
         /\ \/ run'.at = "heal" /\ ~Session!Live /\ traced
            \/ run'.at = to /\ (Session!Live \/ ~traced \/ "lost" \in past'.faults)
<1>1. /\ run.at = from /\ UNCHANGED <<repo, issue>>
      /\ \/ task' = (IF Session!Live THEN rec ELSE task) /\ past' = past
         \/ task' = task /\ Session!Fails("lost")
      /\ run' = [run EXCEPT !.at = IF ~Session!Live /\ traced /\ past' = past THEN "heal" ELSE to]
  BY DEF Session!WriteTerminal, Session!Written, Session!Fine
<1>2. \/ run' = [run EXCEPT !.at = "heal"] /\ ~Session!Live /\ traced
      \/ run' = [run EXCEPT !.at = to] /\ (Session!Live \/ ~traced \/ past' # past)
  BY <1>1
<1>3. /\ PastKeeps("lost")
      /\ Session!Fails("lost") => "lost" \in past'.faults /\ "lost" \notin past.faults
  BY <1>1, FaultRemembered DEF PastKeeps
<1>. QED  BY <1>1, <1>2, <1>3 DEF SessionTyped, RunType, RunKeeps

\* What the end of a run writes
LEMMA EndRunMoves ==
  ASSUME SessionTyped, Session!EndRun
  PROVE  \E rec :
           /\ Session!WriteTerminal("terminal", rec, run.uploaded, "over")
           /\ rec.status = (IF run.reason = "none" THEN "COMPLETED" ELSE "FAILED")
           /\ rec.trace = run.uploaded
           /\ Session!is_pr_workflow(run.workflow) /\ ~run.needs_input /\ ~rec.changed =>
                repo.head = 0
<1>. DEFINE change == ~run.needs_input
                        /\ (Session!is_pr_workflow(run.workflow) => repo.head > 0)
            rec ==
       [task EXCEPT !.status = IF run.reason = "none" THEN "COMPLETED" ELSE "FAILED",
          !.pr = run.url, !.trace = run.uploaded, !.changed = change]
<1>1. Session!WriteTerminal("terminal", rec, run.uploaded, "over")
  BY DEF Session!EndRun
<1>2. Session!is_pr_workflow(run.workflow) /\ ~run.needs_input /\ ~change => repo.head = 0
  BY DEF SessionTyped, RepoType
<1>. HIDE DEF change
<1>3. /\ rec.status = (IF run.reason = "none" THEN "COMPLETED" ELSE "FAILED")
      /\ rec.trace = run.uploaded /\ rec.changed = change
  BY DEF SessionTyped, TaskType
<1>. HIDE DEF rec
<1>. QED  BY <1>1, <1>2, <1>3

\* What the handler of a raised step writes
LEMMA RecordCrashMoves ==
  ASSUME SessionTyped, Session!RecordCrash
  PROVE  \E rec :
           /\ Session!WriteTerminal("crash_write", rec, run.uploaded, "crash_react")
           /\ rec.status = "FAILED" /\ rec.trace = run.uploaded
<1>. DEFINE rec == [Session!Failed EXCEPT !.trace = run.uploaded]
<1>1. Session!WriteTerminal("crash_write", rec, run.uploaded, "crash_react")
  BY DEF Session!RecordCrash
<1>2. rec.status = "FAILED" /\ rec.trace = run.uploaded
  BY DEF SessionTyped, TaskType, Session!Failed
<1>. HIDE DEF rec
<1>. QED  BY <1>1, <1>2

\* Where Linear answers, the sweep takes away all it has listed.
LEMMA SweepMoves ==
  ASSUME SessionTyped, Session!SweepLists \/ Session!SweepDeletes
  PROVE  /\ UNCHANGED <<task, run, repo>> /\ PastKeeps("linearError")
         /\ issue'.marks \subseteq issue.marks
         /\ "linearError" \notin past'.faults =>
              \/ issue'.sweep = "delete" /\ issue'.found = issue.marks \ {"eyes"}
              \/ /\ issue.sweep = "delete" /\ issue'.sweep = "done"
                 /\ issue'.marks = issue.marks \ issue.found
<1>1. PastKeeps("linearError") /\ UNCHANGED <<task, run, repo>>
      /\ (Session!Fails("linearError") => "linearError" \in past'.faults)
  BY FaultRemembered DEF PastKeeps, Session!SweepLists, Session!SweepDeletes, Session!Sweeps,
     Session!Fine
<1>2. CASE Session!SweepLists
  <2>1. \/ /\ issue' = [issue EXCEPT !.sweep = "delete", !.found = issue.marks \ {"eyes"}]
        \/ issue' = [issue EXCEPT !.sweep = "done"] /\ Session!Fails("linearError")
    BY <1>2 DEF Session!SweepLists, Session!Sweeps
  <2>. QED  BY <1>1, <2>1 DEF SessionTyped, IssueType
<1>3. CASE Session!SweepDeletes
  <2>1. ASSUME NEW marks
        PROVE  LET i == Session!Forgotten([issue EXCEPT !.marks = marks])
               IN  i.marks = marks /\ i.sweep = "done"
    BY DEF Session!Forgotten, SessionTyped, IssueType
  <2>2. CASE /\ issue.sweep = "delete"
             /\ issue' = Session!Forgotten([issue EXCEPT !.marks = issue.marks \ issue.found])
    BY <1>1, <2>1, <2>2
  <2>3. CASE /\ Session!Fails("linearError")
             /\ \E m \in issue.found :
                  issue' = Session!Forgotten(
                             [issue EXCEPT !.marks = issue.marks \ (issue.found \ {m})])
    BY <1>1, <2>1, <2>3
  <2>. QED  BY <1>3, <2>2, <2>3 DEF Session!SweepDeletes, Session!Sweeps
<1>. QED  BY <1>2, <1>3

\* The three uploads of the trace
LEMMA TraceMoves ==
  ASSUME SessionTyped,
         \/ Session!UploadTrace \/ Session!UploadTraceOfCancelled \/ Session!UploadTraceOfCrashed
  PROVE  /\ RunKeeps /\ run'.url = run.url /\ PastKeeps("s3Error")
         /\ UNCHANGED <<task, repo, issue>>
         /\ \/ run.at = "upload" /\ run'.at = "head"
            \/ run.at = "cancel_upload" /\ run'.at = "heal"
            \/ run.at = "cancel_upload" /\ run'.at = "over" /\ (run'.uploaded => run.uploaded)
            \/ run.at = "crash_upload" /\ run'.at = "crash_write"
<1>1. CASE Session!Uploads("upload", "head", "head")
  BY <1>1, UploadMoves DEF RunSteps
<1>2. CASE Session!Uploads("cancel_upload", "heal", "over")
  BY <1>2, UploadMoves DEF RunSteps
<1>3. CASE Session!Uploads("crash_upload", "crash_write", "crash_write")
  BY <1>3, UploadMoves DEF RunSteps, CrashSteps
<1>. QED  BY <1>1, <1>2, <1>3 DEF Session!UploadTrace, Session!UploadTraceOfCancelled,
          Session!UploadTraceOfCrashed

\* What the record and the run are after the terminal write
LEMMA EndMoves ==
  ASSUME SessionTyped, Session!EndRun
  PROVE  /\ run.at = "terminal" /\ RunKeeps /\ PastKeeps("lost")
         /\ run'.url = run.url /\ run'.uploaded = run.uploaded /\ UNCHANGED <<repo, issue>>
         /\ \/ /\ Session!Live /\ task'.trace = run.uploaded
               /\ task'.status = (IF run.reason = "none" THEN "COMPLETED" ELSE "FAILED")
               /\ Session!is_pr_workflow(run.workflow) /\ ~run.needs_input /\ ~task'.changed =>
                    repo.head = 0
            \/ task' = task /\ (~Session!Live \/ "lost" \in past'.faults)
         /\ \/ run'.at = "heal" /\ ~Session!Live
            \/ run'.at = "over" /\ (Session!Live \/ ~run.uploaded \/ "lost" \in past'.faults)
<1>1. PICK rec :
        /\ Session!WriteTerminal("terminal", rec, run.uploaded, "over")
        /\ rec.status = (IF run.reason = "none" THEN "COMPLETED" ELSE "FAILED")
        /\ rec.trace = run.uploaded
        /\ Session!is_pr_workflow(run.workflow) /\ ~run.needs_input /\ ~rec.changed =>
             repo.head = 0
  BY EndRunMoves
<1>2. run.uploaded \in BOOLEAN /\ "over" \in RunSteps
  BY DEF SessionTyped, RunType, RunSteps
<1>3. /\ run.at = "terminal" /\ RunKeeps /\ PastKeeps("lost")
      /\ run'.url = run.url /\ run'.uploaded = run.uploaded /\ UNCHANGED <<repo, issue>>
      /\ \/ task' = IF Session!Live THEN rec ELSE task
         \/ /\ task' = task /\ "lost" \in past'.faults /\ "lost" \notin past.faults
      /\ \/ run'.at = "heal" /\ ~Session!Live /\ run.uploaded
         \/ run'.at = "over" /\ (Session!Live \/ ~run.uploaded \/ "lost" \in past'.faults)
  BY <1>1, <1>2, TerminalMoves
<1>. QED  BY <1>1, <1>3

\* The handler of a raised step writes, and the thread once more.
LEMMA CrashMoves ==
  ASSUME SessionTyped, Session!RecordCrash \/ Session!RecordCrashAgain
  PROVE  /\ RunKeeps /\ PastKeeps("lost")
         /\ run'.url = run.url /\ run'.uploaded = run.uploaded /\ UNCHANGED <<repo, issue>>
         /\ \/ Session!Live /\ task'.status = "FAILED"
            \/ task' = task /\ ~Session!Live
            \/ task' = task /\ "lost" \in past'.faults /\ "lost" \notin past.faults
         /\ \/ /\ run.at = "crash_write" /\ (task'.trace = run.uploaded \/ task' = task)
               /\ \/ run'.at = "heal" /\ ~Session!Live
                  \/ /\ run'.at = "crash_react"
                     /\ \/ Session!Live /\ task'.trace = run.uploaded
                        \/ ~run.uploaded \/ "lost" \in past'.faults
            \/ run.at = "backup" /\ run'.at = "over" /\ task'.trace = task.trace
<1>1. CASE Session!RecordCrash
  <2>1. PICK rec :
          /\ Session!WriteTerminal("crash_write", rec, run.uploaded, "crash_react")
          /\ rec.status = "FAILED" /\ rec.trace = run.uploaded
    BY <1>1, RecordCrashMoves
  <2>2. run.uploaded \in BOOLEAN /\ "crash_react" \in RunSteps
    BY DEF SessionTyped, RunType, RunSteps, CrashSteps
  <2>3. /\ run.at = "crash_write" /\ RunKeeps /\ PastKeeps("lost")
        /\ run'.url = run.url /\ run'.uploaded = run.uploaded /\ UNCHANGED <<repo, issue>>
        /\ \/ task' = IF Session!Live THEN rec ELSE task
           \/ /\ task' = task /\ "lost" \in past'.faults /\ "lost" \notin past.faults
        /\ \/ run'.at = "heal" /\ ~Session!Live /\ run.uploaded
           \/ /\ run'.at = "crash_react"
              /\ Session!Live \/ ~run.uploaded \/ "lost" \in past'.faults
    BY <2>1, <2>2, TerminalMoves
  <2>. QED  BY <2>1, <2>3
<1>2. CASE Session!RecordCrashAgain
  <2>1. Session!WriteTerminal("backup", Session!Failed, FALSE, "over")
    BY <1>2 DEF Session!RecordCrashAgain
  <2>2. Session!Failed.status = "FAILED" /\ Session!Failed.trace = task.trace
    BY DEF SessionTyped, TaskType, Session!Failed
  <2>3. /\ run.at = "backup" /\ RunKeeps /\ PastKeeps("lost")
        /\ run'.url = run.url /\ run'.uploaded = run.uploaded /\ UNCHANGED <<repo, issue>>
        /\ \/ task' = IF Session!Live THEN Session!Failed ELSE task
           \/ /\ task' = task /\ "lost" \in past'.faults /\ "lost" \notin past.faults
        /\ run'.at = "over"
    BY <2>1, TerminalMoves DEF RunSteps
  <2>. QED  BY <2>2, <2>3
<1>. QED  BY <1>1, <1>2
\* Git leaves the three in order, whatever it does, or fails to.
LEMMA BranchStep ==
  ASSUME SessionTyped, BranchesKept, Session!Next
  PROVE  BranchesKept'
<1>1. CASE \/ Session!Boot \/ Session!write_running \/ Session!Hydrate
           \/ Session!react_task_started \/ Session!SetupRepo \/ Session!CompareHead
           \/ Session!Recheck
  BY <1>1 DEF BranchesKept, Session!Boot, Session!write_running, Session!Hydrate,
     Session!react_task_started, Session!SetupRepo, Session!CompareHead, Session!Recheck
<1>2. CASE \/ Session!NothingToCommit \/ Session!verify_build \/ Session!ResolvePr
           \/ Session!FindPr \/ Session!HealTrace \/ Session!Raise \/ Session!AgentEnds
  BY <1>2 DEF BranchesKept, Session!NothingToCommit, Session!verify_build, Session!ResolvePr,
     Session!FindPr, Session!HealTrace, Session!Raise, Session!AgentEnds
<1>3. CASE Session!CommitWork
  BY <1>3, SavedForms DEF Session!CommitWork
<1>4. CASE Session!PushForPr \/ Session!PushNewWork
  BY <1>4 DEF SessionTyped, RepoType, BranchesKept, Session!PushForPr, Session!PushNewWork,
     Session!PushBranch
<1>5. CASE Session!CreatePr
  BY <1>5, CreateMoves DEF BranchesKept
<1>6. CASE Session!DeliverArtifact
  BY <1>6, DeliverMoves DEF BranchesKept
<1>7. CASE Session!Verdict
  BY <1>7, VerdictMoves DEF BranchesKept
<1>8. CASE Session!react_task_finished \/ Session!ReactToCrash
  BY <1>8 DEF BranchesKept, Session!react_task_finished, Session!Reacts, Session!ReactToCrash
<1>9. CASE Session!UploadTrace \/ Session!UploadTraceOfCancelled \/ Session!UploadTraceOfCrashed
  BY <1>9, TraceMoves DEF BranchesKept
<1>10. CASE Session!EndRun
  BY <1>10, EndMoves DEF BranchesKept
<1>11. CASE Session!RecordCrash \/ Session!RecordCrashAgain
  BY <1>11, CrashMoves DEF BranchesKept
<1>12. CASE \/ Session!AgentEdits \/ Session!AgentLeavesBranch \/ Session!AgentPushes
            \/ Session!AgentOpensPr
  BY <1>12 DEF SessionTyped, RepoType, BranchesKept, Session!AgentEdits,
     Session!AgentLeavesBranch, Session!AgentPushes, Session!AgentOpensPr, Session!InRepo
<1>13. CASE Session!AgentCommits
  <2>1. repo \in RepoType /\ repo' = Session!Committed(repo)
    BY <1>13 DEF SessionTyped, Session!AgentCommits, Session!InRepo
  <2>2. /\ repo'.head = repo.head + 1 /\ repo'.on_branch = repo.on_branch
        /\ repo'.branch = (IF repo.on_branch THEN repo.branch + 1 ELSE repo.branch)
        /\ repo'.remote = repo.remote
    BY <2>1, CloneForms
  <2>3. repo.head \in Nat /\ repo.branch \in Nat /\ repo.remote \in Nat
    BY <2>1 DEF RepoType
  <2>. QED  BY <2>2, <2>3 DEF BranchesKept
<1>14. CASE Session!SweepLists \/ Session!SweepDeletes
  BY <1>14, SweepMoves DEF RunKeeps, BranchesKept
<1>15. CASE Session!OrchestratorRuns \/ Session!GiveUp \/ Session!Cancel
  BY <1>15 DEF BranchesKept, Session!OrchestratorRuns, Session!GiveUp, Session!Cancel
<1>. QED  BY <1>1, <1>2, <1>3, <1>4, <1>5, <1>6, <1>7, <1>8, <1>9, <1>10, <1>11, <1>12, <1>13,
          <1>14, <1>15 DEF Session!Next, Session!Agent, Session!Pipeline

\* A step leads where its workflow goes.
LEMMA PlacedStep ==
  ASSUME SessionTyped, Placed, Session!Next
  PROVE  Placed'
<1>1. CASE \/ Session!Boot \/ Session!write_running \/ Session!react_task_started
           \/ Session!SetupRepo \/ Session!CompareHead
  BY <1>1, RunMoves DEF RunSteps, EarlySteps, Placed, Session!Boot, Session!write_running,
     Session!react_task_started, Session!SetupRepo, Session!CompareHead
<1>2. CASE Session!Hydrate
  BY <1>2, RunMoves DEF RunSteps, EarlySteps, Placed, Session!RequiresRepo, Session!Hydrate
<1>3. CASE Session!Recheck \/ Session!CommitWork
  BY <1>3, RunMoves DEF RunSteps, Placed, Session!Recheck, Session!CommitWork
<1>4. CASE Session!NothingToCommit
  BY <1>4 DEF Placed, Session!NothingToCommit
<1>5. CASE Session!verify_build
  BY <1>5 DEF Placed, Session!verify_build
<1>6. CASE Session!PushForPr \/ Session!PushNewWork
  BY <1>6, RunMoves DEF RunSteps, Placed, Session!PushForPr, Session!PushNewWork,
     Session!ensure_pr_strategy
<1>7. CASE Session!ResolvePr
  BY <1>7 DEF Placed, Session!ResolvePr
<1>8. CASE Session!FindPr
  BY <1>8 DEF SessionTyped, RunType, Placed, Session!FindPr, Session!ensure_pr_strategy
<1>9. CASE Session!CreatePr
  BY <1>9, CreateMoves DEF RunKeeps, Placed
<1>10. CASE Session!DeliverArtifact
  BY <1>10, DeliverMoves DEF RunKeeps, PastKeeps, Placed
<1>11. CASE Session!Verdict
  BY <1>11, VerdictMoves DEF Placed
<1>12. CASE Session!react_task_finished
  BY <1>12 DEF Placed, Session!react_task_finished, Session!Reacts
<1>13. CASE Session!UploadTrace \/ Session!UploadTraceOfCancelled \/ Session!UploadTraceOfCrashed
  BY <1>13, TraceMoves DEF RunKeeps, Placed
<1>14. CASE Session!EndRun
  BY <1>14, EndMoves DEF RunKeeps, Placed
<1>15. CASE Session!HealTrace
  BY <1>15, RunMoves DEF RunSteps, CrashSteps, Placed, Session!HealTrace
<1>16. CASE Session!Raise
  BY <1>16 DEF Placed, Session!Raise
<1>17. CASE Session!RecordCrash \/ Session!RecordCrashAgain
  BY <1>17, CrashMoves DEF RunKeeps, Placed
<1>18. CASE Session!ReactToCrash
  BY <1>18 DEF Placed, Session!ReactToCrash, Session!Reacts
<1>19. CASE Session!AgentEnds
  BY <1>19 DEF SessionTyped, RunType, Placed, Session!RequiresRepo, Session!AgentEnds
<1>20. CASE \/ Session!AgentEdits \/ Session!AgentLeavesBranch \/ Session!AgentPushes
            \/ Session!AgentOpensPr \/ Session!AgentCommits
  BY <1>20 DEF Placed, Session!AgentEdits, Session!AgentLeavesBranch, Session!AgentPushes,
     Session!AgentOpensPr, Session!InRepo, Session!AgentCommits
<1>21. CASE Session!SweepLists \/ Session!SweepDeletes
  BY <1>21, SweepMoves DEF RunKeeps, Placed
<1>22. CASE Session!OrchestratorRuns \/ Session!GiveUp \/ Session!Cancel
  BY <1>22 DEF Placed, Session!OrchestratorRuns, Session!GiveUp, Session!Cancel
<1>. QED  BY <1>1, <1>2, <1>3, <1>4, <1>5, <1>6, <1>7, <1>8, <1>9, <1>10, <1>11, <1>12, <1>13,
          <1>14, <1>15, <1>16, <1>17, <1>18, <1>19, <1>20, <1>21, <1>22 DEF Session!Next,
          Session!Agent, Session!Pipeline

\* A pull request is opened, and reported, for what was pushed.
LEMMA DeliversStep ==
  ASSUME SessionTyped, BranchesKept, Placed, Delivers, Session!Next
  PROVE  Delivers'
<1>1. CASE \/ Session!Boot \/ Session!write_running \/ Session!Hydrate
           \/ Session!react_task_started \/ Session!SetupRepo \/ Session!CompareHead
  BY <1>1, RunMoves DEF RunSteps, EarlySteps, Delivers, Session!Boot, Session!write_running,
     Session!Hydrate, Session!react_task_started, Session!SetupRepo, Session!CompareHead
<1>2. CASE Session!Recheck
  BY <1>2, RunMoves DEF RunSteps, Delivers, Session!Recheck
<1>3. CASE Session!NothingToCommit
  BY <1>3 DEF Delivers, Session!NothingToCommit
<1>4. CASE Session!CommitWork
  BY <1>4, RunMoves, SavedForms DEF RunSteps, Delivers, Session!CommitWork
<1>5. CASE Session!verify_build
  BY <1>5 DEF Delivers, Session!verify_build
<1>6. CASE Session!PushForPr \/ Session!PushNewWork
  BY <1>6, RunMoves DEF SessionTyped, RepoType, RunSteps, Delivers, BranchesKept,
     Session!PushForPr, Session!PushNewWork, Session!PushBranch
<1>7. CASE Session!ResolvePr
  BY <1>7 DEF Delivers, Placed, Session!ResolvePr, Session!ensure_pr_strategy
<1>8. CASE Session!FindPr
  BY <1>8 DEF Delivers, Placed, Session!FindPr, Session!LookedUp
<1>9. CASE Session!CreatePr
  BY <1>9, CreateMoves DEF RunKeeps, Delivers, Placed
<1>10. CASE Session!DeliverArtifact
  BY <1>10, DeliverMoves DEF RunKeeps, PastKeeps, Delivers, Placed
<1>11. CASE Session!Verdict
  BY <1>11, VerdictMoves DEF Delivers
<1>12. CASE Session!react_task_finished
  BY <1>12 DEF Delivers, Session!react_task_finished, Session!Reacts
<1>13. CASE Session!UploadTrace \/ Session!UploadTraceOfCancelled \/ Session!UploadTraceOfCrashed
  BY <1>13, TraceMoves DEF RunKeeps, Delivers
<1>14. CASE Session!EndRun
  BY <1>14, EndMoves DEF RunKeeps, Delivers
<1>15. CASE Session!HealTrace
  BY <1>15, RunMoves DEF RunSteps, CrashSteps, Delivers, Session!HealTrace
<1>16. CASE Session!Raise
  BY <1>16 DEF Delivers, Session!Raise
<1>17. CASE Session!RecordCrash \/ Session!RecordCrashAgain
  BY <1>17, CrashMoves DEF RunKeeps, Delivers
<1>18. CASE Session!ReactToCrash
  BY <1>18 DEF Delivers, Session!ReactToCrash, Session!Reacts
<1>19. CASE Session!AgentEnds
  BY <1>19 DEF Delivers, Session!AgentEnds
<1>20. CASE \/ Session!AgentEdits \/ Session!AgentLeavesBranch \/ Session!AgentPushes
            \/ Session!AgentOpensPr
  BY <1>20 DEF SessionTyped, RepoType, Delivers, BranchesKept, Session!AgentEdits,
     Session!AgentLeavesBranch, Session!AgentPushes, Session!AgentOpensPr, Session!InRepo
<1>21. CASE Session!AgentCommits
  BY <1>21, CloneForms DEF SessionTyped, Delivers, Session!AgentCommits, Session!InRepo
<1>22. CASE Session!SweepLists \/ Session!SweepDeletes
  BY <1>22, SweepMoves DEF RunKeeps, Delivers
<1>23. CASE Session!OrchestratorRuns \/ Session!GiveUp \/ Session!Cancel
  BY <1>23 DEF Delivers, Session!OrchestratorRuns, Session!GiveUp, Session!Cancel
<1>. QED  BY <1>1, <1>2, <1>3, <1>4, <1>5, <1>6, <1>7, <1>8, <1>9, <1>10, <1>11, <1>12, <1>13,
          <1>14, <1>15, <1>16, <1>17, <1>18, <1>19, <1>20, <1>21, <1>22, <1>23 DEF Session!Next,
          Session!Agent, Session!Pipeline

\* The verdict is earned when it is reached, and stays so until it is written.
LEMMA VerdictStep ==
  ASSUME SessionTyped, BranchesKept, Placed, Delivers, VerdictTrue, Session!Next
  PROVE  VerdictTrue'
<1>1. CASE Session!Boot \/ Session!Hydrate \/ Session!react_task_started
  BY <1>1, RunMoves DEF RunSteps, EarlySteps, VerdictTrue, Session!Boot, Session!Hydrate,
     Session!react_task_started
<1>2. CASE Session!write_running
  BY <1>2, RunMoves DEF SessionTyped, TaskType, RunSteps, EarlySteps, VerdictTrue,
     Session!write_running, Session!Written
<1>3. CASE Session!SetupRepo \/ Session!CompareHead
  BY <1>3, RunMoves DEF RunSteps, EarlySteps, VerdictTrue, Earned, Session!SetupRepo,
     Session!CompareHead
<1>4. CASE Session!Recheck \/ Session!CommitWork \/ Session!PushForPr \/ Session!PushNewWork
  BY <1>4, RunMoves DEF RunSteps, VerdictTrue, Session!Recheck, Session!CommitWork,
     Session!PushForPr, Session!PushNewWork
<1>5. CASE Session!NothingToCommit
  BY <1>5 DEF VerdictTrue, Session!NothingToCommit
<1>6. CASE Session!verify_build
  BY <1>6 DEF VerdictTrue, Session!verify_build
<1>7. CASE Session!ResolvePr
  BY <1>7 DEF VerdictTrue, Session!ResolvePr
<1>8. CASE Session!FindPr
  BY <1>8 DEF VerdictTrue, Session!FindPr
<1>9. CASE Session!CreatePr
  BY <1>9, CreateMoves DEF VerdictTrue
<1>10. CASE Session!DeliverArtifact
  BY <1>10, DeliverMoves DEF VerdictTrue
<1>11. CASE Session!Verdict
  BY <1>11, VerdictMoves, VerdictEarned DEF RunKeeps, PastKeeps, VerdictTrue, Earned
<1>12. CASE Session!react_task_finished
  BY <1>12 DEF VerdictTrue, Earned, Session!react_task_finished, Session!Reacts
<1>13. CASE Session!UploadTrace \/ Session!UploadTraceOfCancelled \/ Session!UploadTraceOfCrashed
  BY <1>13, TraceMoves DEF RunKeeps, VerdictTrue, Earned
<1>14. CASE Session!EndRun
  <2>1. /\ run.at = "terminal" /\ repo' = repo /\ run'.at \in {"heal", "over"}
        /\ run'.workflow = run.workflow /\ run'.build_before = run.build_before
        /\ run'.agent = run.agent /\ run'.needs_input = run.needs_input
        /\ run'.build = run.build /\ run'.reason = run.reason
    BY <1>14, EndMoves DEF RunKeeps
  <2>2. Earned => Earned'
    BY <2>1 DEF Earned
  <2>3. CASE task' = task
    <3>1. task.status # "COMPLETED"
  BY <2>1 DEF VerdictTrue
    <3>. QED  BY <2>1, <2>3, <3>1 DEF VerdictTrue
  <2>4. CASE /\ Session!Live
             /\ task'.status = (IF run.reason = "none" THEN "COMPLETED" ELSE "FAILED")
             /\ Session!is_pr_workflow(run.workflow) /\ ~run.needs_input /\ ~task'.changed =>
                  repo.head = 0
    <3>1. repo.head = 0 => repo.remote = 0
  BY DEF SessionTyped, RepoType, BranchesKept
    <3>2. Session!is_pr_workflow(run.workflow) => ~run.needs_input
  BY DEF Placed
    <3>3. run'.at = "over"
  BY <1>14, <2>4, EndMoves
    <3>. QED  BY <2>1, <2>2, <2>4, <3>1, <3>2, <3>3 DEF VerdictTrue
  <2>. QED  BY <1>14, <2>3, <2>4, EndMoves
<1>15. CASE Session!HealTrace
  BY <1>15, RunMoves DEF SessionTyped, TaskType, RunSteps, CrashSteps, VerdictTrue,
     Session!HealTrace, Session!Written
<1>16. CASE Session!Raise
  BY <1>16 DEF VerdictTrue, Session!Raise
<1>17. CASE Session!RecordCrash \/ Session!RecordCrashAgain
  BY <1>17, CrashMoves DEF VerdictTrue
<1>18. CASE Session!ReactToCrash
  BY <1>18 DEF VerdictTrue, Session!ReactToCrash, Session!Reacts
<1>19. CASE Session!AgentEnds
  BY <1>19 DEF VerdictTrue, Session!AgentEnds
<1>20. CASE \/ Session!AgentEdits \/ Session!AgentLeavesBranch \/ Session!AgentPushes
            \/ Session!AgentOpensPr \/ Session!AgentCommits
  BY <1>20 DEF VerdictTrue, Session!AgentEdits, Session!AgentLeavesBranch, Session!AgentPushes,
     Session!AgentOpensPr, Session!InRepo, Session!Working, Session!AgentCommits
<1>21. CASE Session!SweepLists \/ Session!SweepDeletes
  BY <1>21, SweepMoves DEF RunKeeps, VerdictTrue, Earned
<1>22. CASE Session!OrchestratorRuns \/ Session!GiveUp
  BY <1>22 DEF SessionTyped, TaskType, VerdictTrue, Earned, Session!OrchestratorRuns,
     Session!GiveUp
<1>23. CASE Session!Cancel
  BY <1>23 DEF VerdictTrue, Earned, Session!Cancel
<1>. QED  BY <1>1, <1>2, <1>3, <1>4, <1>5, <1>6, <1>7, <1>8, <1>9, <1>10, <1>11, <1>12, <1>13,
          <1>14, <1>15, <1>16, <1>17, <1>18, <1>19, <1>20, <1>21, <1>22, <1>23 DEF Session!Next,
          Session!Agent, Session!Pipeline

\* The re-check is the only way from the early steps to the post-hooks.
LEMMA StoppedStep ==
  ASSUME SessionTyped, Placed, Stopped, Session!Next
  PROVE  Stopped'
<1>1. CASE Session!Boot \/ Session!Hydrate
  BY <1>1, RunMoves DEF RunSteps, EarlySteps, Stopped, Session!Boot, Session!Hydrate
<1>2. CASE Session!write_running
  BY <1>2, RunMoves, FaultRemembered DEF SessionTyped, TaskType, RunSteps, EarlySteps, Stopped,
     Session!write_running, Session!Written, Session!Fine
<1>3. CASE Session!react_task_started
  BY <1>3, RunMoves, FaultRemembered DEF RunSteps, EarlySteps, Stopped,
     Session!react_task_started, Session!Fine
<1>4. CASE Session!SetupRepo \/ Session!CompareHead
  BY <1>4, RunMoves DEF RunSteps, EarlySteps, CrashSteps, Stopped, Session!SetupRepo,
     Session!CompareHead
<1>5. CASE Session!Recheck
  BY <1>5, RunMoves, FaultRemembered DEF RunSteps, EarlySteps, Stopped, Session!Recheck,
     Session!Fine
<1>6. CASE Session!NothingToCommit
  BY <1>6 DEF EarlySteps, CrashSteps, Stopped, Session!NothingToCommit
<1>7. CASE Session!CommitWork
  BY <1>7, RunMoves, FaultRemembered DEF RunSteps, EarlySteps, CrashSteps, Stopped,
     Session!CommitWork, Session!Fine
<1>8. CASE Session!verify_build
  BY <1>8 DEF EarlySteps, CrashSteps, Stopped, Session!verify_build
<1>9. CASE Session!PushForPr \/ Session!PushNewWork
  BY <1>9, RunMoves, FaultRemembered DEF SessionTyped, PastType, RunSteps, EarlySteps,
     CrashSteps, Stopped, Session!PushForPr, Session!PushNewWork, Session!PushBranch,
     Session!Shipped
<1>10. CASE Session!ResolvePr
  BY <1>10, FaultRemembered DEF EarlySteps, CrashSteps, Stopped, Session!ResolvePr,
     Session!LookedUp, Session!Fine
<1>11. CASE Session!FindPr
  BY <1>11, FaultRemembered DEF EarlySteps, CrashSteps, Stopped, Session!FindPr,
     Session!LookedUp, Session!Fine
<1>12. CASE Session!CreatePr
  BY <1>12, CreateMoves DEF PastKeeps, EarlySteps, CrashSteps, Stopped, Placed
<1>13. CASE Session!DeliverArtifact
  BY <1>13, DeliverMoves DEF RunKeeps, EarlySteps, Stopped, Placed
<1>14. CASE Session!Verdict
  BY <1>14, VerdictMoves DEF EarlySteps, CrashSteps, Stopped
<1>15. CASE Session!react_task_finished
  BY <1>15, FaultRemembered DEF EarlySteps, CrashSteps, Stopped, Session!react_task_finished,
     Session!Reacts, Session!Fine
<1>16. CASE Session!UploadTrace \/ Session!UploadTraceOfCancelled \/ Session!UploadTraceOfCrashed
  BY <1>16, TraceMoves DEF RunKeeps, PastKeeps, EarlySteps, CrashSteps, Stopped
<1>17. CASE Session!EndRun
  BY <1>17, EndMoves DEF RunKeeps, PastKeeps, EarlySteps, Stopped, Session!Live
<1>18. CASE Session!HealTrace
  BY <1>18, RunMoves, FaultRemembered DEF SessionTyped, TaskType, RunSteps, EarlySteps,
     CrashSteps, Stopped, Session!HealTrace, Session!Written, Session!Fine
<1>19. CASE Session!Raise
  BY <1>19 DEF EarlySteps, CrashSteps, Stopped, Session!Raise
<1>20. CASE Session!RecordCrash \/ Session!RecordCrashAgain
  BY <1>20, CrashMoves DEF RunKeeps, PastKeeps, EarlySteps, CrashSteps, Stopped, Session!Live
<1>21. CASE Session!ReactToCrash
  BY <1>21, FaultRemembered DEF EarlySteps, Stopped, Session!ReactToCrash, Session!Reacts,
     Session!Fine
<1>22. CASE Session!AgentEnds
  BY <1>22 DEF EarlySteps, Stopped, Session!AgentEnds, Session!RequiresRepo
<1>23. CASE \/ Session!AgentEdits \/ Session!AgentLeavesBranch \/ Session!AgentPushes
            \/ Session!AgentOpensPr \/ Session!AgentCommits
  BY <1>23 DEF Stopped, Session!AgentEdits, Session!AgentLeavesBranch, Session!AgentPushes,
     Session!AgentOpensPr, Session!InRepo, Session!AgentCommits
<1>24. CASE Session!SweepLists \/ Session!SweepDeletes
  BY <1>24, SweepMoves DEF PastKeeps, Stopped
<1>25. CASE Session!OrchestratorRuns \/ Session!GiveUp
  BY <1>25 DEF SessionTyped, TaskType, Stopped, Session!OrchestratorRuns, Session!GiveUp,
     Session!Live
<1>26. CASE Session!Cancel
  BY <1>26 DEF SessionTyped, TaskType, PastType, EarlySteps, Stopped, Session!Cancel, Session!Live
<1>. QED  BY <1>1, <1>2, <1>3, <1>4, <1>5, <1>6, <1>7, <1>8, <1>9, <1>10, <1>11, <1>12, <1>13,
          <1>14, <1>15, <1>16, <1>17, <1>18, <1>19, <1>20, <1>21, <1>22, <1>23, <1>24, <1>25,
          <1>26 DEF Session!Next, Session!Agent, Session!Pipeline

\* The trace is written with the terminal status, or after it.
LEMMA TracedStep ==
  ASSUME SessionTyped, Stopped, Traced, Session!Next
  PROVE  Traced'
<1>1. CASE \/ Session!Boot \/ Session!write_running \/ Session!Hydrate
           \/ Session!react_task_started \/ Session!SetupRepo \/ Session!CompareHead
  BY <1>1, RunMoves DEF RunSteps, EarlySteps, CrashSteps, Traced, Session!Boot,
     Session!write_running, Session!Hydrate, Session!react_task_started, Session!SetupRepo,
     Session!CompareHead
<1>2. CASE Session!Recheck \/ Session!CommitWork \/ Session!PushForPr \/ Session!PushNewWork
  BY <1>2, RunMoves DEF RunSteps, CrashSteps, Traced, Session!Recheck, Session!CommitWork,
     Session!PushForPr, Session!PushNewWork
<1>3. CASE Session!NothingToCommit
  BY <1>3 DEF CrashSteps, Traced, Session!NothingToCommit
<1>4. CASE Session!verify_build
  BY <1>4 DEF CrashSteps, Traced, Session!verify_build
<1>5. CASE Session!ResolvePr
  BY <1>5 DEF CrashSteps, Traced, Session!ResolvePr
<1>6. CASE Session!FindPr
  BY <1>6 DEF CrashSteps, Traced, Session!FindPr
<1>7. CASE Session!CreatePr
  BY <1>7, CreateMoves DEF CrashSteps, Traced
<1>8. CASE Session!DeliverArtifact
  BY <1>8, DeliverMoves DEF CrashSteps, Traced
<1>9. CASE Session!Verdict
  BY <1>9, VerdictMoves DEF CrashSteps, Traced
<1>10. CASE Session!react_task_finished
  BY <1>10 DEF CrashSteps, Traced, Session!react_task_finished, Session!Reacts
<1>11. CASE Session!UploadTrace \/ Session!UploadTraceOfCancelled \/ Session!UploadTraceOfCrashed
  BY <1>11, TraceMoves DEF CrashSteps, Traced, Stopped, Session!Live
<1>12. CASE Session!EndRun
  BY <1>12, EndMoves DEF Traced, Session!Live
<1>13. CASE Session!HealTrace
  BY <1>13, RunMoves, FaultRemembered DEF SessionTyped, TaskType, RunSteps, CrashSteps, Traced,
     Session!HealTrace, Session!Written
<1>14. CASE Session!Raise
  BY <1>14 DEF CrashSteps, Traced, Session!Raise
<1>15. CASE Session!RecordCrash \/ Session!RecordCrashAgain
  BY <1>15, CrashMoves DEF PastKeeps, CrashSteps, Traced, Session!Live
<1>16. CASE Session!ReactToCrash
  BY <1>16, FaultRemembered DEF Traced, Session!ReactToCrash, Session!Reacts, Session!Fine
<1>17. CASE Session!AgentEnds
  BY <1>17 DEF CrashSteps, Traced, Session!AgentEnds
<1>18. CASE \/ Session!AgentEdits \/ Session!AgentLeavesBranch \/ Session!AgentPushes
            \/ Session!AgentOpensPr \/ Session!AgentCommits
  BY <1>18 DEF Traced, Session!AgentEdits, Session!AgentLeavesBranch, Session!AgentPushes,
     Session!AgentOpensPr, Session!InRepo, Session!Working, Session!AgentCommits
<1>19. CASE Session!SweepLists \/ Session!SweepDeletes
  BY <1>19, SweepMoves DEF PastKeeps, Traced, Session!Live
<1>20. CASE Session!OrchestratorRuns \/ Session!GiveUp
  BY <1>20 DEF SessionTyped, TaskType, Traced, Session!Live, Session!OrchestratorRuns,
     Session!GiveUp
<1>21. CASE Session!Cancel
  BY <1>21 DEF Traced, Session!Cancel
<1>. QED  BY <1>1, <1>2, <1>3, <1>4, <1>5, <1>6, <1>7, <1>8, <1>9, <1>10, <1>11, <1>12, <1>13,
          <1>14, <1>15, <1>16, <1>17, <1>18, <1>19, <1>20, <1>21 DEF Session!Next, Session!Agent,
          Session!Pipeline

\* The crash is written twice, and one fault of each kind is all there is.
LEMMA CrashStep ==
  ASSUME SessionTyped, Stopped, Traced, CrashTold, Session!Next
  PROVE  CrashTold'
<1>1. CASE \/ Session!Boot \/ Session!write_running \/ Session!Hydrate
           \/ Session!react_task_started \/ Session!SetupRepo \/ Session!CompareHead
  BY <1>1, RunMoves DEF RunSteps, EarlySteps, CrashSteps, CrashTold, Session!Boot,
     Session!write_running, Session!Hydrate, Session!react_task_started, Session!SetupRepo,
     Session!CompareHead
<1>2. CASE Session!Recheck \/ Session!CommitWork \/ Session!PushForPr \/ Session!PushNewWork
  BY <1>2, RunMoves DEF RunSteps, CrashSteps, CrashTold, Session!Recheck, Session!CommitWork,
     Session!PushForPr, Session!PushNewWork
<1>3. CASE Session!NothingToCommit
  BY <1>3 DEF CrashSteps, CrashTold, Session!NothingToCommit
<1>4. CASE Session!verify_build
  BY <1>4 DEF CrashSteps, CrashTold, Session!verify_build
<1>5. CASE Session!ResolvePr
  BY <1>5 DEF CrashSteps, CrashTold, Session!ResolvePr
<1>6. CASE Session!FindPr
  BY <1>6 DEF CrashSteps, CrashTold, Session!FindPr
<1>7. CASE Session!CreatePr
  BY <1>7, CreateMoves DEF RunKeeps, CrashSteps, CrashTold
<1>8. CASE Session!DeliverArtifact
  BY <1>8, DeliverMoves DEF RunKeeps, PastKeeps, CrashSteps, CrashTold
<1>9. CASE Session!Verdict
  BY <1>9, VerdictMoves DEF CrashSteps, CrashTold
<1>10. CASE Session!react_task_finished
  BY <1>10 DEF CrashSteps, CrashTold, Session!react_task_finished, Session!Reacts
<1>11. CASE Session!UploadTrace \/ Session!UploadTraceOfCancelled \/ Session!UploadTraceOfCrashed
  BY <1>11, TraceMoves DEF RunKeeps, CrashSteps, CrashTold
<1>12. CASE Session!EndRun
  BY <1>12, EndMoves DEF RunKeeps, CrashSteps, CrashTold
<1>13. CASE Session!HealTrace
  BY <1>13, RunMoves DEF SessionTyped, TaskType, RunSteps, CrashSteps, CrashTold, Traced,
     Session!Live, Session!HealTrace, Session!Written
<1>14. CASE Session!Raise
  BY <1>14 DEF CrashSteps, CrashTold, Session!Raise
<1>15. CASE Session!RecordCrash \/ Session!RecordCrashAgain
  BY <1>15, CrashMoves DEF RunKeeps, CrashSteps, CrashTold, Session!Live
<1>16. CASE Session!ReactToCrash
  BY <1>16, FaultRemembered DEF CrashSteps, CrashTold, Session!Live, Session!ReactToCrash,
     Session!Reacts, Session!Fine
<1>17. CASE Session!AgentEnds
  BY <1>17 DEF CrashSteps, CrashTold, Session!AgentEnds
<1>18. CASE \/ Session!AgentEdits \/ Session!AgentLeavesBranch \/ Session!AgentPushes
            \/ Session!AgentOpensPr \/ Session!AgentCommits
  BY <1>18 DEF CrashTold, Session!AgentEdits, Session!AgentLeavesBranch, Session!AgentPushes,
     Session!AgentOpensPr, Session!InRepo, Session!Working, Session!AgentCommits
<1>19. CASE Session!SweepLists \/ Session!SweepDeletes
  BY <1>19, SweepMoves DEF PastKeeps, CrashTold, Session!Live
<1>20. CASE Session!OrchestratorRuns \/ Session!GiveUp
  BY <1>20 DEF CrashTold, Session!Live, Session!OrchestratorRuns, Session!GiveUp
<1>21. CASE Session!Cancel
  BY <1>21 DEF CrashTold, Session!Cancel
<1>. QED  BY <1>1, <1>2, <1>3, <1>4, <1>5, <1>6, <1>7, <1>8, <1>9, <1>10, <1>11, <1>12, <1>13,
          <1>14, <1>15, <1>16, <1>17, <1>18, <1>19, <1>20, <1>21 DEF Session!Next, Session!Agent,
          Session!Pipeline

\* The eyes come with the sweep and go before the trace.
LEMMA MarkersStep ==
  ASSUME SessionTyped, Placed, Stopped, CrashTold, MarkersSwept, Session!Next
  PROVE  MarkersSwept'
<1>1. CASE Session!Boot \/ Session!Hydrate \/ Session!SetupRepo \/ Session!CompareHead
  BY <1>1, RunMoves DEF RunSteps, EarlySteps, MarkersSwept, Session!Boot, Session!Hydrate,
     Session!SetupRepo, Session!CompareHead
<1>2. CASE Session!write_running
  BY <1>2, RunMoves, FaultRemembered DEF RunSteps, EarlySteps, MarkersSwept,
     Session!write_running, Session!Written, Session!Fine
<1>3. CASE Session!react_task_started
  <2>1. /\ Session!Step("ack", "setup") /\ (past' = past \/ Session!Fails("linearError"))
        /\ \/ issue' = issue
           \/ /\ issue' = [issue EXCEPT !.marks = issue.marks \cup {"eyes"}, !.sweep = "list"]
              /\ run.linear
    BY <1>3 DEF Session!react_task_started, Session!Fine
  <2>2. /\ run.at = "ack" /\ run'.at = "setup" /\ run'.linear = run.linear
        /\ run'.workflow = run.workflow
    BY <2>1, RunMoves DEF RunSteps, EarlySteps
  <2>3. run.workflow # "web-research"
    BY <2>2 DEF Placed
  <2>4. \/ issue' = issue
        \/ issue'.sweep = "list" /\ run.linear
    BY <2>1 DEF SessionTyped, IssueType
  <2>5. "linearError" \notin past'.faults => past' = past
    BY <2>1, FaultRemembered
  <2>. QED  BY <2>2, <2>3, <2>4, <2>5 DEF MarkersSwept
<1>4. CASE Session!Recheck
  BY <1>4, RunMoves, FaultRemembered DEF RunSteps, MarkersSwept, Session!Recheck, Session!Fine
<1>5. CASE Session!NothingToCommit
  BY <1>5 DEF MarkersSwept, Session!NothingToCommit
<1>6. CASE Session!CommitWork
  BY <1>6, RunMoves, FaultRemembered DEF RunSteps, MarkersSwept, Session!CommitWork, Session!Fine
<1>7. CASE Session!verify_build
  BY <1>7 DEF MarkersSwept, Session!verify_build
<1>8. CASE Session!PushForPr \/ Session!PushNewWork
  BY <1>8, RunMoves, FaultRemembered DEF SessionTyped, PastType, RunSteps, MarkersSwept,
     Session!PushForPr, Session!PushNewWork, Session!PushBranch, Session!Shipped
<1>9. CASE Session!ResolvePr
  BY <1>9, FaultRemembered DEF MarkersSwept, Session!ResolvePr, Session!LookedUp, Session!Fine
<1>10. CASE Session!FindPr
  BY <1>10, FaultRemembered DEF MarkersSwept, Session!FindPr, Session!LookedUp, Session!Fine
<1>11. CASE Session!CreatePr
  BY <1>11, CreateMoves DEF RunKeeps, PastKeeps, MarkersSwept
<1>12. CASE Session!DeliverArtifact
  BY <1>12, DeliverMoves DEF MarkersSwept, Placed
<1>13. CASE Session!Verdict
  BY <1>13, VerdictMoves DEF MarkersSwept
<1>14. CASE Session!react_task_finished
  BY <1>14, FaultRemembered DEF SessionTyped, IssueType, MarkersSwept,
     Session!react_task_finished, Session!Reacts, Session!Fine
<1>15. CASE Session!UploadTrace \/ Session!UploadTraceOfCancelled \/ Session!UploadTraceOfCrashed
  BY <1>15, TraceMoves DEF RunKeeps, PastKeeps, MarkersSwept, Stopped
<1>16. CASE Session!EndRun
  BY <1>16, EndMoves DEF PastKeeps, MarkersSwept
<1>17. CASE Session!HealTrace
  BY <1>17, RunMoves, FaultRemembered DEF RunSteps, CrashSteps, MarkersSwept, Session!HealTrace,
     Session!Written, Session!Fine
<1>18. CASE Session!Raise
  BY <1>18 DEF MarkersSwept, Session!Raise
<1>19. CASE Session!RecordCrash \/ Session!RecordCrashAgain
  BY <1>19, CrashMoves DEF RunKeeps, PastKeeps, CrashSteps, MarkersSwept, CrashTold
<1>20. CASE Session!ReactToCrash
  BY <1>20, FaultRemembered DEF SessionTyped, IssueType, MarkersSwept, Session!ReactToCrash,
     Session!Reacts, Session!Fine
<1>21. CASE Session!AgentEnds
  BY <1>21 DEF MarkersSwept, Session!AgentEnds
<1>22. CASE \/ Session!AgentEdits \/ Session!AgentLeavesBranch \/ Session!AgentPushes
            \/ Session!AgentOpensPr \/ Session!AgentCommits
  BY <1>22 DEF MarkersSwept, Session!AgentEdits, Session!AgentLeavesBranch, Session!AgentPushes,
     Session!AgentOpensPr, Session!InRepo, Session!AgentCommits
<1>23. CASE Session!SweepLists \/ Session!SweepDeletes
  BY <1>23, SweepMoves DEF PastKeeps, MarkersSwept
<1>24. CASE Session!OrchestratorRuns \/ Session!GiveUp
  BY <1>24 DEF MarkersSwept, Session!OrchestratorRuns, Session!GiveUp
<1>25. CASE Session!Cancel
  BY <1>25 DEF MarkersSwept, Stopped, Session!Cancel, Session!Live
<1>. QED  BY <1>1, <1>2, <1>3, <1>4, <1>5, <1>6, <1>7, <1>8, <1>9, <1>10, <1>11, <1>12, <1>13,
          <1>14, <1>15, <1>16, <1>17, <1>18, <1>19, <1>20, <1>21, <1>22, <1>23, <1>24, <1>25
          DEF Session!Next, Session!Agent, Session!Pipeline

LEMMA SessionStutters ==
  ASSUME SessionInv, UNCHANGED Session!vars
  PROVE  SessionInv'
<1>1. SessionTyped'
  BY WorldTyped DEF SessionInv
<1>2. task' = task /\ run' = run /\ repo' = repo /\ issue' = issue /\ past' = past
  BY DEF Session!vars
<1>3. BranchesKept' /\ Placed' /\ Delivers'
  BY <1>2 DEF SessionInv, BranchesKept, Placed, Delivers
<1>4. VerdictTrue'
  BY <1>2 DEF SessionInv, VerdictTrue, Earned
<1>5. Stopped' /\ Traced' /\ CrashTold' /\ MarkersSwept'
  BY <1>2 DEF SessionInv, Stopped, Traced, CrashTold, MarkersSwept, Session!Live
<1>. QED  BY <1>1, <1>3, <1>4, <1>5 DEF SessionInv

LEMMA SessionStep == SessionInv /\ [Session!Next]_(Session!vars) => SessionInv'
<1>. SUFFICES ASSUME SessionInv, Session!Next PROVE SessionInv'
  BY SessionStutters
<1>1. SessionTyped'
  BY AgentTyped, PipeTyped, WorldTyped DEF SessionInv, Session!Next
<1>2. BranchesKept' /\ Placed' /\ Delivers' /\ VerdictTrue'
  BY BranchStep, PlacedStep, DeliversStep, VerdictStep DEF SessionInv
<1>3. Stopped' /\ Traced' /\ CrashTold' /\ MarkersSwept'
  BY StoppedStep, TracedStep, CrashStep, MarkersStep DEF SessionInv
<1>. QED  BY <1>1, <1>2, <1>3 DEF SessionInv

LEMMA SessionStart ==
  ASSUME Running, Session!Init
  PROVE  SessionInv
<1>1. SessionTyped
  BY SessionTypedInit
<1>2. /\ task.status = "HYDRATING" /\ run.at = "boot" /\ ~run.needs_input /\ ~run.url
      /\ ~run.uploaded /\ ~run.crashed
      /\ repo.head = 0 /\ repo.branch = 0 /\ repo.remote = 0
      /\ issue.marks = {"old"} /\ issue.sweep = "idle"
      /\ ~past.cancelled /\ ~past.shipped
  BY DEF Session!Init
<1>3. ASSUME run.workflow = "new-task" PROVE repo.pr = FALSE
  <2>1. PICK r \in Runs :
          run.workflow = r.workflow /\ repo.pr = Session!is_pr_workflow(r.workflow)
    BY DEF Session!Init
  <2>2. Session!is_pr_workflow(r.workflow) = FALSE
    BY <1>3, <2>1 DEF Session!is_pr_workflow
  <2>. QED  BY <2>1, <2>2
<1>4. BranchesKept /\ Placed /\ Delivers /\ VerdictTrue
  <2>1. BranchesKept
    BY <1>2 DEF BranchesKept
  <2>2. Delivers
    BY <1>2, <1>3 DEF Delivers
  <2>3. Placed /\ VerdictTrue
    BY <1>2 DEF Placed, VerdictTrue
  <2>. QED  BY <2>1, <2>2, <2>3
<1>5. Stopped /\ Traced /\ CrashTold /\ MarkersSwept
  BY <1>2 DEF Stopped, Traced, CrashTold, MarkersSwept, EarlySteps, CrashSteps
<1>. QED  BY <1>1, <1>4, <1>5 DEF SessionInv

LEMMA SessionImplies ==
  ASSUME SessionInv
  PROVE  Session!ReportedAsDelivered /\ Session!RunAccountedFor
<1>. USE DEF SessionInv
<1>1. run.workflow \in {"new-task", "pr-iteration", "pr-review", "web-research"}
  BY DEF SessionTyped, RunType
<1>2. Session!SuccessIsEarned
  BY <1>1 DEF VerdictTrue, Earned, Session!SuccessIsEarned, Session!ensure_pr_strategy,
     Session!RequiresRepo
<1>3. Session!AnswerChangesNothing
  BY DEF VerdictTrue, Session!AnswerChangesNothing
<1>4. Session!StopIsHonoured
  BY DEF Stopped, Session!StopIsHonoured, Session!RequiresRepo
<1>5. Session!TraceReachable /\ Session!CrashRecorded
  BY DEF Traced, CrashTold, Session!TraceReachable, Session!CrashRecorded
<1>6. Session!MarkersCleared
  BY DEF MarkersSwept, Session!MarkersCleared
<1>. QED  BY <1>2, <1>3, <1>4, <1>5, <1>6 DEF Session!ReportedAsDelivered, Session!RunAccountedFor

\* Whatever a run does and whatever fails in it, in any order: its task is COMPLETED only for
\* work that can be found, by an agent that finished and a build that was verified or was red
\* before, and an iteration that reports no change has pushed none.
THEOREM DeliveredAsReported == Spec => []ReportedAsDelivered
<1>. DEFINE I == subject = "session" => SessionInv
<1>1. Init => I
  BY SessionStart, ServicesAssumption DEF Init
<1>2. I /\ [Next]_vars => I'
  BY OnlyOne, SessionStep, ServicesAssumption
<1>3. I => ReportedAsDelivered
  BY SessionImplies, ServicesAssumption DEF ReportedAsDelivered
<1>. HIDE DEF I
<1>. QED  BY <1>1, <1>2, <1>3, PTL DEF Spec

\* A run ships nothing after a stop that it could read, puts the trace that it uploaded on the
\* record, ends its task although it raised or a write was lost, and leaves none of the issue's
\* old markers, nor its own eyes, behind, as far as Linear answers.
THEOREM EveryRunAccountedFor == Spec => []RunAccountedFor
<1>. DEFINE I == subject = "session" => SessionInv
<1>1. Init => I
  BY SessionStart, ServicesAssumption DEF Init
<1>2. I /\ [Next]_vars => I'
  BY OnlyOne, SessionStep, ServicesAssumption
<1>3. I => RunAccountedFor
  BY SessionImplies, ServicesAssumption DEF RunAccountedFor
<1>. HIDE DEF I
<1>. QED  BY <1>1, <1>2, <1>3, PTL DEF Spec
=============================================================================
