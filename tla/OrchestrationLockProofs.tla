----------------------- MODULE OrchestrationLockProofs -----------------------
(***************************************************************************)
(* Proof that no child ever has two tasks at work, for any epic, however   *)
(* handlers crash, lose events or fail to create or to record a task,      *)
(* where the sweep keeps clear of releases and the user reopens an epic    *)
(* at rest.                                                                *)
(***************************************************************************)
EXTENDS OrchestrationProofs

USE OrchestrationAssumption

\* A step of one handler leaves the others where they are.
Others(w) == \A v \in Workers : v # w => worker'[v] = worker[v]

\* What a step of a handler makes of a child that only keeps or ends its row.
RowKept(c) ==
    /\ row'[c].task = row[c].task
    /\ \/ row'[c].status = row[c].status
       \/ row'[c].status \in TerminalChildStatuses /\ (Over(row[c].task) \/ Loose)

QuietKept(c) ==
    "redeliver" \notin Environment /\ Quiet(row[c].task) => Quiet(row[c].task)'

\* The handler goes on with what it was at, or has cause to begin.
GoesOn(w, c) ==
    /\ worker'[w].job \in {"retry", "fix"} => worker[w].job \in {"retry", "fix"}
    /\ Holds(w, c)' =>
         /\ Holds(w, c)
         /\ worker'[w].rows[c].task = row[c].task
         /\ worker'[w].pc \in {"create", "refuse"} => Created(c, row[c].task) = {}
         /\ worker'[w].pc = "record" => worker'[w].made \in Created(c, row[c].task)
    /\ Reopening(w, c)' => Reopening(w, c)
    /\ w = "sweep" =>
         /\ Unsticking(c)' =>
              \/ Unsticking(c)
              \/ /\ row[c].status = "releasing"
                 /\ \A v \in Workers : ~Holds(v, c)
         /\ worker'[w].pc = "reset" /\ c \in worker'[w].queue =>
              /\ row'[c].status \in Taken
              /\ worker'[w].rows[c].task = row[c].task
              /\ row[c].task \in TaskIds
              /\ \A v \in Workers : ~Reopening(v, c)
    /\ Wants(w, c)' =>
         /\ worker'[w].rows[c].task = row[c].task \/ row'[c].status \in Taken
         /\ \A v \in Workers : ~Reopening(v, c)
    /\ Concluding(w)' /\ worker'[w].child = c =>
         \/ Loose
         \/ row[c].task = worker'[w].event /\ row'[c].status \in Taken

LEMMA ChildKept ==
  ASSUME HandlersInv, LockInv, NEW w \in Workers, Others(w), UNCHANGED <<task, reopens>>,
         NEW c \in Children, RowKept(c), QuietKept(c), GoesOn(w, c)
  PROVE  ChildInv(c)'
<1>1. ChildInv(c)
  BY DEF LockInv
<1>2. ASSUME NEW v \in Workers, v # w
      PROVE  worker'[v] = worker[v]
  BY <1>2 DEF Others
<1>3. \A v \in Workers : v # w => (Holds(v, c)' <=> Holds(v, c))
  BY <1>2 DEF Holds
<1>4. \A v \in Workers : v # w => (Reopening(v, c)' <=> Reopening(v, c))
  BY <1>2 DEF Reopening
<1>5. \A v \in Workers : (Holds(v, c)' => Holds(v, c)) /\ (Reopening(v, c)' => Reopening(v, c))
  BY <1>3, <1>4 DEF GoesOn
<1>6. row'[c].task = row[c].task /\ UNCHANGED Loose
      /\ \A t : Over(t)' <=> Over(t)
  BY DEF RowKept, Loose, Over
<1>7. /\ row[c].status \in TerminalChildStatuses => row'[c].status \in TerminalChildStatuses
      /\ row[c].status \in Taken => row'[c].status \in Taken
      /\ row[c].status \in {"releasing"} \cup TerminalChildStatuses =>
           row'[c].status \in {"releasing"} \cup TerminalChildStatuses
      /\ row'[c].status \in Waiting \cup {"releasing"} => row'[c].status = row[c].status
  BY DEF RowKept, Taken, TerminalChildStatuses, Waiting
<1>8. RowTrue(c)'
  BY <1>1, <1>6, <1>7 DEF ChildInv, RowTrue, RowKept, QuietKept, TerminalChildStatuses
<1>9. KnownAt(c)'
  BY <1>1, <1>6 DEF ChildInv, KnownAt
<1>10. LockedAt(c)'
  <2>. SUFFICES ASSUME NEW v \in Workers, Holds(v, c)'
                PROVE  /\ \A u \in Workers : Holds(u, c)' => u = v
                       /\ row'[c].status \in {"releasing"} \cup TerminalChildStatuses
                       /\ worker'[v].rows[c].task = row'[c].task
                       /\ Over(row[c].task)
                       /\ worker'[v].pc \in {"create", "refuse"} => Created(c, row[c].task) = {}
                       /\ worker'[v].pc = "record" => worker'[v].made \in Created(c, row[c].task)
    BY <1>6 DEF LockedAt, At, Created, Over
  <2>1. Holds(v, c)
    BY <1>5
  <2>2. /\ \A u \in Workers : Holds(u, c)' => u = v
        /\ row'[c].status \in {"releasing"} \cup TerminalChildStatuses
        /\ Over(row[c].task)
    BY <1>1, <1>5, <1>7, <2>1 DEF ChildInv, LockedAt
  <2>3. CASE v = w
    BY <1>6, <2>2, <2>3 DEF GoesOn
  <2>4. CASE v # w
    BY <1>1, <1>2, <1>6, <2>1, <2>2, <2>4 DEF ChildInv, LockedAt, At
  <2>. QED  BY <2>3, <2>4
<1>11. ReopenedAt(c)'
  <2>1. \A v \in Workers : Reopening(v, c)' =>
          /\ row'[c].status \in TerminalChildStatuses
          /\ Over(row[c].task)
          /\ "redeliver" \notin Environment => Quiet(row[c].task)'
          /\ \A u \in Workers : ~Holds(u, c)'
    BY <1>1, <1>5, <1>7 DEF ChildInv, ReopenedAt, QuietKept
  <2>. QED  BY <1>6, <2>1 DEF ReopenedAt, Over
<1>12. SweptAt(c)'
  <2>1. "sweep" \in Workers
    BY DEF Workers
  <2>2. "sweep" # w => (Unsticking(c)' <=> Unsticking(c)) /\ worker'["sweep"] = worker["sweep"]
    BY <1>2, <2>1 DEF Unsticking, At
  <2>3. Unsticking(c)' => \/ Unsticking(c)
                          \/ /\ row[c].status = "releasing"
                             /\ \A v \in Workers : ~Holds(v, c)
    BY <2>2 DEF GoesOn
  <2>4. row[c].status = "releasing" => \A v \in Workers : ~Reopening(v, c)
    BY <1>1 DEF ChildInv, ReopenedAt, TerminalChildStatuses
  <2>5. Unsticking(c)' => /\ row[c].status \in {"releasing"} \cup TerminalChildStatuses
                          /\ \A v \in Workers : ~Holds(v, c) /\ ~Reopening(v, c)
    BY <1>1, <2>3, <2>4 DEF ChildInv, SweptAt
  <2>6. At("sweep", "reset")' /\ c \in worker'["sweep"].queue =>
          /\ row'[c].status \in Taken
          /\ worker'["sweep"].rows[c].task = row[c].task
          /\ row[c].task \in TaskIds
          /\ \A v \in Workers : ~Reopening(v, c)
    <3>1. CASE w = "sweep"
      BY <3>1 DEF GoesOn, At
    <3>2. CASE w # "sweep"
      BY <1>1, <1>7, <2>2, <3>2 DEF ChildInv, SweptAt, At
    <3>. QED  BY <3>1, <3>2
  <2>. QED  BY <1>5, <1>6, <1>7, <2>5, <2>6 DEF SweptAt
<1>13. FreshAt(c)'
  <2>. SUFFICES ASSUME NEW v \in Workers, Wants(v, c)'
                PROVE  /\ worker'[v].rows[c].task = row[c].task \/ row'[c].status \in Taken
                       /\ \A u \in Workers : ~Reopening(u, c)
    BY <1>5, <1>6 DEF FreshAt
  <2>1. CASE v = w
    BY <2>1 DEF GoesOn
  <2>2. CASE v # w
    BY <1>1, <1>2, <1>7, <2>2 DEF ChildInv, FreshAt, Wants, At
  <2>. QED  BY <2>1, <2>2
<1>14. EventsAt(c)'
  <2>. SUFFICES ASSUME NEW v \in Workers, Concluding(v)', worker'[v].child = c
                PROVE  \/ Loose
                       \/ row[c].task = worker'[v].event /\ row'[c].status \in Taken
    BY <1>6 DEF EventsAt
  <2>1. CASE v = w
    BY <2>1 DEF GoesOn
  <2>2. CASE v # w
    BY <1>1, <1>2, <1>7, <2>2 DEF ChildInv, EventsAt, Concluding, At
  <2>. QED  BY <2>1, <2>2
<1>. QED  BY <1>8, <1>9, <1>10, <1>11, <1>12, <1>13, <1>14 DEF ChildInv

\* Steps that create no task and reopen nothing concern the children one by one.
LEMMA LockByChild ==
  ASSUME HandlersInv, LockInv, NEW w \in Workers, Others(w), UNCHANGED <<task, reopens>>,
         worker'[w].job \in {"retry", "fix"} => worker[w].job \in {"retry", "fix"},
         \A c \in Children : ChildInv(c)'
  PROVE  LockInv'
<1>1. TasksTrue'
  BY DEF LockInv, TasksTrue, Over
<1>2. OneReopener'
  BY DEF LockInv, OneReopener, Others
<1>. QED  BY <1>1, <1>2 DEF LockInv

LEMMA LockKept ==
  ASSUME HandlersInv, LockInv, NEW w \in Workers, Others(w), UNCHANGED <<task, reopens>>,
         worker'[w].job \in {"retry", "fix"} => worker[w].job \in {"retry", "fix"},
         \A c \in Children : RowKept(c) /\ QuietKept(c) /\ GoesOn(w, c)
  PROVE  LockInv'
<1>1. \A c \in Children : ChildInv(c)'
  BY ChildKept
<1>. QED  BY <1>1, LockByChild

LEMMA OthersKept ==
  ASSUME HandlersInv, NEW w \in Workers, NEW h, worker' = [worker EXCEPT ![w] = h]
  PROVE  worker'[w] = h /\ Others(w)
  BY HandlerFacts DEF Others

\* A step that handles no new event leaves handled events handled.
LEMMA QuietStays ==
  ASSUME NEW w \in Workers, NEW c \in Children, Others(w),
         row'[c].task = row[c].task, worker'[w].event \in {worker[w].event, Nil},
         delivered' \in {delivered, delivered \ {worker[w].event}}
  PROVE  QuietKept(c)
<1>. SUFFICES ASSUME Quiet(row[c].task), row[c].task # Nil
              PROVE  /\ row[c].task \in delivered'
                     /\ \A v \in Workers : worker'[v].event # row[c].task
  BY DEF QuietKept, Quiet
<1>. QED  BY DEF Quiet, Others

\* Steps of a handler on its rows as they are.
LEMMA LockLocal ==
  ASSUME HandlersInv, LockInv, NEW w \in Workers, Others(w), UNCHANGED <<row, task, reopens>>,
         worker'[w].event \in {worker[w].event, Nil},
         delivered' \in {delivered, delivered \ {worker[w].event}},
         worker'[w].job \in {"retry", "fix"} => worker[w].job \in {"retry", "fix"},
         \A c \in Children : GoesOn(w, c)
  PROVE  LockInv'
<1>1. \A c \in Children : RowKept(c)
  BY DEF RowKept
<1>2. \A c \in Children : QuietKept(c)
  BY QuietStays
<1>. QED  BY <1>1, <1>2, LockKept

\* Where a handler holds no row and has nothing to write but skips, only the rows
\* it may still claim matter.
LEMMA GoesOnFree ==
  ASSUME NEW w \in Workers, NEW c \in Children,
         worker'[w].pc \in {"idle", "reread", "release", "cascade", "settle"},
         worker'[w].job \in {"retry", "fix"} => worker[w].job \in {"retry", "fix"},
         Wants(w, c)' =>
           /\ worker'[w].rows[c].task = row[c].task \/ row'[c].status \in Taken
           /\ \A v \in Workers : ~Reopening(v, c)
  PROVE  GoesOn(w, c)
<1>1. ~Holds(w, c)'
  BY DEF Holds, Holding
<1>2. ~Reopening(w, c)'
  BY DEF Reopening
<1>3. w = "sweep" => ~Unsticking(c)'
  BY DEF Unsticking, At
<1>4. ~Concluding(w)'
  BY DEF Concluding, At
<1>. QED  BY <1>1, <1>2, <1>3, <1>4 DEF GoesOn

\* A row that is not over is not being reopened.
LEMMA NotReopening ==
  ASSUME LockInv, NEW c \in Children, row[c].status \notin TerminalChildStatuses
  PROVE  \A v \in Workers : ~Reopening(v, c)
  BY DEF LockInv, ChildInv, ReopenedAt

LEMMA LockLoad ==
  ASSUME HandlersInv, LockInv, NEW w \in Workers, Load(w)
  PROVE  LockInv'
<1>. DEFINE plan == ReconcilePlan(Status(row), worker[w].child,
                                  task[worker[w].event].state = "succeeded")
<1>. HIDE DEF plan
<1>1. /\ worker[w] \in HandlerType /\ HandlerOK(w) /\ At(w, "load")
      /\ worker[w].job = "reconcile"
  BY HandlerFacts DEF Load, HandlerOK, ControlOf, At
<1>2. worker' = [worker EXCEPT ![w] = [worker[w] EXCEPT !.pc = "write", !.writes = plan]]
  BY HandlerFacts DEF Load, plan
<1>3. /\ worker'[w].pc = "write" /\ worker'[w].job = "reconcile"
      /\ worker'[w].event = worker[w].event /\ worker'[w].child = worker[w].child
  <2>1. worker'[w] = [worker[w] EXCEPT !.pc = "write", !.writes = plan]
    BY <1>2, HandlerFacts
  <2>. QED  BY <1>1, <2>1 DEF HandlerType
<1>4. Others(w) /\ UNCHANGED <<row, task, delivered, reopens>>
  BY <1>2, OthersKept DEF Load
<1>5. ASSUME NEW c \in Children PROVE GoesOn(w, c)
  <2>1. ~Holds(w, c)' /\ ~Reopening(w, c)' /\ ~Wants(w, c)'
    BY <1>3 DEF Holds, Holding, Reopening, Wants, At
  <2>2. w = "sweep" => ~Unsticking(c)'
    BY <1>3 DEF Unsticking, At
  <2>3. Concluding(w)' /\ worker'[w].child = c => Concluding(w) /\ worker[w].child = c
    BY <1>1, <1>3 DEF Concluding
  <2>4. ChildInv(c)
    BY DEF LockInv
  <2>. QED  BY <1>3, <1>4, <2>1, <2>2, <2>3, <2>4 DEF GoesOn, ChildInv, EventsAt
<1>. QED  BY <1>3, <1>4, <1>5, LockLocal

LEMMA LockReread ==
  ASSUME HandlersInv, LockInv, NEW w \in Workers, Reread(w)
  PROVE  LockInv'
<1>1. PICK queue \in SUBSET Children :
        /\ Throttled(Releasable(Status(row)), queue)
        /\ worker' = [worker EXCEPT ![w] = [@ EXCEPT !.pc = "release", !.rows = row,
                                                     !.queue = queue, !.child = Nil]]
  BY DEF Reread
<1>2. worker[w] \in HandlerType /\ worker[w].job = "reconcile"
  BY HandlerFacts DEF Reread
<1>3. /\ worker'[w].pc = "release" /\ worker'[w].job = "reconcile" /\ worker'[w].rows = row
      /\ worker'[w].queue = queue /\ worker'[w].event = worker[w].event
  <2>1. worker'[w] = [worker[w] EXCEPT !.pc = "release", !.rows = row, !.queue = queue,
                                       !.child = Nil]
    BY <1>1, HandlerFacts
  <2>. QED  BY <1>2, <2>1 DEF HandlerType
<1>4. Others(w) /\ UNCHANGED <<row, task, delivered, reopens>>
  BY <1>1, OthersKept DEF Reread
<1>5. \A c \in queue : row[c].status \in Waiting
  BY <1>1, ThrottledType, StatusType, HandlerFacts DEF Releasable
<1>6. ASSUME NEW c \in Children PROVE GoesOn(w, c)
  <2>1. Wants(w, c)' => \A v \in Workers : ~Reopening(v, c)
    BY <1>3, <1>5, NotReopening DEF Wants, At, Waiting, TerminalChildStatuses
  <2>. QED  BY <1>3, <2>1, GoesOnFree
<1>. QED  BY <1>3, <1>4, <1>6, LockLocal

LEMMA LockLookup ==
  ASSUME HandlersInv, LockInv, NEW w \in Workers, Lookup(w)
  PROVE  LockInv'
<1>. DEFINE same == Created(worker[w].child, Prior(w))
<1>1. worker[w] \in HandlerType /\ At(w, "lookup") /\ worker[w].child \in Children
  BY HandlerFacts DEF Lookup, HandlerOK, ControlOf, At, Holding
<1>2. /\ \/ same = {} /\ worker'[w].pc = "create"
         \/ /\ worker'[w].pc = "record" /\ worker'[w].made \in same
      /\ worker'[w].child = worker[w].child /\ worker'[w].rows = worker[w].rows
      /\ worker'[w].event = worker[w].event /\ worker'[w].job = worker[w].job
      /\ worker'[w].queue = worker[w].queue
  <2>. HIDE DEF same
  <2>1. worker'[w] = IF same = {} THEN [worker[w] EXCEPT !.pc = "create"]
                     ELSE [worker[w] EXCEPT !.pc = "record", !.made = CHOOSE t \in same : TRUE]
    BY OthersKept DEF Lookup, same
  <2>2. same # {} => (CHOOSE t \in same : TRUE) \in same
    OBVIOUS
  <2>. QED  BY <1>1, <2>1, <2>2 DEF HandlerType
<1>3. Others(w) /\ UNCHANGED <<row, task, delivered, reopens>>
  BY OthersKept DEF Lookup
<1>4. ASSUME NEW c \in Children PROVE GoesOn(w, c)
  <2>1. ChildInv(c)
    BY DEF LockInv
  <2>2. Holds(w, c)' => Holds(w, c) /\ worker[w].child = c
    BY <1>1, <1>2 DEF Holds, Holding, At
  <2>3. Holds(w, c) => worker[w].rows[c].task = row[c].task
    BY <2>1 DEF ChildInv, LockedAt
  <2>4. Holds(w, c)' => same = Created(c, row[c].task)
    BY <2>2, <2>3 DEF Prior
  <2>5. ~Reopening(w, c)' /\ ~Concluding(w)' /\ (w = "sweep" => ~Unsticking(c)')
    BY <1>2 DEF Reopening, Concluding, Unsticking, At
  <2>6. Wants(w, c)' => Wants(w, c)
    BY <1>1, <1>2 DEF Wants, At, Holding
  <2>7. Wants(w, c)' => /\ worker'[w].rows[c].task = row[c].task \/ row'[c].status \in Taken
                        /\ \A v \in Workers : ~Reopening(v, c)
    BY <1>2, <1>3, <2>1, <2>6 DEF ChildInv, FreshAt
  <2>. HIDE DEF same
  <2>. QED  BY <1>2, <2>2, <2>3, <2>4, <2>5, <2>7 DEF GoesOn
<1>. QED  BY <1>2, <1>3, <1>4, LockLocal

LEMMA LockCreateRefused ==
  ASSUME HandlersInv, LockInv, NEW w \in Workers, CreateRefused(w)
  PROVE  LockInv'
<1>1. worker[w] \in HandlerType /\ At(w, "create")
  BY HandlerFacts DEF CreateRefused
<1>2. worker'[w] = [worker[w] EXCEPT !.pc = "refuse"]
  BY HandlerFacts DEF CreateRefused
<1>3. /\ worker'[w].pc = "refuse" /\ worker'[w].child = worker[w].child
      /\ worker'[w].rows = worker[w].rows /\ worker'[w].event = worker[w].event
      /\ worker'[w].job = worker[w].job /\ worker'[w].queue = worker[w].queue
  BY <1>1, <1>2 DEF HandlerType
<1>4. Others(w) /\ UNCHANGED <<row, task, delivered, reopens>>
  BY OthersKept DEF CreateRefused
<1>5. ASSUME NEW c \in Children PROVE GoesOn(w, c)
  <2>1. ChildInv(c)
    BY DEF LockInv
  <2>2. Holds(w, c)' => Holds(w, c)
    BY <1>1, <1>3 DEF Holds, Holding, At
  <2>3. Holds(w, c) => /\ worker[w].rows[c].task = row[c].task
                       /\ Created(c, row[c].task) = {}
    BY <1>1, <2>1 DEF ChildInv, LockedAt, At
  <2>4. ~Reopening(w, c)' /\ ~Concluding(w)' /\ (w = "sweep" => ~Unsticking(c)')
    BY <1>3 DEF Reopening, Concluding, Unsticking, At
  <2>5. Wants(w, c)' => Wants(w, c)
    BY <1>1, <1>3 DEF Wants, At, Holding
  <2>6. Wants(w, c)' => /\ worker'[w].rows[c].task = row[c].task \/ row'[c].status \in Taken
                        /\ \A v \in Workers : ~Reopening(v, c)
    BY <1>3, <1>4, <2>1, <2>5 DEF ChildInv, FreshAt
  <2>. QED  BY <1>3, <2>2, <2>3, <2>4, <2>6 DEF GoesOn
<1>. QED  BY <1>3, <1>4, <1>5, LockLocal

\* A handler that ends a release goes on with the rows it has yet to claim.
LEMMA WantsNext ==
  ASSUME HandlersInv, LockInv, NEW w \in Workers, NEW c \in Children,
         worker[w].pc \in {"release"} \cup Holding,
         worker'[w].pc = "release", worker'[w].rows = worker[w].rows,
         worker'[w].queue \subseteq worker[w].queue,
         worker'[w].job = worker[w].job,
         RowKept(c)
  PROVE  GoesOn(w, c)
<1>1. ChildInv(c)
  BY DEF LockInv
<1>2. Wants(w, c)' => Wants(w, c)
  BY DEF Wants, At
<1>3. row[c].status \in Taken => row'[c].status \in Taken
  BY DEF RowKept, Taken
<1>4. Wants(w, c)' => /\ worker'[w].rows[c].task = row[c].task \/ row'[c].status \in Taken
                      /\ \A v \in Workers : ~Reopening(v, c)
  BY <1>1, <1>2, <1>3 DEF ChildInv, FreshAt
<1>. QED  BY <1>4, GoesOnFree

LEMMA LockEndReleaseFails ==
  ASSUME HandlersInv, LockInv, NEW w \in Workers, EndReleaseFails(w)
  PROVE  LockInv'
<1>. DEFINE refused == IF At(w, "refuse") THEN worker[w].refused \cup {worker[w].child}
                                          ELSE worker[w].refused
<1>. HIDE DEF refused
<1>1. worker[w] \in HandlerType /\ worker[w].pc \in Holding
  BY HandlerFacts DEF EndReleaseFails, Holding
<1>2. worker'[w] = [worker[w] EXCEPT !.pc = "release", !.child = Nil, !.made = Nil,
                                     !.refused = refused]
  BY HandlerFacts DEF EndReleaseFails, refused
<1>3. /\ worker'[w].pc = "release" /\ worker'[w].rows = worker[w].rows
      /\ worker'[w].event = worker[w].event
      /\ worker'[w].job = worker[w].job /\ worker'[w].queue = worker[w].queue
  BY <1>1, <1>2 DEF HandlerType
<1>4. Others(w) /\ UNCHANGED <<row, task, delivered, reopens>>
  BY OthersKept DEF EndReleaseFails
<1>5. \A c \in Children : GoesOn(w, c)
  BY <1>1, <1>3, <1>4, WantsNext DEF RowKept
<1>. QED  BY <1>3, <1>4, <1>5, LockLocal

LEMMA LockApplyFailures ==
  ASSUME HandlersInv, LockInv, NEW w \in Workers, ApplyTerminalCreateFailures(w)
  PROVE  LockInv'
<1>1. /\ worker[w] \in HandlerType /\ w # "sweep"
  BY HandlerFacts DEF ApplyTerminalCreateFailures, AppliesFailures, HandlerOK, ControlOf
<1>2. PICK writes, rows :
        worker' = [worker EXCEPT ![w] = [@ EXCEPT !.pc = "cascade", !.writes = writes,
                                                  !.refused = {}, !.rows = rows]]
  BY DEF ApplyTerminalCreateFailures
<1>3. worker'[w] = [worker[w] EXCEPT !.pc = "cascade", !.writes = writes,
                                     !.refused = {}, !.rows = rows]
  BY <1>2, HandlerFacts
<1>4. /\ worker'[w].pc = "cascade" /\ worker'[w].event = worker[w].event
      /\ worker'[w].job = worker[w].job
  BY <1>1, <1>3 DEF HandlerType
<1>5. Others(w) /\ UNCHANGED <<row, task, delivered, reopens>>
  BY <1>2, OthersKept DEF ApplyTerminalCreateFailures
<1>6. ASSUME NEW c \in Children PROVE GoesOn(w, c)
  <2>1. ~Wants(w, c)'
    BY <1>1, <1>4 DEF Wants, Holding
  <2>. QED  BY <1>4, <2>1, GoesOnFree
<1>. QED  BY <1>4, <1>5, <1>6, LockLocal

LEMMA LockFinish ==
  ASSUME HandlersInv, LockInv, NEW w \in Workers, Finish(w) \/ Settle(w) \/ Crash(w)
  PROVE  LockInv'
<1>1. worker' = [worker EXCEPT ![w] = Idle] /\ UNCHANGED <<row, task, reopens>>
      /\ delivered' \in {delivered, delivered \ {worker[w].event}}
  BY DEF Finish, Settle, Crash
<1>2. worker'[w] = Idle /\ Others(w)
  BY <1>1, OthersKept
<1>3. worker'[w].pc = "idle" /\ worker'[w].event = Nil /\ worker'[w].job = "none"
  BY <1>2, IdleType
<1>4. ASSUME NEW c \in Children PROVE GoesOn(w, c)
  <2>1. ~Wants(w, c)'
    BY <1>3 DEF Wants, At, Holding
  <2>. QED  BY <1>3, <2>1, GoesOnFree
<1>. QED  BY <1>1, <1>2, <1>3, <1>4, LockLocal

LEMMA LockClearRollup ==
  ASSUME HandlersInv, LockInv, NEW w \in Workers, ClearRollupClaim(w)
  PROVE  LockInv'
<1>1. worker[w] \in HandlerType
  BY HandlerFacts
<1>2. worker'[w] = [worker[w] EXCEPT !.pc = "reread"]
  BY HandlerFacts DEF ClearRollupClaim
<1>3. /\ worker'[w].pc = "reread" /\ worker'[w].event = worker[w].event
      /\ worker'[w].job = worker[w].job
  BY <1>1, <1>2 DEF HandlerType
<1>4. Others(w) /\ UNCHANGED <<row, task, delivered, reopens>>
  BY OthersKept DEF ClearRollupClaim
<1>5. ASSUME NEW c \in Children PROVE GoesOn(w, c)
  <2>1. ~Wants(w, c)'
    BY <1>3 DEF Wants, At, Holding
  <2>. QED  BY <1>3, <2>1, GoesOnFree
<1>. QED  BY <1>3, <1>4, <1>5, LockLocal

LEMMA LockRereadToRelease ==
  ASSUME HandlersInv, LockInv, NEW w \in Workers, RereadToRelease(w)
  PROVE  LockInv'
<1>1. PICK queue : worker' = [worker EXCEPT ![w] = [@ EXCEPT !.pc = "release", !.rows = row,
                                                             !.queue = queue, !.child = Nil]]
  BY DEF RereadToRelease
<1>2. /\ worker[w] \in HandlerType /\ worker[w].job \in {"retry", "fix"}
      /\ worker[w].pc = "reread"
  BY HandlerFacts DEF RereadToRelease, HandlerOK, ControlOf, At
<1>3. worker'[w] = [worker[w] EXCEPT !.pc = "release", !.rows = row, !.queue = queue,
                                     !.child = Nil]
  BY <1>1, HandlerFacts
<1>4. /\ worker'[w].pc = "release" /\ worker'[w].event = worker[w].event
      /\ worker'[w].job = worker[w].job /\ worker'[w].rows = row
  BY <1>2, <1>3 DEF HandlerType
<1>5. Others(w) /\ UNCHANGED <<row, task, delivered, reopens>>
  BY <1>1, OthersKept DEF RereadToRelease
<1>6. \A c \in Children, v \in Workers : ~Reopening(v, c)
  BY <1>2 DEF LockInv, OneReopener, Reopening
<1>7. \A c \in Children : GoesOn(w, c)
  BY <1>4, <1>6, GoesOnFree
<1>. QED  BY <1>4, <1>5, <1>7, LockLocal

LEMMA LockRefresh ==
  ASSUME HandlersInv, LockInv, NEW w \in Workers, Refresh(w)
  PROVE  LockInv'
<1>1. worker[w] \in HandlerType
  BY HandlerFacts
<1>2. worker'[w] = [worker[w] EXCEPT !.pc = "settle", !.rows = row]
  BY HandlerFacts DEF Refresh
<1>3. /\ worker'[w].pc = "settle" /\ worker'[w].event = worker[w].event
      /\ worker'[w].job = worker[w].job
  BY <1>1, <1>2 DEF HandlerType
<1>4. Others(w) /\ UNCHANGED <<row, task, delivered, reopens>>
  BY OthersKept DEF Refresh
<1>5. ASSUME NEW c \in Children PROVE GoesOn(w, c)
  <2>1. ~Wants(w, c)'
    BY <1>3 DEF Wants, At, Holding
  <2>. QED  BY <1>3, <2>1, GoesOnFree
<1>. QED  BY <1>3, <1>4, <1>5, LockLocal

LEMMA LockSweepReread ==
  ASSUME HandlersInv, LockInv, SweepReread
  PROVE  LockInv'
<1>. DEFINE w == "sweep"
            plan == DeadPlan(Status(row))
<1>. HIDE DEF plan
<1>1. w \in Workers /\ worker[w] \in HandlerType
  BY HandlerFacts DEF Workers
<1>2. worker'[w] = [worker[w] EXCEPT !.pc = "cascade", !.rows = row, !.writes = plan]
  BY <1>1, HandlerFacts DEF SweepReread, plan
<1>3. /\ worker'[w].pc = "cascade" /\ worker'[w].event = worker[w].event
      /\ worker'[w].job = worker[w].job /\ worker'[w].rows = row
  BY <1>1, <1>2 DEF HandlerType
<1>4. Others(w) /\ UNCHANGED <<row, task, delivered, reopens>>
  BY <1>1, OthersKept DEF SweepReread
<1>5. ASSUME NEW c \in Children PROVE GoesOn(w, c)
  <2>1. Wants(w, c)' => row[c].status \in Waiting
    BY <1>3 DEF Wants, At, Holding
  <2>2. Wants(w, c)' => \A v \in Workers : ~Reopening(v, c)
    BY <2>1, NotReopening DEF Waiting, TerminalChildStatuses
  <2>. QED  BY <1>1, <1>3, <2>2, GoesOnFree
<1>. QED  BY <1>1, <1>3, <1>4, <1>5, LockLocal

LEMMA LockSweepRelease ==
  ASSUME HandlersInv, LockInv, SweepRelease
  PROVE  LockInv'
<1>. DEFINE w == "sweep"
            found == Releasable(Status(worker[w].rows))
            pc == IF found = {} THEN "settle" ELSE "release"
<1>1. PICK queue \in SUBSET found :
        worker' = [worker EXCEPT ![w] = [@ EXCEPT !.pc = pc, !.queue = queue]]
  BY DEF SweepRelease
<1>2. /\ w \in Workers /\ worker[w] \in HandlerType /\ At(w, "cascade")
      /\ pc \in {"settle", "release"}
  BY HandlerFacts DEF SweepRelease, Workers, Written
<1>3. \A c \in queue : worker[w].rows[c].status \in Waiting
  BY <1>2, StatusType DEF Releasable, HandlerType
<1>. HIDE DEF pc, found
<1>4. worker'[w] = [worker[w] EXCEPT !.pc = pc, !.queue = queue]
  BY <1>1, <1>2, HandlerFacts
<1>5. /\ worker'[w].pc = pc /\ worker'[w].event = worker[w].event
      /\ worker'[w].job = worker[w].job /\ worker'[w].rows = worker[w].rows
      /\ worker'[w].queue = queue
  BY <1>2, <1>4 DEF HandlerType
<1>6. Others(w) /\ UNCHANGED <<row, task, delivered, reopens>>
  BY <1>1, <1>2, OthersKept DEF SweepRelease
<1>7. ASSUME NEW c \in Children PROVE GoesOn(w, c)
  <2>1. Wants(w, c)' => Wants(w, c)
    BY <1>2, <1>3, <1>5 DEF Wants, At, Holding
  <2>2. ChildInv(c)
    BY DEF LockInv
  <2>3. Wants(w, c)' => /\ worker'[w].rows[c].task = row[c].task \/ row'[c].status \in Taken
                        /\ \A v \in Workers : ~Reopening(v, c)
    BY <1>2, <1>5, <1>6, <2>1, <2>2 DEF ChildInv, FreshAt
  <2>. QED  BY <1>2, <1>5, <2>3, GoesOnFree
<1>. QED  BY <1>2, <1>5, <1>6, <1>7, LockLocal

LEMMA LockSweepLoad ==
  ASSUME Orderly, HandlersInv, LockInv, SweepLoad
  PROVE  LockInv'
<1>. DEFINE w == "sweep"
            pc == IF AllTerminal(Status(row)) THEN "settle" ELSE "reset"
            stuck == {c \in Children : row[c].status = "releasing"}
            plan == SetTo(stuck, "ready")
            queue == {c \in Children : row[c].status = "released"}
<1>1. w \in Workers /\ worker[w] = Idle
  BY HandlerFacts DEF Workers, SweepLoad, HandlerOK, ControlOf
<1>2. worker' = [worker EXCEPT ![w] = [Idle EXCEPT !.pc = pc, !.job = "sweep", !.rows = row,
                                                   !.writes = plan, !.queue = queue]]
  BY DEF SweepLoad
<1>3. /\ pc \in {"settle", "reset"} /\ queue \subseteq Children
      /\ \A wr \in plan : wr.child \in Children /\ row[wr.child].status = "releasing"
      /\ \A c \in queue : row[c].status = "released" /\ row[c].task \in TaskIds
  BY DEF SetTo, HandlersInv, ReleasedForTask
<1>. HIDE DEF pc, plan, queue
<1>4. /\ worker'[w].pc = pc /\ worker'[w].event = Nil /\ worker'[w].job = "sweep"
      /\ worker'[w].rows = row /\ worker'[w].queue = queue /\ worker'[w].writes = plan
  <2>1. worker'[w] = [Idle EXCEPT !.pc = pc, !.job = "sweep", !.rows = row,
                                  !.writes = plan, !.queue = queue]
    BY <1>1, <1>2, HandlerFacts
  <2>. QED  BY <2>1, IdleType DEF HandlerType
<1>5. Others(w) /\ UNCHANGED <<row, task, delivered, reopens>>
  BY <1>1, <1>2, OthersKept DEF SweepLoad
<1>6. \A c \in Children, v \in Workers : ~Holds(v, c)
  BY DEF Orderly, SweepLoad, Releasing, Holds, Holding
<1>7. ASSUME NEW c \in Children PROVE GoesOn(w, c)
  <2>1. ~Holds(w, c)' /\ ~Reopening(w, c)' /\ ~Wants(w, c)' /\ ~Concluding(w)'
    BY <1>3, <1>4 DEF Holds, Holding, Reopening, Wants, Concluding, At
  <2>2. Unsticking(c)' => row[c].status = "releasing"
    BY <1>3, <1>4 DEF Unsticking
  <2>3. c \in queue => /\ row[c].status \in Taken
                       /\ row[c].task \in TaskIds
                       /\ \A v \in Workers : ~Reopening(v, c)
    BY <1>3, NotReopening DEF Taken, TerminalChildStatuses
  <2>. QED  BY <1>4, <1>5, <1>6, <2>1, <2>2, <2>3 DEF GoesOn
<1>. QED  BY <1>1, <1>4, <1>5, <1>7, LockLocal

LEMMA LockDeliver ==
  ASSUME HandlersInv, LockInv, NEW w \in Reconcilers, NEW t \in TaskIds, Deliver(w, t)
  PROVE  LockInv'
<1>1. w \in Workers /\ w # "sweep" /\ worker[w] = Idle
  BY HandlerFacts DEF Workers, Deliver, HandlerOK, ControlOf
<1>2. /\ UNCHANGED <<row, settled, task, reopens>> /\ task[t].state \in Ended
      /\ t \in delivered => "redeliver" \in Environment
      /\ \A v \in Workers : worker[v].event # t
      /\ delivered' = delivered \cup {t}
  BY DEF Deliver, Fault
<1>3. /\ Others(w) /\ worker'[w].job \in {"none", "reconcile"}
      /\ \/ worker'[w].pc = "idle" /\ worker'[w].event = Nil
         \/ /\ worker'[w].pc = "load" /\ worker'[w].event = t
            /\ row[worker'[w].child].task = t
  <2>1. CASE \E c \in Children : row[c].task = t
    <3>. DEFINE child == CHOOSE c \in Children : row[c].task = t
    <3>1. row[child].task = t
      BY <2>1
    <3>. HIDE DEF child
    <3>2. worker' = [worker EXCEPT ![w] = [Idle EXCEPT !.pc = "load", !.job = "reconcile",
                                                       !.event = t, !.child = child]]
      BY <2>1 DEF Deliver, child
    <3>3. worker'[w] = [Idle EXCEPT !.pc = "load", !.job = "reconcile",
                                    !.event = t, !.child = child]
      BY <1>1, <3>2, HandlerFacts
    <3>4. Others(w)
      BY <1>1, <3>2, OthersKept
    <3>. QED  BY <3>1, <3>3, <3>4, IdleType DEF HandlerType
  <2>2. CASE ~\E c \in Children : row[c].task = t
    <3>1. worker' = [worker EXCEPT ![w] = Idle]
      BY <2>2 DEF Deliver
    <3>. QED  BY <1>1, <3>1, OthersKept, IdleType
  <2>. QED  BY <2>1, <2>2
<1>4. ASSUME NEW c \in Children PROVE GoesOn(w, c)
  <2>1. ~Holds(w, c)' /\ ~Reopening(w, c)' /\ ~Wants(w, c)'
    BY <1>1, <1>3 DEF Holds, Holding, Reopening, Wants, At
  <2>2. ASSUME Concluding(w)', worker'[w].child = c, ~Loose
        PROVE  row[c].task = worker'[w].event /\ row'[c].status \in Taken
    <3>1. row[c].task = t /\ worker'[w].event = t
      BY <1>3, <2>2 DEF Concluding, At
    <3>2. RowTrue(c)
      BY DEF LockInv, ChildInv
    <3>3. row[c].status \notin Waiting \cup {"releasing"}
      BY <1>2, <2>2, <3>1, <3>2, HandlerFacts, <1>1 DEF RowTrue, Loose, Quiet
    <3>4. row[c].status \in ChildStatuses
      BY <1>1, HandlerFacts DEF Rows
    <3>. QED  BY <1>2, <3>1, <3>3, <3>4 DEF ChildStatuses, Taken, TerminalChildStatuses, Waiting
  <2>. QED  BY <1>1, <1>3, <2>1, <2>2 DEF GoesOn
<1>5. ASSUME NEW c \in Children PROVE RowKept(c) /\ QuietKept(c)
  <2>1. row'[c].task = row[c].task
    BY <1>2
  <2>2. ASSUME "redeliver" \notin Environment, Quiet(row[c].task), row[c].task # Nil
        PROVE  /\ row[c].task \in delivered'
               /\ \A v \in Workers : worker'[v].event # row[c].task
    BY <1>2, <1>3, <2>2 DEF Quiet, Others
  <2>3. QuietKept(c)
    BY <2>1, <2>2 DEF QuietKept, Quiet
  <2>. QED  BY <1>2, <2>3 DEF RowKept
<1>. QED  BY <1>1, <1>2, <1>3, <1>4, <1>5, LockKept

LEMMA LockClaim ==
  ASSUME HandlersInv, LockInv, NEW w \in Workers, Claim(w)
  PROVE  LockInv'
<1>1. PICK c \in worker[w].queue :
        /\ row' = IF row[c].status \in Waiting
                  THEN [row EXCEPT ![c].status = "releasing"] ELSE row
        /\ worker' = [worker EXCEPT ![w] = [@ EXCEPT
                !.queue = worker[w].queue \ {c},
                !.pc = IF row[c].status \in Waiting THEN "lookup" ELSE "release",
                !.child = IF row[c].status \in Waiting THEN c ELSE Nil]]
  BY DEF Claim
<1>. DEFINE pc == IF row[c].status \in Waiting THEN "lookup" ELSE "release"
            child == IF row[c].status \in Waiting THEN c ELSE Nil
<1>2. /\ worker[w] \in HandlerType /\ At(w, "release") /\ c \in Children /\ row \in Rows
  BY HandlerFacts DEF Claim, HandlerType
<1>3. worker' = [worker EXCEPT ![w] = [worker[w] EXCEPT !.queue = worker[w].queue \ {c},
                                                        !.pc = pc, !.child = child]]
  BY <1>1
<1>4. /\ worker'[w].pc = pc /\ worker'[w].child = child
      /\ worker'[w].queue = worker[w].queue \ {c}
      /\ worker'[w].event = worker[w].event /\ worker'[w].job = worker[w].job
      /\ worker'[w].rows = worker[w].rows
  <2>. HIDE DEF pc, child
  <2>1. worker'[w] = [worker[w] EXCEPT !.queue = worker[w].queue \ {c},
                                       !.pc = pc, !.child = child]
    BY <1>3, HandlerFacts
  <2>. QED  BY <1>2, <2>1 DEF HandlerType
<1>5. Others(w)
  BY <1>3, OthersKept
<1>6. UNCHANGED <<task, delivered, reopens>>
  BY DEF Claim
<1>7. CASE row[c].status \notin Waiting
  <2>1. pc = "release" /\ row' = row
    BY <1>1, <1>7
  <2>. HIDE DEF pc
  <2>2. \A d \in Children : GoesOn(w, d)
    BY <1>2, <1>4, <2>1, WantsNext DEF RowKept, At
  <2>. QED  BY <1>4, <1>5, <1>6, <2>1, <2>2, LockLocal
<1>8. CASE row[c].status \in Waiting
  <2>1. /\ worker'[w].pc = "lookup" /\ worker'[w].child = c
        /\ row' = [row EXCEPT ![c].status = "releasing"]
    BY <1>1, <1>4, <1>8
  <2>2. row'[c].task = row[c].task /\ row'[c].status = "releasing"
        /\ \A d \in Children : d # c => row'[d] = row[d]
    BY <1>2, <2>1 DEF Rows
  <2>. HIDE DEF pc, child
  <2>3. \A v \in Workers, d \in Children : Reopening(v, d)' => Reopening(v, d)
    BY <1>5, <2>1 DEF Reopening, Others
  <2>4. w # "sweep" \/ ~At("sweep", "reset")'
    BY <2>1 DEF At
  <2>5. ~Concluding(w)'
    BY <2>1 DEF Concluding, At
  <2>6. \A d \in Children : QuietKept(d)
    BY <1>4, <1>5, <1>6, <2>2, QuietStays
  <2>7. ASSUME NEW d \in Children, d # c PROVE ChildInv(d)'
    <3>1. RowKept(d)
      BY <2>2, <2>7 DEF RowKept
    <3>2. ~Holds(w, d)'
      BY <2>1, <2>7 DEF Holds
    <3>3. Wants(w, d)' => Wants(w, d)
      BY <1>2, <1>4, <2>1 DEF Wants, At, Holding
    <3>4. GoesOn(w, d)
      BY <1>4, <2>2, <2>3, <2>4, <2>5, <2>7, <3>2, <3>3
         DEF GoesOn, LockInv, ChildInv, FreshAt, Unsticking, At
    <3>. QED  BY <1>5, <1>6, <2>6, <3>1, <3>4, ChildKept
  <2>8. ChildInv(c)'
    <3>1. /\ ChildInv(c) /\ UNCHANGED Loose /\ (\A t : Over(t)' <=> Over(t))
          /\ row[c].status \notin Taken \cup TerminalChildStatuses \cup {"releasing"}
      <4>1. ChildInv(c)
        BY <1>2 DEF LockInv
      <4>2. UNCHANGED Loose /\ \A t : Over(t)' <=> Over(t)
        BY <1>6 DEF Loose, Over
      <4>3. row[c].status \notin Taken \cup TerminalChildStatuses \cup {"releasing"}
        BY <1>8 DEF Waiting, Taken, TerminalChildStatuses
      <4>. QED  BY <4>1, <4>2, <4>3
    <3>2. Wants(w, c)
      BY <1>2 DEF Wants, At
    <3>3. /\ worker[w].rows[c].task = row[c].task /\ Over(row[c].task)
          /\ \A v \in Workers : ~Reopening(v, c)
      <4>1. RowTrue(c) /\ FreshAt(c)
        BY <3>1 DEF ChildInv
      <4>2. Over(row[c].task)
        BY <3>1, <4>1 DEF RowTrue, Taken
      <4>. QED  BY <3>1, <3>2, <4>1, <4>2 DEF FreshAt
    <3>4. \A v \in Workers : ~Holds(v, c)
      BY <3>1 DEF ChildInv, LockedAt
    <3>5. \A v \in Workers : v # w => ~Holds(v, c)'
      BY <1>5, <3>4 DEF Holds, Others
    <3>6. RowTrue(c)'
      <4>1. /\ reopens' = 0 => row'[c].task = Nil
            /\ "redeliver" \notin Environment => Quiet(row[c].task)'
        BY <1>2, <1>6, <1>8, <2>2, <2>6, <3>1 DEF ChildInv, RowTrue, QuietKept
      <4>2. Over(row[c].task)'
        BY <2>2, <3>1, <3>3
      <4>. QED  BY <2>2, <4>1, <4>2 DEF RowTrue
    <3>7. KnownAt(c)'
      BY <1>6, <2>2, <3>1 DEF ChildInv, KnownAt
    <3>8. LockedAt(c)'
      BY <1>4, <2>1, <2>2, <3>1, <3>3, <3>5 DEF LockedAt, At
    <3>9. ReopenedAt(c)'
      BY <1>2, <2>3, <3>3 DEF ReopenedAt
    <3>10. SweptAt(c)'
      <4>1. "sweep" \in Workers
        BY DEF Workers
      <4>2. ~Unsticking(c) /\ ~(At("sweep", "reset") /\ c \in worker["sweep"].queue)
        BY <3>1 DEF ChildInv, SweptAt
      <4>3. ~Unsticking(c)' /\ ~(At("sweep", "reset")' /\ c \in worker'["sweep"].queue)
        BY <1>5, <2>4, <4>1, <4>2 DEF Unsticking, At, Others
      <4>. QED  BY <4>3 DEF SweptAt
    <3>11. FreshAt(c)'
      <4>1. ~Wants(w, c)'
        BY <1>4, <2>1 DEF Wants, At
      <4>2. ASSUME NEW v \in Workers, Wants(v, c)'
            PROVE  worker'[v].rows[c].task = row'[c].task
        <5>1. v # w /\ worker'[v] = worker[v]
          BY <1>5, <4>1, <4>2 DEF Others
        <5>2. Wants(v, c)
          BY <4>2, <5>1 DEF Wants, At
        <5>. QED  BY <2>2, <3>1, <5>1, <5>2 DEF ChildInv, FreshAt
      <4>. QED  BY <1>2, <2>3, <3>3, <4>2 DEF FreshAt
    <3>12. EventsAt(c)'
      <4>1. ASSUME NEW v \in Workers, Concluding(v)', worker'[v].child = c
            PROVE  Loose
        <5>1. v # w /\ worker'[v] = worker[v]
          BY <1>5, <2>5, <4>1 DEF Others
        <5>2. Concluding(v) /\ worker[v].child = c
          BY <4>1, <5>1 DEF Concluding, At
        <5>. QED  BY <3>1, <5>2 DEF ChildInv, EventsAt
      <4>. QED  BY <3>1, <4>1 DEF EventsAt
    <3>. QED  BY <3>6, <3>7, <3>8, <3>9, <3>10, <3>11, <3>12 DEF ChildInv
  <2>9. \A d \in Children : ChildInv(d)'
    BY <2>7, <2>8
  <2>. QED  BY <1>4, <1>5, <1>6, <2>9, LockByChild
<1>. QED  BY <1>7, <1>8

\* A row that is given back while nobody is at it can be claimed again.
LEMMA ChildGivenBack ==
  ASSUME LockInv, NEW w \in Workers, Others(w), UNCHANGED <<task, reopens>>,
         NEW c \in Children, row'[c].task = row[c].task, row'[c].status \in Waiting,
         QuietKept(c), Over(row[c].task), reopens = 0 => row[c].task = Nil,
         "redeliver" \notin Environment => Quiet(row[c].task),
         \A v \in Workers : ~Holds(v, c)' /\ ~Reopening(v, c)',
         ~Unsticking(c)', ~(At("sweep", "reset")' /\ c \in worker'["sweep"].queue),
         \A v \in Workers : Wants(v, c)' => worker'[v].rows[c].task = row[c].task,
         \A v \in Workers : Concluding(v)' /\ worker'[v].child = c => Loose
  PROVE  ChildInv(c)'
<1>1. KnownAt(c)'
  BY DEF LockInv, ChildInv, KnownAt
<1>2. RowTrue(c)'
  <2>1. /\ reopens' = 0 => row'[c].task = Nil
        /\ "redeliver" \notin Environment => Quiet(row[c].task)'
        /\ Over(row[c].task)'
    BY DEF QuietKept, Over
  <2>. QED  BY <2>1 DEF RowTrue, Waiting
<1>3. LockedAt(c)' /\ ReopenedAt(c)' /\ SweptAt(c)'
  BY DEF LockedAt, ReopenedAt, SweptAt
<1>4. FreshAt(c)'
  BY DEF FreshAt
<1>5. EventsAt(c)'
  BY DEF EventsAt, Loose
<1>. QED  BY <1>1, <1>2, <1>3, <1>4, <1>5 DEF ChildInv

\* A row that was being released is ready again when its holder gives up, or when
\* the sweep finds it stuck.
LEMMA ChildReady ==
  ASSUME LockInv, NEW w \in Workers, Others(w), UNCHANGED <<task, reopens>>,
         NEW c \in Children, row[c].status = "releasing",
         row'[c].task = row[c].task, row'[c].status \in Waiting, QuietKept(c),
         \A v \in Workers : ~Holds(v, c)', ~Unsticking(c)',
         Reopening(w, c)' => Reopening(w, c), ~Concluding(w)',
         w = "sweep" /\ At(w, "reset")' => At(w, "reset") /\ worker'[w].queue = worker[w].queue,
         Wants(w, c)' => Wants(w, c) /\ worker'[w].rows = worker[w].rows
  PROVE  ChildInv(c)'
<1>1. ChildInv(c) /\ row[c].status \notin Taken /\ row[c].status \notin TerminalChildStatuses
  BY DEF LockInv, Taken, TerminalChildStatuses
<1>2. /\ Over(row[c].task) /\ (reopens = 0 => row[c].task = Nil)
      /\ "redeliver" \notin Environment => Quiet(row[c].task)
  BY <1>1 DEF ChildInv, RowTrue
<1>3. \A v \in Workers : ~Reopening(v, c)'
  BY <1>1, NotReopening DEF Reopening, Others
<1>4. ~(At("sweep", "reset")' /\ c \in worker'["sweep"].queue)
  <2>1. ~(At("sweep", "reset") /\ c \in worker["sweep"].queue)
    BY <1>1 DEF ChildInv, SweptAt
  <2>. QED  BY <2>1 DEF At, Others, Workers
<1>5. ASSUME NEW v \in Workers, Wants(v, c)'
      PROVE  worker'[v].rows[c].task = row[c].task
  <2>1. Wants(v, c) /\ worker'[v].rows = worker[v].rows
    BY <1>5 DEF Wants, Others, At
  <2>. QED  BY <1>1, <2>1 DEF ChildInv, FreshAt
<1>6. ASSUME NEW v \in Workers, Concluding(v)', worker'[v].child = c
      PROVE  Loose
  <2>1. v # w /\ Concluding(v) /\ worker[v].child = c
    BY <1>6 DEF Concluding, Others, At
  <2>. QED  BY <1>1, <2>1 DEF ChildInv, EventsAt
<1>. QED  BY <1>2, <1>3, <1>4, <1>5, <1>6, ChildGivenBack

\* A row that the user reopened can be claimed again.
LEMMA ChildReopened ==
  ASSUME HandlersInv, LockInv, NEW w \in Workers, Others(w), UNCHANGED <<task, reopens>>,
         NEW c \in Children, Reopening(w, c),
         row'[c].task = row[c].task, row'[c].status \in Waiting, QuietKept(c),
         ~Reopening(w, c)', worker'[w].pc = "write", worker'[w].job = worker[w].job
  PROVE  ChildInv(c)'
<1>1. /\ ChildInv(c) /\ worker[w].job \in {"retry", "fix"} /\ reopens > 0
      /\ worker[w].pc = "write"
  BY HandlerFacts DEF LockInv, Reopening, HandlerOK, ControlOf
<1>2. /\ Over(row[c].task) /\ row[c].status \in TerminalChildStatuses
      /\ "redeliver" \notin Environment => Quiet(row[c].task)
      /\ \A v \in Workers : ~Holds(v, c)
  BY <1>1 DEF ChildInv, ReopenedAt
<1>3. \A v \in Workers : ~Holds(v, c)'
  BY <1>2 DEF Holds, Others, Holding
<1>4. \A v \in Workers : ~Reopening(v, c)'
  <2>1. \A v \in Workers : v # w => ~Reopening(v, c)
    BY <1>1 DEF LockInv, OneReopener, Reopening
  <2>. QED  BY <2>1 DEF Reopening, Others
<1>5. ~Unsticking(c)' /\ ~(At("sweep", "reset")' /\ c \in worker'["sweep"].queue)
  <2>1. ~Unsticking(c) /\ ~(At("sweep", "reset") /\ c \in worker["sweep"].queue)
    BY <1>1 DEF ChildInv, SweptAt
  <2>. QED  BY <2>1 DEF Unsticking, At, Others, Workers
<1>6. \A v \in Workers : ~Wants(v, c)'
  <2>1. \A v \in Workers : ~Wants(v, c)
    BY <1>1 DEF ChildInv, FreshAt
  <2>. QED  BY <2>1 DEF Wants, At, Others, Holding
<1>7. ASSUME NEW v \in Workers, Concluding(v)', worker'[v].child = c
      PROVE  Loose
  <2>1. v # w /\ Concluding(v) /\ worker[v].child = c
    BY <1>1, <1>7 DEF Concluding, Others, At
  <2>2. worker[v].event \in TaskIds
    BY <2>1, HandlerFacts DEF Concluding, HandlerOK, ControlOf, At
  <2>3. "redeliver" \notin Environment => worker[v].event # row[c].task
    BY <1>2, <2>1, <2>2 DEF Quiet
  <2>. QED  BY <1>1, <2>1, <2>3 DEF ChildInv, EventsAt, Loose
<1>8. reopens = 0 => row[c].task = Nil
  BY <1>1
<1>. QED  BY <1>2, <1>3, <1>4, <1>5, <1>6, <1>7, <1>8, ChildGivenBack

LEMMA EndReleaseFacts ==
  ASSUME HandlersInv, NEW w \in Workers, worker[w].pc \in {"record", "rollback", "refuse"},
         NEW c, c = worker[w].child, NEW new, EndRelease(w, new)
  PROVE  /\ c \in Children /\ Holds(w, c) /\ worker[w].pc \in Holding
         /\ row' = IF row[c].status = "releasing" THEN [row EXCEPT ![c] = new] ELSE row
         /\ \A d \in Children : d # c => row'[d] = row[d]
         /\ row[c].status = "releasing" => row'[c] = new
         /\ row[c].status # "releasing" => row'[c] = row[c]
         /\ worker'[w].pc = "release" /\ worker'[w].event = worker[w].event
         /\ worker'[w].job = worker[w].job /\ worker'[w].rows = worker[w].rows
         /\ worker'[w].queue = worker[w].queue
         /\ Others(w) /\ UNCHANGED <<task, delivered, reopens>>
<1>. DEFINE refused == IF new.status = "failed" THEN worker[w].refused \cup {c}
                                                ELSE worker[w].refused
            h == [worker[w] EXCEPT !.pc = "release", !.child = Nil, !.made = Nil,
                                   !.refused = refused]
<1>1. worker[w] \in HandlerType /\ c \in Children /\ worker[w].pc \in Holding /\ row \in Rows
  BY HandlerFacts DEF HandlerOK, ControlOf, Holding
<1>2. worker' = [worker EXCEPT ![w] = h]
      /\ row' = IF row[c].status = "releasing" THEN [row EXCEPT ![c] = new] ELSE row
  BY DEF EndRelease
<1>. HIDE DEF refused
<1>3. worker'[w] = h /\ Others(w)
  BY <1>2, HandlerFacts DEF Others
<1>4. /\ worker'[w].pc = "release" /\ worker'[w].event = worker[w].event
      /\ worker'[w].job = worker[w].job /\ worker'[w].rows = worker[w].rows
      /\ worker'[w].queue = worker[w].queue
  BY <1>1, <1>3 DEF HandlerType
<1>5. /\ \A d \in Children : d # c => row'[d] = row[d]
      /\ row[c].status = "releasing" => row'[c] = new
      /\ row[c].status # "releasing" => row'[c] = row[c]
  BY <1>1, <1>2 DEF Rows
<1>. QED  BY <1>1, <1>2, <1>3, <1>4, <1>5 DEF EndRelease, Holds

\* Whatever ends a release, what is left to show is what it makes of its own child.
LEMMA LockEndRelease ==
  ASSUME HandlersInv, LockInv, NEW w \in Workers,
         worker[w].pc \in {"record", "rollback", "refuse"},
         NEW c, c = worker[w].child, NEW new, EndRelease(w, new),
         row[c].status = "releasing" => ChildInv(c)'
  PROVE  LockInv'
<1>1. \A d \in Children : d # c => RowKept(d)
  BY EndReleaseFacts DEF RowKept
<1>2. row[c].status # "releasing" => RowKept(c)
  BY EndReleaseFacts DEF RowKept
<1>3. ASSUME NEW d \in Children, RowKept(d) PROVE ChildInv(d)'
  <2>1. row'[d].task = row[d].task
    BY <1>3 DEF RowKept
  <2>2. QuietKept(d)
    BY <2>1, EndReleaseFacts, QuietStays
  <2>3. GoesOn(w, d)
    BY <1>3, EndReleaseFacts, WantsNext
  <2>. QED  BY <1>3, <2>2, <2>3, EndReleaseFacts, ChildKept
<1>4. \A d \in Children : ChildInv(d)'
  BY <1>1, <1>2, <1>3, EndReleaseFacts
<1>. QED  BY <1>4, EndReleaseFacts, LockByChild

LEMMA LockRollBack ==
  ASSUME HandlersInv, LockInv, NEW w \in Workers, RollBackClaim(w)
  PROVE  LockInv'
<1>. PICK c : c = worker[w].child
  OBVIOUS
<1>. DEFINE new == [row[c] EXCEPT !.status = "ready"]
<1>1. worker[w].pc \in {"record", "rollback", "refuse"} /\ EndRelease(w, new)
  BY DEF RollBackClaim, At
<1>. HIDE DEF new
<1>2. /\ c \in Children /\ Holds(w, c) /\ worker[w].pc \in Holding
      /\ row[c].status = "releasing" => row'[c] = new
      /\ worker'[w].pc = "release" /\ worker'[w].event = worker[w].event
      /\ worker'[w].job = worker[w].job /\ worker'[w].rows = worker[w].rows
      /\ worker'[w].queue = worker[w].queue
      /\ Others(w) /\ UNCHANGED <<task, delivered, reopens>>
  BY <1>1, EndReleaseFacts
<1>3. ASSUME row[c].status = "releasing" PROVE ChildInv(c)'
  <2>1. row'[c].task = row[c].task /\ row'[c].status \in Waiting
    BY <1>2, <1>3, HandlerFacts DEF new, Rows, Waiting
  <2>2. QuietKept(c)
    BY <1>2, <2>1, QuietStays
  <2>3. /\ \A v \in Workers : Holds(v, c) => v = w
        /\ ~Unsticking(c)
    BY <1>2 DEF LockInv, ChildInv, LockedAt, SweptAt
  <2>4. \A v \in Workers : ~Holds(v, c)'
    BY <1>2, <2>3 DEF Holds, Others, Holding
  <2>5. ~Unsticking(c)'
    BY <1>2, <2>3 DEF Unsticking, At, Others, Workers
  <2>6. /\ ~Reopening(w, c)' /\ ~Concluding(w)' /\ ~At(w, "reset")'
        /\ Wants(w, c)' => Wants(w, c)
    BY <1>2 DEF Reopening, Concluding, At, Wants
  <2>. QED  BY <1>2, <1>3, <2>1, <2>2, <2>4, <2>5, <2>6, ChildReady
<1>. QED  BY <1>1, <1>3, LockEndRelease

LEMMA LockFailClaim ==
  ASSUME HandlersInv, LockInv, NEW w \in Workers, FailClaimTerminal(w)
  PROVE  LockInv'
<1>. PICK c : c = worker[w].child
  OBVIOUS
<1>. DEFINE new == [row[c] EXCEPT !.status = "failed"]
<1>1. worker[w].pc \in {"record", "rollback", "refuse"} /\ EndRelease(w, new)
  BY DEF FailClaimTerminal, At
<1>. HIDE DEF new
<1>2. /\ c \in Children /\ Holds(w, c) /\ worker[w].pc \in Holding
      /\ row[c].status = "releasing" => row'[c] = new
      /\ worker'[w].pc = "release" /\ worker'[w].event = worker[w].event
      /\ worker'[w].job = worker[w].job /\ worker'[w].rows = worker[w].rows
      /\ worker'[w].queue = worker[w].queue
      /\ Others(w) /\ UNCHANGED <<task, delivered, reopens>>
  BY <1>1, EndReleaseFacts
<1>3. ASSUME row[c].status = "releasing" PROVE ChildInv(c)'
  <2>1. row'[c].task = row[c].task /\ row'[c].status \in TerminalChildStatuses
    BY <1>2, <1>3, HandlerFacts DEF new, Rows, TerminalChildStatuses
  <2>2. QuietKept(c)
    BY <1>2, <2>1, QuietStays
  <2>3. Over(row[c].task)
    BY <1>2 DEF LockInv, ChildInv, LockedAt
  <2>4. RowKept(c)
    BY <2>1, <2>3 DEF RowKept
  <2>5. GoesOn(w, c)
    BY <1>2, <2>4, WantsNext
  <2>. QED  BY <1>2, <2>2, <2>4, <2>5, ChildKept
<1>. QED  BY <1>1, <1>3, LockEndRelease

LEMMA LockRecord ==
  ASSUME HandlersInv, LockInv, NEW w \in Workers, Record(w)
  PROVE  LockInv'
<1>. PICK c : c = worker[w].child
  OBVIOUS
<1>. PICK made : made = worker[w].made
  OBVIOUS
<1>. DEFINE new == [status |-> "released", task |-> made]
<1>1. worker[w].pc \in {"record", "rollback", "refuse"} /\ EndRelease(w, new)
  BY DEF Record, At
<1>. HIDE DEF new
<1>2. /\ c \in Children /\ Holds(w, c) /\ worker[w].pc \in Holding
      /\ row[c].status = "releasing" => row'[c] = new
      /\ worker'[w].pc = "release" /\ worker'[w].event = worker[w].event
      /\ worker'[w].job = worker[w].job /\ worker'[w].rows = worker[w].rows
      /\ worker'[w].queue = worker[w].queue
      /\ Others(w) /\ UNCHANGED <<task, delivered, reopens>>
  BY <1>1, EndReleaseFacts
<1>3. ASSUME row[c].status = "releasing" PROVE ChildInv(c)'
  <2>1. row'[c].task = made /\ row'[c].status = "released"
    BY <1>2, <1>3 DEF new
  <2>2. /\ ChildInv(c) /\ row[c].status \notin Taken /\ row[c].status \notin TerminalChildStatuses
        /\ UNCHANGED Loose
    BY <1>2, <1>3 DEF LockInv, Taken, TerminalChildStatuses, Loose
  <2>3. /\ made \in Created(c, row[c].task) /\ Over(row[c].task)
        /\ \A v \in Workers : Holds(v, c) => v = w
    BY <1>2, <2>2 DEF ChildInv, LockedAt, Record
  <2>4. RowTrue(c)'
    BY <2>1 DEF RowTrue, Waiting
  <2>5. KnownAt(c)'
    <3>1. ASSUME NEW t \in TaskIds, task[t].state = "running", task[t].child = c
          PROVE  t = made
      <4>1. t # row[c].task
        BY <2>3, <3>1 DEF Over, Ended
      <4>2. task[t].prior = row[c].task
        BY <2>2, <3>1, <4>1 DEF ChildInv, KnownAt
      <4>. QED  BY <1>2, <2>3, <3>1, <4>2 DEF LockInv, TasksTrue, Created
    <3>. QED  BY <1>2, <2>1, <3>1 DEF KnownAt
  <2>6. \A v \in Workers : ~Holds(v, c)' /\ ~Reopening(v, c)'
    <3>1. \A v \in Workers : ~Reopening(v, c)
      BY <1>2, <2>2, NotReopening
    <3>. QED  BY <1>2, <2>3, <3>1 DEF Holds, Reopening, Others, Holding
  <2>7. ~Unsticking(c)' /\ ~(At("sweep", "reset")' /\ c \in worker'["sweep"].queue)
    <3>1. ~Unsticking(c) /\ ~(At("sweep", "reset") /\ c \in worker["sweep"].queue)
      BY <1>2, <2>2 DEF ChildInv, SweptAt
    <3>. QED  BY <1>2, <3>1 DEF Unsticking, At, Others, Workers
  <2>8. FreshAt(c)'
    BY <2>1, <2>6 DEF FreshAt, Taken
  <2>9. EventsAt(c)'
    <3>1. ASSUME NEW v \in Workers, Concluding(v)', worker'[v].child = c
          PROVE  Loose
      <4>1. v # w /\ Concluding(v) /\ worker[v].child = c
        BY <1>2, <3>1 DEF Concluding, Others, At
      <4>. QED  BY <2>2, <4>1 DEF ChildInv, EventsAt
    <3>. QED  BY <2>2, <3>1 DEF EventsAt
  <2>. QED  BY <2>4, <2>5, <2>6, <2>7, <2>8, <2>9 DEF ChildInv, LockedAt, ReopenedAt, SweptAt
<1>. QED  BY <1>1, <1>3, LockEndRelease

LEMMA WriteFacts ==
  ASSUME HandlersInv, NEW w \in Workers, NEW wr \in worker[w].writes,
         worker[w].pc \in {"write", "reset", "cascade"},
         row' = IF Applies(w, wr)
                THEN [row EXCEPT ![wr.child].status = wr.status] ELSE row,
         worker' = [worker EXCEPT ![w].writes = @ \ {wr}]
  PROVE  /\ wr.child \in Children
         /\ \A d \in Children : d # wr.child => row'[d] = row[d]
         /\ ~Applies(w, wr) => row' = row
         /\ Applies(w, wr) => /\ row'[wr.child].task = row[wr.child].task
                              /\ row'[wr.child].status = wr.status
         /\ worker'[w].pc = worker[w].pc /\ worker'[w].job = worker[w].job
         /\ worker'[w].event = worker[w].event /\ worker'[w].child = worker[w].child
         /\ worker'[w].rows = worker[w].rows /\ worker'[w].queue = worker[w].queue
         /\ worker'[w].writes = worker[w].writes \ {wr}
         /\ \A x \in worker'[w].writes : x.child # wr.child
         /\ Others(w)
<1>1. worker[w] \in HandlerType /\ wr \in Writes /\ row \in Rows /\ WritingOf(w)
  BY HandlerFacts DEF HandlerType, HandlerOK
<1>2. worker'[w] = [worker[w] EXCEPT !.writes = @ \ {wr}] /\ Others(w)
  BY HandlerFacts DEF Others
<1>3. /\ worker'[w].pc = worker[w].pc /\ worker'[w].job = worker[w].job
      /\ worker'[w].event = worker[w].event /\ worker'[w].child = worker[w].child
      /\ worker'[w].rows = worker[w].rows /\ worker'[w].queue = worker[w].queue
      /\ worker'[w].writes = worker[w].writes \ {wr}
  BY <1>1, <1>2 DEF HandlerType
<1>4. \A x \in worker'[w].writes : x.child # wr.child
  BY <1>1, <1>3 DEF WritingOf
<1>5. /\ wr.child \in Children
      /\ \A d \in Children : d # wr.child => row'[d] = row[d]
      /\ Applies(w, wr) => /\ row'[wr.child].task = row[wr.child].task
                           /\ row'[wr.child].status = wr.status
  BY <1>1 DEF Rows, Writes
<1>. QED  BY <1>2, <1>3, <1>4, <1>5

\* What a handler writes to its event's child or skips is over, or came late.
LEMMA WriteEnds ==
  ASSUME HandlersInv, LockInv, NEW w \in Workers, NEW wr \in worker[w].writes,
         worker[w].pc \in {"write", "reset", "cascade"}, Applies(w, wr),
         wr.status \in TerminalChildStatuses
  PROVE  Over(row[wr.child].task) \/ Loose
<1>1. /\ HandlerOK(w) /\ wr.child \in Children /\ ChildInv(wr.child)
  BY HandlerFacts DEF HandlerType, Writes, LockInv
<1>2. CASE wr.status = "skipped"
  <2>1. row[wr.child].status \in Waiting
    BY <1>2 DEF Applies
  <2>. QED  BY <1>1, <2>1 DEF ChildInv, RowTrue, Waiting
<1>3. CASE wr.status # "skipped" /\ worker[w].job \in {"retry", "fix"}
  <2>1. Reopening(w, wr.child)
    BY <1>1, <1>3 DEF HandlerOK, ControlOf, WritingOf, Reopening, At, TerminalChildStatuses
  <2>. QED  BY <1>1, <2>1 DEF ChildInv, ReopenedAt
<1>4. CASE wr.status # "skipped" /\ worker[w].job \notin {"retry", "fix"}
  <2>1. At(w, "write") /\ worker[w].job = "reconcile" /\ wr.child = worker[w].child
    BY <1>1, <1>4 DEF HandlerOK, ControlOf, WritingOf, At, TerminalChildStatuses
  <2>2. Concluding(w) /\ worker[w].event \in TaskIds
        /\ task[worker[w].event].state \in Ended
    BY <1>1, <2>1, IdleType DEF Concluding, HandlerOK, ControlOf, At
  <2>. QED  BY <1>1, <2>1, <2>2 DEF ChildInv, EventsAt, Over
<1>. QED  BY <1>2, <1>3, <1>4

LEMMA LockWrite ==
  ASSUME HandlersInv, LockInv, NEW w \in Workers, Write(w)
  PROVE  LockInv'
<1>1. PICK wr \in worker[w].writes :
        /\ row' = IF Applies(w, wr)
                  THEN [row EXCEPT ![wr.child].status = wr.status] ELSE row
        /\ worker' = [worker EXCEPT ![w].writes = @ \ {wr}]
  BY DEF Write
<1>2. worker[w].pc \in {"write", "reset", "cascade"}
  BY DEF Write
<1>3. PICK c : c = wr.child
  OBVIOUS
<1>4. /\ c \in Children
      /\ \A d \in Children : d # c => row'[d] = row[d]
      /\ ~Applies(w, wr) => row' = row
      /\ Applies(w, wr) => row'[c].task = row[c].task /\ row'[c].status = wr.status
      /\ worker'[w].pc = worker[w].pc /\ worker'[w].job = worker[w].job
      /\ worker'[w].event = worker[w].event /\ worker'[w].child = worker[w].child
      /\ worker'[w].rows = worker[w].rows /\ worker'[w].queue = worker[w].queue
      /\ worker'[w].writes = worker[w].writes \ {wr}
      /\ \A x \in worker'[w].writes : x.child # c
      /\ Others(w)
  <2>1. /\ wr.child \in Children
        /\ \A d \in Children : d # wr.child => row'[d] = row[d]
        /\ ~Applies(w, wr) => row' = row
        /\ Applies(w, wr) => /\ row'[wr.child].task = row[wr.child].task
                             /\ row'[wr.child].status = wr.status
        /\ worker'[w].pc = worker[w].pc /\ worker'[w].job = worker[w].job
        /\ worker'[w].event = worker[w].event /\ worker'[w].child = worker[w].child
        /\ worker'[w].rows = worker[w].rows /\ worker'[w].queue = worker[w].queue
        /\ worker'[w].writes = worker[w].writes \ {wr}
        /\ \A x \in worker'[w].writes : x.child # wr.child
        /\ Others(w)
    BY <1>1, <1>2, WriteFacts, Zenon
  <2>. QED  BY <1>3, <2>1
<1>5. UNCHANGED <<task, delivered, reopens>> /\ worker[w] \in HandlerType /\ HandlerOK(w)
      /\ row \in Rows
  BY HandlerFacts DEF Write
<1>6. ASSUME NEW d \in Children PROVE QuietKept(d)
  <2>1. row'[d].task = row[d].task
    BY <1>4
  <2>. QED  BY <1>4, <1>5, <2>1, QuietStays
<1>7. /\ \A d \in Children : Reopening(w, d)' => Reopening(w, d)
      /\ \A d \in Children : w = "sweep" /\ Unsticking(d)' => Unsticking(d)
      /\ \A d \in Children : ~Holds(w, d)'
      /\ \A d \in Children : Wants(w, d)' => Wants(w, d)
      /\ Concluding(w)' => Concluding(w)
  BY <1>2, <1>4 DEF Reopening, Unsticking, Holds, Wants, Concluding, At, Holding
<1>8. ASSUME NEW d \in Children, RowKept(d) PROVE ChildInv(d)'
  <2>1. ChildInv(d)
    BY DEF LockInv
  <2>2. row[d].status \in Taken => row'[d].status \in Taken
    BY <1>8 DEF RowKept, Taken
  <2>3. w = "sweep" /\ worker'[w].pc = "reset" /\ d \in worker'[w].queue =>
          /\ row'[d].status \in Taken
          /\ worker'[w].rows[d].task = row[d].task
          /\ row[d].task \in TaskIds
          /\ \A v \in Workers : ~Reopening(v, d)
    BY <1>4, <2>1, <2>2 DEF ChildInv, SweptAt, At
  <2>4. Wants(w, d)' =>
          /\ worker'[w].rows[d].task = row[d].task \/ row'[d].status \in Taken
          /\ \A v \in Workers : ~Reopening(v, d)
    BY <1>4, <1>7, <2>1, <2>2 DEF ChildInv, FreshAt
  <2>5. Concluding(w)' /\ worker'[w].child = d =>
          \/ Loose
          \/ row[d].task = worker'[w].event /\ row'[d].status \in Taken
    BY <1>4, <1>7, <2>1, <2>2 DEF ChildInv, EventsAt
  <2>6. GoesOn(w, d)
    BY <1>4, <1>7, <2>3, <2>4, <2>5 DEF GoesOn
  <2>. QED  BY <1>4, <1>5, <1>6, <1>8, <2>6, ChildKept
<1>9. \A d \in Children : d # c => RowKept(d)
  BY <1>4 DEF RowKept
<1>10. ChildInv(c)'
  <2>1. CASE ~Applies(w, wr)
    <3>1. RowKept(c)
      BY <1>4, <2>1 DEF RowKept
    <3>. QED  BY <1>4, <1>8, <3>1
  <2>2. CASE Applies(w, wr) /\ wr.status \in TerminalChildStatuses
    <3>1. RowKept(c)
      BY <1>2, <1>3, <1>4, <2>2, WriteEnds DEF RowKept
    <3>. QED  BY <1>4, <1>8, <3>1
  <2>3. CASE Applies(w, wr) /\ wr.status \notin TerminalChildStatuses
    <3>1. row'[c].task = row[c].task /\ row'[c].status = wr.status
      BY <1>4, <2>3
    <3>2. \/ At(w, "write") /\ worker[w].job \in {"retry", "fix"} /\ wr.status \in Waiting
          \/ At(w, "reset") /\ worker[w].job = "sweep" /\ w = "sweep" /\ wr.status = "ready"
      BY <1>2, <1>5, <2>3 DEF HandlerOK, ControlOf, WritingOf, At, TerminalChildStatuses,
         Waiting, Ended
    <3>3. CASE At(w, "write") /\ worker[w].job \in {"retry", "fix"} /\ wr.status \in Waiting
      <4>1. Reopening(w, c) /\ ~Reopening(w, c)'
        BY <1>3, <1>4, <3>3 DEF Reopening, At
      <4>. QED  BY <1>4, <1>5, <1>6, <3>1, <3>3, <4>1, ChildReopened DEF At
    <3>4. CASE At(w, "reset") /\ worker[w].job = "sweep" /\ w = "sweep" /\ wr.status = "ready"
      <4>1. row[c].status = "releasing"
        BY <1>3, <2>3, <3>4 DEF Applies
      <4>2. Unsticking(c) /\ ~Unsticking(c)'
        BY <1>3, <1>4, <3>4 DEF Unsticking, At
      <4>3. \A v \in Workers : ~Holds(v, c)'
        BY <1>4, <1>7, <4>2 DEF LockInv, ChildInv, SweptAt, Holds, Others
      <4>4. ~Concluding(w)' /\ ~Wants(w, c)'
        BY <1>4, <3>4 DEF Concluding, Wants, At, Holding
      <4>5. row'[c].status \in Waiting
        BY <3>1, <3>4 DEF Waiting
      <4>6. Reopening(w, c)' => Reopening(w, c)
        BY <1>4, <1>7
      <4>. QED  BY <1>4, <1>5, <1>6, <3>1, <3>4, <4>1, <4>2, <4>3, <4>4, <4>5, <4>6, ChildReady
    <3>. QED  BY <3>2, <3>3, <3>4
  <2>. QED  BY <2>1, <2>2, <2>3
<1>11. \A d \in Children : ChildInv(d)'
  BY <1>8, <1>9, <1>10
<1>. QED  BY <1>4, <1>5, <1>11, LockByChild

LEMMA LockAdvance ==
  ASSUME HandlersInv, LockInv, Advance
  PROVE  LockInv'
<1>. DEFINE w == "sweep"
<1>1. PICK c \in worker[w].queue :
        LET outcome == task[worker[w].rows[c].task].state
        IN /\ row' = IF outcome \in Ended THEN [row EXCEPT ![c].status = outcome] ELSE row
           /\ worker' = [worker EXCEPT ![w].queue = @ \ {c}]
  BY DEF Advance
<1>2. /\ w \in Workers /\ worker[w] \in HandlerType /\ At(w, "reset") /\ c \in Children
      /\ row \in Rows
  BY HandlerFacts DEF Advance, Workers, Written, HandlerType
<1>3. worker'[w] = [worker[w] EXCEPT !.queue = @ \ {c}] /\ Others(w)
  BY <1>1, <1>2, HandlerFacts DEF Others
<1>4. /\ worker'[w].pc = "reset" /\ worker'[w].job = worker[w].job
      /\ worker'[w].event = worker[w].event /\ worker'[w].child = worker[w].child
      /\ worker'[w].rows = worker[w].rows /\ worker'[w].queue = worker[w].queue \ {c}
      /\ worker'[w].writes = worker[w].writes
  BY <1>2, <1>3 DEF HandlerType, At
<1>5. UNCHANGED <<settled, task, delivered, faults, reopens>>
  BY DEF Advance
<1>6. /\ row[c].task = worker[w].rows[c].task /\ row[c].task \in TaskIds
  BY <1>1, <1>2 DEF LockInv, ChildInv, SweptAt
<1>7. ASSUME NEW d \in Children PROVE RowKept(d)
  <2>1. CASE task[row[c].task].state \in Ended
    <3>1. row' = [row EXCEPT ![c].status = task[row[c].task].state]
      BY <1>1, <1>6, <2>1
    <3>. QED  BY <1>2, <2>1, <3>1 DEF Rows, RowKept, Over, Ended, TerminalChildStatuses
  <2>2. CASE task[row[c].task].state \notin Ended
    BY <1>1, <1>6, <2>2 DEF RowKept
  <2>. QED  BY <2>1, <2>2
<1>8. ASSUME NEW d \in Children PROVE QuietKept(d) /\ GoesOn(w, d)
  <2>1. row'[d].task = row[d].task /\ (row[d].status \in Taken => row'[d].status \in Taken)
    BY <1>7 DEF RowKept, Taken
  <2>2. QuietKept(d)
    BY <1>2, <1>3, <1>4, <1>5, <2>1, QuietStays
  <2>3. ~Holds(w, d)' /\ ~Reopening(w, d)' /\ ~Wants(w, d)' /\ ~Concluding(w)'
    BY <1>4 DEF Holds, Reopening, Wants, Concluding, At, Holding
  <2>4. Unsticking(d)' => Unsticking(d)
    BY <1>2, <1>4 DEF Unsticking, At
  <2>5. d \in worker'[w].queue =>
          /\ row'[d].status \in Taken
          /\ worker'[w].rows[d].task = row[d].task
          /\ row[d].task \in TaskIds
          /\ \A v \in Workers : ~Reopening(v, d)
    BY <1>2, <1>4, <2>1 DEF LockInv, ChildInv, SweptAt
  <2>. QED  BY <1>4, <2>2, <2>3, <2>4, <2>5 DEF GoesOn
<1>. QED  BY <1>2, <1>3, <1>4, <1>5, <1>7, <1>8, LockKept

\* A task that is put is the next of the row its creator holds.
LEMMA LockNewTask ==
  ASSUME HandlersInv, LockInv, NEW w \in Workers, At(w, "create"),
         NEW t \in TaskIds, NewTask(w, t), Others(w), UNCHANGED <<row, delivered, reopens>>,
         worker'[w].pc \in {"record", "rollback"},
         worker'[w].pc = "record" => worker'[w].made = t,
         worker'[w].child = worker[w].child, worker'[w].rows = worker[w].rows,
         worker'[w].event = worker[w].event, worker'[w].job = worker[w].job,
         worker'[w].queue = worker[w].queue
  PROVE  LockInv'
<1>1. PICK c : c = worker[w].child
  OBVIOUS
<1>2. /\ c \in Children /\ Holds(w, c) /\ row \in Rows /\ task \in [TaskIds -> TaskType]
  BY <1>1, HandlerFacts DEF HandlerOK, ControlOf, Holding, Holds, At
<1>3. PICK p : p = row[c].task
  OBVIOUS
<1>4. /\ worker[w].rows[c].task = p /\ Over(p) /\ Created(c, p) = {}
      /\ \A v \in Workers : Holds(v, c) => v = w
  BY <1>2, <1>3 DEF LockInv, ChildInv, LockedAt, At
<1>5. /\ task[t] = NoTask
      /\ task' = [task EXCEPT ![t] = [child |-> c, prior |-> p, state |-> "running"]]
  BY <1>1, <1>4 DEF NewTask, Prior
<1>6. /\ task'[t] = [child |-> c, prior |-> p, state |-> "running"]
      /\ \A u \in TaskIds : u # t => task'[u] = task[u]
  BY <1>2, <1>5
<1>7. \A x \in TaskIds \cup {Nil} : Over(x) => Over(x)'
  BY <1>5, <1>6 DEF Over, NoTask, Ended
<1>8. p \in TaskIds \cup {Nil}
  BY <1>2, <1>3 DEF Rows
<1>9. TasksTrue'
  <2>1. TasksTrue
    BY DEF LockInv
  <2>2. ASSUME NEW u \in TaskIds, u # t
        PROVE  ~(task[u].child = c /\ task[u].prior = p)
    BY <1>4 DEF Created
  <2>3. ASSUME NEW u \in TaskIds
        PROVE  /\ task'[u].state # "none" => task'[u].child \in Children
               /\ task'[u].state = "none" => task'[u] = NoTask
               /\ task'[u].prior = Nil \/ task'[task'[u].prior].state \in Ended
    <3>1. CASE u = t
      <4>1. p = Nil \/ task'[p].state \in Ended
        BY <1>4, <1>7, <1>8 DEF Over
      <4>. QED  BY <1>2, <1>6, <3>1, <4>1
    <3>2. CASE u # t
      <4>1. task'[u] = task[u] /\ task[u].prior \in TaskIds \cup {Nil}
        BY <1>2, <1>6, <3>2 DEF TaskType
      <4>. QED  BY <1>7, <2>1, <4>1 DEF TasksTrue, Over
    <3>. QED  BY <3>1, <3>2
  <2>4. ASSUME NEW u \in TaskIds, NEW v \in TaskIds, task'[u].child \in Children,
               task'[u].child = task'[v].child, task'[u].prior = task'[v].prior
        PROVE  u = v
    <3>1. CASE u = t \/ v = t
      BY <1>6, <2>2, <2>4, <3>1
    <3>2. CASE u # t /\ v # t
      BY <1>6, <2>1, <2>4, <3>2 DEF TasksTrue
    <3>. QED  BY <3>1, <3>2
  <2>. QED  BY <2>3, <2>4 DEF TasksTrue, Over
<1>10. OneReopener'
  BY DEF LockInv, OneReopener, Others
<1>11. ASSUME NEW d \in Children PROVE ChildInv(d)'
  <2>1. ChildInv(d) /\ row' = row /\ row[d].task \in TaskIds \cup {Nil} /\ UNCHANGED Loose
    BY <1>2 DEF LockInv, Rows, Loose
  <2>2. \A v \in Workers : (Holds(v, d)' <=> Holds(v, d)) /\ (Reopening(v, d)' <=> Reopening(v, d))
    BY DEF Holds, Reopening, Others, At, Holding
  <2>3. \A v \in Workers : (Wants(v, d)' => Wants(v, d)) /\ worker'[v].rows = worker[v].rows
    BY DEF Wants, Others, At, Holding
  <2>4. /\ \A v \in Workers : Concluding(v)' => Concluding(v)
        /\ \A v \in Workers : worker'[v].event = worker[v].event
        /\ \A v \in Workers : worker'[v].child = worker[v].child
    BY DEF Concluding, Others, At
  <2>5. Over(row[d].task) => Over(row[d].task)'
    BY <1>7, <2>1
  <2>6. Quiet(row[d].task) => Quiet(row[d].task)'
    BY <2>1, <2>4 DEF Quiet
  <2>7. RowTrue(d)'
    BY <2>1, <2>5, <2>6 DEF ChildInv, RowTrue
  <2>8. KnownAt(d)'
    BY <1>3, <1>6, <2>1 DEF ChildInv, KnownAt
  <2>9. LockedAt(d)'
    <3>. SUFFICES ASSUME NEW v \in Workers, Holds(v, d)
                  PROVE  /\ \A u \in Workers : Holds(u, d) => u = v
                         /\ row[d].status \in {"releasing"} \cup TerminalChildStatuses
                         /\ worker[v].rows[d].task = row[d].task
                         /\ Over(row[d].task)'
                         /\ worker'[v].pc \in {"create", "refuse"} => Created(d, row[d].task)' = {}
                         /\ worker'[v].pc = "record" => worker'[v].made \in Created(d, row[d].task)'
      BY <2>1, <2>2, <2>3 DEF LockedAt, At
    <3>1. /\ \A u \in Workers : Holds(u, d) => u = v
          /\ row[d].status \in {"releasing"} \cup TerminalChildStatuses
          /\ worker[v].rows[d].task = row[d].task
          /\ Over(row[d].task)'
          /\ worker[v].pc \in {"create", "refuse"} => Created(d, row[d].task) = {}
          /\ worker[v].pc = "record" => worker[v].made \in Created(d, row[d].task)
      BY <2>1, <2>5 DEF ChildInv, LockedAt, At
    <3>2. CASE v = w
      <4>1. d = c
        BY <1>1, <3>2 DEF Holds
      <4>2. t \in Created(d, row[d].task)'
        BY <1>3, <1>6, <2>1, <4>1 DEF Created
      <4>. QED  BY <3>1, <3>2, <4>2
    <3>3. CASE v # w
      <4>1. d # c /\ worker'[v] = worker[v]
        BY <1>4, <3>3 DEF Others
      <4>2. Created(d, row[d].task)' = Created(d, row[d].task)
        BY <1>5, <1>6, <2>1, <4>1 DEF Created, NoTask
      <4>. QED  BY <3>1, <4>1, <4>2
    <3>. QED  BY <3>2, <3>3
  <2>10. ReopenedAt(d)'
    BY <2>1, <2>2, <2>5, <2>6 DEF ChildInv, ReopenedAt
  <2>11. SweptAt(d)'
    <3>1. /\ Unsticking(d)' => Unsticking(d)
          /\ At("sweep", "reset")' => At("sweep", "reset") /\ worker'["sweep"] = worker["sweep"]
      BY DEF Unsticking, At, Others, Workers
    <3>. QED  BY <2>1, <2>2, <3>1 DEF ChildInv, SweptAt
  <2>12. FreshAt(d)'
    BY <2>1, <2>2, <2>3 DEF ChildInv, FreshAt
  <2>13. EventsAt(d)'
    BY <2>1, <2>4 DEF ChildInv, EventsAt
  <2>. QED  BY <2>7, <2>8, <2>9, <2>10, <2>11, <2>12, <2>13 DEF ChildInv
<1>. QED  BY <1>9, <1>10, <1>11 DEF LockInv

LEMMA LockCreate ==
  ASSUME HandlersInv, LockInv, NEW w \in Workers, Create(w)
  PROVE  LockInv'
<1>1. PICK t \in TaskIds :
        /\ NewTask(w, t)
        /\ worker' = [worker EXCEPT ![w] = [@ EXCEPT !.pc = "record", !.made = t]]
  BY DEF Create
<1>2. worker[w] \in HandlerType /\ At(w, "create")
  BY HandlerFacts DEF Create
<1>3. worker'[w] = [worker[w] EXCEPT !.pc = "record", !.made = t] /\ Others(w)
  BY <1>1, HandlerFacts DEF Others
<1>4. /\ worker'[w].pc = "record" /\ worker'[w].made = t
      /\ worker'[w].child = worker[w].child /\ worker'[w].rows = worker[w].rows
      /\ worker'[w].event = worker[w].event /\ worker'[w].job = worker[w].job
      /\ worker'[w].queue = worker[w].queue
  BY <1>2, <1>3 DEF HandlerType
<1>5. UNCHANGED <<row, delivered, reopens>>
  BY DEF Create
<1>. QED  BY <1>1, <1>2, <1>3, <1>4, <1>5, LockNewTask

LEMMA LockCreateFails ==
  ASSUME HandlersInv, LockInv, NEW w \in Workers, CreateFails(w)
  PROVE  LockInv'
<1>1. worker[w] \in HandlerType /\ At(w, "create")
  BY HandlerFacts DEF CreateFails
<1>2. worker'[w] = [worker[w] EXCEPT !.pc = "rollback"] /\ Others(w)
  BY HandlerFacts DEF Others, CreateFails
<1>3. /\ worker'[w].pc = "rollback"
      /\ worker'[w].child = worker[w].child /\ worker'[w].rows = worker[w].rows
      /\ worker'[w].event = worker[w].event /\ worker'[w].job = worker[w].job
      /\ worker'[w].queue = worker[w].queue
  BY <1>1, <1>2 DEF HandlerType
<1>4. UNCHANGED <<row, delivered, reopens>>
  BY DEF CreateFails
<1>5. CASE \E t \in TaskIds : NewTask(w, t)
  BY <1>1, <1>2, <1>3, <1>4, <1>5, LockNewTask
<1>6. CASE UNCHANGED task
  <2>1. ASSUME NEW c \in Children PROVE GoesOn(w, c)
    <3>1. ChildInv(c)
      BY DEF LockInv
    <3>2. Holds(w, c)' => Holds(w, c)
      BY <1>1, <1>3 DEF Holds, Holding, At
    <3>3. Holds(w, c) => worker[w].rows[c].task = row[c].task
      BY <3>1 DEF ChildInv, LockedAt
    <3>4. ~Reopening(w, c)' /\ ~Concluding(w)' /\ (w = "sweep" => ~Unsticking(c)')
      BY <1>3 DEF Reopening, Concluding, Unsticking, At
    <3>5. Wants(w, c)' => Wants(w, c)
      BY <1>1, <1>3 DEF Wants, At, Holding
    <3>6. Wants(w, c)' => /\ worker'[w].rows[c].task = row[c].task \/ row'[c].status \in Taken
                          /\ \A v \in Workers : ~Reopening(v, c)
      BY <1>3, <1>4, <3>1, <3>5 DEF ChildInv, FreshAt
    <3>. QED  BY <1>3, <3>2, <3>3, <3>4, <3>6 DEF GoesOn
  <2>. QED  BY <1>2, <1>3, <1>4, <1>6, <2>1, LockLocal
<1>. QED  BY <1>5, <1>6 DEF CreateFails

LEMMA LockTaskEnds ==
  ASSUME HandlersInv, LockInv, NEW t \in TaskIds, TaskEnds(t)
  PROVE  LockInv'
<1>1. /\ UNCHANGED <<row, worker, delivered, reopens>> /\ task[t].state = "running"
      /\ \E s \in Ended : task' = [task EXCEPT ![t].state = s]
      /\ task \in [TaskIds -> TaskType] /\ row \in Rows
  BY DEF TaskEnds, HandlersInv, TypeOK, TaskType
<1>2. \A u \in TaskIds : /\ task'[u].child = task[u].child /\ task'[u].prior = task[u].prior
                         /\ task'[u].state = "none" <=> task[u].state = "none"
                         /\ task[u].state \in Ended => task'[u].state \in Ended
                         /\ task'[u].state = "running" => task[u].state = "running"
                         /\ task'[u].state = "none" => task'[u] = task[u]
  BY <1>1 DEF TaskType, Ended
<1>3. \A x \in TaskIds \cup {Nil} : Over(x) => x = Nil \/ task'[x].state \in Ended
  BY <1>2 DEF Over
<1>4. TasksTrue'
  <2>1. TasksTrue /\ \A u \in TaskIds : task[u].prior \in TaskIds \cup {Nil}
    BY <1>1 DEF LockInv, TaskType
  <2>2. ASSUME NEW u \in TaskIds
        PROVE  /\ task'[u].state # "none" => task'[u].child \in Children
               /\ task'[u].state = "none" => task'[u] = NoTask
    BY <1>2, <2>1 DEF TasksTrue
  <2>3. ASSUME NEW u \in TaskIds
        PROVE  task'[u].prior = Nil \/ task'[task'[u].prior].state \in Ended
    BY <1>2, <1>3, <2>1 DEF TasksTrue
  <2>4. ASSUME NEW u \in TaskIds, NEW v \in TaskIds, task'[u].child \in Children,
               task'[u].child = task'[v].child, task'[u].prior = task'[v].prior
        PROVE  u = v
    <3>1. /\ task[u].child \in Children /\ task[u].child = task[v].child
          /\ task[u].prior = task[v].prior
      BY <1>2, <2>4
    <3>. QED  BY <2>1, <3>1 DEF TasksTrue
  <2>. QED  BY <2>2, <2>3, <2>4 DEF TasksTrue, Over
<1>5. OneReopener'
  BY <1>1 DEF LockInv, OneReopener
<1>6. ASSUME NEW d \in Children PROVE ChildInv(d)'
  <2>1. ChildInv(d) /\ row[d].task \in TaskIds \cup {Nil}
    BY <1>1 DEF LockInv, Rows
  <2>2. Over(row[d].task) => Over(row[d].task)'
    BY <1>1, <1>3, <2>1 DEF Over
  <2>3. UNCHANGED Loose /\ (Quiet(row[d].task)' <=> Quiet(row[d].task))
    BY <1>1 DEF Loose, Quiet
  <2>4. \A v \in Workers : /\ Holds(v, d)' <=> Holds(v, d)
                           /\ Reopening(v, d)' <=> Reopening(v, d)
                           /\ Wants(v, d)' <=> Wants(v, d)
                           /\ Concluding(v)' <=> Concluding(v)
    BY <1>1 DEF Holds, Reopening, Wants, Concluding, At
  <2>5. RowTrue(d)'
    BY <1>1, <2>1, <2>2, <2>3 DEF ChildInv, RowTrue
  <2>6. KnownAt(d)'
    BY <1>1, <1>2, <2>1 DEF ChildInv, KnownAt
  <2>7. LockedAt(d)'
    <3>1. Created(d, row[d].task)' = Created(d, row[d].task)
      BY <1>1, <1>2 DEF Created
    <3>. QED  BY <1>1, <2>1, <2>2, <2>4, <3>1 DEF ChildInv, LockedAt, At
  <2>8. ReopenedAt(d)'
    BY <1>1, <2>1, <2>2, <2>3, <2>4 DEF ChildInv, ReopenedAt
  <2>9. SweptAt(d)' /\ FreshAt(d)'
    BY <1>1, <2>1, <2>4 DEF ChildInv, SweptAt, FreshAt, Unsticking, At
  <2>10. EventsAt(d)'
    BY <1>1, <2>1, <2>3, <2>4 DEF ChildInv, EventsAt
  <2>. QED  BY <2>5, <2>6, <2>7, <2>8, <2>9, <2>10 DEF ChildInv
<1>. QED  BY <1>4, <1>5, <1>6 DEF LockInv

\* What the user reopens has ended, nobody is at work, and every end is known.
LEMMA LockReopen ==
  ASSUME Orderly, HandlersInv, LockInv, NEW w \in Workers, NEW event, Reopens(event),
         UNCHANGED <<row, task, delivered>>, Others(w),
         worker'[w].pc = "write", worker'[w].job \in {"retry", "fix"}, worker'[w].event = Nil,
         \A wr \in worker'[w].writes : row[wr.child].status \in {"failed", "skipped"}
  PROVE  LockInv'
<1>1. /\ \A v \in Workers : worker[v].pc = "idle"
      /\ \A t \in TaskIds : task[t].state \in Ended => t \in delivered
      /\ reopens' > 0 /\ reopens' > reopens /\ ("redeliver" \in Environment => reopens = 0)
  BY HandlerFacts DEF Orderly, Reopens, AtRest, At
<1>2. \A v \in Workers : worker[v] = Idle
  BY <1>1 DEF HandlersInv, ControlOf, At
<1>3. \A v \in Workers : /\ worker[v].job = "none" /\ worker'[v].event = Nil
                         /\ v # w => worker'[v].pc = "idle" /\ worker'[v].job = "none"
  BY <1>2, IdleType DEF Others
<1>4. TasksTrue'
  BY DEF LockInv, TasksTrue, Over
<1>5. OneReopener'
  BY <1>3 DEF OneReopener
<1>6. ASSUME NEW d \in Children PROVE ChildInv(d)'
  <2>1. ChildInv(d) /\ row[d].task \in TaskIds \cup {Nil}
    BY HandlerFacts DEF LockInv, Rows
  <2>2. /\ \A v \in Workers : ~Holds(v, d)' /\ ~Wants(v, d)' /\ ~Concluding(v)'
        /\ ~Unsticking(d)' /\ ~At("sweep", "reset")'
    BY <1>3 DEF Holds, Holding, Wants, Concluding, Unsticking, At, Workers
  <2>3. Over(row[d].task) => Quiet(row[d].task)'
    BY <1>1, <1>3, <2>1 DEF Over, Quiet
  <2>4. row[d].status # "released" => Over(row[d].task)
    BY <1>1, <2>1 DEF ChildInv, RowTrue, Loose
  <2>5. RowTrue(d)'
    <3>1. Over(row[d].task) => Over(row[d].task)'
      BY DEF Over
    <3>2. row[d].status \in Waiting \cup {"releasing"} => row[d].status # "released"
      BY DEF Waiting
    <3>. QED  BY <1>1, <2>3, <2>4, <3>1, <3>2 DEF RowTrue
  <2>6. KnownAt(d)'
    BY <2>1 DEF ChildInv, KnownAt
  <2>7. LockedAt(d)' /\ SweptAt(d)' /\ FreshAt(d)' /\ EventsAt(d)'
    BY <2>2 DEF LockedAt, SweptAt, FreshAt, EventsAt
  <2>8. ReopenedAt(d)'
    <3>1. ASSUME NEW v \in Workers, Reopening(v, d)'
          PROVE  row[d].status \in {"failed", "skipped"}
      BY <1>3, <3>1 DEF Reopening
    <3>2. Over(row[d].task) => Over(row[d].task)'
      BY DEF Over
    <3>. QED  BY <2>2, <2>3, <2>4, <3>1, <3>2 DEF ReopenedAt, TerminalChildStatuses
  <2>. QED  BY <2>5, <2>6, <2>7, <2>8 DEF ChildInv
<1>. QED  BY <1>4, <1>5, <1>6 DEF LockInv

LEMMA LockRetry ==
  ASSUME Orderly, HandlersInv, LockInv, Retry
  PROVE  LockInv'
<1>. DEFINE w == "webhook"
            plan == RetryPlan(Status(row))
            queue == ToRelease(Status(row), plan, "ready")
<1>1. w \in Workers /\ row \in Rows
  BY HandlerFacts DEF Workers
<1>2. \A wr \in plan : wr.child \in Children /\ row[wr.child].status \in {"failed", "skipped"}
  <2>1. \A wr \in plan : wr.child \in Children
                         /\ Status(row)[wr.child] \in {"failed", "skipped"}
    BY RetryPlanFacts DEF Writes
  <2>. QED  BY <1>1, <2>1, StatusType
<1>3. worker' = [worker EXCEPT ![w] = [Idle EXCEPT !.pc = "write", !.job = "retry", !.rows = row,
                                                   !.writes = plan, !.queue = queue]]
  BY DEF Retry
<1>. HIDE DEF plan, queue
<1>4. /\ worker'[w].pc = "write" /\ worker'[w].job = "retry" /\ worker'[w].event = Nil
      /\ worker'[w].writes = plan /\ Others(w)
  <2>1. worker'[w] = [Idle EXCEPT !.pc = "write", !.job = "retry", !.rows = row,
                                  !.writes = plan, !.queue = queue]
    BY <1>1, <1>3, HandlerFacts
  <2>2. Others(w)
    BY <1>1, <1>3, HandlerFacts DEF Others
  <2>. QED  BY <2>1, <2>2, IdleType DEF HandlerType
<1>5. UNCHANGED <<row, task, delivered>> /\ Reopens("retry")
  BY DEF Retry
<1>. QED  BY <1>1, <1>2, <1>4, <1>5, LockReopen

LEMMA LockFix ==
  ASSUME Orderly, HandlersInv, LockInv, NEW w \in Reconcilers, NEW c \in Children, Fix(w, c)
  PROVE  LockInv'
<1>. DEFINE plan == RecoveryPlan(Status(row), c)
            queue == ToRelease(Status(row), plan, "blocked")
<1>1. w \in Workers /\ row \in Rows
  BY HandlerFacts DEF Workers
<1>2. \A wr \in plan : wr.child \in Children /\ row[wr.child].status \in {"failed", "skipped"}
  <2>1. \A wr \in plan : wr.child \in Children
                         /\ Status(row)[wr.child] \in {"failed", "skipped"}
    BY RecoveryPlanFacts DEF Writes
  <2>. QED  BY <1>1, <2>1, StatusType
<1>3. worker' = [worker EXCEPT ![w] = [Idle EXCEPT !.pc = "write", !.job = "fix", !.child = c,
                                                   !.writes = plan, !.queue = queue]]
  BY DEF Fix
<1>. HIDE DEF plan, queue
<1>4. /\ worker'[w].pc = "write" /\ worker'[w].job = "fix" /\ worker'[w].event = Nil
      /\ worker'[w].writes = plan /\ Others(w)
  <2>1. worker'[w] = [Idle EXCEPT !.pc = "write", !.job = "fix", !.child = c,
                                  !.writes = plan, !.queue = queue]
    BY <1>1, <1>3, HandlerFacts
  <2>2. Others(w)
    BY <1>1, <1>3, HandlerFacts DEF Others
  <2>. QED  BY <2>1, <2>2, IdleType DEF HandlerType
<1>5. UNCHANGED <<row, task, delivered>> /\ Reopens("fix")
  BY DEF Fix
<1>. QED  BY <1>1, <1>2, <1>4, <1>5, LockReopen

LEMMA LockInit ==
  ASSUME Init
  PROVE  LockInv
<1>. DEFINE roots == {c \in Children : DependsOn[c] = {}}
            seed == [Idle EXCEPT !.pc = "release", !.job = "seed", !.queue = roots]
<1>1. seed.pc = "release" /\ seed.job = "seed" /\ seed.rows = SeededRows /\ seed.event = Nil
  BY IdleType DEF HandlerType
<1>2. \A w \in Workers : worker[w] = IF w = "webhook" THEN seed ELSE Idle
  BY DEF Init
<1>. HIDE DEF seed
<1>3. \A w \in Workers : /\ worker[w].pc \in {"idle", "release"}
                         /\ worker[w].job \in {"none", "seed"}
                         /\ worker[w].rows = SeededRows
  BY <1>1, <1>2, IdleType
<1>4. /\ row = SeededRows /\ reopens = 0 /\ delivered = {}
      /\ \A t \in TaskIds : task[t] = NoTask
  BY DEF Init
<1>5. TasksTrue
  <2>1. \A t \in TaskIds : /\ task[t].child = Nil /\ task[t].prior = Nil
                           /\ task[t].state = "none"
    BY <1>4 DEF NoTask
  <2>. QED  BY <1>4, <2>1 DEF TasksTrue, Over
<1>6. OneReopener
  BY <1>3 DEF OneReopener
<1>7. ASSUME NEW c \in Children PROVE ChildInv(c)
  <2>1. row[c].status \in Waiting /\ row[c].task = Nil
    BY <1>4, SeededType
  <2>2. RowTrue(c)
    BY <2>1 DEF RowTrue, Over, Quiet, Waiting
  <2>3. KnownAt(c)
    BY <1>4 DEF KnownAt, NoTask
  <2>4. /\ \A w \in Workers : ~Holds(w, c) /\ ~Reopening(w, c) /\ ~Concluding(w)
        /\ ~Unsticking(c) /\ ~At("sweep", "reset")
    BY <1>3 DEF Holds, Holding, Reopening, Concluding, Unsticking, At, Workers
  <2>5. FreshAt(c)
    BY <1>3, <1>4, <2>4 DEF FreshAt
  <2>. QED  BY <2>2, <2>3, <2>4, <2>5 DEF ChildInv, LockedAt, ReopenedAt, SweptAt, EventsAt
<1>. QED  BY <1>5, <1>6, <1>7 DEF LockInv

LEMMA LockNext ==
  ASSUME Orderly, HandlersInv, LockInv, [Next]_vars
  PROVE  LockInv'
<1>1. CASE \E t \in TaskIds : TaskEnds(t)
  BY <1>1, LockTaskEnds
<1>2. CASE \E w \in Reconcilers, t \in TaskIds : Deliver(w, t)
  BY <1>2, LockDeliver
<1>3. CASE \E w \in Workers : Handle(w) \/ Fail(w)
  <2>1. PICK w \in Workers : Handle(w) \/ Fail(w)
    BY <1>3
  <2>2. CASE Load(w) \/ Write(w) \/ Reread(w) \/ Claim(w) \/ Lookup(w) \/ Create(w)
    BY <2>2, LockLoad, LockWrite, LockReread, LockClaim, LockLookup, LockCreate
  <2>3. CASE Record(w) \/ RollBackClaim(w) \/ FailClaimTerminal(w)
    BY <2>3, LockRecord, LockRollBack, LockFailClaim
  <2>4. CASE Finish(w) \/ Settle(w) \/ Crash(w)
    BY <2>4, LockFinish
  <2>5. CASE ApplyTerminalCreateFailures(w) \/ ClearRollupClaim(w) \/ RereadToRelease(w)
             \/ Refresh(w)
    BY <2>5, LockApplyFailures, LockClearRollup, LockRereadToRelease, LockRefresh
  <2>6. CASE CreateRefused(w) \/ CreateFails(w) \/ EndReleaseFails(w)
    BY <2>6, LockCreateRefused, LockCreateFails, LockEndReleaseFails
  <2>. QED  BY <2>1, <2>2, <2>3, <2>4, <2>5, <2>6 DEF Handle, Fail
<1>4. CASE Retry
  BY <1>4, LockRetry
<1>5. CASE \E w \in Reconcilers, c \in Children : Fix(w, c)
  BY <1>5, LockFix
<1>6. CASE Sweep
  BY <1>6, LockSweepLoad, LockAdvance, LockSweepReread, LockSweepRelease DEF Sweep
<1>7. CASE UNCHANGED vars
  <2>1. "sweep" \in Workers /\ Others("sweep") /\ UNCHANGED <<row, task, delivered, reopens, worker>>
    BY <1>7 DEF vars, Others, Workers
  <2>2. ASSUME NEW c \in Children PROVE GoesOn("sweep", c)
    <3>1. ChildInv(c)
      BY DEF LockInv
    <3>2. /\ Holds("sweep", c)' <=> Holds("sweep", c)
          /\ Reopening("sweep", c)' <=> Reopening("sweep", c)
          /\ Wants("sweep", c)' <=> Wants("sweep", c)
          /\ Concluding("sweep")' <=> Concluding("sweep")
          /\ Unsticking(c)' <=> Unsticking(c)
      BY <2>1 DEF Holds, Reopening, Wants, Concluding, Unsticking, At
    <3>. QED  BY <2>1, <3>1, <3>2
              DEF GoesOn, ChildInv, LockedAt, SweptAt, FreshAt, EventsAt, At
  <2>. QED  BY <2>1, <2>2, LockLocal
<1>. QED  BY <1>1, <1>2, <1>3, <1>4, <1>5, <1>6, <1>7 DEF Next

\* The claim of a row is a lock, and one key creates one task after the one
\* before has ended: both hold throughout, whatever crashes or is lost.
THEOREM RowsLocked ==
  ASSUME Orderly
  PROVE  Spec => [](HandlersInv /\ LockInv)
<1>1. Init => HandlersInv /\ LockInv
  BY HandlersInit, LockInit
<1>2. HandlersInv /\ LockInv /\ [Next]_vars => (HandlersInv /\ LockInv)'
  BY HandlersNext, LockNext
<1>. QED  BY <1>1, <1>2, PTL DEF Spec

\* A child is worked on by one task at a time: two tasks at work for one child
\* would both be its row's next, and one key creates one, or one of them would be
\* the next of the other, which has then ended.
THEOREM OneTaskEach ==
  ASSUME Orderly
  PROVE  Spec => []OneTaskAtATime
<1>1. ASSUME HandlersInv, LockInv PROVE OneTaskAtATime
  <2>. SUFFICES ASSUME NEW t \in TaskIds, NEW u \in TaskIds,
                       task[t].state = "running", task[u].state = "running",
                       task[t].child = task[u].child
                PROVE  t = u
    BY DEF OneTaskAtATime
  <2>1. PICK c \in Children : task[t].child = c
    BY <1>1 DEF LockInv, TasksTrue
  <2>2. /\ t = row[c].task \/ task[t].prior = row[c].task
        /\ u = row[c].task \/ task[u].prior = row[c].task
    BY <1>1, <2>1 DEF LockInv, ChildInv, KnownAt
  <2>3. task[t].prior # u /\ task[u].prior # t
    BY <1>1 DEF LockInv, TasksTrue, Over, Ended
  <2>. QED  BY <1>1, <2>1, <2>2, <2>3 DEF LockInv, TasksTrue
<1>. QED  BY <1>1, RowsLocked, PTL
=============================================================================
