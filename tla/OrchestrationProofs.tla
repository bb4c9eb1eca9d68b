------------------------- MODULE OrchestrationProofs -------------------------
(***************************************************************************)
(* Proofs about Orchestration for any epic, any handlers and any number of *)
(* tasks and faults: every reachable state is well typed in any            *)
(* surroundings, and where the sweep keeps clear of releases and the user  *)
(* reopens an epic at rest, no child ever has two tasks at work.           *)
(***************************************************************************)
EXTENDS OrchestrationInvariant, TLAPS

USE OrchestrationAssumption

(***************************************************************************)
(* The graph and the plans                                                 *)
(***************************************************************************)

Views == [Children -> ChildStatuses]

\* A plan writes each child at most once.
OncePerChild(plan) == \A x, y \in plan : x.child = y.child => x = y

\* A child with a predecessor among another's dependents, or with that other as
\* a predecessor, is a dependent too.
LEMMA DependentsClosed ==
  ASSUME NEW a \in Children, NEW d \in Children,
         DependsOn[d] \cap (Dependents[a] \cup {a}) # {}
  PROVE  d \in Dependents[a]
<1>. SUFFICES ASSUME NEW S \in SUBSET Children,
                     \A e \in Children : DependsOn[e] \cap (S \cup {a}) # {} => e \in S
              PROVE  d \in S
  BY DEF Dependents
<1>1. Dependents[a] \subseteq S
  BY DEF Dependents
<1>. QED  BY <1>1

\* What is closed under dependence below a child holds all its dependents.
LEMMA DependentsLeast ==
  ASSUME NEW a \in Children, NEW S \in SUBSET Children,
         \A e \in Children : DependsOn[e] \cap (S \cup {a}) # {} => e \in S
  PROVE  Dependents[a] \subseteq S
  BY DEF Dependents

\* No child is its own dependent: the graph has no cycle.
LEMMA NoCycle ==
  ASSUME NEW a \in Children
  PROVE  Dependents[a] \subseteq Children /\ a \notin Dependents[a]
<1>1. Dependents[a] \subseteq Children
  BY DEF Dependents
<1>2. SUFFICES ASSUME a \in Dependents[a] PROVE FALSE
  BY <1>1
<1>3. PICK x \in Dependents[a] : DependsOn[x] \cap Dependents[a] = {}
  BY <1>1, <1>2, GraphAssumption
<1>4. Dependents[a] \subseteq Dependents[a] \ {x}
  <2>1. \A e \in Children : DependsOn[e] \cap ((Dependents[a] \ {x}) \cup {a}) # {}
                              => e \in Dependents[a] \ {x}
    BY <1>2, <1>3, DependentsClosed
  <2>. HIDE DEF Dependents
  <2>. QED  BY <1>1, <2>1, DependentsLeast
<1>. QED  BY <1>3, <1>4

\* The writes that set children to one status.
LEMMA SetToFacts ==
  ASSUME NEW S \in SUBSET Children, NEW s \in ChildStatuses
  PROVE  /\ SetTo(S, s) \subseteq Writes
         /\ \A wr \in SetTo(S, s) : wr.child \in S /\ wr.status = s
         /\ OncePerChild(SetTo(S, s))
  BY DEF SetTo, Writes, OncePerChild

\* A view stays one when a plan is applied to it.
LEMMA AfterType ==
  ASSUME NEW view \in Views, NEW plan \in SUBSET Writes
  PROVE  After(view, plan) \in Views
<1>. SUFFICES ASSUME NEW c \in Children
              PROVE  (IF \E wr \in plan : wr.child = c
                      THEN (CHOOSE wr \in plan : wr.child = c).status
                      ELSE view[c]) \in ChildStatuses
  BY DEF After, Views
<1>. QED  BY DEF Views, Writes

\* The skips below a failed child are writes to others.
LEMMA SkipPlanFacts ==
  ASSUME NEW view, NEW c \in Children
  PROVE  /\ SkipPlan(view, c) \subseteq Writes
         /\ \A wr \in SkipPlan(view, c) : wr.child # c /\ wr.status = "skipped"
         /\ OncePerChild(SkipPlan(view, c))
<1>. DEFINE S == {d \in Dependents[c] : view[d] \in Waiting}
<1>1. S \in SUBSET Children /\ c \notin S /\ "skipped" \in ChildStatuses
  BY NoCycle DEF ChildStatuses
<1>. HIDE DEF S
<1>2. SkipPlan(view, c) = SetTo(S, "skipped")
  BY DEF SkipPlan, S
<1>. QED  BY <1>1, <1>2, SetToFacts

\* A task's end is written to its child, skips to others.
LEMMA ReconcilePlanFacts ==
  ASSUME NEW view, NEW c \in Children, NEW outcome \in Ended
  PROVE  LET plan == ReconcilePlan(view, c, outcome = "succeeded") IN
         /\ plan \subseteq Writes
         /\ \A wr \in plan :
              \/ wr.child # c /\ wr.status = "skipped"
              \/ wr.child = c /\ wr.status = outcome
         /\ OncePerChild(plan)
<1>. DEFINE first == SetTo({c}, outcome)
            skips == IF outcome = "succeeded" THEN {} ELSE SkipPlan(view, c)
<1>1. outcome \in ChildStatuses
  BY DEF ChildStatuses, Ended
<1>2. ReconcilePlan(view, c, outcome = "succeeded") = first \cup skips
  BY DEF ReconcilePlan, Ended
<1>3. /\ first \subseteq Writes /\ OncePerChild(first)
      /\ \A wr \in first : wr.child = c /\ wr.status = outcome
  BY <1>1, SetToFacts
<1>4. /\ skips \subseteq Writes /\ OncePerChild(skips)
      /\ \A wr \in skips : wr.child # c /\ wr.status = "skipped"
  BY SkipPlanFacts DEF OncePerChild
<1>. HIDE DEF first, skips
<1>5. OncePerChild(first \cup skips)
  BY <1>3, <1>4 DEF OncePerChild
<1>. QED  BY <1>2, <1>3, <1>4, <1>5

\* A fix marks its child succeeded and what was skipped below it blocked.
LEMMA RecoveryPlanFacts ==
  ASSUME NEW view, NEW c \in Children
  PROVE  LET plan == RecoveryPlan(view, c) IN
         /\ plan \subseteq Writes
         /\ \A wr \in plan : /\ wr.status \in {"blocked", "succeeded"}
                             /\ view[wr.child] \in {"failed", "skipped"}
         /\ OncePerChild(plan)
<1>. DEFINE S == {d \in Dependents[c] : view[d] = "skipped"}
<1>1. S \in SUBSET Children /\ c \notin S
      /\ "blocked" \in ChildStatuses /\ "succeeded" \in ChildStatuses
  BY NoCycle DEF ChildStatuses
<1>2. \A d \in S : view[d] = "skipped"
  OBVIOUS
<1>. DEFINE P1 == SetTo({c}, "succeeded")
            P2 == SetTo(S, "blocked")
<1>3. RecoveryPlan(view, c) = IF view[c] # "failed" THEN {} ELSE P1 \cup P2
  BY DEF RecoveryPlan
<1>. HIDE DEF S
<1>4. /\ P1 \subseteq Writes /\ OncePerChild(P1)
      /\ \A wr \in P1 : wr.child = c /\ wr.status = "succeeded"
  BY <1>1, SetToFacts
<1>5. /\ P2 \subseteq Writes /\ OncePerChild(P2)
      /\ \A wr \in P2 : wr.child \in S /\ wr.status = "blocked"
  BY <1>1, SetToFacts
<1>. HIDE DEF P1, P2
<1>6. OncePerChild(P1 \cup P2) /\ OncePerChild({})
  BY <1>1, <1>4, <1>5 DEF OncePerChild
<1>. QED  BY <1>2, <1>3, <1>4, <1>5, <1>6

\* A retry marks what failed or was skipped as ready or blocked.
LEMMA RetryPlanFacts ==
  ASSUME NEW view
  PROVE  LET plan == RetryPlan(view) IN
         /\ plan \subseteq Writes
         /\ \A wr \in plan : /\ wr.status \in {"blocked", "ready"}
                             /\ view[wr.child] \in {"failed", "skipped"}
         /\ OncePerChild(plan)
<1>. DEFINE failed  == {c \in Children : view[c] = "failed"}
            first   == {c \in failed : AllSucceeded(view, c)}
            skipped == {c \in Children : view[c] = "skipped"}
<1>1. /\ first \in SUBSET Children /\ failed \ first \in SUBSET Children
      /\ skipped \in SUBSET Children
      /\ "blocked" \in ChildStatuses /\ "ready" \in ChildStatuses
  BY DEF ChildStatuses
<1>2. /\ \A c \in first : view[c] = "failed"
      /\ \A c \in failed \ first : view[c] = "failed" /\ c \notin first
      /\ \A c \in skipped : view[c] = "skipped"
  OBVIOUS
<1>3. RetryPlan(view) = SetTo(first, "ready") \cup SetTo(failed \ first, "blocked")
                          \cup SetTo(skipped, "blocked")
  BY DEF RetryPlan
<1>. DEFINE P1 == SetTo(first, "ready")
            P2 == SetTo(failed \ first, "blocked")
            P3 == SetTo(skipped, "blocked")
<1>. HIDE DEF failed, first, skipped
<1>4. /\ P1 \subseteq Writes /\ OncePerChild(P1)
      /\ \A wr \in P1 : wr.child \in first /\ wr.status = "ready"
  BY <1>1, SetToFacts
<1>5. /\ P2 \subseteq Writes /\ OncePerChild(P2)
      /\ \A wr \in P2 : wr.child \in failed \ first /\ wr.status = "blocked"
  BY <1>1, SetToFacts
<1>6. /\ P3 \subseteq Writes /\ OncePerChild(P3)
      /\ \A wr \in P3 : wr.child \in skipped /\ wr.status = "blocked"
  BY <1>1, SetToFacts
<1>7. RetryPlan(view) = P1 \cup P2 \cup P3
  BY <1>3
<1>. HIDE DEF P1, P2, P3
<1>8. OncePerChild(P1 \cup P2 \cup P3)
  <2>. SUFFICES ASSUME NEW x \in P1 \cup P2 \cup P3, NEW y \in P1 \cup P2 \cup P3,
                       x.child = y.child
                PROVE  x = y
    BY DEF OncePerChild
  <2>1. CASE x \in P1
    BY <2>1, <1>2, <1>4, <1>5, <1>6 DEF OncePerChild, failed, skipped
  <2>2. CASE x \in P2
    BY <2>2, <1>2, <1>4, <1>5, <1>6 DEF OncePerChild, failed, skipped
  <2>3. CASE x \in P3
    BY <2>3, <1>2, <1>4, <1>5, <1>6 DEF OncePerChild, failed, skipped
  <2>. QED  BY <2>1, <2>2, <2>3
<1>9. \A wr \in P1 \cup P2 \cup P3 : /\ wr.status \in {"blocked", "ready"}
                                     /\ view[wr.child] \in {"failed", "skipped"}
  BY <1>2, <1>4, <1>5, <1>6
<1>. QED  BY <1>4, <1>5, <1>6, <1>7, <1>8, <1>9

(***************************************************************************)
(* Types and handlers, in any surroundings                                 *)
(***************************************************************************)

Pcs == {"idle", "load", "write", "reread", "release", "lookup", "create", "record",
        "rollback", "refuse", "cascade", "settle", "reset"}

HandlerType ==
    [pc : Pcs, job : Jobs, event : TaskIds \cup {Nil}, child : Children \cup {Nil},
     rows : Rows, writes : SUBSET Writes, queue : SUBSET Children,
     refused : SUBSET Children, made : TaskIds \cup {Nil}]

TaskType ==
    [child : Children \cup {Nil}, prior : TaskIds \cup {Nil},
     state : {"none", "running"} \cup Ended]

HandlerOK(w) == ControlOf(w) /\ WritingOf(w) /\ ViewOf(w)

\* An epic is seeded with ready and blocked rows.
LEMMA SeededType ==
  /\ SeededRows \in Rows
  /\ \A c \in Children : SeededRows[c].status \in Waiting /\ SeededRows[c].task = Nil
  BY DEF SeededRows, Rows, ChildStatuses, Waiting

LEMMA IdleType ==
  /\ Idle \in HandlerType
  /\ Idle.pc = "idle" /\ Idle.job = "none" /\ Idle.event = Nil /\ Idle.child = Nil
  /\ Idle.writes = {} /\ Idle.queue = {} /\ Idle.refused = {} /\ Idle.made = Nil
  /\ Idle.rows = SeededRows
  BY SeededType DEF Idle, HandlerType, Pcs, Jobs

\* A handler that has not begun or has finished is in order.
LEMMA IdleOK ==
  ASSUME NEW w \in Workers, worker[w] = Idle
  PROVE  HandlerOK(w)
  BY IdleType, SeededType
     DEF HandlerOK, ControlOf, WritingOf, ViewOf, At, Holding, Waiting

\* The statuses of a set of rows are a view.
LEMMA StatusType ==
  ASSUME NEW rows \in Rows
  PROVE  Status(rows) \in Views /\ \A c \in Children : Status(rows)[c] = rows[c].status
  BY DEF Status, Views, Rows

\* A step of one handler leaves the others in order.
LEMMA OneHandler ==
  ASSUME HandlersInv, NEW w \in Workers, NEW h \in HandlerType,
         worker' = [worker EXCEPT ![w] = h],
         \A t \in TaskIds : task[t].state \in Ended => task'[t].state = task[t].state,
         reopens > 0 => reopens' > 0,
         HandlerOK(w)',
         row' \in Rows, settled' \in BOOLEAN, task' \in [TaskIds -> TaskType],
         delivered' \subseteq TaskIds, faults' \in 0 .. MaxFaults,
         reopens' \in 0 .. MaxReopens,
         ReleasedForTask'
  PROVE  HandlersInv'
<1>1. worker' \in [Workers -> HandlerType]
  BY DEF HandlersInv, TypeOK, HandlerType, Pcs
<1>2. TypeOK'
  BY <1>1 DEF TypeOK, HandlerType, TaskType, Pcs
<1>3. ASSUME NEW v \in Workers, v # w PROVE HandlerOK(v)'
  <2>1. worker'[v] = worker[v] /\ HandlerOK(v)
    BY <1>3 DEF HandlersInv, TypeOK, HandlerOK
  <2>2. ControlOf(v)'
    BY <2>1 DEF HandlerOK, ControlOf, At
  <2>3. WritingOf(v)'
    <3>1. At(v, "write") /\ worker[v].job = "reconcile" =>
            task'[worker[v].event].state = task[worker[v].event].state
      BY <2>1 DEF HandlerOK, ControlOf, At
    <3>. QED  BY <2>1, <3>1 DEF HandlerOK, WritingOf, At
  <2>4. ViewOf(v)'
    BY <2>1 DEF HandlerOK, ViewOf, At
  <2>. QED  BY <2>2, <2>3, <2>4 DEF HandlerOK
<1>. QED  BY <1>2, <1>3 DEF HandlersInv, HandlerOK

\* What HandlersInv says of one handler and of the stores.
LEMMA HandlerFacts ==
  ASSUME HandlersInv, NEW w \in Workers
  PROVE  /\ worker[w] \in HandlerType /\ HandlerOK(w)
         /\ worker \in [Workers -> HandlerType]
         /\ row \in Rows /\ settled \in BOOLEAN /\ task \in [TaskIds -> TaskType]
         /\ delivered \subseteq TaskIds /\ faults \in 0 .. MaxFaults
         /\ reopens \in 0 .. MaxReopens
  BY DEF HandlersInv, TypeOK, HandlerType, HandlerOK, TaskType, Pcs

\* A step that changes its handler and nothing the others rely on.
LEMMA LocalHandler ==
  ASSUME HandlersInv, NEW w \in Workers, NEW h \in HandlerType,
         worker' = [worker EXCEPT ![w] = h],
         UNCHANGED <<row, task, reopens>>,
         HandlerOK(w)',
         settled' \in BOOLEAN, delivered' \subseteq TaskIds, faults' \in 0 .. MaxFaults
  PROVE  HandlersInv'
<1>1. ReleasedForTask'
  BY DEF HandlersInv, ReleasedForTask
<1>. QED  BY <1>1, HandlerFacts, OneHandler

\* A fault is counted within the bound.
LEMMA FaultType ==
  ASSUME HandlersInv, NEW kind, Fault(kind)
  PROVE  faults' \in 0 .. MaxFaults /\ faults' > 0
  BY DEF HandlersInv, TypeOK, Fault

\* A pass releases some of the rows it may.
LEMMA ThrottledType ==
  ASSUME HandlersInv, NEW rows, NEW queue, Throttled(rows, queue)
  PROVE  queue \subseteq rows /\ faults' \in 0 .. MaxFaults
  BY FaultType DEF HandlersInv, TypeOK, Throttled

LEMMA HandlersLoad ==
  ASSUME HandlersInv, NEW w \in Workers, Load(w)
  PROVE  HandlersInv'
<1>. DEFINE plan == ReconcilePlan(Status(row), worker[w].child,
                                  task[worker[w].event].state = "succeeded")
            h == [worker[w] EXCEPT !.pc = "write", !.writes = plan]
<1>1. /\ worker[w] \in HandlerType /\ HandlerOK(w) /\ At(w, "load")
      /\ worker[w].job = "reconcile"
      /\ worker[w].event \in TaskIds /\ worker[w].child \in Children
      /\ task[worker[w].event].state \in Ended
  BY HandlerFacts DEF Load, HandlerOK, ControlOf, At
<1>2. /\ plan \subseteq Writes /\ OncePerChild(plan)
      /\ \A wr \in plan :
           \/ wr.child # worker[w].child /\ wr.status = "skipped"
           \/ wr.child = worker[w].child /\ wr.status = task[worker[w].event].state
  <2>. DEFINE view == Status(row)
              c == worker[w].child
              outcome == task[worker[w].event].state
  <2>1. c \in Children /\ outcome \in Ended
    BY <1>1
  <2>2. plan = ReconcilePlan(view, c, outcome = "succeeded")
    OBVIOUS
  <2>. HIDE DEF view, c, outcome, plan
  <2>3. /\ plan \subseteq Writes /\ OncePerChild(plan)
        /\ \A wr \in plan :
             \/ wr.child # c /\ wr.status = "skipped"
             \/ wr.child = c /\ wr.status = outcome
    BY <2>1, <2>2, ReconcilePlanFacts, Zenon
  <2>. QED  BY <2>3 DEF c, outcome
<1>. HIDE DEF plan
<1>3. h \in HandlerType
  BY <1>1, <1>2 DEF HandlerType, Pcs
<1>4. worker' = [worker EXCEPT ![w] = h]
  BY HandlerFacts DEF Load, plan
<1>5. worker'[w] = h
  BY <1>4, HandlerFacts
<1>6. UNCHANGED <<row, settled, task, delivered, faults, reopens>>
  BY DEF Load
<1>7. HandlerOK(w)'
  BY <1>1, <1>2, <1>5, <1>6
     DEF HandlerType, HandlerOK, ControlOf, WritingOf, ViewOf, At, Holding, OncePerChild
<1>. QED  BY <1>3, <1>4, <1>6, <1>7, HandlerFacts, LocalHandler

LEMMA HandlersReread ==
  ASSUME HandlersInv, NEW w \in Workers, Reread(w)
  PROVE  HandlersInv'
<1>1. PICK queue \in SUBSET Children :
        /\ Throttled(Releasable(Status(row)), queue)
        /\ worker' = [worker EXCEPT ![w] = [@ EXCEPT !.pc = "release", !.rows = row,
                                                     !.queue = queue, !.child = Nil]]
  BY DEF Reread
<1>. DEFINE h == [worker[w] EXCEPT !.pc = "release", !.rows = row,
                                   !.queue = queue, !.child = Nil]
<1>2. /\ worker[w] \in HandlerType /\ HandlerOK(w) /\ worker[w].writes = {}
      /\ worker[w].job = "reconcile" /\ ReleasedForTask
  BY HandlerFacts DEF Reread, Written, HandlersInv
<1>3. h \in HandlerType
  BY <1>2, HandlerFacts DEF HandlerType, Pcs
<1>4. worker' = [worker EXCEPT ![w] = h] /\ worker'[w] = h
  BY <1>1, HandlerFacts
<1>5. UNCHANGED <<row, settled, task, delivered, reopens>>
  BY DEF Reread
<1>6. HandlerOK(w)'
  BY <1>2, <1>4, <1>5 DEF HandlerType, HandlerOK, ControlOf, WritingOf, ViewOf, At,
     Holding, ReleasedForTask
<1>. QED  BY <1>1, <1>3, <1>4, <1>5, <1>6, HandlerFacts, ThrottledType, LocalHandler

LEMMA HandlersWrite ==
  ASSUME HandlersInv, NEW w \in Workers, Write(w)
  PROVE  HandlersInv'
<1>1. PICK wr \in worker[w].writes :
        /\ row' = IF Applies(w, wr)
                  THEN [row EXCEPT ![wr.child].status = wr.status] ELSE row
        /\ worker' = [worker EXCEPT ![w].writes = @ \ {wr}]
  BY DEF Write
<1>. DEFINE h == [worker[w] EXCEPT !.writes = @ \ {wr}]
<1>2. /\ worker[w] \in HandlerType /\ HandlerOK(w)
      /\ worker[w].pc \in {"write", "reset", "cascade"} /\ wr \in Writes
      /\ ReleasedForTask
  BY HandlerFacts DEF Write, HandlersInv, HandlerType
<1>3. h \in HandlerType
  BY <1>2 DEF HandlerType
<1>4. worker' = [worker EXCEPT ![w] = h] /\ worker'[w] = h
  BY <1>1, HandlerFacts
<1>5. UNCHANGED <<settled, task, delivered, faults, reopens>>
  BY DEF Write
<1>6. HandlerOK(w)'
  BY <1>2, <1>4, <1>5 DEF HandlerType, HandlerOK, ControlOf, WritingOf, ViewOf, At, Holding
<1>7. wr.status \in {"ready", "blocked", "skipped", "succeeded", "failed"}
  BY <1>2 DEF HandlerOK, ControlOf, WritingOf, At, Ended
<1>8. row' \in Rows /\ ReleasedForTask'
  BY <1>1, <1>2, <1>5, <1>7, HandlerFacts DEF Rows, Writes, ReleasedForTask
<1>. QED  BY <1>3, <1>4, <1>5, <1>6, <1>8, HandlerFacts, OneHandler

LEMMA HandlersClaim ==
  ASSUME HandlersInv, NEW w \in Workers, Claim(w)
  PROVE  HandlersInv'
<1>1. PICK c \in worker[w].queue :
        /\ row' = IF row[c].status \in Waiting
                  THEN [row EXCEPT ![c].status = "releasing"] ELSE row
        /\ worker' = [worker EXCEPT ![w] = [@ EXCEPT
                !.queue = worker[w].queue \ {c},
                !.pc = IF row[c].status \in Waiting THEN "lookup" ELSE "release",
                !.child = IF row[c].status \in Waiting THEN c ELSE Nil]]
  BY DEF Claim
<1>. DEFINE pc == IF row[c].status \in Waiting THEN "lookup" ELSE "release"
            child == IF row[c].status \in Waiting THEN c ELSE Nil
            h == [worker[w] EXCEPT !.queue = @ \ {c}, !.pc = pc, !.child = child]
<1>2. /\ worker[w] \in HandlerType /\ HandlerOK(w) /\ At(w, "release") /\ c \in Children
      /\ ReleasedForTask
  BY HandlerFacts DEF Claim, HandlersInv, HandlerType
<1>3. h \in HandlerType
  BY <1>2 DEF HandlerType, Pcs
<1>4. worker' = [worker EXCEPT ![w] = h] /\ worker'[w] = h
  BY <1>1, HandlerFacts
<1>5. UNCHANGED <<settled, task, delivered, faults, reopens>>
  BY DEF Claim
<1>6. HandlerOK(w)'
  BY <1>2, <1>4, <1>5 DEF HandlerType, HandlerOK, ControlOf, WritingOf, ViewOf, At, Holding
<1>7. row' \in Rows /\ ReleasedForTask'
  BY <1>1, <1>2, HandlerFacts DEF Rows, ReleasedForTask, ChildStatuses
<1>. QED  BY <1>3, <1>4, <1>5, <1>6, <1>7, HandlerFacts, OneHandler

LEMMA HandlersLookup ==
  ASSUME HandlersInv, NEW w \in Workers, Lookup(w)
  PROVE  HandlersInv'
<1>. DEFINE same == Created(worker[w].child, Prior(w))
            h == IF same = {} THEN [worker[w] EXCEPT !.pc = "create"]
                 ELSE [worker[w] EXCEPT !.pc = "record", !.made = CHOOSE t \in same : TRUE]
<1>1. /\ worker[w] \in HandlerType /\ HandlerOK(w) /\ At(w, "lookup")
      /\ same \subseteq TaskIds
  BY HandlerFacts DEF Lookup, Created
<1>. HIDE DEF same
<1>2. same # {} => (CHOOSE t \in same : TRUE) \in TaskIds
  BY <1>1
<1>3. h \in HandlerType
  BY <1>1, <1>2 DEF HandlerType, Pcs
<1>4. worker' = [worker EXCEPT ![w] = h] /\ worker'[w] = h
  BY HandlerFacts DEF Lookup, same
<1>5. UNCHANGED <<row, settled, task, delivered, faults, reopens>>
  BY DEF Lookup
<1>6. HandlerOK(w)'
  BY <1>1, <1>2, <1>4, <1>5
     DEF HandlerType, HandlerOK, ControlOf, WritingOf, ViewOf, At, Holding
<1>. QED  BY <1>3, <1>4, <1>5, <1>6, HandlerFacts, LocalHandler

\* A new task changes none that there is.
LEMMA NewTaskType ==
  ASSUME HandlersInv, NEW w \in Workers, worker[w].pc \in Holding,
         NEW t \in TaskIds, NewTask(w, t)
  PROVE  /\ task' \in [TaskIds -> TaskType]
         /\ \A u \in TaskIds : task[u].state \in Ended => task'[u].state = task[u].state
<1>1. worker[w] \in HandlerType /\ worker[w].child \in Children
  BY HandlerFacts DEF HandlerOK, ControlOf
<1>2. Prior(w) \in TaskIds \cup {Nil}
  BY <1>1 DEF Prior, HandlerType, Rows
<1>. QED  BY <1>1, <1>2, HandlerFacts DEF NewTask, NoTask, TaskType, Ended

LEMMA HandlersCreate ==
  ASSUME HandlersInv, NEW w \in Workers, Create(w)
  PROVE  HandlersInv'
<1>1. PICK t \in TaskIds :
        /\ NewTask(w, t)
        /\ worker' = [worker EXCEPT ![w] = [@ EXCEPT !.pc = "record", !.made = t]]
  BY DEF Create
<1>. DEFINE h == [worker[w] EXCEPT !.pc = "record", !.made = t]
<1>2. worker[w] \in HandlerType /\ HandlerOK(w) /\ At(w, "create") /\ worker[w].pc \in Holding
  BY HandlerFacts DEF Create, At, Holding
<1>3. h \in HandlerType
  BY <1>2 DEF HandlerType, Pcs
<1>4. worker' = [worker EXCEPT ![w] = h] /\ worker'[w] = h
  BY <1>1, HandlerFacts
<1>5. UNCHANGED <<row, settled, delivered, faults, reopens>>
  BY DEF Create
<1>6. /\ task' \in [TaskIds -> TaskType]
      /\ \A u \in TaskIds : task[u].state \in Ended => task'[u].state = task[u].state
  BY <1>1, <1>2, NewTaskType
<1>7. HandlerOK(w)'
  BY <1>2, <1>4, <1>5, <1>6
     DEF HandlerType, HandlerOK, ControlOf, WritingOf, ViewOf, At, Holding
<1>8. ReleasedForTask'
  BY <1>5 DEF HandlersInv, ReleasedForTask
<1>. QED  BY <1>3, <1>4, <1>5, <1>6, <1>7, <1>8, HandlerFacts, OneHandler

LEMMA HandlersCreateRefused ==
  ASSUME HandlersInv, NEW w \in Workers, CreateRefused(w)
  PROVE  HandlersInv'
<1>. DEFINE h == [worker[w] EXCEPT !.pc = "refuse"]
<1>1. worker[w] \in HandlerType /\ HandlerOK(w) /\ At(w, "create")
  BY HandlerFacts DEF CreateRefused
<1>2. h \in HandlerType
  BY <1>1 DEF HandlerType, Pcs
<1>3. worker' = [worker EXCEPT ![w] = h] /\ worker'[w] = h
  BY HandlerFacts DEF CreateRefused
<1>4. UNCHANGED <<row, settled, task, delivered, reopens>> /\ faults' \in 0 .. MaxFaults
  BY FaultType DEF CreateRefused
<1>5. HandlerOK(w)'
  BY <1>1, <1>3, <1>4 DEF HandlerType, HandlerOK, ControlOf, WritingOf, ViewOf, At, Holding
<1>. QED  BY <1>2, <1>3, <1>4, <1>5, HandlerFacts, LocalHandler

LEMMA HandlersCreateFails ==
  ASSUME HandlersInv, NEW w \in Workers, CreateFails(w)
  PROVE  HandlersInv'
<1>. DEFINE h == [worker[w] EXCEPT !.pc = "rollback"]
<1>1. worker[w] \in HandlerType /\ HandlerOK(w) /\ At(w, "create") /\ worker[w].pc \in Holding
  BY HandlerFacts DEF CreateFails, At, Holding
<1>2. h \in HandlerType
  BY <1>1 DEF HandlerType, Pcs
<1>3. worker' = [worker EXCEPT ![w] = h] /\ worker'[w] = h
  BY HandlerFacts DEF CreateFails
<1>4. UNCHANGED <<row, settled, delivered, reopens>> /\ faults' \in 0 .. MaxFaults
  BY FaultType DEF CreateFails
<1>5. /\ task' \in [TaskIds -> TaskType]
      /\ \A u \in TaskIds : task[u].state \in Ended => task'[u].state = task[u].state
  BY <1>1, NewTaskType, HandlerFacts DEF CreateFails
<1>6. HandlerOK(w)'
  BY <1>1, <1>3, <1>4, <1>5
     DEF HandlerType, HandlerOK, ControlOf, WritingOf, ViewOf, At, Holding
<1>7. ReleasedForTask'
  BY <1>4 DEF HandlersInv, ReleasedForTask
<1>. QED  BY <1>2, <1>3, <1>4, <1>5, <1>6, <1>7, HandlerFacts, OneHandler

LEMMA HandlersEndRelease ==
  ASSUME HandlersInv, NEW w \in Workers, worker[w].pc \in {"record", "rollback", "refuse"},
         NEW new \in [status : ChildStatuses, task : TaskIds \cup {Nil}],
         new.status = "released" => new.task \in TaskIds,
         EndRelease(w, new), UNCHANGED faults
  PROVE  HandlersInv'
<1>. DEFINE c == worker[w].child
            refused == IF new.status = "failed" THEN worker[w].refused \cup {c}
                                                ELSE worker[w].refused
            h == [worker[w] EXCEPT !.pc = "release", !.child = Nil, !.made = Nil,
                                   !.refused = refused]
<1>1. /\ worker[w] \in HandlerType /\ HandlerOK(w) /\ c \in Children
      /\ worker[w].pc \in Holding /\ ReleasedForTask
  BY HandlerFacts DEF HandlerOK, ControlOf, Holding, HandlersInv
<1>2. refused \in SUBSET Children
  BY <1>1 DEF HandlerType
<1>3. worker' = [worker EXCEPT ![w] = h]
  BY DEF EndRelease
<1>4. row' = IF row[c].status = "releasing" THEN [row EXCEPT ![c] = new] ELSE row
  BY DEF EndRelease
<1>5. UNCHANGED <<settled, task, delivered, faults, reopens>>
  BY DEF EndRelease
<1>. HIDE DEF refused
<1>6. h \in HandlerType
  BY <1>1, <1>2 DEF HandlerType, Pcs
<1>7. worker'[w] = h
  BY <1>3, HandlerFacts
<1>8. HandlerOK(w)'
  BY <1>1, <1>2, <1>5, <1>7
     DEF HandlerType, HandlerOK, ControlOf, WritingOf, ViewOf, At, Holding
<1>9. row' \in Rows /\ ReleasedForTask'
  BY <1>1, <1>4, HandlerFacts DEF Rows, ReleasedForTask
<1>. QED  BY <1>3, <1>5, <1>6, <1>8, <1>9, HandlerFacts, OneHandler

LEMMA HandlersRecord ==
  ASSUME HandlersInv, NEW w \in Workers,
         Record(w) \/ RollBackClaim(w) \/ FailClaimTerminal(w)
  PROVE  HandlersInv'
<1>1. worker[w] \in HandlerType /\ HandlerOK(w) /\ row \in Rows
  BY HandlerFacts
<1>2. worker[w].pc \in {"record", "rollback", "refuse"}
  BY DEF Record, RollBackClaim, FailClaimTerminal, At
<1>3. worker[w].child \in Children /\ (At(w, "record") => worker[w].made \in TaskIds)
  BY <1>1, <1>2 DEF HandlerOK, ControlOf, Holding
<1>4. PICK new \in [status : ChildStatuses, task : TaskIds \cup {Nil}] :
        /\ new.status = "released" => new.task \in TaskIds
        /\ EndRelease(w, new) /\ UNCHANGED faults
  BY <1>1, <1>3 DEF Record, RollBackClaim, FailClaimTerminal, ChildStatuses, Rows
<1>. QED  BY <1>2, <1>4, HandlersEndRelease

LEMMA HandlersEndReleaseFails ==
  ASSUME HandlersInv, NEW w \in Workers, EndReleaseFails(w)
  PROVE  HandlersInv'
<1>. DEFINE refused == IF At(w, "refuse") THEN worker[w].refused \cup {worker[w].child}
                                          ELSE worker[w].refused
            h == [worker[w] EXCEPT !.pc = "release", !.child = Nil, !.made = Nil,
                                   !.refused = refused]
<1>1. /\ worker[w] \in HandlerType /\ HandlerOK(w) /\ worker[w].child \in Children
      /\ worker[w].pc \in Holding
  BY HandlerFacts DEF EndReleaseFails, HandlerOK, ControlOf, Holding
<1>2. refused \in SUBSET Children
  BY <1>1 DEF HandlerType
<1>3. worker' = [worker EXCEPT ![w] = h]
  BY DEF EndReleaseFails
<1>4. UNCHANGED <<row, settled, task, delivered, reopens>> /\ faults' \in 0 .. MaxFaults
  BY FaultType DEF EndReleaseFails
<1>. HIDE DEF refused
<1>5. h \in HandlerType
  BY <1>1, <1>2 DEF HandlerType, Pcs
<1>6. worker'[w] = h
  BY <1>3, HandlerFacts
<1>7. HandlerOK(w)'
  BY <1>1, <1>2, <1>4, <1>6
     DEF HandlerType, HandlerOK, ControlOf, WritingOf, ViewOf, At, Holding
<1>. QED  BY <1>3, <1>4, <1>5, <1>7, HandlerFacts, LocalHandler

\* What follows from refusals is written to other children, each once.
LEMMA FailureWrites ==
  ASSUME HandlersInv, NEW w \in Workers
  PROVE  LET failed == [c \in Children |-> IF c \in worker[w].refused THEN "failed"
                                           ELSE worker[w].rows[c].status]
             skips  == UNION {SkipPlan(failed, c) : c \in worker[w].refused}
         IN /\ failed \in Views
            /\ skips \subseteq Writes /\ OncePerChild(skips)
            /\ \A wr \in skips : wr.status = "skipped"
<1>. DEFINE refused == worker[w].refused
            failed == [c \in Children |-> IF c \in worker[w].refused THEN "failed"
                                          ELSE worker[w].rows[c].status]
<1>1. refused \subseteq Children /\ worker[w].rows \in Rows
  BY HandlerFacts DEF HandlerType
<1>2. failed \in Views
  BY <1>1 DEF Views, Rows, ChildStatuses
<1>. HIDE DEF refused, failed
<1>3. \A c \in refused : /\ SkipPlan(failed, c) \subseteq Writes
                         /\ \A wr \in SkipPlan(failed, c) : wr.status = "skipped"
  BY <1>1, SkipPlanFacts
<1>4. UNION {SkipPlan(failed, c) : c \in refused} \subseteq Writes
  BY <1>3
<1>5. \A wr \in UNION {SkipPlan(failed, c) : c \in refused} : wr.status = "skipped"
  BY <1>3
<1>6. OncePerChild(UNION {SkipPlan(failed, c) : c \in refused})
  <2>1. ASSUME NEW x \in Writes, NEW y \in Writes, x.status = y.status, x.child = y.child
        PROVE  x = y
    BY <2>1 DEF Writes
  <2>. QED  BY <1>4, <1>5, <2>1 DEF OncePerChild
<1>. QED  BY <1>2, <1>4, <1>5, <1>6 DEF refused, failed

LEMMA HandlersApplyFailures ==
  ASSUME HandlersInv, NEW w \in Workers, ApplyTerminalCreateFailures(w)
  PROVE  HandlersInv'
<1>. DEFINE failed == [c \in Children |-> IF c \in worker[w].refused THEN "failed"
                                          ELSE worker[w].rows[c].status]
            skips  == UNION {SkipPlan(failed, c) : c \in worker[w].refused}
            view   == After(failed, skips)
            rows   == [c \in Children |-> [status |-> view[c],
                                           task |-> worker[w].rows[c].task]]
            h == [worker[w] EXCEPT !.pc = "cascade", !.writes = skips, !.refused = {},
                                   !.rows = rows]
<1>1. worker[w] \in HandlerType /\ HandlerOK(w) /\ worker[w].rows \in Rows
  BY HandlerFacts DEF HandlerType
<1>2. /\ failed \in Views /\ skips \subseteq Writes /\ OncePerChild(skips)
      /\ \A wr \in skips : wr.status = "skipped"
  BY FailureWrites
<1>3. worker' = [worker EXCEPT ![w] = h]
  BY DEF ApplyTerminalCreateFailures
<1>4. UNCHANGED <<row, settled, task, delivered, faults, reopens>>
  BY DEF ApplyTerminalCreateFailures
<1>5. \A c \in Children : failed[c] = "released" => worker[w].rows[c].task \in TaskIds
  BY <1>1 DEF HandlerOK, ViewOf
<1>. HIDE DEF failed, skips
<1>6. view \in Views /\ \A c \in Children : view[c] \in {failed[c], "skipped"}
  BY <1>2, AfterType DEF After
<1>. HIDE DEF view
<1>7. rows \in Rows /\ \A c \in Children : rows[c].status = "released"
                                             => rows[c].task \in TaskIds
  BY <1>1, <1>5, <1>6 DEF Rows, Views
<1>. HIDE DEF rows
<1>8. h \in HandlerType
  BY <1>1, <1>2, <1>7 DEF HandlerType, Pcs
<1>9. worker'[w] = h
  BY <1>3, HandlerFacts
<1>10. HandlerOK(w)'
  BY <1>1, <1>2, <1>4, <1>7, <1>9
     DEF HandlerType, HandlerOK, ControlOf, WritingOf, ViewOf, At, Holding, OncePerChild
<1>. QED  BY <1>3, <1>4, <1>8, <1>10, HandlerFacts, LocalHandler

\* A handler that is done is idle again.
LEMMA HandlersDone ==
  ASSUME HandlersInv, NEW w \in Workers, worker' = [worker EXCEPT ![w] = Idle],
         UNCHANGED <<row, task, reopens>>,
         settled' \in BOOLEAN, delivered' \subseteq TaskIds, faults' \in 0 .. MaxFaults
  PROVE  HandlersInv'
<1>1. worker'[w] = Idle /\ UNCHANGED <<task, reopens>>
  BY HandlerFacts
<1>2. HandlerOK(w)'
  BY <1>1, IdleType, SeededType
     DEF HandlerOK, ControlOf, WritingOf, ViewOf, At, Holding, Waiting
<1>. QED  BY <1>2, IdleType, LocalHandler

LEMMA HandlersFinish ==
  ASSUME HandlersInv, NEW w \in Workers, Finish(w) \/ Settle(w) \/ Crash(w)
  PROVE  HandlersInv'
<1>1. CASE Finish(w)
  BY <1>1, HandlerFacts, HandlersDone DEF Finish
<1>2. CASE Settle(w)
  BY <1>2, HandlerFacts, HandlersDone DEF Settle
<1>3. CASE Crash(w)
  <2>1. faults' \in 0 .. MaxFaults
    BY <1>3, FaultType DEF Crash
  <2>2. delivered' \subseteq TaskIds
    BY <1>3, HandlerFacts DEF Crash
  <2>. QED  BY <1>3, <2>1, <2>2, HandlerFacts, HandlersDone DEF Crash
<1>. QED  BY <1>1, <1>2, <1>3

LEMMA HandlersDeliver ==
  ASSUME HandlersInv, NEW w \in Reconcilers, NEW t \in TaskIds, Deliver(w, t)
  PROVE  HandlersInv'
<1>1. w \in Workers /\ task[t].state \in Ended /\ delivered' \subseteq TaskIds
      /\ faults' \in 0 .. MaxFaults
  BY FaultType, HandlerFacts DEF Deliver, Workers
<1>2. UNCHANGED <<row, settled, task, reopens>>
  BY DEF Deliver
<1>3. CASE \E c \in Children : row[c].task = t
  <2>. DEFINE child == CHOOSE c \in Children : row[c].task = t
              h == [Idle EXCEPT !.pc = "load", !.job = "reconcile", !.event = t,
                                !.child = child]
  <2>1. child \in Children
    BY <1>3
  <2>2. worker' = [worker EXCEPT ![w] = h]
    BY <1>3 DEF Deliver
  <2>. HIDE DEF child
  <2>3. h \in HandlerType
    BY <2>1, IdleType DEF HandlerType, Pcs, Jobs
  <2>4. worker'[w] = h
    BY <1>1, <2>2, HandlerFacts
  <2>5. HandlerOK(w)'
    BY <1>1, <1>2, <2>1, <2>4, IdleType, SeededType
       DEF HandlerType, HandlerOK, ControlOf, WritingOf, ViewOf, At, Holding, Waiting
  <2>. QED  BY <1>1, <1>2, <2>2, <2>3, <2>5, HandlerFacts, LocalHandler
<1>4. CASE ~\E c \in Children : row[c].task = t
  <2>1. worker' = [worker EXCEPT ![w] = Idle]
    BY <1>4 DEF Deliver
  <2>. QED  BY <1>1, <1>2, <2>1, HandlerFacts, HandlersDone
<1>. QED  BY <1>3, <1>4

\* Reopening is counted within the bound.
LEMMA ReopensType ==
  ASSUME HandlersInv, NEW event, Reopens(event)
  PROVE  reopens' \in 0 .. MaxReopens /\ reopens' > 0
  BY DEF Reopens, HandlersInv, TypeOK

LEMMA HandlersRetry ==
  ASSUME HandlersInv, Retry
  PROVE  HandlersInv'
<1>. DEFINE plan == RetryPlan(Status(row))
            queue == ToRelease(Status(row), plan, "ready")
            h == [Idle EXCEPT !.pc = "write", !.job = "retry", !.rows = row,
                              !.writes = plan, !.queue = queue]
            w == "webhook"
<1>1. w \in Workers /\ reopens' \in 0 .. MaxReopens /\ reopens' > 0
  BY ReopensType DEF Workers, Retry
<1>2. /\ plan \subseteq Writes /\ OncePerChild(plan)
      /\ \A wr \in plan : wr.status \in {"blocked", "ready"}
  BY RetryPlanFacts
<1>3. UNCHANGED <<row, settled, task, delivered, faults>> /\ worker' = [worker EXCEPT ![w] = h]
  BY DEF Retry
<1>4. queue \subseteq Children /\ ReleasedForTask /\ row \in Rows
  BY <1>1, HandlerFacts DEF ToRelease, HandlersInv
<1>. HIDE DEF plan, queue
<1>5. h \in HandlerType
  BY <1>2, <1>4, IdleType DEF HandlerType, Pcs, Jobs
<1>6. /\ worker'[w].pc = "write" /\ worker'[w].job = "retry" /\ worker'[w].event = Nil
      /\ worker'[w].child = Nil /\ worker'[w].rows = row /\ worker'[w].writes = plan
      /\ worker'[w].queue = queue
  <2>1. worker'[w] = h
    BY <1>1, <1>3, HandlerFacts
  <2>. QED  BY <2>1, IdleType DEF HandlerType
<1>7. HandlerOK(w)'
  BY <1>1, <1>2, <1>3, <1>4, <1>6, IdleType
     DEF HandlerType, HandlerOK, ControlOf, WritingOf, ViewOf, At, Holding, ReleasedForTask,
         OncePerChild
<1>8. ReleasedForTask'
  BY <1>3 DEF HandlersInv, ReleasedForTask
<1>. QED  BY <1>1, <1>3, <1>5, <1>7, <1>8, HandlerFacts, OneHandler

LEMMA HandlersFix ==
  ASSUME HandlersInv, NEW w \in Reconcilers, NEW c \in Children, Fix(w, c)
  PROVE  HandlersInv'
<1>. DEFINE plan == RecoveryPlan(Status(row), c)
            queue == ToRelease(Status(row), plan, "blocked")
            h == [Idle EXCEPT !.pc = "write", !.job = "fix", !.child = c,
                              !.writes = plan, !.queue = queue]
<1>1. w \in Workers /\ reopens' \in 0 .. MaxReopens /\ reopens' > 0
  BY ReopensType DEF Workers, Fix
<1>2. /\ plan \subseteq Writes /\ OncePerChild(plan)
      /\ \A wr \in plan : wr.status \in {"blocked", "succeeded"}
  BY RecoveryPlanFacts
<1>3. UNCHANGED <<row, settled, task, delivered, faults>> /\ worker' = [worker EXCEPT ![w] = h]
  BY DEF Fix
<1>4. queue \subseteq Children
  BY DEF ToRelease
<1>. HIDE DEF plan, queue
<1>5. h \in HandlerType
  BY <1>2, <1>4, IdleType DEF HandlerType, Pcs, Jobs
<1>6. /\ worker'[w].pc = "write" /\ worker'[w].job = "fix" /\ worker'[w].event = Nil
      /\ worker'[w].child = c /\ worker'[w].rows = SeededRows /\ worker'[w].writes = plan
      /\ worker'[w].queue = queue
  <2>1. worker'[w] = h
    BY <1>1, <1>3, HandlerFacts
  <2>. QED  BY <2>1, IdleType DEF HandlerType
<1>7. HandlerOK(w)'
  BY <1>1, <1>2, <1>3, <1>4, <1>6, IdleType, SeededType
     DEF HandlerType, HandlerOK, ControlOf, WritingOf, ViewOf, At, Holding, OncePerChild,
         Waiting
<1>8. ReleasedForTask'
  BY <1>3 DEF HandlersInv, ReleasedForTask
<1>. QED  BY <1>1, <1>3, <1>5, <1>7, <1>8, HandlerFacts, OneHandler

LEMMA HandlersClearRollup ==
  ASSUME HandlersInv, NEW w \in Workers, ClearRollupClaim(w)
  PROVE  HandlersInv'
<1>. DEFINE h == [worker[w] EXCEPT !.pc = "reread"]
<1>1. /\ worker[w] \in HandlerType /\ HandlerOK(w) /\ At(w, "write") /\ worker[w].writes = {}
      /\ worker[w].job \in {"retry", "fix"}
  BY HandlerFacts DEF ClearRollupClaim, Written
<1>2. h \in HandlerType
  BY <1>1 DEF HandlerType, Pcs
<1>3. worker' = [worker EXCEPT ![w] = h] /\ worker'[w] = h
  BY HandlerFacts DEF ClearRollupClaim
<1>4. UNCHANGED <<row, task, delivered, faults, reopens>> /\ settled' \in BOOLEAN
  BY DEF ClearRollupClaim
<1>5. HandlerOK(w)'
  BY <1>1, <1>3, <1>4 DEF HandlerType, HandlerOK, ControlOf, WritingOf, ViewOf, At, Holding
<1>. QED  BY <1>2, <1>3, <1>4, <1>5, HandlerFacts, LocalHandler

LEMMA HandlersRereadToRelease ==
  ASSUME HandlersInv, NEW w \in Workers, RereadToRelease(w)
  PROVE  HandlersInv'
<1>. DEFINE planned == IF worker[w].job = "retry" /\ Surface = "jira"
                       THEN {c \in worker[w].queue : row[c].status = "ready"}
                       ELSE worker[w].queue
<1>1. PICK queue \in SUBSET planned :
        /\ Throttled(planned, queue)
        /\ worker' = [worker EXCEPT ![w] = [@ EXCEPT !.pc = "release", !.rows = row,
                                                     !.queue = queue, !.child = Nil]]
  BY DEF RereadToRelease
<1>. DEFINE h == [worker[w] EXCEPT !.pc = "release", !.rows = row,
                                   !.queue = queue, !.child = Nil]
<1>2. worker[w] \in HandlerType /\ HandlerOK(w) /\ At(w, "reread") /\ ReleasedForTask
  BY HandlerFacts DEF RereadToRelease, HandlersInv
<1>3. queue \subseteq Children
  BY <1>2 DEF HandlerType
<1>4. h \in HandlerType
  BY <1>2, <1>3, HandlerFacts DEF HandlerType, Pcs
<1>5. worker' = [worker EXCEPT ![w] = h] /\ worker'[w] = h
  BY <1>1, HandlerFacts
<1>6. UNCHANGED <<row, settled, task, delivered, reopens>> /\ faults' \in 0 .. MaxFaults
  BY <1>1, ThrottledType DEF RereadToRelease
<1>7. HandlerOK(w)'
  BY <1>2, <1>5, <1>6 DEF HandlerType, HandlerOK, ControlOf, WritingOf, ViewOf, At,
     Holding, ReleasedForTask
<1>. QED  BY <1>4, <1>5, <1>6, <1>7, HandlerFacts, LocalHandler

LEMMA HandlersRefresh ==
  ASSUME HandlersInv, NEW w \in Workers, Refresh(w)
  PROVE  HandlersInv'
<1>. DEFINE h == [worker[w] EXCEPT !.pc = "settle", !.rows = row]
<1>1. worker[w] \in HandlerType /\ HandlerOK(w) /\ At(w, "release") /\ ReleasedForTask
  BY HandlerFacts DEF Refresh, Released, HandlersInv
<1>2. h \in HandlerType
  BY <1>1, HandlerFacts DEF HandlerType, Pcs
<1>3. worker' = [worker EXCEPT ![w] = h] /\ worker'[w] = h
  BY HandlerFacts DEF Refresh
<1>4. UNCHANGED <<row, settled, task, delivered, faults, reopens>>
  BY DEF Refresh
<1>5. HandlerOK(w)'
  BY <1>1, <1>3, <1>4 DEF HandlerType, HandlerOK, ControlOf, WritingOf, ViewOf, At,
     Holding, ReleasedForTask
<1>. QED  BY <1>2, <1>3, <1>4, <1>5, HandlerFacts, LocalHandler

LEMMA HandlersSweepLoad ==
  ASSUME HandlersInv, SweepLoad
  PROVE  HandlersInv'
<1>. DEFINE w == "sweep"
            pc == IF AllTerminal(Status(row)) THEN "settle" ELSE "reset"
            stuck == {c \in Children : row[c].status = "releasing"}
            plan == SetTo(stuck, "ready")
            queue == {c \in Children : row[c].status = "released"}
            h == [Idle EXCEPT !.pc = pc, !.job = "sweep", !.rows = row,
                              !.writes = plan, !.queue = queue]
<1>1. w \in Workers
  BY DEF Workers
<1>2. worker' = [worker EXCEPT ![w] = h] /\ UNCHANGED <<row, settled, task, delivered, faults, reopens>>
  BY DEF SweepLoad
<1>3. /\ plan \subseteq Writes /\ OncePerChild(plan) /\ \A wr \in plan : wr.status = "ready"
  BY SetToFacts DEF ChildStatuses
<1>4. /\ queue \subseteq Children /\ ReleasedForTask /\ row \in Rows
      /\ \A c \in queue : row[c].status = "released"
  BY <1>1, HandlerFacts DEF HandlersInv
<1>5. pc \in {"settle", "reset"} /\ (pc = "settle" => plan = {})
  <2>1. AllTerminal(Status(row)) => stuck = {}
    BY DEF AllTerminal, Status, TerminalChildStatuses
  <2>. QED  BY <2>1 DEF SetTo
<1>. HIDE DEF plan, queue, pc
<1>6. h \in HandlerType
  BY <1>3, <1>4, <1>5, IdleType DEF HandlerType, Pcs, Jobs
<1>7. /\ worker'[w].pc = pc /\ worker'[w].job = "sweep" /\ worker'[w].event = Nil
      /\ worker'[w].child = Nil /\ worker'[w].rows = row /\ worker'[w].writes = plan
      /\ worker'[w].queue = queue
  <2>1. worker'[w] = h
    BY <1>1, <1>2, HandlerFacts
  <2>. QED  BY <2>1, IdleType DEF HandlerType
<1>8. HandlerOK(w)'
  BY <1>1, <1>2, <1>3, <1>4, <1>5, <1>7
     DEF HandlerOK, ControlOf, WritingOf, ViewOf, At, Holding, ReleasedForTask, OncePerChild
<1>. QED  BY <1>1, <1>2, <1>6, <1>8, HandlerFacts, LocalHandler

LEMMA HandlersAdvance ==
  ASSUME HandlersInv, Advance
  PROVE  HandlersInv'
<1>. DEFINE w == "sweep"
<1>1. PICK c \in worker[w].queue :
        LET outcome == task[worker[w].rows[c].task].state
        IN /\ row' = IF outcome \in Ended THEN [row EXCEPT ![c].status = outcome] ELSE row
           /\ worker' = [worker EXCEPT ![w].queue = @ \ {c}]
  BY DEF Advance
<1>. DEFINE h == [worker[w] EXCEPT !.queue = @ \ {c}]
<1>2. /\ w \in Workers /\ worker[w] \in HandlerType /\ HandlerOK(w) /\ At(w, "reset")
      /\ ReleasedForTask /\ c \in Children
  BY HandlerFacts DEF Advance, Workers, Written, HandlersInv, HandlerType
<1>3. h \in HandlerType
  BY <1>2 DEF HandlerType
<1>4. worker' = [worker EXCEPT ![w] = h] /\ worker'[w] = h
  BY <1>1, <1>2, HandlerFacts
<1>5. UNCHANGED <<settled, task, delivered, faults, reopens>>
  BY DEF Advance
<1>6. HandlerOK(w)'
  BY <1>2, <1>4, <1>5 DEF HandlerType, HandlerOK, ControlOf, WritingOf, ViewOf, At, Holding
<1>7. row' \in Rows /\ ReleasedForTask'
  BY <1>1, <1>2, HandlerFacts DEF Rows, ReleasedForTask, Ended, ChildStatuses
<1>. QED  BY <1>2, <1>3, <1>4, <1>5, <1>6, <1>7, HandlerFacts, OneHandler

LEMMA HandlersSweepReread ==
  ASSUME HandlersInv, SweepReread
  PROVE  HandlersInv'
<1>. DEFINE w == "sweep"
            plan == DeadPlan(Status(row))
            h == [worker[w] EXCEPT !.pc = "cascade", !.rows = row, !.writes = plan]
<1>1. /\ w \in Workers /\ worker[w] \in HandlerType /\ HandlerOK(w) /\ At(w, "reset")
      /\ ReleasedForTask /\ row \in Rows
  BY HandlerFacts DEF SweepReread, Workers, Written, HandlersInv
<1>2. /\ plan \subseteq Writes /\ OncePerChild(plan) /\ \A wr \in plan : wr.status = "skipped"
  BY SetToFacts DEF DeadPlan, ChildStatuses
<1>3. worker' = [worker EXCEPT ![w] = h] /\ UNCHANGED <<row, settled, task, delivered, faults, reopens>>
  BY DEF SweepReread
<1>. HIDE DEF plan
<1>4. h \in HandlerType
  BY <1>1, <1>2 DEF HandlerType, Pcs
<1>5. worker'[w] = h
  BY <1>1, <1>3, HandlerFacts
<1>6. HandlerOK(w)'
  BY <1>1, <1>2, <1>3, <1>5
     DEF HandlerType, HandlerOK, ControlOf, WritingOf, ViewOf, At, Holding, ReleasedForTask,
         OncePerChild
<1>. QED  BY <1>1, <1>3, <1>4, <1>6, HandlerFacts, LocalHandler

LEMMA HandlersSweepRelease ==
  ASSUME HandlersInv, SweepRelease
  PROVE  HandlersInv'
<1>. DEFINE w == "sweep"
            found == Releasable(Status(worker[w].rows))
            pc == IF found = {} THEN "settle" ELSE "release"
<1>1. PICK queue \in SUBSET found :
        /\ Throttled(found, queue)
        /\ worker' = [worker EXCEPT ![w] = [@ EXCEPT !.pc = pc, !.queue = queue]]
  BY DEF SweepRelease
<1>. DEFINE h == [worker[w] EXCEPT !.pc = pc, !.queue = queue]
<1>2. /\ w \in Workers /\ worker[w] \in HandlerType /\ HandlerOK(w) /\ At(w, "cascade")
      /\ worker[w].writes = {} /\ pc \in {"settle", "release"} /\ queue \subseteq Children
  BY HandlerFacts DEF SweepRelease, Workers, Written, Releasable
<1>3. UNCHANGED <<row, settled, task, delivered, reopens>> /\ faults' \in 0 .. MaxFaults
  BY <1>1, ThrottledType DEF SweepRelease
<1>. HIDE DEF pc, found
<1>4. h \in HandlerType
  BY <1>2 DEF HandlerType, Pcs
<1>5. worker' = [worker EXCEPT ![w] = h] /\ worker'[w] = h
  BY <1>1, <1>2, HandlerFacts
<1>6. HandlerOK(w)'
  BY <1>2, <1>3, <1>5 DEF HandlerType, HandlerOK, ControlOf, WritingOf, ViewOf, At, Holding
<1>. QED  BY <1>2, <1>3, <1>4, <1>5, <1>6, HandlerFacts, LocalHandler

LEMMA HandlersTaskEnds ==
  ASSUME HandlersInv, NEW t \in TaskIds, TaskEnds(t)
  PROVE  HandlersInv'
<1>1. /\ task' \in [TaskIds -> TaskType]
      /\ \A u \in TaskIds : task[u].state \in Ended => task'[u] = task[u]
      /\ UNCHANGED <<row, settled, worker, delivered, faults, reopens>>
  BY DEF TaskEnds, HandlersInv, TypeOK, TaskType, Ended
<1>2. ASSUME NEW w \in Workers PROVE HandlerOK(w)'
  <2>1. HandlerOK(w) /\ worker'[w] = worker[w]
    BY <1>1, HandlerFacts
  <2>2. ControlOf(w)'
    BY <1>1, <2>1 DEF HandlerOK, ControlOf, At
  <2>3. WritingOf(w)'
    BY <1>1, <2>1 DEF HandlerOK, ControlOf, WritingOf, At
  <2>4. ViewOf(w)'
    BY <1>1, <2>1 DEF HandlerOK, ViewOf, At
  <2>. QED  BY <2>2, <2>3, <2>4 DEF HandlerOK
<1>3. TypeOK'
  BY <1>1 DEF HandlersInv, TypeOK, TaskType
<1>4. ReleasedForTask'
  BY <1>1 DEF HandlersInv, ReleasedForTask
<1>. QED  BY <1>2, <1>3, <1>4 DEF HandlersInv, HandlerOK

(***************************************************************************)
(* In any surroundings                                                     *)
(***************************************************************************)

LEMMA HandlersInit ==
  ASSUME Init
  PROVE  HandlersInv
<1>. DEFINE roots == {c \in Children : DependsOn[c] = {}}
            seed == [Idle EXCEPT !.pc = "release", !.job = "seed", !.queue = roots]
<1>1. /\ seed \in HandlerType /\ seed.pc = "release" /\ seed.job = "seed" /\ seed.event = Nil
      /\ seed.child = Nil /\ seed.rows = SeededRows /\ seed.writes = {}
  BY IdleType DEF HandlerType, Pcs, Jobs
<1>2. \A w \in Workers : worker[w] = IF w = "webhook" THEN seed ELSE Idle
  BY DEF Init
<1>3. worker \in [Workers -> HandlerType]
  BY <1>1, IdleType DEF Init
<1>. HIDE DEF seed
<1>4. TypeOK
  <2>1. task \in [TaskIds -> TaskType]
    BY DEF Init, NoTask, TaskType
  <2>2. /\ row \in Rows /\ settled \in BOOLEAN /\ delivered \subseteq TaskIds
        /\ faults \in 0 .. MaxFaults /\ reopens \in 0 .. MaxReopens
    <3>1. /\ row = SeededRows /\ settled = FALSE /\ delivered = {}
          /\ faults = 0 /\ reopens = 0
      BY DEF Init
    <3>2. row \in Rows
      BY <3>1, SeededType
    <3>3. settled \in BOOLEAN /\ delivered \subseteq TaskIds
      BY <3>1
    <3>4. faults \in 0 .. MaxFaults /\ reopens \in 0 .. MaxReopens
      BY <3>1
    <3>. QED  BY <3>2, <3>3, <3>4
  <2>. QED  BY <1>3, <2>1, <2>2 DEF TypeOK, TaskType, HandlerType, Pcs
<1>5. ReleasedForTask
  BY SeededType DEF Init, ReleasedForTask, Waiting
<1>6. ASSUME NEW w \in Workers PROVE HandlerOK(w)
  <2>1. CASE w = "webhook"
    BY <1>1, <1>2, <2>1, SeededType
       DEF HandlerOK, ControlOf, WritingOf, ViewOf, At, Holding, Waiting
  <2>2. CASE w # "webhook"
    BY <1>2, <2>2, IdleOK
  <2>. QED  BY <2>1, <2>2
<1>. QED  BY <1>4, <1>5, <1>6 DEF HandlersInv, HandlerOK

LEMMA HandlersNext ==
  ASSUME HandlersInv, [Next]_vars
  PROVE  HandlersInv'
<1>1. CASE \E t \in TaskIds : TaskEnds(t)
  BY <1>1, HandlersTaskEnds
<1>2. CASE \E w \in Reconcilers, t \in TaskIds : Deliver(w, t)
  BY <1>2, HandlersDeliver
<1>3. CASE \E w \in Workers : Handle(w) \/ Fail(w)
  <2>1. PICK w \in Workers : Handle(w) \/ Fail(w)
    BY <1>3
  <2>2. CASE Load(w) \/ Write(w) \/ Reread(w) \/ Claim(w) \/ Lookup(w) \/ Create(w)
    BY <2>2, HandlersLoad, HandlersWrite, HandlersReread, HandlersClaim, HandlersLookup,
       HandlersCreate
  <2>3. CASE Record(w) \/ RollBackClaim(w) \/ FailClaimTerminal(w)
    BY <2>3, HandlersRecord
  <2>4. CASE Finish(w) \/ Settle(w) \/ Crash(w)
    BY <2>4, HandlersFinish
  <2>5. CASE ApplyTerminalCreateFailures(w) \/ ClearRollupClaim(w) \/ RereadToRelease(w)
             \/ Refresh(w)
    BY <2>5, HandlersApplyFailures, HandlersClearRollup, HandlersRereadToRelease,
       HandlersRefresh
  <2>6. CASE CreateRefused(w) \/ CreateFails(w) \/ EndReleaseFails(w)
    BY <2>6, HandlersCreateRefused, HandlersCreateFails, HandlersEndReleaseFails
  <2>. QED  BY <2>1, <2>2, <2>3, <2>4, <2>5, <2>6 DEF Handle, Fail
<1>4. CASE Retry
  BY <1>4, HandlersRetry
<1>5. CASE \E w \in Reconcilers, c \in Children : Fix(w, c)
  BY <1>5, HandlersFix
<1>6. CASE Sweep
  BY <1>6, HandlersSweepLoad, HandlersAdvance, HandlersSweepReread, HandlersSweepRelease
     DEF Sweep
<1>7. CASE UNCHANGED vars
  <2>1. \A w \in Workers : HandlerOK(w)'
    BY <1>7 DEF vars, HandlersInv, HandlerOK, ControlOf, WritingOf, ViewOf, At
  <2>2. TypeOK' /\ ReleasedForTask'
    BY <1>7 DEF vars, HandlersInv, TypeOK, ReleasedForTask
  <2>. QED  BY <2>1, <2>2 DEF HandlersInv, HandlerOK
<1>. QED  BY <1>1, <1>2, <1>3, <1>4, <1>5, <1>6, <1>7 DEF Next

\* In any surroundings, overlapping sweeps and hasty retries included, a handler
\* writes and creates only for children, what it still has to write is what its
\* job calls for, and a released row names its task.
THEOREM HandlersInOrder == Spec => []HandlersInv
<1>1. Init => HandlersInv
  BY HandlersInit
<1>2. HandlersInv /\ [Next]_vars => HandlersInv'
  BY HandlersNext
<1>. QED  BY <1>1, <1>2, PTL DEF Spec

\* Every variable of the orchestration stays in its range.
THEOREM OrchestrationTyped == Spec => []TypeOK
<1>1. HandlersInv => TypeOK
  BY DEF HandlersInv
<1>. QED  BY <1>1, HandlersInOrder, PTL

-----------------------------------------------------------------------------
(***************************************************************************)
(* Nothing is stranded                                                     *)
(***************************************************************************)

\* What a step of one handler must keep, so that every child that could be released
\* is still looked at.
LEMMA StillAttended ==
  ASSUME HandlersInv, AttendedInv, faults = 0, NEW w \in Workers,
         \A v \in Workers \ {w} : worker'[v] = worker[v],
         ~At(w, "rollback")',
         \A c \in Children : Awaits(c)' =>
            \/ WillLook(w, c)'
            \/ Awaits(c) /\ ~WillLook(w, c)
  PROVE  AttendedInv'
<1>. SUFFICES ASSUME NEW c \in Children, Awaits(c)'
              PROVE  \E v \in Workers : WillLook(v, c)'
  BY DEF AttendedInv, At
<1>1. CASE ~WillLook(w, c)'
  <2>1. PICK v \in Workers : WillLook(v, c)
    BY <1>1 DEF AttendedInv
  <2>2. v # w
    BY <1>1, <2>1
  <2>. QED  BY <2>1, <2>2 DEF WillLook, At
<1>. QED  BY <1>1

\* The same, for a step that leaves the rows alone.
LEMMA RowsStay ==
  ASSUME HandlersInv, AttendedInv, faults = 0, row' = row, NEW w \in Workers,
         \A v \in Workers \ {w} : worker'[v] = worker[v],
         ~At(w, "rollback")',
         \A c \in Children : Awaits(c) /\ WillLook(w, c) => WillLook(w, c)'
  PROVE  AttendedInv'
<1>1. \A c \in Children : Awaits(c)' <=> Awaits(c)
  BY DEF Awaits, Status
<1>. QED  BY <1>1, StillAttended

\* Nothing comes to wait by a step that leaves each row alone or takes it out.
LEMMA FewerAwait ==
  ASSUME HandlersInv, NEW c \in Children,
         \A d \in Children : \/ row'[d] = row[d]
                            \/ row'[d].status \in {"releasing", "released", "failed", "skipped"}
  PROVE  Awaits(c)' => Awaits(c)
  BY GraphAssumption DEF Awaits, AllSucceeded, Status, Waiting

\* A handler that has no rows left to claim, or none yet, looks at none.
LEMMA IdleLooksAway ==
  ASSUME HandlersInv, NEW w \in Workers, NEW c \in Children,
         \/ At(w, "idle") \/ At(w, "settle")
         \/ At(w, "release") /\ worker[w].queue = {}
         \/ At(w, "cascade") /\ worker[w].job \in {"seed", "retry", "reconcile"}
  PROVE  ~WillLook(w, c)
  BY HandlerFacts DEF WillLook, At, Holding, HandlerOK, ControlOf, Idle

LEMMA AttendedStarts == Init => AttendedInv
<1>. SUFFICES ASSUME Init PROVE AttendedInv
  OBVIOUS
<1>1. \A w \in Workers : worker[w].pc \in {"idle", "release"}
  BY IdleType DEF Init, Idle, SeededRows
<1>2. ASSUME NEW c \in Children, Awaits(c) PROVE WillLook("webhook", c)
  <2>1. \A d \in Children : row[d].status # "succeeded"
    BY SeededType DEF Init, Waiting
  <2>2. DependsOn[c] = {}
    BY <1>2, <2>1, GraphAssumption DEF Awaits, AllSucceeded, Status
  <2>. QED  BY <2>2 DEF Init, WillLook, Workers, Idle
<1>. QED  BY <1>1, <1>2 DEF AttendedInv, At, Workers

LEMMA AttendedLoad ==
  ASSUME HandlersInv, AttendedInv, faults = 0, NEW w \in Workers, Load(w)
  PROVE  AttendedInv'
<1>1. worker[w] \in HandlerType /\ HandlerOK(w)
  BY HandlerFacts
<1>2. /\ worker'[w].job = "reconcile" /\ worker'[w].pc = "write" /\ row' = row
      /\ \A v \in Workers \ {w} : worker'[v] = worker[v]
  BY <1>1, HandlerFacts DEF Load, HandlerOK, ControlOf, HandlerType
<1>. QED  BY <1>2, RowsStay DEF WillLook, At

LEMMA AttendedWrite ==
  ASSUME HandlersInv, AttendedInv, MaxReopens = 0, faults = 0, NEW w \in Workers, Write(w)
  PROVE  AttendedInv'
<1>1. PICK wr \in worker[w].writes :
        /\ row' = IF Applies(w, wr)
                  THEN [row EXCEPT ![wr.child].status = wr.status] ELSE row
        /\ worker' = [worker EXCEPT ![w].writes = @ \ {wr}]
  BY DEF Write
<1>2. /\ worker[w] \in HandlerType /\ HandlerOK(w) /\ row \in Rows
      /\ worker[w].job \notin {"retry", "fix"} /\ wr \in Writes
  BY HandlerFacts DEF HandlerOK, ControlOf, HandlerType
<1>3. /\ worker'[w].pc = worker[w].pc /\ worker'[w].job = worker[w].job
      /\ worker'[w].rows = worker[w].rows /\ worker'[w].queue = worker[w].queue
      /\ \A v \in Workers \ {w} : worker'[v] = worker[v]
  BY <1>1, <1>2, HandlerFacts DEF HandlerType
<1>4. ~At(w, "rollback")'
  BY <1>3 DEF Write, At
<1>5. CASE At(w, "write") \/ At(w, "reset")
  <2>1. \A c \in Children : WillLook(w, c)'
    BY <1>2, <1>3, <1>5 DEF WillLook, At, HandlerOK, ControlOf
  <2>. QED  BY <1>3, <1>4, <2>1, StillAttended
<1>6. CASE At(w, "cascade")
  <2>1. wr.status = "skipped"
    BY <1>1, <1>2, <1>6 DEF HandlerOK, WritingOf
  <2>2. \A d \in Children : row'[d] = row[d] \/ row'[d].status = "skipped"
    BY <1>1, <1>2, <2>1 DEF Rows, Writes
  <2>3. \A c \in Children : Awaits(c)' => Awaits(c)
    BY <2>2, FewerAwait
  <2>4. \A c \in Children : WillLook(w, c)' <=> WillLook(w, c)
    BY <1>3 DEF WillLook, At
  <2>. QED  BY <1>3, <1>4, <2>3, <2>4, StillAttended
<1>. QED  BY <1>5, <1>6 DEF Write, At

LEMMA AttendedReread ==
  ASSUME HandlersInv, AttendedInv, faults = 0, faults' = 0, NEW w \in Workers, Reread(w)
  PROVE  AttendedInv'
<1>1. PICK queue \in SUBSET Children :
        /\ Throttled(Releasable(Status(row)), queue)
        /\ worker' = [worker EXCEPT ![w] = [@ EXCEPT !.pc = "release", !.rows = row,
                                                     !.queue = queue, !.child = Nil]]
  BY DEF Reread
<1>2. queue = Releasable(Status(row)) /\ row' = row
  BY <1>1 DEF Throttled, Fault, Reread
<1>3. /\ worker'[w].pc = "release" /\ worker'[w].queue = queue
      /\ \A v \in Workers \ {w} : worker'[v] = worker[v]
  BY <1>1, HandlerFacts DEF HandlerType
<1>4. \A c \in Children : Awaits(c) => c \in queue
  BY <1>2, HandlerFacts, StatusType DEF Awaits, Releasable
<1>5. \A c \in Children : Awaits(c) => WillLook(w, c)'
  BY <1>3, <1>4 DEF WillLook
<1>. QED  BY <1>2, <1>3, <1>5, RowsStay DEF At

LEMMA AttendedClaim ==
  ASSUME HandlersInv, AttendedInv, faults = 0, NEW w \in Workers, Claim(w)
  PROVE  AttendedInv'
<1>1. PICK c \in worker[w].queue :
        /\ row' = IF row[c].status \in Waiting
                  THEN [row EXCEPT ![c].status = "releasing"] ELSE row
        /\ worker' = [worker EXCEPT ![w] = [@ EXCEPT
                !.queue = worker[w].queue \ {c},
                !.pc = IF row[c].status \in Waiting THEN "lookup" ELSE "release",
                !.child = IF row[c].status \in Waiting THEN c ELSE Nil]]
  BY DEF Claim
<1>2. worker[w] \in HandlerType /\ At(w, "release") /\ c \in Children /\ row \in Rows
  BY HandlerFacts DEF Claim, HandlerType
<1>3. /\ worker'[w].pc \in {"lookup", "release"} /\ worker'[w].queue = worker[w].queue \ {c}
      /\ \A v \in Workers \ {w} : worker'[v] = worker[v]
  BY <1>1, <1>2, HandlerFacts DEF HandlerType
<1>4. /\ \A d \in Children : row'[d] = row[d] \/ row'[d].status = "releasing"
      /\ row'[c].status \notin Waiting
  BY <1>1, <1>2 DEF Rows, Waiting
<1>5. \A d \in Children : Awaits(d)' => Awaits(d) /\ d # c
  BY <1>4, FewerAwait DEF Awaits
<1>6. \A d \in Children : WillLook(w, d) /\ d # c => WillLook(w, d)'
  BY <1>2, <1>3 DEF WillLook, At, Holding
<1>. QED  BY <1>3, <1>5, <1>6, StillAttended DEF At

LEMMA AttendedEndRelease ==
  ASSUME HandlersInv, AttendedInv, faults = 0, NEW w \in Workers,
         worker[w].pc \in Holding, NEW new, new.status \in {"released", "failed"},
         EndRelease(w, new)
  PROVE  AttendedInv'
<1>1. worker[w] \in HandlerType /\ worker[w].child \in Children /\ row \in Rows
  BY HandlerFacts DEF HandlerOK, ControlOf
<1>2. /\ worker'[w].pc = "release" /\ worker'[w].queue = worker[w].queue
      /\ \A v \in Workers \ {w} : worker'[v] = worker[v]
  BY <1>1, HandlerFacts DEF EndRelease, HandlerType
<1>3. \A d \in Children : row'[d] = row[d] \/ row'[d].status \in {"released", "failed"}
  BY <1>1 DEF EndRelease, Rows
<1>4. \A d \in Children : Awaits(d)' => Awaits(d)
  BY <1>3, FewerAwait
<1>5. \A d \in Children : WillLook(w, d) => WillLook(w, d)'
  BY <1>2 DEF WillLook, At, Holding
<1>. QED  BY <1>2, <1>4, <1>5, StillAttended DEF At

\* The steps of a handler that leave the rows alone.
LEMMA AttendedQuietly ==
  ASSUME HandlersInv, AttendedInv, faults = 0, NEW w \in Workers,
         \/ Lookup(w) \/ Create(w) \/ ApplyTerminalCreateFailures(w)
         \/ Finish(w) \/ Settle(w)
  PROVE  AttendedInv'
<1>1. worker[w] \in HandlerType /\ worker \in [Workers -> HandlerType] /\ row' = row
  BY HandlerFacts DEF Lookup, Create, ApplyTerminalCreateFailures, Finish, Settle
<1>2. CASE Lookup(w)
  <2>1. /\ worker[w].pc \in Holding /\ worker'[w].pc \in {"create", "record"}
        /\ worker'[w].queue = worker[w].queue
        /\ \A v \in Workers \ {w} : worker'[v] = worker[v]
    BY <1>1, <1>2 DEF Lookup, At, Holding, HandlerType
  <2>. QED  BY <1>1, <2>1, RowsStay DEF WillLook, At, Holding
<1>3. CASE Create(w)
  <2>1. /\ worker[w].pc \in Holding /\ worker'[w].pc = "record"
        /\ worker'[w].queue = worker[w].queue
        /\ \A v \in Workers \ {w} : worker'[v] = worker[v]
    <3>1. PICK t \in TaskIds :
            worker' = [worker EXCEPT ![w] = [@ EXCEPT !.pc = "record", !.made = t]]
      BY <1>3 DEF Create
    <3>2. worker[w].pc = "create"
      BY <1>3 DEF Create, At
    <3>. QED  BY <1>1, <3>1, <3>2 DEF Holding, HandlerType
  <2>. QED  BY <1>1, <2>1, RowsStay DEF WillLook, At, Holding
<1>4. CASE ApplyTerminalCreateFailures(w)
  <2>1. worker'[w].pc = "cascade" /\ \A v \in Workers \ {w} : worker'[v] = worker[v]
    BY <1>1, <1>4 DEF ApplyTerminalCreateFailures, HandlerType
  <2>2. \A c \in Children : ~WillLook(w, c)
    BY <1>4, IdleLooksAway DEF ApplyTerminalCreateFailures, Released
  <2>. QED  BY <1>1, <2>1, <2>2, RowsStay DEF At
<1>5. CASE Finish(w) \/ Settle(w)
  <2>1. worker' = [worker EXCEPT ![w] = Idle]
    BY <1>5 DEF Finish, Settle
  <2>2. worker'[w].pc = "idle" /\ \A v \in Workers \ {w} : worker'[v] = worker[v]
    BY <1>1, <2>1, IdleType
  <2>3. \A c \in Children : ~WillLook(w, c)
    BY <1>5, IdleLooksAway DEF Finish, Settle, NothingRefused, Released, Written
  <2>. QED  BY <1>1, <2>2, <2>3, RowsStay DEF At
<1>. QED  BY <1>2, <1>3, <1>4, <1>5

LEMMA AttendedHandler ==
  ASSUME HandlersInv, AttendedInv, MaxReopens = 0, faults = 0, faults' = 0,
         NEW w \in Workers, Handle(w)
  PROVE  AttendedInv'
<1>1. HandlerOK(w) /\ worker[w].job \notin {"retry", "fix"} /\ ~At(w, "rollback")
  BY HandlerFacts DEF HandlerOK, ControlOf, AttendedInv
<1>2. CASE Record(w)
  <2>1. worker[w].pc \in Holding
    BY <1>2 DEF Record, At, Holding
  <2>. QED  BY <1>2, <2>1, AttendedEndRelease DEF Record
<1>3. CASE FailClaimTerminal(w)
  <2>1. worker[w].pc \in Holding /\ row \in Rows /\ worker[w].child \in Children
    BY <1>1, <1>3, HandlerFacts DEF FailClaimTerminal, At, Holding, HandlerOK, ControlOf
  <2>. DEFINE new == [row[worker[w].child] EXCEPT !.status = "failed"]
  <2>2. new.status = "failed"
    BY <2>1 DEF Rows
  <2>3. EndRelease(w, new)
    BY <1>3 DEF FailClaimTerminal
  <2>. HIDE DEF new
  <2>. QED  BY <2>1, <2>2, <2>3, AttendedEndRelease
<1>4. ~(Refresh(w) \/ ClearRollupClaim(w) \/ RereadToRelease(w) \/ RollBackClaim(w))
  BY <1>1 DEF Refresh, ClearRollupClaim, RereadToRelease, RollBackClaim, Written,
     HandlerOK, ControlOf
<1>. QED
  BY <1>2, <1>3, <1>4, AttendedLoad, AttendedWrite, AttendedReread, AttendedClaim,
     AttendedQuietly DEF Handle

LEMMA AttendedSweepRelease ==
  ASSUME HandlersInv, AttendedInv, faults = 0, faults' = 0, SweepRelease
  PROVE  AttendedInv'
<1>. DEFINE w == "sweep"
            found == Releasable(Status(worker[w].rows))
<1>1. PICK queue \in SUBSET found :
        /\ Throttled(found, queue)
        /\ worker' = [worker EXCEPT ![w] = [@ EXCEPT
                !.pc = IF found = {} THEN "settle" ELSE "release", !.queue = queue]]
  BY DEF SweepRelease
<1>2. queue = found /\ row' = row /\ At(w, "cascade") /\ w \in Workers
  BY <1>1 DEF Throttled, Fault, SweepRelease, Written, Workers
<1>. HIDE DEF found
<1>3. /\ worker'[w].pc = IF found = {} THEN "settle" ELSE "release"
      /\ worker'[w].queue = queue
      /\ \A v \in Workers \ {w} : worker'[v] = worker[v]
  BY <1>1, <1>2, HandlerFacts DEF HandlerType
<1>4. \A c \in Children : WillLook(w, c) => c \in found
  BY <1>2 DEF WillLook, At, Holding, found
<1>5. \A c \in Children : c \in found => WillLook(w, c)'
  BY <1>2, <1>3 DEF WillLook, At
<1>6. ~At(w, "rollback")'
  BY <1>3 DEF At
<1>. QED  BY <1>2, <1>3, <1>4, <1>5, <1>6, RowsStay

LEMMA AttendedSweep ==
  ASSUME HandlersInv, AttendedInv, faults = 0, faults' = 0, Sweep
  PROVE  AttendedInv'
<1>. DEFINE w == "sweep"
<1>1. /\ worker \in [Workers -> HandlerType] /\ worker[w] \in HandlerType
      /\ row \in Rows /\ w \in Workers
  BY HandlerFacts DEF Workers
<1>2. CASE SweepLoad
  <2>1. /\ row' = row /\ At(w, "idle") /\ worker'[w].pc \in {"settle", "reset"}
        /\ \A v \in Workers \ {w} : worker'[v] = worker[v]
    BY <1>1, <1>2, IdleType DEF SweepLoad, HandlerType
  <2>2. \A c \in Children : ~WillLook(w, c)
    BY <1>1, <2>1, IdleLooksAway
  <2>. QED  BY <1>1, <2>1, <2>2, RowsStay DEF At
<1>3. CASE Advance
  <2>1. worker'[w].pc = "reset" /\ \A v \in Workers \ {w} : worker'[v] = worker[v]
    BY <1>1, <1>3 DEF Advance, Written, At, HandlerType
  <2>2. \A c \in Children : WillLook(w, c)'
    BY <2>1 DEF WillLook, At
  <2>. QED  BY <1>1, <2>1, <2>2, StillAttended DEF At
<1>4. CASE SweepReread
  <2>1. /\ row' = row /\ worker'[w].pc = "cascade" /\ worker'[w].rows = row
        /\ \A v \in Workers \ {w} : worker'[v] = worker[v]
    BY <1>1, <1>4 DEF SweepReread, HandlerType
  <2>2. \A c \in Children : Awaits(c) => c \in Releasable(Status(row))
    BY <1>1, StatusType DEF Awaits, Releasable
  <2>3. \A c \in Children : Awaits(c) => WillLook(w, c)'
    BY <2>1, <2>2 DEF WillLook, At, Status
  <2>. QED  BY <1>1, <2>1, <2>3, RowsStay DEF At
<1>5. CASE SweepRelease
  BY <1>5, AttendedSweepRelease
<1>. QED  BY <1>2, <1>3, <1>4, <1>5 DEF Sweep

\* Faults are only counted.
LEMMA Unfaulted ==
  ASSUME HandlersInv, faults' = 0
  PROVE  \A kind : ~Fault(kind)
  BY FaultType

LEMMA UnfaultedPass ==
  ASSUME HandlersInv, faults' = 0, NEW rows, NEW queue, Throttled(rows, queue)
  PROVE  faults = 0
  BY Unfaulted DEF Throttled

LEMMA AttendedNext ==
  ASSUME HandlersInv, AttendedInv, [Next]_vars, MaxReopens = 0
  PROVE  AttendedInv'
<1>1. faults \in Nat /\ reopens = 0
  BY DEF HandlersInv, TypeOK
<1>. SUFFICES ASSUME faults' = 0 PROVE AttendedInv'
  BY DEF AttendedInv
<1>2. CASE UNCHANGED vars
  BY <1>2 DEF vars, AttendedInv, Awaits, WillLook, At, Status
<1>3. CASE \E t \in TaskIds : TaskEnds(t)
  BY <1>3 DEF TaskEnds, AttendedInv, Awaits, WillLook, At, Status
<1>4. CASE \E w \in Reconcilers, t \in TaskIds : Deliver(w, t)
  <2>1. PICK w \in Reconcilers, t \in TaskIds : Deliver(w, t)
    BY <1>4
  <2>2. w \in Workers /\ worker \in [Workers -> HandlerType] /\ At(w, "idle")
    BY <2>1, HandlerFacts DEF Workers, Deliver
  <2>3. faults = 0
    BY <1>1, <2>1, Unfaulted DEF Deliver
  <2>4. /\ row' = row /\ \A v \in Workers \ {w} : worker'[v] = worker[v]
        /\ worker'[w].pc \in {"load", "idle"}
    BY <2>1, <2>2, IdleType DEF Deliver, HandlerType
  <2>5. \A c \in Children : ~WillLook(w, c)
    BY <2>2, IdleLooksAway
  <2>. QED  BY <2>2, <2>3, <2>4, <2>5, RowsStay DEF At
<1>5. CASE \E w \in Workers : Handle(w) \/ Fail(w)
  <2>1. PICK w \in Workers : Handle(w) \/ Fail(w)
    BY <1>5
  <2>2. ~Fail(w)
    BY Unfaulted DEF Fail, CreateRefused, CreateFails, EndReleaseFails, Crash
  <2>3. faults = 0
    <3>1. CASE Reread(w)
      <4>1. PICK queue \in SUBSET Children : Throttled(Releasable(Status(row)), queue)
        BY <3>1 DEF Reread
      <4>. QED  BY <4>1, UnfaultedPass
    <3>2. CASE ~Reread(w)
      <4>1. Load(w) \/ Write(w) \/ Claim(w) \/ Lookup(w) \/ Create(w) => faults' = faults
        BY ZenonT(60) DEF Load, Write, Claim, Lookup, Create
      <4>2. Record(w) \/ RollBackClaim(w) \/ FailClaimTerminal(w) => faults' = faults
        BY DEF Record, RollBackClaim, FailClaimTerminal
      <4>3. ApplyTerminalCreateFailures(w) \/ Finish(w) \/ Settle(w) => faults' = faults
        BY DEF ApplyTerminalCreateFailures, Finish, Settle
      <4>4. ClearRollupClaim(w) \/ Refresh(w) => faults' = faults
        BY DEF ClearRollupClaim, Refresh
      <4>5. ~RereadToRelease(w)
        <5>1. ~At(w, "reread")
          BY <1>1, HandlerFacts DEF HandlerOK, ControlOf
        <5>. QED  BY <5>1 DEF RereadToRelease
      <4>. QED  BY <2>1, <2>2, <3>2, <4>1, <4>2, <4>3, <4>4, <4>5 DEF Handle
    <3>. QED  BY <3>1, <3>2
  <2>. QED  BY <2>1, <2>2, <2>3, AttendedHandler
<1>6. CASE Retry \/ \E w \in Reconcilers, c \in Children : Fix(w, c)
  BY <1>1, <1>6 DEF Retry, Fix, Reopens
<1>7. CASE Sweep
  <2>1. faults = 0
    <3>1. CASE SweepRelease
      BY <3>1, UnfaultedPass DEF SweepRelease
    <3>2. CASE SweepLoad \/ Advance \/ SweepReread
      BY <3>2 DEF SweepLoad, Advance, SweepReread
    <3>. QED  BY <1>7, <3>1, <3>2 DEF Sweep
  <2>. QED  BY <1>7, <2>1, AttendedSweep
<1>. QED  BY <1>2, <1>3, <1>4, <1>5, <1>6, <1>7 DEF Next

\* Where nobody reopens the epic: when every event has been handled and nothing went
\* wrong, no child waits whose predecessors all succeeded, however many handlers saw
\* those end in whatever order.
THEOREM NobodyStranded ==
  ASSUME MaxReopens = 0
  PROVE  Spec => []NothingStranded
<1>1. Init => HandlersInv /\ AttendedInv
  BY HandlersInit, AttendedStarts
<1>2. HandlersInv /\ AttendedInv /\ [Next]_vars => (HandlersInv /\ AttendedInv)'
  BY HandlersNext, AttendedNext
<1>3. HandlersInv /\ AttendedInv => NothingStranded
  BY IdleLooksAway DEF NothingStranded, AtRest, AttendedInv, Awaits
<1>. QED  BY <1>1, <1>2, <1>3, PTL DEF Spec
=============================================================================
