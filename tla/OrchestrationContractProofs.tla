--------------------- MODULE OrchestrationContractProofs ---------------------
(***************************************************************************)
(* Proof that the orchestration keeps its contract, for any epic, where    *)
(* nobody reopens it: a child is worked on only after all its predecessors *)
(* succeeded, skipped only below one that failed, ends once, and the       *)
(* outcome is reported when every child has ended, whatever crashes, lost  *)
(* events, throttled passes, failed creations or refusals come between.    *)
(***************************************************************************)
EXTENDS OrchestrationLockProofs

USE OrchestrationAssumption

Inv == HandlersInv /\ LockInv /\ ContractInv

(***************************************************************************)
(* What holds of rows nobody reopens                                       *)
(***************************************************************************)

LEMMA NobodyReopens ==
  ASSUME Undisturbed, HandlersInv
  PROVE  /\ reopens = 0 /\ ~Loose
         /\ \A w \in Workers : worker[w].job \notin {"retry", "fix"}
  BY DEF Undisturbed, HandlersInv, TypeOK, ControlOf, Loose

LEMMA RowFacts ==
  ASSUME Undisturbed, Inv, NEW c \in Children
  PROVE  /\ row[c] \in [status : ChildStatuses, task : TaskIds \cup {Nil}]
         /\ row[c].status \in Waiting \cup {"releasing"} => row[c].task = Nil
         /\ row[c].status = "released" => row[c].task \in TaskIds
         /\ StartedInOrder(c) /\ EndTrue(c) /\ ChildInv(c)
  BY NobodyReopens DEF Inv, HandlersInv, TypeOK, Rows, ReleasedForTask, LockInv, ChildInv,
     RowTrue, ContractInv

\* A predecessor that has not succeeded.
LEMMA NotSucceeded ==
  ASSUME NEW c \in Children
  PROVE  Succeeded(c) <=> \A d \in DependsOn[c] : row[d].status = "succeeded"
  BY GraphAssumption DEF Succeeded, AllSucceeded, Status

\* No child below a dead one is, was or may be worked on.
LEMMA BelowDead ==
  ASSUME Undisturbed, Inv, NEW a \in Dead, NEW c \in Dependents[a]
  PROVE  /\ c \in Children /\ ~Succeeded(c) /\ Created(c, Nil) = {}
         /\ row[c].status \in Waiting \cup {"skipped"}
<1>. DEFINE S == {d \in Children : ~Succeeded(d)}
<1>1. a \in Children /\ row[a].status # "succeeded"
  BY DEF Dead
<1>2. ASSUME NEW e \in Children, DependsOn[e] \cap (S \cup {a}) # {}
      PROVE  e \in S
  <2>1. PICK d \in DependsOn[e] : d \in S \cup {a}
    BY <1>2
  <2>2. row[d].status # "succeeded"
    <3>1. CASE d = a
      BY <1>1, <3>1
    <3>2. CASE d \in S
      BY <3>2, RowFacts DEF StartedInOrder, Ended
    <3>. QED  BY <2>1, <3>1, <3>2
  <2>. QED  BY <2>2, NotSucceeded
<1>3. Dependents[a] \subseteq S
  <2>. HIDE DEF S
  <2>1. S \subseteq Children
    BY DEF S
  <2>. QED  BY <1>1, <1>2, <2>1, DependentsLeast
<1>4. c \in Children /\ ~Succeeded(c)
  BY <1>3
<1>. QED  BY <1>4, RowFacts DEF StartedInOrder, Ended, ChildStatuses, Waiting

(***************************************************************************)
(* What a step may make of a row                                           *)
(***************************************************************************)

Claims(c) ==
    /\ row[c].status \in Waiting /\ Succeeded(c)
    /\ row'[c].status = "releasing" /\ row'[c].task = Nil

GivesBack(c) ==
    /\ row[c].status = "releasing"
    /\ row'[c].status \in Waiting /\ row'[c].task = Nil

Records(c) ==
    /\ row[c].status = "releasing"
    /\ row'[c].status = "released" /\ row'[c].task \in Created(c, Nil)

Refuses(c) ==
    /\ row[c].status = "releasing" /\ Created(c, Nil) = {}
    /\ row'[c].status = "failed" /\ row'[c].task = Nil

Ends(c) ==
    /\ row[c].status = "released" /\ row[c].task \in TaskIds
    /\ task[row[c].task].state \in Ended
    /\ row'[c].status = task[row[c].task].state /\ row'[c].task = row[c].task

Skips(c) ==
    /\ row[c].status \in Waiting
    /\ \E a \in Dead : c \in Dependents[a]
    /\ row'[c].status = "skipped" /\ row'[c].task = Nil

Moves(c) ==
    \/ row'[c] = row[c]
    \/ Claims(c) \/ GivesBack(c) \/ Records(c) \/ Refuses(c) \/ Ends(c) \/ Skips(c)

\* What a step may make of the tasks.
TasksGo ==
    /\ \A t \in TaskIds : task[t].state \in Ended => task'[t] = task[t]
    /\ \A c \in Children : Created(c, Nil)' # {} => Created(c, Nil) # {} \/ Succeeded(c)

\* What has ended stays as it ended.
LEMMA EndedStays ==
  ASSUME \A c \in Children : Moves(c)
  PROVE  /\ \A c \in Children : row[c].status \in TerminalChildStatuses => row'[c] = row[c]
         /\ \A c \in Children : Succeeded(c) => Succeeded(c)'
         /\ Dead \subseteq Dead'
<1>1. \A c \in Children : row[c].status \in TerminalChildStatuses => row'[c] = row[c]
  BY DEF Moves, Claims, GivesBack, Records, Refuses, Ends, Skips, Waiting,
     TerminalChildStatuses
<1>2. ASSUME NEW c \in Children, Succeeded(c) PROVE Succeeded(c)'
  <2>1. \A d \in DependsOn[c] : row'[d].status = "succeeded"
    BY <1>1, <1>2, NotSucceeded, GraphAssumption DEF TerminalChildStatuses
  <2>. QED  BY <2>1, GraphAssumption DEF Succeeded, AllSucceeded, Status
<1>3. Dead \subseteq Dead'
  BY <1>1 DEF Dead, TerminalChildStatuses
<1>. QED  BY <1>1, <1>2, <1>3

LEMMA ChildrenInOrder ==
  ASSUME Undisturbed, Inv, \A c \in Children : Moves(c), TasksGo, NEW c \in Children
  PROVE  StartedInOrder(c)' /\ EndTrue(c)'
<1>1. Moves(c) /\ (Succeeded(c) => Succeeded(c)')
  BY EndedStays
<1>2. StartedInOrder(c)'
  <2>1. row'[c].status \in {"releasing", "released"} \cup Ended => Succeeded(c)
    BY <1>1, RowFacts DEF StartedInOrder, Moves, Claims, GivesBack, Records, Refuses, Ends,
       Skips, Waiting, Ended
  <2>2. Created(c, Nil)' # {} => Succeeded(c)
    BY RowFacts DEF TasksGo, StartedInOrder
  <2>. QED  BY <1>1, <2>1, <2>2 DEF StartedInOrder
<1>3. EndTrue(c)'
  <2>1. CASE row'[c] = row[c]
    <3>1. row[c].task \in TaskIds \cup {Nil} /\ EndTrue(c)
      BY RowFacts
    <3>2. row[c].status \in Ended /\ row[c].task # Nil =>
            task'[row[c].task].state = task[row[c].task].state
      BY <3>1 DEF EndTrue, TasksGo
    <3>. QED  BY <2>1, <3>1, <3>2 DEF EndTrue
  <2>2. CASE Ends(c)
    BY <2>2 DEF Ends, EndTrue, TasksGo, Ended
  <2>3. CASE Claims(c) \/ GivesBack(c) \/ Records(c) \/ Refuses(c) \/ Skips(c)
    BY <2>3 DEF EndTrue, Claims, GivesBack, Records, Refuses, Skips, Waiting, Ended
  <2>. QED  BY <1>1, <2>1, <2>2, <2>3 DEF Moves
<1>. QED  BY <1>2, <1>3

\* A handler that a step does not concern stays in order.
LEMMA OtherInOrder ==
  ASSUME Undisturbed, Inv, \A c \in Children : Moves(c), faults' \in {faults, faults + 1},
         NEW v \in Workers, worker'[v] = worker[v],
         \A c \in Children : Holds(v, c) => row'[c].status = row[c].status
  PROVE  HandlerInOrder(v)'
<1>1. HandlerInOrder(v)
  BY DEF Inv, ContractInv
<1>2. ASSUME NEW c \in Children PROVE WorksInOrder(v, c)' /\ SeesTruly(v, c)'
  <2>1. WorksInOrder(v, c) /\ SeesTruly(v, c)
    BY <1>1 DEF HandlerInOrder
  <2>2. /\ Succeeded(c) => Succeeded(c)'
        /\ row[c].status \in TerminalChildStatuses => row'[c] = row[c]
    BY EndedStays
  <2>3. WorksInOrder(v, c)'
    BY <2>1, <2>2 DEF WorksInOrder, Holds, TerminalChildStatuses
  <2>4. SeesTruly(v, c)'
    BY <2>1, <2>2 DEF SeesTruly, At, Ended, TerminalChildStatuses
  <2>. QED  BY <2>3, <2>4
<1>3. SkipsJustified(v)'
  BY <1>1, EndedStays DEF HandlerInOrder, SkipsJustified, At
<1>4. At(v, "refuse")' => faults' > 0 /\ "refused" \in Environment
  <2>1. faults \in Nat
    BY HandlerFacts DEF Inv
  <2>2. At(v, "refuse") => faults > 0 /\ "refused" \in Environment
    BY <1>1 DEF HandlerInOrder
  <2>3. At(v, "refuse")' <=> At(v, "refuse")
    BY DEF At
  <2>4. CASE At(v, "refuse")
    <3>1. faults > 0 /\ "refused" \in Environment
      BY <2>2, <2>4
    <3>2. faults' > 0
      BY <2>1, <3>1
    <3>. QED  BY <3>1, <3>2
  <2>. QED  BY <2>3, <2>4
<1>. QED  BY <1>2, <1>3, <1>4 DEF HandlerInOrder

LEMMA ContractStep ==
  ASSUME Undisturbed, Inv, NEW w \in Workers, Others(w),
         \A c \in Children : Moves(c), TasksGo, faults' \in {faults, faults + 1},
         \A c \in Children, v \in Workers : v # w /\ Holds(v, c) => row'[c].status = row[c].status,
         HandlerInOrder(w)'
  PROVE  ContractInv'
<1>1. \A v \in Workers : v # w => HandlerInOrder(v)'
  BY OtherInOrder DEF Others
<1>2. \A c \in Children : StartedInOrder(c)' /\ EndTrue(c)'
  BY ChildrenInOrder
<1>. QED  BY <1>1, <1>2 DEF ContractInv

\* A row under release moves only by the hand of its holder.
LEMMA HeldRows ==
  ASSUME Undisturbed, Inv, NEW w \in Workers, NEW c \in Children, Moves(c),
         row[c].status = "releasing" => \A v \in Workers : Holds(v, c) => v = w
  PROVE  \A v \in Workers : v # w /\ Holds(v, c) => row'[c].status = row[c].status
<1>. SUFFICES ASSUME NEW v \in Workers, v # w, Holds(v, c)
              PROVE  row'[c].status = row[c].status
  OBVIOUS
<1>1. row[c].status = "releasing"
  BY DEF Inv, ContractInv, HandlerInOrder, WorksInOrder
<1>. QED  BY <1>1

\* A step on the rows and the tasks as they are.
LEMMA ContractLocal ==
  ASSUME Undisturbed, Inv, NEW w \in Workers, Others(w), UNCHANGED <<row, task>>,
         faults' \in {faults, faults + 1}, HandlerInOrder(w)'
  PROVE  ContractInv'
<1>1. \A c \in Children : Moves(c)
  BY DEF Moves
<1>2. TasksGo
  BY DEF TasksGo, Created
<1>. QED  BY <1>1, <1>2, ContractStep

\* A handler that goes on with what it has read, with no skip to write.
LEMMA HandlerGoesOn ==
  ASSUME Undisturbed, Inv, \A c \in Children : Moves(c), NEW w \in Workers,
         worker'[w].rows = worker[w].rows,
         At(w, "cascade") => worker[w].writes = {},
         \A wr \in worker'[w].writes : wr.status # "skipped",
         worker'[w].pc = "refuse" => faults' > 0 /\ "refused" \in Environment,
         \A c \in Children :
           /\ worker'[w].pc \in {"release"} \cup Holding /\ c \in worker'[w].queue => Succeeded(c)
           /\ Holds(w, c)' => row'[c].status = "releasing"
           /\ c \in worker'[w].refused => c \in worker[w].refused \/ row'[c].status = "failed"
  PROVE  HandlerInOrder(w)'
<1>1. HandlerInOrder(w)
  BY DEF Inv, ContractInv
<1>2. ASSUME NEW c \in Children PROVE WorksInOrder(w, c)' /\ SeesTruly(w, c)'
  <2>1. WorksInOrder(w, c) /\ SeesTruly(w, c)
    BY <1>1 DEF HandlerInOrder
  <2>2. /\ Succeeded(c) => Succeeded(c)'
        /\ row[c].status \in TerminalChildStatuses => row'[c] = row[c]
    BY EndedStays
  <2>3. WorksInOrder(w, c)'
    BY <2>1, <2>2 DEF WorksInOrder, TerminalChildStatuses
  <2>4. SeesTruly(w, c)'
    BY <2>1, <2>2 DEF SeesTruly, Ended, TerminalChildStatuses
  <2>. QED  BY <2>3, <2>4
<1>3. SkipsJustified(w)'
  BY DEF SkipsJustified
<1>. QED  BY <1>2, <1>3 DEF HandlerInOrder, At

\* A handler that has just read the rows, or is idle.
LEMMA HandlerFresh ==
  ASSUME Undisturbed, Inv, NEW w \in Workers, UNCHANGED row,
         worker'[w].rows \in {row, SeededRows},
         \A wr \in worker'[w].writes : wr.status # "skipped",
         worker'[w].pc \notin Holding,
         \A c \in Children :
           /\ worker'[w].pc = "release" /\ c \in worker'[w].queue => Succeeded(c)
           /\ c \in worker'[w].refused => row[c].status = "failed"
  PROVE  HandlerInOrder(w)'
<1>1. ASSUME NEW c \in Children PROVE WorksInOrder(w, c)' /\ SeesTruly(w, c)'
  <2>1. Succeeded(c)' <=> Succeeded(c)
    BY DEF Succeeded, Status
  <2>2. WorksInOrder(w, c)'
    BY <2>1 DEF WorksInOrder, Holds
  <2>3. SeesTruly(w, c)'
    BY SeededType DEF SeesTruly, Ended, Waiting
  <2>. QED  BY <2>2, <2>3
<1>2. SkipsJustified(w)'
  BY DEF SkipsJustified
<1>. QED  BY <1>1, <1>2 DEF HandlerInOrder, At, Holding

LEMMA ContractIdle ==
  ASSUME Undisturbed, Inv, NEW w \in Workers, worker' = [worker EXCEPT ![w] = Idle],
         UNCHANGED <<row, task>>, faults' \in {faults, faults + 1}
  PROVE  ContractInv'
<1>1. worker'[w] = Idle /\ Others(w)
  BY HandlerFacts DEF Inv, Others
<1>2. HandlerInOrder(w)'
  BY <1>1, IdleType, HandlerFresh DEF Holding
<1>. QED  BY <1>1, <1>2, ContractLocal

(***************************************************************************)
(* Steps on the rows and the tasks as they are                             *)
(***************************************************************************)

LEMMA ContractFinish ==
  ASSUME Undisturbed, Inv, NEW w \in Workers, Finish(w) \/ Settle(w) \/ Crash(w)
  PROVE  ContractInv'
  BY ContractIdle DEF Finish, Settle, Crash, Fault

LEMMA ContractLoad ==
  ASSUME Undisturbed, Inv, NEW w \in Workers, Load(w)
  PROVE  ContractInv'
<1>. DEFINE outcome == task[worker[w].event].state
            plan == ReconcilePlan(Status(row), worker[w].child, outcome = "succeeded")
<1>1. PICK a : a = worker[w].child
  OBVIOUS
<1>2. /\ worker[w] \in HandlerType /\ HandlerOK(w) /\ At(w, "load")
      /\ worker[w].job = "reconcile" /\ a \in Children /\ HandlerInOrder(w)
  BY <1>1, HandlerFacts DEF Load, HandlerOK, ControlOf, At, Inv, ContractInv
<1>3. \A wr \in plan : wr.status = "skipped" =>
        /\ wr.child \in Dependents[a]
        /\ [child |-> a, status |-> "failed"] \in plan
  BY <1>1, <1>2 DEF ReconcilePlan, SkipPlan, SetTo
<1>. HIDE DEF plan
<1>4. worker'[w] = [worker[w] EXCEPT !.pc = "write", !.writes = plan] /\ Others(w)
  BY HandlerFacts DEF Load, plan, Others, Inv
<1>5. /\ worker'[w].pc = "write" /\ worker'[w].child = a /\ worker'[w].rows = worker[w].rows
      /\ worker'[w].writes = plan /\ worker'[w].refused = worker[w].refused
  BY <1>1, <1>2, <1>4 DEF HandlerType
<1>6. UNCHANGED <<row, task, faults>>
  BY DEF Load
<1>7. SkipsJustified(w)'
  BY <1>2, <1>3, <1>5 DEF SkipsJustified, At
<1>8. ASSUME NEW c \in Children PROVE WorksInOrder(w, c)' /\ SeesTruly(w, c)'
  <2>1. WorksInOrder(w, c) /\ SeesTruly(w, c)
    BY <1>2 DEF HandlerInOrder
  <2>2. WorksInOrder(w, c)'
    BY <1>5, <1>6, <2>1 DEF WorksInOrder, Holds, Holding
  <2>3. SeesTruly(w, c)'
    BY <1>2, <1>5, <1>6, <2>1 DEF SeesTruly, At
  <2>. QED  BY <2>2, <2>3
<1>9. HandlerInOrder(w)'
  BY <1>5, <1>7, <1>8 DEF HandlerInOrder, At
<1>. QED  BY <1>4, <1>6, <1>9, ContractLocal

\* A pass releases some of the rows it may, with at most one more fault.
LEMMA ThrottledFaults ==
  ASSUME NEW rows, NEW queue, Throttled(rows, queue)
  PROVE  faults' \in {faults, faults + 1} /\ queue \subseteq rows
  BY DEF Throttled, Fault

LEMMA ContractReread ==
  ASSUME Undisturbed, Inv, NEW w \in Workers, Reread(w)
  PROVE  ContractInv'
<1>1. PICK queue \in SUBSET Children :
        /\ Throttled(Releasable(Status(row)), queue)
        /\ worker' = [worker EXCEPT ![w] = [@ EXCEPT !.pc = "release", !.rows = row,
                                                     !.queue = queue, !.child = Nil]]
  BY DEF Reread
<1>2. worker[w] \in HandlerType /\ worker[w].writes = {} /\ HandlerInOrder(w)
  BY HandlerFacts DEF Reread, Written, Inv, ContractInv
<1>3. /\ worker'[w] = [worker[w] EXCEPT !.pc = "release", !.rows = row, !.queue = queue,
                                        !.child = Nil]
      /\ Others(w)
  BY <1>1, HandlerFacts DEF Others, Inv
<1>4. /\ worker'[w].pc = "release" /\ worker'[w].rows = row /\ worker'[w].queue = queue
      /\ worker'[w].writes = {} /\ worker'[w].refused = worker[w].refused
  BY <1>2, <1>3 DEF HandlerType
<1>5. UNCHANGED <<row, task>> /\ faults' \in {faults, faults + 1}
  BY <1>1, ThrottledFaults DEF Reread
<1>6. \A c \in queue : Succeeded(c)
  BY <1>1, ThrottledFaults DEF Releasable, Succeeded
<1>7. HandlerInOrder(w)'
  BY <1>2, <1>4, <1>5, <1>6, HandlerFresh DEF HandlerInOrder, WorksInOrder, Holding
<1>. QED  BY <1>3, <1>5, <1>7, ContractLocal

LEMMA ContractLookup ==
  ASSUME Undisturbed, Inv, NEW w \in Workers, Lookup(w)
  PROVE  ContractInv'
<1>. DEFINE same == Created(worker[w].child, Prior(w))
<1>1. /\ worker[w] \in HandlerType /\ At(w, "lookup") /\ HandlerInOrder(w)
      /\ worker[w].writes = {}
  BY HandlerFacts DEF Lookup, HandlerOK, WritingOf, At, Inv, ContractInv
<1>2. /\ worker'[w].pc \in {"create", "record"} /\ worker'[w].rows = worker[w].rows
      /\ worker'[w].child = worker[w].child /\ worker'[w].queue = worker[w].queue
      /\ worker'[w].writes = {} /\ worker'[w].refused = worker[w].refused
      /\ Others(w)
  <2>. HIDE DEF same
  <2>1. /\ worker'[w] = IF same = {} THEN [worker[w] EXCEPT !.pc = "create"]
                        ELSE [worker[w] EXCEPT !.pc = "record", !.made = CHOOSE t \in same : TRUE]
        /\ Others(w)
    BY OthersKept DEF Lookup, same, Inv
  <2>. QED  BY <1>1, <2>1 DEF HandlerType
<1>3. UNCHANGED <<row, task, faults>>
  BY DEF Lookup
<1>4. \A c \in Children : Moves(c)
  BY <1>3 DEF Moves
<1>5. \A c \in Children : WorksInOrder(w, c) /\ (Holds(w, c)' => Holds(w, c))
  BY <1>1, <1>2 DEF HandlerInOrder, Holds, Holding, At
<1>6. \A c \in Children :
        /\ c \in worker'[w].queue => Succeeded(c)
        /\ Holds(w, c)' => row'[c].status = "releasing"
  BY <1>1, <1>2, <1>3, <1>5 DEF WorksInOrder, At, Holding
<1>7. HandlerInOrder(w)'
  BY <1>1, <1>2, <1>4, <1>6, HandlerGoesOn
<1>. QED  BY <1>2, <1>3, <1>7, ContractLocal

LEMMA ContractCreateRefused ==
  ASSUME Undisturbed, Inv, NEW w \in Workers, CreateRefused(w)
  PROVE  ContractInv'
<1>1. /\ worker[w] \in HandlerType /\ At(w, "create") /\ HandlerInOrder(w)
      /\ worker[w].writes = {}
  BY HandlerFacts DEF CreateRefused, HandlerOK, WritingOf, At, Inv, ContractInv
<1>2. worker'[w] = [worker[w] EXCEPT !.pc = "refuse"] /\ Others(w)
  BY HandlerFacts DEF CreateRefused, Others, Inv
<1>3. /\ worker'[w].pc = "refuse" /\ worker'[w].rows = worker[w].rows
      /\ worker'[w].child = worker[w].child /\ worker'[w].queue = worker[w].queue
      /\ worker'[w].writes = {} /\ worker'[w].refused = worker[w].refused
  BY <1>1, <1>2 DEF HandlerType
<1>4. /\ UNCHANGED <<row, task>> /\ "refused" \in Environment
      /\ faults' = faults + 1 /\ faults' > 0
  BY HandlerFacts DEF CreateRefused, Fault, Inv
<1>5. \A c \in Children : Moves(c)
  BY <1>4 DEF Moves
<1>6. \A c \in Children : WorksInOrder(w, c) /\ (Holds(w, c)' => Holds(w, c))
  BY <1>1, <1>3 DEF HandlerInOrder, Holds, Holding, At
<1>7. \A c \in Children :
        /\ c \in worker'[w].queue => Succeeded(c)
        /\ Holds(w, c)' => row'[c].status = "releasing"
  BY <1>1, <1>3, <1>4, <1>6 DEF WorksInOrder, At, Holding
<1>8. HandlerInOrder(w)'
  BY <1>1, <1>3, <1>4, <1>5, <1>7, HandlerGoesOn
<1>. QED  BY <1>2, <1>4, <1>8, ContractLocal

\* The record of a refusal does not fail: that would be the second fault.
LEMMA ContractEndReleaseFails ==
  ASSUME Undisturbed, Inv, NEW w \in Workers, EndReleaseFails(w)
  PROVE  ContractInv'
<1>1. /\ worker[w] \in HandlerType /\ worker[w].pc \in Holding /\ HandlerInOrder(w)
      /\ worker[w].writes = {}
  BY HandlerFacts DEF EndReleaseFails, HandlerOK, WritingOf, Holding, Inv, ContractInv
<1>2. ~At(w, "refuse")
  <2>1. faults \in Nat /\ MaxFaults \in Nat /\ faults < MaxFaults /\ "outage" \in Environment
    BY HandlerFacts DEF EndReleaseFails, Fault, Inv
  <2>2. ASSUME At(w, "refuse") PROVE FALSE
    <3>1. faults > 0 /\ "refused" \in Environment
      BY <1>1, <2>2 DEF HandlerInOrder
    <3>2. MaxFaults <= 1
      BY <2>1, <3>1 DEF Undisturbed
    <3>. QED  BY <2>1, <3>1, <3>2
  <2>. QED  BY <2>2
<1>3. worker'[w] = [worker[w] EXCEPT !.pc = "release", !.child = Nil, !.made = Nil,
                                     !.refused = worker[w].refused]
      /\ Others(w)
  BY <1>2, HandlerFacts DEF EndReleaseFails, Others, Inv
<1>4. /\ worker'[w].pc = "release" /\ worker'[w].rows = worker[w].rows
      /\ worker'[w].queue = worker[w].queue
      /\ worker'[w].writes = {} /\ worker'[w].refused = worker[w].refused
  BY <1>1, <1>3 DEF HandlerType
<1>5. UNCHANGED <<row, task>> /\ faults' = faults + 1
  BY DEF EndReleaseFails, Fault
<1>6. \A c \in Children : Moves(c)
  BY <1>5 DEF Moves
<1>7. \A c \in Children : c \in worker'[w].queue => Succeeded(c)
  BY <1>1, <1>4 DEF HandlerInOrder, WorksInOrder
<1>8. \A c \in Children : ~Holds(w, c)'
  BY <1>4 DEF Holds, Holding
<1>9. HandlerInOrder(w)'
  BY <1>1, <1>4, <1>6, <1>7, <1>8, HandlerGoesOn DEF Holding
<1>. QED  BY <1>3, <1>5, <1>9, ContractLocal

\* What depends on a refused child is below one that is dead.
LEMMA ContractApplyFailures ==
  ASSUME Undisturbed, Inv, NEW w \in Workers, ApplyTerminalCreateFailures(w)
  PROVE  ContractInv'
<1>. DEFINE refused == worker[w].refused
            failed == [c \in Children |-> IF c \in refused THEN "failed"
                                          ELSE worker[w].rows[c].status]
            skips  == UNION {SkipPlan(failed, c) : c \in refused}
            view   == After(failed, skips)
            rows   == [c \in Children |-> [status |-> view[c],
                                           task |-> worker[w].rows[c].task]]
<1>1. /\ worker[w] \in HandlerType /\ At(w, "release") /\ HandlerInOrder(w)
      /\ refused \subseteq Children
  BY HandlerFacts DEF ApplyTerminalCreateFailures, Released, HandlerType, Inv, ContractInv
<1>2. \A wr \in skips : wr.status = "skipped"
  BY FailureWrites DEF Inv
<1>3. refused \subseteq Dead
  BY <1>1 DEF HandlerInOrder, WorksInOrder, Dead
<1>4. \A wr \in skips : \E a \in Dead : wr.child \in Dependents[a]
  <2>. HIDE DEF failed
  <2>1. \A a \in refused : \A wr \in SkipPlan(failed, a) : wr.child \in Dependents[a]
    BY DEF SkipPlan, SetTo
  <2>. QED  BY <1>3, <2>1
<1>5. /\ worker'[w] = [worker[w] EXCEPT !.pc = "cascade", !.writes = skips, !.refused = {},
                                        !.rows = rows]
      /\ Others(w)
  BY HandlerFacts DEF ApplyTerminalCreateFailures, Others, Inv
<1>6. \A c \in Children :
        \/ rows[c].status = "skipped" /\ \E wr \in skips : wr.child = c
        \/ c \in refused /\ rows[c].status = "failed"
        \/ c \notin refused /\ rows[c].status = worker[w].rows[c].status
  <2>. HIDE DEF skips
  <2>1. ASSUME NEW c \in Children, \E wr \in skips : wr.child = c
        PROVE  rows[c].status = "skipped"
    BY <1>2, <2>1 DEF After
  <2>2. ASSUME NEW c \in Children, ~\E wr \in skips : wr.child = c
        PROVE  rows[c].status = failed[c]
    BY <2>2 DEF After
  <2>. QED  BY <2>1, <2>2
<1>. HIDE DEF rows, skips
<1>7. /\ worker'[w].pc = "cascade" /\ worker'[w].rows = rows /\ worker'[w].writes = skips
      /\ worker'[w].refused = {}
  BY <1>1, <1>5 DEF HandlerType
<1>8. UNCHANGED <<row, task, faults>>
  BY DEF ApplyTerminalCreateFailures
<1>9. SkipsJustified(w)'
  BY <1>4, <1>7, <1>8 DEF SkipsJustified, Dead
<1>10. ASSUME NEW c \in Children PROVE WorksInOrder(w, c)' /\ SeesTruly(w, c)'
  <2>1. SeesTruly(w, c) /\ (c \in refused => row[c].status = "failed")
    BY <1>1 DEF HandlerInOrder, WorksInOrder
  <2>2. WorksInOrder(w, c)'
    BY <1>7 DEF WorksInOrder, Holds, Holding
  <2>3. SeesTruly(w, c)'
    BY <1>1, <1>6, <1>7, <1>8, <2>1 DEF SeesTruly, At, Ended
  <2>. QED  BY <2>2, <2>3
<1>11. HandlerInOrder(w)'
  BY <1>7, <1>9, <1>10 DEF HandlerInOrder, At
<1>. QED  BY <1>5, <1>8, <1>11, ContractLocal

LEMMA ContractDeliver ==
  ASSUME Undisturbed, Inv, NEW w \in Reconcilers, NEW t \in TaskIds, Deliver(w, t)
  PROVE  ContractInv'
<1>1. w \in Workers /\ UNCHANGED <<row, task>> /\ faults' \in {faults, faults + 1}
  BY DEF Deliver, Fault, Workers
<1>2. PICK h : /\ worker' = [worker EXCEPT ![w] = h]
               /\ \/ h = Idle
                  \/ \E c : h = [Idle EXCEPT !.pc = "load", !.job = "reconcile", !.event = t,
                                             !.child = c]
  BY DEF Deliver
<1>3. worker'[w] = h /\ Others(w)
  BY <1>1, <1>2, HandlerFacts DEF Others, Inv
<1>4. /\ worker'[w].pc \in {"idle", "load"} /\ worker'[w].rows = SeededRows
      /\ worker'[w].writes = {} /\ worker'[w].refused = {}
  <2>1. CASE h = Idle
    BY <1>3, <2>1, IdleType
  <2>2. CASE h # Idle
    <3>1. PICK c : h = [Idle EXCEPT !.pc = "load", !.job = "reconcile", !.event = t,
                                    !.child = c]
      BY <1>2, <2>2
    <3>2. /\ h.pc = "load" /\ h.rows = Idle.rows /\ h.writes = Idle.writes
          /\ h.refused = Idle.refused
      BY <3>1 DEF Idle
    <3>. QED  BY <1>3, <3>2, IdleType
  <2>. QED  BY <2>1, <2>2
<1>5. HandlerInOrder(w)'
  BY <1>1, <1>4, HandlerFresh DEF Holding
<1>. QED  BY <1>1, <1>3, <1>5, ContractLocal

LEMMA ContractTaskEnds ==
  ASSUME Undisturbed, Inv, NEW t \in TaskIds, TaskEnds(t)
  PROVE  ContractInv'
<1>1. PICK s \in Ended : task' = [task EXCEPT ![t].state = s]
  BY DEF TaskEnds
<1>2. task[t].state = "running" /\ UNCHANGED <<row, worker, faults>>
  BY DEF TaskEnds
<1>3. \A c \in Children : Moves(c)
  BY <1>2 DEF Moves
<1>4. "sweep" \in Workers /\ task \in [TaskIds -> TaskType]
  BY HandlerFacts DEF Workers, Inv
<1>5. TasksGo
  <2>1. \A u \in TaskIds : /\ task'[u].child = task[u].child /\ task'[u].prior = task[u].prior
                           /\ u # t => task'[u] = task[u]
    BY <1>1, <1>4 DEF TaskType
  <2>. QED  BY <1>2, <2>1 DEF TasksGo, Created, Ended
<1>6. HandlerInOrder("sweep")'
  BY <1>2, <1>3, <1>4, OtherInOrder
<1>. QED  BY <1>2, <1>3, <1>4, <1>5, <1>6, ContractStep DEF Others

(***************************************************************************)
(* The sweep                                                               *)
(***************************************************************************)

LEMMA ContractSweepLoad ==
  ASSUME Undisturbed, Inv, SweepLoad
  PROVE  ContractInv'
<1>. DEFINE writes == SetTo({c \in Children : row[c].status = "releasing"}, "ready")
<1>. DEFINE pc == IF AllTerminal(Status(row)) THEN "settle" ELSE "reset"
            queue == {c \in Children : row[c].status = "released"}
<1>1. pc \in {"settle", "reset"}
  OBVIOUS
<1>2. \A wr \in writes : wr.status # "skipped"
  BY DEF SetTo
<1>3. "sweep" \in Workers /\ UNCHANGED <<row, task, faults>>
  BY DEF Workers, SweepLoad
<1>4. /\ worker'["sweep"] = [Idle EXCEPT !.pc = pc, !.job = "sweep", !.rows = row,
                                         !.writes = writes, !.queue = queue]
      /\ Others("sweep")
  BY <1>3, HandlerFacts DEF SweepLoad, Others, Inv
<1>. HIDE DEF writes, pc, queue
<1>5. /\ worker'["sweep"].pc \in {"settle", "reset"} /\ worker'["sweep"].rows = row
      /\ worker'["sweep"].writes = writes /\ worker'["sweep"].refused = {}
  BY <1>1, <1>4, IdleType DEF HandlerType
<1>6. HandlerInOrder("sweep")'
  BY <1>2, <1>3, <1>5, HandlerFresh DEF Holding
<1>. QED  BY <1>3, <1>4, <1>6, ContractLocal

\* What the sweep finds waiting below dead rows is below one of them.
LEMMA DeadPlanFacts ==
  ASSUME Inv, NEW wr \in DeadPlan(Status(row))
  PROVE  wr.status = "skipped" /\ \E a \in Dead : wr.child \in Dependents[a]
<1>. DEFINE dead == {c \in Children : Status(row)[c] \in {"failed", "skipped"}}
            step(S) == {c \in Children :
                Status(row)[c] \in Waiting /\ DependsOn[c] \cap (dead \cup S) # {}}
            below == {c \in Children : \E a \in Dead : c \in Dependents[a]}
<1>1. dead = Dead
  BY DEF Dead, Status
<1>2. /\ wr.status = "skipped" /\ wr.child \in Children
      /\ \A S \in SUBSET Children : step(S) \subseteq S => wr.child \in S
  BY DEF DeadPlan, SetTo
<1>3. step(below) \subseteq below
  <2>. SUFFICES ASSUME NEW c \in Children, NEW d \in DependsOn[c], d \in Dead \/ d \in below
                PROVE  c \in below
    BY <1>1
  <2>1. PICK a \in Dead : d \in Dependents[a] \cup {a}
    OBVIOUS
  <2>2. a \in Children
    BY DEF Dead
  <2>3. c \in Dependents[a]
    BY <2>1, <2>2, DependentsClosed
  <2>. QED  BY <2>1, <2>3
<1>. QED  BY <1>2, <1>3

LEMMA ContractSweepReread ==
  ASSUME Undisturbed, Inv, SweepReread
  PROVE  ContractInv'
<1>. DEFINE plan == DeadPlan(Status(row))
<1>1. PICK w \in Workers : w = "sweep"
  BY DEF Workers
<1>2. worker[w] \in HandlerType /\ HandlerInOrder(w)
  BY HandlerFacts DEF Inv, ContractInv
<1>3. \A wr \in plan : \E a \in Dead : wr.child \in Dependents[a]
  BY DeadPlanFacts
<1>. HIDE DEF plan
<1>4. /\ worker'[w] = [worker[w] EXCEPT !.pc = "cascade", !.rows = row, !.writes = plan]
      /\ Others(w)
  BY <1>1, HandlerFacts DEF SweepReread, plan, Others, Inv
<1>5. /\ worker'[w].pc = "cascade" /\ worker'[w].rows = row /\ worker'[w].writes = plan
      /\ worker'[w].refused = worker[w].refused
  BY <1>2, <1>4 DEF HandlerType
<1>6. UNCHANGED <<row, task, faults>>
  BY DEF SweepReread
<1>7. SkipsJustified(w)'
  BY <1>3, <1>5, <1>6 DEF SkipsJustified, Dead
<1>8. ASSUME NEW c \in Children PROVE WorksInOrder(w, c)' /\ SeesTruly(w, c)'
  <2>1. WorksInOrder(w, c)
    BY <1>2 DEF HandlerInOrder
  <2>2. WorksInOrder(w, c)'
    BY <1>5, <1>6, <2>1 DEF WorksInOrder, Holds, Holding
  <2>3. SeesTruly(w, c)'
    BY <1>5, <1>6 DEF SeesTruly
  <2>. QED  BY <2>2, <2>3
<1>9. HandlerInOrder(w)'
  BY <1>5, <1>7, <1>8 DEF HandlerInOrder, At
<1>. QED  BY <1>4, <1>6, <1>9, ContractLocal

LEMMA ContractSweepRelease ==
  ASSUME Undisturbed, Inv, SweepRelease
  PROVE  ContractInv'
<1>1. PICK w \in Workers : w = "sweep"
  BY DEF Workers
<1>2. PICK queue \in SUBSET Children, pc \in {"settle", "release"} :
        /\ Throttled(Releasable(Status(worker[w].rows)), queue)
        /\ worker' = [worker EXCEPT ![w] = [@ EXCEPT !.pc = pc, !.queue = queue]]
  BY <1>1 DEF SweepRelease, Releasable
<1>3. /\ worker[w] \in HandlerType /\ HandlerInOrder(w) /\ worker[w].writes = {}
  BY <1>1, HandlerFacts DEF SweepRelease, Written, Inv, ContractInv
<1>4. worker'[w] = [worker[w] EXCEPT !.pc = pc, !.queue = queue] /\ Others(w)
  BY <1>2, HandlerFacts DEF Others, Inv
<1>5. /\ worker'[w].pc \in {"settle", "release"} /\ worker'[w].rows = worker[w].rows
      /\ worker'[w].queue = queue /\ worker'[w].writes = {}
      /\ worker'[w].refused = worker[w].refused
  BY <1>3, <1>4 DEF HandlerType
<1>6. UNCHANGED <<row, task>> /\ faults' \in {faults, faults + 1}
  BY <1>2, ThrottledFaults DEF SweepRelease
<1>7. \A c \in Children : Moves(c)
  BY <1>6 DEF Moves
<1>8. ASSUME NEW c \in queue PROVE Succeeded(c)
  <2>1. c \in Children /\ AllSucceeded(Status(worker[w].rows), c)
    BY <1>2, ThrottledFaults DEF Releasable
  <2>2. \A d \in DependsOn[c] : d \in Children /\ worker[w].rows[d].status = "succeeded"
    BY <2>1, GraphAssumption DEF AllSucceeded, Status
  <2>3. \A d \in Children : SeesTruly(w, d)
    BY <1>3 DEF HandlerInOrder
  <2>4. \A d \in DependsOn[c] : row[d].status = "succeeded"
    BY <2>2, <2>3 DEF SeesTruly, Ended
  <2>. QED  BY <2>1, <2>4, NotSucceeded
<1>9. \A c \in Children : ~Holds(w, c)'
  BY <1>5 DEF Holds, Holding
<1>10. HandlerInOrder(w)'
  BY <1>3, <1>5, <1>7, <1>8, <1>9, HandlerGoesOn
<1>. QED  BY <1>4, <1>6, <1>10, ContractLocal

(***************************************************************************)
(* Steps that write a row                                                  *)
(***************************************************************************)

\* One row at most moves, and if it was under release, by its holder's hand.
RowStep(w) ==
    /\ \E c \in Children :
         /\ Moves(c)
         /\ \A d \in Children : d # c => row'[d] = row[d]
         /\ row[c].status = "releasing" /\ row'[c] # row[c] =>
              \A v \in Workers : Holds(v, c) => v = w
    /\ Others(w)
    /\ UNCHANGED <<settled, task, faults>>

LEMMA RowStepMoves ==
  ASSUME NEW w, RowStep(w)
  PROVE  \A c \in Children : Moves(c)
  BY DEF RowStep, Moves

LEMMA ContractRow ==
  ASSUME Undisturbed, Inv, NEW w \in Workers, RowStep(w), HandlerInOrder(w)'
  PROVE  ContractInv'
<1>1. \A c \in Children : Moves(c)
  BY RowStepMoves
<1>2. Others(w) /\ TasksGo /\ faults' = faults
  BY DEF RowStep, TasksGo, Created
<1>3. ASSUME NEW c \in Children, NEW v \in Workers, v # w, Holds(v, c)
      PROVE  row'[c].status = row[c].status
  <2>1. CASE row'[c] = row[c]
    BY <2>1
  <2>2. CASE row'[c] # row[c]
    BY <1>1, <1>3, <2>2, HeldRows DEF RowStep
  <2>. QED  BY <2>1, <2>2
<1>. QED  BY <1>1, <1>2, <1>3, ContractStep

\* The end of a task is written to the row released for it.
LEMMA EndWritten ==
  ASSUME Undisturbed, Inv, NEW w \in Workers, At(w, "write"), worker[w].job = "reconcile",
         NEW c \in Children, c = worker[w].child, NEW wr \in worker[w].writes, wr.child = c,
         row[c].status # wr.status
  PROVE  /\ row[c].status = "released" /\ row[c].task \in TaskIds
         /\ task[row[c].task].state \in Ended /\ wr.status = task[row[c].task].state
<1>1. /\ worker[w].event \in TaskIds /\ task[worker[w].event].state \in Ended
      /\ wr.status = task[worker[w].event].state
  BY HandlerFacts DEF HandlerOK, ControlOf, WritingOf, At, Inv
<1>2. Concluding(w) /\ ~Loose /\ EventsAt(c)
  BY NobodyReopens, RowFacts DEF Concluding, ChildInv, Inv
<1>3. row[c].task = worker[w].event /\ row[c].status \in Taken
  BY <1>2 DEF EventsAt
<1>4. row[c].task # Nil /\ EndTrue(c)
  BY <1>1, <1>3, RowFacts
<1>. QED  BY <1>1, <1>3, <1>4 DEF EndTrue, Taken, TerminalChildStatuses, Ended

\* What is to be skipped is below a dead child once its turn has come.
LEMMA SkipWritten ==
  ASSUME Undisturbed, Inv, NEW w \in Workers, NEW wr \in worker[w].writes,
         wr.status = "skipped",
         At(w, "write") => \A other \in worker[w].writes : other.child # worker[w].child
  PROVE  \E a \in Dead : wr.child \in Dependents[a]
  BY DEF Inv, ContractInv, HandlerInOrder, SkipsJustified

LEMMA WriteMoves ==
  ASSUME Undisturbed, Inv, NEW w \in Workers, NEW wr \in worker[w].writes,
         worker[w].pc \in {"write", "reset", "cascade"},
         \/ wr.child = worker[w].child
         \/ \A other \in worker[w].writes : other.child # worker[w].child,
         row' = IF Applies(w, wr)
                THEN [row EXCEPT ![wr.child].status = wr.status] ELSE row,
         worker' = [worker EXCEPT ![w].writes = @ \ {wr}],
         UNCHANGED <<settled, task, faults>>
  PROVE  /\ RowStep(w)
         /\ wr.status = "skipped" => row'[wr.child].status = "skipped"
         /\ At(w, "write") /\ wr.child = worker[w].child => row'[wr.child].status = wr.status
<1>. HandlersInv
  BY DEF Inv
<1>1. PICK c \in Children : c = wr.child
  BY WriteFacts
<1>2. /\ \A d \in Children : d # c => row'[d] = row[d]
      /\ ~Applies(w, wr) => row'[c] = row[c]
      /\ Applies(w, wr) => row'[c].task = row[c].task /\ row'[c].status = wr.status
      /\ Others(w)
  <2>1. \A d \in Children : d # wr.child => row'[d] = row[d]
    BY WriteFacts
  <2>2. Applies(w, wr) => row'[wr.child].task = row[wr.child].task
    BY WriteFacts
  <2>3. Applies(w, wr) => row'[wr.child].status = wr.status
    BY WriteFacts
  <2>4. ~Applies(w, wr) => row' = row
    OBVIOUS
  <2>5. Others(w)
    BY WriteFacts
  <2>. QED  BY <1>1, <2>1, <2>2, <2>3, <2>4, <2>5
<1>3. /\ HandlerOK(w) /\ worker[w].job \notin {"retry", "fix"}
      /\ At(w, "write") => worker[w].job = "reconcile"
  BY NobodyReopens, HandlerFacts DEF HandlerOK, ControlOf, At, Inv
<1>4. /\ row[c].status \in Waiting \cup {"releasing"} => row[c].task = Nil
      /\ ChildInv(c)
  BY RowFacts
<1>5. SUFFICES
        /\ Moves(c)
        /\ row[c].status = "releasing" /\ row'[c] # row[c] =>
             \A v \in Workers : Holds(v, c) => v = w
        /\ wr.status = "skipped" => row'[c].status = "skipped"
        /\ At(w, "write") /\ c = worker[w].child => row'[c].status = wr.status
  BY <1>1, <1>2 DEF RowStep
<1>6. CASE At(w, "write") /\ c = worker[w].child
  <2>1. wr.status # "skipped" /\ (Applies(w, wr) <=> row[c].status # wr.status)
    <3>1. wr.status \in Ended
      BY <1>1, <1>3, <1>6 DEF HandlerOK, ControlOf, WritingOf, At
    <3>. QED  BY <1>1, <1>3, <1>6, <3>1 DEF Applies, Ended
  <2>2. CASE row[c].status = wr.status
    BY <1>2, <2>1, <2>2 DEF Moves
  <2>3. CASE row[c].status # wr.status
    <3>1. Ends(c)
      BY <1>1, <1>2, <1>3, <1>6, <2>1, <2>3, EndWritten DEF Ends
    <3>. QED  BY <1>2, <2>1, <2>3, <3>1 DEF Moves, Ends
  <2>. QED  BY <2>2, <2>3
<1>7. CASE wr.status = "skipped" /\ ~(At(w, "write") /\ c = worker[w].child)
  <2>1. PICK a \in Dead : c \in Dependents[a]
    BY <1>1, <1>7, SkipWritten
  <2>2. row[c].status \in Waiting \cup {"skipped"}
    BY <2>1, BelowDead
  <2>3. Applies(w, wr) <=> row[c].status \in Waiting
    BY <1>1, <1>7 DEF Applies
  <2>4. CASE row[c].status \in Waiting
    <3>1. Skips(c)
      BY <1>2, <1>4, <1>7, <2>1, <2>3, <2>4 DEF Skips
    <3>. QED  BY <1>7, <2>4, <3>1 DEF Moves, Skips, Waiting
  <2>5. CASE row[c].status \notin Waiting
    BY <1>2, <1>7, <2>2, <2>3, <2>5 DEF Moves
  <2>. QED  BY <2>4, <2>5
<1>8. CASE wr.status # "skipped" /\ ~(At(w, "write") /\ c = worker[w].child)
  <2>1. w = "sweep" /\ At(w, "reset") /\ worker[w].job = "sweep" /\ wr.status = "ready"
    BY <1>1, <1>3, <1>8 DEF HandlerOK, ControlOf, WritingOf, At
  <2>2. Applies(w, wr) <=> row[c].status = "releasing"
    BY <1>1, <2>1 DEF Applies
  <2>3. Unsticking(c)
    BY <1>1, <2>1 DEF Unsticking
  <2>4. \A v \in Workers : ~Holds(v, c)
    BY <1>4, <2>3 DEF ChildInv, SweptAt
  <2>5. Moves(c)
    BY <1>2, <1>4, <2>1, <2>2 DEF Moves, GivesBack, Waiting
  <2>. QED  BY <1>8, <2>4, <2>5
<1>. QED  BY <1>6, <1>7, <1>8

LEMMA ContractWrite ==
  ASSUME Undisturbed, Inv, NEW w \in Workers, Write(w)
  PROVE  RowStep(w) /\ ContractInv'
<1>1. PICK wr \in worker[w].writes :
        /\ \/ wr.child = worker[w].child
           \/ \A other \in worker[w].writes : other.child # worker[w].child
        /\ row' = IF Applies(w, wr)
                  THEN [row EXCEPT ![wr.child].status = wr.status] ELSE row
        /\ worker' = [worker EXCEPT ![w].writes = @ \ {wr}]
  BY DEF Write
<1>2. worker[w].pc \in {"write", "reset", "cascade"} /\ UNCHANGED <<settled, task, faults>>
  BY DEF Write
<1>3. /\ RowStep(w) /\ wr.child \in Children
      /\ wr.status = "skipped" => row'[wr.child].status = "skipped"
      /\ At(w, "write") /\ wr.child = worker[w].child => row'[wr.child].status = wr.status
  <2>1. wr.child \in Children
    BY <1>1, <1>2, WriteFacts DEF Inv
  <2>2. /\ RowStep(w)
        /\ wr.status = "skipped" => row'[wr.child].status = "skipped"
        /\ At(w, "write") /\ wr.child = worker[w].child => row'[wr.child].status = wr.status
    BY <1>1, <1>2, WriteMoves
  <2>. QED  BY <2>1, <2>2
<1>4. /\ worker'[w].pc = worker[w].pc /\ worker'[w].child = worker[w].child
      /\ worker'[w].rows = worker[w].rows /\ worker'[w].writes = worker[w].writes \ {wr}
  BY <1>1, <1>2, WriteFacts DEF Inv
<1>5. worker'[w].refused = worker[w].refused /\ worker[w] \in HandlerType
  <2>1. worker[w] \in HandlerType /\ worker'[w] = [worker[w] EXCEPT !.writes = @ \ {wr}]
    BY <1>1, HandlerFacts DEF Inv
  <2>. QED  BY <2>1 DEF HandlerType
<1>6. HandlerInOrder(w)
  BY DEF Inv, ContractInv
<1>7. /\ \A c \in Children : Succeeded(c) => Succeeded(c)'
      /\ \A c \in Children : row[c].status \in TerminalChildStatuses => row'[c] = row[c]
      /\ Dead \subseteq Dead'
  BY <1>3, RowStepMoves, EndedStays
<1>8. SkipsJustified(w)'
  <2>. SUFFICES ASSUME NEW x \in worker[w].writes, x # wr, x.status = "skipped"
                PROVE  \E a \in Children :
                         /\ x.child \in Dependents[a]
                         /\ \/ a \in Dead'
                            \/ /\ worker'[w].pc = "write" /\ a = worker'[w].child
                               /\ [child |-> a, status |-> "failed"] \in worker'[w].writes
    BY <1>4 DEF SkipsJustified, At
  <2>1. PICK a \in Children :
          /\ x.child \in Dependents[a]
          /\ \/ a \in Dead
             \/ /\ At(w, "write") /\ a = worker[w].child
                /\ [child |-> a, status |-> "failed"] \in worker[w].writes
    BY <1>6 DEF HandlerInOrder, SkipsJustified
  <2>2. CASE a \in Dead
    BY <1>7, <2>1, <2>2
  <2>3. CASE wr = [child |-> a, status |-> "failed"] /\ At(w, "write") /\ a = worker[w].child
    <3>1. row'[a].status = "failed"
      BY <1>3, <2>3
    <3>. QED  BY <2>1, <3>1 DEF Dead
  <2>4. CASE /\ wr # [child |-> a, status |-> "failed"] /\ At(w, "write") /\ a = worker[w].child
             /\ [child |-> a, status |-> "failed"] \in worker[w].writes
    BY <1>4, <2>1, <2>4 DEF At
  <2>. QED  BY <2>1, <2>2, <2>3, <2>4
<1>9. ASSUME NEW c \in Children PROVE WorksInOrder(w, c)' /\ SeesTruly(w, c)'
  <2>1. WorksInOrder(w, c) /\ SeesTruly(w, c)
    BY <1>6 DEF HandlerInOrder
  <2>2. row[c].status \in TerminalChildStatuses => row'[c] = row[c]
    BY <1>7
  <2>3. WorksInOrder(w, c)'
    BY <1>2, <1>4, <1>5, <2>1, <2>2 DEF WorksInOrder, Holds, Holding, TerminalChildStatuses
  <2>4. SeesTruly(w, c)'
    <3>1. worker[w].rows[c].status \in Ended => row'[c].status = worker[w].rows[c].status
      BY <2>1, <2>2 DEF SeesTruly, Ended, TerminalChildStatuses
    <3>2. ASSUME worker[w].rows[c].status = "skipped", row'[c].status # "skipped"
          PROVE  At(w, "cascade") /\ \E x \in worker[w].writes \ {wr} : x.child = c
      <4>1. At(w, "cascade") /\ \E x \in worker[w].writes : x.child = c
        BY <2>1, <2>2, <3>2 DEF SeesTruly, TerminalChildStatuses
      <4>2. wr.status = "skipped"
        BY <4>1, HandlerFacts DEF HandlerOK, WritingOf, Inv
      <4>. QED  BY <1>3, <3>2, <4>1, <4>2
    <3>. QED  BY <1>4, <3>1, <3>2 DEF SeesTruly, At
  <2>. QED  BY <2>3, <2>4
<1>10. HandlerInOrder(w)'
  BY <1>2, <1>4, <1>8, <1>9 DEF HandlerInOrder, At
<1>. QED  BY <1>3, <1>10, ContractRow

LEMMA ContractClaim ==
  ASSUME Undisturbed, Inv, NEW w \in Workers, Claim(w)
  PROVE  RowStep(w) /\ ContractInv'
<1>1. PICK c \in worker[w].queue :
        LET won == row[c].status \in Waiting
        IN /\ row' = IF won THEN [row EXCEPT ![c].status = "releasing"] ELSE row
           /\ worker' = [worker EXCEPT ![w] = [@ EXCEPT
                    !.queue = worker[w].queue \ {c},
                    !.pc = IF won THEN "lookup" ELSE "release",
                    !.child = IF won THEN c ELSE Nil]]
  BY DEF Claim
<1>2. PICK won \in BOOLEAN : won <=> row[c].status \in Waiting
  OBVIOUS
<1>3. /\ worker[w] \in HandlerType /\ At(w, "release") /\ HandlerInOrder(w)
      /\ worker[w].writes = {} /\ row \in Rows /\ c \in Children
  <2>1. worker[w] \in HandlerType /\ At(w, "release") /\ HandlerOK(w) /\ row \in Rows
    BY HandlerFacts DEF Claim, Inv
  <2>2. HandlerInOrder(w)
    BY DEF Inv, ContractInv
  <2>. QED  BY <2>1, <2>2 DEF HandlerOK, WritingOf, At, HandlerType
<1>4. Succeeded(c) /\ (row[c].status \in Waiting => row[c].task = Nil)
  BY <1>3, RowFacts DEF HandlerInOrder, WorksInOrder, At
<1>5. /\ \A d \in Children : d # c => row'[d] = row[d]
      /\ ~won => row'[c] = row[c]
      /\ won => row'[c].status = "releasing" /\ row'[c].task = row[c].task
  BY <1>1, <1>2, <1>3 DEF Rows
<1>6. /\ worker'[w] = [worker[w] EXCEPT
            !.queue = worker[w].queue \ {c}, !.pc = IF won THEN "lookup" ELSE "release",
            !.child = IF won THEN c ELSE Nil]
      /\ Others(w)
  BY <1>1, <1>2, HandlerFacts DEF Others, Inv
<1>7. /\ worker'[w].pc = IF won THEN "lookup" ELSE "release"
      /\ worker'[w].child = IF won THEN c ELSE Nil
      /\ worker'[w].queue = worker[w].queue \ {c} /\ worker'[w].rows = worker[w].rows
      /\ worker'[w].writes = {} /\ worker'[w].refused = worker[w].refused
  BY <1>3, <1>6 DEF HandlerType
<1>8. Moves(c)
  <2>1. CASE won
    BY <1>2, <1>4, <1>5, <2>1 DEF Moves, Claims
  <2>2. CASE ~won
    BY <1>5, <2>2 DEF Moves
  <2>. QED  BY <2>1, <2>2
<1>9. RowStep(w)
  <2>1. row[c].status = "releasing" => row'[c] = row[c]
    BY <1>2, <1>5 DEF Waiting
  <2>. QED  BY <1>3, <1>5, <1>6, <1>8, <2>1 DEF RowStep, Claim
<1>10. \A d \in Children :
         /\ d \in worker'[w].queue => Succeeded(d)
         /\ Holds(w, d)' => row'[d].status = "releasing"
  <2>1. \A d \in Children : d \in worker'[w].queue => Succeeded(d)
    BY <1>3, <1>7 DEF HandlerInOrder, WorksInOrder, At
  <2>2. \A d \in Children : Holds(w, d)' => won /\ d = c
    BY <1>7 DEF Holds, Holding
  <2>. QED  BY <1>5, <2>1, <2>2
<1>11. HandlerInOrder(w)'
  BY <1>3, <1>7, <1>9, <1>10, RowStepMoves, HandlerGoesOn DEF At
<1>. QED  BY <1>9, <1>11, ContractRow

\* The three ways to end a release of a row that is being released.
LEMMA ContractEndRelease ==
  ASSUME Undisturbed, Inv, NEW w \in Workers,
         worker[w].pc \in {"record", "rollback", "refuse"},
         NEW c, c = worker[w].child, NEW new, EndRelease(w, new), UNCHANGED faults,
         row[c].status = "releasing" /\ row'[c] = new => Moves(c)
  PROVE  RowStep(w) /\ ContractInv'
<1>1. /\ c \in Children /\ Holds(w, c) /\ Others(w) /\ UNCHANGED task
      /\ \A d \in Children : d # c => row'[d] = row[d]
      /\ row[c].status = "releasing" => row'[c] = new
      /\ worker'[w].pc = "release" /\ worker'[w].rows = worker[w].rows
      /\ worker'[w].queue = worker[w].queue
  BY EndReleaseFacts DEF Inv
<1>2. /\ worker[w] \in HandlerType /\ worker[w].pc \in Holding /\ HandlerInOrder(w)
      /\ worker[w].writes = {}
  BY HandlerFacts DEF HandlerOK, WritingOf, Holding, Inv, ContractInv
<1>3. row[c].status = "releasing" /\ \A v \in Workers : Holds(v, c) => v = w
  BY <1>1, <1>2, RowFacts DEF HandlerInOrder, WorksInOrder, ChildInv, LockedAt
<1>4. RowStep(w)
  BY <1>1, <1>3 DEF RowStep, EndRelease
<1>5. /\ worker'[w].writes = {}
      /\ worker'[w].refused = IF new.status = "failed" THEN worker[w].refused \cup {c}
                                                       ELSE worker[w].refused
  <2>. DEFINE refused == IF new.status = "failed" THEN worker[w].refused \cup {c}
                                                  ELSE worker[w].refused
  <2>1. worker'[w] = [worker[w] EXCEPT !.pc = "release", !.child = Nil, !.made = Nil,
                                       !.refused = refused]
    BY HandlerFacts DEF EndRelease, Inv
  <2>. HIDE DEF refused
  <2>2. worker'[w].writes = {} /\ worker'[w].refused = refused
    BY <1>2, <2>1 DEF HandlerType
  <2>. QED  BY <2>2 DEF refused
<1>6. \A d \in Children :
        /\ d \in worker'[w].queue => Succeeded(d)
        /\ ~Holds(w, d)'
        /\ d \in worker'[w].refused => d \in worker[w].refused \/ row'[d].status = "failed"
  <2>1. \A d \in Children : d \in worker'[w].queue => Succeeded(d)
    BY <1>1, <1>2 DEF HandlerInOrder, WorksInOrder
  <2>2. \A d \in Children : ~Holds(w, d)'
    BY <1>1 DEF Holds, Holding
  <2>. QED  BY <1>1, <1>3, <1>5, <2>1, <2>2
<1>7. HandlerInOrder(w)'
  BY <1>1, <1>2, <1>4, <1>5, <1>6, RowStepMoves, HandlerGoesOn DEF Holding, At
<1>. QED  BY <1>4, <1>7, ContractRow

LEMMA ContractRelease ==
  ASSUME Undisturbed, Inv, NEW w \in Workers,
         Record(w) \/ RollBackClaim(w) \/ FailClaimTerminal(w)
  PROVE  RowStep(w) /\ ContractInv'
<1>1. PICK c : c = worker[w].child
  OBVIOUS
<1>2. c \in Children /\ Holds(w, c) /\ row[c] \in [status : ChildStatuses, task : TaskIds \cup {Nil}]
  <2>1. c \in Children /\ worker[w].pc \in Holding
    BY <1>1, HandlerFacts
       DEF Record, RollBackClaim, FailClaimTerminal, HandlerOK, ControlOf, At, Holding, Inv
  <2>. QED  BY <1>1, <2>1, RowFacts DEF Holds
<1>3. /\ row[c].status = "releasing" /\ row[c].task = Nil
      /\ At(w, "refuse") => Created(c, Nil) = {}
      /\ At(w, "record") => worker[w].made \in Created(c, Nil)
  <2>1. row[c].status = "releasing"
    BY <1>2 DEF Inv, ContractInv, HandlerInOrder, WorksInOrder
  <2>. QED  BY <1>2, <2>1, RowFacts DEF ChildInv, LockedAt, At
<1>4. CASE Record(w)
  <2>1. EndRelease(w, [status |-> "released", task |-> worker[w].made])
    BY <1>4 DEF Record
  <2>2. row'[c] = [status |-> "released", task |-> worker[w].made] => Moves(c)
    BY <1>3, <1>4 DEF Record, Moves, Records
  <2>. QED  BY <1>1, <1>4, <2>1, <2>2, ContractEndRelease DEF Record, At
<1>5. CASE RollBackClaim(w)
  <2>1. EndRelease(w, [row[c] EXCEPT !.status = "ready"])
    BY <1>1, <1>5 DEF RollBackClaim
  <2>2. row'[c] = [row[c] EXCEPT !.status = "ready"] => Moves(c)
    BY <1>2, <1>3 DEF Moves, GivesBack, Waiting
  <2>. QED  BY <1>1, <1>5, <2>1, <2>2, ContractEndRelease DEF RollBackClaim, At
<1>6. CASE FailClaimTerminal(w)
  <2>1. EndRelease(w, [row[c] EXCEPT !.status = "failed"])
    BY <1>1, <1>6 DEF FailClaimTerminal
  <2>2. row'[c] = [row[c] EXCEPT !.status = "failed"] => Moves(c)
    BY <1>2, <1>3, <1>6 DEF FailClaimTerminal, Moves, Refuses
  <2>. QED  BY <1>1, <1>6, <2>1, <2>2, ContractEndRelease DEF FailClaimTerminal, At
<1>. QED  BY <1>4, <1>5, <1>6

\* The sweep takes a task's outcome for the row released for it, and finds the
\* same outcome in a row that has ended meanwhile.
LEMMA ContractAdvance ==
  ASSUME Undisturbed, Inv, Advance
  PROVE  RowStep("sweep") /\ ContractInv'
<1>1. PICK w \in Workers : w = "sweep"
  BY DEF Workers
<1>2. PICK c \in worker[w].queue :
        LET outcome == task[worker[w].rows[c].task].state
        IN /\ row' = IF outcome \in Ended THEN [row EXCEPT ![c].status = outcome] ELSE row
           /\ worker' = [worker EXCEPT ![w].queue = @ \ {c}]
  BY <1>1 DEF Advance
<1>3. /\ worker[w] \in HandlerType /\ At(w, "reset") /\ HandlerInOrder(w)
      /\ worker[w].writes = {} /\ row \in Rows /\ c \in Children
  BY <1>1, HandlerFacts DEF Advance, Written, HandlerType, Inv, ContractInv
<1>4. /\ row[c].task = worker[w].rows[c].task /\ row[c].task \in TaskIds
      /\ row[c].status \in Taken /\ EndTrue(c) /\ row[c].task # Nil
  BY <1>1, <1>3, RowFacts DEF ChildInv, SweptAt
<1>5. /\ worker'[w] = [worker[w] EXCEPT !.queue = worker[w].queue \ {c}]
      /\ Others(w)
  BY <1>2, HandlerFacts DEF Others, Inv
<1>6. /\ worker'[w].pc = "reset" /\ worker'[w].rows = worker[w].rows
      /\ worker'[w].writes = {} /\ worker'[w].refused = worker[w].refused
  BY <1>3, <1>5 DEF HandlerType, At
<1>7. /\ \A d \in Children : d # c => row'[d] = row[d]
      /\ task[row[c].task].state \notin Ended => row'[c] = row[c]
      /\ task[row[c].task].state \in Ended =>
           /\ row'[c].status = task[row[c].task].state /\ row'[c].task = row[c].task
           /\ row[c].status = task[row[c].task].state => row'[c] = row[c]
  BY <1>2, <1>3, <1>4 DEF Rows
<1>8. Moves(c)
  <2>1. CASE row[c].status = "released" /\ task[row[c].task].state \in Ended
    BY <1>4, <1>7, <2>1 DEF Moves, Ends
  <2>2. CASE row[c].status # "released"
    BY <1>4, <1>7, <2>2 DEF Moves, EndTrue, Taken, TerminalChildStatuses, Ended
  <2>3. CASE task[row[c].task].state \notin Ended
    BY <1>7, <2>3 DEF Moves
  <2>. QED  BY <2>1, <2>2, <2>3
<1>9. RowStep(w)
  <2>1. row[c].status # "releasing"
    BY <1>4 DEF Taken, TerminalChildStatuses
  <2>. QED  BY <1>3, <1>5, <1>7, <1>8, <2>1 DEF RowStep, Advance
<1>10. \A d \in Children : ~Holds(w, d)'
  BY <1>6 DEF Holds, Holding
<1>11. HandlerInOrder(w)'
  BY <1>3, <1>6, <1>9, <1>10, RowStepMoves, HandlerGoesOn DEF At, Holding
<1>. QED  BY <1>1, <1>9, <1>11, ContractRow

(***************************************************************************)
(* Steps that put a task                                                   *)
(***************************************************************************)

\* A task is put for a child that had none, whose predecessors all succeeded.
LEMMA NewTaskGoes ==
  ASSUME Undisturbed, Inv, NEW w \in Workers, At(w, "create"), NEW t \in TaskIds, NewTask(w, t)
  PROVE  /\ TasksGo
         /\ \E c \in Children :
              /\ row[c].status = "releasing" /\ Created(c, Nil) = {} /\ Created(c, Nil)' = {t}
              /\ \A d \in Children : d # c => Created(d, Nil)' = Created(d, Nil)
<1>1. PICK c : c = worker[w].child
  OBVIOUS
<1>2. /\ c \in Children /\ Holds(w, c) /\ task \in [TaskIds -> TaskType]
  BY <1>1, HandlerFacts DEF HandlerOK, ControlOf, Holding, Holds, At, Inv
<1>3. row[c].status = "releasing" /\ row[c].task = Nil /\ ChildInv(c) /\ Succeeded(c)
  <2>1. row[c].status = "releasing"
    BY <1>2 DEF Inv, ContractInv, HandlerInOrder, WorksInOrder
  <2>. QED  BY <1>2, <2>1, RowFacts DEF StartedInOrder
<1>4. worker[w].rows[c].task = Nil /\ Created(c, Nil) = {}
  BY <1>2, <1>3 DEF ChildInv, LockedAt, At
<1>5. /\ task[t] = NoTask
      /\ task'[t] = [child |-> c, prior |-> Nil, state |-> "running"]
      /\ \A u \in TaskIds : u # t => task'[u] = task[u]
  BY <1>1, <1>2, <1>4 DEF NewTask, Prior
<1>6. /\ task[t].state = "none" /\ task[t].child = Nil
      /\ task'[t].child = c /\ task'[t].prior = Nil
  BY <1>5 DEF NoTask
<1>7. \A u \in TaskIds : task[u].state \in Ended => task'[u] = task[u]
  BY <1>5, <1>6 DEF Ended
<1>8. Created(c, Nil)' = {t}
  <2>1. \A u \in TaskIds : u # t => ~(task'[u].child = c /\ task'[u].prior = Nil)
    BY <1>4, <1>5 DEF Created
  <2>. QED  BY <1>6, <2>1 DEF Created
<1>9. ASSUME NEW d \in Children, d # c PROVE Created(d, Nil)' = Created(d, Nil)
  <2>1. \A u \in TaskIds : /\ task'[u].child = d <=> task[u].child = d
                           /\ task[u].child = d => task'[u].prior = task[u].prior
    BY <1>5, <1>6, <1>9
  <2>. QED  BY <2>1 DEF Created
<1>. QED  BY <1>2, <1>3, <1>4, <1>7, <1>8, <1>9 DEF TasksGo

LEMMA ContractCreate ==
  ASSUME Undisturbed, Inv, NEW w \in Workers, Create(w) \/ CreateFails(w)
  PROVE  ContractInv'
<1>1. /\ worker[w] \in HandlerType /\ At(w, "create") /\ HandlerInOrder(w)
      /\ worker[w].writes = {}
  BY HandlerFacts DEF Create, CreateFails, HandlerOK, WritingOf, At, Inv, ContractInv
<1>2. PICK pc \in {"record", "rollback"}, made \in TaskIds \cup {worker[w].made} :
        worker' = [worker EXCEPT ![w] = [worker[w] EXCEPT !.pc = pc, !.made = made]]
  <2>1. CASE Create(w)
    BY <2>1 DEF Create
  <2>2. CASE CreateFails(w)
    <3>1. [worker[w] EXCEPT !.pc = "rollback"]
            = [worker[w] EXCEPT !.pc = "rollback", !.made = worker[w].made]
      BY <1>1 DEF HandlerType
    <3>. QED  BY <2>2, <3>1 DEF CreateFails
  <2>. QED  BY <2>1, <2>2
<1>3. worker'[w] = [worker[w] EXCEPT !.pc = pc, !.made = made] /\ Others(w)
  BY <1>2, HandlerFacts DEF Others, Inv
<1>4. /\ worker'[w].pc \in {"record", "rollback"} /\ worker'[w].rows = worker[w].rows
      /\ worker'[w].child = worker[w].child /\ worker'[w].queue = worker[w].queue
      /\ worker'[w].writes = {} /\ worker'[w].refused = worker[w].refused
  BY <1>1, <1>3 DEF HandlerType
<1>5. UNCHANGED row /\ faults' \in {faults, faults + 1}
  BY DEF Create, CreateFails, Fault
<1>6. TasksGo
  <2>1. CASE UNCHANGED task
    BY <2>1 DEF TasksGo, Created
  <2>2. CASE \E t \in TaskIds : NewTask(w, t)
    BY <1>1, <2>2, NewTaskGoes
  <2>. QED  BY <2>1, <2>2 DEF Create, CreateFails
<1>7. \A c \in Children : Moves(c)
  BY <1>5 DEF Moves
<1>8. \A c \in Children : WorksInOrder(w, c) /\ (Holds(w, c)' => Holds(w, c))
  BY <1>1, <1>4 DEF HandlerInOrder, Holds, Holding, At
<1>9. \A c \in Children :
        /\ c \in worker'[w].queue => Succeeded(c)
        /\ Holds(w, c)' => row'[c].status = "releasing"
  BY <1>1, <1>4, <1>5, <1>8 DEF WorksInOrder, At, Holding
<1>10. HandlerInOrder(w)'
  BY <1>1, <1>4, <1>7, <1>9, HandlerGoesOn DEF At
<1>. QED  BY <1>3, <1>5, <1>6, <1>7, <1>10, ContractStep

(***************************************************************************)
(* All steps                                                               *)
(***************************************************************************)

LEMMA ContractInit ==
  ASSUME Init
  PROVE  ContractInv
<1>. DEFINE roots == {c \in Children : DependsOn[c] = {}}
            seed == [Idle EXCEPT !.pc = "release", !.job = "seed", !.queue = roots]
<1>1. /\ seed.pc = "release" /\ seed.queue = roots /\ seed.rows = SeededRows
      /\ seed.writes = {} /\ seed.refused = {}
  BY IdleType DEF HandlerType
<1>2. \A w \in Workers : worker[w] = IF w = "webhook" THEN seed ELSE Idle
  BY DEF Init
<1>. HIDE DEF seed
<1>3. \A w \in Workers :
        /\ worker[w].pc \in {"idle", "release"} /\ worker[w].rows = SeededRows
        /\ worker[w].writes = {} /\ worker[w].refused = {}
        /\ worker[w].queue \subseteq roots
  BY <1>1, <1>2, IdleType
<1>4. /\ \A c \in Children : row[c].status \in Waiting
      /\ \A t \in TaskIds : task[t].child = Nil
      /\ \A c \in roots : Succeeded(c)
  BY SeededType DEF Init, NoTask, Succeeded, AllSucceeded
<1>5. \A c \in Children : StartedInOrder(c) /\ EndTrue(c)
  BY <1>4 DEF StartedInOrder, EndTrue, Created, Waiting, Ended
<1>6. ASSUME NEW w \in Workers PROVE HandlerInOrder(w)
  <2>1. ASSUME NEW c \in Children PROVE WorksInOrder(w, c) /\ SeesTruly(w, c)
    <3>1. WorksInOrder(w, c)
      BY <1>3, <1>4 DEF WorksInOrder, Holds, Holding
    <3>2. SeesTruly(w, c)
      BY <1>3, SeededType DEF SeesTruly, Ended, Waiting
    <3>. QED  BY <3>1, <3>2
  <2>2. SkipsJustified(w)
    BY <1>3 DEF SkipsJustified
  <2>. QED  BY <1>3, <2>1, <2>2 DEF HandlerInOrder, At
<1>. QED  BY <1>5, <1>6 DEF ContractInv

\* Nobody retries or fixes.
LEMMA NoReopening ==
  ASSUME Undisturbed, Inv
  PROVE  /\ ~Retry /\ \A w \in Reconcilers, c \in Children : ~Fix(w, c)
         /\ \A w \in Workers : ~ClearRollupClaim(w) /\ ~RereadToRelease(w) /\ ~Refresh(w)
<1>1. MaxReopens = 0 /\ reopens = 0 /\ \A w \in Workers : worker[w].job \notin {"retry", "fix"}
  BY NobodyReopens DEF Undisturbed, Inv
<1>2. ~Retry /\ \A w \in Reconcilers, c \in Children : ~Fix(w, c)
  BY <1>1 DEF Retry, Fix, Reopens
<1>3. ASSUME NEW w \in Workers PROVE ~RereadToRelease(w)
  BY <1>1, HandlerFacts DEF RereadToRelease, HandlerOK, ControlOf, At, Inv
<1>. QED  BY <1>1, <1>2, <1>3 DEF ClearRollupClaim, Refresh

LEMMA ContractNext ==
  ASSUME Undisturbed, Inv, [Next]_vars
  PROVE  ContractInv'
<1>1. CASE \E t \in TaskIds : TaskEnds(t)
  BY <1>1, ContractTaskEnds
<1>2. CASE \E w \in Reconcilers, t \in TaskIds : Deliver(w, t)
  BY <1>2, ContractDeliver
<1>3. CASE \E w \in Workers : Handle(w) \/ Fail(w)
  <2>1. PICK w \in Workers : Handle(w) \/ Fail(w)
    BY <1>3
  <2>2. CASE Load(w) \/ Write(w) \/ Reread(w) \/ Claim(w) \/ Lookup(w)
    BY <2>2, ContractLoad, ContractWrite, ContractReread, ContractClaim, ContractLookup
  <2>3. CASE Record(w) \/ RollBackClaim(w) \/ FailClaimTerminal(w) \/ EndReleaseFails(w)
    BY <2>3, ContractRelease, ContractEndReleaseFails
  <2>4. CASE Create(w) \/ CreateFails(w) \/ CreateRefused(w)
    BY <2>4, ContractCreate, ContractCreateRefused
  <2>5. CASE ApplyTerminalCreateFailures(w) \/ Finish(w) \/ Settle(w) \/ Crash(w)
    BY <2>5, ContractApplyFailures, ContractFinish
  <2>. QED  BY <2>1, <2>2, <2>3, <2>4, <2>5, NoReopening DEF Handle, Fail
<1>4. CASE Retry \/ \E w \in Reconcilers, c \in Children : Fix(w, c)
  BY <1>4, NoReopening
<1>5. CASE Sweep
  BY <1>5, ContractSweepLoad, ContractAdvance, ContractSweepReread, ContractSweepRelease
     DEF Sweep
<1>6. CASE UNCHANGED vars
  <2>1. UNCHANGED <<row, task, worker, faults>> /\ "sweep" \in Workers
    BY <1>6 DEF vars, Workers
  <2>2. HandlerInOrder("sweep")'
    <3>1. \A c \in Children : Moves(c)
      BY <2>1 DEF Moves
    <3>. QED  BY <2>1, <3>1, OtherInOrder
  <2>. QED  BY <2>1, <2>2, ContractLocal DEF Others
<1>. QED  BY <1>1, <1>2, <1>3, <1>4, <1>5, <1>6 DEF Next

\* Where nobody reopens the epic, no handler ever works out of order: whatever it
\* has read before, what it claims may be worked on, what it writes as ended has
\* ended so, and what it skips is below a child that failed.
THEOREM WorkedInOrder ==
  ASSUME Undisturbed
  PROVE  Spec => []Inv
<1>1. Init => Inv
  BY HandlersInit, LockInit, ContractInit DEF Inv
<1>2. Inv /\ [Next]_vars => Inv'
  BY HandlersNext, LockNext, ContractNext DEF Inv, Undisturbed
<1>. QED  BY <1>1, <1>2, PTL DEF Spec

(***************************************************************************)
(* The contract is kept                                                    *)
(***************************************************************************)

LEMMA PhaseAt ==
  ASSUME NEW c \in Children
  PROVE  /\ Phase[c] = IF row[c].status \in TerminalChildStatuses THEN row[c].status
                       ELSE IF row[c].status = "released" \/ Created(c, row[c].task) # {}
                       THEN "working" ELSE "waiting"
         /\ Phase'[c] = IF row'[c].status \in TerminalChildStatuses THEN row'[c].status
                        ELSE IF row'[c].status = "released" \/ Created(c, row[c].task)' # {}
                        THEN "working" ELSE "waiting"
  BY DEF Phase, TerminalChildStatuses

\* One child's phase changes.
LEMMA PhaseExcept ==
  ASSUME NEW c \in Children, NEW x, Phase'[c] = x,
         \A d \in Children : d # c => Phase'[d] = Phase[d]
  PROVE  Phase' = [Phase EXCEPT ![c] = x]
<1>1. Phase = [d \in Children |-> Phase[d]] /\ Phase' = [d \in Children |-> Phase'[d]]
  BY DEF Phase
<1>. HIDE DEF Phase
<1>. QED  BY <1>1

LEMMA PhaseKept ==
  ASSUME \A c \in Children : Phase'[c] = Phase[c]
  PROVE  Phase' = Phase
<1>1. Phase = [d \in Children |-> Phase[d]] /\ Phase' = [d \in Children |-> Phase'[d]]
  BY DEF Phase
<1>. HIDE DEF Phase
<1>. QED  BY <1>1

\* The predecessors of a child have succeeded in the contract if they have here.
LEMMA PhaseSucceeded ==
  ASSUME NEW c \in Children, Succeeded(c)
  PROVE  Contract!AllSucceeded(Phase, c)
  BY NotSucceeded, PhaseAt, GraphAssumption DEF Contract!AllSucceeded, TerminalChildStatuses

KeepsContract == Contract!Next \/ UNCHANGED <<Phase, settled>>

LEMMA RowStepKept ==
  ASSUME Undisturbed, Inv, NEW w \in Workers, RowStep(w)
  PROVE  KeepsContract
<1>1. PICK c \in Children : Moves(c) /\ \A d \in Children : d # c => row'[d] = row[d]
  BY DEF RowStep
<1>2. UNCHANGED <<settled, task>> /\ \A d, p : Created(d, p)' = Created(d, p)
  BY DEF RowStep, Created
<1>3. \A d \in Children : d # c => Phase'[d] = Phase[d]
  BY <1>1, <1>2, PhaseAt DEF Created
<1>4. row[c].status \in Waiting \cup {"releasing"} => row[c].task = Nil
  BY RowFacts
<1>5. CASE row'[c] = row[c] \/ Claims(c) \/ GivesBack(c) \/ Records(c)
  <2>1. Phase'[c] = Phase[c]
    <3>1. CASE row'[c] = row[c]
      BY <1>2, <3>1, PhaseAt DEF Created
    <3>2. CASE Claims(c) \/ GivesBack(c)
      <4>1. /\ row[c].status \in Waiting \cup {"releasing"}
            /\ row'[c].status \in Waiting \cup {"releasing"} /\ row'[c].task = row[c].task
        BY <1>4, <3>2 DEF Claims, GivesBack
      <4>. QED  BY <1>2, <4>1, PhaseAt DEF Waiting, TerminalChildStatuses, Created
    <3>3. CASE Records(c)
      <4>1. Phase[c] = "working"
        BY <1>4, <3>3, PhaseAt DEF Records, TerminalChildStatuses
      <4>2. Phase'[c] = "working"
        BY <3>3, PhaseAt DEF Records, TerminalChildStatuses
      <4>. QED  BY <4>1, <4>2
    <3>. QED  BY <1>5, <3>1, <3>2, <3>3
  <2>. QED  BY <1>2, <1>3, <2>1, PhaseKept DEF KeepsContract
<1>6. CASE Refuses(c)
  <2>1. Succeeded(c) /\ Phase[c] = "waiting" /\ Phase'[c] = "failed"
    BY <1>4, <1>6, PhaseAt, RowFacts DEF Refuses, StartedInOrder, TerminalChildStatuses
  <2>2. Phase' = [Phase EXCEPT ![c] = "failed"]
    BY <1>3, <2>1, PhaseExcept
  <2>. QED  BY <1>2, <2>1, <2>2, PhaseSucceeded
            DEF KeepsContract, Contract!Next, Contract!Refuse
<1>7. CASE Ends(c)
  <2>1. Phase[c] = "working" /\ Phase'[c] \in {"succeeded", "failed"}
    BY <1>7, PhaseAt DEF Ends, Ended, TerminalChildStatuses
  <2>2. Phase' = [Phase EXCEPT ![c] = Phase'[c]]
    BY <1>3, PhaseExcept
  <2>. QED  BY <1>2, <2>1, <2>2 DEF KeepsContract, Contract!Next, Contract!End
<1>8. CASE Skips(c)
  <2>1. PICK a \in Dead : c \in Dependents[a]
    BY <1>8 DEF Skips
  <2>2. Phase[c] = "waiting" /\ Phase'[c] = "skipped"
    BY <1>4, <1>8, <2>1, PhaseAt, BelowDead DEF Skips, Waiting, TerminalChildStatuses
  <2>3. a \in Children /\ Phase[a] \in {"failed", "skipped"}
    BY PhaseAt DEF Dead, TerminalChildStatuses
  <2>4. Phase' = [Phase EXCEPT ![c] = "skipped"]
    BY <1>3, <2>2, PhaseExcept
  <2>5. c \in Contract!Dependents[a]
    BY <2>1 DEF Dependents, Contract!Dependents
  <2>. QED  BY <1>2, <2>2, <2>3, <2>4, <2>5 DEF KeepsContract, Contract!Next, Contract!Skip
<1>. QED  BY <1>1, <1>5, <1>6, <1>7, <1>8 DEF Moves

\* Putting a task is the start of work on its child, recorded or not.
LEMMA CreateKept ==
  ASSUME Undisturbed, Inv, NEW w \in Workers, Create(w) \/ CreateFails(w)
  PROVE  KeepsContract
<1>1. At(w, "create") /\ UNCHANGED <<row, settled>>
  BY DEF Create, CreateFails
<1>2. CASE UNCHANGED task
  <2>1. \A c \in Children : Phase'[c] = Phase[c]
    BY <1>1, <1>2, PhaseAt DEF Created
  <2>. QED  BY <1>1, <2>1, PhaseKept DEF KeepsContract
<1>3. CASE \E t \in TaskIds : NewTask(w, t)
  <2>1. PICK t \in TaskIds, c \in Children :
          /\ row[c].status = "releasing" /\ Created(c, Nil) = {} /\ Created(c, Nil)' = {t}
          /\ \A d \in Children : d # c => Created(d, Nil)' = Created(d, Nil)
    BY <1>1, <1>3, NewTaskGoes
  <2>2. \A d \in Children : row[d].status \in Waiting \cup {"releasing"} => row[d].task = Nil
    BY RowFacts
  <2>3. Succeeded(c)
    BY <2>1, RowFacts DEF StartedInOrder
  <2>4. Phase[c] = "waiting" /\ Phase'[c] = "working"
    <3>1. row[c].task = Nil /\ row' = row
      BY <1>1, <2>1, <2>2
    <3>2. Created(c, row[c].task)' = Created(c, Nil)'
      BY <3>1 DEF Created
    <3>. QED  BY <2>1, <3>1, <3>2, PhaseAt DEF TerminalChildStatuses
  <2>5. ASSUME NEW d \in Children, d # c PROVE Phase'[d] = Phase[d]
    <3>1. CASE row[d].status \in Taken
      BY <1>1, <3>1, PhaseAt DEF Taken
    <3>2. CASE row[d].status \notin Taken
      <4>1. row[d].task = Nil
        BY <2>2, <3>2, RowFacts DEF Taken, ChildStatuses, Waiting, TerminalChildStatuses
      <4>2. Created(d, row[d].task)' = Created(d, row[d].task)
        BY <1>1, <2>1, <2>5, <4>1 DEF Created
      <4>. QED  BY <1>1, <4>2, PhaseAt
    <3>. QED  BY <3>1, <3>2
  <2>6. Phase' = [Phase EXCEPT ![c] = "working"]
    BY <2>4, <2>5, PhaseExcept
  <2>. QED  BY <1>1, <2>3, <2>4, <2>6, PhaseSucceeded
            DEF KeepsContract, Contract!Next, Contract!Start
<1>. QED  BY <1>2, <1>3 DEF Create, CreateFails

\* What the settling handler has seen as ended has ended.
LEMMA SettleKept ==
  ASSUME Undisturbed, Inv, NEW w \in Workers, Settle(w)
  PROVE  KeepsContract
<1>1. UNCHANGED <<row, task>> /\ (At(w, "cascade") => worker[w].writes = {})
      /\ settled \in BOOLEAN
      /\ settled' = (settled \/ AllTerminal(Status(worker[w].rows)))
  BY HandlerFacts DEF Settle, NothingRefused, Released, Written, At, Inv
<1>2. Phase' = Phase
  <2>1. \A c \in Children : Phase'[c] = Phase[c]
    BY <1>1, PhaseAt DEF Created
  <2>. QED  BY <2>1, PhaseKept
<1>3. CASE AllTerminal(Status(worker[w].rows))
  <2>1. ASSUME NEW c \in Children PROVE Phase[c] \in TerminalChildStatuses
    <3>1. worker[w].rows[c].status \in TerminalChildStatuses
      BY <1>3 DEF AllTerminal, Status
    <3>2. SeesTruly(w, c)
      BY DEF Inv, ContractInv, HandlerInOrder
    <3>3. row[c].status \in TerminalChildStatuses
      BY <1>1, <3>1, <3>2 DEF SeesTruly, TerminalChildStatuses, Ended
    <3>. QED  BY <3>3, PhaseAt
  <2>2. Contract!AllTerminal(Phase)
    BY <2>1 DEF Contract!AllTerminal, Contract!TerminalChildStatuses, TerminalChildStatuses
  <2>. QED  BY <1>1, <1>2, <1>3, <2>2 DEF KeepsContract, Contract!Next, Contract!Settle
<1>4. CASE ~AllTerminal(Status(worker[w].rows))
  BY <1>1, <1>2, <1>4 DEF KeepsContract
<1>. QED  BY <1>3, <1>4

\* Steps that leave rows, outcome and the tasks' keys alone.
LEMMA StillKept ==
  ASSUME UNCHANGED <<row, settled>>, \A c, p : Created(c, p)' = Created(c, p)
  PROVE  KeepsContract
<1>1. ASSUME NEW c \in Children PROVE Phase'[c] = Phase[c]
  <2>1. PICK p : p = row[c].task
    OBVIOUS
  <2>2. Created(c, row[c].task)' = Created(c, p)'
    BY <2>1 DEF Created
  <2>. QED  BY <2>1, <2>2, PhaseAt
<1>. QED  BY <1>1, PhaseKept DEF KeepsContract

LEMMA TaskEndsKept ==
  ASSUME Inv, NEW t \in TaskIds, TaskEnds(t)
  PROVE  KeepsContract
<1>1. PICK s \in Ended : task' = [task EXCEPT ![t].state = s]
  BY DEF TaskEnds
<1>2. "sweep" \in Workers
  BY DEF Workers
<1>3. task \in [TaskIds -> TaskType]
  BY <1>2, HandlerFacts DEF Inv
<1>4. \A u \in TaskIds : task'[u].child = task[u].child /\ task'[u].prior = task[u].prior
  BY <1>1, <1>3 DEF TaskType
<1>. QED  BY <1>4, StillKept DEF TaskEnds, Created

LEMMA InitKept ==
  ASSUME Init
  PROVE  Contract!Init
<1>1. \A c \in Children : row[c].status \in Waiting /\ Created(c, row[c].task) = {}
  BY SeededType DEF Init, Created, NoTask
<1>2. \A c \in Children : Phase[c] = "waiting"
  BY <1>1 DEF Phase, Waiting, TerminalChildStatuses
<1>3. Phase = [c \in Children |-> Phase[c]]
  BY DEF Phase
<1>4. settled = FALSE
  BY DEF Init
<1>. HIDE DEF Phase
<1>. QED  BY <1>2, <1>3, <1>4 DEF Contract!Init

LEMMA NextKept ==
  ASSUME Undisturbed, Inv, [Next]_vars
  PROVE  KeepsContract
<1>1. ASSUME UNCHANGED <<row, settled, task>> PROVE KeepsContract
  BY <1>1, StillKept DEF Created
<1>2. CASE \E t \in TaskIds : TaskEnds(t)
  BY <1>2, TaskEndsKept
<1>3. CASE \E w \in Reconcilers, t \in TaskIds : Deliver(w, t)
  BY <1>1, <1>3 DEF Deliver
<1>4. CASE \E w \in Workers : Handle(w) \/ Fail(w)
  <2>1. PICK w \in Workers : Handle(w) \/ Fail(w)
    BY <1>4
  <2>2. CASE Write(w) \/ Claim(w) \/ Record(w) \/ RollBackClaim(w) \/ FailClaimTerminal(w)
    BY <2>2, ContractWrite, ContractClaim, ContractRelease, RowStepKept
  <2>3. CASE Create(w) \/ CreateFails(w)
    BY <2>3, CreateKept
  <2>4. CASE Settle(w)
    BY <2>4, SettleKept
  <2>5. CASE Load(w) \/ Reread(w) \/ Lookup(w) \/ ApplyTerminalCreateFailures(w) \/ Finish(w)
             \/ CreateRefused(w) \/ EndReleaseFails(w) \/ Crash(w)
    BY <1>1, <2>5 DEF Load, Reread, Lookup, ApplyTerminalCreateFailures, Finish,
       CreateRefused, EndReleaseFails, Crash
  <2>. QED  BY <2>1, <2>2, <2>3, <2>4, <2>5, NoReopening DEF Handle, Fail
<1>5. CASE Retry \/ \E w \in Reconcilers, c \in Children : Fix(w, c)
  BY <1>5, NoReopening
<1>6. CASE Advance
  <2>1. "sweep" \in Workers
    BY DEF Workers
  <2>. QED  BY <1>6, <2>1, ContractAdvance, RowStepKept
<1>7. CASE SweepLoad \/ SweepReread \/ SweepRelease
  BY <1>1, <1>7 DEF SweepLoad, SweepReread, SweepRelease
<1>8. CASE UNCHANGED vars
  BY <1>1, <1>8 DEF vars
<1>. QED  BY <1>2, <1>3, <1>4, <1>5, <1>6, <1>7, <1>8 DEF Next, Sweep

\* The orchestration implements its contract: a child is worked on only after all
\* its predecessors succeeded, is skipped only below one that failed, ends once, and
\* the outcome is reported only when every child has ended, whatever crashes, lost or
\* repeated events, throttled passes, failed creations or refusals come between.
THEOREM OrchestrationKeepsContract ==
  ASSUME Undisturbed
  PROVE  Spec => ContractKept
<1>1. Init => Contract!Init
  BY InitKept
<1>2. Inv /\ [Next]_vars => [Contract!Next]_(Contract!ocvars)
  BY NextKept DEF KeepsContract, Contract!ocvars
<1>. QED  BY <1>1, <1>2, WorkedInOrder, PTL DEF Spec, ContractKept, Contract!Spec
=============================================================================
