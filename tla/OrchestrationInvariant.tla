----------------------- MODULE OrchestrationInvariant -----------------------
(***************************************************************************)
(* Why a child has one task at a time, and why the orchestration keeps its *)
(* contract: the inductive invariants behind OneTaskAtATime, for any       *)
(* number of crashes, lost events and failed creations, and behind         *)
(* ContractKept and NothingStranded, where nobody reopens the epic.        *)
(***************************************************************************)
EXTENDS Orchestration

\* The sweep does not start during a release, the user reopens an epic only
\* when it is at rest, and at most once if an event may come again at any time.
Orderly ==
    /\ {"hasty", "overlap"} \cap Environment = {}
    /\ "redeliver" \in Environment => MaxReopens <= 1

-----------------------------------------------------------------------------
(***************************************************************************)
(* What each handler is about                                              *)
(***************************************************************************)

\* The handler has claimed the row of the child and has not ended its release.
Holding == {"lookup", "create", "record", "rollback", "refuse"}

Holds(w, c) == worker[w].pc \in Holding /\ worker[w].child = c

\* The handler is going to write the child's row because the user reopened it.
Reopening(w, c) ==
    /\ worker[w].pc = "write" /\ worker[w].job \in {"retry", "fix"}
    /\ \E wr \in worker[w].writes : wr.child = c

\* The sweep is going to give back the child's row as stuck.
Unsticking(c) ==
    /\ At("sweep", "reset")
    /\ \E wr \in worker["sweep"].writes : wr.child = c

\* The handler is going to write the end of its event's task to its child's row.
Concluding(w) ==
    /\ worker[w].job = "reconcile"
    /\ \/ At(w, "load")
       \/ At(w, "write") /\ \E wr \in worker[w].writes : wr.child = worker[w].child

\* Rows that nobody can claim: a task of theirs is at work or they have ended.
Taken == {"released"} \cup TerminalChildStatuses

Over(t) == t = Nil \/ task[t].state \in Ended

\* The task's event has been handled and no handler is at it.
Quiet(t) == t = Nil \/ (t \in delivered /\ \A v \in Workers : worker[v].event # t)

\* An old event may come at any time, to a child that was reopened since.
Loose == "redeliver" \in Environment /\ reopens > 0

-----------------------------------------------------------------------------
(***************************************************************************)
(* The parts of the invariant                                              *)
(***************************************************************************)

\* Where a handler is, given its job and what it holds.
ControlOf(w) ==
    /\ At(w, "idle") => worker[w] = Idle
    /\ worker[w].job = "sweep" => w = "sweep"
    /\ w = "sweep" => worker[w].job \in {"none", "sweep"}
    /\ worker[w].pc \in {"load", "write"} /\ worker[w].job = "reconcile" =>
         worker[w].event \in TaskIds /\ worker[w].child \in Children
    /\ At(w, "load") => worker[w].job = "reconcile"
    /\ At(w, "write") => worker[w].job \in {"reconcile", "retry", "fix"}
    /\ At(w, "reset") => worker[w].job = "sweep"
    /\ At(w, "reread") => worker[w].job \in {"retry", "fix"}
    /\ worker[w].pc \in Holding => worker[w].child \in Children
    /\ At(w, "record") => worker[w].made \in TaskIds
    /\ worker[w].job \in {"retry", "fix"} => reopens > 0
    /\ worker[w].event # Nil =>
         worker[w].event \in TaskIds /\ task[worker[w].event].state \in Ended

\* What a handler has yet to write: its event's end and skips, what is reopened,
\* or what was stuck; each child once.
WritingOf(w) ==
    /\ worker[w].pc \notin {"write", "reset", "cascade"} => worker[w].writes = {}
    /\ \A wr \in worker[w].writes :
         /\ At(w, "reset") => wr.status = "ready"
         /\ At(w, "cascade") => wr.status = "skipped"
         /\ At(w, "write") /\ worker[w].job = "reconcile" =>
              \/ wr.child # worker[w].child /\ wr.status = "skipped"
              \/ wr.child = worker[w].child /\ wr.status = task[worker[w].event].state
         /\ At(w, "write") /\ worker[w].job \in {"retry", "fix"} =>
              wr.status \in {"ready", "blocked", "succeeded"}
    /\ \A x, y \in worker[w].writes : x.child = y.child => x = y

\* What a handler has read as released has a task, and what the sweep may advance
\* was read as released.
ViewOf(w) ==
    /\ \A c \in Children :
         worker[w].rows[c].status = "released" => worker[w].rows[c].task \in TaskIds
    /\ At(w, "reset") =>
         \A c \in worker[w].queue : worker[w].rows[c].status = "released"

ReleasedForTask ==
    \A c \in Children : row[c].status = "released" => row[c].task \in TaskIds

\* Inductive in any surroundings.
HandlersInv ==
    /\ TypeOK /\ ReleasedForTask
    /\ \A w \in Workers : ControlOf(w) /\ WritingOf(w) /\ ViewOf(w)

\* Every task was created for a child; one key creates one task, and only after
\* the task before has ended.
TasksTrue ==
    \A t \in TaskIds :
        /\ task[t].state # "none" => task[t].child \in Children
        /\ task[t].state = "none" => task[t] = NoTask
        /\ Over(task[t].prior)
        /\ \A u \in TaskIds :
             /\ task[t].child \in Children
             /\ task[t].child = task[u].child /\ task[t].prior = task[u].prior
             => t = u

\* One handler at a time reopens.
OneReopener ==
    \A v, w \in Workers :
        worker[v].job \in {"retry", "fix"} /\ worker[w].job \in {"retry", "fix"} => v = w

\* A row that is not released has the end of its last task behind it, unless an
\* old event came late.
RowTrue(c) ==
    /\ row[c].status # "released" =>
         Over(row[c].task) \/ (Loose /\ row[c].status \in TerminalChildStatuses)
    /\ row[c].status \in Waiting \cup {"releasing"} =>
         /\ reopens = 0 => row[c].task = Nil
         /\ "redeliver" \notin Environment => Quiet(row[c].task)

\* A task at work is the one its child's row names, or the next.
KnownAt(c) ==
    \A t \in TaskIds : task[t].state = "running" /\ task[t].child = c =>
        t = row[c].task \/ task[t].prior = row[c].task

\* The claim of a row is a lock: one handler holds it, nobody claims the row
\* meanwhile, and what the holder creates is the next task of the row.
LockedAt(c) ==
    \A w \in Workers : Holds(w, c) =>
        /\ \A v \in Workers : Holds(v, c) => v = w
        /\ row[c].status \in {"releasing"} \cup TerminalChildStatuses
        /\ worker[w].rows[c].task = row[c].task
        /\ Over(row[c].task)
        /\ worker[w].pc \in {"create", "refuse"} => Created(c, row[c].task) = {}
        /\ At(w, "record") => worker[w].made \in Created(c, row[c].task)

\* What is reopened has ended, and nobody holds it.
ReopenedAt(c) ==
    \A w \in Workers : Reopening(w, c) =>
        /\ row[c].status \in TerminalChildStatuses
        /\ Over(row[c].task)
        /\ "redeliver" \notin Environment => Quiet(row[c].task)
        /\ \A v \in Workers : ~Holds(v, c)

\* The sweep gives back only rows nobody holds, and advances only rows whose task
\* it has read.
SweptAt(c) ==
    /\ Unsticking(c) =>
         /\ row[c].status \in {"releasing"} \cup TerminalChildStatuses
         /\ \A v \in Workers : ~Holds(v, c) /\ ~Reopening(v, c)
    /\ At("sweep", "reset") /\ c \in worker["sweep"].queue =>
         /\ row[c].status \in Taken
         /\ worker["sweep"].rows[c].task = row[c].task
         /\ row[c].task \in TaskIds
         /\ \A v \in Workers : ~Reopening(v, c)

\* The handler may still claim the row, or the sweep may come to.
Wants(w, c) ==
    \/ worker[w].pc \in {"release"} \cup Holding /\ c \in worker[w].queue
    \/ w = "sweep" /\ At(w, "cascade") /\ worker[w].rows[c].status \in Waiting

\* A row that a handler may still claim is as the handler has read it.
FreshAt(c) ==
    \A w \in Workers : Wants(w, c) =>
        /\ worker[w].rows[c].task = row[c].task \/ row[c].status \in Taken
        /\ \A v \in Workers : ~Reopening(v, c)

\* An event is that of the task of its handler's child.
EventsAt(c) ==
    \A w \in Workers : Concluding(w) /\ worker[w].child = c =>
        \/ Loose
        \/ row[c].task = worker[w].event /\ row[c].status \in Taken

ChildInv(c) ==
    /\ RowTrue(c) /\ KnownAt(c)
    /\ LockedAt(c) /\ ReopenedAt(c) /\ SweptAt(c) /\ FreshAt(c) /\ EventsAt(c)

\* Inductive, with HandlersInv, where Orderly.
LockInv == TasksTrue /\ OneReopener /\ \A c \in Children : ChildInv(c)

-----------------------------------------------------------------------------
(***************************************************************************)
(* Nothing stranded                                                        *)
(***************************************************************************)

\* The child waits, and could be released.
Awaits(c) == row[c].status \in Waiting /\ AllSucceeded(Status(row), c)

\* The handler reads the rows afresh before it releases any, or the child is among
\* those that it is going to claim.
WillLook(w, c) ==
    \/ worker[w].job = "reconcile" /\ worker[w].pc \in {"load", "write"}
    \/ w = "sweep" /\ At(w, "reset")
    \/ w = "sweep" /\ At(w, "cascade") /\ c \in Releasable(Status(worker[w].rows))
    \/ worker[w].pc \in {"release"} \cup Holding /\ c \in worker[w].queue

\* Inductive, with HandlersInv, where nobody reopens the epic.
AttendedInv ==
    faults = 0 =>
        /\ \A c \in Children : Awaits(c) => \E w \in Workers : WillLook(w, c)
        /\ \A w \in Workers : ~At(w, "rollback")

-----------------------------------------------------------------------------
(***************************************************************************)
(* The contract                                                            *)
(***************************************************************************)

\* Nobody reopens the epic, and of two faults in a row none strikes the record
\* of a refusal.
Undisturbed ==
    /\ Orderly
    /\ MaxReopens = 0
    /\ {"refused", "outage"} \subseteq Environment => MaxFaults <= 1

Succeeded(c) == AllSucceeded(Status(row), c)

Dead == {c \in Children : row[c].status \in {"failed", "skipped"}}

\* A child that is or was worked on has only predecessors that succeeded.
StartedInOrder(c) ==
    /\ row[c].status \in {"releasing", "released"} \cup Ended => Succeeded(c)
    /\ Created(c, Nil) # {} => Succeeded(c)

\* A row ended the way its task did, if it had one.
EndTrue(c) ==
    /\ row[c].status = "succeeded" => row[c].task # Nil
    /\ row[c].status \in Ended /\ row[c].task # Nil =>
         row[c].status = task[row[c].task].state
    /\ row[c].status = "skipped" => row[c].task = Nil

\* A handler claims only what may be worked on, holds rows that are being
\* released, and has recorded a refusal before it makes anything of it.
WorksInOrder(w, c) ==
    /\ worker[w].pc \in {"release"} \cup Holding /\ c \in worker[w].queue => Succeeded(c)
    /\ Holds(w, c) => row[c].status = "releasing"
    /\ c \in worker[w].refused => row[c].status = "failed"

\* What a handler has read as ended has ended, or is what it is about to skip.
SeesTruly(w, c) ==
    LET seen == worker[w].rows[c].status IN
    /\ seen \in Ended => row[c].status = seen
    /\ seen = "skipped" =>
         \/ row[c].status = "skipped"
         \/ At(w, "cascade") /\ \E wr \in worker[w].writes : wr.child = c

\* What a handler is about to skip is below a child that is dead, or that it
\* will record as failed before.
SkipsJustified(w) ==
    \A wr \in worker[w].writes : wr.status = "skipped" =>
        \E a \in Children :
            /\ wr.child \in Dependents[a]
            /\ \/ a \in Dead
               \/ /\ At(w, "write") /\ a = worker[w].child
                  /\ [child |-> a, status |-> "failed"] \in worker[w].writes

HandlerInOrder(w) ==
    /\ \A c \in Children : WorksInOrder(w, c) /\ SeesTruly(w, c)
    /\ SkipsJustified(w)
    /\ At(w, "refuse") => faults > 0 /\ "refused" \in Environment

\* Inductive, with the others, where Undisturbed.
ContractInv ==
    /\ \A c \in Children : StartedInOrder(c) /\ EndTrue(c)
    /\ \A w \in Workers : HandlerInOrder(w)
=============================================================================
