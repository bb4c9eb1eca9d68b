------------------------------- MODULE Restack -------------------------------
(***************************************************************************)
(* An epic's pull requests are stacked: the branch of a sub-issue starts   *)
(* from those of its predecessors.  When the user has one revised, the     *)
(* reconciler has its direct dependents merged with it again, and the end  *)
(* of each of these tasks does the same one hop further.  Meanwhile other  *)
(* tasks push to the same branches, and the last sub-issues may only now   *)
(* be released.  A branch is the set of the revisions that are in it.      *)
(***************************************************************************)
EXTENDS Integers, Sequences

CONSTANTS
    Nodes, DependsOn,   \* the sub-issues, and the predecessors of each
    Late,               \* those that may not have been released yet
    Edits,              \* comments that ask for a revision
    RetryAttempts,      \* redeliveries of a stream record
    Environment         \* subset of {"failed", "unmerged", "rejected", "storeError", "crash"}

VARIABLES
    row,        \* child_status of each sub-issue
    head,       \* its branch on GitHub
    opened,     \* sub-issues whose pull request is on their task's record
    task,       \* the tasks by idempotency key, with what their end has caused
    settled,    \* has the epic's meta row a rollup_posted_at?
    missed      \* sub-issues that may lack a revision for a known reason

vars == <<row, head, opened, task, settled, missed>>

\* What the parameters are.
Stacked == DependsOn \in [Nodes -> SUBSET Nodes] /\ Edits \cap Nodes = {}

Dependents(n) == {d \in Nodes : n \in DependsOn[d]}

\* What was not released yet has no dependent that was.
Init ==
    /\ \E late \in {S \in SUBSET Late : \A n \in S : Dependents(n) \subseteq S} :
        /\ row = [n \in Nodes |-> IF n \in late THEN "blocked" ELSE "succeeded"]
        /\ opened = Nodes \ late
        /\ settled = (late = {})
    /\ head = [n \in Nodes |-> {}]
    /\ task = << >>
    /\ missed = {}

May(fault) == fault \in Environment

AllTerminal == \A n \in Nodes : row[n] = "succeeded"

At(t, phase) == task[t].phase = phase

Queued(n, branches) ==
    [node |-> n, merge |-> branches, phase |-> "queued", base |-> {}, has |-> {},
     succeeded |-> FALSE, todo |-> {}, created |-> FALSE, retries |-> 0]

\* Only that there was a task is remembered of one that has been handled.
Handled(t) == [task EXCEPT ![t] = [Queued(@.node, {}) EXCEPT !.phase = "handled"]]

FirstKey(n) == <<n>>

EditKey(e) == <<e>>

\* The tasks and one more
Plus(tasks, key, record) ==
    [k \in DOMAIN tasks \cup {key} |-> IF k = key THEN record ELSE tasks[k]]

\* The branch of a sub-issue that runs for the first time was cut already.
CutBefore(n) == FirstKey(n) \in DOMAIN task /\ ~At(FirstKey(n), "queued")

-----------------------------------------------------------------------------
(***************************************************************************)
(* What starts a task                                                      *)
(***************************************************************************)

\* iterateOrchestrationChild: there must be a pull request to revise.
Comment(e, n) ==
    /\ n \in opened
    /\ EditKey(e) \notin DOMAIN task
    /\ task' = Plus(task, EditKey(e), Queued(n, {}))
    /\ UNCHANGED <<row, head, opened, settled, missed>>

\* releaseChild: claim the row, create the task, record its branch.
Claim(n) ==
    /\ row[n] = "blocked"
    /\ \A p \in DependsOn[n] : row[p] = "succeeded"
    /\ row' = [row EXCEPT ![n] = "releasing"]
    /\ UNCHANGED <<head, opened, task, settled, missed>>

Create(n) ==
    /\ row[n] = "releasing" /\ FirstKey(n) \notin DOMAIN task
    /\ task' = Plus(task, FirstKey(n), Queued(n, DependsOn[n]))
    /\ UNCHANGED <<row, head, opened, settled, missed>>

Record(n) ==
    /\ row[n] = "releasing" /\ FirstKey(n) \in DOMAIN task
    /\ row' = [row EXCEPT ![n] = "released"]
    /\ UNCHANGED <<head, opened, task, settled, missed>>

-----------------------------------------------------------------------------
(***************************************************************************)
(* A task on its branch                                                    *)
(***************************************************************************)

\* setup_repo: check the branch out and merge the others.  One that cannot be
\* fetched is skipped; one that conflicts is left to the agent.
SetUp(t) ==
    /\ At(t, "queued")
    /\ \E skipped \in SUBSET task[t].merge :
        LET n    == task[t].node
            asks == {e \in Edits : EditKey(e) = t}
            has  == asks \cup head[n] \cup UNION {head[p] : p \in task[t].merge \ skipped}
        IN /\ skipped # {} => May("unmerged")
           /\ task' = [task EXCEPT ![t].phase = "running", ![t].base = head[n],
                                   ![t].has = has]
           /\ missed' = IF skipped = {} THEN missed ELSE missed \cup {n}
    /\ UNCHANGED <<row, head, opened, settled>>

\* ensure_pushed.  GitHub rejects a push to a branch that has moved on; then
\* the agent pulls and pushes again, or a note on the pull request says so.
Push(t) ==
    LET n == task[t].node
    IN IF head[n] = task[t].base \/ task[t].has = task[t].base
       THEN /\ head' = [head EXCEPT ![n] = @ \cup task[t].has]
            /\ UNCHANGED missed
       ELSE \/ /\ head' = [head EXCEPT ![n] = @ \cup task[t].has]
               /\ UNCHANGED missed
            \/ /\ May("rejected")
               /\ missed' = missed \cup {n}
               /\ UNCHANGED head

Ended(t, succeeded) ==
    [task EXCEPT ![t] = [Queued(@.node, {}) EXCEPT !.phase = "ended", !.succeeded = succeeded]]

\* The outcome does not depend on the push.
Succeed(t) ==
    /\ At(t, "running")
    /\ Push(t)
    /\ task' = Ended(t, TRUE)
    /\ opened' = IF t = FirstKey(task[t].node) THEN opened \cup {task[t].node} ELSE opened
    /\ UNCHANGED <<row, settled>>

\* What a failed task has pushed stays, but no dependent is told of it.
Fail(t) ==
    /\ At(t, "running") /\ May("failed")
    /\ t # FirstKey(task[t].node)
    /\ task' = Ended(t, FALSE)
    /\ head' \in {head, [head EXCEPT ![task[t].node] = @ \cup task[t].has]}
    /\ missed' = missed \cup {task[t].node} \cup Dependents(task[t].node)
    /\ UNCHANGED <<row, opened, settled>>

-----------------------------------------------------------------------------
(***************************************************************************)
(* The reconciler, one invocation per end of a task                        *)
(***************************************************************************)

\* reconcileTerminalChild, of which Orchestration is the model.
FirstEnds(n) ==
    /\ FirstKey(n) \in DOMAIN task /\ At(FirstKey(n), "ended")
    /\ row[n] = "released"
    /\ row' = [row EXCEPT ![n] = "succeeded"]
    /\ settled' = (settled \/ (\A p \in Nodes \ {n} : row[p] = "succeeded"))
    /\ task' = Handled(FirstKey(n))
    /\ UNCHANGED <<head, opened, missed>>

\* planDirectRestack: the direct dependents whose branch is on their row.  One
\* that is being released has none yet, although its task may have cut it.
DirectRestack(n) == {d \in Dependents(n) : row[d] \in {"released", "succeeded"}}

MergeBranches(d) == {p \in DependsOn[d] : row[p] \in {"released", "succeeded"}}

\* A task without a dependent to merge again refreshes the panel, which settles
\* the epic if nothing else is at work in its rows.
CascadeRestack(t) ==
    /\ At(t, "ended") /\ t # FirstKey(task[t].node)
    /\ LET n     == task[t].node
           steps == IF task[t].succeeded THEN DirectRestack(n) ELSE {}
           blind == {d \in Dependents(n) : row[d] = "releasing" /\ CutBefore(d)}
       IN /\ task' = IF steps = {} THEN Handled(t)
                     ELSE [task EXCEPT ![t].phase = "spawning", ![t].todo = steps,
                                       ![t].created = FALSE]
          /\ settled' = (settled \/ (task[t].succeeded /\ steps = {} /\ AllTerminal))
          /\ missed' = missed \cup blind
    /\ UNCHANGED <<row, head, opened>>

\* Bug: the key names the dependent alone.
KeyOfDependent(d, t) == <<d, d>>

\* The end of one task has a dependent merged once.
RestackKey(d, t) == <<d>> \o t

\* spawnRestackTask: without a pull request there is nothing to push to, and
\* an error is only logged.
SpawnRestack(t, d) ==
    /\ At(t, "spawning") /\ d \in task[t].todo
    /\ LET key == RestackKey(d, t)
           spawned == [task EXCEPT ![t].todo = @ \ {d}]
       IN \/ /\ d \in opened /\ key \notin DOMAIN task
             /\ task' = Plus([spawned EXCEPT ![t].created = TRUE],
                            key, Queued(d, MergeBranches(d)))
             /\ UNCHANGED missed
          \/ /\ d \in opened /\ key \in DOMAIN task
             /\ task' = spawned
             /\ UNCHANGED missed
          \/ /\ d \notin opened
             /\ task' = spawned
             /\ missed' = IF CutBefore(d) THEN missed \cup {d} ELSE missed
          \/ /\ May("storeError")
             /\ task' = spawned
             /\ missed' = missed \cup {d}
    /\ UNCHANGED <<row, head, opened, settled>>

\* A delivery that created a task releases the rollup claim.
ReopenEpic(t) ==
    /\ At(t, "spawning") /\ task[t].todo = {}
    /\ settled' = (settled /\ ~task[t].created)
    /\ task' = Handled(t)
    /\ UNCHANGED <<row, head, opened, missed>>

\* The record is delivered again, and given up in the end.
Crash(t) ==
    /\ May("crash") /\ At(t, "spawning")
    /\ IF task[t].retries < RetryAttempts
       THEN /\ task' = [task EXCEPT ![t].phase = "ended", ![t].retries = @ + 1]
            /\ UNCHANGED missed
       ELSE /\ task' = Handled(t)
            /\ missed' = missed \cup task[t].todo
    /\ UNCHANGED <<row, head, opened, settled>>

\* The scheduled sweep looks at rows alone.
Sweep ==
    /\ AllTerminal
    /\ settled' = TRUE
    /\ UNCHANGED <<row, head, opened, task, missed>>

-----------------------------------------------------------------------------

Handle(t) ==
    \/ SetUp(t) \/ Succeed(t) \/ Fail(t) \/ CascadeRestack(t) \/ ReopenEpic(t)
    \/ \E d \in Nodes : SpawnRestack(t, d)

Scheduled ==
    \/ \E n \in Nodes : Claim(n) \/ Create(n) \/ Record(n) \/ FirstEnds(n)
    \/ \E t \in DOMAIN task : Handle(t)
    \/ Sweep

Next ==
    \/ Scheduled
    \/ \E e \in Edits, n \in Nodes : Comment(e, n)
    \/ \E t \in DOMAIN task : Crash(t)

Spec == Init /\ [][Next]_vars /\ WF_vars(Scheduled)

-----------------------------------------------------------------------------
(***************************************************************************)
(* Properties                                                              *)
(***************************************************************************)

Stale(d) == d \in opened /\ \E p \in DependsOn[d] : ~(head[p] \subseteq head[d])

\* Once every task has ended and been handled, a branch has all that its
\* predecessors' branches have, unless a restack of it failed, was refused or
\* rejected, or came while its first task was at work.
StackIsCurrent ==
    (\A t \in DOMAIN task : At(t, "handled")) =>
        \A d \in Nodes : Stale(d) => d \in missed

\* The parent issue has the final word on the epic.
Settled == settled
=============================================================================
