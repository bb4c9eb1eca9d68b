----------------------------- MODULE BudgetRollup -----------------------------
(***************************************************************************)
(* The monthly budgets.  A task is admitted while no budget of its user or *)
(* team is used up; the record of its end adds its cost to them, once, and *)
(* rings an alarm when one crosses 80 or 100 per cent.  The records of two *)
(* tasks are handled concurrently, those of one task in order, each again  *)
(* when its handler fails.                                                 *)
(***************************************************************************)
EXTENDS Integers, FiniteSets, FiniteSetsExt

CONSTANTS
    Tasks,
    Cost,           \* [Tasks -> Nat]
    TeamOf,         \* [Tasks -> a scope], the team that pays beside the user
    User,           \* the scope of the one user
    LimitOf,        \* monthly_limit_usd of each scope
    RetryAttempts,  \* of a stream record, before it goes to the dead-letter queue
    Rewrites,       \* how often the row of an ended task is written again
    Environment     \* subset of {"storeError", "crash"}

VARIABLES
    spend,      \* spend_usd of each scope
    marked,     \* tasks whose cost has been added
    alerted,    \* alerted_80_at and alerted_100_at: the alarms that are claimed
    rung,       \* the alarms that were emitted
    record      \* of each task: its step, attempt, rewrites, and alarms to ring

vars == <<spend, marked, alerted, rung, record>>

ScopesOf(t) == {User, TeamOf[t]}

Scopes == {User} \cup {TeamOf[t] : t \in Tasks}

Init ==
    /\ spend = [s \in Scopes |-> 0]
    /\ marked = {}
    /\ alerted = {}
    /\ rung = {}
    /\ record = [t \in Tasks |-> [at |-> "new", attempt |-> 0, rewrites |-> 0,
                                  due |-> {}, claim |-> {}]]

At(t, step) == record[t].at = step

GoTo(t, step) == record' = [record EXCEPT ![t].at = step]

Used(s, percent) == 100 * spend[s] >= percent * LimitOf[s]

-----------------------------------------------------------------------------
(***************************************************************************)
(* checkBudgetAdmission, for a caller whose teams are looked up            *)
(***************************************************************************)

\* Bug: a user whose team is used up is admitted.
AdmitWithoutTeam(t) ==
    /\ At(t, "team")
    /\ GoTo(t, "running")
    /\ UNCHANGED <<spend, marked, alerted, rung>>

AdmitUser(t) ==
    /\ At(t, "new")
    /\ GoTo(t, IF Used(User, 100) THEN "refused" ELSE "team")
    /\ UNCHANGED <<spend, marked, alerted, rung>>

AdmitTeam(t) ==
    /\ At(t, "team")
    /\ GoTo(t, IF Used(TeamOf[t], 100) THEN "refused" ELSE "running")
    /\ UNCHANGED <<spend, marked, alerted, rung>>

-----------------------------------------------------------------------------
(***************************************************************************)
(* rollupTaskCost                                                          *)
(***************************************************************************)

\* A task that has cost something ends, or its row is written again after it has.
TaskEnds(t) ==
    /\ Cost[t] > 0
    /\ \/ At(t, "running") /\ record' = [record EXCEPT ![t].at = "write", ![t].attempt = 1]
       \/ /\ At(t, "done") /\ record[t].rewrites < Rewrites
          /\ record' = [record EXCEPT ![t].at = "write", ![t].attempt = 1, ![t].rewrites = @ + 1]
    /\ UNCHANGED <<spend, marked, alerted, rung>>

\* The record is delivered again, or given up.
Fail(t) ==
    LET again == record[t].attempt <= RetryAttempts IN
    record' = [record EXCEPT ![t].at = IF again THEN "write" ELSE "dlq",
                             ![t].attempt = IF again THEN @ + 1 ELSE @,
                             ![t].due = {}, ![t].claim = {}]

Added(t) == [s \in Scopes |-> IF s \in ScopesOf(t) THEN spend[s] + Cost[t] ELSE spend[s]]

\* Bug: the cost is added whether the task is marked or not.
AddAgain(t) ==
    /\ At(t, "write")
    /\ spend' = Added(t) /\ marked' = marked \cup {t} /\ GoTo(t, "read")
    /\ UNCHANGED <<alerted, rung>>

\* Bug: a record whose task is marked is done.
SkipMarked(t) ==
    /\ At(t, "write")
    /\ \/ /\ t \notin marked
          /\ spend' = Added(t) /\ marked' = marked \cup {t} /\ GoTo(t, "read")
       \/ /\ t \in marked
          /\ GoTo(t, "done") /\ UNCHANGED <<spend, marked>>
       \/ /\ "storeError" \in Environment
          /\ Fail(t)
          /\ \/ UNCHANGED <<spend, marked>>
             \/ t \notin marked /\ spend' = Added(t) /\ marked' = marked \cup {t}
    /\ UNCHANGED <<alerted, rung>>

\* One transaction marks the task and adds its cost to its scopes; a task that
\* is marked already goes on to the alarms.
WriteRollup(t) ==
    /\ At(t, "write")
    /\ \/ /\ t \notin marked
          /\ spend' = Added(t) /\ marked' = marked \cup {t} /\ GoTo(t, "read")
       \/ /\ t \in marked
          /\ GoTo(t, "read") /\ UNCHANGED <<spend, marked>>
       \/ /\ "storeError" \in Environment
          /\ Fail(t)
          /\ \/ UNCHANGED <<spend, marked>>
             \/ t \notin marked /\ spend' = Added(t) /\ marked' = marked \cup {t}
    /\ UNCHANGED <<alerted, rung>>

LoadBudgetStates(t) ==
    /\ At(t, "read")
    /\ \/ record' = [record EXCEPT ![t].at = "alarms",
                         ![t].due = {a \in ScopesOf(t) \X {80, 100} : Used(a[1], a[2])} \ alerted]
       \/ "storeError" \in Environment /\ Fail(t)
    /\ UNCHANGED <<spend, marked, alerted, rung>>

\* An alarm is emitted first (their order does not matter here),
EmitAlert(t) ==
    /\ At(t, "alarms") /\ record[t].claim = {}
    /\ \/ \E a \in record[t].due :
            /\ rung' = rung \cup {a}
            /\ record' = [record EXCEPT ![t].claim = {a}]
       \/ record[t].due = {} /\ GoTo(t, "done") /\ rung' = rung
    /\ UNCHANGED <<spend, marked, alerted>>

\* and claimed then, so that later records do not repeat it.
ClaimAlert(t) ==
    /\ At(t, "alarms") /\ record[t].claim # {}
    /\ \/ /\ alerted' = alerted \cup record[t].claim
          /\ record' = [record EXCEPT ![t].due = @ \ record[t].claim, ![t].claim = {}]
       \/ "storeError" \in Environment /\ Fail(t) /\ alerted' \in {alerted, alerted \cup record[t].claim}
    /\ UNCHANGED <<spend, marked, rung>>

Crash(t) ==
    /\ "crash" \in Environment
    /\ record[t].at \in {"write", "read", "alarms"}
    /\ Fail(t)
    /\ UNCHANGED <<spend, marked, alerted, rung>>

Next ==
    \E t \in Tasks :
        \/ AdmitUser(t) \/ AdmitTeam(t) \/ TaskEnds(t) \/ WriteRollup(t)
        \/ LoadBudgetStates(t) \/ EmitAlert(t) \/ ClaimAlert(t) \/ Crash(t)

Spec == Init /\ [][Next]_vars

-----------------------------------------------------------------------------

\* A cost is counted once in each scope, however often its record is handled
\* and wherever the handler fails.
CountedOnce ==
    \A s \in Scopes :
        spend[s] = MapThenSumSet(LAMBDA t : Cost[t], {t \in marked : s \in ScopesOf(t)})

\* When the records of a scope have been handled, though one of them only after
\* failures, every alarm the scope has reached was rung.
AlarmNotLost ==
    \A s \in Scopes, percent \in {80, 100} :
        (\A t \in Tasks : s \in ScopesOf(t) =>
            ~(record[t].at \in {"write", "read", "alarms", "dlq"})) /\ Used(s, percent)
            => <<s, percent>> \in rung

\* No budget is found unspent once the alarm of its limit has rung.
AdmittedBeforeAlarm ==
    \A t \in Tasks :
        /\ At(t, "new") /\ record'[t].at = "team" => <<User, 100>> \notin rung
        /\ At(t, "team") /\ record'[t].at = "running" => <<TeamOf[t], 100>> \notin rung

NoneAdmittedAfterAlarm == [][AdmittedBeforeAlarm]_vars

\* An alarm that is reached rings, and then nobody is admitted by its budget.
AlarmsHonoured == []AlarmNotLost /\ NoneAdmittedAfterAlarm
=============================================================================
