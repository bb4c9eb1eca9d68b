------------------------------ MODULE MCTaskServices ------------------------------
(***************************************************************************)
(* Values for TLC of the parameters of TaskServices.                       *)
(***************************************************************************)
EXTENDS TaskServices

CONSTANTS
    ra, rb, rd, key,                \* requests, their key
    c1, c2,                         \* calls of confirm-uploads
    t1, t2, t3, user, teamA, teamB, \* tasks, and who pays for them
    n1, n2, spin                    \* nudges, and what the stuck guard advises on

\* One key for all requests: one with inline attachments, one with files to upload
\* later, one of another user
KeyOfRequest == [r \in {ra, rb, rd} |-> key]
UserOfRequest == [r \in {ra, rb, rd} |-> IF r = rd THEN 2 ELSE 1]
InlineOfRequest == [r \in {ra, rb, rd} |-> IF r = ra THEN 2 ELSE 0]

\* Two attachments, one of which the user uploads again and may make too large
ContentsOfTwo == <<{"clean", "malformed"}, {"clean", "large", "blocked"}>>

\* A task that uses up the budget of its team, one that then uses up the user's,
\* and one that costs nothing
CostOfTask == [t \in {t1, t2, t3} |-> CASE t = t1 -> 4 [] t = t2 -> 1 [] OTHER -> 0]
TeamOfTask == [t \in {t1, t2, t3} |-> IF t = t2 THEN teamB ELSE teamA]
LimitOfScope == [s \in {user, teamA, teamB} |-> IF s = teamA THEN 4 ELSE 5]

\* A task that opens a pull request; its last event is one too many for an
\* invocation that has handled two before
EventsOfTask == <<"task_created", "pr_created", "task_completed">>

\* Each kind of run, for a Linear issue or not, traced or not, on a green branch or
\* a red one; one call fails.
AgentRun(w, linear, traced, green) ==
    [workflow |-> w, linear |-> linear, traced |-> traced, green |-> green]
KindsOfRun ==
    {AgentRun("new-task", TRUE, FALSE, TRUE), AgentRun("new-task", FALSE, TRUE, FALSE),
     AgentRun("pr-iteration", FALSE, FALSE, FALSE),
     AgentRun("pr-iteration", FALSE, TRUE, TRUE),
     AgentRun("pr-review", FALSE, FALSE, TRUE),
     AgentRun("web-research", FALSE, TRUE, TRUE)}
=============================================================================
