------------------------------ MODULE MCTrackers ------------------------------
(***************************************************************************)
(* Values for TLC of the parameters of Trackers.                           *)
(***************************************************************************)
EXTENDS Trackers

CONSTANTS
    p1, p2,     \* processors that resolve a grant
    a1,         \* an agent that does
    w1, w2,     \* writers of progress
    A, B, C, D, \* sub-issues of an epic
    e1, e2      \* comments that ask for a revision

\* Two processors, or one and an agent, which cannot save what it refreshes
Crews == [s \in {"grant", "shared-grant"} |-> IF s = "grant" THEN {p1, p2} ELSE {p1, a1}]

\* One revision on its way through a diamond, whose last sub-issue may only now
\* be released
Diamond == [n \in {A, B, C, D} |-> CASE n = A -> {} [] n = D -> {B, C} [] OTHER -> {A}]

\* Two revisions that meet on one branch, and a reconciler that dies
Chain == [n \in {A, B} |-> IF n = A THEN {} ELSE {A}]
=============================================================================
