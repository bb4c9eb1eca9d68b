---------------------------- MODULE TaskContract ----------------------------
(***************************************************************************)
(* What the platform promises a user about a set of tasks: a task waits,   *)
(* is worked on, and ends, in that order; an ended task keeps its outcome; *)
(* and no more than MaxActive tasks are worked on at once.                 *)
(***************************************************************************)
EXTENDS Integers, FiniteSets

CONSTANTS Tasks, Outcomes, MaxActive

VARIABLES
    phase,      \* "absent", "waiting", "active" or "ended", for each task
    outcome     \* of each ended task; "none" before

cvars == <<phase, outcome>>

Active == {t \in Tasks : phase[t] = "active"}

Init ==
    /\ phase = [t \in Tasks |-> "absent"]
    /\ outcome = [t \in Tasks |-> "none"]

Submit(t) ==
    /\ phase[t] = "absent"
    /\ phase' = [phase EXCEPT ![t] = "waiting"]
    /\ UNCHANGED outcome

Admit(t) ==
    /\ phase[t] = "waiting"
    /\ Cardinality(Active) < MaxActive
    /\ phase' = [phase EXCEPT ![t] = "active"]
    /\ UNCHANGED outcome

Finish(t) ==
    /\ phase[t] \in {"waiting", "active"}
    /\ phase' = [phase EXCEPT ![t] = "ended"]
    /\ \E o \in Outcomes : outcome' = [outcome EXCEPT ![t] = o]

Next == \E t \in Tasks : Submit(t) \/ Admit(t) \/ Finish(t)

Spec == Init /\ [][Next]_cvars
=============================================================================
