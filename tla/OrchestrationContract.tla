----------------------- MODULE OrchestrationContract -----------------------
(***************************************************************************)
(* What the platform promises about the sub-issues of an epic.  A child is *)
(* worked on only after all its predecessors succeeded, once per attempt;  *)
(* it is skipped only when one above it failed; what succeeded stays so;   *)
(* the epic is reported complete only when every child has ended; and only *)
(* the user reopens what has ended.                                        *)
(***************************************************************************)
EXTENDS OrchestrationPlan

VARIABLES
    phase,      \* "waiting", "working", "succeeded", "failed" or "skipped"
    settled     \* is the report of the outcome to the parent issue claimed?

ocvars == <<phase, settled>>

Init ==
    /\ phase = [c \in Children |-> "waiting"]
    /\ settled = FALSE

Start(c) ==
    /\ phase[c] = "waiting"
    /\ AllSucceeded(phase, c)
    /\ phase' = [phase EXCEPT ![c] = "working"]
    /\ UNCHANGED settled

End(c) ==
    /\ phase[c] = "working"
    /\ \E o \in {"succeeded", "failed"} : phase' = [phase EXCEPT ![c] = o]
    /\ UNCHANGED settled

\* Its creation is refused for good: it ends without having been worked on.
Refuse(c) ==
    /\ phase[c] = "waiting"
    /\ AllSucceeded(phase, c)
    /\ phase' = [phase EXCEPT ![c] = "failed"]
    /\ UNCHANGED settled

Skip(c) ==
    /\ phase[c] = "waiting"
    /\ \E a \in Children : c \in Dependents[a] /\ phase[a] \in {"failed", "skipped"}
    /\ phase' = [phase EXCEPT ![c] = "skipped"]
    /\ UNCHANGED settled

\* A retry by the user.
Reopen(c) ==
    /\ phase[c] \in {"failed", "skipped"}
    /\ phase' = [phase EXCEPT ![c] = "waiting"]
    /\ UNCHANGED settled

Settle ==
    /\ AllTerminal(phase)
    /\ settled' = TRUE
    /\ UNCHANGED phase

Unsettle ==
    /\ settled' = FALSE
    /\ UNCHANGED phase

Next ==
    \/ Settle \/ Unsettle
    \/ \E c \in Children : Start(c) \/ End(c) \/ Refuse(c) \/ Skip(c) \/ Reopen(c)

Spec == Init /\ [][Next]_ocvars
=============================================================================
