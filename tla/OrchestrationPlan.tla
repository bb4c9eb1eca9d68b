------------------------- MODULE OrchestrationPlan -------------------------
(***************************************************************************)
(* The graph of an epic's sub-issues, and the pure functions that decide   *)
(* what a child's end, a fix of a failed child, or a retry of the epic     *)
(* change.  A view is the status of every child as some handler read it; a *)
(* plan is the set of writes the handler will then make, one child each.   *)
(***************************************************************************)
EXTENDS FiniteSets

CONSTANTS
    Children,       \* the sub-issues of one epic
    DependsOn       \* the predecessors of each child

\* validateDag refuses to seed a graph with dangling or cyclic dependencies:
\* in every non-empty set some child has no predecessor in the set.
ASSUME GraphAssumption ==
    /\ IsFiniteSet(Children)
    /\ DependsOn \in [Children -> SUBSET Children]
    /\ \A S \in (SUBSET Children) \ {{}} : \E c \in S : DependsOn[c] \cap S = {}

ChildStatuses ==
    {"blocked", "ready", "releasing", "released", "succeeded", "failed", "skipped"}

TerminalChildStatuses == {"succeeded", "failed", "skipped"}

Waiting == {"blocked", "ready"}

AllTerminal(view) == \A c \in Children : view[c] \in TerminalChildStatuses

AllSucceeded(view, c) == \A d \in DependsOn[c] : view[d] = "succeeded"

\* The direct and indirect dependents of each child: the least set that
\* holds every child with a predecessor that is the child or in the set.
Dependents ==
    [a \in Children |->
        {c \in Children : \A S \in SUBSET Children :
            (\A d \in Children : DependsOn[d] \cap (S \cup {a}) # {} => d \in S) => c \in S}]

SetTo(S, s) == {[child |-> c, status |-> s] : c \in S}

\* computeReconcilePlan, without the rows it lists for release: no handler
\* writes or releases those, each works from a fresh read instead.
SkipPlan(view, c) == SetTo({d \in Dependents[c] : view[d] \in Waiting}, "skipped")

ReconcilePlan(view, c, succeeded) ==
    IF succeeded THEN SetTo({c}, "succeeded")
                 ELSE SetTo({c}, "failed") \cup SkipPlan(view, c)

\* computeRecoveryPlan: the fixed node, and its subtree waiting again.
RecoveryPlan(view, c) ==
    IF view[c] # "failed" THEN {}
    ELSE SetTo({c}, "succeeded")
         \cup SetTo({d \in Dependents[c] : view[d] = "skipped"}, "blocked")

\* computeEpicRetryPlan: every failed and skipped child waits again.
RetryPlan(view) ==
    LET failed == {c \in Children : view[c] = "failed"}
        first  == {c \in failed : AllSucceeded(view, c)}
    IN SetTo(first, "ready") \cup SetTo(failed \ first, "blocked")
       \cup SetTo({c \in Children : view[c] = "skipped"}, "blocked")

After(view, plan) ==
    [c \in Children |->
        IF \E w \in plan : w.child = c THEN (CHOOSE w \in plan : w.child = c).status
                                       ELSE view[c]]

\* The children a recovery and a retry release: those their plan leaves
\* waiting in the given status although all their predecessors succeeded.
ToRelease(view, plan, s) ==
    {c \in Children : After(view, plan)[c] = s /\ AllSucceeded(After(view, plan), c)}

\* Bug: a child is released once every predecessor has ended, however it did.
ReleasableOnceEnded(view) ==
    {c \in Children : view[c] \in Waiting /\ \A d \in DependsOn[c] :
                                                view[d] \in TerminalChildStatuses}

\* What a reconcile pass and the sweep find releasable in a fresh read.
Releasable(view) == {c \in Children : view[c] \in Waiting /\ AllSucceeded(view, c)}

\* The sweep's skip cascade: every waiting child below a dead one.
DeadPlan(view) ==
    LET dead == {c \in Children : view[c] \in {"failed", "skipped"}}
        step(S) == {c \in Children :
            view[c] \in Waiting /\ DependsOn[c] \cap (dead \cup S) # {}}
    IN SetTo({c \in Children :
           \A S \in SUBSET Children : step(S) \subseteq S => c \in S}, "skipped")
=============================================================================
