-------------------------- MODULE MCOrchestration --------------------------
EXTENDS Orchestration, TLC

CONSTANTS A, B, C, r1, r2

\* C needs both A and B: the smallest graph with two roots and a join.
Join == [c \in {A, B, C} |-> IF c = C THEN {A, B} ELSE {}]

\* B needs A: the smallest graph in which a failure skips something.
Chain == [c \in {A, B} |-> IF c = B THEN {A} ELSE {}]

\* The roots are alike, and so are the invocations of the reconciler.
Symmetry == Permutations({A, B}) \cup Permutations({r1, r2})
=============================================================================
