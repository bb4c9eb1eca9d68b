--------------------------- MODULE MCTaskLifecycle ---------------------------
(***************************************************************************)
(* Values for model-checking TaskLifecycle.                                *)
(***************************************************************************)
EXTENDS TaskLifecycleInvariant, TLC

OneTask == 1 .. 1

TwoTasks == 1 .. 2

ThreeTasks == 1 .. 3

\* Surroundings under which the counter must cover the slots that are held.
Benign ==
    {"cancel", "agentDies", "lostInvoke", "ambiguousInvoke", "pickupDies", "storeError"}

\* Every event that disturbs the order of a task's own writes.
Hostile == {"ambiguousInvoke", "substrateError", "pollCap", "sweep"}

\* Surroundings in which every session ends by itself.
Orderly == {"lostInvoke", "pickupDies", "sweep"}

\* Surroundings that lose slots and the job that finds them.
Leaky == {"cancel", "agentDies", "storeError", "staleBeat", "pollCap", "sweep", "recount"}

\* The durable steps that change the task, the counter or a session.
WritingSteps == {"admission-control", "pre-flight", "hydrate-context", "start-session",
                 "finalize"}

AllButFinalize == WritingSteps \ {"finalize"}

Symmetry == Permutations(Executions) \cup Permutations(Sessions)
=============================================================================
