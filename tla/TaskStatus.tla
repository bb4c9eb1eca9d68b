----------------------------- MODULE TaskStatus -----------------------------
(***************************************************************************)
(* The task state machine shared by every handler that writes a TaskTable  *)
(* row: the status names, their classes and the transition table that      *)
(* transitionTask consults before its conditional write.                   *)
(***************************************************************************)

\* COMPLETED, FAILED, CANCELLED and TIMED_OUT end a task.
TerminalStatuses == {"COMPLETED", "FAILED", "CANCELLED", "TIMED_OUT"}

\* The task exists but is outside the orchestration pipeline.
PreActiveStatuses == {"PENDING_UPLOADS", "QUEUED"}

\* The task is in progress; a task paused on an approval counts.
ActiveStatuses ==
    {"SUBMITTED", "HYDRATING", "RUNNING", "AWAITING_APPROVAL", "FINALIZING"}

Statuses == PreActiveStatuses \cup ActiveStatuses \cup TerminalStatuses

ValidTransitions ==
    [s \in Statuses |->
        CASE s = "PENDING_UPLOADS"   -> {"SUBMITTED", "FAILED", "CANCELLED"}
          [] s = "QUEUED"            -> {"SUBMITTED", "CANCELLED", "FAILED"}
          [] s = "SUBMITTED"         -> {"QUEUED", "HYDRATING", "FAILED", "CANCELLED"}
          [] s = "HYDRATING"         -> {"RUNNING", "AWAITING_APPROVAL", "FAILED", "CANCELLED"}
          [] s = "RUNNING"           -> {"AWAITING_APPROVAL", "FINALIZING", "CANCELLED",
                                         "TIMED_OUT", "FAILED"}
          [] s = "AWAITING_APPROVAL" -> {"RUNNING", "CANCELLED", "FAILED"}
          [] s = "FINALIZING"        -> {"COMPLETED", "FAILED", "TIMED_OUT"}
          [] OTHER                   -> {}]
=============================================================================
