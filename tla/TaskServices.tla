---------------------------- MODULE TaskServices ----------------------------
(***************************************************************************)
(* The services around the task table: creation and uploads, the agent's   *)
(* run, the budgets, the nudges, the fan-out of a task's events.  The      *)
(* models share no state, so a behaviour is one of each by itself:         *)
(* "subject" is the one that runs, chosen at the start; the variables of   *)
(* the others stay 0.                                                      *)
(***************************************************************************)
EXTENDS Integers, Sequences, FiniteSets

CONSTANTS
    Requests, Keys, KeyOf, UserOf, Inline, Presigned, NoTask,   \* TaskCreation
    Attachments, Calls, Contents, MaxUploads, BatchSize,        \* PendingUploads
    SizeLimit, MaxConcurrent,
    Tasks, Cost, TeamOf, User, LimitOf, Rewrites,               \* BudgetRollup
    Nudges, RateLimit, Minutes, Spins, MaxDenials,              \* Steering
    Events, Origins, Cap,                                       \* FanOut
    Runs, MaxCommits, MaxFaults,                                \* AgentSession
    RetryAttempts,                                              \* of a stream's record
    CreationEnvironment, UploadsEnvironment, BudgetEnvironment, \* what may fail
    SteerEnvironment, FanOutsEnvironment, SessionEnvironment

VARIABLES
    subject,
    tasks, indexed, objects, requests, invoked,                 \* TaskCreation
    waiting, store, calls, active, started, expired,            \* PendingUploads
    cleaner, oversized,
    spend, marked, alerted, rung, record,                       \* BudgetRollup
    status, minute, slots, request, consumed, injected,         \* Steering
    agent, text, shown, steered, denials,
    origin, esm, step, dispatched, github, posts, said, missed, \* FanOut
    task, run, repo, issue, past                                \* AgentSession

Creation == INSTANCE TaskCreation WITH
    Environment <- CreationEnvironment

Uploads == INSTANCE PendingUploads WITH
    row <- waiting, invoked <- started, Environment <- UploadsEnvironment

Budget == INSTANCE BudgetRollup WITH
    Environment <- BudgetEnvironment

Steer == INSTANCE Steering WITH
    Environment <- SteerEnvironment

FanOuts == INSTANCE FanOut WITH
    row <- dispatched, Environment <- FanOutsEnvironment

Session == INSTANCE AgentSession WITH
    Environment <- SessionEnvironment

\* The parameters of each service: a stream of events for the trackers there are, a
\* rate of nudges, prices and limits of budgets, contents of uploads, kinds of runs.
Stream ==
    /\ Events \in Seq(STRING)
    /\ Origins \subseteq {"slack", "linear", "jira"}

Nudging ==
    /\ IsFiniteSet(Nudges) /\ RateLimit \in Nat /\ Minutes \in Nat \ {0}
    /\ Nudges \cap (Spins \cup {"denial"}) = {}

Priced == Cost \in [Tasks -> Nat] /\ LimitOf \in [Budget!Scopes -> Nat \ {0}]

Uploading ==
    /\ IsFiniteSet(Calls)
    /\ Contents \in [Attachments -> SUBSET {"clean", "large", "blocked", "malformed"}]

Running ==
    Runs \subseteq [workflow : {"new-task", "pr-iteration", "pr-review", "web-research"},
                    linear : BOOLEAN, traced : BOOLEAN, green : BOOLEAN]

ASSUME ServicesAssumption == Stream /\ Nudging /\ Priced /\ Uploading /\ Running

-----------------------------------------------------------------------------

creationVars == <<tasks, indexed, objects, requests, invoked>>

uploadsVars == <<waiting, store, calls, active, started, expired, cleaner, oversized>>

budgetVars == <<spend, marked, alerted, rung, record>>

steerVars ==
    <<status, minute, slots, request, consumed, injected, agent, text, shown, steered,
      denials>>

fanOutsVars == <<origin, esm, step, dispatched, github, posts, said, missed>>

sessionVars == <<task, run, repo, issue, past>>

vars ==
    <<subject, creationVars, uploadsVars, budgetVars, steerVars, fanOutsVars,
      sessionVars>>

\* What does not run stays 0.
NoCreation ==
    tasks = 0 /\ indexed = 0 /\ objects = 0 /\ requests = 0 /\ invoked = 0

NoUploads ==
    /\ waiting = 0 /\ store = 0 /\ calls = 0 /\ active = 0 /\ started = 0 /\ expired = 0
    /\ cleaner = 0 /\ oversized = 0

NoBudget ==
    spend = 0 /\ marked = 0 /\ alerted = 0 /\ rung = 0 /\ record = 0

NoSteer ==
    /\ status = 0 /\ minute = 0 /\ slots = 0 /\ request = 0 /\ consumed = 0 /\ injected = 0
    /\ agent = 0 /\ text = 0 /\ shown = 0 /\ steered = 0 /\ denials = 0

NoFanOuts ==
    /\ origin = 0 /\ esm = 0 /\ step = 0 /\ dispatched = 0 /\ github = 0 /\ posts = 0
    /\ said = 0 /\ missed = 0

NoSession ==
    task = 0 /\ run = 0 /\ repo = 0 /\ issue = 0 /\ past = 0

Init ==
    /\ subject \in {"creation", "uploads", "budget", "steering", "fan-out", "session"}
    /\ IF subject = "creation" THEN Creation!Init ELSE NoCreation
    /\ IF subject = "uploads" THEN Uploads!Init ELSE NoUploads
    /\ IF subject = "budget" THEN Budget!Init ELSE NoBudget
    /\ IF subject = "steering" THEN Steer!Init ELSE NoSteer
    /\ IF subject = "fan-out" THEN FanOuts!Init ELSE NoFanOuts
    /\ IF subject = "session" THEN Session!Init ELSE NoSession

\* A step is one of the service that runs.
OnlyCreation ==
    /\ subject = "creation"
    /\ UNCHANGED <<subject, uploadsVars, budgetVars, steerVars, fanOutsVars, sessionVars>>

OnlyUploads ==
    /\ subject = "uploads"
    /\ UNCHANGED <<subject, creationVars, budgetVars, steerVars, fanOutsVars,
                   sessionVars>>

OnlyBudget ==
    /\ subject = "budget"
    /\ UNCHANGED <<subject, creationVars, uploadsVars, steerVars, fanOutsVars,
                   sessionVars>>

OnlySteer ==
    /\ subject = "steering"
    /\ UNCHANGED <<subject, creationVars, uploadsVars, budgetVars, fanOutsVars,
                   sessionVars>>

OnlyFanOuts ==
    /\ subject = "fan-out"
    /\ UNCHANGED <<subject, creationVars, uploadsVars, budgetVars, steerVars,
                   sessionVars>>

OnlySession ==
    /\ subject = "session"
    /\ UNCHANGED <<subject, creationVars, uploadsVars, budgetVars, steerVars,
                   fanOutsVars>>

Next ==
    \/ OnlyCreation /\ Creation!Next
    \/ OnlyUploads /\ Uploads!Next
    \/ OnlyBudget /\ Budget!Next
    \/ OnlySteer /\ Steer!Next
    \/ OnlyFanOuts /\ FanOuts!Next
    \/ OnlySession /\ Session!Next

\* The fairness of the services: what their schedule or their event source keeps
\* going, and
Forever ==
    \/ OnlyUploads /\ Uploads!Cleaner
    \/ OnlyFanOuts /\ FanOuts!Handler
    \/ OnlySteer /\ (Steer!EndTurn \/ Steer!StopHook)

\* what comes in the end.
SoonerOrLater ==
    \/ OnlyUploads /\ Uploads!Expire
    \/ OnlyFanOuts /\ FanOuts!Poll

Spec == Init /\ [][Next]_vars /\ WF_vars(Forever) /\ WF_vars(SoonerOrLater)

-----------------------------------------------------------------------------
(***************************************************************************)
(* The properties of each service, stated in its module                    *)
(***************************************************************************)

\* PendingUploads: of all confirmations one submits, with one slot, and what it
\* submits is what was screened, all of it.
ScreenedSubmittedOnce ==
    subject = "uploads" => Uploads!ScreenedSubmittedOnce

\* TaskCreation: a request makes one task, or leaves nothing behind.
OneTaskOrNothing == subject = "creation" => Creation!OneTaskOrNothing

\* FanOut: what is posted is there once, on each channel.
PostedOnce == subject = "fan-out" => FanOuts!PostedOnce

\* FanOut: no event passes before its outcome is posted or its record given up.
PassedWasPosted == subject = "fan-out" => FanOuts!OutcomeNotLost

\* PendingUploads and FanOut: what comes in does not wait for ever.  A task gets its
\* uploads or ends, and every event passes.
NothingWaits ==
    <>(/\ subject = "uploads" => Uploads!Settled
       /\ subject = "fan-out" => FanOuts!AllPassed)

\* BudgetRollup: a cost is counted once in each scope.
CountedOnce == subject = "budget" => Budget!CountedOnce

\* BudgetRollup: every alarm that is reached rings, and nobody is admitted by a
\* budget whose last one has rung.
AlarmsHonoured ==
    /\ [](subject = "budget" => Budget!AlarmNotLost)
    /\ [][subject = "budget" => Budget!AdmittedBeforeAlarm]_vars

\* Steering: a nudge that is accepted reaches the agent, once.
NudgesHonoured == subject = "steering" => Steer!NudgesHonoured

\* AgentSession: a task is reported as a success for work that can be found, and as
\* an answer if it changed nothing.
ReportedAsDelivered == subject = "session" => Session!ReportedAsDelivered

\* AgentSession: a run ships nothing after it was stopped, ends its task although it
\* raised, and leaves neither a trace nor a marker behind that nobody knows of.
RunAccountedFor == subject = "session" => Session!RunAccountedFor

\* Steering: the agent stops in the end.
AgentStops == <>[](subject = "steering" => Steer!Stopped)
=============================================================================
