------------------------------ MODULE Trackers ------------------------------
(***************************************************************************)
(* What ties a tracker to a task: an event on its way in, the grant that   *)
(* every call to Linear needs, the reply to a request, the stack of pull   *)
(* requests that a request revises.  The models share no state, so a       *)
(* behaviour is one of each by itself: "subject" is the one that runs,     *)
(* chosen at the start; the variables of the others stay 0.                *)
(***************************************************************************)
EXTENDS Integers

CONSTANTS
    Sources, Deliveries, AsyncAttempts,                         \* WebhookIntake
    Processors, Agents, MaxGenerations, MaxInstallations,       \* LinearGrant
    Crew,           \* who is at work on a grant, by subject
    Kinds, Writers, MaxReplyAttempts, RetryAttempts,            \* IterationReply
    Nodes, DependsOn, Late, Edits, RestackAttempts,             \* Restack
    PairNodes, PairDependsOn, PairLate, PairEdits,              \* Restack, of two
    IntakeEnvironment, GrantEnvironment, RepliesEnvironment,    \* what may fail
    StackEnvironment, PairEnvironment

VARIABLES
    subject,
    source, dedup, call, queued, run, task, told, excuses,      \* WebhookIntake
    grant, vaulted, secret, registry, job, setup, removal,      \* LinearGrant
    unsaved, published, trouble,
    kind, row, reply, reaction, results, writers, delivery,     \* IterationReply
    said, racing, forsaken,
    children, head, opened, restack, settled, missed            \* Restack

Intake == INSTANCE WebhookIntake WITH
    Environment <- IntakeEnvironment

Grant == INSTANCE LinearGrant WITH
    row <- registry, Environment <- GrantEnvironment

Replies == INSTANCE IterationReply WITH
    Environment <- RepliesEnvironment

Stack == INSTANCE Restack WITH
    row <- children, task <- restack, RetryAttempts <- RestackAttempts,
    Environment <- StackEnvironment

\* Two revisions that meet on one branch
Pair == INSTANCE Restack WITH
    Nodes <- PairNodes, DependsOn <- PairDependsOn, Late <- PairLate, Edits <- PairEdits,
    row <- children, task <- restack, RetryAttempts <- RestackAttempts,
    Environment <- PairEnvironment

-----------------------------------------------------------------------------

ASSUME CrewAssumption == DOMAIN Crew \cap {"intake", "reply", "stack", "pair"} = {}

ASSUME StacksAssumption == Stack!Stacked /\ Pair!Stacked

OfGrants == subject \in DOMAIN Crew

intakeVars ==
    <<source, dedup, call, queued, run, task, told, excuses>>

grantVars ==
    <<grant, vaulted, secret, registry, job, setup, removal, unsaved, published, trouble>>

repliesVars ==
    <<kind, row, reply, reaction, results, writers, delivery, said, racing, forsaken>>

stackVars ==
    <<children, head, opened, restack, settled, missed>>

vars == <<subject, intakeVars, grantVars, repliesVars, stackVars>>

\* What does not run stays 0.
NoIntake ==
    /\ source = 0 /\ dedup = 0 /\ call = 0 /\ queued = 0 /\ run = 0 /\ task = 0
    /\ told = 0 /\ excuses = 0

NoGrant ==
    /\ grant = 0 /\ vaulted = 0 /\ secret = 0 /\ registry = 0 /\ job = 0 /\ setup = 0
    /\ removal = 0 /\ unsaved = 0 /\ published = 0 /\ trouble = 0

NoReplies ==
    /\ kind = 0 /\ row = 0 /\ reply = 0 /\ reaction = 0 /\ results = 0 /\ writers = 0
    /\ delivery = 0 /\ said = 0 /\ racing = 0 /\ forsaken = 0

NoStack ==
    /\ children = 0 /\ head = 0 /\ opened = 0 /\ restack = 0 /\ settled = 0 /\ missed = 0

Init ==
    /\ subject \in {"intake", "reply", "stack", "pair"} \cup DOMAIN Crew
    /\ IF subject = "intake" THEN Intake!Init ELSE NoIntake
    /\ IF OfGrants THEN Grant!Init ELSE NoGrant
    /\ IF subject = "reply" THEN Replies!Init ELSE NoReplies
    /\ \/ subject = "stack" /\ Stack!Init
       \/ subject = "pair" /\ Pair!Init
       \/ subject \notin {"stack", "pair"} /\ NoStack

\* A step is one of the model that runs.
OnlyIntake ==
    /\ subject = "intake"
    /\ UNCHANGED <<subject, grantVars, repliesVars, stackVars>>

OnlyReplies ==
    /\ subject = "reply"
    /\ UNCHANGED <<subject, intakeVars, grantVars, stackVars>>

OnlyStack ==
    /\ subject = "stack"
    /\ UNCHANGED <<subject, intakeVars, grantVars, repliesVars>>

OnlyPair ==
    /\ subject = "pair"
    /\ UNCHANGED <<subject, intakeVars, grantVars, repliesVars>>

\* On a grant only the crew works, a part of the resolvers.
OnlyGrant ==
    /\ OfGrants /\ UNCHANGED <<subject, intakeVars, repliesVars, stackVars>>
    /\ \A r \in Grant!Resolvers \ Crew[subject] : job'[r] = job[r]

Next ==
    \/ OnlyIntake /\ Intake!Next
    \/ OfGrants /\ Grant!Next /\ OnlyGrant
    \/ OnlyReplies /\ Replies!Next
    \/ OnlyStack /\ Stack!Next
    \/ OnlyPair /\ Pair!Next

\* The fairness of the services: what their schedule or their event source keeps
\* going, and
Forever ==
    \/ OnlyReplies /\ Replies!Scheduled
    \/ OnlyStack /\ Stack!Scheduled
    \/ OnlyPair /\ Pair!Scheduled
    \/ OfGrants /\ (\E p \in Processors : Grant!Resolve(p)) /\ OnlyGrant

\* what comes in the end.
SoonerOrLater == OfGrants /\ Grant!TroubleEnds /\ OnlyGrant

Spec == Init /\ [][Next]_vars /\ WF_vars(Forever) /\ WF_vars(SoonerOrLater)

-----------------------------------------------------------------------------
(***************************************************************************)
(* The properties of each service, stated in its module                    *)
(***************************************************************************)

\* IterationReply: the requester gets the outcome, once and for good.
OneOutcome == subject = "reply" => Replies!OneOutcome

\* LinearGrant: a workspace that is recorded dead is dead, and somebody was told.
LatchesExplained == OfGrants => Grant!LatchesExplained

\* LinearGrant: no resolver revives what an administrator has removed, nor
\* restores its token.
RemovalIsFinal ==
    /\ [](OfGrants => Grant!RemovalLeavesNoSecret)
    /\ [][OfGrants => Grant!RemovalStands]_vars

\* LinearGrant: a workspace latched on the vault's word comes back by itself.
FalseLatchHeals ==
    (OfGrants /\ Grant!FalselyLatched) ~> (OfGrants => ~Grant!FalselyLatched)

\* WebhookIntake: an event becomes one task, which keeps its files.
EventBecomesOneTask == subject = "intake" => Intake!EventBecomesOneTask

\* WebhookIntake: an event of which nothing comes met a fault nobody can undo,
\* and none with a task is reported as a failure, but for a Linear label.
ReportsAreTrue ==
    /\ [](subject = "intake" => Intake!NothingLostQuietly)
    /\ [][subject = "intake" => Intake!OnlyLabelMisreported]_vars

\* Restack: when all tasks are done the branches have what those they are stacked
\* on have, unless something known went wrong.
StackIsCurrent ==
    /\ subject = "stack" => Stack!StackIsCurrent
    /\ subject = "pair" => Pair!StackIsCurrent

\* IterationReply and Restack: what a request sets off comes to an end.  Its
\* deliveries do, and in an epic it is answered; the epic it revises settles.
RequestsSettle ==
    <>[](/\ subject = "reply" => Replies!Quiet /\ Replies!EpicAnswered
         /\ subject = "stack" => Stack!Settled
         /\ subject = "pair" => Pair!Settled)
=============================================================================
