------------------------------- MODULE Steering -------------------------------
(***************************************************************************)
(* How a running agent is steered between its turns.  The nudge handler    *)
(* screens a message, takes a slot of the minute and stores it; whenever   *)
(* the agent would stop, the Stop hook runs the between-turns hooks in     *)
(* order: a cancellation ends the session, and a stuck-guard advice, the   *)
(* pending nudges and the queued denials keep it going.                    *)
(***************************************************************************)
EXTENDS Integers, Sequences, FiniteSets

CONSTANTS
    Nudges,         \* the nudge requests, and the rows they become
    RateLimit,      \* RATE_LIMIT_PER_MINUTE
    Minutes,        \* minutes the model looks at
    Spins,          \* the stuck guard's signatures, its window among them
    MaxDenials,     \* calls of the agent that are denied; the gates' cap bounds them
    Environment     \* subset of {"storeError"}

VARIABLES
    status,     \* of the task: RUNNING, CANCELLED or COMPLETED
    minute,     \* the minute it is
    slots,      \* the counter of each minute
    request,    \* of each nudge: the handler's step, its minute, the answer
    consumed,   \* nudge rows marked consumed
    injected,   \* _INJECTED_NUDGES of the agent's process
    agent,      \* "working", the index of a hook, or "stopped"; nudges read, to mark
    text,       \* what the hooks have produced for the next turn
    shown,      \* how often the agent was shown each nudge
    steered,    \* signatures the guard has advised on
    denials     \* length of _denial_injection_queue, and the calls denied so far

vars == <<status, minute, slots, request, consumed, injected, agent, text, shown,
          steered, denials>>

handler == <<slots, request>>
hooks == <<injected, agent, text, shown, steered, denials>>

Init ==
    /\ status = "RUNNING"
    /\ minute = 1
    /\ slots = [m \in 1..Minutes |-> 0]
    /\ request = [n \in Nudges |-> [at |-> "new", minute |-> 0]]
    /\ consumed = {}
    /\ injected = {}
    /\ agent = [at |-> 0, read |-> {}]
    /\ text = {}
    /\ shown = [n \in Nudges |-> 0]
    /\ steered = {}
    /\ denials = [queue |-> 0, ever |-> 0]

MayFail == "storeError" \in Environment

-----------------------------------------------------------------------------
(***************************************************************************)
(* The nudge handler                                                       *)
(***************************************************************************)

Step(n, from, to) ==
    request[n].at = from /\ request' = [request EXCEPT ![n].at = to]

\* The task is read once, and the request belongs to the minute of that moment.
CheckTask(n) ==
    /\ request[n].at = "new"
    /\ request' = [request EXCEPT ![n] = [at |-> IF status = "RUNNING" THEN "screen" ELSE "409",
                                          minute |-> minute]]
    /\ UNCHANGED <<status, minute, slots, consumed, hooks>>

\* A blocked message and a failing guardrail take no slot.
ScreenNudge(n) ==
    /\ Step(n, "screen", "rate") \/ Step(n, "screen", "400")
    /\ UNCHANGED <<status, minute, slots, consumed, hooks>>

\* One conditional update of the minute's counter
TakeSlot(n) ==
    LET m == request[n].minute IN
    /\ \/ /\ Step(n, "rate", "put") /\ slots[m] < RateLimit
          /\ slots' = [slots EXCEPT ![m] = @ + 1]
       \/ /\ Step(n, "rate", "429") /\ slots[m] >= RateLimit
          /\ slots' = slots
    /\ UNCHANGED <<status, minute, consumed, hooks>>

PutNudge(n) ==
    /\ Step(n, "put", "stored") \/ (MayFail /\ Step(n, "put", "500"))
    /\ UNCHANGED <<status, minute, slots, consumed, hooks>>

HandleNudge(n) == CheckTask(n) \/ ScreenNudge(n) \/ TakeSlot(n) \/ PutNudge(n)

-----------------------------------------------------------------------------
(***************************************************************************)
(* The agent                                                               *)
(***************************************************************************)

between_turns_hooks == <<"cancel", "stuck", "nudge", "denial">>

Hook(h) ==
    agent.at \in 1..Len(between_turns_hooks) /\ between_turns_hooks[agent.at] = h

NextHook == agent' = [at |-> agent.at + 1, read |-> {}]

\* A call of the agent is denied, and the reason queued for its next turn.
DenyCall ==
    /\ agent.at = 0 /\ denials.ever < MaxDenials /\ status = "RUNNING"
    /\ denials' = [queue |-> denials.queue + 1, ever |-> denials.ever + 1]
    /\ UNCHANGED <<status, minute, handler, consumed, injected, agent, text, shown, steered>>

\* The turn is over and the Stop hook is called.
EndTurn ==
    /\ agent.at = 0
    /\ NextHook
    /\ text' = {}
    /\ UNCHANGED <<status, minute, handler, consumed, injected, shown, steered, denials>>

\* A cancellation stops the agent and drops what earlier hooks have produced; a
\* task that cannot be read counts as not cancelled.
CancelHook ==
    /\ Hook("cancel")
    /\ \/ status = "CANCELLED" /\ agent' = [at |-> -1, read |-> {}] /\ text' = {}
       \/ (status # "CANCELLED" \/ MayFail) /\ NextHook /\ text' = text
    /\ UNCHANGED <<status, minute, handler, consumed, injected, shown, steered, denials>>

\* Bug: the same spin is advised on again.
AdviseAgain ==
    /\ Hook("stuck")
    /\ NextHook
    /\ \/ \E s \in Spins : steered' = steered \cup {s} /\ text' = text \cup {s}
       \/ UNCHANGED <<steered, text>>
    /\ UNCHANGED <<status, minute, handler, consumed, injected, shown, denials>>

\* The guard advises at most once on each signature.
StuckHook ==
    /\ Hook("stuck")
    /\ NextHook
    /\ \/ \E s \in Spins \ steered : steered' = steered \cup {s} /\ text' = text \cup {s}
       \/ UNCHANGED <<steered, text>>
    /\ UNCHANGED <<status, minute, handler, consumed, injected, shown, denials>>

Stored == {n \in Nudges : request[n].at = "stored"}

\* Bug: what the process has injected is not remembered.
ReadAndForget ==
    LET pending == Stored \ (consumed \cup injected) IN
    /\ Hook("nudge") /\ agent.read = {}
    /\ \/ /\ pending # {}
          /\ agent' = [agent EXCEPT !.read = pending]
          /\ text' = text \cup pending /\ injected' = injected
       \/ (pending = {} \/ MayFail) /\ NextHook /\ UNCHANGED <<text, injected>>
    /\ UNCHANGED <<status, minute, handler, consumed, shown, steered, denials>>

\* The pending nudges are formatted, and remembered as injected by this process
ReadPending ==
    LET pending == Stored \ (consumed \cup injected) IN
    /\ Hook("nudge") /\ agent.read = {}
    /\ \/ /\ pending # {}
          /\ agent' = [agent EXCEPT !.read = pending]
          /\ text' = text \cup pending /\ injected' = injected \cup pending
       \/ (pending = {} \/ MayFail) /\ NextHook /\ UNCHANGED <<text, injected>>
    /\ UNCHANGED <<status, minute, handler, consumed, shown, steered, denials>>

\* before each is marked consumed, best effort.
MarkConsumed ==
    /\ Hook("nudge")
    /\ \E n \in agent.read :
         /\ IF agent.read = {n} THEN NextHook ELSE agent' = [agent EXCEPT !.read = @ \ {n}]
         /\ consumed' = consumed \cup {n} \/ (MayFail /\ consumed' = consumed)
    /\ UNCHANGED <<status, minute, handler, injected, text, shown, steered, denials>>

DenialHook ==
    /\ Hook("denial")
    /\ NextHook
    /\ text' = IF denials.queue > 0 THEN text \cup {"denial"} ELSE text
    /\ denials' = [denials EXCEPT !.queue = 0]
    /\ UNCHANGED <<status, minute, handler, consumed, injected, shown, steered>>

\* Text is the agent's next message; without any it stops.
Resume ==
    /\ agent.at = Len(between_turns_hooks) + 1
    /\ agent' = [at |-> IF text = {} THEN -1 ELSE 0, read |-> {}]
    /\ shown' = [n \in Nudges |-> shown[n] + (IF n \in text THEN 1 ELSE 0)]
    /\ text' = {}
    /\ UNCHANGED <<status, minute, handler, consumed, injected, steered, denials>>

StopHook ==
    \/ CancelHook \/ StuckHook \/ ReadPending \/ MarkConsumed \/ DenialHook \/ Resume

-----------------------------------------------------------------------------

\* The user cancels the task, or the platform ends it.
TaskEnds ==
    /\ status = "RUNNING"
    /\ status' \in {"CANCELLED", "COMPLETED"}
    /\ UNCHANGED <<minute, handler, consumed, hooks>>

Tick ==
    /\ minute < Minutes
    /\ minute' = minute + 1
    /\ UNCHANGED <<status, handler, consumed, hooks>>

Next == (\E n \in Nudges : HandleNudge(n)) \/ DenyCall \/ EndTurn \/ StopHook \/ TaskEnds \/ Tick

Spec == Init /\ [][Next]_vars

\* A turn ends, and its hooks return.
Fairness == WF_vars(EndTurn \/ StopHook)

-----------------------------------------------------------------------------

\* A nudge that is consumed was seen: it is shown, or part of the message being
\* put together, which a cancellation found later does not throw away.
ConsumedWasShown ==
    \A n \in consumed : shown[n] > 0 \/ n \in text

\* A nudge is shown once, though its row cannot be marked.
ShownOnce == \A n \in Nudges : shown[n] <= 1

LetThrough == {"put", "stored", "500"}

InMinute(m) == {o \in Nudges : request[o].minute = m /\ request[o].at \in LetThrough}

\* A request is refused for its rate only when a full minute of others was let
\* through.
LimitedByOthers ==
    \A n \in Nudges : request[n].at = "429" =>
        /\ slots[request[n].minute] = RateLimit
        /\ Cardinality(InMinute(request[n].minute)) = RateLimit

\* A nudge that is accepted, and no other, uses up the rate; it reaches the agent
\* once, and is not marked consumed without.
NudgesHonoured == ConsumedWasShown /\ ShownOnce /\ LimitedByOthers

\* The agent is not kept going for ever by advice, denials or nudges that
\* cannot be marked.
Stopped == agent.at = -1

AgentStops == <>[]Stopped
=============================================================================
