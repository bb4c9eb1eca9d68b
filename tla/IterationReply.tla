---------------------------- MODULE IterationReply ----------------------------
(***************************************************************************)
(* The one reply that a comment-triggered iteration matures: progress      *)
(* writers turn it into "working", the delivery of the task's last event   *)
(* claims it, writes the outcome and swaps the reaction on the request.    *)
(* The outcome is written by the fan-out for an issue without an epic, by  *)
(* the reconciler of an epic, and on Jira by the fan-out as a pointer with *)
(* the result in a comment of its own.                                     *)
(***************************************************************************)
EXTENDS Integers, FiniteSets

CONSTANTS
    Kinds,              \* subset of {"standalone", "orchestrated", "jira"}
    Writers,            \* milestones and heartbeats that may write progress
    MaxReplyAttempts,   \* MAX_REPLY_ATTEMPTS
    RetryAttempts,      \* redeliveries of a stream record
    Environment         \* subset of {"apiError", "rejected", "lostResponse", "storeError", "crash"}

VARIABLES
    kind,
    row,        \* ack_replied_at is set; ack_reply_attempts
    reply,      \* what the reply says: "on-it", "working" or "outcome"
    reaction,   \* on the request: "eyes" or "outcome"
    results,    \* result comments posted on Jira, but for those whose answer was lost
    writers,    \* where each progress writer is
    delivery,   \* the delivery at hand, whether another is due, retries so far
    said,       \* the outcome was written
    racing,     \* writers about to write when the outcome was last verified, or blind
    forsaken    \* a delivery died, or a call it depends on failed

vars == <<kind, row, reply, reaction, results, writers, delivery, said, racing, forsaken>>

Init ==
    /\ kind \in Kinds
    /\ row = [claimed |-> FALSE, attempts |-> 0]
    /\ reply = "on-it"
    /\ reaction = "eyes"
    /\ results = 0
    /\ writers = [w \in Writers |-> "idle"]
    /\ delivery = [at |-> "running", due |-> FALSE, retries |-> 0]
    /\ said = FALSE
    /\ racing = {}
    /\ forsaken = FALSE

Fault(f) == f \in Environment

At(step) == delivery.at = step

GoTo(step) == delivery' = [delivery EXCEPT !.at = step]

-----------------------------------------------------------------------------
(***************************************************************************)
(* Progress                                                                *)
(***************************************************************************)

WriterAt(w, at) == writers' = [writers EXCEPT ![w] = at]

\* terminalReplyClaimed, which fails open
CheckClaim(w) ==
    /\ kind # "jira" /\ writers[w] = "idle"
    /\ ~row.claimed \/ Fault("storeError")
    /\ WriterAt(w, "read")
    /\ UNCHANGED <<kind, row, reply, reaction, results, delivery, said, racing, forsaken>>

\* Bug: a progress edit does not look at the body.
ReadNothing(w) ==
    /\ writers[w] = "read"
    /\ WriterAt(w, "write")
    /\ UNCHANGED <<kind, row, reply, reaction, results, delivery, said, racing, forsaken>>

\* skipIfSettled: a body that shows the outcome is left alone; one that cannot
\* be read is not.
ReadBody(w) ==
    /\ writers[w] = "read"
    /\ \/ /\ reply = "outcome"
          /\ WriterAt(w, "idle")
          /\ racing' = racing
       \/ /\ reply # "outcome"
          /\ WriterAt(w, "write")
          /\ racing' = racing
       \/ /\ Fault("apiError")
          /\ WriterAt(w, "write")
          /\ racing' = racing \cup {w}
    /\ UNCHANGED <<kind, row, reply, reaction, results, delivery, said, forsaken>>

WriteProgress(w) ==
    /\ writers[w] = "write"
    /\ reply' \in {"working"} \cup {r \in {reply} : Fault("apiError")}
    /\ WriterAt(w, "idle")
    /\ UNCHANGED <<kind, row, reaction, results, delivery, said, racing, forsaken>>

-----------------------------------------------------------------------------
(***************************************************************************)
(* Deliveries: Lambda reads a stream's records one at a time per task      *)
(***************************************************************************)

TaskEnds ==
    /\ At("running")
    /\ delivery' = [delivery EXCEPT !.at = "idle", !.due = TRUE]
    /\ UNCHANGED <<kind, row, reply, reaction, results, writers, said, racing, forsaken>>

\* A record whose retries are used up is given up, and the next one is read.
Deliver ==
    /\ At("idle") \/ (At("threw") /\ delivery.retries = RetryAttempts)
    /\ delivery.due
    /\ delivery' = [delivery EXCEPT !.at = "claim", !.due = FALSE]
    /\ UNCHANGED <<kind, row, reply, reaction, results, writers, said, racing, forsaken>>

\* A delivery that threw is repeated; one that returned may be, because of
\* another record or another channel.
Redeliver ==
    /\ At("idle") \/ At("threw")
    /\ delivery.retries < RetryAttempts
    /\ delivery' = [at |-> "idle", due |-> TRUE, retries |-> delivery.retries + 1]
    /\ UNCHANGED <<kind, row, reply, reaction, results, writers, said, racing, forsaken>>

Crash ==
    /\ Fault("crash")
    /\ delivery.at \notin {"running", "idle", "threw"}
    /\ GoTo("threw")
    /\ forsaken' = TRUE
    /\ UNCHANGED <<kind, row, reply, reaction, results, writers, said, racing>>

\* Writing the row of an orchestrated task wakes the reconciler again.
Woken(at) ==
    delivery' = [delivery EXCEPT !.at = at, !.due = @ \/ kind = "orchestrated"]

\* A claim that is held, or a write of which nobody knows whether it took
\* effect, ends the delivery.
ClaimTerminalReply ==
    /\ At("claim")
    /\ \/ /\ ~row.claimed
          /\ row' = [row EXCEPT !.claimed = TRUE]
          /\ Woken("edit")
          /\ forsaken' = forsaken
       \/ /\ row.claimed
          /\ GoTo("idle")
          /\ UNCHANGED <<row, forsaken>>
       \/ /\ Fault("storeError")
          /\ row' \in {row, [row EXCEPT !.claimed = TRUE]}
          /\ GoTo("idle")
          /\ forsaken' = TRUE
    /\ UNCHANGED <<kind, reply, reaction, results, writers, said, racing>>

\* upsertThreadedReply, or on Jira the pointer to the result
EditReply ==
    /\ At("edit")
    /\ \/ reply' = "outcome" /\ said' = TRUE /\ GoTo(IF kind = "jira" THEN "result" ELSE "verify")
       \/ Fault("lostResponse") /\ reply' = "outcome" /\ said' = said /\ GoTo("release")
       \/ Fault("apiError") /\ UNCHANGED <<reply, said>> /\ GoTo("release")
       \/ Fault("rejected") /\ UNCHANGED <<reply, said>>
            /\ GoTo(IF kind = "jira" THEN "release-for-good" ELSE "release")
    /\ UNCHANGED <<kind, row, reaction, results, writers, racing, forsaken>>

\* repairOverwrittenOutcome reads the body back
VerifyOutcome ==
    /\ At("verify")
    /\ racing' = {w \in Writers : writers[w] = "write"}
    /\ \/ GoTo(IF reply = "outcome" THEN "react" ELSE "repair") /\ forsaken' = forsaken
       \/ Fault("apiError") /\ GoTo("react") /\ forsaken' = TRUE
    /\ UNCHANGED <<kind, row, reply, reaction, results, writers, said>>

\* and writes the outcome once more.
RepairOutcome ==
    /\ At("repair")
    /\ \/ reply' = "outcome" /\ forsaken' = forsaken
       \/ Fault("apiError") /\ reply' = reply /\ forsaken' = TRUE
    /\ racing' = {w \in Writers : writers[w] = "write"}
    /\ GoTo("react")
    /\ UNCHANGED <<kind, row, reaction, results, writers, said>>

SwapReaction ==
    /\ At("react")
    /\ \/ reaction' = "outcome" /\ forsaken' = forsaken
       \/ Fault("apiError") /\ reaction' = reaction /\ forsaken' = TRUE
    /\ GoTo("idle")
    /\ UNCHANGED <<kind, row, reply, results, writers, said, racing>>

\* The result on Jira: a transient failure releases the claim, a final one
\* folds the result into the pointer.
PostResult ==
    /\ At("result")
    /\ \/ results' = results + 1 /\ GoTo("idle")
       \/ Fault("lostResponse") /\ results' = results /\ GoTo("release-result")
       \/ Fault("apiError") /\ results' = results /\ GoTo("release-result")
       \/ Fault("rejected") /\ results' = results /\ GoTo("fold")
    /\ UNCHANGED <<kind, row, reply, reaction, writers, said, racing, forsaken>>

FoldResult ==
    /\ At("fold")
    /\ \/ reply' = "outcome" /\ said' = TRUE /\ forsaken' = forsaken
       \/ Fault("apiError") /\ forsaken' = TRUE /\ UNCHANGED <<reply, said>>
    /\ GoTo("idle")
    /\ UNCHANGED <<kind, row, reaction, results, writers, racing>>

Releasing == delivery.at \in {"release", "release-for-good", "release-result"}

\* Bug: the number of attempts is not bounded.
ReleaseAlways ==
    /\ Releasing
    /\ row' = [row EXCEPT !.claimed = FALSE]
    /\ IF kind = "jira" THEN GoTo("threw") ELSE Woken("idle")
    /\ UNCHANGED <<kind, reply, reaction, results, writers, said, racing, forsaken>>

\* What follows a release that was granted: on Jira a transient failure throws,
\* everywhere else the delivery returns.
Released ==
    IF kind = "jira" /\ ~At("release-for-good") THEN GoTo("threw") ELSE Woken("idle")

\* What follows the last attempt: the reaction, or on Jira the folded result
\* if the pointer is there.
Exhausted ==
    GoTo(CASE kind # "jira" -> "react" [] At("release-result") -> "fold" [] OTHER -> "idle")

\* releaseReplyClaim: the claim is handed back and the attempt counted in one
\* write, unless the attempts are used up; a write that fails counts as that.
ReleaseReplyClaim ==
    /\ Releasing
    /\ \/ /\ row.attempts < MaxReplyAttempts
          /\ row' = [claimed |-> FALSE, attempts |-> row.attempts + 1]
          /\ Released
          /\ forsaken' = forsaken
       \/ /\ row.attempts = MaxReplyAttempts
          /\ row' = row
          /\ Exhausted
          /\ forsaken' = forsaken
       \/ /\ Fault("storeError")
          /\ row' = row
          /\ Exhausted
          /\ forsaken' = (forsaken \/ kind = "jira")
    /\ UNCHANGED <<kind, reply, reaction, results, writers, said, racing>>

-----------------------------------------------------------------------------

Delivery ==
    \/ Deliver \/ ClaimTerminalReply \/ EditReply \/ VerifyOutcome \/ RepairOutcome
    \/ SwapReaction \/ PostResult \/ FoldResult \/ ReleaseReplyClaim

Progress(w) == CheckClaim(w) \/ ReadBody(w) \/ WriteProgress(w)

Next == TaskEnds \/ Delivery \/ Redeliver \/ Crash \/ \E w \in Writers : Progress(w)

Spec == Init /\ [][Next]_vars

\* The task ends, the streams are read, and a record that threw comes again: of
\* the three, one at a time is possible.
Scheduled == TaskEnds \/ Delivery \/ (At("threw") /\ Redeliver)

Fairness == WF_vars(Scheduled)

-----------------------------------------------------------------------------
(***************************************************************************)
(* What the requester sees                                                 *)
(***************************************************************************)

\* Once the outcome has been written and verified, the reply says "working"
\* only because a writer had read the body before, or could not read it, and
\* wrote after the check: the two layers and the repair leave no other window.
OutcomeStands ==
    said /\ delivery.at \notin {"verify", "repair"} /\ reply = "working" =>
        racing # {} \/ forsaken

\* Jira gets the result of an iteration once, however often the record comes,
\* but for results whose answer was lost.
ResultOnce == results <= 1

\* A claim is not held in silence: when no delivery is at work, the outcome
\* was said, the reaction shows it, or (on Jira) all attempts were made.
ClaimNotSilent ==
    At("idle") /\ row.claimed =>
        \/ said \/ reaction = "outcome" \/ forsaken
        \/ kind = "jira" /\ row.attempts = MaxReplyAttempts

\* The requester gets the outcome: it is not overwritten, not repeated and not
\* passed over in silence.
OneOutcome == OutcomeStands /\ ResultOnce /\ ClaimNotSilent

\* Handing the claim back wakes the reconciler, which fails again; the bound on
\* the attempts ends this.
Quiet == delivery.at \in {"idle", "threw"} /\ ~delivery.due

\* In an epic every request is answered in the end, by the reply or, when the
\* attempts are used up, by the reaction alone.
EpicAnswered == kind = "orchestrated" => reaction = "outcome" \/ forsaken
=============================================================================
