-------------------------------- MODULE FanOut --------------------------------
(***************************************************************************)
(* The fan-out of one task's events to GitHub and to the tracker or chat   *)
(* the task came from.  Lambda reads the stream of the events table in     *)
(* batches, one at a time per task, and repeats a batch from its first     *)
(* failed record; the channels of a record run concurrently, and what each *)
(* has already posted is known from the task's row alone.                  *)
(***************************************************************************)
EXTENDS Integers, Sequences, FiniteSets, FiniteSetsExt

CONSTANTS
    Events,         \* the effective types of the task's events, in order
    Origins,        \* subset of {"slack", "linear", "jira"}
    RetryAttempts,  \* of a batch, before it goes to the dead-letter queue
    Cap,            \* MAX_EVENTS_PER_TASK_PER_INVOCATION
    Environment     \* subset of {"storeError", "apiError", "rejected", "lostResponse", "crash"}

VARIABLES
    origin,     \* channel_source
    esm,        \* the batch: records from .. to, the one at hand, retries, failures
    step,       \* per channel, how far the record at hand is
    row,        \* what the task's row says was posted
    github,     \* the comment the row names, and how many others there are
    posts,      \* comments and messages that are there, per kind
    said,       \* history: the outcome was posted on the tracker
    missed      \* history: records given up, "dlq", "capped" or by a channel's own verdict

vars == <<origin, esm, step, row, github, posts, said, missed>>

-----------------------------------------------------------------------------
(***************************************************************************)
(* Routing                                                                 *)
(***************************************************************************)

TerminalEvents == {"task_completed", "task_failed", "task_cancelled", "task_stranded"}

TimedOut == TerminalEvents \cup {"task_timed_out"}

ProgressMessages == {"task_created", "session_started"}

ChannelDefaults ==
    [github |-> TerminalEvents \cup {"pr_created"},
     linear |-> TimedOut \cup {"pr_created"},
     jira   |-> TimedOut,
     slack  |-> TimedOut \cup ProgressMessages]

Subscribed(ch, r) == Events[r] \in ChannelDefaults[ch]

ShouldFanOut(r) == \E ch \in DOMAIN ChannelDefaults : Subscribed(ch, r)

\* The dispatchers of the two other origins only read the row and return.
Channels == {"github", "origin"}

Wanted(c, r) == Subscribed(IF c = "origin" THEN origin ELSE c, r)

Others(r) == \E ch \in (DOMAIN ChannelDefaults) \ {"github", origin} : Subscribed(ch, r)

\* What a post is remembered by: one marker for the pull request and one for
\* the outcome on a tracker, one for the outcome on Slack.
Kind(r) ==
    CASE Events[r] \in ProgressMessages -> Events[r]
      [] Events[r] = "pr_created"       -> "pr"
      [] origin = "slack"               -> "alert"
      [] OTHER                          -> "final"

Kinds == ProgressMessages \cup {"pr", "alert", "final"}

NoBatch == [from |-> 1, to |-> 0, at |-> 0, failed |-> 0, count |-> 0, attempt |-> 0]

Init ==
    /\ origin \in Origins
    /\ esm = NoBatch
    /\ step = [ch \in Channels |-> "idle"]
    /\ row = [marks |-> {}, prUrl |-> FALSE]
    /\ github = [named |-> "none", others |-> 0, shows |-> 0]
    /\ posts = [k \in Kinds |-> 0]
    /\ said = FALSE
    /\ missed = {}

Running == esm.to # 0

Idle == step = [ch \in Channels |-> "idle"]

Fault(kind) == kind \in Environment

Step(ch, s) == step' = [step EXCEPT ![ch] = s]

GiveUp(ch) == missed' = missed \cup {<<ch, esm.at>>}

-----------------------------------------------------------------------------
(***************************************************************************)
(* The event source and the handler's loop                                 *)
(***************************************************************************)

\* The agent's last write brings the URL that its milestone announces before.
PersistPrUrl ==
    /\ ~row.prUrl
    /\ row' = [row EXCEPT !.prUrl = TRUE]
    /\ UNCHANGED <<origin, esm, step, github, posts, said, missed>>

\* However many events have been written by now make a batch.
Poll ==
    /\ ~Running
    /\ \E to \in esm.from .. Len(Events) :
         esm' = [esm EXCEPT !.to = to, !.at = esm.from, !.failed = 0, !.count = 0]
    /\ UNCHANGED <<origin, step, row, github, posts, said, missed>>

\* An event nobody wants, or one too many of a task in this invocation, is
\* passed over; any other goes to all its channels at once.
RouteEvent ==
    LET r == esm.at IN
    /\ Running /\ Idle /\ r <= esm.to
    /\ \/ /\ ~ShouldFanOut(r)
          /\ esm' = [esm EXCEPT !.at = r + 1]
          /\ UNCHANGED <<step, missed>>
       \/ /\ ShouldFanOut(r) /\ esm.count >= Cap
          /\ esm' = [esm EXCEPT !.at = r + 1]
          /\ missed' = missed \cup {<<"capped", r>>}
          /\ step' = step
       \/ /\ ShouldFanOut(r) /\ esm.count < Cap
          /\ esm' = [esm EXCEPT !.count = @ + 1]
          /\ step' = [ch \in Channels |-> IF Wanted(ch, r) THEN "todo" ELSE "ok"]
          /\ missed' = missed
    /\ UNCHANGED <<origin, row, github, posts, said>>

\* All channels have settled; one rejection makes the record a failed item.  The
\* dispatchers of the other origins can reject, too: they read the row.
RecordSettled ==
    /\ \A ch \in Channels : step[ch] \in {"ok", "failed"}
    /\ \E rejected \in BOOLEAN :
         /\ (\E ch \in Channels : step[ch] = "failed") => rejected
         /\ rejected => \/ \E ch \in Channels : step[ch] = "failed"
                        \/ Fault("storeError") /\ Others(esm.at)
         /\ esm' = [esm EXCEPT !.at = @ + 1,
                               !.failed = IF @ = 0 /\ rejected THEN esm.at ELSE @]
    /\ step' = [ch \in Channels |-> "idle"]
    /\ UNCHANGED <<origin, row, github, posts, said, missed>>

\* Bug: what fails is never given up.
RedeliverForever(first) ==
    /\ esm' = [NoBatch EXCEPT !.from = first, !.to = esm.to, !.at = first]
    /\ missed' = missed

\* Records first .. to come again, or go to the dead-letter queue.
Redeliver(first) ==
    \/ /\ esm.attempt < RetryAttempts
       /\ esm' = [NoBatch EXCEPT !.from = first, !.to = esm.to, !.at = first,
                                 !.attempt = esm.attempt + 1]
       /\ missed' = missed
    \/ /\ esm.attempt = RetryAttempts
       /\ esm' = [NoBatch EXCEPT !.from = esm.to + 1]
       /\ missed' = missed \cup {<<"dlq", r>> : r \in first .. esm.to}

EndBatch ==
    /\ Running /\ Idle /\ esm.at > esm.to
    /\ \/ /\ esm.failed = 0
          /\ esm' = [NoBatch EXCEPT !.from = esm.to + 1]
          /\ missed' = missed
       \/ esm.failed # 0 /\ Redeliver(esm.failed)
    /\ UNCHANGED <<origin, step, row, github, posts, said>>

\* What was posted and not recorded when an invocation dies is lost: it stays,
\* and is not counted any more.
Unrecorded(ch) == IF step[ch] = "save" THEN 1 ELSE 0

Crash ==
    /\ Fault("crash")
    /\ Running
    /\ Redeliver(esm.from)
    /\ github' = [github EXCEPT !.others = @ - Unrecorded("github")]
    /\ posts' = IF step["origin"] = "save" THEN [posts EXCEPT ![Kind(esm.at)] = @ - 1] ELSE posts
    /\ step' = [ch \in Channels |-> "idle"]
    /\ UNCHANGED <<origin, row, said>>

-----------------------------------------------------------------------------
(***************************************************************************)
(* GitHub: one comment, edited in place                                    *)
(***************************************************************************)

\* The comment the row names is patched; without one, or when it was deleted,
\* a new one is posted, which is lost if the answer is.  A stale token is
\* renewed once within the call.  An outage or a rate limit rejects, any other
\* 4xx is final.
UpsertTaskComment ==
    /\ step["github"] = "todo"
    /\ \/ /\ github.named = "shown"
          /\ github' = [github EXCEPT !.shows = esm.at]
          /\ Step("github", "ok")
          /\ missed' = missed
       \/ /\ github.named # "shown"
          /\ \/ /\ github' = [github EXCEPT !.shows = esm.at, !.others = @ + 1]
                /\ Step("github", "save")
             \/ /\ Fault("lostResponse")
                /\ github' = [github EXCEPT !.shows = esm.at]
                /\ Step("github", "failed")
          /\ missed' = missed
       \/ /\ Fault("storeError") \/ Fault("apiError")
          /\ Step("github", "failed")
          /\ UNCHANGED <<github, missed>>
       \/ /\ Fault("rejected")
          /\ Step("github", "ok") /\ GiveUp("github")
          /\ github' = github
    /\ UNCHANGED <<origin, esm, row, posts, said>>

\* The row names the new comment instead of the one the dispatcher had read;
\* when that write fails, which is only logged, the comment is lost.
SaveCommentState ==
    /\ step["github"] = "save"
    /\ \/ github' = [github EXCEPT !.named = "shown", !.others = @ - 1]
       \/ Fault("storeError") /\ github' = [github EXCEPT !.others = @ - 1]
    /\ Step("github", "ok")
    /\ UNCHANGED <<origin, esm, row, posts, said, missed>>

UserDeletesComment ==
    /\ github.named = "shown"
    /\ github' = [github EXCEPT !.named = "deleted"]
    /\ UNCHANGED <<origin, esm, step, row, posts, said, missed>>

-----------------------------------------------------------------------------
(***************************************************************************)
(* Linear and Jira: comments posted once, marked afterwards                *)
(***************************************************************************)

AtTracker(at) == origin # "slack" /\ step["origin"] = at

AtSlack(at) == origin = "slack" /\ step["origin"] = at

\* Posting a comment or a message: it is there, it is there but lost because
\* the answer was, or it is not there.
Post(next) ==
    LET k == Kind(esm.at) IN
    \/ /\ posts' = [posts EXCEPT ![k] = @ + 1] /\ said' = (said \/ k = "final")
       /\ Step("origin", next)
       /\ missed' = missed
    \/ /\ Fault("lostResponse")
       /\ posts' = posts /\ said' = (said \/ k = "final")
       /\ Step("origin", "failed")
       /\ missed' = missed
    \/ /\ Fault("apiError")
       /\ Step("origin", "failed")
       /\ UNCHANGED <<posts, said, missed>>
    \/ /\ Fault("rejected")
       /\ Step("origin", "ok")
       /\ IF origin = "slack" THEN missed' = missed ELSE GiveUp(origin)
       /\ UNCHANGED <<posts, said>>

\* Bug: the marker is not looked at.
PostAgain ==
    /\ AtTracker("todo")
    /\ Post("save")
    /\ UNCHANGED <<origin, esm, row, github>>

\* Bug: the marker is written before the comment is posted.
MarkThenPost ==
    /\ AtTracker("todo")
    /\ IF Kind(esm.at) \in row.marks
         THEN Step("origin", "ok") /\ UNCHANGED <<row, posts, said, missed>>
         ELSE row' = [row EXCEPT !.marks = @ \cup {Kind(esm.at)}] /\ Post("save")
    /\ UNCHANGED <<origin, esm, github>>

\* A marker that is set, and a milestone whose URL is not in the row yet, are
\* passed over.
DispatchToTracker ==
    /\ AtTracker("todo")
    /\ \/ /\ Kind(esm.at) \in row.marks
             \/ (Kind(esm.at) = "pr" /\ ~row.prUrl)
          /\ Step("origin", "ok")
          /\ UNCHANGED <<posts, said, missed>>
       \/ /\ Kind(esm.at) \notin row.marks
          /\ Kind(esm.at) = "pr" => row.prUrl
          /\ Post("save")
       \/ /\ Fault("storeError")
          /\ Step("origin", "failed")
          /\ UNCHANGED <<posts, said, missed>>
    /\ UNCHANGED <<origin, esm, row, github>>

\* saveDispatchMarker never throws: a marker it cannot write is lost.
SaveDispatchMarker ==
    LET k == Kind(esm.at) IN
    /\ AtTracker("save")
    /\ \/ row' = [row EXCEPT !.marks = @ \cup {k}] /\ posts' = posts
       \/ Fault("storeError") /\ row' = row /\ posts' = [posts EXCEPT ![k] = @ - 1]
    /\ Step("origin", "ok")
    /\ UNCHANGED <<origin, esm, github, said, missed>>

-----------------------------------------------------------------------------
(***************************************************************************)
(* Slack: an outcome claimed before it is posted, progress messages whose  *)
(* ids are stored afterwards so that the outcome can remove them           *)
(***************************************************************************)

ClaimSlackPost ==
    LET k == Kind(esm.at) IN
    /\ AtSlack("todo")
    /\ \/ k # "alert" /\ Step("origin", "post") /\ row' = row
       \/ k = "alert" /\ k \in row.marks /\ Step("origin", "ok") /\ row' = row
       \/ /\ k = "alert" /\ k \notin row.marks
          /\ row' = [row EXCEPT !.marks = @ \cup {k}]
          /\ Step("origin", "post")
       \/ Fault("storeError") /\ Step("origin", "failed") /\ row' = row
    /\ UNCHANGED <<origin, esm, github, posts, said, missed>>

PostSlackMessage ==
    /\ AtSlack("post")
    /\ Post(IF Kind(esm.at) = "alert" THEN "clean-up" ELSE "save")
    /\ UNCHANGED <<origin, esm, row, github>>

\* The id is stored unless an earlier one is; then this message is deleted.  A
\* message that cannot be deleted, or whose id cannot be stored, is lost.
StoreMessageTs ==
    LET k == Kind(esm.at) IN
    /\ AtSlack("save")
    /\ \/ /\ k \notin row.marks
          /\ row' = [row EXCEPT !.marks = @ \cup {k}]
          /\ posts' = posts
       \/ /\ k \in row.marks \/ Fault("storeError")
          /\ posts' = [posts EXCEPT ![k] = @ - 1]
          /\ row' = row
    /\ Step("origin", "ok")
    /\ UNCHANGED <<origin, esm, github, said, missed>>

\* The row is read again, or the dispatcher's own copy is taken, and each
\* progress message it names is deleted, or lost.
TerminalCleanup ==
    /\ AtSlack("clean-up")
    /\ posts' = [k \in Kinds |->
                   posts[k] - IF k \in ProgressMessages \cap row.marks THEN 1 ELSE 0]
    /\ Step("origin", "ok")
    /\ UNCHANGED <<origin, esm, row, github, said, missed>>

-----------------------------------------------------------------------------

Handler ==
    \/ RouteEvent \/ RecordSettled \/ EndBatch
    \/ UpsertTaskComment \/ SaveCommentState
    \/ DispatchToTracker \/ SaveDispatchMarker
    \/ ClaimSlackPost \/ PostSlackMessage \/ StoreMessageTs \/ TerminalCleanup

Next == PersistPrUrl \/ Poll \/ Handler \/ Crash \/ UserDeletesComment

Spec == Init /\ [][Next]_vars

\* Lambda polls the stream and runs the handler.
Fairness == WF_vars(Poll) /\ WF_vars(Handler)

-----------------------------------------------------------------------------
(***************************************************************************)
(* What the fan-out promises                                               *)
(***************************************************************************)

Passed == {r \in DOMAIN Events : r < esm.from}

Missed(ch) == {r \in DOMAIN Events : \E why \in {ch, "dlq", "capped"} : <<why, r>> \in missed}

\* A task has one comment on GitHub, however often its records come again,
\* but for comments whose id could not be written to the row.
OneGithubComment == github.others <= Unrecorded("github")

\* Once a record has passed, the comment shows its event or a later one, or the
\* record was given up: a repeated batch does not leave an older event on top,
\* and a transient failure does not drop the last one.
GithubShowsLatest ==
    \A r \in Passed : Subscribed("github", r) /\ r \notin Missed("github") =>
        github.shows >= r

\* A tracker shows "PR opened" and the outcome once each: "a rare duplicate"
\* is one whose marker was lost,
FinalCommentOnce == \A k \in {"pr", "final"} : posts[k] <= 1

\* "never a lost one": the outcome of a task from Linear or Jira is posted
\* before its record passes, unless the record was given up.
FinalCommentNeverLost ==
    origin # "slack" =>
        \A r \in Passed : Events[r] \in TimedOut /\ r \notin Missed(origin) => said

\* Slack shows the outcome of a task at most once.
SlackOutcomeOnce == posts["alert"] <= 1

\* A repeated record leaves no second progress message of its kind behind
\* unless an id could not be stored or a deletion failed.
NoGhostMessages ==
    \A k \in ProgressMessages :
        posts[k] <= 1 + IF AtSlack("save") /\ Kind(esm.at) = k THEN 1 ELSE 0

\* Records come again and channels fail beside each other, but what was posted is
\* there once,
PostedOnce == OneGithubComment /\ FinalCommentOnce /\ SlackOutcomeOnce /\ NoGhostMessages

\* and what has passed was posted.
OutcomeNotLost == GithubShowsLatest /\ FinalCommentNeverLost

\* Whatever fails, the stream moves on: every event is passed in the end.
AllPassed == esm.from > Len(Events)
=============================================================================
