---------------------------- MODULE GateContract ----------------------------
(***************************************************************************)
(* What an approval gate promises the user: one request is open at a time, *)
(* a request is answered or lapses once and for ever, the gated call runs  *)
(* only if its request was granted while the task was alive, and a granted *)
(* request is turned down only because the task is over.                   *)
(***************************************************************************)

CONSTANT Requests

VARIABLES
    verdict,    \* "none", "open", "granted", "refused" or "lapsed", per request
    effect,     \* what became of the call: "none", "ran" or "blocked"
    over        \* the task has ended

gvars == <<verdict, effect, over>>

Init ==
    /\ verdict = [r \in Requests |-> "none"]
    /\ effect = [r \in Requests |-> "none"]
    /\ over = FALSE

Open(r) ==
    /\ ~over
    /\ verdict[r] = "none"
    /\ \A q \in Requests : verdict[q] # "none" => effect[q] # "none"
    /\ verdict' = [verdict EXCEPT ![r] = "open"]
    /\ UNCHANGED <<effect, over>>

Answer(r) ==
    /\ ~over
    /\ verdict[r] = "open" /\ effect[r] = "none"
    /\ \E v \in {"granted", "refused"} : verdict' = [verdict EXCEPT ![r] = v]
    /\ UNCHANGED <<effect, over>>

Lapse(r) ==
    /\ verdict[r] = "open"
    /\ verdict' = [verdict EXCEPT ![r] = "lapsed"]
    /\ UNCHANGED <<effect, over>>

Run(r) ==
    /\ ~over
    /\ verdict[r] = "granted" /\ effect[r] = "none"
    /\ effect' = [effect EXCEPT ![r] = "ran"]
    /\ UNCHANGED <<verdict, over>>

Block(r) ==
    /\ verdict[r] # "none" /\ effect[r] = "none"
    /\ verdict[r] \in {"refused", "lapsed"} \/ over
    /\ effect' = [effect EXCEPT ![r] = "blocked"]
    /\ UNCHANGED <<verdict, over>>

Finish ==
    /\ ~over
    /\ over' = TRUE
    /\ UNCHANGED <<verdict, effect>>

Next ==
    \/ \E r \in Requests : Open(r) \/ Answer(r) \/ Lapse(r) \/ Run(r) \/ Block(r)
    \/ Finish

Spec == Init /\ [][Next]_gvars
=============================================================================
