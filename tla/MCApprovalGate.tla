--------------------------- MODULE MCApprovalGate ---------------------------
(***************************************************************************)
(* Instances of ApprovalGate for TLC: two calls, one matched by both rules *)
(* and one, of another tool, by a single rule.                             *)
(***************************************************************************)
EXTENDS ApprovalGateInvariant

CONSTANTS push, write, bash, edit, forcePush, anyWrite

MCCalls == {push, write}
MCTools == {bash, edit}
MCToolOf == [c \in MCCalls |-> IF c = push THEN bash ELSE edit]
MCRules == {forcePush, anyWrite}
MCRulesOf == [c \in MCCalls |-> IF c = push THEN {forcePush, anyWrite} ELSE {anyWrite}]

Racing == {"cancel", "platform", "agentDies"}
Failing == {"cancel", "platform", "storeError", "timeoutError"}
LateWrite == {"timeoutError"}
=============================================================================
