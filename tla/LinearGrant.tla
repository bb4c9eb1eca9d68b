------------------------------ MODULE LinearGrant ------------------------------
(***************************************************************************)
(* The OAuth grant of a Linear workspace: several Lambdas and agents read  *)
(* the registry row and the stored token, refresh the token when it runs   *)
(* out, and conclude that the grant is dead when Linear refuses.  An       *)
(* administrator installs the workspace again, or removes it, meanwhile.   *)
(*                                                                         *)
(* Linear is external: it accepts the last refresh token it handed out,    *)
(* once ("one-shot grants", linear-oauth-resolver.ts:1315).                *)
(***************************************************************************)
EXTENDS Integers, FiniteSets

CONSTANTS
    Processors,         \* webhook processors, which may write the registry
    Agents,             \* agents, which may write neither registry nor secret
    MaxGenerations,     \* bound: refresh tokens Linear hands out
    MaxInstallations,   \* bound: setups
    Environment         \* subset of {"revoke", "lostResponse", "storeError",
                        \*            "vaultError", "topicError", "remove"}

VARIABLES
    grant,      \* at Linear: installation, accepted refresh token, alive or not
    vaulted,    \* the workspace was set up with the token vault
    secret,     \* what Secrets Manager holds: {} or one [inst, gen]
    row,        \* the registry row; status "absent" when purged
    job,        \* where each resolver is, what it has read, and its verdict
    setup,      \* the steps of a setup that are done
    removal,    \* the steps of a removal that are done
    unsaved,    \* history: installations whose last rotation a re-read missed
    published,  \* history: installations whose death was published, failed to be, or was
                \* found while the row was not theirs
    trouble     \* calls may fail

vars == <<grant, vaulted, secret, row, job, setup, removal, unsaved, published, trouble>>

Resolvers == Processors \cup Agents

NoToken == [inst |-> 0, gen |-> 0]

Idle == [at |-> "idle", inst |-> 0, latched |-> FALSE, token |-> NoToken, verdict |-> "none"]

Init ==
    /\ vaulted \in BOOLEAN
    /\ grant = [inst |-> 1, gen |-> 1, alive |-> TRUE]
    /\ secret \in {{[inst |-> 1, gen |-> 1]}} \cup {s \in {{}} : vaulted}
    /\ row = [status |-> "active", reason |-> "none", inst |-> 1, claimed |-> FALSE]
    /\ job = [r \in Resolvers |-> Idle]
    /\ setup = "idle"
    /\ removal = "idle"
    /\ unsaved = {}
    /\ published = {}
    /\ trouble = TRUE

Fault(f) == f \in Environment /\ (trouble \/ f \in {"revoke", "remove"})

At(r, step) == job[r].at = step

GoTo(r, step) == job' = [job EXCEPT ![r].at = step]

Done(r) == job' = [job EXCEPT ![r] = Idle]

-----------------------------------------------------------------------------
(***************************************************************************)
(* The row and the vault                                                   *)
(***************************************************************************)

\* A row is used when it is active, and one latched on the vault's word is
\* tried again.
Usable(r) ==
    row.status = "active" \/ (r \in Processors /\ vaulted /\ row.reason = "consent")

FirstStep == IF vaulted THEN "vault" ELSE "read"

\* Bug: a revoked row is final, whatever the reason.
RefuseRevoked(r) ==
    /\ At(r, "idle") /\ row.status = "active"
    /\ job' = [job EXCEPT ![r].at = FirstStep, ![r].inst = row.inst, ![r].latched = FALSE]
    /\ UNCHANGED <<grant, vaulted, secret, row, setup, removal, unsaved, published, trouble>>

\* getRegistryRow.  An agent starts from what its task recorded.
ReadRow(r) ==
    /\ At(r, "idle") /\ Usable(r)
    /\ job' = [job EXCEPT ![r].at = FirstStep, ![r].inst = row.inst,
                          ![r].latched = row.status = "revoked"]
    /\ UNCHANGED <<grant, vaulted, secret, row, setup, removal, unsaved, published, trouble>>

\* No token from the vault: a latched row stays latched, any other falls back
\* on the stored token.
NoVaultToken(r, verdict) ==
    IF job[r].latched THEN Done(r) ELSE job' = [job EXCEPT ![r].at = "read", ![r].verdict = verdict]

\* resolveLinearTokenViaVault: a token or the demand for consent
AskVault(r) ==
    /\ At(r, "vault")
    /\ \/ grant.alive /\ (IF job[r].latched THEN GoTo(r, "clear") ELSE Done(r))
       \/ ~grant.alive /\ NoVaultToken(r, "consent")
    /\ UNCHANGED <<grant, vaulted, secret, row, setup, removal, unsaved, published, trouble>>

\* The vault is unavailable, or asks for consent for no good reason.
VaultErrs(r) ==
    /\ Fault("vaultError") /\ At(r, "vault")
    /\ \E verdict \in {"none", "consent"} : NoVaultToken(r, verdict)
    /\ UNCHANGED <<grant, vaulted, secret, row, setup, removal, unsaved, published, trouble>>

\* Bug: any revoked row is cleared.
ClearAnyRevocation(r) ==
    /\ At(r, "clear") /\ Done(r)
    /\ row' = IF row.status = "revoked" /\ row.inst = job[r].inst
                THEN [row EXCEPT !.status = "active", !.reason = "none", !.claimed = FALSE] ELSE row
    /\ UNCHANGED <<grant, vaulted, secret, setup, removal, unsaved, published, trouble>>

\* clearWorkspaceRevocation undoes only a latch that rests on the vault's word
ClearRevocation(r) ==
    /\ At(r, "clear") /\ Done(r)
    /\ \/ /\ row.status = "revoked" /\ row.reason = "consent" /\ row.inst = job[r].inst
          /\ row' = [row EXCEPT !.status = "active", !.reason = "none", !.claimed = FALSE]
       \/ /\ row.reason # "consent" \/ row.inst # job[r].inst \/ Fault("storeError")
          /\ row' = row
    /\ UNCHANGED <<grant, vaulted, secret, setup, removal, unsaved, published, trouble>>

-----------------------------------------------------------------------------
(***************************************************************************)
(* The stored token                                                        *)
(***************************************************************************)

Verdict(r, inst, verdict) ==
    IF r \in Processors
      THEN job' = [job EXCEPT ![r] = [Idle EXCEPT !.at = "claim", !.inst = inst, !.verdict = verdict]]
      ELSE Done(r)

\* A token may have run out any time; then it is refreshed, else it is used.
UseOrRefresh(r, token, step) ==
    \/ job' = [job EXCEPT ![r] = [Idle EXCEPT !.at = step, !.token = token]]
    \/ Done(r)

\* getOauthSecretForResolve.  No token anywhere after the vault's demand for
\* consent is a verdict.
ReadSecret(r) ==
    /\ At(r, "read")
    /\ \/ Fault("storeError") /\ Done(r)
       \/ secret = {} /\ job[r].verdict # "consent" /\ Done(r)
       \/ secret = {} /\ job[r].verdict = "consent" /\ Verdict(r, job[r].inst, "consent")
       \/ \E token \in secret : UseOrRefresh(r, token, "refresh")
    /\ UNCHANGED <<grant, vaulted, secret, row, setup, removal, unsaved, published, trouble>>

Accepted(r) == grant.alive /\ job[r].token.gen = grant.gen

\* tryRefreshOnce: Linear rotates the refresh token.  An answer that is lost
\* takes the new token with it.
Refresh(r) ==
    /\ At(r, "refresh") \/ At(r, "refresh-again")
    /\ \/ /\ Accepted(r) /\ grant.gen < MaxGenerations
          /\ grant' = [grant EXCEPT !.gen = @ + 1]
          /\ \/ r \in Processors /\ job' = [job EXCEPT ![r].at = "put", ![r].token.gen = grant.gen + 1]
             \/ (r \in Agents \/ Fault("lostResponse")) /\ Done(r)
       \/ ~Accepted(r) /\ At(r, "refresh") /\ GoTo(r, "reread") /\ grant' = grant
       \/ ~Accepted(r) /\ At(r, "refresh-again") /\ Done(r) /\ grant' = grant
    /\ UNCHANGED <<vaulted, secret, row, setup, removal, unsaved, published, trouble>>

\* PutSecretValue fails when the secret was deleted; nothing else stops it.
PutSecret(r) ==
    /\ At(r, "put") /\ Done(r)
    /\ secret' \in {{job[r].token : s \in secret}} \cup {s \in {secret} : Fault("storeError")}
    /\ UNCHANGED <<grant, vaulted, row, setup, removal, unsaved, published, trouble>>

Rotated == secret # {} /\ \A token \in secret : token.gen # grant.gen

\* Bug: the first refusal is taken for the death of the grant.
ConcludeAtOnce(r) ==
    /\ At(r, "reread")
    /\ Verdict(r, job[r].token.inst, "rejected")
    /\ UNCHANGED <<grant, vaulted, secret, row, setup, removal, unsaved, published, trouble>>

\* After a refusal: another token in the secret is somebody else's refresh, the
\* same token is the verdict.
Reread(r) ==
    /\ At(r, "reread")
    /\ \/ /\ secret = {} \/ Fault("storeError")
          /\ Done(r) /\ unsaved' = unsaved
       \/ \E token \in secret :
            IF token.gen = job[r].token.gen
              THEN /\ Verdict(r, job[r].token.inst, "rejected")
                   /\ unsaved' = unsaved \cup {i \in {job[r].token.inst} : Rotated /\ i >= row.inst}
              ELSE UseOrRefresh(r, token, "refresh-again") /\ unsaved' = unsaved
    /\ UNCHANGED <<grant, vaulted, secret, row, setup, removal, published, trouble>>

-----------------------------------------------------------------------------
(***************************************************************************)
(* The verdict: announce first, latch second                               *)
(***************************************************************************)

Mine(r) == row.status # "absent" /\ row.inst = job[r].inst

\* Bug: a claim that cannot be evaluated counts as lost.
LoseOnError(r) ==
    /\ At(r, "claim")
    /\ \/ /\ Mine(r) /\ ~row.claimed
          /\ row' = [row EXCEPT !.claimed = TRUE] /\ GoTo(r, "announce")
       \/ /\ ~Mine(r) \/ row.claimed \/ Fault("storeError")
          /\ row' = row /\ GoTo(r, "latch")
    /\ UNCHANGED <<grant, vaulted, secret, setup, removal, unsaved, published, trouble>>

\* claimRevocationAnnouncement; a claim that cannot be evaluated counts as won
ClaimAnnouncement(r) ==
    /\ At(r, "claim")
    /\ \/ /\ Mine(r) /\ ~row.claimed
          /\ row' = [row EXCEPT !.claimed = TRUE] /\ GoTo(r, "announce")
       \/ /\ ~Mine(r) \/ row.claimed
          /\ row' = row /\ GoTo(r, "latch")
       \/ /\ Fault("storeError")
          /\ row' \in {row} \cup {[row EXCEPT !.claimed = TRUE] : i \in {i \in {row.inst} : Mine(r)}}
          /\ GoTo(r, "announce")
    /\ published' = published \cup {i \in {job[r].inst} : i > row.inst}
    /\ UNCHANGED <<grant, vaulted, secret, setup, removal, unsaved, trouble>>

\* announceRevocation publishes to the alert topic
Announce(r) ==
    /\ At(r, "announce")
    /\ \/ GoTo(r, "latch")
       \/ Fault("topicError") /\ GoTo(r, "release")
    /\ published' = published \cup {i \in {job[r].inst} : i >= row.inst}
    /\ UNCHANGED <<grant, vaulted, secret, row, setup, removal, unsaved, trouble>>

\* releaseRevocationAnnouncement removes the claim, whoever holds it
ReleaseAnnouncement(r) ==
    /\ At(r, "release") /\ Done(r)
    /\ row' \in {[row EXCEPT !.claimed = FALSE]} \cup {w \in {row} : Fault("storeError")}
    /\ UNCHANGED <<grant, vaulted, secret, setup, removal, unsaved, published, trouble>>

\* markWorkspaceRevoked writes only to the installation that was diagnosed
MarkRevoked(r) ==
    /\ At(r, "latch") /\ Done(r)
    /\ \/ /\ row.status = "active" /\ Mine(r)
          /\ row' = [row EXCEPT !.status = "revoked", !.reason = job[r].verdict]
       \/ /\ row.status # "active" \/ ~Mine(r) \/ Fault("storeError")
          /\ row' = row
    /\ UNCHANGED <<grant, vaulted, secret, setup, removal, unsaved, published, trouble>>

-----------------------------------------------------------------------------
(***************************************************************************)
(* Linear and the administrator                                            *)
(***************************************************************************)

TroubleEnds ==
    /\ trouble /\ trouble' = FALSE
    /\ UNCHANGED <<grant, vaulted, secret, row, job, setup, removal, unsaved, published>>

RevokeInLinear ==
    /\ Fault("revoke") /\ grant.alive
    /\ grant' = [grant EXCEPT !.alive = FALSE]
    /\ UNCHANGED <<vaulted, secret, row, job, setup, removal, unsaved, published, trouble>>

\* bgagent linear setup: consent, then the secret, then the row.  Set up with
\* the vault, it keeps the stored token and stamps it with the installation.
Consent ==
    /\ setup = "idle" /\ removal = "idle" /\ grant.inst < MaxInstallations
    /\ vaulted \/ grant.gen < MaxGenerations
    /\ grant' = [inst |-> grant.inst + 1, gen |-> grant.gen + (IF vaulted THEN 0 ELSE 1), alive |-> TRUE]
    /\ setup' = "consented"
    /\ UNCHANGED <<vaulted, secret, row, job, removal, unsaved, published, trouble>>

UpsertOauthSecret ==
    /\ setup = "consented" /\ setup' = "stored"
    /\ secret' = IF vaulted THEN {[token EXCEPT !.inst = grant.inst] : token \in secret}
                   ELSE {[inst |-> grant.inst, gen |-> grant.gen]}
    /\ UNCHANGED <<grant, vaulted, row, job, removal, unsaved, published, trouble>>

PutRegistryRow ==
    /\ setup = "stored" /\ setup' = "idle"
    /\ row' = [status |-> "active", reason |-> "none", inst |-> grant.inst, claimed |-> FALSE]
    /\ unsaved' = unsaved \ {row.inst} /\ published' = published \ {row.inst}
    /\ UNCHANGED <<grant, vaulted, secret, job, removal, trouble>>

\* DELETE /linear/workspaces/{slug}: the row is revoked first, if it is active,
RemoveWorkspace ==
    /\ Fault("remove") /\ removal = "idle" /\ setup = "idle" /\ row.status = "active"
    /\ row' = [row EXCEPT !.status = "revoked", !.reason = "admin"]
    /\ removal' = "revoked"
    /\ UNCHANGED <<grant, vaulted, secret, job, setup, unsaved, published, trouble>>

\* then the secret is deleted; a failure leaves a mark on the row instead,
DeleteSecret ==
    /\ removal = "revoked"
    /\ \/ secret' = {} /\ removal' = "deleted"
       \/ Fault("storeError") /\ secret' = secret /\ removal' = "failed"
    /\ UNCHANGED <<grant, vaulted, row, job, setup, unsaved, published, trouble>>

\* and purging deletes the row.
PurgeRow ==
    /\ removal = "deleted" /\ removal' = "purged"
    /\ row' = [row EXCEPT !.status = "absent", !.reason = "none", !.claimed = FALSE]
    /\ UNCHANGED <<grant, vaulted, secret, job, setup, unsaved, published, trouble>>

-----------------------------------------------------------------------------

Resolve(r) ==
    \/ ReadRow(r) \/ AskVault(r) \/ VaultErrs(r) \/ ClearRevocation(r)
    \/ ReadSecret(r) \/ Refresh(r) \/ PutSecret(r) \/ Reread(r)
    \/ ClaimAnnouncement(r) \/ Announce(r) \/ ReleaseAnnouncement(r) \/ MarkRevoked(r)

Next ==
    \/ \E r \in Resolvers : Resolve(r)
    \/ TroubleEnds \/ RevokeInLinear \/ Consent \/ UpsertOauthSecret \/ PutRegistryRow
    \/ RemoveWorkspace \/ DeleteSecret \/ PurgeRow

Spec == Init /\ [][Next]_vars

\* Events keep coming, and the trouble with the vault and the stores passes.
Fairness == WF_vars(\E r \in Processors : Resolve(r)) /\ WF_vars(TroubleEnds)

-----------------------------------------------------------------------------
(***************************************************************************)
(* What the latch is for                                                   *)
(***************************************************************************)

\* A grant that Linear still honours is called rejected only if its last
\* rotation had not reached the secret when the resolver read it again: neither
\* a race that was saved nor a verdict on an earlier installation does it.
NoFalseVerdict ==
    row.status = "revoked" /\ row.reason = "rejected" /\ row.inst = grant.inst /\ grant.alive =>
        row.inst \in unsaved

\* What an administrator has removed stays removed until it is set up again,
\* whatever a resolver that was under way finds out.
RemovalStands ==
    row.status = "revoked" /\ row.reason = "admin" =>
        row'.status # "active" \/ row'.inst # row.inst

AdminRemovalFinal == [][RemovalStands]_vars

\* No resolver that was refreshing puts a token back after the removal.
RemovalLeavesNoSecret == removal \in {"deleted", "purged"} => secret = {}

\* A workspace latched on the vault's word alone comes back by itself when the
\* grant is alive.
FalselyLatched == row.status = "revoked" /\ row.reason = "consent" /\ grant.alive

FalseLatchHeals == FalselyLatched ~> ~FalselyLatched

\* A workspace is recorded dead only after its death was published, or when
\* publishing it failed, or while somebody is about to: of two resolvers that
\* conclude the same, one tells the operator first.  (The one that reads the
\* secret of a setup whose row is not written yet does not.)
LatchedIsPublished ==
    row.status = "revoked" /\ row.reason \in {"rejected", "consent"} =>
        \/ row.inst \in published
        \/ \E r \in Processors : At(r, "announce") /\ job[r].inst = row.inst

\* So a workspace that is recorded dead is dead, and somebody was told.
LatchesExplained == NoFalseVerdict /\ LatchedIsPublished
=============================================================================
