------------------------------- MODULE Sending -------------------------------
(***************************************************************************)
(* The SMTP credentials of one domain and its organization: creation behind*)
(* the verified domain and the unsuspended organization, revocation,       *)
(* enabling, and rotation of the secret.                                   *)
(*                                                                         *)
(* No operation holds a transaction over its reads and its write: each read*)
(* and each write is a step.  A creation is identified with the credential *)
(* it inserts, and a secret with the creation or rotation that drew it.    *)
(***************************************************************************)
EXTENDS Domains

CONSTANTS
    Credentials,    \* bound: requests to create a credential
    Rotations,      \* bound: requests to rotate one
    NoSecret

ASSUME SendingAssumption == /\ Credentials \cap Rotations = {}
                            /\ NoSecret \notin Credentials \cup Rotations

VARIABLES
    suspended,      \* organizations.suspended
    cpc,            \* credential -> the stage of its creation
    enabled,        \* credential -> smtp_credentials.enabled
    secret,         \* credential -> smtp_credentials.password_enc
    rpc,            \* rotation -> what it does next
    target,         \* rotation -> the credentials it loaded (one, or none yet)
    before,         \* history: the credentials a suspension came too late for
    old             \* history: rotation -> the secret stored when it began

credentialVars == <<suspended, cpc, enabled, secret, rpc, target, before, old>>
vars == <<domainVars, credentialVars>>

Secrets == Credentials \cup Rotations

TypeOK ==
    /\ DomainTypeOK
    /\ suspended \in BOOLEAN
    /\ cpc \in [Credentials -> {"idle", "organization", "subscription", "insert", "exists"}]
    /\ enabled \in [Credentials -> BOOLEAN]
    /\ secret \in [Credentials -> Secrets \cup {NoSecret}]
    /\ rpc \in [Rotations -> {"idle", "write", "audit", "shown", "cut"}]
    /\ target \in [Rotations -> SUBSET Credentials]
    /\ before \subseteq Credentials
    /\ old \in [Rotations -> Secrets \cup {NoSecret}]

Init ==
    /\ DomainInit
    /\ suspended = FALSE
    /\ cpc = [c \in Credentials |-> "idle"]
    /\ enabled = [c \in Credentials |-> FALSE]
    /\ secret = [c \in Credentials |-> NoSecret]
    /\ rpc = [r \in Rotations |-> "idle"]
    /\ target = [r \in Rotations |-> {}]
    /\ before = {}
    /\ old = [r \in Rotations |-> NoSecret]

Existing == {c \in Credentials : cpc[c] = "exists"}

-----------------------------------------------------------------------------
(* Create *)

CreateStage(c, s) == cpc' = [cpc EXCEPT ![c] = s]

CheckDomain(c) ==
    /\ cpc[c] = "idle"
    /\ verified
    /\ CreateStage(c, "organization")
    /\ UNCHANGED <<domainVars, suspended, enabled, secret, rpc, target, before, old>>

IgnoreSuspended(c) ==       \* mutant: does not look at suspended
    /\ cpc[c] = "organization"
    /\ CreateStage(c, "subscription")
    /\ UNCHANGED <<domainVars, suspended, enabled, secret, rpc, target, before, old>>

CheckSuspended(c) ==
    /\ cpc[c] = "organization"
    /\ ~suspended
    /\ CreateStage(c, "subscription")
    /\ UNCHANGED <<domainVars, suspended, enabled, secret, rpc, target, before, old>>

(* The subscription's status, which module Billing is about, may let the   *)
(* creation go on or, in RefuseCreate, not.                                *)
CheckSubscription(c) ==
    /\ cpc[c] = "subscription"
    /\ CreateStage(c, "insert")
    /\ UNCHANGED <<domainVars, suspended, enabled, secret, rpc, target, before, old>>

InsertCredential(c) ==
    /\ cpc[c] = "insert"
    /\ CreateStage(c, "exists")
    /\ enabled' = [enabled EXCEPT ![c] = TRUE]
    /\ secret' = [secret EXCEPT ![c] = c]
    /\ UNCHANGED <<domainVars, suspended, rpc, target, before, old>>

(* A check or the INSERT fails, no username is free in ten attempts, or the*)
(* request ends: nothing was written.                                      *)
RefuseCreate(c) ==
    /\ cpc[c] \in {"organization", "subscription", "insert"}
    /\ CreateStage(c, "idle")
    /\ UNCHANGED <<domainVars, suspended, enabled, secret, rpc, target, before, old>>

-----------------------------------------------------------------------------
(* Suspension *)

TooLate == Existing \cup {c \in Credentials : cpc[c] \in {"subscription", "insert"}}

SuspendOrganization ==
    /\ suspended' = TRUE
    /\ before' = IF suspended THEN before ELSE TooLate
    /\ UNCHANGED <<domainVars, cpc, enabled, secret, rpc, target, old>>

UnsuspendOrganization ==
    /\ suspended' = FALSE
    /\ before' = {}
    /\ UNCHANGED <<domainVars, cpc, enabled, secret, rpc, target, old>>

-----------------------------------------------------------------------------
(* Enabling and disabling *)

SetEnabled(C, on) ==
    /\ enabled' = [c \in Credentials |-> IF c \in C THEN on ELSE enabled[c]]
    /\ UNCHANGED <<domainVars, suspended, cpc, secret, rpc, target, before, old>>

(* Credentials.Revoke and the administrator's Disable write the same, after*)
(* a load that decides nothing.                                            *)
Revoke(c) == c \in Existing /\ SetEnabled({c}, FALSE)

EnableCredential(c) == c \in Existing /\ SetEnabled({c}, TRUE)

DisableOrganizationCredentials == SetEnabled(Existing, FALSE)

-----------------------------------------------------------------------------
(* Rotate *)

RotateStage(r, s) == rpc' = [rpc EXCEPT ![r] = s]

RotateLoad(r, c) ==
    /\ rpc[r] = "idle"
    /\ c \in Existing
    /\ enabled[c]
    /\ RotateStage(r, "write")
    /\ target' = [target EXCEPT ![r] = {c}]
    /\ old' = [old EXCEPT ![r] = secret[c]]
    /\ UNCHANGED <<domainVars, suspended, cpc, enabled, secret, before>>

(* The UPDATE does not ask again whether the credential is enabled. *)
RotateWrite(r) ==
    /\ rpc[r] = "write"
    /\ secret' = [c \in Credentials |-> IF c \in target[r] THEN r ELSE secret[c]]
    /\ RotateStage(r, "audit")
    /\ UNCHANGED <<domainVars, suspended, cpc, enabled, target, before, old>>

(* The audit row is inserted and the secret shown to the caller. *)
RotateAnswer(r) ==
    /\ rpc[r] = "audit"
    /\ RotateStage(r, "shown")
    /\ UNCHANGED <<domainVars, suspended, cpc, enabled, secret, target, before, old>>

(* An error, or the request's end, before the answer: a secret that was    *)
(* written stays, and nobody is shown it.                                  *)
RestoreSecret(r) ==         \* mutant: compensates by writing the old secret
    /\ rpc[r] \in {"write", "audit"}
    /\ RotateStage(r, "cut")
    /\ secret' = [c \in Credentials |->
                    IF c \in target[r] /\ rpc[r] = "audit" THEN old[r] ELSE secret[c]]
    /\ UNCHANGED <<domainVars, suspended, cpc, enabled, target, before, old>>

CutRotate(r) ==
    /\ rpc[r] \in {"write", "audit"}
    /\ RotateStage(r, "cut")
    /\ UNCHANGED <<domainVars, suspended, cpc, enabled, secret, target, before, old>>

-----------------------------------------------------------------------------
Next ==
    \/ DomainNext /\ UNCHANGED credentialVars
    \/ \E c \in Credentials : CheckDomain(c)
    \/ \E c \in Credentials : CheckSuspended(c)
    \/ \E c \in Credentials : CheckSubscription(c)
    \/ \E c \in Credentials : InsertCredential(c)
    \/ \E c \in Credentials : RefuseCreate(c)
    \/ SuspendOrganization
    \/ UnsuspendOrganization
    \/ \E c \in Credentials : Revoke(c)
    \/ \E c \in Credentials : EnableCredential(c)
    \/ DisableOrganizationCredentials
    \/ \E r \in Rotations, c \in Credentials : RotateLoad(r, c)
    \/ \E r \in Rotations : RotateWrite(r)
    \/ \E r \in Rotations : RotateAnswer(r)
    \/ \E r \in Rotations : CutRotate(r)

Spec == Init /\ [][Next]_vars

-----------------------------------------------------------------------------
(* Properties *)

(* A credential exists only when a verification has found every required   *)
(* record and written its flag, whichever verifications cleared the flag   *)
(* or replaced the checks since.                                           *)
CreatedBehindVerification ==
    Existing # {} =>
        \E v \in Verifications : vpc[v] = "done" /\ found[v] = Required

(* A suspension stops every creation that had not read the flag yet: while *)
(* it lasts no credential appears but those that it came too late for.     *)
SuspensionStopsCreation ==
    suspended => Existing \subseteq before

(* A rotation that has written puts the secret it set out to replace out of*)
(* use for good, however other rotations overlap, fail or come late.       *)
RotationEndsOldSecret ==
    \A r \in Rotations :
        rpc[r] \in {"audit", "shown"} =>
            \A c \in target[r] : secret[c] # old[r]
=============================================================================
