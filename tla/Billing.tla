------------------------------ MODULE Billing ------------------------------
(***************************************************************************)
(* Subscriptions, invoices, payments and the billing limits that they put  *)
(* on SMTP credentials.                                                    *)
(*                                                                         *)
(* Every operation here is one database transaction of the code and so one *)
(* action, except the creation of a credential, which reads the billing    *)
(* state and inserts the row in two statements with nothing held between   *)
(* them.  Subscription ids are numbered in creation order, which is the    *)
(* order "ORDER BY created_at DESC" of the code uses.  A subscription has  *)
(* at most one invoice and an invoice exactly one payment (they are only   *)
(* ever inserted together), so both are indexed by the subscription.       *)
(***************************************************************************)
EXTENDS Naturals

CONSTANTS
    Orgs,           \* organizations
    NoOrg,          \* "no organization": a row or request that does not exist
    Creds,          \* SMTP credential ids
    MaxSubs,        \* bound: subscriptions that may be created
    MaxTime,        \* bound: the clock
    Period,         \* length of a paid period (30 days)
    TrialPeriod,    \* length of a trial (plan.TrialDays)
    AdminReasons,   \* texts an administrator gives when limiting a credential
    LikeReasons     \* those of them that match LIKE 'subscription_%'

ASSUME OrgsAssumption == NoOrg \notin Orgs
ASSUME BoundsAssumption == /\ MaxSubs \in Nat
                           /\ MaxTime \in Nat
                           /\ Period \in Nat
                           /\ TrialPeriod \in Nat

Subs == 1 .. MaxSubs

SubscriptionStatuses == {"trialing", "active", "past_due", "expired", "canceled"}

PaymentStatuses == {"none", "pending", "approved", "failed", "rejected"}

(* The statuses that the partial unique index idx_subscriptions_active_org *)
(* covers: an organization has at most one such row.  No code path writes  *)
(* 'suspended'.                                                            *)
LiveStatuses == {"trialing", "active", "past_due", "suspended"}

(* subscriptionStatusRequiresCredentialLimit *)
RestrictingStatuses == {"expired", "suspended", "past_due"}

NoReason == "none"

(* The reason that the billing code writes for a restricting status. *)
BillingReason(st) == CASE st = "expired"   -> "subscription_expired"
                       [] st = "past_due"  -> "subscription_past_due"
                       [] OTHER            -> "subscription_suspended"

BillingReasons == {BillingReason(st) : st \in RestrictingStatuses}

(* An administrator's text is not exactly one of billing's own, by which   *)
(* the row would be the same as if billing had limited the credential.     *)
ASSUME ReasonsAssumption == /\ LikeReasons \subseteq AdminReasons
                            /\ AdminReasons \cap BillingReasons = {}
                            /\ NoReason \notin AdminReasons

LimitReasons == {NoReason} \cup BillingReasons \cup AdminReasons

(* COALESCE(manual_limit_reason, '') LIKE 'subscription_%' *)
BillingLike(r) == r \in BillingReasons \cup LikeReasons

VARIABLES
    now,            \* the clock
    created,        \* number of subscriptions inserted so far
    subOrg,         \* subscriptions.organization_id
    subStatus,      \* subscriptions.status, "none" while not inserted
    periodEnd,      \* subscriptions.current_period_end
    invoice,        \* invoices.status of the subscription's invoice, or "none"
    payment,        \* payments.status of that invoice's payment, or "none"
    credOrg,        \* smtp_credentials.organization_id, NoOrg while not inserted
    limited,        \* smtp_credentials.manually_limited
    limitReason,    \* smtp_credentials.manual_limit_reason
    creating,       \* create requests past their check, by the id they will get
    exempt          \* history: credentials left open by an administrator, or
                    \* inserted, since the organization's last billing limit

subVars  == <<created, subOrg, subStatus, periodEnd>>
invVars  == <<invoice, payment>>
credVars == <<credOrg, limited, limitReason, exempt>>
vars == <<now, subVars, invVars, credVars, creating>>

TypeOK ==
    /\ now \in 0 .. MaxTime
    /\ created \in 0 .. MaxSubs
    /\ subOrg \in [Subs -> Orgs \cup {NoOrg}]
    /\ subStatus \in [Subs -> SubscriptionStatuses \cup {"none"}]
    /\ periodEnd \in [Subs -> Nat]
    /\ invoice \in [Subs -> {"none", "issued", "paid", "failed"}]
    /\ payment \in [Subs -> PaymentStatuses]
    /\ credOrg \in [Creds -> Orgs \cup {NoOrg}]
    /\ limited \in [Creds -> BOOLEAN]
    /\ limitReason \in [Creds -> LimitReasons]
    /\ creating \in [Creds -> Orgs \cup {NoOrg}]
    /\ exempt \subseteq Creds

Init ==
    /\ now = 0
    /\ created = 0
    /\ subOrg = [s \in Subs |-> NoOrg]
    /\ subStatus = [s \in Subs |-> "none"]
    /\ periodEnd = [s \in Subs |-> 0]
    /\ invoice = [s \in Subs |-> "none"]
    /\ payment = [s \in Subs |-> "none"]
    /\ credOrg = [c \in Creds |-> NoOrg]
    /\ limited = [c \in Creds |-> FALSE]
    /\ limitReason = [c \in Creds |-> NoReason]
    /\ creating = [c \in Creds |-> NoOrg]
    /\ exempt = {}

-----------------------------------------------------------------------------
(* The billing state of an organization *)

SubsOf(o) == {s \in Subs : subOrg[s] = o}

LiveSubsOf(o) == {s \in SubsOf(o) : subStatus[s] \in LiveStatuses}

(* The status of the subscription created last, as LatestSubscriptionState *)
(* and organizationRuntimeRestrictions read it.                            *)
LatestSubscriptionState(o) ==
    IF SubsOf(o) = {}
    THEN "missing"
    ELSE subStatus[CHOOSE s \in SubsOf(o) : \A t \in SubsOf(o) : t <= s]

(* What the unique index lets a transaction commit: one that would leave   *)
(* two live subscriptions of an organization is rolled back.               *)
UniqueLive(org, status) ==
    \A s, t \in Subs : /\ org[s] = org[t]
                       /\ status[s] \in LiveStatuses
                       /\ status[t] \in LiveStatuses
                       => s = t

-----------------------------------------------------------------------------
(* syncOrganizationCredentialBillingLimit, for the organizations os.  A    *)
(* restricting status limits every credential that no administrator has    *)
(* limited; any other status releases those whose reason looks like one of *)
(* the billing code's own.                                                 *)

LikeOnly(os, st) ==         \* mutant: forgets "manually_limited = FALSE OR"
    {c \in Creds : credOrg[c] \in os /\ BillingLike(limitReason[c])}

ReleaseAll(os, st) ==       \* mutant: the release has no LIKE filter
    {c \in Creds : /\ credOrg[c] \in os
                   /\ st \in RestrictingStatuses => ~limited[c] \/ BillingLike(limitReason[c])}

SyncedCredentials(os, st) ==
    {c \in Creds : /\ credOrg[c] \in os
                   /\ \/ BillingLike(limitReason[c])
                      \/ st \in RestrictingStatuses /\ ~limited[c]}

SyncCredentialBillingLimit(os, st) ==
    LET restrict == st \in RestrictingStatuses
        hit == SyncedCredentials(os, st)
    IN  /\ limited' = [c \in Creds |-> IF c \in hit THEN restrict ELSE limited[c]]
        /\ limitReason' = [c \in Creds |->
                              IF c \notin hit THEN limitReason[c]
                              ELSE IF restrict THEN BillingReason(st) ELSE NoReason]
        /\ exempt' = IF restrict THEN {c \in exempt : credOrg[c] \notin os} ELSE exempt
        /\ UNCHANGED credOrg

-----------------------------------------------------------------------------
(* AssignSubscription: an administrator gives organization o a plan.       *)
(* "priced" is plan.PriceMonthly > 0, "trial" is StartTrial together with  *)
(* plan.TrialDays > 0.                                                     *)

AssignSubscription(o, priced, trial) ==
    LET s  == created + 1
        st == IF trial THEN "trialing" ELSE IF priced THEN "past_due" ELSE "active"
        billed == priced /\ ~trial
    IN  /\ created < MaxSubs
        /\ created' = s
        /\ subOrg' = [subOrg EXCEPT ![s] = o]
        /\ subStatus' = [t \in Subs |-> IF t = s THEN st
                                        ELSE IF t \in LiveSubsOf(o) THEN "canceled"
                                        ELSE subStatus[t]]
        /\ UniqueLive(subOrg', subStatus')
        /\ periodEnd' = [periodEnd EXCEPT ![s] = now + (IF trial THEN TrialPeriod ELSE Period)]
        /\ invoice' = [invoice EXCEPT ![s] = IF billed THEN "issued" ELSE "none"]
        /\ payment' = [payment EXCEPT ![s] = IF billed THEN "pending" ELSE "none"]
        /\ SyncCredentialBillingLimit({o}, st)
        /\ UNCHANGED <<now, creating>>

(* RunSubscriptionExpiryCheck: the worker's sweep over every organization. *)
RunSubscriptionExpiryCheck ==
    LET lapsed == {s \in Subs : /\ subStatus[s] \in {"trialing", "active", "past_due"}
                                /\ periodEnd[s] < now}
    IN  /\ subStatus' = [s \in Subs |-> IF s \in lapsed THEN "expired" ELSE subStatus[s]]
        /\ SyncCredentialBillingLimit({subOrg[s] : s \in lapsed}, "expired")
        /\ UNCHANGED <<now, created, subOrg, periodEnd, invVars, creating>>

(* What transitionInvoice and transitionPayment share: the invoice, its    *)
(* subscription, its payment and the credentials change in one transaction.*)
(* Neither checks the state it finds.  The period is not extended.         *)
Settle(s, inv, pay, st) ==
    /\ invoice[s] # "none"
    /\ invoice' = [invoice EXCEPT ![s] = inv]
    /\ payment' = [payment EXCEPT ![s] = pay]
    /\ subStatus' = [subStatus EXCEPT ![s] = st]
    /\ UniqueLive(subOrg, subStatus')
    /\ SyncCredentialBillingLimit({subOrg[s]}, st)
    /\ UNCHANGED <<now, created, subOrg, periodEnd, creating>>

IfPending(s, pay) == IF payment[s] = "pending" THEN pay ELSE payment[s]

MarkInvoicePaid(s)   == Settle(s, "paid", IfPending(s, "approved"), "active")

PaymentVoided(s)      == Settle(s, "failed", IfPending(s, "void"), "past_due") \* mutant
MarkInvoiceFailed(s) == Settle(s, "failed", IfPending(s, "failed"), "past_due")

ApprovePayment(s)    == Settle(s, "paid", "approved", "active")

RejectLeavesActive(s) == Settle(s, "failed", "rejected", "active")       \* mutant
RejectPayment(s)     == Settle(s, "failed", "rejected", "past_due")

-----------------------------------------------------------------------------
(* Operations of other modules on the credential rows *)

(* credentials.Create up to ensureOrganizationAllowsCredentialCreate.  The *)
(* other things it checks (the domain, the organization's suspension, the  *)
(* username) only refuse more requests and are left out.                   *)
CheckCredentialCreate(c, o) ==
    /\ credOrg[c] = NoOrg
    /\ creating[c] = NoOrg
    /\ LatestSubscriptionState(o) \notin RestrictingStatuses
    /\ creating' = [creating EXCEPT ![c] = o]
    /\ UNCHANGED <<now, subVars, invVars, credVars>>

(* credentials.Create: the INSERT, later and in no transaction.            *)
InsertCredential(c) ==
    /\ creating[c] # NoOrg
    /\ creating' = [creating EXCEPT ![c] = NoOrg]
    /\ credOrg' = [credOrg EXCEPT ![c] = creating[c]]
    /\ limited' = [limited EXCEPT ![c] = FALSE]
    /\ limitReason' = [limitReason EXCEPT ![c] = NoReason]
    /\ exempt' = exempt \cup {c}
    /\ UNCHANGED <<now, subVars, invVars>>

(* usage.SetCredentialLimited: an administrator's limit or release, with   *)
(* any text, or none, as its reason.                                       *)
SetCredentialLimited(c, limit, r) ==
    /\ credOrg[c] # NoOrg
    /\ limited' = [limited EXCEPT ![c] = limit]
    /\ limitReason' = [limitReason EXCEPT ![c] = r]
    /\ exempt' = IF limit THEN exempt \ {c} ELSE exempt \cup {c}
    /\ UNCHANGED <<now, subVars, invVars, credOrg, creating>>

Tick ==
    /\ now < MaxTime
    /\ now' = now + 1
    /\ UNCHANGED <<subVars, invVars, credVars, creating>>

Next ==
    \/ \E o \in Orgs, priced, trial \in BOOLEAN : AssignSubscription(o, priced, trial)
    \/ RunSubscriptionExpiryCheck
    \/ \E s \in Subs : MarkInvoicePaid(s)
    \/ \E s \in Subs : MarkInvoiceFailed(s)
    \/ \E s \in Subs : ApprovePayment(s)
    \/ \E s \in Subs : RejectPayment(s)
    \/ \E c \in Creds, o \in Orgs : CheckCredentialCreate(c, o)
    \/ \E c \in Creds : InsertCredential(c)
    \/ \E c \in Creds, limit \in BOOLEAN, r \in AdminReasons \cup {NoReason} :
           SetCredentialLimited(c, limit, r)
    \/ Tick

Spec == Init /\ [][Next]_vars

-----------------------------------------------------------------------------
(* Properties *)

HasSub(o, st) == \E s \in Subs : subOrg[s] = o /\ subStatus[s] = st

(* The billing standing of an organization: the status of its live         *)
(* subscription; once it has none left, "expired".                         *)
Standing(o) ==
    IF HasSub(o, "past_due") THEN "past_due"
    ELSE IF HasSub(o, "active") THEN "active"
    ELSE IF HasSub(o, "trialing") THEN "trialing"
    ELSE IF SubsOf(o) = {} THEN "missing"
    ELSE "expired"

(* The limits on credentials agree with the standing of their organization *)
(* whatever sequence of assignments, settlements in any order, expiries    *)
(* and administrators' overrides led here: while it restricts, every       *)
(* credential is limited unless an administrator opened it, or its create  *)
(* request slipped in, after the restriction; and a billing reason stands  *)
(* only on a limited credential, naming the standing that explains it, so  *)
(* none survives the return to good standing.                              *)
CredentialLimitsFollowStanding ==
    \A c \in Creds : credOrg[c] # NoOrg =>
        LET st == Standing(credOrg[c])
        IN  /\ st \in RestrictingStatuses => limited[c] \/ c \in exempt
            /\ limitReason[c] \in BillingReasons =>
                  /\ limited[c]
                  /\ st \in RestrictingStatuses
                  /\ limitReason[c] = BillingReason(st)

(* Service follows payment: a live subscription that was invoiced is active*)
(* exactly while its invoice is paid and past due otherwise, through every *)
(* flip of the unguarded paid/failed and approved/rejected handlers, and   *)
(* one that was not invoiced is never past due.                            *)
LiveStatusFollowsInvoice ==
    \A s \in Subs : subStatus[s] \in LiveStatuses =>
        /\ invoice[s] = "paid" => subStatus[s] = "active"
        /\ invoice[s] \in {"issued", "failed"} => subStatus[s] = "past_due"
        /\ invoice[s] = "none" => subStatus[s] \in {"trialing", "active"}

(* No payment stays pending behind a settled invoice, and no invoice stays *)
(* open behind a decided payment, whichever of the four handlers decided.  *)
SettledTogether ==
    \A s \in Subs : invoice[s] = "issued" <=> payment[s] = "pending"

(* Billing never lifts a limit that an administrator placed, unless its    *)
(* text falls in the billing code's own namespace 'subscription_%': only   *)
(* another decision of an administrator does.                              *)
BillingKeepsAdminLimits ==
    [][\A c \in Creds :
          /\ limited[c]
          /\ ~BillingLike(limitReason[c])
          /\ <<limited[c], limitReason[c]>>' # <<limited[c], limitReason[c]>>
          => \E limit \in BOOLEAN, r \in AdminReasons \cup {NoReason} :
                SetCredentialLimited(c, limit, r)]_vars

(* Settling an invoice, either way, leaves its subscription as the only    *)
(* live one of its organization: the invoice of a replaced plan cannot be  *)
(* settled beside the new one.                                             *)
SettlementLeavesOneLive ==
    [][\A s \in Subs : <<invoice[s], payment[s]>>' # <<invoice[s], payment[s]>>
          => {t \in Subs : /\ subOrg'[t] = subOrg'[s]
                           /\ subStatus'[t] \in LiveStatuses} = {s}]_vars

(* The abstract state of BillingGate that a state of this module shows. *)
LockOf(c) == IF ~limited[c] THEN "open"
             ELSE IF BillingLike(limitReason[c]) THEN "billing"
             ELSE "admin"

Gate == INSTANCE BillingGate WITH
            standing <- [o \in Orgs |-> Standing(o)],
            owner    <- credOrg,
            lock     <- [c \in Creds |-> LockOf(c)]

(* Billing implements BillingGate: every transaction moves the standing of *)
(* an organization and the billing locks of all its credentials together,  *)
(* and moves nothing of any other organization.                            *)
ImplementsGate == Gate!Spec
=============================================================================
