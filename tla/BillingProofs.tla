--------------------------- MODULE BillingProofs ---------------------------
(***************************************************************************)
(* Proofs about Billing, where a transaction is one step, and then about   *)
(* Sessions, where its statements interleave with those of others: for any *)
(* set of organizations and credentials, any number of concurrent requests *)
(* and any bounds.                                                         *)
(***************************************************************************)
EXTENDS Sessions, FiniteSetTheorems, WellFoundedInduction, TLAPS

(* What every row of the tables satisfies: rows are numbered in insertion  *)
(* order, and a row that is not inserted yet has no organization, no       *)
(* status and no invoice.                                                  *)
Born(s) == s <= created

RowsInv ==
    \A s \in Subs : /\ subOrg[s] \in Orgs <=> Born(s)
                    /\ subStatus[s] = "none" <=> ~Born(s)
                    /\ invoice[s] # "none" => Born(s)
                    /\ invoice[s] = "none" <=> payment[s] = "none"

(* The inductive invariant.  The limits follow the standing only because   *)
(* an organization has one live subscription: the expiry of one of two     *)
(* would restrict the credentials of an organization in good standing.     *)
IInv == /\ TypeOK
        /\ RowsInv
        /\ UniqueLive(subOrg, subStatus)
        /\ CredentialLimitsFollowStanding

-----------------------------------------------------------------------------
(* Types *)

(* A sync writes only flags, reasons and a subset of the credentials. *)
LEMMA SyncType ==
    ASSUME TypeOK, NEW os, NEW st, SyncCredentialBillingLimit(os, st)
    PROVE  /\ limited' \in [Creds -> BOOLEAN]
           /\ limitReason' \in [Creds -> LimitReasons]
           /\ credOrg' \in [Creds -> Orgs \cup {NoOrg}]
           /\ exempt' \subseteq Creds
<1>1. st \in RestrictingStatuses => BillingReason(st) \in LimitReasons
  BY DEF LimitReasons, BillingReasons
<1>2. NoReason \in LimitReasons
  BY DEF LimitReasons
<1>3. (st \in RestrictingStatuses) \in BOOLEAN
  OBVIOUS
<1>4. \A c \in Creds : limitReason[c] \in LimitReasons /\ limited[c] \in BOOLEAN
  BY DEF TypeOK
<1>. QED
  BY <1>1, <1>2, <1>3, <1>4 DEF SyncCredentialBillingLimit, TypeOK

(* The bounds of the tables are kept by every step. *)
LEMMA NextType == TypeOK /\ [Next]_vars => TypeOK'
<1>. SUFFICES ASSUME TypeOK, [Next]_vars PROVE TypeOK'
  OBVIOUS
<1>. USE BoundsAssumption DEF Subs, TypeOK, PaymentStatuses
<1>1. ASSUME NEW o \in Orgs, NEW priced \in BOOLEAN, NEW trial \in BOOLEAN,
             AssignSubscription(o, priced, trial)
      PROVE  TypeOK'
  <2>1. PICK st : SyncCredentialBillingLimit({o}, st)
    BY <1>1 DEF AssignSubscription
  <2>2. /\ created' \in 0 .. MaxSubs
        /\ now' \in 0 .. MaxTime
        /\ creating' \in [Creds -> Orgs \cup {NoOrg}]
        /\ subOrg' \in [Subs -> Orgs \cup {NoOrg}]
        /\ periodEnd' \in [Subs -> Nat]
    BY <1>1 DEF AssignSubscription
  <2>3. subStatus' \in [Subs -> SubscriptionStatuses \cup {"none"}]
    BY <1>1 DEF AssignSubscription, SubscriptionStatuses
  <2>4. /\ invoice' \in [Subs -> {"none", "issued", "paid", "failed"}]
        /\ payment' \in [Subs -> {"none", "pending", "approved", "failed", "rejected"}]
    BY <1>1 DEF AssignSubscription
  <2>. QED
    BY <2>1, <2>2, <2>3, <2>4, SyncType
<1>2. ASSUME RunSubscriptionExpiryCheck PROVE TypeOK'
  <2>1. PICK os : SyncCredentialBillingLimit(os, "expired")
    BY <1>2 DEF RunSubscriptionExpiryCheck
  <2>2. subStatus' \in [Subs -> SubscriptionStatuses \cup {"none"}]
    BY <1>2 DEF RunSubscriptionExpiryCheck, SubscriptionStatuses
  <2>. QED
    BY <1>2, <2>1, <2>2, SyncType DEF RunSubscriptionExpiryCheck, invVars
<1>3. ASSUME NEW s \in Subs, NEW inv \in {"paid", "failed"},
             NEW pay \in {"none", "pending", "approved", "failed", "rejected"},
             NEW st \in {"active", "past_due"}, Settle(s, inv, pay, st)
      PROVE  TypeOK'
  <2>1. SyncCredentialBillingLimit({subOrg[s]}, st)
    BY <1>3 DEF Settle
  <2>. QED
    BY <1>3, <2>1, SyncType DEF Settle, SubscriptionStatuses
<1>4. ASSUME NEW s \in Subs, \/ MarkInvoicePaid(s) \/ MarkInvoiceFailed(s)
                             \/ ApprovePayment(s) \/ RejectPayment(s)
      PROVE  TypeOK'
  BY <1>3, <1>4 DEF MarkInvoicePaid, MarkInvoiceFailed, ApprovePayment, RejectPayment, IfPending
<1>5. ASSUME NEW c \in Creds, NEW o \in Orgs, CheckCredentialCreate(c, o)
      PROVE  TypeOK'
  BY <1>5 DEF CheckCredentialCreate, subVars, invVars, credVars
<1>6. ASSUME NEW c \in Creds, InsertCredential(c) PROVE TypeOK'
  BY <1>6 DEF InsertCredential, subVars, invVars, LimitReasons
<1>7. ASSUME NEW c \in Creds, NEW limit \in BOOLEAN,
             NEW r \in AdminReasons \cup {NoReason}, SetCredentialLimited(c, limit, r)
      PROVE  TypeOK'
  BY <1>7 DEF SetCredentialLimited, subVars, invVars, LimitReasons
<1>8. ASSUME Tick PROVE TypeOK'
  BY <1>8 DEF Tick, subVars, invVars, credVars
<1>9. ASSUME UNCHANGED vars PROVE TypeOK'
  BY <1>9 DEF vars, subVars, invVars, credVars
<1>. QED
  BY <1>1, <1>2, <1>4, <1>5, <1>6, <1>7, <1>8, <1>9 DEF Next

(* Every table keeps to the values that its columns and CHECK constraints  *)
(* allow, in every reachable state.                                        *)
THEOREM TypeCorrect == Spec => []TypeOK
<1>1. Init => TypeOK
  BY BoundsAssumption DEF Init, TypeOK, Subs, LimitReasons, PaymentStatuses
<1>. QED
  BY <1>1, NextType, PTL DEF Spec

-----------------------------------------------------------------------------
(* Rows and the unique index *)

(* Creating a subscription fills the next row, settling one touches a row  *)
(* that exists, and nothing else changes which rows exist.                 *)
LEMMA NextRows == TypeOK /\ RowsInv /\ [Next]_vars => RowsInv'
<1>. SUFFICES ASSUME TypeOK, RowsInv, [Next]_vars PROVE RowsInv'
  OBVIOUS
<1>. USE BoundsAssumption, OrgsAssumption DEF Subs, TypeOK, RowsInv, Born
<1>1. ASSUME NEW o \in Orgs, NEW priced \in BOOLEAN, NEW trial \in BOOLEAN,
             AssignSubscription(o, priced, trial)
      PROVE  RowsInv'
  <2>1. /\ created' = created + 1
        /\ created + 1 \in Subs
        /\ subOrg' = [subOrg EXCEPT ![created + 1] = o]
    BY <1>1 DEF AssignSubscription
  <2>2. \A s \in Subs : subStatus'[s] = "none" <=> s # created + 1 /\ subStatus[s] = "none"
    BY <1>1, <2>1 DEF AssignSubscription, LiveSubsOf, LiveStatuses
  <2>3. \A s \in Subs \ {created + 1} : invoice'[s] = invoice[s] /\ payment'[s] = payment[s]
    BY <1>1 DEF AssignSubscription
  <2>4. invoice'[created + 1] = "none" <=> payment'[created + 1] = "none"
    BY <1>1, <2>1 DEF AssignSubscription
  <2>5. subStatus'[created + 1] # "none"
    BY <1>1, <2>1 DEF AssignSubscription
  <2>6. ASSUME NEW s \in Subs
        PROVE  /\ subOrg'[s] \in Orgs <=> s <= created'
               /\ subStatus'[s] = "none" <=> ~(s <= created')
               /\ invoice'[s] # "none" => s <= created'
               /\ invoice'[s] = "none" <=> payment'[s] = "none"
    <3>1. CASE s = created + 1
      BY <2>1, <2>4, <2>5, <3>1
    <3>2. CASE s # created + 1
      BY <2>1, <2>2, <2>3, <3>2
    <3>. QED
      BY <3>1, <3>2
  <2>. QED
    BY <2>6
<1>2. ASSUME RunSubscriptionExpiryCheck PROVE RowsInv'
  BY <1>2 DEF RunSubscriptionExpiryCheck, invVars
<1>3. ASSUME NEW s \in Subs, NEW inv \in {"paid", "failed"},
             NEW pay \in {"pending", "approved", "failed", "rejected"},
             NEW st \in {"active", "past_due"}, Settle(s, inv, pay, st)
      PROVE  RowsInv'
  BY <1>3 DEF Settle
<1>4. ASSUME NEW s \in Subs, \/ MarkInvoicePaid(s) \/ MarkInvoiceFailed(s)
                             \/ ApprovePayment(s) \/ RejectPayment(s)
      PROVE  RowsInv'
  <2>1. invoice[s] # "none"
    BY <1>4 DEF MarkInvoicePaid, MarkInvoiceFailed, ApprovePayment, RejectPayment, Settle
  <2>2. payment[s] \in {"pending", "approved", "failed", "rejected"}
    BY <2>1 DEF PaymentStatuses
  <2>. QED
    BY <1>3, <1>4, <2>2 DEF MarkInvoicePaid, MarkInvoiceFailed, ApprovePayment, RejectPayment, IfPending
<1>5. ASSUME UNCHANGED <<subVars, invVars>> PROVE RowsInv'
  BY <1>5 DEF subVars, invVars
<1>. QED
  BY <1>1, <1>2, <1>4, <1>5 DEF Next, vars, CheckCredentialCreate, InsertCredential,
     SetCredentialLimited, Tick

(* The index is what settling and assigning are checked against, and the   *)
(* sweep only takes statuses out of it.                                    *)
LEMMA NextUnique ==
    TypeOK /\ UniqueLive(subOrg, subStatus) /\ [Next]_vars => UniqueLive(subOrg, subStatus)'
<1>. SUFFICES ASSUME TypeOK, UniqueLive(subOrg, subStatus), [Next]_vars
              PROVE  UniqueLive(subOrg, subStatus)'
  OBVIOUS
<1>1. ASSUME NEW o \in Orgs, NEW priced \in BOOLEAN, NEW trial \in BOOLEAN,
             AssignSubscription(o, priced, trial)
      PROVE  UniqueLive(subOrg, subStatus)'
  BY <1>1 DEF AssignSubscription, UniqueLive
<1>2. ASSUME RunSubscriptionExpiryCheck PROVE UniqueLive(subOrg, subStatus)'
  BY <1>2 DEF RunSubscriptionExpiryCheck, UniqueLive, LiveStatuses, TypeOK
<1>3. ASSUME NEW s \in Subs, \/ MarkInvoicePaid(s) \/ MarkInvoiceFailed(s)
                             \/ ApprovePayment(s) \/ RejectPayment(s)
      PROVE  UniqueLive(subOrg, subStatus)'
  BY <1>3 DEF MarkInvoicePaid, MarkInvoiceFailed, ApprovePayment, RejectPayment, Settle,
     UniqueLive
<1>4. ASSUME UNCHANGED subVars PROVE UniqueLive(subOrg, subStatus)'
  BY <1>4 DEF subVars, UniqueLive
<1>. QED
  BY <1>1, <1>2, <1>3, <1>4 DEF Next, vars, CheckCredentialCreate, InsertCredential,
     SetCredentialLimited, Tick

-----------------------------------------------------------------------------
(* The standing of an organization *)

(* A subscription that a step leaves as the only live one of its           *)
(* organization decides the standing.                                      *)
LEMMA StandingOfLive ==
    ASSUME NEW o, NEW s \in Subs, subOrg'[s] = o,
           subStatus'[s] \in {"trialing", "active", "past_due"},
           \A t \in Subs : subOrg'[t] = o /\ subStatus'[t] \in LiveStatuses => t = s
    PROVE  Standing(o)' = subStatus'[s]
BY DEF Standing, HasSub, LiveStatuses

(* An organization that a step leaves with subscriptions, none of them     *)
(* live, is expired.                                                       *)
LEMMA StandingExpired ==
    ASSUME NEW o, NEW s \in Subs, subOrg'[s] = o,
           \A t \in Subs : subOrg'[t] = o => subStatus'[t] \notin LiveStatuses
    PROVE  Standing(o)' = "expired"
BY DEF Standing, HasSub, LiveStatuses, SubsOf

(* A standing is a matter of the organization's own rows. *)
LEMMA StandingFrame ==
    ASSUME NEW p,
           \A s \in Subs : /\ subOrg'[s] = p <=> subOrg[s] = p
                           /\ subOrg[s] = p => subStatus'[s] = subStatus[s]
    PROVE  Standing(p)' = Standing(p)
<1>1. \A st : HasSub(p, st)' = HasSub(p, st)
  BY DEF HasSub
<1>2. (SubsOf(p) = {})' = (SubsOf(p) = {})
  BY DEF SubsOf
<1>. QED
  BY <1>1, <1>2 DEF Standing

-----------------------------------------------------------------------------
(* The limits on credentials *)

(* What CredentialLimitsFollowStanding says of one credential under the    *)
(* standing st of its organization.                                        *)
Follows(c, st) ==
    /\ st \in RestrictingStatuses => limited[c] \/ c \in exempt
    /\ limitReason[c] \in BillingReasons =>
          /\ limited[c]
          /\ st \in RestrictingStatuses
          /\ limitReason[c] = BillingReason(st)

(* A sync leaves every credential of its organizations in agreement with   *)
(* the status it was called with.                                          *)
LEMMA SyncFollows ==
    ASSUME TypeOK, NEW os, NEW st, SyncCredentialBillingLimit(os, st),
           NEW c \in Creds, credOrg[c] \in os
    PROVE  Follows(c, st)'
<1>. DEFINE restrict == st \in RestrictingStatuses
            hit == SyncedCredentials(os, st)
<1>1. /\ limited'[c] = IF c \in hit THEN restrict ELSE limited[c]
      /\ limitReason'[c] = IF c \notin hit THEN limitReason[c]
                           ELSE IF restrict THEN BillingReason(st) ELSE NoReason
  BY DEF SyncCredentialBillingLimit
<1>2. c \in hit <=> BillingLike(limitReason[c]) \/ (restrict /\ ~limited[c])
  BY DEF SyncedCredentials
<1>3. NoReason \notin BillingReasons
  BY DEF NoReason, BillingReasons, RestrictingStatuses, BillingReason
<1>4. limitReason[c] \in BillingReasons => BillingLike(limitReason[c])
  BY DEF BillingLike
<1>5. limited[c] \in BOOLEAN
  BY DEF TypeOK
<1>6. CASE c \in hit
  BY <1>1, <1>3, <1>6 DEF Follows
<1>7. CASE c \notin hit
  BY <1>1, <1>2, <1>4, <1>5, <1>7 DEF Follows
<1>. QED
  BY <1>6, <1>7

(* A sync of other organizations leaves a credential as it was. *)
LEMMA SyncFrame ==
    ASSUME NEW os, NEW st, SyncCredentialBillingLimit(os, st),
           NEW c \in Creds, credOrg[c] \notin os
    PROVE  \A x : Follows(c, x)' <=> Follows(c, x)
<1>1. limited'[c] = limited[c] /\ limitReason'[c] = limitReason[c]
  BY DEF SyncCredentialBillingLimit, SyncedCredentials
<1>2. c \in exempt' <=> c \in exempt
  BY DEF SyncCredentialBillingLimit
<1>. QED
  BY <1>1, <1>2 DEF Follows

(* The three ways a transaction of billing changes standings.              *)
LEMMA AssignStanding ==
    ASSUME TypeOK, RowsInv, NEW o \in Orgs, NEW priced \in BOOLEAN, NEW trial \in BOOLEAN,
           AssignSubscription(o, priced, trial)
    PROVE  \E st \in {"trialing", "active", "past_due"} :
              /\ SyncCredentialBillingLimit({o}, st)
              /\ Standing(o)' = st
              /\ \A p \in Orgs \ {o} : Standing(p)' = Standing(p)
<1>. USE BoundsAssumption, OrgsAssumption DEF TypeOK
<1>. DEFINE s == created + 1
            st == IF trial THEN "trialing" ELSE IF priced THEN "past_due" ELSE "active"
<1>1. /\ s \in Subs
      /\ subOrg' = [subOrg EXCEPT ![s] = o]
      /\ subStatus' = [t \in Subs |-> IF t = s THEN st
                                      ELSE IF t \in LiveSubsOf(o) THEN "canceled"
                                      ELSE subStatus[t]]
      /\ SyncCredentialBillingLimit({o}, st)
  BY DEF AssignSubscription, Subs
<1>2. Standing(o)' = st
  <2>1. subOrg'[s] = o /\ subStatus'[s] = st
    BY <1>1
  <2>2. st \in {"trialing", "active", "past_due"}
    OBVIOUS
  <2>3. \A t \in Subs : subOrg'[t] = o /\ subStatus'[t] \in LiveStatuses => t = s
    BY <1>1 DEF LiveSubsOf, SubsOf, LiveStatuses
  <2>. QED
    BY <1>1, <2>1, <2>2, <2>3, StandingOfLive
<1>3. ASSUME NEW p \in Orgs \ {o} PROVE Standing(p)' = Standing(p)
  <2>1. subOrg[s] = NoOrg
    BY <1>1 DEF RowsInv, Born, Subs
  <2>2. \A t \in Subs : /\ subOrg'[t] = p <=> subOrg[t] = p
                        /\ subOrg[t] = p => subStatus'[t] = subStatus[t]
    BY <1>1, <2>1 DEF LiveSubsOf, SubsOf
  <2>. QED
    BY <2>2, StandingFrame
<1>. QED
  BY <1>1, <1>2, <1>3

LEMMA SettleStanding ==
    ASSUME TypeOK, RowsInv, NEW s \in Subs, NEW inv, NEW pay,
           NEW st \in {"active", "past_due"}, Settle(s, inv, pay, st)
    PROVE  \E o \in Orgs :
              /\ SyncCredentialBillingLimit({o}, st)
              /\ Standing(o)' = st
              /\ \A p \in Orgs \ {o} : Standing(p)' = Standing(p)
<1>. USE DEF TypeOK
<1>1. /\ subOrg' = subOrg
      /\ subStatus' = [subStatus EXCEPT ![s] = st]
      /\ UniqueLive(subOrg, subStatus')
      /\ SyncCredentialBillingLimit({subOrg[s]}, st)
  BY DEF Settle
<1>2. PICK o \in Orgs : o = subOrg[s]
  BY DEF Settle, RowsInv
<1>3. Standing(o)' = st
  <2>1. subOrg'[s] = o /\ subStatus'[s] = st
    BY <1>1, <1>2
  <2>2. \A t \in Subs : subOrg'[t] = o /\ subStatus'[t] \in LiveStatuses => t = s
    BY <1>1, <2>1 DEF UniqueLive, LiveStatuses
  <2>. QED
    BY <2>1, <2>2, StandingOfLive
<1>4. ASSUME NEW p \in Orgs \ {o} PROVE Standing(p)' = Standing(p)
  <2>1. \A t \in Subs : /\ subOrg'[t] = p <=> subOrg[t] = p
                        /\ subOrg[t] = p => subStatus'[t] = subStatus[t]
    BY <1>1, <1>2
  <2>. QED
    BY <2>1, StandingFrame
<1>. QED
  BY <1>1, <1>2, <1>3, <1>4

LEMMA ExpiryStanding ==
    ASSUME TypeOK, RowsInv, UniqueLive(subOrg, subStatus), RunSubscriptionExpiryCheck
    PROVE  \E os \in SUBSET Orgs :
              /\ SyncCredentialBillingLimit(os, "expired")
              /\ \A o \in os : Standing(o)' = "expired"
              /\ \A p \in Orgs \ os : Standing(p)' = Standing(p)
<1>. USE DEF TypeOK
<1>. DEFINE lapsed == {s \in Subs : /\ subStatus[s] \in {"trialing", "active", "past_due"}
                                    /\ periodEnd[s] < now}
            os == {subOrg[s] : s \in lapsed}
<1>1. /\ subOrg' = subOrg
      /\ subStatus' = [s \in Subs |-> IF s \in lapsed THEN "expired" ELSE subStatus[s]]
      /\ SyncCredentialBillingLimit(os, "expired")
  BY DEF RunSubscriptionExpiryCheck
<1>2. os \in SUBSET Orgs
  BY DEF RowsInv
<1>3. ASSUME NEW o \in os PROVE Standing(o)' = "expired"
  <2>1. PICK s \in lapsed : subOrg[s] = o
    OBVIOUS
  <2>2. \A t \in Subs : subOrg'[t] = o => subStatus'[t] \notin LiveStatuses
    BY <1>1, <2>1 DEF UniqueLive, LiveStatuses
  <2>3. subOrg'[s] = o
    BY <1>1, <2>1
  <2>. QED
    BY <2>2, <2>3, StandingExpired
<1>4. ASSUME NEW p \in Orgs \ os PROVE Standing(p)' = Standing(p)
  <2>1. \A t \in Subs : /\ subOrg'[t] = p <=> subOrg[t] = p
                        /\ subOrg[t] = p => subStatus'[t] = subStatus[t]
    BY <1>1, <1>4
  <2>. QED
    BY <2>1, StandingFrame
<1>. QED
  BY <1>1, <1>2, <1>3, <1>4

(* A step that moves the organizations os to standing st, syncs their      *)
(* credentials with st, and leaves the standing of the others alone keeps  *)
(* limits and standings in agreement.                                      *)
LEMMA SyncKeepsFollowing ==
    ASSUME TypeOK, CredentialLimitsFollowStanding, NEW os, NEW st,
           SyncCredentialBillingLimit(os, st),
           \A o \in os : Standing(o)' = st,
           \A p \in Orgs \ os : Standing(p)' = Standing(p)
    PROVE  CredentialLimitsFollowStanding'
<1>. SUFFICES ASSUME NEW c \in Creds, credOrg'[c] # NoOrg
              PROVE  Follows(c, Standing(credOrg[c]))'
  BY DEF CredentialLimitsFollowStanding, Follows
<1>1. credOrg' = credOrg /\ credOrg[c] \in Orgs
  BY DEF SyncCredentialBillingLimit, TypeOK
<1>2. CASE credOrg[c] \in os
  <2>1. Follows(c, st)'
    BY <1>2, SyncFollows
  <2>2. Standing(credOrg[c])' = st
    BY <1>1, <1>2
  <2>. QED
    BY <2>1, <2>2, <1>1 DEF Follows
<1>3. CASE credOrg[c] \notin os
  <2>1. Follows(c, Standing(credOrg[c]))
    BY <1>1 DEF CredentialLimitsFollowStanding, Follows
  <2>2. Standing(credOrg[c])' = Standing(credOrg[c])
    BY <1>1, <1>3
  <2>3. Follows(c, Standing(credOrg[c]))' <=> Follows(c, Standing(credOrg[c]))
    BY <1>1, <1>3, <2>2, SyncFrame DEF Follows
  <2>. QED
    BY <2>1, <2>3
<1>. QED
  BY <1>2, <1>3

(* A step that leaves the subscriptions alone leaves every standing. *)
LEMMA UnchangedStanding ==
    ASSUME UNCHANGED subVars PROVE \A p \in Orgs : Standing(p)' = Standing(p)
BY DEF subVars, Standing, HasSub, SubsOf

(* Every step, seen from the credentials: a transaction of billing that    *)
(* moves some organizations to a standing and syncs their credentials with *)
(* it, the insert of a credential, the decision of an administrator, or a  *)
(* step that concerns neither.                                             *)
BillingTransaction ==
    \E os \in SUBSET Orgs, st \in {"trialing", "active", "past_due", "expired"} :
        /\ SyncCredentialBillingLimit(os, st)
        /\ \A o \in os : Standing(o)' = st
        /\ \A p \in Orgs \ os : Standing(p)' = Standing(p)
        /\ UNCHANGED creating

AdminDecision(c) ==
    \E limit \in BOOLEAN, r \in AdminReasons \cup {NoReason} : SetCredentialLimited(c, limit, r)

LEMMA StepKinds ==
    ASSUME TypeOK, RowsInv, UniqueLive(subOrg, subStatus), [Next]_vars
    PROVE  \/ BillingTransaction
           \/ \E c \in Creds : InsertCredential(c)
           \/ \E c \in Creds : AdminDecision(c)
           \/ \E c \in Creds, o \in Orgs : CheckCredentialCreate(c, o)
           \/ UNCHANGED <<subVars, credVars, creating>>
<1>1. ASSUME NEW o \in Orgs, NEW priced \in BOOLEAN, NEW trial \in BOOLEAN,
             AssignSubscription(o, priced, trial)
      PROVE  BillingTransaction
  <2>1. PICK st \in {"trialing", "active", "past_due"} :
                  /\ SyncCredentialBillingLimit({o}, st)
                  /\ Standing(o)' = st
                  /\ \A p \in Orgs \ {o} : Standing(p)' = Standing(p)
    BY <1>1, AssignStanding
  <2>2. UNCHANGED creating
    BY <1>1 DEF AssignSubscription
  <2>. QED
    BY <2>1, <2>2 DEF BillingTransaction
<1>2. ASSUME RunSubscriptionExpiryCheck PROVE BillingTransaction
  <2>1. UNCHANGED creating
    BY <1>2 DEF RunSubscriptionExpiryCheck
  <2>. QED
    BY <1>2, <2>1, ExpiryStanding DEF BillingTransaction
<1>3. ASSUME NEW s \in Subs, NEW inv, NEW pay, NEW st \in {"active", "past_due"},
             Settle(s, inv, pay, st)
      PROVE  BillingTransaction
  <2>1. PICK o \in Orgs : /\ SyncCredentialBillingLimit({o}, st)
                          /\ Standing(o)' = st
                          /\ \A p \in Orgs \ {o} : Standing(p)' = Standing(p)
    BY <1>3, SettleStanding
  <2>2. UNCHANGED creating
    BY <1>3 DEF Settle
  <2>. QED
    BY <2>1, <2>2 DEF BillingTransaction
<1>4. ASSUME NEW s \in Subs, \/ MarkInvoicePaid(s) \/ MarkInvoiceFailed(s)
                             \/ ApprovePayment(s) \/ RejectPayment(s)
      PROVE  BillingTransaction
  BY <1>3, <1>4 DEF MarkInvoicePaid, MarkInvoiceFailed, ApprovePayment, RejectPayment
<1>5. ASSUME Tick \/ UNCHANGED vars PROVE UNCHANGED <<subVars, credVars, creating>>
  BY <1>5 DEF Tick, vars
<1>. QED
  BY <1>1, <1>2, <1>4, <1>5 DEF Next, AdminDecision

(* Agreement is kept by every step: by the transactions of billing because *)
(* they sync the organizations whose standing they change, by the inserts  *)
(* and the administrators' decisions because they are recorded as exempt.  *)
LEMMA NextFollows == IInv /\ [Next]_vars => CredentialLimitsFollowStanding'
<1>. SUFFICES ASSUME IInv, [Next]_vars PROVE CredentialLimitsFollowStanding'
  OBVIOUS
<1>. USE DEF IInv
<1>1. ASSUME BillingTransaction PROVE CredentialLimitsFollowStanding'
  BY <1>1, SyncKeepsFollowing DEF BillingTransaction
<1>5. ASSUME UNCHANGED <<subVars, credVars>> PROVE CredentialLimitsFollowStanding'
  <2>1. \A p \in Orgs : Standing(p)' = Standing(p)
    BY <1>5, UnchangedStanding
  <2>2. credOrg \in [Creds -> Orgs \cup {NoOrg}]
    BY DEF TypeOK
  <2>. QED
    BY <1>5, <2>1, <2>2 DEF CredentialLimitsFollowStanding, credVars
<1>6. ASSUME NEW c \in Creds, UNCHANGED subVars, credOrg'[c] \in Orgs \cup {NoOrg},
             \A d \in Creds \ {c} : /\ credOrg'[d] = credOrg[d]
                                    /\ limited'[d] = limited[d]
                                    /\ limitReason'[d] = limitReason[d]
                                    /\ d \in exempt' <=> d \in exempt,
             limited'[c] \/ c \in exempt', limitReason'[c] \notin BillingReasons
      PROVE  CredentialLimitsFollowStanding'
  <2>1. \A p \in Orgs : Standing(p)' = Standing(p)
    BY <1>6, UnchangedStanding
  <2>2. credOrg \in [Creds -> Orgs \cup {NoOrg}]
    BY DEF TypeOK
  <2>3. ASSUME NEW d \in Creds, credOrg'[d] # NoOrg
        PROVE  Follows(d, Standing(credOrg[d]))'
    <3>1. CASE d = c
      BY <1>6, <3>1 DEF Follows
    <3>2. CASE d # c
      <4>1. credOrg'[d] = credOrg[d] /\ credOrg[d] \in Orgs
        BY <1>6, <2>2, <2>3, <3>2
      <4>2. Follows(d, Standing(credOrg[d]))
        BY <2>3, <4>1 DEF CredentialLimitsFollowStanding, Follows
      <4>3. Standing(credOrg[d])' = Standing(credOrg[d])
        BY <2>1, <4>1
      <4>. QED
        BY <1>6, <3>2, <4>2, <4>3 DEF Follows
    <3>. QED
      BY <3>1, <3>2
  <2>. QED
    BY <2>3 DEF CredentialLimitsFollowStanding, Follows
<1>7. NoReason \notin BillingReasons
  BY DEF NoReason, BillingReasons, RestrictingStatuses, BillingReason
<1>8. ASSUME NEW c \in Creds, InsertCredential(c) PROVE CredentialLimitsFollowStanding'
  BY <1>6, <1>7, <1>8 DEF InsertCredential, TypeOK
<1>9. ASSUME NEW c \in Creds, AdminDecision(c) PROVE CredentialLimitsFollowStanding'
  <2>1. PICK limit \in BOOLEAN, r \in AdminReasons \cup {NoReason} :
            SetCredentialLimited(c, limit, r)
    BY <1>9 DEF AdminDecision
  <2>2. r \notin BillingReasons
    BY <1>7, ReasonsAssumption
  <2>. QED
    BY <1>6, <2>1, <2>2 DEF SetCredentialLimited, TypeOK
<1>. QED
  BY <1>1, <1>5, <1>8, <1>9, StepKinds DEF CheckCredentialCreate

(* IInv is inductive. *)
THEOREM InductiveInvariant == Spec => []IInv
<1>1. Init => IInv
  <2>1. Init => TypeOK
    BY BoundsAssumption DEF Init, TypeOK, Subs, LimitReasons, PaymentStatuses
  <2>2. Init => RowsInv
    BY BoundsAssumption, OrgsAssumption DEF Init, RowsInv, Subs, Born
  <2>3. Init => UniqueLive(subOrg, subStatus)
    BY DEF Init, UniqueLive, LiveStatuses
  <2>4. Init => CredentialLimitsFollowStanding
    BY DEF Init, CredentialLimitsFollowStanding
  <2>. QED
    BY <2>1, <2>2, <2>3, <2>4 DEF IInv
<1>2. IInv /\ [Next]_vars => IInv'
  BY NextType, NextRows, NextUnique, NextFollows DEF IInv
<1>. QED
  BY <1>1, <1>2, PTL DEF Spec

(* In every reachable state the limits on credentials agree with the       *)
(* standing of their organization (see CredentialLimitsFollowStanding).    *)
THEOREM LimitsFollowStanding == Spec => []CredentialLimitsFollowStanding
BY InductiveInvariant, PTL DEF IInv

-----------------------------------------------------------------------------
(* Invoices, payments and subscriptions *)

(* Each handler moves the three rows together: the new invoice status, the *)
(* subscription status that goes with it, and a payment that is no longer  *)
(* pending.                                                                *)
LEMMA SettlementShape ==
    ASSUME TypeOK, NEW s \in Subs, \/ MarkInvoicePaid(s) \/ MarkInvoiceFailed(s)
                                   \/ ApprovePayment(s) \/ RejectPayment(s)
    PROVE  \E inv \in {"paid", "failed"}, pay \in PaymentStatuses :
           LET st == IF inv = "paid" THEN "active" ELSE "past_due" IN
              /\ pay # "pending"
              /\ Settle(s, inv, pay, st)
BY DEF MarkInvoicePaid, MarkInvoiceFailed, ApprovePayment, RejectPayment, IfPending, TypeOK, PaymentStatuses

InvoiceInv == TypeOK /\ RowsInv /\ LiveStatusFollowsInvoice /\ SettledTogether

LEMMA NextInvoices ==
    InvoiceInv /\ [Next]_vars => LiveStatusFollowsInvoice' /\ SettledTogether'
<1>. SUFFICES ASSUME InvoiceInv, [Next]_vars
              PROVE  LiveStatusFollowsInvoice' /\ SettledTogether'
  OBVIOUS
<1>. USE DEF InvoiceInv, TypeOK, LiveStatusFollowsInvoice, SettledTogether
<1>1. ASSUME NEW o \in Orgs, NEW priced \in BOOLEAN, NEW trial \in BOOLEAN,
             AssignSubscription(o, priced, trial)
      PROVE  LiveStatusFollowsInvoice' /\ SettledTogether'
  <2>. DEFINE n == created + 1
  <2>1. n \in Subs
    BY <1>1, BoundsAssumption DEF AssignSubscription, Subs
  <2>2. ASSUME NEW s \in Subs, s = n
        PROVE  /\ invoice'[s] \in {"none", "issued"}
               /\ invoice'[s] = "issued" <=> payment'[s] = "pending"
               /\ invoice'[s] = "issued" => subStatus'[s] = "past_due"
               /\ invoice'[s] = "none" => subStatus'[s] \in {"trialing", "active"}
    BY <1>1, <2>1, <2>2 DEF AssignSubscription
  <2>3. ASSUME NEW s \in Subs, s # n
        PROVE  /\ invoice'[s] = invoice[s] /\ payment'[s] = payment[s]
               /\ subStatus'[s] \in LiveStatuses => subStatus'[s] = subStatus[s]
    BY <1>1, <2>3 DEF AssignSubscription, LiveStatuses
  <2>. QED
    BY <2>2, <2>3
<1>2. ASSUME RunSubscriptionExpiryCheck PROVE LiveStatusFollowsInvoice' /\ SettledTogether'
  BY <1>2 DEF RunSubscriptionExpiryCheck, invVars, LiveStatuses
<1>3. ASSUME NEW s \in Subs, \/ MarkInvoicePaid(s) \/ MarkInvoiceFailed(s)
                             \/ ApprovePayment(s) \/ RejectPayment(s)
      PROVE  LiveStatusFollowsInvoice' /\ SettledTogether'
  <2>1. PICK inv \in {"paid", "failed"}, pay \in PaymentStatuses :
              /\ pay # "pending"
              /\ Settle(s, inv, pay, IF inv = "paid" THEN "active" ELSE "past_due")
    BY <1>3, SettlementShape
  <2>. QED
    BY <2>1 DEF Settle
<1>4. ASSUME UNCHANGED <<subVars, invVars>>
      PROVE  LiveStatusFollowsInvoice' /\ SettledTogether'
  BY <1>4 DEF subVars, invVars
<1>. QED
  BY <1>1, <1>2, <1>3, <1>4 DEF Next, vars, CheckCredentialCreate, InsertCredential,
     SetCredentialLimited, Tick

LEMMA InvoiceInvariant == Spec => []InvoiceInv
<1>1. Init => LiveStatusFollowsInvoice /\ SettledTogether
  BY DEF Init, LiveStatusFollowsInvoice, SettledTogether, LiveStatuses
<1>2. IInv => TypeOK /\ RowsInv
  BY DEF IInv
<1>3. Init /\ IInv => InvoiceInv
  BY <1>1, <1>2 DEF InvoiceInv
<1>4. InvoiceInv /\ IInv' /\ [Next]_vars => InvoiceInv'
  BY NextInvoices DEF InvoiceInv, IInv
<1>. QED
  BY <1>3, <1>4, InductiveInvariant, PTL DEF Spec

(* A live subscription is active exactly while its invoice is paid.        *)
THEOREM ServiceFollowsPayment == Spec => []LiveStatusFollowsInvoice
BY InvoiceInvariant, PTL DEF InvoiceInv

(* An invoice is open exactly while its payment is pending. *)
THEOREM InvoiceAndPaymentSettleTogether == Spec => []SettledTogether
BY InvoiceInvariant, PTL DEF InvoiceInv

(* Settling an invoice leaves its subscription the only live one of its    *)
(* organization.                                                           *)
THEOREM SettlementLeavesOne == Spec => SettlementLeavesOneLive
<1>. DEFINE Touched(s) == <<invoice[s], payment[s]>>' # <<invoice[s], payment[s]>>
            LiveAfter(s) == {t \in Subs : subOrg'[t] = subOrg'[s] /\ subStatus'[t] \in LiveStatuses}
<1>1. ASSUME IInv, IInv', [Next]_vars, NEW s \in Subs, Touched(s)
      PROVE  LiveAfter(s) = {s}
  <2>. USE DEF IInv, TypeOK
  <2>1. subStatus'[s] \in LiveStatuses
    <3>1. ASSUME NEW o \in Orgs, NEW priced \in BOOLEAN, NEW trial \in BOOLEAN,
                 AssignSubscription(o, priced, trial)
          PROVE  subStatus'[s] \in LiveStatuses
      <4>1. s = created + 1
        BY <1>1, <3>1 DEF AssignSubscription
      <4>. QED
        BY <3>1, <4>1 DEF AssignSubscription, LiveStatuses
    <3>2. ASSUME NEW t \in Subs, \/ MarkInvoicePaid(t) \/ MarkInvoiceFailed(t)
                                 \/ ApprovePayment(t) \/ RejectPayment(t)
          PROVE  subStatus'[s] \in LiveStatuses
      <4>1. PICK inv \in {"paid", "failed"}, pay \in PaymentStatuses :
                  Settle(t, inv, pay, IF inv = "paid" THEN "active" ELSE "past_due")
        BY <1>1, <3>2, SettlementShape
      <4>2. s = t
        BY <1>1, <4>1 DEF Settle
      <4>. QED
        BY <1>1, <4>1, <4>2 DEF Settle, LiveStatuses
    <3>3. ~ UNCHANGED invVars
      BY <1>1 DEF invVars
    <3>. QED
      BY <1>1, <3>1, <3>2, <3>3 DEF Next, vars, RunSubscriptionExpiryCheck,
         CheckCredentialCreate, InsertCredential, SetCredentialLimited, Tick
  <2>2. UniqueLive(subOrg', subStatus')
    BY <1>1 DEF UniqueLive
  <2>. QED
    BY <2>1, <2>2 DEF UniqueLive
<1>2. IInv /\ IInv' /\ [Next]_vars =>
         [\A s \in Subs : <<invoice[s], payment[s]>>' # <<invoice[s], payment[s]>>
            => {t \in Subs : /\ subOrg'[t] = subOrg'[s]
                             /\ subStatus'[t] \in LiveStatuses} = {s}]_vars
  BY <1>1
<1>. QED
  BY <1>2, InductiveInvariant, PTL DEF Spec, SettlementLeavesOneLive

-----------------------------------------------------------------------------
(* Administrators' limits *)

(* A credential that is not inserted yet carries no limit, and a create    *)
(* request is about such a one.                                            *)
CredentialRows ==
    \A c \in Creds : /\ credOrg[c] = NoOrg => ~limited[c]
                     /\ creating[c] # NoOrg => credOrg[c] = NoOrg

LEMMA NextCredentialRows == IInv /\ CredentialRows /\ [Next]_vars => CredentialRows'
<1>. SUFFICES ASSUME IInv, CredentialRows, [Next]_vars PROVE CredentialRows'
  OBVIOUS
<1>. USE OrgsAssumption DEF CredentialRows, IInv, TypeOK
<1>1. ASSUME BillingTransaction PROVE CredentialRows'
  BY <1>1 DEF BillingTransaction, SyncCredentialBillingLimit, SyncedCredentials
<1>2. ASSUME NEW c \in Creds, InsertCredential(c) PROVE CredentialRows'
  BY <1>2 DEF InsertCredential
<1>3. ASSUME NEW c \in Creds, AdminDecision(c) PROVE CredentialRows'
  BY <1>3 DEF AdminDecision, SetCredentialLimited
<1>4. ASSUME NEW c \in Creds, NEW o \in Orgs, CheckCredentialCreate(c, o)
      PROVE  CredentialRows'
  BY <1>4 DEF CheckCredentialCreate, credVars
<1>5. ASSUME UNCHANGED <<subVars, credVars, creating>> PROVE CredentialRows'
  BY <1>5 DEF credVars
<1>. QED
  BY <1>1, <1>2, <1>3, <1>4, <1>5, StepKinds

LEMMA CredentialRowsInvariant == Spec => []CredentialRows
<1>1. Init => CredentialRows
  BY DEF Init, CredentialRows
<1>. QED
  BY <1>1, NextCredentialRows, InductiveInvariant, PTL DEF Spec

(* No step but an administrator's own changes a limit whose reason billing *)
(* does not take for its own.                                              *)
THEOREM AdminLimitsKept == Spec => BillingKeepsAdminLimits
<1>1. ASSUME IInv, CredentialRows, [Next]_vars, NEW c \in Creds,
             limited[c], ~BillingLike(limitReason[c]),
             <<limited[c], limitReason[c]>>' # <<limited[c], limitReason[c]>>
      PROVE  AdminDecision(c)
  <2>. USE <1>1 DEF IInv, TypeOK
  <2>1. ~BillingTransaction
    BY DEF BillingTransaction, SyncCredentialBillingLimit, SyncedCredentials
  <2>2. ~ \E d \in Creds : InsertCredential(d)
    BY DEF InsertCredential, CredentialRows
  <2>3. ~ \E d \in Creds, o \in Orgs : CheckCredentialCreate(d, o)
    BY DEF CheckCredentialCreate, credVars
  <2>4. ~ UNCHANGED <<subVars, credVars, creating>>
    BY DEF credVars
  <2>5. PICK d \in Creds : AdminDecision(d)
    BY <2>1, <2>2, <2>3, <2>4, StepKinds
  <2>6. d = c
    BY <2>5 DEF AdminDecision, SetCredentialLimited
  <2>. QED
    BY <2>5, <2>6
<1>2. IInv /\ CredentialRows /\ [Next]_vars =>
        [\A c \in Creds :
          /\ limited[c]
          /\ ~BillingLike(limitReason[c])
          /\ <<limited[c], limitReason[c]>>' # <<limited[c], limitReason[c]>>
          => \E limit \in BOOLEAN, r \in AdminReasons \cup {NoReason} :
                SetCredentialLimited(c, limit, r)]_vars
  BY <1>1 DEF AdminDecision
<1>. QED
  BY <1>2, InductiveInvariant, CredentialRowsInvariant, PTL DEF Spec, BillingKeepsAdminLimits

-----------------------------------------------------------------------------
(* Refinement *)

(* Billing implements BillingGate, the promise of one atomic move of an    *)
(* organization's standing and the billing locks of its credentials.       *)
THEOREM Refinement == Spec => ImplementsGate
<1>1. Init => Gate!Init
  BY OrgsAssumption DEF Init, Gate!Init, Standing, HasSub, SubsOf, LockOf
<1>2. IInv /\ CredentialRows /\ [Next]_vars => [Gate!Next]_(Gate!gateVars)
  <2>. SUFFICES ASSUME IInv, CredentialRows, [Next]_vars
                PROVE  Gate!Next \/ UNCHANGED Gate!gateVars
    OBVIOUS
  <2>. USE OrgsAssumption DEF IInv, TypeOK
  <2>1. ASSUME BillingTransaction PROVE Gate!Next
    <3>1. PICK os \in SUBSET Orgs, st \in {"trialing", "active", "past_due", "expired"} :
              /\ SyncCredentialBillingLimit(os, st)
              /\ \A o \in os : Standing(o)' = st
              /\ \A p \in Orgs \ os : Standing(p)' = Standing(p)
      BY <2>1 DEF BillingTransaction
    <3>2. ASSUME NEW c \in Creds
          PROVE  LockOf(c)' = IF credOrg[c] \in os /\ LockOf(c) # "admin"
                              THEN IF st \in Gate!Restricting THEN "billing" ELSE "open"
                              ELSE LockOf(c)
      BY <3>1 DEF SyncCredentialBillingLimit, SyncedCredentials, LockOf, Gate!Restricting,
         RestrictingStatuses, BillingLike, BillingReasons, NoReason, BillingReason
    <3>3. Gate!Enter(os, st)
      BY <3>1, <3>2 DEF Gate!Enter, SyncCredentialBillingLimit
    <3>. QED
      BY <3>3 DEF Gate!Next, Gate!Standings
  <2>2. ASSUME NEW c \in Creds, InsertCredential(c) PROVE Gate!Next
    <3>1. \A p \in Orgs : Standing(p)' = Standing(p)
      BY <2>2, UnchangedStanding DEF InsertCredential
    <3>2. \A d \in Creds : LockOf(d)' = LockOf(d)
      BY <2>2 DEF InsertCredential, LockOf, CredentialRows
    <3>3. Gate!AddCredential(c, creating[c])
      BY <2>2, <3>1, <3>2 DEF InsertCredential, Gate!AddCredential, CredentialRows
    <3>. QED
      BY <2>2, <3>3 DEF Gate!Next, InsertCredential
  <2>3. ASSUME NEW c \in Creds, AdminDecision(c) PROVE Gate!Next
    <3>1. PICK limit \in BOOLEAN, r \in AdminReasons \cup {NoReason} :
              SetCredentialLimited(c, limit, r)
      BY <2>3 DEF AdminDecision
    <3>2. \A p \in Orgs : Standing(p)' = Standing(p)
      BY <3>1, UnchangedStanding DEF SetCredentialLimited
    <3>3. \A d \in Creds \ {c} : LockOf(d)' = LockOf(d)
      BY <3>1 DEF SetCredentialLimited, LockOf
    <3>4. LockOf(c)' \in Gate!Locks
      BY DEF LockOf, Gate!Locks
    <3>5. \E l \in Gate!Locks : Gate!SetLock(c, l)
      BY <3>1, <3>2, <3>3, <3>4 DEF SetCredentialLimited, Gate!SetLock
    <3>. QED
      BY <3>5 DEF Gate!Next
  <2>4. ASSUME UNCHANGED <<subVars, credVars>> PROVE UNCHANGED Gate!gateVars
    <3>1. \A p \in Orgs : Standing(p)' = Standing(p)
      BY <2>4, UnchangedStanding
    <3>2. \A d \in Creds : LockOf(d)' = LockOf(d)
      BY <2>4 DEF LockOf, credVars
    <3>. QED
      BY <2>4, <3>1, <3>2 DEF Gate!gateVars, credVars
  <2>. QED
    BY <2>1, <2>2, <2>3, <2>4, StepKinds DEF CheckCredentialCreate
<1>. QED
  BY <1>1, <1>2, InductiveInvariant, CredentialRowsInvariant, PTL
     DEF Spec, ImplementsGate, Gate!Spec

-----------------------------------------------------------------------------
(* Sessions: the statements of a transaction *)

(* The statements of a transaction, by the number of the next one.        *)
LEMMA SettlementStatements ==
    ASSUME SessionsTypeOK, NEW t \in Txs, Settles(t)
    PROVE  /\ op[t] # NoOp
           /\ op[t].sub \in Subs
           /\ position[t] \in 1 .. 6
           /\ op[t].kind \in {"paid", "failed"} =>
                 /\ At(t, "invoice") <=> position[t] = 1
                 /\ At(t, "subscription") <=> position[t] = 2
                 /\ At(t, "index") <=> position[t] = 3
                 /\ At(t, "payment") <=> position[t] = 4
                 /\ Done(t, "invoice") <=> position[t] > 1
                 /\ Done(t, "subscription") <=> position[t] > 2
                 /\ Done(t, "index") <=> position[t] > 3
                 /\ Done(t, "payment") <=> position[t] > 4
           /\ op[t].kind \in {"approve", "reject"} =>
                 /\ At(t, "payment") <=> position[t] = 1
                 /\ At(t, "invoice") <=> position[t] = 2
                 /\ At(t, "subscription") <=> position[t] = 3
                 /\ At(t, "index") <=> position[t] = 4
                 /\ Done(t, "payment") <=> position[t] > 1
                 /\ Done(t, "invoice") <=> position[t] > 2
                 /\ Done(t, "subscription") <=> position[t] > 3
                 /\ Done(t, "index") <=> position[t] > 4
           /\ At(t, "credentials") <=> position[t] = 5
           /\ At(t, "commit") <=> position[t] = 6
           /\ Done(t, "credentials") <=> position[t] > 5
           /\ ~At(t, "find") /\ ~At(t, "visit")
<1>1. op[t] # NoOp /\ op[t].sub \in Subs
  BY DEF SessionsTypeOK, Ops, NoOp, Settles
<1>2. CASE op[t].kind \in {"paid", "failed"}
  <2>1. Statements(op[t].kind) =
          <<"invoice", "subscription", "index", "payment", "credentials", "commit">>
    BY <1>2 DEF Statements
  <2>2. position[t] \in 1 .. 6
    BY <1>1, <2>1 DEF SessionsTypeOK
  <2>. QED
    BY <1>1, <1>2, <2>1, <2>2 DEF At, Done
<1>3. CASE op[t].kind \in {"approve", "reject"}
  <2>1. Statements(op[t].kind) =
          <<"payment", "invoice", "subscription", "index", "credentials", "commit">>
    BY <1>3 DEF Statements
  <2>2. position[t] \in 1 .. 6
    BY <1>1, <2>1 DEF SessionsTypeOK
  <2>. QED
    BY <1>1, <1>3, <2>1, <2>2 DEF At, Done
<1>. QED
  BY <1>2, <1>3 DEF Settles

(* The statements of assignSubscription. *)
LEMMA AssignStatements ==
    ASSUME SessionsTypeOK, NEW t \in Txs, op[t].kind = "assign"
    PROVE  /\ op[t] # NoOp
           /\ op[t].org \in Orgs /\ op[t].priced \in BOOLEAN /\ op[t].trial \in BOOLEAN
           /\ op[t].at \in Nat
           /\ position[t] \in 1 .. 5
           /\ At(t, "find") <=> position[t] = 1
           /\ At(t, "visit") <=> position[t] = 2
           /\ At(t, "index") <=> position[t] = 3
           /\ At(t, "credentials") <=> position[t] = 4
           /\ At(t, "commit") <=> position[t] = 5
           /\ Done(t, "find") <=> position[t] > 1
           /\ Done(t, "visit") <=> position[t] > 2
           /\ Done(t, "index") <=> position[t] > 3
           /\ Done(t, "credentials") <=> position[t] > 4
           /\ \A table \in Tables : ~At(t, table) /\ ~Done(t, table)
<1>1. /\ op[t] # NoOp /\ op[t].org \in Orgs /\ op[t].priced \in BOOLEAN
      /\ op[t].trial \in BOOLEAN /\ op[t].at \in Nat
  BY DEF SessionsTypeOK, Ops, NoOp
<1>2. Statements(op[t].kind) = <<"find", "visit", "index", "credentials", "commit">>
  BY DEF Statements
<1>3. position[t] \in 1 .. 5
  BY <1>1, <1>2 DEF SessionsTypeOK
<1>. QED
  BY <1>1, <1>2, <1>3 DEF At, Done, Tables

(* The statements of RunSubscriptionExpiryCheck. *)
LEMMA SweepStatements ==
    ASSUME SessionsTypeOK, NEW t \in Txs, op[t].kind = "sweep"
    PROVE  /\ op[t] # NoOp
           /\ op[t].at \in Nat
           /\ position[t] \in 1 .. 4
           /\ At(t, "find") <=> position[t] = 1
           /\ At(t, "visit") <=> position[t] = 2
           /\ At(t, "credentials") <=> position[t] = 3
           /\ At(t, "commit") <=> position[t] = 4
           /\ Done(t, "find") <=> position[t] > 1
           /\ Done(t, "visit") <=> position[t] > 2
           /\ Done(t, "credentials") <=> position[t] > 3
           /\ ~At(t, "index") /\ ~Done(t, "index")
           /\ \A table \in Tables : ~At(t, table) /\ ~Done(t, table)
<1>1. op[t] # NoOp /\ op[t].at \in Nat
  BY DEF SessionsTypeOK, Ops, NoOp
<1>2. Statements(op[t].kind) = <<"find", "visit", "credentials", "commit">>
  BY DEF Statements
<1>3. position[t] \in 1 .. 4
  BY <1>1, <1>2 DEF SessionsTypeOK
<1>. QED
  BY <1>1, <1>2, <1>3 DEF At, Done, Tables

(* A transaction runs no operation, a settlement, an assignment or a sweep. *)
LEMMA OpKinds ==
    ASSUME SessionsTypeOK, NEW t \in Txs
    PROVE  \/ op[t] = NoOp /\ op[t].kind = "none"
           \/ op[t] # NoOp /\ Settles(t)
           \/ op[t] # NoOp /\ op[t].kind = "assign"
           \/ op[t] # NoOp /\ op[t].kind = "sweep"
BY DEF SessionsTypeOK, Ops, NoOp, Settles

-----------------------------------------------------------------------------
(* Sessions: the inductive invariant *)

(* The subscriptions a transaction has locked, and the statuses in which  *)
(* the UPDATEs of several subscriptions take them.                        *)
HeldSubs(t) == {s \in Subs : Row("subscription", s) \in held[t]}
Swept == {"trialing", "active", "past_due"}

(* A transaction that runs nothing keeps nothing. *)
IdleInv(t) == op[t] = NoOp => held[t] = {} /\ targets[t] = {} /\ synced[t] = {}

(* A settlement is about an issued invoice and holds, of the rows with its *)
(* number, those its statements have reached; the UPDATE of a pending      *)
(* payment that found none leaves a payment that is no longer pending.     *)
SettlementInv(t) ==
    Settles(t) =>
        /\ invoice[op[t].sub] # "none"
        /\ targets[t] = {}
        /\ held[t] \subseteq {Row(table, op[t].sub) : table \in Tables}
        /\ Row("invoice", op[t].sub) \in held[t] <=> Done(t, "invoice")
        /\ Row("subscription", op[t].sub) \in held[t] <=> Done(t, "subscription")
        /\ Row("payment", op[t].sub) \in held[t] => Done(t, "payment")
        /\ Done(t, "payment") => \/ Row("payment", op[t].sub) \in held[t]
                                 \/ /\ op[t].kind \in {"paid", "failed"}
                                    /\ payment[op[t].sub] # "pending"

(* An assignment and a sweep hold subscriptions they have found live or    *)
(* past due, one per organization, in ascending order, which lie before    *)
(* those they have still to visit.                                         *)
UpdateInv(t) ==
    op[t].kind \in {"assign", "sweep"} =>
        /\ \A row \in held[t] : \E s \in HeldSubs(t) : row = Row("subscription", s)
        /\ \A s \in HeldSubs(t) : subStatus[s] \in Swept
        /\ \A s \in HeldSubs(t), r \in targets[t] : s < r /\ subOrg[s] # subOrg[r]
        /\ \A r, s \in targets[t] : subOrg[r] = subOrg[s] => r = s
        /\ \A r \in targets[t] : subOrg[r] \in Orgs
        /\ op[t].kind = "assign" =>
              \A s \in HeldSubs(t) \cup targets[t] : subOrg[s] = op[t].org
        /\ held[t] # {} => Done(t, "find")

(* Who has entered the unique index for an organization has locked every   *)
(* live subscription of it.                                                *)
IndexInv(t) == Done(t, "index") => LiveSubsOf(OrgOf(t)) \subseteq HeldSubs(t)

(* A credential that a sync with status st has nothing to write in. *)
Agrees(c, st) ==
    /\ limitReason[c] \notin BillingReasons
    /\ st \in RestrictingStatuses => limited[c] \/ c \in exempt

(* After its sync a transaction has locked every credential of its         *)
(* organizations in which it has something to write, and no other.         *)
SyncInv(t) ==
    /\ ~Done(t, "credentials") => synced[t] = {}
    /\ Done(t, "credentials") =>
          \A c \in Creds :
             /\ c \in synced[t] => /\ credOrg[c] \in OrgsOf(t)
                                   /\ BillingLike(limitReason[c]) \/ ~limited[c]
             /\ c \notin synced[t] /\ credOrg[c] \in OrgsOf(t) => Agrees(c, NewStatus(t))

(* What holds of one transaction *)
TxInv(t) == IdleInv(t) /\ SettlementInv(t) /\ UpdateInv(t) /\ IndexInv(t) /\ SyncInv(t)

(* A row is locked by one transaction. *)
Exclusive == \A t, u \in Txs : t # u => held[t] \cap held[u] = {}

(* One transaction at a time has entered the index for an organization. *)
IndexedOnce ==
    \A t, u \in Txs : Done(t, "index") /\ Done(u, "index") /\ OrgOf(t) = OrgOf(u) => t = u

(* Every assignment that runs finds a row to insert. *)
Assigning == {t \in Txs : op[t].kind = "assign"}
Room == created + Cardinality(Assigning) <= MaxSubs

(* A list request queries about a row it has still to read. *)
QueriesAboutRows == \A l \in Lists : reading[l] = 2 => rows[l] > 0

(* What the committed tables satisfy, as in Billing *)
TablesInv == IInv /\ LiveStatusFollowsInvoice /\ SettledTogether /\ CredentialRows

(* The inductive invariant.  A COMMIT computes what it writes from the rows *)
(* its transaction has locked, so the invariant of the tables needs what   *)
(* each transaction has done at each statement; that nobody else touches   *)
(* these rows in between needs that locks exclude each other.              *)
SessionsInv ==
    /\ SessionsTypeOK
    /\ TablesInv
    /\ \A t \in Txs : TxInv(t)
    /\ Exclusive
    /\ IndexedOnce
    /\ Room
    /\ QueriesAboutRows

(* A step of another transaction *)
Same(u) == /\ op'[u] = op[u]
           /\ position'[u] = position[u]
           /\ held'[u] = held[u]
           /\ targets'[u] = targets[u]
           /\ synced'[u] = synced[u]

(* A transaction that does not move is at the same statement ... *)
LEMMA SameStatement ==
    ASSUME NEW u \in Txs, op'[u] = op[u], position'[u] = position[u]
    PROVE  /\ Settles(u)' <=> Settles(u)
           /\ NewStatus(u)' = NewStatus(u)
           /\ \A x : At(u, x)' <=> At(u, x)
           /\ \A x : Done(u, x)' <=> Done(u, x)
BY DEF Settles, NewStatus, At, Done, Statements

(* ... and one that moves on has done the statement it was at. *)
LEMMA ContinueDone ==
    ASSUME SessionsTypeOK, NEW t \in Txs, op[t] # NoOp, op'[t] # NoOp,
           op'[t].kind = op[t].kind, Continue(t)
    PROVE  \A x : Done(t, x)' <=> Done(t, x) \/ At(t, x)
<1>1. position[t] \in Nat /\ position[t] >= 1
  BY DEF SessionsTypeOK
<1>2. position'[t] = position[t] + 1
  BY DEF Continue, SessionsTypeOK
<1>3. \A x : Done(t, x)' <=> \E i \in 1 .. position[t] : Statements(op[t].kind)[i] = x
  <2>1. 1 .. position'[t] - 1 = 1 .. position[t]
    BY <1>1, <1>2
  <2>. QED
    BY <2>1 DEF Done
<1>4. \A i : i \in 1 .. position[t] <=> i \in 1 .. position[t] - 1 \/ i = position[t]
  BY <1>1
<1>. QED
  BY <1>3, <1>4 DEF Done, At

(* The organizations of a transaction do not change under it. *)
LEMMA SameOrgs ==
    ASSUME NEW u \in Txs, op'[u] = op[u], held'[u] = held[u], subOrg' = subOrg
    PROVE  /\ OrgOf(u)' = OrgOf(u)
           /\ OrgsOf(u)' = OrgsOf(u)
           /\ HeldSubs(u)' = HeldSubs(u)
<1>1. OrgOf(u)' = OrgOf(u)
  BY DEF OrgOf, Settles
<1>2. HeldSubs(u)' = HeldSubs(u)
  BY DEF HeldSubs
<1>. QED
  BY <1>1, <1>2 DEF OrgsOf

(* What holds of a transaction does not depend on the others' statements. *)
LEMMA SameTx ==
    ASSUME NEW u \in Txs, Same(u), UNCHANGED vars, TxInv(u)
    PROVE  TxInv(u)'
<1>. USE DEF Same, vars, subVars, invVars, credVars
<1>1. IdleInv(u)'
  BY DEF TxInv, IdleInv
<1>2. SettlementInv(u)'
  BY SameStatement DEF TxInv, SettlementInv
<1>3. UpdateInv(u)'
  BY SameStatement, SameOrgs DEF TxInv, UpdateInv
<1>4. IndexInv(u)'
  BY SameStatement, SameOrgs DEF TxInv, IndexInv, LiveSubsOf, SubsOf
<1>5. SyncInv(u)'
  BY SameStatement, SameOrgs DEF TxInv, SyncInv, Agrees
<1>. QED
  BY <1>1, <1>2, <1>3, <1>4, <1>5 DEF TxInv

-----------------------------------------------------------------------------
(* Sessions: BEGIN, ROLLBACK and what a step leaves alone *)

(* A step of Billing keeps the invariant of the tables. *)
LEMMA SameTables ==
    ASSUME TablesInv, [Next]_vars PROVE TablesInv'
<1>1. IInv'
  BY NextType, NextRows, NextUnique, NextFollows DEF TablesInv, IInv
<1>2. LiveStatusFollowsInvoice' /\ SettledTogether'
  BY NextInvoices DEF TablesInv, IInv, InvoiceInv
<1>. QED
  BY <1>1, <1>2, NextCredentialRows DEF TablesInv

(* Giving up locks keeps them exclusive. *)
LEMMA ExclusiveKept ==
    ASSUME Exclusive, \A t \in Txs : held'[t] \subseteq held[t] PROVE Exclusive'
BY DEF Exclusive

(* Entering the index no further keeps one transaction per organization. *)
LEMMA IndexedOnceKept ==
    ASSUME IndexedOnce,
           \A t \in Txs : Done(t, "index")' => Done(t, "index") /\ OrgOf(t)' = OrgOf(t)
    PROVE  IndexedOnce'
BY DEF IndexedOnce

(* Finitely many assignments run. *)
LEMMA AssigningFinite == IsFiniteSet(Assigning) /\ Cardinality(Assigning) \in Nat
<1>1. Assigning \in SUBSET Txs
  BY DEF Assigning
<1>2. IsFiniteSet(Assigning)
  BY <1>1, PoolAssumption, FS_Subset
<1>. QED
  BY <1>2, FS_CardinalityType

(* Without a new assignment there remains room for those that run. *)
LEMMA RoomKept ==
    ASSUME SessionsTypeOK, Room, created' = created,
           \A t \in Txs : op'[t].kind = "assign" => op[t].kind = "assign"
    PROVE  Room'
<1>1. Assigning' \in SUBSET Assigning
  BY DEF Assigning
<1>2. /\ Cardinality(Assigning') \in Nat
      /\ Cardinality(Assigning') <= Cardinality(Assigning)
  BY <1>1, AssigningFinite, FS_Subset, FS_CardinalityType
<1>3. created \in Nat /\ MaxSubs \in Nat
  BY BoundsAssumption DEF SessionsTypeOK, TypeOK
<1>4. Room' <=> created + Cardinality(Assigning') <= MaxSubs
  BY DEF Room
<1>. QED
  BY <1>2, <1>3, <1>4, AssigningFinite DEF Room

(* A transaction that has ended. *)
LEMMA EndedTx ==
    ASSUME SessionsTypeOK, NEW t \in Txs, End(t)
    PROVE  /\ TxInv(t)'
           /\ ~Done(t, "index")'
           /\ op'[t].kind = "none"
           /\ held'[t] = {}
           /\ \A u \in Txs \ {t} : Same(u)
<1>1. op'[t] = NoOp /\ held'[t] = {} /\ targets'[t] = {} /\ synced'[t] = {}
  BY DEF End, SessionsTypeOK
<1>2. \A x : ~Done(t, x)'
  BY <1>1 DEF Done
<1>3. op'[t].kind = "none"
  BY <1>1 DEF NoOp
<1>4. TxInv(t)'
  BY <1>1, <1>2, <1>3 DEF TxInv, IdleInv, SettlementInv, UpdateInv, IndexInv, SyncInv, Settles
<1>5. \A u \in Txs \ {t} : Same(u)
  BY DEF End, SessionsTypeOK, Same
<1>. QED
  BY <1>1, <1>2, <1>3, <1>4, <1>5

(* Types, across COMMIT and ROLLBACK *)
LEMMA EndType ==
    ASSUME SessionsTypeOK, TypeOK', NEW t \in Txs, End(t) PROVE SessionsTypeOK'
BY DEF End, SessionsTypeOK, rest

(* A transaction that fails leaves nothing behind. *)
LEMMA FailStep ==
    ASSUME SessionsInv, NEW t \in Txs, End(t), UNCHANGED tables
    PROVE  SessionsInv'
<1>. USE DEF SessionsInv
<1>1. TablesInv'
  BY SameTables DEF tables
<1>2. SessionsTypeOK'
  BY <1>1, EndType DEF TablesInv, IInv
<1>3. \A u \in Txs : TxInv(u)'
  BY EndedTx, SameTx DEF tables
<1>4. Exclusive'
  BY EndedTx, ExclusiveKept DEF Same
<1>5. IndexedOnce'
  <2>1. ASSUME NEW u \in Txs, Done(u, "index")'
        PROVE  Done(u, "index") /\ OrgOf(u)' = OrgOf(u)
    BY <2>1, EndedTx, SameStatement, SameOrgs DEF Same, tables, vars, subVars
  <2>. QED
    BY <2>1, IndexedOnceKept
<1>6. Room'
  BY EndedTx, RoomKept DEF Same, tables, vars, subVars
<1>7. QueriesAboutRows'
  BY DEF QueriesAboutRows, End, rest
<1>. QED
  BY <1>1, <1>2, <1>3, <1>4, <1>5, <1>6, <1>7

(* A step of transaction t that leaves the tables and the others alone.  *)
LEMMA OneTxStep ==
    ASSUME SessionsInv, NEW t \in Txs, UNCHANGED <<tables, lists>>, \A u \in Txs \ {t} : Same(u),
           SessionsTypeOK', TxInv(t)',
           \A u \in Txs \ {t} : held'[t] \cap held[u] = {},
           Done(t, "index")' =>
              \A u \in Txs \ {t} : ~(Done(u, "index") /\ OrgOf(u) = OrgOf(t)'),
           Room'
    PROVE  SessionsInv'
<1>. USE DEF SessionsInv
<1>1. TablesInv'
  BY SameTables DEF tables
<1>2. \A u \in Txs : TxInv(u)'
  BY SameTx DEF tables
<1>3. Exclusive'
  BY DEF Exclusive, Same
<1>4. QueriesAboutRows'
  BY DEF QueriesAboutRows, lists
<1>5. IndexedOnce'
  <2>1. \A u \in Txs \ {t} : Done(u, "index")' <=> Done(u, "index")
    BY SameStatement DEF Same
  <2>2. \A u \in Txs \ {t} : OrgOf(u)' = OrgOf(u)
    BY SameOrgs DEF Same, tables, vars, subVars
  <2>. QED
    BY <2>1, <2>2 DEF IndexedOnce
<1>. QED
  BY <1>1, <1>2, <1>3, <1>4, <1>5

(* BEGIN keeps the invariant. *)
LEMMA BeginStep ==
    ASSUME SessionsInv, NEW t \in Txs, NEW o \in Ops, BeginTx(t, o),
           o.kind \in {"paid", "failed", "approve", "reject"} => invoice[o.sub] # "none",
           o.kind = "assign" => created + Cardinality(Assigning) < MaxSubs
    PROVE  SessionsInv'
<1>. USE DEF SessionsInv
<1>1. SessionsTypeOK'
  <2>1. TypeOK'
    BY NextType DEF BeginTx, tables, SessionsTypeOK
  <2>2. begun' \in 0 .. MaxBegun
    BY PoolAssumption DEF BeginTx, SessionsTypeOK
  <2>3. op' \in [Txs -> Ops \cup {NoOp}] /\ position' \in [Txs -> 0 .. 6]
    BY DEF BeginTx, SessionsTypeOK
  <2>4. ASSUME NEW u \in Txs, op'[u] # NoOp
        PROVE  position'[u] \in 1 .. Len(Statements(op'[u].kind))
    <3>1. CASE u = t
      <4>1. op'[u] = o /\ position'[u] = 1
        BY <3>1 DEF BeginTx, SessionsTypeOK
      <4>. QED
        BY <4>1 DEF Ops, Statements
    <3>2. CASE u # t
      BY <2>4, <3>2 DEF BeginTx, SessionsTypeOK
    <3>. QED
      BY <3>1, <3>2
  <2>. QED
    BY <2>1, <2>2, <2>3, <2>4 DEF BeginTx, SessionsTypeOK, lists
<1>2. /\ op'[t] = o /\ position'[t] = 1 /\ op[t] = NoOp
      /\ held'[t] = held[t] /\ targets'[t] = targets[t] /\ synced'[t] = synced[t]
  BY DEF BeginTx, SessionsTypeOK
<1>3. held[t] = {} /\ targets[t] = {} /\ synced[t] = {}
  BY <1>2 DEF TxInv, IdleInv
<1>4. \A x : ~Done(t, x)'
  <2>1. 1 .. position'[t] - 1 = {}
    BY <1>2
  <2>. QED
    BY <2>1 DEF Done
<1>5. TxInv(t)'
  <2>1. SettlementInv(t)'
    BY <1>2, <1>3, <1>4 DEF SettlementInv, Settles, BeginTx, tables, vars, invVars
  <2>2. HeldSubs(t)' = {}
    BY <1>2, <1>3 DEF HeldSubs
  <2>3. UpdateInv(t)'
    BY <1>2, <1>3, <2>2 DEF UpdateInv
  <2>. QED
    BY <1>2, <1>3, <1>4, <2>1, <2>3 DEF TxInv, IdleInv, IndexInv, SyncInv
<1>6. \A u \in Txs \ {t} : Same(u)
  BY DEF BeginTx, SessionsTypeOK, Same
<1>7. Room'
  <2>1. CASE o.kind = "assign"
    <3>1. Assigning' = Assigning \cup {t}
      BY <1>2, <1>6, <2>1 DEF Assigning, Same
    <3>2. t \notin Assigning
      BY <1>2 DEF Assigning, NoOp
    <3>3. Cardinality(Assigning') = Cardinality(Assigning) + 1
      BY <3>1, <3>2, AssigningFinite, FS_AddElement
    <3>4. created' = created /\ created \in Nat /\ MaxSubs \in Nat
      BY BoundsAssumption DEF BeginTx, tables, vars, subVars, SessionsTypeOK, TypeOK
    <3>5. Room' <=> created' + Cardinality(Assigning') <= MaxSubs
      BY DEF Room
    <3>. QED
      BY <2>1, <3>3, <3>4, <3>5, AssigningFinite
  <2>2. CASE o.kind # "assign"
    BY <1>2, <1>6, <2>2, RoomKept DEF Same, BeginTx, tables, vars, subVars
  <2>. QED
    BY <2>1, <2>2
<1>. QED
  BY <1>1, <1>2, <1>3, <1>4, <1>5, <1>6, <1>7, OneTxStep DEF BeginTx

(* Every transaction ends with its COMMIT. *)
LEMMA LastStatement ==
    ASSUME NEW kind \in {"paid", "failed", "approve", "reject", "assign", "sweep"}
    PROVE  /\ Len(Statements(kind)) \in 4 .. 6
           /\ Statements(kind)[Len(Statements(kind))] = "commit"
<1>1. CASE kind \in {"paid", "failed"}
  <2>1. Statements(kind) =
          <<"invoice", "subscription", "index", "payment", "credentials", "commit">>
    BY <1>1 DEF Statements
  <2>. QED
    BY <2>1
<1>2. CASE kind \in {"approve", "reject"}
  <2>1. Statements(kind) =
          <<"payment", "invoice", "subscription", "index", "credentials", "commit">>
    BY <1>2 DEF Statements
  <2>. QED
    BY <2>1
<1>3. CASE kind = "assign"
  <2>1. Statements(kind) = <<"find", "visit", "index", "credentials", "commit">>
    BY <1>3 DEF Statements
  <2>. QED
    BY <2>1
<1>4. CASE kind = "sweep"
  <2>1. Statements(kind) = <<"find", "visit", "credentials", "commit">>
    BY <1>4 DEF Statements
  <2>. QED
    BY <2>1
<1>. QED
  BY <1>1, <1>2, <1>3, <1>4

(* What every statement before the COMMIT does. *)
LEMMA StatementType ==
    ASSUME SessionsTypeOK, NEW t \in Txs, NEW x, At(t, x), x # "commit", Continue(t),
           UNCHANGED <<tables, rest>>,
           op' \in [Txs -> Ops \cup {NoOp}], op'[t].kind = op[t].kind,
           \A u \in Txs \ {t} : op'[u] = op[u],
           held' \in [Txs -> SUBSET (Tables \X Subs)],
           targets' \in [Txs -> SUBSET Subs],
           synced' \in [Txs -> SUBSET Creds]
    PROVE  /\ SessionsTypeOK'
           /\ op'[t] # NoOp
           /\ \A y : Done(t, y)' <=> Done(t, y) \/ At(t, y)
           /\ \A u \in Txs \ {t} : position'[u] = position[u]
<1>1. op[t] # NoOp /\ op'[t] # NoOp
  BY OpKinds DEF At, NoOp, Settles
<1>2. \A u \in Txs \ {t} : position'[u] = position[u]
  BY DEF Continue, SessionsTypeOK
<1>3. position'[t] = position[t] + 1
  BY DEF Continue, SessionsTypeOK
<1>4. /\ position[t] \in 1 .. Len(Statements(op[t].kind))
      /\ Statements(op[t].kind)[position[t]] = x
  BY <1>1 DEF SessionsTypeOK, At
<1>5. position'[t] \in 1 .. Len(Statements(op'[t].kind)) /\ position'[t] \in 0 .. 6
  <2>1. op[t].kind \in {"paid", "failed", "approve", "reject", "assign", "sweep"}
    BY <1>1, OpKinds DEF Settles
  <2>2. position[t] # Len(Statements(op[t].kind))
    BY <1>4, <2>1, LastStatement
  <2>3. PICK n \in 4 .. 6 : n = Len(Statements(op[t].kind))
    BY <2>1, LastStatement
  <2>4. position[t] \in 1 .. n /\ position[t] # n
    BY <1>4, <2>2, <2>3
  <2>5. position'[t] \in 1 .. n /\ position'[t] \in 0 .. 6
    BY <1>3, <2>4
  <2>. QED
    BY <2>3, <2>5
<1>6. SessionsTypeOK'
  <2>1. TypeOK'
    BY NextType DEF tables, SessionsTypeOK
  <2>2. position' \in [Txs -> 0 .. 6]
    BY <1>5 DEF Continue, SessionsTypeOK
  <2>3. \A u \in Txs : op'[u] # NoOp => position'[u] \in 1 .. Len(Statements(op'[u].kind))
    BY <1>2, <1>5 DEF SessionsTypeOK
  <2>. QED
    BY <2>1, <2>2, <2>3 DEF SessionsTypeOK, rest
<1>. QED
  BY <1>1, <1>2, <1>6, ContinueDone

-----------------------------------------------------------------------------
(* Sessions: the statements of single transactions *)

(* Rows are locked only when nobody else holds them. *)
LEMMA WantsFree ==
    ASSUME NEW t \in Txs, WaitsFor(t) = {}
    PROVE  \A u \in Txs \ {t} : Wants(t) \cap held[u] = {}
BY DEF WaitsFor

(* The rows of different tables differ. *)
LEMMA RowsDiffer ==
    \A s, r : /\ Row("invoice", s) # Row("subscription", r)
              /\ Row("invoice", s) # Row("payment", r)
              /\ Row("subscription", s) # Row("payment", r)
              /\ Row("subscription", s) = Row("subscription", r) => s = r
BY DEF Row

(* The UPDATE of a single row keeps the invariant. *)
LEMMA UpdateRowStep ==
    ASSUME SessionsInv, NEW t \in Txs, UpdateRow(t) PROVE SessionsInv'
<1>. USE DEF SessionsInv
<1>1. PICK table \in Tables : At(t, table)
  BY DEF UpdateRow
<1>2. /\ Settles(t) /\ op[t] # NoOp /\ op[t].sub \in Subs
      /\ ~At(t, "index") /\ ~At(t, "credentials") /\ ~At(t, "commit")
      /\ ~Done(t, "credentials")
  <2>1. op[t] # NoOp /\ Settles(t)
    BY <1>1, OpKinds, AssignStatements, SweepStatements DEF At
  <2>. QED
    BY <1>1, <2>1, SettlementStatements DEF At, Tables
<1>. DEFINE s == op[t].sub
<1>3. /\ held' = [held EXCEPT ![t] = @ \cup Wants(t)]
      /\ Continue(t)
      /\ UNCHANGED <<op, targets, synced>> /\ UNCHANGED <<tables, rest>>
  BY DEF UpdateRow
<1>4. Wants(t) = IF table = "payment" /\ op[t].kind \in {"paid", "failed"}
                                      /\ payment[s] # "pending"
                 THEN {} ELSE {Row(table, s)}
  BY <1>1, <1>2 DEF Wants, At, Tables, Settles
<1>5. held'[t] = held[t] \cup Wants(t) /\ \A u \in Txs \ {t} : held'[u] = held[u]
  BY <1>3 DEF SessionsTypeOK
<1>6. held' \in [Txs -> SUBSET (Tables \X Subs)]
  <2>1. Wants(t) \subseteq Tables \X Subs
    BY <1>2, <1>4 DEF Row
  <2>. QED
    BY <1>3, <2>1 DEF SessionsTypeOK
<1>7. /\ SessionsTypeOK'
      /\ \A y : Done(t, y)' <=> Done(t, y) \/ y = table
      /\ \A u \in Txs \ {t} : position'[u] = position[u]
  <2>1. \A y : At(t, y) <=> y = table
    BY <1>1 DEF At
  <2>. QED
    BY <1>1, <1>3, <1>6, <2>1, StatementType DEF SessionsTypeOK, Tables
<1>8. SettlementInv(t)'
  <2>1. SettlementInv(t)
    BY DEF TxInv
  <2>2. op'[t].sub = s /\ op'[t].kind = op[t].kind /\ targets'[t] = targets[t]
        /\ invoice' = invoice /\ payment' = payment
    BY <1>3 DEF tables, vars, invVars
  <2>. QED
    BY <1>2, <1>4, <1>5, <1>7, <2>1, <2>2, RowsDiffer
       DEF SettlementInv, Tables, Settles
<1>9. IndexInv(t)'
  <2>1. Done(t, "index")' <=> Done(t, "index")
    BY <1>7 DEF Tables
  <2>2. HeldSubs(t) \subseteq HeldSubs(t)'
    BY <1>5 DEF HeldSubs
  <2>3. LiveSubsOf(OrgOf(t))' = LiveSubsOf(OrgOf(t))
    BY <1>3 DEF LiveSubsOf, SubsOf, OrgOf, Settles, tables, vars, subVars
  <2>. QED
    BY <2>1, <2>2, <2>3 DEF IndexInv, TxInv
<1>10. TxInv(t)'
  <2>1. IdleInv(t)' /\ UpdateInv(t)'
    BY <1>2, <1>3 DEF IdleInv, UpdateInv, Settles
  <2>2. SyncInv(t)'
    BY <1>2, <1>3, <1>7 DEF SyncInv, TxInv, Tables
  <2>. QED
    BY <1>8, <1>9, <2>1, <2>2 DEF TxInv
<1>11. \A u \in Txs \ {t} : Same(u)
  BY <1>3, <1>5, <1>7 DEF Same
<1>12. \A u \in Txs \ {t} : held'[t] \cap held[u] = {}
  BY <1>5, WantsFree DEF Exclusive, UpdateRow
<1>13. Done(t, "index")' => \A u \in Txs \ {t} : ~(Done(u, "index") /\ OrgOf(u) = OrgOf(t)')
  <2>1. Done(t, "index")' <=> Done(t, "index")
    BY <1>7 DEF Tables
  <2>2. OrgOf(t)' = OrgOf(t)
    BY <1>3 DEF OrgOf, Settles, tables, vars, subVars
  <2>. QED
    BY <2>1, <2>2 DEF IndexedOnce
<1>14. Room'
  BY <1>3, RoomKept DEF tables, vars, subVars
<1>. QED
  BY <1>3, <1>7, <1>10, <1>11, <1>12, <1>13, <1>14, OneTxStep DEF lists, rest

(* The snapshot of an UPDATE of several rows keeps the invariant. *)
LEMMA FindStep ==
    ASSUME SessionsInv, NEW t \in Txs, FindSubscriptions(t) PROVE SessionsInv'
<1>. USE DEF SessionsInv
<1>1. /\ targets' = [targets EXCEPT ![t] = {s \in Subs : Matches(t, s)}]
      /\ Continue(t)
      /\ UNCHANGED <<op, held, synced>> /\ UNCHANGED <<tables, rest>>
      /\ At(t, "find")
  BY DEF FindSubscriptions
<1>2. /\ op[t] # NoOp /\ op[t].kind \in {"assign", "sweep"}
      /\ ~Done(t, "find") /\ ~Done(t, "credentials") /\ ~Done(t, "index")
  <2>1. op[t] # NoOp /\ op[t].kind \in {"assign", "sweep"}
    BY <1>1, OpKinds, SettlementStatements DEF At
  <2>. QED
    BY <1>1, <2>1, AssignStatements, SweepStatements
<1>3. /\ SessionsTypeOK'
      /\ \A y : Done(t, y)' <=> Done(t, y) \/ y = "find"
      /\ \A u \in Txs \ {t} : position'[u] = position[u]
  <2>1. \A y : At(t, y) <=> y = "find"
    BY <1>1 DEF At
  <2>2. targets' \in [Txs -> SUBSET Subs]
    BY <1>1 DEF SessionsTypeOK
  <2>. QED
    BY <1>1, <2>1, <2>2, StatementType DEF SessionsTypeOK
<1>4. held[t] = {} /\ HeldSubs(t)' = {}
  <2>1. held[t] = {}
    BY <1>2 DEF TxInv, UpdateInv
  <2>. QED
    BY <1>1, <2>1 DEF HeldSubs
<1>5. UpdateInv(t)'
  <2>1. targets'[t] = {s \in Subs : Matches(t, s)}
    BY <1>1 DEF SessionsTypeOK
  <2>2. ASSUME NEW s \in targets'[t]
        PROVE  /\ s \in Subs /\ subStatus[s] \in LiveStatuses /\ subOrg[s] \in Orgs
               /\ op[t].kind = "assign" => subOrg[s] = op[t].org
    <3>1. /\ s \in Subs /\ subStatus[s] \in LiveStatuses
          /\ op[t].kind = "assign" => subOrg[s] = op[t].org
      BY <2>1, <2>2 DEF Matches, LiveSubsOf, SubsOf, LiveStatuses
    <3>2. subOrg[s] \in Orgs
      BY <3>1 DEF TablesInv, IInv, RowsInv, LiveStatuses
    <3>. QED
      BY <3>1, <3>2
  <2>3. \A r, s \in targets'[t] : subOrg[r] = subOrg[s] => r = s
    BY <2>2 DEF TablesInv, IInv, UniqueLive
  <2>4. held'[t] = {} /\ op'[t] = op[t] /\ subOrg' = subOrg
    BY <1>1, <1>4 DEF tables, vars, subVars
  <2>. QED
    BY <1>4, <2>2, <2>3, <2>4 DEF UpdateInv
<1>6. TxInv(t)'
  <2>1. IdleInv(t)' /\ SettlementInv(t)'
    BY <1>1, <1>2 DEF IdleInv, SettlementInv, Settles
  <2>2. IndexInv(t)'
    BY <1>2, <1>3 DEF IndexInv
  <2>3. SyncInv(t)'
    BY <1>1, <1>2, <1>3 DEF SyncInv, TxInv
  <2>. QED
    BY <1>5, <2>1, <2>2, <2>3 DEF TxInv
<1>7. \A u \in Txs \ {t} : Same(u)
  BY <1>1, <1>3 DEF Same, SessionsTypeOK
<1>8. Room'
  BY <1>1, RoomKept DEF tables, vars, subVars
<1>. QED
  BY <1>1, <1>2, <1>3, <1>4, <1>6, <1>7, <1>8, OneTxStep DEF lists, rest

(* A set of numbers that is not empty has a smallest element. *)
LEMMA Smallest ==
    ASSUME NEW T \in SUBSET Nat, T # {}
    PROVE  \E n \in T : \A m \in T : n <= m
<1>1. PICK n \in T : \A m \in T : ~(<<m, n>> \in OpToRel(<, Nat))
  BY NatLessThanWellFounded, WFMin
<1>2. ASSUME NEW m \in T PROVE n <= m
  <2>1. ~(m < n)
    BY <1>1 DEF OpToRel
  <2>. QED
    BY <2>1
<1>. QED
  BY <1>2

(* An UPDATE visits the lowest of the subscriptions it has still to visit. *)
LEMMA NextTargetFirst ==
    ASSUME SessionsTypeOK, NEW t \in Txs, targets[t] # {}
    PROVE  /\ NextTarget(t) \in targets[t]
           /\ NextTarget(t) \in Subs
           /\ \A r \in targets[t] : NextTarget(t) <= r
<1>1. targets[t] \in SUBSET Nat /\ targets[t] \in SUBSET Subs
  BY BoundsAssumption DEF SessionsTypeOK, Subs
<1>2. \E s \in targets[t] : \A r \in targets[t] : s <= r
  BY <1>1, Smallest
<1>. QED
  BY <1>1, <1>2 DEF NextTarget

(* The visit of a subscription, which is looked at again once its lock is  *)
(* taken, keeps the invariant.                                             *)
LEMMA VisitStep ==
    ASSUME SessionsInv, NEW t \in Txs, VisitSubscription(t) PROVE SessionsInv'
<1>. USE DEF SessionsInv
<1>1. /\ At(t, "visit") /\ WaitsFor(t) = {}
      /\ UNCHANGED <<op, synced>> /\ UNCHANGED <<tables, rest>>
  BY DEF VisitSubscription
<1>2. /\ op[t] # NoOp /\ op[t].kind \in {"assign", "sweep"}
      /\ Done(t, "find") /\ ~Done(t, "credentials") /\ ~Done(t, "index")
  <2>1. op[t] # NoOp /\ op[t].kind \in {"assign", "sweep"}
    BY <1>1, OpKinds, SettlementStatements DEF At
  <2>. QED
    BY <1>1, <2>1, AssignStatements, SweepStatements
<1>3. IdleInv(t)' /\ SettlementInv(t)'
  BY <1>1, <1>2 DEF IdleInv, SettlementInv, Settles
<1>4. Room'
  BY <1>1, RoomKept DEF tables, vars, subVars
<1>5. UpdateInv(t)
  BY DEF TxInv
<1>6. CASE targets[t] = {}
  <2>1. Continue(t) /\ UNCHANGED <<held, targets>>
    BY <1>6 DEF VisitSubscription
  <2>2. /\ SessionsTypeOK'
        /\ \A y : Done(t, y)' <=> Done(t, y) \/ y = "visit"
        /\ \A u \in Txs \ {t} : position'[u] = position[u]
    <3>1. \A y : At(t, y) <=> y = "visit"
      BY <1>1 DEF At
    <3>. QED
      BY <1>1, <2>1, <3>1, StatementType DEF SessionsTypeOK
  <2>3. TxInv(t)'
    <3>1. UpdateInv(t)'
      <4>1. HeldSubs(t)' = HeldSubs(t)
        BY <2>1 DEF HeldSubs
      <4>. QED
        BY <1>1, <1>2, <1>5, <2>1, <2>2, <4>1 DEF UpdateInv, tables, vars, subVars
    <3>2. IndexInv(t)' /\ SyncInv(t)'
      BY <1>1, <1>2, <2>2 DEF IndexInv, SyncInv, TxInv
    <3>. QED
      BY <1>3, <3>1, <3>2 DEF TxInv
  <2>4. \A u \in Txs \ {t} : Same(u)
    BY <1>1, <2>1, <2>2 DEF Same
  <2>5. \A u \in Txs \ {t} : held'[t] \cap held[u] = {}
    BY <2>1 DEF Exclusive
  <2>. QED
    BY <1>1, <1>2, <1>4, <2>2, <2>3, <2>4, <2>5, OneTxStep DEF lists, rest
<1>7. CASE targets[t] # {}
  <2>. DEFINE n == NextTarget(t)
  <2>1. n \in targets[t] /\ n \in Subs /\ \A r \in targets[t] : n <= r
    BY <1>7, NextTargetFirst
  <2>2. Wants(t) = {Row("subscription", n)}
    BY <1>1, <1>7 DEF Wants, At
  <2>3. /\ held' = IF Matches(t, n) THEN [held EXCEPT ![t] = @ \cup Wants(t)] ELSE held
        /\ targets' = [targets EXCEPT ![t] = @ \ {n}]
        /\ position' = position
    BY <1>7 DEF VisitSubscription
  <2>4. /\ held'[t] = held[t] \cup (IF Matches(t, n) THEN {Row("subscription", n)} ELSE {})
        /\ targets'[t] = targets[t] \ {n}
        /\ \A u \in Txs \ {t} : Same(u)
    BY <1>1, <2>2, <2>3 DEF SessionsTypeOK, Same
  <2>5. SessionsTypeOK'
    <3>1. TypeOK'
      BY <1>1, NextType DEF tables, SessionsTypeOK
    <3>2. Row("subscription", n) \in Tables \X Subs
      BY <2>1 DEF Row, Tables
    <3>3. held' \in [Txs -> SUBSET (Tables \X Subs)] /\ targets' \in [Txs -> SUBSET Subs]
      BY <2>2, <2>3, <3>2 DEF SessionsTypeOK
    <3>. QED
      BY <1>1, <2>3, <3>1, <3>3 DEF SessionsTypeOK, rest
  <2>6. \A y : Done(t, y)' <=> Done(t, y)
    BY <1>1, <2>3, SameStatement
  <2>7. /\ HeldSubs(t)' = HeldSubs(t) \cup (IF Matches(t, n) THEN {n} ELSE {})
        /\ \A row \in held'[t] : \E s \in HeldSubs(t)' : row = Row("subscription", s)
    <3>1. HeldSubs(t)' = HeldSubs(t) \cup (IF Matches(t, n) THEN {n} ELSE {})
      BY <2>1, <2>4, RowsDiffer DEF HeldSubs
    <3>2. \A row \in held[t] : \E s \in HeldSubs(t) : row = Row("subscription", s)
      BY <1>2, <1>5 DEF UpdateInv
    <3>. QED
      BY <2>4, <3>1, <3>2
  <2>8. Matches(t, n) => subStatus[n] \in Swept
    BY <1>2, <2>1 DEF Matches, LiveSubsOf, SubsOf, LiveStatuses, Swept, SessionsTypeOK, TypeOK,
                      SubscriptionStatuses
  <2>9. UpdateInv(t)'
    <3>1. subOrg' = subOrg /\ subStatus' = subStatus /\ op'[t] = op[t]
      BY <1>1 DEF tables, vars, subVars
    <3>2. \A s \in HeldSubs(t)' : subStatus[s] \in Swept
      BY <1>2, <1>5, <2>7, <2>8 DEF UpdateInv
    <3>3. ASSUME NEW s \in HeldSubs(t)', NEW r \in targets'[t]
          PROVE  s < r /\ subOrg[s] # subOrg[r]
      <4>1. CASE s \in HeldSubs(t)
        BY <1>2, <1>5, <2>4, <3>3, <4>1 DEF UpdateInv
      <4>2. CASE s = n
        <5>1. n <= r /\ n # r /\ n \in Nat /\ r \in Nat
          BY <2>1, <2>4, <3>3, BoundsAssumption DEF SessionsTypeOK, Subs
        <5>. QED
          BY <1>2, <1>5, <2>1, <2>4, <3>3, <4>2, <5>1 DEF UpdateInv
      <4>. QED
        BY <2>7, <3>3, <4>1, <4>2
    <3>4. op[t].kind = "assign" => \A s \in HeldSubs(t)' \cup targets'[t] : subOrg[s] = op[t].org
      BY <1>5, <2>1, <2>4, <2>7 DEF UpdateInv
    <3>5. /\ \A r, s \in targets'[t] : subOrg[r] = subOrg[s] => r = s
          /\ \A r \in targets'[t] : subOrg[r] \in Orgs
      BY <1>2, <1>5, <2>4 DEF UpdateInv
    <3>. QED
      BY <1>2, <2>6, <2>7, <3>1, <3>2, <3>3, <3>4, <3>5 DEF UpdateInv, Swept
  <2>10. TxInv(t)'
    BY <1>1, <1>2, <1>3, <2>6, <2>9 DEF IndexInv, SyncInv, TxInv
  <2>11. \A u \in Txs \ {t} : held'[t] \cap held[u] = {}
    BY <1>1, <2>2, <2>4, WantsFree DEF Exclusive
  <2>. QED
    BY <1>1, <1>2, <1>4, <2>4, <2>5, <2>6, <2>10, <2>11, OneTxStep DEF lists, rest
<1>. QED
  BY <1>6, <1>7

(* Before its COMMIT a transaction has one organization whose index entry *)
(* it may enter.                                                          *)
LEMMA IndexStep ==
    ASSUME SessionsInv, NEW t \in Txs, EnterIndex(t) PROVE SessionsInv'
<1>. USE DEF SessionsInv
<1>1. At(t, "index") /\ WaitsFor(t) = {} /\ UNCHANGED tables
  BY DEF EnterIndex
<1>2. /\ op[t] # NoOp /\ (Settles(t) \/ op[t].kind = "assign")
      /\ ~Done(t, "index") /\ ~Done(t, "credentials")
      /\ \A y : At(t, y) <=> y = "index"
  <2>1. op[t] # NoOp /\ (Settles(t) \/ op[t].kind = "assign")
    BY <1>1, OpKinds, SweepStatements DEF At
  <2>2. \A y : At(t, y) <=> y = "index"
    BY <1>1 DEF At
  <2>3. ~Done(t, "index") /\ ~Done(t, "credentials")
    BY <1>1, <2>1, AssignStatements, SettlementStatements DEF Settles
  <2>. QED
    BY <2>1, <2>2, <2>3
<1>3. CASE ~ \A s \in LiveSubsOf(OrgOf(t)) : Row("subscription", s) \in held[t]
  BY <1>1, <1>3, FailStep DEF EnterIndex
<1>4. CASE \A s \in LiveSubsOf(OrgOf(t)) : Row("subscription", s) \in held[t]
  <2>1. /\ Continue(t)
        /\ op' = IF op[t].kind = "assign" THEN [op EXCEPT ![t].at = now] ELSE op
        /\ UNCHANGED <<held, targets, synced>> /\ UNCHANGED <<tables, rest>>
    BY <1>4 DEF EnterIndex
  <2>2. /\ op' \in [Txs -> Ops \cup {NoOp}]
        /\ \A u \in Txs \ {t} : op'[u] = op[u]
        /\ op'[t].kind = op[t].kind
        /\ op[t].kind = "assign" => op'[t].org = op[t].org
        /\ Settles(t) => op'[t] = op[t]
    <3>1. CASE op[t].kind = "assign"
      <4>1. op[t] \in [kind : {"assign"}, org : Orgs, priced : BOOLEAN, trial : BOOLEAN, at : Nat]
        BY <1>2, <3>1 DEF SessionsTypeOK, Ops, NoOp
      <4>2. now \in Nat
        BY BoundsAssumption DEF SessionsTypeOK, TypeOK
      <4>3. [op[t] EXCEPT !.at = now]
              \in [kind : {"assign"}, org : Orgs, priced : BOOLEAN, trial : BOOLEAN, at : Nat]
        BY <4>1, <4>2
      <4>4. op' = [op EXCEPT ![t] = [op[t] EXCEPT !.at = now]]
        BY <2>1, <3>1
      <4>5. /\ [op[t] EXCEPT !.at = now].kind = op[t].kind
            /\ [op[t] EXCEPT !.at = now].org = op[t].org
        BY <4>1
      <4>. QED
        BY <3>1, <4>3, <4>4, <4>5 DEF SessionsTypeOK, Ops, Settles
    <3>2. CASE op[t].kind # "assign"
      BY <2>1, <3>2 DEF SessionsTypeOK
    <3>. QED
      BY <3>1, <3>2
  <2>3. /\ SessionsTypeOK'
        /\ op'[t] # NoOp
        /\ \A y : Done(t, y)' <=> Done(t, y) \/ y = "index"
        /\ \A u \in Txs \ {t} : position'[u] = position[u]
    BY <1>1, <1>2, <2>1, <2>2, StatementType DEF SessionsTypeOK
  <2>4. /\ Settles(t)' <=> Settles(t)
        /\ OrgOf(t)' = OrgOf(t)
        /\ HeldSubs(t)' = HeldSubs(t)
        /\ subOrg' = subOrg /\ subStatus' = subStatus
        /\ invoice' = invoice /\ payment' = payment /\ created' = created
    BY <1>2, <2>1, <2>2 DEF OrgOf, Settles, HeldSubs, tables, vars, subVars, invVars
  <2>5. SettlementInv(t)'
    BY <1>2, <2>1, <2>2, <2>3, <2>4 DEF SettlementInv, TxInv
  <2>6. UpdateInv(t)'
    BY <2>1, <2>2, <2>3, <2>4 DEF UpdateInv, TxInv
  <2>7. IndexInv(t)'
    BY <1>4, <2>4 DEF IndexInv, LiveSubsOf, SubsOf, HeldSubs
  <2>8. TxInv(t)'
    BY <1>2, <2>1, <2>3, <2>5, <2>6, <2>7 DEF TxInv, IdleInv, SyncInv
  <2>9. \A u \in Txs \ {t} : Same(u)
    BY <2>1, <2>2, <2>3 DEF Same
  <2>10. \A u \in Txs \ {t} : held'[t] \cap held[u] = {}
    BY <2>1 DEF Exclusive
  <2>11. \A u \in Txs \ {t} : ~(Done(u, "index") /\ OrgOf(u) = OrgOf(t)')
    BY <1>1, <2>4 DEF WaitsFor, InIndex
  <2>12. Room'
    BY <2>2, <2>4, <2>9, RoomKept DEF Same
  <2>. QED
    BY <2>1, <2>3, <2>8, <2>9, <2>10, <2>11, <2>12, OneTxStep DEF lists, rest
<1>. QED
  BY <1>3, <1>4

(* The sync of the credentials keeps the invariant. *)
LEMMA SyncStep ==
    ASSUME SessionsInv, NEW t \in Txs, SyncCredentials(t) PROVE SessionsInv'
<1>. USE DEF SessionsInv
<1>1. /\ At(t, "credentials")
      /\ synced' = [synced EXCEPT ![t] = CredentialsOf(t)]
      /\ Continue(t)
      /\ UNCHANGED <<op, held, targets>> /\ UNCHANGED <<tables, rest>>
  BY DEF SyncCredentials
<1>2. op[t] # NoOp /\ \A y : At(t, y) <=> y = "credentials"
  BY <1>1 DEF At
<1>3. /\ SessionsTypeOK'
      /\ \A y : Done(t, y)' <=> Done(t, y) \/ y = "credentials"
      /\ \A u \in Txs \ {t} : position'[u] = position[u]
  <2>1. synced' \in [Txs -> SUBSET Creds]
    BY <1>1 DEF SessionsTypeOK, CredentialsOf, SyncedCredentials
  <2>. QED
    BY <1>1, <1>2, <2>1, StatementType DEF SessionsTypeOK
<1>4. /\ Settles(t)' <=> Settles(t)
      /\ OrgOf(t)' = OrgOf(t) /\ OrgsOf(t)' = OrgsOf(t) /\ HeldSubs(t)' = HeldSubs(t)
      /\ NewStatus(t)' = NewStatus(t)
  <2>1. subOrg' = subOrg
    BY <1>1 DEF tables, vars, subVars
  <2>. QED
    BY <1>1, <2>1, SameOrgs DEF Settles, NewStatus
<1>5. SettlementInv(t)' /\ UpdateInv(t)' /\ IndexInv(t)' /\ IdleInv(t)'
  <2>1. SettlementInv(t)'
    BY <1>1, <1>3, <1>4 DEF SettlementInv, TxInv, tables, vars, invVars
  <2>2. UpdateInv(t)'
    BY <1>1, <1>3, <1>4 DEF UpdateInv, TxInv, tables, vars, subVars
  <2>3. IndexInv(t)'
    BY <1>1, <1>3, <1>4 DEF IndexInv, LiveSubsOf, SubsOf, TxInv, tables, vars, subVars
  <2>. QED
    BY <1>1, <1>2, <2>1, <2>2, <2>3 DEF IdleInv
<1>6. SyncInv(t)'
  <2>1. /\ synced'[t] = SyncedCredentials(OrgsOf(t), NewStatus(t))
        /\ limited' = limited /\ limitReason' = limitReason /\ credOrg' = credOrg
        /\ exempt' = exempt
    BY <1>1 DEF SessionsTypeOK, CredentialsOf, tables, vars, credVars
  <2>2. ASSUME NEW c \in Creds, c \in synced'[t]
        PROVE  credOrg[c] \in OrgsOf(t) /\ (BillingLike(limitReason[c]) \/ ~limited[c])
    BY <2>1, <2>2 DEF SyncedCredentials
  <2>3. ASSUME NEW c \in Creds, c \notin synced'[t], credOrg[c] \in OrgsOf(t)
        PROVE  Agrees(c, NewStatus(t))
    BY <2>1, <2>3 DEF SyncedCredentials, Agrees, BillingLike
  <2>. QED
    BY <1>3, <1>4, <2>1, <2>2, <2>3 DEF SyncInv, Agrees
<1>7. \A u \in Txs \ {t} : Same(u)
  BY <1>1, <1>3 DEF Same, SessionsTypeOK
<1>8. Room'
  BY <1>1, RoomKept DEF tables, vars, subVars
<1>9. Done(t, "index")' => \A u \in Txs \ {t} : ~(Done(u, "index") /\ OrgOf(u) = OrgOf(t)')
  BY <1>3, <1>4 DEF IndexedOnce
<1>10. \A u \in Txs \ {t} : held'[t] \cap held[u] = {}
  BY <1>1 DEF Exclusive
<1>. QED
  BY <1>1, <1>3, <1>5, <1>6, <1>7, <1>8, <1>9, <1>10, OneTxStep DEF TxInv, lists, rest

-----------------------------------------------------------------------------
(* Sessions: what a transaction owns when it commits *)

(* A transaction that synchronises credentials has entered the index, or is *)
(* a sweep and has locked a live subscription of each of its organizations. *)
LEMMA ReadyIndexed ==
    ASSUME SessionsInv, NEW t \in Txs, At(t, "credentials") \/ At(t, "commit") \/ Done(t, "credentials")
    PROVE  /\ op[t].kind # "sweep" => Done(t, "index") /\ OrgsOf(t) = {OrgOf(t)}
           /\ op[t].kind = "sweep" => OrgsOf(t) = {subOrg[s] : s \in HeldSubs(t)}
           /\ OrgsOf(t) \subseteq Orgs
           /\ op[t] # NoOp
<1>. USE DEF SessionsInv
<1>1. op[t] # NoOp
  BY DEF At, Done
<1>2. CASE Settles(t)
  <2>1. Done(t, "index") /\ op[t].kind # "sweep"
    BY <1>2, SettlementStatements DEF Settles
  <2>2. OrgsOf(t) = {OrgOf(t)}
    BY <2>1 DEF OrgsOf
  <2>3. OrgOf(t) \in Orgs
    <3>1. op[t].sub \in Subs /\ invoice[op[t].sub] # "none"
      BY <1>2, SettlementStatements DEF TxInv, SettlementInv
    <3>. QED
      BY <1>2, <3>1 DEF OrgOf, TablesInv, IInv, RowsInv
  <2>. QED
    BY <1>1, <1>2, <2>1, <2>2, <2>3
<1>3. CASE op[t].kind = "assign"
  <2>1. Done(t, "index") /\ op[t].org \in Orgs
    BY <1>3, AssignStatements
  <2>. QED
    BY <1>1, <1>3, <2>1 DEF OrgsOf, OrgOf, Settles
<1>4. CASE op[t].kind = "sweep"
  <2>1. OrgsOf(t) = {subOrg[s] : s \in HeldSubs(t)}
    BY <1>4 DEF OrgsOf, HeldSubs
  <2>2. \A s \in HeldSubs(t) : subOrg[s] \in Orgs
    BY <1>4 DEF TxInv, UpdateInv, HeldSubs, Swept, TablesInv, IInv, RowsInv
  <2>. QED
    BY <1>1, <1>4, <2>1, <2>2
<1>. QED
  BY <1>1, <1>2, <1>3, <1>4, OpKinds

(* Two transactions never synchronise the credentials of one organization. *)
LEMMA OrgsDisjoint ==
    ASSUME SessionsInv, NEW t \in Txs, NEW u \in Txs, t # u,
           At(t, "credentials") \/ At(t, "commit") \/ Done(t, "credentials"),
           Done(u, "credentials")
    PROVE  OrgsOf(t) \cap OrgsOf(u) = {}
<1>. USE DEF SessionsInv
<1>1. \A v \in Txs : \A s \in HeldSubs(v) :
         op[v].kind = "sweep" => s \in LiveSubsOf(subOrg[s]) /\ s \in Subs
  BY DEF TxInv, UpdateInv, Swept, HeldSubs, LiveSubsOf, SubsOf, LiveStatuses
<1>2. HeldSubs(t) \cap HeldSubs(u) = {}
  BY DEF Exclusive, HeldSubs
<1>3. \A v \in Txs : Done(v, "index") => LiveSubsOf(OrgOf(v)) \subseteq HeldSubs(v)
  BY DEF TxInv, IndexInv
<1>4. CASE op[t].kind # "sweep" /\ op[u].kind # "sweep"
  BY <1>4, ReadyIndexed DEF IndexedOnce
<1>5. CASE op[t].kind # "sweep" /\ op[u].kind = "sweep"
  <2>1. OrgsOf(t) = {OrgOf(t)} /\ LiveSubsOf(OrgOf(t)) \subseteq HeldSubs(t)
    BY <1>3, <1>5, ReadyIndexed
  <2>2. OrgsOf(u) = {subOrg[s] : s \in HeldSubs(u)}
    BY <1>5, ReadyIndexed
  <2>. QED
    BY <1>1, <1>2, <1>5, <2>1, <2>2
<1>6. CASE op[t].kind = "sweep" /\ op[u].kind # "sweep"
  <2>1. OrgsOf(u) = {OrgOf(u)} /\ LiveSubsOf(OrgOf(u)) \subseteq HeldSubs(u)
    BY <1>3, <1>6, ReadyIndexed
  <2>2. OrgsOf(t) = {subOrg[s] : s \in HeldSubs(t)}
    BY <1>6, ReadyIndexed
  <2>. QED
    BY <1>1, <1>2, <1>6, <2>1, <2>2
<1>7. CASE op[t].kind = "sweep" /\ op[u].kind = "sweep"
  <2>1. /\ OrgsOf(t) = {subOrg[s] : s \in HeldSubs(t)}
        /\ OrgsOf(u) = {subOrg[s] : s \in HeldSubs(u)}
    BY <1>7, ReadyIndexed
  <2>2. \A s \in HeldSubs(t), r \in HeldSubs(u) : subOrg[s] # subOrg[r]
    BY <1>1, <1>2, <1>7 DEF TablesInv, IInv, UniqueLive, LiveSubsOf, SubsOf
  <2>. QED
    BY <2>1, <2>2
<1>. QED
  BY <1>4, <1>5, <1>6, <1>7

(* Nobody ever waits for a credential. *)
LEMMA CredentialsFree ==
    ASSUME SessionsInv, NEW t \in Txs, NEW u \in Txs, t # u, At(t, "credentials")
    PROVE  CredentialsOf(t) \cap synced[u] = {}
<1>. USE DEF SessionsInv
<1>1. CASE ~Done(u, "credentials")
  BY <1>1 DEF TxInv, SyncInv
<1>2. CASE Done(u, "credentials")
  <2>1. \A c \in CredentialsOf(t) : c \in Creds /\ credOrg[c] \in OrgsOf(t)
    BY DEF CredentialsOf, SyncedCredentials
  <2>2. \A c \in Creds : c \in synced[u] => credOrg[c] \in OrgsOf(u)
    BY <1>2 DEF TxInv, SyncInv
  <2>. QED
    BY <1>2, <2>1, <2>2, OrgsDisjoint
<1>. QED
  BY <1>1, <1>2

(* What a transaction has done when it commits. *)
LEMMA AtCommit ==
    ASSUME SessionsInv, NEW t \in Txs, At(t, "commit")
    PROVE  /\ Done(t, "credentials")
           /\ Settles(t) => Done(t, "invoice") /\ Done(t, "payment") /\ Done(t, "subscription")
                            /\ Done(t, "index")
           /\ op[t].kind = "assign" => Done(t, "index")
<1>1. SessionsTypeOK /\ op[t] # NoOp
  BY DEF SessionsInv, At
<1>. QED
  BY <1>1, OpKinds, SettlementStatements, AssignStatements, SweepStatements DEF Settles

(* What a COMMIT that moves the organizations os to standing st leaves in *)
(* the tables of subscriptions, invoices and payments.                    *)
CommittedTables(os, st) ==
    /\ created' \in 0 .. MaxSubs
    /\ subOrg' \in [Subs -> Orgs \cup {NoOrg}]
    /\ subStatus' \in [Subs -> SubscriptionStatuses \cup {"none"}]
    /\ periodEnd' \in [Subs -> Nat]
    /\ invoice' \in [Subs -> {"none", "issued", "paid", "failed"}]
    /\ payment' \in [Subs -> PaymentStatuses]
    /\ RowsInv'
    /\ UniqueLive(subOrg, subStatus)'
    /\ LiveStatusFollowsInvoice'
    /\ SettledTogether'
    /\ \A o \in os : Standing(o)' = st
    /\ \A p \in Orgs \ os : Standing(p)' = Standing(p)

(* The COMMIT of a settlement leaves one live subscription, in the status  *)
(* its invoice and its payment stand for.                                  *)
LEMMA CommitSettlementTables ==
    ASSUME SessionsInv, NEW t \in Txs, At(t, "commit"), CommitSettlement(t)
    PROVE  CommittedTables(OrgsOf(t), NewStatus(t))
<1>. USE DEF SessionsInv, TablesInv, IInv
<1>. DEFINE s == op[t].sub
            st == NewStatus(t)
<1>1. /\ s \in Subs /\ invoice[s] # "none" /\ Settles(t)
      /\ op[t].kind \in {"paid", "failed", "approve", "reject"}
      /\ Row("invoice", s) \in held[t]
      /\ Row("payment", s) \in held[t] \/ (op[t].kind \in {"paid", "failed"} /\ payment[s] # "pending")
      /\ OrgsOf(t) = {subOrg[s]} /\ subOrg[s] \in Orgs
  <2>1. Settles(t)
    BY DEF CommitSettlement
  <2>2. s \in Subs /\ invoice[s] # "none" /\ Row("invoice", s) \in held[t]
    BY <2>1, AtCommit, SettlementStatements DEF TxInv, SettlementInv
  <2>3. Row("payment", s) \in held[t] \/ (op[t].kind \in {"paid", "failed"} /\ payment[s] # "pending")
    BY <2>1, AtCommit DEF TxInv, SettlementInv
  <2>4. OrgsOf(t) = {subOrg[s]} /\ subOrg[s] \in Orgs
    BY <2>1, ReadyIndexed DEF OrgOf, Settles
  <2>. QED
    BY <2>1, <2>2, <2>3, <2>4 DEF Settles
<1>2. \A r \in Subs : subOrg[r] = subOrg[s] /\ subStatus[r] \in LiveStatuses => r = s
  <2>1. LiveSubsOf(subOrg[s]) \subseteq HeldSubs(t)
    BY <1>1, AtCommit DEF TxInv, IndexInv, OrgOf
  <2>2. \A r \in HeldSubs(t) : r = s
    BY <1>1 DEF TxInv, SettlementInv, HeldSubs, Row
  <2>. QED
    BY <2>1, <2>2 DEF LiveSubsOf, SubsOf
<1>3. /\ st = IF op[t].kind \in {"paid", "approve"} THEN "active" ELSE "past_due"
      /\ subStatus' = [subStatus EXCEPT ![s] = st]
      /\ invoice' = [invoice EXCEPT ![s] = IF op[t].kind \in {"paid", "approve"} THEN "paid" ELSE "failed"]
      /\ payment' = IF Row("payment", s) \in held[t]
                    THEN [payment EXCEPT ![s] = PaymentAfter(op[t].kind)] ELSE payment
      /\ PaymentAfter(op[t].kind) \in {"approved", "failed", "rejected"}
      /\ UNCHANGED <<created, subOrg, periodEnd>>
  BY <1>1 DEF CommitSettlement, NewStatus, InvoiceAfter, PaymentAfter
<1>. HIDE DEF st
<1>4. subStatus' \in [Subs -> SubscriptionStatuses \cup {"none"}]
  BY <1>1, <1>3 DEF TypeOK, SubscriptionStatuses
<1>5. /\ invoice' \in [Subs -> {"none", "issued", "paid", "failed"}]
      /\ payment' \in [Subs -> PaymentStatuses]
  BY <1>1, <1>3 DEF TypeOK, PaymentStatuses
<1>6. /\ subStatus'[s] = st /\ invoice'[s] \in {"paid", "failed"}
      /\ invoice'[s] = "paid" <=> st = "active"
      /\ st \in {"active", "past_due"}
      /\ payment'[s] \notin {"pending", "none"}
      /\ \A r \in Subs \ {s} : /\ subStatus'[r] = subStatus[r]
                               /\ invoice'[r] = invoice[r] /\ payment'[r] = payment[r]
  <2>1. payment[s] # "none"
    BY <1>1 DEF RowsInv
  <2>. QED
    BY <1>1, <1>3, <2>1 DEF TypeOK
<1>7. RowsInv'
  BY <1>1, <1>3, <1>6 DEF RowsInv, Born
<1>8. UniqueLive(subOrg, subStatus)'
  BY <1>1, <1>2, <1>3, <1>6 DEF UniqueLive
<1>9. LiveStatusFollowsInvoice' /\ SettledTogether'
  BY <1>1, <1>6 DEF LiveStatusFollowsInvoice, SettledTogether
<1>10. \A o \in OrgsOf(t) : Standing(o)' = st
  <2>1. \A r \in Subs : subOrg'[r] = subOrg[s] /\ subStatus'[r] \in LiveStatuses => r = s
    BY <1>1, <1>2, <1>3, <1>6
  <2>. QED
    BY <1>1, <1>3, <1>6, <2>1, StandingOfLive
<1>11. \A p \in Orgs \ OrgsOf(t) : Standing(p)' = Standing(p)
  <2>1. ASSUME NEW p \in Orgs \ OrgsOf(t)
        PROVE  \A r \in Subs : /\ subOrg'[r] = p <=> subOrg[r] = p
                               /\ subOrg[r] = p => subStatus'[r] = subStatus[r]
    BY <1>1, <1>3, <1>6, <2>1
  <2>. QED
    BY <2>1, StandingFrame
<1>. QED
  BY <1>3, <1>4, <1>5, <1>7, <1>8, <1>9, <1>10, <1>11 DEF TypeOK, CommittedTables, st

(* The subscription an assignment inserts is within the bound. *)
LEMMA RoomForAssign ==
    ASSUME SessionsInv, NEW t \in Txs, op[t].kind = "assign"
    PROVE  created + 1 \in Subs /\ created + 1 <= MaxSubs
<1>. USE DEF SessionsInv
<1>1. Cardinality(Assigning) # 0
  BY AssigningFinite, FS_EmptySet DEF Assigning
<1>2. created \in Nat /\ MaxSubs \in Nat
  BY BoundsAssumption DEF SessionsTypeOK, TypeOK
<1>. QED
  BY <1>1, <1>2, AssigningFinite DEF Room, Subs

(* The COMMIT of an assignment has canceled every other live subscription. *)
LEMMA CommitAssignTables ==
    ASSUME SessionsInv, NEW t \in Txs, At(t, "commit"), CommitAssign(t)
    PROVE  CommittedTables(OrgsOf(t), NewStatus(t))
<1>. USE DEF SessionsInv, TablesInv, IInv
<1>. DEFINE s == created + 1
            o == op[t].org
            st == NewStatus(t)
            billed == op[t].priced /\ ~op[t].trial
<1>1. /\ op[t].kind = "assign"
      /\ s \in Subs /\ subOrg[s] = NoOrg /\ subStatus[s] = "none"
      /\ invoice[s] = "none" /\ payment[s] = "none"
      /\ o \in Orgs /\ op[t].priced \in BOOLEAN /\ op[t].trial \in BOOLEAN /\ op[t].at \in Nat
      /\ OrgsOf(t) = {o} /\ OrgOf(t) = o
  <2>1. op[t].kind = "assign" /\ s \in Subs
    BY RoomForAssign DEF CommitAssign
  <2>2. subOrg[s] = NoOrg /\ subStatus[s] = "none" /\ invoice[s] = "none" /\ payment[s] = "none"
    <3>1. ~Born(s)
      BY DEF Born, SessionsTypeOK, TypeOK
    <3>. QED
      BY <2>1, <3>1 DEF RowsInv, SessionsTypeOK, TypeOK
  <2>. QED
    BY <2>1, <2>2, AssignStatements DEF OrgsOf, OrgOf, Settles
<1>2. /\ \A r \in Subs : subOrg[r] = o /\ subStatus[r] \in LiveStatuses => r \in HeldSubs(t)
      /\ \A r \in HeldSubs(t) : subOrg[r] = o
  BY <1>1, AtCommit DEF TxInv, IndexInv, UpdateInv, LiveSubsOf, SubsOf
<1>3. /\ st = IF op[t].trial THEN "trialing" ELSE IF op[t].priced THEN "past_due" ELSE "active"
      /\ created' = s
      /\ subOrg' = [subOrg EXCEPT ![s] = o]
      /\ subStatus' = [r \in Subs |-> IF r = s THEN st
                                      ELSE IF r \in HeldSubs(t) THEN "canceled" ELSE subStatus[r]]
      /\ periodEnd' = [periodEnd EXCEPT ![s] =
                           op[t].at + (IF op[t].trial THEN TrialPeriod ELSE Period)]
      /\ invoice' = [invoice EXCEPT ![s] = IF billed THEN "issued" ELSE "none"]
      /\ payment' = [payment EXCEPT ![s] = IF billed THEN "pending" ELSE "none"]
  BY <1>1 DEF CommitAssign, NewStatus, HeldSubs
<1>. HIDE DEF st
<1>4. /\ created' \in 0 .. MaxSubs /\ subOrg' \in [Subs -> Orgs \cup {NoOrg}]
      /\ periodEnd' \in [Subs -> Nat]
  BY <1>1, <1>3, BoundsAssumption, RoomForAssign DEF SessionsTypeOK, TypeOK
<1>5. /\ subStatus' \in [Subs -> SubscriptionStatuses \cup {"none"}]
      /\ invoice' \in [Subs -> {"none", "issued", "paid", "failed"}]
      /\ payment' \in [Subs -> PaymentStatuses]
  <2>1. subStatus' \in [Subs -> SubscriptionStatuses \cup {"none"}]
    BY <1>1, <1>3 DEF TypeOK, SubscriptionStatuses
  <2>2. invoice' \in [Subs -> {"none", "issued", "paid", "failed"}]
    BY <1>1, <1>3 DEF TypeOK
  <2>3. payment' \in [Subs -> PaymentStatuses]
    BY <1>1, <1>3 DEF TypeOK, PaymentStatuses
  <2>. QED
    BY <2>1, <2>2, <2>3
<1>6. /\ subOrg'[s] = o /\ subStatus'[s] = st
      /\ st \in {"trialing", "past_due", "active"} /\ (st = "past_due" <=> billed)
      /\ invoice'[s] = (IF billed THEN "issued" ELSE "none")
      /\ payment'[s] = (IF billed THEN "pending" ELSE "none")
      /\ \A r \in Subs \ {s} :
            /\ subOrg'[r] = subOrg[r] /\ invoice'[r] = invoice[r] /\ payment'[r] = payment[r]
            /\ subStatus'[r] = IF r \in HeldSubs(t) THEN "canceled" ELSE subStatus[r]
  BY <1>1, <1>3 DEF TypeOK
<1>7. \A r \in Subs \ {s} : r \in HeldSubs(t) => subStatus[r] # "none"
  BY <1>1 DEF TxInv, UpdateInv, Swept
<1>8. \A r \in Subs : Born(r)' <=> Born(r) \/ r = s
  BY <1>3, BoundsAssumption DEF Born, SessionsTypeOK, TypeOK, Subs
<1>9. RowsInv'
  BY <1>1, <1>6, <1>7, <1>8 DEF RowsInv
<1>10. \A r \in Subs : subOrg'[r] = o /\ subStatus'[r] \in LiveStatuses => r = s
  BY <1>2, <1>6 DEF LiveStatuses
<1>11. UniqueLive(subOrg, subStatus)'
  <2>1. ASSUME NEW q \in Subs, NEW r \in Subs, subOrg'[q] = subOrg'[r],
               subStatus'[q] \in LiveStatuses, subStatus'[r] \in LiveStatuses
        PROVE  q = r
    <3>1. CASE subOrg'[q] = o
      BY <1>10, <2>1, <3>1
    <3>2. CASE subOrg'[q] # o
      <4>1. q # s /\ r # s
        BY <1>6, <2>1, <3>2
      <4>2. subStatus[q] \in LiveStatuses /\ subStatus[r] \in LiveStatuses
        BY <1>6, <2>1, <4>1 DEF LiveStatuses
      <4>. QED
        BY <1>6, <2>1, <4>1, <4>2 DEF UniqueLive
    <3>. QED
      BY <3>1, <3>2
  <2>. QED
    BY <2>1 DEF UniqueLive
<1>12. LiveStatusFollowsInvoice' /\ SettledTogether'
  <2>1. SettledTogether'
    BY <1>1, <1>6 DEF SettledTogether
  <2>2. LiveStatusFollowsInvoice'
    BY <1>1, <1>6 DEF LiveStatusFollowsInvoice, LiveStatuses
  <2>. QED
    BY <2>1, <2>2
<1>13. \A q \in OrgsOf(t) : Standing(q)' = st
  BY <1>1, <1>6, <1>10, StandingOfLive
<1>14. \A p \in Orgs \ OrgsOf(t) : Standing(p)' = Standing(p)
  <2>1. ASSUME NEW p \in Orgs \ OrgsOf(t)
        PROVE  \A r \in Subs : /\ subOrg'[r] = p <=> subOrg[r] = p
                               /\ subOrg[r] = p => subStatus'[r] = subStatus[r]
    BY <1>1, <1>2, <1>6, <2>1, OrgsAssumption
  <2>. QED
    BY <2>1, StandingFrame
<1>. QED
  BY <1>4, <1>5, <1>9, <1>11, <1>12, <1>13, <1>14 DEF CommittedTables, st

(* The COMMIT of a sweep expires the subscriptions it has locked. *)
LEMMA CommitSweepTables ==
    ASSUME SessionsInv, NEW t \in Txs, At(t, "commit"), CommitSweep(t)
    PROVE  CommittedTables(OrgsOf(t), NewStatus(t))
<1>. USE DEF SessionsInv, TablesInv, IInv
<1>1. /\ op[t].kind = "sweep" /\ NewStatus(t) = "expired"
      /\ UNCHANGED <<created, subOrg, periodEnd, invoice, payment>>
      /\ subStatus' = [s \in Subs |-> IF s \in HeldSubs(t) THEN "expired" ELSE subStatus[s]]
      /\ OrgsOf(t) = {subOrg[s] : s \in HeldSubs(t)}
  BY ReadyIndexed DEF CommitSweep, HeldSubs, invVars, NewStatus
<1>2. \A s \in HeldSubs(t) : s \in Subs /\ subStatus[s] \in LiveStatuses /\ subStatus[s] # "none"
  BY <1>1 DEF TxInv, UpdateInv, Swept, HeldSubs, LiveStatuses
<1>3. \A s \in Subs : subStatus'[s] = IF s \in HeldSubs(t) THEN "expired" ELSE subStatus[s]
  BY <1>1
<1>4. subStatus' \in [Subs -> SubscriptionStatuses \cup {"none"}]
  BY <1>1 DEF TypeOK, SubscriptionStatuses
<1>5. RowsInv'
  BY <1>1, <1>2, <1>3 DEF RowsInv, Born
<1>6. UniqueLive(subOrg, subStatus)'
  BY <1>1, <1>3 DEF UniqueLive, LiveStatuses
<1>7. LiveStatusFollowsInvoice' /\ SettledTogether'
  BY <1>1, <1>3 DEF LiveStatusFollowsInvoice, SettledTogether, LiveStatuses
<1>8. \A o \in OrgsOf(t) : Standing(o)' = "expired"
  <2>1. ASSUME NEW s \in HeldSubs(t)
        PROVE  \A r \in Subs : subOrg'[r] = subOrg[s] => subStatus'[r] \notin LiveStatuses
    BY <1>1, <1>2, <1>3, <2>1 DEF UniqueLive, LiveStatuses
  <2>2. \A s \in HeldSubs(t) : s \in Subs /\ subOrg'[s] = subOrg[s]
    BY <1>1, <1>2
  <2>. QED
    BY <1>1, <2>1, <2>2, StandingExpired
<1>9. \A p \in Orgs \ OrgsOf(t) : Standing(p)' = Standing(p)
  <2>1. ASSUME NEW p \in Orgs \ OrgsOf(t)
        PROVE  \A r \in Subs : /\ subOrg'[r] = p <=> subOrg[r] = p
                               /\ subOrg[r] = p => subStatus'[r] = subStatus[r]
    BY <1>1, <1>3, <2>1
  <2>. QED
    BY <2>1, StandingFrame
<1>. QED
  BY <1>1, <1>4, <1>5, <1>6, <1>7, <1>8, <1>9 DEF TypeOK, CommittedTables

-----------------------------------------------------------------------------
(* Sessions: COMMIT *)

(* What every COMMIT leaves in the tables *)
LEMMA CommitTables ==
    ASSUME SessionsInv, NEW t \in Txs, Commit(t)
    PROVE  CommittedTables(OrgsOf(t), NewStatus(t))
BY CommitSettlementTables, CommitAssignTables, CommitSweepTables DEF Commit

(* The COMMIT writes only in the credentials of its own organizations. *)
LEMMA CommitCredentials ==
    ASSUME SessionsInv, NEW t \in Txs, Commit(t)
    PROVE  /\ \A c \in Creds : c \in synced[t] => credOrg[c] \in OrgsOf(t)
           /\ \A c \in Creds : c \notin synced[t] =>
                 /\ limited'[c] = limited[c] /\ limitReason'[c] = limitReason[c]
                 /\ c \in exempt' <=> c \in exempt
           /\ \A c \in Creds : c \in synced[t] =>
                 LET restrict == NewStatus(t) \in RestrictingStatuses
                 IN  /\ limited'[c] = restrict
                     /\ limitReason'[c] = IF restrict THEN BillingReason(NewStatus(t)) ELSE NoReason
                     /\ BillingLike(limitReason[c]) \/ ~limited[c]
           /\ UNCHANGED <<now, credOrg, creating>>
           /\ limited' \in [Creds -> BOOLEAN]
           /\ limitReason' \in [Creds -> LimitReasons]
           /\ exempt' \subseteq Creds
<1>1. Done(t, "credentials") /\ SyncInv(t)
  BY AtCommit DEF Commit, SessionsInv, TxInv
<1>2. NewStatus(t) \in RestrictingStatuses => BillingReason(NewStatus(t)) \in LimitReasons
  BY DEF LimitReasons, BillingReasons
<1>3. NoReason \in LimitReasons
  BY DEF LimitReasons
<1>. DEFINE restrict == NewStatus(t) \in RestrictingStatuses
<1>4. /\ limited' = [c \in Creds |-> IF c \in synced[t] THEN restrict ELSE limited[c]]
      /\ limitReason' = [c \in Creds |->
                              IF c \notin synced[t] THEN limitReason[c]
                              ELSE IF restrict THEN BillingReason(NewStatus(t)) ELSE NoReason]
      /\ exempt' = IF restrict THEN exempt \ synced[t] ELSE exempt
      /\ UNCHANGED <<now, credOrg, creating>>
  BY DEF Commit, WriteCredentials
<1>5. restrict \in BOOLEAN
  OBVIOUS
<1>6. restrict => BillingReason(NewStatus(t)) \in LimitReasons
  BY <1>2
<1>. HIDE DEF restrict
<1>7. /\ limited' \in [Creds -> BOOLEAN]
      /\ limitReason' \in [Creds -> LimitReasons]
      /\ exempt' \subseteq Creds
  BY <1>3, <1>4, <1>5, <1>6 DEF SessionsInv, SessionsTypeOK, TypeOK
<1>8. \A c \in Creds : c \in synced[t] =>
         /\ limited'[c] = restrict
         /\ limitReason'[c] = IF restrict THEN BillingReason(NewStatus(t)) ELSE NoReason
  BY <1>4
<1>9. \A c \in Creds : c \notin synced[t] =>
         /\ limited'[c] = limited[c] /\ limitReason'[c] = limitReason[c]
         /\ c \in exempt' <=> c \in exempt
  BY <1>4
<1>10. \A c \in Creds : c \in synced[t] => /\ credOrg[c] \in OrgsOf(t)
                                           /\ BillingLike(limitReason[c]) \/ ~limited[c]
  BY <1>1 DEF SyncInv
<1>. QED
  BY <1>4, <1>7, <1>8, <1>9, <1>10 DEF restrict

(* A COMMIT leaves limits and standings in agreement. *)
LEMMA CommitFollows ==
    ASSUME SessionsInv, NEW t \in Txs, Commit(t) PROVE CredentialLimitsFollowStanding'
<1>. DEFINE st == NewStatus(t)
<1>. SUFFICES ASSUME NEW c \in Creds, credOrg'[c] # NoOrg
              PROVE  Follows(c, Standing(credOrg[c]))'
  BY DEF CredentialLimitsFollowStanding, Follows
<1>1. credOrg' = credOrg /\ credOrg[c] \in Orgs
  BY CommitCredentials DEF SessionsInv, SessionsTypeOK, TypeOK
<1>2. CASE credOrg[c] \in OrgsOf(t)
  <2>1. Standing(credOrg[c])' = st
    BY <1>1, <1>2, CommitTables DEF CommittedTables
  <2>2. CASE c \in synced[t]
    <3>1. NoReason \notin BillingReasons
      BY DEF NoReason, BillingReasons, RestrictingStatuses, BillingReason
    <3>2. /\ limited'[c] = (st \in RestrictingStatuses)
          /\ limitReason'[c] = IF st \in RestrictingStatuses THEN BillingReason(st) ELSE NoReason
      BY <2>2, CommitCredentials
    <3>. QED
      BY <1>1, <2>1, <3>1, <3>2 DEF Follows
  <2>3. CASE c \notin synced[t]
    <3>1. Agrees(c, st)
      BY <1>2, <2>3, AtCommit DEF Commit, SessionsInv, TxInv, SyncInv
    <3>2. /\ limited'[c] = limited[c] /\ limitReason'[c] = limitReason[c]
          /\ c \in exempt' <=> c \in exempt
      BY <2>3, CommitCredentials
    <3>. QED
      BY <1>1, <2>1, <3>1, <3>2 DEF Agrees, Follows
  <2>. QED
    BY <2>2, <2>3
<1>3. CASE credOrg[c] \notin OrgsOf(t)
  <2>1. Standing(credOrg[c])' = Standing(credOrg[c])
    BY <1>1, <1>3, CommitTables DEF CommittedTables
  <2>2. c \notin synced[t]
    BY <1>3, CommitCredentials
  <2>3. Follows(c, Standing(credOrg[c]))
    BY <1>1 DEF SessionsInv, TablesInv, IInv, CredentialLimitsFollowStanding, Follows
  <2>. QED
    BY <1>1, <2>1, <2>2, <2>3, CommitCredentials DEF Follows
<1>. QED
  BY <1>2, <1>3

(* A COMMIT keeps the invariant of the tables. *)
LEMMA CommitTablesInv ==
    ASSUME SessionsInv, NEW t \in Txs, Commit(t) PROVE TablesInv'
<1>. USE DEF SessionsInv, TablesInv, IInv
<1>1. TypeOK'
  BY CommitTables, CommitCredentials DEF CommittedTables, TypeOK
<1>2. CredentialRows'
  <2>1. ASSUME NEW c \in Creds
        PROVE  (credOrg'[c] = NoOrg => ~limited'[c]) /\ (creating'[c] # NoOrg => credOrg'[c] = NoOrg)
    <3>1. credOrg' = credOrg /\ creating' = creating
      BY CommitCredentials
    <3>2. c \in synced[t] => credOrg[c] # NoOrg
      BY CommitCredentials, ReadyIndexed, OrgsAssumption DEF Commit
    <3>. QED
      BY <3>1, <3>2, CommitCredentials DEF CredentialRows
  <2>. QED
    BY <2>1 DEF CredentialRows
<1>. QED
  BY <1>1, <1>2, CommitTables, CommitFollows DEF CommittedTables

(* What other transactions may rely on across a COMMIT. *)
LEMMA CommitFrame ==
    ASSUME SessionsInv, NEW t \in Txs, Commit(t), NEW u \in Txs, u # t
    PROVE  /\ \A s \in Subs : invoice[s] # "none" => invoice'[s] # "none"
           /\ \A s \in Subs : invoice[s] # "none" /\ payment[s] # "pending" => payment'[s] # "pending"
           /\ \A s \in Subs : subOrg[s] \in Orgs => subOrg'[s] = subOrg[s]
           /\ \A s \in HeldSubs(u) : subOrg[s] \in Orgs => subStatus'[s] = subStatus[s]
           /\ \A o \in Orgs : op[t].kind = "sweep" \/ o # OrgOf(t) =>
                 LiveSubsOf(o)' \subseteq LiveSubsOf(o)
<1>. USE DEF SessionsInv
<1>1. HeldSubs(u) \cap HeldSubs(t) = {}
  BY DEF Exclusive, HeldSubs
<1>2. CASE CommitSettlement(t)
  <2>. DEFINE s == op[t].sub
  <2>1. s \in Subs /\ invoice[s] # "none" /\ OrgOf(t) = subOrg[s] /\ s \in HeldSubs(t)
    BY <1>2, AtCommit, SettlementStatements
       DEF CommitSettlement, TxInv, SettlementInv, OrgOf, HeldSubs, Commit
  <2>2. /\ \A r \in Subs \ {s} : /\ subStatus'[r] = subStatus[r]
                                 /\ invoice'[r] = invoice[r] /\ payment'[r] = payment[r]
        /\ subOrg' = subOrg
        /\ invoice'[s] \in {invoice[s], "paid", "failed"}
        /\ payment'[s] \in {payment[s], "approved", "failed", "rejected"}
    BY <1>2, <2>1 DEF CommitSettlement, InvoiceAfter, PaymentAfter, Settles, SessionsTypeOK, TypeOK
  <2>3. op[t].kind # "sweep"
    BY <1>2 DEF CommitSettlement, Settles
  <2>. QED
    BY <1>1, <2>1, <2>2, <2>3 DEF LiveSubsOf, SubsOf, HeldSubs
<1>3. CASE CommitAssign(t)
  <2>. DEFINE s == created + 1
  <2>1. s \in Subs /\ op[t].kind = "assign" /\ OrgOf(t) = op[t].org
    BY <1>3, RoomForAssign DEF CommitAssign, OrgOf, Settles
  <2>2. subOrg[s] = NoOrg /\ invoice[s] = "none"
    <3>1. ~Born(s)
      BY DEF Born, SessionsTypeOK, TypeOK
    <3>. QED
      BY <2>1, <3>1 DEF TablesInv, IInv, RowsInv, TypeOK
  <2>3. /\ \A r \in Subs \ {s} :
              /\ subOrg'[r] = subOrg[r] /\ invoice'[r] = invoice[r] /\ payment'[r] = payment[r]
              /\ subStatus'[r] = IF r \in HeldSubs(t) THEN "canceled" ELSE subStatus[r]
        /\ subOrg'[s] = OrgOf(t)
    BY <1>3, <2>1 DEF CommitAssign, HeldSubs, SessionsTypeOK, TypeOK
  <2>. QED
    BY <1>1, <2>1, <2>2, <2>3, OrgsAssumption DEF LiveSubsOf, SubsOf, LiveStatuses, HeldSubs
<1>4. CASE CommitSweep(t)
  <2>1. /\ UNCHANGED <<subOrg, invoice, payment>>
        /\ \A s \in Subs : subStatus'[s] = IF s \in HeldSubs(t) THEN "expired" ELSE subStatus[s]
    BY <1>4 DEF CommitSweep, HeldSubs, invVars
  <2>. QED
    BY <1>1, <2>1 DEF LiveSubsOf, SubsOf, LiveStatuses, HeldSubs
<1>. QED
  BY <1>2, <1>3, <1>4 DEF Commit

(* A COMMIT leaves alone what another transaction relies on: the rows that *)
(* one has locked, the index entry it has entered, the credentials it has  *)
(* locked.                                                                 *)
LEMMA CommitOtherTx ==
    ASSUME SessionsInv, NEW t \in Txs, Commit(t), NEW u \in Txs, u # t, Same(u)
    PROVE  TxInv(u)' /\ OrgOf(u)' = OrgOf(u)
<1>. USE DEF SessionsInv
<1>1. TxInv(u)
  OBVIOUS
<1>2. /\ op'[u] = op[u] /\ held'[u] = held[u] /\ targets'[u] = targets[u]
      /\ synced'[u] = synced[u] /\ HeldSubs(u)' = HeldSubs(u)
      /\ Settles(u)' <=> Settles(u)
      /\ NewStatus(u)' = NewStatus(u)
      /\ \A x : Done(u, x)' <=> Done(u, x)
  BY SameStatement DEF Same, HeldSubs
<1>3. Settles(u) => op[u].sub \in Subs /\ invoice[op[u].sub] # "none"
                    /\ subOrg[op[u].sub] \in Orgs
  <2>1. Settles(u) => op[u].sub \in Subs /\ invoice[op[u].sub] # "none"
    BY SettlementStatements DEF TxInv, SettlementInv
  <2>. QED
    BY <2>1 DEF TablesInv, IInv, RowsInv
<1>4. OrgOf(u)' = OrgOf(u)
  BY <1>2, <1>3, CommitFrame DEF OrgOf
<1>5. IdleInv(u)' /\ SettlementInv(u)'
  BY <1>1, <1>2, <1>3, CommitFrame DEF TxInv, IdleInv, SettlementInv
<1>6. op[u].kind \in {"assign", "sweep"} =>
        \A s \in HeldSubs(u) : s \in Subs /\ subStatus[s] \in Swept /\ subOrg[s] \in Orgs
  BY <1>1 DEF TxInv, UpdateInv, HeldSubs, Swept, TablesInv, IInv, RowsInv
<1>7. op[u].kind \in {"assign", "sweep"} =>
        /\ \A s \in HeldSubs(u) : subStatus'[s] = subStatus[s] /\ subOrg'[s] = subOrg[s]
        /\ \A r \in targets[u] : subOrg'[r] = subOrg[r]
  BY <1>1, <1>6, CommitFrame DEF TxInv, UpdateInv, SessionsTypeOK
<1>8. UpdateInv(u)'
  BY <1>1, <1>2, <1>7 DEF TxInv, UpdateInv, Swept
<1>9. IndexInv(u)'
  <2>1. ASSUME Done(u, "index") PROVE LiveSubsOf(OrgOf(u))' \subseteq HeldSubs(u)
    <3>1. OrgOf(u) \in Orgs
      BY <1>3, <2>1, OpKinds, AssignStatements, SweepStatements DEF OrgOf, Done, Settles
    <3>2. op[t].kind = "sweep" \/ OrgOf(u) # OrgOf(t)
      BY <2>1, AtCommit, OpKinds DEF IndexedOnce, Commit, At, Settles
    <3>3. LiveSubsOf(OrgOf(u))' \subseteq LiveSubsOf(OrgOf(u))
      BY <1>4, <3>1, <3>2, CommitFrame DEF LiveSubsOf, SubsOf
    <3>. QED
      BY <1>1, <2>1, <3>3 DEF TxInv, IndexInv
  <2>. QED
    BY <1>2, <2>1 DEF IndexInv
<1>10. SyncInv(u)'
  <2>1. ASSUME Done(u, "credentials") PROVE OrgsOf(u)' = OrgsOf(u)
    <3>1. CASE op[u].kind = "sweep"
      <4>1. OrgsOf(u) = {subOrg[s] : s \in HeldSubs(u)}
        BY <3>1 DEF OrgsOf, HeldSubs
      <4>2. OrgsOf(u)' = {subOrg'[s] : s \in HeldSubs(u)'}
        BY <1>2, <3>1 DEF OrgsOf, HeldSubs
      <4>. QED
        BY <1>2, <1>7, <3>1, <4>1, <4>2
    <3>2. CASE op[u].kind # "sweep"
      BY <1>2, <1>4, <3>2 DEF OrgsOf
    <3>. QED
      BY <3>1, <3>2
  <2>2. ASSUME Done(u, "credentials"), NEW c \in Creds, credOrg[c] \in OrgsOf(u)
        PROVE  c \notin synced[t]
    BY <2>2, AtCommit, OrgsDisjoint, CommitCredentials DEF Commit
  <2>3. credOrg' = credOrg
    BY CommitCredentials
  <2>4. ASSUME Done(u, "credentials"), NEW c \in Creds
        PROVE  /\ c \in synced[u] => /\ credOrg'[c] \in OrgsOf(u)'
                                     /\ BillingLike(limitReason'[c]) \/ ~limited'[c]
               /\ c \notin synced[u] /\ credOrg'[c] \in OrgsOf(u)' => Agrees(c, NewStatus(u))'
    <3>1. /\ c \in synced[u] => /\ credOrg[c] \in OrgsOf(u)
                                /\ BillingLike(limitReason[c]) \/ ~limited[c]
          /\ c \notin synced[u] /\ credOrg[c] \in OrgsOf(u) => Agrees(c, NewStatus(u))
      BY <1>1, <2>4 DEF TxInv, SyncInv
    <3>2. credOrg[c] \in OrgsOf(u) =>
             /\ limited'[c] = limited[c] /\ limitReason'[c] = limitReason[c]
             /\ c \in exempt' <=> c \in exempt
      BY <2>2, <2>4, CommitCredentials
    <3>. QED
      BY <1>2, <2>1, <2>3, <2>4, <3>1, <3>2 DEF Agrees
  <2>. QED
    BY <1>1, <1>2, <2>4 DEF TxInv, SyncInv
<1>. QED
  BY <1>4, <1>5, <1>8, <1>9, <1>10 DEF TxInv

(* A COMMIT keeps the invariant. *)
LEMMA CommitStep ==
    ASSUME SessionsInv, NEW t \in Txs, Commit(t) PROVE SessionsInv'
<1>. USE DEF SessionsInv
<1>1. TablesInv'
  BY CommitTablesInv
<1>2. End(t)
  BY DEF Commit
<1>3. SessionsTypeOK'
  BY <1>1, <1>2, EndType DEF TablesInv, IInv
<1>4. \A u \in Txs : TxInv(u)'
  BY <1>2, EndedTx, CommitOtherTx
<1>5. Exclusive'
  BY <1>2, EndedTx, ExclusiveKept DEF Same
<1>6. IndexedOnce'
  <2>1. ASSUME NEW u \in Txs, Done(u, "index")'
        PROVE  Done(u, "index") /\ OrgOf(u)' = OrgOf(u)
    <3>1. u # t /\ Same(u)
      BY <1>2, <2>1, EndedTx
    <3>. QED
      BY <2>1, <3>1, CommitOtherTx, SameStatement DEF Same
  <2>. QED
    BY <2>1, IndexedOnceKept
<1>7. Room'
  <2>1. CASE CommitAssign(t)
    <3>1. op[t].kind = "assign" /\ created' = created + 1
      BY <2>1 DEF CommitAssign
    <3>2. Assigning' = Assigning \ {t}
      BY <1>2, EndedTx DEF Assigning, Same
    <3>3. Cardinality(Assigning') = Cardinality(Assigning) - 1
      <4>1. t \in Assigning
        BY <3>1 DEF Assigning
      <4>. QED
        BY <3>2, <4>1, AssigningFinite, FS_RemoveElement
    <3>4. created \in Nat /\ MaxSubs \in Nat
      BY BoundsAssumption DEF SessionsTypeOK, TypeOK
    <3>5. Room' <=> created' + Cardinality(Assigning') <= MaxSubs
      BY DEF Room
    <3>. QED
      BY <3>1, <3>3, <3>4, <3>5, AssigningFinite DEF Room
  <2>2. CASE ~CommitAssign(t)
    <3>1. created' = created
      BY <2>2 DEF Commit, CommitSettlement, CommitSweep
    <3>. QED
      BY <1>2, <3>1, EndedTx, RoomKept DEF Same
  <2>. QED
    BY <2>1, <2>2
<1>8. QueriesAboutRows'
  BY <1>2 DEF QueriesAboutRows, End, rest
<1>. QED
  BY <1>1, <1>3, <1>4, <1>5, <1>6, <1>7, <1>8

-----------------------------------------------------------------------------
(* Sessions: the other statements, and the invariant *)

(* A step of nobody's transaction, which leaves subscriptions and invoices *)
(* alone and changes no credential that a transaction is about to write.   *)
LEMMA OtherStep ==
    ASSUME SessionsInv, [Next]_vars, SessionsTypeOK', QueriesAboutRows',
           UNCHANGED <<subVars, invVars, op, position, held, targets, synced>>,
           \A c \in Creds :
              \/ /\ credOrg'[c] = credOrg[c] /\ limited'[c] = limited[c]
                 /\ limitReason'[c] = limitReason[c] /\ (c \in exempt' <=> c \in exempt)
              \/ /\ \A t \in Txs : c \notin synced[t]
                 /\ limitReason'[c] \notin BillingReasons
                 /\ limited'[c] \/ c \in exempt'
    PROVE  SessionsInv'
<1>. USE DEF SessionsInv
<1>1. TablesInv'
  BY SameTables
<1>2. ASSUME NEW t \in Txs
      PROVE  /\ op'[t] = op[t] /\ position'[t] = position[t] /\ held'[t] = held[t]
             /\ targets'[t] = targets[t] /\ synced'[t] = synced[t]
             /\ Settles(t)' <=> Settles(t)
             /\ NewStatus(t)' = NewStatus(t)
             /\ \A x : Done(t, x)' <=> Done(t, x)
             /\ OrgOf(t)' = OrgOf(t) /\ OrgsOf(t)' = OrgsOf(t) /\ HeldSubs(t)' = HeldSubs(t)
  BY SameStatement, SameOrgs DEF subVars
<1>3. ASSUME NEW t \in Txs PROVE TxInv(t)'
  <2>1. TxInv(t)
    OBVIOUS
  <2>2. IdleInv(t)' /\ SettlementInv(t)'
    BY <1>2, <2>1 DEF TxInv, IdleInv, SettlementInv, invVars
  <2>3. UpdateInv(t)'
    BY <1>2, <2>1 DEF TxInv, UpdateInv, subVars
  <2>4. IndexInv(t)'
    BY <1>2, <2>1 DEF TxInv, IndexInv, LiveSubsOf, SubsOf, subVars
  <2>5. SyncInv(t)'
    <3>1. ASSUME NEW c \in Creds, Done(t, "credentials")
          PROVE  /\ c \in synced[t] => /\ credOrg'[c] \in OrgsOf(t)
                                       /\ BillingLike(limitReason'[c]) \/ ~limited'[c]
                 /\ c \notin synced[t] /\ credOrg'[c] \in OrgsOf(t) => Agrees(c, NewStatus(t))'
      <4>1. /\ c \in synced[t] => /\ credOrg[c] \in OrgsOf(t)
                                  /\ BillingLike(limitReason[c]) \/ ~limited[c]
            /\ c \notin synced[t] /\ credOrg[c] \in OrgsOf(t) => Agrees(c, NewStatus(t))
        BY <2>1, <3>1 DEF TxInv, SyncInv
      <4>2. CASE /\ credOrg'[c] = credOrg[c] /\ limited'[c] = limited[c]
                 /\ limitReason'[c] = limitReason[c] /\ (c \in exempt' <=> c \in exempt)
        BY <1>2, <4>1, <4>2 DEF Agrees
      <4>3. CASE c \notin synced[t] /\ limitReason'[c] \notin BillingReasons
                 /\ (limited'[c] \/ c \in exempt')
        BY <4>3 DEF Agrees
      <4>. QED
        BY <4>2, <4>3
    <3>. QED
      BY <1>2, <2>1, <3>1 DEF TxInv, SyncInv
  <2>. QED
    BY <2>2, <2>3, <2>4, <2>5 DEF TxInv
<1>4. Exclusive' /\ IndexedOnce'
  BY <1>2 DEF Exclusive, IndexedOnce
<1>5. Room'
  BY RoomKept DEF subVars
<1>. QED
  BY <1>1, <1>3, <1>4, <1>5

(* The statements of other requests keep the invariant. *)
LEMMA OtherStatementStep ==
    ASSUME SessionsInv, OtherStatement PROVE SessionsInv'
<1>. USE DEF SessionsInv
<1>1. [Next]_vars /\ UNCHANGED sessionVars
  BY DEF OtherStatement, Next
<1>2. SessionsTypeOK' /\ QueriesAboutRows'
  <2>1. TypeOK'
    BY <1>1, NextType DEF SessionsTypeOK
  <2>. QED
    BY <1>1, <2>1 DEF SessionsTypeOK, QueriesAboutRows, sessionVars
<1>3. UNCHANGED <<subVars, invVars>>
  BY DEF OtherStatement, CheckCredentialCreate, InsertCredential, SetCredentialLimited, Tick
<1>4. NoReason \notin BillingReasons /\ \A r \in AdminReasons : r \notin BillingReasons
  BY ReasonsAssumption DEF NoReason, BillingReasons, RestrictingStatuses, BillingReason
<1>5. CASE UNCHANGED credVars
  BY <1>1, <1>2, <1>3, <1>5, OtherStep DEF sessionVars, credVars
<1>6. ASSUME NEW c \in Creds, InsertCredential(c) PROVE SessionsInv'
  <2>1. ASSUME NEW t \in Txs PROVE c \notin synced[t]
    <3>1. CASE ~Done(t, "credentials")
      BY <3>1 DEF TxInv, SyncInv
    <3>2. CASE Done(t, "credentials")
      <4>1. credOrg[c] = NoOrg
        BY <1>6 DEF InsertCredential, TablesInv, CredentialRows
      <4>2. NoOrg \notin OrgsOf(t)
        BY <3>2, ReadyIndexed, OrgsAssumption
      <4>. QED
        BY <3>2, <4>1, <4>2 DEF TxInv, SyncInv
    <3>. QED
      BY <3>1, <3>2
  <2>2. \A d \in Creds \ {c} : /\ credOrg'[d] = credOrg[d] /\ limited'[d] = limited[d]
                               /\ limitReason'[d] = limitReason[d] /\ (d \in exempt' <=> d \in exempt)
    BY <1>6 DEF InsertCredential, SessionsTypeOK, TypeOK
  <2>3. limitReason'[c] = NoReason /\ c \in exempt'
    BY <1>6 DEF InsertCredential, SessionsTypeOK, TypeOK
  <2>. QED
    BY <1>1, <1>2, <1>3, <1>4, <2>1, <2>2, <2>3, OtherStep DEF sessionVars
<1>7. ASSUME NEW c \in Creds, NEW limit \in BOOLEAN, NEW r \in AdminReasons \cup {NoReason},
             \A t \in Txs : c \notin synced[t], SetCredentialLimited(c, limit, r)
      PROVE  SessionsInv'
  <2>1. \A d \in Creds \ {c} : /\ credOrg'[d] = credOrg[d] /\ limited'[d] = limited[d]
                               /\ limitReason'[d] = limitReason[d] /\ (d \in exempt' <=> d \in exempt)
    BY <1>7 DEF SetCredentialLimited, SessionsTypeOK, TypeOK
  <2>2. limitReason'[c] = r /\ (limited'[c] \/ c \in exempt')
    BY <1>7 DEF SetCredentialLimited, SessionsTypeOK, TypeOK
  <2>. QED
    BY <1>1, <1>2, <1>3, <1>4, <1>7, <2>1, <2>2, OtherStep DEF sessionVars
<1>8. \/ UNCHANGED credVars
      \/ \E c \in Creds : InsertCredential(c)
      \/ \E c \in Creds, limit \in BOOLEAN, r \in AdminReasons \cup {NoReason} :
            (\A t \in Txs : c \notin synced[t]) /\ SetCredentialLimited(c, limit, r)
  BY DEF OtherStatement, CheckCredentialCreate, Tick
<1>. QED
  BY <1>5, <1>6, <1>7, <1>8

(* A request that lists rows keeps the invariant. *)
LEMMA ListStep ==
    ASSUME SessionsInv, NEW l \in Lists, OpenRows(l) \/ Read(l) PROVE SessionsInv'
<1>. USE DEF SessionsInv
<1>1. UNCHANGED <<tables, begun, op, position, held, targets, synced>>
  BY DEF OpenRows, Read, QueryRow, EndQuery, CloseRows
<1>2. reading' \in [Lists -> 0 .. 2] /\ rows' \in [Lists -> 0 .. MaxRows]
  <2>. reading \in [Lists -> 0 .. 2] /\ rows \in [Lists -> 0 .. MaxRows] /\ MaxRows \in Nat
    BY PoolAssumption DEF SessionsTypeOK
  <2>1. CASE OpenRows(l)
    BY <2>1 DEF OpenRows
  <2>2. CASE QueryRow(l) \/ CloseRows(l)
    <3>1. rows' = rows
      BY <2>2 DEF QueryRow, CloseRows
    <3>2. reading' = [reading EXCEPT ![l] = 2] \/ reading' = [reading EXCEPT ![l] = 0]
      BY <2>2 DEF QueryRow, CloseRows
    <3>. QED
      BY <3>1, <3>2
  <2>3. CASE EndQuery(l)
    <3>1. rows[l] - 1 \in 0 .. MaxRows
      BY <2>3 DEF EndQuery, QueriesAboutRows
    <3>. QED
      BY <2>3, <3>1 DEF EndQuery
  <2>. QED
    BY <2>1, <2>2, <2>3 DEF Read
<1>4. QueriesAboutRows'
  BY DEF QueriesAboutRows, OpenRows, Read, QueryRow, EndQuery, CloseRows, SessionsTypeOK
<1>3. SessionsTypeOK'
  <2>1. TypeOK'
    BY <1>1, NextType DEF tables, SessionsTypeOK
  <2>. QED
    BY <1>1, <1>2, <2>1 DEF SessionsTypeOK
<1>. QED
  BY <1>1, <1>3, <1>4, OtherStep DEF tables, vars, credVars

(* Every step keeps the invariant. *)
LEMMA SessionsStep == SessionsInv /\ [SessionsNext]_allVars => SessionsInv'
<1>. SUFFICES ASSUME SessionsInv, [SessionsNext]_allVars PROVE SessionsInv'
  OBVIOUS
<1>1. ASSUME NEW t \in Txs, NEW s \in Subs, NEW kind \in {"paid", "failed", "approve", "reject"},
             BeginSettlement(t, kind, s)
      PROVE  SessionsInv'
  <2>. DEFINE o == [kind |-> kind, sub |-> s]
  <2>1. o \in Ops /\ o.kind = kind /\ o.sub = s
    BY DEF Ops
  <2>2. BeginTx(t, o) /\ invoice[s] # "none"
    BY <1>1 DEF BeginSettlement
  <2>3. o.kind # "assign"
    BY <2>1
  <2>. HIDE DEF o
  <2>. QED
    BY <2>1, <2>2, <2>3, BeginStep
<1>2. ASSUME NEW t \in Txs, NEW o \in Orgs, NEW offer \in Offers,
             BeginAssign(t, o, offer[1], offer[2])
      PROVE  SessionsInv'
  <2>. DEFINE a == [kind |-> "assign", org |-> o, priced |-> offer[1], trial |-> offer[2], at |-> 0]
  <2>1. offer[1] \in BOOLEAN /\ offer[2] \in BOOLEAN
    BY PoolAssumption
  <2>2. a \in Ops /\ a.kind = "assign"
    BY <2>1 DEF Ops
  <2>3. BeginTx(t, a) /\ created + Cardinality(Assigning) < MaxSubs
    BY <1>2 DEF BeginAssign, Assigning
  <2>. HIDE DEF a
  <2>. QED
    BY <2>2, <2>3, BeginStep
<1>3. ASSUME NEW t \in Txs, BeginSweep(t) PROVE SessionsInv'
  <2>. DEFINE a == [kind |-> "sweep", at |-> now]
  <2>1. now \in Nat
    BY BoundsAssumption DEF SessionsInv, SessionsTypeOK, TypeOK
  <2>2. a \in Ops /\ a.kind = "sweep"
    BY <2>1 DEF Ops
  <2>3. BeginTx(t, a)
    BY <1>3 DEF BeginSweep
  <2>. HIDE DEF a
  <2>. QED
    BY <2>2, <2>3, BeginStep
<1>4. ASSUME NEW t \in Txs, Run(t) PROVE SessionsInv'
  BY <1>4, UpdateRowStep, FindStep, VisitStep, IndexStep, SyncStep, CommitStep DEF Run
<1>5. ASSUME NEW t \in Txs, Rollback(t) \/ AbortDeadlocked(t) PROVE SessionsInv'
  BY <1>5, FailStep DEF Rollback, AbortDeadlocked
<1>6. ASSUME NEW l \in Lists, OpenRows(l) \/ Read(l) PROVE SessionsInv'
  BY <1>6, ListStep
<1>7. CASE UNCHANGED allVars
  <2>1. UNCHANGED vars /\ UNCHANGED sessionVars
    BY <1>7 DEF allVars
  <2>2. SessionsTypeOK' /\ QueriesAboutRows'
    <3>1. TypeOK'
      BY <2>1, NextType DEF SessionsInv, SessionsTypeOK
    <3>. QED
      BY <2>1, <3>1 DEF SessionsInv, SessionsTypeOK, QueriesAboutRows, sessionVars
  <2>. QED
    BY <2>1, <2>2, OtherStep DEF vars, sessionVars, credVars
<1>. QED
  BY <1>1, <1>2, <1>3, <1>4, <1>5, <1>6, <1>7, OtherStatementStep DEF SessionsNext

(* The invariant holds in every state the transactions reach, however their *)
(* statements interleave and whichever of them are rolled back.            *)
THEOREM SessionsInvariant == SessionsSpec => []SessionsInv
<1>1. SessionsInit => SessionsInv
  <2>. SUFFICES ASSUME SessionsInit PROVE SessionsInv
    OBVIOUS
  <2>1. Init
    BY DEF SessionsInit
  <2>2. TablesInv
    <3>1. TypeOK
      BY <2>1, BoundsAssumption DEF Init, TypeOK, Subs, LimitReasons, PaymentStatuses
    <3>2. RowsInv
      BY <2>1, BoundsAssumption, OrgsAssumption DEF Init, RowsInv, Subs, Born
    <3>3. UniqueLive(subOrg, subStatus) /\ CredentialLimitsFollowStanding
      BY <2>1 DEF Init, UniqueLive, LiveStatuses, CredentialLimitsFollowStanding
    <3>4. LiveStatusFollowsInvoice /\ SettledTogether /\ CredentialRows
      BY <2>1 DEF Init, LiveStatusFollowsInvoice, SettledTogether, LiveStatuses, CredentialRows
    <3>. QED
      BY <3>1, <3>2, <3>3, <3>4 DEF TablesInv, IInv
  <2>3. \A t \in Txs : op[t] = NoOp /\ op[t].kind = "none" /\ held[t] = {} /\ targets[t] = {}
                       /\ synced[t] = {}
    BY DEF SessionsInit, NoOp
  <2>4. \A t \in Txs : \A x : ~Done(t, x)
    BY <2>3 DEF Done
  <2>5. SessionsTypeOK
    BY <2>2, PoolAssumption DEF SessionsInit, SessionsTypeOK, TablesInv, IInv
  <2>6. \A t \in Txs : TxInv(t)
    BY <2>3, <2>4 DEF TxInv, IdleInv, SettlementInv, UpdateInv, IndexInv, SyncInv, Settles
  <2>7. Exclusive /\ IndexedOnce
    BY <2>3, <2>4 DEF Exclusive, IndexedOnce
  <2>8. Room
    <3>1. Assigning = {}
      BY <2>3 DEF Assigning
    <3>. QED
      BY <2>1, <3>1, FS_EmptySet, BoundsAssumption DEF Room, Init
  <2>9. QueriesAboutRows
    BY DEF SessionsInit, QueriesAboutRows
  <2>. QED
    BY <2>2, <2>5, <2>6, <2>7, <2>8, <2>9 DEF SessionsInv
<1>. QED
  BY <1>1, SessionsStep, PTL DEF SessionsSpec

-----------------------------------------------------------------------------
(* Sessions: deadlocks *)

(* What a transaction can wait for. *)
LEMMA WaitKinds ==
    ASSUME SessionsInv, NEW t \in Txs, NEW u \in WaitsFor(t)
    PROVE  /\ u \in Txs /\ u # t
           /\ \/ /\ Settles(t)
                 /\ \E table \in Tables : At(t, table) /\ Row(table, op[t].sub) \in held[u]
              \/ /\ op[t].kind \in {"assign", "sweep"} /\ At(t, "visit") /\ targets[t] # {}
                 /\ NextTarget(t) \in HeldSubs(u)
              \/ /\ Settles(t) \/ op[t].kind = "assign"
                 /\ At(t, "index") /\ InIndex(u, OrgOf(t))
<1>. USE DEF SessionsInv
<1>1. u \in Txs /\ u # t
  BY DEF WaitsFor
<1>2. CASE Wants(t) \cap held[u] # {}
  <2>1. CASE \E table \in Tables : At(t, table)
    <3>1. PICK table \in Tables : At(t, table)
      BY <2>1
    <3>2. Wants(t) \subseteq {Row(table, op[t].sub)}
      BY <3>1 DEF Wants, At, Tables
    <3>3. op[t] # NoOp /\ Settles(t)
      BY <3>1, OpKinds, AssignStatements, SweepStatements DEF At
    <3>. QED
      BY <1>1, <1>2, <3>1, <3>2, <3>3
  <2>2. CASE ~ \E table \in Tables : At(t, table)
    <3>1. At(t, "visit") /\ targets[t] # {} /\ Wants(t) = {Row("subscription", NextTarget(t))}
      BY <1>2, <2>2 DEF Wants, Tables
    <3>2. op[t].kind \in {"assign", "sweep"}
      BY <3>1, OpKinds, SettlementStatements DEF At
    <3>3. NextTarget(t) \in Subs
      BY <3>1, NextTargetFirst
    <3>. QED
      BY <1>1, <1>2, <3>1, <3>2, <3>3 DEF HeldSubs
  <2>. QED
    BY <2>1, <2>2
<1>3. CASE At(t, "index") /\ InIndex(u, OrgOf(t))
  <2>1. Settles(t) \/ op[t].kind = "assign"
    BY <1>3, OpKinds, SweepStatements DEF At
  <2>. QED
    BY <1>1, <1>3, <2>1
<1>4. ~(At(t, "credentials") /\ CredentialsOf(t) \cap synced[u] # {})
  BY <1>1, CredentialsFree
<1>. QED
  BY <1>2, <1>3, <1>4 DEF WaitsFor

(* The rows a transaction holds: of its own subscription, or subscriptions. *)
LEMMA OwnRows ==
    ASSUME SessionsInv, NEW t \in Txs
    PROVE  /\ Settles(t) => \A table, s : Row(table, s) \in held[t] => s = op[t].sub
           /\ op[t].kind \in {"assign", "sweep"} =>
                 \A table, s : Row(table, s) \in held[t] => table = "subscription"
           /\ ~Settles(t) /\ op[t].kind \notin {"assign", "sweep"} => held[t] = {}
<1>1. TxInv(t) /\ SessionsTypeOK
  BY DEF SessionsInv
<1>2. \A a, b, c, d : Row(a, b) = Row(c, d) => a = c /\ b = d
  BY DEF Row
<1>3. Settles(t) => \A table, s : Row(table, s) \in held[t] => s = op[t].sub
  BY <1>1, <1>2 DEF TxInv, SettlementInv
<1>4. op[t].kind \in {"assign", "sweep"} =>
         \A table, s : Row(table, s) \in held[t] => table = "subscription"
  BY <1>1, <1>2 DEF TxInv, UpdateInv
<1>5. ~Settles(t) /\ op[t].kind \notin {"assign", "sweep"} => held[t] = {}
  BY <1>1, OpKinds DEF TxInv, IdleInv
<1>. QED
  BY <1>3, <1>4, <1>5

(* Who is in the index for an organization holds its live subscription. *)
LEMMA InIndexHolds ==
    ASSUME SessionsInv, NEW u \in Txs, NEW o, InIndex(u, o), NEW s \in LiveSubsOf(o)
    PROVE  s \in HeldSubs(u)
<1>1. CASE Done(u, "index") /\ OrgOf(u) = o
  BY <1>1 DEF SessionsInv, TxInv, IndexInv
<1>2. CASE \E r \in LiveSubsOf(o) : Row("subscription", r) \in held[u]
  BY <1>2 DEF SessionsInv, TablesInv, IInv, UniqueLive, LiveSubsOf, SubsOf, HeldSubs
<1>. QED
  BY <1>1, <1>2 DEF InIndex

(* A row has one holder. *)
LEMMA OneHolder ==
    ASSUME SessionsInv, NEW t \in Txs, NEW u \in Txs, NEW row, row \in held[t], row \in held[u]
    PROVE  t = u
BY DEF SessionsInv, Exclusive

(* In a smallest circle everyone is waited for, and two who wait for each  *)
(* other are the whole of it.                                              *)
LEMMA Waited ==
    ASSUME NEW S \in SUBSET Txs, Deadlock(S), NEW u \in S
    PROVE  /\ \E t \in S : u \in WaitsFor(t)
           /\ \E t \in S : t \in WaitsFor(u)
<1>1. \A t \in S : WaitsFor(t) \cap S # {}
  BY DEF Deadlock, Stuck
<1>2. u \notin WaitsFor(u)
  BY DEF WaitsFor
<1>3. ASSUME \A t \in S : u \notin WaitsFor(t) PROVE FALSE
  <2>1. Stuck(S \ {u})
    BY <1>1, <1>3 DEF Stuck
  <2>. QED
    BY <2>1 DEF Deadlock
<1>. QED
  BY <1>1, <1>3

LEMMA PairIsAll ==
    ASSUME NEW S \in SUBSET Txs, Deadlock(S), NEW t \in S, NEW u \in S,
           u \in WaitsFor(t), t \in WaitsFor(u)
    PROVE  S = {t, u}
<1>1. Stuck({t, u})
  BY DEF Stuck
<1>2. {t, u} \in SUBSET S
  OBVIOUS
<1>. QED
  BY <1>1, <1>2 DEF Deadlock

(* A circle around an invoice and its payment. *)
LEMMA PaymentCircle ==
    ASSUME SessionsInv, NEW S \in SUBSET Txs, Deadlock(S), NEW t \in S, At(t, "payment")
    PROVE  \E u \in Txs : /\ S = {t, u}
                          /\ op[t].kind \in {"paid", "failed"}
                          /\ op[u].kind \in {"approve", "reject"}
                          /\ op[t].sub = op[u].sub
<1>. USE DEF SessionsInv
<1>. DEFINE s == op[t].sub
<1>1. Settles(t) /\ op[t] # NoOp
  BY OpKinds, AssignStatements, SweepStatements DEF At, Tables
<1>2. PICK u \in S : u \in WaitsFor(t)
  BY Waited
<1>3. Row("payment", s) \in held[u] /\ u # t
  BY <1>2, WaitKinds DEF At, Tables
<1>4. Settles(u) /\ op[u].sub = s
  BY <1>3, OwnRows
<1>5. op[t].kind \in {"paid", "failed"}
  <2>1. PICK w \in S : t \in WaitsFor(w)
    BY Waited
  <2>2. ASSUME op[t].kind \in {"approve", "reject"} PROVE FALSE
    <3>1. ~Done(t, "index") /\ held[t] = {}
      <4>1. /\ ~Done(t, "index") /\ ~Done(t, "invoice") /\ ~Done(t, "subscription")
            /\ ~Done(t, "payment")
        BY <1>1, <2>2, SettlementStatements
      <4>2. SettlementInv(t)
        BY DEF TxInv
      <4>. QED
        BY <1>1, <4>1, <4>2 DEF SettlementInv, Tables
    <3>. QED
      BY <2>1, <3>1, WaitKinds DEF InIndex, HeldSubs
  <2>. QED
    BY <1>1, <2>2 DEF Settles
<1>6. Row("invoice", s) \in held[t]
  BY <1>1, <1>5, SettlementStatements DEF TxInv, SettlementInv
<1>7. Row("invoice", s) \notin held[u]
  BY <1>3, <1>6, OneHolder
<1>8. Done(u, "payment") /\ ~Done(u, "invoice")
  BY <1>3, <1>4, <1>7 DEF TxInv, SettlementInv
<1>9. op[u].kind \in {"approve", "reject"} /\ At(u, "invoice")
  BY <1>4, <1>8, SettlementStatements DEF Settles
<1>10. t \in WaitsFor(u)
  <2>1. PICK w \in S : w \in WaitsFor(u)
    BY Waited
  <2>2. Row("invoice", s) \in held[w] /\ w \in Txs
    BY <1>4, <1>9, <2>1, WaitKinds DEF At, Tables
  <2>. QED
    BY <1>6, <2>1, <2>2, OneHolder
<1>11. S = {t, u}
  BY <1>2, <1>10, PairIsAll
<1>. QED
  BY <1>2, <1>4, <1>5, <1>9, <1>11

(* Where the members of a circle are that has nobody at a payment. *)
LEMMA CircleMembers ==
    ASSUME SessionsInv, NEW S \in SUBSET Txs, Deadlock(S), \A t \in S : ~At(t, "payment"),
           NEW w \in S
    PROVE  /\ ~Done(w, "index")
           /\ \/ op[w].kind = "sweep" /\ At(w, "visit") /\ targets[w] # {}
              \/ Settles(w) /\ At(w, "index")
<1>. USE DEF SessionsInv
<1>1. PICK x \in S : w \in WaitsFor(x)
  BY Waited
<1>2. PICK y \in S : y \in WaitsFor(w)
  BY Waited
<1>3. \A z \in S : ~At(z, "payment") /\ z \in Txs
  OBVIOUS
<1>4. SessionsTypeOK /\ \A z \in Txs : TxInv(z)
  OBVIOUS
<1>5. ASSUME NEW z \in S, Settles(z), At(z, "invoice") PROVE FALSE
  <2>1. PICK v \in S : z \in WaitsFor(v)
    BY Waited
  <2>2. ~Done(z, "index") /\ ~Done(z, "invoice") /\ ~Done(z, "subscription")
    BY <1>5, SettlementStatements DEF Settles
  <2>3. \A r : Row("invoice", r) \notin held[z] /\ Row("subscription", r) \notin held[z]
    BY <1>4, <1>5, <2>2, OwnRows DEF TxInv, SettlementInv
  <2>. QED
    BY <1>3, <2>1, <2>2, <2>3, WaitKinds DEF InIndex, HeldSubs, Tables
<1>6. ASSUME NEW z \in S, Settles(z), At(z, "subscription") PROVE FALSE
  <2>1. PICK v \in S : z \in WaitsFor(v)
    BY Waited
  <2>2. ~Done(z, "index") /\ ~Done(z, "subscription")
    BY <1>6, SettlementStatements DEF Settles
  <2>3. \A r : Row("subscription", r) \notin held[z]
    BY <1>4, <1>6, <2>2, OwnRows DEF TxInv, SettlementInv
  <2>4. Settles(v) /\ (At(v, "invoice") \/ At(v, "payment"))
    BY <2>1, <2>2, <2>3, WaitKinds DEF InIndex, HeldSubs, Tables
  <2>. QED
    BY <1>3, <1>5, <2>4
<1>7. CASE Settles(w)
  <2>1. At(w, "index")
    BY <1>2, <1>3, <1>5, <1>6, <1>7, WaitKinds DEF Tables, Settles
  <2>. QED
    BY <1>7, <2>1, SettlementStatements DEF Settles
<1>8. CASE op[w].kind = "assign"
  <2>1. held[w] # {} \/ Done(w, "index")
    BY <1>1, WaitKinds DEF InIndex, HeldSubs
  <2>2. ~Done(w, "index") /\ (At(w, "visit") \/ At(w, "index"))
    BY <1>2, <1>8, WaitKinds, AssignStatements DEF Settles
  <2>3. PICK s \in HeldSubs(w) : TRUE
    BY <1>4, <1>8, <2>1, <2>2 DEF TxInv, UpdateInv
  <2>4. s \in LiveSubsOf(op[w].org) /\ subOrg[s] = op[w].org
    BY <1>4, <1>8 DEF TxInv, UpdateInv, LiveSubsOf, SubsOf, HeldSubs, LiveStatuses, Swept
  <2>5. CASE At(w, "visit")
    <3>1. PICK r \in targets[w] : TRUE
      BY <1>2, <1>8, <2>5, WaitKinds DEF Settles, At
    <3>. QED
      BY <1>4, <1>8, <2>3, <3>1 DEF TxInv, UpdateInv
  <2>6. CASE At(w, "index")
    <3>1. InIndex(y, op[w].org)
      BY <1>2, <1>8, <2>6, WaitKinds DEF Settles, At, OrgOf
    <3>2. s \in HeldSubs(y) /\ y # w
      BY <1>2, <2>4, <3>1, InIndexHolds, WaitKinds
    <3>. QED
      BY <2>3, <3>2, OneHolder DEF HeldSubs
  <2>. QED
    BY <2>2, <2>5, <2>6
<1>9. CASE op[w].kind = "sweep"
  BY <1>2, <1>9, WaitKinds, SweepStatements DEF Settles
<1>. QED
  BY <1>2, <1>7, <1>8, <1>9, WaitKinds

(* Sweeps alone do not wait for each other in a circle. *)
LEMMA SweepsInOrder ==
    ASSUME SessionsInv, NEW S \in SUBSET Txs, Deadlock(S), \A t \in S : ~At(t, "payment")
    PROVE  \E t \in S : Settles(t)
<1>. SUFFICES ASSUME \A t \in S : ~Settles(t) PROVE FALSE
  OBVIOUS
<1>1. \A t \in S : op[t].kind = "sweep" /\ At(t, "visit") /\ targets[t] # {}
  BY CircleMembers
<1>2. \A t \in S : NextTarget(t) \in Subs /\ NextTarget(t) \in targets[t]
  BY <1>1, NextTargetFirst DEF SessionsInv
<1>. DEFINE T == {MaxSubs - NextTarget(t) : t \in S}
<1>3. T \in SUBSET Nat /\ T # {}
  BY <1>2, BoundsAssumption DEF Subs, Deadlock, Stuck
<1>4. PICK t \in S : \A u \in S : MaxSubs - NextTarget(t) <= MaxSubs - NextTarget(u)
  <2>1. PICK n \in T : \A m \in T : n <= m
    BY <1>3, Smallest
  <2>. QED
    BY <2>1
<1>5. PICK u \in S : u \in WaitsFor(t)
  BY Waited
<1>6. NextTarget(t) \in HeldSubs(u)
  BY <1>1, <1>5, WaitKinds DEF At
<1>7. NextTarget(t) < NextTarget(u)
  BY <1>1, <1>2, <1>6 DEF SessionsInv, TxInv, UpdateInv
<1>. QED
  BY <1>2, <1>4, <1>7, BoundsAssumption DEF Subs

(* A circle with a settlement in it and nobody at a payment. *)
LEMMA IndexCircle ==
    ASSUME SessionsInv, NEW S \in SUBSET Txs, Deadlock(S), \A w \in S : ~At(w, "payment"),
           NEW t \in S, Settles(t)
    PROVE  \E u, v \in S : /\ subStatus[op[t].sub] \notin LiveStatuses
                           /\ op[u].kind = "sweep" /\ op[v].kind = "sweep" /\ u # v
                           /\ u \in WaitsFor(t)
                           /\ t \in WaitsFor(v)
<1>. USE DEF SessionsInv
<1>. DEFINE s == op[t].sub
            o == subOrg[s]
<1>1. At(t, "index") /\ ~Done(t, "index") /\ OrgOf(t) = o
  BY CircleMembers DEF Settles, OrgOf
<1>2. s \in HeldSubs(t) /\ s \in Subs
  BY <1>1, SettlementStatements DEF TxInv, SettlementInv, HeldSubs, Settles
<1>3. PICK u \in S : u \in WaitsFor(t)
  BY Waited
<1>4. InIndex(u, o) /\ u # t /\ ~Done(u, "index")
  BY <1>1, <1>3, WaitKinds, CircleMembers DEF At, Tables, Settles
<1>5. PICK r \in LiveSubsOf(o) : r \in HeldSubs(u)
  BY <1>4 DEF InIndex, HeldSubs, LiveSubsOf, SubsOf
<1>6. subStatus[s] \notin LiveStatuses
  <2>1. ASSUME subStatus[s] \in LiveStatuses PROVE FALSE
    <3>1. s \in LiveSubsOf(o)
      BY <1>2, <2>1 DEF LiveSubsOf, SubsOf
    <3>. QED
      BY <1>2, <1>4, <3>1, InIndexHolds, OneHolder DEF HeldSubs
  <2>. QED
    BY <2>1
<1>7. op[u].kind = "sweep"
  <2>1. ASSUME Settles(u) PROVE FALSE
    <3>1. At(u, "index") /\ OrgOf(u) = o
      <4>1. r = op[u].sub
        BY <1>5, <2>1, OwnRows DEF HeldSubs
      <4>. QED
        BY <1>5, <2>1, <4>1, CircleMembers DEF OrgOf, LiveSubsOf, SubsOf, Settles
    <3>2. PICK x \in S : x \in WaitsFor(u)
      BY Waited
    <3>3. InIndex(x, o) /\ x # u
      BY <2>1, <3>1, <3>2, WaitKinds DEF At, Tables, Settles
    <3>. QED
      BY <1>5, <3>3, InIndexHolds, OneHolder DEF HeldSubs
  <2>. QED
    BY <2>1, CircleMembers
<1>8. PICK v \in S : t \in WaitsFor(v)
  BY Waited
<1>9. op[v].kind = "sweep" /\ NextTarget(v) \in HeldSubs(t)
  <2>1. ASSUME At(v, "index") PROVE FALSE
    <3>1. InIndex(t, OrgOf(v))
      BY <1>8, <2>1, WaitKinds DEF At, Tables
    <3>2. PICK q \in LiveSubsOf(OrgOf(v)) : Row("subscription", q) \in held[t]
      BY <1>1, <3>1 DEF InIndex
    <3>3. q = s
      BY <3>2, OwnRows
    <3>. QED
      BY <1>6, <3>2, <3>3 DEF LiveSubsOf
  <2>2. op[v].kind = "sweep" /\ At(v, "visit")
    BY <2>1, CircleMembers
  <2>. QED
    BY <1>8, <2>2, WaitKinds DEF At, Settles
<1>10. u # v
  <2>1. NextTarget(v) = s
    BY <1>9, OwnRows DEF HeldSubs
  <2>2. s \in targets[v]
    BY <1>9, <2>1, CircleMembers, NextTargetFirst DEF Settles
  <2>3. subOrg[r] = subOrg[s]
    BY <1>5 DEF LiveSubsOf, SubsOf
  <2>. QED
    BY <1>5, <1>7, <2>2, <2>3 DEF TxInv, UpdateInv
<1>. QED
  BY <1>3, <1>6, <1>7, <1>8, <1>9, <1>10

(* The two kinds of circles are all there are. *)
LEMMA DeadlockKinds == SessionsInv => OnlySettlementsDeadlock
<1>. SUFFICES ASSUME SessionsInv, NEW S \in SUBSET Txs, Deadlock(S)
     PROVE  \/ \E t, u \in Txs : /\ S = {t, u}
                                 /\ op[t].kind \in {"paid", "failed"}
                                 /\ op[u].kind \in {"approve", "reject"}
                                 /\ op[t].sub = op[u].sub
            \/ \E t, u, v \in S : /\ Settles(t)
                                  /\ subStatus[op[t].sub] \notin LiveStatuses
                                  /\ op[u].kind = "sweep" /\ op[v].kind = "sweep" /\ u # v
                                  /\ u \in WaitsFor(t)
                                  /\ t \in WaitsFor(v)
  BY DEF OnlySettlementsDeadlock
<1>1. CASE \E t \in S : At(t, "payment")
  BY <1>1, PaymentCircle
<1>2. CASE ~ \E t \in S : At(t, "payment")
  <2>1. PICK t \in S : Settles(t)
    BY <1>2, SweepsInOrder
  <2>. QED
    BY <1>2, <2>1, IndexCircle
<1>. QED
  BY <1>1, <1>2

(* Transactions wait for each other in a circle only around a settlement. *)
THEOREM DeadlocksAreKnown == SessionsSpec => []OnlySettlementsDeadlock
BY SessionsInvariant, DeadlockKinds, PTL

-----------------------------------------------------------------------------
(* Sessions: progress *)

(* A transaction that is waited for has not ended. *)
LEMMA WaitedIsActive ==
    ASSUME SessionsInv, NEW t \in Txs, NEW u \in WaitsFor(t) PROVE u \in Txs /\ op[u] # NoOp
<1>1. u \in Txs /\ (held[u] # {} \/ Done(u, "index"))
  BY WaitKinds DEF InIndex, HeldSubs
<1>. QED
  BY <1>1 DEF SessionsInv, TxInv, IdleInv, Done

(* Every circle contains a smallest one. *)
LEMMA SmallestCircle ==
    ASSUME NEW S \in SUBSET Txs, Stuck(S) PROVE \E R \in SUBSET Txs : Deadlock(R)
<1>. DEFINE T == {R \in SUBSET Txs : Stuck(R)}
<1>1. FiniteSubsetsOf(Txs) = SUBSET Txs
  BY PoolAssumption, FS_FiniteSubsetsOfFinite
<1>2. IsWellFoundedOn(StrictSubsetOrdering(Txs), SUBSET Txs)
  BY <1>1, FS_StrictSubsetOrderingWellFounded
<1>3. T \subseteq SUBSET Txs /\ T # {}
  OBVIOUS
<1>. HIDE DEF T
<1>4. PICK R \in T : \A Q \in T : ~(<<Q, R>> \in StrictSubsetOrdering(Txs))
  BY <1>2, <1>3, WFMin
<1>. USE DEF T
<1>5. ASSUME NEW Q \in SUBSET R, Stuck(Q) PROVE Q = R
  BY <1>4, <1>5 DEF StrictSubsetOrdering
<1>. QED
  BY <1>4, <1>5 DEF Deadlock

(* Requests that list rows keep at most one connection each, unless one of *)
(* them is in the middle of a query.                                       *)
LEMMA ConnectionLeft ==
    ASSUME SessionsInv, \A t \in Txs : op[t] = NoOp, \A l \in Lists : reading[l] # 2
    PROVE  Free > 0
<1>1. {t \in Txs : op[t] # NoOp} = {}
  OBVIOUS
<1>2. Kept \in SUBSET (Lists \X {1})
  <2>1. ASSUME NEW k \in Kept PROVE k \in Lists \X {1}
    <3>1. k \in Lists \X {1, 2} /\ k[2] <= reading[k[1]]
      BY DEF Kept
    <3>2. reading[k[1]] \in 0 .. 2 /\ reading[k[1]] # 2
      BY <3>1 DEF SessionsInv, SessionsTypeOK
    <3>3. k[2] = 1
      BY <3>1, <3>2
    <3>. QED
      BY <3>1, <3>3
  <2>. QED
    BY <2>1
<1>3. /\ IsFiniteSet(Lists \X {1})
      /\ Cardinality(Lists \X {1}) = Cardinality(Lists) * 1
  <2>1. IsFiniteSet({1}) /\ Cardinality({1}) = 1
    BY FS_Singleton
  <2>2. IsFiniteSet(Lists)
    BY PoolAssumption
  <2>3. /\ IsFiniteSet(Lists \X {1})
        /\ Cardinality(Lists \X {1}) = Cardinality(Lists) * Cardinality({1})
    BY <2>1, <2>2, FS_Product
  <2>. QED
    BY <2>1, <2>3
<1>4. Cardinality(Kept) <= Cardinality(Lists) /\ Cardinality(Kept) \in Nat
  <2>1. Cardinality(Lists) \in Nat
    BY PoolAssumption, FS_CardinalityType
  <2>2. IsFiniteSet(Kept) /\ Cardinality(Kept) <= Cardinality(Lists \X {1})
    BY <1>2, <1>3, FS_Subset
  <2>. QED
    BY <1>3, <2>1, <2>2, FS_CardinalityType
<1>5. Cardinality(Lists) \in Nat /\ PoolSize \in Nat /\ Cardinality(Lists) < PoolSize
  BY PoolAssumption, FS_CardinalityType
<1>6. Cardinality({t \in Txs : op[t] # NoOp}) = 0
  BY <1>1, FS_EmptySet
<1>. QED
  BY <1>4, <1>5, <1>6 DEF Free

(* Whoever is unfinished: somebody can take a step, or a circle exists     *)
(* that PostgreSQL ends.                                                   *)
LEMMA Progress == SessionsInv => SomeoneProceeds
<1>. SUFFICES ASSUME SessionsInv PROVE SomeoneProceeds
  OBVIOUS
<1>1. ASSUME \A t \in Txs : op[t] # NoOp => WaitsFor(t) # {}, \E t \in Txs : op[t] # NoOp
      PROVE  \E S \in SUBSET Txs : Deadlock(S)
  <2>. DEFINE Active == {t \in Txs : op[t] # NoOp}
  <2>1. \A t \in Active : WaitsFor(t) \cap Active # {}
    BY <1>1, WaitedIsActive
  <2>2. Stuck(Active)
    BY <1>1, <2>1 DEF Stuck
  <2>. QED
    BY <2>2, SmallestCircle
<1>2. CASE \E t \in Txs : op[t] # NoOp
  BY <1>1, <1>2 DEF SomeoneProceeds
<1>3. CASE \A t \in Txs : op[t] = NoOp
  <2>1. ASSUME NEW l \in Lists, reading[l] > 0
        PROVE  \E k \in Lists : \/ reading[k] = 2
                                \/ reading[k] = 1 /\ (rows[k] = 0 \/ Free > 0)
    <3>1. CASE \E k \in Lists : reading[k] = 2
      BY <3>1
    <3>2. CASE \A k \in Lists : reading[k] # 2
      <4>1. reading[l] \in 0 .. 2
        BY DEF SessionsInv, SessionsTypeOK
      <4>2. reading[l] = 1
        BY <2>1, <3>2, <4>1
      <4>. QED
        BY <1>3, <3>2, <4>2, ConnectionLeft
    <3>. QED
      BY <3>1, <3>2
  <2>. QED
    BY <1>3, <2>1 DEF SomeoneProceeds
<1>. QED
  BY <1>2, <1>3

(* Requests never all wait for each other, for rows or for connections:    *)
(* one of them can always go on, or PostgreSQL ends a deadlock.            *)
THEOREM RequestsProceed == SessionsSpec => []SomeoneProceeds
BY SessionsInvariant, Progress, PTL

(* Every state of the transactions is of the right type. *)
THEOREM SessionsTypeCorrect == SessionsSpec => []SessionsTypeOK
BY SessionsInvariant, PTL DEF SessionsInv

(* The sync at the end of every billing transaction leaves each credential *)
(* as its organization's standing asks, although other transactions run    *)
(* between its statements.                                                 *)
THEOREM SessionsLimitsFollowStanding == SessionsSpec => []CredentialLimitsFollowStanding
BY SessionsInvariant, PTL DEF SessionsInv, TablesInv, IInv

(* transitionInvoice and transitionPayment take an invoice and its payment *)
(* to matching statuses, although they lock the two in opposite orders.    *)
THEOREM SessionsSettleTogether == SessionsSpec => []SettledTogether
BY SessionsInvariant, PTL DEF SessionsInv, TablesInv

(* A subscription is active only when its invoice is paid, and past due    *)
(* only when it is not, although an assignment, a sweep and two settlements *)
(* may run between the UPDATEs of a settlement.                            *)
THEOREM SessionsServiceFollowsPayment == SessionsSpec => []LiveStatusFollowsInvoice
BY SessionsInvariant, PTL DEF SessionsInv, TablesInv

-----------------------------------------------------------------------------
(* Sessions: what a COMMIT may not do *)

(* Only a COMMIT and the statements of other requests change the tables. *)
LEMMA TablesMovedBy ==
    ASSUME SessionsInv, [SessionsNext]_allVars
    PROVE  \/ UNCHANGED vars
           \/ \E t \in Txs : Commit(t)
           \/ OtherStatement
BY DEF SessionsNext, BeginSettlement, BeginAssign, BeginSweep, BeginTx, Run, UpdateRow,
   FindSubscriptions, VisitSubscription, EnterIndex, SyncCredentials, Rollback, AbortDeadlocked,
   OpenRows, Read, QueryRow, EndQuery, CloseRows, tables, allVars

(* No COMMIT of billing takes back a limit that an administrator has set   *)
(* for a reason of its own, even one set while the transaction ran.        *)
THEOREM SessionsAdminLimitsKept == SessionsSpec => BillingKeepsAdminLimits
<1>1. ASSUME SessionsInv, [SessionsNext]_allVars, NEW c \in Creds,
             limited[c], ~BillingLike(limitReason[c]),
             <<limited[c], limitReason[c]>>' # <<limited[c], limitReason[c]>>
      PROVE  AdminDecision(c)
  <2>1. ~ UNCHANGED vars
    BY <1>1 DEF vars, credVars
  <2>2. ~ \E t \in Txs : Commit(t)
    BY <1>1, CommitCredentials
  <2>3. OtherStatement
    BY <1>1, <2>1, <2>2, TablesMovedBy
  <2>4. ~ \E d \in Creds : InsertCredential(d)
    BY <1>1 DEF InsertCredential, SessionsInv, TablesInv, CredentialRows, SessionsTypeOK, TypeOK
  <2>5. PICK d \in Creds : AdminDecision(d)
    BY <1>1, <2>3, <2>4 DEF OtherStatement, AdminDecision, CheckCredentialCreate, Tick, credVars
  <2>6. d = c
    BY <1>1, <2>5 DEF AdminDecision, SetCredentialLimited, SessionsInv, SessionsTypeOK, TypeOK
  <2>. QED
    BY <2>5, <2>6
<1>2. SessionsInv /\ [SessionsNext]_allVars =>
        [\A c \in Creds :
          /\ limited[c]
          /\ ~BillingLike(limitReason[c])
          /\ <<limited[c], limitReason[c]>>' # <<limited[c], limitReason[c]>>
          => \E limit \in BOOLEAN, r \in AdminReasons \cup {NoReason} :
                SetCredentialLimited(c, limit, r)]_vars
  BY <1>1 DEF AdminDecision
<1>. QED
  BY <1>2, SessionsInvariant, PTL DEF SessionsSpec, BillingKeepsAdminLimits

(* The COMMIT that changes an invoice or a payment leaves its subscription *)
(* the only live one of the organization.                                  *)
THEOREM SessionsSettlementLeavesOne == SessionsSpec => SettlementLeavesOneLive
<1>1. ASSUME SessionsInv, SessionsInv', [SessionsNext]_allVars, NEW s \in Subs,
             <<invoice[s], payment[s]>>' # <<invoice[s], payment[s]>>
      PROVE  {t \in Subs : /\ subOrg'[t] = subOrg'[s]
                           /\ subStatus'[t] \in LiveStatuses} = {s}
  <2>1. PICK u \in Txs : Commit(u)
    <3>1. ~ UNCHANGED vars /\ ~OtherStatement
      BY <1>1 DEF vars, invVars, OtherStatement, CheckCredentialCreate, InsertCredential,
         SetCredentialLimited, Tick
    <3>. QED
      BY <1>1, <3>1, TablesMovedBy
  <2>2. subStatus'[s] \in LiveStatuses
    <3>1. CASE CommitSettlement(u)
      <4>1. s = op[u].sub
        <5>1. \A r \in Subs : r # op[u].sub => invoice'[r] = invoice[r] /\ payment'[r] = payment[r]
          BY <3>1 DEF CommitSettlement, SessionsInv, SessionsTypeOK, TypeOK
        <5>. QED
          BY <1>1, <5>1
      <4>2. subStatus'[s] = NewStatus(u)
        BY <1>1, <3>1, <4>1 DEF CommitSettlement, SessionsInv, SessionsTypeOK, TypeOK
      <4>. QED
        BY <3>1, <4>2 DEF CommitSettlement, Settles, NewStatus, LiveStatuses
    <3>2. CASE CommitAssign(u)
      <4>1. s = created + 1
        BY <1>1, <3>2 DEF CommitAssign, SessionsInv, SessionsTypeOK, TypeOK
      <4>2. subStatus'[s] = NewStatus(u)
        BY <3>2, <4>1 DEF CommitAssign
      <4>. QED
        BY <3>2, <4>2 DEF CommitAssign, NewStatus, LiveStatuses
    <3>3. ~CommitSweep(u)
      BY <1>1 DEF CommitSweep, invVars
    <3>. QED
      BY <2>1, <3>1, <3>2, <3>3 DEF Commit
  <2>3. UniqueLive(subOrg, subStatus)'
    BY <1>1 DEF SessionsInv, TablesInv, IInv
  <2>. QED
    BY <2>2, <2>3 DEF UniqueLive
<1>2. SessionsInv /\ [SessionsNext]_allVars =>
         [\A s \in Subs : <<invoice[s], payment[s]>>' # <<invoice[s], payment[s]>>
            => {t \in Subs : /\ subOrg'[t] = subOrg'[s]
                             /\ subStatus'[t] \in LiveStatuses} = {s}]_vars
  BY <1>1, SessionsStep
<1>. QED
  BY <1>2, SessionsInvariant, PTL DEF SessionsSpec, SettlementLeavesOneLive

-----------------------------------------------------------------------------
(* Sessions: refinement of StandingMoves *)

(* No step here concerns a transaction that has synchronised credentials. *)
Quiet == /\ UNCHANGED vars
         /\ \A u \in Txs : /\ Done(u, "credentials")' <=> Done(u, "credentials")
                           /\ Done(u, "credentials") => Same(u)

(* A statement of one transaction on this side of its sync is quiet, *)
LEMMA QuietStep ==
    ASSUME NEW t \in Txs, UNCHANGED vars, \A u \in Txs \ {t} : Same(u),
           ~Done(t, "credentials"), ~Done(t, "credentials")'
    PROVE  Quiet
<1>1. \A u \in Txs \ {t} : Done(u, "credentials")' <=> Done(u, "credentials")
  BY SameStatement DEF Same
<1>. QED
  BY <1>1 DEF Quiet

(* Statements before the sync *)
LEMMA BeforeSync ==
    ASSUME SessionsInv, NEW t \in Txs,
           NEW x \in {"invoice", "subscription", "payment", "find", "visit", "index"}, At(t, x)
    PROVE  /\ op[t] # NoOp
           /\ ~At(t, "credentials")
           /\ ~Done(t, "credentials")
<1>1. op[t] # NoOp /\ \A y : At(t, y) => y = x
  BY DEF At
<1>2. CASE Settles(t)
  BY <1>1, <1>2, SettlementStatements DEF SessionsInv, Settles
<1>3. CASE op[t].kind = "assign"
  BY <1>1, <1>3, AssignStatements DEF SessionsInv, Tables
<1>4. CASE op[t].kind = "sweep"
  BY <1>1, <1>4, SweepStatements DEF SessionsInv, Tables
<1>. QED
  BY <1>1, <1>2, <1>3, <1>4, OpKinds DEF SessionsInv

(* so is BEGIN, *)
LEMMA QuietBegin ==
    ASSUME SessionsInv, NEW t \in Txs, NEW o, BeginTx(t, o) PROVE Quiet
<1>1. op[t] = NoOp /\ op'[t] = o /\ position'[t] = 1
  BY DEF BeginTx, SessionsInv, SessionsTypeOK
<1>2. ~Done(t, "credentials")
  BY <1>1 DEF Done
<1>3. ~Done(t, "credentials")'
  <2>1. 1 .. position'[t] - 1 = {}
    BY <1>1
  <2>. QED
    BY <2>1 DEF Done
<1>4. \A u \in Txs \ {t} : Same(u)
  BY DEF BeginTx, SessionsInv, SessionsTypeOK, Same
<1>. QED
  BY <1>2, <1>3, <1>4, QuietStep DEF BeginTx, tables

(* and so is every statement before the sync, unless it fails. *)
LEMMA QuietStatement ==
    ASSUME SessionsInv, NEW t \in Txs,
           UpdateRow(t) \/ FindSubscriptions(t) \/ VisitSubscription(t) \/ EnterIndex(t)
    PROVE  Quiet \/ (End(t) /\ UNCHANGED vars)
<1>. SUFFICES ASSUME ~End(t) PROVE Quiet
  BY DEF UpdateRow, FindSubscriptions, VisitSubscription, EnterIndex, tables
<1>1. PICK x \in {"invoice", "subscription", "payment", "find", "visit", "index"} : At(t, x)
  BY DEF UpdateRow, FindSubscriptions, VisitSubscription, EnterIndex, Tables
<1>2. op[t] # NoOp /\ ~At(t, "credentials") /\ ~Done(t, "credentials")
  BY <1>1, BeforeSync
<1>3. op'[t].kind = op[t].kind
  <2>1. op' = op \/ (op[t].kind = "assign" /\ op' = [op EXCEPT ![t] = [op[t] EXCEPT !.at = now]])
    BY DEF UpdateRow, FindSubscriptions, VisitSubscription, EnterIndex
  <2>2. ASSUME op[t].kind = "assign" PROVE [op[t] EXCEPT !.at = now].kind = op[t].kind
    <3>1. op[t] \in [kind : {"assign"}, org : Orgs, priced : BOOLEAN, trial : BOOLEAN, at : Nat]
      BY <1>2, <2>2 DEF SessionsInv, SessionsTypeOK, Ops, NoOp
    <3>. QED
      BY <3>1
  <2>. QED
    BY <2>1, <2>2 DEF SessionsInv, SessionsTypeOK
<1>4. Continue(t) \/ (op' = op /\ position' = position)
  BY DEF UpdateRow, FindSubscriptions, VisitSubscription, EnterIndex
<1>5. op[t].kind # "none"
  BY <1>2, OpKinds DEF SessionsInv, Settles
<1>6. op'[t] # NoOp
  BY <1>3, <1>5 DEF NoOp
<1>7. ~Done(t, "credentials")'
  <2>1. CASE Continue(t)
    BY <1>2, <1>3, <1>6, <2>1, ContinueDone DEF SessionsInv
  <2>2. CASE op' = op /\ position' = position
    BY <1>2, <2>2 DEF Done
  <2>. QED
    BY <1>4, <2>1, <2>2
<1>8. \A u \in Txs \ {t} : /\ op'[u] = op[u] /\ held'[u] = held[u]
                           /\ targets'[u] = targets[u] /\ synced'[u] = synced[u]
  BY DEF UpdateRow, FindSubscriptions, VisitSubscription, EnterIndex, SessionsInv, SessionsTypeOK
<1>9. \A u \in Txs \ {t} : position'[u] = position[u]
  BY <1>4 DEF Continue, SessionsInv, SessionsTypeOK
<1>10. UNCHANGED vars
  BY DEF UpdateRow, FindSubscriptions, VisitSubscription, EnterIndex, tables
<1>. QED
  BY <1>2, <1>7, <1>8, <1>9, <1>10, QuietStep DEF Same

(* The steps as StandingMoves sees them *)
LEMMA MoveKinds ==
    ASSUME SessionsInv, [SessionsNext]_allVars
    PROVE  \/ \E t \in Txs : Commit(t)
           \/ \E t \in Txs : End(t) /\ UNCHANGED vars
           \/ \E t \in Txs : SyncCredentials(t)
           \/ OtherStatement
           \/ Quiet
<1>1. ASSUME NEW t \in Txs, NEW s \in Subs,
             NEW kind \in {"paid", "failed", "approve", "reject"}, BeginSettlement(t, kind, s)
      PROVE  Quiet
  BY <1>1, QuietBegin DEF BeginSettlement
<1>2. ASSUME NEW t \in Txs, NEW o \in Orgs, NEW offer \in Offers,
             BeginAssign(t, o, offer[1], offer[2])
      PROVE  Quiet
  BY <1>2, QuietBegin DEF BeginAssign
<1>3. ASSUME NEW t \in Txs, BeginSweep(t) PROVE Quiet
  BY <1>3, QuietBegin DEF BeginSweep
<1>4. ASSUME NEW t \in Txs, Rollback(t) \/ AbortDeadlocked(t) PROVE End(t) /\ UNCHANGED vars
  BY <1>4 DEF Rollback, AbortDeadlocked, tables
<1>5. ASSUME UNCHANGED <<vars, op, position, held, targets, synced>> PROVE Quiet
  BY <1>5 DEF Quiet, Same, Done
<1>6. ASSUME NEW l \in Lists, OpenRows(l) \/ Read(l) PROVE Quiet
  BY <1>5, <1>6 DEF OpenRows, Read, QueryRow, EndQuery, CloseRows, tables
<1>7. CASE UNCHANGED allVars
  BY <1>5, <1>7 DEF allVars, sessionVars
<1>8. ASSUME NEW t \in Txs, Run(t)
      PROVE  Commit(t) \/ SyncCredentials(t) \/ Quiet \/ (End(t) /\ UNCHANGED vars)
  BY <1>8, QuietStatement DEF Run
<1>. QED
  BY <1>1, <1>2, <1>3, <1>4, <1>6, <1>7, <1>8 DEF SessionsNext

(* Moves of one organization are moves of one transaction. *)
LEMMA MovesApart ==
    ASSUME SessionsInv, NEW t \in Syncs, NEW u \in Txs, t # u,
           u \in Syncs \/ At(u, "credentials") \/ At(u, "commit")
    PROVE  OrgsOf(t) \cap OrgsOf(u) = {} /\ MoveOf(t) # MoveOf(u)
<1>1. t \in Txs /\ Done(t, "credentials") /\ OrgsOf(t) # {}
  BY DEF Syncs
<1>2. OrgsOf(u) \cap OrgsOf(t) = {}
  BY <1>1, OrgsDisjoint DEF Syncs
<1>3. OrgsOf(t) # OrgsOf(u)
  BY <1>1, <1>2
<1>. QED
  BY <1>2, <1>3 DEF MoveOf

(* A transaction that does not move, on tables whose organizations do not *)
(* change under it, goes on with its move.                                *)
LEMMA MoveGoesOn ==
    ASSUME NEW u \in Txs, Same(u), OrgsOf(u)' = OrgsOf(u)
    PROVE  (u \in Syncs' <=> u \in Syncs) /\ MoveOf(u)' = MoveOf(u)
<1>1. (Done(u, "credentials")' <=> Done(u, "credentials")) /\ NewStatus(u)' = NewStatus(u)
  BY SameStatement DEF Same
<1>. QED
  BY <1>1 DEF Same, Syncs, MoveOf

(* What becomes of the moves when one transaction takes a step *)
LEMMA OneMove ==
    ASSUME NEW t \in Txs,
           \A u \in Txs \ {t} : (u \in Syncs' <=> u \in Syncs) /\ MoveOf(u)' = MoveOf(u)
    PROVE  /\ t \notin Syncs /\ t \notin Syncs' => MovesOnTheirWay' = MovesOnTheirWay
           /\ t \notin Syncs /\ t \in Syncs' =>
                 MovesOnTheirWay' = MovesOnTheirWay \cup {MoveOf(t)'}
           /\ /\ t \in Syncs /\ t \notin Syncs'
              /\ \A u \in Syncs \ {t} : MoveOf(u) # MoveOf(t)
              => MovesOnTheirWay' = MovesOnTheirWay \ {MoveOf(t)}
<1>1. Syncs \subseteq Txs /\ Syncs' \subseteq Txs
  BY DEF Syncs
<1>2. \A m : m \in MovesOnTheirWay <=> \E u \in Syncs : m = MoveOf(u)
  BY DEF MovesOnTheirWay
<1>3. \A m : m \in MovesOnTheirWay' <=> \E u \in Syncs' : m = MoveOf(u)'
  BY DEF MovesOnTheirWay
<1>4. CASE t \notin Syncs /\ t \notin Syncs'
  <2>1. \A m : m \in MovesOnTheirWay' <=> m \in MovesOnTheirWay
    BY <1>1, <1>2, <1>3, <1>4
  <2>. QED
    BY <1>4, <2>1
<1>5. CASE t \notin Syncs /\ t \in Syncs'
  <2>1. \A m : m \in MovesOnTheirWay' <=> m \in MovesOnTheirWay \/ m = MoveOf(t)'
    BY <1>1, <1>2, <1>3, <1>5
  <2>. QED
    BY <1>5, <2>1
<1>6. CASE /\ t \in Syncs /\ t \notin Syncs'
           /\ \A u \in Syncs \ {t} : MoveOf(u) # MoveOf(t)
  <2>1. \A m : m \in MovesOnTheirWay' <=> m \in MovesOnTheirWay /\ m # MoveOf(t)
    BY <1>1, <1>2, <1>3, <1>6
  <2>. QED
    BY <1>6, <2>1
<1>. QED
  BY <1>4, <1>5, <1>6

(* Nothing becomes of them when none does. *)
LEMMA MovesUnchanged ==
    ASSUME \A u \in Txs : (u \in Syncs' <=> u \in Syncs) /\ (u \in Syncs => MoveOf(u)' = MoveOf(u))
    PROVE  MovesOnTheirWay' = MovesOnTheirWay
<1>1. Syncs \subseteq Txs /\ Syncs' \subseteq Txs
  BY DEF Syncs
<1>2. \A m : m \in MovesOnTheirWay <=> \E u \in Syncs : m = MoveOf(u)
  BY DEF MovesOnTheirWay
<1>3. \A m : m \in MovesOnTheirWay' <=> \E u \in Syncs' : m = MoveOf(u)'
  BY DEF MovesOnTheirWay
<1>4. \A m : m \in MovesOnTheirWay' <=> m \in MovesOnTheirWay
  BY <1>1, <1>2, <1>3
<1>. QED
  BY <1>4

(* What a reserved credential is *)
LEMMA ReservedIsSynced ==
    ASSUME NEW c \in Creds PROVE c \in Moves!Reserved <=> \E t \in Syncs : c \in synced[t]
<1>1. c \in Moves!Reserved <=> \E m \in MovesOnTheirWay : c \in m.creds
  BY DEF Moves!Reserved
<1>2. \A t \in Syncs : MoveOf(t).creds = synced[t]
  BY DEF MoveOf
<1>. QED
  BY <1>1, <1>2 DEF MovesOnTheirWay

(* A quiet step is none of StandingMoves. *)
LEMMA QuietMoves ==
    ASSUME SessionsInv, Quiet PROVE UNCHANGED Moves!movesVars
<1>1. ASSUME NEW u \in Txs
      PROVE  (u \in Syncs' <=> u \in Syncs) /\ (u \in Syncs => MoveOf(u)' = MoveOf(u))
  <2>1. CASE Done(u, "credentials")
    <3>1. Same(u) /\ subOrg' = subOrg
      BY <2>1 DEF Quiet, vars, subVars
    <3>. QED
      BY <3>1, SameOrgs, MoveGoesOn DEF Same
  <2>2. CASE ~Done(u, "credentials")
    BY <2>2 DEF Quiet, Syncs
  <2>. QED
    BY <2>1, <2>2
<1>2. MovesOnTheirWay' = MovesOnTheirWay
  BY <1>1, MovesUnchanged
<1>3. \A o \in Orgs : Standing(o)' = Standing(o)
  BY UnchangedStanding DEF Quiet, vars
<1>4. \A c \in Creds : LockOf(c)' = LockOf(c)
  BY DEF Quiet, vars, credVars, LockOf
<1>5. credOrg' = credOrg
  BY DEF Quiet, vars, credVars
<1>. QED
  BY <1>2, <1>3, <1>4, <1>5 DEF Moves!movesVars, Moves!gateVars

(* What is released when a transaction ends *)
LEMMA EndedMove ==
    ASSUME SessionsInv, NEW t \in Txs, End(t),
           \A u \in Txs \ {t} : OrgsOf(u)' = OrgsOf(u)
    PROVE  IF t \in Syncs
           THEN MovesOnTheirWay' = MovesOnTheirWay \ {MoveOf(t)}
           ELSE MovesOnTheirWay' = MovesOnTheirWay
<1>1. \A u \in Txs \ {t} : Same(u)
  BY EndedTx DEF SessionsInv
<1>2. \A u \in Txs \ {t} : (u \in Syncs' <=> u \in Syncs) /\ MoveOf(u)' = MoveOf(u)
  BY <1>1, MoveGoesOn
<1>3. t \notin Syncs'
  <2>1. op'[t] = NoOp
    BY DEF End, SessionsInv, SessionsTypeOK
  <2>. QED
    BY <2>1 DEF Syncs, Done
<1>4. t \in Syncs => \A u \in Syncs \ {t} : MoveOf(u) # MoveOf(t)
  BY MovesApart DEF Syncs
<1>. QED
  BY <1>2, <1>3, <1>4, OneMove

(* A transaction that ends without a COMMIT abandons its move. *)
LEMMA FailMoves ==
    ASSUME SessionsInv, NEW t \in Txs, End(t), UNCHANGED vars
    PROVE  Moves!MovesNext \/ UNCHANGED Moves!movesVars
<1>1. \A u \in Txs \ {t} : OrgsOf(u)' = OrgsOf(u)
  <2>1. \A u \in Txs \ {t} : Same(u)
    BY EndedTx DEF SessionsInv
  <2>. QED
    BY <2>1, SameOrgs DEF Same, vars, subVars
<1>2. \A o \in Orgs : Standing(o)' = Standing(o)
  BY UnchangedStanding DEF vars
<1>3. \A c \in Creds : LockOf(c)' = LockOf(c)
  BY DEF vars, credVars, LockOf
<1>4. UNCHANGED Moves!gateVars
  BY <1>2, <1>3 DEF Moves!gateVars, vars, credVars
<1>5. CASE t \in Syncs
  <2>1. MoveOf(t) \in MovesOnTheirWay
    BY <1>5 DEF MovesOnTheirWay
  <2>2. Moves!Abandon(MoveOf(t))
    BY <1>1, <1>4, <1>5, EndedMove DEF Moves!Abandon
  <2>. QED
    BY <2>1, <2>2 DEF Moves!MovesNext
<1>6. CASE t \notin Syncs
  BY <1>1, <1>4, <1>6, EndedMove DEF Moves!movesVars
<1>. QED
  BY <1>5, <1>6

(* A COMMIT leaves the others the organizations they move. *)
LEMMA CommitSameOrgs ==
    ASSUME SessionsInv, NEW t \in Txs, Commit(t), NEW u \in Txs \ {t}
    PROVE  OrgsOf(u)' = OrgsOf(u)
<1>1. Same(u) /\ OrgOf(u)' = OrgOf(u)
  BY EndedTx, CommitOtherTx DEF Commit, SessionsInv
<1>2. CASE op[u].kind = "sweep"
  <2>1. \A s \in HeldSubs(u) : s \in Subs /\ subOrg[s] \in Orgs
    BY <1>2 DEF SessionsInv, TxInv, UpdateInv, HeldSubs, Swept, TablesInv, IInv, RowsInv
  <2>2. \A s \in HeldSubs(u) : subOrg'[s] = subOrg[s]
    BY <2>1, CommitFrame
  <2>3. OrgsOf(u) = {subOrg[s] : s \in HeldSubs(u)}
    BY <1>2 DEF OrgsOf, HeldSubs
  <2>4. OrgsOf(u)' = {subOrg'[s] : s \in HeldSubs(u)}
    BY <1>1, <1>2 DEF OrgsOf, HeldSubs, Same
  <2>. QED
    BY <2>2, <2>3, <2>4
<1>3. CASE op[u].kind # "sweep"
  BY <1>1, <1>3 DEF OrgsOf, Same
<1>. QED
  BY <1>2, <1>3

(* The standings that billing moves an organization to *)
LEMMA NewStandings ==
    ASSUME SessionsInv, NEW t \in Txs, op[t] # NoOp
    PROVE  /\ NewStatus(t) \in Moves!Standings \ {"missing"}
           /\ NewStatus(t) \in RestrictingStatuses <=> NewStatus(t) \in Moves!Restricting
<1>1. NewStatus(t) \in {"active", "past_due", "expired", "trialing"}
  BY OpKinds DEF SessionsInv, NewStatus, Settles
<1>. QED
  BY <1>1 DEF Moves!Standings, Moves!Restricting, RestrictingStatuses

(* The locks that a COMMIT leaves *)
LEMMA CommitLocks ==
    ASSUME SessionsInv, NEW t \in Txs, Commit(t), NEW c \in Creds
    PROVE  LockOf(c)' = IF c \in synced[t] THEN Moves!LockUnder(NewStatus(t)) ELSE LockOf(c)
<1>1. CASE c \notin synced[t]
  BY <1>1, CommitCredentials DEF LockOf
<1>2. CASE c \in synced[t]
  <2>1. NewStatus(t) \in RestrictingStatuses <=> NewStatus(t) \in Moves!Restricting
    BY NewStandings DEF Commit, At
  <2>2. NewStatus(t) \in RestrictingStatuses => BillingLike(BillingReason(NewStatus(t)))
    BY DEF BillingLike, BillingReasons
  <2>3. LET restrict == NewStatus(t) \in RestrictingStatuses
        IN  /\ limited'[c] = restrict
            /\ limitReason'[c] = IF restrict THEN BillingReason(NewStatus(t)) ELSE NoReason
    BY <1>2, CommitCredentials
  <2>4. LockOf(c)' = IF ~limited'[c] THEN "open"
                     ELSE IF BillingLike(limitReason'[c]) THEN "billing" ELSE "admin"
    BY DEF LockOf, BillingLike
  <2>. QED
    BY <1>2, <2>1, <2>2, <2>3, <2>4 DEF Moves!LockUnder
<1>. QED
  BY <1>1, <1>2

(* A COMMIT enters the standing it has reserved the credentials for. *)
LEMMA CommitMoves ==
    ASSUME SessionsInv, NEW t \in Txs, Commit(t)
    PROVE  Moves!MovesNext \/ UNCHANGED Moves!movesVars
<1>1. Done(t, "credentials") /\ End(t) /\ credOrg' = credOrg
  BY AtCommit, CommitCredentials DEF Commit
<1>2. /\ \A o \in OrgsOf(t) : Standing(o)' = NewStatus(t)
      /\ \A p \in Orgs \ OrgsOf(t) : Standing(p)' = Standing(p)
  BY CommitTables DEF CommittedTables
<1>3. \A c \in Creds :
         LockOf(c)' = IF c \in synced[t] THEN Moves!LockUnder(NewStatus(t)) ELSE LockOf(c)
  BY CommitLocks
<1>4. CASE OrgsOf(t) = {}
  <2>1. t \notin Syncs
    BY <1>4 DEF Syncs
  <2>2. MovesOnTheirWay' = MovesOnTheirWay
    BY <1>1, <2>1, CommitSameOrgs, EndedMove
  <2>3. \A c \in Creds : c \notin synced[t]
    BY <1>4, CommitCredentials
  <2>4. /\ \A o \in Orgs : Standing(o)' = Standing(o)
        /\ \A c \in Creds : LockOf(c)' = LockOf(c)
    BY <1>2, <1>3, <1>4, <2>3
  <2>. QED
    BY <1>1, <2>2, <2>4 DEF Moves!movesVars, Moves!gateVars
<1>5. CASE OrgsOf(t) # {}
  <2>1. t \in Syncs /\ MoveOf(t) \in MovesOnTheirWay
    BY <1>1, <1>5 DEF Syncs, MovesOnTheirWay
  <2>2. MovesOnTheirWay' = MovesOnTheirWay \ {MoveOf(t)}
    BY <1>1, <2>1, CommitSameOrgs, EndedMove
  <2>3. /\ MoveOf(t).orgs = OrgsOf(t) /\ MoveOf(t).to = NewStatus(t)
        /\ MoveOf(t).creds = synced[t]
    BY DEF MoveOf
  <2>4. Moves!EnterReserved(MoveOf(t))
    BY <1>1, <1>2, <1>3, <2>2, <2>3 DEF Moves!EnterReserved
  <2>. QED
    BY <2>1, <2>4 DEF Moves!MovesNext
<1>. QED
  BY <1>4, <1>5

(* The sync reserves them. *)
LEMMA SyncMoves ==
    ASSUME SessionsInv, NEW t \in Txs, SyncCredentials(t)
    PROVE  Moves!MovesNext \/ UNCHANGED Moves!movesVars
<1>1. /\ At(t, "credentials") /\ op[t] # NoOp /\ Continue(t)
      /\ UNCHANGED <<op, held, targets>> /\ UNCHANGED vars
      /\ synced' = [synced EXCEPT ![t] = CredentialsOf(t)]
  BY DEF SyncCredentials, At, tables
<1>2. \A u \in Txs \ {t} : Same(u)
  BY <1>1 DEF Same, Continue, SessionsInv, SessionsTypeOK
<1>3. \A u \in Txs : OrgsOf(u)' = OrgsOf(u)
  BY <1>1, SameOrgs DEF vars, subVars
<1>4. \A u \in Txs \ {t} : (u \in Syncs' <=> u \in Syncs) /\ MoveOf(u)' = MoveOf(u)
  BY <1>2, <1>3, MoveGoesOn
<1>5. ~Done(t, "credentials")
  <2>1. Settles(t) => ~Done(t, "credentials")
    BY <1>1, SettlementStatements DEF SessionsInv, Settles
  <2>2. op[t].kind = "assign" => ~Done(t, "credentials")
    BY <1>1, AssignStatements DEF SessionsInv
  <2>3. op[t].kind = "sweep" => ~Done(t, "credentials")
    BY <1>1, SweepStatements DEF SessionsInv
  <2>. QED
    BY <1>1, <2>1, <2>2, <2>3, OpKinds DEF SessionsInv
<1>6. Done(t, "credentials")'
  BY <1>1, ContinueDone DEF SessionsInv
<1>7. NewStatus(t)' = NewStatus(t) /\ synced'[t] = CredentialsOf(t)
  BY <1>1 DEF NewStatus, SessionsInv, SessionsTypeOK
<1>8. UNCHANGED Moves!gateVars
  <2>1. \A o \in Orgs : Standing(o)' = Standing(o)
    BY <1>1, UnchangedStanding DEF vars
  <2>2. \A c \in Creds : LockOf(c)' = LockOf(c)
    BY <1>1 DEF vars, credVars, LockOf
  <2>. QED
    BY <1>1, <2>1, <2>2 DEF Moves!gateVars, vars, credVars
<1>9. CASE OrgsOf(t) = {}
  <2>1. t \notin Syncs /\ t \notin Syncs'
    BY <1>3, <1>9 DEF Syncs
  <2>. QED
    BY <1>4, <1>8, <2>1, OneMove DEF Moves!movesVars
<1>10. CASE OrgsOf(t) # {}
  <2>. DEFINE os == OrgsOf(t)
              st == NewStatus(t)
              cs == CredentialsOf(t)
  <2>1. t \notin Syncs /\ t \in Syncs'
    BY <1>3, <1>5, <1>6, <1>10 DEF Syncs
  <2>2. MoveOf(t)' = [orgs |-> os, to |-> st, creds |-> cs]
    BY <1>3, <1>7 DEF MoveOf
  <2>3. MovesOnTheirWay' = MovesOnTheirWay \cup {[orgs |-> os, to |-> st, creds |-> cs]}
    BY <1>4, <2>1, <2>2, OneMove
  <2>4. \A m \in MovesOnTheirWay : m.orgs \cap os = {}
    <3>1. \A u \in Syncs : MoveOf(u).orgs = OrgsOf(u) /\ u # t
      BY <2>1 DEF MoveOf
    <3>2. \A u \in Syncs : OrgsOf(u) \cap os = {}
      BY <1>1, <3>1, MovesApart
    <3>. QED
      BY <3>1, <3>2 DEF MovesOnTheirWay
  <2>5. \A c \in Creds : c \in cs <=> /\ credOrg[c] \in os
                                      /\ \/ BillingLike(limitReason[c])
                                         \/ st \in RestrictingStatuses /\ ~limited[c]
    BY DEF CredentialsOf, SyncedCredentials
  <2>6. ASSUME NEW c \in Creds, credOrg[c] \in os, LockOf(c) \notin {"admin", Moves!LockUnder(st)}
        PROVE  c \in cs
    BY <1>1, <2>5, <2>6, NewStandings DEF LockOf, Moves!LockUnder
  <2>7. ASSUME NEW c \in Creds, c \in cs PROVE credOrg[c] \in os /\ LockOf(c) # "admin"
    BY <2>5, <2>7 DEF LockOf
  <2>8. os \in SUBSET Orgs /\ st \in Moves!Standings \ {"missing"} /\ cs \in SUBSET Creds
    <3>1. os \in SUBSET Orgs
      BY <1>1, ReadyIndexed
    <3>. QED
      BY <1>1, <3>1, NewStandings DEF CredentialsOf, SyncedCredentials
  <2>9. Moves!Reserve(os, st, cs)
    <3>1. {c \in Creds : credOrg[c] \in os /\ LockOf(c) \notin {"admin", Moves!LockUnder(st)}}
             \subseteq cs
      BY <2>6
    <3>2. cs \subseteq {c \in Creds : credOrg[c] \in os /\ LockOf(c) # "admin"}
      BY <2>7, <2>8
    <3>. QED
      BY <1>8, <1>10, <2>3, <2>4, <3>1, <3>2 DEF Moves!Reserve
  <2>. HIDE DEF os, st, cs
  <2>. QED
    BY <2>8, <2>9 DEF Moves!MovesNext
<1>. QED
  BY <1>9, <1>10

(* The INSERT of a credential adds it, and an administrator sets the lock of *)
(* one that is not reserved.                                               *)
LEMMA OtherMoves ==
    ASSUME SessionsInv, OtherStatement
    PROVE  Moves!MovesNext \/ UNCHANGED Moves!movesVars
<1>. USE OrgsAssumption DEF SessionsInv, SessionsTypeOK, TypeOK
<1>1. UNCHANGED subVars /\ UNCHANGED sessionVars
  BY DEF OtherStatement, CheckCredentialCreate, InsertCredential, SetCredentialLimited, Tick
<1>2. MovesOnTheirWay' = MovesOnTheirWay
  <2>1. \A u \in Txs : Same(u) /\ OrgsOf(u)' = OrgsOf(u)
    BY <1>1, SameOrgs DEF sessionVars, subVars, Same
  <2>. QED
    BY <2>1, MoveGoesOn, MovesUnchanged
<1>3. \A p \in Orgs : Standing(p)' = Standing(p)
  BY <1>1, UnchangedStanding
<1>4. ASSUME NEW c \in Creds, InsertCredential(c) PROVE Moves!MovesNext
  <2>1. CredentialRows
    BY DEF TablesInv
  <2>2. \A d \in Creds : LockOf(d)' = LockOf(d)
    BY <1>4, <2>1 DEF InsertCredential, LockOf, CredentialRows
  <2>3. Moves!AddCredential(c, creating[c]) /\ creating[c] \in Orgs
    BY <1>3, <1>4, <2>1, <2>2 DEF InsertCredential, Moves!AddCredential, CredentialRows
  <2>. QED
    BY <1>2, <2>3 DEF Moves!MovesNext
<1>5. ASSUME NEW c \in Creds, NEW limit \in BOOLEAN, NEW r \in AdminReasons \cup {NoReason},
             \A t \in Txs : c \notin synced[t], SetCredentialLimited(c, limit, r)
      PROVE  Moves!MovesNext
  <2>1. \A d \in Creds \ {c} : LockOf(d)' = LockOf(d)
    BY <1>5 DEF SetCredentialLimited, LockOf
  <2>2. LockOf(c)' \in Moves!Locks
    BY DEF LockOf, Moves!Locks
  <2>3. Moves!SetLock(c, LockOf(c)')
    BY <1>3, <1>5, <2>1, <2>2 DEF SetCredentialLimited, Moves!SetLock
  <2>4. c \in Creds \ Moves!Reserved
    BY <1>5, ReservedIsSynced DEF Syncs
  <2>. QED
    BY <1>2, <2>2, <2>3, <2>4 DEF Moves!MovesNext
<1>6. ASSUME UNCHANGED credVars PROVE UNCHANGED Moves!movesVars
  <2>1. \A d \in Creds : LockOf(d)' = LockOf(d)
    BY <1>6 DEF credVars, LockOf
  <2>. QED
    BY <1>2, <1>3, <1>6, <2>1 DEF Moves!movesVars, Moves!gateVars, credVars
<1>. QED
  BY <1>4, <1>5, <1>6 DEF OtherStatement, CheckCredentialCreate, Tick

(* Interleaved transactions implement StandingMoves: the sync of a billing *)
(* transaction reserves, its COMMIT moves standing and locks in one step,  *)
(* a ROLLBACK at any statement moves nothing.                              *)
THEOREM SessionsRefinement == SessionsSpec => ImplementsMoves
<1>1. SessionsInit => Moves!MovesInit
  <2>. SUFFICES ASSUME SessionsInit PROVE Moves!MovesInit
    OBVIOUS
  <2>1. Init
    BY DEF SessionsInit
  <2>2. Moves!Init
    BY <2>1, OrgsAssumption DEF Init, Moves!Init, Standing, HasSub, SubsOf, LockOf
  <2>3. MovesOnTheirWay = {}
    BY DEF SessionsInit, MovesOnTheirWay, Syncs, Done
  <2>. QED
    BY <2>2, <2>3 DEF Moves!MovesInit
<1>2. SessionsInv /\ [SessionsNext]_allVars => [Moves!MovesNext]_(Moves!movesVars)
  BY MoveKinds, QuietMoves, FailMoves, CommitMoves, SyncMoves, OtherMoves
<1>. QED
  BY <1>1, <1>2, SessionsInvariant, PTL DEF SessionsSpec, ImplementsMoves, Moves!MovesSpec
=============================================================================
