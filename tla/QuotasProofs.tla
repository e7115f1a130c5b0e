----------------------------- MODULE QuotasProofs -----------------------------
(***************************************************************************)
(* Theorems about module Quotas, for any finite set of credentials, any    *)
(* plans, requests and limits, and any number of changes.                  *)
(***************************************************************************)
EXTENDS Quotas, TLAPS

-----------------------------------------------------------------------------
(* What a request holds at each of its stages                              *)

RowRequest(r) ==
    /\ op[r].kind \in {"list", "limits", "enable", "disable"}
    /\ op[r].cred \in Creds

OrgRequest(r) == op[r].kind \in {"overview", "override"}

StageOf(r) ==
    /\ op[r] = NoOp <=> pc[r] = "idle"
    /\ pc[r] = "row" => RowRequest(r)
    /\ pc[r] \in {"suspended", "subscription", "manual"} =>
           op[r].kind = "list" /\ op[r].cred \in Creds /\ row[r] \in Row
    /\ pc[r] \in {"update", "reset"} =>
           op[r].kind = "limits" /\ op[r].cred \in Creds /\ row[r] \in Row
    /\ pc[r] = "enable" =>
           op[r].kind \in {"enable", "disable"} /\ op[r].cred \in Creds /\ row[r] \in Row
    /\ pc[r] = "minute" => RowRequest(r) /\ row[r] \in Row
    /\ pc[r] = "override" => op[r].kind = "override"
    /\ pc[r] = "overview" => OrgRequest(r)
    /\ pc[r] = "plan" => OrgRequest(r) /\ row[r] \in OverviewRow
    /\ pc[r] = "answered" => RowRequest(r) \/ OrgRequest(r)

StageInv == \A r \in Requests : StageOf(r)

LEMMA AskedKinds ==
    ASSUME NEW o \in Asked
    PROVE  /\ o # NoOp
           /\ \/ o.kind \in {"list", "limits", "enable", "disable"} /\ o.cred \in Creds
              \/ o.kind \in {"overview", "override"}
           /\ o.kind = "limits" =>
                  /\ o.set \in UNION {[K -> Quota] : K \in SUBSET Limits}
                  /\ o.reset \subseteq Limits
           /\ o.kind = "override" => o.quota \in Quota
<1>1. o \in Ops
  BY AskedAssumption
<1>2. o # NoOp
  BY <1>1 DEF Ops, NoOp
<1>3. CASE o \in [kind : {"list"}, cred : Creds] \cup [kind : {"enable", "disable"}, cred : Creds]
  BY <1>2, <1>3
<1>4. CASE o \in [kind : {"limits"}, cred : Creds,
                  set : UNION {[K -> Quota] : K \in SUBSET Limits}, reset : SUBSET Limits]
  BY <1>2, <1>4
<1>5. CASE o \in [kind : {"overview"}] \cup [kind : {"override"}, quota : Quota]
  BY <1>2, <1>5
<1> QED
  BY <1>1, <1>3, <1>4, <1>5 DEF Ops

-----------------------------------------------------------------------------
(* Types of what requests and tables hold; the histories have lemmas of    *)
(* their own.                                                              *)

TablesOK ==
    /\ limit \in [Creds -> [Limits -> Quota]]
    /\ used \in [Creds -> [Stored -> 0 .. MaxUsed]]
    /\ enabled \in [Creds -> BOOLEAN]
    /\ manual \in [Creds -> BOOLEAN]
    /\ minute \in [Creds -> 0 .. MaxUsed]
    /\ suspended \in BOOLEAN
    /\ restricted \in BOOLEAN
    /\ plan \in Plans \cup {Null}
    /\ planQuota \in [Plans -> Quota \cup {NoPlan}]
    /\ plan # Null => planQuota[plan] # NoPlan
    /\ override \in Quota
    /\ asked \in 0 .. MaxAsked
    /\ changes \in 0 .. MaxChanges
    /\ named \in [Creds -> [Limits -> Quota]]

ProgressOK ==
    /\ op \in [Requests -> Asked \cup {NoOp}]
    /\ pc \in [Requests -> Stages]
    /\ row \in [Requests -> Row \cup OverviewRow \cup {NoRow}]
    /\ reported \in [Requests -> SUBSET Reasons]
    /\ failed \in [Requests -> SUBSET Reasons]

HistoryOK ==
    /\ ever \in [Requests -> SUBSET Reasons]
    /\ always \in [Requests -> SUBSET Reasons]
    /\ moved \in [Requests -> SUBSET Reasons]

LEMMA TypeParts == TypeOK <=> TablesOK /\ ProgressOK /\ HistoryOK
  BY DEF TypeOK, TablesOK, ProgressOK, HistoryOK

LEMMA WriteTypes == TablesOK /\ Write => TablesOK'
<1> SUFFICES ASSUME TablesOK, Write
             PROVE  TablesOK'
  OBVIOUS
<1> USE BoundsAssumption DEF TablesOK, credVars, orgVars, Change
<1>1. ASSUME NEW c \in Creds, CountUse(c)
      PROVE  TablesOK'
  <2>1. [k \in Stored |-> used[c][k] + 1] \in [Stored -> 0 .. MaxUsed]
    BY <1>1 DEF CountUse
  <2>2. used' \in [Creds -> [Stored -> 0 .. MaxUsed]]
    BY <1>1, <2>1 DEF CountUse
  <2> QED
    BY <1>1, <2>2 DEF CountUse
<1>2. ASSUME NEW c \in Creds, CountMinute(c) \/ NextMinute(c)
      PROVE  TablesOK'
  <2>1. CASE CountMinute(c)
    <3>1. minute[c] + 1 \in 0 .. MaxUsed
      BY <2>1 DEF CountMinute
    <3> QED
      BY <2>1, <3>1 DEF CountMinute
  <2>2. CASE NextMinute(c)
    BY <2>2 DEF NextMinute
  <2> QED
    BY <1>2, <2>1, <2>2
<1>3. ASSUME NEW K \in SUBSET Stored, ResetUsage(K)
      PROVE  TablesOK'
  <2>1. \A c \in Creds : [k \in Stored |-> IF k \in K THEN 0 ELSE used[c][k]] \in [Stored -> 0 .. MaxUsed]
    OBVIOUS
  <2>2. used' \in [Creds -> [Stored -> 0 .. MaxUsed]]
    BY <1>3, <2>1 DEF ResetUsage
  <2> QED
    BY <1>3, <2>2 DEF ResetUsage
<1>4. ASSUME NEW c \in Creds, NEW value \in BOOLEAN, SetCredentialLimited(c, value)
      PROVE  TablesOK'
  BY <1>4 DEF SetCredentialLimited
<1>5. ASSUME NEW value \in BOOLEAN, SetSuspended(value) \/ SettleSubscription(value)
      PROVE  TablesOK'
  BY <1>5 DEF SetSuspended, SettleSubscription
<1>6. ASSUME NEW p \in Plans, NEW value \in BOOLEAN, AssignSubscription(p, value)
      PROVE  TablesOK'
  BY <1>6 DEF AssignSubscription
<1>7. ASSUME NEW p \in Plans, NEW quota \in Quota, CreatePlan(p, quota) \/ UpdatePlan(p, quota)
      PROVE  TablesOK'
  <2>1. /\ planQuota' \in [Plans -> Quota \cup {NoPlan}]
        /\ quota # NoPlan
    BY <1>7, ValuesAssumption DEF CreatePlan, UpdatePlan, Quota
  <2>3. plan # Null => planQuota'[plan] # NoPlan
    BY <1>7, <2>1 DEF CreatePlan, UpdatePlan
  <2> QED
    BY <1>7, <2>1, <2>3 DEF CreatePlan, UpdatePlan
<1> QED
  BY <1>1, <1>2, <1>3, <1>4, <1>5, <1>6, <1>7 DEF Write

(* A step of r leaves the other requests where they are.                   *)
Alone(r) ==
    \A q \in Requests \ {r} : op'[q] = op[q] /\ pc'[q] = pc[q] /\ row'[q] = row[q]

LEMMA OthersStay ==
    ASSUME StageInv, NEW r \in Requests, Alone(r), StageOf(r)'
    PROVE  StageInv'
<1> SUFFICES ASSUME NEW q \in Requests, q # r
             PROVE  StageOf(q)'
  BY DEF StageInv
<1>1. op'[q] = op[q] /\ pc'[q] = pc[q] /\ row'[q] = row[q] /\ StageOf(q)
  BY DEF Alone, StageInv
<1> QED
  BY <1>1 DEF StageOf, RowRequest, OrgRequest

LEMMA LimitTypes ==
    ASSUME TablesOK, ProgressOK, NEW r \in Requests, op[r].kind = "limits", op[r].cred \in Creds
    PROVE  /\ \A k \in DOMAIN op[r].set : op[r].set[k] \in Quota
           /\ op[r].reset \subseteq Limits
<1>1. op[r] \in Asked
  BY DEF ProgressOK, NoOp
<1> DEFINE s == op[r].set
<1>2. PICK K \in SUBSET Limits : s \in [K -> Quota]
  BY <1>1, AskedKinds
<1>3. \A k \in DOMAIN s : s[k] \in Quota
  BY <1>2
<1> QED
  BY <1>1, <1>3, AskedKinds

LEMMA CloseTypes ==
    ASSUME TablesOK, ProgressOK, StageInv, NEW r \in Requests, Close(r)
    PROVE  TablesOK' /\ ProgressOK' /\ StageInv'
<1>1. TablesOK'
  BY DEF Close, TablesOK, tables, credVars, orgVars
<1>2. ProgressOK'
  BY DEF Close, GoTo, ProgressOK, Stages
<1>3. Alone(r)
  BY DEF Close, GoTo, ProgressOK, Alone
<1>4. op'[r] = NoOp /\ pc'[r] = "idle"
  BY DEF Close, GoTo, ProgressOK
<1>5. StageOf(r)'
  BY <1>4 DEF StageOf
<1> QED
  BY <1>1, <1>2, <1>3, <1>5, OthersStay

(* The stages that only read: what a request holds changes, no table does. *)
LEMMA ReadTypes ==
    ASSUME TablesOK, ProgressOK, StageInv, NEW r \in Requests,
           \/ ReadRow(r) \/ CheckSuspended(r) \/ CheckSubscription(r) \/ CheckManual(r)
           \/ BuildSnapshot(r) \/ ReadOverview(r) \/ LoadSubscriptionQuotas(r)
    PROVE  TablesOK' /\ ProgressOK' /\ StageInv'
<1> USE DEF GoTo, Report
<1>1. StageOf(r)
  BY DEF StageInv
<1>2. TablesOK'
  BY DEF ReadRow, CheckSuspended, CheckSubscription, CheckManual, BuildSnapshot, ReadOverview,
         LoadSubscriptionQuotas, TablesOK, tables, credVars, orgVars
<1>3. CASE ReadRow(r)
  <2> DEFINE c == op[r].cred
             seen == [enabled |-> enabled[c], limit |-> limit[c], used |-> used[c]]
  <2>1. RowRequest(r)
    BY <1>1, <1>3 DEF ReadRow, StageOf
  <2>3. seen.enabled \in BOOLEAN /\ seen.limit \in [Limits -> Quota] /\ seen.used \in [Stored -> Nat]
    BY <2>1, BoundsAssumption DEF RowRequest, TablesOK
  <2>4. seen \in Row
    BY <2>3 DEF Row
  <2>5. /\ pc' = [pc EXCEPT ![r] = pc'[r]]
        /\ pc'[r] = IF op[r].kind = "list" THEN "suspended"
                    ELSE IF op[r].kind = "limits" THEN "update" ELSE "enable"
        /\ row' = [row EXCEPT ![r] = seen]
        /\ UNCHANGED <<op, reported, failed>>
    BY <1>3 DEF ReadRow, ProgressOK
  <2>6. \/ op[r].kind = "list" /\ pc'[r] = "suspended"
        \/ op[r].kind = "limits" /\ pc'[r] = "update"
        \/ op[r].kind \in {"enable", "disable"} /\ pc'[r] = "enable"
    BY <2>1, <2>5 DEF RowRequest
  <2> HIDE DEF seen
  <2>7. ProgressOK'
    BY <2>4, <2>5, <2>6 DEF ProgressOK, Stages
  <2>8. row'[r] \in Row /\ op'[r] = op[r] /\ op[r] # NoOp
    BY <2>1, <2>4, <2>5 DEF ProgressOK, RowRequest, NoOp
  <2>9. StageOf(r)'
    BY <2>1, <2>6, <2>8 DEF StageOf, RowRequest
  <2>10. Alone(r)
    BY <2>5 DEF Alone, ProgressOK
  <2> QED
    BY <1>2, <2>7, <2>9, <2>10, OthersStay
<1>4. CASE CheckSuspended(r) \/ CheckSubscription(r) \/ CheckManual(r)
  <2>1. ProgressOK'
    BY <1>4 DEF CheckSuspended, CheckSubscription, CheckManual, ProgressOK, Stages, Reasons
  <2>3. Alone(r)
    BY <1>4 DEF CheckSuspended, CheckSubscription, CheckManual, ProgressOK, Alone
  <2>4. /\ op[r].kind = "list" /\ op[r].cred \in Creds /\ row[r] \in Row
        /\ op' = op /\ row' = row
        /\ pc[r] # "idle"
        /\ pc'[r] \in {"subscription", "manual", "minute"}
    BY <1>1, <1>4 DEF CheckSuspended, CheckSubscription, CheckManual, ProgressOK, StageOf
  <2>5. StageOf(r)'
    BY <1>1, <2>4 DEF StageOf, RowRequest
  <2> QED
    BY <1>2, <2>1, <2>3, <2>5, OthersStay
<1>5. CASE BuildSnapshot(r)
  <2>1. \A n : DerivedStatus(r, n) \subseteq Reasons
    BY StoredAssumption DEF DerivedStatus, Reasons, Limits
  <2>3. ProgressOK'
    <3>1. \E n : reported' = [reported EXCEPT ![r] = @ \cup DerivedStatus(r, n)]
      BY <1>5 DEF BuildSnapshot
    <3>2. reported' \in [Requests -> SUBSET Reasons]
      BY <2>1, <3>1 DEF ProgressOK
    <3>3. "per_minute" \in Reasons
      BY DEF Reasons, Limits
    <3>4. failed' \in [Requests -> SUBSET Reasons]
      BY <1>5, <3>3 DEF BuildSnapshot, ProgressOK
    <3> QED
      BY <1>5, <3>2, <3>4 DEF BuildSnapshot, ProgressOK, Stages
  <2>4. Alone(r)
    BY <1>5 DEF BuildSnapshot, ProgressOK, Alone
  <2>5. RowRequest(r) /\ op' = op /\ pc[r] # "idle" /\ pc'[r] = "answered"
    BY <1>1, <1>5 DEF BuildSnapshot, ProgressOK, StageOf
  <2>6. StageOf(r)'
    BY <1>1, <2>5 DEF StageOf, RowRequest
  <2> QED
    BY <1>2, <2>3, <2>4, <2>6, OthersStay
<1>6. CASE ReadOverview(r)
  <2> DEFINE seen == [quota |-> override, used |-> used]
  <2>1. seen \in OverviewRow
    <3>1. used \in [Creds -> [Stored -> Nat]] /\ override \in Quota
      BY BoundsAssumption DEF TablesOK
    <3> QED
      BY <3>1 DEF OverviewRow
  <2>3. /\ row' = [row EXCEPT ![r] = seen]
        /\ \/ pc' = [pc EXCEPT ![r] = "plan"] /\ reported' = reported
           \/ /\ pc' = [pc EXCEPT ![r] = "answered"]
              /\ reported' = [reported EXCEPT ![r] = @ \cup OverviewStatus(override, used)]
        /\ UNCHANGED <<op, failed>>
    BY <1>6 DEF ReadOverview
  <2> HIDE DEF seen
  <2>4. OverviewStatus(override, used) \subseteq Reasons
    BY DEF OverviewStatus, Reasons
  <2>5. ProgressOK'
    BY <2>1, <2>3, <2>4 DEF ProgressOK, Stages
  <2>6. Alone(r)
    BY <2>3 DEF ProgressOK, Alone
  <2>7. /\ OrgRequest(r) /\ op' = op /\ pc[r] # "idle"
        /\ pc'[r] \in {"plan", "answered"} /\ row'[r] \in OverviewRow
    BY <1>1, <1>6, <2>1, <2>3 DEF ReadOverview, ProgressOK, StageOf
  <2>8. StageOf(r)'
    BY <1>1, <2>7 DEF StageOf, OrgRequest
  <2> QED
    BY <1>2, <2>5, <2>6, <2>8, OthersStay
<1>7. CASE LoadSubscriptionQuotas(r)
  <2>1. \A n, u : OverviewStatus(n, u) \subseteq Reasons
    BY DEF OverviewStatus, Reasons
  <2>3. ProgressOK'
    BY <1>7, <2>1 DEF LoadSubscriptionQuotas, ProgressOK, Stages, Reasons
  <2>4. Alone(r)
    BY <1>7 DEF LoadSubscriptionQuotas, ProgressOK, Alone
  <2>5. OrgRequest(r) /\ op' = op /\ pc[r] # "idle" /\ pc'[r] = "answered"
    BY <1>1, <1>7 DEF LoadSubscriptionQuotas, ProgressOK, StageOf
  <2>6. StageOf(r)'
    BY <1>1, <2>5 DEF StageOf, OrgRequest
  <2> QED
    BY <1>2, <2>3, <2>4, <2>6, OthersStay
<1> QED
  BY <1>3, <1>4, <1>5, <1>6, <1>7

(* The stages that write                                                   *)
LEMMA WriteStageTypes ==
    ASSUME TablesOK, ProgressOK, StageInv, NEW r \in Requests,
           UpdateLimits(r) \/ ResetMinute(r) \/ SetEnabled(r) \/ UpdateOverride(r)
    PROVE  TablesOK' /\ ProgressOK' /\ StageInv'
<1> USE DEF GoTo
<1> DEFINE c == op[r].cred
<1>1. StageOf(r)
  BY DEF StageInv
<1>2. CASE UpdateLimits(r)
  <2> DEFINE set == op[r].set
             limits == [k \in Limits |-> IF k \in DOMAIN set THEN set[k] ELSE limit[c][k]]
             uses == [k \in Stored |-> IF k \in op[r].reset THEN 0 ELSE used[c][k]]
             last == [k \in Limits |-> IF k \in DOMAIN set THEN set[k] ELSE named[c][k]]
             seen == [row[r] EXCEPT !.limit = limits, !.used = uses]
  <2>1. op[r].kind = "limits" /\ c \in Creds /\ row[r] \in Row /\ pc[r] # "idle"
    BY <1>1, <1>2 DEF UpdateLimits, StageOf
  <2>2. \A k \in DOMAIN set : set[k] \in Quota
    BY <2>1, LimitTypes
  <2> HIDE DEF set
  <2>3. limits \in [Limits -> Quota] /\ last \in [Limits -> Quota]
    BY <2>1, <2>2 DEF TablesOK
  <2>4. uses \in [Stored -> 0 .. MaxUsed]
    BY <2>1, BoundsAssumption DEF TablesOK
  <2>5. uses \in [Stored -> Nat]
    BY <2>4, BoundsAssumption
  <2>6. /\ limit' = [limit EXCEPT ![c] = limits]
        /\ used' = [used EXCEPT ![c] = uses]
        /\ named' = [named EXCEPT ![c] = last]
        /\ row' = [row EXCEPT ![r] = seen]
        /\ pc' = [pc EXCEPT ![r] = pc'[r]]
        /\ pc'[r] \in {"reset", "minute"}
        /\ UNCHANGED <<enabled, manual, minute, orgVars, asked, changes, op, reported, failed>>
    BY <1>2, <2>1 DEF UpdateLimits, ProgressOK, TablesOK, set
  <2> HIDE DEF limits, uses, last
  <2>7. seen \in Row
    BY <2>1, <2>3, <2>5 DEF Row
  <2> HIDE DEF seen, c
  <2>8. TablesOK'
    BY <2>1, <2>3, <2>4, <2>6 DEF TablesOK, orgVars
  <2>9. ProgressOK'
    BY <2>6, <2>7 DEF ProgressOK, Stages
  <2>10. Alone(r)
    BY <2>6 DEF Alone, ProgressOK
  <2>11. row'[r] \in Row /\ op'[r] = op[r] /\ op[r] # NoOp
    BY <1>1, <2>1, <2>6, <2>7 DEF ProgressOK, StageOf
  <2>12. StageOf(r)'
    BY <2>1, <2>6, <2>11 DEF StageOf, RowRequest, c
  <2> QED
    BY <2>8, <2>9, <2>10, <2>12, OthersStay
<1>3. CASE ResetMinute(r)
  <2>1. op[r].kind = "limits" /\ c \in Creds /\ row[r] \in Row /\ pc[r] # "idle"
    BY <1>1, <1>3 DEF ResetMinute, StageOf
  <2>2. minute' = [minute EXCEPT ![c] = 0] \/ minute' = minute
    BY <1>3 DEF ResetMinute
  <2>3. TablesOK'
    <3>1. 0 \in 0 .. MaxUsed
      BY BoundsAssumption
    <3>2. minute' \in [Creds -> 0 .. MaxUsed]
      BY <2>2, <3>1 DEF TablesOK
    <3> QED
      BY <1>3, <3>2 DEF ResetMinute, TablesOK, credVars, orgVars
  <2>4. ProgressOK'
    BY <1>3 DEF ResetMinute, ProgressOK, Stages
  <2>5. Alone(r)
    BY <1>3 DEF ResetMinute, ProgressOK, Alone
  <2>6. op' = op /\ row' = row /\ pc'[r] = "minute"
    BY <1>3 DEF ResetMinute, ProgressOK
  <2>7. StageOf(r)'
    BY <1>1, <2>1, <2>6 DEF StageOf, RowRequest
  <2> QED
    BY <2>3, <2>4, <2>5, <2>7, OthersStay
<1>4. CASE SetEnabled(r)
  <2> DEFINE value == op[r].kind = "enable"
             seen == [row[r] EXCEPT !.enabled = value]
  <2>1. op[r].kind \in {"enable", "disable"} /\ c \in Creds /\ row[r] \in Row /\ pc[r] # "idle"
    BY <1>1, <1>4 DEF SetEnabled, StageOf
  <2>2. /\ enabled' = [enabled EXCEPT ![c] = value]
        /\ row' = [row EXCEPT ![r] = [@ EXCEPT !.enabled = value]]
        /\ row' = [row EXCEPT ![r] = seen]
        /\ pc' = [pc EXCEPT ![r] = "minute"]
        /\ UNCHANGED <<limit, used, manual, named, minute, orgVars, asked, changes, op, reported, failed>>
    BY <1>4, <2>1 DEF SetEnabled, ProgressOK
  <2>3. value \in BOOLEAN
    OBVIOUS
  <2> HIDE DEF value
  <2>4. seen \in Row
    BY <2>1, <2>3 DEF Row
  <2> HIDE DEF seen
  <2>5. enabled' \in [Creds -> BOOLEAN]
    BY <2>1, <2>2, <2>3 DEF TablesOK
  <2>6. TablesOK'
    BY <2>2, <2>5 DEF TablesOK, orgVars
  <2>7. ProgressOK'
    BY <2>2, <2>4 DEF ProgressOK, Stages
  <2>8. Alone(r)
    BY <2>2 DEF Alone, ProgressOK
  <2>9. row'[r] \in Row /\ op' = op /\ pc'[r] = "minute"
    BY <2>2, <2>4 DEF ProgressOK
  <2>10. StageOf(r)'
    BY <1>1, <2>1, <2>9 DEF StageOf, RowRequest
  <2> QED
    BY <2>6, <2>7, <2>8, <2>10, OthersStay
<1>5. CASE UpdateOverride(r)
  <2>1. op[r].kind = "override" /\ pc[r] # "idle"
    BY <1>1, <1>5 DEF UpdateOverride, StageOf
  <2>2. override' \in Quota
    BY <1>5, <2>1, AskedKinds DEF UpdateOverride, ProgressOK, NoOp
  <2>3. TablesOK'
    BY <1>5, <2>2 DEF UpdateOverride, TablesOK, credVars
  <2>4. ProgressOK'
    BY <1>5 DEF UpdateOverride, ProgressOK, Stages
  <2>5. Alone(r)
    BY <1>5 DEF UpdateOverride, ProgressOK, Alone
  <2>6. op' = op /\ pc'[r] = "overview"
    BY <1>5 DEF UpdateOverride, ProgressOK
  <2>7. StageOf(r)'
    BY <1>1, <2>1, <2>6 DEF StageOf, OrgRequest
  <2> QED
    BY <2>3, <2>4, <2>5, <2>7, OthersStay
<1> QED
  BY <1>2, <1>3, <1>4, <1>5

LEMMA AskTypes ==
    ASSUME TablesOK, ProgressOK, StageInv, NEW r \in Requests, NEW o \in Asked, Ask(r, o)
    PROVE  TablesOK' /\ ProgressOK' /\ StageInv'
<1>1. /\ op' = [op EXCEPT ![r] = o]
      /\ pc' = [pc EXCEPT ![r] = pc'[r]]
      /\ pc'[r] = IF AboutOrg(o) THEN o.kind ELSE "row"
      /\ UNCHANGED <<tables, changes, row, reported, failed>>
  BY DEF Ask, GoTo, ProgressOK
<1>2. \/ o.kind \in {"overview", "override"} /\ pc'[r] = o.kind
      \/ o.kind \in {"list", "limits", "enable", "disable"} /\ o.cred \in Creds /\ pc'[r] = "row"
  BY <1>1, AskedKinds DEF AboutOrg
<1>3. TablesOK'
  BY <1>1, BoundsAssumption DEF Ask, TablesOK, tables, credVars, orgVars
<1>4. ProgressOK'
  BY <1>1, <1>2 DEF ProgressOK, Stages
<1>5. Alone(r)
  BY <1>1 DEF Alone, ProgressOK
<1>6. op'[r] = o /\ o # NoOp
  BY <1>1, AskedKinds DEF ProgressOK
<1>7. StageOf(r)'
  BY <1>2, <1>6 DEF StageOf, RowRequest, OrgRequest
<1> QED
  BY <1>3, <1>4, <1>5, <1>7, OthersStay

LEMMA HistoryTypes == HistoryOK /\ Next => HistoryOK'
<1> SUFFICES ASSUME HistoryOK, Observe
             PROVE  HistoryOK'
  BY DEF Next
<1>1. \A r \in Requests : About(op[r])' \subseteq Reasons
  BY StoredAssumption DEF About, OrgHolding, Holding, Reasons, Limits
<1>2. ever' \in [Requests -> SUBSET Reasons]
  BY <1>1 DEF Observe, HistoryOK
<1>3. always' \in [Requests -> SUBSET Reasons]
  BY <1>1 DEF Observe, HistoryOK
<1>4. moved' \in [Requests -> SUBSET Reasons]
  BY DEF Observe, HistoryOK, Reasons, Limits
<1> QED
  BY <1>2, <1>3, <1>4 DEF HistoryOK

LEMMA TypeInit == Init => TypeOK /\ StageInv
<1> SUFFICES ASSUME Init PROVE TypeOK /\ StageInv
  OBVIOUS
<1>1. TablesOK
  <2>1. Null \in Quota /\ 0 \in 0 .. MaxUsed /\ 0 \in 0 .. MaxAsked /\ 0 \in 0 .. MaxChanges
    BY BoundsAssumption DEF Quota
  <2>2. used \in [Creds -> [Stored -> 0 .. MaxUsed]] /\ minute \in [Creds -> 0 .. MaxUsed]
    BY <2>1 DEF Init
  <2>3. plan \in Plans \cup {Null} /\ (plan # Null => planQuota[plan] # NoPlan)
    BY DEF Init
  <2>4. enabled \in [Creds -> BOOLEAN] /\ manual \in [Creds -> BOOLEAN]
    BY DEF Init
  <2> QED
    BY <2>1, <2>2, <2>3, <2>4 DEF Init, TablesOK
<1>2. ProgressOK
  BY DEF Init, ProgressOK, Stages
<1>3. HistoryOK
  BY DEF Init, HistoryOK
<1>4. StageInv
  BY DEF Init, StageInv, StageOf
<1> QED
  BY <1>1, <1>2, <1>3, <1>4, TypeParts

LEMMA TypeStep == TypeOK /\ StageInv /\ [Next]_vars => TypeOK' /\ StageInv'
<1> SUFFICES ASSUME TypeOK, StageInv, [Next]_vars
             PROVE  TypeOK' /\ StageInv'
  OBVIOUS
<1>1. TablesOK /\ ProgressOK /\ HistoryOK
  BY TypeParts
<1>2. (TablesOK /\ ProgressOK /\ HistoryOK)' => TypeOK'
  BY DEF TypeOK, TablesOK, ProgressOK, HistoryOK
<1>3. ASSUME NEW r \in Requests, Step(r)
      PROVE  TablesOK' /\ ProgressOK' /\ StageInv'
  <2>1. \/ \/ ReadRow(r) \/ CheckSuspended(r) \/ CheckSubscription(r) \/ CheckManual(r)
           \/ BuildSnapshot(r) \/ ReadOverview(r) \/ LoadSubscriptionQuotas(r)
        \/ UpdateLimits(r) \/ ResetMinute(r) \/ SetEnabled(r) \/ UpdateOverride(r)
        \/ Close(r)
    BY <1>3 DEF Step, Answer, Cut
  <2> QED
    BY <1>1, <2>1, ReadTypes, WriteStageTypes, CloseTypes
<1>4. ASSUME Write
      PROVE  TablesOK' /\ ProgressOK' /\ StageInv'
  <2>1. UNCHANGED progress
    BY <1>4 DEF Write, CountUse, CountMinute, NextMinute, ResetUsage, SetCredentialLimited,
                SetSuspended, SettleSubscription, AssignSubscription, CreatePlan, UpdatePlan
  <2>2. ProgressOK' /\ StageInv'
    BY <1>1, <2>1 DEF progress, ProgressOK, StageInv, StageOf, RowRequest, OrgRequest
  <2> QED
    BY <1>1, <1>4, <2>2, WriteTypes
<1>5. CASE UNCHANGED vars
  BY <1>1, <1>5, <1>2 DEF vars, tables, credVars, orgVars, progress, history, TablesOK, ProgressOK,
      HistoryOK, StageInv, StageOf, RowRequest, OrgRequest
<1>6. CASE Next
  <2>1. TablesOK' /\ ProgressOK' /\ StageInv'
    BY <1>1, <1>3, <1>4, <1>6, AskTypes DEF Next
  <2> QED
    BY <1>1, <1>2, <1>6, <2>1, HistoryTypes
<1> QED
  BY <1>5, <1>6

(* Every table, request and history keeps its type; a subscription never   *)
(* refers to a plan that does not exist, whatever requests and changes     *)
(* overlap.                                                                *)
THEOREM TypeCorrect == Spec => []TypeOK
<1>1. Spec => [](TypeOK /\ StageInv)
  BY TypeInit, TypeStep, PTL DEF Spec
<1> QED
  BY <1>1, PTL

-----------------------------------------------------------------------------
(* Limits *)

(* UpdateLimits writes into a row what it records as named, and nothing    *)
(* else writes limits.                                                     *)
LEMMA LimitsStep == TypeOK /\ LimitsKept /\ [Next]_vars => LimitsKept'
<1> SUFFICES ASSUME TypeOK, LimitsKept, [Next]_vars, NEW c \in Creds, NEW k \in Limits
             PROVE  limit'[c][k] = named'[c][k]
  BY DEF LimitsKept
<1> USE DEF LimitsKept
<1>1. ASSUME NEW r \in Requests, UpdateLimits(r)
      PROVE  limit'[c][k] = named'[c][k]
  <2>1. CASE op[r].cred # c
    BY <1>1, <2>1 DEF UpdateLimits, TypeOK
  <2>2. CASE op[r].cred = c
    <3> DEFINE set == op[r].set
    <3>1. limit'[c][k] = IF k \in DOMAIN set THEN set[k] ELSE limit[c][k]
      BY <1>1, <2>2 DEF UpdateLimits, TypeOK
    <3>2. named'[c][k] = IF k \in DOMAIN set THEN set[k] ELSE named[c][k]
      BY <1>1, <2>2 DEF UpdateLimits, TypeOK
    <3> QED
      BY <3>1, <3>2
  <2> QED
    BY <2>1, <2>2
<1>2. CASE UNCHANGED <<limit, named>>
  BY <1>2
<1>3. ASSUME NEW r \in Requests, Step(r), ~UpdateLimits(r)
      PROVE  UNCHANGED <<limit, named>>
  BY <1>3 DEF Step, ReadRow, CheckSuspended, CheckSubscription, CheckManual, BuildSnapshot,
              ResetMinute, SetEnabled, UpdateOverride, ReadOverview, LoadSubscriptionQuotas,
              Answer, Cut, Close, tables, credVars
<1>4. ASSUME NEW r \in Requests, NEW o \in Asked, Ask(r, o)
      PROVE  UNCHANGED <<limit, named>>
  BY <1>4 DEF Ask, tables, credVars
<1>5. CASE Write
  BY <1>5 DEF Write, CountUse, CountMinute, NextMinute, ResetUsage, SetCredentialLimited,
              SetSuspended, SettleSubscription, AssignSubscription, CreatePlan, UpdatePlan, credVars
<1>6. CASE UNCHANGED vars
  BY <1>6 DEF vars, tables, credVars
<1> QED
  BY <1>1, <1>2, <1>3, <1>4, <1>5, <1>6 DEF Next

(* Whatever requests overlap, each limit has the value that the last       *)
(* request to name it gave.                                                *)
THEOREM LimitsAreKept == Spec => []LimitsKept
<1>1. Init => LimitsKept
  BY DEF Init, LimitsKept
<1> QED
  BY <1>1, LimitsStep, TypeCorrect, PTL DEF Spec

-----------------------------------------------------------------------------
(* Answers                                                                 *)
(*                                                                         *)
(* AnswersHold is about the end of a request.  The invariant says what the *)
(* parts that a request has read by then are worth: what a row shows has   *)
(* been so since the request came in, and what has been so all the time,   *)
(* the row shows; its minute limit is the current one unless that moved,   *)
(* and likewise for what an overview has summed.                           *)

Open(r) == op[r] # NoOp

Witnessed(r) == Open(r) => About(op[r]) \subseteq ever[r] /\ always[r] \subseteq About(op[r])

NothingYet(r) ==
    pc[r] \in {"idle", "row", "update", "override", "overview"} => reported[r] = {}

ReportsWitnessed(r) == reported[r] \ moved[r] \subseteq ever[r]

RowStages == {"suspended", "subscription", "manual", "update", "reset", "enable", "minute"}

RowReasons == Stored \cup {"disabled"}

RowShows(r) ==
    {k \in Stored : Exceeds(row[r].limit[k], row[r].used[k])}
    \cup {k \in {"disabled"} : ~row[r].enabled}

RowWitnessed(r) ==
    pc[r] \in RowStages =>
        /\ RowShows(r) \subseteq ever[r]
        /\ always[r] \cap RowReasons \subseteq RowShows(r)
        /\ "per_minute" \notin moved[r] =>
               row[r].limit["per_minute"] = limit[op[r].cred]["per_minute"]

SumWitnessed(r) ==
    pc[r] = "plan" /\ "daily_limited" \notin moved[r] =>
        LET found == Exceeds(SubscriptionQuota, AcceptedToday(row[r].used))
        IN  /\ found => "daily_limited" \in ever[r]
            /\ "daily_limited" \in always[r] => found

ListRead(r) == pc[r] = "minute" /\ op[r].kind = "list"

FoundSoFar(r) ==
    /\ pc[r] \in {"subscription", "manual"} \/ ListRead(r) =>
           always[r] \cap {"organization_suspended"} \subseteq reported[r]
    /\ pc[r] = "manual" \/ ListRead(r) => always[r] \cap {"subscription"} \subseteq reported[r]
    /\ ListRead(r) => always[r] \cap {"manual_limit"} \subseteq reported[r] \cup failed[r]

Excepted(r) == moved[r] \cup failed[r] \cup (IF "disabled" \in reported[r] THEN Limits ELSE {})

FoundAll(r) ==
    pc[r] = "answered" => (always[r] \cap Covered(op[r])) \ Excepted(r) \subseteq reported[r]

AnswerOf(r) ==
    /\ Witnessed(r)
    /\ NothingYet(r)
    /\ ReportsWitnessed(r)
    /\ RowWitnessed(r)
    /\ SumWitnessed(r)
    /\ FoundSoFar(r)
    /\ FoundAll(r)

AnswerInv == \A r \in Requests : AnswerOf(r)

LEMMA AnswerInvSuffices == AnswerInv => AnswersHold
  BY DEF AnswerInv, AnswerOf, ReportsWitnessed, FoundAll, Excepted, AnswersHold

(* What Observe does for a request that is, or has just come to be, open   *)
LEMMA OpenObserved ==
    ASSUME Next, NEW r \in Requests, op'[r] # NoOp
    PROVE  /\ Witnessed(r)'
           /\ ever[r] \subseteq ever'[r]
           /\ op[r] # NoOp => always'[r] \subseteq always[r]
           /\ ~(pc[r] \in {"row", "update", "overview"} /\ pc'[r] # pc[r]) =>
                  /\ moved[r] \subseteq moved'[r]
                  /\ AboutOrg(op'[r]) /\ SubscriptionQuota' # SubscriptionQuota =>
                         "daily_limited" \in moved'[r]
                  /\ ~AboutOrg(op'[r])
                         /\ limit'[op'[r].cred]["per_minute"] # limit[op'[r].cred]["per_minute"] =>
                         "per_minute" \in moved'[r]
<1>1. /\ ever'[r] = ever[r] \cup About(op[r])'
      /\ always'[r] = IF op[r] = NoOp THEN About(op[r])' ELSE always[r] \cap About(op[r])'
  BY DEF Next, Observe
<1>2. Witnessed(r)'
  BY <1>1 DEF Witnessed
<1>3. ASSUME ~(pc[r] \in {"row", "update", "overview"} /\ pc'[r] # pc[r])
      PROVE  moved'[r] = moved[r] \cup
                 (IF AboutOrg(op'[r])
                  THEN {k \in {"daily_limited"} : SubscriptionQuota' # SubscriptionQuota}
                  ELSE {k \in {"per_minute"} :
                            limit'[op'[r].cred][k] # limit[op'[r].cred][k]})
  BY <1>3 DEF Next, Observe
<1> QED
  BY <1>1, <1>2, <1>3

LEMMA ClosedObserved ==
    ASSUME Next, NEW r \in Requests, op'[r] = NoOp
    PROVE  ever'[r] = {} /\ always'[r] = {} /\ moved'[r] = {}
  BY DEF Next, Observe

(* A request that rests while another one, or another writer, takes a step *)
LEMMA RestingKeeps ==
    ASSUME TypeOK, StageInv, AnswerInv, Next, NEW r \in Requests,
           op'[r] = op[r], pc'[r] = pc[r], row'[r] = row[r],
           reported'[r] = reported[r], failed'[r] = failed[r]
    PROVE  AnswerOf(r)'
<1>1. AnswerOf(r) /\ StageOf(r)
  BY DEF AnswerInv, StageInv
<1>2. CASE op[r] = NoOp
  <2>1. pc[r] = "idle" /\ reported[r] = {}
    BY <1>1, <1>2 DEF AnswerOf, StageOf, NothingYet
  <2>2. ever'[r] = {} /\ always'[r] = {} /\ moved'[r] = {}
    BY <1>2, ClosedObserved
  <2> QED
    BY <1>2, <2>1, <2>2 DEF AnswerOf, Witnessed, Open, NothingYet, ReportsWitnessed, RowWitnessed,
        RowStages, SumWitnessed, FoundSoFar, ListRead, FoundAll
<1>3. CASE op[r] # NoOp
  <2>1. /\ Witnessed(r)'
        /\ ever[r] \subseteq ever'[r]
        /\ always'[r] \subseteq always[r]
        /\ moved[r] \subseteq moved'[r]
        /\ AboutOrg(op[r]) /\ SubscriptionQuota' # SubscriptionQuota =>
               "daily_limited" \in moved'[r]
        /\ ~AboutOrg(op[r])
               /\ limit'[op[r].cred]["per_minute"] # limit[op[r].cred]["per_minute"] =>
               "per_minute" \in moved'[r]
    BY <1>3, OpenObserved
  <2>2. NothingYet(r)' /\ ReportsWitnessed(r)' /\ FoundSoFar(r)'
    BY <1>1, <2>1 DEF AnswerOf, NothingYet, ReportsWitnessed, FoundSoFar, ListRead
  <2>3. RowWitnessed(r)'
    <3>1. pc[r] \in RowStages => ~AboutOrg(op[r])
      BY <1>1 DEF StageOf, RowStages, RowRequest, AboutOrg
    <3> QED
      BY <1>1, <2>1, <3>1 DEF AnswerOf, RowWitnessed, RowShows
  <2>4. SumWitnessed(r)'
    <3> DEFINE found == Exceeds(SubscriptionQuota, AcceptedToday(row[r].used))
    <3>1. pc[r] = "plan" => AboutOrg(op[r])
      BY <1>1 DEF StageOf, OrgRequest, AboutOrg
    <3>2. SubscriptionQuota' = SubscriptionQuota => found' = found
      OBVIOUS
    <3> HIDE DEF found
    <3>3. pc[r] = "plan" /\ "daily_limited" \notin moved'[r] =>
              /\ found' = found
              /\ found => "daily_limited" \in ever[r]
              /\ "daily_limited" \in always[r] => found
      BY <1>1, <2>1, <3>1, <3>2 DEF AnswerOf, SumWitnessed, found
    <3>4. pc[r] = "plan" /\ "daily_limited" \notin moved'[r] =>
              /\ found' => "daily_limited" \in ever'[r]
              /\ "daily_limited" \in always'[r] => found'
      BY <2>1, <3>3
    <3> QED
      BY <3>4 DEF SumWitnessed, found
  <2>5. FoundAll(r)'
    BY <1>1, <2>1 DEF AnswerOf, FoundAll, Excepted
  <2> QED
    BY <2>1, <2>2, <2>3, <2>4, <2>5 DEF AnswerOf
<1> QED
  BY <1>2, <1>3

(* What a step of r that writes no table sees when it is observed          *)
LEMMA ReadObserved ==
    ASSUME StageInv, AnswerInv, Next, NEW r \in Requests, UNCHANGED tables, op' = op, pc[r] # "idle"
    PROVE  /\ Witnessed(r)'
           /\ About(op[r]) \subseteq ever'[r]
           /\ always'[r] \subseteq About(op[r])
           /\ ever[r] \subseteq ever'[r]
           /\ always'[r] \subseteq always[r]
           /\ pc[r] \notin {"row", "update", "overview"} => moved[r] \subseteq moved'[r]
<1>1. op'[r] # NoOp /\ op[r] # NoOp
  BY DEF StageInv, StageOf
<1>2. About(op[r])' = About(op[r])
  BY DEF About, AboutOrg, Holding, OrgHolding, SubscriptionQuota, tables, credVars, orgVars
<1>3. Witnessed(r)' => About(op[r])' \subseteq ever'[r] /\ always'[r] \subseteq About(op[r])'
  BY <1>1 DEF Witnessed, Open
<1> QED
  BY <1>1, <1>2, <1>3, OpenObserved

LEMMA HoldingIs ==
    ASSUME NEW c \in Creds, NEW k
    PROVE  /\ k \in Stored => (k \in Holding(c) <=> Exceeds(limit[c][k], used[c][k]))
           /\ "per_minute" \in Holding(c) <=> Exceeds(limit[c]["per_minute"], minute[c])
           /\ "disabled" \in Holding(c) <=> ~enabled[c]
           /\ "organization_suspended" \in Holding(c) <=> suspended
           /\ "subscription" \in Holding(c) <=> restricted
           /\ "manual_limit" \in Holding(c) <=> manual[c]
           /\ "daily_limited" \notin Holding(c)
  BY StoredAssumption DEF Holding, Exceeds

LEMMA AskAnswers ==
    ASSUME TypeOK, StageInv, AnswerInv, Next, NEW r \in Requests, NEW o \in Asked, Ask(r, o)
    PROVE  AnswerOf(r)'
<1>1. op'[r] = o /\ o # NoOp /\ pc[r] = "idle" /\ reported'[r] = reported[r]
  BY AskedKinds DEF Ask, TypeOK
<1>2. pc'[r] \in {"row", "override", "overview"}
  BY AskedKinds DEF Ask, GoTo, AboutOrg, TypeOK
<1>3. Witnessed(r)'
  BY <1>1, OpenObserved
<1>4. reported'[r] = {}
  BY <1>1 DEF AnswerInv, AnswerOf, NothingYet
<1> QED
  BY <1>2, <1>3, <1>4 DEF AnswerOf, NothingYet, ReportsWitnessed, RowWitnessed, RowStages,
      SumWitnessed, FoundSoFar, ListRead, FoundAll

LEMMA CloseAnswers ==
    ASSUME TypeOK, Next, NEW r \in Requests, Close(r)
    PROVE  AnswerOf(r)'
<1>1. op'[r] = NoOp /\ pc'[r] = "idle" /\ reported'[r] = {}
  BY DEF Close, GoTo, TypeOK
<1>2. ever'[r] = {} /\ always'[r] = {} /\ moved'[r] = {}
  BY <1>1, ClosedObserved
<1> QED
  BY <1>1, <1>2 DEF AnswerOf, Witnessed, Open, NothingYet, ReportsWitnessed, RowWitnessed, RowStages,
      SumWitnessed, FoundSoFar, ListRead, FoundAll

LEMMA ReadRowAnswers ==
    ASSUME TypeOK, StageInv, AnswerInv, Next, NEW r \in Requests, ReadRow(r)
    PROVE  AnswerOf(r)'
<1> DEFINE c == op[r].cred
<1>1. StageOf(r) /\ AnswerOf(r)
  BY DEF StageInv, AnswerInv
<1>2. /\ pc[r] = "row" /\ RowRequest(r)
      /\ UNCHANGED tables /\ op' = op /\ reported'[r] = {}
      /\ pc'[r] \in {"suspended", "update", "enable"}
      /\ row'[r].enabled = enabled[c] /\ row'[r].limit = limit[c] /\ row'[r].used = used[c]
  BY <1>1 DEF ReadRow, GoTo, TypeOK, StageOf, AnswerOf, NothingYet
<1>3. c \in Creds /\ About(op[r]) = Holding(c)
  BY <1>2 DEF RowRequest, About, AboutOrg
<1>4. /\ Witnessed(r)'
      /\ Holding(c) \subseteq ever'[r] /\ always'[r] \subseteq Holding(c)
  BY <1>2, <1>3, ReadObserved
<1>5. RowShows(r)' = Holding(c) \cap RowReasons
  <2>1. \A k \in Stored : k \in RowShows(r)' <=> k \in Holding(c)
    BY <1>2, <1>3, StoredAssumption, HoldingIs DEF RowShows
  <2>2. "disabled" \in RowShows(r)' <=> "disabled" \in Holding(c)
    BY <1>2, <1>3, StoredAssumption, HoldingIs DEF RowShows
  <2>3. RowShows(r)' \subseteq RowReasons
    BY DEF RowShows, RowReasons
  <2> QED
    BY <2>1, <2>2, <2>3 DEF RowReasons
<1>6. RowWitnessed(r)'
  BY <1>2, <1>4, <1>5 DEF RowWitnessed, tables, credVars
<1> QED
  BY <1>2, <1>4, <1>6 DEF AnswerOf, NothingYet, ReportsWitnessed, SumWitnessed, FoundSoFar,
      ListRead, FoundAll

LEMMA CheckAnswers ==
    ASSUME TypeOK, StageInv, AnswerInv, Next, NEW r \in Requests,
           CheckSuspended(r) \/ CheckSubscription(r) \/ CheckManual(r)
    PROVE  AnswerOf(r)'
<1> DEFINE c == op[r].cred
<1>1. StageOf(r) /\ AnswerOf(r)
  BY DEF StageInv, AnswerInv
<1>2. /\ pc[r] \in {"suspended", "subscription", "manual"}
      /\ op[r].kind = "list" /\ c \in Creds
      /\ UNCHANGED tables /\ op' = op /\ row' = row
      /\ pc'[r] \in {"subscription", "manual", "minute"}
  BY <1>1 DEF CheckSuspended, CheckSubscription, CheckManual, GoTo, TypeOK, StageOf
<1>3. About(op[r]) = Holding(c)
  BY <1>2 DEF About, AboutOrg
<1>4. /\ Witnessed(r)'
      /\ Holding(c) \subseteq ever'[r] /\ always'[r] \subseteq Holding(c)
      /\ ever[r] \subseteq ever'[r] /\ always'[r] \subseteq always[r] /\ moved[r] \subseteq moved'[r]
  BY <1>2, <1>3, ReadObserved
<1>5. /\ reported[r] \subseteq reported'[r] /\ failed[r] \subseteq failed'[r]
      /\ reported'[r] \subseteq reported[r] \cup Holding(c)
      /\ pc[r] = "suspended" =>
             pc'[r] = "subscription" /\ Holding(c) \cap {"organization_suspended"} \subseteq reported'[r]
      /\ pc[r] = "subscription" =>
             pc'[r] = "manual" /\ Holding(c) \cap {"subscription"} \subseteq reported'[r]
      /\ pc[r] = "manual" =>
             pc'[r] = "minute" /\ Holding(c) \cap {"manual_limit"} \subseteq reported'[r] \cup failed'[r]
  BY <1>2, HoldingIs DEF CheckSuspended, CheckSubscription, CheckManual, GoTo, Report, TypeOK
<1>6. ReportsWitnessed(r)'
  BY <1>1, <1>4, <1>5 DEF AnswerOf, ReportsWitnessed
<1>7. RowWitnessed(r)'
  BY <1>1, <1>2, <1>4 DEF AnswerOf, RowWitnessed, RowStages, RowShows, tables, credVars
<1>8. FoundSoFar(r)'
  BY <1>1, <1>2, <1>4, <1>5 DEF AnswerOf, FoundSoFar, ListRead
<1> QED
  BY <1>2, <1>4, <1>6, <1>7, <1>8 DEF AnswerOf, NothingYet, SumWitnessed, FoundAll

(* Here the row and the minute counter become the answer.  Uses counted in *)
(* Redis are never negative, so that a limit which even 0 exceeds holds.   *)
LEMMA SnapshotAnswers ==
    ASSUME TypeOK, StageInv, AnswerInv, Next, NEW r \in Requests, BuildSnapshot(r)
    PROVE  AnswerOf(r)'
<1> DEFINE c == op[r].cred
<1>1. StageOf(r) /\ AnswerOf(r)
  BY DEF StageInv, AnswerInv
<1>2. /\ pc[r] = "minute" /\ RowRequest(r) /\ row[r] \in Row
      /\ UNCHANGED tables /\ op' = op /\ pc'[r] = "answered"
  BY <1>1 DEF BuildSnapshot, GoTo, TypeOK, StageOf
<1>3. c \in Creds /\ About(op[r]) = Holding(c) /\ ~AboutOrg(op[r])
  BY <1>2 DEF RowRequest, About, AboutOrg
<1>4. /\ Witnessed(r)'
      /\ Holding(c) \subseteq ever'[r] /\ always'[r] \subseteq Holding(c)
      /\ ever[r] \subseteq ever'[r] /\ always'[r] \subseteq always[r] /\ moved[r] \subseteq moved'[r]
  BY <1>2, <1>3, ReadObserved
<1>5. PICK n \in {0, minute[c]} :
          /\ reported'[r] = reported[r] \cup DerivedStatus(r, n)
          /\ n = minute[c] \/ "per_minute" \in failed'[r]
          /\ failed[r] \subseteq failed'[r]
  BY DEF BuildSnapshot, Report, TypeOK
<1>6. /\ RowShows(r) \subseteq ever'[r]
      /\ always'[r] \cap RowReasons \subseteq RowShows(r)
      /\ "per_minute" \notin moved'[r] => row[r].limit["per_minute"] = limit[c]["per_minute"]
  BY <1>1, <1>2, <1>4 DEF AnswerOf, RowWitnessed, RowStages
<1>7. "disabled" \notin Stored /\ "per_minute" \notin Stored
  BY StoredAssumption
<1>8. Exceeds(limit[c]["per_minute"], n) => Exceeds(limit[c]["per_minute"], minute[c])
  <2> DEFINE l == limit[c]["per_minute"]
  <2>1. minute[c] \in Nat /\ l \in Quota
    BY <1>3, BoundsAssumption DEF TypeOK, Limits
  <2> HIDE DEF l
  <2>2. CASE l = Null
    BY <2>2 DEF Exceeds, l
  <2>3. CASE l \in Nat
    <3>1. n >= l => minute[c] >= l
      BY <2>1, <2>3
    <3> QED
      BY <3>1 DEF Exceeds, l
  <2> QED
    BY <2>1, <2>2, <2>3, ValuesAssumption DEF Quota
<1>9. ReportsWitnessed(r)'
  <2> SUFFICES ASSUME NEW k \in DerivedStatus(r, n), k \notin moved'[r]
               PROVE  k \in ever'[r]
    BY <1>1, <1>4, <1>5 DEF AnswerOf, ReportsWitnessed
  <2>1. CASE k = "disabled" \/ k \in Stored
    <3>1. k \in RowShows(r)
      BY <1>7, <2>1 DEF DerivedStatus, RowShows
    <3> QED
      BY <1>6, <3>1
  <2>2. CASE k = "per_minute"
    BY <1>3, <1>4, <1>6, <1>7, <1>8, <2>2, HoldingIs DEF DerivedStatus
  <2> QED
    BY <2>1, <2>2 DEF DerivedStatus
<1>10. FoundAll(r)'
  <2> SUFFICES ASSUME NEW k \in always'[r], k \in Covered(op[r]), k \notin moved'[r], k \notin failed'[r],
                      "disabled" \in reported'[r] => k \notin Limits
               PROVE  k \in reported'[r]
    BY <1>2 DEF FoundAll, Excepted
  <2>1. CASE k = "disabled"
    BY <1>5, <1>6, <1>7, <2>1 DEF DerivedStatus, RowShows, RowReasons
  <2>2. CASE k \in Limits
    <3>1. row[r].enabled
      BY <1>5, <2>2 DEF DerivedStatus
    <3>2. CASE k \in Stored
      BY <1>5, <1>6, <1>7, <3>1, <3>2 DEF DerivedStatus, RowShows, RowReasons
    <3>3. CASE k = "per_minute"
      BY <1>3, <1>4, <1>5, <1>6, <3>1, <3>3, HoldingIs DEF DerivedStatus
    <3> QED
      BY <2>2, <3>2, <3>3 DEF Limits
  <2>3. CASE k \in {"organization_suspended", "subscription", "manual_limit"}
    <3>1. op[r].kind = "list"
      BY <1>2, <1>3, <2>3, StoredAssumption DEF Covered, Limits
    <3> QED
      BY <1>1, <1>2, <1>4, <1>5, <2>3, <3>1 DEF AnswerOf, FoundSoFar, ListRead
  <2>4. CASE k = "daily_limited"
    BY <1>3, <1>4, <2>4, HoldingIs
  <2> QED
    BY <1>3, <2>1, <2>2, <2>3, <2>4 DEF Covered, Reasons
<1> QED
  BY <1>2, <1>4, <1>9, <1>10 DEF AnswerOf, NothingYet, RowWitnessed, RowStages, SumWitnessed,
      FoundSoFar, ListRead

LEMMA UpdateLimitsAnswers ==
    ASSUME TypeOK, StageInv, AnswerInv, Next, NEW r \in Requests, UpdateLimits(r)
    PROVE  AnswerOf(r)'
<1> DEFINE c == op[r].cred
<1>1. StageOf(r) /\ AnswerOf(r)
  BY DEF StageInv, AnswerInv
<1>2. /\ pc[r] = "update" /\ op[r].kind = "limits" /\ c \in Creds /\ row[r] \in Row
      /\ op' = op /\ reported'[r] = {} /\ pc'[r] \in {"reset", "minute"} /\ op[r] # NoOp
  BY <1>1 DEF UpdateLimits, GoTo, TypeOK, StageOf, AnswerOf, NothingYet
<1>3. row'[r].enabled = row[r].enabled /\ row'[r].limit = limit'[c] /\ row'[r].used = used'[c]
  BY <1>2 DEF UpdateLimits, TypeOK, Row
<1>4. /\ Witnessed(r)'
      /\ ever[r] \subseteq ever'[r] /\ always'[r] \subseteq always[r]
  BY <1>2, OpenObserved
<1>5. Holding(c)' \subseteq ever'[r] /\ always'[r] \subseteq Holding(c)'
  BY <1>2, <1>4 DEF Witnessed, Open, About, AboutOrg
<1>6. RowShows(r)' = (RowShows(r) \cap {"disabled"}) \cup (Holding(c)' \cap Stored)
  <2>1. \A k \in Stored : k \in RowShows(r)' <=> k \in Holding(c)'
    BY <1>2, <1>3, StoredAssumption DEF RowShows, Holding, Exceeds
  <2>2. "disabled" \in RowShows(r)' <=> "disabled" \in RowShows(r)
    BY <1>3, StoredAssumption DEF RowShows
  <2>3. RowShows(r)' \subseteq RowReasons /\ "disabled" \notin Stored
    BY StoredAssumption DEF RowShows, RowReasons
  <2> QED
    BY <2>1, <2>2, <2>3 DEF RowReasons
<1>7. RowShows(r) \subseteq ever[r] /\ always[r] \cap RowReasons \subseteq RowShows(r)
  BY <1>1, <1>2 DEF AnswerOf, RowWitnessed, RowStages
<1>8. RowWitnessed(r)'
  <2>1. RowShows(r)' \subseteq ever'[r] /\ always'[r] \cap RowReasons \subseteq RowShows(r)'
    BY <1>4, <1>5, <1>6, <1>7 DEF RowReasons
  <2> QED
    BY <1>2, <1>3, <2>1 DEF RowWitnessed, RowReasons
<1> QED
  BY <1>2, <1>4, <1>8 DEF AnswerOf, NothingYet, ReportsWitnessed, SumWitnessed, FoundSoFar,
      ListRead, FoundAll

LEMMA ResetMinuteAnswers ==
    ASSUME TypeOK, StageInv, AnswerInv, Next, NEW r \in Requests, ResetMinute(r)
    PROVE  AnswerOf(r)'
<1>1. StageOf(r) /\ AnswerOf(r)
  BY DEF StageInv, AnswerInv
<1>2. /\ pc[r] = "reset" /\ op[r].kind = "limits" /\ op[r] # NoOp
      /\ op' = op /\ row' = row /\ reported' = reported /\ limit' = limit /\ pc'[r] = "minute"
  BY <1>1 DEF ResetMinute, GoTo, TypeOK, StageOf, credVars
<1>3. /\ Witnessed(r)'
      /\ ever[r] \subseteq ever'[r] /\ always'[r] \subseteq always[r] /\ moved[r] \subseteq moved'[r]
  BY <1>2, OpenObserved
<1>4. ReportsWitnessed(r)'
  BY <1>1, <1>2, <1>3 DEF AnswerOf, ReportsWitnessed
<1>5. RowWitnessed(r)'
  BY <1>1, <1>2, <1>3 DEF AnswerOf, RowWitnessed, RowStages, RowShows
<1> QED
  BY <1>2, <1>3, <1>4, <1>5 DEF AnswerOf, NothingYet, SumWitnessed, FoundSoFar, ListRead, FoundAll

LEMMA SetEnabledAnswers ==
    ASSUME TypeOK, StageInv, AnswerInv, Next, NEW r \in Requests, SetEnabled(r)
    PROVE  AnswerOf(r)'
<1> DEFINE c == op[r].cred
<1>1. StageOf(r) /\ AnswerOf(r)
  BY DEF StageInv, AnswerInv
<1>2. /\ pc[r] = "enable" /\ op[r].kind \in {"enable", "disable"} /\ c \in Creds /\ op[r] # NoOp
      /\ op' = op /\ reported' = reported /\ limit' = limit /\ pc'[r] = "minute"
  BY <1>1 DEF SetEnabled, GoTo, TypeOK, StageOf
<1>3. /\ row'[r].enabled = enabled'[c]
      /\ row'[r].limit = row[r].limit /\ row'[r].used = row[r].used
  BY <1>1, <1>2 DEF SetEnabled, TypeOK, StageOf, Row
<1>4. /\ Witnessed(r)'
      /\ ever[r] \subseteq ever'[r] /\ always'[r] \subseteq always[r] /\ moved[r] \subseteq moved'[r]
  BY <1>2, OpenObserved
<1>5. Holding(c)' \subseteq ever'[r] /\ always'[r] \subseteq Holding(c)'
  BY <1>2, <1>4 DEF Witnessed, Open, About, AboutOrg
<1>6. RowShows(r)' = (RowShows(r) \cap Stored) \cup (Holding(c)' \cap {"disabled"})
  <2>1. \A k \in Stored : k \in RowShows(r)' <=> k \in RowShows(r)
    BY <1>3, StoredAssumption DEF RowShows, Exceeds
  <2>2. "disabled" \in RowShows(r)' <=> "disabled" \in Holding(c)'
    BY <1>2, <1>3, StoredAssumption DEF RowShows, Holding
  <2>3. RowShows(r)' \subseteq RowReasons /\ "disabled" \notin Stored
    BY StoredAssumption DEF RowShows, RowReasons
  <2> QED
    BY <2>1, <2>2, <2>3 DEF RowReasons
<1>7. /\ RowShows(r) \subseteq ever[r] /\ always[r] \cap RowReasons \subseteq RowShows(r)
      /\ "per_minute" \notin moved[r] => row[r].limit["per_minute"] = limit[c]["per_minute"]
  BY <1>1, <1>2 DEF AnswerOf, RowWitnessed, RowStages
<1>8. RowWitnessed(r)'
  <2>1. RowShows(r)' \subseteq ever'[r] /\ always'[r] \cap RowReasons \subseteq RowShows(r)'
    BY <1>4, <1>5, <1>6, <1>7 DEF RowReasons
  <2> QED
    BY <1>2, <1>3, <1>4, <1>7, <2>1 DEF RowWitnessed, RowReasons
<1>9. ReportsWitnessed(r)'
  BY <1>1, <1>2, <1>4 DEF AnswerOf, ReportsWitnessed
<1> QED
  BY <1>2, <1>4, <1>8, <1>9 DEF AnswerOf, NothingYet, SumWitnessed, FoundSoFar, ListRead, FoundAll

LEMMA UpdateOverrideAnswers ==
    ASSUME TypeOK, StageInv, AnswerInv, Next, NEW r \in Requests, UpdateOverride(r)
    PROVE  AnswerOf(r)'
<1>1. StageOf(r) /\ AnswerOf(r)
  BY DEF StageInv, AnswerInv
<1>2. op' = op /\ op[r] # NoOp /\ reported'[r] = {} /\ pc'[r] = "overview"
  BY <1>1 DEF UpdateOverride, GoTo, TypeOK, StageOf, AnswerOf, NothingYet
<1>3. Witnessed(r)'
  BY <1>2, OpenObserved
<1> QED
  BY <1>2, <1>3 DEF AnswerOf, NothingYet, ReportsWitnessed, RowWitnessed, RowStages, SumWitnessed,
      FoundSoFar, ListRead, FoundAll

LEMMA OrgHoldingIs ==
    "daily_limited" \in OrgHolding <=>
        Exceeds(IF override # Null THEN override ELSE SubscriptionQuota, AcceptedToday(used))
  BY DEF OrgHolding, Exceeds

LEMMA ReadOverviewAnswers ==
    ASSUME TypeOK, StageInv, AnswerInv, Next, NEW r \in Requests, ReadOverview(r)
    PROVE  AnswerOf(r)'
<1>1. StageOf(r) /\ AnswerOf(r)
  BY DEF StageInv, AnswerInv
<1>2. /\ pc[r] = "overview" /\ OrgRequest(r) /\ reported[r] = {}
      /\ UNCHANGED tables /\ op' = op /\ row'[r].used = used
  BY <1>1 DEF ReadOverview, TypeOK, StageOf, AnswerOf, NothingYet
<1>3. About(op[r]) = OrgHolding /\ Covered(op[r]) = {"daily_limited"}
  BY <1>2 DEF OrgRequest, About, AboutOrg, Covered
<1>4. /\ Witnessed(r)'
      /\ OrgHolding \subseteq ever'[r] /\ always'[r] \subseteq OrgHolding
  BY <1>2, <1>3, ReadObserved
<1>5. CASE override = Null
  <2>1. pc'[r] = "plan" /\ reported'[r] = {}
    BY <1>2, <1>5 DEF ReadOverview, GoTo, TypeOK
  <2> DEFINE found == Exceeds(SubscriptionQuota, AcceptedToday(row[r].used))
  <2>2. found' <=> Exceeds(SubscriptionQuota, AcceptedToday(used))
    <3>1. SubscriptionQuota' = SubscriptionQuota
      BY <1>2 DEF SubscriptionQuota, tables, orgVars
    <3>2. found' <=> Exceeds(SubscriptionQuota', AcceptedToday(row'[r].used))
      OBVIOUS
    <3> QED
      BY <1>2, <3>1, <3>2
  <2> HIDE DEF found
  <2>3. found' <=> "daily_limited" \in OrgHolding
    BY <1>5, <2>2, OrgHoldingIs
  <2>4. SumWitnessed(r)'
    BY <1>4, <2>3 DEF SumWitnessed, found
  <2> QED
    BY <1>4, <2>1, <2>4 DEF AnswerOf, NothingYet, ReportsWitnessed, RowWitnessed, RowStages,
        FoundSoFar, ListRead, FoundAll
<1>6. CASE override # Null
  <2>1. pc'[r] = "answered" /\ reported'[r] = OverviewStatus(override, used)
    BY <1>2, <1>6 DEF ReadOverview, GoTo, Report, TypeOK
  <2>2. OverviewStatus(override, used) = OrgHolding
    BY <1>6 DEF OverviewStatus, OrgHolding, Exceeds
  <2>3. ReportsWitnessed(r)' /\ FoundAll(r)'
    BY <1>4, <2>1, <2>2 DEF ReportsWitnessed, FoundAll
  <2> QED
    BY <1>4, <2>1, <2>3 DEF AnswerOf, NothingYet, RowWitnessed, RowStages, SumWitnessed,
        FoundSoFar, ListRead
<1> QED
  BY <1>5, <1>6

LEMMA LoadQuotasAnswers ==
    ASSUME TypeOK, StageInv, AnswerInv, Next, NEW r \in Requests, LoadSubscriptionQuotas(r)
    PROVE  AnswerOf(r)'
<1> DEFINE found == Exceeds(SubscriptionQuota, AcceptedToday(row[r].used))
<1>1. StageOf(r) /\ AnswerOf(r)
  BY DEF StageInv, AnswerInv
<1>2. /\ pc[r] = "plan" /\ OrgRequest(r) /\ UNCHANGED tables /\ op' = op /\ pc'[r] = "answered"
  BY <1>1 DEF LoadSubscriptionQuotas, GoTo, TypeOK, StageOf
<1>3. \/ /\ reported'[r] = reported[r] \cup {k \in {"daily_limited"} : found}
         /\ failed'[r] = failed[r]
      \/ reported'[r] = reported[r] /\ "daily_limited" \in failed'[r]
  BY DEF LoadSubscriptionQuotas, Report, OverviewStatus, TypeOK
<1>4. /\ Witnessed(r)'
      /\ ever[r] \subseteq ever'[r] /\ always'[r] \subseteq always[r] /\ moved[r] \subseteq moved'[r]
  BY <1>2, ReadObserved
<1>5. "daily_limited" \notin moved'[r] =>
          /\ found => "daily_limited" \in ever'[r]
          /\ "daily_limited" \in always'[r] => found
  BY <1>1, <1>2, <1>4 DEF AnswerOf, SumWitnessed
<1> HIDE DEF found
<1>6. Covered(op[r]) = {"daily_limited"}
  BY <1>2 DEF OrgRequest, AboutOrg, Covered
<1>7. ReportsWitnessed(r)'
  BY <1>1, <1>3, <1>4, <1>5 DEF AnswerOf, ReportsWitnessed
<1>8. FoundAll(r)'
  BY <1>2, <1>3, <1>5, <1>6 DEF FoundAll, Excepted
<1> QED
  BY <1>2, <1>4, <1>7, <1>8 DEF AnswerOf, NothingYet, RowWitnessed, RowStages, SumWitnessed,
      FoundSoFar, ListRead

LEMMA AnswerInit == Init => AnswerInv
  BY DEF Init, AnswerInv, AnswerOf, Witnessed, Open, NothingYet, ReportsWitnessed, RowWitnessed,
      RowStages, SumWitnessed, FoundSoFar, ListRead, FoundAll

(* A step of one request leaves the others, and a write leaves all, where  *)
(* they were.                                                              *)
LEMMA OthersRest ==
    ASSUME TypeOK, StageInv, AnswerInv, Next, NEW r \in Requests,
           Step(r) \/ (\E o \in Asked : Ask(r, o)), NEW q \in Requests, q # r
    PROVE  AnswerOf(q)'
<1>1. /\ op'[q] = op[q] /\ pc'[q] = pc[q] /\ row'[q] = row[q]
      /\ reported'[q] = reported[q] /\ failed'[q] = failed[q]
  BY DEF Step, Ask, ReadRow, CheckSuspended, CheckSubscription, CheckManual, BuildSnapshot,
      UpdateLimits, ResetMinute, SetEnabled, UpdateOverride, ReadOverview,
      LoadSubscriptionQuotas, Answer, Cut, Close, GoTo, Report, TypeOK
<1> QED
  BY <1>1, RestingKeeps

LEMMA AnswerStep == TypeOK /\ StageInv /\ AnswerInv /\ [Next]_vars => AnswerInv'
<1> SUFFICES ASSUME TypeOK, StageInv, AnswerInv, [Next]_vars, NEW q \in Requests
             PROVE  AnswerOf(q)'
  BY DEF AnswerInv
<1>1. CASE Next
  <2>1. ASSUME NEW r \in Requests, Step(r) \/ (\E o \in Asked : Ask(r, o))
        PROVE  AnswerOf(q)'
    <3>1. CASE q # r
      BY <1>1, <2>1, <3>1, OthersRest
    <3>2. CASE q = r /\ Step(r)
      BY <1>1, <3>2, ReadRowAnswers, CheckAnswers, SnapshotAnswers, UpdateLimitsAnswers,
         ResetMinuteAnswers, SetEnabledAnswers, UpdateOverrideAnswers, ReadOverviewAnswers,
         LoadQuotasAnswers, CloseAnswers DEF Step, Answer, Cut
    <3>3. CASE q = r /\ (\E o \in Asked : Ask(r, o))
      BY <1>1, <3>3, AskAnswers
    <3> QED
      BY <2>1, <3>1, <3>2, <3>3
  <2>2. CASE Write
    <3>1. UNCHANGED progress
      BY <2>2 DEF Write, CountUse, CountMinute, NextMinute, ResetUsage, SetCredentialLimited,
                  SetSuspended, SettleSubscription, AssignSubscription, CreatePlan, UpdatePlan
    <3> QED
      BY <1>1, <3>1, RestingKeeps DEF progress
  <2> QED
    BY <1>1, <2>1, <2>2 DEF Next
<1>2. CASE UNCHANGED vars
  <2>1. AnswerOf(q)
    BY DEF AnswerInv
  <2>2. UNCHANGED <<tables, progress, history>>
    BY <1>2 DEF vars
  <2> QED
    BY <2>1, <2>2 DEF tables, credVars, orgVars, progress, history, AnswerOf, Witnessed, Open,
        NothingYet, ReportsWitnessed, RowWitnessed, RowShows, SumWitnessed, SubscriptionQuota,
        FoundSoFar, ListRead, FoundAll, Excepted, About, AboutOrg, Holding, OrgHolding
<1> QED
  BY <1>1, <1>2

(* An answer put together while others write is about its request's time:  *)
(* it names only reasons that held, and every one that held throughout,    *)
(* but for look-ups that failed and first reads that were out of date.     *)
THEOREM AnswersAreTrue == Spec => []AnswersHold
<1>1. Spec => [](TypeOK /\ StageInv /\ AnswerInv)
  BY TypeInit, TypeStep, AnswerInit, AnswerStep, PTL DEF Spec
<1> QED
  BY <1>1, AnswerInvSuffices, PTL
=============================================================================
