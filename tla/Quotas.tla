-------------------------------- MODULE Quotas --------------------------------
(***************************************************************************)
(* Limits, uses, and what requests answer about them.                      *)
(*                                                                         *)
(* Administrators set the limits of credentials, the quotas of plans and   *)
(* the override of an organization; deliveries count uses in PostgreSQL    *)
(* and, per minute, in Redis.  Nothing is enforced here: what the code     *)
(* makes of limits and uses is an answer, which names the reasons why a    *)
(* credential is limited, or whether an organization is over its quota.    *)
(* An answer is put together from several statements, while other requests *)
(* go on writing what it reads.                                            *)
(*                                                                         *)
(* One organization is modelled.  Of its latest subscription only the plan *)
(* and whether its status restricts are kept (Billing is about how they    *)
(* come about); of plans and overrides only the daily quota, as the other  *)
(* columns are handled in the same way.  No code writes a subscription's   *)
(* own quota overrides, so that a subscription's quota is its plan's.      *)
(***************************************************************************)
EXTENDS Naturals, FiniteSets, FiniteSetsExt

CONSTANTS
    Creds,
    Plans,
    Requests,
    Asked,          \* what requests may ask for
    Stored,         \* counters kept in smtp_credentials: daily, monthly
    Values,         \* quotas and limits that are set
    Null,
    NoPlan,         \* a plan that has not been created
    MaxUsed,        \* bound: uses that are counted
    MaxAsked,       \* bound: requests that are made
    MaxChanges      \* bound: writes by others than Requests

Limits == Stored \cup {"per_minute"}

ASSUME StoredAssumption == "daily" \in Stored /\ Stored \subseteq {"daily", "monthly"}
ASSUME ValuesAssumption == Values \subseteq Nat /\ Null \notin Values /\ NoPlan \notin Values \cup {Null}
ASSUME FiniteAssumption == IsFiniteSet(Creds)
ASSUME BoundsAssumption == MaxUsed \in Nat /\ MaxAsked \in Nat /\ MaxChanges \in Nat

Quota == Values \cup {Null}

VARIABLES
    limit,          \* credential -> its limits, Null for none
    used,           \* credential -> its stored counters
    enabled,
    manual,         \* smtp_credentials.manually_limited
    minute,         \* credential -> its counter in Redis for this minute
    suspended,
    restricted,     \* the latest subscription is expired, suspended or past due
    plan,           \* the plan of the latest subscription, Null without one
    planQuota,      \* plan -> plans.daily_quota
    override,       \* organizations.quota_daily_override
    asked,          \* number of requests made so far
    changes,        \* number of other writes so far
    op,             \* request -> what it asks for
    pc,             \* request -> what it does next
    row,            \* request -> what it has read to answer with
    reported,       \* request -> the reasons it has found
    failed,         \* request -> reasons it failed to look for and went on
    ever, always,   \* history: request -> reasons that held at some moment,
                    \* at every moment, since it came in
    moved,          \* history: request -> reasons of which it has read one part
                    \* before that part changed
    named           \* history: credential -> limit -> last value a request gave

credVars == <<limit, used, enabled, manual, named>>
orgVars == <<suspended, restricted, plan, planQuota, override>>
tables == <<credVars, minute, orgVars>>
progress == <<op, pc, row, reported, failed>>
history == <<ever, always, moved>>
vars == <<tables, asked, changes, progress, history>>

Reasons == Limits \cup {"disabled", "organization_suspended", "subscription",
                        "manual_limit", "daily_limited"}

Ops == [kind : {"list"}, cred : Creds]
       \cup [kind : {"limits"}, cred : Creds, set : UNION {[K -> Quota] : K \in SUBSET Limits},
             reset : SUBSET Limits]
       \cup [kind : {"enable", "disable"}, cred : Creds]
       \cup [kind : {"overview"}]
       \cup [kind : {"override"}, quota : Quota]

ASSUME AskedAssumption == Asked \subseteq Ops

NoOp == [kind |-> "none"]

Stages == {"idle", "row", "suspended", "subscription", "manual", "update",
           "reset", "enable", "minute", "override", "overview", "plan", "answered"}

Row == [enabled : BOOLEAN, limit : [Limits -> Quota], used : [Stored -> Nat]]
OverviewRow == [quota : Quota, used : [Creds -> [Stored -> Nat]]]
NoRow == [quota |-> Null]

TypeOK ==
    /\ limit \in [Creds -> [Limits -> Quota]]
    /\ used \in [Creds -> [Stored -> 0 .. MaxUsed]]
    /\ enabled \in [Creds -> BOOLEAN]
    /\ manual \in [Creds -> BOOLEAN]
    /\ minute \in [Creds -> 0 .. MaxUsed]
    /\ suspended \in BOOLEAN
    /\ restricted \in BOOLEAN
    /\ plan \in Plans \cup {Null}
    /\ planQuota \in [Plans -> Quota \cup {NoPlan}]
    /\ plan # Null => planQuota[plan] # NoPlan
    /\ override \in Quota
    /\ asked \in 0 .. MaxAsked
    /\ changes \in 0 .. MaxChanges
    /\ op \in [Requests -> Asked \cup {NoOp}]
    /\ pc \in [Requests -> Stages]
    /\ row \in [Requests -> Row \cup OverviewRow \cup {NoRow}]
    /\ reported \in [Requests -> SUBSET Reasons]
    /\ failed \in [Requests -> SUBSET Reasons]
    /\ ever \in [Requests -> SUBSET Reasons]
    /\ always \in [Requests -> SUBSET Reasons]
    /\ moved \in [Requests -> SUBSET Reasons]
    /\ named \in [Creds -> [Limits -> Quota]]

(* An installation with any limits, plans and overrides *)
Init ==
    /\ limit \in [Creds -> [Limits -> Quota]]
    /\ used = [c \in Creds |-> [k \in Stored |-> 0]]
    /\ enabled = [c \in Creds |-> TRUE]
    /\ manual = [c \in Creds |-> FALSE]
    /\ minute = [c \in Creds |-> 0]
    /\ suspended = FALSE
    /\ restricted = FALSE
    /\ planQuota \in [Plans -> Quota \cup {NoPlan}]
    /\ plan \in {Null} \cup {p \in Plans : planQuota[p] # NoPlan}
    /\ override \in Quota
    /\ asked = 0
    /\ changes = 0
    /\ op = [r \in Requests |-> NoOp]
    /\ pc = [r \in Requests |-> "idle"]
    /\ row = [r \in Requests |-> NoRow]
    /\ reported = [r \in Requests |-> {}]
    /\ failed = [r \in Requests |-> {}]
    /\ ever = [r \in Requests |-> {}]
    /\ always = [r \in Requests |-> {}]
    /\ moved = [r \in Requests |-> {}]
    /\ named = limit

-----------------------------------------------------------------------------
(* What limits and uses amount to *)

ExceedsStrictly(quota, n) ==    \* mutant: a use more than the limit
    quota # Null /\ n > quota

Exceeds(quota, n) == quota # Null /\ n >= quota

(* deriveStatus, from what a request has read *)
DerivedStatus(r, minuteUsed) ==
    IF ~row[r].enabled THEN {"disabled"}
    ELSE {k \in Stored : Exceeds(row[r].limit[k], row[r].used[k])}
         \cup {k \in {"per_minute"} : Exceeds(row[r].limit[k], minuteUsed)}

SubscriptionQuota == IF plan = Null THEN Null ELSE planQuota[plan]

AcceptedToday(uses) == MapThenSumSet(LAMBDA c : uses[c]["daily"], Creds)

(* The reasons that hold for a credential and for the organization now     *)
Holding(c) ==
    {k \in Stored : limit[c][k] # Null /\ used[c][k] >= limit[c][k]}
    \cup {k \in {"per_minute"} : limit[c][k] # Null /\ minute[c] >= limit[c][k]}
    \cup {k \in {"disabled"} : ~enabled[c]}
    \cup {k \in {"organization_suspended"} : suspended}
    \cup {k \in {"subscription"} : restricted}
    \cup {k \in {"manual_limit"} : manual[c]}

OrgHolding ==
    LET quota == IF override # Null THEN override ELSE SubscriptionQuota
    IN  {k \in {"daily_limited"} : quota # Null /\ AcceptedToday(used) >= quota}

AboutOrg(o) == o.kind \in {"overview", "override"}
About(o) == IF AboutOrg(o) THEN OrgHolding ELSE Holding(o.cred)

-----------------------------------------------------------------------------
(* Requests *)

GoTo(r, stage) == pc' = [pc EXCEPT ![r] = stage]
Report(r, found) == reported' = [reported EXCEPT ![r] = @ \cup found]

Ask(r, o) ==
    /\ pc[r] = "idle"
    /\ asked < MaxAsked
    /\ asked' = asked + 1
    /\ op' = [op EXCEPT ![r] = o]
    /\ GoTo(r, IF AboutOrg(o) THEN o.kind ELSE "row")
    /\ UNCHANGED <<tables, changes, row, reported, failed>>

Close(r) ==
    /\ op' = [op EXCEPT ![r] = NoOp]
    /\ GoTo(r, "idle")
    /\ row' = [row EXCEPT ![r] = NoRow]
    /\ reported' = [reported EXCEPT ![r] = {}]
    /\ failed' = [failed EXCEPT ![r] = {}]
    /\ UNCHANGED <<tables, asked, changes>>

Answer(r) == pc[r] = "answered" /\ Close(r)

(* A statement fails, or the client goes away.  A transaction that has not *)
(* been committed leaves nothing.                                          *)
Cut(r) == pc[r] \notin {"idle", "answered"} /\ Close(r)

(* The row of credentials.List, or loadCredentialRow                       *)
ReadRow(r) ==
    LET c == op[r].cred
    IN  /\ pc[r] = "row"
        /\ row' = [row EXCEPT ![r] = [enabled |-> enabled[c], limit |-> limit[c], used |-> used[c]]]
        /\ GoTo(r, IF op[r].kind = "list" THEN "suspended"
                   ELSE IF op[r].kind = "limits" THEN "update" ELSE "enable")
        /\ UNCHANGED <<tables, asked, changes, op, reported, failed>>

(* organizationRuntimeRestrictions, statement by statement *)
CheckSuspended(r) ==
    /\ pc[r] = "suspended"
    /\ Report(r, {k \in {"organization_suspended"} : suspended})
    /\ GoTo(r, "subscription")
    /\ UNCHANGED <<tables, asked, changes, op, row, failed>>

CheckSubscription(r) ==
    /\ pc[r] = "subscription"
    /\ Report(r, {k \in {"subscription"} : restricted})
    /\ GoTo(r, "manual")
    /\ UNCHANGED <<tables, asked, changes, op, row, failed>>

CheckManual(r) ==           \* an error of this statement is dropped
    /\ pc[r] = "manual"
    /\ \/ /\ Report(r, {k \in {"manual_limit"} : manual[op[r].cred]})
          /\ UNCHANGED failed
       \/ /\ failed' = [failed EXCEPT ![r] = @ \cup {"manual_limit"}]
          /\ UNCHANGED reported
    /\ GoTo(r, "minute")
    /\ UNCHANGED <<tables, asked, changes, op, row>>

(* When Redis fails the minute counter is taken to be 0.  The code takes   *)
(* the time and then asks Redis for the counter of that minute; here it is *)
(* one step, so the minute does not turn in between.                       *)
BuildSnapshot(r) ==
    /\ pc[r] = "minute"
    /\ \/ /\ Report(r, DerivedStatus(r, minute[op[r].cred]))
          /\ UNCHANGED failed
       \/ /\ Report(r, DerivedStatus(r, 0))
          /\ failed' = [failed EXCEPT ![r] = @ \cup {"per_minute"}]
    /\ GoTo(r, "answered")
    /\ UNCHANGED <<tables, asked, changes, op, row>>

(* The UPDATE of UpdateCredentialQuota, which writes the limits the request *)
(* names and returns the row as it is then, its audit row, and the commit  *)
WriteBackLimits(r) ==       \* mutant: limits not named are written back
    LET c == op[r].cred
        set == op[r].set
        limits == [k \in Limits |-> IF k \in DOMAIN set THEN set[k] ELSE row[r].limit[k]]
        uses == [k \in Stored |-> IF k \in op[r].reset THEN 0 ELSE used[c][k]]
    IN  /\ pc[r] = "update"
        /\ limit' = [limit EXCEPT ![c] = limits]
        /\ used' = [used EXCEPT ![c] = uses]
        /\ named' = [named EXCEPT ![c] = [k \in Limits |-> IF k \in DOMAIN set THEN set[k] ELSE @[k]]]
        /\ row' = [row EXCEPT ![r].limit = limits, ![r].used = uses]
        /\ GoTo(r, IF "per_minute" \in op[r].reset THEN "reset" ELSE "minute")
        /\ UNCHANGED <<enabled, manual, minute, orgVars, asked, changes, op, reported, failed>>

UpdateLimits(r) ==
    LET c == op[r].cred
        set == op[r].set
        limits == [k \in Limits |-> IF k \in DOMAIN set THEN set[k] ELSE limit[c][k]]
        uses == [k \in Stored |-> IF k \in op[r].reset THEN 0 ELSE used[c][k]]
    IN  /\ pc[r] = "update"
        /\ limit' = [limit EXCEPT ![c] = limits]
        /\ used' = [used EXCEPT ![c] = uses]
        /\ named' = [named EXCEPT ![c] = [k \in Limits |-> IF k \in DOMAIN set THEN set[k] ELSE @[k]]]
        /\ row' = [row EXCEPT ![r].limit = limits, ![r].used = uses]
        /\ GoTo(r, IF "per_minute" \in op[r].reset THEN "reset" ELSE "minute")
        /\ UNCHANGED <<enabled, manual, minute, orgVars, asked, changes, op, reported, failed>>

(* DEL of the minute counter, after the commit; its failure is logged.     *)
ResetMinute(r) ==
    /\ pc[r] = "reset"
    /\ \/ minute' = [minute EXCEPT ![op[r].cred] = 0]
       \/ UNCHANGED minute
    /\ GoTo(r, "minute")
    /\ UNCHANGED <<credVars, orgVars, asked, changes, op, row, reported, failed>>

SetEnabled(r) ==
    LET value == op[r].kind = "enable"
    IN  /\ pc[r] = "enable"
        /\ enabled' = [enabled EXCEPT ![op[r].cred] = value]
        /\ row' = [row EXCEPT ![r].enabled = value]
        /\ GoTo(r, "minute")
        /\ UNCHANGED <<limit, used, manual, named, minute, orgVars, asked, changes, op, reported, failed>>

(* UpdateOrganizationQuota; the overview follows when its audit row is in. *)
UpdateOverride(r) ==
    /\ pc[r] = "override"
    /\ override' = op[r].quota
    /\ GoTo(r, "overview")
    /\ UNCHANGED <<credVars, minute, suspended, restricted, plan, planQuota, asked, changes,
                   op, row, reported, failed>>

OverviewStatus(quota, uses) ==
    {k \in {"daily_limited"} : Exceeds(quota, AcceptedToday(uses))}

(* buildOverview: sums and overrides in one statement ...                  *)
ReadOverview(r) ==
    /\ pc[r] = "overview"
    /\ row' = [row EXCEPT ![r] = [quota |-> override, used |-> used]]
    /\ IF override = Null
       THEN GoTo(r, "plan") /\ UNCHANGED reported
       ELSE GoTo(r, "answered") /\ Report(r, OverviewStatus(override, used))
    /\ UNCHANGED <<tables, asked, changes, op, failed>>

(* ... and the plan's quotas in another, whose failure is ignored          *)
LoadSubscriptionQuotas(r) ==
    /\ pc[r] = "plan"
    /\ \/ /\ Report(r, OverviewStatus(SubscriptionQuota, row[r].used))
          /\ UNCHANGED failed
       \/ /\ failed' = [failed EXCEPT ![r] = @ \cup {"daily_limited"}]
          /\ UNCHANGED reported
    /\ GoTo(r, "answered")
    /\ UNCHANGED <<tables, asked, changes, op, row>>

-----------------------------------------------------------------------------
(* Other writers: each is one statement or transaction of its handler.     *)

Change == changes < MaxChanges /\ changes' = changes + 1 /\ UNCHANGED asked

CountUse(c) ==              \* the webhook's transaction
    /\ Change
    /\ \A k \in Stored : used[c][k] < MaxUsed
    /\ used' = [used EXCEPT ![c] = [k \in Stored |-> @[k] + 1]]
    /\ UNCHANGED <<limit, enabled, manual, named, minute, orgVars, progress>>

CountMinute(c) ==           \* and what follows it in Redis
    /\ Change
    /\ minute[c] < MaxUsed
    /\ minute' = [minute EXCEPT ![c] = @ + 1]
    /\ UNCHANGED <<credVars, orgVars, progress>>

NextMinute(c) ==
    /\ Change
    /\ minute[c] # 0
    /\ minute' = [minute EXCEPT ![c] = 0]
    /\ UNCHANGED <<credVars, orgVars, progress>>

ResetUsage(K) ==            \* the worker's resets, and an administrator's
    /\ Change
    /\ used' = [c \in Creds |-> [k \in Stored |-> IF k \in K THEN 0 ELSE used[c][k]]]
    /\ UNCHANGED <<limit, enabled, manual, named, minute, orgVars, progress>>

SetCredentialLimited(c, value) ==
    /\ Change
    /\ manual' = [manual EXCEPT ![c] = value]
    /\ UNCHANGED <<limit, used, enabled, named, minute, orgVars, progress>>

SetSuspended(value) ==
    /\ Change
    /\ suspended' = value
    /\ UNCHANGED <<credVars, minute, restricted, plan, planQuota, override, progress>>

SettleSubscription(value) ==        \* settlements and the expiry check
    /\ Change
    /\ plan # Null
    /\ restricted' = value
    /\ UNCHANGED <<credVars, minute, suspended, plan, planQuota, override, progress>>

AssignUnchecked(p, value) ==        \* mutant: any plan will do
    /\ Change
    /\ plan' = p
    /\ restricted' = value
    /\ UNCHANGED <<credVars, minute, suspended, planQuota, override, progress>>

AssignSubscription(p, value) ==
    /\ Change
    /\ planQuota[p] # NoPlan
    /\ plan' = p
    /\ restricted' = value
    /\ UNCHANGED <<credVars, minute, suspended, planQuota, override, progress>>

CreatePlan(p, quota) ==
    /\ Change
    /\ planQuota[p] = NoPlan
    /\ planQuota' = [planQuota EXCEPT ![p] = quota]
    /\ UNCHANGED <<credVars, minute, suspended, restricted, plan, override, progress>>

(* COALESCE: a quota can be given and changed, but never taken away.       *)
UpdatePlan(p, quota) ==
    /\ Change
    /\ planQuota[p] # NoPlan
    /\ planQuota' = [planQuota EXCEPT ![p] = IF quota # Null THEN quota ELSE @]
    /\ UNCHANGED <<credVars, minute, suspended, restricted, plan, override, progress>>

-----------------------------------------------------------------------------
Step(r) ==
    \/ ReadRow(r)
    \/ CheckSuspended(r)
    \/ CheckSubscription(r)
    \/ CheckManual(r)
    \/ BuildSnapshot(r)
    \/ UpdateLimits(r)
    \/ ResetMinute(r)
    \/ SetEnabled(r)
    \/ UpdateOverride(r)
    \/ ReadOverview(r)
    \/ LoadSubscriptionQuotas(r)
    \/ Answer(r)
    \/ Cut(r)

Write ==
    \/ \E c \in Creds : CountUse(c) \/ CountMinute(c) \/ NextMinute(c)
    \/ \E K \in SUBSET Stored : ResetUsage(K)
    \/ \E c \in Creds, value \in BOOLEAN : SetCredentialLimited(c, value)
    \/ \E value \in BOOLEAN : SetSuspended(value) \/ SettleSubscription(value)
    \/ \E p \in Plans, value \in BOOLEAN : AssignSubscription(p, value)
    \/ \E p \in Plans, quota \in Quota : CreatePlan(p, quota) \/ UpdatePlan(p, quota)

(* The history of a request about what it asks for.  What a request reads  *)
(* again when it writes, it has read then.                                 *)
Observe ==
    LET open(r) == op'[r] # NoOp
        fresh(r) == pc[r] \in {"row", "update", "overview"} /\ pc'[r] # pc[r]
        shifted(r) == IF AboutOrg(op'[r])
                      THEN {k \in {"daily_limited"} : SubscriptionQuota' # SubscriptionQuota}
                      ELSE {k \in {"per_minute"} :
                               limit'[op'[r].cred][k] # limit[op'[r].cred][k]}
    IN  /\ ever' = [r \in Requests |-> IF open(r) THEN ever[r] \cup About(op[r])' ELSE {}]
        /\ always' = [r \in Requests |-> IF ~open(r) THEN {}
                                         ELSE IF op[r] = NoOp THEN About(op[r])'
                                         ELSE always[r] \cap About(op[r])']
        /\ moved' = [r \in Requests |-> IF ~open(r) \/ fresh(r) THEN {}
                                        ELSE moved[r] \cup shifted(r)]

Next ==
    /\ \/ \E r \in Requests : Step(r) \/ \E o \in Asked : Ask(r, o)
       \/ Write
    /\ Observe

Spec == Init /\ [][Next]_vars

-----------------------------------------------------------------------------
(* Properties *)

(* Requests that overlap do not undo each other: every limit has the value *)
(* that the last request to name it gave, although each request has loaded *)
(* the row before it writes.                                               *)
LimitsKept == \A c \in Creds, k \in Limits : limit[c][k] = named[c][k]

(* What an answer is about *)
Covered(o) ==
    IF AboutOrg(o) THEN {"daily_limited"}
    ELSE IF o.kind = "list" THEN Reasons ELSE Limits \cup {"disabled"}

(* An answer that is put together from several reads names a reason only if *)
(* it held at some moment of the request, and names every reason that held *)
(* throughout, except: reasons that compare two reads of which the first   *)
(* was out of date by the second; reasons whose look-up failed; and limits *)
(* exceeded by a credential that is disabled.  (In the code the limit per  *)
(* minute may be answered for the minute that has just ended: see          *)
(* BuildSnapshot.)                                                         *)
AnswersHold ==
    \A r \in Requests : pc[r] = "answered" =>
        LET excepted == moved[r] \cup failed[r]
                        \cup (IF "disabled" \in reported[r] THEN Limits ELSE {})
        IN  /\ reported[r] \ moved[r] \subseteq ever[r]
            /\ (always[r] \cap Covered(op[r])) \ excepted \subseteq reported[r]
=============================================================================
