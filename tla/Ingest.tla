------------------------------- MODULE Ingest -------------------------------
(***************************************************************************)
(* The ingestion of Postal's webhook events: send logs, bounces, quota     *)
(* counters and usage records.                                             *)
(*                                                                         *)
(* Postal (external) delivers an event until an attempt is answered 202;   *)
(* it may deliver one again while an earlier attempt still runs.  An       *)
(* attempt is a request handler, cut short at any point when its client    *)
(* hangs up or the process dies.  Its database transaction is one step:    *)
(* the INSERT it starts with waits for a concurrent insert of the same     *)
(* event to end.  What follows the commit is not in the transaction.       *)
(* A send log is named by its event, the key of its unique index.          *)
(***************************************************************************)
EXTENDS Integers, FiniteSets

CONSTANTS
    Events,         \* (postal message id, status) of the events Postal emits
    Accepted,       \* those with status "accepted"
    SoftBounces,    \* those with status "bounced", not hard (isHardBounce)
    HardBounces,    \* those with status "bounced", hard
    Unmatched,      \* those whose credential and domain are in no table
    Creds,          \* SMTP credentials
    NoCred,
    CredOf,         \* event -> the credential it names, NoCred for a domain only
    Orgs,
    OrgOf,          \* credential -> its organization
    Handlers,       \* bound: attempts that run at the same time
    MaxRepeats,     \* bound: Redis commands repeated by the client library
    NoEvent

ASSUME EventsAssumption ==
    /\ Accepted \subseteq Events
    /\ SoftBounces \subseteq Events
    /\ HardBounces \subseteq Events
    /\ Unmatched \subseteq Events
    /\ Accepted \cap (SoftBounces \cup HardBounces) = {}
    /\ SoftBounces \cap HardBounces = {}
    /\ NoEvent \notin Events
ASSUME CredsAssumption ==
    /\ NoCred \notin Creds
    /\ CredOf \in [Events -> Creds \cup {NoCred}]
    /\ \A e \in Unmatched : CredOf[e] = NoCred
    /\ OrgOf \in [Creds -> Orgs]
ASSUME RepeatsAssumption == MaxRepeats \in Nat

(* The credential whose quota the event uses: only "accepted" counts. *)
CountsFor == [e \in Events |-> IF e \in Accepted THEN CredOf[e] ELSE NoCred]

VARIABLES
    outbox,         \* external: events Postal has no 202 for yet
    event,          \* handler -> the event of its attempt, or NoEvent
    pc,             \* handler -> what it does next
    logs,           \* send_logs
    bounces,        \* event -> rows of bounces
    usage,          \* usage_records, by the send log they refer to
    daily,          \* smtp_credentials.quota_daily_used
    monthly,        \* smtp_credentials.quota_monthly_used
    minute,         \* the Redis minute counter of a credential
    repeated,       \* history: repeated Redis commands
    applied,        \* history: events that were ever logged
    today,          \* history: those logged since the last daily reset of
    thisMonth       \* ... and the last monthly reset of their credential

requestVars == <<outbox, event, pc>>
tableVars   == <<logs, bounces, usage>>
counterVars == <<daily, monthly, today, thisMonth>>
redisVars   == <<minute, repeated>>
vars == <<requestVars, tableVars, counterVars, redisVars, applied>>

TypeOK ==
    /\ outbox \subseteq Events
    /\ event \in [Handlers -> Events \cup {NoEvent}]
    /\ pc \in [Handlers -> {"idle", "transaction", "count", "meter"}]
    /\ logs \subseteq Events
    /\ bounces \in [Events -> Nat]
    /\ usage \subseteq Events
    /\ daily \in [Creds -> Nat]
    /\ monthly \in [Creds -> Nat]
    /\ minute \in [Creds -> Nat]
    /\ repeated \in 0 .. MaxRepeats
    /\ applied \subseteq Events
    /\ today \subseteq Events
    /\ thisMonth \subseteq Events

Init ==
    /\ outbox = Events
    /\ event = [h \in Handlers |-> NoEvent]
    /\ pc = [h \in Handlers |-> "idle"]
    /\ logs = {}
    /\ bounces = [e \in Events |-> 0]
    /\ usage = {}
    /\ daily = [c \in Creds |-> 0]
    /\ monthly = [c \in Creds |-> 0]
    /\ minute = [c \in Creds |-> 0]
    /\ repeated = 0
    /\ applied = {}
    /\ today = {}
    /\ thisMonth = {}

-----------------------------------------------------------------------------
(* Attempts *)

Begin(h, e)  == event' = [event EXCEPT ![h] = e] /\ pc' = [pc EXCEPT ![h] = "transaction"]
GoTo(h, l)   == pc' = [pc EXCEPT ![h] = l] /\ UNCHANGED <<outbox, event>>
End(h)       == event' = [event EXCEPT ![h] = NoEvent] /\ pc' = [pc EXCEPT ![h] = "idle"]
Refuse(h)    == End(h) /\ UNCHANGED outbox                  \* 400, or no answer
Answer202(h) == End(h) /\ outbox' = outbox \ {event[h]}

(* External: Postal sends an event, also one that it has sent before and   *)
(* waits for, or has stopped waiting for.                                  *)
Deliver(h, e) ==
    /\ pc[h] = "idle"
    /\ e \in outbox
    /\ Begin(h, e)
    /\ UNCHANGED <<outbox, tableVars, counterVars, redisVars, applied>>

AnswerEarly(h) ==           \* mutant: answers without a look at the table
    /\ pc[h] = "transaction"
    /\ Answer202(h)
    /\ UNCHANGED <<tableVars, counterVars, redisVars, applied>>

DuplicateRefused(h) ==      \* mutant: takes the empty result for an error
    /\ pc[h] = "transaction"
    /\ event[h] \in logs
    /\ Refuse(h)
    /\ UNCHANGED <<tableVars, counterVars, redisVars, applied>>

(* ON CONFLICT (postal_message_id, status) DO NOTHING returned no row. *)
Duplicate(h) ==
    /\ pc[h] = "transaction"
    /\ event[h] \in logs
    /\ Answer202(h)
    /\ UNCHANGED <<tableVars, counterVars, redisVars, applied>>

(* The transaction of a hard bounce fails, and leaves nothing: its upsert  *)
(* into suppressions names columns that no unique index covers.            *)
RollBack(h) ==
    /\ pc[h] = "transaction"
    /\ event[h] \notin logs
    /\ event[h] \in HardBounces \ Unmatched
    /\ Refuse(h)
    /\ UNCHANGED <<tableVars, counterVars, redisVars, applied>>

BumpDown(counter, e) ==     \* mutant: takes from the quota used
    [c \in Creds |-> IF c = CountsFor[e] THEN counter[c] - 1 ELSE counter[c]]

Bump(counter, e) == [c \in Creds |-> IF c = CountsFor[e] THEN counter[c] + 1 ELSE counter[c]]

(* The counters of the event's credential, in one UPDATE. *)
CountDailyOnly(e) == daily' = Bump(daily, e) /\ UNCHANGED monthly        \* mutant
CountEvent(e)     == daily' = Bump(daily, e) /\ monthly' = Bump(monthly, e)

(* What the transaction of an attempt writes when it commits. *)
InsertSendLog(h) ==
    LET e == event[h]
    IN  /\ e \notin HardBounces \ Unmatched
        /\ logs' = logs \cup {e}
        /\ applied' = applied \cup {e}
        /\ CountEvent(e)
        /\ today' = today \cup {e}
        /\ thisMonth' = thisMonth \cup {e}
        /\ bounces' = IF e \in SoftBounces \ Unmatched
                      THEN [bounces EXCEPT ![e] = @ + 1]
                      ELSE bounces
        /\ GoTo(h, "count")
        /\ UNCHANGED <<usage, redisVars>>

CommitUnchecked(h) ==       \* mutant: an insert that ignores the unique index
    pc[h] = "transaction" /\ InsertSendLog(h)

Commit(h) ==
    /\ pc[h] = "transaction"
    /\ event[h] \notin logs
    /\ InsertSendLog(h)

(* quota.RecordAcceptedEvent, after the commit: an error is logged only. *)
RecordAcceptedEvent(h) ==
    /\ pc[h] = "count"
    /\ minute' \in {minute, Bump(minute, event[h])}
    /\ GoTo(h, "meter")
    /\ UNCHANGED <<tableVars, counterVars, applied, repeated>>

(* External: Redis counted the event and its answer was lost.  go-redis    *)
(* repeats the command, as it does by default.                             *)
RepeatAcceptedEvent(h) ==
    /\ pc[h] = "count"
    /\ repeated < MaxRepeats
    /\ repeated' = repeated + 1
    /\ minute' = Bump(minute, event[h])
    /\ UNCHANGED <<requestVars, tableVars, counterVars, applied>>

(* usage.RecordSendLogEvent, after the commit: an error is logged only,    *)
(* and the attempt is answered 202 either way.                             *)
RecordSendLogEvent(h) ==
    /\ pc[h] = "meter"
    /\ usage' \in {usage, usage \cup ({event[h]} \ Unmatched)}
    /\ Answer202(h)
    /\ UNCHANGED <<logs, bounces, counterVars, redisVars, applied>>

(* The client hangs up, which cancels the context of every statement left, *)
(* or the process dies: an open transaction is rolled back.                *)
Die(h) ==
    /\ pc[h] # "idle"
    /\ Refuse(h)
    /\ UNCHANGED <<tableVars, counterVars, redisVars, applied>>

-----------------------------------------------------------------------------
(* Resets and retention *)

Clear(counter, cs) == [c \in Creds |-> IF c \in cs THEN 0 ELSE counter[c]]
Forget(es, cs)     == {e \in es : CountsFor[e] \notin cs}

ResetUsage(dailyOf, monthlyOf) ==
    /\ daily' = Clear(daily, dailyOf)
    /\ monthly' = Clear(monthly, monthlyOf)
    /\ today' = Forget(today, dailyOf)
    /\ thisMonth' = Forget(thisMonth, monthlyOf)
    /\ UNCHANGED <<requestVars, tableVars, redisVars, applied>>

RunDailyReset   == ResetUsage(Creds, {})
RunMonthlyReset == ResetUsage({}, Creds)

ResetOrganizationUsage(o) ==
    LET cs == {c \in Creds : OrgOf[c] = o} IN ResetUsage(cs, cs)

(* quota.UpdateCredentialQuota, for the counters it may reset. *)
UpdateCredentialQuota(c, resetDaily, resetMonthly) ==
    ResetUsage(IF resetDaily THEN {c} ELSE {}, IF resetMonthly THEN {c} ELSE {})

(* The Redis key expires, or resetMinuteUsage deletes it. *)
ExpireMinute(c) ==
    /\ minute' = [minute EXCEPT ![c] = 0]
    /\ UNCHANGED <<requestVars, tableVars, counterVars, applied, repeated>>

(* retention.RunCleanup: send logs past their organization's retention go, *)
(* with the usage records that refer to them (ON DELETE CASCADE).  Postal  *)
(* is assumed to have given up an event long before its log is that old.   *)
RunCleanup(old) ==
    /\ old # {}
    /\ old \subseteq logs \ (Unmatched \cup outbox \cup {event[h] : h \in Handlers})
    /\ logs' = logs \ old
    /\ usage' = usage \ old
    /\ UNCHANGED <<requestVars, bounces, counterVars, redisVars, applied>>

-----------------------------------------------------------------------------
Process(h) == Commit(h) \/ Duplicate(h) \/ RollBack(h)

Next ==
    \/ \E h \in Handlers, e \in Events : Deliver(h, e)
    \/ \E h \in Handlers : Duplicate(h)
    \/ \E h \in Handlers : RollBack(h)
    \/ \E h \in Handlers : Commit(h)
    \/ \E h \in Handlers : RecordAcceptedEvent(h)
    \/ \E h \in Handlers : RepeatAcceptedEvent(h)
    \/ \E h \in Handlers : RecordSendLogEvent(h)
    \/ \E h \in Handlers : Die(h)
    \/ RunDailyReset
    \/ RunMonthlyReset
    \/ \E o \in Orgs : ResetOrganizationUsage(o)
    \/ \E c \in Creds, d, m \in BOOLEAN : UpdateCredentialQuota(c, d, m)
    \/ \E c \in Creds : ExpireMinute(c)
    \/ \E old \in SUBSET logs : RunCleanup(old)

Spec == Init /\ [][Next]_vars

(* Postal keeps retrying an event that it got no 202 for, net/http gives   *)
(* every request a goroutine of its own, and an event whose attempts get   *)
(* as far as the database again and again is not cut short every time.     *)
Fairness ==
    /\ \A e \in Events : SF_vars(\E h \in Handlers : Deliver(h, e))
    /\ \A e \in Events : SF_vars(\E h \in Handlers : event[h] = e /\ Process(h))
    /\ \A h \in Handlers : WF_vars(RecordAcceptedEvent(h)) /\ WF_vars(RecordSendLogEvent(h))

FairSpec == Spec /\ Fairness

-----------------------------------------------------------------------------
(* Properties *)

CountedFor(es, c) == Cardinality({e \in es : CountsFor[e] = c})

(* However often Postal repeats an event, however its attempts overlap and *)
(* wherever they are cut short, it takes effect once: the counters of a    *)
(* credential are the number of different accepted events since their last *)
(* reset, an event has the bounce row that belongs to it and no second, and*)
(* the minute counter, which may miss events, has one twice only when the  *)
(* Redis client repeated its command.                                      *)
EffectsApplyOnce ==
    /\ \A c \in Creds : /\ daily[c] = CountedFor(today, c)
                        /\ monthly[c] = CountedFor(thisMonth, c)
                        /\ minute[c] <= CountedFor(applied, c) + repeated
    /\ \A e \in Events :
          bounces[e] = (IF e \in applied \cap (SoftBounces \ Unmatched) THEN 1 ELSE 0)

(* Postal is told to forget an event only once its send log is committed,  *)
(* by the attempt that answers or by another one; and a usage record never *)
(* outlives the send log it was made from.                                 *)
AnsweredIsLogged ==
    /\ Events \ outbox \subseteq applied
    /\ usage \subseteq logs
    /\ outbox \cap applied \subseteq logs

(* Ingest implements EventLedger: at-least-once delivery, concurrent       *)
(* attempts and crashes refine "each event is applied in one step, once".  *)
Ledger == INSTANCE EventLedger
ImplementsLedger == Ledger!Spec

(* Every event that the transaction can commit is answered in the end, so  *)
(* that Postal stops sending it: no schedule of crashes between commit and *)
(* answer leaves it to be retried for ever.                                *)
EventuallyAnswered ==
    \A e \in Events \ (HardBounces \ Unmatched) : <>(e \notin outbox)

(* docs/architecture.md: "Backend persists send logs, bounce outcomes,     *)
(* suppression state, and quota counters."  Violated for every hard bounce *)
(* of a known organization: its transaction never commits.                 *)
HardBouncesPersisted ==
    \A e \in HardBounces : <>(e \in applied)
=============================================================================
