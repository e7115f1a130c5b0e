# A TLA+ specification of the zxMail backend

zxMail is a control plane around a Postal mail server: a Go API on PostgreSQL and
Redis that keeps organizations, sending domains, SMTP credentials, quotas,
subscriptions and delivery events, and a worker process that runs scheduled jobs
(`src/backend/cmd/api`, `src/backend/cmd/worker`). This directory models the parts of
the backend whose correctness depends on the order of steps, on several actors or on
failures. TLC checks the models on small instances; TLAPS proves the main properties
for every value of the constants.

Paths below are relative to `src/backend/internal/modules/` unless they start with
`src/`.

## 1. The system

    Postal --webhooks--> webhooks --tx--> send_logs, bounces, suppressions,
                            |             quota_*_used
                            |--after commit--> quota (Redis minute counter)
                            '--after commit--> usage_records
    administrators --> billing --tx--> subscriptions, invoices, payments,
                                       smtp_credentials.manually_limited
                       usage, adminv2 --> smtp_credentials limits, organizations
    customers -------> auth (login throttle in Redis), domains (DNS), credentials
    worker, hourly --> usage resets, billing expiry, deliverability, retention
                       one row of worker_job_runs per run

All state is in PostgreSQL and Redis. A request is a goroutine of net/http with the
request's context, so it can be cut short between any two statements; the worker is a
process with a ticker. Components interact through shared rows, and through calls of
one service on another inside one request. Nothing uses explicit row locks
(`FOR UPDATE`) or a stricter isolation than READ COMMITTED: what serialises writers is
the row locks of UPDATE and DELETE and the unique indexes.

| component | state | operations that change it | what is hard | what makes it correct |
|---|---|---|---|---|
| billing | plans, subscriptions, invoices, payments, credential limits | AssignSubscription, RunSubscriptionExpiryCheck, MarkInvoicePaid/Failed, Approve/RejectPayment, CreatePlan, UpdatePlan | handlers check no earlier state; replaced plans; other modules write the same columns | one live subscription per organization; invoice, payment and subscription agree; limits follow standing and respect administrators |
| webhooks | send_logs, bounces, suppressions | ProcessPostalEvent | repeated and concurrent deliveries, cut-short requests, work after the commit | each event takes effect once; answered means stored |
| usage, quota | usage_records, quota_*_used, Redis minute counter, quota limits | RecordSendLogEvent, RecordAcceptedEvent, resets, UpdateCredentialQuota, SetCredentialLimited, organization quotas | increments racing resets; answers put together from several reads | counters count every accepted event since the reset, once; no request undoes another's limit; an answer names what held |
| worker | worker_job_runs | runCycle, runJob and its six jobs | crashes between check, work and record; late ticks; overlapping workers; a failing job ends the cycle | once per run key; a recorded run took effect |
| retention | organization_retention_policies, old send_logs | UpdatePolicy, RunCleanup | deletes the rows that detect repeats | deletes only what is old |
| auth, login throttle | users, Redis failure counter and block | Login, RecordFailure, Reset | three Redis commands with nothing around them, concurrent attempts | repeated failures lead to a block that ends |
| domains | domains, dns_checks | Create, Verify | concurrent verifications, flag written after the transaction | the verified flag agrees with the stored checks |
| credentials | smtp_credentials | Create, Rotate, Revoke | checks and writes in separate statements | credentials appear only on verified domains of unsuspended organizations; a replaced secret stays dead |
| adminv2 | organizations.suspended, bulk disabling | suspend, reactivate, disable all, force rotation | races with customers' requests | no credential appears behind a suspension |
| deliverability | snapshots, health checks, alerts | GenerateSnapshots, GenerateAlerts, ResolveAlert, RecheckDomain | look-then-insert of alerts; a score written to three tables in three statements; rates at thresholds and at zero | open alerts of one type are bounded, none is overlooked; all pages show one score after a whole snapshot |
| crypto keyring | none (configuration); smtp_credentials.password_key_id | NewKeyring, Encrypt, Decrypt | keys rotated away while processes of an older configuration run | every stored secret stays readable under the deployed keys |
| application, platform | processes, users (the first admin) | configuration, start-up, EnsureFirstAdmin, shutdown | containers that start together, outages, restarts | every container with a valid configuration ends up serving |
| organizations | organizations, owners | CreateCustomerOrganization | its owner's email may be the first admin's | one transaction |
| logs, auditlogs, ops, HTTP layer, billing providers, dashboard | rows nothing reads back, or none | reads, inserts | - | - |

## 2. Modules

| module | models |
|---|---|
| `Billing` | billing, with the credential creations and administrators' limits that share its columns |
| `BillingGate` | the promise: an organization's standing and its credentials' billing locks change in one step |
| `StandingMoves` | the promise when transactions overlap: extends `BillingGate` with a change of standing that reserves credentials first and moves them later, or is abandoned |
| `Ingest` | webhook ingestion with its quota and usage effects, resets, and retention |
| `EventLedger` | the promise: each event takes effect once |
| `Worker` | the worker process, its jobs, run keys, and the effects of the resets and the expiry check |
| `LoginThrottle` | a login and the throttling of failures in Redis, command by command |
| `Domains` | the verification of a domain, with what READ COMMITTED lets its transactions see |
| `Sending` | extends `Domains` with credentials, the checks of their creation, rotation, suspension |
| `Sessions` | extends `Billing`: its transactions statement by statement, with locks, deadlocks and rollbacks, on the connections of a pool |
| `Deliverability` | the snapshot and alert jobs of a domain, scores and rates, the pages that show them |
| `Deployment` | processes from their configuration to shutdown, the first admin, the keyring and the secrets under it |
| `Quotas` | limits, uses and plans, and the answers that requests put together about them |
| `MCBilling`, `MCIngest`, `MCWorker`, `MCSending`, `MCSessions`, `MCDeliverability`, `MCDeployment`, `MCQuotas` | small instances for TLC: symmetry sets, the events, inputs, configurations and requests of an instance |
| `BillingProofs`, `IngestProofs`, `WorkerProofs`, `LoginThrottleProofs`, `SendingProofs`, `DeliverabilityProofs`, `DeploymentProofs`, `QuotasProofs` | the TLAPS proofs |

`Billing` implements `BillingGate` under the mapping `Gate` (standing, owner, lock), and
`Ingest` implements `EventLedger` under `Ledger`, where logging an event is its one
effective step. `Sessions` implements `StandingMoves` under `Moves`: a move is on its way
from the sync of a transaction to its COMMIT or ROLLBACK. Definitions marked `\* mutant`
are deliberately wrong variants used to confirm that a property can fail; no specification
uses them.

### Billing

Variables are columns: `subOrg`, `subStatus`, `periodEnd` of subscriptions, `invoice`
and `payment` (the status of the only invoice of a subscription and of its only
payment), `credOrg`, `limited`, `limitReason` of smtp_credentials. `creating` holds the
requests that have passed `ensureOrganizationAllowsCredentialCreate` and have not yet
inserted their row (`credentials/service.go` Create does both with no transaction).
`exempt` is a history variable: credentials that came in, or that an administrator
opened, after the restriction that would have limited them.

Each of the billing operations is one transaction of the code and one action. This
assumes that two transactions on the same organization serialise. They write common
rows (the subscription, and through `syncOrganizationCredentialBillingLimit` the
credentials), and a transaction that would leave two live subscriptions fails at
`idx_subscriptions_active_org`; this is the guard `UniqueLive` of `AssignSubscription`
and `Settle`. What READ COMMITTED adds below that level is module `Sessions`.
`AssignSubscription` keeps the code's choice of status; the provider check, names and
amounts are left out. Prices matter only through "greater than zero", texts of limits
only through whether they match `LIKE 'subscription_%'`, so an administrator's text may
be one that billing takes for its own. That it is exactly `subscription_expired`, or
another of the three that billing writes, is left out (`ReasonsAssumption`): such a row
cannot be told from one of billing's.

### Ingest

Postal is external: `Deliver` hands any event that has no 202 yet to any idle handler,
also while an earlier attempt of the event is still running. The transaction of
`webhooks/service.go` is one step with three outcomes: `Commit`, `Duplicate` (the
`ON CONFLICT (postal_message_id, status) DO NOTHING` returned no row: the handler
answers 202 at once) and `RollBack`. A concurrent insert of the same key waits for the
first to commit or roll back, which is why one step is enough. After the commit,
`RecordAcceptedEvent` (Redis) and `RecordSendLogEvent` (usage_records) may each fail
without consequence for the answer; `Die` cuts an attempt short anywhere. go-redis
repeats a command whose answer was lost, at most `MaxRepeats` times in a run
(`RepeatAcceptedEvent`), and `EffectsApplyOnce` allows the minute counter that much. Resets,
quota updates, expiry of the minute key, and retention interleave freely. `applied`,
`today` and `thisMonth` are history variables for the properties.

Assumptions: every event carries a Postal message id (the unique index does not cover
NULL); Postal gives an event up long before its log reaches the retention age
(`RunCleanup` deletes no log of an event still in the outbox or in a handler).

### Worker

A worker moves through `check`, `work` and `record` for each entry of `JobOrder`. `at`
is the `now` that `runCycle` computes its run keys from: the time of the tick, which may
be old when a cycle took longer than the interval. The resets write with the database's
time, the expiry check with the cycle's time; `dailySince`, `monthlySince` and `sweptTo`
record what the data reflects. `Crash` stops the process at any step, `AbortCycle`
is a statement or job that fails: `runCycle` returns the first error and the rest waits.
Time is counted in hours from one clock; `HoursPerDay` and `DaysPerMonth` are
parameters.

`mode` is how the database client executes statements, which `DATABASE_URL` may choose
once and for all. The statement that records the start of a run passes its key to
`jsonb_build_object`, whose arguments may be of any type
(`src/backend/internal/worker/service.go:152`). In pgx's own mode, `cache_statement`, which
the shipped `DATABASE_URL` does not change, PostgreSQL is asked to prepare it without the
type of the key and refuses (`RunKeyTyped`, `InsertRefused`): the cycle ends at its first
job that is due. In `simple_protocol` the key is a literal and the row is written. The
other modes of pgx are not modelled. So with the client as shipped no job runs (section
4). The resets of `Ingest`, the expiry sweep of `Billing` and `Sessions` and the jobs of
`Deliverability` are modelled for what they do when they run.

### LoginThrottle

One pair of an email and a client address, as pairs share no key. `fails` and `failTTL`
are the failure counter and its remaining time (0 while it has none), `blockTTL` the
block. A login is at one of the steps `compare`, `reset`, `incr`, `expire`, `block`,
`clear`, and every Redis command is an action of its own; `Tick` takes a unit of time
from both keys and deletes what runs out. Errors, answers lost so that go-redis repeats
INCR, and requests cut short at any step are faults, counted against `MaxFaults`. Whether
the password is right is nondeterministic. `unpunished` is a history variable: failed
logins since the last block, correct login or expiry of the counter.

### Domains and Sending

One domain and its organization. A verification goes through `delete`, `insert`,
`commit` and `flag`. Its DELETE sees the rows committed when it starts (`seen`), waits
while another open transaction has deleted one of them, and skips those that are gone by
then; rows committed later stay. The rows of one verification come and go together, so
`stored` holds verifications. The flag is a statement after the commit. `CutVerify` ends
a verification anywhere and rolls an open transaction back. A domain is verified again
by its owner and by the deliverability recheck, so verifications overlap.

A creation reads `verified`, `suspended`, and the subscription in three steps and
inserts in a fourth; what the subscription says is module `Billing`'s subject, so here
the check may pass or not. A rotation loads an enabled credential, writes the secret
without asking again, inserts its audit row, and answers. Loads that decide nothing
(`Revoke`, the administrator's disable) are one step with their write. `before` and `old`
are history variables.

### Sessions

The variables of `Billing` are the committed tables, and `Sessions` adds the transactions
that are open: `op`, the number of its next statement (`position`; `At` and `Done` say
which statement that is and which are behind it), the rows `held`, the subscriptions that
an UPDATE has found and not visited (`targets`), the credentials it has synchronised
(`synced`). `Statements` lists the statements of `transitionInvoice`,
`transitionPayment`, `AssignSubscription` and `RunSubscriptionExpiryCheck` in the order
of the code. An UPDATE waits for the rows another transaction holds and looks at them
again (`VisitSubscription`); the statement that makes a subscription live waits for, or
fails beside, another entry of `idx_subscriptions_active_org` (`EnterIndex`). What a
transaction writes becomes visible in `Commit`; `Rollback` ends it anywhere, and
`AbortDeadlocked` is PostgreSQL ending one of a circle. A transaction keeps one
connection. `credentials.List`, `domains.List` and `RecheckAllDomains` keep one for
their rows and take another for each row (`OpenRows`, `QueryRow`, `EndQuery`,
`CloseRows`).

Assumptions: fewer such lists than connections (`PoolAssumption`; nothing in the code
limits them, see section 4); PostgreSQL visits the rows of an UPDATE in the order of
their numbers; subscriptions are numbered in commit order, where `created_at` is the time
of BEGIN.

### Deliverability

One domain, as domains share only the job that visits them in turn. A snapshot job works
with the time of its cycle (`cycle`), a tick that may be old, so that the times of
different workers come in any order; a worker's own rise. It reads an input (counts, found
DNS records, a limited credential) and writes it to `deliverability_snapshots`,
`domain_health_checks` and `domains` in three actions; a row stands for the input it was
computed from. A health check carries the time of the cycle (`checkedAt`), and its readers
take the latest by that time, either of two that are equal; the snapshots and the flag of
the domain go by the order of writing. `Score` (clamped at 0), `RateAtLeast` and
`StoredRate` are the code's arithmetic: the process compares doubles, the tables keep
NUMERIC(7,4). The alert job scans the latest snapshot and then, for each type that is
`Over`, looks for an open alert and inserts one in two actions. `Cut` ends a job anywhere;
`ResolveAlert` is the administrator's. `alone`, `whole`, `newest` and `met` are history
variables: the jobs nothing overlapped, whether the latest snapshot's job was one and is
complete, whether no other worker had begun a cycle of its time or a later one, the alerts
a job has met open.

### Deployment

`environment` is what a container was created with, `deployed` what the operator has
edited since; `docker compose` recreates a container whose configuration changed
(`SignalShutdown`, `Recreate`) and restarts a process that exits. A process goes through
`validate`, `postgres`, `redis`, `look`, `insert`, `keyring` (cmd/api/main.go and
`app.New`); what fails exits. The first admin is looked for and inserted in two
statements. A serving process encrypts a secret under its active key (`Encrypt`) and
stores it in a later statement (`StoreSecret`); the cipher text is the key that made it.
`EditConfig` follows the manual rotation of the repository's `README.md`: the operator
keeps a key while a stored secret needs it or a container encrypts with it (`Keeps`);
`BackfillKeyIds` is the statement that flow gives for old rows. A key id names one key
for good.

### Quotas

`limit`, `used`, `enabled`, `manual` are columns of smtp_credentials, `minute` is the Redis
counter, `planQuota` and `override` the daily quotas of plans and of the organization. A
request is one of the list with its runtime state, setting limits, enabling, disabling,
the usage overview, and setting the override; each goes through its statements one by
one while `Write` lets anybody else change what it reads. Errors the code drops
(`CheckManual`, `BuildSnapshot`, `ResetMinute`, `LoadSubscriptionQuotas`) are outcomes.
`named` is the last value given to each limit; `ever` and `always` are the reasons that
held at some moment, and at all moments, of a request; `moved` the reasons that compare
two reads of which the first was out of date by the second. `BuildSnapshot` takes the time
and reads the counter of that minute in one step; in the code the minute may turn in
between, and the answer about the limit per minute is then about the minute that has
just ended.

## 3. What is checked

| run | instance | result |
|---|---|---|
| `billing` | 2 organizations, 2 credentials, 2 subscriptions, 1 tick, one administrator's text inside the billing namespace and one outside | passes: `CredentialLimitsFollowStanding`, `LiveStatusFollowsInvoice`, `BillingKeepsAdminLimits`, `ImplementsGate` |
| `sessions` | 3 transactions (4 begun in all), 2 lists, 3 connections, 1 organization, 1 credential, 2 subscriptions | passes: `CredentialLimitsFollowStanding`, `SettledTogether`, `OnlySettlementsDeadlock`, `SomeoneProceeds` |
| `ingest` | 5 events (two accepted of one credential, a soft and a hard bounce, an unmatched one), 2 handlers | passes: `EffectsApplyOnce`, `AnsweredIsLogged`, `ImplementsLedger` |
| `ingest_live` | 3 events, 2 handlers, fair | passes: `EventuallyAnswered` |
| `ingest_bounce` | 3 events, 2 handlers, fair | violated: `HardBouncesPersisted` |
| `worker` | 2 workers over a change of day and of the first of the month, clients of both modes, no faults but refused statements | passes: `JobsRunOnce`, `SucceededTookEffect`, `CompleteCycleDidAll` |
| `worker_as_shipped` | 1 worker with the client as shipped, 5 hours with changes of hour, day and month, 1 fault at any step, fair | violated: `CyclesComplete` |
| `login_throttle` | 2 logins, 2 failures allowed, windows of 2 and 3 units, 2 faults, fair | passes: `FailuresLeadToLockout`, `CounterExpires`, `LockoutEnds` |
| `sending` | 3 verifications, 1 credential, 2 rotations | passes: `LeftoversOverlapped`, `AloneLeavesAgreement`, `SuspensionStopsCreation`, `RotationEndsOldSecret` |
| `deliverability` | 2 workers, 3 inputs, cycles of 2 times | passes: `DuplicatesBounded`, `NothingOverlooked`, `WholeSnapshotAgrees`, `AlertsFollowPenalties` |
| `deployment` | 2 containers, an old and a new key, 2 emails, 1 credential, 6 configurations, 2 edits, 1 fault, fair | passes: `SecretsReadable`, `EveryContainerServes` |
| `quotas` | 1 credential, 1 plan, 2 requests of 9 kinds, 1 change by another | passes: `LimitsKept`, `AnswersHold` |

What they say of the code. Two ways to settle one invoice, by itself and by its payment,
may deadlock; so may a settlement of a subscription that is no longer live, between a
sweep that holds the live one and a sweep that had found the settled one. Nothing else
deadlocks, assignments never do, and the abort leaves the committed tables as `Billing`
has them. `BillingGate` is promised by `Billing` and not by `Sessions`: a credential that
is inserted, or opened by an administrator, between the sync of a transaction and its
COMMIT stays open under the new restriction (`exempt` counts it among those that came in
after it). What `Sessions` keeps is `StandingMoves`, which is proved; no run states it, as
the instance of `sessions` takes nearly five minutes with it (it passes there, and on
instances of two organizations and of two transactions). A login that set the block
deletes the counter later, with the failures counted since; without faults up to
`MaxFailures` failures per concurrent login stay without a lockout, and the model reaches
that number. The counter has an expiry, or its creator is about to set it, unless there
was a fault. Two verifications that overlap may leave both sets of rows, which the
dashboard adds up, and a flag that disagrees with them; the next one that nothing overlaps
repairs both. Of two rotations that overlap both are answered with a secret and one of
them works, and neither brings the old one back. Overlapping workers leave at most as many
open alerts of a type as there are workers, and a snapshot cut between its writes leaves
pages that disagree until the next whole one. Where a worker has written with a later
time, a job of an earlier cycle makes them disagree although nothing overlaps it: the
overview and the customer's list then show the earlier cycle's score, the page of the
domain the other. A container that loses the race for the first admin's row exits, and
serves after a restart. An answer about limits mixes moments; it names only reasons that
held at some moment of its request, and misses none that held throughout, but for the
exceptions that `AnswersHold` lists.

Each module also has one type invariant (`TypeOK`, in Sessions `SessionsTypeOK`).
Every property is stated with its meaning next to its definition.

**Bounds.** Billing: two subscriptions are what it takes to replace a plan and settle the
old one; two organizations and two credentials show that a transaction touches its own
organization, and all of it. Periods of length 0 make a subscription lapse at the first
tick, before or after any other step. Ingest: an error in counting needs two attempts of
one event, and a second event of the same credential; a third handler only repeats the
roles of the first two, since each attempt reads and writes the tables in one step.
Worker: two workers are needed for the race between the look and the record; a change of
day (and, with `HoursPerDay = 1`, of hour) for stale ticks, and in `worker_as_shipped` two
days of two hours to a month for its first and its other day. Two workers and faults
together are too large for TLC; the theorems below cover any number of workers, hours and
faults. LoginThrottle: two logins for one that outlives the other's block; windows of
different lengths, so that either key expires first. Sending: two verifications overlap
and a third begins after one of them, waits for it or repairs what they left; two
rotations overlap, and the credential is created, disabled and enabled around them.
Sessions: two transactions make a deadlock of two, and the third the longer circles that
one organization has; a fourth begins on what the others left. The circle of a settlement
and two sweeps needs more than that, two organizations and three subscriptions: it was met
on such an instance, which is too large to keep as a run, when the proof of the first
version of `OnlySettlementsDeadlock` (two settlements of one invoice, and nothing else)
failed. The theorem covers all sizes. Two lists and three connections are the fullest pool
that `PoolAssumption` allows. Everything in it is about one organization: locks and index
entries of others are apart. Deliverability: two workers overlap in every pair of steps;
the inputs are a rate just under its threshold that storing rounds up, one with everything
wrong (105 points, so that the score is clamped) and the rates at their thresholds, and
one whose rate overflows its column. Two cycle times let a job follow one of a later time,
of the same time, or of an earlier one that was cut. Deployment: the six configurations
are the steps of a rotation and its two mistakes, two edits go from the old key alone to
the new one alone, and the fault is a crash or an outage. Quotas: two requests and one
further change show each pair of reads with a write in between; values are 1 or none, as
only "reached" matters. The bounds `MaxSubs`, `MaxTime`, `MaxBegun`, `MaxEdits`,
`MaxChanges`, `MaxAsked`, `MaxCycle` and `MaxFaults` only end the exploration, and the
proofs do not depend on them. Runs disable symmetry wherever they check liveness.

**Deadlock** is checked in every run but `sending` and `quotas`, whose requests are
finitely many and may all have ended. Each other model has a step that is always possible (an
administrator's decision, a reset, a ticker, a cycle, time), as the system is never done.

**Fairness.** Ingest: Postal goes on sending an event it got no 202 for (strong fairness
of `Deliver` per event); an event whose attempts reach the database again and again is not
cut short every time (strong fairness of `Process` per event); an attempt that is not cut
short goes on (weak fairness of the two steps after the commit, net/http gives each
request its own goroutine). Nothing is assumed of resets or retention. Worker: time
passes, the process is started again when it has died (the deployment restarts its
container), its ticker fires, and it takes its steps, a refused statement included, each
weakly fair; other faults are finitely many. The counterexample of `worker_as_shipped` is
fair: the worker starts a cycle at every tick. LoginThrottle: time passes and a request
that is not cut short goes on; nobody has to log in. Deployment: a process goes on
starting, compose restarts it when it exits and recreates it when its configuration
changed (`restart: unless-stopped`, weak fairness of `Start` and of the shutdown steps),
and an outage ends; nobody has to edit or send requests. Billing, Sessions, Sending,
Deliverability and Quotas state safety only and assume no fairness.

## 4. Findings

`ingest_bounce`: `docs/architecture.md:24` says bounce outcomes and suppression state are
persisted. The upsert of a hard bounce (`webhooks/service.go:186`) names columns without
a unique index, so its transaction always fails.

`worker_as_shipped`: `docs/operations-runbook.md:19` says that the worker runs expiry
checks, resets, snapshots, alerts and the clean-up on schedule (`README.md:168` lists
them). The row of a run is inserted with `jsonb_build_object('run_key', $2)`
(`src/backend/internal/worker/service.go:152`), which gives the parameter no type, and
nothing casts it. pgx v5 in its default mode prepares the statement without parameter
types, and PostgreSQL answers "could not determine data type of parameter $2" (42P18).
`runJob` returns the error before it does the job, `runCycle` before the next jobs, at
every tick, while the process stays up. `simple_protocol` in `DATABASE_URL` avoids it,
which `.env.example:22` does not set: with `ExecModes = {"simple_protocol"}` the same
instance passes. A cast (`$2::text`) would do so in every mode. The UPDATE that marks a
run as failed (line 160) has the same form, and its error is dropped.

Other differences and limits, met while modelling, that follow from one line of the code
and have no run:

- An approval changes the subscription it paid for, while credential creation and the
  runtime state read the subscription *created last* (`credentials/service.go:529`):
  after a plan change, paying the older one leaves the restriction in place
  (`docs/architecture.md:25` says approvals update it).
- The usage record of an accepted event is written after the commit
  (`webhooks/service.go:207`) and a repeated delivery is a duplicate, so an attempt that
  ends in between loses it (`README.md:164`, `docs/usage-quota.md:6`).
- The monthly reset is attempted only in a cycle whose day is 1
  (`src/backend/internal/worker/service.go:104`; `README.md:169`).
- The health score never recognises a DMARC row and counts any TXT row that is found as
  SPF (`deliverability/service.go:506`; `docs/deliverability-health.md:8`).
- A rate is stored as a ratio, and one of 1000 or more (a thousand bounces of earlier mail
  for one message accepted) does not fit its column and fails the snapshots of all
  domains after it (`deliverability/service.go:343`); the page of a domain without a
  health check scans NULLs and answers with an error (`deliverability/service.go:555`).
- `UpdatePlan` takes absent numbers and texts of a PATCH for new values (price, trial,
  overage, currency, description), and cannot take a quota away
  (`billing/service.go:258`).
- As many concurrent lists as the pool has connections wait for each other for good
  (`credentials/service.go:139`).

## 5. What is proved

All theorems hold for every value of the constants under the named assumptions of the
modules (bounds are natural numbers, "no organization" is not an organization, event
kinds are disjoint, and so on). No statement is assumed.

*BillingProofs.* The inductive invariant is `IInv`: `TypeOK`, `RowsInv` (a subscription
numbered up to `created` belongs to an organization, one beyond it is empty; an invoice
exists exactly with its payment), `UniqueLive`, and `CredentialLimitsFollowStanding`.
Uniqueness is needed because the standing of an organization is that of *the* live
subscription: with two of them a settlement would move the one and leave the other's
limits in place. `InductiveInvariant` proves `IInv`; from it follow
`LimitsFollowStanding`, `SettlementLeavesOne`, `AdminLimitsKept` and `Refinement` (the
initial states map, and every step is an `Enter`, `AddCredential`, `SetLock` or stutter
of the gate). A second invariant, over the invoice rows, gives `ServiceFollowsPayment`
and `InvoiceAndPaymentSettleTogether`.

*BillingProofs, of Sessions.* The first aim is that the committed tables satisfy what
`Billing` states of them although the transactions interleave. A COMMIT writes what
follows from the rows its transaction has locked, so `SessionsInv` says of every
transaction what it holds at each statement: a settlement the rows it has passed, an
assignment or a sweep subscriptions that are live, one of each organization and in
ascending order (`SettlementInv`, `UpdateInv`); that locks exclude each other
(`Exclusive`); that who has entered the unique index for an organization has locked its
live subscription and is the only one (`IndexInv`, `IndexedOnce`); and that after its sync
a transaction has locked every credential of its organizations that it must write
(`SyncInv`). The tables' part is the invariant of `Billing` itself, so that steps outside
transactions are covered by the lemmas above. There is one lemma per statement
(`UpdateRowStep`, `FindStep`, `VisitStep`, `IndexStep`, `SyncStep`), which needs to say of
the other transactions only that they stay as they are (`OneTxStep`), and the COMMIT in
three parts: what each kind leaves in the tables (`CommittedTables`), that limits follow
(`CommitFollows`), and what others may rely on across it (`CommitFrame`,
`CommitOtherTx`). `OrgsDisjoint` is the key fact: two transactions that have come to their
sync never share an organization, as both would hold its live subscription. Hence nobody
waits for a credential (`CredentialsFree`), and no COMMIT undoes another's limits.
`SessionsInvariant` gives `SessionsTypeCorrect`, `SessionsLimitsFollowStanding`,
`SessionsSettleTogether` and `SessionsServiceFollowsPayment`; the action properties are
`SessionsAdminLimitsKept` and `SessionsSettlementLeavesOne`.

`SessionsRefinement` says the same as a refinement: every step of `Sessions` is a step of
`StandingMoves` or a stutter. A sync is `Reserve`, and that no other move of these
organizations is on its way is `OrgsDisjoint` (`SyncMoves`, `MovesApart`); a ROLLBACK is
`Abandon` (`FailMoves`); a COMMIT is `EnterReserved`, because what its transaction has
reserved is what `CommitLocks` finds changed (`CommitMoves`). Statements before the sync and
of requests without credentials leave the mapped state alone (`QuietMoves`), and a
statement outside transactions adds or sets a credential that nobody has reserved
(`OtherMoves`).

`DeadlocksAreKnown` takes a smallest circle of waits, in which everybody is waited for
(`Waited`) and two who wait for each other are all of it (`PairIsAll`). Who waits for a
payment does so with the invoice, and the holder of the payment wants it: the first
kind. Otherwise every member is a sweep at a visit or a settlement at the index
(`CircleMembers`: at any earlier statement nobody could wait for it, and an assignment
holds nothing that it could still wait beside). Sweeps alone visit in ascending order and
cannot close a circle (`SweepsInOrder`: look at the one with the highest next row), and a
settlement at the index waits for a sweep and is waited for by another one
(`IndexCircle`). `RequestsProceed` uses that finitely many transactions that all wait
contain a smallest circle (`SmallestCircle`, by well-foundedness of the subsets of a
finite set), and that while nobody has a transaction or a second connection the lists
leave one free (`ConnectionLeft`, where `PoolAssumption` enters).

*IngestProofs.* `LogInv` is what attempts rely on (`AttemptsInv`: the log of an event
stays while an attempt of it runs, and no two attempts are past the transaction with
the same event; `HistoryInv`: what is logged or counted was applied). The first part is
where the assumption on retention enters. `AnswersAreSafe` follows. `ExactlyOnce` adds
`CountInv`: `daily` and `monthly` are the numbers of counted events, and the minute
counter is bounded by the applied events *other than those at step "count"*, since
these may still add theirs; `CountAdd`, `CountForget` and `CountMonotone` are the facts
on cardinalities. `Refinement` shows that `Commit` is the ledger's `Apply` and that
every other step is a reset or a stutter.

*WorkerProofs.* A refused statement is a step that only ends the cycle, as a fault does
(`GivesUp`), so the theorems hold for clients of any mode. `TypeInv` adds that the time of
a cycle, of a tick in a channel and of a reset is not in the future (`WorkerInv`,
`ResetsPast`). `EffectsRecorded` strengthens its property with the runs that are done and
not yet recorded (`EffectInv`): the effect is in place, and as `dailySince`,
`monthlySince` and `sweptTo` never go back (`EffectStable`), it stays. `CompleteCycles`
carries, for a worker at position n, that all due jobs before n have succeeded for its
keys (`CycleInv`). `OncePerKey` bounds how often a job was performed by counting the
workers that have passed their look at the table and those that performed and have not
recorded.

*LoginThrottleProofs.* `CounterGetsExpiry` is inductive with the types.
`StreaksAreBounded` needs more: each unpunished failure is still in the counter, was
deleted with it by a login that is done clearing, or was hidden by a fault; the logins
that may still clear are those at `clear`, and each can do it once per block. The
invariant says this with the cardinalities of the sets of logins at each step.

*SendingProofs.* `ImplementsDomains` (every step of Sending is a step of Domains or leaves
it alone) carries the theorems about `DomainSpec` over. `RowsInv`: rows come from
verifications that have committed and never return, so that an open transaction has
deleted all it saw that is still there; `OnlyOverlapsLeaveRows` follows. `AloneInv`: while
the latest verification is alone nothing else runs, its DELETE sees all rows, and after
its commit only its own are left. `CreateInv` puts all stages of a creation, and not only
existing credentials, behind the verification and the suspension. `RotationInv` adds that
the secret of a rotation that has not written is nowhere, in the table or among the
secrets that others found.

*DeliverabilityProofs.* `DuplicatesStayBounded` counts: an insert moves a worker out of
the race and adds one alert. `NothingIsOverlooked` rests on `DueOrMet`, that each type the
scanned snapshot calls for is still due or was met. `WholeSnapshotsAgree` carries
`SnapshotInv`: snapshot jobs that are alone are alone (`Apart`), what such a job has
written so far agrees (`WrittenSoFar`), and a whole snapshot is in all tables when its job
is at rest (`WholeAtRest`). That it is on the pages which read by time, too, needs that no
stored time is later than the cycles that were begun (`ChecksTimed`). `AlertsAndPenalties`
is arithmetic: `DivAtLeast` and `StoredRateAtLeast` say what rounding to ten-thousandths
does to a comparison.

*DeploymentProofs.* `SecretsInv`: a process that encrypts has built its keyring
(`KeyringBuilt`), the active keys of all containers stay in the deployed configuration
(`ActiveKeysKept`), so do the keys of requests on their way (`RequestsSealed`), and
stored secrets can be read. It rests on the operator's guard `Keeps`: `EditConfig` may
drop no key that is needed, and the theorem says that this local rule is enough,
whatever the processes do meanwhile.

*QuotasProofs.* `LimitsAreKept` needs only that an UPDATE writes the columns that its
request names. `AnswersAreTrue` follows each request through its stages (`StageInv`, what
its row is and when nothing has been reported). `AnswerInv` says that what a request has
reported or read held at some moment or has moved (`Witnessed`, `ReportsWitnessed`,
`RowWitnessed`, `SumWitnessed`), and that what held throughout and was looked for has
been found (`NothingYet`, `FoundSoFar`, `FoundAll`). A step of another request changes
this request only through the history, which has its own lemma.

`SettlementLeavesOne`, `SessionsSettlementLeavesOne`, `InvoiceAndPaymentSettleTogether`
and `CreatedAfterVerification` are proved of properties that no run of their specification
states: guards that the models take over from the code (the unique index, the checks of a
creation) decide on the first two and the last, and the third is checked at the finer
grain of `Sessions`. `SessionsServiceFollowsPayment` and `SessionsAdminLimitsKept` carry
over to `Sessions` what the run `billing` checks of atomic transactions, and
`SessionsRefinement` is too long a run for the instance (section 3).

Only model-checked: liveness (`EventuallyAnswered`, `LockoutEnds`,
`EveryContainerServes`), which is out of the prover's reach, and the two violated
properties (`HardBouncesPersisted`, `CyclesComplete`), of which there are counterexamples.

## 6. Not modelled

Reads, rendering, the HTTP routes and middleware, the dashboard, the list of billing
providers: they change no state a property could be about. Cryptography, JWTs and
resolvers are libraries, and Postal's client consists of placeholders that return an
error. Audit and abuse logs are inserted and never read back by the program. Retention's
`UpdatePolicy` writes numbers that only the clean-up reads, and which logs are old is
nondeterministic.

## 7. Plan

Done: the specifications of section 2, with the proofs of section 5, which cover
every invariant and every action property of the runs. What is left, by importance:

1. In `Sessions`, UPDATEs that visit rows in any order: deadlocks of overlapping sweeps, and
   a proof that the tables do not depend on the order.
2. `Worker` and `Deliverability` composed, with the recheck job that verifies domains.
