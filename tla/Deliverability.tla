--------------------------- MODULE Deliverability ---------------------------
(***************************************************************************)
(* The health of a sending domain: the worker's snapshots and alerts.      *)
(*                                                                         *)
(* The snapshot job computes a score from the usage records of the last 24 *)
(* hours, the domain's dns_checks and its credentials, and writes it to    *)
(* three tables in three statements.  The alert job reads the latest       *)
(* snapshots, and raises an alert of a type after looking whether one is   *)
(* open, in two statements without a unique index.  Workers may overlap,   *)
(* and a cycle may be cut at any step.                                     *)
(*                                                                         *)
(* Domains share no state but the job that visits them one after another:  *)
(* one is modelled, and a failure at another one cuts the job here.  What  *)
(* the job reads is one of Inputs, read in one step since the three tables *)
(* change independently.  A row that was computed from an input stands for *)
(* it by that input.                                                       *)
(*                                                                         *)
(* A snapshot job works with the time of its cycle, a tick that may be old *)
(* when the job begins.  Only the order of these times matters, so there is*)
(* no clock: they rise from job to job of a worker, and those of different *)
(* workers come in any order.                                              *)
(***************************************************************************)
EXTENDS Integers, FiniteSets

CONSTANTS
    Workers,
    Inputs,         \* what a snapshot may be computed from
    MaxCycle,       \* bound: times of snapshot jobs
    NoRow

Records == {"spf", "dkim", "dmarc"}

InputType == [accepted : Nat, delivered : Nat, bounced : Nat, rejected : Nat,
              deferred : Nat,
              found : SUBSET Records,   \* dns_checks rows that are found
              limited : BOOLEAN]        \* a credential is limited or disabled

ASSUME InputsAssumption == Inputs \subseteq InputType /\ NoRow \notin Inputs
ASSUME WorkersAssumption == IsFiniteSet(Workers)
ASSUME CycleAssumption == MaxCycle \in Nat

AlertTypes == {"high_bounce_rate", "delivery_degradation", "domain_health_low"}

VARIABLES
    snapshot,       \* latest row of deliverability_snapshots
    health,         \* latest row of domain_health_checks, by checked_at
    checkedAt,      \* its checked_at; 0 when there is none
    current,        \* domains.current_health_score
    open,           \* alert type -> number of open alerts
    resolved,       \* types of which there is a resolved alert
    pc,             \* worker -> what it does next
    cycle,          \* worker -> the time its latest snapshot job works with
    job,            \* worker -> what its job is about: the input its snapshot
                    \* job read, the snapshot its alert job scanned
    due,            \* worker -> types its alert job has still to look for
    alone,          \* history: snapshot jobs in progress that none has overlapped
    met,            \* history: worker -> types its alert job has met open
    whole,          \* history: the latest snapshot's job was never overlapped
                    \* and has made all three writes
    newest          \* history: ... and had the latest time of any so far

tables == <<snapshot, health, checkedAt, current>>
alerts == <<open, resolved>>
lone == <<alone, whole, newest>>
vars == <<tables, alerts, pc, cycle, job, due, met, lone>>

SnapshotStages == {"read", "snapshot", "health", "score"}
Stages == SnapshotStages \cup {"idle", "look", "insert"}

TypeOK ==
    /\ snapshot \in Inputs \cup {NoRow}
    /\ health \in Inputs \cup {NoRow}
    /\ checkedAt \in 0 .. MaxCycle
    /\ current \in Inputs \cup {NoRow}
    /\ open \in [AlertTypes -> Nat]
    /\ resolved \subseteq AlertTypes
    /\ pc \in [Workers -> Stages]
    /\ cycle \in [Workers -> 0 .. MaxCycle]
    /\ job \in [Workers -> Inputs \cup {NoRow}]
    /\ due \in [Workers -> SUBSET AlertTypes]
    /\ alone \subseteq Workers
    /\ met \in [Workers -> SUBSET AlertTypes]
    /\ whole \in BOOLEAN
    /\ newest \in BOOLEAN

Init ==
    /\ snapshot = NoRow
    /\ health = NoRow
    /\ checkedAt = 0
    /\ current = NoRow
    /\ open = [t \in AlertTypes |-> 0]
    /\ resolved = {}
    /\ pc = [w \in Workers |-> "idle"]
    /\ cycle = [w \in Workers |-> 0]
    /\ job = [w \in Workers |-> NoRow]
    /\ due = [w \in Workers |-> {}]
    /\ alone = {}
    /\ met = [w \in Workers |-> {}]
    /\ whole = FALSE
    /\ newest = FALSE

-----------------------------------------------------------------------------
(* Rates and scores *)

(* rate, compared in the process with a number of hundredths *)
RateAtLeast(value, total, percent) == total > 0 /\ 100 * value >= percent * total

(* rate as NUMERIC(7,4) stores it: rounded, in ten-thousandths *)
StoredRate(value, total) ==
    IF total = 0 THEN 0 ELSE (20000 * value + total) \div (2 * total)

(* The largest number of the column is 999.9999. *)
Overflows(i) ==
    \E n \in {i.delivered, i.bounced, i.rejected, i.deferred} :
        StoredRate(n, i.accepted) >= 10000000

(* The first row found counts as SPF, whatever its name; the comparison    *)
(* that should recognise DMARC is never true.                              *)
SpfFound(i) == i.found # {}
DkimFound(i) == "dkim" \in i.found
DmarcFound(i) == FALSE

Penalty(condition, points) == IF condition THEN points ELSE 0

Penalties(i) ==
    Penalty(~SpfFound(i), 20) + Penalty(~DkimFound(i), 20) + Penalty(~DmarcFound(i), 20)
        + Penalty(RateAtLeast(i.bounced, i.accepted, 5), 15)
        + Penalty(RateAtLeast(i.rejected, i.accepted, 5), 10)
        + Penalty(RateAtLeast(i.deferred, i.accepted, 10), 10)
        + Penalty(i.limited, 10)

(* All of them are 105 points, and no score is below 0. *)
Score(i) == IF Penalties(i) > 100 THEN 0 ELSE 100 - Penalties(i)

OverStrictly(i, t) ==       \* mutant: at the threshold is not over it
    CASE t = "high_bounce_rate" -> StoredRate(i.bounced, i.accepted) > 500
      [] t = "delivery_degradation" -> \/ StoredRate(i.rejected, i.accepted) > 500
                                       \/ StoredRate(i.deferred, i.accepted) > 1000
      [] t = "domain_health_low" -> Score(i) < 60

(* What GenerateAlerts finds in a snapshot *)
Over(i, t) ==
    CASE t = "high_bounce_rate" -> StoredRate(i.bounced, i.accepted) >= 500
      [] t = "delivery_degradation" -> \/ StoredRate(i.rejected, i.accepted) >= 500
                                       \/ StoredRate(i.deferred, i.accepted) >= 1000
      [] t = "domain_health_low" -> Score(i) < 60

-----------------------------------------------------------------------------
(* The snapshot job *)

GoTo(w, s) == pc' = [pc EXCEPT ![w] = s]

EndJob(w) ==
    /\ GoTo(w, "idle")
    /\ job' = [job EXCEPT ![w] = NoRow]
    /\ due' = [due EXCEPT ![w] = {}]
    /\ met' = [met EXCEPT ![w] = {}]
    /\ alone' = alone \ {w}

InSnapshotJob(w) == pc[w] \in SnapshotStages

BeginSnapshots(w, t) ==
    /\ pc[w] = "idle"
    /\ t > cycle[w]
    /\ cycle' = [cycle EXCEPT ![w] = t]
    /\ GoTo(w, "read")
    /\ alone' = IF \E v \in Workers : InSnapshotJob(v) THEN {} ELSE {w}
    /\ UNCHANGED <<tables, alerts, job, due, met, whole, newest>>

ReadInput(w) ==
    /\ pc[w] = "read"
    /\ \E i \in Inputs : job' = [job EXCEPT ![w] = i]
    /\ GoTo(w, "snapshot")
    /\ UNCHANGED <<tables, alerts, cycle, due, met, lone>>

InsertSnapshot(w) ==
    /\ pc[w] = "snapshot"
    /\ ~Overflows(job[w])
    /\ snapshot' = job[w]
    /\ whole' = FALSE
    /\ newest' = FALSE
    /\ GoTo(w, "health")
    /\ UNCHANGED <<health, checkedAt, current, alerts, cycle, job, due, alone, met>>

(* A rate that overflows its column is refused, and the job fails. *)
RefuseSnapshot(w) ==
    /\ pc[w] = "snapshot"
    /\ Overflows(job[w])
    /\ EndJob(w)
    /\ UNCHANGED <<tables, alerts, cycle, whole, newest>>

SkipHealthCheck(w) ==       \* mutant: the second write is left out
    /\ pc[w] = "health"
    /\ GoTo(w, "score")
    /\ UNCHANGED <<tables, alerts, cycle, job, due, met, lone>>

(* The row carries the time of the job's cycle, and the readers take the   *)
(* row with the latest: not this one, where another worker's job has       *)
(* written one of a later time, and either of two with the same time.      *)
InsertHealthCheck(w) ==
    /\ pc[w] = "health"
    /\ \/ cycle[w] >= checkedAt /\ health' = job[w] /\ checkedAt' = cycle[w]
       \/ cycle[w] <= checkedAt /\ UNCHANGED <<health, checkedAt>>
    /\ GoTo(w, "score")
    /\ UNCHANGED <<snapshot, current, alerts, cycle, job, due, met, lone>>

UpdateScore(w) ==
    /\ pc[w] = "score"
    /\ current' = job[w]
    /\ whole' = (w \in alone)
    /\ newest' = (w \in alone /\ \A v \in Workers \ {w} : cycle[v] < cycle[w])
    /\ EndJob(w)
    /\ UNCHANGED <<snapshot, health, checkedAt, alerts, cycle>>

-----------------------------------------------------------------------------
(* The alert job *)

(* What a snapshot calls for; nothing, as long as there is none *)
Calls(row) == IF row = NoRow THEN {} ELSE {t \in AlertTypes : Over(row, t)}

ScanSnapshot(w) ==
    /\ pc[w] = "idle"
    /\ job' = [job EXCEPT ![w] = snapshot]
    /\ due' = [due EXCEPT ![w] = Calls(snapshot)]
    /\ met' = [met EXCEPT ![w] = {}]
    /\ GoTo(w, "look")
    /\ UNCHANGED <<tables, alerts, cycle, lone>>

(* The types are looked for in this order. *)
Before(t) == CASE t = "high_bounce_rate" -> {}
               [] t = "delivery_degradation" -> {"high_bounce_rate"}
               [] t = "domain_health_low" -> {"high_bounce_rate", "delivery_degradation"}

NextDue(w, t) == t \in due[w] /\ due[w] \cap Before(t) = {}

Inserting(w, t) == pc[w] = "insert" /\ NextDue(w, t)

Meet(w, t) == met' = [met EXCEPT ![w] = IF open[t] > 0 THEN @ \cup {t} ELSE @]

Look(w, t, found) ==
    /\ pc[w] = "look"
    /\ NextDue(w, t)
    /\ IF found THEN due' = [due EXCEPT ![w] = @ \ {t}] /\ UNCHANGED pc
                ELSE GoTo(w, "insert") /\ UNCHANGED due
    /\ Meet(w, t)
    /\ UNCHANGED <<tables, alerts, cycle, job, lone>>

LookNowhere(w, t) == Look(w, t, FALSE)      \* mutant: inserts without looking

LookForAny(w, t) ==         \* mutant: a resolved alert counts as well
    Look(w, t, open[t] > 0 \/ t \in resolved)

LookForOpen(w, t) == Look(w, t, open[t] > 0)

InsertAlert(w, t) ==
    /\ Inserting(w, t)
    /\ open' = [open EXCEPT ![t] = @ + 1]
    /\ met' = [met EXCEPT ![w] = @ \cup {t}]
    /\ due' = [due EXCEPT ![w] = @ \ {t}]
    /\ GoTo(w, "look")
    /\ UNCHANGED <<tables, resolved, cycle, job, lone>>

FinishAlerts(w) ==
    /\ pc[w] = "look"
    /\ due[w] = {}
    /\ EndJob(w)
    /\ UNCHANGED <<tables, alerts, cycle, whole, newest>>

-----------------------------------------------------------------------------
(* An error at this or another domain, or the end of the process. *)
Cut(w) ==
    /\ pc[w] # "idle"
    /\ EndJob(w)
    /\ UNCHANGED <<tables, alerts, cycle, whole, newest>>

ResolveAgain(t) ==          \* mutant: counts an alert that is not open
    /\ open' = [open EXCEPT ![t] = @ - 1]
    /\ resolved' = resolved \cup {t}
    /\ UNCHANGED <<tables, pc, cycle, job, due, met, lone>>

ResolveAlert(t) ==
    /\ open[t] > 0
    /\ open' = [open EXCEPT ![t] = @ - 1]
    /\ resolved' = resolved \cup {t}
    /\ UNCHANGED <<tables, pc, cycle, job, due, met, lone>>

-----------------------------------------------------------------------------
(* What the readers see *)

(* buildOverview takes the average of the latest snapshots. *)
AverageHealthScore == IF snapshot = NoRow THEN 0 ELSE Score(snapshot)

(* loadDomainHealth reads the latest health check.  Without one, and so    *)
(* after the recheck of a new domain, it answers with an error.            *)
LoadDomainHealth == health

(* ListAllDomainHealth shows 0 for a domain without a health check.        *)
ListedScore == IF health = NoRow THEN 0 ELSE Score(health)

-----------------------------------------------------------------------------
Next ==
    \/ \E w \in Workers, t \in 1 .. MaxCycle : BeginSnapshots(w, t)
    \/ \E w \in Workers : ReadInput(w)
    \/ \E w \in Workers : InsertSnapshot(w)
    \/ \E w \in Workers : RefuseSnapshot(w)
    \/ \E w \in Workers : InsertHealthCheck(w)
    \/ \E w \in Workers : UpdateScore(w)
    \/ \E w \in Workers : ScanSnapshot(w)
    \/ \E w \in Workers, t \in AlertTypes : LookForOpen(w, t)
    \/ \E w \in Workers, t \in AlertTypes : InsertAlert(w, t)
    \/ \E w \in Workers : FinishAlerts(w)
    \/ \E w \in Workers : Cut(w)
    \/ \E t \in AlertTypes : ResolveAlert(t)

Spec == Init /\ [][Next]_vars

-----------------------------------------------------------------------------
(* Properties *)

(* However often the jobs run, are cut and overlap and alerts are resolved,*)
(* there are never more open alerts of a type than workers: the look before*)
(* the insert leaves no more than the race of those inside it.  With one   *)
(* worker an alert is never open twice.                                    *)
DuplicatesBounded ==
    \A t \in AlertTypes :
        open[t] + Cardinality({w \in Workers : Inserting(w, t)}) <= Cardinality(Workers)

(* Once a snapshot job that no other overlapped has made its three writes, *)
(* the overview and the customer's list of domains show its score, whatever*)
(* overlapping jobs or jobs cut between two writes left before; and so do  *)
(* the page of the domain and the list of all domains, which read by       *)
(* checked_at, when the job is also that of the latest cycle so far.       *)
WholeSnapshotAgrees ==
    whole => /\ snapshot # NoRow /\ current = snapshot
             /\ AverageHealthScore = Score(current)
             /\ newest => LoadDomainHealth = snapshot /\ ListedScore = Score(current)

(* What lowers the score also raises its alert, and the other way round but*)
(* for the half ten-thousandth that storing the rate may round up: the     *)
(* score is computed from the exact rates, alerts from the stored ones.    *)
AlertsFollowPenalties ==
    LET Near(value, percent) ==     \* at the threshold, or rounded up to it
            20000 * value >= (200 * percent - 1) * snapshot.accepted
    IN  snapshot # NoRow =>
        /\ RateAtLeast(snapshot.bounced, snapshot.accepted, 5)
              => Over(snapshot, "high_bounce_rate")
        /\ Over(snapshot, "high_bounce_rate") => Near(snapshot.bounced, 5)
        /\ RateAtLeast(snapshot.rejected, snapshot.accepted, 5)
              => Over(snapshot, "delivery_degradation")
        /\ RateAtLeast(snapshot.deferred, snapshot.accepted, 10)
              => Over(snapshot, "delivery_degradation")
        /\ Over(snapshot, "delivery_degradation")
              => Near(snapshot.rejected, 5) \/ Near(snapshot.deferred, 10)

(* An alert job that comes to its end has met every alert open, or raised  *)
(* it, that the snapshot it read calls for, also where an administrator    *)
(* resolved an earlier one and while other workers raise and skip the same.*)
NothingOverlooked ==
    \A w \in Workers : pc[w] = "look" /\ due[w] = {} =>
        Calls(job[w]) \subseteq met[w]
=============================================================================
