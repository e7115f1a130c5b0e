------------------------------- MODULE Worker -------------------------------
(***************************************************************************)
(* The scheduled worker: cycles of jobs, each run once per run key, and    *)
(* what the resets and the expiry check do to the data.                    *)
(*                                                                         *)
(* A job takes three steps that nothing holds together: runJob looks for a *)
(* succeeded run of the key, the job does its work, and the run is recorded*)
(* as succeeded.  A process may die, a statement may fail and a second     *)
(* worker may run between any two of them.  Time is counted in hours.      *)
(*                                                                         *)
(* The row of a run is written by a statement whose parameter only the     *)
(* client can give a type: in the mode the shipped DATABASE_URL leaves it  *)
(* in the client gives none, and the server refuses the statement.         *)
(***************************************************************************)
EXTENDS Integers, Sequences, FiniteSets

CONSTANTS
    Workers,        \* worker processes (one is deployed; a restart may overlap)
    HoursPerDay,
    DaysPerMonth,
    ExecModes,      \* modes of the client that DATABASE_URL may choose
    MaxTime,        \* bound: the clock
    MaxFaults       \* bound: crashes and failing statements

ASSUME WorkersAssumption == IsFiniteSet(Workers)
ASSUME ModesAssumption == ExecModes \subseteq {"cache_statement", "simple_protocol"}
ASSUME TimeAssumption == /\ HoursPerDay \in Nat \ {0}
                         /\ DaysPerMonth \in Nat \ {0}
                         /\ MaxTime \in Nat
                         /\ MaxFaults \in Nat

Time == 0 .. MaxTime
NoTick == -1

(* The jobs of a cycle, in the order of runCycle. *)
JobOrder == << "daily_usage_reset", "monthly_usage_reset", "subscription_expiry_check",
               "deliverability_snapshots", "deliverability_alerts", "retention_cleanup" >>
Jobs == {JobOrder[i] : i \in 1 .. 6}
Hourly == {"deliverability_snapshots", "deliverability_alerts"}

Day(t)   == t \div HoursPerDay
Month(t) == Day(t) \div DaysPerMonth
FirstOfMonth(t) == Day(t) % DaysPerMonth = 0

(* jobKeyDay, jobKeyMonth, jobKeyHour *)
RunKey(j, t) == IF j = "monthly_usage_reset" THEN Month(t)
                ELSE IF j \in Hourly THEN t ELSE Day(t)

VARIABLES
    now,            \* the clock
    pc,             \* worker -> what it does next
    at,             \* worker -> the time its cycle works with
    next,           \* worker -> position in JobOrder
    tick,           \* worker -> the tick its ticker's channel holds, or NoTick
    inserted,       \* worker_job_runs: <<job, key>> that have a row
    succeeded,      \* ... and those with a row of status 'succeeded'
    dailySince,     \* quota_daily_used counts the mail accepted since then
    monthlySince,   \* quota_monthly_used counts the mail accepted since then
    sweptTo,        \* subscriptions whose period ended before this are expired
    performed,      \* history: how often the job was done for a key
    unrecorded,     \* history: how often that was not recorded as succeeded
    completed,      \* history: times whose cycle ran to its end
    faults,         \* number of crashes and failures so far
    mode            \* default_query_exec_mode of the client, as configured

workerVars == <<pc, at, next, tick>>
runVars    == <<inserted, succeeded>>
dataVars   == <<dailySince, monthlySince, sweptTo>>
history    == <<performed, unrecorded, completed>>
vars == <<now, workerVars, runVars, dataVars, history, faults, mode>>

(* What worker_job_runs can name: a job and the key of some cycle. *)
Runs == {<<j, RunKey(j, t)>> : j \in Jobs, t \in Time}

TypeOK ==
    /\ now \in Time
    /\ pc \in [Workers -> {"down", "waiting", "check", "work", "record"}]
    /\ at \in [Workers -> Time]
    /\ next \in [Workers -> 1 .. 7]
    /\ tick \in [Workers -> Time \cup {NoTick}]
    /\ inserted \subseteq Runs
    /\ succeeded \subseteq inserted
    /\ dailySince \in Time
    /\ monthlySince \in Time
    /\ sweptTo \in Time
    /\ performed \in [Runs -> Nat]
    /\ unrecorded \in [Runs -> Nat]
    /\ completed \subseteq Time
    /\ faults \in 0 .. MaxFaults
    /\ mode \in ExecModes

Init ==
    /\ now = 0
    /\ pc = [w \in Workers |-> "down"]
    /\ at = [w \in Workers |-> 0]
    /\ next = [w \in Workers |-> 1]
    /\ tick = [w \in Workers |-> NoTick]
    /\ inserted = {}
    /\ succeeded = {}
    /\ dailySince = 0
    /\ monthlySince = 0
    /\ sweptTo = 0
    /\ performed = [r \in Runs |-> 0]
    /\ unrecorded = [r \in Runs |-> 0]
    /\ completed = {}
    /\ faults = 0
    /\ mode \in ExecModes

-----------------------------------------------------------------------------
(* Cycles *)

Job(w)     == JobOrder[next[w]]
Run(w)     == <<Job(w), RunKey(Job(w), at[w])>>
Up(w)      == pc[w] # "down"
GoTo(w, l) == pc' = [pc EXCEPT ![w] = l]

StartCycle(w, t) ==
    /\ at' = [at EXCEPT ![w] = t]
    /\ next' = [next EXCEPT ![w] = 1]
    /\ GoTo(w, "check")
    /\ tick' = [tick EXCEPT ![w] = NoTick]

NextJob(w) ==
    /\ next' = [next EXCEPT ![w] = @ + 1]
    /\ GoTo(w, "check")
    /\ UNCHANGED <<at, tick>>

(* Run: the process starts, and with it its first cycle. *)
Start(w) ==
    /\ ~Up(w)
    /\ StartCycle(w, now)
    /\ UNCHANGED <<now, runVars, dataVars, history, faults, mode>>

(* The ticker's channel holds one tick, with the time at which it fired; a *)
(* cycle longer than the interval finds an old one.                        *)
TickerFires(w) ==
    /\ Up(w)
    /\ tick[w] = NoTick
    /\ tick' = [tick EXCEPT ![w] = now]
    /\ UNCHANGED <<now, pc, at, next, runVars, dataVars, history, faults, mode>>

RunCycle(w) ==
    /\ pc[w] = "waiting"
    /\ tick[w] # NoTick
    /\ StartCycle(w, tick[w])
    /\ UNCHANGED <<now, runVars, dataVars, history, faults, mode>>

EndCycle(w) ==
    /\ pc[w] = "check"
    /\ next[w] > Len(JobOrder)
    /\ completed' = completed \cup {at[w]}
    /\ GoTo(w, "waiting")
    /\ UNCHANGED <<now, at, next, tick, runVars, dataVars, performed, unrecorded, faults, mode>>

(* "if now.Day() == 1" *)
NotDue(w) == Job(w) = "monthly_usage_reset" /\ ~FirstOfMonth(at[w])

NeverDone(w)        == FALSE                        \* mutant: no look at earlier runs
DoneOnceInserted(w) == Run(w) \in inserted          \* mutant: a failed run counts, too
Done(w)             == Run(w) \in succeeded

SkipJob(w) ==
    /\ pc[w] = "check"
    /\ next[w] <= Len(JobOrder)
    /\ NotDue(w) \/ Done(w)
    /\ NextJob(w)
    /\ UNCHANGED <<now, runVars, dataVars, history, faults, mode>>

Waits(w) ==             \* at a job that is due and not done
    /\ pc[w] = "check"
    /\ next[w] <= Len(JobOrder)
    /\ ~NotDue(w) /\ ~Done(w)

(* jsonb_build_object('run_key', $2) takes arguments of any type, so the   *)
(* server cannot tell that of $2 when it is asked to prepare the statement;*)
(* the simple protocol sends the key as a literal in the text instead.     *)
RunKeyTyped == mode # "cache_statement"

InsertNothing(w) == UNCHANGED inserted      \* mutant: no row for the run
InsertRun(w)     == RunKeyTyped /\ inserted' = inserted \cup {Run(w)}

InsertRefused(w) == Waits(w) /\ ~RunKeyTyped

StartJob(w) ==
    /\ Waits(w)
    /\ InsertRun(w)
    /\ GoTo(w, "work")
    /\ UNCHANGED <<now, at, next, tick, succeeded, dataVars, history, faults, mode>>

ResetsSwapped(w) ==         \* mutant: each reset clears the other counter
    /\ dailySince' = IF Job(w) = "monthly_usage_reset" THEN now ELSE dailySince
    /\ monthlySince' = IF Job(w) = "daily_usage_reset" THEN now ELSE monthlySince
    /\ sweptTo' = IF Job(w) = "subscription_expiry_check" /\ at[w] > sweptTo
                  THEN at[w] ELSE sweptTo

(* What the job does: RunDailyReset, RunMonthlyReset and                   *)
(* RunSubscriptionExpiryCheck, which works with the time of the cycle.     *)
DoJob(w) ==
    /\ dailySince' = IF Job(w) = "daily_usage_reset" THEN now ELSE dailySince
    /\ monthlySince' = IF Job(w) = "monthly_usage_reset" THEN now ELSE monthlySince
    /\ sweptTo' = IF Job(w) = "subscription_expiry_check" /\ at[w] > sweptTo
                  THEN at[w] ELSE sweptTo

PerformJob(w) ==
    /\ pc[w] = "work"
    /\ DoJob(w)
    /\ performed' = [performed EXCEPT ![Run(w)] = @ + 1]
    /\ GoTo(w, "record")
    /\ UNCHANGED <<now, at, next, tick, runVars, unrecorded, completed, faults, mode>>

RecordSuccess(w) ==
    /\ pc[w] = "record"
    /\ succeeded' = succeeded \cup {Run(w)}
    /\ NextJob(w)
    /\ UNCHANGED <<now, inserted, dataVars, history, faults, mode>>

(* A worker that dies or fails in the middle of a cycle. *)
Fault(w, l) ==
    /\ pc[w] \in {"check", "work", "record"}
    /\ faults < MaxFaults
    /\ faults' = faults + 1
    /\ GoTo(w, l)
    /\ unrecorded' = IF pc[w] = "record"
                     THEN [unrecorded EXCEPT ![Run(w)] = @ + 1] ELSE unrecorded

(* Between two cycles the process may be stopped at any time. *)
Crash(w) ==
    /\ \/ pc[w] = "waiting" /\ GoTo(w, "down") /\ UNCHANGED <<unrecorded, faults>>
       \/ Fault(w, "down")
    /\ UNCHANGED <<now, at, next, tick, runVars, dataVars, performed, completed, mode>>

(* A statement or a job fails: runCycle returns the first error, and the   *)
(* jobs after it wait for a later cycle.  An insertion that the server     *)
(* refuses fails every time.                                               *)
AbortCycle(w) ==
    /\ \/ InsertRefused(w) /\ GoTo(w, "waiting") /\ UNCHANGED <<unrecorded, faults>>
       \/ next[w] <= Len(JobOrder) /\ Fault(w, "waiting")
    /\ UNCHANGED <<now, at, next, tick, runVars, dataVars, performed, completed, mode>>

HourPasses ==
    /\ now < MaxTime
    /\ now' = now + 1
    /\ UNCHANGED <<workerVars, runVars, dataVars, history, faults, mode>>

WorkerStep(w) ==
    \/ Start(w)
    \/ TickerFires(w)
    \/ RunCycle(w)
    \/ EndCycle(w)
    \/ SkipJob(w)
    \/ StartJob(w)
    \/ PerformJob(w)
    \/ RecordSuccess(w)

Next ==
    \/ \E w \in Workers : WorkerStep(w)
    \/ \E w \in Workers : Crash(w)
    \/ \E w \in Workers : AbortCycle(w)
    \/ HourPasses

Spec == Init /\ [][Next]_vars

(* The process is restarted when it dies, its ticker goes on, time passes, *)
(* and only so many faults (MaxFaults) happen.                             *)
Fairness ==
    /\ WF_vars(HourPasses)
    /\ \A w \in Workers : /\ WF_vars(Start(w))
                          /\ WF_vars(TickerFires(w))
                          /\ WF_vars(\/ WorkerStep(w) /\ ~TickerFires(w)
                                     \/ InsertRefused(w) /\ AbortCycle(w))

FairSpec == Spec /\ Fairness

-----------------------------------------------------------------------------
(* Properties *)

(* A job is done once for a key: every further time is accounted for by a  *)
(* run that a fault kept from being recorded, or by another worker that had*)
(* looked before the first was.                                            *)
JobsRunOnce ==
    \A r \in Runs : performed[r] <= Cardinality(Workers) + unrecorded[r]

(* A run recorded as succeeded did take effect, for the time its key names:*)
(* no mail of an earlier day or month is left in the counters, whatever the*)
(* order in which old ticks, reruns and other workers' resets came, and no *)
(* subscription that had ended before that day is left unexpired.          *)
SucceededTookEffect ==
    \A r \in succeeded :
        /\ r[1] = "daily_usage_reset" => Day(dailySince) >= r[2]
        /\ r[1] = "monthly_usage_reset" => Month(monthlySince) >= r[2]
        /\ r[1] = "subscription_expiry_check" => Day(sweptTo) >= r[2]

(* A cycle that ran to its end left none of its jobs undone: those it did  *)
(* not run itself had succeeded for the same key.                          *)
CompleteCycleDidAll ==
    \A t \in completed, j \in Jobs :
        (j = "monthly_usage_reset" => FirstOfMonth(t)) => <<j, RunKey(j, t)>> \in succeeded

(* The jobs run on schedule (operations-runbook.md:19): some cycle of the  *)
(* last hour ends, so all of its jobs succeed, those that earlier cycles   *)
(* gave up among them.                                                     *)
CyclesComplete == <>(MaxTime \in completed)

=============================================================================
