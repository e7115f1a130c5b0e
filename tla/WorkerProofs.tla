---------------------------- MODULE WorkerProofs ----------------------------
(***************************************************************************)
(* Proofs about Worker, for any number of workers, any calendar and any    *)
(* bounds on time and faults.                                              *)
(***************************************************************************)
EXTENDS Worker, FiniteSetTheorems, TLAPS

(* A cycle's time is never in the future, and a worker at or after a job's *)
(* work is at one of the six jobs and has inserted its row.                *)
WorkerInv ==
    \A w \in Workers :
        /\ at[w] <= now /\ tick[w] <= now
        /\ pc[w] \in {"work", "record"} => next[w] <= 6 /\ Run(w) \in inserted

(* Nor is a reset. *)
ResetsPast == dailySince <= now /\ monthlySince <= now

TypeInv == TypeOK /\ WorkerInv /\ ResetsPast

-----------------------------------------------------------------------------
(* The calendar and the jobs *)

LEMMA JobCount == Len(JobOrder) = 6 /\ \A i \in 1 .. 6 : JobOrder[i] \in Jobs
BY DEF JobOrder, Jobs

(* Later times have no earlier quotient. *)
LEMMA DivMonotone ==
    ASSUME NEW a \in Nat, NEW b \in Nat, a <= b, NEW n \in Nat \ {0}
    PROVE  a \div n \in Nat /\ b \div n \in Nat /\ a \div n <= b \div n
<1>. DEFINE p == a \div n
            q == b \div n
<1>1. p \in Int /\ q \in Int
  OBVIOUS
<1>2. n * p <= a /\ b < n * (q + 1) /\ a < n * (p + 1)
  OBVIOUS
<1>. QED
  BY <1>1, <1>2

(* Later times have no earlier day and no earlier month. *)
LEMMA CalendarMonotone ==
    ASSUME NEW a \in Nat, NEW b \in Nat, a <= b
    PROVE  /\ Day(a) \in Nat /\ Day(b) \in Nat /\ Day(a) <= Day(b)
           /\ Month(a) \in Nat /\ Month(b) \in Nat /\ Month(a) <= Month(b)
<1>1. Day(a) \in Nat /\ Day(b) \in Nat /\ Day(a) <= Day(b)
  BY DivMonotone, TimeAssumption DEF Day
<1>2. Month(a) \in Nat /\ Month(b) \in Nat /\ Month(a) <= Month(b)
  BY <1>1, DivMonotone, TimeAssumption DEF Month
<1>. QED
  BY <1>1, <1>2

LEMMA RunType ==
    ASSUME TypeOK, NEW w \in Workers, next[w] <= 6
    PROVE  Run(w) \in Runs
<1>1. next[w] \in 1 .. 6 /\ at[w] \in Time
  BY DEF TypeOK
<1>. QED
  BY <1>1, JobCount DEF Run, Job, Runs

(* A worker's run is a matter of its cycle's time and position only. *)
LEMMA RunFrame ==
    ASSUME NEW w \in Workers, at'[w] = at[w], next'[w] = next[w]
    PROVE  Run(w)' = Run(w) /\ Job(w)' = Job(w)
BY DEF Run, Job

(* A worker that gives its cycle up leaves a run unrecorded when it had    *)
(* done the job, and only then.                                            *)
LEMMA GivesUp ==
    ASSUME TypeOK, NEW w \in Workers, Crash(w) \/ AbortCycle(w)
    PROVE  /\ \E l \in {"down", "waiting"} : GoTo(w, l)
           /\ pc[w] = "record" => unrecorded' = [unrecorded EXCEPT ![Run(w)] = @ + 1]
           /\ pc[w] # "record" => unrecorded' = unrecorded
<1>1. CASE Fault(w, "down") \/ Fault(w, "waiting")
  BY <1>1 DEF Fault
<1>2. CASE ~(Fault(w, "down") \/ Fault(w, "waiting"))
  BY <1>2 DEF Crash, AbortCycle, InsertRefused, Waits
<1>. QED
  BY <1>1, <1>2

-----------------------------------------------------------------------------
(* Types *)

LEMMA NextType == TypeInv /\ [Next]_vars => TypeInv'
<1>. SUFFICES ASSUME TypeInv, [Next]_vars PROVE TypeInv'
  OBVIOUS
<1>. USE TimeAssumption DEF TypeInv, TypeOK, WorkerInv, ResetsPast, Time, NoTick
<1>1. ASSUME NEW w \in Workers, NEW t \in Time, StartCycle(w, t), t <= now,
             UNCHANGED <<now, runVars, dataVars, history, faults, mode>>
      PROVE  TypeInv'
  <2>1. \A v \in Workers \ {w} : Run(v)' = Run(v)
    BY <1>1, RunFrame DEF StartCycle
  <2>. QED
    BY <1>1, <2>1 DEF StartCycle, GoTo, runVars, dataVars, history
<1>2. ASSUME NEW w \in Workers, Start(w) PROVE TypeInv'
  BY <1>1, <1>2 DEF Start
<1>3. ASSUME NEW w \in Workers, TickerFires(w) PROVE TypeInv'
  BY <1>3, RunFrame DEF TickerFires, runVars, dataVars, history
<1>4. ASSUME NEW w \in Workers, RunCycle(w) PROVE TypeInv'
  BY <1>1, <1>4 DEF RunCycle
<1>5. ASSUME NEW w \in Workers, EndCycle(w) PROVE TypeInv'
  <2>1. \A v \in Workers : Run(v)' = Run(v)
    BY <1>5, RunFrame DEF EndCycle
  <2>. QED
    BY <1>5, <2>1 DEF EndCycle, GoTo, runVars, dataVars
<1>6. ASSUME NEW w \in Workers, NextJob(w), next[w] <= 6,
             UNCHANGED <<now, inserted, dataVars, history, faults>>
      PROVE  /\ WorkerInv' /\ ResetsPast' /\ next' \in [Workers -> 1 .. 7]
             /\ pc' \in [Workers -> {"down", "waiting", "check", "work", "record"}]
  <2>1. \A v \in Workers \ {w} : Run(v)' = Run(v)
    BY <1>6, RunFrame DEF NextJob
  <2>. QED
    BY <1>6, <2>1 DEF NextJob, GoTo, dataVars
<1>7. ASSUME NEW w \in Workers, SkipJob(w) PROVE TypeInv'
  BY <1>6, <1>7, JobCount DEF SkipJob, NextJob, runVars, dataVars, history
<1>8. ASSUME NEW w \in Workers, StartJob(w) PROVE TypeInv'
  <2>1. next[w] <= 6 /\ Run(w) \in Runs
    BY <1>8, JobCount, RunType DEF StartJob, Waits
  <2>2. \A v \in Workers : Run(v)' = Run(v)
    BY <1>8, RunFrame DEF StartJob
  <2>. QED
    BY <1>8, <2>1, <2>2 DEF StartJob, InsertRun, GoTo, dataVars, history
<1>9. ASSUME NEW w \in Workers, PerformJob(w) PROVE TypeInv'
  <2>1. next[w] <= 6 /\ Run(w) \in Runs
    BY <1>9, RunType DEF PerformJob
  <2>2. \A v \in Workers : Run(v)' = Run(v)
    BY <1>9, RunFrame DEF PerformJob
  <2>3. /\ dailySince' \in Time /\ monthlySince' \in Time /\ sweptTo' \in Time
        /\ ResetsPast'
    BY <1>9 DEF PerformJob, DoJob
  <2>. QED
    BY <1>9, <2>1, <2>2, <2>3 DEF PerformJob, GoTo, runVars
<1>10. ASSUME NEW w \in Workers, RecordSuccess(w) PROVE TypeInv'
  BY <1>6, <1>10 DEF RecordSuccess, NextJob, dataVars, history
<1>11. ASSUME NEW w \in Workers, Crash(w) \/ AbortCycle(w) PROVE TypeInv'
  <2>1. \A v \in Workers : Run(v)' = Run(v)
    BY <1>11, RunFrame DEF Crash, AbortCycle
  <2>2. unrecorded' \in [Runs -> Nat]
    <3>1. CASE pc[w] = "record"
      <4>1. Run(w) \in Runs
        BY <3>1, RunType
      <4>. QED
        BY <1>11, <3>1, <4>1, GivesUp
    <3>2. CASE pc[w] # "record"
      BY <1>11, <3>2, GivesUp
    <3>. QED
      BY <3>1, <3>2
  <2>3. /\ pc' \in [Workers -> {"down", "waiting", "check", "work", "record"}]
        /\ \A v \in Workers : pc'[v] \in {"work", "record"} => pc'[v] = pc[v]
    BY <1>11, GivesUp DEF GoTo
  <2>4. faults' \in 0 .. MaxFaults
    BY <1>11 DEF Crash, AbortCycle, Fault
  <2>5. UNCHANGED <<now, at, next, tick, runVars, dataVars, performed, completed, mode>>
    BY <1>11 DEF Crash, AbortCycle
  <2>. QED
    BY <2>1, <2>2, <2>3, <2>4, <2>5 DEF runVars, dataVars
<1>12. ASSUME HourPasses PROVE TypeInv'
  <2>1. \A v \in Workers : Run(v)' = Run(v)
    BY <1>12, RunFrame DEF HourPasses, workerVars
  <2>. QED
    BY <1>12, <2>1 DEF HourPasses, workerVars, runVars, dataVars, history
<1>13. ASSUME UNCHANGED vars PROVE TypeInv'
  <2>1. \A v \in Workers : Run(v)' = Run(v)
    BY <1>13, RunFrame DEF vars, workerVars
  <2>. QED
    BY <1>13, <2>1 DEF vars, workerVars, runVars, dataVars, history
<1>. QED
  BY <1>2, <1>3, <1>4, <1>5, <1>7, <1>8, <1>9, <1>10, <1>11, <1>12, <1>13
  DEF Next, WorkerStep

(* The clock, the cycles of the workers and the table of runs keep to      *)
(* their types: a succeeded run always has the row it was begun with.      *)
THEOREM TypeCorrect == Spec => []TypeOK
<1>1. Init => TypeInv
  BY TimeAssumption DEF Init, TypeInv, TypeOK, WorkerInv, ResetsPast, Time, NoTick
<1>2. TypeInv => TypeOK
  BY DEF TypeInv
<1>. QED
  BY <1>1, <1>2, NextType, PTL DEF Spec

-----------------------------------------------------------------------------
(* What succeeded runs did *)

(* What SucceededTookEffect says of one run. *)
TookEffect(r) ==
    /\ r[1] = "daily_usage_reset" => Day(dailySince) >= r[2]
    /\ r[1] = "monthly_usage_reset" => Month(monthlySince) >= r[2]
    /\ r[1] = "subscription_expiry_check" => Day(sweptTo) >= r[2]

EffectInv ==
    /\ \A r \in succeeded : TookEffect(r)
    /\ \A w \in Workers : pc[w] = "record" => TookEffect(Run(w))

LEMMA RunShape ==
    ASSUME NEW r \in Runs
    PROVE  r[1] \in Jobs /\ r[2] \in Nat
<1>1. PICK j \in Jobs, t \in Time : r = <<j, RunKey(j, t)>>
  BY DEF Runs
<1>2. t \in Nat
  BY TimeAssumption DEF Time
<1>3. RunKey(j, t) \in Nat
  BY <1>2, CalendarMonotone DEF RunKey
<1>. QED
  BY <1>1, <1>3

(* The data never goes back in time, so what took effect stays so. *)
LEMMA EffectStable ==
    ASSUME TypeOK, TypeOK',
           dailySince <= dailySince', monthlySince <= monthlySince', sweptTo <= sweptTo',
           NEW r \in Runs, TookEffect(r)
    PROVE  TookEffect(r)'
<1>1. /\ dailySince \in Nat /\ dailySince' \in Nat
      /\ monthlySince \in Nat /\ monthlySince' \in Nat
      /\ sweptTo \in Nat /\ sweptTo' \in Nat
  BY TimeAssumption DEF TypeOK, Time
<1>2. r[2] \in Nat
  BY RunShape
<1>3. /\ Day(dailySince) \in Nat /\ Day(dailySince') \in Nat
      /\ Day(dailySince) <= Day(dailySince')
      /\ Month(monthlySince) \in Nat /\ Month(monthlySince') \in Nat
      /\ Month(monthlySince) <= Month(monthlySince')
      /\ Day(sweptTo) \in Nat /\ Day(sweptTo') \in Nat
      /\ Day(sweptTo) <= Day(sweptTo')
  BY <1>1, CalendarMonotone
<1>. QED
  BY <1>2, <1>3 DEF TookEffect

(* A worker that has just done its job for a key has done it for that time.*)
LEMMA PerformEffect ==
    ASSUME TypeInv, TypeInv', NEW w \in Workers, PerformJob(w)
    PROVE  TookEffect(Run(w))'
<1>1. /\ at[w] \in Nat /\ now \in Nat /\ at[w] <= now
      /\ sweptTo \in Nat /\ sweptTo' \in Nat
  BY TimeAssumption DEF TypeInv, TypeOK, WorkerInv, Time
<1>2. Run(w)' = <<Job(w), RunKey(Job(w), at[w])>>
  BY DEF PerformJob, Run, Job
<1>3. CASE Job(w) = "daily_usage_reset"
  <2>1. dailySince' = now /\ RunKey(Job(w), at[w]) = Day(at[w])
    BY <1>3 DEF PerformJob, DoJob, RunKey, Hourly
  <2>. QED
    BY <1>1, <1>2, <1>3, <2>1, CalendarMonotone DEF TookEffect
<1>4. CASE Job(w) = "monthly_usage_reset"
  <2>1. monthlySince' = now /\ RunKey(Job(w), at[w]) = Month(at[w])
    BY <1>4 DEF PerformJob, DoJob, RunKey
  <2>. QED
    BY <1>1, <1>2, <1>4, <2>1, CalendarMonotone DEF TookEffect
<1>5. CASE Job(w) = "subscription_expiry_check"
  <2>1. sweptTo' >= at[w] /\ RunKey(Job(w), at[w]) = Day(at[w])
    BY <1>1, <1>5 DEF PerformJob, DoJob, RunKey, Hourly
  <2>2. Day(at[w]) \in Nat /\ Day(sweptTo') \in Nat /\ Day(at[w]) <= Day(sweptTo')
    BY <1>1, <2>1, CalendarMonotone
  <2>. QED
    BY <1>2, <1>5, <2>1, <2>2 DEF TookEffect
<1>6. CASE Job(w) \notin {"daily_usage_reset", "monthly_usage_reset",
                         "subscription_expiry_check"}
  BY <1>2, <1>6 DEF TookEffect
<1>. QED
  BY <1>3, <1>4, <1>5, <1>6

(* Steps that begin and record no job leave their effects to the others. *)
LEMMA EffectFrame ==
    ASSUME TypeInv, TypeInv', EffectInv, UNCHANGED <<succeeded, dataVars>>,
           \A v \in Workers : pc'[v] = "record" =>
              pc[v] = "record" /\ at'[v] = at[v] /\ next'[v] = next[v]
    PROVE  EffectInv'
<1>1. ASSUME NEW r, TookEffect(r) PROVE TookEffect(r)'
  BY <1>1 DEF TookEffect, dataVars
<1>2. ASSUME NEW v \in Workers, pc'[v] = "record" PROVE TookEffect(Run(v))'
  <2>1. Run(v)' = Run(v) /\ pc[v] = "record"
    BY <1>2, RunFrame
  <2>2. TookEffect(Run(v))
    BY <2>1 DEF EffectInv
  <2>. QED
    BY <2>1, <2>2 DEF TookEffect, dataVars
<1>. QED
  BY <1>1, <1>2 DEF EffectInv

(* Every step keeps what succeeded runs did. *)
LEMMA NextEffect == TypeInv /\ EffectInv /\ [Next]_vars => EffectInv'
<1>. SUFFICES ASSUME TypeInv, TypeInv', EffectInv, [Next]_vars PROVE EffectInv'
  BY NextType
<1>. USE DEF TypeInv, TypeOK
<1>1. ASSUME NEW w \in Workers,
             \/ Start(w) \/ TickerFires(w) \/ RunCycle(w) \/ EndCycle(w)
             \/ SkipJob(w) \/ StartJob(w) \/ Crash(w) \/ AbortCycle(w)
      PROVE  EffectInv'
  <2>1. UNCHANGED <<succeeded, dataVars>>
    BY <1>1 DEF Start, TickerFires, RunCycle, EndCycle, SkipJob, StartJob, Crash, AbortCycle,
                runVars
  <2>2. \A v \in Workers : pc'[v] = "record" =>
            pc[v] = "record" /\ at'[v] = at[v] /\ next'[v] = next[v]
    BY <1>1 DEF Start, TickerFires, RunCycle, EndCycle, SkipJob, StartJob, Crash, AbortCycle,
                Fault, StartCycle, NextJob, GoTo
  <2>. QED
    BY <2>1, <2>2, EffectFrame
<1>2. ASSUME NEW w \in Workers, PerformJob(w) PROVE EffectInv'
  <2>1. /\ dailySince <= dailySince' /\ monthlySince <= monthlySince'
        /\ sweptTo <= sweptTo'
    BY <1>2, TimeAssumption DEF PerformJob, DoJob, Time, ResetsPast
  <2>2. ASSUME NEW r \in succeeded' PROVE TookEffect(r)'
    <3>1. r \in succeeded /\ r \in Runs
      BY <1>2, <2>2 DEF PerformJob, runVars
    <3>. QED
      BY <2>1, <3>1, EffectStable DEF EffectInv
  <2>3. ASSUME NEW v \in Workers, pc'[v] = "record" PROVE TookEffect(Run(v))'
    <3>1. CASE v = w
      BY <1>2, <3>1, PerformEffect
    <3>2. CASE v # w
      <4>1. pc[v] = "record" /\ Run(v)' = Run(v)
        BY <1>2, <2>3, <3>2, RunFrame DEF PerformJob, GoTo
      <4>2. Run(v) \in Runs /\ TookEffect(Run(v))
        BY <4>1, RunType DEF EffectInv, WorkerInv
      <4>. DEFINE r == Run(v)
      <4>3. TookEffect(r)' /\ Run(v)' = r
        BY <2>1, <4>1, <4>2, EffectStable
      <4>. QED
        BY <4>3 DEF TookEffect
    <3>. QED
      BY <3>1, <3>2
  <2>. QED
    BY <2>2, <2>3 DEF EffectInv
<1>3. ASSUME NEW w \in Workers, RecordSuccess(w) PROVE EffectInv'
  <2>1. UNCHANGED dataVars /\ succeeded' = succeeded \cup {Run(w)} /\ pc[w] = "record"
    BY <1>3 DEF RecordSuccess
  <2>2. \A r \in succeeded' : TookEffect(r)
    BY <2>1 DEF EffectInv
  <2>3. \A r \in succeeded' : TookEffect(r)'
    BY <2>1, <2>2 DEF TookEffect, dataVars
  <2>4. ASSUME NEW v \in Workers, pc'[v] = "record" PROVE TookEffect(Run(v))'
    <3>1. pc[v] = "record" /\ Run(v)' = Run(v)
      BY <1>3, <2>4, RunFrame DEF RecordSuccess, NextJob, GoTo
    <3>. QED
      BY <2>1, <3>1 DEF EffectInv, TookEffect, dataVars
  <2>. QED
    BY <2>3, <2>4 DEF EffectInv
<1>4. ASSUME HourPasses \/ UNCHANGED vars PROVE EffectInv'
  BY <1>4, EffectFrame DEF HourPasses, vars, workerVars, runVars
<1>. QED
  BY <1>1, <1>2, <1>3, <1>4 DEF Next, WorkerStep

(* A run recorded as succeeded took effect for the day or month of its     *)
(* key: no mail of an earlier one is left in the counters, and no          *)
(* subscription that had ended before is left unexpired, whatever the order*)
(* in which late cycles, reruns and other workers came.                    *)
THEOREM EffectsRecorded == Spec => []SucceededTookEffect
<1>1. Init => TypeInv /\ EffectInv
  <2>1. Init => TypeInv
    BY TimeAssumption DEF Init, TypeInv, TypeOK, WorkerInv, ResetsPast, Time, NoTick
  <2>. QED
    BY <2>1 DEF Init, EffectInv
<1>2. EffectInv => SucceededTookEffect
  BY DEF EffectInv, TookEffect, SucceededTookEffect
<1>. QED
  BY <1>1, <1>2, NextType, NextEffect, PTL DEF Spec

-----------------------------------------------------------------------------
(* What complete cycles did *)

(* The job j, if it is due at t, is among the runs S. *)
DoneAt(S, j, t) ==
    (j = "monthly_usage_reset" => FirstOfMonth(t)) => <<j, RunKey(j, t)>> \in S

(* The jobs a cycle has left behind have all succeeded. *)
CycleInv ==
    /\ \A w \in Workers : pc[w] \in {"check", "work", "record"} =>
          \A i \in 1 .. 6 : i < next[w] => DoneAt(succeeded, JobOrder[i], at[w])
    /\ \A t \in completed, j \in Jobs : DoneAt(succeeded, j, t)

(* Success is never taken back, so steps that move no cycle on keep this. *)
LEMMA CycleFrame ==
    ASSUME TypeOK, CycleInv, succeeded \subseteq succeeded',
           NEW W \in SUBSET Workers,
           \A v \in W : pc'[v] \in {"check", "work", "record"} =>
              /\ pc[v] \in {"check", "work", "record"}
              /\ at'[v] = at[v] /\ next'[v] = next[v]
    PROVE  /\ \A v \in W : pc'[v] \in {"check", "work", "record"} =>
                 \A i \in 1 .. 6 : i < next'[v] => DoneAt(succeeded', JobOrder[i], at'[v])
           /\ \A t \in completed, j \in Jobs : DoneAt(succeeded', j, t)
<1>1. ASSUME NEW j, NEW t, DoneAt(succeeded, j, t) PROVE DoneAt(succeeded', j, t)
  BY <1>1 DEF DoneAt
<1>2. \A t \in completed, j \in Jobs : DoneAt(succeeded', j, t)
  BY <1>1 DEF CycleInv
<1>3. ASSUME NEW v \in W, pc'[v] \in {"check", "work", "record"},
             NEW i \in 1 .. 6, i < next'[v]
      PROVE  DoneAt(succeeded', JobOrder[i], at'[v])
  <2>1. DoneAt(succeeded, JobOrder[i], at[v]) /\ at'[v] = at[v]
    BY <1>3 DEF CycleInv
  <2>. QED
    BY <2>1 DEF DoneAt
<1>. QED
  BY <1>2, <1>3

(* Every step keeps what cycles, in progress or complete, have done. *)
LEMMA NextCycle == TypeInv /\ CycleInv /\ [Next]_vars => CycleInv'
<1>. SUFFICES ASSUME TypeInv, TypeInv', CycleInv, [Next]_vars PROVE CycleInv'
  BY NextType
<1>. USE DEF TypeInv, TypeOK
<1>1. ASSUME NEW w \in Workers, NEW t, StartCycle(w, t), UNCHANGED <<runVars, history>>
      PROVE  CycleInv'
  <2>1. \A v \in Workers \ {w} : /\ pc'[v] = pc[v]
                                  /\ at'[v] = at[v] /\ next'[v] = next[v]
    BY <1>1 DEF StartCycle, GoTo
  <2>2. next'[w] = 1 /\ succeeded' = succeeded /\ completed' = completed
    BY <1>1 DEF StartCycle, runVars, history
  <2>. QED
    BY <2>1, <2>2, CycleFrame DEF CycleInv
<1>2. ASSUME NEW w \in Workers,
             \/ TickerFires(w) \/ StartJob(w) \/ PerformJob(w)
             \/ Crash(w) \/ AbortCycle(w)
      PROVE  CycleInv'
  <2>1. \A v \in Workers : pc'[v] \in {"check", "work", "record"} =>
            /\ pc[v] \in {"check", "work", "record"}
            /\ at'[v] = at[v] /\ next'[v] = next[v]
    <3>1. CASE TickerFires(w) \/ StartJob(w) \/ PerformJob(w)
      BY <3>1 DEF TickerFires, StartJob, Waits, PerformJob, GoTo
    <3>2. CASE Crash(w) \/ AbortCycle(w)
      BY <3>2, GivesUp DEF Crash, AbortCycle, GoTo
    <3>. QED
      BY <1>2, <3>1, <3>2
  <2>2. succeeded' = succeeded /\ completed' = completed
    BY <1>2 DEF TickerFires, StartJob, PerformJob, Crash, AbortCycle, runVars, history
  <2>. QED
    BY <2>1, <2>2, CycleFrame DEF CycleInv
<1>3. ASSUME NEW w \in Workers, EndCycle(w) PROVE CycleInv'
  <2>1. \A v \in Workers : pc'[v] \in {"check", "work", "record"} =>
            /\ pc[v] \in {"check", "work", "record"}
            /\ at'[v] = at[v] /\ next'[v] = next[v]
    BY <1>3 DEF EndCycle, GoTo
  <2>2. succeeded' = succeeded /\ completed' = completed \cup {at[w]}
    BY <1>3 DEF EndCycle, runVars
  <2>3. ASSUME NEW j \in Jobs PROVE DoneAt(succeeded, j, at[w])
    <3>1. PICK i \in 1 .. 6 : j = JobOrder[i]
      BY DEF Jobs
    <3>2. i < next[w] /\ pc[w] = "check"
      BY <1>3, JobCount DEF EndCycle
    <3>. QED
      BY <3>1, <3>2 DEF CycleInv
  <2>4. \A j \in Jobs : DoneAt(succeeded', j, at[w])
    BY <2>2, <2>3 DEF DoneAt
  <2>. QED
    BY <2>1, <2>2, <2>4, CycleFrame DEF CycleInv
<1>4. ASSUME NEW w \in Workers, NextJob(w), next[w] <= 6, completed' = completed,
             pc[w] \in {"check", "record"}, succeeded \subseteq succeeded',
             DoneAt(succeeded', Job(w), at[w])
      PROVE  CycleInv'
  <2>1. \A v \in Workers \ {w} : /\ pc'[v] = pc[v]
                                  /\ at'[v] = at[v] /\ next'[v] = next[v]
    BY <1>4 DEF NextJob, GoTo
  <2>2. ASSUME NEW i \in 1 .. 6, i < next'[w] PROVE DoneAt(succeeded', JobOrder[i], at'[w])
    <3>1. next'[w] = next[w] + 1 /\ next[w] \in 1 .. 7 /\ at' = at
      BY <1>4 DEF NextJob
    <3>2. CASE i = next[w]
      BY <1>4, <3>1, <3>2 DEF Job
    <3>3. CASE i # next[w]
      <4>1. DoneAt(succeeded, JobOrder[i], at[w])
        BY <1>4, <2>2, <3>1, <3>3 DEF CycleInv
      <4>. QED
        BY <1>4, <3>1, <4>1 DEF DoneAt
    <3>. QED
      BY <3>2, <3>3
  <2>3. /\ \A v \in Workers \ {w} : pc'[v] \in {"check", "work", "record"} =>
              \A i \in 1 .. 6 : i < next'[v] => DoneAt(succeeded', JobOrder[i], at'[v])
        /\ \A t \in completed, j \in Jobs : DoneAt(succeeded', j, t)
    <3>1. Workers \ {w} \in SUBSET Workers
      OBVIOUS
    <3>. HIDE DEF TypeInv, TypeOK
    <3>. QED
      BY <1>4, <2>1, <3>1, CycleFrame DEF TypeInv
  <2>. QED
    BY <1>4, <2>2, <2>3 DEF CycleInv
<1>5. ASSUME NEW w \in Workers, SkipJob(w) PROVE CycleInv'
  <2>1. DoneAt(succeeded, Job(w), at[w]) /\ succeeded' = succeeded /\ next[w] <= 6 /\ pc[w] = "check"
    BY <1>5, JobCount DEF SkipJob, NotDue, Done, DoneAt, Run, runVars
  <2>2. completed' = completed /\ NextJob(w)
    BY <1>5 DEF SkipJob, history
  <2>. QED
    BY <1>4, <2>1, <2>2 DEF DoneAt
<1>6. ASSUME NEW w \in Workers, RecordSuccess(w) PROVE CycleInv'
  <2>1. /\ NextJob(w) /\ pc[w] = "record" /\ succeeded' = succeeded \cup {Run(w)}
        /\ completed' = completed
    BY <1>6 DEF RecordSuccess, history
  <2>2. next[w] <= 6
    BY <2>1 DEF WorkerInv
  <2>. QED
    BY <1>4, <2>1, <2>2 DEF DoneAt, Run
<1>7. ASSUME HourPasses \/ UNCHANGED vars PROVE CycleInv'
  BY <1>7, CycleFrame DEF CycleInv, HourPasses, vars, workerVars, runVars, history
<1>. QED
  BY <1>1, <1>2, <1>3, <1>5, <1>6, <1>7 DEF Next, WorkerStep, Start, RunCycle

(* A cycle that ran to its end left none of its jobs undone, however its   *)
(* steps fell between those of other workers and of earlier failed cycles. *)
THEOREM CompleteCycles == Spec => []CompleteCycleDidAll
<1>1. Init => TypeInv /\ CycleInv
  <2>1. Init => TypeInv
    BY TimeAssumption DEF Init, TypeInv, TypeOK, WorkerInv, ResetsPast, Time, NoTick
  <2>. QED
    BY <2>1 DEF Init, CycleInv
<1>2. CycleInv => CompleteCycleDidAll
  BY DEF CycleInv, DoneAt, CompleteCycleDidAll
<1>. QED
  BY <1>1, <1>2, NextType, NextCycle, PTL DEF Spec

-----------------------------------------------------------------------------
(* How often jobs run *)

(* The workers that are at l with the run r. *)
WorkersAt(l, r) == {w \in Workers : pc[w] = l /\ Run(w) = r}

(* Before a run has succeeded, every time its job was done is unrecorded or*)
(* about to be recorded; afterwards no worker begins it again, and those   *)
(* that are still to do it were among Workers when it succeeded.           *)
CountInv ==
    \A r \in Runs :
        /\ r \notin succeeded =>
              performed[r] <= unrecorded[r] + Cardinality(WorkersAt("record", r))
        /\ r \in succeeded =>
              performed[r] + Cardinality(WorkersAt("work", r))
                  <= unrecorded[r] + Cardinality(Workers)

LEMMA SomeWorkers ==
    ASSUME NEW r
    PROVE  /\ \A l : /\ IsFiniteSet(WorkersAt(l, r))
                     /\ Cardinality(WorkersAt(l, r)) \in Nat
           /\ Cardinality(Workers) \in Nat
           /\ Cardinality(WorkersAt("work", r)) + Cardinality(WorkersAt("record", r))
                  <= Cardinality(Workers)
<1>1. ASSUME NEW l PROVE WorkersAt(l, r) \subseteq Workers
  BY DEF WorkersAt
<1>2. ASSUME NEW l PROVE IsFiniteSet(WorkersAt(l, r)) /\ Cardinality(WorkersAt(l, r)) \in Nat
  BY <1>1, WorkersAssumption, FS_Subset, FS_CardinalityType
<1>. DEFINE S == WorkersAt("work", r)
            T == WorkersAt("record", r)
<1>3. S \cap T = {} /\ S \cup T \subseteq Workers
  BY DEF WorkersAt
<1>4. Cardinality(S \cup T) = Cardinality(S) + Cardinality(T)
  <2>1. Cardinality(S \cap T) = 0
    BY <1>3, FS_EmptySet
  <2>2. Cardinality(S \cup T) = Cardinality(S) + Cardinality(T) - Cardinality(S \cap T)
    BY <1>2, FS_Union
  <2>3. Cardinality(S) \in Nat /\ Cardinality(T) \in Nat
    BY <1>2
  <2>. QED
    BY <2>1, <2>2, <2>3
<1>5. Cardinality(S \cup T) <= Cardinality(Workers)
  BY <1>3, WorkersAssumption, FS_Subset
<1>. QED
  BY <1>2, <1>4, <1>5, WorkersAssumption, FS_CardinalityType

(* A set and what it becomes when one element comes or goes. *)
LEMMA OneMoves ==
    ASSUME NEW S, NEW T, NEW w, IsFiniteSet(S), S \ {w} = T \ {w}
    PROVE  /\ w \in T /\ w \notin S => Cardinality(T) = Cardinality(S) + 1
           /\ w \in S /\ w \notin T => Cardinality(T) = Cardinality(S) - 1
           /\ (w \in S <=> w \in T) => Cardinality(T) = Cardinality(S)
<1>1. ASSUME w \in T, w \notin S PROVE Cardinality(T) = Cardinality(S) + 1
  <2>1. T = S \cup {w}
    BY <1>1
  <2>. QED
    BY <1>1, <2>1, FS_AddElement
<1>2. ASSUME w \in S, w \notin T PROVE Cardinality(T) = Cardinality(S) - 1
  <2>1. T = S \ {w}
    BY <1>2
  <2>. QED
    BY <1>2, <2>1, FS_RemoveElement
<1>3. ASSUME w \in S <=> w \in T PROVE Cardinality(T) = Cardinality(S)
  <2>1. S = T
    BY <1>3
  <2>. QED
    BY <2>1
<1>. QED
  BY <1>1, <1>2, <1>3

(* The step of one worker moves no other from where it is. *)
LEMMA OthersStay ==
    ASSUME NEW w \in Workers, NEW l, NEW r,
           \A v \in Workers \ {w} : pc'[v] = pc[v] /\ at'[v] = at[v] /\ next'[v] = next[v]
    PROVE  /\ WorkersAt(l, r) \ {w} = WorkersAt(l, r)' \ {w}
           /\ w \in WorkersAt(l, r) <=> pc[w] = l /\ Run(w) = r
           /\ w \in WorkersAt(l, r)' <=> pc'[w] = l /\ Run(w)' = r
<1>1. \A v \in Workers \ {w} : Run(v)' = Run(v)
  BY RunFrame
<1>. QED
  BY <1>1 DEF WorkersAt

(* Steps that enter and leave no work and record nothing count nothing. *)
LEMMA CountFrame ==
    ASSUME CountInv, UNCHANGED <<succeeded, performed, unrecorded>>,
           \A v \in Workers, l \in {"work", "record"} :
              /\ pc'[v] = l <=> pc[v] = l
              /\ pc[v] = l => at'[v] = at[v] /\ next'[v] = next[v]
    PROVE  CountInv'
<1>1. ASSUME NEW l \in {"work", "record"}, NEW r PROVE WorkersAt(l, r)' = WorkersAt(l, r)
  BY RunFrame DEF WorkersAt
<1>. QED
  BY <1>1 DEF CountInv

LEMMA NextCount == TypeInv /\ CountInv /\ [Next]_vars => CountInv'
<1>. SUFFICES ASSUME TypeInv, TypeInv', CountInv, [Next]_vars PROVE CountInv'
  BY NextType
<1>. USE DEF TypeInv, TypeOK
<1>1. ASSUME NEW w \in Workers,
             Start(w) \/ TickerFires(w) \/ RunCycle(w) \/ EndCycle(w) \/ SkipJob(w)
      PROVE  CountInv'
  <2>1. UNCHANGED <<succeeded, performed, unrecorded>>
    BY <1>1 DEF Start, TickerFires, RunCycle, EndCycle, SkipJob, runVars, history
  <2>2. \A v \in Workers, l \in {"work", "record"} :
            /\ pc'[v] = l <=> pc[v] = l
            /\ pc[v] = l => at'[v] = at[v] /\ next'[v] = next[v]
    BY <1>1 DEF Start, TickerFires, RunCycle, EndCycle, SkipJob, StartCycle, NextJob, GoTo, Up
  <2>. QED
    BY <2>1, <2>2, CountFrame
<1>2. ASSUME NEW w \in Workers, NEW r \in Runs,
             \/ StartJob(w) \/ PerformJob(w) \/ RecordSuccess(w) \/ Crash(w) \/ AbortCycle(w)
      PROVE  \A l \in {"work", "record"} :
                 /\ pc[w] = l /\ Run(w) = r /\ ~(pc'[w] = l /\ Run(w)' = r) =>
                       Cardinality(WorkersAt(l, r)') = Cardinality(WorkersAt(l, r)) - 1
                 /\ ~(pc[w] = l /\ Run(w) = r) /\ pc'[w] = l /\ Run(w)' = r =>
                       Cardinality(WorkersAt(l, r)') = Cardinality(WorkersAt(l, r)) + 1
                 /\ (pc[w] = l /\ Run(w) = r <=> pc'[w] = l /\ Run(w)' = r) =>
                       Cardinality(WorkersAt(l, r)') = Cardinality(WorkersAt(l, r))
  <2>1. \A v \in Workers \ {w} : pc'[v] = pc[v] /\ at'[v] = at[v] /\ next'[v] = next[v]
    BY <1>2 DEF StartJob, PerformJob, RecordSuccess, Crash, AbortCycle, Fault, NextJob, GoTo
  <2>. TAKE l \in {"work", "record"}
  <2>2. /\ WorkersAt(l, r) \ {w} = WorkersAt(l, r)' \ {w}
        /\ w \in WorkersAt(l, r) <=> pc[w] = l /\ Run(w) = r
        /\ w \in WorkersAt(l, r)' <=> pc'[w] = l /\ Run(w)' = r
    BY <2>1, OthersStay
  <2>3. IsFiniteSet(WorkersAt(l, r))
    BY SomeWorkers
  <2>. QED
    BY <2>2, <2>3, OneMoves
<1>3. ASSUME NEW w \in Workers, StartJob(w) PROVE CountInv'
  <2>1. /\ Run(w) \notin succeeded /\ pc[w] = "check" /\ pc'[w] = "work" /\ Run(w)' = Run(w)
        /\ UNCHANGED <<succeeded, performed, unrecorded>>
    BY <1>3, RunFrame DEF StartJob, Waits, Done, GoTo, history
  <2>. SUFFICES ASSUME NEW r \in Runs
                PROVE  /\ Cardinality(WorkersAt("record", r)') = Cardinality(WorkersAt("record", r))
                       /\ r \in succeeded =>
                             Cardinality(WorkersAt("work", r)') = Cardinality(WorkersAt("work", r))
    BY <2>1 DEF CountInv
  <2>. QED
    BY <1>2, <1>3, <2>1
<1>4. ASSUME NEW w \in Workers, PerformJob(w) PROVE CountInv'
  <2>1. /\ pc[w] = "work" /\ pc'[w] = "record" /\ Run(w)' = Run(w) /\ Run(w) \in Runs
        /\ UNCHANGED <<succeeded, unrecorded>>
        /\ performed' = [performed EXCEPT ![Run(w)] = @ + 1]
    BY <1>4, RunFrame, RunType DEF PerformJob, GoTo, runVars, WorkerInv
  <2>. SUFFICES ASSUME NEW r \in Runs
                PROVE  /\ r \notin succeeded => performed'[r] <= unrecorded[r]
                                                  + Cardinality(WorkersAt("record", r)')
                       /\ r \in succeeded => performed'[r] + Cardinality(WorkersAt("work", r)')
                                                 <= unrecorded[r] + Cardinality(Workers)
    BY <2>1 DEF CountInv
  <2>2. /\ Cardinality(WorkersAt("record", r)) \in Nat /\ Cardinality(WorkersAt("work", r)) \in Nat
        /\ Cardinality(Workers) \in Nat /\ performed[r] \in Nat /\ unrecorded[r] \in Nat
    BY SomeWorkers
  <2>3. /\ r \notin succeeded => performed[r] <= unrecorded[r]
                                     + Cardinality(WorkersAt("record", r))
        /\ r \in succeeded => performed[r] + Cardinality(WorkersAt("work", r))
                                    <= unrecorded[r] + Cardinality(Workers)
    BY DEF CountInv
  <2>4. CASE r = Run(w)
    <3>1. /\ Cardinality(WorkersAt("record", r)') = Cardinality(WorkersAt("record", r)) + 1
          /\ Cardinality(WorkersAt("work", r)') = Cardinality(WorkersAt("work", r)) - 1
      BY <1>2, <1>4, <2>1, <2>4
    <3>2. performed'[r] = performed[r] + 1
      BY <2>1, <2>4
    <3>. QED
      BY <2>2, <2>3, <3>1, <3>2
  <2>5. CASE r # Run(w)
    <3>1. /\ Cardinality(WorkersAt("record", r)') = Cardinality(WorkersAt("record", r))
          /\ Cardinality(WorkersAt("work", r)') = Cardinality(WorkersAt("work", r))
      BY <1>2, <1>4, <2>1, <2>5
    <3>2. performed'[r] = performed[r]
      BY <2>1, <2>5
    <3>. QED
      BY <2>3, <3>1, <3>2
  <2>. QED
    BY <2>4, <2>5
<1>5. ASSUME NEW w \in Workers, RecordSuccess(w) PROVE CountInv'
  <2>1. /\ pc[w] = "record" /\ pc'[w] = "check" /\ Run(w) \in Runs
        /\ UNCHANGED <<performed, unrecorded>> /\ succeeded' = succeeded \cup {Run(w)}
    BY <1>5, RunType DEF RecordSuccess, NextJob, GoTo, history, WorkerInv
  <2>. SUFFICES ASSUME NEW r \in Runs
                PROVE  /\ r \notin succeeded' => performed[r] <= unrecorded[r]
                                                  + Cardinality(WorkersAt("record", r)')
                       /\ r \in succeeded' => performed[r] + Cardinality(WorkersAt("work", r)')
                                                 <= unrecorded[r] + Cardinality(Workers)
    BY <2>1 DEF CountInv
  <2>2. /\ Cardinality(WorkersAt("record", r)) \in Nat /\ Cardinality(WorkersAt("work", r)) \in Nat
        /\ Cardinality(Workers) \in Nat /\ performed[r] \in Nat /\ unrecorded[r] \in Nat
        /\ Cardinality(WorkersAt("work", r)) + Cardinality(WorkersAt("record", r))
              <= Cardinality(Workers)
    BY SomeWorkers
  <2>3. /\ r \notin succeeded => performed[r] <= unrecorded[r]
                                     + Cardinality(WorkersAt("record", r))
        /\ r \in succeeded => performed[r] + Cardinality(WorkersAt("work", r))
                                    <= unrecorded[r] + Cardinality(Workers)
    BY DEF CountInv
  <2>4. Cardinality(WorkersAt("work", r)') = Cardinality(WorkersAt("work", r))
    BY <1>2, <1>5, <2>1
  <2>5. r # Run(w) =>
            Cardinality(WorkersAt("record", r)') = Cardinality(WorkersAt("record", r))
    BY <1>2, <1>5, <2>1
  <2>. QED
    BY <2>1, <2>2, <2>3, <2>4, <2>5
<1>6. ASSUME NEW w \in Workers, Crash(w) \/ AbortCycle(w) PROVE CountInv'
  <2>1. /\ pc'[w] \in {"down", "waiting"} /\ UNCHANGED <<performed, succeeded>>
        /\ unrecorded' = IF pc[w] = "record"
                         THEN [unrecorded EXCEPT ![Run(w)] = @ + 1] ELSE unrecorded
    BY <1>6, GivesUp DEF Crash, AbortCycle, GoTo, runVars
  <2>. SUFFICES ASSUME NEW r \in Runs
                PROVE  /\ r \notin succeeded => performed[r] <= unrecorded'[r]
                                                  + Cardinality(WorkersAt("record", r)')
                       /\ r \in succeeded => performed[r] + Cardinality(WorkersAt("work", r)')
                                                 <= unrecorded'[r] + Cardinality(Workers)
    BY <2>1 DEF CountInv
  <2>2. /\ Cardinality(WorkersAt("record", r)) \in Nat /\ Cardinality(WorkersAt("work", r)) \in Nat
        /\ Cardinality(Workers) \in Nat /\ performed[r] \in Nat /\ unrecorded[r] \in Nat
    BY SomeWorkers
  <2>3. /\ r \notin succeeded => performed[r] <= unrecorded[r]
                                     + Cardinality(WorkersAt("record", r))
        /\ r \in succeeded => performed[r] + Cardinality(WorkersAt("work", r))
                                    <= unrecorded[r] + Cardinality(Workers)
    BY DEF CountInv
  <2>4. CASE pc[w] = "record" /\ r = Run(w)
    <3>1. unrecorded'[r] = unrecorded[r] + 1
      BY <2>1, <2>4
    <3>2. /\ Cardinality(WorkersAt("record", r)') = Cardinality(WorkersAt("record", r)) - 1
          /\ Cardinality(WorkersAt("work", r)') = Cardinality(WorkersAt("work", r))
      BY <1>2, <1>6, <2>1, <2>4
    <3>. QED
      BY <2>2, <2>3, <3>1, <3>2
  <2>5. CASE ~(pc[w] = "record" /\ r = Run(w))
    <3>1. unrecorded'[r] = unrecorded[r]
      BY <2>1, <2>5
    <3>2. Cardinality(WorkersAt("record", r)') = Cardinality(WorkersAt("record", r))
      BY <1>2, <1>6, <2>1, <2>5
    <3>3. \/ Cardinality(WorkersAt("work", r)') = Cardinality(WorkersAt("work", r))
          \/ Cardinality(WorkersAt("work", r)') = Cardinality(WorkersAt("work", r)) - 1
      BY <1>2, <1>6, <2>1
    <3>. QED
      BY <2>2, <2>3, <3>1, <3>2, <3>3
  <2>. QED
    BY <2>4, <2>5
<1>7. ASSUME HourPasses \/ UNCHANGED vars PROVE CountInv'
  BY <1>7, CountFrame DEF HourPasses, vars, workerVars, runVars, history
<1>. QED
  BY <1>1, <1>3, <1>4, <1>5, <1>6, <1>7 DEF Next, WorkerStep

(* A job is done once for a key: every further time is accounted for by a  *)
(* run that a fault kept from being recorded, or by another worker that had*)
(* looked before the first was, whatever the number of workers.            *)
THEOREM OncePerKey == Spec => []JobsRunOnce
<1>1. Init => TypeInv /\ CountInv
  <2>1. Init => TypeInv
    BY TimeAssumption DEF Init, TypeInv, TypeOK, WorkerInv, ResetsPast, Time, NoTick
  <2>2. Init => \A r \in Runs : performed[r] = 0 /\ unrecorded[r] = 0 /\ r \notin succeeded
    BY DEF Init
  <2>. QED
    BY <2>1, <2>2, SomeWorkers DEF CountInv
<1>2. TypeInv /\ CountInv => JobsRunOnce
  <2>. SUFFICES ASSUME TypeInv, CountInv, NEW r \in Runs
                PROVE  performed[r] <= Cardinality(Workers) + unrecorded[r]
    BY DEF JobsRunOnce
  <2>. QED
    BY SomeWorkers DEF CountInv, TypeInv, TypeOK
<1>. QED
  BY <1>1, <1>2, NextType, NextCount, PTL DEF Spec
=============================================================================
