------------------------ MODULE DeliverabilityProofs ------------------------
(***************************************************************************)
(* Theorems about module Deliverability, for any finite set of workers and *)
(* any inputs.                                                             *)
(***************************************************************************)
EXTENDS Deliverability, FiniteSetTheorems, TLAPS

-----------------------------------------------------------------------------
(* Types *)

LEMMA TypeInit == Init => TypeOK
<1> SUFFICES ASSUME Init PROVE TypeOK
  OBVIOUS
<1>1. pc \in [Workers -> Stages] /\ open \in [AlertTypes -> Nat]
  BY DEF Init, Stages
<1>2. due \in [Workers -> SUBSET AlertTypes] /\ met \in [Workers -> SUBSET AlertTypes]
  BY DEF Init
<1>3. job \in [Workers -> Inputs \cup {NoRow}]
  BY DEF Init
<1>4. checkedAt \in 0 .. MaxCycle /\ cycle \in [Workers -> 0 .. MaxCycle]
  BY CycleAssumption DEF Init
<1> QED
  BY <1>1, <1>2, <1>3, <1>4 DEF Init, TypeOK

LEMMA EndJobType ==
    ASSUME TypeOK, NEW w \in Workers, EndJob(w)
    PROVE  /\ pc' \in [Workers -> Stages]
           /\ job' \in [Workers -> Inputs \cup {NoRow}]
           /\ due' \in [Workers -> SUBSET AlertTypes]
           /\ met' \in [Workers -> SUBSET AlertTypes]
           /\ alone' \subseteq Workers
  BY DEF TypeOK, EndJob, GoTo, Stages

LEMMA TypeStep == TypeOK /\ [Next]_vars => TypeOK'
<1> SUFFICES ASSUME TypeOK, [Next]_vars
             PROVE  TypeOK'
  OBVIOUS
<1> USE DEF TypeOK, Stages, SnapshotStages, GoTo, tables, alerts, lone
<1>1. ASSUME NEW w \in Workers, NEW t \in 1 .. MaxCycle, BeginSnapshots(w, t)
      PROVE  TypeOK'
  <2>1. alone' \subseteq Workers /\ cycle' \in [Workers -> 0 .. MaxCycle]
    BY <1>1, CycleAssumption DEF BeginSnapshots
  <2> QED
    BY <1>1, <2>1 DEF BeginSnapshots
<1>2. ASSUME NEW w \in Workers, ReadInput(w)
      PROVE  TypeOK'
  BY <1>2 DEF ReadInput
<1>3. ASSUME NEW w \in Workers, InsertSnapshot(w)
      PROVE  TypeOK'
  BY <1>3 DEF InsertSnapshot
<1>4. ASSUME NEW w \in Workers, RefuseSnapshot(w)
      PROVE  TypeOK'
  BY <1>4, EndJobType DEF RefuseSnapshot
<1>5. ASSUME NEW w \in Workers, InsertHealthCheck(w)
      PROVE  TypeOK'
  BY <1>5 DEF InsertHealthCheck
<1>6. ASSUME NEW w \in Workers, UpdateScore(w)
      PROVE  TypeOK'
  <2>1. current' \in Inputs \cup {NoRow} /\ whole' \in BOOLEAN /\ newest' \in BOOLEAN
    BY <1>6 DEF UpdateScore
  <2> QED
    BY <1>6, <2>1, EndJobType DEF UpdateScore
<1>7. ASSUME NEW w \in Workers, ScanSnapshot(w)
      PROVE  TypeOK'
  <2>1. Calls(snapshot) \subseteq AlertTypes
    BY DEF Calls
  <2> QED
    BY <1>7, <2>1 DEF ScanSnapshot
<1>8. ASSUME NEW w \in Workers, NEW t \in AlertTypes, LookForOpen(w, t)
      PROVE  TypeOK'
  <2>1. met' \in [Workers -> SUBSET AlertTypes]
    BY <1>8 DEF LookForOpen, Look, Meet
  <2>2. due' \in [Workers -> SUBSET AlertTypes] /\ pc' \in [Workers -> Stages]
    BY <1>8 DEF LookForOpen, Look
  <2> QED
    BY <1>8, <2>1, <2>2 DEF LookForOpen, Look
<1>9. ASSUME NEW w \in Workers, NEW t \in AlertTypes, InsertAlert(w, t)
      PROVE  TypeOK'
  <2>1. open' \in [AlertTypes -> Nat]
    BY <1>9 DEF InsertAlert
  <2>2. /\ met' \in [Workers -> SUBSET AlertTypes]
        /\ due' \in [Workers -> SUBSET AlertTypes]
        /\ pc' \in [Workers -> Stages]
    BY <1>9 DEF InsertAlert
  <2> QED
    BY <1>9, <2>1, <2>2 DEF InsertAlert
<1>10. ASSUME NEW w \in Workers, FinishAlerts(w) \/ Cut(w)
       PROVE  TypeOK'
  BY <1>10, EndJobType DEF FinishAlerts, Cut
<1>11. ASSUME NEW t \in AlertTypes, ResolveAlert(t)
       PROVE  TypeOK'
  <2>1. open' \in [AlertTypes -> Nat]
    BY <1>11 DEF ResolveAlert
  <2> QED
    BY <1>11, <2>1 DEF ResolveAlert
<1>12. CASE UNCHANGED vars
  BY <1>12 DEF vars
<1> QED
  BY <1>1, <1>2, <1>3, <1>4, <1>5, <1>6, <1>7, <1>8, <1>9, <1>10, <1>11, <1>12 DEF Next

(* The tables, jobs and counts of alerts keep their types: above all, a    *)
(* count of open alerts never falls below 0.                               *)
THEOREM TypeCorrect == Spec => []TypeOK
  BY TypeInit, TypeStep, PTL DEF Spec

-----------------------------------------------------------------------------
(* Alerts *)

Inserters(t) == {w \in Workers : Inserting(w, t)}

LEMMA InsertersFinite ==
    ASSUME NEW t \in AlertTypes
    PROVE  /\ IsFiniteSet(Inserters(t))
           /\ Cardinality(Inserters(t)) \in Nat
           /\ Cardinality(Workers) \in Nat
           /\ Cardinality(Inserters(t)) <= Cardinality(Workers)
<1>1. Inserters(t) \subseteq Workers
  BY DEF Inserters
<1> QED
  BY <1>1, WorkersAssumption, FS_Subset, FS_CardinalityType

(* The bound is inductive: a look that finds no open alert adds an         *)
(* inserter where the count is 0, and an insert takes its inserter away.   *)
LEMMA DuplicatesStep == TypeOK /\ DuplicatesBounded /\ [Next]_vars => DuplicatesBounded'
<1> SUFFICES ASSUME TypeOK, DuplicatesBounded, [Next]_vars, NEW t \in AlertTypes
             PROVE  (open[t] + Cardinality(Inserters(t)) <= Cardinality(Workers))'
  BY DEF DuplicatesBounded, Inserters
<1> DEFINE Few == Cardinality(Inserters(t)') <= Cardinality(Inserters(t))
<1>1. open[t] + Cardinality(Inserters(t)) <= Cardinality(Workers)
  BY DEF DuplicatesBounded, Inserters
<1>2. open[t] \in Nat /\ open'[t] \in Nat
  BY TypeStep DEF TypeOK
<1>3. /\ Inserters(t)' \subseteq Workers
      /\ IsFiniteSet(Inserters(t)')
      /\ Cardinality(Inserters(t)') \in Nat
      /\ Cardinality(Inserters(t)') <= Cardinality(Workers)
  <2>1. Inserters(t)' \subseteq Workers
    BY DEF Inserters
  <2> QED
    BY <2>1, WorkersAssumption, FS_Subset, FS_CardinalityType
<1>4. ASSUME Inserters(t)' \subseteq Inserters(t), open'[t] <= open[t]
      PROVE  (open[t] + Cardinality(Inserters(t)) <= Cardinality(Workers))'
  <2>1. Cardinality(Inserters(t)') <= Cardinality(Inserters(t))
    BY <1>4, InsertersFinite, FS_Subset
  <2> QED
    BY <1>1, <1>2, <1>3, <1>4, <2>1, InsertersFinite
<1>5. ASSUME NEW w \in Workers,
             \A v \in Workers \ {w} : pc'[v] = pc[v] /\ due'[v] = due[v],
             pc'[w] # "insert",
             open'[t] <= open[t]
      PROVE  (open[t] + Cardinality(Inserters(t)) <= Cardinality(Workers))'
  <2>1. Inserters(t)' \subseteq Inserters(t)
    BY <1>5 DEF Inserters, Inserting, NextDue
  <2> QED
    BY <1>4, <1>5, <2>1
<1>6. ASSUME NEW w \in Workers, \/ \E d \in 1 .. MaxCycle : BeginSnapshots(w, d)
                                \/ ReadInput(w) \/ InsertSnapshot(w)
                                \/ RefuseSnapshot(w) \/ InsertHealthCheck(w) \/ UpdateScore(w)
                                \/ ScanSnapshot(w) \/ FinishAlerts(w) \/ Cut(w)
      PROVE  (open[t] + Cardinality(Inserters(t)) <= Cardinality(Workers))'
  <2>1. /\ \A v \in Workers \ {w} : pc'[v] = pc[v] /\ due'[v] = due[v]
        /\ pc'[w] # "insert"
        /\ UNCHANGED open
    BY <1>6 DEF TypeOK, BeginSnapshots, ReadInput, InsertSnapshot, RefuseSnapshot,
                InsertHealthCheck, UpdateScore, ScanSnapshot, FinishAlerts, Cut,
                EndJob, GoTo, alerts
  <2> QED
    BY <1>2, <1>5, <2>1
<1>7. ASSUME NEW w \in Workers, NEW s \in AlertTypes, LookForOpen(w, s)
      PROVE  (open[t] + Cardinality(Inserters(t)) <= Cardinality(Workers))'
  <2>1. /\ \A v \in Workers \ {w} : pc'[v] = pc[v] /\ due'[v] = due[v]
        /\ UNCHANGED open
        /\ pc[w] = "look"
        /\ NextDue(w, s)
    BY <1>7 DEF TypeOK, LookForOpen, Look, GoTo, alerts
  <2>2. CASE open[s] > 0
    BY <1>2, <1>5, <1>7, <2>1, <2>2 DEF LookForOpen, Look
  <2>3. CASE ~(open[s] > 0) /\ s = t
    BY <1>2, <1>3, <2>1, <2>3, InsertersFinite DEF TypeOK
  <2>4. CASE ~(open[s] > 0) /\ s # t
    <3>1. UNCHANGED due
      BY <1>7, <2>4 DEF LookForOpen, Look
    <3>2. ~NextDue(w, t)
      BY <2>1, <2>4 DEF NextDue, Before, AlertTypes
    <3>3. Inserters(t)' \subseteq Inserters(t)
      BY <2>1, <3>1, <3>2 DEF Inserters, Inserting, NextDue
    <3> QED
      BY <1>2, <1>4, <2>1, <3>3
  <2> QED
    BY <2>2, <2>3, <2>4
<1>8. ASSUME NEW w \in Workers, NEW s \in AlertTypes, InsertAlert(w, s)
      PROVE  (open[t] + Cardinality(Inserters(t)) <= Cardinality(Workers))'
  <2>1. /\ \A v \in Workers \ {w} : pc'[v] = pc[v] /\ due'[v] = due[v]
        /\ pc'[w] = "look"
        /\ Inserting(w, s)
    BY <1>8 DEF TypeOK, InsertAlert, GoTo
  <2>2. CASE s # t
    BY <1>2, <1>5, <1>8, <2>1, <2>2 DEF InsertAlert, TypeOK
  <2>3. CASE s = t
    <3>1. Inserters(t)' \subseteq Inserters(t) \ {w} /\ w \in Inserters(t)
      BY <2>1, <2>3 DEF Inserters, Inserting, NextDue
    <3>2. /\ Cardinality(Inserters(t) \ {w}) = Cardinality(Inserters(t)) - 1
          /\ IsFiniteSet(Inserters(t) \ {w})
      BY <3>1, InsertersFinite, FS_RemoveElement
    <3>3. Cardinality(Inserters(t)') <= Cardinality(Inserters(t)) - 1
      BY <3>1, <3>2, FS_Subset
    <3>4. open'[t] = open[t] + 1
      BY <1>8, <2>3 DEF InsertAlert, TypeOK
    <3> QED
      BY <1>1, <1>2, <1>3, <3>3, <3>4, InsertersFinite
  <2> QED
    BY <2>2, <2>3
<1>9. ASSUME NEW s \in AlertTypes, ResolveAlert(s)
      PROVE  (open[t] + Cardinality(Inserters(t)) <= Cardinality(Workers))'
  <2>1. UNCHANGED <<pc, due>> /\ open'[t] <= open[t]
    BY <1>2, <1>9 DEF ResolveAlert, TypeOK
  <2>2. Inserters(t)' \subseteq Inserters(t)
    BY <2>1 DEF Inserters, Inserting, NextDue
  <2> QED
    BY <1>4, <2>1, <2>2
<1>10. CASE UNCHANGED vars
  <2>1. UNCHANGED <<pc, due, open>>
    BY <1>10 DEF vars, alerts
  <2>2. Inserters(t)' \subseteq Inserters(t)
    BY <2>1 DEF Inserters, Inserting, NextDue
  <2> QED
    BY <1>2, <1>4, <2>1, <2>2
<1> QED
  BY <1>6, <1>7, <1>8, <1>9, <1>10 DEF Next

LEMMA DuplicatesInit == Init => DuplicatesBounded
<1> SUFFICES ASSUME Init, NEW t \in AlertTypes
             PROVE  open[t] + Cardinality(Inserters(t)) <= Cardinality(Workers)
  BY DEF DuplicatesBounded, Inserters
<1>1. open[t] = 0
  BY DEF Init
<1> QED
  BY <1>1, InsertersFinite

(* Whatever number of workers overlap, for however long: a type of alert   *)
(* is open at most once for each of them.                                  *)
THEOREM DuplicatesStayBounded == Spec => []DuplicatesBounded
  BY TypeCorrect, DuplicatesInit, DuplicatesStep, PTL DEF Spec

(* A type that the scanned snapshot calls for is met or still due.         *)
DueOrMet ==
    \A w \in Workers :
        pc[w] \in {"look", "insert"} => Calls(job[w]) \subseteq due[w] \cup met[w]

(* What a row calls for depends on the row alone.                          *)
LEMMA CallsFixed ==
    ASSUME NEW w \in Workers, TypeOK, job'[w] = job[w]
    PROVE  Calls(job[w])' = Calls(job[w])
BY DEF Calls, Over, RateAtLeast, StoredRate, Score, Penalties, Penalty,
       SpfFound, DkimFound, DmarcFound

LEMMA DueStep == TypeOK /\ DueOrMet /\ [Next]_vars => DueOrMet'
<1> SUFFICES ASSUME TypeOK, DueOrMet, [Next]_vars,
                    NEW v \in Workers, NEW s,
                    pc'[v] \in {"look", "insert"}, s \in Calls(job[v])'
             PROVE  s \in due'[v] \cup met'[v]
  BY DEF DueOrMet
<1>1. ASSUME pc[v] \in {"look", "insert"}, job'[v] = job[v],
             due[v] \cup met[v] \subseteq due'[v] \cup met'[v]
      PROVE  s \in due'[v] \cup met'[v]
  BY <1>1, CallsFixed DEF DueOrMet
<1>2. ASSUME NEW w \in Workers, \/ \E d \in 1 .. MaxCycle : BeginSnapshots(w, d)
                                \/ ReadInput(w) \/ InsertSnapshot(w)
                                \/ RefuseSnapshot(w) \/ InsertHealthCheck(w) \/ UpdateScore(w)
                                \/ FinishAlerts(w) \/ Cut(w)
      PROVE  s \in due'[v] \cup met'[v]
  <2>1. pc'[w] \notin {"look", "insert"}
    BY <1>2 DEF TypeOK, BeginSnapshots, ReadInput, InsertSnapshot, RefuseSnapshot,
                InsertHealthCheck, UpdateScore, FinishAlerts, Cut, EndJob, GoTo
  <2>2. v # w
    BY <2>1
  <2>3. /\ pc'[v] = pc[v] /\ job'[v] = job[v]
        /\ due'[v] = due[v] /\ met'[v] = met[v]
    BY <1>2, <2>2 DEF TypeOK, BeginSnapshots, ReadInput, InsertSnapshot, RefuseSnapshot,
                InsertHealthCheck, UpdateScore, FinishAlerts, Cut, EndJob, GoTo
  <2> QED
    BY <1>1, <2>3
<1>3. ASSUME NEW w \in Workers, ScanSnapshot(w)
      PROVE  s \in due'[v] \cup met'[v]
  <2>1. CASE v = w
    <3>1. job'[w] = snapshot /\ due'[w] = Calls(snapshot) /\ snapshot' = snapshot
      BY <1>3 DEF ScanSnapshot, TypeOK, tables
    <3>2. Calls(job[w])' = Calls(snapshot)
      BY <3>1 DEF Calls, Over, RateAtLeast, StoredRate, Score, Penalties, Penalty,
                  SpfFound, DkimFound, DmarcFound
    <3> QED
      BY <2>1, <3>1, <3>2
  <2>2. CASE v # w
    BY <1>1, <1>3, <2>2 DEF ScanSnapshot, TypeOK, GoTo
  <2> QED
    BY <2>1, <2>2
<1>4. ASSUME NEW w \in Workers, NEW t \in AlertTypes, LookForOpen(w, t)
      PROVE  s \in due'[v] \cup met'[v]
  <2>1. UNCHANGED job /\ pc[w] = "look" /\ (v # w => pc'[v] = pc[v])
    BY <1>4 DEF LookForOpen, Look, GoTo, TypeOK
  <2>2. due[v] \cup met[v] \subseteq due'[v] \cup met'[v]
    BY <1>4 DEF LookForOpen, Look, Meet, TypeOK
  <2> QED
    BY <1>1, <2>1, <2>2
<1>5. ASSUME NEW w \in Workers, NEW t \in AlertTypes, InsertAlert(w, t)
      PROVE  s \in due'[v] \cup met'[v]
  <2>1. UNCHANGED job /\ pc[w] = "insert" /\ (v # w => pc'[v] = pc[v])
    BY <1>5 DEF InsertAlert, Inserting, GoTo, TypeOK
  <2>2. due[v] \cup met[v] \subseteq due'[v] \cup met'[v]
    BY <1>5 DEF InsertAlert, TypeOK
  <2> QED
    BY <1>1, <2>1, <2>2
<1>6. ASSUME NEW t \in AlertTypes, ResolveAlert(t)
      PROVE  s \in due'[v] \cup met'[v]
  BY <1>1, <1>6 DEF ResolveAlert
<1>7. CASE UNCHANGED vars
  BY <1>1, <1>7 DEF vars
<1> QED
  BY <1>2, <1>3, <1>4, <1>5, <1>6, <1>7 DEF Next

(* An alert job overlooks nothing that its snapshot calls for, whatever    *)
(* other workers raise and administrators resolve in the meantime.         *)
THEOREM NothingIsOverlooked == Spec => []NothingOverlooked
<1>1. Init => DueOrMet
  BY DEF Init, DueOrMet
<1>2. DueOrMet => NothingOverlooked
  BY DEF DueOrMet, NothingOverlooked
<1> QED
  BY <1>1, <1>2, TypeCorrect, DueStep, PTL DEF Spec

-----------------------------------------------------------------------------
(* Snapshots *)

(* A snapshot job that is alone has the tables for itself: what it has     *)
(* written so far stays until it writes the rest.  Nothing is half written *)
(* while the last snapshot is whole.                                       *)
Apart ==
    \A w \in alone, v \in Workers :
        InSnapshotJob(w) /\ (InSnapshotJob(v) => v = w)

(* The row that the pages show is of an earlier cycle of this worker, or   *)
(* not of a later one than the latest of some other worker.                *)
ChecksTimed ==
    /\ \/ checkedAt = 0
       \/ \E v \in Workers : checkedAt <= cycle[v]
    /\ \A w \in Workers : pc[w] \in {"read", "snapshot", "health"} =>
          \/ checkedAt < cycle[w]
          \/ \E v \in Workers \ {w} : checkedAt <= cycle[v]

Newest(w) == \A v \in Workers \ {w} : cycle[v] < cycle[w]

WrittenSoFar ==
    \A w \in Workers :
        /\ pc[w] \in {"snapshot", "health", "score"} => job[w] \in Inputs
        /\ w \in alone /\ pc[w] \in {"health", "score"} => snapshot = job[w]
        /\ w \in alone /\ pc[w] = "score" /\ Newest(w) => health = job[w]

WholeAtRest ==
    /\ whole => /\ snapshot # NoRow /\ current = snapshot
                /\ \A w \in Workers : pc[w] \notin {"health", "score"}
    /\ newest => whole /\ health = snapshot

SnapshotInv == Apart /\ ChecksTimed /\ WrittenSoFar /\ WholeAtRest

LEMMA SnapshotsInit == Init => SnapshotInv
  BY DEF Init, SnapshotInv, Apart, ChecksTimed, WrittenSoFar, WholeAtRest

(* Steps that leave the tables and the jobs that write them alone.         *)
LEMMA SnapshotsFrame ==
    ASSUME TypeOK, SnapshotInv, UNCHANGED <<tables, cycle, whole, newest>>,
           alone' \subseteq alone,
           \A v \in Workers : \/ pc'[v] = pc[v] /\ job'[v] = job[v]
                              \/ pc'[v] \notin SnapshotStages /\ v \notin alone'
           PROVE SnapshotInv'
<1> USE DEF TypeOK, SnapshotInv, InSnapshotJob, SnapshotStages, tables
<1>1. Apart'
  BY DEF Apart
<1>2. ChecksTimed'
  BY DEF ChecksTimed
<1>3. WrittenSoFar'
  BY DEF WrittenSoFar, Newest
<1>4. WholeAtRest'
  BY DEF WholeAtRest
<1> QED
  BY <1>1, <1>2, <1>3, <1>4

LEMMA SnapshotsStep == TypeOK /\ SnapshotInv /\ [Next]_vars => SnapshotInv'
<1> SUFFICES ASSUME TypeOK, SnapshotInv, [Next]_vars
             PROVE  SnapshotInv'
  OBVIOUS
<1> USE CycleAssumption DEF TypeOK, SnapshotInv, InSnapshotJob, SnapshotStages
<1>1. ASSUME NEW w \in Workers, NEW t \in 1 .. MaxCycle, BeginSnapshots(w, t)
      PROVE  SnapshotInv'
  <2>1. Apart'
    BY <1>1 DEF BeginSnapshots, Apart, GoTo
  <2>2. ChecksTimed'
    <3>1. /\ cycle'[w] = t /\ cycle[w] < t /\ checkedAt' = checkedAt
          /\ \A v \in Workers \ {w} : cycle'[v] = cycle[v] /\ pc'[v] = pc[v]
      BY <1>1 DEF BeginSnapshots, GoTo, tables
    <3>2. /\ checkedAt \in Nat /\ t \in Nat /\ t > 0
          /\ \A v \in Workers : cycle[v] \in Nat /\ cycle[v] <= cycle'[v]
      BY <3>1
    <3>3. checkedAt = 0 \/ \E v \in Workers : checkedAt <= cycle'[v]
      BY <3>1, <3>2 DEF ChecksTimed
    <3>4. checkedAt < t \/ \E v \in Workers \ {w} : checkedAt <= cycle'[v]
      BY <3>1, <3>2 DEF ChecksTimed
    <3>5. ASSUME NEW v \in Workers \ {w}, pc'[v] \in {"read", "snapshot", "health"}
          PROVE  \/ checkedAt < cycle'[v]
                 \/ \E u \in Workers \ {v} : checkedAt <= cycle'[u]
      BY <3>1, <3>2, <3>5 DEF ChecksTimed
    <3> QED
      BY <3>1, <3>3, <3>4, <3>5 DEF ChecksTimed
  <2>3. WrittenSoFar' /\ WholeAtRest'
    BY <1>1 DEF BeginSnapshots, Apart, WrittenSoFar, WholeAtRest, GoTo, tables
  <2> QED
    BY <2>1, <2>2, <2>3
<1>2. ASSUME NEW w \in Workers, ReadInput(w)
      PROVE  SnapshotInv'
  <2>1. Apart' /\ ChecksTimed'
    BY <1>2 DEF ReadInput, Apart, ChecksTimed, GoTo, tables, lone
  <2>2. WrittenSoFar' /\ WholeAtRest'
    BY <1>2 DEF ReadInput, WrittenSoFar, WholeAtRest, Newest, GoTo, tables, lone
  <2> QED
    BY <2>1, <2>2
<1>3. ASSUME NEW w \in Workers, InsertSnapshot(w)
      PROVE  SnapshotInv'
  <2>1. Apart' /\ ChecksTimed'
    BY <1>3 DEF InsertSnapshot, Apart, ChecksTimed, GoTo
  <2>2. WrittenSoFar' /\ WholeAtRest'
    BY <1>3 DEF InsertSnapshot, Apart, WrittenSoFar, WholeAtRest, Newest, GoTo
  <2> QED
    BY <2>1, <2>2
<1>4. ASSUME NEW w \in Workers, InsertHealthCheck(w)
      PROVE  SnapshotInv'
  <2>1. Apart'
    BY <1>4 DEF InsertHealthCheck, Apart, GoTo, lone
  <2>2. /\ pc[w] = "health" /\ cycle' = cycle
        /\ \/ cycle[w] >= checkedAt /\ health' = job[w] /\ checkedAt' = cycle[w]
           \/ cycle[w] <= checkedAt /\ UNCHANGED <<health, checkedAt>>
        /\ pc' = [pc EXCEPT ![w] = "score"]
        /\ UNCHANGED <<snapshot, current, job, alone, whole, newest>>
    BY <1>4 DEF InsertHealthCheck, GoTo, lone
  <2>3. ChecksTimed'
    BY <2>2 DEF ChecksTimed
  <2>4. Newest(w) => health' = job[w]
    <3>1. \A v \in Workers : cycle[v] \in Nat /\ checkedAt \in Nat
      OBVIOUS
    <3> QED
      BY <2>2, <3>1 DEF ChecksTimed, Newest
  <2>5. WrittenSoFar' /\ WholeAtRest'
    BY <2>2, <2>4 DEF Apart, WrittenSoFar, WholeAtRest, Newest
  <2> QED
    BY <2>1, <2>3, <2>5
<1>5. ASSUME NEW w \in Workers, UpdateScore(w)
      PROVE  SnapshotInv'
  <2>1. Apart' /\ ChecksTimed'
    BY <1>5 DEF UpdateScore, EndJob, Apart, ChecksTimed, GoTo
  <2>2. WrittenSoFar'
    BY <1>5 DEF UpdateScore, EndJob, WrittenSoFar, Newest, GoTo
  <2>3. WholeAtRest'
    BY <1>5, InputsAssumption
    DEF UpdateScore, EndJob, Apart, WrittenSoFar, WholeAtRest, Newest, GoTo
  <2> QED
    BY <2>1, <2>2, <2>3
<1>6. ASSUME NEW w \in Workers, RefuseSnapshot(w) \/ FinishAlerts(w) \/ Cut(w)
      PROVE  SnapshotInv'
  BY <1>6, SnapshotsFrame DEF RefuseSnapshot, FinishAlerts, Cut, EndJob, GoTo
<1>7. ASSUME NEW w \in Workers, ScanSnapshot(w)
      PROVE  SnapshotInv'
  <2>1. w \notin alone
    BY <1>7 DEF ScanSnapshot, Apart
  <2> QED
    BY <1>7, <2>1, SnapshotsFrame DEF ScanSnapshot, GoTo, lone
<1>8. ASSUME NEW w \in Workers, NEW t \in AlertTypes, LookForOpen(w, t) \/ InsertAlert(w, t)
      PROVE  SnapshotInv'
  <2>1. /\ pc[w] \in {"look", "insert"} /\ pc'[w] \in {"look", "insert"}
        /\ \A v \in Workers \ {w} : pc'[v] = pc[v]
        /\ UNCHANGED <<tables, cycle, job, lone>>
    BY <1>8 DEF LookForOpen, Look, InsertAlert, Inserting, GoTo
  <2>2. w \notin alone
    BY <2>1 DEF Apart
  <2> QED
    BY <2>1, <2>2, SnapshotsFrame DEF lone
<1>9. CASE (\E t \in AlertTypes : ResolveAlert(t)) \/ UNCHANGED vars
  BY <1>9, SnapshotsFrame DEF ResolveAlert, vars, lone
<1> QED
  BY <1>1, <1>2, <1>3, <1>4, <1>5, <1>6, <1>7, <1>8, <1>9 DEF Next

(* After a snapshot job that no other overlapped the overview and the      *)
(* customer's list show its score, and when it was of the latest cycle the *)
(* pages that read by checked_at do, too: whatever jobs that overlapped or *)
(* were cut had left behind, for any number of workers and cycles.         *)
THEOREM WholeSnapshotsAgree == Spec => []WholeSnapshotAgrees
<1>1. SnapshotInv => WholeSnapshotAgrees
  BY DEF SnapshotInv, WholeAtRest, WholeSnapshotAgrees, LoadDomainHealth,
         AverageHealthScore, ListedScore
<1> QED
  BY <1>1, TypeCorrect, SnapshotsInit, SnapshotsStep, PTL DEF Spec

-----------------------------------------------------------------------------
(* Rates *)

LEMMA DivAtLeast ==
    ASSUME NEW x \in Nat, NEW d \in Nat, d > 0, NEW q \in Nat
    PROVE  x \div d >= q <=> x >= q * d
  OBVIOUS

(* Rounding lifts a rate by half a ten-thousandth at most.                 *)
LEMMA StoredRateAtLeast ==
    ASSUME NEW value \in Nat, NEW total \in Nat, NEW n \in Nat, n > 0
    PROVE  StoredRate(value, total) >= n <=>
               total > 0 /\ 20000 * value + total >= n * (2 * total)
<1>1. CASE total = 0
  BY <1>1 DEF StoredRate
<1>2. CASE total # 0
  <2>1. 20000 * value + total \in Nat /\ 2 * total \in Nat /\ 2 * total > 0
    BY <1>2
  <2> QED
    BY <1>2, <2>1, DivAtLeast DEF StoredRate
<1> QED
  BY <1>1, <1>2

(* The exact rate and the stored one never disagree about a threshold but  *)
(* in the rounding: alerts are raised for all that lowers the score, and   *)
(* for nothing further below a threshold than rounding reaches.            *)
THEOREM AlertsAndPenalties == Spec => []AlertsFollowPenalties
<1>1. TypeOK => AlertsFollowPenalties
  <2> SUFFICES ASSUME TypeOK, snapshot # NoRow
               PROVE  AlertsFollowPenalties
    BY DEF AlertsFollowPenalties
  <2> DEFINE a == snapshot.accepted
             b == snapshot.bounced
             r == snapshot.rejected
             f == snapshot.deferred
  <2>1. a \in Nat /\ b \in Nat /\ r \in Nat /\ f \in Nat
    BY InputsAssumption DEF TypeOK, InputType
  <2>2. Over(snapshot, "high_bounce_rate") <=> StoredRate(b, a) >= 500
    BY DEF Over
  <2>3. Over(snapshot, "delivery_degradation") <=>
            StoredRate(r, a) >= 500 \/ StoredRate(f, a) >= 1000
    BY DEF Over
  <2> HIDE DEF a, b, r, f
  <2>4. StoredRate(b, a) >= 500 <=> a > 0 /\ 20000 * b + a >= 500 * (2 * a)
    BY <2>1, StoredRateAtLeast
  <2>5. StoredRate(r, a) >= 500 <=> a > 0 /\ 20000 * r + a >= 500 * (2 * a)
    BY <2>1, StoredRateAtLeast
  <2>6. StoredRate(f, a) >= 1000 <=> a > 0 /\ 20000 * f + a >= 1000 * (2 * a)
    BY <2>1, StoredRateAtLeast
  <2>7. /\ RateAtLeast(b, a, 5) => Over(snapshot, "high_bounce_rate")
        /\ Over(snapshot, "high_bounce_rate") => 20000 * b >= 999 * a
    BY <2>1, <2>2, <2>4 DEF RateAtLeast
  <2>8. /\ RateAtLeast(r, a, 5) => Over(snapshot, "delivery_degradation")
        /\ RateAtLeast(f, a, 10) => Over(snapshot, "delivery_degradation")
        /\ Over(snapshot, "delivery_degradation")
              => 20000 * r >= 999 * a \/ 20000 * f >= 1999 * a
    BY <2>1, <2>3, <2>5, <2>6 DEF RateAtLeast
  <2> QED
    BY <2>1, <2>7, <2>8 DEF AlertsFollowPenalties, a, b, r, f
<1> QED
  BY <1>1, TypeCorrect, PTL
=============================================================================
