------------------------- MODULE LoginThrottleProofs -------------------------
(***************************************************************************)
(* Proofs about LoginThrottle, for any number of concurrent logins, any    *)
(* configuration that is accepted, and any number of faults.               *)
(***************************************************************************)
EXTENDS LoginThrottle, FiniteSetTheorems, TLAPS

-----------------------------------------------------------------------------
(* Types *)

LEMMA NextType == TypeOK /\ [Next]_vars => TypeOK'
<1>. SUFFICES ASSUME TypeOK, [Next]_vars PROVE TypeOK'
  OBVIOUS
<1>. USE ConfigAssumption, BoundsAssumption DEF TypeOK
<1>1. ASSUME NEW l \in Logins, Check(l) \/ Compare(l) PROVE TypeOK'
  BY <1>1 DEF Check, Compare, GoTo, keyVars
<1>2. ASSUME NEW l \in Logins, Reset(l) \/ ClearFailures(l) PROVE TypeOK'
  BY <1>2 DEF Reset, ClearFailures, DelFailures, GoTo
<1>3. ASSUME NEW l \in Logins, RecordFailure(l) PROVE TypeOK'
  BY <1>3 DEF RecordFailure, Incr, AfterIncr, GoTo
<1>4. ASSUME NEW l \in Logins, Expire(l) PROVE TypeOK'
  BY <1>4 DEF Expire, ExpireFailures, GoTo
<1>5. ASSUME NEW l \in Logins, Block(l) PROVE TypeOK'
  BY <1>5 DEF Block, GoTo
<1>6. ASSUME NEW l \in Logins, CheckFails(l) \/ CutShort(l) PROVE TypeOK'
  BY <1>6 DEF CheckFails, CutShort, Fault, GoTo, keyVars
<1>7. ASSUME NEW l \in Logins, RepeatIncr(l) PROVE TypeOK'
  BY <1>7 DEF RepeatIncr, Fault, Incr
<1>8. ASSUME Tick PROVE TypeOK'
  BY <1>8 DEF Tick
<1>9. ASSUME UNCHANGED vars PROVE TypeOK'
  BY <1>9 DEF vars, keyVars
<1>. QED
  BY <1>1, <1>2, <1>3, <1>4, <1>5, <1>6, <1>7, <1>8, <1>9 DEF Next, Step

(* The keys, the logins and the history keep their types. *)
THEOREM TypeCorrect == Spec => []TypeOK
<1>1. Init => TypeOK
  BY ConfigAssumption, BoundsAssumption DEF Init, TypeOK
<1>. QED
  BY <1>1, NextType, PTL DEF Spec

-----------------------------------------------------------------------------
(* The time to live of the counter *)

LEMMA NextExpires == TypeOK /\ CounterExpires /\ [Next]_vars => CounterExpires'
<1>. SUFFICES ASSUME TypeOK, CounterExpires, [Next]_vars PROVE CounterExpires'
  OBVIOUS
<1>. USE ConfigAssumption DEF TypeOK, CounterExpires
<1>1. ASSUME NEW l \in Logins, Check(l) \/ Compare(l) PROVE CounterExpires'
  BY <1>1 DEF Check, Compare, GoTo, keyVars
<1>2. ASSUME NEW l \in Logins, Reset(l) \/ ClearFailures(l) PROVE CounterExpires'
  BY <1>2 DEF Reset, ClearFailures, DelFailures
<1>3. ASSUME NEW l \in Logins, RecordFailure(l) PROVE CounterExpires'
  <2>1. CASE fails = 0
    BY <1>3, <2>1 DEF RecordFailure, AfterIncr, GoTo
  <2>2. CASE fails # 0
    BY <1>3, <2>2 DEF RecordFailure, Incr, GoTo
  <2>. QED
    BY <2>1, <2>2
<1>4. ASSUME NEW l \in Logins, Expire(l) PROVE CounterExpires'
  BY <1>4 DEF Expire, ExpireFailures
<1>5. ASSUME NEW l \in Logins, Block(l) PROVE CounterExpires'
  BY <1>5 DEF Block, GoTo
<1>6. ASSUME NEW l \in Logins, CheckFails(l) \/ RepeatIncr(l) \/ CutShort(l)
      PROVE  CounterExpires'
  BY <1>6, BoundsAssumption DEF CheckFails, RepeatIncr, CutShort, Fault
<1>7. ASSUME Tick PROVE CounterExpires'
  BY <1>7 DEF Tick
<1>8. ASSUME UNCHANGED vars PROVE CounterExpires'
  BY <1>8 DEF vars, keyVars
<1>. QED
  BY <1>1, <1>2, <1>3, <1>4, <1>5, <1>6, <1>7, <1>8 DEF Next, Step

(* Without faults, failures are never counted for ever. *)
THEOREM CounterGetsExpiry == Spec => []CounterExpires
<1>1. Init => CounterExpires
  BY DEF Init, CounterExpires
<1>2. Init => TypeOK
  BY ConfigAssumption, BoundsAssumption DEF Init, TypeOK
<1>. QED
  BY <1>1, <1>2, NextType, NextExpires, PTL DEF Spec

-----------------------------------------------------------------------------
(* Failures and lockouts *)

(* The logins that have no deletion of the counter ahead of them. *)
NotClearing == {l \in Logins : pc[l] # "clear"}

(* The part of the counter that a deletion can take away unpunished. *)
Counted == IF fails <= MaxFailures THEN fails ELSE MaxFailures

(* Failures that went unpunished are in the counter, or were in one that   *)
(* was deleted by a login that is no longer clearing; the login that failed*)
(* last is not either, and this one deleted nothing.                       *)
StreakInv ==
    unpunished > 0 =>
        unpunished + MaxFailures
           <= Counted + MaxFailures * Cardinality(NotClearing) + faults

LEMMA NotClearingFinite ==
    /\ IsFiniteSet(NotClearing)
    /\ Cardinality(NotClearing) \in Nat
    /\ Cardinality(NotClearing) <= Cardinality(Logins)
BY BoundsAssumption, FS_Subset, FS_CardinalityType DEF NotClearing

(* A set with a member has room for one times MaxFailures, and one with a  *)
(* member more for one more.                                               *)
LEMMA Room ==
    ASSUME NEW n \in Nat
    PROVE  /\ MaxFailures * n \in Nat
           /\ MaxFailures * (n + 1) = MaxFailures * n + MaxFailures
           /\ n > 0 => MaxFailures * n >= MaxFailures
BY ConfigAssumption, SMT

LEMMA NextStreak == TypeOK /\ StreakInv /\ [Next]_vars => StreakInv'
<1>. SUFFICES ASSUME TypeOK, StreakInv, [Next]_vars PROVE StreakInv'
  OBVIOUS
<1>. DEFINE n == Cardinality(NotClearing)
<1>. USE ConfigAssumption DEF TypeOK
<1>1. /\ n \in Nat
      /\ Counted \in Nat
      /\ Counted <= MaxFailures
      /\ fails \in Nat /\ unpunished \in Nat /\ faults \in Nat
  BY NotClearingFinite, BoundsAssumption DEF Counted
<1>2. ASSUME NEW l \in Logins, pc[l] # "clear" PROVE n > 0
  <2>1. l \in NotClearing
    BY <1>2 DEF NotClearing
  <2>. QED
    BY <1>1, <2>1, NotClearingFinite, FS_EmptySet DEF NotClearing
(* A login that neither deletes nor blocks leaves the set as it is. *)
<1>3. ASSUME NEW l \in Logins, NEW p, GoTo(l, p), pc[l] # "clear", p # "clear"
      PROVE  NotClearing' = NotClearing
  BY <1>3 DEF GoTo, NotClearing
<1>4. ASSUME NEW l \in Logins, NEW p, GoTo(l, p), pc[l] = "clear", p # "clear"
      PROVE  n' = n + 1
  <2>1. NotClearing' = NotClearing \cup {l} /\ l \notin NotClearing
    BY <1>4 DEF GoTo, NotClearing
  <2>. QED
    BY <2>1, NotClearingFinite, FS_AddElement
<1>. HIDE DEF n
<1>5. ASSUME n' = n, Counted' = Counted, UNCHANGED <<unpunished, faults>> PROVE StreakInv'
  BY <1>5 DEF StreakInv, n
<1>6. ASSUME NEW l \in Logins, Check(l) \/ Compare(l) PROVE StreakInv'
  <2>1. n' = n
    BY <1>6, <1>3 DEF Check, Compare, n
  <2>. QED
    BY <1>5, <1>6, <2>1 DEF Check, Compare, keyVars, Counted
<1>7. ASSUME unpunished' = 0 PROVE StreakInv'
  BY <1>7 DEF StreakInv
<1>8. ASSUME NEW l \in Logins, RecordFailure(l) PROVE StreakInv'
  <2>1. n' = n /\ n > 0
    <3>1. pc[l] # "clear" /\ AfterIncr(fails + 1) # "clear"
      BY <1>8 DEF RecordFailure, AfterIncr
    <3>. QED
      BY <1>8, <3>1, <1>2, <1>3 DEF RecordFailure, n
  <2>2. faults' = faults /\ fails' = fails + 1
    BY <1>8 DEF RecordFailure, Incr
  <2>3. CASE fails + 1 <= MaxFailures
    <3>1. unpunished' = unpunished + 1
      BY <1>1, <1>8, <2>3 DEF RecordFailure, AfterIncr
    <3>2. Counted' = Counted + 1
      BY <1>1, <2>2, <2>3 DEF Counted
    <3>. QED
      BY <1>1, <2>1, <2>2, <3>1, <3>2, Room DEF StreakInv, n
  <2>4. CASE ~(fails + 1 <= MaxFailures)
    <3>1. unpunished' = unpunished
      BY <1>1, <1>8, <2>4 DEF RecordFailure, AfterIncr
    <3>2. Counted' = Counted
      BY <1>1, <2>2, <2>4 DEF Counted
    <3>. QED
      BY <1>5, <2>1, <2>2, <3>1, <3>2
  <2>. QED
    BY <2>3, <2>4
<1>9. ASSUME NEW l \in Logins, Expire(l) PROVE StreakInv'
  <2>1. n' = n
    BY <1>9, <1>3 DEF Expire, n
  <2>. QED
    BY <1>5, <1>9, <2>1 DEF Expire, ExpireFailures, Counted
<1>10. ASSUME NEW l \in Logins, ClearFailures(l) PROVE StreakInv'
  <2>1. n' = n + 1 /\ Counted' = 0 /\ UNCHANGED <<unpunished, faults>>
    BY <1>10, <1>4 DEF ClearFailures, DelFailures, Counted, n
  <2>. QED
    BY <1>1, <2>1, Room DEF StreakInv, n
<1>11. ASSUME NEW l \in Logins, CheckFails(l) \/ RepeatIncr(l) PROVE StreakInv'
  <2>1. n' = n
    BY <1>11, <1>3 DEF CheckFails, RepeatIncr, NotClearing, n
  <2>2. faults' = faults + 1 /\ unpunished' = unpunished
    BY <1>11 DEF CheckFails, RepeatIncr, Fault
  <2>3. fails' \in {fails, fails + 1}
    BY <1>11 DEF CheckFails, RepeatIncr, Incr, keyVars
  <2>4. Counted' \in Nat /\ Counted' >= Counted
    BY <1>1, <2>3 DEF Counted
  <2>5. MaxFailures * n \in Nat
    BY <1>1, Room
  <2>. QED
    BY <1>1, <2>1, <2>2, <2>4, <2>5 DEF StreakInv, n
<1>12. ASSUME NEW l \in Logins, CutShort(l) PROVE StreakInv'
  <2>1. faults' = faults + 1 /\ Counted' = Counted
    BY <1>12 DEF CutShort, Fault, keyVars, Counted
  <2>2. CASE pc[l] = "clear"
    <3>1. n' = n + 1 /\ unpunished' = unpunished
      BY <1>12, <1>4, <2>2 DEF CutShort, n
    <3>. QED
      BY <1>1, <2>1, <3>1, Room DEF StreakInv, n
  <2>3. CASE pc[l] # "clear"
    <3>1. n' = n /\ n > 0
      BY <1>12, <1>2, <1>3, <2>3 DEF CutShort, n
    <3>2. unpunished' \in {unpunished, unpunished + 1}
      BY <1>12 DEF CutShort
    <3>. QED
      BY <1>1, <2>1, <3>1, <3>2, Room DEF StreakInv, n
  <2>. QED
    BY <2>2, <2>3
<1>13. ASSUME Tick PROVE StreakInv'
  <2>1. CASE failTTL = 1
    BY <1>7, <1>13, <2>1 DEF Tick
  <2>2. CASE failTTL # 1
    BY <1>5, <1>13, <2>2 DEF Tick, Counted, NotClearing, n
  <2>. QED
    BY <2>1, <2>2
<1>14. ASSUME UNCHANGED vars PROVE StreakInv'
  BY <1>5, <1>14 DEF vars, keyVars, Counted, NotClearing, n
<1>. QED
  BY <1>6, <1>7, <1>8, <1>9, <1>10, <1>11, <1>12, <1>13, <1>14
  DEF Next, Step, Reset, Block

(* For any number of concurrent logins, at most MaxFailures failures for   *)
(* each of them, and one for each fault, go by without a lockout.          *)
THEOREM StreaksAreBounded == Spec => []FailuresLeadToLockout
<1>1. Init => TypeOK /\ StreakInv
  BY ConfigAssumption, BoundsAssumption DEF Init, TypeOK, StreakInv
<1>2. TypeOK /\ StreakInv => FailuresLeadToLockout
  <2>. SUFFICES ASSUME TypeOK, StreakInv PROVE FailuresLeadToLockout
    OBVIOUS
  <2>. DEFINE n == Cardinality(NotClearing)
              m == Cardinality(Logins)
  <2>1. n \in Nat /\ m \in Nat /\ n <= m
    BY NotClearingFinite, BoundsAssumption, FS_CardinalityType
  <2>2. Counted <= MaxFailures /\ Counted \in Nat
    BY ConfigAssumption DEF Counted, TypeOK
  <2>. HIDE DEF n, m
  <2>3. MaxFailures * n <= MaxFailures * m /\ MaxFailures * m \in Nat
    BY <2>1, ConfigAssumption
  <2>4. MaxFailures * n \in Nat
    BY <2>1, Room
  <2>5. unpunished \in Nat /\ faults \in Nat
    BY BoundsAssumption DEF TypeOK
  <2>. QED
    BY <2>2, <2>3, <2>4, <2>5, ConfigAssumption DEF StreakInv, FailuresLeadToLockout, n, m
<1>. QED
  BY <1>1, <1>2, NextType, NextStreak, PTL DEF Spec
=============================================================================
