---------------------------- MODULE IngestProofs ----------------------------
(***************************************************************************)
(* Proofs about Ingest, for any events, credentials and number of attempts *)
(* that run at the same time.                                              *)
(***************************************************************************)
EXTENDS Ingest, FiniteSetTheorems, TLAPS

TypeInv == TypeOK /\ \A h \in Handlers : pc[h] # "idle" => event[h] \in Events

(* What an attempt relies on: the log of its event stays until it ends,    *)
(* and once it is past its transaction no other attempt committed the same.*)
AttemptsInv ==
    \A h \in Handlers :
        /\ event[h] \in applied => event[h] \in logs
        /\ pc[h] \in {"count", "meter"} =>
              /\ event[h] \in logs
              /\ \A k \in Handlers :
                    pc[k] \in {"count", "meter"} /\ event[k] = event[h] => k = h

HistoryInv ==
    /\ logs \subseteq applied
    /\ today \subseteq applied
    /\ thisMonth \subseteq applied

LogInv == TypeInv /\ AttemptsInv /\ HistoryInv /\ AnsweredIsLogged

-----------------------------------------------------------------------------
(* Types *)

LEMMA CountsForType == CountsFor \in [Events -> Creds \cup {NoCred}]
BY EventsAssumption, CredsAssumption DEF CountsFor

(* Counting an event and clearing a counter keep counters natural. *)
LEMMA CounterTypes ==
    ASSUME NEW counter \in [Creds -> Nat], NEW e, NEW cs
    PROVE  /\ Bump(counter, e) \in [Creds -> Nat]
           /\ Clear(counter, cs) \in [Creds -> Nat]
BY DEF Bump, Clear

(* The four kinds of reset are all a ResetUsage. *)
LEMMA ResetKinds ==
    ASSUME \/ RunDailyReset
           \/ RunMonthlyReset
           \/ \E o \in Orgs : ResetOrganizationUsage(o)
           \/ \E c \in Creds, d, m \in BOOLEAN : UpdateCredentialQuota(c, d, m)
    PROVE  \E ds, ms \in SUBSET Creds : ResetUsage(ds, ms)
<1>1. CASE RunDailyReset
  BY <1>1 DEF RunDailyReset
<1>2. CASE RunMonthlyReset
  BY <1>2 DEF RunMonthlyReset
<1>3. ASSUME NEW o \in Orgs, ResetOrganizationUsage(o)
      PROVE  \E ds, ms \in SUBSET Creds : ResetUsage(ds, ms)
  <2>. DEFINE cs == {c \in Creds : OrgOf[c] = o}
  <2>1. ResetUsage(cs, cs)
    BY <1>3 DEF ResetOrganizationUsage
  <2>2. cs \in SUBSET Creds
    OBVIOUS
  <2>. HIDE DEF cs
  <2>. QED
    BY <2>1, <2>2
<1>4. ASSUME NEW c \in Creds, NEW d \in BOOLEAN, NEW m \in BOOLEAN,
             UpdateCredentialQuota(c, d, m)
      PROVE  \E ds, ms \in SUBSET Creds : ResetUsage(ds, ms)
  <2>1. PICK ds, ms : ResetUsage(ds, ms) /\ ds \in SUBSET Creds /\ ms \in SUBSET Creds
    BY <1>4 DEF UpdateCredentialQuota
  <2>. QED
    BY <2>1
<1>. QED
  BY <1>1, <1>2, <1>3, <1>4

(* The types of the tables and counters are kept by every step. *)
LEMMA NextType == TypeInv /\ [Next]_vars => TypeInv'
<1>. SUFFICES ASSUME TypeInv, [Next]_vars PROVE TypeInv'
  OBVIOUS
<1>. USE DEF TypeInv, TypeOK
<1>1. ASSUME NEW h \in Handlers, NEW e \in Events, Deliver(h, e) PROVE TypeInv'
  BY <1>1 DEF Deliver, Begin, tableVars, counterVars, redisVars
<1>2. ASSUME NEW h \in Handlers, Duplicate(h) PROVE TypeInv'
  BY <1>2 DEF Duplicate, Answer202, End, tableVars, counterVars, redisVars
<1>3. ASSUME NEW h \in Handlers, RollBack(h) \/ Die(h) PROVE TypeInv'
  BY <1>3 DEF RollBack, Die, Refuse, End, tableVars, counterVars, redisVars
<1>4. ASSUME NEW h \in Handlers, Commit(h) PROVE TypeInv'
  <2>1. daily' \in [Creds -> Nat] /\ monthly' \in [Creds -> Nat]
    BY <1>4, CounterTypes DEF Commit, InsertSendLog, CountEvent
  <2>2. event[h] \in Events
    BY <1>4 DEF Commit
  <2>3. /\ logs' \subseteq Events
        /\ applied' \subseteq Events
        /\ today' \subseteq Events
        /\ thisMonth' \subseteq Events
        /\ bounces' \in [Events -> Nat]
    BY <1>4, <2>2 DEF Commit, InsertSendLog, CountEvent
  <2>. QED
    BY <1>4, <2>1, <2>2, <2>3 DEF Commit, InsertSendLog, GoTo, redisVars
<1>5. ASSUME NEW h \in Handlers, RecordAcceptedEvent(h) PROVE TypeInv'
  <2>1. Bump(minute, event[h]) \in [Creds -> Nat]
    BY CounterTypes
  <2>2. minute' \in [Creds -> Nat]
    BY <1>5, <2>1 DEF RecordAcceptedEvent
  <2>. QED
    BY <1>5, <2>2 DEF RecordAcceptedEvent, GoTo, tableVars, counterVars, redisVars
<1>6. ASSUME NEW h \in Handlers, RecordSendLogEvent(h) PROVE TypeInv'
  BY <1>6 DEF RecordSendLogEvent, Answer202, End, counterVars, redisVars
<1>7. ASSUME NEW ds \in SUBSET Creds, NEW ms \in SUBSET Creds, ResetUsage(ds, ms)
      PROVE  TypeInv'
  BY <1>7, CounterTypes DEF ResetUsage, Forget, requestVars, tableVars, redisVars
<1>8. ASSUME NEW c \in Creds, ExpireMinute(c) PROVE TypeInv'
  BY <1>8 DEF ExpireMinute, requestVars, tableVars, counterVars, redisVars
<1>9. ASSUME NEW old \in SUBSET logs, RunCleanup(old) PROVE TypeInv'
  BY <1>9 DEF RunCleanup, requestVars, counterVars, redisVars
<1>10. ASSUME NEW h \in Handlers, RepeatAcceptedEvent(h) PROVE TypeInv'
  <2>1. minute' \in [Creds -> Nat]
    BY <1>10, CounterTypes DEF RepeatAcceptedEvent
  <2>2. repeated' \in 0 .. MaxRepeats
    BY <1>10, RepeatsAssumption DEF RepeatAcceptedEvent
  <2>. QED
    BY <1>10, <2>1, <2>2 DEF RepeatAcceptedEvent, requestVars, tableVars, counterVars
<1>11. ASSUME UNCHANGED vars PROVE TypeInv'
  BY <1>11 DEF vars, requestVars, tableVars, counterVars, redisVars
<1>. QED
  BY <1>1, <1>2, <1>3, <1>4, <1>5, <1>6, <1>7, <1>8, <1>9, <1>10, <1>11,
     ResetKinds DEF Next

(* Every table and counter has its type, and an attempt that runs has an   *)
(* event, in every reachable state.                                        *)
THEOREM TypeCorrect == Spec => []TypeOK
<1>1. Init => TypeInv
  BY RepeatsAssumption DEF Init, TypeInv, TypeOK
<1>2. TypeInv => TypeOK
  BY DEF TypeInv
<1>. QED
  BY <1>1, <1>2, NextType, PTL DEF Spec

-----------------------------------------------------------------------------
(* Logs and answers *)

(* The attempts, the history and what was answered stay in agreement. *)
LEMMA NextLogs == LogInv /\ [Next]_vars => LogInv'
<1>. SUFFICES ASSUME LogInv, [Next]_vars
              PROVE  AttemptsInv' /\ HistoryInv' /\ AnsweredIsLogged'
  BY NextType DEF LogInv
<1>. USE DEF LogInv, TypeInv, TypeOK, AttemptsInv, HistoryInv, AnsweredIsLogged
<1>1. ASSUME NEW h \in Handlers, NEW e \in Events, Deliver(h, e)
      PROVE  AttemptsInv' /\ HistoryInv' /\ AnsweredIsLogged'
  BY <1>1 DEF Deliver, Begin, tableVars, counterVars, redisVars
<1>2. ASSUME NEW h \in Handlers, Duplicate(h)
      PROVE  AttemptsInv' /\ HistoryInv' /\ AnsweredIsLogged'
  BY <1>2, EventsAssumption DEF Duplicate, Answer202, End, tableVars, counterVars, redisVars
<1>3. ASSUME NEW h \in Handlers, RollBack(h) \/ Die(h)
      PROVE  AttemptsInv' /\ HistoryInv' /\ AnsweredIsLogged'
  BY <1>3, EventsAssumption DEF RollBack, Die, Refuse, End, tableVars, counterVars, redisVars
<1>4. ASSUME NEW h \in Handlers, Commit(h)
      PROVE  AttemptsInv' /\ HistoryInv' /\ AnsweredIsLogged'
  BY <1>4 DEF Commit, InsertSendLog, CountEvent, GoTo
<1>5. ASSUME NEW h \in Handlers, RecordAcceptedEvent(h)
      PROVE  AttemptsInv' /\ HistoryInv' /\ AnsweredIsLogged'
  BY <1>5 DEF RecordAcceptedEvent, GoTo, tableVars, counterVars, redisVars
<1>6. ASSUME NEW h \in Handlers, RecordSendLogEvent(h)
      PROVE  AttemptsInv' /\ HistoryInv' /\ AnsweredIsLogged'
  BY <1>6, EventsAssumption DEF RecordSendLogEvent, Answer202, End, counterVars, redisVars
<1>7. ASSUME NEW ds, NEW ms, ResetUsage(ds, ms)
      PROVE  AttemptsInv' /\ HistoryInv' /\ AnsweredIsLogged'
  BY <1>7 DEF ResetUsage, Forget, requestVars, tableVars, redisVars
<1>8. ASSUME NEW c \in Creds, ExpireMinute(c)
      PROVE  AttemptsInv' /\ HistoryInv' /\ AnsweredIsLogged'
  BY <1>8 DEF ExpireMinute, requestVars, tableVars, counterVars, redisVars
<1>9. ASSUME NEW old \in SUBSET logs, RunCleanup(old)
      PROVE  AttemptsInv' /\ HistoryInv' /\ AnsweredIsLogged'
  BY <1>9 DEF RunCleanup, requestVars, counterVars, redisVars
<1>10. ASSUME NEW h \in Handlers, RepeatAcceptedEvent(h)
      PROVE  AttemptsInv' /\ HistoryInv' /\ AnsweredIsLogged'
  BY <1>10 DEF RepeatAcceptedEvent, requestVars, tableVars, counterVars
<1>11. ASSUME UNCHANGED vars
       PROVE  AttemptsInv' /\ HistoryInv' /\ AnsweredIsLogged'
  BY <1>11 DEF vars, requestVars, tableVars, counterVars, redisVars
<1>. QED
  BY <1>1, <1>2, <1>3, <1>4, <1>5, <1>6, <1>7, <1>8, <1>9, <1>10, <1>11,
     ResetKinds DEF Next

LEMMA LogInvariant == Spec => []LogInv
<1>1. Init => LogInv
  BY EventsAssumption, RepeatsAssumption DEF Init, LogInv, TypeInv, TypeOK, AttemptsInv, HistoryInv, AnsweredIsLogged
<1>. QED
  BY <1>1, NextLogs, PTL DEF Spec

(* A 202 answer means a committed send log, and usage records stay within  *)
(* the send logs, whatever the attempts and the cleanup do to each other.  *)
THEOREM AnswersAreSafe == Spec => []AnsweredIsLogged
<1>1. LogInv => AnsweredIsLogged
  BY DEF LogInv
<1>. QED
  BY <1>1, LogInvariant, PTL

-----------------------------------------------------------------------------
(* Counting *)

(* The events of attempts that have committed and not yet counted their    *)
(* event in Redis.                                                         *)
Uncounted == {event[h] : h \in {k \in Handlers : pc[k] = "count"}}

(* The minute counter is bounded by the events that were past it, not just *)
(* by those applied: the attempts at "count" may still add theirs.         *)
CountInv ==
    /\ IsFiniteSet(applied)
    /\ \A c \in Creds : /\ daily[c] = CountedFor(today, c)
                        /\ monthly[c] = CountedFor(thisMonth, c)
                        /\ minute[c] <= CountedFor(applied \ Uncounted, c) + repeated
    /\ \A e \in Events :
          bounces[e] = (IF e \in applied \cap (SoftBounces \ Unmatched) THEN 1 ELSE 0)

(* One more event raises the count of its own credential by one. *)
LEMMA CountAdd ==
    ASSUME NEW es, IsFiniteSet(es), NEW e, e \notin es, NEW c
    PROVE  /\ CountedFor(es, c) \in Nat
           /\ CountedFor(es \cup {e}, c)
                 = IF CountsFor[e] = c THEN CountedFor(es, c) + 1 ELSE CountedFor(es, c)
<1>. DEFINE S == {x \in es : CountsFor[x] = c}
            T == {x \in es \cup {e} : CountsFor[x] = c}
<1>1. IsFiniteSet(S)
  BY FS_Subset
<1>2. Cardinality(S) \in Nat
  BY <1>1, FS_CardinalityType
<1>3. CASE CountsFor[e] = c
  <2>1. T = S \cup {e} /\ e \notin S
    BY <1>3
  <2>2. Cardinality(T) = Cardinality(S) + 1
    BY <1>1, <2>1, FS_AddElement
  <2>. QED
    BY <1>2, <1>3, <2>2 DEF CountedFor
<1>4. CASE CountsFor[e] # c
  <2>1. T = S
    BY <1>4
  <2>. QED
    BY <1>2, <1>4, <2>1 DEF CountedFor
<1>. QED
  BY <1>3, <1>4

(* Forgetting the events of the credentials cs empties their counts and    *)
(* leaves the others.                                                      *)
LEMMA CountForget ==
    ASSUME NEW es, NEW cs, NEW c
    PROVE  CountedFor(Forget(es, cs), c) = IF c \in cs THEN 0 ELSE CountedFor(es, c)
<1>1. CASE c \in cs
  <2>1. {e \in Forget(es, cs) : CountsFor[e] = c} = {}
    BY <1>1 DEF Forget
  <2>. QED
    BY <1>1, <2>1, FS_EmptySet DEF CountedFor
<1>2. CASE c \notin cs
  <2>1. {e \in Forget(es, cs) : CountsFor[e] = c} = {e \in es : CountsFor[e] = c}
    BY <1>2 DEF Forget
  <2>. QED
    BY <1>2, <2>1 DEF CountedFor
<1>. QED
  BY <1>1, <1>2

(* More events never count for less. *)
LEMMA CountMonotone ==
    ASSUME NEW fs, IsFiniteSet(fs), NEW es \in SUBSET fs, NEW c
    PROVE  /\ CountedFor(es, c) \in Nat
           /\ CountedFor(fs, c) \in Nat
           /\ CountedFor(es, c) <= CountedFor(fs, c)
<1>. DEFINE S == {e \in es : CountsFor[e] = c}
            T == {e \in fs : CountsFor[e] = c}
<1>1. IsFiniteSet(T) /\ S \subseteq T
  BY FS_Subset
<1>2. IsFiniteSet(S) /\ Cardinality(S) <= Cardinality(T)
  BY <1>1, FS_Subset
<1>3. Cardinality(S) \in Nat /\ Cardinality(T) \in Nat
  BY <1>1, <1>2, FS_CardinalityType
<1>. QED
  BY <1>2, <1>3 DEF CountedFor

(* A step that applies nothing, counts nothing and begins no count can only*)
(* shrink the set of uncounted events.                                     *)
LEMMA CountFrame ==
    ASSUME LogInv, CountInv, UNCHANGED <<applied, bounces, repeated>>,
           Uncounted' \subseteq Uncounted,
           \A c \in Creds : minute'[c] = minute[c] \/ minute'[c] = 0,
           \A c \in Creds : /\ daily'[c] = CountedFor(today', c)
                           /\ monthly'[c] = CountedFor(thisMonth', c)
    PROVE  CountInv'
<1>1. ASSUME NEW c \in Creds
      PROVE  minute'[c] <= CountedFor(applied \ Uncounted', c) + repeated
  <2>1. IsFiniteSet(applied \ Uncounted') /\ applied \ Uncounted \subseteq applied \ Uncounted'
    BY FS_Difference, FS_Subset DEF CountInv
  <2>2. /\ CountedFor(applied \ Uncounted, c) \in Nat
        /\ CountedFor(applied \ Uncounted', c) \in Nat
        /\ CountedFor(applied \ Uncounted, c) <= CountedFor(applied \ Uncounted', c)
    BY <2>1, CountMonotone
  <2>. QED
    BY <2>2 DEF CountInv, LogInv, TypeInv, TypeOK
<1>. QED
  BY <1>1 DEF CountInv

(* A commit adds its event, which was never applied before, to everything  *)
(* that counts it, and to the uncounted events as well.                    *)
LEMMA CommitCounts ==
    ASSUME LogInv, CountInv, NEW h \in Handlers, Commit(h)
    PROVE  CountInv'
<1>. DEFINE e == event[h]
<1>1. /\ e \in Events
      /\ e \notin applied
      /\ applied' = applied \cup {e}
      /\ today' = today \cup {e}
      /\ thisMonth' = thisMonth \cup {e}
      /\ UNCHANGED redisVars
  BY DEF LogInv, TypeInv, AttemptsInv, Commit, InsertSendLog, CountEvent
<1>2. IsFiniteSet(applied')
  BY <1>1, FS_AddElement DEF CountInv
<1>3. /\ IsFiniteSet(today) /\ e \notin today
      /\ IsFiniteSet(thisMonth) /\ e \notin thisMonth
  BY <1>1, FS_Subset DEF LogInv, HistoryInv, CountInv
<1>4. ASSUME NEW c \in Creds
      PROVE  daily'[c] = CountedFor(today', c) /\ monthly'[c] = CountedFor(thisMonth', c)
  <2>1. /\ daily'[c] = IF c = CountsFor[e] THEN daily[c] + 1 ELSE daily[c]
        /\ monthly'[c] = IF c = CountsFor[e] THEN monthly[c] + 1 ELSE monthly[c]
    BY DEF Commit, InsertSendLog, CountEvent, Bump
  <2>2. CountedFor(today', c)
          = IF CountsFor[e] = c THEN CountedFor(today, c) + 1 ELSE CountedFor(today, c)
    BY <1>1, <1>3, CountAdd
  <2>3. CountedFor(thisMonth', c)
          = IF CountsFor[e] = c THEN CountedFor(thisMonth, c) + 1 ELSE CountedFor(thisMonth, c)
    BY <1>1, <1>3, CountAdd
  <2>. QED
    BY <2>1, <2>2, <2>3 DEF CountInv
<1>5. applied' \ Uncounted' = applied \ Uncounted
  <2>1. Uncounted' = Uncounted \cup {e}
    BY DEF Uncounted, Commit, InsertSendLog, GoTo, LogInv, TypeInv, TypeOK
  <2>. QED
    BY <1>1, <2>1
<1>6. ASSUME NEW f \in Events
      PROVE  bounces'[f] = (IF f \in applied' \cap (SoftBounces \ Unmatched) THEN 1 ELSE 0)
  <2>1. bounces[f] = (IF f \in applied \cap (SoftBounces \ Unmatched) THEN 1 ELSE 0)
    BY DEF CountInv
  <2>2. bounces' = IF e \in SoftBounces \ Unmatched
                   THEN [bounces EXCEPT ![e] = @ + 1]
                   ELSE bounces
    BY DEF Commit, InsertSendLog, CountEvent
  <2>3. CASE f = e
    BY <1>1, <2>1, <2>2, <2>3 DEF LogInv, TypeInv, TypeOK
  <2>4. CASE f # e
    BY <1>1, <2>1, <2>2, <2>4 DEF LogInv, TypeInv, TypeOK
  <2>. QED
    BY <2>3, <2>4
<1>. QED
  BY <1>1, <1>2, <1>4, <1>5, <1>6 DEF CountInv, redisVars

(* An attempt that counts in Redis takes its event out of the uncounted    *)
(* ones, where no other attempt has the same, so the bound makes room.     *)
LEMMA MinuteCounts ==
    ASSUME LogInv, CountInv, NEW h \in Handlers, RecordAcceptedEvent(h)
    PROVE  CountInv'
<1>. DEFINE e == event[h]
            done == applied \ Uncounted
<1>1. /\ e \in applied
      /\ applied' = applied
      /\ UNCHANGED <<daily, monthly, today, thisMonth, bounces, repeated>>
  BY DEF LogInv, AttemptsInv, HistoryInv, RecordAcceptedEvent, counterVars, tableVars
<1>2. e \in Uncounted /\ Uncounted' = Uncounted \ {e}
  BY DEF Uncounted, RecordAcceptedEvent, GoTo, LogInv, TypeInv, TypeOK, AttemptsInv
<1>3. /\ applied' \ Uncounted' = done \cup {e}
      /\ e \notin done
  BY <1>1, <1>2
<1>4. IsFiniteSet(done)
  BY FS_Difference DEF CountInv
<1>. HIDE DEF done
<1>5. ASSUME NEW c \in Creds
      PROVE  minute'[c] <= CountedFor(applied' \ Uncounted', c) + repeated
  <2>1. /\ CountedFor(done, c) \in Nat
        /\ CountedFor(done \cup {e}, c)
              = IF CountsFor[e] = c THEN CountedFor(done, c) + 1 ELSE CountedFor(done, c)
    BY <1>3, <1>4, CountAdd
  <2>2. minute'[c] = minute[c] \/ (c = CountsFor[e] /\ minute'[c] = minute[c] + 1)
    BY DEF RecordAcceptedEvent, Bump
  <2>3. minute[c] \in Nat /\ repeated \in Nat
        /\ minute[c] <= CountedFor(done, c) + repeated
    BY DEF LogInv, TypeInv, TypeOK, CountInv, done
  <2>4. CountedFor(applied' \ Uncounted', c) = CountedFor(done \cup {e}, c)
    BY <1>3
  <2>5. minute'[c] <= CountedFor(done \cup {e}, c) + repeated
    BY <2>1, <2>2, <2>3
  <2>. QED
    BY <2>4, <2>5
<1>. QED
  BY <1>1, <1>5 DEF CountInv, CountedFor

(* A repeated command is paid for by "repeated". *)
LEMMA RepeatCounts ==
    ASSUME LogInv, CountInv, NEW h \in Handlers, RepeatAcceptedEvent(h)
    PROVE  CountInv'
<1>1. /\ UNCHANGED <<applied, bounces, daily, monthly, today, thisMonth>>
      /\ Uncounted' = Uncounted
      /\ repeated' = repeated + 1
  BY DEF RepeatAcceptedEvent, Uncounted, requestVars, tableVars, counterVars
<1>2. ASSUME NEW c \in Creds
      PROVE  minute'[c] <= CountedFor(applied \ Uncounted, c) + repeated'
  <2>1. CountedFor(applied \ Uncounted, c) \in Nat
    BY CountMonotone DEF CountInv
  <2>2. minute'[c] = minute[c] \/ minute'[c] = minute[c] + 1
    BY DEF RepeatAcceptedEvent, Bump
  <2>3. /\ minute[c] \in Nat
        /\ repeated \in Nat
        /\ minute[c] <= CountedFor(applied \ Uncounted, c) + repeated
    BY RepeatsAssumption DEF LogInv, TypeInv, TypeOK, CountInv
  <2>. QED
    BY <1>1, <2>1, <2>2, <2>3
<1>. QED
  BY <1>1, <1>2 DEF CountInv, CountedFor

(* The counts survive every step. *)
LEMMA NextCounts == LogInv /\ CountInv /\ [Next]_vars => CountInv'
<1>. SUFFICES ASSUME LogInv, CountInv, [Next]_vars PROVE CountInv'
  OBVIOUS
<1>1. ASSUME UNCHANGED <<applied, bounces, daily, monthly, today, thisMonth, repeated>>,
             Uncounted' \subseteq Uncounted,
             \A c \in Creds : minute'[c] = minute[c] \/ minute'[c] = 0
      PROVE  CountInv'
  BY <1>1, CountFrame DEF CountInv, CountedFor
<1>2. ASSUME NEW h \in Handlers, NEW e \in Events, Deliver(h, e) PROVE CountInv'
  <2>1. Uncounted' \subseteq Uncounted
    BY <1>2 DEF Deliver, Begin, Uncounted, LogInv, TypeInv, TypeOK
  <2>. QED
    BY <1>1, <1>2, <2>1 DEF Deliver, tableVars, counterVars, redisVars
<1>3. ASSUME NEW h \in Handlers, Duplicate(h) PROVE CountInv'
  <2>1. Uncounted' \subseteq Uncounted
    BY <1>3 DEF Duplicate, Answer202, End, Uncounted, LogInv, TypeInv, TypeOK
  <2>. QED
    BY <1>1, <1>3, <2>1 DEF Duplicate, tableVars, counterVars, redisVars
<1>4. ASSUME NEW h \in Handlers, RollBack(h) \/ Die(h) PROVE CountInv'
  <2>1. Uncounted' \subseteq Uncounted
    BY <1>4 DEF RollBack, Die, Refuse, End, Uncounted, LogInv, TypeInv, TypeOK
  <2>. QED
    BY <1>1, <1>4, <2>1 DEF RollBack, Die, tableVars, counterVars, redisVars
<1>5. ASSUME NEW h \in Handlers, RecordSendLogEvent(h) PROVE CountInv'
  <2>1. Uncounted' \subseteq Uncounted
    BY <1>5 DEF RecordSendLogEvent, Answer202, End, Uncounted, LogInv, TypeInv, TypeOK
  <2>. QED
    BY <1>1, <1>5, <2>1 DEF RecordSendLogEvent, counterVars, redisVars
<1>6. ASSUME NEW ds, NEW ms, ResetUsage(ds, ms) PROVE CountInv'
  <2>1. Uncounted' = Uncounted /\ UNCHANGED <<applied, bounces, minute, repeated>>
    BY <1>6 DEF ResetUsage, Uncounted, requestVars, tableVars, redisVars
  <2>2. \A c \in Creds : /\ daily'[c] = CountedFor(today', c)
                         /\ monthly'[c] = CountedFor(thisMonth', c)
    BY <1>6, CountForget DEF ResetUsage, Clear, CountInv
  <2>. QED
    BY <2>1, <2>2, CountFrame
<1>7. ASSUME NEW c \in Creds, ExpireMinute(c) PROVE CountInv'
  <2>1. Uncounted' = Uncounted
    BY <1>7 DEF ExpireMinute, Uncounted, requestVars
  <2>2. \A d \in Creds : minute'[d] = minute[d] \/ minute'[d] = 0
    BY <1>7 DEF ExpireMinute, LogInv, TypeInv, TypeOK
  <2>. QED
    BY <1>1, <1>7, <2>1, <2>2 DEF ExpireMinute, tableVars, counterVars, redisVars
<1>8. ASSUME NEW old, RunCleanup(old) PROVE CountInv'
  <2>1. Uncounted' = Uncounted
    BY <1>8 DEF RunCleanup, Uncounted, requestVars
  <2>. QED
    BY <1>1, <1>8, <2>1 DEF RunCleanup, counterVars, redisVars
<1>9. ASSUME UNCHANGED vars PROVE CountInv'
  <2>1. Uncounted' = Uncounted
    BY <1>9 DEF vars, Uncounted, requestVars
  <2>. QED
    BY <1>1, <1>9, <2>1 DEF vars, tableVars, counterVars, redisVars
<1>. QED
  BY <1>2, <1>3, <1>4, <1>5, <1>6, <1>7, <1>8, <1>9, CommitCounts, MinuteCounts, RepeatCounts,
     ResetKinds
  DEF Next

(* Each event takes effect once, however often it is delivered: counters,  *)
(* bounce rows and the advisory counter agree with the events applied.     *)
THEOREM ExactlyOnce == Spec => []EffectsApplyOnce
<1>1. Init => CountInv
  <2>1. \A c : CountedFor({}, c) = 0
    BY FS_EmptySet DEF CountedFor
  <2>2. Init => {} \ Uncounted = {}
    OBVIOUS
  <2>. QED
    BY <2>1, <2>2, FS_EmptySet DEF Init, CountInv
<1>2. LogInv /\ CountInv => EffectsApplyOnce
  <2>. SUFFICES ASSUME LogInv, CountInv, NEW c \in Creds
                PROVE  minute[c] <= CountedFor(applied, c) + repeated
    BY DEF EffectsApplyOnce, CountInv
  <2>1. /\ CountedFor(applied \ Uncounted, c) \in Nat
        /\ CountedFor(applied, c) \in Nat
        /\ CountedFor(applied \ Uncounted, c) <= CountedFor(applied, c)
    BY CountMonotone DEF CountInv
  <2>. QED
    BY <2>1 DEF CountInv, LogInv, TypeInv, TypeOK
<1>. QED
  BY <1>1, <1>2, LogInvariant, NextCounts, PTL DEF Spec

-----------------------------------------------------------------------------
(* Refinement *)

(* A commit is the one step of an attempt that the ledger sees. *)
LEMMA StepRefines == LogInv /\ [Next]_vars => [Ledger!Next]_(Ledger!ledgerVars)
<1>. SUFFICES ASSUME LogInv, [Next]_vars
              PROVE  Ledger!Next \/ UNCHANGED <<applied, daily, monthly>>
  BY DEF Ledger!ledgerVars
<1>1. ASSUME NEW h \in Handlers, Commit(h) PROVE Ledger!Next
  <2>1. event[h] \in Events /\ event[h] \notin applied
    BY <1>1 DEF LogInv, TypeInv, AttemptsInv, Commit
  <2>2. Ledger!Apply(event[h])
    BY <1>1, <2>1 DEF Commit, InsertSendLog, CountEvent, Bump, Ledger!Apply, Ledger!Bump
  <2>. QED
    BY <2>1, <2>2 DEF Ledger!Next
<1>2. ASSUME NEW ds \in SUBSET Creds, NEW ms \in SUBSET Creds, ResetUsage(ds, ms)
      PROVE  Ledger!Next
  BY <1>2 DEF ResetUsage, Clear, Ledger!Next, Ledger!Reset, Ledger!Clear
<1>3. ASSUME NEW h \in Handlers,
             \/ \E e \in Events : Deliver(h, e)
             \/ Duplicate(h) \/ RollBack(h) \/ Die(h)
             \/ RecordAcceptedEvent(h) \/ RepeatAcceptedEvent(h) \/ RecordSendLogEvent(h)
      PROVE  UNCHANGED <<applied, daily, monthly>>
  BY <1>3 DEF Deliver, Duplicate, RollBack, Die, RecordAcceptedEvent, RepeatAcceptedEvent,
              RecordSendLogEvent, counterVars
<1>4. ASSUME \/ \E c \in Creds : ExpireMinute(c)
             \/ \E old \in SUBSET logs : RunCleanup(old)
             \/ UNCHANGED vars
      PROVE  UNCHANGED <<applied, daily, monthly>>
  BY <1>4 DEF ExpireMinute, RunCleanup, vars, counterVars
<1>. QED
  BY <1>1, <1>2, <1>3, <1>4, ResetKinds DEF Next

(* At-least-once delivery with concurrent and interrupted attempts         *)
(* implements the ledger, in which each event is applied in one step, once.*)
THEOREM Refinement == Spec => ImplementsLedger
<1>1. Init => Ledger!Init
  BY DEF Init, Ledger!Init
<1>. QED
  BY <1>1, LogInvariant, StepRefines, PTL DEF Spec, ImplementsLedger, Ledger!Spec
=============================================================================
