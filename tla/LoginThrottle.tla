---------------------------- MODULE LoginThrottle ----------------------------
(***************************************************************************)
(* The throttling of failed logins in Redis, for one pair of an email and a*)
(* client address (pairs share no state).                                  *)
(*                                                                         *)
(* A login checks the block, compares the password, and then either deletes*)
(* both keys or counts the failure.  Counting takes up to three commands   *)
(* (INCR, EXPIRE; or INCR, SET, DEL), each atomic in Redis and nothing     *)
(* holding them together: other logins, the expiry of a key, an error or   *)
(* the end of the request may come between any two.  A key's remaining time*)
(* is counted in units that pass for both keys at once.                    *)
(***************************************************************************)
EXTENDS Naturals, FiniteSets

CONSTANTS
    Logins,         \* requests that run at the same time
    MaxFailures,
    FailureWindow,
    LockoutWindow,
    MaxFaults       \* bound: errors, lost answers, and requests cut short

(* Config.validate: all three settings are greater than zero. *)
ASSUME ConfigAssumption == /\ MaxFailures \in Nat \ {0}
                           /\ FailureWindow \in Nat \ {0}
                           /\ LockoutWindow \in Nat \ {0}
ASSUME BoundsAssumption == IsFiniteSet(Logins) /\ MaxFaults \in Nat

VARIABLES
    fails,          \* the failure counter; 0 while there is no key
    failTTL,        \* its time to live; 0 while it has none
    blockTTL,       \* time to live of the block; 0 while there is no block
    pc,             \* login -> what it does next
    count,          \* login -> what INCR answered
    faults,         \* faults so far
    unpunished      \* history: failed logins not followed by a lockout since
                    \* the last block, reset or expiry of the counter

keyVars == <<fails, failTTL, blockTTL>>
vars == <<keyVars, pc, count, faults, unpunished>>

TypeOK ==
    /\ fails \in Nat
    /\ failTTL \in 0 .. FailureWindow
    /\ blockTTL \in 0 .. LockoutWindow
    /\ pc \in [Logins -> {"idle", "compare", "reset", "incr", "expire", "block", "clear"}]
    /\ count \in [Logins -> Nat]
    /\ faults \in 0 .. MaxFaults
    /\ unpunished \in Nat

Init ==
    /\ fails = 0
    /\ failTTL = 0
    /\ blockTTL = 0
    /\ pc = [l \in Logins |-> "idle"]
    /\ count = [l \in Logins |-> 0]
    /\ faults = 0
    /\ unpunished = 0

-----------------------------------------------------------------------------
(* Redis commands *)

GoTo(l, p) == pc' = [pc EXCEPT ![l] = p]

DelFailures == fails' = 0 /\ failTTL' = 0

(* INCR creates the key, without a time to live, or keeps the one it has.  *)
Incr == fails' = fails + 1 /\ UNCHANGED failTTL

(* EXPIRE does nothing when the key is gone. *)
ExpireAsBlock ==            \* mutant: the other window
    failTTL' = (IF fails = 0 THEN 0 ELSE LockoutWindow) /\ UNCHANGED fails

ExpireFailures == failTTL' = (IF fails = 0 THEN 0 ELSE FailureWindow) /\ UNCHANGED fails

-----------------------------------------------------------------------------
(* Login *)

(* Check finds no block.  While there is one the login is refused, which   *)
(* changes nothing, also when the key expires before its TTL is read.      *)
CheckNothing(l) ==          \* mutant: ignores the block
    /\ pc[l] = "idle"
    /\ GoTo(l, "compare")
    /\ UNCHANGED <<keyVars, count, faults, unpunished>>

Check(l) ==
    /\ pc[l] = "idle"
    /\ blockTTL = 0
    /\ GoTo(l, "compare")
    /\ UNCHANGED <<keyVars, count, faults, unpunished>>

(* The password, compared with the user's or with the dummy hash. *)
Compare(l) ==
    /\ pc[l] = "compare"
    /\ GoTo(l, "incr") \/ GoTo(l, "reset")
    /\ UNCHANGED <<keyVars, count, faults, unpunished>>

(* A correct password: Reset deletes both keys with one command. *)
Reset(l) ==
    /\ pc[l] = "reset"
    /\ DelFailures
    /\ blockTTL' = 0
    /\ unpunished' = 0
    /\ GoTo(l, "idle")
    /\ UNCHANGED <<count, faults>>

(* RecordFailure: what follows INCR depends on its answer. *)
LateBlock(n) ==             \* mutant: one failure too many
    IF n = 1 THEN "expire" ELSE IF n <= MaxFailures + 1 THEN "idle" ELSE "block"

ExpireSecond(n) ==          \* mutant: takes INCR to answer the old value
    IF n = 2 THEN "expire" ELSE IF n <= MaxFailures THEN "idle" ELSE "block"

AfterIncr(n) == IF n = 1 THEN "expire" ELSE IF n <= MaxFailures THEN "idle" ELSE "block"

RecordFailure(l) ==
    /\ pc[l] = "incr"
    /\ Incr
    /\ count' = [count EXCEPT ![l] = fails + 1]
    /\ unpunished' = IF AfterIncr(fails + 1) = "block" THEN unpunished ELSE unpunished + 1
    /\ GoTo(l, AfterIncr(fails + 1))
    /\ UNCHANGED <<blockTTL, faults>>

(* MaxFailures is at least 1, so a counter that was just created is not    *)
(* over it.                                                                *)
Expire(l) ==
    /\ pc[l] = "expire"
    /\ ExpireFailures
    /\ GoTo(l, "idle")
    /\ UNCHANGED <<blockTTL, count, faults, unpunished>>

Block(l) ==
    /\ pc[l] = "block"
    /\ blockTTL' = LockoutWindow
    /\ unpunished' = 0
    /\ GoTo(l, "clear")
    /\ UNCHANGED <<fails, failTTL, count, faults>>

ClearFailures(l) ==
    /\ pc[l] = "clear"
    /\ DelFailures
    /\ GoTo(l, "idle")
    /\ UNCHANGED <<blockTTL, count, faults, unpunished>>

-----------------------------------------------------------------------------
(* Faults and time *)

Fault == faults < MaxFaults /\ faults' = faults + 1

(* An error of EXISTS or TTL is logged, and the login goes on. *)
CheckFails(l) ==
    /\ pc[l] = "idle"
    /\ Fault
    /\ GoTo(l, "compare")
    /\ UNCHANGED <<keyVars, count, unpunished>>

(* External: INCR was done and its answer lost; go-redis repeats it.       *)
RepeatIncr(l) ==
    /\ pc[l] = "incr"
    /\ Fault
    /\ Incr
    /\ UNCHANGED <<blockTTL, pc, count, unpunished>>

(* Any other error, the client hanging up, or the end of the process: no   *)
(* command follows.  A login that knew its password to be wrong and set no *)
(* block counts as one more that went unpunished.                          *)
CutShort(l) ==
    /\ pc[l] # "idle"
    /\ Fault
    /\ GoTo(l, "idle")
    /\ unpunished' = IF pc[l] \in {"incr", "block"} THEN unpunished + 1 ELSE unpunished
    /\ UNCHANGED <<keyVars, count>>

(* A unit of time: a key whose time to live ends is gone. *)
Tick ==
    /\ failTTL' = IF failTTL = 0 THEN 0 ELSE failTTL - 1
    /\ fails' = IF failTTL = 1 THEN 0 ELSE fails
    /\ unpunished' = IF failTTL = 1 THEN 0 ELSE unpunished
    /\ blockTTL' = IF blockTTL = 0 THEN 0 ELSE blockTTL - 1
    /\ UNCHANGED <<pc, count, faults>>

Step(l) ==
    \/ Compare(l)
    \/ Reset(l)
    \/ RecordFailure(l)
    \/ Expire(l)
    \/ Block(l)
    \/ ClearFailures(l)

Next ==
    \/ \E l \in Logins : Check(l)
    \/ \E l \in Logins : Step(l)
    \/ \E l \in Logins : CheckFails(l)
    \/ \E l \in Logins : RepeatIncr(l)
    \/ \E l \in Logins : CutShort(l)
    \/ Tick

Spec == Init /\ [][Next]_vars

(* Time passes, and a request that is not cut short goes on.  Nobody has to*)
(* log in.                                                                 *)
Fairness == WF_vars(Tick) /\ \A l \in Logins : WF_vars(Step(l))

FairSpec == Spec /\ Fairness

-----------------------------------------------------------------------------
(* Properties *)

(* MaxFailures failed logins in a row go unpunished, and no more, whatever *)
(* else happens to the counter; but a login may delete the counter long    *)
(* after it set the block, and with it the failures counted since.  Each of*)
(* the other concurrent logins can do that once, and each fault may hide   *)
(* one failure.                                                            *)
FailuresLeadToLockout ==
    unpunished <= MaxFailures * Cardinality(Logins) + faults

(* Failures are forgotten in the end: a counter without a time to live is  *)
(* about to be given one by the login that created it, unless a fault came *)
(* between, however the deletions and creations of others overlap.         *)
CounterExpires ==
    fails > 0 /\ failTTL = 0 => faults > 0 \/ \E l \in Logins : pc[l] = "expire"

(* docs/security.md: "temporary lockout".  Every lockout ends, though late *)
(* logins that passed their check before it may prolong it.                *)
LockoutEnds == []<>(blockTTL = 0)
=============================================================================
