---------------------------- MODULE EventLedger ----------------------------
(***************************************************************************)
(* What the ingestion of Postal's events promises: each event takes effect *)
(* once.  Nothing here is delivered twice, runs concurrently or fails.     *)
(***************************************************************************)
EXTENDS Naturals

CONSTANTS
    Events,         \* lifecycle events of messages
    Creds,          \* SMTP credentials
    NoCred,
    CountsFor       \* event -> the credential whose quota it uses, or NoCred

VARIABLES
    applied,        \* the events that have taken effect
    daily,          \* credential -> events counted since its last daily reset
    monthly         \* credential -> the same for the month

ledgerVars == <<applied, daily, monthly>>

Init ==
    /\ applied = {}
    /\ daily = [c \in Creds |-> 0]
    /\ monthly = [c \in Creds |-> 0]

Bump(counter, e) == [c \in Creds |-> IF c = CountsFor[e] THEN counter[c] + 1 ELSE counter[c]]
Clear(counter, cs) == [c \in Creds |-> IF c \in cs THEN 0 ELSE counter[c]]

Apply(e) ==
    /\ e \notin applied
    /\ applied' = applied \cup {e}
    /\ daily' = Bump(daily, e)
    /\ monthly' = Bump(monthly, e)

Reset(dailyOf, monthlyOf) ==
    /\ daily' = Clear(daily, dailyOf)
    /\ monthly' = Clear(monthly, monthlyOf)
    /\ UNCHANGED applied

Next ==
    \/ \E e \in Events : Apply(e)
    \/ \E dailyOf, monthlyOf \in SUBSET Creds : Reset(dailyOf, monthlyOf)

Spec == Init /\ [][Next]_ledgerVars
=============================================================================
