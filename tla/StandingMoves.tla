--------------------------- MODULE StandingMoves ---------------------------
(***************************************************************************)
(* What billing promises about credentials when its transactions overlap:  *)
(* BillingGate with a change of standing in two steps.  A transaction      *)
(* first reserves credentials of the organizations it moves, and it moves  *)
(* them and the reserved credentials in one step later, unless it is       *)
(* abandoned.  Credentials that come in, or that an administrator opens,   *)
(* in between are not reserved and stay as they are.                       *)
(***************************************************************************)
EXTENDS BillingGate

VARIABLE moves      \* the changes of standing that are on their way

movesVars == <<gateVars, moves>>

LockUnder(st) == IF st \in Restricting THEN "billing" ELSE "open"

Reserved == UNION {m.creds : m \in moves}

MovesInit == Init /\ moves = {}

(* No other change of these organizations is on its way.  Everything that  *)
(* standing st changes is reserved, and nothing of an administrator's.     *)
Reserve(os, st, cs) ==
    /\ os # {}
    /\ \A m \in moves : m.orgs \cap os = {}
    /\ {c \in Creds : owner[c] \in os /\ lock[c] \notin {"admin", LockUnder(st)}} \subseteq cs
    /\ cs \subseteq {c \in Creds : owner[c] \in os /\ lock[c] # "admin"}
    /\ moves' = moves \cup {[orgs |-> os, to |-> st, creds |-> cs]}
    /\ UNCHANGED gateVars

Abandon(m) ==
    /\ moves' = moves \ {m}
    /\ UNCHANGED gateVars

EnterReserved(m) ==
    /\ standing' = [o \in Orgs |-> IF o \in m.orgs THEN m.to ELSE standing[o]]
    /\ lock' = [c \in Creds |-> IF c \in m.creds THEN LockUnder(m.to) ELSE lock[c]]
    /\ moves' = moves \ {m}
    /\ UNCHANGED owner

MovesNext ==
    \/ \E os \in SUBSET Orgs, st \in Standings \ {"missing"}, cs \in SUBSET Creds :
           Reserve(os, st, cs)
    \/ \E m \in moves : Abandon(m) \/ EnterReserved(m)
    \/ \E c \in Creds, o \in Orgs : AddCredential(c, o) /\ UNCHANGED moves
    \/ \E c \in Creds \ Reserved, l \in Locks : SetLock(c, l) /\ UNCHANGED moves

MovesSpec == MovesInit /\ [][MovesNext]_movesVars
=============================================================================
