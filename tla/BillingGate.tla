---------------------------- MODULE BillingGate ----------------------------
(***************************************************************************)
(* What billing promises about credentials, without subscriptions,         *)
(* invoices, payments or time: organizations have a standing, credentials  *)
(* a lock, and the standing of an organization and the billing locks of    *)
(* all of its credentials change in one step.  Administrators set a lock   *)
(* whenever they like; billing touches no lock of theirs.                  *)
(***************************************************************************)
CONSTANTS Orgs, NoOrg, Creds

Standings   == {"missing", "trialing", "active", "past_due", "expired"}
Restricting == {"past_due", "expired"}

(* "admin" is a lock whose reason billing respects; "billing" one that it  *)
(* takes for its own.                                                      *)
Locks == {"open", "billing", "admin"}

VARIABLES standing,     \* organization -> standing
          owner,        \* credential -> organization, or NoOrg
          lock          \* credential -> lock

gateVars == <<standing, owner, lock>>

Init ==
    /\ standing = [o \in Orgs |-> "missing"]
    /\ owner = [c \in Creds |-> NoOrg]
    /\ lock = [c \in Creds |-> "open"]

(* The organizations os enter standing st, with all of their credentials.  *)
(* Once subscribed, an organization is never "missing" again.              *)
Enter(os, st) ==
    /\ st # "missing"
    /\ UNCHANGED owner
    /\ standing' = [o \in Orgs |-> IF o \in os THEN st ELSE standing[o]]
    /\ lock' = [c \in Creds |->
                   IF owner[c] \in os /\ lock[c] # "admin"
                   THEN IF st \in Restricting THEN "billing" ELSE "open"
                   ELSE lock[c]]

AddCredential(c, o) ==
    /\ owner[c] = NoOrg
    /\ owner' = [owner EXCEPT ![c] = o]
    /\ UNCHANGED <<standing, lock>>

SetLock(c, l) ==
    /\ owner[c] # NoOrg
    /\ lock' = [lock EXCEPT ![c] = l]
    /\ UNCHANGED <<standing, owner>>

Next ==
    \/ \E c \in Creds, o \in Orgs : AddCredential(c, o)
    \/ \E c \in Creds, l \in Locks : SetLock(c, l)
    \/ \E os \in SUBSET Orgs, st \in Standings : Enter(os, st)

Spec == Init /\ [][Next]_gateVars
=============================================================================
