------------------------------- MODULE Domains -------------------------------
(***************************************************************************)
(* The verification of a sending domain (domains share no state, so one is *)
(* modelled).                                                              *)
(*                                                                         *)
(* A verification replaces the domain's dns_checks in one transaction, with*)
(* the DNS lookups inside, and writes domains.verified after the commit.   *)
(* Its isolation is READ COMMITTED: the DELETE sees the rows committed when*)
(* it starts, waits while another transaction deletes one of them, and     *)
(* skips those that are gone then; rows committed since it does not see.   *)
(* The rows of one verification come and go together and are represented   *)
(* by it.  Which records are found is up to the DNS and its resolvers.     *)
(***************************************************************************)
EXTENDS Naturals, FiniteSets

CONSTANTS
    Verifications,  \* bound: requests to verify the domain
    NoVerification,
    Required        \* number of required records, all of type TXT

ASSUME DomainsAssumption == NoVerification \notin Verifications
ASSUME RequiredAssumption == Required \in Nat \ {0}

VARIABLES
    verified,       \* domains.verified
    stored,         \* dns_checks: the verifications whose rows are there
    vpc,            \* verification -> what it does next
    seen,           \* verification -> the rows its DELETE sees
    deleted,        \* verification -> the rows its open transaction deleted
    found,          \* verification -> how many required records it found
    latest,         \* history: the verification that began last
    alone           \* history: those that no other has overlapped so far

domainVars == <<verified, stored, vpc, seen, deleted, found, latest, alone>>

Stages == {"idle", "delete", "insert", "commit", "flag", "done", "cut"}

DomainTypeOK ==
    /\ verified \in BOOLEAN
    /\ stored \subseteq Verifications
    /\ vpc \in [Verifications -> Stages]
    /\ seen \in [Verifications -> SUBSET Verifications]
    /\ deleted \in [Verifications -> SUBSET Verifications]
    /\ found \in [Verifications -> 0 .. Required]
    /\ latest \in Verifications \cup {NoVerification}
    /\ alone \subseteq Verifications

(* domains.Create *)
DomainInit ==
    /\ verified = FALSE
    /\ stored = {}
    /\ vpc = [v \in Verifications |-> "idle"]
    /\ seen = [v \in Verifications |-> {}]
    /\ deleted = [v \in Verifications |-> {}]
    /\ found = [v \in Verifications |-> 0]
    /\ latest = NoVerification
    /\ alone = {}

-----------------------------------------------------------------------------
Running(v) == vpc[v] \notin {"idle", "done", "cut"}

Stage(v, s) == vpc' = [vpc EXCEPT ![v] = s]

(* The domain is read, the transaction begins and its DELETE starts. *)
BeginVerify(v) ==
    /\ vpc[v] = "idle"
    /\ Stage(v, "delete")
    /\ seen' = [seen EXCEPT ![v] = stored]
    /\ latest' = v
    /\ alone' = IF \E w \in Verifications : Running(w)
                THEN {w \in alone : ~Running(w)}
                ELSE alone \cup {v}
    /\ UNCHANGED <<verified, stored, deleted, found>>

Locked(v) == UNION {deleted[w] : w \in Verifications \ {v}}

DeleteNothing(v) ==         \* mutant: the new rows are added to the old ones
    /\ vpc[v] = "delete"
    /\ Stage(v, "insert")
    /\ UNCHANGED <<verified, stored, seen, deleted, found, latest, alone>>

DeleteChecks(v) ==
    /\ vpc[v] = "delete"
    /\ seen[v] \cap Locked(v) = {}
    /\ deleted' = [deleted EXCEPT ![v] = seen[v] \cap stored]
    /\ Stage(v, "insert")
    /\ UNCHANGED <<verified, stored, seen, found, latest, alone>>

CountBeyondRequired(v) ==   \* mutant: counts records that are not required
    /\ vpc[v] = "insert"
    /\ \E n \in 0 .. Required + 1 : found' = [found EXCEPT ![v] = n]
    /\ Stage(v, "commit")
    /\ UNCHANGED <<verified, stored, seen, deleted, latest, alone>>

(* The lookups and the INSERTs, which nobody sees before the commit. *)
InsertChecks(v) ==
    /\ vpc[v] = "insert"
    /\ \E n \in 0 .. Required : found' = [found EXCEPT ![v] = n]
    /\ Stage(v, "commit")
    /\ UNCHANGED <<verified, stored, seen, deleted, latest, alone>>

CommitChecks(v) ==
    /\ vpc[v] = "commit"
    /\ stored' = (stored \ deleted[v]) \cup {v}
    /\ deleted' = [deleted EXCEPT ![v] = {}]
    /\ Stage(v, "flag")
    /\ UNCHANGED <<verified, seen, found, latest, alone>>

FlagNeverCleared(v) ==      \* mutant: a failed verification writes nothing
    /\ vpc[v] = "flag"
    /\ verified' = (verified \/ found[v] = Required)
    /\ Stage(v, "done")
    /\ UNCHANGED <<stored, seen, deleted, found, latest, alone>>

UpdateVerified(v) ==
    /\ vpc[v] = "flag"
    /\ verified' = (found[v] = Required)
    /\ Stage(v, "done")
    /\ UNCHANGED <<stored, seen, deleted, found, latest, alone>>

(* An error, the client hanging up or the end of the process: an open      *)
(* transaction is rolled back, and after it the flag is not written.       *)
CutVerify(v) ==
    /\ Running(v)
    /\ Stage(v, "cut")
    /\ deleted' = [deleted EXCEPT ![v] = {}]
    /\ UNCHANGED <<verified, stored, seen, found, latest, alone>>

DomainNext ==
    \/ \E v \in Verifications : BeginVerify(v)
    \/ \E v \in Verifications : DeleteChecks(v)
    \/ \E v \in Verifications : InsertChecks(v)
    \/ \E v \in Verifications : CommitChecks(v)
    \/ \E v \in Verifications : UpdateVerified(v)
    \/ \E v \in Verifications : CutVerify(v)

DomainSpec == DomainInit /\ [][DomainNext]_domainVars

-----------------------------------------------------------------------------
(* Properties *)

(* Checks of two verifications stand side by side, where the dashboard adds*)
(* them up, only when the two overlapped: neither's DELETE could see the   *)
(* rows of the other.  Those of a verification that had committed before   *)
(* another began are gone when this one commits, whatever a third deletes, *)
(* waits for or rolls back.                                                *)
LeftoversOverlapped ==
    \A v, w \in stored : v # w => v \notin seen[w]

(* A verification that nothing overlapped leaves exactly its own checks,   *)
(* and a flag that agrees with them, whatever overlaps, rollbacks and      *)
(* unwritten flags came before it.                                         *)
AloneLeavesAgreement ==
    latest \in alone /\ vpc[latest] = "done" =>
        /\ stored = {latest}
        /\ verified = (found[latest] = Required)
=============================================================================
