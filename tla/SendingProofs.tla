---------------------------- MODULE SendingProofs ----------------------------
(***************************************************************************)
(* Theorems about modules Domains and Sending, for any sets of requests.   *)
(*                                                                         *)
(* The steps on credentials leave the domain alone, so that what every     *)
(* behaviour of DomainSpec satisfies holds in Sending: the properties of   *)
(* verifications are proved of DomainSpec and carried over.                *)
(***************************************************************************)
EXTENDS Sending, TLAPS

-----------------------------------------------------------------------------
(* Domains: types *)

LEMMA DomainTypeStep == DomainTypeOK /\ [DomainNext]_domainVars => DomainTypeOK'
<1> SUFFICES ASSUME DomainTypeOK, [DomainNext]_domainVars
             PROVE  DomainTypeOK'
    OBVIOUS
<1> USE RequiredAssumption DEF DomainTypeOK, Stages, Stage
<1>1. ASSUME NEW v \in Verifications, BeginVerify(v)
      PROVE  DomainTypeOK'
  <2>1. alone' \subseteq Verifications
    BY <1>1 DEF BeginVerify
  <2> QED
    BY <1>1, <2>1 DEF BeginVerify
<1>2. ASSUME NEW v \in Verifications, DeleteChecks(v)
      PROVE  DomainTypeOK'
    BY <1>2 DEF DeleteChecks
<1>3. ASSUME NEW v \in Verifications, InsertChecks(v)
      PROVE  DomainTypeOK'
    BY <1>3 DEF InsertChecks
<1>4. ASSUME NEW v \in Verifications, CommitChecks(v)
      PROVE  DomainTypeOK'
    BY <1>4 DEF CommitChecks
<1>5. ASSUME NEW v \in Verifications, UpdateVerified(v)
      PROVE  DomainTypeOK'
    BY <1>5 DEF UpdateVerified
<1>6. ASSUME NEW v \in Verifications, CutVerify(v)
      PROVE  DomainTypeOK'
    BY <1>6 DEF CutVerify
<1>7. CASE UNCHANGED domainVars
    BY <1>7 DEF domainVars
<1> QED
    BY <1>1, <1>2, <1>3, <1>4, <1>5, <1>6, <1>7 DEF DomainNext

-----------------------------------------------------------------------------
(* Domains: the rows of dns_checks *)

Committed == {v \in Verifications : vpc[v] \in {"flag", "done", "cut"}}

(* Rows come from verifications that have committed and never come back:   *)
(* so what a verification saw is stored before its DELETE or gone for good,*)
(* and its open transaction has deleted all of it that is still there.     *)
RowsInv ==
    /\ stored \subseteq Committed
    /\ \A v \in Verifications :
        /\ seen[v] \subseteq Committed
        /\ vpc[v] \in {"insert", "commit"} => seen[v] \cap stored \subseteq deleted[v]
        /\ v \in stored => seen[v] \cap stored \subseteq {v}

LEMMA RowsStep == DomainTypeOK /\ RowsInv /\ [DomainNext]_domainVars => RowsInv'
<1> SUFFICES ASSUME DomainTypeOK, RowsInv, [DomainNext]_domainVars
             PROVE  RowsInv'
    OBVIOUS
<1> USE DEF DomainTypeOK, RowsInv, Committed, Stage
<1>1. ASSUME NEW v \in Verifications, BeginVerify(v)
      PROVE  RowsInv'
    BY <1>1 DEF BeginVerify
<1>2. ASSUME NEW v \in Verifications, DeleteChecks(v)
      PROVE  RowsInv'
    BY <1>2 DEF DeleteChecks
<1>3. ASSUME NEW v \in Verifications, InsertChecks(v)
      PROVE  RowsInv'
    BY <1>3 DEF InsertChecks
<1>4. ASSUME NEW v \in Verifications, CommitChecks(v)
      PROVE  RowsInv'
  <2>1. Committed' = Committed \cup {v} /\ v \notin Committed
    BY <1>4 DEF CommitChecks
  <2>2. stored' \subseteq Committed'
    BY <1>4, <2>1 DEF CommitChecks
  <2>3. ASSUME NEW w \in Verifications
        PROVE  /\ (seen[w] \subseteq Committed)'
               /\ (vpc[w] \in {"insert", "commit"} => seen[w] \cap stored \subseteq deleted[w])'
    BY <1>4, <2>1, <2>3 DEF CommitChecks
  <2>4. ASSUME NEW w \in Verifications, w \in stored'
        PROVE  (seen[w] \cap stored)' \subseteq {w}
    <3>1. CASE w = v
      BY <1>4, <2>1, <3>1 DEF CommitChecks
    <3>2. CASE w # v
      BY <1>4, <2>1, <2>4, <3>2 DEF CommitChecks
    <3> QED
      BY <3>1, <3>2
  <2> QED
    BY <2>2, <2>3, <2>4 DEF RowsInv
<1>5. ASSUME NEW v \in Verifications, UpdateVerified(v)
      PROVE  RowsInv'
    BY <1>5 DEF UpdateVerified
<1>6. ASSUME NEW v \in Verifications, CutVerify(v)
      PROVE  RowsInv'
    BY <1>6 DEF CutVerify, Running
<1>7. CASE UNCHANGED domainVars
    BY <1>7 DEF domainVars
<1> QED
    BY <1>1, <1>2, <1>3, <1>4, <1>5, <1>6, <1>7 DEF DomainNext

-----------------------------------------------------------------------------
(* Domains: a verification that nothing overlaps *)

(* While the verification that began last is alone nothing else runs, so   *)
(* its DELETE sees and deletes all rows, and only its own come after.      *)
Undisturbed ==
    /\ \A w \in Verifications : w # latest => ~Running(w)
    /\ vpc[latest] \in {"delete", "insert", "commit"} => seen[latest] = stored
    /\ vpc[latest] \in {"insert", "commit"} => deleted[latest] = stored
    /\ vpc[latest] \in {"flag", "done"} => stored = {latest}
    /\ vpc[latest] = "done" => verified = (found[latest] = Required)

AloneInv ==
    /\ \A v \in alone : vpc[v] # "idle"
    /\ latest \in alone => Undisturbed

LEMMA AloneStep == DomainTypeOK /\ AloneInv /\ [DomainNext]_domainVars => AloneInv'
<1> SUFFICES ASSUME DomainTypeOK, AloneInv, [DomainNext]_domainVars
             PROVE  AloneInv'
    OBVIOUS
<1> USE DEF DomainTypeOK, Stages, Stage, Running, Undisturbed
<1>1. ASSUME NEW v \in Verifications, BeginVerify(v)
      PROVE  AloneInv'
  <2>1. \A w \in alone' : vpc'[w] # "idle"
    BY <1>1 DEF BeginVerify, AloneInv
  <2>2. ASSUME latest' \in alone'
        PROVE  Undisturbed'
    <3>1. v \notin alone
      BY <1>1 DEF AloneInv, BeginVerify
    <3>2. ~\E w \in Verifications : Running(w)
      BY <1>1, <2>2, <3>1 DEF BeginVerify
    <3> QED
      BY <1>1, <3>2 DEF BeginVerify
  <2> QED
    BY <2>1, <2>2 DEF AloneInv
<1>2. ASSUME NEW v \in Verifications, DeleteChecks(v)
      PROVE  AloneInv'
    BY <1>2 DEF DeleteChecks, AloneInv
<1>3. ASSUME NEW v \in Verifications, InsertChecks(v)
      PROVE  AloneInv'
    BY <1>3 DEF InsertChecks, AloneInv
<1>4. ASSUME NEW v \in Verifications, CommitChecks(v)
      PROVE  AloneInv'
    BY <1>4 DEF CommitChecks, AloneInv
<1>5. ASSUME NEW v \in Verifications, UpdateVerified(v)
      PROVE  AloneInv'
    BY <1>5 DEF UpdateVerified, AloneInv
<1>6. ASSUME NEW v \in Verifications, CutVerify(v)
      PROVE  AloneInv'
    BY <1>6 DEF CutVerify, AloneInv
<1>7. CASE UNCHANGED domainVars
    BY <1>7 DEF domainVars, AloneInv
<1> QED
    BY <1>1, <1>2, <1>3, <1>4, <1>5, <1>6, <1>7 DEF DomainNext

-----------------------------------------------------------------------------
(* Domains: theorems *)

LEMMA DomainInitType == DomainInit => DomainTypeOK
<1> SUFFICES ASSUME DomainInit
             PROVE  DomainTypeOK
    OBVIOUS
<1>1. 0 \in 0 .. Required
    BY RequiredAssumption
<1>2. found \in [Verifications -> 0 .. Required]
    BY <1>1 DEF DomainInit
<1> QED
    BY <1>2 DEF DomainInit, DomainTypeOK, Stages

LEMMA DomainInvariants == DomainSpec => [](DomainTypeOK /\ RowsInv /\ AloneInv)
<1>1. DomainInit => RowsInv /\ AloneInv
    BY DEF DomainInit, RowsInv, Committed, AloneInv
<1> QED
    BY <1>1, DomainInitType, DomainTypeStep, RowsStep, AloneStep, PTL DEF DomainSpec

(* Sending only adds to a domain what leaves it alone. *)
LEMMA NextDomain == [Next]_vars => [DomainNext]_domainVars
<1> SUFFICES ASSUME [Next]_vars
             PROVE  [DomainNext]_domainVars
    OBVIOUS
<1>1. ASSUME NEW c \in Credentials,
             CheckDomain(c) \/ CheckSuspended(c) \/ CheckSubscription(c)
                \/ InsertCredential(c) \/ RefuseCreate(c)
      PROVE  UNCHANGED domainVars
    BY <1>1 DEF CheckDomain, CheckSuspended, CheckSubscription, InsertCredential, RefuseCreate
<1>2. ASSUME SuspendOrganization \/ UnsuspendOrganization \/ DisableOrganizationCredentials
      PROVE  UNCHANGED domainVars
    BY <1>2 DEF SuspendOrganization, UnsuspendOrganization,
                DisableOrganizationCredentials, SetEnabled
<1>3. ASSUME NEW c \in Credentials, Revoke(c) \/ EnableCredential(c)
      PROVE  UNCHANGED domainVars
    BY <1>3 DEF Revoke, EnableCredential, SetEnabled
<1>4. ASSUME NEW r \in Rotations,
             (\E c \in Credentials : RotateLoad(r, c)) \/ RotateWrite(r)
                \/ RotateAnswer(r) \/ CutRotate(r)
      PROVE  UNCHANGED domainVars
    BY <1>4 DEF RotateLoad, RotateWrite, RotateAnswer, CutRotate
<1>5. CASE UNCHANGED vars
    BY <1>5 DEF vars
<1> QED
    BY <1>1, <1>2, <1>3, <1>4, <1>5 DEF Next

(* Every behaviour of Sending is one of Domains. *)
THEOREM ImplementsDomains == Spec => DomainSpec
<1>1. Init => DomainInit
    BY DEF Init
<1> QED
    BY <1>1, NextDomain, PTL DEF Spec, DomainSpec

(* The rows of two verifications stand side by side only when the two      *)
(* overlapped.                                                             *)
THEOREM OnlyOverlapsLeaveRows == Spec => []LeftoversOverlapped
<1>1. RowsInv => LeftoversOverlapped
    BY DEF RowsInv, LeftoversOverlapped, Committed
<1> QED
    BY <1>1, ImplementsDomains, DomainInvariants, PTL

(* A verification that nothing overlaps leaves its checks and a flag that  *)
(* agrees with them.                                                       *)
THEOREM AloneAgrees == Spec => []AloneLeavesAgreement
<1>1. AloneInv => AloneLeavesAgreement
    BY DEF AloneInv, Undisturbed, AloneLeavesAgreement
<1> QED
    BY <1>1, ImplementsDomains, DomainInvariants, PTL

-----------------------------------------------------------------------------
(* Sending: types *)

LEMMA TypeStep == TypeOK /\ [Next]_vars => TypeOK'
<1> SUFFICES ASSUME TypeOK, [Next]_vars
             PROVE  TypeOK'
    OBVIOUS
<1> USE DEF TypeOK, Secrets, CreateStage, RotateStage
<1>0. DomainTypeOK'
    BY NextDomain, DomainTypeStep
<1>1. ASSUME NEW c \in Credentials, CheckDomain(c) \/ CheckSuspended(c) \/ CheckSubscription(c)
      PROVE  TypeOK'
    BY <1>0, <1>1 DEF CheckDomain, CheckSuspended, CheckSubscription
<1>2. ASSUME NEW c \in Credentials, InsertCredential(c) \/ RefuseCreate(c)
      PROVE  TypeOK'
  <2>1. CASE InsertCredential(c)
    <3>1. enabled' \in [Credentials -> BOOLEAN]
      BY <2>1 DEF InsertCredential
    <3>2. secret' \in [Credentials -> Credentials \cup Rotations \cup {NoSecret}]
      BY <2>1 DEF InsertCredential
    <3> QED
      BY <1>0, <2>1, <3>1, <3>2 DEF InsertCredential
  <2>2. CASE RefuseCreate(c)
    BY <1>0, <2>2 DEF RefuseCreate
  <2> QED
    BY <1>2, <2>1, <2>2
<1>3. ASSUME SuspendOrganization \/ UnsuspendOrganization
      PROVE  TypeOK'
    BY <1>0, <1>3 DEF SuspendOrganization, UnsuspendOrganization, TooLate, Existing
<1>4. ASSUME NEW C, NEW on \in BOOLEAN, SetEnabled(C, on)
      PROVE  TypeOK'
    BY <1>0, <1>4 DEF SetEnabled
<1>5. ASSUME NEW r \in Rotations, NEW c \in Credentials, RotateLoad(r, c)
      PROVE  TypeOK'
    BY <1>0, <1>5 DEF RotateLoad
<1>6. ASSUME NEW r \in Rotations, RotateWrite(r) \/ RotateAnswer(r) \/ CutRotate(r)
      PROVE  TypeOK'
    BY <1>0, <1>6 DEF RotateWrite, RotateAnswer, CutRotate
<1>7. CASE UNCHANGED credentialVars
    BY <1>0, <1>7 DEF credentialVars
<1> QED
    BY <1>1, <1>2, <1>3, <1>4, <1>5, <1>6, <1>7
    DEF Next, vars, Revoke, EnableCredential, DisableOrganizationCredentials

LEMMA InitType == Init => TypeOK
    BY DomainInitType DEF Init, TypeOK, Secrets

(* The tables, the requests and the histories keep their types. *)
THEOREM TypeCorrect == Spec => []TypeOK
    BY InitType, TypeStep, PTL DEF Spec

-----------------------------------------------------------------------------
(* Sending: creation *)

(* A creation goes past its first check only behind a verification that    *)
(* found all, and past its second only outside a suspension, or before it. *)
CreateInv ==
    /\ verified \/ (\E c \in Credentials : cpc[c] # "idle") =>
            \E v \in Verifications : vpc[v] = "done" /\ found[v] = Required
    /\ suspended => TooLate \subseteq before

LEMMA FoundStays ==
    ASSUME TypeOK, [DomainNext]_domainVars, NEW v \in Verifications, vpc[v] = "done"
    PROVE  vpc'[v] = "done" /\ found'[v] = found[v]
<1> USE DEF TypeOK, DomainTypeOK, Stage
<1> QED
    BY DEF DomainNext, domainVars, BeginVerify, DeleteChecks, InsertChecks,
           CommitChecks, UpdateVerified, CutVerify, Running

LEMMA VerifiedHasReason ==
    ASSUME TypeOK, [DomainNext]_domainVars, verified', ~verified
    PROVE  \E v \in Verifications : vpc'[v] = "done" /\ found'[v] = Required
<1> USE DEF TypeOK, DomainTypeOK, Stage
<1>1. PICK v \in Verifications : UpdateVerified(v)
    BY DEF DomainNext, domainVars, BeginVerify, DeleteChecks, InsertChecks,
           CommitChecks, CutVerify
<1> QED
    BY <1>1 DEF UpdateVerified

LEMMA CreateStep == TypeOK /\ CreateInv /\ [Next]_vars => CreateInv'
<1> SUFFICES ASSUME TypeOK, CreateInv, [Next]_vars
             PROVE  CreateInv'
    OBVIOUS
<1> USE DEF TypeOK, CreateStage
<1> DEFINE Passed == \E c \in Credentials : cpc[c] # "idle"
           Reason == \E v \in Verifications : vpc[v] = "done" /\ found[v] = Required
<1>1. [DomainNext]_domainVars
    BY NextDomain
<1>2. Reason => Reason'
    BY <1>1, FoundStays
<1>3. Passed' => Passed \/ verified
  <2>1. ASSUME NEW c \in Credentials,
               CheckSuspended(c) \/ CheckSubscription(c) \/ InsertCredential(c) \/ RefuseCreate(c)
        PROVE  Passed
    BY <2>1 DEF CheckSuspended, CheckSubscription, InsertCredential, RefuseCreate
  <2>2. ASSUME NEW c \in Credentials, CheckDomain(c)
        PROVE  verified
    BY <2>2 DEF CheckDomain
  <2>3. CASE UNCHANGED cpc
    BY <2>3
  <2> QED
    BY <2>1, <2>2, <2>3
    DEF Next, vars, credentialVars, SuspendOrganization, UnsuspendOrganization, Revoke,
        EnableCredential, DisableOrganizationCredentials, SetEnabled, RotateLoad,
        RotateWrite, RotateAnswer, CutRotate
<1>4. verified' \/ Passed' => Reason'
    BY <1>1, <1>2, <1>3, VerifiedHasReason DEF CreateInv
<1>5. (suspended => TooLate \subseteq before)'
  <2>1. ASSUME NEW c \in Credentials, CheckDomain(c) \/ CheckSuspended(c) \/ CheckSubscription(c)
        PROVE  (suspended => TooLate \subseteq before)'
    BY <2>1 DEF CheckDomain, CheckSuspended, CheckSubscription, CreateInv, TooLate, Existing
  <2>2. ASSUME NEW c \in Credentials, InsertCredential(c) \/ RefuseCreate(c)
        PROVE  (suspended => TooLate \subseteq before)'
    BY <2>2 DEF InsertCredential, RefuseCreate, CreateInv, TooLate, Existing
  <2>3. ASSUME SuspendOrganization \/ UnsuspendOrganization
        PROVE  (suspended => TooLate \subseteq before)'
    BY <2>3 DEF SuspendOrganization, UnsuspendOrganization, CreateInv, TooLate, Existing
  <2>4. CASE UNCHANGED <<suspended, cpc, before>>
    BY <2>4 DEF CreateInv, TooLate, Existing
  <2> QED
    BY <2>1, <2>2, <2>3, <2>4
    DEF Next, vars, credentialVars, Revoke, EnableCredential,
        DisableOrganizationCredentials, SetEnabled, RotateLoad, RotateWrite,
        RotateAnswer, CutRotate
<1> QED
    BY <1>4, <1>5 DEF CreateInv

LEMMA CreateInvariant == Spec => []CreateInv
<1>1. Init => CreateInv
    BY DEF Init, DomainInit, CreateInv
<1> QED
    BY <1>1, InitType, TypeStep, CreateStep, PTL DEF Spec

(* Credentials exist only behind a verification that found everything. *)
THEOREM CreatedAfterVerification == Spec => []CreatedBehindVerification
<1>1. CreateInv => CreatedBehindVerification
    BY DEF CreateInv, CreatedBehindVerification, Existing
<1> QED
    BY <1>1, CreateInvariant, PTL

(* A suspension lets in only the creations that it came too late for. *)
THEOREM SuspensionHolds == Spec => []SuspensionStopsCreation
<1>1. CreateInv => SuspensionStopsCreation
    BY DEF CreateInv, SuspensionStopsCreation, TooLate
<1> QED
    BY <1>1, CreateInvariant, PTL

-----------------------------------------------------------------------------
(* Sending: rotation *)

Unwritten == {r \in Rotations : rpc[r] \in {"idle", "write"}}

(* The secret of a rotation that has not written is nowhere, neither in the*)
(* table nor in what a rotation found there: writing it restores nothing.  *)
RotationInv ==
    /\ RotationEndsOldSecret
    /\ \A c \in Credentials : secret[c] \notin Unwritten
    /\ \A r \in Rotations : old[r] \notin Unwritten /\ target[r] \subseteq Existing

LEMMA RotationStep == TypeOK /\ RotationInv /\ [Next]_vars => RotationInv'
<1> SUFFICES ASSUME TypeOK, RotationInv, [Next]_vars
             PROVE  RotationInv'
    OBVIOUS
<1> USE SendingAssumption
    DEF TypeOK, Secrets, CreateStage, RotateStage, RotationInv, RotationEndsOldSecret,
        Unwritten, Existing
<1>1. ASSUME NEW c \in Credentials,
             CheckDomain(c) \/ CheckSuspended(c) \/ CheckSubscription(c) \/ RefuseCreate(c)
      PROVE  RotationInv'
    BY <1>1 DEF CheckDomain, CheckSuspended, CheckSubscription, RefuseCreate
<1>2. ASSUME NEW c \in Credentials, InsertCredential(c)
      PROVE  RotationInv'
    BY <1>2 DEF InsertCredential
<1>3. ASSUME NEW r \in Rotations, NEW c \in Credentials, RotateLoad(r, c)
      PROVE  RotationInv'
    BY <1>3 DEF RotateLoad
<1>4. ASSUME NEW r \in Rotations, RotateWrite(r)
      PROVE  RotationInv'
  <2>1. r \in Unwritten /\ Unwritten' = Unwritten \ {r}
    BY <1>4 DEF RotateWrite
  <2>2. ASSUME NEW q \in Rotations, rpc'[q] \in {"audit", "shown"}, NEW c \in target[q]
        PROVE  secret'[c] # old[q]
    BY <1>4, <2>1, <2>2 DEF RotateWrite
  <2> QED
    BY <1>4, <2>1, <2>2 DEF RotateWrite
<1>5. ASSUME NEW r \in Rotations, RotateAnswer(r) \/ CutRotate(r)
      PROVE  RotationInv'
    BY <1>5 DEF RotateAnswer, CutRotate
<1>6. CASE UNCHANGED <<cpc, secret, rpc, target, old>>
    BY <1>6
<1> QED
    BY <1>1, <1>2, <1>3, <1>4, <1>5, <1>6
    DEF Next, vars, credentialVars, SuspendOrganization, UnsuspendOrganization, Revoke,
        EnableCredential, DisableOrganizationCredentials, SetEnabled

(* No rotation brings back a secret that another has replaced. *)
THEOREM OldSecretsStayDead == Spec => []RotationEndsOldSecret
<1>1. Init => RotationInv
    BY SendingAssumption DEF Init, RotationInv, RotationEndsOldSecret, Unwritten
<1>2. RotationInv => RotationEndsOldSecret
    BY DEF RotationInv
<1> QED
    BY <1>1, <1>2, InitType, TypeStep, RotationStep, PTL DEF Spec
=============================================================================
