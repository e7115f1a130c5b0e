-------------------------- MODULE DeploymentProofs --------------------------
(***************************************************************************)
(* Theorems about module Deployment, for any containers, keys, credentials *)
(* and configurations.                                                     *)
(***************************************************************************)
EXTENDS Deployment, TLAPS

-----------------------------------------------------------------------------
(* Types *)

LEMMA TypeInit == Init => TypeOK
  BY ConfigsAssumption, BoundsAssumption
  DEF Init, TypeOK, Starting, Dependencies, Secret, NoRow, ConfigType

(* What every process that serves has checked, and what it encrypts with   *)
LEMMA ActiveKeyType ==
    ASSUME NEW c \in Configs
    PROVE  /\ c.legacyId \in KeyIds
           /\ ActiveKeyId(c) \in KeyIds
  BY ConfigsAssumption DEF ConfigType, ActiveKeyId

LEMMA TypeStart ==
    ASSUME TypeOK, NEW i \in Containers, Start(i)
    PROVE  TypeOK'
<1> USE BoundsAssumption DEF TypeOK, Starting, GoTo, Exit, ProceedIf
<1>1. CASE CheckConfig(i)
  BY <1>1 DEF CheckConfig
<1>2. CASE NewPostgresPool(i)
  BY <1>2 DEF NewPostgresPool
<1>3. CASE NewRedisClient(i)
  BY <1>3 DEF NewRedisClient
<1>4. CASE LookForFirstAdmin(i)
  BY <1>4 DEF LookForFirstAdmin
<1>5. CASE InsertFirstAdmin(i)
  <2>1. users' \in [Emails -> {"admin", "customer", Null}]
    BY <1>5 DEF InsertFirstAdmin
  <2> QED
    BY <1>5, <2>1 DEF InsertFirstAdmin
<1>6. CASE BuildKeyring(i)
  BY <1>6 DEF BuildKeyring
<1> QED
  BY <1>1, <1>2, <1>3, <1>4, <1>5, <1>6 DEF Start

LEMMA TypeStep == TypeOK /\ [Next]_vars => TypeOK'
<1> SUFFICES ASSUME TypeOK, [Next]_vars
             PROVE  TypeOK'
  OBVIOUS
<1> USE BoundsAssumption DEF TypeOK
<1>1. ASSUME NEW i \in Containers, Start(i)
      PROVE  TypeOK'
  BY <1>1, TypeStart
<1>2. ASSUME NEW i \in Containers, StoreSecret(i)
      PROVE  TypeOK'
  <2>1. request[i] \in Request
    BY <1>2 DEF StoreSecret
  <2>2. secrets' \in [Credentials -> Secret \cup {NoRow}]
    BY <1>2, <2>1 DEF StoreSecret, Request, Secret
  <2> QED
    BY <1>2, <2>2 DEF StoreSecret
<1>3. ASSUME NEW i \in Containers, SignalShutdown(i)
      PROVE  TypeOK'
  BY <1>3 DEF SignalShutdown, GoTo
<1>4. ASSUME NEW i \in Containers, Recreate(i)
      PROVE  TypeOK'
  BY <1>4 DEF Recreate, Exit, GoTo, Starting
<1>5. ASSUME NEW i \in Containers, EndShutdown(i)
      PROVE  TypeOK'
  BY <1>5 DEF EndShutdown, Exit, GoTo, Starting
<1>6. ASSUME NEW i \in Containers, Crash(i)
      PROVE  TypeOK'
  BY <1>6 DEF Crash, Exit, GoTo, Starting
<1>7. ASSUME NEW i \in Containers, NEW c \in Credentials, Encrypt(i, c)
      PROVE  TypeOK'
  <2>1. ActiveKeyId(environment[i]) \in KeyIds
    BY ActiveKeyType
  <2>2. request' \in [Containers -> Request \cup {NoRequest}]
    BY <1>7, <2>1 DEF Encrypt, Request
  <2> QED
    BY <1>7, <2>2 DEF Encrypt
<1>8. ASSUME NEW i \in Containers, NEW e \in Emails, CreateCustomerOrganization(i, e)
      PROVE  TypeOK'
  BY <1>8 DEF CreateCustomerOrganization
<1>9. ASSUME NEW c \in Configs, EditConfig(c)
      PROVE  TypeOK'
  BY <1>9 DEF EditConfig
<1>10. CASE BackfillKeyIds
  <2>1. deployed.legacyId \in KeyIds
    BY ActiveKeyType
  <2>2. secrets' \in [Credentials -> Secret \cup {NoRow}]
    BY <1>10, <2>1 DEF BackfillKeyIds, Secret, NoRow
  <2> QED
    BY <1>10, <2>2 DEF BackfillKeyIds
<1>11. ASSUME NEW d \in Dependencies, Outage(d) \/ Recover(d)
       PROVE  TypeOK'
  <2>1. up' \subseteq Dependencies
    BY <1>11 DEF Outage, Recover
  <2>2. faults' \in 0 .. MaxFaults
    BY <1>11 DEF Outage, Recover
  <2> QED
    BY <1>11, <2>1, <2>2 DEF Outage, Recover
<1>12. CASE UNCHANGED vars
  BY <1>12 DEF vars
<1> QED
  BY <1>1, <1>2, <1>3, <1>4, <1>5, <1>6, <1>7, <1>8, <1>9, <1>10, <1>11, <1>12 DEF Next

(* Configurations, rows and processes keep their types, whatever the       *)
(* operator deploys and whichever process stores secrets.                  *)
THEOREM TypeCorrect == Spec => []TypeOK
  BY TypeInit, TypeStep, PTL DEF Spec

-----------------------------------------------------------------------------
(* Secrets *)

(* SecretsReadable is not inductive: a request that was encrypted under an *)
(* older configuration may still be stored.  Processes that take requests  *)
(* have built their keyring; a request carries the active key of its       *)
(* process, and the deployed configuration has kept all of those.          *)
KeyringBuilt ==
    \A i \in Containers : pc[i] \in {"serving", "stopping"} => NewKeyring(environment[i])

ActiveKeysKept ==
    \A i \in Containers :
        ActiveKeyId(environment[i]) \in DerivedKeys(environment[i])
            => ActiveKeyId(environment[i]) \in DerivedKeys(deployed)

RequestsSealed ==
    \A i \in Containers : request[i] # NoRequest =>
        /\ pc[i] \in {"serving", "stopping"}
        /\ request[i].keyId = ActiveKeyId(environment[i])
        /\ request[i].sealedBy = ActiveKeyId(environment[i])

SecretsInv == KeyringBuilt /\ ActiveKeysKept /\ RequestsSealed /\ SecretsReadable

LEMMA SecretsInit == Init => SecretsInv
<1> SUFFICES ASSUME Init PROVE SecretsInv
  OBVIOUS
<1>1. KeyringBuilt /\ ActiveKeysKept /\ RequestsSealed
  BY DEF Init, KeyringBuilt, ActiveKeysKept, RequestsSealed
<1>2. SecretsReadable
  BY FirstConfigAssumption DEF Init, SecretsReadable, Decrypts, ResolvedKeyId, NoRow
<1> QED
  BY <1>1, <1>2 DEF SecretsInv

(* A process that exits has no request, one that starts has none either.   *)
LEMMA SecretsAfterExit ==
    ASSUME TypeOK, SecretsInv, NEW i \in Containers, Exit(i),
           UNCHANGED <<deployed, environment, secrets>>
    PROVE  SecretsInv'
<1>1. KeyringBuilt' /\ RequestsSealed'
  BY DEF TypeOK, SecretsInv, KeyringBuilt, RequestsSealed, Exit, GoTo
<1>2. ActiveKeysKept' /\ SecretsReadable'
  BY DEF SecretsInv, ActiveKeysKept, SecretsReadable
<1> QED
  BY <1>1, <1>2 DEF SecretsInv

LEMMA SecretsStart ==
    ASSUME TypeOK, SecretsInv, NEW i \in Containers, Start(i)
    PROVE  SecretsInv'
<1>0. UNCHANGED <<deployed, environment, secrets>>
  BY DEF Start, CheckConfig, NewPostgresPool, NewRedisClient, LookForFirstAdmin,
         InsertFirstAdmin, BuildKeyring, ProceedIf
<1>1. CASE Exit(i)
  BY <1>0, <1>1, SecretsAfterExit
<1>2. CASE ~Exit(i)
  <2>1. /\ pc[i] \in Starting
        /\ UNCHANGED request
        /\ \E stage \in Starting \cup {"serving"} :
              /\ GoTo(i, stage)
              /\ stage = "serving" => NewKeyring(environment[i])
    BY <1>2 DEF Start, CheckConfig, NewPostgresPool, NewRedisClient, LookForFirstAdmin,
           InsertFirstAdmin, BuildKeyring, ProceedIf, Starting
  <2>2. KeyringBuilt' /\ RequestsSealed'
    BY <1>0, <2>1 DEF TypeOK, SecretsInv, KeyringBuilt, RequestsSealed, GoTo, Starting
  <2>3. ActiveKeysKept' /\ SecretsReadable'
    BY <1>0 DEF SecretsInv, ActiveKeysKept, SecretsReadable
  <2> QED
    BY <2>2, <2>3 DEF SecretsInv
<1> QED
  BY <1>1, <1>2

LEMMA SecretsStep == TypeOK /\ SecretsInv /\ [Next]_vars => SecretsInv'
<1> SUFFICES ASSUME TypeOK, SecretsInv, [Next]_vars
             PROVE  SecretsInv'
  OBVIOUS
<1> USE DEF TypeOK, SecretsInv
<1>1. ASSUME NEW i \in Containers, Start(i)
      PROVE  SecretsInv'
  BY <1>1, SecretsStart
<1>2. ASSUME NEW i \in Containers, StoreSecret(i)
      PROVE  SecretsInv'
  <2>1. KeyringBuilt' /\ ActiveKeysKept'
    BY <1>2 DEF StoreSecret, KeyringBuilt, ActiveKeysKept
  <2>2. RequestsSealed'
    BY <1>2 DEF StoreSecret, RequestsSealed
  <2>3. /\ request[i].keyId = request[i].sealedBy
        /\ request[i].keyId \in KeyIds
        /\ request[i].keyId \in DerivedKeys(deployed)
    BY <1>2 DEF StoreSecret, RequestsSealed, KeyringBuilt, ActiveKeysKept, NewKeyring, Request
  <2>4. SecretsReadable'
    BY <1>2, <2>3, NullAssumption DEF StoreSecret, SecretsReadable, Decrypts, ResolvedKeyId
  <2> QED
    BY <2>1, <2>2, <2>4
<1>3. ASSUME NEW i \in Containers, SignalShutdown(i)
      PROVE  SecretsInv'
  <2>1. KeyringBuilt' /\ RequestsSealed'
    BY <1>3 DEF SignalShutdown, GoTo, KeyringBuilt, RequestsSealed
  <2>2. ActiveKeysKept' /\ SecretsReadable'
    BY <1>3 DEF SignalShutdown, ActiveKeysKept, SecretsReadable
  <2> QED
    BY <2>1, <2>2
<1>4. ASSUME NEW i \in Containers, Recreate(i)
      PROVE  SecretsInv'
  <2>1. KeyringBuilt' /\ RequestsSealed'
    BY <1>4 DEF Recreate, Exit, GoTo, KeyringBuilt, RequestsSealed
  <2>2. ActiveKeysKept'
    BY <1>4 DEF Recreate, ActiveKeysKept
  <2>3. SecretsReadable'
    BY <1>4 DEF Recreate, SecretsReadable
  <2> QED
    BY <2>1, <2>2, <2>3
<1>5. ASSUME NEW i \in Containers, EndShutdown(i) \/ Crash(i)
      PROVE  SecretsInv'
  BY <1>5, SecretsAfterExit DEF EndShutdown, Crash
<1>6. ASSUME NEW i \in Containers, NEW c \in Credentials, Encrypt(i, c)
      PROVE  SecretsInv'
  <2>1. RequestsSealed'
    BY <1>6 DEF Encrypt, RequestsSealed
  <2>2. KeyringBuilt' /\ ActiveKeysKept' /\ SecretsReadable'
    BY <1>6 DEF Encrypt, KeyringBuilt, ActiveKeysKept, SecretsReadable
  <2> QED
    BY <2>1, <2>2
<1>7. ASSUME NEW c \in Configs, EditConfig(c)
      PROVE  SecretsInv'
  <2>1. ActiveKeysKept' /\ SecretsReadable'
    BY <1>7 DEF EditConfig, Keeps, ActiveKeysKept, SecretsReadable
  <2>2. KeyringBuilt' /\ RequestsSealed'
    BY <1>7 DEF EditConfig, KeyringBuilt, RequestsSealed
  <2> QED
    BY <2>1, <2>2
<1>8. CASE BackfillKeyIds
  <2>1. deployed.legacyId \in KeyIds
    BY ActiveKeyType
  <2>2. SecretsReadable'
    <3> SUFFICES ASSUME NEW c \in Credentials, secrets'[c] # NoRow
                 PROVE  Decrypts(secrets[c], deployed)'
      BY DEF SecretsReadable
    <3>1. secrets[c] # NoRow /\ secrets[c] \in Secret
      BY <1>8 DEF BackfillKeyIds
    <3>2. Decrypts(secrets[c], deployed)
      BY <3>1 DEF SecretsReadable
    <3> QED
      BY <1>8, <2>1, <3>1, <3>2, NullAssumption
      DEF BackfillKeyIds, Decrypts, ResolvedKeyId, Secret
  <2>3. KeyringBuilt' /\ RequestsSealed' /\ ActiveKeysKept'
    BY <1>8 DEF BackfillKeyIds, KeyringBuilt, RequestsSealed, ActiveKeysKept
  <2> QED
    BY <2>2, <2>3
<1>9. CASE \/ \E i \in Containers, e \in Emails : CreateCustomerOrganization(i, e)
           \/ \E d \in Dependencies : Outage(d) \/ Recover(d)
           \/ UNCHANGED vars
  BY <1>9 DEF CreateCustomerOrganization, Outage, Recover, vars,
              KeyringBuilt, RequestsSealed, ActiveKeysKept, SecretsReadable
<1> QED
  BY <1>1, <1>2, <1>3, <1>4, <1>5, <1>6, <1>7, <1>8, <1>9 DEF Next

(* However requests are delayed and processes of several configurations    *)
(* overlap, the keys that the deployed configuration holds decrypt every   *)
(* stored secret.                                                          *)
THEOREM SecretsStayReadable == Spec => []SecretsReadable
<1>1. SecretsInv => SecretsReadable
  BY DEF SecretsInv
<1> QED
  BY <1>1, TypeCorrect, SecretsInit, SecretsStep, PTL DEF Spec
=============================================================================
