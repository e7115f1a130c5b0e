----------------------------- MODULE Deployment -----------------------------
(***************************************************************************)
(* Processes, their configuration and the secrets they store.              *)
(*                                                                         *)
(* The processes of the API run in containers that docker compose restarts *)
(* whenever they exit.  A container keeps the environment it was created   *)
(* with: a configuration that the operator edits reaches it only when it   *)
(* is recreated, so processes of an older configuration may go on serving. *)
(* Starting, a process checks its configuration, connects to PostgreSQL    *)
(* and to Redis, looks for the first admin and inserts it (two statements; *)
(* the e-mail of a user is unique), and builds the keyring; whatever fails *)
(* ends the process.  Serving, it encrypts the secrets of SMTP credentials *)
(* under its active key and writes them in a later statement.              *)
(*                                                                         *)
(* A worker process starts in the same way but for the first admin, and    *)
(* neither writes users nor encrypts: it shares nothing with these.  Of    *)
(* the configuration only what the keyring and the first admin depend on   *)
(* is modelled; the other variables are taken to be valid.                 *)
(* A key id names one key: the operator does not reuse an id for other     *)
(* material.  Cipher texts are represented by the key that made them.      *)
(***************************************************************************)
EXTENDS Naturals

CONSTANTS
    Containers,     \* of the API
    KeyIds,
    Null,           \* a column that is NULL, a variable that is not set
    Emails,
    Credentials,
    Configs,        \* the configurations the operator may deploy
    FirstConfig,
    MaxEdits,       \* bound: edits of the deployed configuration
    MaxFaults       \* bound: crashes and outages

ConfigType == [keys : SUBSET KeyIds,        \* ids in ENCRYPTION_KEYS
               legacyKey : BOOLEAN,         \* ENCRYPTION_KEY is set
               legacyId : KeyIds,           \* ENCRYPTION_KEY_ID
               active : KeyIds \cup {Null}, \* ACTIVE_ENCRYPTION_KEY_ID
               firstAdmin : Emails \cup {Null}]

ASSUME ConfigsAssumption == Configs \subseteq ConfigType /\ FirstConfig \in Configs
ASSUME NullAssumption == Null \notin KeyIds \cup Emails \cup Credentials
ASSUME BoundsAssumption == MaxEdits \in Nat /\ MaxFaults \in Nat

Dependencies == {"postgres", "redis"}

VARIABLES
    deployed,       \* the configuration a new container gets
    environment,    \* container -> the configuration it was created with
    pc,             \* container -> what its process does next
    users,          \* users.email -> users.role, Null without a row
    secrets,        \* smtp_credentials -> key id and cipher text of the row
    request,        \* container -> the credential request it is handling
    up,             \* the dependencies that answer
    edits, faults   \* how often the operator and the environment have acted

vars == <<deployed, environment, pc, users, secrets, request, up, edits, faults>>

NoRow == [keyId |-> Null, sealedBy |-> Null]
Secret == [keyId : KeyIds \cup {Null}, sealedBy : KeyIds]

NoRequest == [credential |-> Null, keyId |-> Null, sealedBy |-> Null]
Request == [credential : Credentials, keyId : KeyIds, sealedBy : KeyIds]

Starting == {"validate", "postgres", "redis", "look", "insert", "keyring"}

TypeOK ==
    /\ deployed \in Configs
    /\ environment \in [Containers -> Configs]
    /\ pc \in [Containers -> Starting \cup {"serving", "stopping"}]
    /\ users \in [Emails -> {"admin", "customer", Null}]
    /\ secrets \in [Credentials -> Secret \cup {NoRow}]
    /\ request \in [Containers -> Request \cup {NoRequest}]
    /\ up \subseteq Dependencies
    /\ edits \in 0 .. MaxEdits
    /\ faults \in 0 .. MaxFaults

(* A new installation, or one with secrets from before password_key_id.    *)
Init ==
    /\ deployed = FirstConfig
    /\ environment = [i \in Containers |-> FirstConfig]
    /\ pc = [i \in Containers |-> "validate"]
    /\ users = [e \in Emails |-> Null]
    /\ \/ secrets = [c \in Credentials |-> NoRow]
       \/ secrets = [c \in Credentials |->
                        [keyId |-> Null, sealedBy |-> FirstConfig.legacyId]]
    /\ request = [i \in Containers |-> NoRequest]
    /\ up = Dependencies
    /\ edits = 0
    /\ faults = 0

-----------------------------------------------------------------------------
(* The keyring *)

(* What Config.Validate requires of the encryption variables *)
Validate(c) ==
    /\ c.keys = {} => c.legacyKey
    /\ c.keys # {} => c.active # Null

(* The keys of a keyring, and the one it encrypts with *)
DerivedKeys(c) == c.keys \cup (IF c.legacyKey THEN {c.legacyId} ELSE {})
ActiveKeyId(c) == IF c.active = Null THEN c.legacyId ELSE c.active

NewKeyring(c) ==
    /\ c.legacyKey => c.legacyId \notin c.keys
    /\ ActiveKeyId(c) \in DerivedKeys(c)

(* Decrypt: the key a stored id resolves to *)
ResolvedKeyId(keyId, c) == IF keyId = Null THEN c.legacyId ELSE keyId

(* What an installation starts from: a configuration that works, under     *)
(* which the secrets it may hold already can be decrypted.                 *)
ASSUME FirstConfigAssumption ==
    /\ Validate(FirstConfig) /\ NewKeyring(FirstConfig)
    /\ FirstConfig.legacyId \in DerivedKeys(FirstConfig)

Decrypts(row, c) ==
    /\ ResolvedKeyId(row.keyId, c) \in DerivedKeys(c)
    /\ ResolvedKeyId(row.keyId, c) = row.sealedBy

-----------------------------------------------------------------------------
(* Start-up *)

GoTo(i, stage) == pc' = [pc EXCEPT ![i] = stage]

(* The process exits, and compose starts it again in the same container.   *)
Exit(i) == /\ GoTo(i, "validate")
           /\ request' = [request EXCEPT ![i] = NoRequest]

ProceedIf(i, ok, stage) ==
    /\ IF ok THEN GoTo(i, stage) /\ UNCHANGED request ELSE Exit(i)
    /\ UNCHANGED <<deployed, environment, users, secrets, up, edits, faults>>

CheckConfig(i) ==
    /\ pc[i] = "validate"
    /\ ProceedIf(i, Validate(environment[i]), "postgres")

NewPostgresPool(i) ==
    /\ pc[i] = "postgres"
    /\ ProceedIf(i, "postgres" \in up, "redis")

NewRedisClient(i) ==
    /\ pc[i] = "redis"
    /\ ProceedIf(i, "redis" \in up, "look")

(* EnsureFirstAdmin up to the bcrypt hash *)
AlwaysSeed(i) ==            \* mutant: inserts without looking
    /\ pc[i] = "look"
    /\ ProceedIf(i, "postgres" \in up, "insert")

LookForFirstAdmin(i) ==
    LET email == environment[i].firstAdmin
    IN  /\ pc[i] = "look"
        /\ IF email = Null
           THEN ProceedIf(i, TRUE, "keyring")
           ELSE ProceedIf(i, "postgres" \in up,
                          IF users[email] = Null THEN "insert" ELSE "keyring")

InsertFirstAdmin(i) ==
    LET email == environment[i].firstAdmin
    IN  /\ pc[i] = "insert"
        /\ IF "postgres" \in up /\ users[email] = Null
           THEN /\ users' = [users EXCEPT ![email] = "admin"]
                /\ GoTo(i, "keyring")
                /\ UNCHANGED request
           ELSE Exit(i) /\ UNCHANGED users
        /\ UNCHANGED <<deployed, environment, secrets, up, edits, faults>>

BuildKeyring(i) ==
    /\ pc[i] = "keyring"
    /\ ProceedIf(i, NewKeyring(environment[i]), "serving")

Start(i) ==
    \/ CheckConfig(i)
    \/ NewPostgresPool(i)
    \/ NewRedisClient(i)
    \/ LookForFirstAdmin(i)
    \/ InsertFirstAdmin(i)
    \/ BuildKeyring(i)

-----------------------------------------------------------------------------
(* Requests *)

(* credentials.Create and Rotate up to keyring.Encrypt.  A credential that *)
(* is rotated exists; what else these handlers check only refuses more.    *)
EncryptUnresolved(i, c) ==  \* mutant: names the variable, set or not
    /\ pc[i] = "serving"
    /\ request[i] = NoRequest
    /\ request' = [request EXCEPT ![i] =
                      [credential |-> c,
                       keyId |-> environment[i].active,
                       sealedBy |-> ActiveKeyId(environment[i])]]
    /\ UNCHANGED <<deployed, environment, pc, users, secrets, up, edits, faults>>

Encrypt(i, c) ==
    LET key == ActiveKeyId(environment[i])
    IN  /\ pc[i] = "serving"
        /\ request[i] = NoRequest
        /\ request' = [request EXCEPT ![i] =
                          [credential |-> c, keyId |-> key, sealedBy |-> key]]
        /\ UNCHANGED <<deployed, environment, pc, users, secrets, up, edits, faults>>

(* The INSERT of Create or the UPDATE of Rotate, and its failure.  The row *)
(* takes the cipher text and its key id in one statement.                  *)
StoreCipherOnly(i) ==       \* mutant: a rotation forgets password_key_id
    /\ request[i] # NoRequest
    /\ LET c == request[i].credential
       IN  secrets' = [secrets EXCEPT ![c] =
                          [keyId |-> IF @ = NoRow THEN request[i].keyId ELSE @.keyId,
                           sealedBy |-> request[i].sealedBy]]
    /\ request' = [request EXCEPT ![i] = NoRequest]
    /\ UNCHANGED <<deployed, environment, pc, users, up, edits, faults>>

StoreSecret(i) ==
    /\ request[i] # NoRequest
    /\ secrets' = IF "postgres" \in up
                  THEN [secrets EXCEPT ![request[i].credential] =
                           [keyId |-> request[i].keyId, sealedBy |-> request[i].sealedBy]]
                  ELSE secrets
    /\ request' = [request EXCEPT ![i] = NoRequest]
    /\ UNCHANGED <<deployed, environment, pc, users, up, edits, faults>>

(* organizations.CreateCustomerOrganization: the owner, the organization   *)
(* and the audit row in one transaction, on behalf of an admin.            *)
CreateCustomerOrganization(i, email) ==
    /\ pc[i] = "serving"
    /\ \E e \in Emails : users[e] = "admin"
    /\ "postgres" \in up
    /\ users[email] = Null
    /\ users' = [users EXCEPT ![email] = "customer"]
    /\ UNCHANGED <<deployed, environment, pc, secrets, request, up, edits, faults>>

-----------------------------------------------------------------------------
(* The operator, and faults *)

(* The manual rotation flow of README.md: a key stays configured while a   *)
(* stored secret needs it or a container still encrypts with it.           *)
Keeps(c) ==
    /\ \A s \in Credentials : secrets[s] # NoRow => Decrypts(secrets[s], c)
    /\ \A i \in Containers : ActiveKeyId(environment[i]) \in DerivedKeys(environment[i])
                       => ActiveKeyId(environment[i]) \in DerivedKeys(c)

EditConfig(c) ==
    /\ edits < MaxEdits
    /\ edits' = edits + 1
    /\ c \in Configs \ {deployed}
    /\ Keeps(c)
    /\ deployed' = c
    /\ UNCHANGED <<environment, pc, users, secrets, request, up, faults>>

(* UPDATE smtp_credentials SET password_key_id = ... WHERE ... IS NULL     *)
BackfillKeyIds ==
    /\ secrets' = [c \in Credentials |->
                      IF secrets[c] # NoRow /\ secrets[c].keyId = Null
                      THEN [secrets[c] EXCEPT !.keyId = deployed.legacyId]
                      ELSE secrets[c]]
    /\ secrets' # secrets
    /\ UNCHANGED <<deployed, environment, pc, users, request, up, edits, faults>>

(* docker compose up -d recreates the containers whose configuration has   *)
(* changed.  SIGTERM ends a process that is starting at once; one that     *)
(* serves stops taking requests and finishes those it has, or gives them   *)
(* up after ShutdownTimeout.                                               *)
SignalShutdown(i) ==
    /\ environment[i] # deployed
    /\ pc[i] = "serving"
    /\ GoTo(i, "stopping")
    /\ UNCHANGED <<deployed, environment, users, secrets, request, up, edits, faults>>

Recreate(i) ==
    /\ environment[i] # deployed
    /\ pc[i] # "serving"
    /\ Exit(i)
    /\ environment' = [environment EXCEPT ![i] = deployed]
    /\ UNCHANGED <<deployed, users, secrets, up, edits, faults>>

(* A signal that recreates nothing: the edit was taken back meanwhile.     *)
EndShutdown(i) ==
    /\ pc[i] = "stopping"
    /\ environment[i] = deployed
    /\ Exit(i)
    /\ UNCHANGED <<deployed, environment, users, secrets, up, edits, faults>>

Crash(i) ==
    /\ faults < MaxFaults
    /\ faults' = faults + 1
    /\ Exit(i)
    /\ UNCHANGED <<deployed, environment, users, secrets, up, edits>>

Outage(d) ==
    /\ faults < MaxFaults
    /\ faults' = faults + 1
    /\ d \in up
    /\ up' = up \ {d}
    /\ UNCHANGED <<deployed, environment, pc, users, secrets, request, edits>>

Recover(d) ==
    /\ d \notin up
    /\ up' = up \cup {d}
    /\ UNCHANGED <<deployed, environment, pc, users, secrets, request, edits, faults>>

Next ==
    \/ \E i \in Containers : \/ Start(i)
                             \/ StoreSecret(i)
                             \/ SignalShutdown(i)
                             \/ Recreate(i)
                             \/ EndShutdown(i)
                             \/ Crash(i)
    \/ \E i \in Containers, c \in Credentials : Encrypt(i, c)
    \/ \E i \in Containers, e \in Emails : CreateCustomerOrganization(i, e)
    \/ \E c \in Configs : EditConfig(c)
    \/ BackfillKeyIds
    \/ \E d \in Dependencies : Outage(d) \/ Recover(d)

Spec == Init /\ [][Next]_vars

(* Processes run, and compose restarts and recreates them; an outage ends. *)
FairSpec ==
    /\ Spec
    /\ \A i \in Containers : WF_vars(Start(i))
    /\ \A i \in Containers : WF_vars(SignalShutdown(i) \/ Recreate(i) \/ EndShutdown(i))
    /\ \A d \in Dependencies : WF_vars(Recover(d))

-----------------------------------------------------------------------------
(* Properties *)

(* A process started under the deployed configuration can decrypt every    *)
(* secret that is stored, whichever process encrypted it under whichever   *)
(* configuration, and however its request was delayed or cut short.        *)
SecretsReadable ==
    \A c \in Credentials : secrets[c] # NoRow => Decrypts(secrets[c], deployed)

(* GET /ready of a process: 200 while PostgreSQL and Redis answer          *)
Ready(i) == pc[i] = "serving" /\ up = Dependencies

(* Processes that start at the same time may take the first admin's row    *)
(* from each other, find a dependency down, crash or be recreated; every   *)
(* container with a valid configuration still ends up ready for good.      *)
EveryContainerServes ==
    \A i \in Containers :
        <>[](Validate(deployed) /\ NewKeyring(deployed)) => <>[]Ready(i)
=============================================================================
