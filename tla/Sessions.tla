------------------------------ MODULE Sessions ------------------------------
(***************************************************************************)
(* The billing transactions of module Billing, statement by statement, on  *)
(* the connections of a pool.                                              *)
(*                                                                         *)
(* Billing makes every transaction one action.  Here requests and worker   *)
(* sweeps interleave at every statement under READ COMMITTED: an UPDATE    *)
(* sees what was committed when it started, waits for rows that another    *)
(* transaction has changed and then looks at them again; the partial       *)
(* unique index makes a transaction that would give an organization a live *)
(* subscription wait for, and fail beside, another; a deadlock ends one of *)
(* the transactions in it.  The variables of Billing are the committed     *)
(* tables.  The rows a transaction has changed are locked until it ends,   *)
(* so that what it writes in them can be computed when it commits.         *)
(*                                                                         *)
(* A transaction keeps its connection from BEGIN to COMMIT.  The handlers  *)
(* that list rows keep one connection for the rows they are reading and    *)
(* take another one for the queries they make about each row.              *)
(*                                                                         *)
(* Subscriptions are numbered in commit order here, where the code's       *)
(* created_at is the time of BEGIN.  An UPDATE visits rows by number;      *)
(* PostgreSQL may choose another order, which makes a difference only to   *)
(* two sweeps that overlap on several organizations.                       *)
(***************************************************************************)
EXTENDS Billing, Sequences, FiniteSets

CONSTANTS
    Txs,            \* requests and sweeps that run a billing transaction
    Lists,          \* requests that query while they read rows
    Offers,         \* what may be assigned, as pairs of plan.PriceMonthly > 0
                    \* and StartTrial with plan.TrialDays > 0
    PoolSize,       \* connections of the pool
    MaxRows,        \* bound: rows a list request reads
    MaxBegun        \* bound: transactions that are begun

(* Nothing in the code limits the list requests that run at the same time; *)
(* as many as the pool has connections may wait for each other for good.   *)
ASSUME PoolAssumption == /\ IsFiniteSet(Txs)
                         /\ IsFiniteSet(Lists)
                         /\ Offers \subseteq BOOLEAN \X BOOLEAN
                         /\ PoolSize \in Nat
                         /\ Cardinality(Lists) < PoolSize
                         /\ MaxRows \in Nat
                         /\ MaxBegun \in Nat

VARIABLES
    begun,          \* number of transactions begun so far
    op,             \* transaction -> its operation, NoOp between two
    position,       \* transaction -> number of its next statement
    held,           \* transaction -> the rows it has locked
    targets,        \* transaction -> the subscriptions its UPDATE has found
                    \* and not visited yet
    synced,         \* transaction -> the credentials it has locked
    reading,        \* list request -> connections it keeps
    rows            \* list request -> rows it has still to read

sessionVars == <<begun, op, position, held, targets, synced, reading, rows>>

(* The statements of each operation, in the order of the code.  "index" is *)
(* the part of an UPDATE or INSERT that enters the unique index.           *)
ForgetsInvoice(kind) ==     \* mutant: a decided payment leaves its invoice
    CASE kind \in {"paid", "failed"} ->
            <<"invoice", "subscription", "index", "payment", "credentials", "commit">>
      [] kind \in {"approve", "reject"} ->
            <<"payment", "subscription", "index", "credentials", "commit">>
      [] kind = "assign" -> <<"find", "visit", "index", "credentials", "commit">>
      [] kind = "sweep" -> <<"find", "visit", "credentials", "commit">>

EarlySync(kind) ==          \* mutant: limits are lifted before the settlement
    CASE kind \in {"paid", "failed"} ->
            <<"invoice", "subscription", "index", "payment", "credentials", "commit">>
      [] kind \in {"approve", "reject"} ->
            <<"payment", "credentials", "invoice", "subscription", "index", "commit">>
      [] kind = "assign" -> <<"find", "visit", "index", "credentials", "commit">>
      [] kind = "sweep" -> <<"find", "visit", "credentials", "commit">>

Statements(kind) ==
    CASE kind \in {"paid", "failed"} ->
            <<"invoice", "subscription", "index", "payment", "credentials", "commit">>
      [] kind \in {"approve", "reject"} ->
            <<"payment", "invoice", "subscription", "index", "credentials", "commit">>
      [] kind = "assign" -> <<"find", "visit", "index", "credentials", "commit">>
      [] kind = "sweep" -> <<"find", "visit", "credentials", "commit">>

NoOp == [kind |-> "none"]

Ops == [kind : {"paid", "failed", "approve", "reject"}, sub : Subs]
       \cup [kind : {"assign"}, org : Orgs, priced : BOOLEAN, trial : BOOLEAN, at : Nat]
       \cup [kind : {"sweep"}, at : Nat]

Tables == {"invoice", "subscription", "payment"}
Row(table, s) == <<table, s>>

SessionsTypeOK ==
    /\ TypeOK
    /\ begun \in 0 .. MaxBegun
    /\ op \in [Txs -> Ops \cup {NoOp}]
    /\ position \in [Txs -> 0 .. 6]
    /\ \A t \in Txs : op[t] # NoOp => position[t] \in 1 .. Len(Statements(op[t].kind))
    /\ held \in [Txs -> SUBSET (Tables \X Subs)]
    /\ targets \in [Txs -> SUBSET Subs]
    /\ synced \in [Txs -> SUBSET Creds]
    /\ reading \in [Lists -> 0 .. 2]
    /\ rows \in [Lists -> 0 .. MaxRows]

SessionsInit ==
    /\ Init
    /\ begun = 0
    /\ op = [t \in Txs |-> NoOp]
    /\ position = [t \in Txs |-> 0]
    /\ held = [t \in Txs |-> {}]
    /\ targets = [t \in Txs |-> {}]
    /\ synced = [t \in Txs |-> {}]
    /\ reading = [l \in Lists |-> 0]
    /\ rows = [l \in Lists |-> 0]

-----------------------------------------------------------------------------
(* Connections, locks and statements *)

At(t, statement) == op[t] # NoOp /\ Statements(op[t].kind)[position[t]] = statement

Done(t, statement) ==
    op[t] # NoOp /\ \E i \in 1 .. position[t] - 1 : Statements(op[t].kind)[i] = statement

KeptAlways ==               \* mutant: the look-up before the rows stays open
    {k \in Lists \X {1, 2} : reading[k[1]] > 0}

(* The connections of the list requests *)
Kept == {k \in Lists \X {1, 2} : k[2] <= reading[k[1]]}

Free == PoolSize - Cardinality({t \in Txs : op[t] # NoOp}) - Cardinality(Kept)

Settles(t) == op[t].kind \in {"paid", "failed", "approve", "reject"}

(* The organization whose live subscription t settles or assigns *)
OrgOf(t) == IF Settles(t) THEN subOrg[op[t].sub] ELSE op[t].org

(* WHERE of the UPDATE that cancels, and of the one that expires *)
Matches(t, s) ==
    IF op[t].kind = "assign"
    THEN s \in LiveSubsOf(op[t].org)
    ELSE subStatus[s] \in {"trialing", "active", "past_due"} /\ periodEnd[s] < op[t].at

NextTarget(t) == CHOOSE s \in targets[t] : \A r \in targets[t] : s <= r

(* The rows that the current statement of t waits for and locks *)
Wants(t) ==
    CASE At(t, "invoice") -> {Row("invoice", op[t].sub)}
      [] At(t, "subscription") -> {Row("subscription", op[t].sub)}
      [] At(t, "payment") ->
            IF op[t].kind \in {"approve", "reject"} \/ payment[op[t].sub] = "pending"
            THEN {Row("payment", op[t].sub)} ELSE {}
      [] At(t, "visit") ->
            IF targets[t] = {} THEN {} ELSE {Row("subscription", NextTarget(t))}
      [] OTHER -> {}

(* t has changed the entry of organization o in the unique index *)
InIndex(t, o) ==
    \/ \E s \in LiveSubsOf(o) : Row("subscription", s) \in held[t]
    \/ Done(t, "index") /\ OrgOf(t) = o

NewStatus(t) ==
    CASE op[t].kind \in {"paid", "approve"} -> "active"
      [] op[t].kind \in {"failed", "reject"} -> "past_due"
      [] op[t].kind = "sweep" -> "expired"
      [] op[t].kind = "assign" -> IF op[t].trial THEN "trialing"
                                  ELSE IF op[t].priced THEN "past_due" ELSE "active"

(* The organizations whose credentials t synchronises *)
OrgsOf(t) ==
    IF op[t].kind = "sweep"
    THEN {subOrg[s] : s \in {r \in Subs : Row("subscription", r) \in held[t]}}
    ELSE {OrgOf(t)}

CredentialsOf(t) == SyncedCredentials(OrgsOf(t), NewStatus(t))

WaitsFor(t) ==
    {u \in Txs \ {t} :
        \/ Wants(t) \cap held[u] # {}
        \/ At(t, "index") /\ InIndex(u, OrgOf(t))
        \/ At(t, "credentials") /\ CredentialsOf(t) \cap synced[u] # {}}

-----------------------------------------------------------------------------
(* One step of a transaction *)

tables == vars
lists == <<reading, rows>>
rest == <<begun, reading, rows>>

Continue(t) == position' = [position EXCEPT ![t] = @ + 1]

(* COMMIT or ROLLBACK: the locks and the connection are released.          *)
End(t) ==
    /\ op' = [op EXCEPT ![t] = NoOp]
    /\ position' = [position EXCEPT ![t] = 0]
    /\ held' = [held EXCEPT ![t] = {}]
    /\ targets' = [targets EXCEPT ![t] = {}]
    /\ synced' = [synced EXCEPT ![t] = {}]
    /\ UNCHANGED rest

(* BEGIN, once there is a connection.  The SELECT of a settlement finds    *)
(* its row, which is never deleted.                                        *)
BeginTx(t, o) ==
    /\ op[t] = NoOp
    /\ begun < MaxBegun
    /\ begun' = begun + 1
    /\ Free > 0
    /\ op' = [op EXCEPT ![t] = o]
    /\ position' = [position EXCEPT ![t] = 1]
    /\ UNCHANGED <<tables, held, targets, synced, lists>>

BeginSettlement(t, kind, s) == invoice[s] # "none" /\ BeginTx(t, [kind |-> kind, sub |-> s])

BeginAssign(t, o, priced, trial) ==
    /\ created + Cardinality({u \in Txs : op[u].kind = "assign"}) < MaxSubs
    /\ BeginTx(t, [kind |-> "assign", org |-> o, priced |-> priced, trial |-> trial, at |-> 0])

BeginSweep(t) == BeginTx(t, [kind |-> "sweep", at |-> now])

(* An UPDATE of one row by its id, or of the pending payment of an invoice *)
UpdateRow(t) ==
    /\ \E table \in Tables : At(t, table)
    /\ WaitsFor(t) = {}
    /\ held' = [held EXCEPT ![t] = @ \cup Wants(t)]
    /\ Continue(t)
    /\ UNCHANGED <<tables, op, targets, synced, rest>>

(* An UPDATE of several subscriptions: what it sees when it starts ...     *)
FindSubscriptions(t) ==
    /\ At(t, "find")
    /\ targets' = [targets EXCEPT ![t] = {s \in Subs : Matches(t, s)}]
    /\ Continue(t)
    /\ UNCHANGED <<tables, op, held, synced, rest>>

(* ... and each of those, looked at again once it is free *)
VisitUnchecked(t) ==        \* mutant: expires or cancels what it found before
    /\ At(t, "visit")
    /\ WaitsFor(t) = {}
    /\ IF targets[t] = {}
       THEN Continue(t) /\ UNCHANGED <<held, targets>>
       ELSE /\ held' = [held EXCEPT ![t] = @ \cup Wants(t)]
            /\ targets' = [targets EXCEPT ![t] = @ \ {NextTarget(t)}]
            /\ UNCHANGED position
    /\ UNCHANGED <<tables, op, synced, rest>>

VisitSubscription(t) ==
    /\ At(t, "visit")
    /\ WaitsFor(t) = {}
    /\ IF targets[t] = {}
       THEN Continue(t) /\ UNCHANGED <<held, targets>>
       ELSE /\ held' = IF Matches(t, NextTarget(t))
                       THEN [held EXCEPT ![t] = @ \cup Wants(t)]
                       ELSE held
            /\ targets' = [targets EXCEPT ![t] = @ \ {NextTarget(t)}]
            /\ UNCHANGED position
    /\ UNCHANGED <<tables, op, synced, rest>>

(* The row that becomes live enters the unique index, or another live one  *)
(* is there and the statement fails.                                       *)
EnterIndex(t) ==
    /\ At(t, "index")
    /\ WaitsFor(t) = {}
    /\ IF \A s \in LiveSubsOf(OrgOf(t)) : Row("subscription", s) \in held[t]
       THEN /\ Continue(t)
            /\ op' = IF op[t].kind = "assign" THEN [op EXCEPT ![t].at = now] ELSE op
            /\ UNCHANGED <<held, targets, synced, rest>>
       ELSE End(t)
    /\ UNCHANGED tables

SyncCredentials(t) ==
    /\ At(t, "credentials")
    /\ WaitsFor(t) = {}
    /\ synced' = [synced EXCEPT ![t] = CredentialsOf(t)]
    /\ Continue(t)
    /\ UNCHANGED <<tables, op, held, targets, rest>>

-----------------------------------------------------------------------------
(* COMMIT: what the transaction has written becomes visible *)

WriteCredentials(t) ==
    LET restrict == NewStatus(t) \in RestrictingStatuses
    IN  /\ limited' = [c \in Creds |-> IF c \in synced[t] THEN restrict ELSE limited[c]]
        /\ limitReason' = [c \in Creds |->
                              IF c \notin synced[t] THEN limitReason[c]
                              ELSE IF restrict THEN BillingReason(NewStatus(t)) ELSE NoReason]
        /\ exempt' = IF restrict THEN exempt \ synced[t] ELSE exempt
        /\ UNCHANGED <<now, credOrg, creating>>

InvoiceAfter(kind) == IF kind \in {"paid", "approve"} THEN "paid" ELSE "failed"

PaymentVoidAfter(kind) ==   \* mutant: a status the table does not know
    CASE kind \in {"paid", "approve"} -> "approved"
      [] kind = "failed" -> "void"
      [] kind = "reject" -> "rejected"

PaymentAfter(kind) == CASE kind \in {"paid", "approve"} -> "approved"
                        [] kind = "failed" -> "failed"
                        [] kind = "reject" -> "rejected"

CommitSettlement(t) ==
    LET s == op[t].sub
    IN  /\ Settles(t)
        /\ invoice' = IF Row("invoice", s) \in held[t]
                      THEN [invoice EXCEPT ![s] = InvoiceAfter(op[t].kind)]
                      ELSE invoice
        /\ payment' = IF Row("payment", s) \in held[t]
                      THEN [payment EXCEPT ![s] = PaymentAfter(op[t].kind)]
                      ELSE payment
        /\ subStatus' = [subStatus EXCEPT ![s] = NewStatus(t)]
        /\ UNCHANGED <<created, subOrg, periodEnd>>

CommitAssign(t) ==
    LET s == created + 1
        billed == op[t].priced /\ ~op[t].trial
    IN  /\ op[t].kind = "assign"
        /\ created' = s
        /\ subOrg' = [subOrg EXCEPT ![s] = op[t].org]
        /\ subStatus' = [r \in Subs |-> IF r = s THEN NewStatus(t)
                                        ELSE IF Row("subscription", r) \in held[t] THEN "canceled"
                                        ELSE subStatus[r]]
        /\ periodEnd' = [periodEnd EXCEPT ![s] =
                            op[t].at + (IF op[t].trial THEN TrialPeriod ELSE Period)]
        /\ invoice' = [invoice EXCEPT ![s] = IF billed THEN "issued" ELSE "none"]
        /\ payment' = [payment EXCEPT ![s] = IF billed THEN "pending" ELSE "none"]

CommitSweep(t) ==
    /\ op[t].kind = "sweep"
    /\ subStatus' = [s \in Subs |-> IF Row("subscription", s) \in held[t] THEN "expired"
                                    ELSE subStatus[s]]
    /\ UNCHANGED <<created, subOrg, periodEnd, invVars>>

Commit(t) ==
    /\ At(t, "commit")
    /\ CommitSettlement(t) \/ CommitAssign(t) \/ CommitSweep(t)
    /\ WriteCredentials(t)
    /\ End(t)

(* The transaction is rolled back: the request was canceled, the           *)
(* connection was lost.                                                    *)
Rollback(t) ==
    /\ op[t] # NoOp
    /\ End(t)
    /\ UNCHANGED tables

(* Transactions that wait for each other in a circle *)
Stuck(S) == S # {} /\ \A t \in S : WaitsFor(t) \cap S # {}
Deadlock(S) == Stuck(S) /\ \A R \in SUBSET S : Stuck(R) => R = S

AbortDeadlocked(t) ==
    /\ \E S \in SUBSET Txs : t \in S /\ Deadlock(S)
    /\ End(t)
    /\ UNCHANGED tables

-----------------------------------------------------------------------------
(* The other users of the tables and of the pool *)

(* Each is one statement; an administrator's waits for the rows it changes. *)
OtherStatement ==
    /\ \/ \E c \in Creds, o \in Orgs : CheckCredentialCreate(c, o)
       \/ \E c \in Creds : InsertCredential(c)
       \/ \E c \in Creds, limit \in BOOLEAN, r \in AdminReasons \cup {NoReason} :
              /\ \A t \in Txs : c \notin synced[t]
              /\ SetCredentialLimited(c, limit, r)
       \/ Tick
    /\ UNCHANGED sessionVars

(* credentials.List, domains.List and RecheckAllDomains keep the connection *)
(* of their rows and query about each of them on another one; so does      *)
(* loadAuthorizedCredential about its one row.                             *)
OpenRows(l) ==
    /\ reading[l] = 0
    /\ Free > 0
    /\ reading' = [reading EXCEPT ![l] = 1]
    /\ \E n \in 0 .. MaxRows : rows' = [rows EXCEPT ![l] = n]
    /\ UNCHANGED <<tables, begun, op, position, held, targets, synced>>

QueryRow(l) ==
    /\ reading[l] = 1 /\ rows[l] > 0
    /\ Free > 0
    /\ reading' = [reading EXCEPT ![l] = 2]
    /\ UNCHANGED <<tables, begun, op, position, held, targets, synced, rows>>

EndQuery(l) ==
    /\ reading[l] = 2
    /\ reading' = [reading EXCEPT ![l] = 1]
    /\ rows' = [rows EXCEPT ![l] = @ - 1]
    /\ UNCHANGED <<tables, begun, op, position, held, targets, synced>>

CloseRows(l) ==
    /\ reading[l] = 1 /\ rows[l] = 0
    /\ reading' = [reading EXCEPT ![l] = 0]
    /\ UNCHANGED <<tables, begun, op, position, held, targets, synced, rows>>

Run(t) ==
    \/ UpdateRow(t)
    \/ FindSubscriptions(t)
    \/ VisitSubscription(t)
    \/ EnterIndex(t)
    \/ SyncCredentials(t)
    \/ Commit(t)

Read(l) == QueryRow(l) \/ EndQuery(l) \/ CloseRows(l)

SessionsNext ==
    \/ \E t \in Txs, s \in Subs :
           \E kind \in {"paid", "failed", "approve", "reject"} : BeginSettlement(t, kind, s)
    \/ \E t \in Txs, o \in Orgs, offer \in Offers : BeginAssign(t, o, offer[1], offer[2])
    \/ \E t \in Txs : BeginSweep(t) \/ Run(t) \/ Rollback(t) \/ AbortDeadlocked(t)
    \/ \E l \in Lists : OpenRows(l) \/ Read(l)
    \/ OtherStatement

allVars == <<vars, sessionVars>>

SessionsSpec == SessionsInit /\ [][SessionsNext]_allVars

-----------------------------------------------------------------------------
(* Properties, besides those of Billing on the committed tables *)

(* Transactions wait for each other in a circle only around a settlement.  *)
(* transitionInvoice locks invoice, subscription, payment and              *)
(* transitionPayment payment, invoice, subscription: two requests that     *)
(* settle one invoice by its two handles may deadlock.  Otherwise a        *)
(* settlement of a subscription that is no longer live waits for a sweep   *)
(* that has locked the live one, while another sweep, which had found the  *)
(* settled one live, waits for the settlement.  Assignments and sweeps     *)
(* never deadlock among themselves.  (PostgreSQL is taken to visit the     *)
(* rows of one UPDATE in one order; sweeps that visit several              *)
(* organizations in different orders could deadlock as well.)              *)
OnlySettlementsDeadlock ==
    \A S \in SUBSET Txs : Deadlock(S) =>
        \/ \E t, u \in Txs : /\ S = {t, u}
                             /\ op[t].kind \in {"paid", "failed"}
                             /\ op[u].kind \in {"approve", "reject"}
                             /\ op[t].sub = op[u].sub
        \/ \E t, u, v \in S : /\ Settles(t)
                              /\ subStatus[op[t].sub] \notin LiveStatuses
                              /\ op[u].kind = "sweep" /\ op[v].kind = "sweep" /\ u # v
                              /\ u \in WaitsFor(t)
                              /\ t \in WaitsFor(v)

(* While fewer list requests run than the pool has connections, requests   *)
(* are never all waiting for each other, be it for rows or for             *)
(* connections: whenever some are unfinished one of them can take a step,  *)
(* or PostgreSQL can end a deadlock.                                       *)
SomeoneProceeds ==
    (\E t \in Txs : op[t] # NoOp) \/ (\E l \in Lists : reading[l] > 0) =>
        \/ \E t \in Txs : op[t] # NoOp /\ WaitsFor(t) = {}
        \/ \E S \in SUBSET Txs : Deadlock(S)
        \/ \E l \in Lists : \/ reading[l] = 2
                            \/ reading[l] = 1 /\ (rows[l] = 0 \/ Free > 0)

(* The transactions that have reserved the credentials of their            *)
(* organizations, as the changes of standing of StandingMoves              *)
Syncs == {t \in Txs : Done(t, "credentials") /\ OrgsOf(t) # {}}
MoveOf(t) == [orgs |-> OrgsOf(t), to |-> NewStatus(t), creds |-> synced[t]]
MovesOnTheirWay == {MoveOf(t) : t \in Syncs}

Moves == INSTANCE StandingMoves WITH
            standing <- [o \in Orgs |-> Standing(o)],
            owner    <- credOrg,
            lock     <- [c \in Creds |-> LockOf(c)],
            moves    <- MovesOnTheirWay

(* Interleaved transactions implement StandingMoves: no two of them are    *)
(* about to move one organization; the COMMIT of one moves its             *)
(* organizations and every credential that its sync found in another state *)
(* in one step, and nothing of any other organization; one that is rolled  *)
(* back moves nothing; and nobody changes a reserved credential before.    *)
ImplementsMoves == Moves!MovesSpec
=============================================================================
