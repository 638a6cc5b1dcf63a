----------------------------- MODULE CreditLedger -----------------------------
(***************************************************************************)
(* The prepaid credit balance of an organisation: the credit_balances row  *)
(* in Postgres and the database sessions that read and write it.           *)
(*                                                                         *)
(*   meter    BillingService.meter            charge a finished request    *)
(*   credit   StripeClient._credit_org        apply a Stripe top-up        *)
(*   balance  CreditRepository.get_for_update GET /balance and ValidateKey *)
(*                                                                         *)
(* One action is one SQL statement (or the commit) of one session, so the  *)
(* sessions interleave the way READ COMMITTED transactions do.  `reserved` *)
(* is not modelled: nothing in the program calls reserve or settle, the    *)
(* column keeps its default 0.  Amounts are whole units of 1e-6 USD.       *)
(***************************************************************************)
EXTENDS Integers

CONSTANTS
    Orgs,          \* organisations, each with its row in `organizations`
    NoOrg,         \* the organisation of an event whose metadata names none
    Txns,          \* database sessions; a slot is reused when it is idle again
    NoTxn,         \* the owner of a row lock that is free
    Events,        \* payment_intent.succeeded events Stripe emits
    NoEvent,       \* the event of a session that handles no webhook
    OrgOf,         \* Events -> Orgs or NoOrg, metadata.org_id
    AmountOf,      \* Events -> Nat, the amount of the intent
    Costs,         \* costs a metered request can have; 0 is a cache hit
    MaxRedeliveries, \* bound: deliveries of events Stripe already saw acknowledged
    MaxFailures      \* bound: crashes, dropped connections and lost replies

ASSUME LedgerAssumption ==
    /\ Orgs # {}
    /\ NoOrg \notin Orgs
    /\ NoTxn \notin Txns
    /\ NoEvent \notin Events
    /\ OrgOf \in [Events -> Orgs \cup {NoOrg}]
    /\ AmountOf \in [Events -> Nat]
    /\ Costs \subseteq Nat
    /\ MaxRedeliveries \in Nat
    /\ MaxFailures \in Nat

VARIABLES
    rows,        \* organisations that have a committed credit_balances row
    available,   \* the committed `available` column (0 without a row)
    lock,        \* the session that holds the row lock, or the uncommitted key
    billed,      \* sum of cost_usd over the committed usage_records
    credited,    \* history: sum of the top-ups committed to the balance
    pc,          \* the next statement of each session
    job,         \* what each session works on
    pending,     \* the value a session has staged for `available`
    acked,       \* events Stripe has a 200 for
    applied,     \* how many commits applied each event
    redelivered, \* redeliveries of acknowledged events so far
    failures     \* injected failures so far

dbVars     == <<rows, available, billed, credited>>
stripeVars == <<acked, applied, redelivered>>
vars == <<rows, available, billed, credited, lock, pc, job, pending,
          acked, applied, redelivered, failures>>

-----------------------------------------------------------------------------
Statements == {"idle", "deduct", "record", "meter_commit",
               "select", "insert", "credit_commit", "reply",
               "get", "create", "close"}

Job == [org: Orgs \cup {NoOrg}, amount: Nat, event: Events \cup {NoEvent}]

\* The content of a session slot that is not in use.
NoJob == [org |-> NoOrg, amount |-> 0, event |-> NoEvent]

TypeOK ==
    /\ rows \subseteq Orgs
    /\ available \in [Orgs -> Nat]
    /\ lock \in [Orgs -> Txns \cup {NoTxn}]
    /\ billed \in [Orgs -> Nat]
    /\ credited \in [Orgs -> Nat]
    /\ pc \in [Txns -> Statements]
    /\ job \in [Txns -> Job]
    /\ pending \in [Txns -> Nat]
    /\ acked \subseteq Events
    /\ applied \in [Events -> Nat]
    /\ redelivered \in 0..MaxRedeliveries
    /\ failures \in 0..MaxFailures

Init ==
    /\ rows = {}
    /\ available = [o \in Orgs |-> 0]
    /\ lock = [o \in Orgs |-> NoTxn]
    /\ billed = [o \in Orgs |-> 0]
    /\ credited = [o \in Orgs |-> 0]
    /\ pc = [t \in Txns |-> "idle"]
    /\ job = [t \in Txns |-> NoJob]
    /\ pending = [t \in Txns |-> 0]
    /\ acked = {}
    /\ applied = [e \in Events |-> 0]
    /\ redelivered = 0
    /\ failures = 0

-----------------------------------------------------------------------------
(* What every session does with its transaction.                           *)

OrgOfJob(t) == job[t].org

Goto(t, from, to) ==
    /\ pc[t] = from
    /\ pc' = [pc EXCEPT ![t] = to]

\* The session opens; every field of the job it works on is set.
Begin(t, first, o, amount, e) ==
    /\ Goto(t, "idle", first)
    /\ job' = [job EXCEPT ![t] = [org |-> o, amount |-> amount, event |-> e]]
    /\ UNCHANGED <<lock, pending>>
    /\ UNCHANGED dbVars

LockRow(t) ==
    /\ lock[OrgOfJob(t)] = NoTxn
    /\ lock' = [lock EXCEPT ![OrgOfJob(t)] = t]

\* End of the transaction, committed or not: Postgres drops its row locks.
ReleaseLocks(t) == lock' = [o \in Orgs |-> IF lock[o] = t THEN NoTxn ELSE lock[o]]

\* The session slot is free again.
Close(t) ==
    /\ pc' = [pc EXCEPT ![t] = "idle"]
    /\ job' = [job EXCEPT ![t] = NoJob]
    /\ pending' = [pending EXCEPT ![t] = 0]

\* The staged value becomes the row.
WriteRow(t) ==
    /\ rows' = rows \cup {OrgOfJob(t)}
    /\ available' = [available EXCEPT ![OrgOfJob(t)] = pending[t]]

\* __aexit__ with an exception, close() without commit(), a dropped
\* connection or a dead process: the staged writes disappear.
Abandon(t) ==
    /\ Close(t)
    /\ ReleaseLocks(t)
    /\ UNCHANGED dbVars

-----------------------------------------------------------------------------
(* Slips the properties are there to catch; no action below uses them.     *)

\* The WHERE clause loses its balance condition.
MeterDeductUnguarded(t) ==
    LET o == OrgOfJob(t) IN
    /\ Goto(t, "deduct", "record")
    /\ o \in rows
    /\ LockRow(t)
    /\ pending' = [pending EXCEPT ![t] = available[o] - job[t].amount]
    /\ UNCHANGED <<job, failures>>
    /\ UNCHANGED dbVars
    /\ UNCHANGED stripeVars

\* The deduction is committed before the usage record is flushed.
MeterRecordAfterCommit(t) ==
    /\ Goto(t, "record", "meter_commit")
    /\ IF job[t].amount > 0 THEN WriteRow(t) ELSE UNCHANGED <<rows, available>>
    /\ UNCHANGED <<lock, billed, credited, job, pending, failures>>
    /\ UNCHANGED stripeVars

\* session.get without with_for_update.
CreditSelectUnlocked(t) ==
    LET o == OrgOfJob(t) IN
    /\ Goto(t, "select", "credit_commit")
    /\ o \in rows
    /\ pending' = [pending EXCEPT ![t] = available[o] + job[t].amount]
    /\ UNCHANGED <<lock, job, failures>>
    /\ UNCHANGED dbVars
    /\ UNCHANGED stripeVars

\* The duplicate key is taken for an event that was already applied.
CreditInsertConflictSwallowed(t) ==
    /\ Goto(t, "insert", "reply")
    /\ OrgOfJob(t) \in rows
    /\ UNCHANGED <<lock, job, pending, failures>>
    /\ UNCHANGED dbVars
    /\ UNCHANGED stripeVars

\* The session is dropped without close(): its connection keeps the lock.
BalanceCloseLeaks(t) ==
    /\ pc[t] = "close"
    /\ Close(t)
    /\ UNCHANGED <<lock, failures>>
    /\ UNCHANGED dbVars
    /\ UNCHANGED stripeVars

-----------------------------------------------------------------------------
(* BillingService.meter: deduct, add the usage record, commit.             *)

\* A cache hit costs nothing and skips the deduction.
MeterBegin(t) ==
    /\ \E o \in Orgs, c \in Costs :
          Begin(t, IF c > 0 THEN "deduct" ELSE "record", o, c, NoEvent)
    /\ UNCHANGED stripeVars
    /\ UNCHANGED failures

\* UPDATE ... WHERE available >= amount.  The statement waits for the row
\* lock and decides on the newest committed row.
MeterDeduct(t) ==
    LET o == OrgOfJob(t) IN
    /\ Goto(t, "deduct", "record")
    /\ o \in rows
    /\ available[o] >= job[t].amount
    /\ LockRow(t)
    /\ pending' = [pending EXCEPT ![t] = available[o] - job[t].amount]
    /\ UNCHANGED <<job, failures>>
    /\ UNCHANGED dbVars
    /\ UNCHANGED stripeVars

\* rowcount = 0: InsufficientCredits, rolled back by __aexit__.
MeterInsufficient(t) ==
    LET o == OrgOfJob(t) IN
    /\ pc[t] = "deduct"
    /\ o \notin rows \/ available[o] < job[t].amount
    /\ Abandon(t)
    /\ UNCHANGED stripeVars
    /\ UNCHANGED failures

\* usage.add flushes the INSERT; the record is not visible before the commit.
MeterRecord(t) ==
    /\ Goto(t, "record", "meter_commit")
    /\ UNCHANGED <<lock, job, pending, failures>>
    /\ UNCHANGED dbVars
    /\ UNCHANGED stripeVars

\* The deduction and the usage record become visible together.
MeterCommit(t) ==
    LET o == OrgOfJob(t) IN
    /\ pc[t] = "meter_commit"
    /\ IF job[t].amount > 0 THEN WriteRow(t) ELSE UNCHANGED <<rows, available>>
    /\ billed' = [billed EXCEPT ![o] = @ + job[t].amount]
    /\ Close(t)
    /\ ReleaseLocks(t)
    /\ UNCHANGED <<credited, failures>>
    /\ UNCHANGED stripeVars

-----------------------------------------------------------------------------
(* Stripe delivers an event to POST /webhooks/stripe; _credit_org.         *)

\* An event whose metadata names no organisation is dropped with a warning:
\* no statement runs and the handler returns to the 200 of the route.  (An
\* org_id that is no UUID, or of no organisation, raises: a 500 and no change.)
FirstStatement(e) == IF OrgOf[e] = NoOrg THEN "reply" ELSE "select"

\* Stripe retries what it has no 200 for (also while an earlier attempt is
\* still running) and may redeliver an event it has a 200 for.
Deliver(t, e) ==
    /\ Begin(t, FirstStatement(e), OrgOf[e], AmountOf[e], e)
    /\ IF e \in acked
       THEN /\ redelivered < MaxRedeliveries
            /\ redelivered' = redelivered + 1
       ELSE UNCHANGED redelivered
    /\ UNCHANGED <<acked, applied, failures>>

\* session.get(..., with_for_update=True) finds the row, locks it, and the
\* new value is computed from what was read.
CreditSelect(t) ==
    LET o == OrgOfJob(t) IN
    /\ Goto(t, "select", "credit_commit")
    /\ o \in rows
    /\ LockRow(t)
    /\ pending' = [pending EXCEPT ![t] = available[o] + job[t].amount]
    /\ UNCHANGED <<job, failures>>
    /\ UNCHANGED dbVars
    /\ UNCHANGED stripeVars

\* No row: nothing is locked, a new object is added to the session.
CreditSelectMissing(t) ==
    /\ Goto(t, "select", "insert")
    /\ OrgOfJob(t) \notin rows
    /\ pending' = [pending EXCEPT ![t] = job[t].amount]
    /\ UNCHANGED <<lock, job, failures>>
    /\ UNCHANGED dbVars
    /\ UNCHANGED stripeVars

\* The INSERT of the flush waits for another session's uncommitted key.
CreditInsert(t) ==
    /\ Goto(t, "insert", "credit_commit")
    /\ OrgOfJob(t) \notin rows
    /\ LockRow(t)
    /\ UNCHANGED <<job, pending, failures>>
    /\ UNCHANGED dbVars
    /\ UNCHANGED stripeVars

\* Another session committed the row first: IntegrityError, a 500 for Stripe.
CreditInsertConflict(t) ==
    /\ pc[t] = "insert"
    /\ OrgOfJob(t) \in rows
    /\ Abandon(t)
    /\ UNCHANGED stripeVars
    /\ UNCHANGED failures

CreditCommit(t) ==
    /\ Goto(t, "credit_commit", "reply")
    /\ WriteRow(t)
    /\ credited' = [credited EXCEPT ![OrgOfJob(t)] = @ + job[t].amount]
    /\ applied' = [applied EXCEPT ![job[t].event] = @ + 1]
    /\ ReleaseLocks(t)
    /\ UNCHANGED <<billed, job, pending, acked, redelivered, failures>>

\* {"received": true} reaches Stripe.
Reply(t) ==
    /\ pc[t] = "reply"
    /\ acked' = acked \cup {job[t].event}
    /\ Close(t)
    /\ UNCHANGED <<lock, applied, redelivered, failures>>
    /\ UNCHANGED dbVars

-----------------------------------------------------------------------------
(* get_for_update outside a commit: GET /balance and ValidateKey.          *)

BalanceBegin(t) ==
    /\ \E o \in Orgs : Begin(t, "get", o, 0, NoEvent)
    /\ UNCHANGED stripeVars
    /\ UNCHANGED failures

BalanceGet(t) ==
    LET o == OrgOfJob(t) IN
    /\ IF o \in rows
       THEN Goto(t, "get", "close") /\ LockRow(t)
       ELSE Goto(t, "get", "create") /\ UNCHANGED lock
    /\ UNCHANGED <<job, pending, failures>>
    /\ UNCHANGED dbVars
    /\ UNCHANGED stripeVars

\* add + flush of a zero row; it stays uncommitted.
BalanceCreate(t) ==
    /\ Goto(t, "create", "close")
    /\ OrgOfJob(t) \notin rows
    /\ LockRow(t)
    /\ UNCHANGED <<job, pending, failures>>
    /\ UNCHANGED dbVars
    /\ UNCHANGED stripeVars

BalanceCreateConflict(t) ==
    /\ pc[t] = "create"
    /\ OrgOfJob(t) \in rows
    /\ Abandon(t)
    /\ UNCHANGED stripeVars
    /\ UNCHANGED failures

\* Both callers leave the `async with` without commit().
BalanceClose(t) ==
    /\ pc[t] = "close"
    /\ Abandon(t)
    /\ UNCHANGED stripeVars
    /\ UNCHANGED failures

-----------------------------------------------------------------------------
\* The session dies at any statement, or the 200 never reaches Stripe.
Fail(t) ==
    /\ pc[t] # "idle"
    /\ failures < MaxFailures
    /\ failures' = failures + 1
    /\ Abandon(t)
    /\ UNCHANGED stripeVars

Meter(t) == MeterBegin(t) \/ MeterDeduct(t) \/ MeterInsufficient(t)
                \/ MeterRecord(t) \/ MeterCommit(t)

Credit(t) == CreditSelect(t) \/ CreditSelectMissing(t) \/ CreditInsert(t)
                \/ CreditInsertConflict(t) \/ CreditCommit(t) \/ Reply(t)

Balance(t) == BalanceBegin(t) \/ BalanceGet(t) \/ BalanceCreate(t)
                \/ BalanceCreateConflict(t) \/ BalanceClose(t)

Next ==
    \E t \in Txns :
        \/ Meter(t)
        \/ \E e \in Events : Deliver(t, e)
        \/ Credit(t)
        \/ Balance(t)
        \/ Fail(t)

Spec == Init /\ [][Next]_vars

-----------------------------------------------------------------------------
(* Fairness.  An open session keeps executing (its coroutine is scheduled); *)
(* a statement that waits for a row lock gets it (Postgres queues waiters)  *)
(* and Stripe retries an event until it has a 200.                          *)

Step(t) == MeterRecord(t) \/ MeterCommit(t) \/ CreditCommit(t) \/ Reply(t)
              \/ BalanceClose(t)

WaitingStep(t) == \/ MeterDeduct(t) \/ MeterInsufficient(t)
                  \/ CreditSelect(t) \/ CreditSelectMissing(t)
                  \/ CreditInsert(t) \/ CreditInsertConflict(t)
                  \/ BalanceGet(t) \/ BalanceCreate(t) \/ BalanceCreateConflict(t)

Retry(e) == e \notin acked /\ \E t \in Txns : Deliver(t, e)

Fairness ==
    /\ \A t \in Txns : WF_vars(Step(t)) /\ SF_vars(WaitingStep(t))
    /\ \A e \in Events : SF_vars(Retry(e))

FairSpec == Spec /\ Fairness

-----------------------------------------------------------------------------
(* Properties.                                                             *)

\* Concurrent charges never spend more than was paid in: the condition
\* WHERE available >= amount of deduct_atomic decides on the locked row.
NoOverspend == \A o \in Orgs : billed[o] <= credited[o]

\* No charge or top-up is lost or half done, whatever the interleaving and
\* wherever sessions die: what is left plus what usage_records bill is what
\* Stripe paid in.
Conservation == \A o \in Orgs : available[o] + billed[o] = credited[o]

\* Stripe is told "received" about a payment of an organisation only when it is
\* in the balance, so its retries stop only when the credit cannot be lost any
\* more.  An event that names no organisation is acknowledged too, and never
\* credited to anybody.
AckedIsApplied ==
    /\ \A e \in acked : OrgOf[e] # NoOrg => applied[e] > 0
    /\ \A e \in Events : OrgOf[e] = NoOrg => applied[e] = 0

\* The inductive strengthening of the three invariants above.
MeterHolds(t) == pc[t] \in {"record", "meter_commit"} /\ job[t].amount > 0

Holds(t) == MeterHolds(t) \/ pc[t] \in {"credit_commit", "close"}

\* A row lock has one owner, and that owner is inside its transaction.
LockDiscipline ==
    \A t \in Txns, o \in Orgs : lock[o] = t <=> Holds(t) /\ OrgOfJob(t) = o

\* What a session has staged is still right when it is written.
Staged(t) ==
    /\ MeterHolds(t) =>
          /\ OrgOfJob(t) \in rows
          /\ job[t].amount <= available[OrgOfJob(t)]
          /\ pending[t] = available[OrgOfJob(t)] - job[t].amount
    /\ pc[t] = "insert" => pending[t] = job[t].amount
    /\ pc[t] = "credit_commit" =>
          pending[t] = available[OrgOfJob(t)] + job[t].amount

StagedIsCurrent ==
    /\ \A t \in Txns : Staged(t)
    /\ \A o \in Orgs \ rows : available[o] = 0

\* Every statement runs with the job its session was opened for.
CreditStatements == {"select", "insert", "credit_commit", "reply"}

JobOfStatement ==
    \A t \in Txns :
        /\ pc[t] \in CreditStatements =>
              /\ job[t].event \in Events
              /\ job[t].amount = AmountOf[job[t].event]
              /\ job[t].org = OrgOf[job[t].event]
        /\ pc[t] \notin {"idle", "reply"} => job[t].org \in Orgs
        /\ pc[t] = "reply" => job[t].org = NoOrg \/ applied[job[t].event] > 0
        /\ pc[t] \in {"deduct", "record", "meter_commit"} => job[t].amount \in Costs
        /\ pc[t] = "deduct" => job[t].amount > 0

LedgerInv ==
    /\ TypeOK
    /\ LockDiscipline
    /\ StagedIsCurrent
    /\ JobOfStatement
    /\ NoOverspend
    /\ Conservation
    /\ AckedIsApplied

\* Seen through its committed columns the balance is the indivisible ledger:
\* every commit of every session is one TopUp or one Charge.
Ledger == INSTANCE Ledger WITH
    Accounts <- Orgs, TopUps <- {AmountOf[e] : e \in Events}, Charges <- Costs,
    balance <- available, spent <- billed, received <- credited

ImplementsLedger == Ledger!LedgerSpec

\* The docstring of handle_webhook, "Idempotent - Stripe may redeliver": an
\* event is credited once however often it is delivered.
CreditedOnce == \A e \in Events : applied[e] <= 1

\* A payment that names its organisation is credited in the end although first
\* top-ups collide on the primary key, sessions die and replies get lost.
EveryPaymentCredited == \A e \in Events : OrgOf[e] # NoOrg => <>(applied[e] > 0)
=============================================================================
