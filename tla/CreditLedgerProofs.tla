-------------------------- MODULE CreditLedgerProofs --------------------------
(***************************************************************************)
(* Theorems about CreditLedger for every set of organisations, sessions    *)
(* and events, every assignment of amounts and costs, and every bound on   *)
(* redeliveries and failures.                                              *)
(***************************************************************************)
EXTENDS CreditLedger, TLAPS

LEMMA NoJobType == NoJob \in Job
  BY LedgerAssumption DEF NoJob, Job

\* Closing a session touches only its own slot.
LEMMA InitType == Init => TypeOK
  BY LedgerAssumption, NoJobType DEF Init, TypeOK, Statements

\* Every statement of every session keeps the variables in their types; in
\* particular the staged value of MeterDeduct stays a natural number because
\* of the balance condition of deduct_atomic.
LEMMA TypeStep == TypeOK /\ JobOfStatement /\ [Next]_vars => TypeOK'
<1> SUFFICES ASSUME TypeOK, JobOfStatement, [Next]_vars PROVE TypeOK'
  OBVIOUS
<1> USE LedgerAssumption, NoJobType
    DEF TypeOK, Statements, Job, dbVars, stripeVars, vars, OrgOfJob, Goto,
        Begin, LockRow, ReleaseLocks, Close, WriteRow, Abandon
<1>1. ASSUME NEW t \in Txns, Meter(t) PROVE TypeOK'
  <2>1. CASE MeterBegin(t)         BY <2>1 DEF MeterBegin
  <2>2. CASE MeterDeduct(t)        BY <2>2 DEF MeterDeduct
  <2>3. CASE MeterInsufficient(t)  BY <2>3 DEF MeterInsufficient
  <2>4. CASE MeterRecord(t)        BY <2>4 DEF MeterRecord
  <2>5. CASE MeterCommit(t)
    <3>1. OrgOfJob(t) \in Orgs
      BY <2>5 DEF MeterCommit, JobOfStatement
    <3>2. rows' \subseteq Orgs /\ available' \in [Orgs -> Nat] /\ billed' \in [Orgs -> Nat]
      BY <2>5, <3>1 DEF MeterCommit
    <3> QED  BY <2>5, <3>2 DEF MeterCommit
  <2> QED  BY <1>1, <2>1, <2>2, <2>3, <2>4, <2>5 DEF Meter
<1>2. ASSUME NEW t \in Txns, NEW e \in Events, Deliver(t, e) PROVE TypeOK'
  BY <1>2 DEF Deliver, FirstStatement
<1>3. ASSUME NEW t \in Txns, Credit(t) PROVE TypeOK'
  <2>1. CASE CreditSelect(t)         BY <2>1 DEF CreditSelect
  <2>2. CASE CreditSelectMissing(t)  BY <2>2 DEF CreditSelectMissing
  <2>3. CASE CreditInsert(t)         BY <2>3 DEF CreditInsert
  <2>4. CASE CreditInsertConflict(t) BY <2>4 DEF CreditInsertConflict
  <2>5. CASE CreditCommit(t)         BY <2>5 DEF CreditCommit, JobOfStatement, CreditStatements
  <2>6. CASE Reply(t)                BY <2>6 DEF Reply, JobOfStatement, CreditStatements
  <2> QED  BY <1>3, <2>1, <2>2, <2>3, <2>4, <2>5, <2>6 DEF Credit
<1>4. ASSUME NEW t \in Txns, Balance(t) PROVE TypeOK'
  <2>1. CASE BalanceBegin(t)          BY <2>1 DEF BalanceBegin
  <2>2. CASE BalanceGet(t)
    <3>1. pc' \in [Txns -> Statements] /\ lock' \in [Orgs -> Txns \cup {NoTxn}]
      BY <2>2 DEF BalanceGet
    <3> QED  BY <2>2, <3>1 DEF BalanceGet
  <2>3. CASE BalanceCreate(t)         BY <2>3 DEF BalanceCreate
  <2>4. CASE BalanceCreateConflict(t) BY <2>4 DEF BalanceCreateConflict
  <2>5. CASE BalanceClose(t)          BY <2>5 DEF BalanceClose
  <2> QED  BY <1>4, <2>1, <2>2, <2>3, <2>4, <2>5 DEF Balance
<1>5. ASSUME NEW t \in Txns, Fail(t) PROVE TypeOK'
  BY <1>5 DEF Fail
<1>6. CASE UNCHANGED vars
  BY <1>6
<1> QED  BY <1>1, <1>2, <1>3, <1>4, <1>5, <1>6 DEF Next

-----------------------------------------------------------------------------
(* The strengthening is inductive.  One lemma per conjunct of LedgerInv.   *)

\* What a step of session t does to the lock table, in three shapes.
OthersKeep(t) == \A u \in Txns \ {t} : pc'[u] = pc[u] /\ job'[u] = job[u]

LEMMA LockKept ==
  ASSUME TypeOK, LockDiscipline, NEW t \in Txns, OthersKeep(t), lock' = lock,
         Holds(t)' <=> Holds(t), Holds(t) => OrgOfJob(t)' = OrgOfJob(t)
  PROVE  LockDiscipline'
<1>1. \A u \in Txns : Holds(u)' <=> Holds(u)
  BY DEF OthersKeep, Holds, MeterHolds
<1>2. \A u \in Txns : Holds(u) => OrgOfJob(u)' = OrgOfJob(u)
  BY DEF OthersKeep, OrgOfJob
<1> QED  BY <1>1, <1>2 DEF LockDiscipline

LEMMA LockTaken ==
  ASSUME TypeOK, LockDiscipline, NEW t \in Txns, OthersKeep(t), LockRow(t),
         Holds(t)', ~Holds(t), OrgOfJob(t)' = OrgOfJob(t)
  PROVE  LockDiscipline'
<1>1. \A u \in Txns \ {t} : (Holds(u)' <=> Holds(u)) /\ OrgOfJob(u)' = OrgOfJob(u)
  BY DEF OthersKeep, Holds, MeterHolds, OrgOfJob
<1>2. \A o \in Orgs : lock'[o] = IF o = OrgOfJob(t) THEN t ELSE lock[o]
  BY DEF LockRow, TypeOK
<1>3. ASSUME NEW u \in Txns, NEW o \in Orgs
      PROVE  lock'[o] = u <=> Holds(u)' /\ OrgOfJob(u)' = o
  <2>1. CASE u = t
    BY <2>1, <1>2 DEF LockDiscipline
  <2>2. CASE u # t
    BY <2>2, <1>1, <1>2, LedgerAssumption DEF LockDiscipline, LockRow
  <2> QED  BY <2>1, <2>2
<1> QED  BY <1>3 DEF LockDiscipline

LEMMA LockReleased ==
  ASSUME TypeOK, LockDiscipline, NEW t \in Txns, OthersKeep(t), ReleaseLocks(t),
         ~Holds(t)'
  PROVE  LockDiscipline'
<1>1. \A u \in Txns \ {t} : (Holds(u)' <=> Holds(u)) /\ OrgOfJob(u)' = OrgOfJob(u)
  BY DEF OthersKeep, Holds, MeterHolds, OrgOfJob
<1>2. \A o \in Orgs : lock'[o] = IF lock[o] = t THEN NoTxn ELSE lock[o]
  BY DEF ReleaseLocks
<1>3. ASSUME NEW u \in Txns, NEW o \in Orgs
      PROVE  lock'[o] = u <=> Holds(u)' /\ OrgOfJob(u)' = o
  <2>1. CASE u = t
    BY <2>1, <1>2, LedgerAssumption
  <2>2. CASE u # t
    BY <2>2, <1>1, <1>2, LedgerAssumption DEF LockDiscipline
  <2> QED  BY <2>1, <2>2
<1> QED  BY <1>3 DEF LockDiscipline

\* A session is in its own slot only: every action of t leaves the others.
LEMMA OthersStep ==
  ASSUME TypeOK, NEW t \in Txns,
         \/ Meter(t) \/ (\E e \in Events : Deliver(t, e)) \/ Credit(t)
         \/ Balance(t) \/ Fail(t)
  PROVE  OthersKeep(t)
<1> USE DEF OthersKeep, TypeOK, Goto, Begin, Close, Abandon
<1>1. CASE Meter(t)
  BY <1>1 DEF Meter, MeterBegin, MeterDeduct, MeterInsufficient, MeterRecord, MeterCommit
<1>2. CASE \E e \in Events : Deliver(t, e)
  BY <1>2 DEF Deliver
<1>3. CASE Credit(t)
  BY <1>3 DEF Credit, CreditSelect, CreditSelectMissing, CreditInsert,
              CreditInsertConflict, CreditCommit, Reply
<1>4. CASE Balance(t)
  BY <1>4 DEF Balance, BalanceBegin, BalanceGet, BalanceCreate,
              BalanceCreateConflict, BalanceClose
<1>5. CASE Fail(t)
  BY <1>5 DEF Fail
<1> QED  BY <1>1, <1>2, <1>3, <1>4, <1>5

\* A row lock is taken by the statements that need the row, released on every
\* way out of the transaction, and never taken from its owner.
LEMMA LockStep ==
    TypeOK /\ JobOfStatement /\ LockDiscipline /\ [Next]_vars => LockDiscipline'
<1> SUFFICES ASSUME TypeOK, JobOfStatement, LockDiscipline, [Next]_vars PROVE LockDiscipline'
  OBVIOUS
<1> USE DEF Holds, MeterHolds, OrgOfJob, Goto, TypeOK
<1>1. ASSUME NEW t \in Txns, Meter(t) PROVE LockDiscipline'
  <2> OthersKeep(t)
    BY <1>1, OthersStep
  <2>1. CASE MeterBegin(t)
    BY <2>1, LockKept DEF MeterBegin, Begin
  <2>2. CASE MeterDeduct(t)
    BY <2>2, LockTaken DEF MeterDeduct, JobOfStatement
  <2>3. CASE MeterInsufficient(t)
    BY <2>3, LockReleased DEF MeterInsufficient, Abandon, Close
  <2>4. CASE MeterRecord(t)
    BY <2>4, LockKept DEF MeterRecord
  <2>5. CASE MeterCommit(t)
    BY <2>5, LockReleased DEF MeterCommit, Close
  <2> QED  BY <1>1, <2>1, <2>2, <2>3, <2>4, <2>5 DEF Meter
<1>2. ASSUME NEW t \in Txns, NEW e \in Events, Deliver(t, e) PROVE LockDiscipline'
  BY <1>2, OthersStep, LockKept DEF Deliver, Begin, FirstStatement
<1>3. ASSUME NEW t \in Txns, Credit(t) PROVE LockDiscipline'
  <2> OthersKeep(t)
    BY <1>3, OthersStep
  <2>1. CASE CreditSelect(t)
    BY <2>1, LockTaken DEF CreditSelect
  <2>2. CASE CreditSelectMissing(t)
    BY <2>2, LockKept DEF CreditSelectMissing
  <2>3. CASE CreditInsert(t)
    BY <2>3, LockTaken DEF CreditInsert
  <2>4. CASE CreditInsertConflict(t)
    BY <2>4, LockReleased DEF CreditInsertConflict, Abandon, Close
  <2>5. CASE CreditCommit(t)
    BY <2>5, LockReleased DEF CreditCommit
  <2>6. CASE Reply(t)
    BY <2>6, LockKept DEF Reply, Close
  <2> QED  BY <1>3, <2>1, <2>2, <2>3, <2>4, <2>5, <2>6 DEF Credit
<1>4. ASSUME NEW t \in Txns, Balance(t) PROVE LockDiscipline'
  <2> OthersKeep(t)
    BY <1>4, OthersStep
  <2>1. CASE BalanceBegin(t)
    BY <2>1, LockKept DEF BalanceBegin, Begin
  <2>2. CASE BalanceGet(t)
    BY <2>2, LockTaken, LockKept DEF BalanceGet
  <2>3. CASE BalanceCreate(t)
    BY <2>3, LockTaken DEF BalanceCreate
  <2>4. CASE BalanceCreateConflict(t)
    BY <2>4, LockReleased DEF BalanceCreateConflict, Abandon, Close
  <2>5. CASE BalanceClose(t)
    BY <2>5, LockReleased DEF BalanceClose, Abandon, Close
  <2> QED  BY <1>4, <2>1, <2>2, <2>3, <2>4, <2>5 DEF Balance
<1>5. ASSUME NEW t \in Txns, Fail(t) PROVE LockDiscipline'
  BY <1>5, OthersStep, LockReleased DEF Fail, Abandon, Close
<1>6. CASE UNCHANGED vars
  BY <1>6 DEF vars, LockDiscipline
<1> QED  BY <1>1, <1>2, <1>3, <1>4, <1>5, <1>6 DEF Next

\* Sessions keep the job they were opened with until they are closed.
LEMMA JobStep == TypeOK /\ JobOfStatement /\ [Next]_vars => JobOfStatement'
<1> SUFFICES ASSUME TypeOK, JobOfStatement, [Next]_vars PROVE JobOfStatement'
  OBVIOUS
<1> USE LedgerAssumption
    DEF TypeOK, JobOfStatement, CreditStatements, Goto, Close, Abandon, Begin,
        stripeVars
<1>1. ASSUME NEW t \in Txns, Meter(t) PROVE JobOfStatement'
  <2>1. CASE MeterBegin(t)         BY <2>1 DEF MeterBegin
  <2>2. CASE MeterDeduct(t)        BY <2>2 DEF MeterDeduct
  <2>3. CASE MeterInsufficient(t)  BY <2>3 DEF MeterInsufficient
  <2>4. CASE MeterRecord(t)        BY <2>4 DEF MeterRecord
  <2>5. CASE MeterCommit(t)        BY <2>5 DEF MeterCommit
  <2> QED  BY <1>1, <2>1, <2>2, <2>3, <2>4, <2>5 DEF Meter
<1>2. ASSUME NEW t \in Txns, NEW e \in Events, Deliver(t, e) PROVE JobOfStatement'
  BY <1>2 DEF Deliver, FirstStatement
<1>3. ASSUME NEW t \in Txns, Credit(t) PROVE JobOfStatement'
  <2>1. CASE CreditSelect(t)         BY <2>1 DEF CreditSelect
  <2>2. CASE CreditSelectMissing(t)  BY <2>2 DEF CreditSelectMissing
  <2>3. CASE CreditInsert(t)         BY <2>3 DEF CreditInsert
  <2>4. CASE CreditInsertConflict(t) BY <2>4 DEF CreditInsertConflict
  <2>5. CASE CreditCommit(t)         BY <2>5 DEF CreditCommit
  <2>6. CASE Reply(t)                BY <2>6 DEF Reply
  <2> QED  BY <1>3, <2>1, <2>2, <2>3, <2>4, <2>5, <2>6 DEF Credit
<1>4. ASSUME NEW t \in Txns, Balance(t) PROVE JobOfStatement'
  BY <1>4 DEF Balance, BalanceBegin, BalanceGet, BalanceCreate,
              BalanceCreateConflict, BalanceClose
<1>5. ASSUME NEW t \in Txns, Fail(t) PROVE JobOfStatement'
  BY <1>5 DEF Fail
<1>6. CASE UNCHANGED vars
  BY <1>6 DEF vars
<1> QED  BY <1>1, <1>2, <1>3, <1>4, <1>5, <1>6 DEF Next

\* A commit of t writes a row no other session has staged a value for, and
\* any other step of t writes no row.
LEMMA StagedOthers ==
  ASSUME TypeOK, JobOfStatement, LockDiscipline, StagedIsCurrent,
         NEW t \in Txns, OthersKeep(t),
         NEW u \in Txns \ {t}, pending'[u] = pending[u], rows \subseteq rows',
         \A o \in Orgs : available'[o] # available[o] => Holds(t) /\ o = OrgOfJob(t)
  PROVE  Staged(u)'
<1>1. pc'[u] = pc[u] /\ job'[u] = job[u]
  BY DEF OthersKeep
<1>2. Holds(u) => OrgOfJob(u) \in Orgs
  BY DEF JobOfStatement, Holds, MeterHolds, OrgOfJob
<1>3. Holds(u) => available'[OrgOfJob(u)] = available[OrgOfJob(u)]
  BY <1>2 DEF LockDiscipline
<1> QED  BY <1>1, <1>2, <1>3 DEF StagedIsCurrent, Staged, Holds, MeterHolds, OrgOfJob

\* What a session stages stays right until it commits: nobody else writes the
\* row it has locked.
LEMMA StagedStep ==
    TypeOK /\ JobOfStatement /\ LockDiscipline /\ StagedIsCurrent /\ [Next]_vars
       => StagedIsCurrent'
<1> SUFFICES ASSUME TypeOK, JobOfStatement, LockDiscipline, StagedIsCurrent, [Next]_vars
             PROVE  StagedIsCurrent'
  OBVIOUS
<1> DEFINE Own(t) == Staged(t)' /\ \A o \in Orgs \ rows' : available'[o] = 0
           Rest(t) == /\ \A u \in Txns \ {t} : pending'[u] = pending[u]
                      /\ rows \subseteq rows'
                      /\ \A o \in Orgs : available'[o] # available[o] =>
                             Holds(t) /\ o = OrgOfJob(t)
<1>1. ASSUME NEW t \in Txns, OthersKeep(t), Own(t), Rest(t) PROVE StagedIsCurrent'
  BY <1>1, StagedOthers DEF StagedIsCurrent
<1> HIDE DEF Own, Rest
<1>2. ASSUME NEW t \in Txns, Meter(t) PROVE Own(t) /\ Rest(t)
  <2> USE DEF Own, Rest, Staged, StagedIsCurrent, TypeOK, Goto, OrgOfJob, Holds, MeterHolds,
              dbVars, Job
  <2>1. CASE MeterBegin(t)         BY <1>2, <2>1 DEF MeterBegin, Begin
  <2>2. CASE MeterDeduct(t)        BY <1>2, <2>2 DEF MeterDeduct
  <2>3. CASE MeterInsufficient(t)  BY <1>2, <2>3 DEF MeterInsufficient, Abandon, Close
  <2>4. CASE MeterRecord(t)        BY <1>2, <2>4 DEF MeterRecord
  <2>5. CASE MeterCommit(t)        BY <1>2, <2>5 DEF MeterCommit, WriteRow, Close
  <2> QED  BY <1>2, <2>1, <2>2, <2>3, <2>4, <2>5 DEF Meter
<1>3. ASSUME NEW t \in Txns, NEW e \in Events, Deliver(t, e) PROVE Own(t) /\ Rest(t)
  BY <1>3 DEF Deliver, Begin, FirstStatement, Own, Rest, Staged, StagedIsCurrent, TypeOK, Goto,
              MeterHolds, dbVars
<1>4. ASSUME NEW t \in Txns, Credit(t) PROVE Own(t) /\ Rest(t)
  <2> USE DEF Own, Rest, Staged, StagedIsCurrent, TypeOK, Goto, OrgOfJob, Holds, MeterHolds,
              dbVars, Job
  <2>1. CASE CreditSelect(t)         BY <1>4, <2>1 DEF CreditSelect
  <2>2. CASE CreditSelectMissing(t)  BY <1>4, <2>2 DEF CreditSelectMissing
  <2>3. CASE CreditInsert(t)         BY <1>4, <2>3 DEF CreditInsert, JobOfStatement
  <2>4. CASE CreditInsertConflict(t) BY <1>4, <2>4 DEF CreditInsertConflict, Abandon, Close
  <2>5. CASE CreditCommit(t)         BY <1>4, <2>5 DEF CreditCommit, WriteRow
  <2>6. CASE Reply(t)                BY <1>4, <2>6 DEF Reply, Close
  <2> QED  BY <1>4, <2>1, <2>2, <2>3, <2>4, <2>5, <2>6 DEF Credit
<1>5. ASSUME NEW t \in Txns, Balance(t) PROVE Own(t) /\ Rest(t)
  <2> USE DEF Own, Rest, Staged, StagedIsCurrent, TypeOK, Goto, MeterHolds, dbVars
  <2>1. CASE BalanceBegin(t)          BY <1>5, <2>1 DEF BalanceBegin, Begin
  <2>2. CASE BalanceGet(t)            BY <1>5, <2>2 DEF BalanceGet
  <2>3. CASE BalanceCreate(t)         BY <1>5, <2>3 DEF BalanceCreate
  <2>4. CASE BalanceCreateConflict(t) BY <1>5, <2>4 DEF BalanceCreateConflict, Abandon, Close
  <2>5. CASE BalanceClose(t)          BY <1>5, <2>5 DEF BalanceClose, Abandon, Close
  <2> QED  BY <1>5, <2>1, <2>2, <2>3, <2>4, <2>5 DEF Balance
<1>6. ASSUME NEW t \in Txns, Fail(t) PROVE Own(t) /\ Rest(t)
  BY <1>6 DEF Fail, Abandon, Close, Own, Rest, Staged, StagedIsCurrent, TypeOK,
              MeterHolds, dbVars
<1>7. CASE UNCHANGED vars
  BY <1>7 DEF vars, StagedIsCurrent, Staged, MeterHolds, OrgOfJob
<1> QED  BY <1>1, <1>2, <1>3, <1>4, <1>5, <1>6, <1>7, OthersStep DEF Next

-----------------------------------------------------------------------------
(* Only two commits change the committed columns.                          *)

LEMMA OnlyCommits ==
  ASSUME NEW t \in Txns,
         \/ Meter(t) \/ (\E e \in Events : Deliver(t, e)) \/ Credit(t)
         \/ Balance(t) \/ Fail(t)
  PROVE  MeterCommit(t) \/ CreditCommit(t) \/ UNCHANGED <<available, billed, credited>>
  BY DEF Meter, Credit, Balance, Deliver, Fail, Begin, Abandon, dbVars,
         MeterBegin, MeterDeduct, MeterInsufficient, MeterRecord,
         CreditSelect, CreditSelectMissing, CreditInsert, CreditInsertConflict, Reply,
         BalanceBegin, BalanceGet, BalanceCreate, BalanceCreateConflict, BalanceClose

\* A committed charge is a Charge of the abstract ledger.
LEMMA CommitIsCharge ==
  ASSUME TypeOK, StagedIsCurrent, JobOfStatement, NEW t \in Txns, MeterCommit(t)
  PROVE  job[t].amount \in Costs /\ Ledger!Charge(OrgOfJob(t), job[t].amount)
<1>1. OrgOfJob(t) \in Orgs /\ job[t].amount \in Costs /\ job[t].amount \in Nat
  BY DEF MeterCommit, JobOfStatement, TypeOK, Job, OrgOfJob
<1>2. CASE job[t].amount > 0
  <2>1. MeterHolds(t)
    BY <1>2 DEF MeterHolds, MeterCommit
  <2>2. /\ job[t].amount <= available[OrgOfJob(t)]
        /\ pending[t] = available[OrgOfJob(t)] - job[t].amount
    BY <2>1 DEF StagedIsCurrent, Staged
  <2> QED  BY <1>1, <1>2, <2>2 DEF MeterCommit, WriteRow, Ledger!Charge, TypeOK
<1>3. CASE job[t].amount = 0
  BY <1>1, <1>3 DEF MeterCommit, Ledger!Charge, TypeOK
<1> QED  BY <1>1, <1>2, <1>3

\* A committed top-up is a TopUp of the abstract ledger.
LEMMA CommitIsTopUp ==
  ASSUME TypeOK, StagedIsCurrent, JobOfStatement, NEW t \in Txns, CreditCommit(t)
  PROVE  /\ job[t].amount \in {AmountOf[e] : e \in Events}
         /\ Ledger!TopUp(OrgOfJob(t), job[t].amount)
<1>1. pc[t] = "credit_commit"
  BY DEF CreditCommit, Goto
<1>2. job[t].event \in Events /\ job[t].amount = AmountOf[job[t].event]
  BY <1>1 DEF JobOfStatement, CreditStatements
<1>3. pending[t] = available[OrgOfJob(t)] + job[t].amount
  BY <1>1 DEF StagedIsCurrent, Staged
<1> QED  BY <1>2, <1>3 DEF CreditCommit, WriteRow, Ledger!TopUp

LEMMA LedgerStep ==
  ASSUME TypeOK, StagedIsCurrent, JobOfStatement, [Next]_vars
  PROVE  [Ledger!Change]_(Ledger!ledger)
<1>1. ASSUME NEW t \in Txns, MeterCommit(t) PROVE Ledger!Change
  <2>1. OrgOfJob(t) \in Orgs
    BY <1>1 DEF MeterCommit, JobOfStatement, OrgOfJob
  <2> QED  BY <1>1, <2>1, CommitIsCharge DEF Ledger!Change
<1>2. ASSUME NEW t \in Txns, CreditCommit(t) PROVE Ledger!Change
  <2>1. OrgOfJob(t) \in Orgs
    BY <1>2 DEF CreditCommit, Goto, JobOfStatement, OrgOfJob
  <2> QED  BY <1>2, <2>1, CommitIsTopUp DEF Ledger!Change
<1>3. CASE UNCHANGED <<available, billed, credited>>
  BY <1>3 DEF Ledger!ledger
<1>4. CASE UNCHANGED vars
  BY <1>4 DEF vars, Ledger!ledger
<1> QED  BY <1>1, <1>2, <1>3, <1>4, OnlyCommits DEF Next

\* Every step of the ledger keeps what is left plus what is spent equal to what
\* was received.
LEMMA ConservationStep ==
  ASSUME TypeOK, TypeOK', Conservation, [Ledger!Change]_(Ledger!ledger)
  PROVE  Conservation'
<1>1. ASSUME NEW a \in Orgs, NEW n \in {AmountOf[e] : e \in Events}, Ledger!TopUp(a, n)
      PROVE  Conservation'
  BY <1>1, LedgerAssumption DEF Ledger!TopUp, Conservation, TypeOK
<1>2. ASSUME NEW a \in Orgs, NEW n \in Costs, Ledger!Charge(a, n)
      PROVE  Conservation'
  BY <1>2, LedgerAssumption DEF Ledger!Charge, Conservation, TypeOK
<1>3. CASE UNCHANGED Ledger!ledger
  BY <1>3 DEF Ledger!ledger, Conservation
<1> QED  BY <1>1, <1>2, <1>3 DEF Ledger!Change

\* An event of an organisation joins `acked` only after the commit that applied
\* it, and no commit applies an event that names no organisation.
LEMMA AckedStep ==
    TypeOK /\ JobOfStatement /\ AckedIsApplied /\ [Next]_vars => AckedIsApplied'
<1> SUFFICES ASSUME TypeOK, JobOfStatement, AckedIsApplied, [Next]_vars
             PROVE  AckedIsApplied'
  OBVIOUS
<1>1. ASSUME NEW t \in Txns, CreditCommit(t) PROVE AckedIsApplied'
  <2>1. job[t].event \in Events /\ OrgOf[job[t].event] # NoOrg
    BY <1>1, LedgerAssumption DEF CreditCommit, Goto, JobOfStatement, CreditStatements
  <2> QED  BY <1>1, <2>1 DEF CreditCommit, AckedIsApplied, TypeOK
<1>2. ASSUME NEW t \in Txns, Reply(t) PROVE AckedIsApplied'
  BY <1>2 DEF Reply, AckedIsApplied, JobOfStatement, CreditStatements
<1>3. CASE UNCHANGED <<acked, applied>>
  BY <1>3 DEF AckedIsApplied
<1>4. ASSUME NEW t \in Txns,
             \/ Meter(t) \/ (\E e \in Events : Deliver(t, e)) \/ Credit(t)
             \/ Balance(t) \/ Fail(t)
      PROVE  CreditCommit(t) \/ Reply(t) \/ UNCHANGED <<acked, applied>>
  BY <1>4 DEF Meter, Credit, Balance, Deliver, Fail, stripeVars,
         MeterBegin, MeterDeduct, MeterInsufficient, MeterRecord, MeterCommit,
         CreditSelect, CreditSelectMissing, CreditInsert, CreditInsertConflict,
         BalanceBegin, BalanceGet, BalanceCreate, BalanceCreateConflict, BalanceClose
<1> QED  BY <1>1, <1>2, <1>3, <1>4 DEF Next, vars

-----------------------------------------------------------------------------
LEMMA InvInit == Init => LedgerInv
<1> SUFFICES ASSUME Init PROVE LedgerInv
  OBVIOUS
<1>1. TypeOK
  BY InitType
<1> QED
  BY <1>1, LedgerAssumption
  DEF Init, LedgerInv, LockDiscipline, StagedIsCurrent, Staged, JobOfStatement, Holds,
      MeterHolds, CreditStatements, Conservation, NoOverspend, AckedIsApplied

LEMMA InvStep == LedgerInv /\ [Next]_vars => LedgerInv'
<1> SUFFICES ASSUME LedgerInv, [Next]_vars PROVE LedgerInv'
  OBVIOUS
<1>1. TypeOK'
  BY TypeStep DEF LedgerInv
<1>2. Conservation'
  BY <1>1, LedgerStep, ConservationStep DEF LedgerInv
<1>3. NoOverspend'
  BY <1>1, <1>2 DEF TypeOK, Conservation, NoOverspend
<1> QED
  BY <1>1, <1>2, <1>3, LockStep, StagedStep, JobStep, AckedStep DEF LedgerInv

\* The locks, the staged values and the columns of the balance fit together in
\* every reachable state, for every number of concurrent sessions.
THEOREM LedgerInvariant == Spec => []LedgerInv
  BY InvInit, InvStep, PTL DEF Spec

\* The variables of the balance and of its sessions always have their types; in
\* particular the balance is a natural number, never negative.
THEOREM TypeCorrect == Spec => []TypeOK
<1>1. LedgerInv => TypeOK
  BY DEF LedgerInv
<1> QED  BY <1>1, LedgerInvariant, PTL

\* Money is neither made nor lost by concurrent charges, top-ups and crashes.
THEOREM MoneyIsConserved == Spec => []Conservation
<1>1. LedgerInv => Conservation
  BY DEF LedgerInv
<1> QED  BY <1>1, LedgerInvariant, PTL

\* No organisation is billed for more than Stripe paid in for it.
THEOREM NeverOverspent == Spec => []NoOverspend
<1>1. LedgerInv => NoOverspend
  BY DEF LedgerInv
<1> QED  BY <1>1, LedgerInvariant, PTL

\* Stripe stops retrying an event that names an organisation only when its credit
\* is committed; an event that names none credits nobody.
THEOREM AcknowledgedIsCredited == Spec => []AckedIsApplied
<1>1. LedgerInv => AckedIsApplied
  BY DEF LedgerInv
<1> QED  BY <1>1, LedgerInvariant, PTL

\* The sessions implement the indivisible ledger: they start as it starts and
\* every statement is one of its changes or invisible to it.
THEOREM SessionsImplementLedger == Spec => ImplementsLedger
<1>1. Init => Ledger!Start
  BY DEF Init, Ledger!Start
<1>2. LedgerInv /\ [Next]_vars => [Ledger!Change]_(Ledger!ledger)
  BY LedgerStep DEF LedgerInv
<1> QED
  BY <1>1, <1>2, LedgerInvariant, PTL DEF Spec, ImplementsLedger, Ledger!LedgerSpec
=============================================================================
