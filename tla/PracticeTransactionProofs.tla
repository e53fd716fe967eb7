--------------------- MODULE PracticeTransactionProofs ---------------------
(***************************************************************************)
(* Proofs about PracticeTransaction, for every set of spend counters and   *)
(* every bound on them.                                                    *)
(***************************************************************************)
EXTENDS PracticeTransaction, TLAPS

(* The two facts about spend the proofs rest on: AtLeast is a partial      *)
(* order on usages.                                                        *)
LEMMA AtLeastTrans ==
  ASSUME NEW u \in Usage, NEW v \in Usage, NEW w \in Usage,
         AtLeast(u, v), AtLeast(v, w)
  PROVE  AtLeast(u, w)
<1>. SUFFICES ASSUME NEW k \in Kind PROVE u[k] >= w[k]
  BY DEF AtLeast
<1>1. u[k] \in Nat /\ v[k] \in Nat /\ w[k] \in Nat
  BY TransactionAssumption DEF Usage
<1>2. u[k] >= v[k] /\ v[k] >= w[k]
  BY DEF AtLeast
<1>. QED
  BY <1>1, <1>2

LEMMA AtLeastRefl ==
  ASSUME NEW u \in Usage
  PROVE  AtLeast(u, u)
<1>. SUFFICES ASSUME NEW k \in Kind PROVE u[k] >= u[k]
  BY DEF AtLeast
<1>1. u[k] \in Nat
  BY TransactionAssumption DEF Usage
<1>. QED
  BY <1>1

LEMMA AtLeastAntisym ==
  ASSUME NEW u \in Usage, NEW v \in Usage, AtLeast(u, v), AtLeast(v, u)
  PROVE  u = v
<1>1. ASSUME NEW k \in Kind PROVE u[k] = v[k]
  <2>1. u[k] \in Nat /\ v[k] \in Nat
    BY TransactionAssumption DEF Usage
  <2>2. u[k] >= v[k] /\ v[k] >= u[k]
    BY DEF AtLeast
  <2>. QED
    BY <2>1, <2>2
<1>. QED
  BY <1>1 DEF Usage

-----------------------------------------------------------------------------
(* The inductive invariant.  What a pending journal holds:                 *)
JournalOK ==
  Pending =>
    /\ journal.task.state # "parked"
    /\ journal.task.calls = journal.account.usage[Calls]
    /\ ~journal.account.inflight
    /\ AtLeast(journal.account.usage, journal.accountBefore.usage)

(* Where the process can be, given the journal and the files.              *)
StepOK ==
  /\ step = "task" => Pending /\ Matches
  /\ step = "account" => Pending /\ Matches /\ taskFile = journal.task
  /\ step = "settle" => Pending /\ Applied
  /\ step = "open" => ~Pending
  /\ step \in {"review", "raised"} => ~(Pending /\ Matches)
  /\ step = "review" => taskFile.calls = accountFile.usage[Calls]

IInv == TypeOK /\ JournalOK /\ StepOK /\ RefusalIsSound /\ CallProjection

(* An account that spent strictly more than the settlement knows of is     *)
(* neither of the two accounts the settlement names.                       *)
LEMMA OvertakenNeverMatches ==
  ASSUME TypeOK, JournalOK, Pending, NEW a \in Account,
         AtLeast(a.usage, journal.account.usage),
         a.usage # journal.account.usage
  PROVE  a \notin {journal.accountBefore, journal.account}
<1>1. /\ a.usage \in Usage
      /\ journal.account.usage \in Usage
      /\ journal.accountBefore.usage \in Usage
  BY DEF TypeOK, Entry, Account, Pending, NoJournal
<1>2. ASSUME a = journal.accountBefore PROVE FALSE
  <2>1. AtLeast(journal.account.usage, a.usage)
    BY <1>2 DEF JournalOK
  <2>. QED
    BY <1>1, <2>1, AtLeastAntisym
<1>. QED
  BY <1>2

LEMMA InitIInv == Init => IInv
<1>. SUFFICES ASSUME Init PROVE IInv
  OBVIOUS
<1>1. Calls \in Kind /\ 0 \in 0..MaxUsage
  BY TransactionAssumption
<1>2. TypeOK
  BY <1>1 DEF Init, TypeOK, Task, TaskState, Account, Usage, NoJournal, Step
<1>3. ~Pending
  BY DEF Init, Pending, NoJournal
<1>4. CallProjection
  BY <1>1 DEF Init, CallProjection
<1>. QED
  BY <1>2, <1>3, <1>4 DEF IInv, JournalOK, StepOK, RefusalIsSound, Init

(* What a journal that is pending, and the accounts, are made of.           *)
LEMMA Typed ==
  ASSUME TypeOK
  PROVE  /\ taskFile \in Task /\ accountFile \in Account /\ step \in Step
         /\ accountFile.usage \in Usage
         /\ Pending => /\ journal \in Entry
                       /\ journal.task \in Task /\ journal.account \in Account
                       /\ journal.account.usage \in Usage
                       /\ journal.accountBefore \in Account
BY DEF TypeOK, Pending, NoJournal, Entry, Account

LEMMA TypeStep == IInv /\ [Next]_vars => TypeOK'
<1>. SUFFICES ASSUME IInv, [Next]_vars PROVE TypeOK'
  OBVIOUS
<1>. USE Typed DEF IInv, TypeOK
<1>1. CASE Begin \/ Return \/ Raise \/ Crash
             \/ RecoverNothing \/ RecoverAccepts \/ RecoverRefuses
  BY <1>1 DEF Begin, Return, Raise, Crash, RecoverNothing, RecoverAccepts,
              RecoverRefuses, Step
<1>2. CASE WriteTask
  BY <1>2 DEF WriteTask, StepOK, Step
<1>3. CASE WriteAccount
  BY <1>3 DEF WriteAccount, StepOK, Step
<1>4. CASE WriteSettled
  BY <1>4 DEF WriteSettled, StepOK, Step, Entry
<1>5. CASE Dispatch
  BY <1>5 DEF Dispatch
<1>6. CASE Commit
  BY <1>6 DEF Commit, Step
<1>7. CASE Exhaust
  BY <1>7 DEF Exhaust, Task, TaskState
<1>8. CASE Park
  BY <1>8 DEF Park, Step
<1>9. CASE ReviewCharge \/ ReviewRelease \/ ReviewApply
  BY <1>9 DEF ReviewCharge, ReviewRelease, ReviewApply, Step
<1>10. CASE UNCHANGED vars
  BY <1>10 DEF vars
<1>. QED
  BY <1>1, <1>2, <1>3, <1>4, <1>5, <1>6, <1>7, <1>8, <1>9, <1>10
     DEF Next, Recover, Advance, Review

(* recover() replays a settlement; nothing else changes while it does.     *)
LEMMA RecoverStep ==
  IInv /\ Recover => (JournalOK /\ StepOK /\ RefusalIsSound /\ CallProjection)'
<1>. SUFFICES ASSUME IInv, Recover
              PROVE  (JournalOK /\ StepOK /\ RefusalIsSound /\ CallProjection)'
  OBVIOUS
<1>. USE Typed DEF IInv, JournalOK, StepOK, Pending, Matches, Applied
<1>1. CASE RecoverNothing \/ RecoverAccepts \/ RecoverRefuses
  <2>1. UNCHANGED <<taskFile, accountFile, journal>>
    BY <1>1 DEF RecoverNothing, RecoverAccepts, RecoverRefuses
  <2>2. (JournalOK /\ RefusalIsSound /\ CallProjection)'
    BY <2>1 DEF RefusalIsSound, CallProjection, Torn
  <2>3. StepOK'
    BY <1>1, <2>1 DEF RecoverNothing, RecoverAccepts, RecoverRefuses
  <2>. QED
    BY <2>2, <2>3
<1>2. CASE WriteTask
  <2>. USE <1>2 DEF WriteTask
  <2>1. Matches' /\ Pending' /\ UNCHANGED <<journal, accountFile>>
    OBVIOUS
  <2>2. (JournalOK /\ RefusalIsSound /\ StepOK)'
    BY <2>1 DEF RefusalIsSound
  <2>3. CallProjection'
    BY <2>1 DEF CallProjection, Torn
  <2>. QED
    BY <2>2, <2>3
<1>3. CASE WriteAccount
  <2>. USE <1>3 DEF WriteAccount
  <2>1. Applied' /\ Matches' /\ Pending' /\ UNCHANGED journal
    OBVIOUS
  <2>2. (JournalOK /\ RefusalIsSound /\ StepOK)'
    BY <2>1 DEF RefusalIsSound
  <2>3. CallProjection'
    BY <2>1 DEF CallProjection, Torn
  <2>. QED
    BY <2>2, <2>3
<1>4. CASE WriteSettled
  <2>. USE <1>4 DEF WriteSettled
  <2>1. ~Pending' /\ UNCHANGED <<taskFile, accountFile>>
    BY DEF Entry
  <2>2. (JournalOK /\ RefusalIsSound /\ StepOK)'
    BY <2>1 DEF RefusalIsSound
  <2>3. CallProjection'
    BY <2>1 DEF CallProjection, Torn
  <2>. QED
    BY <2>2, <2>3
<1>. QED
  BY <1>1, <1>2, <1>3, <1>4 DEF Recover

(* advance() works on whole settlements, and leaves one behind when it     *)
(* commits.                                                                *)
LEMMA AdvanceStep ==
  IInv /\ Advance /\ TypeOK'
    => (JournalOK /\ StepOK /\ RefusalIsSound /\ CallProjection)'
<1>. SUFFICES ASSUME IInv, Advance, TypeOK'
              PROVE  (JournalOK /\ StepOK /\ RefusalIsSound /\ CallProjection)'
  OBVIOUS
<1>. USE Typed DEF IInv, JournalOK, StepOK, Pending, Matches, Applied
<1>1. CASE Begin \/ Return \/ Raise
  <2>1. UNCHANGED <<taskFile, accountFile, journal>>
    BY <1>1 DEF Begin, Return, Raise
  <2>2. (JournalOK /\ RefusalIsSound /\ CallProjection)'
    BY <2>1 DEF RefusalIsSound, CallProjection, Torn
  <2>3. StepOK'
    BY <1>1, <2>1 DEF Begin, Return, Raise
  <2>. QED
    BY <2>2, <2>3
<1>2. CASE Dispatch
  <2>1. ~Pending' /\ accountFile'.inflight
    BY <1>2 DEF Dispatch
  <2>. QED
    BY <1>2, <2>1 DEF Dispatch, RefusalIsSound, CallProjection
<1>3. CASE Commit
  <2>. USE <1>3 DEF Commit
  <2>1. Matches' /\ Pending'
    OBVIOUS
  <2>2. (JournalOK /\ RefusalIsSound /\ StepOK)'
    BY <2>1 DEF RefusalIsSound
  <2>3. CallProjection'
    BY <2>1 DEF CallProjection, Torn
  <2>. QED
    BY <2>2, <2>3
<1>4. CASE Exhaust
  <2>1. /\ ~Pending /\ ~Pending'
        /\ taskFile'.calls = taskFile.calls
        /\ UNCHANGED <<accountFile, journal, step>>
    BY <1>4 DEF Exhaust, Task
  <2>2. (JournalOK /\ RefusalIsSound /\ StepOK)'
    BY <2>1 DEF RefusalIsSound
  <2>3. CallProjection'
    BY <1>4, <2>1 DEF CallProjection, Torn, Exhaust
  <2>. QED
    BY <2>2, <2>3
<1>5. CASE Park
  <2>1. /\ step = "raised" /\ step' = "idle"
        /\ taskFile'.state = "parked"
        /\ UNCHANGED <<accountFile, journal>>
    BY <1>5 DEF Park
  <2>2. RefusalIsSound'
    BY <2>1 DEF RefusalIsSound
  <2>3. (JournalOK /\ StepOK /\ CallProjection)'
    BY <2>1 DEF CallProjection
  <2>. QED
    BY <2>2, <2>3
<1>. QED
  BY <1>1, <1>2, <1>3, <1>4, <1>5 DEF Advance

(* A review's charge overtakes a settlement whose journal was left pending *)
(* after both files were written: from then on replay is refused.          *)
LEMMA ReviewStep ==
  IInv /\ Review /\ TypeOK'
    => (JournalOK /\ StepOK /\ RefusalIsSound /\ CallProjection)'
<1>. SUFFICES ASSUME IInv, Review, TypeOK'
              PROVE  (JournalOK /\ StepOK /\ RefusalIsSound /\ CallProjection)'
  OBVIOUS
<1>. USE Typed DEF IInv, Pending
<1>1. CASE ReviewCharge
  <2>. USE <1>1 DEF ReviewCharge
  <2>1. /\ accountFile'.usage \in Usage
        /\ AtLeast(accountFile'.usage, accountFile.usage)
        /\ accountFile'.usage # accountFile.usage
        /\ UNCHANGED <<taskFile, journal>>
    BY DEF Account
  <2>2. JournalOK'
    BY DEF JournalOK
  <2>3. ASSUME Pending
        PROVE  /\ AtLeast(accountFile'.usage, journal.account.usage)
               /\ accountFile'.usage # journal.account.usage
    <3>1. AtLeast(accountFile.usage, journal.account.usage)
      <4>1. CASE Matches
        BY <2>3, <4>1, AtLeastRefl DEF Torn, Applied
      <4>2. CASE ~Matches
        BY <2>3, <4>2 DEF RefusalIsSound
      <4>. QED
        BY <4>1, <4>2
    <3>2. AtLeast(accountFile'.usage, journal.account.usage)
      BY <2>1, <2>3, <3>1, AtLeastTrans
    <3>3. accountFile'.usage # journal.account.usage
      BY <2>1, <2>3, <3>1, AtLeastAntisym
    <3>. QED
      BY <3>2, <3>3
  <2>4. RefusalIsSound'
    BY <2>1, <2>3 DEF RefusalIsSound
  <2>5. ~(Pending /\ Matches)'
    BY <2>3, OvertakenNeverMatches DEF Matches
  <2>6. taskFile.calls = accountFile.usage[Calls]
    BY DEF CallProjection
  <2>7. StepOK' /\ CallProjection'
    BY <2>5, <2>6 DEF StepOK, CallProjection
  <2>. QED
    BY <2>2, <2>4, <2>7
<1>2. CASE ReviewRelease
  <2>. USE <1>2 DEF ReviewRelease
  <2>1. /\ accountFile'.usage \in Usage
        /\ AtLeast(accountFile'.usage, accountFile.usage)
        /\ UNCHANGED <<taskFile, journal>>
    BY DEF Account
  <2>2. ASSUME Pending
        PROVE  /\ AtLeast(accountFile.usage, journal.account.usage)
               /\ accountFile.usage # journal.account.usage
    BY <2>2 DEF StepOK, RefusalIsSound
  <2>3. ASSUME Pending
        PROVE  /\ AtLeast(accountFile'.usage, journal.account.usage)
               /\ accountFile'.usage # journal.account.usage
    BY <2>1, <2>2, <2>3, AtLeastTrans, AtLeastAntisym
  <2>4. (JournalOK /\ StepOK /\ RefusalIsSound)'
    BY <2>1, <2>3 DEF JournalOK, StepOK, RefusalIsSound
  <2>5. CallProjection'
    BY DEF CallProjection, StepOK
  <2>. QED
    BY <2>4, <2>5
<1>3. CASE ReviewApply
  <2>. USE <1>3 DEF ReviewApply
  <2>1. ~(Pending /\ Matches)'
    BY OvertakenNeverMatches DEF RefusalIsSound, Matches
  <2>2. (JournalOK /\ StepOK /\ RefusalIsSound)'
    BY <2>1 DEF JournalOK, StepOK, RefusalIsSound
  <2>3. CallProjection'
    BY DEF CallProjection, Torn
  <2>. QED
    BY <2>2, <2>3
<1>. QED
  BY <1>1, <1>2, <1>3 DEF Review

LEMMA IInvStep == IInv /\ [Next]_vars => IInv'
<1>. SUFFICES ASSUME IInv, [Next]_vars PROVE IInv'
  OBVIOUS
<1>1. TypeOK'
  BY TypeStep
<1>2. CASE Recover
  BY <1>1, <1>2, RecoverStep DEF IInv
<1>3. CASE Advance
  BY <1>1, <1>3, AdvanceStep DEF IInv
<1>4. CASE Review
  BY <1>1, <1>4, ReviewStep DEF IInv
<1>5. CASE Crash \/ UNCHANGED vars
  <2>1. UNCHANGED <<taskFile, accountFile, journal>> /\ step' \in {"idle", step}
    BY <1>5 DEF Crash, vars
  <2>2. (JournalOK /\ RefusalIsSound /\ CallProjection)'
    BY <2>1 DEF IInv, JournalOK, RefusalIsSound, CallProjection, Torn,
                Pending, Matches, Applied
  <2>3. StepOK'
    BY <2>1 DEF IInv, StepOK, Pending, Matches, Applied
  <2>. QED
    BY <1>1, <2>2, <2>3 DEF IInv
<1>. QED
  BY <1>2, <1>3, <1>4, <1>5 DEF Next

THEOREM Invariance == Spec => []IInv
BY InitIInv, IInvStep, PTL DEF Spec

(* Every file and journal is well formed at all times.                     *)
THEOREM TypeCorrect == Spec => []TypeOK
BY Invariance, PTL DEF IInv

(* No caller of recover() ever works on half a settlement, wherever the    *)
(* crashes fall.                                                           *)
THEOREM SessionsSeeWhole == Spec => []SessionSeesWhole
<1>1. IInv => SessionSeesWhole
  BY DEF IInv, StepOK, SessionSeesWhole, Torn
<1>. QED
  BY <1>1, Invariance, PTL

(* practice_budget never meets a task whose calls disagree with the calls  *)
(* its account was charged for.                                            *)
THEOREM CallsProjected == Spec => []CallProjection
BY Invariance, PTL DEF IInv

(* A replay is only ever refused when it would have rolled spend back.     *)
THEOREM RefusalSound == Spec => []RefusalIsSound
BY Invariance, PTL DEF IInv

-----------------------------------------------------------------------------
LEMMA UsageStep ==
  IInv /\ [Next]_vars => AtLeast(accountFile'.usage, accountFile.usage)
<1>. SUFFICES ASSUME IInv, [Next]_vars
              PROVE  AtLeast(accountFile'.usage, accountFile.usage)
  OBVIOUS
<1>. USE Typed DEF IInv
<1>1. CASE UNCHANGED accountFile
  BY <1>1, AtLeastRefl
<1>2. CASE WriteAccount
  <2>1. accountFile' = journal.account /\ Pending /\ Matches
    BY <1>2 DEF WriteAccount, StepOK
  <2>2. accountFile \in {journal.accountBefore, journal.account}
    BY <2>1 DEF Matches
  <2>. QED
    BY <2>1, <2>2, AtLeastRefl DEF JournalOK
<1>3. CASE Dispatch \/ ReviewCharge \/ ReviewRelease
  BY <1>3 DEF Dispatch, ReviewCharge, ReviewRelease
<1>. QED
  BY <1>1, <1>2, <1>3
     DEF Next, Recover, Advance, Review, vars, Begin, RecoverNothing,
         RecoverAccepts, RecoverRefuses, WriteTask, WriteSettled, Commit,
         Exhaust, Return, Raise, Park, ReviewApply, Crash

(* No step lowers a retained counter: neither a replay after a crash nor a *)
(* settlement that meets a review's charge.                                *)
THEOREM UsageMonotone == Spec => UsageNeverDrops
<1>1. IInv /\ [Next]_vars => [AtLeast(accountFile'.usage, accountFile.usage)]_vars
  BY UsageStep
<1>. QED
  BY <1>1, Invariance, PTL DEF Spec, UsageNeverDrops

-----------------------------------------------------------------------------
(* Refinement.  The ledger reads a torn settlement from its journal and    *)
(* everything else from the files.                                         *)
LEMMA LedgerInit == Init => Ledger!Init
BY DEF Init, Ledger!Init, ledgerTask, ledgerAccount, Torn, Pending, NoJournal

LEMMA LedgerTypes ==
  /\ Ledger!Task = Task /\ Ledger!Account = Account
  /\ \A u, v : Ledger!AtLeast(u, v) <=> AtLeast(u, v)
BY DEF Ledger!Task, Task, Ledger!TaskState, TaskState, Ledger!Account,
       Account, Ledger!Usage, Usage, Ledger!AtLeast, AtLeast

(* Replaying a settlement does not change what the ledger shows.           *)
LEMMA LedgerRecover ==
  IInv /\ Recover => UNCHANGED <<ledgerTask, ledgerAccount>>
<1>. SUFFICES ASSUME IInv, Recover
              PROVE  UNCHANGED <<ledgerTask, ledgerAccount>>
  OBVIOUS
<1>. USE Typed DEF IInv, StepOK, Pending, Matches, Applied, Torn,
                   ledgerTask, ledgerAccount
<1>1. CASE RecoverNothing \/ RecoverAccepts \/ RecoverRefuses
  BY <1>1 DEF RecoverNothing, RecoverAccepts, RecoverRefuses
<1>2. CASE WriteTask
  BY <1>2 DEF WriteTask
<1>3. CASE WriteAccount
  BY <1>3 DEF WriteAccount
<1>4. CASE WriteSettled
  BY <1>4 DEF WriteSettled, Entry
<1>. QED
  BY <1>1, <1>2, <1>3, <1>4 DEF Recover

LEMMA LedgerStep ==
  IInv /\ IInv' /\ [Next]_vars => [Ledger!Next]_(Ledger!vars)
<1>. SUFFICES ASSUME IInv, IInv', [Next]_vars
              PROVE  [Ledger!Next]_(Ledger!vars)
  OBVIOUS
<1>. USE Typed, LedgerTypes DEF IInv, Ledger!Next, Ledger!vars
<1>1. CASE Recover
  BY <1>1, LedgerRecover
<1>2. CASE \/ Begin \/ Return \/ Raise \/ Crash \/ UNCHANGED vars
  <2>1. UNCHANGED <<taskFile, accountFile, journal>>
    BY <1>2 DEF Begin, Return, Raise, Crash, vars
  <2>. QED
    BY <2>1 DEF ledgerTask, ledgerAccount, Torn, Pending, Matches, Applied
<1>3. CASE Dispatch
  <2>1. ~Torn /\ ~Torn'
    BY <1>3 DEF Dispatch, StepOK, Torn, Pending
  <2>2. Ledger!Charge
    BY <1>3, <2>1 DEF Dispatch, Ledger!Charge, ledgerTask, ledgerAccount
  <2>. QED
    BY <2>2
<1>4. CASE Commit
  <2>1. ~Torn /\ Pending' /\ Matches'
    BY <1>4 DEF Commit, StepOK, Torn, Pending, Matches
  <2>2. /\ ledgerTask = taskFile /\ ledgerAccount = accountFile
        /\ ledgerTask' = journal'.task /\ ledgerAccount' = journal'.account
    BY <2>1 DEF Torn, Applied, ledgerTask, ledgerAccount
  <2>3. journal'.task \in Task /\ journal'.account \in Account
    BY <1>4 DEF Commit, Entry
  <2>4. Ledger!Settle
    BY <1>4, <2>2, <2>3 DEF Commit, Ledger!Settle
  <2>. QED
    BY <2>4
<1>5. CASE Exhaust
  <2>1. ~Torn /\ ~Torn'
    BY <1>5 DEF Exhaust, StepOK, Torn, Pending
  <2>2. /\ taskFile' \in Task
        /\ taskFile'.state = "settled" /\ taskFile'.calls = taskFile.calls
    BY <1>5 DEF Exhaust, Task, TaskState
  <2>3. Ledger!Move
    BY <1>5, <2>1, <2>2 DEF Exhaust, Ledger!Move, ledgerTask, ledgerAccount
  <2>. QED
    BY <2>3
<1>6. CASE Park
  <2>1. ~Torn /\ ~(Pending /\ Matches)
    BY <1>6 DEF Park, StepOK, Torn
  <2>2. ~Torn'
    BY <1>6, <2>1, OvertakenNeverMatches
       DEF Park, RefusalIsSound, Torn, Pending, Matches
  <2>3. Ledger!Park
    BY <1>6, <2>1, <2>2 DEF Park, Ledger!Park, ledgerTask, ledgerAccount
  <2>. QED
    BY <2>3
<1>7. CASE ReviewCharge
  <2>1. ~Torn /\ ~Torn'
    BY <1>7 DEF ReviewCharge, StepOK, Torn
  <2>2. Ledger!Charge
    BY <1>7, <2>1 DEF ReviewCharge, Ledger!Charge, ledgerTask, ledgerAccount
  <2>. QED
    BY <2>2
<1>8. CASE ReviewRelease
  <2>1. ~(Pending /\ Matches)
    BY <1>8 DEF ReviewRelease, StepOK
  <2>2. ASSUME Pending
        PROVE  /\ AtLeast(accountFile'.usage, journal.account.usage)
               /\ accountFile'.usage # journal.account.usage
    <3>1. /\ accountFile'.usage \in Usage
          /\ AtLeast(accountFile'.usage, accountFile.usage)
      BY <1>8 DEF ReviewRelease, Account
    <3>2. /\ AtLeast(accountFile.usage, journal.account.usage)
          /\ accountFile.usage # journal.account.usage
      BY <2>1, <2>2 DEF RefusalIsSound
    <3>. QED
      BY <2>2, <3>1, <3>2, AtLeastTrans, AtLeastAntisym
  <2>3. ~Torn /\ ~Torn'
    BY <1>8, <2>1, <2>2, OvertakenNeverMatches
       DEF ReviewRelease, Torn, Pending, Matches
  <2>4. Ledger!Release
    BY <1>8, <2>3 DEF ReviewRelease, Ledger!Release, ledgerTask, ledgerAccount
  <2>. QED
    BY <2>4
<1>9. CASE ReviewApply
  <2>1. ~Torn /\ ~Torn'
    BY <1>9, OvertakenNeverMatches
       DEF ReviewApply, RefusalIsSound, Torn, Pending, Matches
  <2>2. Ledger!Move
    BY <1>9, <2>1 DEF ReviewApply, Ledger!Move, ledgerTask, ledgerAccount
  <2>. QED
    BY <2>2
<1>. QED
  BY <1>1, <1>2, <1>3, <1>4, <1>5, <1>6, <1>7, <1>8, <1>9
     DEF Next, Advance, Review

(* The two files and their journal implement the one-step ledger.          *)
THEOREM Refinement == Spec => LedgerSpec
BY LedgerInit, LedgerStep, Invariance, PTL DEF Spec, LedgerSpec, Ledger!Spec

=============================================================================
