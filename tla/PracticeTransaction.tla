------------------------ MODULE PracticeTransaction ------------------------
(***************************************************************************)
(* operator_shell/practice_transaction.py and the discipline of its        *)
(* callers: a practice episode keeps a task file and an account file, and  *)
(* commit() settles an attempt on both through a journal file that         *)
(* recover() replays after a crash.  write_json replaces a file            *)
(* atomically, so every file write is one step, and a crash may fall       *)
(* between any two of them.                                                *)
(*                                                                         *)
(* One process at a time acts on an episode (research_lease).  `step' says *)
(* where it is:                                                            *)
(*   idle      nobody is at work                                           *)
(*   recover   recover() has been called and has not yet read the journal  *)
(*   task, account, settle   the next write of recover()                   *)
(*   open      recover() returned; advance() goes on                       *)
(*   review    a reviewer works under its own charge                       *)
(*   raised    the call failed and the scheduler's handler runs            *)
(***************************************************************************)
EXTENDS Naturals

CONSTANTS
  Kind,       \* the spend counters of an account (model_calls, tool_calls, ...)
  Calls,      \* the counter that counts dispatched model calls
  MaxUsage    \* bound on every counter

ASSUME TransactionAssumption == Calls \in Kind /\ MaxUsage \in Nat

VARIABLES
  taskFile,      \* research_methods/episode_tasks/<id>.json
  accountFile,   \* research_methods/episode_accounts/<id>.json
  journal,       \* research_methods/practice_settlements/<id>.json
  step           \* volatile: where the process at work is

vars == <<taskFile, accountFile, journal, step>>

TaskState == {"ready", "settled", "parked"}
Task == [state : TaskState, calls : 0..MaxUsage]
Usage == [Kind -> 0..MaxUsage]
Account == [usage : Usage, inflight : BOOLEAN]

Step == {"idle", "recover", "task", "account", "settle", "open", "review",
         "raised"}

(* A journal names the content both files had (the code keeps digests) and *)
(* the content both are to have.                                           *)
Entry == [state : {"pending", "settled"},
          taskBefore : Task, accountBefore : Account,
          task : Task, account : Account]

NoJournal == [state |-> "none"]

AtLeast(u, v) == \A k \in Kind : u[k] >= v[k]

Pending == journal.state = "pending"

(* Mutant: replay is accepted only while neither file has been written.    *)
MatchesBefore ==
  /\ taskFile = journal.taskBefore
  /\ accountFile = journal.accountBefore

(* Each file still has the content it had, or already has the final one.   *)
Matches ==
  /\ taskFile \in {journal.taskBefore, journal.task}
  /\ accountFile \in {journal.accountBefore, journal.account}

Applied == taskFile = journal.task /\ accountFile = journal.account

(* A settlement that was decided and has not reached both files.           *)
Torn == Pending /\ Matches /\ ~Applied

Init ==
  /\ taskFile = [state |-> "ready", calls |-> 0]
  /\ accountFile = [usage |-> [k \in Kind |-> 0], inflight |-> FALSE]
  /\ journal = NoJournal
  /\ step = "idle"

-----------------------------------------------------------------------------
(* recover()                                                               *)

(* advance() begins with recover().                                        *)
Begin ==
  /\ step = "idle"
  /\ step' = "recover"
  /\ UNCHANGED <<taskFile, accountFile, journal>>

(* Mutant: advance() goes on without replaying.                            *)
RecoverSkipped ==
  /\ step = "recover"
  /\ step' = "open"
  /\ UNCHANGED <<taskFile, accountFile, journal>>

(* Nothing to do: no journal, or a settled one.                            *)
RecoverNothing ==
  /\ step = "recover"
  /\ ~Pending
  /\ step' = "open"
  /\ UNCHANGED <<taskFile, accountFile, journal>>

(* Mutant: the content of the files is not compared with the journal.      *)
RecoverUnchecked ==
  /\ step = "recover"
  /\ Pending
  /\ step' = "task"
  /\ UNCHANGED <<taskFile, accountFile, journal>>

RecoverAccepts ==
  /\ step = "recover"
  /\ Pending /\ Matches
  /\ step' = "task"
  /\ UNCHANGED <<taskFile, accountFile, journal>>

(* practice_settlement_state_changed                                       *)
RecoverRefuses ==
  /\ step = "recover"
  /\ Pending /\ ~Matches
  /\ step' = "raised"
  /\ UNCHANGED <<taskFile, accountFile, journal>>

(* Mutant: the journal is marked settled before the account is written.    *)
WriteTaskThenSettle ==
  /\ step = "task"
  /\ taskFile' = journal.task
  /\ step' = "settle"
  /\ UNCHANGED <<accountFile, journal>>

WriteTask ==
  /\ step = "task"
  /\ taskFile' = journal.task
  /\ step' = "account"
  /\ UNCHANGED <<accountFile, journal>>

WriteAccount ==
  /\ step = "account"
  /\ accountFile' = journal.account
  /\ step' = "settle"
  /\ UNCHANGED <<taskFile, journal>>

(* Mutant: the settled journal keeps nothing of the pending one.           *)
WriteBareSettled ==
  /\ step = "settle"
  /\ journal' = [state |-> "settled"]
  /\ step' = "open"
  /\ UNCHANGED <<taskFile, accountFile>>

WriteSettled ==
  /\ step = "settle"
  /\ journal' = [journal EXCEPT !.state = "settled"]
  /\ step' = "open"
  /\ UNCHANGED <<taskFile, accountFile>>

-----------------------------------------------------------------------------
(* advance() once recover() has returned                                   *)

(* dispatch(): the call is charged before the provider sees it.            *)
Dispatch ==
  /\ step = "open"
  /\ taskFile.state = "ready"
  /\ ~accountFile.inflight
  /\ accountFile' \in Account
  /\ accountFile'.inflight
  /\ AtLeast(accountFile'.usage, accountFile.usage)
  /\ UNCHANGED <<taskFile, journal, step>>

(* Mutant: the task is settled with the calls it projected before.         *)
CommitStaleCalls ==
  /\ step = "open"
  /\ taskFile.state = "ready"
  /\ journal' \in Entry
  /\ journal'.state = "pending"
  /\ journal'.taskBefore = taskFile
  /\ journal'.accountBefore = accountFile
  /\ journal'.task.state # "parked"
  /\ journal'.task.calls = taskFile.calls
  /\ ~journal'.account.inflight
  /\ AtLeast(journal'.account.usage, accountFile.usage)
  /\ step' = "recover"
  /\ UNCHANGED <<taskFile, accountFile>>

(* commit() writes the journal and calls recover().  Its callers pass an   *)
(* account with nothing inflight and a task that projects its calls.       *)
Commit ==
  /\ step = "open"
  /\ taskFile.state = "ready"
  /\ journal' \in Entry
  /\ journal'.state = "pending"
  /\ journal'.taskBefore = taskFile
  /\ journal'.accountBefore = accountFile
  /\ journal'.task.state # "parked"
  /\ journal'.task.calls = journal'.account.usage[Calls]
  /\ ~journal'.account.inflight
  /\ AtLeast(journal'.account.usage, accountFile.usage)
  /\ step' = "recover"
  /\ UNCHANGED <<taskFile, accountFile>>

(* A task whose reservation is used up is closed by a plain write.         *)
Exhaust ==
  /\ step = "open"
  /\ taskFile.state = "ready"
  /\ taskFile' = [taskFile EXCEPT !.state = "settled"]
  /\ UNCHANGED <<accountFile, journal, step>>

Return ==
  /\ step = "open"
  /\ step' = "idle"
  /\ UNCHANGED <<taskFile, accountFile, journal>>

Raise ==
  /\ step = "open"
  /\ step' = "raised"
  /\ UNCHANGED <<taskFile, accountFile, journal>>

(* The scheduler's except clause writes the task it had read before the    *)
(* call, parked, whatever the call has written since.                      *)
Park ==
  /\ step = "raised"
  /\ taskFile' \in Task
  /\ taskFile'.state = "parked"
  /\ step' = "idle"
  /\ UNCHANGED <<accountFile, journal>>

-----------------------------------------------------------------------------
(* Reviewers never call recover().                                         *)

(* charge(): two checks and a time reservation are put on the account.     *)
ReviewCharge ==
  /\ step = "idle"
  /\ ~Torn
  /\ taskFile.state = "settled"
  /\ ~accountFile.inflight
  /\ accountFile' \in Account
  /\ accountFile'.inflight
  /\ AtLeast(accountFile'.usage, accountFile.usage)
  /\ accountFile'.usage # accountFile.usage
  /\ accountFile'.usage[Calls] = accountFile.usage[Calls]
  /\ step' = "review"
  /\ UNCHANGED <<taskFile, journal>>

ReviewRelease ==
  /\ step = "review"
  /\ accountFile.inflight
  /\ accountFile' \in Account
  /\ ~accountFile'.inflight
  /\ AtLeast(accountFile'.usage, accountFile.usage)
  /\ accountFile'.usage[Calls] = accountFile.usage[Calls]
  /\ step' = "idle"
  /\ UNCHANGED <<taskFile, journal>>

(* The decision is applied to the task, under the charge or after it, or   *)
(* by a later call that finds the decision recorded.                       *)
ReviewApply ==
  /\ step \in {"idle", "review"}
  /\ ~(Pending /\ Matches)
  /\ taskFile.state = "settled"
  /\ taskFile' \in Task
  /\ taskFile'.state # "parked"
  /\ taskFile'.calls = taskFile.calls
  /\ UNCHANGED <<accountFile, journal, step>>

-----------------------------------------------------------------------------
(* The process dies; the lease it held is released by the system.          *)
Crash ==
  /\ step # "idle"
  /\ step' = "idle"
  /\ UNCHANGED <<taskFile, accountFile, journal>>

Recover == RecoverNothing \/ RecoverAccepts \/ RecoverRefuses
             \/ WriteTask \/ WriteAccount \/ WriteSettled
Advance == Begin \/ Dispatch \/ Commit \/ Exhaust \/ Return \/ Raise \/ Park
Review == ReviewCharge \/ ReviewRelease \/ ReviewApply

Next == Recover \/ Advance \/ Review \/ Crash

Spec == Init /\ [][Next]_vars

-----------------------------------------------------------------------------
TypeOK ==
  /\ taskFile \in Task
  /\ accountFile \in Account
  /\ journal \in Entry \cup {NoJournal}
  /\ step \in Step

(* Once recover() has returned, no caller works on half a settlement.      *)
SessionSeesWhole == step = "open" => ~Torn

(* Whenever no settlement is half written and nothing is inflight, a task  *)
(* that can still be worked on projects exactly the calls its account was  *)
(* charged for: practice_budget's call_projection_changed cannot be raised *)
(* by a crash.                                                             *)
CallProjection ==
  ~Torn /\ ~accountFile.inflight /\ taskFile.state # "parked"
     => taskFile.calls = accountFile.usage[Calls]

(* A pending journal that no longer matches the files has been overtaken   *)
(* by spend it does not know of: replaying it would roll usage back.       *)
RefusalIsSound ==
  Pending /\ ~Matches =>
     /\ AtLeast(accountFile.usage, journal.account.usage)
     /\ accountFile.usage # journal.account.usage

(* No step, replay included, lowers a retained counter.                    *)
UsageNeverDrops == [][AtLeast(accountFile'.usage, accountFile.usage)]_vars

-----------------------------------------------------------------------------
(* Refinement: a settlement happens when its journal is written.           *)
ledgerTask == IF Torn THEN journal.task ELSE taskFile
ledgerAccount == IF Torn THEN journal.account ELSE accountFile

Ledger == INSTANCE PracticeLedger WITH task <- ledgerTask, account <- ledgerAccount

LedgerSpec == Ledger!Spec
=============================================================================
