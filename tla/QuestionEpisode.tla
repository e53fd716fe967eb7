-------------------------- MODULE QuestionEpisode --------------------------
(***************************************************************************)
(* One recursive_question learning episode: the research worker's tick     *)
(* (learning_episodes.tick) advances it (recursive_loop.advance), its      *)
(* question or capability request is reviewed (recursive_loop.             *)
(* review_question, recursive_expansion.review, recursive_review_queue.    *)
(* shadow) under a charge (lesson_review_budget.charge), and attempts are  *)
(* settled through the journal (practice_transaction).                     *)
(*                                                                         *)
(* Whoever acts holds the research lease, so one process is at work at a   *)
(* time; a crash may fall between any two durable writes and loses `proc'. *)
(* Time is counted in units of the reservations' common divisor.           *)
(***************************************************************************)
EXTENDS Naturals, FiniteSets

CONSTANTS
  MaxCalls,        \* model calls an episode may dispatch
  SecondsCap, ToolCap,            \* the rest of the episode's reservation
  CallSeconds, CallTools,         \* reserved for a call and its validation
  ReviewSeconds, ReviewTools,     \* reserved for one review
  MinSeconds,      \* less than this left: the episode is exhausted
  CallElapsed, ReviewElapsed,     \* the durations the model distinguishes
  MaxCrashes       \* bound: crashes in one behaviour

ASSUME EpisodeAssumption ==
  /\ {MaxCalls, SecondsCap, ToolCap, CallSeconds, CallTools, ReviewSeconds,
      ReviewTools, MinSeconds, MaxCrashes} \subseteq Nat
  /\ ReviewTools # 0
  /\ CallElapsed \subseteq 0..CallSeconds
  /\ ReviewElapsed \subseteq 0..ReviewSeconds

VARIABLES
  task,        \* episode_tasks/<id>.json
  account,     \* episode_accounts/<id>.json
  journal,     \* practice_settlements/<id>.json
  attempts,    \* attempts/: the receipts stored for this episode
  interrupted, \* an episode_interruptions/ receipt names this episode
  reviews,     \* recursive_question_reviews/, recursive_expansion_reviews/
  shadowed,    \* recursive_shadow_reviews/: products shadowed
  charges,     \* lesson_review_charges/: the usage each receipt retains
  provider,    \* history: calls the provider has been sent
  proc,        \* the process at work, and what it holds in memory
  crashes      \* crashes so far

files == <<task, account, journal>>
receipts == <<attempts, interrupted, reviews, shadowed, charges>>
vars == <<task, account, journal, attempts, interrupted, reviews, shadowed,
          charges, provider, proc, crashes>>

-----------------------------------------------------------------------------
Kind == {"model_calls", "tool_calls", "compute_seconds"}

(* An attempt is named by its number; a question or a capability request   *)
(* has the name of the attempt that authored it.  One attempt per call,    *)
(* one that fails before its call, and one such for every crash that keeps *)
(* it from the task.                                                       *)
Attempt == 1..(MaxCalls + 1 + MaxCrashes)
None == 0

TaskState == {"ready", "awaiting_question_review", "awaiting_expansion_review",
              "question_reviewed", "expansion_reviewed",
              "exhausted_requires_review", "awaiting_review"}

(* A rejection does to the task what an approval does, and is one here.    *)
Decision == {"approve", "revise"}

AtLeast(u, v) == \A k \in Kind : u[k] >= v[k]
Inflight(a) == a.inflight.kind # "none"
NoFlight == [kind |-> "none", reserved |-> 0]
Remaining == SecondsCap - account.usage["compute_seconds"]
Least(m, n) == IF m <= n THEN m ELSE n

Idle == [pc |-> "idle"]
At(pc) == proc.pc = pc

Init ==
  /\ task = [state |-> "ready", calls |-> 0, attempts |-> {},
             question |-> None, expansion |-> None, applied |-> {}]
  /\ account = [usage |-> [k \in Kind |-> 0], inflight |-> NoFlight]
  /\ journal = [state |-> "none"]
  /\ attempts = {}
  /\ interrupted = FALSE
  /\ reviews = [n \in Attempt |-> "none"]
  /\ shadowed = {}
  /\ charges = {}
  /\ provider = 0
  /\ proc = Idle
  /\ crashes = 0

-----------------------------------------------------------------------------
(* Mutant: a task whose account shows a call inflight is passed over.      *)
TickSettledOnly ==
  /\ At("idle")
  /\ task.state = "ready" /\ ~Inflight(account)
  /\ proc' = [pc |-> "recover", then |-> "advance", snapshot |-> task]
  /\ UNCHANGED <<files, receipts, provider, crashes>>

(* The worker's tick: the first task that is ready is handed to advance(), *)
(* and an exception parks the task as it was read here.                    *)

Tick ==
  /\ At("idle")
  /\ task.state = "ready"
  /\ proc' = [pc |-> "recover", then |-> "advance", snapshot |-> task]
  /\ UNCHANGED <<files, receipts, provider, crashes>>

Park ==
  /\ At("raised")
  /\ task' = [proc.snapshot EXCEPT !.state = "awaiting_review"]
  /\ proc' = Idle
  /\ UNCHANGED <<account, journal, receipts, provider, crashes>>

-----------------------------------------------------------------------------
(* practice_transaction.recover, called by advance() and by commit().      *)

Pending == journal.state = "pending"
Matches ==
  /\ task \in {journal.taskBefore, journal.task}
  /\ account \in {journal.accountBefore, journal.account}

RecoverNothing ==
  /\ At("recover") /\ ~Pending
  /\ proc' = [proc EXCEPT !.pc = "advance"]
  /\ UNCHANGED <<files, receipts, provider, crashes>>

RecoverAccepts ==
  /\ At("recover") /\ Pending /\ Matches
  /\ proc' = [proc EXCEPT !.pc = "write_task"]
  /\ UNCHANGED <<files, receipts, provider, crashes>>

RecoverRefuses ==
  /\ At("recover") /\ Pending /\ ~Matches
  /\ proc' = [pc |-> "raised", snapshot |-> proc.snapshot]
  /\ UNCHANGED <<files, receipts, provider, crashes>>

WriteTask ==
  /\ At("write_task")
  /\ task' = journal.task
  /\ proc' = [proc EXCEPT !.pc = "write_account"]
  /\ UNCHANGED <<account, journal, receipts, provider, crashes>>

WriteAccount ==
  /\ At("write_account")
  /\ account' = journal.account
  /\ proc' = [proc EXCEPT !.pc = "write_settled"]
  /\ UNCHANGED <<task, journal, receipts, provider, crashes>>

WriteSettled ==
  /\ At("write_settled")
  /\ journal' = [journal EXCEPT !.state = "settled"]
  /\ proc' = [proc EXCEPT !.pc = proc.then]
  /\ UNCHANGED <<task, account, receipts, provider, crashes>>

(* commit(): the journal names both contents of both files.                *)
Commit ==
  /\ At("commit")
  /\ AtLeast(proc.account.usage, account.usage)
  /\ journal' = [state |-> "pending",
                 taskBefore |-> task, accountBefore |-> account,
                 task |-> proc.task, account |-> proc.account]
  /\ proc' = [pc |-> "recover", then |-> "done", snapshot |-> proc.snapshot]
  /\ UNCHANGED <<task, account, receipts, provider, crashes>>

-----------------------------------------------------------------------------
(* recursive_loop.advance after recover().                                 *)

(* A task that is not ready any more is refused.                           *)
NotReady ==
  /\ At("advance")
  /\ task.state # "ready"
  /\ proc' = [pc |-> "raised", snapshot |-> proc.snapshot]
  /\ UNCHANGED <<files, receipts, provider, crashes>>

(* Mutant: the interrupted call is retried.                                *)
RetryInterruption ==
  /\ At("advance")
  /\ task.state = "ready"
  /\ Inflight(account)
  /\ interrupted' = TRUE
  /\ proc' = [pc |-> "commit", snapshot |-> proc.snapshot,
       task |-> [task EXCEPT !.calls = account.usage["model_calls"]],
       account |->
         [usage |-> [account.usage EXCEPT !["compute_seconds"] =
                       @ + account.inflight.reserved],
          inflight |-> NoFlight]]
  /\ UNCHANGED <<files, attempts, reviews, shadowed, charges, provider, crashes>>

(* An inflight charge is the trace of a crash: its reservation is spent,   *)
(* whatever it was reserved for, and the episode is closed.                *)
SettleInterruption ==
  /\ At("advance")
  /\ task.state = "ready"
  /\ Inflight(account)
  /\ interrupted' = TRUE
  /\ proc' = [pc |-> "commit", snapshot |-> proc.snapshot,
       task |-> [task EXCEPT !.state = "exhausted_requires_review",
                             !.calls = account.usage["model_calls"]],
       account |->
         [usage |-> [account.usage EXCEPT !["compute_seconds"] =
                       @ + account.inflight.reserved],
          inflight |-> NoFlight]]
  /\ UNCHANGED <<files, attempts, reviews, shadowed, charges, provider, crashes>>

(* practice_budget: what the receipts retain bounds the account from below *)
(* and the task projects the calls.                                        *)
BudgetAgrees ==
  /\ ~interrupted
  /\ \A r \in attempts : AtLeast(account.usage, r.usage)
  /\ \A u \in charges : AtLeast(account.usage, u)
  /\ account.usage["model_calls"] = task.calls

(* Controls, policies or prepared inputs changed, or the budget disagrees. *)
AdvanceRefused ==
  /\ At("advance")
  /\ task.state = "ready" /\ ~Inflight(account)
  /\ proc' = [pc |-> "raised", snapshot |-> proc.snapshot]
  /\ UNCHANGED <<files, receipts, provider, crashes>>

Spent ==
  \/ task.calls >= MaxCalls
  \/ Remaining < MinSeconds
  \/ account.usage["tool_calls"] + CallTools > ToolCap

Exhaust ==
  /\ At("advance")
  /\ task.state = "ready" /\ ~Inflight(account)
  /\ BudgetAgrees /\ Spent
  /\ task' = [task EXCEPT !.state = "exhausted_requires_review"]
  /\ proc' = [proc EXCEPT !.pc = "done"]
  /\ UNCHANGED <<account, journal, receipts, provider, crashes>>

(* Mutant: the charge is kept in memory until the call returns.            *)
DispatchUnwritten ==
  /\ At("advance")
  /\ task.state = "ready" /\ ~Inflight(account)
  /\ BudgetAgrees /\ ~Spent
  /\ proc' = [pc |-> "dispatched", snapshot |-> proc.snapshot]
  /\ UNCHANGED <<files, receipts, provider, crashes>>

(* dispatch(), the planner's hook: the call is on the account before the   *)
(* provider is reached.                                                    *)
Dispatch ==
  /\ At("advance")
  /\ task.state = "ready" /\ ~Inflight(account)
  /\ BudgetAgrees /\ ~Spent
  /\ account' = [usage |-> [account.usage EXCEPT !["model_calls"] = @ + 1],
                 inflight |-> [kind |-> "call",
                               reserved |-> Least(CallSeconds, Remaining)]]
  /\ proc' = [pc |-> "dispatched", snapshot |-> proc.snapshot]
  /\ UNCHANGED <<task, journal, receipts, provider, crashes>>

CallProvider ==
  /\ At("dispatched")
  /\ provider' = provider + 1
  /\ proc' = [proc EXCEPT !.pc = "called"]
  /\ UNCHANGED <<files, receipts, crashes>>

(* Mutant: the attempt is not listed on the task.                          *)
FinishUnlisted(t, tools, elapsed, product) ==
  LET n == Cardinality(attempts) + 1
      usage == [account.usage EXCEPT !["tool_calls"] = @ + tools,
                                     !["compute_seconds"] = @ + elapsed]
      receipt == [id |-> n, product |-> product, usage |-> usage,
                  dispatched |-> At("called")]
  IN /\ n \in Attempt
     /\ attempts' = attempts \cup {receipt}
     /\ proc' = [pc |-> "commit", snapshot |-> proc.snapshot,
                 task |-> [t EXCEPT !.calls = usage["model_calls"]],
                 account |-> [usage |-> usage, inflight |-> NoFlight]]
     /\ UNCHANGED <<files, interrupted, reviews, shadowed, charges, provider,
                    crashes>>

(* The finally clause: elapsed time is added, the receipt is stored, and   *)
(* commit() is next.  t is the task and tools the checks of the attempt.   *)
Finish(t, tools, elapsed, product) ==
  LET n == Cardinality(attempts) + 1
      usage == [account.usage EXCEPT !["tool_calls"] = @ + tools,
                                     !["compute_seconds"] = @ + elapsed]
      receipt == [id |-> n, product |-> product, usage |-> usage,
                  dispatched |-> At("called")]
  IN /\ n \in Attempt
     /\ attempts' = attempts \cup {receipt}
     /\ proc' = [pc |-> "commit", snapshot |-> proc.snapshot,
                 task |-> [t EXCEPT !.calls = usage["model_calls"],
                                    !.attempts = @ \cup {n}],
                 account |-> [usage |-> usage, inflight |-> NoFlight]]
     /\ UNCHANGED <<files, interrupted, reviews, shadowed, charges, provider,
                    crashes>>

(* Preparation fails before the hook ran: no call is charged and nothing   *)
(* was inflight, but the time is spent, and the episode is closed.         *)
PreparationFails ==
  /\ At("advance")
  /\ task.state = "ready" /\ ~Inflight(account)
  /\ BudgetAgrees /\ ~Spent
  /\ \E e \in CallElapsed :
       /\ e <= Least(CallSeconds, Remaining)
       /\ Finish([task EXCEPT !.state = "exhausted_requires_review"], 0, e, "none")

(* The call or its validation fails: retried while a call is left.         *)
CallFails ==
  /\ At("called")
  /\ \E e \in CallElapsed, tools \in {0, CallTools} :
       /\ e <= account.inflight.reserved
       /\ Finish([task EXCEPT !.state =
                    IF account.usage["model_calls"] < MaxCalls
                      THEN "ready" ELSE "exhausted_requires_review"],
                 tools, e, "none")

CallProposes ==
  /\ At("called")
  /\ \E e \in CallElapsed, product \in {"question", "expansion"} :
       LET n == Cardinality(attempts) + 1
       IN /\ e <= account.inflight.reserved
          /\ Finish(IF product = "question"
                      THEN [task EXCEPT !.state = "awaiting_question_review",
                                        !.question = n]
                      ELSE [task EXCEPT !.state = "awaiting_expansion_review",
                                        !.expansion = n],
                    CallTools, e, product)

Return ==
  /\ At("done")
  /\ proc' = Idle
  /\ UNCHANGED <<files, receipts, provider, crashes>>

-----------------------------------------------------------------------------
(* Reviews.  charge() puts two checks and a time reservation on the        *)
(* account, the body works, and the charge is released and receipted       *)
(* whether the body succeeded or not.                                      *)

Authored(n, product) ==
  \E r \in attempts : r.id = n /\ r.id \in task.attempts /\ r.product = product

(* Mutant: a charge is made while another one is inflight.                 *)
ChargeInflight(job, n, decision) ==
  /\ account.usage["tool_calls"] + ReviewTools <= ToolCap
  /\ account.usage["compute_seconds"] + ReviewSeconds <= SecondsCap
  /\ account' = [usage |-> [account.usage EXCEPT !["tool_calls"] = @ + ReviewTools],
                 inflight |-> [kind |-> "review", reserved |-> ReviewSeconds]]
  /\ proc' = [pc |-> "charged", job |-> job, n |-> n, decision |-> decision]
  /\ UNCHANGED <<task, journal, receipts, provider, crashes>>

(* Mutant: the limit on checks is not looked at.                           *)
ChargeUnlimited(job, n, decision) ==
  /\ ~Inflight(account)
  /\ account.usage["compute_seconds"] + ReviewSeconds <= SecondsCap
  /\ account' = [usage |-> [account.usage EXCEPT !["tool_calls"] = @ + ReviewTools],
                 inflight |-> [kind |-> "review", reserved |-> ReviewSeconds]]
  /\ proc' = [pc |-> "charged", job |-> job, n |-> n, decision |-> decision]
  /\ UNCHANGED <<task, journal, receipts, provider, crashes>>

Charge(job, n, decision) ==
  /\ ~Inflight(account)
  /\ account.usage["tool_calls"] + ReviewTools <= ToolCap
  /\ account.usage["compute_seconds"] + ReviewSeconds <= SecondsCap
  /\ account' = [usage |-> [account.usage EXCEPT !["tool_calls"] = @ + ReviewTools],
                 inflight |-> [kind |-> "review", reserved |-> ReviewSeconds]]
  /\ proc' = [pc |-> "charged", job |-> job, n |-> n, decision |-> decision]
  /\ UNCHANGED <<task, journal, receipts, provider, crashes>>

(* Mutant: a review on record is not looked for.                           *)
ReviewQuestionAgain ==
  /\ At("idle")
  /\ task.state = "awaiting_question_review"
  /\ \E n \in Attempt, d \in Decision :
       /\ task.question = n /\ Authored(n, "question")
       /\ d = "revise" => task.calls < MaxCalls
       /\ Charge("question", n, d)

ReviewQuestion ==
  /\ At("idle")
  /\ task.state = "awaiting_question_review"
  /\ \E n \in Attempt, d \in Decision :
       /\ task.question = n /\ Authored(n, "question")
       /\ reviews[n] = "none"
       /\ d = "revise" => task.calls < MaxCalls
       /\ Charge("question", n, d)

ReviewExpansion ==
  /\ At("idle")
  /\ task.state = "awaiting_expansion_review"
  /\ \E n \in Attempt, d \in Decision \ {"revise"} :
       /\ task.expansion = n /\ Authored(n, "expansion")
       /\ reviews[n] = "none"
       /\ Charge("expansion", n, d)

(* A shadow recommendation costs as much and decides nothing.              *)
Shadow ==
  /\ At("idle")
  /\ \E n \in Attempt \ shadowed :
       /\ \/ task.state = "awaiting_question_review" /\ task.question = n
          \/ task.state = "awaiting_expansion_review" /\ task.expansion = n
       /\ Charge("shadow", n, "none")

(* The replayed measurement disagrees, the adapter fails or has been       *)
(* replaced: nothing is decided, the charge stays.                         *)
ReviewFails ==
  /\ At("charged")
  /\ proc' = [proc EXCEPT !.pc = "release", !.decision = "none"]
  /\ UNCHANGED <<files, receipts, provider, crashes>>

StoreReview ==
  /\ At("charged")
  /\ proc.job # "shadow"
  /\ reviews' = [reviews EXCEPT ![proc.n] = proc.decision]
  /\ proc' = [proc EXCEPT !.pc = IF proc.job = "question" THEN "release" ELSE "apply"]
  /\ UNCHANGED <<files, attempts, interrupted, shadowed, charges, provider, crashes>>

StoreShadow ==
  /\ At("charged")
  /\ proc.job = "shadow"
  /\ shadowed' = shadowed \cup {proc.n}
  /\ proc' = [proc EXCEPT !.pc = "release"]
  /\ UNCHANGED <<files, attempts, interrupted, reviews, charges, provider, crashes>>

Release ==
  /\ At("release")
  /\ \E e \in ReviewElapsed :
       account' = [usage |-> [account.usage EXCEPT !["compute_seconds"] = @ + e],
                   inflight |-> NoFlight]
  /\ proc' = [proc EXCEPT !.pc = "receipt"]
  /\ UNCHANGED <<task, journal, receipts, provider, crashes>>

StoreCharge ==
  /\ At("receipt")
  /\ charges' = charges \cup {account.usage}
  /\ proc' = IF proc.job = "question" /\ proc.decision # "none"
               THEN [proc EXCEPT !.pc = "apply"] ELSE Idle
  /\ UNCHANGED <<files, attempts, interrupted, reviews, shadowed, provider, crashes>>

Reviewed(t, n, product) ==
  [t EXCEPT !.applied = @ \cup {n},
            !.state = IF product = "expansion" THEN "expansion_reviewed"
                      ELSE IF reviews[n] = "revise" THEN "ready"
                      ELSE "question_reviewed"]

(* A question's decision is applied after its charge is released, a        *)
(* capability decision inside it.                                          *)
Apply ==
  /\ At("apply")
  /\ task' = Reviewed(task, proc.n, proc.job)
  /\ proc' = IF proc.job = "question" THEN Idle ELSE [proc EXCEPT !.pc = "release"]
  /\ UNCHANGED <<account, journal, receipts, provider, crashes>>

(* A repeated call with the decision that is on record applies it, if a    *)
(* crash kept it from the task; any other decision is refused.             *)
RetryReview ==
  /\ At("idle")
  /\ \E n \in Attempt \ task.applied, product \in {"question", "expansion"} :
       /\ reviews[n] # "none"
       /\ IF product = "question" THEN task.question = n ELSE task.expansion = n
       /\ task' = Reviewed(task, n, product)
  /\ UNCHANGED <<account, journal, receipts, provider, proc, crashes>>

-----------------------------------------------------------------------------
(* The process dies and the system releases its lease.                     *)
Crash ==
  /\ ~At("idle")
  /\ crashes < MaxCrashes
  /\ proc' = Idle
  /\ crashes' = crashes + 1
  /\ UNCHANGED <<files, receipts, provider>>

(* What a process does once it is at work.                                 *)
Work ==
  \/ Park
  \/ RecoverNothing \/ RecoverAccepts \/ RecoverRefuses
  \/ WriteTask \/ WriteAccount \/ WriteSettled \/ Commit
  \/ NotReady \/ SettleInterruption \/ AdvanceRefused \/ Exhaust
  \/ Dispatch \/ CallProvider \/ PreparationFails \/ CallFails \/ CallProposes
  \/ Return
  \/ ReviewFails \/ StoreReview \/ StoreShadow \/ Release \/ StoreCharge \/ Apply

Start == Tick \/ ReviewQuestion \/ ReviewExpansion \/ Shadow \/ RetryReview

Next == Work \/ Start \/ Crash

Spec == Init /\ [][Next]_vars

(* The worker keeps ticking and a call that was begun goes on until it     *)
(* returns or its process dies; no reviewer ever has to come.              *)
FairSpec == Spec /\ WF_vars(Work) /\ WF_vars(Tick)

-----------------------------------------------------------------------------
Usage == {u \in [Kind -> Nat] : /\ u["model_calls"] <= MaxCalls
                                /\ u["tool_calls"] <= ToolCap
                                /\ u["compute_seconds"] <= SecondsCap}
Flight == [kind : {"none", "call", "review"}, reserved : 0..SecondsCap]
Task == [state : TaskState, calls : 0..MaxCalls, attempts : SUBSET Attempt,
         question : Attempt \cup {None}, expansion : Attempt \cup {None},
         applied : SUBSET Attempt]
Account == [usage : Usage, inflight : Flight]

TypeOK ==
  /\ task \in Task
  /\ account \in Account
  /\ journal.state \in {"none", "pending", "settled"}
  /\ journal.state # "none" =>
       /\ {journal.taskBefore, journal.task} \subseteq Task
       /\ {journal.accountBefore, journal.account} \subseteq Account
  /\ attempts \subseteq [id : Attempt, product : {"none", "question", "expansion"},
                         usage : Usage, dispatched : BOOLEAN]
  /\ reviews \in [Attempt -> Decision \cup {"none"}]
  /\ charges \subseteq Usage
  /\ provider \in Nat

(* However often the worker dies and restarts, the provider was never sent *)
(* a call that the account does not show, nor more calls than the episode  *)
(* reserved, and the reservation that admission set aside covers all that  *)
(* the episode ever charges, inflight reservations included.               *)
(* (recursive_loop.py:225 charges before the provider is reached; a        *)
(* restart must not renew the call.)                                       *)
ChargesCovered ==
  /\ provider <= account.usage["model_calls"]
  /\ account.usage["model_calls"] <= MaxCalls
  /\ account.usage["tool_calls"] <= ToolCap
  /\ account.usage["compute_seconds"] + account.inflight.reserved <= SecondsCap

(* A ready task that reaches practice_budget at rest agrees with its       *)
(* account in everything but one: no interruption is on record, the calls  *)
(* are projected, every review charge and every receipt of a call or of an *)
(* attempt the task lists is covered (learning_episodes.py:156, 199, 206). *)
(* What line 198 may refuse is the receipt of a failed preparation that a  *)
(* crash cut off from its journal, and no other.                           *)
BudgetMissesOnlyPreparation ==
  At("advance") /\ task.state = "ready" /\ ~Inflight(account) =>
    /\ ~interrupted
    /\ account.usage["model_calls"] = task.calls
    /\ \A u \in charges : AtLeast(account.usage, u)
    /\ \A r \in attempts :
         r.dispatched \/ r.id \in task.attempts => AtLeast(account.usage, r.usage)

(* A question or request that is open to review, or reviewed, was authored *)
(* by an attempt the task lists and the account paid for.                  *)
ReviewedWasPaid ==
  \A product \in {"question", "expansion"} :
    LET n == IF product = "question" THEN task.question ELSE task.expansion
    IN /\ n # None
       /\ task.state \in {"awaiting_question_review", "question_reviewed",
                          "awaiting_expansion_review", "expansion_reviewed"}
       => /\ Authored(n, product)
          /\ ~Inflight(account) =>
               \E r \in attempts : r.id = n /\ AtLeast(account.usage, r.usage)

(* A decision that was stored is never replaced, by a retry, a second      *)
(* reviewer or a restart.                                                  *)
DecisionsStand ==
  [][\A n \in Attempt : reviews[n] # "none" => reviews'[n] = reviews[n]]_vars

(* A settlement that was decided and has not reached both files.           *)
Torn == Pending /\ Matches
          /\ ~(task = journal.task /\ account = journal.account)
Completed == journal.state = "settled" /\ task = journal.task
               /\ account = journal.account

(* A settlement cut off before its task write, which finds the task still  *)
(* ready, is completed in both files and marked, unless the worker dies    *)
(* once more: the tick takes the task up and recover() replays the journal *)
(* (learning_episodes.py:263, practice_transaction.py:24-42).              *)
TornReadyCompletes ==
  \A n \in 0..MaxCrashes :
    Torn /\ task.state = "ready" /\ crashes = n ~> Completed \/ crashes > n

-----------------------------------------------------------------------------
(* What the code says of itself.                                           *)

(* "Durable, idempotent settlement across the task/account write boundary" *)
(* (practice_transaction.py:1): a settlement whose journal was written is  *)
(* completed in both files.                                                *)
SettlementCompletes == Torn ~> ~Torn

-----------------------------------------------------------------------------
(* The episode is one use of the settlement protocol.                      *)
StepOf ==
  [idle |-> "idle", recover |-> "recover", write_task |-> "task",
   write_account |-> "account", write_settled |-> "settle",
   advance |-> "open", dispatched |-> "open", called |-> "open",
   commit |-> "open", done |-> "open", charged |-> "review",
   release |-> "review", receipt |-> "idle", raised |-> "raised"]

step == IF At("apply") THEN IF Inflight(account) THEN "review" ELSE "idle"
        ELSE StepOf[proc.pc]

TaskOf(t) ==
  [state |-> IF t.state = "ready" THEN "ready"
             ELSE IF t.state = "awaiting_review" THEN "parked" ELSE "settled",
   calls |-> t.calls]
AccountOf(a) == [usage |-> a.usage, inflight |-> Inflight(a)]
JournalOf ==
  IF journal.state = "none" THEN journal
  ELSE [state |-> journal.state,
        taskBefore |-> TaskOf(journal.taskBefore),
        accountBefore |-> AccountOf(journal.accountBefore),
        task |-> TaskOf(journal.task), account |-> AccountOf(journal.account)]

Transaction == INSTANCE PracticeTransaction
  WITH Calls <- "model_calls", MaxUsage <- MaxCalls + SecondsCap + ToolCap,
       taskFile <- TaskOf(task), accountFile <- AccountOf(account),
       journal <- JournalOf

TransactionSpec == Transaction!Spec
=============================================================================
