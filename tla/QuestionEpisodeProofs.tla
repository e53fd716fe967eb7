------------------------ MODULE QuestionEpisodeProofs ------------------------
(***************************************************************************)
(* For any limits, durations and number of crashes: an episode never       *)
(* charges more than its admission set aside, the provider is never sent a *)
(* call that is not on the account, a decision stands, the budget's checks *)
(* never refuse a ready task, and an episode is a use of the settlement    *)
(* protocol, so that what is proved of the protocol holds of it.           *)
(*                                                                         *)
(* What is not on the account yet is in the journal or in the memory of    *)
(* the process, so the first invariant (IInv) says of the account, of the  *)
(* one in a pending journal and of the one a commit is about to announce   *)
(* that they stay within the limits (Within), and that each covers the one *)
(* before it.  The second (EInv) says which receipts each of them covers,  *)
(* which products a task may wait for, and when a journal is out of date.  *)
(***************************************************************************)
EXTENDS QuestionEpisode, FiniteSetTheorems, TLAPS

-----------------------------------------------------------------------------
(* What the process holds, by the place it has come to.                    *)
Replaying == {"recover", "write_task", "write_account", "write_settled"}
Reviewing == {"charged", "release", "receipt", "apply"}
Job == {"question", "expansion", "shadow"}

Within(a) ==
  a \in Account /\ a.usage["compute_seconds"] + a.inflight.reserved <= SecondsCap

Caller == [pc : Replaying \cup {"advance", "done"}, then : {"advance", "done"},
           snapshot : Task]
Calling == [pc : {"dispatched", "called", "raised"}, snapshot : Task]
Committing == [pc : {"commit"}, snapshot : Task, task : Task,
               account : {a \in Account : Within(a)}]
Reviewer == [pc : Reviewing, job : Job, n : Attempt, decision : Decision \cup {"none"}]

Charged == [kind |-> "review", reserved |-> ReviewSeconds]

ProcOK ==
  /\ proc \in {Idle} \cup Caller \cup Calling \cup Committing \cup Reviewer
  /\ proc.pc \in {"write_task", "write_account", "write_settled"} =>
       Pending /\ account \in {journal.accountBefore, journal.account}
  /\ At("dispatched") => provider < account.usage["model_calls"]
  /\ At("dispatched") \/ At("called") => account.usage["tool_calls"] + CallTools <= ToolCap
  /\ At("charged") =>
       proc.job = "shadow" \/ (reviews[proc.n] = "none" /\ proc.decision \in Decision)
  /\ At("charged") \/ At("release") \/ (At("apply") /\ proc.job # "question") =>
       account.inflight = Charged

Entry == [state : {"pending", "settled"}, taskBefore : Task, accountBefore : Account,
          task : Task, account : Account]
JournalOK ==
  /\ journal \in {[state |-> "none"]} \cup Entry
  /\ journal.state # "none" =>
       Within(journal.account) /\ AtLeast(journal.account.usage, journal.accountBefore.usage)

IInv ==
  /\ TypeOK /\ ProcOK /\ JournalOK
  /\ Within(account) /\ provider <= account.usage["model_calls"]

-----------------------------------------------------------------------------
LEMMA Limits ==
  /\ MaxCalls \in Nat /\ SecondsCap \in Nat /\ ToolCap \in Nat /\ CallSeconds \in Nat
  /\ CallTools \in Nat /\ ReviewSeconds \in Nat /\ ReviewTools \in Nat
  /\ \A e \in CallElapsed \cup ReviewElapsed : e \in Nat
  /\ \A e \in ReviewElapsed : e <= ReviewSeconds
  BY EpisodeAssumption

LEMMA Counters ==
  ASSUME NEW u \in Usage
  PROVE  /\ u["model_calls"] \in 0..MaxCalls /\ u["tool_calls"] \in 0..ToolCap
         /\ u["compute_seconds"] \in 0..SecondsCap
  BY Limits DEF Usage, Kind

\* What an attempt uses is within the limits.
Fits(tools, elapsed) ==
  /\ account.usage["tool_calls"] + tools <= ToolCap
  /\ account.usage["compute_seconds"] + elapsed <= SecondsCap

\* A counter grows.
LEMMA Grown ==
  ASSUME NEW u \in Usage, NEW x \in Nat, NEW y \in Nat,
         NEW v, v = [u EXCEPT !["tool_calls"] = @ + x, !["compute_seconds"] = @ + y],
         u["tool_calls"] + x <= ToolCap, u["compute_seconds"] + y <= SecondsCap
  PROVE  /\ v \in Usage /\ v["model_calls"] = u["model_calls"]
         /\ v["tool_calls"] = u["tool_calls"] + x
         /\ v["compute_seconds"] = u["compute_seconds"] + y
  BY Limits, Counters DEF Usage, Kind

LEMMA Flights ==
  /\ NoFlight \in Flight /\ NoFlight.reserved = 0 /\ NoFlight.kind = "none"
  /\ \A k \in {"call", "review"}, x \in 0..SecondsCap :
       /\ [kind |-> k, reserved |-> x] \in Flight
  BY Limits DEF NoFlight, Flight

LEMMA Accounts ==
  ASSUME NEW u, NEW i
  PROVE  /\ u \in Usage /\ i \in Flight =>
              [usage |-> u, inflight |-> i] \in Account
         /\ [usage |-> u, inflight |-> i].usage = u
         /\ [usage |-> u, inflight |-> i].inflight = i
  BY DEF Account

LEMMA Spending ==
  ASSUME NEW a, Within(a)
  PROVE  /\ a \in Account /\ a.usage \in Usage /\ a.inflight \in Flight
         /\ a.inflight.reserved \in 0..SecondsCap
         /\ a.usage["compute_seconds"] + a.inflight.reserved \in 0..SecondsCap
         /\ a.usage["model_calls"] \in 0..MaxCalls /\ a.usage["tool_calls"] \in 0..ToolCap
         /\ a.usage["compute_seconds"] \in 0..SecondsCap
<1>1. a \in Account /\ a.usage \in Usage /\ a.inflight \in Flight
  BY DEF Within, Account
<1>2. a.inflight.reserved \in 0..SecondsCap
  BY <1>1 DEF Flight
<1> QED
  BY <1>1, <1>2, Counters, Limits DEF Within

\* There is room for the time an attempt may take.
LEMMA Room ==
  ASSUME NEW a, Within(a), NEW e \in CallElapsed,
         e <= a.inflight.reserved
           \/ e <= Least(CallSeconds, SecondsCap - a.usage["compute_seconds"])
  PROVE  e \in Nat /\ a.usage["compute_seconds"] + e <= SecondsCap
<1>1. /\ a.inflight.reserved \in 0..SecondsCap /\ a.usage["compute_seconds"] \in 0..SecondsCap
      /\ a.usage["compute_seconds"] + a.inflight.reserved \in 0..SecondsCap
  BY Spending
<1>2. e \in Nat
  BY Limits
<1> QED
  BY <1>1, <1>2, Limits DEF Least

\* What is held at each place.
LEMMA Places ==
  ASSUME ProcOK
  PROVE  /\ proc.pc \in Replaying \cup {"advance", "done"} => proc \in Caller
         /\ proc.pc \in {"dispatched", "called", "raised"} => proc \in Calling
         /\ proc.pc = "commit" => proc \in Committing
         /\ proc.pc \in Reviewing => proc \in Reviewer
  BY DEF ProcOK, Idle, Caller, Calling, Committing, Reviewer, Replaying, Reviewing

LEMMA Journals ==
  ASSUME JournalOK, journal.state # "none"
  PROVE  /\ journal \in Entry /\ Within(journal.account)
         /\ journal.task \in Task /\ journal.accountBefore \in Account
         /\ journal.account.usage["model_calls"] >= journal.accountBefore.usage["model_calls"]
<1>1. journal \in Entry
  BY DEF JournalOK
<1> QED
  BY <1>1 DEF JournalOK, Entry, AtLeast, Kind

LEMMA Tasks ==
  ASSUME NEW t \in Task
  PROVE  /\ \A q \in TaskState : [t EXCEPT !.state = q] \in Task
         /\ \A q \in TaskState, m \in 0..MaxCalls :
              [t EXCEPT !.state = q, !.calls = m] \in Task
         /\ \A m \in 0..MaxCalls, n \in Attempt :
              [t EXCEPT !.calls = m, !.attempts = @ \cup {n}] \in Task
         /\ \A q \in TaskState, n \in Attempt :
              /\ [t EXCEPT !.state = q, !.question = n] \in Task
              /\ [t EXCEPT !.state = q, !.expansion = n] \in Task
              /\ [t EXCEPT !.applied = @ \cup {n}, !.state = q] \in Task
  BY DEF Task

-----------------------------------------------------------------------------
(* The scheduler's tick and the replay of the journal.                     *)
LEMMA Ticks ==
  ASSUME IInv, Tick \/ Park \/ Return \/ Crash
  PROVE  IInv'
<1>1. UNCHANGED <<account, journal, receipts, provider>>
  BY DEF Tick, Park, Return, Crash, files
<1>2. task' \in Task
  <2>1. CASE Park
    <3>1. proc.snapshot \in Task
      BY <2>1, Places DEF Park, At, IInv, Calling
    <3> QED
      BY <2>1, <3>1, Tasks DEF Park, TaskState
  <2>2. CASE Tick \/ Return \/ Crash
    BY <2>2 DEF Tick, Return, Crash, files, IInv, TypeOK
  <2> QED
    BY <2>1, <2>2
<1>3. proc' = Idle \/ (proc' \in Caller /\ proc'.pc = "recover")
  BY DEF Tick, Park, Return, Crash, Caller, Replaying, IInv, TypeOK
<1>4. TypeOK' /\ JournalOK' /\ Within(account') /\ provider' <= account'.usage["model_calls"]
  BY <1>1, <1>2 DEF IInv, TypeOK, JournalOK, receipts
<1>5. ProcOK'
  BY <1>3 DEF ProcOK, Idle, At
<1> QED
  BY <1>4, <1>5 DEF IInv, Within

LEMMA Recovery ==
  ASSUME IInv, RecoverNothing \/ RecoverAccepts \/ RecoverRefuses \/ WriteTask
               \/ WriteAccount \/ WriteSettled
  PROVE  IInv'
<1>1. proc \in Caller /\ proc.pc \in Replaying /\ UNCHANGED <<receipts, provider>>
  BY Places DEF RecoverNothing, RecoverAccepts, RecoverRefuses, WriteTask, WriteAccount,
     WriteSettled, At, IInv, Replaying
<1>2. ASSUME NEW pc \in Replaying \cup {"advance", "done"}, proc' = [proc EXCEPT !.pc = pc]
      PROVE  proc' \in Caller /\ proc'.pc = pc
  BY <1>1, <1>2 DEF Caller
<1>3. CASE RecoverNothing \/ RecoverAccepts \/ RecoverRefuses
  <2>1. UNCHANGED files
    BY <1>3 DEF RecoverNothing, RecoverAccepts, RecoverRefuses
  <2>2. TypeOK' /\ JournalOK' /\ Within(account') /\ provider' <= account'.usage["model_calls"]
    BY <1>1, <2>1 DEF IInv, TypeOK, JournalOK, receipts, files
  <2>3. ProcOK'
    <3>1. CASE RecoverNothing
      BY <1>2, <3>1 DEF RecoverNothing, ProcOK, At
    <3>2. CASE RecoverAccepts
      <4>1. proc' \in Caller /\ proc'.pc = "write_task"
        BY <1>2, <3>2 DEF RecoverAccepts, Replaying
      <4>2. Pending' /\ account' \in {journal'.accountBefore, journal'.account}
        BY <2>1, <3>2 DEF RecoverAccepts, Matches, Pending, files
      <4> QED
        BY <4>1, <4>2 DEF ProcOK, At
    <3>3. CASE RecoverRefuses
      <4>1. proc' \in Calling /\ proc'.pc = "raised"
        BY <1>1, <3>3 DEF RecoverRefuses, Calling, Caller
      <4> QED
        BY <4>1 DEF ProcOK, At
    <3> QED
      BY <1>3, <3>1, <3>2, <3>3
  <2> QED
    BY <2>2, <2>3 DEF IInv, Within
<1>4. ASSUME proc.pc \in {"write_task", "write_account", "write_settled"}
      PROVE  /\ Pending /\ account \in {journal.accountBefore, journal.account}
             /\ journal \in Entry /\ Within(journal.account) /\ journal.task \in Task
             /\ provider <= journal.account.usage["model_calls"]
  <2>1. Pending /\ account \in {journal.accountBefore, journal.account}
    BY <1>4 DEF IInv, ProcOK
  <2>2. /\ journal \in Entry /\ Within(journal.account) /\ journal.task \in Task
        /\ journal.account.usage["model_calls"] >= journal.accountBefore.usage["model_calls"]
    BY <2>1, Journals DEF Pending, IInv
  <2>3. /\ provider \in Nat /\ account.usage["model_calls"] \in Nat
        /\ journal.account.usage["model_calls"] \in Nat
        /\ provider <= account.usage["model_calls"]
    BY <2>2, Spending, Limits DEF IInv, TypeOK
  <2> QED
    BY <2>1, <2>2, <2>3
<1>5. CASE WriteTask
  <2>1. task' = journal.task /\ UNCHANGED <<account, journal>>
    BY <1>5 DEF WriteTask
  <2>2. proc' \in Caller /\ proc'.pc = "write_account"
    BY <1>2, <1>5 DEF WriteTask, Replaying
  <2>3. TypeOK' /\ JournalOK' /\ Within(account') /\ provider' <= account'.usage["model_calls"]
    BY <1>1, <1>4, <1>5, <2>1 DEF IInv, TypeOK, JournalOK, receipts, WriteTask, At
  <2>4. ProcOK'
    BY <1>4, <1>5, <2>1, <2>2 DEF ProcOK, WriteTask, At, Pending
  <2> QED
    BY <2>3, <2>4 DEF IInv, Within
<1>6. CASE WriteAccount
  <2>1. account' = journal.account /\ UNCHANGED <<task, journal>> /\ proc.pc = "write_account"
    BY <1>6 DEF WriteAccount, At
  <2>2. proc' \in Caller /\ proc'.pc = "write_settled"
    BY <1>2, <1>6 DEF WriteAccount, Replaying
  <2>3. account' \in Account /\ Within(account') /\ provider' <= account'.usage["model_calls"]
    BY <1>1, <1>4, <2>1 DEF Within
  <2>4. TypeOK' /\ JournalOK'
    BY <1>1, <2>1, <2>3 DEF IInv, TypeOK, JournalOK, receipts
  <2>5. ProcOK'
    BY <1>4, <2>1, <2>2 DEF ProcOK, At, Pending
  <2> QED
    BY <2>3, <2>4, <2>5 DEF IInv, Within
<1>7. CASE WriteSettled
  <2>1. /\ journal' = [journal EXCEPT !.state = "settled"] /\ UNCHANGED <<task, account>>
        /\ proc.pc = "write_settled" /\ proc' = [proc EXCEPT !.pc = proc.then]
    BY <1>7 DEF WriteSettled, At
  <2>2. proc' \in Caller /\ proc'.pc \in {"advance", "done"}
    <3>1. proc.then \in {"advance", "done"}
      BY <1>1 DEF Caller
    <3> QED
      BY <1>2, <2>1, <3>1
  <2>3. /\ journal' \in Entry /\ journal'.account = journal.account
        /\ journal'.accountBefore = journal.accountBefore
        /\ journal'.task = journal.task /\ journal'.taskBefore = journal.taskBefore
        /\ journal.state # "none" /\ journal'.state = "settled"
    BY <1>4, <2>1 DEF Entry, Pending
  <2>4. TypeOK'
    BY <1>1, <2>1, <2>3 DEF IInv, TypeOK, receipts
  <2>5. JournalOK'
    BY <2>3 DEF IInv, JournalOK, Within, AtLeast
  <2>6. ProcOK'
    BY <2>2 DEF ProcOK, At
  <2> QED
    BY <1>1, <2>1, <2>4, <2>5, <2>6 DEF IInv, Within
<1> QED
  BY <1>3, <1>5, <1>6, <1>7

-----------------------------------------------------------------------------
(* The worker's attempt.                                                   *)

\* A step that leaves the files alone and brings the process to a commit.
LEMMA ToCommit ==
  ASSUME IInv, NEW t \in Task, NEW a, Within(a), NEW s \in Task,
         proc' = [pc |-> "commit", snapshot |-> s, task |-> t, account |-> a],
         UNCHANGED <<files, provider, reviews, charges, crashes>>,
         attempts' \subseteq [id : Attempt, product : {"none", "question", "expansion"},
                              usage : Usage, dispatched : BOOLEAN]
  PROVE  IInv'
<1>1. TypeOK' /\ JournalOK' /\ Within(account') /\ provider' <= account'.usage["model_calls"]
  BY DEF IInv, TypeOK, JournalOK, files
<1>2. proc' \in Committing /\ proc'.pc = "commit"
  BY DEF Committing, Within
<1>3. ProcOK'
  BY <1>2 DEF ProcOK, At
<1> QED
  BY <1>1, <1>3 DEF IInv, Within

LEMMA FinishStep ==
  ASSUME IInv, NEW t \in Task, NEW tools \in Nat, NEW elapsed \in Nat,
         NEW product \in {"none", "question", "expansion"},
         Fits(tools, elapsed), proc.snapshot \in Task,
         Finish(t, tools, elapsed, product)
  PROVE  IInv'
<1> DEFINE n == Cardinality(attempts) + 1
           u == account.usage
           v == [u EXCEPT !["tool_calls"] = @ + tools, !["compute_seconds"] = @ + elapsed]
<1>1. /\ n \in Attempt
      /\ attempts' = attempts \cup {[id |-> n, product |-> product, usage |-> v,
                                    dispatched |-> At("called")]}
      /\ proc' = [pc |-> "commit", snapshot |-> proc.snapshot,
                  task |-> [t EXCEPT !.calls = v["model_calls"], !.attempts = @ \cup {n}],
                  account |-> [usage |-> v, inflight |-> NoFlight]]
      /\ UNCHANGED <<files, interrupted, reviews, shadowed, charges, provider, crashes>>
  BY DEF Finish
<1>2. /\ u \in Usage /\ account.inflight.reserved \in 0..SecondsCap
      /\ u["compute_seconds"] \in 0..SecondsCap /\ u["tool_calls"] \in 0..ToolCap
      /\ u["compute_seconds"] + account.inflight.reserved <= SecondsCap
  BY Spending DEF IInv, Within
<1>3. u["tool_calls"] + tools <= ToolCap /\ u["compute_seconds"] + elapsed <= SecondsCap
  BY DEF Fits
<1>4. v \in Usage /\ v["compute_seconds"] = u["compute_seconds"] + elapsed
  BY <1>2, <1>3, Grown
<1> HIDE DEF v, n, u
<1>5. Within([usage |-> v, inflight |-> NoFlight])
  <2>1. [usage |-> v, inflight |-> NoFlight] \in Account
    BY <1>4, Flights, Accounts
  <2>2. v["compute_seconds"] + 0 <= SecondsCap
    BY <1>2, <1>3, <1>4
  <2> QED
    BY <2>1, <2>2, Flights DEF Within
<1>6. [t EXCEPT !.calls = v["model_calls"], !.attempts = @ \cup {n}] \in Task
  BY <1>1, <1>4, Counters, Tasks
<1>7. attempts' \subseteq [id : Attempt, product : {"none", "question", "expansion"},
                           usage : Usage, dispatched : BOOLEAN]
  <2>1. At("called") \in BOOLEAN
    BY DEF At
  <2>2. [id |-> n, product |-> product, usage |-> v, dispatched |-> At("called")]
          \in [id : Attempt, product : {"none", "question", "expansion"},
               usage : Usage, dispatched : BOOLEAN]
    BY <1>1, <1>4, <2>1
  <2> QED
    BY <1>1, <2>2 DEF IInv, TypeOK
<1> QED
  BY <1>1, <1>5, <1>6, <1>7, ToCommit

LEMMA Advances ==
  ASSUME IInv, Commit \/ NotReady \/ AdvanceRefused \/ Exhaust \/ SettleInterruption
  PROVE  IInv'
<1>1. CASE Commit
  <2>1. proc \in Committing
    BY <1>1, Places DEF Commit, At, IInv
  <2>2. /\ proc.task \in Task /\ Within(proc.account) /\ proc.snapshot \in Task
        /\ AtLeast(proc.account.usage, account.usage)
    BY <1>1, <2>1 DEF Committing, Commit
  <2>3. /\ journal' = [state |-> "pending", taskBefore |-> task, accountBefore |-> account,
                       task |-> proc.task, account |-> proc.account]
        /\ proc' = [pc |-> "recover", then |-> "done", snapshot |-> proc.snapshot]
        /\ UNCHANGED <<task, account, receipts, provider, crashes>>
    BY <1>1 DEF Commit
  <2>4. journal' \in Entry /\ journal'.account = proc.account
        /\ journal'.accountBefore = account
    BY <2>2, <2>3 DEF Entry, IInv, TypeOK, Within
  <2>5. JournalOK'
    BY <2>2, <2>4 DEF JournalOK, AtLeast, Within
  <2>6. TypeOK'
    BY <2>3, <2>4 DEF IInv, TypeOK, receipts, Entry
  <2>7. ProcOK'
    <3>1. proc' \in Caller /\ proc'.pc = "recover"
      BY <2>2, <2>3 DEF Caller, Replaying
    <3> QED
      BY <3>1 DEF ProcOK, At
  <2> QED
    BY <2>3, <2>5, <2>6, <2>7 DEF IInv, Within
<1>2. ASSUME At("advance")
      PROVE  proc \in Caller /\ proc.snapshot \in Task
  BY <1>2, Places DEF At, IInv, Caller
<1>3. CASE NotReady \/ AdvanceRefused
  <2>1. proc' = [pc |-> "raised", snapshot |-> proc.snapshot]
        /\ UNCHANGED <<files, receipts, provider, crashes>>
    BY <1>3 DEF NotReady, AdvanceRefused
  <2>2. proc' \in Calling /\ proc'.pc = "raised"
    BY <1>2, <1>3, <2>1 DEF NotReady, AdvanceRefused, Calling
  <2>3. ProcOK'
    BY <2>2 DEF ProcOK, At
  <2> QED
    BY <2>1, <2>3 DEF IInv, TypeOK, JournalOK, files, receipts, Within
<1>4. CASE Exhaust
  <2>1. /\ task' = [task EXCEPT !.state = "exhausted_requires_review"]
        /\ proc' = [proc EXCEPT !.pc = "done"]
        /\ UNCHANGED <<account, journal, receipts, provider, crashes>>
    BY <1>4 DEF Exhaust
  <2>2. task' \in Task
    BY <2>1, Tasks DEF IInv, TypeOK, TaskState
  <2>3. proc' \in Caller /\ proc'.pc = "done"
    BY <1>2, <1>4, <2>1 DEF Exhaust, Caller
  <2>4. ProcOK'
    BY <2>3 DEF ProcOK, At
  <2> QED
    BY <2>1, <2>2, <2>4 DEF IInv, TypeOK, JournalOK, receipts, Within
<1>5. CASE SettleInterruption
  <2> DEFINE u == account.usage
             v == [u EXCEPT !["compute_seconds"] = @ + account.inflight.reserved]
             t == [task EXCEPT !.state = "exhausted_requires_review",
                               !.calls = u["model_calls"]]
             a == [usage |-> v, inflight |-> NoFlight]
  <2>1. /\ proc' = [pc |-> "commit", snapshot |-> proc.snapshot, task |-> t, account |-> a]
        /\ UNCHANGED <<files, attempts, reviews, shadowed, charges, provider, crashes>>
    BY <1>5 DEF SettleInterruption
  <2>2. /\ u \in Usage /\ account.inflight.reserved \in Nat
        /\ u["model_calls"] \in 0..MaxCalls
        /\ u["compute_seconds"] + account.inflight.reserved \in 0..SecondsCap
    BY Spending, Limits DEF IInv
  <2>3. v \in Usage /\ v["compute_seconds"] = u["compute_seconds"] + account.inflight.reserved
    BY <2>2, Limits, Counters DEF Usage, Kind
  <2>4. t \in Task
    BY <2>2, Tasks DEF IInv, TypeOK, TaskState
  <2> HIDE DEF v, t, u
  <2>5. Within(a)
    <3>1. a \in Account /\ a.usage = v /\ a.inflight = NoFlight
      BY <2>3, Flights, Accounts
    <3> HIDE DEF a
    <3> QED
      BY <2>2, <2>3, <3>1, Flights DEF Within
  <2> HIDE DEF a
  <2>6. attempts' \subseteq [id : Attempt, product : {"none", "question", "expansion"},
                             usage : Usage, dispatched : BOOLEAN]
    BY <2>1 DEF IInv, TypeOK
  <2>7. proc.snapshot \in Task
    BY <1>2, <1>5 DEF SettleInterruption
  <2> QED
    BY <2>1, <2>4, <2>5, <2>6, <2>7, ToCommit
<1> QED
  BY <1>1, <1>3, <1>4, <1>5

LEMMA Calls ==
  ASSUME IInv, Dispatch \/ CallProvider
  PROVE  IInv'
<1>1. CASE Dispatch
  <2> DEFINE u == account.usage
             v == [u EXCEPT !["model_calls"] = @ + 1]
             i == [kind |-> "call", reserved |-> Least(CallSeconds, Remaining)]
  <2>1. /\ account' = [usage |-> v, inflight |-> i]
        /\ proc' = [pc |-> "dispatched", snapshot |-> proc.snapshot]
        /\ UNCHANGED <<task, journal, receipts, provider, crashes>>
        /\ At("advance") /\ task.calls = u["model_calls"]
        /\ ~(task.calls >= MaxCalls) /\ ~(u["tool_calls"] + CallTools > ToolCap)
    BY <1>1 DEF Dispatch, BudgetAgrees, Spent
  <2>2. /\ u \in Usage /\ u["model_calls"] \in 0..MaxCalls /\ u["tool_calls"] \in 0..ToolCap
        /\ u["compute_seconds"] \in 0..SecondsCap
        /\ provider \in Nat /\ provider <= u["model_calls"]
    BY Spending DEF IInv, TypeOK
  <2>3. u["model_calls"] + 1 <= MaxCalls /\ u["tool_calls"] + CallTools <= ToolCap
    BY <2>1, <2>2, Limits
  <2>4. /\ v \in Usage /\ v["model_calls"] = u["model_calls"] + 1
        /\ v["tool_calls"] = u["tool_calls"] /\ v["compute_seconds"] = u["compute_seconds"]
    BY <2>2, <2>3, Limits, Counters DEF Usage, Kind
  <2>5. /\ i.reserved \in 0..SecondsCap /\ i.kind = "call"
        /\ u["compute_seconds"] + i.reserved <= SecondsCap
    <3>1. Least(CallSeconds, Remaining) \in 0..(SecondsCap - u["compute_seconds"])
      BY <2>2, Limits DEF Least, Remaining
    <3> QED
      BY <2>2, <3>1, Limits
  <2>6. i \in Flight
    BY <2>5, Flights
  <2> HIDE DEF i, v
  <2>7. /\ Within(account') /\ account'.usage = v /\ account'.inflight = i
        /\ account' \in Account
    <3>1. account' \in Account /\ account'.usage = v /\ account'.inflight = i
      BY <2>1, <2>4, <2>6, Accounts
    <3> QED
      BY <2>4, <2>5, <3>1 DEF Within
  <2>8. provider' < account'.usage["model_calls"] /\ provider' <= account'.usage["model_calls"]
    <3> HIDE DEF u
    <3> QED
      BY <2>1, <2>2, <2>4, <2>7
  <2>9. ProcOK'
    <3>1. proc' \in Calling /\ proc'.pc = "dispatched"
      BY <2>1, Places DEF At, IInv, Caller, Calling
    <3> HIDE DEF u
    <3>2. account'.usage["tool_calls"] + CallTools <= ToolCap
      BY <2>3, <2>4, <2>7
    <3> QED
      BY <2>8, <3>1, <3>2 DEF ProcOK, At
  <2>10. TypeOK' /\ JournalOK'
    BY <2>1, <2>7 DEF IInv, TypeOK, JournalOK, receipts
  <2> QED
    BY <2>7, <2>8, <2>9, <2>10 DEF IInv
<1>2. CASE CallProvider
  <2>1. /\ provider' = provider + 1 /\ proc' = [proc EXCEPT !.pc = "called"]
        /\ UNCHANGED <<files, receipts, crashes>> /\ proc.pc = "dispatched"
    BY <1>2 DEF CallProvider, At
  <2>2. /\ provider \in Nat /\ account.usage["model_calls"] \in Nat
        /\ provider < account.usage["model_calls"]
        /\ account.usage["tool_calls"] + CallTools <= ToolCap
    BY <2>1, Spending, Limits DEF IInv, TypeOK, ProcOK, At
  <2>3. provider' \in Nat /\ provider' <= account'.usage["model_calls"]
    BY <2>1, <2>2 DEF files
  <2>4. ProcOK'
    <3>1. proc' \in Calling /\ proc'.pc = "called"
      BY <2>1, Places DEF IInv, Calling
    <3> QED
      BY <2>1, <2>2, <3>1 DEF ProcOK, At, files
  <2>5. TypeOK' /\ JournalOK' /\ Within(account')
    BY <2>1, <2>3 DEF IInv, TypeOK, JournalOK, receipts, files
  <2> QED
    BY <2>3, <2>4, <2>5 DEF IInv
<1> QED
  BY <1>1, <1>2

LEMMA Finishes ==
  ASSUME IInv, PreparationFails \/ CallFails \/ CallProposes
  PROVE  IInv'
<1>1. task \in Task /\ account.usage["tool_calls"] \in 0..ToolCap
      /\ account.inflight.reserved \in 0..SecondsCap
  BY Spending DEF IInv, TypeOK
<1>2. CASE PreparationFails
  <2>1. PICK e \in CallElapsed :
          /\ Finish([task EXCEPT !.state = "exhausted_requires_review"], 0, e, "none")
          /\ At("advance") /\ e <= Least(CallSeconds, Remaining)
    BY <1>2 DEF PreparationFails
  <2>2. [task EXCEPT !.state = "exhausted_requires_review"] \in Task /\ proc.snapshot \in Task
    BY <1>1, <2>1, Tasks, Places DEF TaskState, At, IInv, Caller
  <2>3. account.usage["tool_calls"] + 0 <= ToolCap
    BY <1>1, Limits
  <2>4. e \in Nat /\ account.usage["compute_seconds"] + e <= SecondsCap
    BY <2>1, Room DEF IInv, Remaining
  <2> QED
    BY <2>1, <2>2, <2>3, <2>4, FinishStep DEF Fits
<1>3. ASSUME At("called")
      PROVE  /\ proc.snapshot \in Task
             /\ \A tools \in {0, CallTools} :
                  tools \in Nat /\ account.usage["tool_calls"] + tools <= ToolCap
  <2>1. proc.snapshot \in Task
    BY <1>3, Places DEF At, IInv, Calling
  <2>2. account.usage["tool_calls"] + CallTools <= ToolCap
    BY <1>3 DEF IInv, ProcOK
  <2> QED
    BY <1>1, <2>1, <2>2, Limits
<1>4. CASE CallFails
  <2>1. PICK e \in CallElapsed, tools \in {0, CallTools},
             q \in {"ready", "exhausted_requires_review"} :
          e <= account.inflight.reserved
          /\ Finish([task EXCEPT !.state = q], tools, e, "none")
    BY <1>4 DEF CallFails
  <2>2. /\ [task EXCEPT !.state = q] \in Task /\ e \in Nat
        /\ account.usage["compute_seconds"] + e <= SecondsCap
    BY <1>1, <2>1, Tasks, Room DEF TaskState, IInv
  <2> QED
    BY <1>3, <1>4, <2>1, <2>2, FinishStep DEF CallFails, Fits
<1>5. CASE CallProposes
  <2> DEFINE n == Cardinality(attempts) + 1
             T(product) == IF product = "question"
                             THEN [task EXCEPT !.state = "awaiting_question_review",
                                               !.question = n]
                             ELSE [task EXCEPT !.state = "awaiting_expansion_review",
                                               !.expansion = n]
  <2>1. PICK e \in CallElapsed, product \in {"question", "expansion"} :
          e <= account.inflight.reserved /\ Finish(T(product), CallTools, e, product)
    BY <1>5 DEF CallProposes
  <2>2. n \in Attempt
    BY <2>1 DEF Finish
  <2>3. T(product) \in Task
    BY <1>1, <2>1, <2>2, Tasks DEF TaskState
  <2>4. e \in Nat /\ account.usage["compute_seconds"] + e <= SecondsCap
    BY <2>1, Room DEF IInv
  <2> HIDE DEF T
  <2> QED
    BY <1>3, <1>5, <2>1, <2>3, <2>4, FinishStep DEF CallProposes, Fits
<1> QED
  BY <1>2, <1>4, <1>5

-----------------------------------------------------------------------------
(* Reviews.                                                                *)

\* A reservation taken up front leaves room for the elapsed time.
LEMMA ChargeStep ==
  ASSUME IInv, NEW job \in Job, NEW n \in Attempt, NEW d \in Decision \cup {"none"},
         Charge(job, n, d),
         job = "shadow" \/ (reviews[n] = "none" /\ d \in Decision)
  PROVE  IInv'
<1> DEFINE u == account.usage
           v == [u EXCEPT !["tool_calls"] = @ + ReviewTools]
<1>1. /\ u["tool_calls"] + ReviewTools <= ToolCap
      /\ u["compute_seconds"] + ReviewSeconds <= SecondsCap
      /\ account' = [usage |-> v, inflight |-> Charged]
      /\ proc' = [pc |-> "charged", job |-> job, n |-> n, decision |-> d]
      /\ UNCHANGED <<task, journal, receipts, provider, crashes>>
  BY DEF Charge, Charged
<1>2. /\ u \in Usage /\ u["compute_seconds"] \in 0..SecondsCap
      /\ u["tool_calls"] \in 0..ToolCap
      /\ provider \in Nat /\ provider <= u["model_calls"]
  BY Spending DEF IInv, TypeOK
<1>3. /\ v \in Usage /\ v["model_calls"] = u["model_calls"]
      /\ v["compute_seconds"] = u["compute_seconds"]
  BY <1>1, <1>2, Limits, Counters DEF Usage, Kind
<1>4. Charged \in Flight /\ Charged.reserved = ReviewSeconds
  BY <1>1, <1>2, Limits DEF Charged, Flight
<1> HIDE DEF v
<1>5. account' \in Account /\ account'.usage = v /\ account'.inflight = Charged
  BY <1>1, <1>3, <1>4, Accounts
<1> HIDE DEF u
<1>6. Within(account') /\ provider' <= account'.usage["model_calls"]
  BY <1>1, <1>2, <1>3, <1>4, <1>5 DEF Within
<1>7. TypeOK' /\ JournalOK'
  BY <1>1, <1>5 DEF IInv, TypeOK, JournalOK, receipts, Within
<1>8. ProcOK'
  <2>1. proc' \in Reviewer /\ proc'.pc = "charged"
    BY <1>1 DEF Reviewer, Reviewing
  <2>2. proc'.job = job /\ proc'.n = n /\ proc'.decision = d /\ reviews' = reviews
    BY <1>1 DEF receipts
  <2> QED
    BY <1>5, <2>1, <2>2 DEF ProcOK, At
<1> QED
  BY <1>6, <1>7, <1>8 DEF IInv

LEMMA Charges ==
  ASSUME IInv, ReviewQuestion \/ ReviewExpansion \/ Shadow
  PROVE  IInv'
<1>1. PICK job \in Job, n \in Attempt, d \in Decision \cup {"none"} :
        Charge(job, n, d) /\ (job = "shadow" \/ (reviews[n] = "none" /\ d \in Decision))
  <2>1. CASE ReviewQuestion
    <3>1. PICK n \in Attempt, d \in Decision :
            reviews[n] = "none" /\ Charge("question", n, d)
      BY <2>1 DEF ReviewQuestion
    <3> QED
      BY <3>1 DEF Job
  <2>2. CASE ReviewExpansion
    <3>1. PICK n \in Attempt, d \in Decision :
            reviews[n] = "none" /\ Charge("expansion", n, d)
      BY <2>2 DEF ReviewExpansion
    <3> QED
      BY <3>1 DEF Job
  <2>3. CASE Shadow
    <3>1. PICK n \in Attempt : Charge("shadow", n, "none")
      BY <2>3 DEF Shadow
    <3> QED
      BY <3>1 DEF Job
  <2> QED
    BY <2>1, <2>2, <2>3
<1> QED
  BY <1>1, ChargeStep

LEMMA Stores ==
  ASSUME IInv, ReviewFails \/ StoreReview \/ StoreShadow
  PROVE  IInv'
<1>1. /\ UNCHANGED <<files, attempts, charges, provider>> /\ proc.pc = "charged"
      /\ proc \in Reviewer /\ account.inflight = Charged
  BY Places DEF ReviewFails, StoreReview, StoreShadow, At, IInv, ProcOK, Reviewing, receipts
<1>2. reviews' \in [Attempt -> Decision \cup {"none"}]
  <2>1. CASE StoreReview
    BY <1>1, <2>1 DEF StoreReview, IInv, TypeOK, Reviewer
  <2>2. CASE ReviewFails \/ StoreShadow
    BY <2>2 DEF ReviewFails, StoreShadow, receipts, IInv, TypeOK
  <2> QED
    BY <2>1, <2>2
<1>3. /\ proc' \in Reviewer /\ proc'.pc \in {"release", "apply"}
  BY <1>1 DEF ReviewFails, StoreReview, StoreShadow, Reviewer, Reviewing
<1>4. TypeOK' /\ JournalOK' /\ Within(account') /\ provider' <= account'.usage["model_calls"]
  BY <1>1, <1>2 DEF IInv, TypeOK, JournalOK, files
<1>5. ProcOK'
  BY <1>1, <1>3 DEF ProcOK, At, files
<1> QED
  BY <1>4, <1>5 DEF IInv, Within

LEMMA Releases ==
  ASSUME IInv, Release \/ StoreCharge
  PROVE  IInv'
<1>1. CASE Release
  <2>1. PICK e \in ReviewElapsed :
          account' = [usage |-> [account.usage EXCEPT !["compute_seconds"] = @ + e],
                      inflight |-> NoFlight]
    BY <1>1 DEF Release
  <2> DEFINE u == account.usage
             v == [u EXCEPT !["compute_seconds"] = @ + e]
  <2>2. /\ proc' = [proc EXCEPT !.pc = "receipt"] /\ proc \in Reviewer
        /\ UNCHANGED <<task, journal, receipts, provider, crashes>>
        /\ account.inflight.reserved = ReviewSeconds
    BY <1>1, Places DEF Release, IInv, ProcOK, At, Charged, Reviewing
  <2>3. /\ u \in Usage /\ u["compute_seconds"] \in 0..SecondsCap
        /\ u["compute_seconds"] + ReviewSeconds <= SecondsCap
        /\ e \in Nat /\ e <= ReviewSeconds
        /\ provider <= u["model_calls"]
    BY <2>2, Spending, Limits DEF IInv, Within
  <2>4. u["compute_seconds"] + e \in 0..SecondsCap
    BY <2>3, Limits
  <2>5. /\ v \in Usage /\ v["model_calls"] = u["model_calls"]
        /\ v["compute_seconds"] = u["compute_seconds"] + e
    BY <2>3, <2>4, Limits, Counters DEF Usage, Kind
  <2> HIDE DEF v
  <2>6. account' \in Account /\ account'.usage = v /\ account'.inflight = NoFlight
    BY <2>1, <2>5, Flights, Accounts DEF v
  <2> HIDE DEF u
  <2>7. Within(account') /\ provider' <= account'.usage["model_calls"]
    BY <2>2, <2>3, <2>4, <2>5, <2>6, Flights DEF Within
  <2>8. proc' \in Reviewer /\ proc'.pc = "receipt"
    BY <2>2 DEF Reviewer, Reviewing
  <2>9. TypeOK' /\ JournalOK' /\ ProcOK'
    BY <2>2, <2>6, <2>8 DEF IInv, TypeOK, JournalOK, ProcOK, At, receipts, Within
  <2> QED
    BY <2>7, <2>9 DEF IInv
<1>2. CASE StoreCharge
  <2>1. /\ charges' = charges \cup {account.usage}
        /\ UNCHANGED <<files, attempts, interrupted, reviews, shadowed, provider, crashes>>
        /\ proc \in Reviewer
        /\ proc' = Idle \/ (proc' = [proc EXCEPT !.pc = "apply"] /\ proc.job = "question")
    BY <1>2, Places DEF StoreCharge, IInv, At, Reviewing
  <2>2. account.usage \in Usage
    BY Spending DEF IInv
  <2>3. proc' = Idle \/ (proc' \in Reviewer /\ proc'.pc = "apply" /\ proc'.job = "question")
    BY <2>1 DEF Reviewer, Reviewing
  <2>4. ProcOK'
    BY <2>3 DEF ProcOK, At, Idle
  <2> QED
    BY <2>1, <2>2, <2>4 DEF IInv, TypeOK, JournalOK, files, Within
<1> QED
  BY <1>1, <1>2

LEMMA Applies ==
  ASSUME IInv, Apply \/ RetryReview
  PROVE  IInv'
<1>1. ASSUME NEW n \in Attempt, NEW product
      PROVE  Reviewed(task, n, product) \in Task
  BY Tasks DEF Reviewed, IInv, TypeOK, TaskState
<1>2. CASE Apply
  <2>1. /\ task' = Reviewed(task, proc.n, proc.job) /\ proc.pc = "apply"
        /\ proc' = IF proc.job = "question" THEN Idle ELSE [proc EXCEPT !.pc = "release"]
        /\ UNCHANGED <<account, journal, receipts, provider, crashes>>
    BY <1>2 DEF Apply, At
  <2>2. proc \in Reviewer /\ (proc.job # "question" => account.inflight = Charged)
    BY <2>1, Places DEF IInv, ProcOK, At, Reviewing, Reviewer, Job
  <2>3. task' \in Task
    BY <1>1, <2>1, <2>2 DEF Reviewer
  <2>4. ProcOK'
    <3>1. proc' = Idle \/ (proc' \in Reviewer /\ proc'.pc = "release"
                             /\ account' = account /\ account.inflight = Charged)
      BY <2>1, <2>2 DEF Reviewer, Reviewing
    <3> QED
      BY <3>1 DEF ProcOK, At, Idle
  <2> QED
    BY <2>1, <2>3, <2>4 DEF IInv, TypeOK, JournalOK, receipts, Within
<1>3. CASE RetryReview
  <2>1. /\ UNCHANGED <<account, journal, receipts, provider, proc, crashes>>
        /\ proc.pc = "idle" /\ task' \in Task
    BY <1>1, <1>3 DEF RetryReview, At
  <2>2. ProcOK'
    BY <2>1 DEF IInv, ProcOK, At
  <2> QED
    BY <2>1, <2>2 DEF IInv, TypeOK, JournalOK, receipts, Within
<1> QED
  BY <1>2, <1>3

-----------------------------------------------------------------------------
LEMMA Initially ==
  Init => IInv
<1> SUFFICES ASSUME Init PROVE IInv
  OBVIOUS
<1> DEFINE u == [k \in Kind |-> 0]
<1>1. /\ u \in Usage /\ u["model_calls"] = 0 /\ u["compute_seconds"] = 0
  BY Limits DEF Usage, Kind
<1> HIDE DEF u
<1>2. account \in Account /\ account.usage = u /\ account.inflight = NoFlight
  BY <1>1, Flights, Accounts DEF Init, u
<1>3. Within(account) /\ provider <= account.usage["model_calls"]
  BY <1>1, <1>2, Flights, Limits DEF Within, Init
<1>4. task \in Task
  BY Limits DEF Init, Task, TaskState, None
<1>5. TypeOK
  BY <1>2, <1>4 DEF Init, TypeOK
<1>6. JournalOK /\ ProcOK
  BY DEF Init, JournalOK, ProcOK, At, Idle
<1> QED
  BY <1>3, <1>5, <1>6 DEF IInv

LEMMA Stuttering ==
  ASSUME IInv, UNCHANGED vars
  PROVE  IInv'
BY DEF vars, IInv, TypeOK, ProcOK, JournalOK, Within, At, Pending

LEMMA Invariance ==
  Spec => []IInv
<1>1. IInv /\ [Next]_vars => IInv'
  <2> SUFFICES ASSUME IInv, [Next]_vars PROVE IInv'
    OBVIOUS
  <2>1. CASE Tick \/ Park \/ Return \/ Crash
    BY <2>1, Ticks
  <2>2. CASE RecoverNothing \/ RecoverAccepts \/ RecoverRefuses \/ WriteTask
               \/ WriteAccount \/ WriteSettled
    BY <2>2, Recovery
  <2>3. CASE Commit \/ NotReady \/ AdvanceRefused \/ Exhaust \/ SettleInterruption
    BY <2>3, Advances
  <2>4. CASE Dispatch \/ CallProvider
    BY <2>4, Calls
  <2>5. CASE PreparationFails \/ CallFails \/ CallProposes
    BY <2>5, Finishes
  <2>6. CASE ReviewQuestion \/ ReviewExpansion \/ Shadow
    BY <2>6, Charges
  <2>7. CASE ReviewFails \/ StoreReview \/ StoreShadow
    BY <2>7, Stores
  <2>8. CASE Release \/ StoreCharge
    BY <2>8, Releases
  <2>9. CASE Apply \/ RetryReview
    BY <2>9, Applies
  <2>10. CASE UNCHANGED vars
    BY <2>10, Stuttering
  <2> QED
    BY <2>1, <2>2, <2>3, <2>4, <2>5, <2>6, <2>7, <2>8, <2>9, <2>10 DEF Next, Work, Start
<1> QED
  BY Initially, <1>1, PTL DEF Spec

-----------------------------------------------------------------------------
(* Tasks, accounts, receipts and both sides of the journal stay within the *)
(* types the files are read with.                                          *)
THEOREM TypeCorrect == Spec => []TypeOK
<1>1. IInv => TypeOK
  BY DEF IInv
<1> QED
  BY Invariance, <1>1, PTL

(* Whatever crashes between two writes, the account shows every call the   *)
(* provider was sent, and what it spent and still holds inflight never     *)
(* exceeds what the admission set aside (recursive_loop.py:225).           *)
THEOREM Covered == Spec => []ChargesCovered
<1>1. IInv => ChargesCovered
  BY Spending, Limits DEF IInv, Within, ChargesCovered, TypeOK
<1> QED
  BY Invariance, <1>1, PTL

(* A decision on record is never replaced: a review stores its decision    *)
(* where none was when it was charged, and nothing comes between.          *)
THEOREM DecisionKept == Spec => DecisionsStand
<1> DEFINE Stands == \A n \in Attempt : reviews[n] # "none" => reviews'[n] = reviews[n]
<1>1. IInv /\ [Next]_vars => [Stands]_vars
  <2> SUFFICES ASSUME IInv, Next PROVE Stands
    OBVIOUS
  <2>1. CASE StoreReview
    <3>1. /\ proc.job # "shadow" /\ proc.pc = "charged"
          /\ reviews' = [reviews EXCEPT ![proc.n] = proc.decision]
      BY <2>1 DEF StoreReview, At
    <3>2. reviews[proc.n] = "none" /\ reviews \in [Attempt -> Decision \cup {"none"}]
      BY <3>1 DEF IInv, ProcOK, TypeOK, At
    <3> QED
      BY <3>1, <3>2
  <2>2. CASE ~StoreReview
    <3>1. reviews' = reviews
      BY <2>2 DEF Next, Work, Start, Tick, Park, RecoverNothing, RecoverAccepts,
         RecoverRefuses, WriteTask, WriteAccount, WriteSettled, Commit, NotReady,
         SettleInterruption, AdvanceRefused, Exhaust, Dispatch, CallProvider,
         PreparationFails, CallFails, CallProposes, Finish, Return, ReviewFails,
         StoreShadow, Release, StoreCharge, Apply, ReviewQuestion, ReviewExpansion,
         Shadow, Charge, RetryReview, Crash, receipts
    <3> QED
      BY <3>1
  <2> QED
    BY <2>1, <2>2
<1> QED
  BY Invariance, <1>1, PTL DEF Spec, DecisionsStand

-----------------------------------------------------------------------------
(* The episode implements the protocol.  Protocol carries the invariant of *)
(* PracticeTransactionProofs over to what the protocol sees of an episode; *)
(* Protocol!StepOK and Protocol!RefusalIsSound say when a journal may      *)
(* still be replayed.  What they do not say is in the parts of EInv.       *)
Protocol == INSTANCE PracticeTransactionProofs
  WITH Calls <- "model_calls", MaxUsage <- MaxCalls + SecondsCap + ToolCap,
       taskFile <- TaskOf(task), accountFile <- AccountOf(account),
       journal <- JournalOf

Replayable == Pending /\ Matches

\* The episode may still be worked on or reviewed.
Live(t) == t.state \notin {"exhausted_requires_review", "awaiting_review"}

\* Only what the task waits for has not been applied to it.
Sound(t) ==
  /\ t.question \notin t.applied \cup {None} => t.state = "awaiting_question_review"
  /\ t.expansion \notin t.applied \cup {None} => t.state = "awaiting_expansion_review"

\* A product is that of an attempt the task lists.
Sourced(t) ==
  /\ t.question # None =>
       \E r \in attempts : r.id = t.question /\ r.id \in t.attempts /\ r.product = "question"
  /\ t.expansion # None =>
       \E r \in attempts : r.id = t.expansion /\ r.id \in t.attempts /\ r.product = "expansion"

\* What has not been applied has not been reviewed either.
Unreviewed(t) ==
  \A n \in {t.question, t.expansion} \ (t.applied \cup {None}) : reviews[n] = "none"

\* The calls made are paid for.
Covers(u) == \A r \in attempts : r.dispatched => AtLeast(u, r.usage)

\* What a task that goes on lists are attempts, and none failed before its call.
Clean(t) ==
  /\ \A n \in t.attempts : \E r \in attempts : r.id = n
  /\ \A r \in attempts : r.dispatched \/ r.id \notin t.attempts

\* A settlement: of a ready task, with an account at rest, with its receipts.
Settlement(t, a) ==
  /\ Sound(t) /\ Sourced(t) /\ Unreviewed(t) /\ t.state # "awaiting_review"
  /\ t.calls = a.usage["model_calls"] /\ ~Inflight(a)
  /\ Live(t) => Covers(a.usage) /\ Clean(t) /\ ~interrupted

Fresh ==
  /\ IsFiniteSet(attempts)
  /\ \A r \in attempts : r.id <= Cardinality(attempts) /\ (r.product = "none" \/ r.dispatched)
  /\ \A n \in Attempt : reviews[n] # "none" => \E r \in attempts : r.id = n

TaskSound == Sound(task) /\ Sourced(task) /\ (Live(task) => Clean(task))

JournalSound ==
  Pending =>
    /\ journal.taskBefore.state = "ready"
    /\ Live(journal.task) =>
         Inflight(journal.accountBefore) \/ journal.accountBefore.usage = journal.account.usage
    /\ Matches => Settlement(journal.task, journal.account)
    /\ ~Matches => /\ AtLeast(account.usage, journal.account.usage)
                   /\ account.usage # journal.account.usage

ReviewSound ==
  /\ ~Replayable /\ task.state # "ready"
  /\ proc.job = "question" =>
       task.state = "awaiting_question_review" /\ task.question = proc.n
  /\ proc.job = "expansion" /\ proc.pc \in {"charged", "apply"} =>
       task.state = "awaiting_expansion_review" /\ task.expansion = proc.n
  /\ proc.job # "shadow" => \E r \in attempts : r.id = proc.n
  /\ At("receipt") \/ (At("apply") /\ proc.job = "question") => ~Inflight(account)
  /\ At("apply") => proc.job # "shadow"

ProcSound ==
  /\ proc.pc \in Replaying \cup {"advance", "done", "dispatched", "called", "raised", "commit"} =>
       proc.snapshot.state = "ready" /\ Sound(proc.snapshot) /\ Sourced(proc.snapshot)
  /\ proc.pc \in {"write_account", "write_settled"} => task = journal.task
  /\ At("write_settled") => account = journal.account
  /\ proc.pc \in {"dispatched", "called"} =>
       /\ task.state = "ready" /\ account.inflight.kind = "call"
       /\ Covers(account.usage) /\ ~interrupted
  /\ At("commit") =>
       /\ task.state = "ready" /\ Settlement(proc.task, proc.account)
       /\ Live(proc.task) => Inflight(account) \/ proc.account.usage = account.usage
  /\ proc.pc \in Reviewing => ReviewSound

AccountSound ==
  /\ \A u \in charges : AtLeast(account.usage, u)
  /\ Live(task) /\ account.inflight.kind # "call" /\ ~Replayable => Covers(account.usage)
  /\ Live(task) /\ interrupted => task.state = "ready" /\ Inflight(account)

EInv == Fresh /\ TaskSound /\ JournalSound /\ ProcSound /\ AccountSound

Full == IInv /\ Protocol!IInv /\ EInv

LEMMA Parameters ==
  /\ "model_calls" \in Kind /\ MaxCalls + SecondsCap + ToolCap \in Nat
  /\ Kind = {"model_calls", "tool_calls", "compute_seconds"}
  BY EpisodeAssumption DEF Kind

\* What the protocol sees.
LEMMA SeenTask ==
  ASSUME NEW t \in Task
  PROVE  /\ TaskOf(t) \in Protocol!Task /\ TaskOf(t).calls = t.calls
         /\ TaskOf(t).state = IF t.state = "ready" THEN "ready"
                              ELSE IF t.state = "awaiting_review" THEN "parked" ELSE "settled"
<1>1. t.calls \in 0..MaxCalls
  BY DEF Task
<1>2. t.calls \in 0..(MaxCalls + SecondsCap + ToolCap)
  BY <1>1, Limits
<1> QED
  BY <1>2 DEF TaskOf, Protocol!Task, Protocol!TaskState

LEMMA SeenUsage ==
  ASSUME NEW u \in Usage
  PROVE  u \in Protocol!Usage
<1>1. \A k \in Kind : u[k] \in 0..(MaxCalls + SecondsCap + ToolCap)
  BY Counters, Limits DEF Kind
<1> QED
  BY <1>1 DEF Usage, Protocol!Usage

LEMMA SeenAccount ==
  ASSUME NEW a \in Account
  PROVE  /\ AccountOf(a) \in Protocol!Account /\ AccountOf(a).usage = a.usage
         /\ AccountOf(a).inflight = Inflight(a)
<1>1. a.usage \in Protocol!Usage
  BY SeenUsage DEF Account
<1> QED
  BY <1>1 DEF AccountOf, Inflight, Protocol!Account

LEMMA SeenJournal ==
  /\ Protocol!Pending <=> Pending
  /\ Pending => /\ JournalOf.task = TaskOf(journal.task)
                /\ JournalOf.account = AccountOf(journal.account)
                /\ JournalOf.taskBefore = TaskOf(journal.taskBefore)
                /\ JournalOf.accountBefore = AccountOf(journal.accountBefore)
                /\ Matches => Protocol!Matches
  BY DEF Protocol!Pending, Pending, JournalOf, Matches, Protocol!Matches

LEMMA Ordered ==
  /\ \A u, v : Protocol!AtLeast(u, v) <=> AtLeast(u, v)
  /\ \A u \in Usage : AtLeast(u, u)
  /\ \A u, v, w \in Usage : AtLeast(u, v) /\ AtLeast(v, w) => AtLeast(u, w)
  /\ \A u, v \in Usage : AtLeast(u, v) /\ AtLeast(v, u) => u = v
<1>1. \A u, v : Protocol!AtLeast(u, v) <=> AtLeast(u, v)
  BY DEF Protocol!AtLeast, AtLeast
<1> QED
  BY <1>1, SeenUsage, Parameters, Protocol!AtLeastRefl, Protocol!AtLeastTrans,
     Protocol!AtLeastAntisym

\* Who spent more than the settlement knows of cannot be taken back to it.
LEMMA Overtaken ==
  ASSUME Full, Pending, NEW a \in Account,
         AtLeast(a.usage, journal.account.usage), a.usage # journal.account.usage
  PROVE  /\ AccountOf(a) \notin {JournalOf.accountBefore, JournalOf.account}
         /\ a \notin {journal.accountBefore, journal.account}
<1>1. journal.account \in Account /\ Protocol!TypeOK /\ Protocol!JournalOK
  BY Journals DEF Pending, Full, IInv, Within, Protocol!IInv
<1>2. /\ JournalOf.account = AccountOf(journal.account)
      /\ JournalOf.accountBefore = AccountOf(journal.accountBefore)
      /\ AccountOf(a) \in Protocol!Account /\ AccountOf(a).usage = a.usage
      /\ AccountOf(journal.account).usage = journal.account.usage
  BY <1>1, SeenJournal, SeenAccount
<1>3. /\ Protocol!AtLeast(AccountOf(a).usage, JournalOf.account.usage)
      /\ AccountOf(a).usage # JournalOf.account.usage
  BY <1>2, Ordered
<1>4. AccountOf(a) \notin {JournalOf.accountBefore, JournalOf.account}
  BY <1>1, <1>2, <1>3, Parameters, SeenJournal, Protocol!OvertakenNeverMatches
<1> QED
  BY <1>2, <1>4

\* The protocol refuses a replay exactly when the code does.
LEMMA SeenMatches ==
  ASSUME Full, Pending
  PROVE  Protocol!Matches <=> Matches
<1>1. CASE ~Matches
  <2>1. AtLeast(account.usage, journal.account.usage) /\ account.usage # journal.account.usage
    BY <1>1 DEF Full, EInv, JournalSound
  <2>2. AccountOf(account) \notin {JournalOf.accountBefore, JournalOf.account}
    BY <2>1, Overtaken DEF Full, IInv, TypeOK
  <2> QED
    BY <1>1, <2>2 DEF Protocol!Matches
<1> QED
  BY <1>1, SeenJournal

\* The protocol's step, by the place the process has come to.
Placed ==
  /\ proc.pc \in {"idle", "recover", "raised"} => step = proc.pc
  /\ proc.pc = "write_task" => step = "task"
  /\ proc.pc = "write_account" => step = "account"
  /\ proc.pc = "write_settled" => step = "settle"
  /\ proc.pc \in {"advance", "dispatched", "called", "commit", "done"} => step = "open"
  /\ proc.pc \in {"charged", "release"} => step = "review"
  /\ proc.pc = "receipt" => step = "idle"
  /\ proc.pc = "apply" => step = IF Inflight(account) THEN "review" ELSE "idle"
LEMMA Placing == Placed /\ Placed'
  BY DEF Placed, step, StepOf, At

\* What the protocol's invariant says of an episode.
LEMMA Carried ==
  ASSUME Full
  PROVE  /\ proc.pc \in {"advance", "dispatched", "called", "commit", "done"} => ~Pending
         /\ proc.pc \in {"raised", "charged", "release"} => ~Replayable
         /\ proc.pc \in {"write_task", "write_account", "write_settled"} => Replayable
         /\ proc.pc = "apply" /\ Inflight(account) => ~Replayable
<1>1. Placed /\ Protocol!StepOK /\ (Protocol!Pending <=> Pending)
  BY Placing, SeenJournal DEF Full, Protocol!IInv
<1>2. Pending => (Protocol!Matches <=> Matches)
  BY SeenMatches
<1>3. proc.pc \in {"write_task", "write_account", "write_settled"} => Replayable
  BY <1>1, <1>2 DEF Placed, Protocol!StepOK, Protocol!Applied, Protocol!Matches, Replayable
<1> QED
  BY <1>1, <1>2, <1>3 DEF Placed, Protocol!StepOK, Replayable

-----------------------------------------------------------------------------
(* Every step of an episode is a step of the protocol, or none of it.      *)
Maps == Protocol!Next \/ UNCHANGED Protocol!vars

LEMMA Seen ==
  /\ UNCHANGED task => UNCHANGED TaskOf(task)
  /\ UNCHANGED account => UNCHANGED AccountOf(account)
  /\ UNCHANGED journal => UNCHANGED JournalOf
  BY DEF TaskOf, AccountOf, JournalOf, Inflight

LEMMA TickMaps ==
  ASSUME Full, Tick \/ Park \/ Return \/ Crash \/ NotReady \/ AdvanceRefused
  PROVE  Maps
<1>1. UNCHANGED <<AccountOf(account), JournalOf>> /\ (Park \/ UNCHANGED TaskOf(task))
  BY Seen DEF Tick, Park, Return, Crash, NotReady, AdvanceRefused, files
<1>2. Placed /\ Placed'
  BY Placing
<1>3. CASE Tick
  <2>1. Protocol!Begin
    BY <1>1, <1>2, <1>3 DEF Tick, Park, At, Placed, Protocol!Begin
  <2> QED
    BY <2>1 DEF Maps, Protocol!Next, Protocol!Advance
<1>4. CASE Park
  <2>1. proc.snapshot \in Task
    BY <1>4, Places DEF Park, At, Full, IInv, Calling
  <2>2. task' \in Task /\ task'.state = "awaiting_review"
    <3>1. task' = [proc.snapshot EXCEPT !.state = "awaiting_review"]
      BY <1>4 DEF Park
    <3> QED
      BY <2>1, <3>1 DEF Task, TaskState
  <2>3. TaskOf(task)' \in Protocol!Task /\ TaskOf(task)'.state = "parked"
    BY <2>2, SeenTask
  <2>4. Protocol!Park
    BY <1>1, <1>2, <1>4, <2>3 DEF Park, At, Idle, Placed, Protocol!Park
  <2> QED
    BY <2>4 DEF Maps, Protocol!Next, Protocol!Advance
<1>5. CASE Return
  <2>1. Protocol!Return
    BY <1>1, <1>2, <1>5 DEF Return, Park, At, Idle, Placed, Protocol!Return
  <2> QED
    BY <2>1 DEF Maps, Protocol!Next, Protocol!Advance
<1>6. CASE Crash
  <2>1. UNCHANGED <<TaskOf(task), AccountOf(account), JournalOf>> /\ step' = "idle"
    BY <1>1, <1>2, <1>6, Seen DEF Crash, Idle, Placed, files
  <2>2. Protocol!Crash \/ UNCHANGED Protocol!vars
    BY <2>1 DEF Protocol!Crash, Protocol!vars
  <2> QED
    BY <2>2 DEF Maps, Protocol!Next
<1>7. CASE NotReady \/ AdvanceRefused
  <2>1. Protocol!Raise
    BY <1>1, <1>2, <1>7 DEF NotReady, AdvanceRefused, Park, At, Placed, Protocol!Raise
  <2> QED
    BY <2>1 DEF Maps, Protocol!Next, Protocol!Advance
<1> QED
  BY <1>3, <1>4, <1>5, <1>6, <1>7

LEMMA RecoveryMaps ==
  ASSUME Full, RecoverNothing \/ RecoverAccepts \/ RecoverRefuses \/ WriteTask
               \/ WriteAccount \/ WriteSettled
  PROVE  Maps
<1>1. proc \in Caller /\ proc.pc \in Replaying /\ Placed /\ Placed'
      /\ (Protocol!Pending <=> Pending)
  BY Places, Placing, SeenJournal DEF RecoverNothing, RecoverAccepts, RecoverRefuses, WriteTask,
     WriteAccount, WriteSettled, At, Full, IInv, Replaying
<1>2. ASSUME NEW pc, proc' = [proc EXCEPT !.pc = pc]
      PROVE  proc'.pc = pc
  BY <1>1, <1>2 DEF Caller
<1>3. proc.pc \in {"write_task", "write_account", "write_settled"} =>
        /\ Pending /\ journal.state = "pending" /\ journal \in Entry
        /\ JournalOf.task = TaskOf(journal.task) /\ JournalOf.account = AccountOf(journal.account)
  BY Journals, SeenJournal DEF Full, IInv, ProcOK, Pending
<1>4. CASE RecoverNothing
  <2>1. UNCHANGED <<TaskOf(task), AccountOf(account), JournalOf>> /\ proc'.pc = "advance"
    BY <1>2, <1>4, Seen DEF RecoverNothing, files
  <2>2. Protocol!RecoverNothing
    BY <1>1, <1>4, <2>1 DEF RecoverNothing, At, Placed, Protocol!RecoverNothing
  <2> QED
    BY <2>2 DEF Maps, Protocol!Next, Protocol!Recover
<1>5. CASE RecoverAccepts
  <2>1. UNCHANGED <<TaskOf(task), AccountOf(account), JournalOf>> /\ proc'.pc = "write_task"
    BY <1>2, <1>5, Seen DEF RecoverAccepts, files
  <2>2. Protocol!RecoverAccepts
    BY <1>1, <1>5, <2>1, SeenJournal
    DEF RecoverAccepts, At, Placed, Protocol!RecoverAccepts
  <2> QED
    BY <2>2 DEF Maps, Protocol!Next, Protocol!Recover
<1>6. CASE RecoverRefuses
  <2>1. UNCHANGED <<TaskOf(task), AccountOf(account), JournalOf>> /\ proc'.pc = "raised"
    BY <1>6, Seen DEF RecoverRefuses, files
  <2>2. Protocol!RecoverRefuses
    BY <1>1, <1>6, <2>1, SeenMatches
    DEF RecoverRefuses, At, Placed, Protocol!RecoverRefuses
  <2> QED
    BY <2>2 DEF Maps, Protocol!Next, Protocol!Recover
<1>7. CASE WriteTask
  <2>1. /\ UNCHANGED <<AccountOf(account), JournalOf>> /\ proc'.pc = "write_account"
        /\ proc.pc = "write_task" /\ task' = journal.task
    BY <1>2, <1>7, Seen DEF WriteTask, At
  <2>2. TaskOf(task)' = JournalOf.task
    BY <1>3, <2>1 DEF TaskOf
  <2>3. Protocol!WriteTask
    BY <1>1, <2>1, <2>2 DEF Placed, Protocol!WriteTask
  <2> QED
    BY <2>3 DEF Maps, Protocol!Next, Protocol!Recover
<1>8. CASE WriteAccount
  <2>1. /\ UNCHANGED <<TaskOf(task), JournalOf>> /\ proc'.pc = "write_settled"
        /\ proc.pc = "write_account" /\ account' = journal.account
    BY <1>2, <1>8, Seen DEF WriteAccount, At
  <2>2. AccountOf(account)' = JournalOf.account
    BY <1>3, <2>1 DEF AccountOf, Inflight
  <2>3. Protocol!WriteAccount
    BY <1>1, <2>1, <2>2 DEF Placed, Protocol!WriteAccount
  <2> QED
    BY <2>3 DEF Maps, Protocol!Next, Protocol!Recover
<1>9. CASE WriteSettled
  <2>1. /\ UNCHANGED <<TaskOf(task), AccountOf(account)>> /\ proc.pc = "write_settled"
        /\ journal' = [journal EXCEPT !.state = "settled"]
        /\ proc'.pc = proc.then
    BY <1>2, <1>9, Seen DEF WriteSettled, At
  <2>2. proc'.pc \in {"advance", "done"}
    BY <1>1, <2>1 DEF Caller
  <2>3. JournalOf' = [JournalOf EXCEPT !.state = "settled"]
    BY <1>3, <2>1 DEF JournalOf, Entry
  <2>4. Protocol!WriteSettled
    BY <1>1, <2>1, <2>2, <2>3 DEF Placed, Protocol!WriteSettled
  <2> QED
    BY <2>4 DEF Maps, Protocol!Next, Protocol!Recover
<1> QED
  BY <1>4, <1>5, <1>6, <1>7, <1>8, <1>9

LEMMA AdvanceMaps ==
  ASSUME Full, Exhaust \/ SettleInterruption \/ Dispatch \/ CallProvider
               \/ PreparationFails \/ CallFails \/ CallProposes
  PROVE  Maps
<1>1. Placed /\ Placed' /\ task \in Task /\ account \in Account
  BY Placing DEF Full, IInv, TypeOK
<1>2. TaskOf(task).state = "ready" <=> task.state = "ready"
  BY <1>1, SeenTask
<1>3. CASE Exhaust
  <2>1. /\ task' = [task EXCEPT !.state = "exhausted_requires_review"]
        /\ UNCHANGED <<AccountOf(account), JournalOf>>
        /\ task.state = "ready" /\ proc.pc = "advance" /\ proc' = [proc EXCEPT !.pc = "done"]
    BY <1>3, Seen DEF Exhaust, At
  <2>2. TaskOf(task)' = [TaskOf(task) EXCEPT !.state = "settled"]
    BY <1>1, <2>1 DEF TaskOf, Task
  <2>3. proc'.pc = "done"
    BY <2>1, Places DEF Full, IInv, Caller
  <2>4. Protocol!Exhaust
    BY <1>1, <1>2, <2>1, <2>2, <2>3 DEF Placed, Protocol!Exhaust
  <2> QED
    BY <2>4 DEF Maps, Protocol!Next, Protocol!Advance
<1>4. CASE SettleInterruption \/ PreparationFails \/ CallFails \/ CallProposes
  <2>1. /\ UNCHANGED files /\ proc.pc \in {"advance", "called"} /\ proc'.pc = "commit"
    <3>1. CASE SettleInterruption
      BY <3>1 DEF SettleInterruption, At
    <3>2. CASE PreparationFails
      BY <3>2 DEF PreparationFails, Finish, At
    <3>3. CASE CallFails
      BY <3>3 DEF CallFails, Finish, At
    <3>4. CASE CallProposes
      BY <3>4 DEF CallProposes, Finish, At
    <3> QED
      BY <1>4, <3>1, <3>2, <3>3, <3>4
  <2> QED
    BY <1>1, <2>1, Seen DEF files, Placed, Maps, Protocol!vars
<1>5. CASE CallProvider
  <2>1. UNCHANGED files /\ proc.pc = "dispatched" /\ proc' = [proc EXCEPT !.pc = "called"]
    BY <1>5 DEF CallProvider, At
  <2>2. proc'.pc = "called"
    BY <2>1, Places DEF Full, IInv, Calling
  <2> QED
    BY <1>1, <2>1, <2>2, Seen DEF files, Placed, Maps, Protocol!vars
<1>6. CASE Dispatch
  <2>1. /\ account' = [usage |-> [account.usage EXCEPT !["model_calls"] = @ + 1],
                       inflight |-> [kind |-> "call",
                                     reserved |-> Least(CallSeconds, Remaining)]]
        /\ UNCHANGED <<TaskOf(task), JournalOf>>
        /\ task.state = "ready" /\ ~Inflight(account)
        /\ proc.pc = "advance" /\ proc'.pc = "dispatched"
    BY <1>6, Seen DEF Dispatch, At
  <2>2. account' \in Account /\ Inflight(account')
    BY <1>6, <2>1, Calls DEF Full, IInv, TypeOK, Inflight
  <2>3. AtLeast(account'.usage, account.usage)
    BY <1>1, <2>1, Counters, Limits DEF AtLeast, Account, Usage, Kind
  <2>4. /\ AccountOf(account)' \in Protocol!Account /\ AccountOf(account)'.inflight
        /\ Protocol!AtLeast(AccountOf(account)'.usage, AccountOf(account).usage)
        /\ ~AccountOf(account).inflight
    BY <1>1, <2>1, <2>2, <2>3, SeenAccount, Ordered
  <2>5. Protocol!Dispatch
    BY <1>1, <1>2, <2>1, <2>4 DEF Placed, Protocol!Dispatch
  <2> QED
    BY <2>5 DEF Maps, Protocol!Next, Protocol!Advance
<1> QED
  BY <1>3, <1>4, <1>5, <1>6

LEMMA CommitMaps ==
  ASSUME Full, Commit
  PROVE  Maps
<1>1. Placed /\ Placed' /\ task \in Task /\ account \in Account
  BY Placing DEF Full, IInv, TypeOK
<1>2. /\ proc.task \in Task /\ proc.account \in Account /\ proc.pc = "commit"
      /\ task.state = "ready" /\ Settlement(proc.task, proc.account)
  BY Places DEF Commit, At, Full, IInv, EInv, ProcSound, Committing
<1>3. /\ journal' = [state |-> "pending", taskBefore |-> task, accountBefore |-> account,
                     task |-> proc.task, account |-> proc.account]
      /\ AtLeast(proc.account.usage, account.usage)
      /\ UNCHANGED <<TaskOf(task), AccountOf(account)>> /\ proc'.pc = "recover"
  BY Seen DEF Commit
<1>4. JournalOf' = [state |-> "pending", taskBefore |-> TaskOf(task),
                    accountBefore |-> AccountOf(account),
                    task |-> TaskOf(proc.task), account |-> AccountOf(proc.account)]
  BY <1>3 DEF JournalOf
<1>5. /\ TaskOf(task) \in Protocol!Task /\ TaskOf(proc.task) \in Protocol!Task
      /\ TaskOf(task).state = "ready" /\ TaskOf(proc.task).state # "parked"
      /\ TaskOf(proc.task).calls = AccountOf(proc.account).usage["model_calls"]
  BY <1>1, <1>2, SeenTask, SeenAccount DEF Settlement
<1>6. /\ AccountOf(account) \in Protocol!Account /\ AccountOf(proc.account) \in Protocol!Account
      /\ ~AccountOf(proc.account).inflight
      /\ Protocol!AtLeast(AccountOf(proc.account).usage, AccountOf(account).usage)
  BY <1>1, <1>2, <1>3, SeenAccount, Ordered DEF Settlement
<1>7. JournalOf' \in Protocol!Entry
  BY <1>4, <1>5, <1>6 DEF Protocol!Entry
<1>8. Protocol!Commit
  BY <1>1, <1>2, <1>3, <1>4, <1>5, <1>6, <1>7 DEF Placed, Protocol!Commit
<1> QED
  BY <1>8 DEF Maps, Protocol!Next, Protocol!Advance


-----------------------------------------------------------------------------
\* A settlement that may still be replayed, of a task that goes on but is not
\* ready, has reached both files once nothing is inflight.
LEMMA Whole ==
  ASSUME Full, Replayable, task.state # "ready", Live(task), ~Inflight(account)
  PROVE  /\ task = journal.task /\ account.usage = journal.account.usage
         /\ Settlement(task, account)
         /\ AccountOf(account) = JournalOf.account /\ TaskOf(task) = JournalOf.task
<1>1. /\ journal.taskBefore.state = "ready" /\ Settlement(journal.task, journal.account)
      /\ Live(journal.task) =>
           Inflight(journal.accountBefore) \/ journal.accountBefore.usage = journal.account.usage
      /\ Pending /\ Matches
  BY DEF Full, EInv, JournalSound, Replayable
<1>2. task = journal.task /\ account.usage = journal.account.usage
  BY <1>1 DEF Matches
<1>3. ~Inflight(journal.account)
  BY <1>1 DEF Settlement
<1>4. AccountOf(account) = AccountOf(journal.account)
  BY <1>2, <1>3 DEF AccountOf, Inflight
<1>5. Settlement(task, account)
  BY <1>1, <1>2 DEF Settlement
<1> QED
  BY <1>1, <1>2, <1>4, <1>5, SeenJournal

\* A charge raises the usage, but not that of calls.
LEMMA Raised ==
  ASSUME Full, NEW job \in Job, NEW n \in Attempt, NEW d \in Decision \cup {"none"},
         Charge(job, n, d)
  PROVE  /\ AtLeast(account'.usage, account.usage) /\ account'.usage # account.usage
         /\ account'.usage["model_calls"] = account.usage["model_calls"]
<1>1. /\ account'.usage = [account.usage EXCEPT !["tool_calls"] = @ + ReviewTools]
      /\ account.usage \in Usage /\ ReviewTools \in Nat \ {0}
  BY EpisodeAssumption DEF Charge, Full, IInv, TypeOK, Account
<1>2. \A k \in Kind : account.usage[k] \in Nat
  BY <1>1, Counters, Limits DEF Kind
<1>3. account'.usage["tool_calls"] = account.usage["tool_calls"] + ReviewTools
  BY <1>1 DEF Usage, Kind
<1> QED
  BY <1>1, <1>2, <1>3 DEF AtLeast, Usage, Kind

LEMMA ChargeMaps ==
  ASSUME Full, IInv', NEW job \in Job, NEW n \in Attempt, NEW d \in Decision \cup {"none"},
         Charge(job, n, d), proc.pc = "idle",
         task.state \in {"awaiting_question_review", "awaiting_expansion_review"}
  PROVE  Maps
<1>1. Placed /\ Placed' /\ task \in Task /\ account \in Account /\ account' \in Account
  BY Placing DEF Full, IInv, TypeOK
<1>2. /\ UNCHANGED <<TaskOf(task), JournalOf>> /\ ~Inflight(account) /\ Inflight(account')
      /\ proc'.pc = "charged"
  BY Seen DEF Charge, Inflight
<1>3. /\ AccountOf(account)' \in Protocol!Account /\ AccountOf(account)'.inflight
      /\ ~AccountOf(account).inflight /\ TaskOf(task).state = "settled"
      /\ Protocol!AtLeast(AccountOf(account)'.usage, AccountOf(account).usage)
      /\ AccountOf(account)'.usage # AccountOf(account).usage
      /\ AccountOf(account)'.usage["model_calls"] = AccountOf(account).usage["model_calls"]
  BY <1>1, <1>2, Raised, SeenAccount, SeenTask, Ordered
<1>4. ~Protocol!Torn
  <2>1. Protocol!Pending /\ Protocol!Matches => Replayable
    BY SeenMatches, SeenJournal DEF Replayable
  <2>2. Replayable => Protocol!Applied
    BY <1>2, Whole DEF Protocol!Applied, Live
  <2> QED
    BY <2>1, <2>2 DEF Protocol!Torn
<1>5. Protocol!ReviewCharge
  BY <1>1, <1>2, <1>3, <1>4 DEF Placed, Protocol!ReviewCharge
<1> QED
  BY <1>5 DEF Maps, Protocol!Next, Protocol!Review

LEMMA ChargesMap ==
  ASSUME Full, IInv', ReviewQuestion \/ ReviewExpansion \/ Shadow
  PROVE  Maps
<1>1. PICK job \in Job, n \in Attempt, d \in Decision \cup {"none"} : Charge(job, n, d)
  BY DEF ReviewQuestion, ReviewExpansion, Shadow, Job
<1>2. /\ task.state \in {"awaiting_question_review", "awaiting_expansion_review"}
      /\ proc.pc = "idle"
  BY DEF ReviewQuestion, ReviewExpansion, Shadow, At
<1> QED
  BY <1>1, <1>2, ChargeMaps

\* Releasing adds the elapsed time.
LEMMA Elapsed ==
  ASSUME Full, Release
  PROVE  /\ AtLeast(account'.usage, account.usage) /\ ~Inflight(account')
         /\ account'.usage["model_calls"] = account.usage["model_calls"]
<1>1. PICK e \in ReviewElapsed :
        account' = [usage |-> [account.usage EXCEPT !["compute_seconds"] = @ + e],
                    inflight |-> NoFlight]
  BY DEF Release
<1>2. account.usage \in Usage /\ e \in Nat
  BY Limits DEF Full, IInv, TypeOK, Account
<1>3. \A k \in Kind : account.usage[k] \in Nat
  BY <1>2, Counters, Limits DEF Kind
<1>4. account'.usage = [account.usage EXCEPT !["compute_seconds"] = @ + e] /\ ~Inflight(account')
  BY <1>1 DEF Inflight, NoFlight
<1> QED
  BY <1>2, <1>3, <1>4 DEF AtLeast, Usage, Kind

LEMMA WorkMaps ==
  ASSUME Full, IInv', ReviewFails \/ StoreReview \/ StoreShadow \/ Release \/ StoreCharge
  PROVE  Maps
<1>1. Placed /\ Placed' /\ account \in Account /\ account' \in Account
      /\ proc \in Reviewer /\ proc.pc \in Reviewing
  BY Places, Placing DEF Full, IInv, TypeOK, ReviewFails, StoreReview, StoreShadow, Release,
     StoreCharge, At, Reviewing
<1>2. ReviewSound /\ (proc.pc \in {"charged", "release"} => account.inflight = Charged)
  BY <1>1 DEF Full, EInv, ProcSound, IInv, ProcOK, At
<1>3. CASE ReviewFails \/ StoreReview \/ StoreShadow
  <2>1. UNCHANGED files /\ proc.pc = "charged" /\ proc'.pc \in {"release", "apply"}
    <3>1. UNCHANGED files /\ proc.pc = "charged"
      BY <1>3 DEF ReviewFails, StoreReview, StoreShadow, At, receipts
    <3>2. \/ proc' = [proc EXCEPT !.pc = "release", !.decision = "none"]
          \/ proc' = [proc EXCEPT !.pc = "release"]
          \/ proc' = [proc EXCEPT !.pc = "apply"]
      BY <1>3 DEF ReviewFails, StoreReview, StoreShadow
    <3>3. proc'.pc \in {"release", "apply"}
      BY <1>1, <3>2 DEF Reviewer
    <3> QED
      BY <3>1, <3>3
  <2>2. Inflight(account')
    BY <1>2, <2>1 DEF files, Charged, Inflight
  <2> QED
    BY <1>1, <2>1, <2>2, Seen DEF files, Placed, Maps, Protocol!vars
<1>4. CASE StoreCharge
  <2>1. UNCHANGED files /\ proc.pc = "receipt" /\ proc'.pc \in {"idle", "apply"}
        /\ ~Inflight(account')
    BY <1>1, <1>2, <1>4 DEF StoreCharge, At, files, Reviewer, Idle, ReviewSound, Inflight
  <2> QED
    BY <1>1, <2>1, Seen DEF files, Placed, Maps, Protocol!vars
<1>5. CASE Release
  <2>1. /\ UNCHANGED <<TaskOf(task), JournalOf>> /\ proc.pc = "release" /\ proc'.pc = "receipt"
        /\ Inflight(account)
    BY <1>1, <1>2, <1>5, Seen DEF Release, At, Reviewer, Charged, Inflight
  <2>2. /\ AccountOf(account)' \in Protocol!Account /\ ~AccountOf(account)'.inflight
        /\ AccountOf(account).inflight
        /\ Protocol!AtLeast(AccountOf(account)'.usage, AccountOf(account).usage)
        /\ AccountOf(account)'.usage["model_calls"] = AccountOf(account).usage["model_calls"]
    BY <1>1, <1>5, <2>1, Elapsed, SeenAccount, Ordered
  <2>3. Protocol!ReviewRelease
    BY <1>1, <2>1, <2>2 DEF Placed, Protocol!ReviewRelease
  <2> QED
    BY <2>3 DEF Maps, Protocol!Next, Protocol!Review
<1> QED
  BY <1>3, <1>4, <1>5

\* A review on record that was not applied is of what the task waits for,
\* and its charge has overtaken the settlement.
LEMMA Retried ==
  ASSUME Full, NEW n \in Attempt \ task.applied, reviews[n] # "none",
         NEW product \in {"question", "expansion"},
         IF product = "question" THEN task.question = n ELSE task.expansion = n
  PROVE  /\ ~Replayable
         /\ task.state = IF product = "question" THEN "awaiting_question_review"
                         ELSE "awaiting_expansion_review"
<1>1. n # None
  BY Limits DEF Attempt, None
<1>2. task.state = IF product = "question" THEN "awaiting_question_review"
                   ELSE "awaiting_expansion_review"
  BY <1>1 DEF Full, EInv, TaskSound, Sound
<1>3. ASSUME Replayable PROVE FALSE
  <2>1. task = journal.task /\ Unreviewed(journal.task)
    BY <1>2, <1>3 DEF Full, EInv, JournalSound, Replayable, Matches, Settlement
  <2> QED
    BY <1>1, <2>1 DEF Unreviewed
<1> QED
  BY <1>2, <1>3

LEMMA ReviewedIs ==
  ASSUME NEW t \in Task, NEW n \in Attempt, NEW product
  PROVE  /\ Reviewed(t, n, product).calls = t.calls
         /\ Reviewed(t, n, product).attempts = t.attempts
         /\ Reviewed(t, n, product).question = t.question
         /\ Reviewed(t, n, product).expansion = t.expansion
         /\ Reviewed(t, n, product).applied = t.applied \cup {n}
         /\ Reviewed(t, n, product).state \in {"expansion_reviewed", "ready", "question_reviewed"}
  BY DEF Reviewed, Task

LEMMA ApplyMaps ==
  ASSUME Full, IInv', Apply \/ RetryReview
  PROVE  Maps
<1>1. Placed /\ Placed' /\ task \in Task /\ task' \in Task
  BY Placing DEF Full, IInv, TypeOK
<1>2. UNCHANGED <<account, AccountOf(account), JournalOf>>
  BY Seen DEF Apply, RetryReview
<1>3. ~Replayable /\ UNCHANGED step /\ step \in {"idle", "review"}
      /\ task.state \in {"awaiting_question_review", "awaiting_expansion_review"}
      /\ \E n \in Attempt, product \in {"question", "expansion"} :
           task' = Reviewed(task, n, product)
  <2>1. CASE Apply
    <3>1. proc.pc = "apply" /\ task' = Reviewed(task, proc.n, proc.job) /\ proc \in Reviewer
          /\ proc' = IF proc.job = "question" THEN Idle ELSE [proc EXCEPT !.pc = "release"]
      BY <2>1, Places DEF Apply, At, Full, IInv, Reviewing
    <3>2. ReviewSound /\ (proc.job # "question" => account.inflight = Charged)
      BY <3>1 DEF Full, EInv, ProcSound, IInv, ProcOK, At, Reviewing
    <3>3. proc.job \in {"question", "expansion"} /\ proc.n \in Attempt
      BY <3>1, <3>2 DEF Reviewer, Job, ReviewSound, At
    <3>4. proc'.pc = IF proc.job = "question" THEN "idle" ELSE "release"
      BY <3>1 DEF Idle, Reviewer
    <3>5. UNCHANGED step /\ step \in {"idle", "review"}
      BY <1>1, <1>2, <3>1, <3>2, <3>3, <3>4 DEF Placed, ReviewSound, At, Charged, Inflight
    <3> QED
      BY <3>1, <3>2, <3>3, <3>5 DEF ReviewSound
  <2>2. CASE RetryReview
    <3>1. PICK n \in Attempt \ task.applied, product \in {"question", "expansion"} :
            /\ reviews[n] # "none" /\ task' = Reviewed(task, n, product)
            /\ IF product = "question" THEN task.question = n ELSE task.expansion = n
      BY <2>2 DEF RetryReview
    <3>2. proc.pc = "idle" /\ proc'.pc = "idle"
      BY <2>2 DEF RetryReview, At
    <3> QED
      BY <1>1, <3>1, <3>2, Retried DEF Placed
  <2> QED
    BY <2>1, <2>2
<1>4. task'.calls = task.calls
      /\ task'.state \in {"expansion_reviewed", "ready", "question_reviewed"}
  BY <1>1, <1>3, ReviewedIs
<1>5. /\ TaskOf(task)' \in Protocol!Task /\ TaskOf(task)'.state # "parked"
      /\ TaskOf(task).state = "settled" /\ TaskOf(task)'.calls = TaskOf(task).calls
  BY <1>1, <1>3, <1>4, SeenTask
<1>6. ~(Protocol!Pending /\ Protocol!Matches)
  BY <1>3, SeenMatches, SeenJournal DEF Replayable
<1>7. Protocol!ReviewApply
  BY <1>2, <1>3, <1>5, <1>6 DEF Protocol!ReviewApply
<1> QED
  BY <1>7 DEF Maps, Protocol!Next, Protocol!Review

-----------------------------------------------------------------------------
(* EInv is kept.  First what a step does to the journal and the account.   *)
UsageLater == account' \in Account /\ AtLeast(account'.usage, account.usage)

LEMMA Usages ==
  ASSUME Full
  PROVE  /\ account.usage \in Usage /\ charges \subseteq Usage
         /\ \A r \in attempts : r.usage \in Usage
         /\ Pending => journal.account.usage \in Usage
<1>1. account.usage \in Usage /\ charges \subseteq Usage
      /\ \A r \in attempts : r.usage \in Usage
  BY DEF Full, IInv, TypeOK, Account
<1>2. Pending => journal.account.usage \in Usage
  BY Journals, Spending DEF Full, IInv, Pending
<1> QED
  BY <1>1, <1>2

\* A settlement that has been overtaken stays so.
LEMMA Outdated ==
  ASSUME Full, ~Replayable, UNCHANGED journal, UsageLater
  PROVE  JournalSound' /\ ~Replayable'
<1>1. CASE Pending
  <2>1. /\ ~Matches /\ AtLeast(account.usage, journal.account.usage)
        /\ account.usage # journal.account.usage
        /\ journal.taskBefore.state = "ready"
        /\ Live(journal.task) => Inflight(journal.accountBefore)
             \/ journal.accountBefore.usage = journal.account.usage
    BY <1>1 DEF Full, EInv, JournalSound, Replayable
  <2>2. account'.usage \in Usage
    BY DEF UsageLater, Account
  <2>3. AtLeast(account'.usage, journal.account.usage)
        /\ account'.usage # journal.account.usage
    BY <1>1, <2>1, <2>2, Usages, Ordered DEF UsageLater
  <2>4. account' \notin {journal.accountBefore, journal.account}
    BY <1>1, <2>3, Overtaken DEF UsageLater
  <2>5. ~Matches'
    BY <2>4 DEF Matches
  <2> QED
    BY <2>1, <2>3, <2>5 DEF JournalSound, Replayable, Inflight, Live
<1>2. CASE ~Pending
  BY <1>2 DEF JournalSound, Replayable, Pending
<1> QED
  BY <1>1, <1>2

\* A charge overtakes a settlement that was whole.
LEMMA ChargeOutdates ==
  ASSUME Full, IInv', NEW job \in Job, NEW n \in Attempt, NEW d \in Decision \cup {"none"},
         Charge(job, n, d), task.state # "ready", Live(task)
  PROVE  JournalSound' /\ ~Replayable' /\ UsageLater
<1>1. UsageLater /\ account'.usage # account.usage /\ UNCHANGED journal /\ ~Inflight(account)
  BY Raised DEF UsageLater, IInv, TypeOK, Charge
<1>2. CASE ~Replayable
  BY <1>1, <1>2, Outdated
<1>3. CASE Replayable
  <2>1. account.usage = journal.account.usage
    BY <1>1, <1>3, Whole
  <2>2. /\ Pending /\ journal.taskBefore.state = "ready"
        /\ Live(journal.task) => Inflight(journal.accountBefore)
             \/ journal.accountBefore.usage = journal.account.usage
    BY <1>3 DEF Full, EInv, JournalSound, Replayable
  <2>3. AtLeast(account'.usage, journal.account.usage)
        /\ account'.usage # journal.account.usage
    BY <1>1, <2>1 DEF UsageLater
  <2>4. account' \notin {journal.accountBefore, journal.account}
    BY <1>1, <2>2, <2>3, Overtaken DEF UsageLater
  <2>5. ~Matches'
    BY <1>1, <2>4 DEF Matches
  <2> QED
    BY <1>1, <2>2, <2>3, <2>5 DEF JournalSound, Replayable, Inflight, Live
<1> QED
  BY <1>2, <1>3

\* What covered the receipts still does.
LEMMA Covering ==
  ASSUME Full, UsageLater
  PROVE  /\ \A u \in charges : AtLeast(account'.usage, u)
         /\ Covers(account.usage) => Covers(account'.usage)
<1>1. account'.usage \in Usage
  BY DEF UsageLater, Account
<1>2. \A u \in charges : AtLeast(account.usage, u)
  BY DEF Full, EInv, AccountSound
<1> QED
  BY <1>1, <1>2, Usages, Ordered DEF UsageLater, Covers

\* A step that leaves files and receipts alone.
LEMMA Still ==
  ASSUME Full, UNCHANGED <<task, account, journal, attempts, interrupted, reviews, charges>>
  PROVE  /\ Fresh' /\ TaskSound' /\ JournalSound' /\ AccountSound'
         /\ Replayable' <=> Replayable
<1>1. Fresh /\ TaskSound /\ JournalSound /\ AccountSound
  BY DEF Full, EInv
<1>2. /\ Matches' <=> Matches
      /\ Replayable' <=> Replayable
  BY DEF Replayable, Pending, Matches
<1>3. Fresh' /\ TaskSound'
  BY <1>1 DEF Fresh, TaskSound, Sound, Sourced, Live, Clean
<1>4. JournalSound'
  BY <1>1, <1>2 DEF JournalSound, Pending, Settlement, Sound, Sourced, Unreviewed, Inflight,
     Live, Covers, Clean
<1>5. AccountSound'
  BY <1>1, <1>2 DEF AccountSound, Live, Covers, Inflight
<1> QED
  BY <1>2, <1>3, <1>4, <1>5

LEMMA StillSound ==
  ASSUME Full, Tick \/ Return \/ Crash \/ NotReady \/ AdvanceRefused \/ RecoverNothing
               \/ RecoverAccepts \/ RecoverRefuses \/ CallProvider
  PROVE  EInv'
<1>1. UNCHANGED <<task, account, journal, attempts, interrupted, reviews, charges>>
  BY DEF Tick, Return, Crash, NotReady, AdvanceRefused, RecoverNothing, RecoverAccepts,
     RecoverRefuses, CallProvider, files, receipts
<1>2. ProcSound /\ TaskSound
  BY DEF Full, EInv
<1>4. ProcSound'
  <2>1. CASE Tick
    <3>1. proc'.pc = "recover" /\ proc'.snapshot = task /\ task.state = "ready"
      BY <2>1 DEF Tick
    <3>2. proc'.snapshot.state = "ready" /\ (Sound(proc.snapshot) /\ Sourced(proc.snapshot))'
      BY <1>1, <1>2, <3>1 DEF TaskSound, Sound, Sourced
    <3> QED
      BY <3>1, <3>2 DEF ProcSound, At, Reviewing
  <2>2. CASE Return \/ Crash
    <3>1. proc'.pc = "idle"
      BY <2>2 DEF Return, Crash, Idle
    <3> QED
      BY <3>1 DEF ProcSound, At, Reviewing, Replaying
  <2>3. CASE NotReady \/ AdvanceRefused \/ RecoverNothing \/ RecoverAccepts \/ RecoverRefuses
    <3>1. proc.pc \in {"advance", "recover"} /\ proc \in Caller
      BY <2>3, Places DEF NotReady, AdvanceRefused, RecoverNothing, RecoverAccepts,
         RecoverRefuses, At, Replaying, Full, IInv
    <3>2. proc' = [pc |-> "raised", snapshot |-> proc.snapshot]
          \/ proc' = [proc EXCEPT !.pc = "advance"] \/ proc' = [proc EXCEPT !.pc = "write_task"]
      BY <2>3 DEF NotReady, AdvanceRefused, RecoverNothing, RecoverAccepts, RecoverRefuses
    <3>3. proc'.pc \in {"raised", "advance", "write_task"} /\ proc'.snapshot = proc.snapshot
      BY <3>1, <3>2 DEF Caller
    <3>4. proc'.snapshot.state = "ready" /\ (Sound(proc.snapshot) /\ Sourced(proc.snapshot))'
      BY <1>1, <1>2, <3>1, <3>3 DEF ProcSound, Sound, Sourced, Replaying
    <3> QED
      BY <3>3, <3>4 DEF ProcSound, At, Reviewing
  <2>4. CASE CallProvider
    <3>1. proc.pc = "dispatched" /\ proc \in Calling /\ proc' = [proc EXCEPT !.pc = "called"]
      BY <2>4, Places DEF CallProvider, At, Full, IInv
    <3>2. proc'.pc = "called" /\ proc'.snapshot = proc.snapshot
      BY <3>1 DEF Calling
    <3>3. proc'.snapshot.state = "ready" /\ (Sound(proc.snapshot) /\ Sourced(proc.snapshot))'
      BY <1>1, <1>2, <3>1, <3>2 DEF ProcSound, Sound, Sourced
    <3>4. /\ task'.state = "ready" /\ account'.inflight.kind = "call" /\ ~interrupted'
          /\ Covers(account.usage)'
      BY <1>1, <1>2, <3>1 DEF ProcSound, Inflight, Covers
    <3> QED
      BY <3>2, <3>3, <3>4 DEF ProcSound, At, Reviewing, Inflight
  <2> QED
    BY <2>1, <2>2, <2>3, <2>4
<1> QED
  BY <1>1, <1>4, Still DEF EInv

-----------------------------------------------------------------------------
LEMMA SameAccount ==
  ASSUME Full, UNCHANGED account
  PROVE  UsageLater
BY Usages, Ordered DEF UsageLater, Full, IInv, TypeOK

\* A task that is over: nothing more is asked of its account.
LEMMA OverSound ==
  ASSUME Full, ~Replayable, UNCHANGED <<account, journal, attempts, interrupted, reviews, charges>>,
         NEW t \in Task, t.state = "ready", Sound(t), Sourced(t),
         NEW q \in {"exhausted_requires_review", "awaiting_review"},
         task' = [t EXCEPT !.state = q]
  PROVE  Fresh' /\ TaskSound' /\ JournalSound' /\ AccountSound'
<1>1. UsageLater
  BY SameAccount
<1>2. JournalSound'
  BY <1>1, Outdated
<1>3. Fresh'
  BY DEF Full, EInv, Fresh
<1>4. /\ task'.state = q /\ task'.question = t.question /\ task'.expansion = t.expansion
      /\ task'.applied = t.applied /\ task'.attempts = t.attempts
  BY DEF Task
<1>5. TaskSound'
  BY <1>4 DEF TaskSound, Sound, Sourced, Live
<1>6. AccountSound'
  BY <1>1, <1>4, Covering DEF AccountSound, Live
<1> QED
  BY <1>2, <1>3, <1>5, <1>6

LEMMA ParkSound ==
  ASSUME Full, Park \/ Exhaust
  PROVE  EInv'
<1>1. UNCHANGED <<account, journal, attempts, interrupted, reviews, charges>>
  BY DEF Park, Exhaust, receipts
<1>2. CASE Park
  <2>1. /\ proc.pc = "raised" /\ proc \in Calling /\ ~Replayable
        /\ task' = [proc.snapshot EXCEPT !.state = "awaiting_review"] /\ proc'.pc = "idle"
    BY <1>2, Places, Carried DEF Park, At, Full, IInv, Idle
  <2>2. /\ proc.snapshot \in Task /\ proc.snapshot.state = "ready"
        /\ Sound(proc.snapshot) /\ Sourced(proc.snapshot)
    BY <2>1 DEF Calling, Full, EInv, ProcSound
  <2>3. ProcSound'
    BY <2>1 DEF ProcSound, At, Reviewing, Replaying
  <2> QED
    BY <1>1, <2>1, <2>2, <2>3, OverSound DEF EInv
<1>3. CASE Exhaust
  <2>1. /\ proc.pc = "advance" /\ proc \in Caller /\ ~Replayable
        /\ task' = [task EXCEPT !.state = "exhausted_requires_review"]
        /\ task.state = "ready" /\ proc' = [proc EXCEPT !.pc = "done"]
    BY <1>3, Places, Carried DEF Exhaust, At, Full, IInv, Replayable
  <2>2. task \in Task /\ Sound(task) /\ Sourced(task)
    BY DEF Full, IInv, TypeOK, EInv, TaskSound
  <2>3. proc'.pc = "done" /\ proc'.snapshot = proc.snapshot
    BY <2>1 DEF Caller
  <2>4. proc'.snapshot.state = "ready" /\ (Sound(proc.snapshot) /\ Sourced(proc.snapshot))'
    BY <1>1, <2>1, <2>3 DEF Full, EInv, ProcSound, Sound, Sourced
  <2>5. ProcSound'
    BY <2>3, <2>4 DEF ProcSound, At, Reviewing
  <2> QED
    BY <1>1, <2>1, <2>2, <2>5, OverSound DEF EInv
<1> QED
  BY <1>2, <1>3

LEMMA WriteSound ==
  ASSUME Full, WriteTask \/ WriteAccount \/ WriteSettled
  PROVE  EInv'
<1>1. /\ UNCHANGED <<attempts, interrupted, reviews, charges>> /\ proc \in Caller
      /\ proc.pc \in {"write_task", "write_account", "write_settled"}
  BY Places DEF WriteTask, WriteAccount, WriteSettled, At, receipts, Full, IInv, Replaying
<1>2. /\ Replayable /\ journal.state = "pending" /\ journal \in Entry
      /\ Settlement(journal.task, journal.account)
      /\ journal.taskBefore.state = "ready"
      /\ Live(journal.task) =>
           Inflight(journal.accountBefore) \/ journal.accountBefore.usage = journal.account.usage
      /\ AtLeast(journal.account.usage, journal.accountBefore.usage)
      /\ journal.account \in Account
  BY <1>1, Carried, Journals
  DEF Full, IInv, JournalOK, EInv, JournalSound, Replayable, Pending, Within
<1>4. /\ proc.snapshot.state = "ready" /\ Sound(proc.snapshot) /\ Sourced(proc.snapshot)
      /\ proc.pc \in {"write_account", "write_settled"} => task = journal.task
      /\ proc.pc = "write_settled" => account = journal.account
  BY <1>1 DEF Full, EInv, ProcSound, At, Replaying
<1>5. ASSUME NEW pc \in {"write_account", "write_settled", "advance", "done"},
             proc' = [proc EXCEPT !.pc = pc],
             pc \in {"write_account", "write_settled"} => task' = journal'.task,
             pc = "write_settled" => account' = journal'.account
      PROVE  ProcSound'
  <2>1. proc'.pc = pc /\ proc'.snapshot = proc.snapshot
    BY <1>1, <1>5 DEF Caller
  <2>2. proc'.snapshot.state = "ready" /\ (Sound(proc.snapshot) /\ Sourced(proc.snapshot))'
    BY <1>1, <1>4, <2>1 DEF Sound, Sourced
  <2> QED
    BY <1>5, <2>1, <2>2 DEF ProcSound, At, Reviewing
<1>6. Fresh'
  BY <1>1 DEF Full, EInv, Fresh
<1>7. CASE WriteTask
  <2>1. task' = journal.task /\ UNCHANGED <<account, journal>>
        /\ proc' = [proc EXCEPT !.pc = "write_account"]
    BY <1>7 DEF WriteTask
  <2>2. TaskSound'
    BY <1>1, <1>2, <2>1 DEF Settlement, TaskSound, Sound, Sourced, Live, Clean
  <2>3. Matches' /\ Pending'
    BY <1>2, <2>1 DEF Replayable, Matches, Pending
  <2>4. JournalSound'
    BY <1>1, <1>2, <2>1, <2>3
    DEF JournalSound, Settlement, Sound, Sourced, Unreviewed, Inflight, Live, Covers, Clean
  <2>5. AccountSound'
    BY <1>1, <1>2, <2>1, <2>3 DEF Full, EInv, AccountSound, Replayable, Settlement, Live
  <2>6. ProcSound'
    BY <1>5, <2>1
  <2> QED
    BY <1>6, <2>2, <2>4, <2>5, <2>6 DEF EInv
<1>8. CASE WriteAccount
  <2>1. account' = journal.account /\ UNCHANGED <<task, journal>> /\ task = journal.task
        /\ proc' = [proc EXCEPT !.pc = "write_settled"]
    BY <1>4, <1>8 DEF WriteAccount, At
  <2>2. TaskSound'
    BY <1>1, <2>1 DEF Full, EInv, TaskSound, Sound, Sourced, Live, Clean
  <2>3. Matches' /\ Pending'
    BY <1>2, <2>1 DEF Replayable, Matches, Pending
  <2>4. JournalSound'
    BY <1>1, <1>2, <2>1, <2>3
    DEF JournalSound, Settlement, Sound, Sourced, Unreviewed, Inflight, Live, Covers, Clean
  <2>5. UsageLater
    <3>1. account \in {journal.accountBefore, journal.account}
      BY <1>2 DEF Replayable, Matches
    <3> QED
      BY <1>2, <2>1, <3>1, Usages, Ordered DEF UsageLater, Replayable
  <2>6. AccountSound'
    BY <1>1, <1>2, <2>1, <2>3, <2>5, Covering
    DEF Full, EInv, AccountSound, Replayable, Settlement, Live
  <2>7. ProcSound'
    BY <1>5, <2>1
  <2> QED
    BY <1>6, <2>2, <2>4, <2>6, <2>7 DEF EInv
<1>9. CASE WriteSettled
  <2>1. /\ UNCHANGED <<task, account>> /\ task = journal.task /\ account = journal.account
        /\ journal' = [journal EXCEPT !.state = "settled"]
        /\ proc' = [proc EXCEPT !.pc = proc.then] /\ proc.then \in {"advance", "done"}
    BY <1>1, <1>4, <1>9 DEF WriteSettled, At, Caller
  <2>2. TaskSound'
    BY <1>1, <2>1 DEF Full, EInv, TaskSound, Sound, Sourced, Live, Clean
  <2>3. ~Pending'
    BY <1>2, <2>1 DEF Pending, Entry
  <2>4. AccountSound'
    BY <1>1, <1>2, <2>1 DEF Full, EInv, AccountSound, Settlement, Live, Covers, Inflight
  <2>5. ProcSound'
    BY <1>5, <2>1
  <2> QED
    BY <1>6, <2>2, <2>3, <2>4, <2>5 DEF EInv, JournalSound
<1> QED
  BY <1>7, <1>8, <1>9

-----------------------------------------------------------------------------
LEMMA CommitSound ==
  ASSUME Full, Commit
  PROVE  EInv'
<1>1. /\ journal' = [state |-> "pending", taskBefore |-> task, accountBefore |-> account,
                     task |-> proc.task, account |-> proc.account]
      /\ proc' = [pc |-> "recover", then |-> "done", snapshot |-> proc.snapshot]
      /\ UNCHANGED <<task, account, attempts, interrupted, reviews, charges>>
      /\ proc.pc = "commit"
  BY DEF Commit, receipts, At
<1>2. /\ task.state = "ready" /\ Settlement(proc.task, proc.account)
      /\ Live(proc.task) => Inflight(account) \/ proc.account.usage = account.usage
      /\ proc.snapshot.state = "ready" /\ Sound(proc.snapshot) /\ Sourced(proc.snapshot)
  BY <1>1 DEF Full, EInv, ProcSound, At
<1>3. Matches' /\ Pending'
  BY <1>1 DEF Matches, Pending
<1>4. JournalSound'
  BY <1>1, <1>2, <1>3
  DEF JournalSound, Settlement, Sound, Sourced, Unreviewed, Inflight, Live, Covers, Clean
<1>5. AccountSound'
  BY <1>1, <1>3 DEF Full, EInv, AccountSound, Replayable, Live, Inflight
<1>6. Fresh' /\ TaskSound'
  BY <1>1 DEF Full, EInv, Fresh, TaskSound, Sound, Sourced, Live, Clean
<1>7. (Sound(proc.snapshot) /\ Sourced(proc.snapshot))'
  BY <1>1, <1>2 DEF Sound, Sourced
<1>8. ProcSound'
  BY <1>1, <1>2, <1>7 DEF ProcSound, At, Reviewing
<1> QED
  BY <1>4, <1>5, <1>6, <1>8 DEF EInv

LEMMA DispatchSound ==
  ASSUME Full, IInv', Dispatch
  PROVE  EInv'
<1>1. /\ account' = [usage |-> [account.usage EXCEPT !["model_calls"] = @ + 1],
                     inflight |-> [kind |-> "call",
                                   reserved |-> Least(CallSeconds, Remaining)]]
      /\ proc' = [pc |-> "dispatched", snapshot |-> proc.snapshot]
      /\ UNCHANGED <<task, journal, attempts, interrupted, reviews, charges>>
      /\ task.state = "ready" /\ ~interrupted /\ Covers(account.usage)
      /\ proc.pc = "advance"
  BY DEF Dispatch, receipts, At, BudgetAgrees, Covers
<1>2. /\ ~Replayable /\ proc.snapshot.state = "ready"
      /\ Sound(proc.snapshot) /\ Sourced(proc.snapshot)
  BY <1>1, Carried DEF Full, EInv, ProcSound, Replayable
<1>3. UsageLater
  <2>1. account.usage \in Usage /\ \A k \in Kind : account.usage[k] \in Nat
    BY Usages, Counters, Limits DEF Kind
  <2>2. AtLeast(account'.usage, account.usage)
    BY <1>1, <2>1 DEF AtLeast, Usage
  <2> QED
    BY <2>2 DEF UsageLater, IInv, TypeOK
<1>4. JournalSound' /\ ~Replayable'
  BY <1>1, <1>2, <1>3, Outdated
<1>5. account'.inflight.kind = "call" /\ Covers(account'.usage)
  BY <1>1, <1>3, Covering
<1>6. AccountSound'
  BY <1>1, <1>3, <1>5, Covering DEF AccountSound
<1>7. Fresh' /\ TaskSound'
  BY <1>1 DEF Full, EInv, Fresh, TaskSound, Sound, Sourced, Live, Clean
<1>8. (Sound(proc.snapshot) /\ Sourced(proc.snapshot))' /\ Covers(account.usage)'
  BY <1>1, <1>2, <1>5 DEF Sound, Sourced, Covers
<1>9. ProcSound'
  BY <1>1, <1>2, <1>5, <1>8 DEF ProcSound, At, Reviewing
<1> QED
  BY <1>4, <1>6, <1>7, <1>9 DEF EInv

LEMMA SettleSound ==
  ASSUME Full, SettleInterruption
  PROVE  EInv'
<1>1. /\ UNCHANGED <<task, account, journal, attempts, reviews, charges>>
      /\ interrupted' = TRUE
      /\ task.state = "ready" /\ Inflight(account) /\ proc.pc = "advance"
  BY DEF SettleInterruption, files, At
<1>2. /\ proc'.pc = "commit" /\ proc'.snapshot = proc.snapshot
      /\ proc'.task = [task EXCEPT !.state = "exhausted_requires_review",
                                   !.calls = account.usage["model_calls"]]
      /\ proc'.account.usage = [account.usage EXCEPT !["compute_seconds"] =
                                  @ + account.inflight.reserved]
      /\ proc'.account.inflight = NoFlight
  BY DEF SettleInterruption
<1>3. /\ ~Pending /\ Sound(task) /\ Sourced(task) /\ task \in Task
      /\ proc.snapshot.state = "ready" /\ Sound(proc.snapshot) /\ Sourced(proc.snapshot)
  BY <1>1, Carried DEF Full, EInv, ProcSound, TaskSound, IInv, TypeOK
<1>4. /\ proc'.task.state = "exhausted_requires_review"
      /\ proc'.task.calls = account.usage["model_calls"]
      /\ proc'.task.question = task.question /\ proc'.task.expansion = task.expansion
      /\ proc'.task.applied = task.applied /\ proc'.task.attempts = task.attempts
  BY <1>2, <1>3 DEF Task
<1>5. proc'.account.usage["model_calls"] = account.usage["model_calls"]
  BY <1>2, Usages DEF Usage, Kind
<1>6. Settlement(proc.task, proc.account)'
  BY <1>1, <1>2, <1>3, <1>4, <1>5
  DEF Settlement, Sound, Sourced, Unreviewed, Live, Inflight, NoFlight
<1>7. (Sound(proc.snapshot) /\ Sourced(proc.snapshot))'
  BY <1>1, <1>2, <1>3 DEF Sound, Sourced
<1>8. ProcSound'
  BY <1>1, <1>2, <1>3, <1>6, <1>7 DEF ProcSound, At, Reviewing, Inflight
<1>9. Fresh' /\ TaskSound' /\ JournalSound'
  BY <1>1, <1>3 DEF Full, EInv, Fresh, TaskSound, Sound, Sourced, Live, Clean, JournalSound, Pending
<1>10. AccountSound'
  BY <1>1, <1>3 DEF Full, EInv, AccountSound, Live, Inflight, Replayable, Pending, Covers
<1> QED
  BY <1>8, <1>9, <1>10 DEF EInv

\* The attempt that is stored next has a name nobody has reviewed.
LEMMA NextAttempt ==
  ASSUME Full, NEW r, r.id = Cardinality(attempts) + 1, r.id \in Attempt,
         r.product = "none" \/ r.dispatched,
         attempts' = attempts \cup {r}, UNCHANGED reviews
  PROVE  Fresh' /\ reviews[r.id] = "none"
<1>1. /\ IsFiniteSet(attempts)
      /\ \A x \in attempts : x.id <= Cardinality(attempts) /\ (x.product = "none" \/ x.dispatched)
      /\ \A n \in Attempt : reviews[n] # "none" => \E x \in attempts : x.id = n
  BY DEF Full, EInv, Fresh
<1>2. Cardinality(attempts) \in Nat /\ \A x \in attempts : x.id \in Nat
  BY <1>1, FS_CardinalityType, Limits DEF Full, IInv, TypeOK, Attempt
<1>3. r \notin attempts
  BY <1>1, <1>2
<1>4. IsFiniteSet(attempts') /\ Cardinality(attempts') = Cardinality(attempts) + 1
  BY <1>1, <1>3, FS_AddElement
<1>5. Fresh'
  <2>1. \A x \in attempts' : /\ x.id <= Cardinality(attempts')
                             /\ x.product = "none" \/ x.dispatched
    BY <1>1, <1>2, <1>4
  <2>2. \A n \in Attempt : reviews'[n] # "none" => \E x \in attempts' : x.id = n
    BY <1>1
  <2> QED
    BY <1>4, <2>1, <2>2 DEF Fresh
<1>6. reviews[r.id] = "none"
  BY <1>1, <1>2
<1> QED
  BY <1>5, <1>6

\* The usage an attempt leaves.
LEMMA Used ==
  ASSUME Full, NEW tools \in Nat, NEW elapsed \in Nat,
         Fits(tools, elapsed)
  PROVE  \E v \in Usage :
           /\ v = [account.usage EXCEPT !["tool_calls"] = @ + tools,
                                        !["compute_seconds"] = @ + elapsed]
           /\ v["model_calls"] = account.usage["model_calls"]
           /\ AtLeast(v, account.usage)
<1>1. /\ account.usage \in Usage /\ account.inflight.reserved \in Nat
      /\ account.usage["compute_seconds"] + account.inflight.reserved <= SecondsCap
      /\ \A k \in Kind : account.usage[k] \in Nat
  BY Spending, Counters, Limits DEF Full, IInv, Within, Kind
<1>2. PICK u \in Usage : u = account.usage
  BY <1>1
<1> DEFINE v == [u EXCEPT !["tool_calls"] = @ + tools, !["compute_seconds"] = @ + elapsed]
<1>3. u["tool_calls"] + tools <= ToolCap /\ u["compute_seconds"] + elapsed <= SecondsCap
  BY <1>2 DEF Fits
<1>4. /\ v \in Usage /\ v["model_calls"] = u["model_calls"]
      /\ v["tool_calls"] = u["tool_calls"] + tools
      /\ v["compute_seconds"] = u["compute_seconds"] + elapsed
  BY <1>2, <1>3, Counters, Limits DEF Usage, Kind
<1> HIDE DEF v
<1>5. AtLeast(v, u)
  BY <1>1, <1>2, <1>4 DEF AtLeast, Kind
<1> QED
  <2>1. v = [account.usage EXCEPT !["tool_calls"] = @ + tools,
                                  !["compute_seconds"] = @ + elapsed]
    BY <1>2 DEF v
  <2> QED
    BY <1>2, <1>4, <1>5, <2>1

LEMMA FinishSound ==
  ASSUME Full, NEW t \in Task, NEW tools \in Nat, NEW elapsed \in Nat, NEW product,
         Finish(t, tools, elapsed, product), proc.pc \in {"advance", "called"},
         task.state = "ready", Covers(account.usage), ~interrupted,
         Fits(tools, elapsed),
         \/ account.inflight.kind = "call" /\ proc.pc = "called"
         \/ ~Inflight(account) /\ proc.pc = "advance" /\ ~Live(t) /\ product = "none",
         t.state # "awaiting_review", t.applied = task.applied, t.attempts = task.attempts,
         t.question = task.question
           \/ (t.question = Cardinality(attempts) + 1 /\ product = "question"
                 /\ t.state = "awaiting_question_review"),
         t.expansion = task.expansion
           \/ (t.expansion = Cardinality(attempts) + 1 /\ product = "expansion"
                 /\ t.state = "awaiting_expansion_review")
  PROVE  EInv'
<1>0. PICK n, u, v, r, s :
        /\ n = Cardinality(attempts) + 1
        /\ u = account.usage
        /\ v = [u EXCEPT !["tool_calls"] = @ + tools, !["compute_seconds"] = @ + elapsed]
        /\ r = [id |-> n, product |-> product, usage |-> v, dispatched |-> At("called")]
        /\ s = [t EXCEPT !.calls = v["model_calls"], !.attempts = @ \cup {n}]
  OBVIOUS
<1>1. /\ n \in Attempt /\ attempts' = attempts \cup {r}
      /\ proc' = [pc |-> "commit", snapshot |-> proc.snapshot, task |-> s,
                  account |-> [usage |-> v, inflight |-> NoFlight]]
      /\ UNCHANGED <<task, account, journal, interrupted, reviews, charges>>
  BY <1>0 DEF Finish, files
<1>2. /\ u \in Usage /\ v \in Usage /\ v["model_calls"] = u["model_calls"]
      /\ AtLeast(v, u)
  <2>1. PICK w \in Usage :
          /\ w = [account.usage EXCEPT !["tool_calls"] = @ + tools,
                                       !["compute_seconds"] = @ + elapsed]
          /\ w["model_calls"] = account.usage["model_calls"]
          /\ AtLeast(w, account.usage)
    BY Used
  <2>2. w = v
    BY <1>0, <2>1
  <2> QED
    BY <1>0, <2>1, <2>2, Usages
<1>3. Fresh' /\ reviews[n] = "none"
  <2>1. r.id = n /\ (r.product = "none" \/ r.dispatched)
    BY <1>0 DEF At
  <2> QED
    BY <1>0, <1>1, <2>1, NextAttempt
<1>4. /\ s.state = t.state /\ s.calls = v["model_calls"] /\ s.attempts = task.attempts \cup {n}
      /\ s.question = t.question /\ s.expansion = t.expansion /\ s.applied = task.applied
  BY <1>0 DEF Task
<1>5. /\ ~Pending /\ Sound(task) /\ Sourced(task)
      /\ proc.snapshot.state = "ready" /\ Sound(proc.snapshot) /\ Sourced(proc.snapshot)
  BY Carried DEF Full, EInv, ProcSound, TaskSound
<1>6. Sourced(task)' /\ Sourced(proc.snapshot)'
  BY <1>1, <1>5 DEF Sourced
<1>7. Sound(s) /\ Unreviewed(s)
  BY <1>0, <1>3, <1>4, <1>5 DEF Sound, Unreviewed
<1>8. Sourced(s)'
  <2>1. r \in attempts' /\ r.id = n /\ r.product = product /\ n \in s.attempts
    BY <1>0, <1>1, <1>4
  <2>2. /\ s.question = task.question \/ (s.question = n /\ product = "question")
        /\ s.expansion = task.expansion \/ (s.expansion = n /\ product = "expansion")
    BY <1>0, <1>4
  <2> QED
    BY <1>1, <1>4, <1>5, <2>1, <2>2 DEF Sourced
<1>9. Covers(v)'
  <2>1. \A x \in attempts : x.dispatched => AtLeast(v, x.usage)
    BY <1>0, <1>2, Usages, Ordered DEF Covers
  <2> QED
    BY <1>0, <1>1, <1>2, <2>1, Ordered DEF Covers
<1>10. Clean(task)' /\ (Live(s) => Clean(s)')
  <2>1. Clean(task)
    BY DEF Full, EInv, TaskSound, Live
  <2>2. n \notin task.attempts
    <3>1. \A x \in attempts : x.id <= Cardinality(attempts) /\ x.id \in Nat
      BY Limits DEF Full, EInv, Fresh, IInv, TypeOK, Attempt
    <3>2. Cardinality(attempts) \in Nat
      BY FS_CardinalityType DEF Full, EInv, Fresh
    <3> QED
      BY <1>0, <2>1, <3>1, <3>2 DEF Clean
  <2>3. r.id = n /\ (Live(s) => r.dispatched)
    BY <1>0, <1>4 DEF Live, At
  <2>4. Clean(task)'
    BY <1>1, <2>1, <2>2, <2>3 DEF Clean
  <2>5. ASSUME Live(s) PROVE Clean(s)'
    <3>1. \A x \in attempts' : x.dispatched \/ x.id \notin s.attempts
      <4>1. ASSUME NEW x \in attempts, ~x.dispatched PROVE x.id \notin s.attempts
        <5>1. x.id # n
          BY <1>0, <2>1, <4>1, FS_CardinalityType, Limits
          DEF Full, EInv, Fresh, IInv, TypeOK, Attempt
        <5> QED
          BY <1>4, <2>1, <4>1, <5>1 DEF Clean
      <4> QED
        BY <1>1, <2>3, <2>5, <4>1
    <3>2. \A m \in s.attempts : \E x \in attempts' : x.id = m
      BY <1>1, <1>4, <2>1, <2>3 DEF Clean
    <3> QED
      BY <3>1, <3>2 DEF Clean
  <2> QED
    BY <2>4, <2>5
<1>11. ProcSound'
  <2>1. /\ proc'.pc = "commit" /\ proc'.task = s /\ proc'.account.usage = v
        /\ proc'.account.inflight = NoFlight /\ proc'.snapshot = proc.snapshot
    BY <1>1
  <2>2. (Settlement(proc.task, proc.account))'
    BY <1>1, <1>4, <1>7, <1>8, <1>9, <1>10, <2>1
    DEF Settlement, Sound, Unreviewed, Sourced, Inflight, NoFlight, Covers, Clean, Live
  <2>3. Live(proc'.task) => Inflight(account') \/ proc'.account.usage = account'.usage
    BY <1>1, <1>4, <2>1 DEF Inflight, Live
  <2> QED
    BY <1>1, <1>5, <1>6, <2>1, <2>2, <2>3 DEF ProcSound, At, Reviewing, Sound, Inflight
<1>12. TaskSound' /\ JournalSound'
  BY <1>1, <1>5, <1>6, <1>10 DEF TaskSound, Sound, JournalSound, Pending
<1>13. AccountSound'
  <2>1. /\ \A x \in charges : AtLeast(account.usage, x)
        /\ ~interrupted'
    BY <1>1 DEF Full, EInv, AccountSound
  <2>2. ASSUME account.inflight.kind # "call" PROVE Covers(account.usage)'
    <3>1. ~r.dispatched /\ Covers(account.usage)
      BY <1>0, <2>2 DEF At
    <3> QED
      BY <1>1, <3>1 DEF Covers
  <2> QED
    BY <1>1, <2>1, <2>2 DEF AccountSound, Covers
<1> QED
  BY <1>3, <1>11, <1>12, <1>13 DEF EInv

LEMMA FinishesSound ==
  ASSUME Full, PreparationFails \/ CallFails \/ CallProposes
  PROVE  EInv'
<1>1. /\ task \in Task /\ account.usage["tool_calls"] \in 0..ToolCap
      /\ account.inflight.reserved \in 0..SecondsCap
  BY Spending DEF Full, IInv, TypeOK
<1>2. CASE PreparationFails
  <2>1. PICK e \in CallElapsed :
          /\ Finish([task EXCEPT !.state = "exhausted_requires_review"], 0, e, "none")
          /\ task.state = "ready" /\ Covers(account.usage) /\ ~interrupted
          /\ ~Inflight(account) /\ proc.pc = "advance"
          /\ e <= Least(CallSeconds, Remaining)
    BY <1>2 DEF PreparationFails, BudgetAgrees, Covers, At
  <2>2. /\ account.usage["tool_calls"] + 0 <= ToolCap
        /\ e \in Nat /\ account.usage["compute_seconds"] + e <= SecondsCap
    BY <1>1, <2>1, Limits, Room DEF Full, IInv, Remaining
  <2>3. PICK t : t = [task EXCEPT !.state = "exhausted_requires_review"]
    OBVIOUS
  <2>4. /\ t \in Task /\ t.state = "exhausted_requires_review" /\ t.applied = task.applied
        /\ t.attempts = task.attempts /\ t.question = task.question
        /\ t.expansion = task.expansion
    BY <1>1, <2>3 DEF Task, TaskState
  <2>5. ~Live(t)
    BY <2>4 DEF Live
  <2> QED
    BY <2>1, <2>2, <2>3, <2>4, <2>5, FinishSound DEF Fits
<1>3. ASSUME At("called")
      PROVE  /\ \A tools \in {0, CallTools} :
                  tools \in Nat /\ account.usage["tool_calls"] + tools <= ToolCap
             /\ proc.pc = "called" /\ task.state = "ready" /\ Covers(account.usage)
             /\ ~interrupted /\ account.inflight.kind = "call"
  <2>1. account.usage["tool_calls"] + CallTools <= ToolCap
    BY <1>3 DEF Full, IInv, ProcOK
  <2> QED
    BY <1>1, <1>3, <2>1, Limits DEF Full, EInv, ProcSound, At
<1>4. CASE CallFails
  <2>1. PICK e \in CallElapsed, tools \in {0, CallTools},
             q \in {"ready", "exhausted_requires_review"} :
          e <= account.inflight.reserved
          /\ Finish([task EXCEPT !.state = q], tools, e, "none")
    BY <1>4 DEF CallFails
  <2>2. PICK t : t = [task EXCEPT !.state = q]
    OBVIOUS
  <2>3. /\ t \in Task /\ t.state = q /\ t.applied = task.applied
        /\ t.attempts = task.attempts /\ t.question = task.question
        /\ t.expansion = task.expansion
    BY <1>1, <2>2 DEF Task, TaskState
  <2>4. e \in Nat /\ account.usage["compute_seconds"] + e <= SecondsCap
    BY <2>1, Room DEF Full, IInv
  <2> QED
    <3>1. /\ Fits(tools, e) /\ tools \in Nat
          /\ proc.pc = "called" /\ task.state = "ready" /\ Covers(account.usage)
          /\ ~interrupted /\ account.inflight.kind = "call"
      BY <1>3, <1>4, <2>4 DEF CallFails, Fits
    <3>2. t.state # "awaiting_review" /\ Finish(t, tools, e, "none")
      BY <2>1, <2>2, <2>3
    <3> QED
      BY <2>3, <2>4, <3>1, <3>2, FinishSound
<1>5. CASE CallProposes
  <2>0. PICK e \in CallElapsed, product \in {"question", "expansion"} : \E n, t :
          /\ n = Cardinality(attempts) + 1
          /\ t = IF product = "question"
                   THEN [task EXCEPT !.state = "awaiting_question_review", !.question = n]
                   ELSE [task EXCEPT !.state = "awaiting_expansion_review", !.expansion = n]
          /\ e <= account.inflight.reserved /\ Finish(t, CallTools, e, product)
    BY <1>5 DEF CallProposes
  <2>1. PICK n, t :
          /\ n = Cardinality(attempts) + 1
          /\ t = IF product = "question"
                   THEN [task EXCEPT !.state = "awaiting_question_review", !.question = n]
                   ELSE [task EXCEPT !.state = "awaiting_expansion_review", !.expansion = n]
          /\ e <= account.inflight.reserved /\ Finish(t, CallTools, e, product)
    BY <2>0
  <2>2. n \in Attempt
    BY <2>1 DEF Finish
  <2>3. /\ t \in Task /\ t.applied = task.applied /\ t.attempts = task.attempts
        /\ t.state = IF product = "question" THEN "awaiting_question_review"
                     ELSE "awaiting_expansion_review"
        /\ t.question = IF product = "question" THEN n ELSE task.question
        /\ t.expansion = IF product = "expansion" THEN n ELSE task.expansion
    BY <1>1, <2>1, <2>2 DEF Task, TaskState
  <2>4. e \in Nat /\ account.usage["compute_seconds"] + e <= SecondsCap
    BY <2>1, Room DEF Full, IInv
  <2>5. /\ t.state # "awaiting_review"
        /\ t.question = task.question
             \/ (t.question = Cardinality(attempts) + 1 /\ product = "question"
                   /\ t.state = "awaiting_question_review")
        /\ t.expansion = task.expansion
             \/ (t.expansion = Cardinality(attempts) + 1 /\ product = "expansion"
                   /\ t.state = "awaiting_expansion_review")
    BY <2>1, <2>3
  <2>6. /\ proc.pc = "called" /\ task.state = "ready" /\ Covers(account.usage)
        /\ ~interrupted /\ account.inflight.kind = "call" /\ CallTools \in Nat
        /\ account.usage["tool_calls"] + CallTools <= ToolCap
    BY <1>3, <1>5 DEF CallProposes
  <2> QED
    <3>1. Fits(CallTools, e) /\ Finish(t, CallTools, e, product)
      BY <2>1, <2>4, <2>6 DEF Fits
    <3> QED
      BY <2>3, <2>4, <2>5, <2>6, <3>1, FinishSound
<1> QED
  BY <1>2, <1>4, <1>5

-----------------------------------------------------------------------------
LEMMA ChargeSound ==
  ASSUME Full, IInv', NEW job \in Job, NEW n \in Attempt, NEW d \in Decision \cup {"none"},
         Charge(job, n, d),
         task.state \in {"awaiting_question_review", "awaiting_expansion_review"},
         job = "question" => /\ task.state = "awaiting_question_review" /\ task.question = n
                             /\ Authored(n, "question"),
         job = "expansion" => /\ task.state = "awaiting_expansion_review" /\ task.expansion = n
                              /\ Authored(n, "expansion")
  PROVE  EInv'
<1>1. /\ UNCHANGED <<task, journal, attempts, interrupted, reviews, charges>>
      /\ proc' = [pc |-> "charged", job |-> job, n |-> n, decision |-> d]
      /\ ~Inflight(account)
  BY DEF Charge, receipts
<1>2. JournalSound' /\ ~Replayable' /\ UsageLater
  BY ChargeOutdates DEF Live
<1>3. Live(task) /\ ~interrupted
  BY <1>1 DEF Live, Full, EInv, AccountSound
<1>4. Covers(account.usage)
  <2>1. CASE Replayable
    BY <1>1, <1>3, <2>1, Whole DEF Settlement
  <2>2. CASE ~Replayable
    BY <1>1, <1>3, <2>2 DEF Full, EInv, AccountSound, Inflight
  <2> QED
    BY <2>1, <2>2
<1>5. AccountSound'
  BY <1>1, <1>2, <1>3, <1>4, Covering DEF AccountSound, Covers
<1>6. Fresh' /\ TaskSound'
  BY <1>1 DEF Full, EInv, Fresh, TaskSound, Sound, Sourced, Live, Clean
<1>7. job # "shadow" => \E r \in attempts : r.id = n
  BY DEF Job, Authored
<1>8. ReviewSound'
  BY <1>1, <1>2, <1>7 DEF ReviewSound, At
<1>9. ProcSound'
  BY <1>1, <1>8 DEF ProcSound, At, Replaying
<1> QED
  BY <1>2, <1>5, <1>6, <1>9 DEF EInv

LEMMA ChargesSound ==
  ASSUME Full, IInv', ReviewQuestion \/ ReviewExpansion \/ Shadow
  PROVE  EInv'
<1>1. CASE ReviewQuestion
  <2>1. PICK n \in Attempt, d \in Decision :
          task.question = n /\ Authored(n, "question") /\ Charge("question", n, d)
    BY <1>1 DEF ReviewQuestion
  <2> QED
    BY <1>1, <2>1, ChargeSound DEF ReviewQuestion, Job
<1>2. CASE ReviewExpansion
  <2>1. PICK n \in Attempt, d \in Decision :
          task.expansion = n /\ Authored(n, "expansion") /\ Charge("expansion", n, d)
    BY <1>2 DEF ReviewExpansion
  <2> QED
    BY <1>2, <2>1, ChargeSound DEF ReviewExpansion, Job
<1>3. CASE Shadow
  <2>1. PICK n \in Attempt :
          /\ task.state \in {"awaiting_question_review", "awaiting_expansion_review"}
          /\ Charge("shadow", n, "none")
    BY <1>3 DEF Shadow
  <2> QED
    BY <2>1, ChargeSound DEF Job
<1> QED
  BY <1>1, <1>2, <1>3

LEMMA StoresSound ==
  ASSUME Full, ReviewFails \/ StoreReview \/ StoreShadow
  PROVE  EInv'
<1>1. /\ UNCHANGED <<task, account, journal, attempts, interrupted, charges>>
      /\ proc.pc = "charged" /\ proc \in Reviewer
  BY Places DEF ReviewFails, StoreReview, StoreShadow, files, receipts, At, Full, IInv, Reviewing
<1>2. ReviewSound
  BY <1>1 DEF Full, EInv, ProcSound, Reviewing
<1>3. /\ proc'.pc \in {"release", "apply"} /\ proc'.job = proc.job /\ proc'.n = proc.n
      /\ proc'.pc = "apply" => proc.job = "expansion"
  <2>1. CASE ReviewFails \/ StoreShadow
    BY <1>1, <2>1 DEF ReviewFails, StoreShadow, Reviewer
  <2>2. CASE StoreReview
    BY <1>1, <2>2 DEF StoreReview, Reviewer, Job
  <2> QED
    BY <2>1, <2>2
<1>4. UsageLater
  BY <1>1, SameAccount
<1>5. JournalSound' /\ ~Replayable'
  BY <1>1, <1>2, <1>4, Outdated DEF ReviewSound
<1>6. ReviewSound'
  BY <1>1, <1>2, <1>3, <1>5 DEF ReviewSound, At
<1>7. ProcSound'
  BY <1>3, <1>6 DEF ProcSound, At, Replaying
<1>8. Fresh'
  <2>1. ASSUME NEW n \in Attempt, reviews'[n] # "none"
        PROVE  \E r \in attempts : r.id = n
    <3>1. CASE StoreReview
      <4>1. /\ reviews' = [reviews EXCEPT ![proc.n] = proc.decision] /\ proc.job # "shadow"
            /\ reviews \in [Attempt -> Decision \cup {"none"}]
        BY <3>1 DEF StoreReview, Full, IInv, TypeOK
      <4>2. n = proc.n \/ reviews[n] # "none"
        BY <2>1, <4>1
      <4> QED
        BY <1>2, <4>1, <4>2 DEF ReviewSound, Full, EInv, Fresh
    <3>2. CASE ReviewFails \/ StoreShadow
      BY <2>1, <3>2 DEF ReviewFails, StoreShadow, receipts, Full, EInv, Fresh
    <3> QED
      BY <3>1, <3>2
  <2> QED
    BY <1>1, <2>1 DEF Full, EInv, Fresh
<1>9. TaskSound' /\ AccountSound'
  BY <1>1, <1>2, <1>5
  DEF Full, EInv, TaskSound, Sound, Sourced, Live, Clean, AccountSound, Live, Covers, Inflight, ReviewSound
<1> QED
  BY <1>5, <1>7, <1>8, <1>9 DEF EInv

LEMMA ReleasesSound ==
  ASSUME Full, IInv', Release \/ StoreCharge
  PROVE  EInv'
<1>1. /\ UNCHANGED <<task, journal, attempts, interrupted, reviews>>
      /\ proc.pc \in {"release", "receipt"} /\ proc \in Reviewer
  BY Places DEF Release, StoreCharge, files, receipts, At, Full, IInv, Reviewing
<1>2. ReviewSound
  BY <1>1 DEF Full, EInv, ProcSound, Reviewing
<1>3. UsageLater
  <2>1. CASE Release
    BY <2>1, Elapsed DEF UsageLater, IInv, TypeOK
  <2>2. CASE StoreCharge
    BY <2>2, SameAccount DEF StoreCharge, files
  <2> QED
    BY <2>1, <2>2
<1>4. JournalSound' /\ ~Replayable'
  BY <1>1, <1>2, <1>3, Outdated DEF ReviewSound
<1>5. Fresh' /\ TaskSound'
  BY <1>1 DEF Full, EInv, Fresh, TaskSound, Sound, Sourced, Live, Clean
<1>6. CASE Release
  <2>1. /\ proc'.pc = "receipt" /\ proc'.job = proc.job /\ proc'.n = proc.n
        /\ ~Inflight(account') /\ UNCHANGED charges /\ account.inflight.kind = "review"
    BY <1>1, <1>6, Elapsed
    DEF Release, Reviewer, receipts, Full, IInv, ProcOK, At, Charged
  <2>2. ReviewSound'
    BY <1>1, <1>2, <1>4, <2>1 DEF ReviewSound, At
  <2>3. ProcSound'
    BY <2>1, <2>2 DEF ProcSound, At, Replaying
  <2>4. AccountSound'
    <3>1. Live(task) => Covers(account.usage) /\ ~interrupted
      BY <1>2, <2>1 DEF Full, EInv, AccountSound, ReviewSound
    <3> QED
      BY <1>1, <1>3, <2>1, <3>1, Covering DEF AccountSound, Covers
  <2> QED
    BY <1>4, <1>5, <2>3, <2>4 DEF EInv
<1>7. CASE StoreCharge
  <2>1. /\ UNCHANGED account /\ charges' = charges \cup {account.usage}
        /\ proc'.pc = "idle" \/ (proc'.pc = "apply" /\ proc'.job = "question"
                                   /\ proc.job = "question" /\ proc'.n = proc.n)
        /\ proc.pc = "receipt"
    BY <1>1, <1>7 DEF StoreCharge, Reviewer, Idle, files, At
  <2>2. proc'.pc = "apply" => ReviewSound'
    BY <1>1, <1>2, <1>4, <2>1 DEF ReviewSound, At, Inflight
  <2>3. ProcSound'
    BY <2>1, <2>2 DEF ProcSound, At, Replaying, Reviewing
  <2>4. AccountSound'
    <3>1. \A u \in charges' : AtLeast(account.usage, u)
      BY <2>1, Usages, Ordered DEF Full, EInv, AccountSound
    <3> QED
      BY <1>1, <1>2, <2>1, <3>1
      DEF Full, EInv, AccountSound, ReviewSound, Live, Covers, Inflight
  <2> QED
    BY <1>4, <1>5, <2>3, <2>4 DEF EInv
<1> QED
  BY <1>6, <1>7

LEMMA AppliesSound ==
  ASSUME Full, Apply \/ RetryReview
  PROVE  EInv'
<1>1. /\ UNCHANGED <<account, journal, attempts, interrupted, reviews, charges>>
      /\ task \in Task
  BY DEF Apply, RetryReview, receipts, Full, IInv, TypeOK
<1>2. PICK n \in Attempt, product \in {"question", "expansion"} :
        /\ task' = Reviewed(task, n, product) /\ ~Replayable
        /\ task.state = IF product = "question" THEN "awaiting_question_review"
                        ELSE "awaiting_expansion_review"
        /\ IF product = "question" THEN task.question = n ELSE task.expansion = n
        /\ \/ proc'.pc = "idle"
           \/ /\ proc'.pc = "release" /\ product = "expansion" /\ proc'.job = "expansion"
              /\ proc'.n = n /\ \E r \in attempts : r.id = n
  <2>1. CASE Apply
    <3>1. proc.pc = "apply" /\ task' = Reviewed(task, proc.n, proc.job) /\ proc \in Reviewer
          /\ proc' = IF proc.job = "question" THEN Idle ELSE [proc EXCEPT !.pc = "release"]
      BY <2>1, Places DEF Apply, At, Full, IInv, Reviewing
    <3>2. ReviewSound
      BY <3>1 DEF Full, EInv, ProcSound, Reviewing
    <3>3. proc.job \in {"question", "expansion"} /\ proc.n \in Attempt
      BY <3>1, <3>2 DEF Reviewer, Job, ReviewSound, At
    <3>4. /\ proc'.pc = IF proc.job = "question" THEN "idle" ELSE "release"
          /\ proc.job = "expansion" => proc'.job = proc.job /\ proc'.n = proc.n
      BY <3>1 DEF Idle, Reviewer
    <3> QED
      BY <3>1, <3>2, <3>3, <3>4 DEF ReviewSound
  <2>2. CASE RetryReview
    <3>1. PICK n \in Attempt \ task.applied, product \in {"question", "expansion"} :
            /\ reviews[n] # "none" /\ task' = Reviewed(task, n, product)
            /\ IF product = "question" THEN task.question = n ELSE task.expansion = n
      BY <2>2 DEF RetryReview
    <3>2. proc'.pc = "idle"
      BY <2>2 DEF RetryReview, At
    <3> QED
      BY <3>1, <3>2, Retried
  <2> QED
    BY <2>1, <2>2
<1>3. /\ task'.attempts = task.attempts /\ task'.question = task.question
      /\ task'.expansion = task.expansion /\ task'.applied = task.applied \cup {n}
      /\ product = "expansion" => task'.state = "expansion_reviewed"
  BY <1>1, <1>2, ReviewedIs DEF Reviewed, Task
<1>4. UsageLater
  BY <1>1, SameAccount
<1>5. JournalSound' /\ ~Replayable'
  BY <1>1, <1>2, <1>4, Outdated
<1>6. Fresh'
  BY <1>1 DEF Full, EInv, Fresh
<1>7. TaskSound'
  BY <1>1, <1>2, <1>3 DEF Full, EInv, TaskSound, Sound, Sourced, Live, Clean
<1>8. AccountSound'
  <2>1. Live(task) /\ task.state # "ready"
    BY <1>2 DEF Live
  <2> QED
    BY <1>1, <1>2, <2>1 DEF Full, EInv, AccountSound, Covers, Inflight
<1>9. ProcSound'
  <2>1. CASE proc'.pc = "idle"
    BY <2>1 DEF ProcSound, At, Replaying, Reviewing
  <2>2. CASE proc'.pc = "release" /\ product = "expansion" /\ proc'.job = "expansion"
    <3>1. ReviewSound'
      BY <1>1, <1>2, <1>3, <1>5, <2>2 DEF ReviewSound, At
    <3> QED
      BY <2>2, <3>1 DEF ProcSound, At, Replaying
  <2> QED
    BY <1>2, <2>1, <2>2
<1> QED
  BY <1>5, <1>6, <1>7, <1>8, <1>9 DEF EInv

-----------------------------------------------------------------------------
LEMMA FullInitially ==
  Init => Full
<1> SUFFICES ASSUME Init PROVE Full
  OBVIOUS
<1>1. TaskOf(task) = [state |-> "ready", calls |-> 0]
  BY DEF Init, TaskOf
<1>2. AccountOf(account) = [usage |-> [k \in Kind |-> 0], inflight |-> FALSE]
  BY DEF Init, AccountOf, Inflight, NoFlight
<1>3. JournalOf = Protocol!NoJournal /\ step = "idle"
  BY DEF Init, JournalOf, Protocol!NoJournal, step, StepOf, At, Idle
<1>4. Protocol!Init
  BY <1>1, <1>2, <1>3 DEF Protocol!Init
<1>5. Protocol!IInv
  BY <1>4, Parameters, Protocol!InitIInv
<1>6. Fresh /\ TaskSound
  BY FS_EmptySet DEF Init, Fresh, TaskSound, Sound, Sourced, Clean
<1>7. JournalSound /\ ProcSound /\ AccountSound
  BY DEF Init, JournalSound, Pending, ProcSound, At, Idle, Reviewing, Replaying, AccountSound,
     Covers
<1> QED
  BY <1>5, <1>6, <1>7, Initially DEF Full, EInv

LEMMA StepMaps ==
  ASSUME Full, IInv', [Next]_vars
  PROVE  Maps
<1>1. CASE Tick \/ Park \/ Return \/ Crash \/ NotReady \/ AdvanceRefused
  BY <1>1, TickMaps
<1>2. CASE RecoverNothing \/ RecoverAccepts \/ RecoverRefuses \/ WriteTask
             \/ WriteAccount \/ WriteSettled
  BY <1>2, RecoveryMaps
<1>3. CASE Exhaust \/ SettleInterruption \/ Dispatch \/ CallProvider
             \/ PreparationFails \/ CallFails \/ CallProposes
  BY <1>3, AdvanceMaps
<1>4. CASE Commit
  BY <1>4, CommitMaps
<1>5. CASE ReviewQuestion \/ ReviewExpansion \/ Shadow
  BY <1>5, ChargesMap
<1>6. CASE ReviewFails \/ StoreReview \/ StoreShadow \/ Release \/ StoreCharge
  BY <1>6, WorkMaps
<1>7. CASE Apply \/ RetryReview
  BY <1>7, ApplyMaps
<1>8. CASE UNCHANGED vars
  BY <1>8, Seen DEF vars, Maps, Protocol!vars, step, At, Inflight
<1> QED
  BY <1>1, <1>2, <1>3, <1>4, <1>5, <1>6, <1>7, <1>8 DEF Next, Work, Start

LEMMA StepSound ==
  ASSUME Full, IInv', [Next]_vars
  PROVE  EInv'
<1>1. CASE Tick \/ Return \/ Crash \/ NotReady \/ AdvanceRefused \/ RecoverNothing
             \/ RecoverAccepts \/ RecoverRefuses \/ CallProvider
  BY <1>1, StillSound
<1>2. CASE Park \/ Exhaust
  BY <1>2, ParkSound
<1>3. CASE WriteTask \/ WriteAccount \/ WriteSettled
  BY <1>3, WriteSound
<1>4. CASE Commit
  BY <1>4, CommitSound
<1>5. CASE Dispatch
  BY <1>5, DispatchSound
<1>6. CASE SettleInterruption
  BY <1>6, SettleSound
<1>7. CASE PreparationFails \/ CallFails \/ CallProposes
  BY <1>7, FinishesSound
<1>8. CASE ReviewQuestion \/ ReviewExpansion \/ Shadow
  BY <1>8, ChargesSound
<1>9. CASE ReviewFails \/ StoreReview \/ StoreShadow
  BY <1>9, StoresSound
<1>10. CASE Release \/ StoreCharge
  BY <1>10, ReleasesSound
<1>11. CASE Apply \/ RetryReview
  BY <1>11, AppliesSound
<1>12. CASE UNCHANGED vars
  <2>1. UNCHANGED proc /\ UNCHANGED <<task, account, journal, attempts, interrupted, reviews,
                                      charges>>
    BY <1>12 DEF vars
  <2>2. Fresh' /\ TaskSound' /\ JournalSound' /\ AccountSound' /\ (Replayable' <=> Replayable)
    BY <2>1, Still
  <2>3. ProcSound'
    BY <2>1, <2>2
    DEF Full, EInv, ProcSound, ReviewSound, At, Sound, Sourced, Covers, Settlement, Unreviewed,
        Inflight, Live, Clean
  <2> QED
    BY <2>2, <2>3 DEF EInv
<1> QED
  BY <1>1, <1>2, <1>3, <1>4, <1>5, <1>6, <1>7, <1>8, <1>9, <1>10, <1>11, <1>12
  DEF Next, Work, Start

LEMMA FullInvariance ==
  Spec => []Full
<1>1. Full /\ IInv' /\ [Next]_vars => Full'
  <2> SUFFICES ASSUME Full, IInv', [Next]_vars PROVE Full'
    OBVIOUS
  <2>1. EInv'
    BY StepSound
  <2>2. [Protocol!Next]_(Protocol!vars)
    BY StepMaps DEF Maps
  <2>3. Protocol!IInv'
    BY <2>2, Parameters, Protocol!IInvStep DEF Full
  <2> QED
    BY <2>1, <2>3 DEF Full
<1> QED
  BY FullInitially, <1>1, Invariance, PTL DEF Spec

(* A ready task that reaches practice_budget agrees with its account, with *)
(* every review charge and with every receipt of a call: what the budget   *)
(* may refuse is a failed preparation that a crash kept from the task.     *)
THEOREM BudgetAccepts == Spec => []BudgetMissesOnlyPreparation
<1>1. Full => BudgetMissesOnlyPreparation
  <2> SUFFICES ASSUME Full, At("advance"), task.state = "ready", ~Inflight(account)
               PROVE  /\ ~interrupted
                      /\ account.usage["model_calls"] = task.calls
                      /\ \A u \in charges : AtLeast(account.usage, u)
                      /\ \A r \in attempts : r.dispatched \/ r.id \in task.attempts
                                             => AtLeast(account.usage, r.usage)
    BY DEF BudgetMissesOnlyPreparation
  <2>1. ~Pending
    BY Carried DEF At
  <2>2. Live(task) /\ account.inflight.kind # "call" /\ ~Replayable
    BY <2>1 DEF Live, Inflight, Replayable
  <2>3. ~interrupted /\ Covers(account.usage) /\ Clean(task)
        /\ \A u \in charges : AtLeast(account.usage, u)
    BY <2>2 DEF Full, EInv, AccountSound, TaskSound
  <2>4. task \in Task /\ account \in Account
    BY DEF Full, IInv, TypeOK
  <2>5. TaskOf(task).calls = AccountOf(account).usage["model_calls"]
    <3>1. ~Protocol!Torn
      BY <2>1, SeenJournal DEF Protocol!Torn
    <3>2. ~AccountOf(account).inflight /\ TaskOf(task).state # "parked"
      BY <2>4, SeenTask, SeenAccount
    <3> QED
      BY <3>1, <3>2 DEF Full, Protocol!IInv, Protocol!CallProjection
  <2>6. account.usage["model_calls"] = task.calls
    BY <2>4, <2>5, SeenTask, SeenAccount
  <2> QED
    BY <2>3, <2>6 DEF Covers, Clean
<1> QED
  BY FullInvariance, <1>1, PTL

(* Whatever is open to review, or was reviewed, is the product of an       *)
(* attempt that the task lists and the account paid for.                   *)
THEOREM ReviewsPaid == Spec => []ReviewedWasPaid
<1>1. Full => ReviewedWasPaid
  <2> SUFFICES ASSUME Full, NEW product \in {"question", "expansion"}, NEW n,
                      n = (IF product = "question" THEN task.question ELSE task.expansion),
                      n # None,
                      task.state \in {"awaiting_question_review", "question_reviewed",
                                      "awaiting_expansion_review", "expansion_reviewed"}
               PROVE  /\ Authored(n, product)
                      /\ ~Inflight(account) =>
                           \E r \in attempts : r.id = n /\ AtLeast(account.usage, r.usage)
    BY DEF ReviewedWasPaid
  <2>1. Authored(n, product)
    BY DEF Full, EInv, TaskSound, Sourced, Authored
  <2>2. Live(task) /\ task.state # "ready"
    BY DEF Live
  <2>3. ~Inflight(account) => Covers(account.usage)
    <3>1. CASE Replayable
      BY <2>2, <3>1, Whole DEF Settlement
    <3>2. CASE ~Replayable
      BY <2>2, <3>2 DEF Full, EInv, AccountSound, Inflight
    <3> QED
      BY <3>1, <3>2
  <2> QED
    BY <2>1, <2>3 DEF Authored, Covers, Full, EInv, Fresh
<1> QED
  BY FullInvariance, <1>1, PTL

\* The same protocol, named once for its proofs and once for the episode.
LEMMA SameProtocol ==
  /\ Protocol!Recover <=> Transaction!Recover
  /\ Protocol!Advance <=> Transaction!Advance
  /\ Protocol!Review <=> Transaction!Review
  /\ Protocol!Crash <=> Transaction!Crash
<1>1. Protocol!Recover <=> Transaction!Recover
  BY
  DEF Protocol!Recover, Transaction!Recover, Protocol!RecoverNothing,
      Transaction!RecoverNothing, Protocol!RecoverAccepts,
      Transaction!RecoverAccepts, Protocol!RecoverRefuses,
      Transaction!RecoverRefuses, Protocol!WriteTask, Transaction!WriteTask,
      Protocol!WriteAccount, Transaction!WriteAccount, Protocol!WriteSettled,
      Transaction!WriteSettled, Protocol!Pending, Transaction!Pending,
      Protocol!Matches, Transaction!Matches
<1>2. Protocol!Advance <=> Transaction!Advance
  BY
  DEF Protocol!Advance, Transaction!Advance, Protocol!Begin, Transaction!Begin,
      Protocol!Dispatch, Transaction!Dispatch, Protocol!Commit, Transaction!Commit,
      Protocol!Exhaust, Transaction!Exhaust, Protocol!Return, Transaction!Return,
      Protocol!Raise, Transaction!Raise, Protocol!Park, Transaction!Park,
      Protocol!AtLeast, Transaction!AtLeast, Protocol!Account, Transaction!Account,
      Protocol!Usage, Transaction!Usage, Protocol!Task, Transaction!Task,
      Protocol!TaskState, Transaction!TaskState, Protocol!Entry, Transaction!Entry
<1>3. Protocol!Review <=> Transaction!Review
  BY
  DEF Protocol!Review, Transaction!Review, Protocol!ReviewCharge,
      Transaction!ReviewCharge, Protocol!ReviewRelease, Transaction!ReviewRelease,
      Protocol!ReviewApply, Transaction!ReviewApply, Protocol!Pending,
      Transaction!Pending, Protocol!Matches, Transaction!Matches, Protocol!Applied,
      Transaction!Applied, Protocol!Torn, Transaction!Torn, Protocol!AtLeast,
      Transaction!AtLeast, Protocol!Account, Transaction!Account, Protocol!Usage,
      Transaction!Usage, Protocol!Task, Transaction!Task, Protocol!TaskState,
      Transaction!TaskState
<1>4. Protocol!Crash <=> Transaction!Crash
  BY DEF Protocol!Crash, Transaction!Crash
<1> QED
  BY <1>1, <1>2, <1>3, <1>4

(* An episode is a use of the settlement protocol: what is proved of the   *)
(* protocol holds of every episode.                                        *)
THEOREM EpisodeSettles == Spec => TransactionSpec
<1>1. Init => Transaction!Init
  <2> SUFFICES ASSUME Init PROVE Transaction!Init
    OBVIOUS
  <2>1. TaskOf(task) = [state |-> "ready", calls |-> 0]
    BY DEF Init, TaskOf
  <2>2. AccountOf(account) = [usage |-> [k \in Kind |-> 0], inflight |-> FALSE]
    BY DEF Init, AccountOf, Inflight, NoFlight
  <2>3. JournalOf = Transaction!NoJournal /\ step = "idle"
    BY DEF Init, JournalOf, Transaction!NoJournal, step, StepOf, At, Idle
  <2> QED
    BY <2>1, <2>2, <2>3 DEF Transaction!Init
<1>2. Full /\ IInv' /\ [Next]_vars => [Transaction!Next]_(Transaction!vars)
  <2>1. Maps => [Transaction!Next]_(Transaction!vars)
    BY SameProtocol DEF Maps, Protocol!Next, Transaction!Next, Protocol!vars, Transaction!vars
  <2> QED
    BY <2>1, StepMaps
<1> QED
  BY <1>1, <1>2, FullInvariance, Invariance, PTL DEF Spec, TransactionSpec, Transaction!Spec
=============================================================================
