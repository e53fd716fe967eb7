# NOVALI: verification project

NOVALI is an operator-governed research and work platform. Its own logic is in
`src/novali-v7_rc02-standalone/operator_shell/` (paths below without a prefix
are in that directory). This project models the two parts that keep promises
over time: the *research worker*, which spends bounded budgets of model calls,
checks and seconds on durable files, is killed and restarted at any moment, and
works under controls and independent reviews that it does not own; and the
*conveyor*, which runs the work of a directive in one container after another
and, as long as no record of one is lost, not two at a time.

Everything there is kept in JSON files, each replaced atomically
(`research_tools.write_json`: temporary file, then rename). There are no
transactions: an operation of several writes may stop between any two of them.
One advisory lock, the *research lease* (`research_runtime.research_lease`),
makes the worker, the command line and the reviewers take turns. The system
releases the lease of a process that dies.

## Inventory

### Modelled

| Component | State it keeps | Operations | Hard behaviours |
|---|---|---|---|
| Practice settlement, `practice_transaction.py` | a task file, an account file, a journal | `commit`, `recover` | a crash between the two files and the settled mark; a charge that comes between a settlement and its replay |
| Question episode, `recursive_loop.py`, `lesson_review_budget.py`, `learning_episodes.tick` | the episode's task and account, attempts, interruptions, reviews, charges | `tick`, `advance`, `review_question`, `charge`, `shadow`, `recursive_expansion.review` | a provider call that is dispatched and never returns; a review that is stored but not applied; spend of three kinds settled at different moments |
| Review queue, `recursive_review_queue.py` | items, claims, current-claim pointers, intents, decisions | `sync`, `claim`, `decide` | a lease that expires while a reviewer decides; four records for one act |
| Research episode, `research_episodes.py`, `research_recovery.py`, `research_feedback.py` | state, contract and result of an episode, the handoff pointer | `advance_episode`, `_publish`, `recover`, `resume_reviewed_work`, `load_research_handoff` | an action whose outcome is unknown; a reader without the lease; artifacts that change under the work |
| Research scheduler, `research_runtime.py` | `scheduler.json`, the lease | `run_research_tick`, the loop of `schedule_research_tick` | controls withdrawn after they were read; work that opens and closes; several processes |
| Learning episode admission, `learning_episodes.py`, `experiment_learning.py`, `authoring_recovery.py`, `recursive_loop.admit` | immutable episodes with their reservations, task files, accounts, the policy pointer | `configure`, `admission_window`, the four `admit`, the tick around them | rolling caps of a day and a week under policies that replace one another; a failure reserved for again after a judgement, by modules that each look its lineage up; a crash between an episode and its task; a clock set back |
| Conveyor children, `conveyor.py`, `conveyor_runner.py`, `conveyor_task_manager.py`, `web_operator.py` | one file for the directive, each child and each returned packet; a spawn lock; docker's containers | `scheduler_tick` and its repairs, `reconcile_child_runs`, `evaluate_pending_child_returns`, `_spawn_child_for_directive`, `apply_directive_feedback`, the decisions on packets | status requests that reconcile beside the tick without its lock; docker calls that take seconds and time out after they worked; three records for one return |
| Theory allowance, `theory_runtime.py`, `theory_allowance.py`, `provider_recovery.py`, `theory_methods.py`, `method_continuation.py`, `method_repair.py` | a run's file and the receipts of three kinds of grant | `refresh_call_allowance`, `issue_grant`/`apply_grant`, `recover_methods`, `issue`/`apply`/`record_outcome` of a continuation, `authorize`/`record_outcome` of its repair, `_advance_theory` | receipts projected again on every pass; a policy that changed since a receipt was written; a crash between receipt and run |

They interact through the files and the lease. The scheduler's tick picks one
piece of work and advances it: a research episode or a theory run. The same
worker ticks the learning episodes, whose admission reads the records and the
accounts of all the others. Reviewers act on episodes through the
queue, under the same lease; a published review wakes stopped work at the next
tick. The operator's controls are files the tick reads. The conveyor has a
scheduler and a lock of its own; the research tick asks for its full ticks
(`autonomy.py:8345`, `autonomy.py:19713`), and a web request runs a bounded
tick or reconciles alone.

What makes each of them correct:

* settlement: a settlement happens in both files or in neither, no caller works
  on half of one, and no replay lowers what was spent;
* question episode: every call and check is charged before it is made, the
  reservation bounds them, a crash raises the budget's own assertions in one
  case only, decisions stand, and an episode is reopened only by a review that
  says so;
* review queue: one decision an item, the one its reviewer intended under a
  lease, and the one on the review record;
* research episode: no action is paid for less or run more than once, a woken
  episode gets no new budget, it comes to an end, and the pointer others follow
  names a whole result;
* scheduler: one tick at a time, withdrawal takes effect within one step, no
  work takes two turns while another waits, open work is served;
* learning episode admission: every episode came in within the caps of its own
  policy, a failure is reserved for once, and again only as often as the policies
  of follow-ups, repairs and questions allow, and the instant told to the operator
  is the earliest that has room;
* conveyor children: two containers of a directive run at a time only if a record
  was lost, whoever waits for a review waits for a packet that was written, no
  child stays active for nobody and no directive is deserted;
* theory allowance: calls are the sum of what was granted, a continuation that is
  over pays for none but those of an authorized repair, a snapshot has two
  renewals at most, each for its own evidence, and the chain of receipts stays
  one that every later pass accepts.

### Not modelled, and why

`PROJECT.json` lists each part with its files. In short:

* *planned*: the registry of expansions, research maintenance, theory transitions,
  the child learning families, the conveyor's support
  requests and resident campaigns, process records (`process_lifecycle.py`), the
  runtime guard, operator alerts;
* *computation without control*: evaluators and causal gates, theory commands,
  the simulation, proposal learning and the interventions: numbers, tensors and
  statistics. The models take a verdict, a result or an elapsed time as a
  nondeterministic choice;
* *input and output*: the web and desktop interfaces, the model interface,
  telemetry, bounded workspace work, the launcher;
* *disabled in this release*: the external adapter and controller isolation.

## Modules

```
PracticeLedger              one-step settlement: what the protocol promises
  ^  (refinement, checked and proved)
PracticeTransaction         journal, two files, a crash between any two writes
  ^  (refinement, checked and proved)
                                  \-- PracticeTransactionProofs
QuestionEpisode             one episode: tick, advance, review, charge, settle
                                  \-- QuestionEpisodeProofs
LearningAdmission           which episodes come to be, and when
                                  \-- LearningAdmissionProofs
ReviewQueue                 the reviewers' side of a question episode
                                  \-- ReviewQueueProofs
ResearchEpisode             one support request's episodes and their handoff
                                  \-- ResearchEpisodeProofs
ResearchScheduler           the tick as a scheduler of all of them
                                  \-- ResearchSchedulerProofs
CallAllowance               what a run is given and spends: what its grants promise
  ^  (refinement, checked and proved)
TheoryAllowance             one theory run and the grants projected on it
                                  \-- TheoryAllowanceProofs
Conveyor                    the children of one directive and their containers
                                  \-- ConveyorProofs
```

Every module has an `MC` module with the values of its constants and one or more
`.cfg` files. Conventions:

* a durable file or a directory of records is a variable, and a comment beside
  it names the path; what a process holds in memory is `proc`, whose `pc` says
  between which two writes it is. An action ends at a durable write or at the
  point where another actor can observe it, so `Crash`, which forgets `proc`,
  covers every place where the program may die;
* a digest stands for the content it is a digest of, so an integrity check is an
  equality. What `*_integrity_failure` raises for is corruption of the files by
  others, and is left out, except where the program itself could cause it
  (`RecoverRefuses`, `BudgetMissesOnlyPreparation`, `ChainHolds`, `ReserveRaises`);
* variables commented *history* are not in the program: they count what a
  provider or an operator saw (`provider`, `called`, `executed`, `late`, ...);
* definitions commented *Mutant* are plausible defects of a neighbouring
  definition. No specification uses them; substituted for it, each one makes a
  property fail, which shows that the property constrains that code.

`PracticeTransaction` models `recover()` and `commit()` write by write, together
with the operations of other modules that touch the same two files: the dispatch
of a call, the exhaustion of a budget, a park by the tick's handler, a review's
charge, release and application. Counters are an arbitrary finite set `Kind`.

`QuestionEpisode` has one action for each stretch between two writes of
`advance()` (interruption, exhaustion, dispatch, provider call, failure or
proposal, commit) and of a review (charge, review record, release, charge
receipt, application), with the retry of a review that was stored but not
applied. The three counters are real numbers of calls, checks and seconds. A
preparation that fails before its call is sent costs time too, and the receipt of
it is written before the journal.
Reviewers hold the research lease when they review, as
`recursive_review_queue.py:21` ("Caller charges and holds the research lease")
asks; the models share that assumption.

`ResearchEpisode` separates the reservation of an action, the action, and its
observation; `_publish` is three writes, and the pointer is read by the support
kernel without the lease. `ReviewQueue` keeps a clock that goes on while a call
is at work. `ResearchScheduler` reads policy, lease, controls, candidates and
turns in the order of the code, for several processes; turns are renumbered
after each one, since only their order is compared.

`TheoryAllowance` projects the receipts in the order of `theory_work_state` and
`_advance_theory`: renewals, reserve, method recovery, review wake,
continuation. The controls are read several times a pass and each reading may
find either value; the policy is read once a tick. What a command computes is
abstracted to its effect on the run: an evaluation that counts as evidence or
does not, a source read, a capability request, a failed measurement. Feedback
texts are the classes the code tells apart (renewable, repairable, neither).
A continuation that has its result may be set going once more: an independent
review authorizes a repair of its method (`method_repair`), and while that has no
result of its own the calls the continuation left over count again. The run's
outcome then goes to the repair (`method_continuation.py:133`), and with it the
calls are over for good. What makes a repair due, a verified method that differs,
is a choice of the program that runs.

`LearningAdmission` is the window as a function of the episodes on record, the
policy and the clock, and `admit` in its two writes (`Reserve`, `WriteTask`). Every
family of episodes asks the same window and writes in the same order. `Admit`
stands for all that admit a thing once: a failure (`learning_episodes.admit`), a
lesson, an obligation, a first question. The three that reserve for the same
failure again are actions of their own: `FollowUp` after a rejected experiment
(`experiment_learning.admit`), `Recover` after an approved repair of the authoring
interface (`authoring_recovery.admit`) and `Extend` after an approved capability
request (`recursive_loop.admit`). The judgement each of them rests on, with its
evidence, may be passed at any time and any number of times, also of episodes of
families for which the code has none; the lookups of the lineage, the root and the
reviews answered are the code's. The variant that keeps a reservation for a
retry is left out. The controls are part of whether a
policy is enabled. What an episode does with its calls is here only what
admission sees of it, a ready task and an inflight account; `QuestionEpisode` has
it in detail. A settlement that cannot be written leaves the account inflight,
and admission is closed from then on: the model has that state, as the code has.

`Conveyor` follows one directive, in the mode in which the task manager only
watches, with one-shot children and the docker runner. Each thread holds the
records it listed before a docker call and writes them back after it, so a status
request may put an old record over a newer one. The kernel's evaluation of a
packet is one step with a free outcome, and all packets are weighed in one; a
decision of the operator is another step. The integrity repair up to the children
it stops is one step: it includes the inspections that choose which of several
active children to keep (`conveyor.py:34536-34574`), and these do not fail in the
model. The lock's owner file is written with the child's record, and the directive's
record with the release of the lock at the end of a spawn. The
emergency stop, the leases of the cutover and faults of the mounts are left out.
`control_child_run` has no caller. What the model shows beside its properties: a
repair that throws a malformed packet away may leave a directive returned for
review with nothing pending; a container that vanished and left nothing stays on
record as active, as the code means it to; an operator's request to stop may be
overwritten by a record that was listed before it; and `docker rm`, which does
not force, fails for ever on a failed child whose container runs.

## Runs

| Run | Question | Bounds, and why they are enough |
|---|---|---|
| `settlement` | does the protocol survive a crash anywhere, and does it implement `PracticeLedger` | two counters with values 0..2: one can move while the other does not, and there is room for a charge on top of a settlement. Crashes are not bounded |
| `question_episode` | budgets, decisions and the settlement of a whole episode | the repository's own limits in units of ten seconds, but for the checks: 16 of the 26 the code reserves, so that two calls and two reviews use them up; two calls, as the code allows; a call takes ten seconds or all it reserved; two crashes: one that leaves a settlement or a reservation open, and one while it is repaired |
| `settlement_completes` | a statement of the sources about settlements, which the code does not keep (below) | as above |
| `costs_retained` | a statement of the sources about the costs of a failed attempt, which the code does not keep (below) | as above |
| `learning_admission` | caps under changing policies, the earliest admission, how often a failure is reserved for | a day of two and a week of five units in six instants, so that a reservation leaves the day, then the week; three policies (the default with two episodes a week, one with a cadence and small episodes, a closed one with no room); one failure with one follow-up allowed, so that its first episode, the follow-up and the recovery all fit, in either order, and a second follow-up would; one question root with one lesson and two questions; one crash, failed write or clock set back. The bounds on lineages are proved for any number |
| `review_queue` | leases, intents and decisions | two reviewers, the two questions an episode can author, a lease of two ticks in four instants, two crashes between the records of one act |
| `research_episode` | payment, single execution, wakes, termination | four calls, plans of one local or a local and a network action, two reviews, two crashes; a step takes no time, one second or three of the compute |
| `research_handoff` | what a reader without the lease sees | two episodes in two revisions of the artifacts, a crash inside a publication |
| `scheduler` | withdrawal, turns, service | two processes, three pieces of work (two that wait and one that overtakes), one crash. The safety properties are proved for any number of each |
| `theory_renewals` | the chain of renewals | one call of the run's own, two evaluations, a policy that switches between no renewals, three calls and one call a renewal (a contract of three is then above the ceiling the policy configures), another run on the same snapshot, one crash; a provider reserve as well |
| `theory_continuation` | all three kinds of grant and a repair over one run | one renewal, one reserve call, a continuation of one call, a review, a method that goes stale and is adopted again; no crash, since a crash at each write is the subject of the runs beside it |
| `theory_repair` | does a continuation end, and does the run implement `CallAllowance` | no renewals and no reserve, a continuation of two calls, so that one is left over when its result is recorded, a repair of its method, one crash between any two writes |
| `conveyor` | one container at a time, packets for whoever waits | two children, so that the second is spawned when the first ended or is believed to have; full and bounded ticks, one status request beside them, one fault at any place (a crash, a docker call that fails or times out, a container lost) |
| `conveyor_liveness` | do children and directives go on | two children, one act of the operator, one fault, the ticks alone. A status request adds writes of old records, not a wait |

Deadlock is checked in `settlement` and `scheduler`, which never stop. In the
others the bounds on calls, crashes, requests or time end every behaviour, and an
episode that is over needs no step, so their configurations say
`CHECK_DEADLOCK FALSE`.

### Properties

Each module has one type invariant; the other properties are these.

* `PracticeTransaction`: `SessionSeesWhole`, `CallProjection` (the task projects
  the calls its account was charged for, so `call_projection_changed` is never
  raised by a crash), `RefusalIsSound` (a replay is refused only when it would
  roll spend back), `UsageNeverDrops`, `LedgerSpec` (the refinement).
* `QuestionEpisode`: `ChargesCovered` (calls are charged before they are made,
  and the reservation covers them), `BudgetMissesOnlyPreparation`, `ReviewedWasPaid`,
  `DecisionsStand`, `TransactionSpec` (the episode is a use of the settlement
  protocol), `TornReadyCompletes` (liveness: both files and the settled mark, unless
  the worker dies once more).
* `ReviewQueue`: `OneDecisionPerItem` (and it is the decision of the review on
  record), `ReviewWasIntended`.
* `LearningAdmission`: `CapsHold`, `LineagesBounded` (three modules decide, each
  from its own lookup, whether a failure is reserved for once more; together they
  stay within what their policies say), `WindowIsEarliest` (the search among a few
  instants against a definition over all of them).
* `ResearchEpisode`: `ChargesCovered`, `NeverRunTwice`, `WokenOnce`,
  `PointerSettled`, `Settles` (liveness).
* `ResearchScheduler`: `WithdrawalStops`, `NoWorkMonopolizes`,
  `OpenWorkIsServed` (liveness).
* `TheoryAllowance`: `CallsWithinGrants`, `SnapshotRenewals`, `ChainHolds`, and
  `AllowanceSpec`: the refinement of `CallAllowance`, in which a grant is given
  in one step and nothing is ever projected again. It contains
  `ContinuationEnds` (no call is charged to a continuation that is over: it has
  its recorded result, and no repair of it is open), which is stated for the
  proofs and not run by itself. `ChainHolds` rests on one guard
  (`theory_allowance.py:173`): without it a renewal given after the policy's
  calls were lowered would start below its own ceiling, and every later pass
  would reject the run.
* `Conveyor`: `Filed`, `OneContainer` (up to records that were lost, each way of
  losing one being counted in `lost`), `NoChildHangs` and `WorkGoesOn`
  (liveness).

### Fairness

* `QuestionEpisode`: weak fairness of `Work` and of `Tick`. A function that was
  begun returns or its process dies, and the daemon loops
  (`research_runtime.schedule_research_tick.work`) while the policy is enabled.
  A review has no fairness: no reviewer has to come.
* `ResearchEpisode`: weak fairness of `Work` and `Select`, for the same reason;
  none for reviews and artifact changes.
* `ResearchScheduler`: weak fairness of each process's steps, and
  `OpenWorkIsServed` only speaks of behaviours in which the operator at last
  leaves policy and controls on and the work open.
* `Conveyor`: weak fairness of a pass or request that was begun (docker calls
  have time limits) and of the clock. Full ticks recur (`autonomy.py:8345`,
  `autonomy.py:19713`), but a bounded tick may hold the lock whenever one comes,
  hence strong fairness of `Reconcile("tick")`. No container has to end and no
  operator has to act.
* `ReviewQueue`, `LearningAdmission`, `TheoryAllowance`, `PracticeTransaction`:
  safety only.

### Where the code departs from its own words

`settlement_completes`: "Durable, idempotent settlement across the task/account
write boundary" (`practice_transaction.py:1`). `recover()` writes the task first.
If the process dies there, the task is no longer `ready`, the tick does not
advance it, and nothing else calls `recover()`: the account stays inflight,
reviews are refused and so is every new admission. The other half holds: if the
crash falls before the task write, the next tick replays both files and marks the
journal settled (`TornReadyCompletes`).

`costs_retained`: the receipt of a failed attempt says `'costs_retained':True`
(`recursive_loop.py:254`). When the preparation failed before its call was sent
nothing is reserved on the account, but the receipt (258) already holds the time
that passed. If the process dies before the journal (261), the account does not
retain that time, and the task is still ready: at the next tick `practice_budget`
finds the receipt above the account, raises `learning_episode_usage_rollback`
(`learning_episodes.py:198`) and the tick parks the task. That is the one case in
which a crash alone raises one of the budget's assertions
(`BudgetMissesOnlyPreparation`).

Three more behaviours at the boundary between `practice_transaction` and its
callers are in the models as they are in the code, where a reader may not expect
them. In that other half, `advance()` raises after the replay because the task is
no longer ready, and the tick's handler (`learning_episodes.py:303`) writes back
the task it had read before, without the settled attempt. After both writes and
before the settled mark, a review may charge the account and reopen the task
(`practice_transaction.py:37-39`); the replay then finds an account it does not
know. And an interruption is settled from the account alone
(`recursive_loop.py:211`), though the attempt and the checks it retains were
stored before the crash; `research_maintenance.py:284-289` takes the maximum of
the two in the same situation.

## Proofs

TLAPS checks thirty-seven theorems, for every value of the constants that the named
assumptions of the modules allow.

`PracticeTransactionProofs` (assumption: the kinds are a set with `Calls` in it,
counters are naturals up to any bound). The properties are not inductive: whether
a replay may go on depends on what the journal holds and on where the process
is. The invariant `IInv` adds `JournalOK` (a pending journal holds a task that
projects its account's calls, an account at rest, and no less than the account
before it) and `StepOK` (the process is inside a replay only while the files
match the journal, a session is open only with nothing pending, a review is at
work only with nothing to replay). `RecoverStep`, `AdvanceStep` and `ReviewStep`
preserve it; the lemma they turn on is `OvertakenNeverMatches`: an account that
spent strictly more than a settlement knows of is neither account the settlement
names. From `IInv` follow `TypeCorrect`, `SessionsSeeWhole`, `CallsProjected` and
`RefusalSound`; with a lemma on each step `UsageMonotone`, and with a lemma that
maps each step to a ledger step or a stutter, `Refinement`.

`ResearchSchedulerProofs` (assumptions: work is a finite set of naturals, no
process is named `nobody`). `IInv`: who is past `Acquire` holds the lease
(`LeaseHeld`); once a step was reserved late, no process is past the controls
(`Withdrawn`); a process that owes a step to a withdrawn policy is idle
(`PolicyWithdrawn`). It gives `OneAtWork` and `AuthorityWithdrawn`. `TInv` says
that what a tick chooses by is what is on disk, because it is alone (`Chosen`),
and that a work that was overtaken has an earlier turn than the one that overtook
it (`Overtaken`), so it is chosen first. The arithmetic is in the lemmas on
`Renumber`: it keeps the order of the turns and their range. It gives
`Unmonopolized`, and with `Located` (where a process can be, and that the lease is
one of them or nobody) `TypeCorrect`.

`ResearchEpisodeProofs` (assumptions: the budgets are naturals and a plan has at
most as many actions as the budget has tools; any plans, reviews and crashes). A
crash takes back what the tick has in memory, so what was done has to be covered
by the record on disk and by the one in memory alike: `Good` says so of a record,
and holds of both. In it an action that is inflight counts as run, so an
interruption that is settled, and one that is not, both keep every run at or
before the last observation; and every plan that was run has been seen, so that a
plan accepted anew (`AcceptPlan` takes no plan the episode has seen) has no run
yet. `Stage` adds what the tick knows at each of its stages: while it works the
record on disk is open, which is why no step can take a published record away,
and from the reservation to the act memory and disk are the same. One lemma for
each change of a record (`SettledGood`, `ReservedGood`, `ToolGood`, ...) keeps
`Good`; the frame lemmas `Held`, `Saved` and `Done` carry it over to the steps. It
gives `TypeCorrect`, `Charged`, `OnceOnly`, `HandoffWhole` and `ReviewsWakeOnce`.

`QuestionEpisodeProofs` (assumptions: the limits are naturals, a review reserves
at least one check, a call and a review take no longer than they reserve; any
number of crashes). A charge is in one of
four places: on the account, on either side of a pending journal, or on the account
that the process is about to commit. `IInv` says of each that its spend and its
inflight reservation stay within the limits (`Within`), and that each covers the
one it replaces, so a replay never takes a call back. `ProcOK` is what the process
knows by the place it has come to: a call about to be sent is on the account, a
review at work holds the reservation that its release turns into elapsed time, and
a review about to store a decision found none on record, which nobody else can have
stored since. It gives `TypeCorrect`, `Covered` and `DecisionKept`.

The second half proves the refinement. `Protocol` is an instance of
`PracticeTransactionProofs` on what the protocol sees of an episode, and its
invariant (`Protocol!IInv`) is carried along: where a journal may be replayed and
when it has been overtaken need not be proved again. It does not say what the
protocol leaves open to its users, and that is `EInv`: a commit settles a ready
task on an account at rest (`Settlement`); a task waits only for what was never
applied to it (`Sound`), which comes from an attempt it lists (`Sourced`) and has no
review while its settlement may still be replayed (`Unreviewed`); receipts are
covered by the account, or by the journal, or by the commit that is about to be
announced (`Covers`), if they are of a call that was sent; the receipt of a failed
preparation may be above the account, and no task that is still worked on lists
one (`Clean`). The lemma it turns on is `Whole`: a pending journal that still matches,
a task that is no longer ready and nothing inflight mean that both files have been
written, so a review never charges a half-written settlement; and a charge raises
the usage, so from then on the journal is out of date for good (`ChargeOutdates`,
`Outdated`). This is where the proof needs that a review reserves at least one
check. It gives `BudgetAccepts`, `ReviewsPaid` and `EpisodeSettles`.

`ReviewQueueProofs` (assumptions: those of `ReviewQueue` on its constants). That
an item is decided once is written nowhere in `decide`. It follows from the
pointer: a call past the look at the lease carries the claim that the pointer
names (`ProcOK`), the pointer moves only while the question is pending, and a
question that is over (reviewed, and the task has gone on) is never pending again
(`TaskOK`). So the claim of a decision is for ever the one in the pointer, and a
claim decides once. It gives `DecidedOnce`, and, from the order intent, review,
decision, `ReviewsIntended`.

`LearningAdmissionProofs` (assumptions: policies are ones `configure` accepts, a
day is shorter than a week). An episode is judged by those before it, and episodes
are only added, so `CapsHold` is inductive with the types; the sums of
reservations are never opened, since both sides add the same function over the
same set. What has to be shown is that the instant the window finds, when it is
now, has room: the code's search says only that it is the least instant that has,
and `LeastExists` that there is one. It gives `CapsNeverExceeded`.

`NoLineageRunsOn` is about reservations for the same failure. The property counts
what was reserved for a failure; the code never does, it counts the episodes of a
lineage. `Rooted` makes the two the same: every further episode of a failure names,
as its lineage, an admitted first episode of that failure. There is one first
episode (`Admit` looks at every family's keys), so there is one lineage
(`OneLineage`), and what `FollowUp` or `Recover` count there is all there is.

`NoEarlierWindow` is about the search itself. It visits the boundaries alone: now,
the cadence and the instants at which an episode leaves a day or a week. Between two of
them nothing leaves, so an instant with room has as much at the boundary before it
(`BoundaryBefore`), and the earliest instant with room is a boundary (`Earliest`).
The property states room as what the caps leave over and the code as a sum within
the caps, so the proof needs that the sum over a finite set is a number. That is an
induction over a fold, which the provers cannot take from the library;
`SumIsNumber` builds the function the fold is defined by, one element at a time,
and `Climb` (a set of naturals that holds 0 and every successor, proved from the
least natural outside it) says that it reaches the whole set.

`TheoryAllowanceProofs` (assumption: a run's reserved calls are positive, a policy
allows at most two renewals of one to six calls and a reserve of at most four, as
`theory_allowance.py` and `provider_recovery.py` enforce; any number of evaluations
and crashes). A limit in the run's file is a copy of what the receipts pay
for, and a crash can leave it behind them. `Limits` is what every pass leaves of
it: without a continuation it is covered by the renewals and the reserve; a
continuation keeps what was there before it, which was covered in the same way; and
a pass comes to the run's own work only with a limit that some receipt pays for. It
does not mention the calls, and `CallsWithinGrants` follows from it because a call
is dispatched only under the limit. The receipts
need what the worker read of the policy (`ProcOK`) and the range of their fields
(`Receipts`): that the key of a new renewal was never used is a fact about all that
the snapshot has, the run's and the others'. A chain link holds because the policy
of the moment, with at least as many renewals of at least as many calls, has a
ceiling no lower than the contract's (`Rising`). It gives `TypeCorrect`,
`SnapshotTwice`, `ChainKept`, `CallsGranted` and, from the one action that makes a
call, `ContinuationOver`: a continuation is over (`Over`) with its result unless a
repair of it is open, and a repair is open from its authorization to its own result,
which is written once.

The refinement of `CallAllowance` (`AllowanceKept`) is mapped on the receipts alone:
a grant is given when its receipt is written, and the limit in the run's file, with
everything a pass does to it, is hidden. So a pass is a stutter however it is cut
off, a call is an abstract call because of `Limits`, and a renewal an abstract one
because of the chain after it. One more invariant, `Granted`, says that a
continuation that was never given is not over and has no outcome to record. The
abstract continuation goes through the stages open, over, reopened and spent, and
`Stage` reads the stage off the two outcomes and the repair.

`ConveyorProofs` (assumption: the bounds are naturals). A record may be written
back as it was listed long ago. That is harmless for `Filed` because packets are
never taken away and keep their child and kind, and because the packet is written
before the two records that speak of it: what was true of a record when it was
listed is true of it still (`Sound`, `Answered`). For `OneContainer` the invariant
`Counted` says that a running container whose record was not lost is that of an
active child; a reservation is made when no child is active, so while one
container may be started none counts. What an old record could break is this:
end a child whose container counts, or give a child at its spawn another state.
Whoever holds a record that has ended, or has seen its container ended, knows that
the container does not count and cannot be started any more (`Settled`, `Past`).
It gives `ReviewsHavePackets` and `ContainersCount`.

Every invariant, action property and refinement that a passing run checks is
thereby a theorem. Only model-checked: the liveness properties
(`TornReadyCompletes`, `SettlementCompletes`, `Settles`, `OpenWorkIsServed`,
`NoChildHangs`, `WorkGoesOn`), since fairness and `ENABLED` are beyond the
prover.

## Assumptions of the models

* Whoever acts on an episode or a queue holds the research lease; the lease is
  an operating system lock and does not outlive its process.
* One file write is atomic; a write that returned survives a crash.
* A call and a review of a question take no longer than what they reserve (the
  action budget and the evaluator's time limit enforce it), and a research step
  no longer than the compute that was left (its calls and fetches get that as
  their time limit; a local command is short). What `QuestionEpisode` and
  `ResearchEpisode` say of seconds rests on it.
* The files of one episode belong to it; other episodes matter only through the
  snapshot's renewals (`Elsewhere`).
* `docker inspect`, `rm` and `run` may fail or time out, `run` and the forced `rm`
  with or without effect; a container leaves its evidence in its directory and
  nobody else writes there.
* A spawn takes less than the 600 seconds after which its reservation counts as
  stale (`Age` waits for it).
* Grants of `provider_recovery.issue_grant` and `method_continuation.issue` are
  written while no pass is at work: the repository has no caller for them, and
  all their state is read again at the next pass.

## Hazards without a property

`PROJECT.json` gives each one at its line. Those in modelled code are states in
which the code fails closed, or keeps a record on purpose, and nothing in the
repository promises otherwise: a review charge cut off by a crash, a completed
episode that was never published, a provider reserve whose failure a review has
overwritten, a container that vanished and left nothing. One is a
planned finding: a renewal written just before a crash is recorded as active by
the next pass even when that pass finds the controls closed, so a run that was
waiting stays waiting with its renewed calls. The others belong to parts that are
planned.

## Plan

1. *More of the system.* In this order: theory transitions; `LearningAdmission`
   composed with `QuestionEpisode` (the accounts that close admission are those
   of the episodes), and `ReviewQueue` with the full `QuestionEpisode`; the
   cutover of the conveyor to the task manager's leases, its support requests
   and resident campaigns; operator alerts and the runtime guard as small
   concurrent modules; process records.
2. *More proofs.* With each module of item 1 the proofs of its own; an abstract
   review queue (a question is asked, claimed, decided once) that `ReviewQueue`
   implements.
3. *Runs.* The runs above stay small enough to be repeated on every change; a
   larger `conveyor` (three children, so that a second container may be lost while
   a third is spawned) belongs to an occasional check.
