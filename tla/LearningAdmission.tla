------------------------- MODULE LearningAdmission -------------------------
(***************************************************************************)
(* The admission of learning episodes under rolling caps                   *)
(* (learning_episodes.configure, admission_window and admit, and the other *)
(* families that ask the same window).  An episode is an immutable record  *)
(* with the reservation it was given; it counts for a day against the      *)
(* number of episodes and for a week against the reservations, whatever it *)
(* uses of them.  Its task is a second file, written after the record, and *)
(* a crash may fall between the two or inside a call.                      *)
(*                                                                         *)
(* A failure is admitted once.  It may be reserved for again when an       *)
(* episode of it has been judged by somebody else: an experiment with its  *)
(* method was rejected (experiment_learning.admit), the interface it was   *)
(* authored through was repaired (authoring_recovery.admit), or a question *)
(* asked for a measurement that was granted (recursive_loop.admit).  Each  *)
(* of them looks the lineage up among the records, on every tick.  Any     *)
(* number of such judgements may be passed; what they rest on is left out. *)
(*                                                                         *)
(* One process holds the research lease and does one thing at a time.  The *)
(* operator replaces the policy, and the host's clock may be set back.     *)
(***************************************************************************)
EXTENDS Integers, Sequences, FiniteSets, FiniteSetsExt, Functions

CONSTANTS
  Failures,  \* what may be practised: the key of a failure, an obligation, a lesson
  Reviewed,  \* those of a reviewed lesson, admitted beside a ready task
  Roots,     \* the lessons of a recursive question's root, as sets of failures
  Policies,  \* what the operator may configure
  Day,       \* 86400 and
  Week,      \* 7*86400, in the model's unit of time
  MaxFollowups, \* max_followups_per_lineage
  MaxQuestions, \* max_questions_per_root
  MaxNow,    \* bound: the last time the model looks at
  MaxFaults  \* bound: crashes and clocks set back

Fields == {"model_calls", "tool_calls", "compute_seconds"}

\* An interval of 0 is none.  A policy is enabled while the operator's controls
\* in autonomy/status.json are open, too.
PolicyShape ==
  [enabled : BOOLEAN, interval : 0..Day, perDay : Nat \ {0},
   episode : [Fields -> Nat \ {0}], week : [Fields -> Nat \ {0}]]

\* configure: the hard ceilings, and room for the independent validation.
Configurable(p) ==
  LET PerWeek(n) == (IF p.interval = 0 THEN 6 ELSE Week \div p.interval) * n IN
  /\ p \in PolicyShape
  /\ p.interval # 0 => Day <= 12 * p.interval
  /\ p.perDay <= IF p.interval = 0 THEN 2 ELSE Day \div p.interval
  /\ p.episode["model_calls"] <= 2
  /\ p.episode["tool_calls"] \in 13 * p.episode["model_calls"] .. 26
  /\ p.episode["compute_seconds"] \in 140 * p.episode["model_calls"] .. 300
  /\ p.week["model_calls"] <= PerWeek(2)
  /\ p.week["tool_calls"] <= PerWeek(26)
  /\ p.week["compute_seconds"] <= PerWeek(300)

ASSUME AdmissionAssumption ==
  /\ Reviewed \subseteq Failures /\ Roots \subseteq SUBSET Failures
  /\ MaxFollowups \in Nat /\ MaxQuestions \in Nat
  /\ Day \in Nat \ {0} /\ Week \in Nat /\ Day < Week
  /\ MaxNow \in Nat \ {0} /\ MaxFaults \in Nat
  /\ \A p \in Policies : Configurable(p)

Kinds == {"failure", "experiment", "authoring", "capability"}
Episode == [key : Failures, at : 1..MaxNow, policy : Policies,
            kind : Kinds, lineage : Nat, review : Nat]

VARIABLES
  now,
  policy,    \* the policy that episode_policy_latest.json points to
  episodes,  \* learning_episodes/, in the order of their admission
  tasks,     \* episode_tasks/: none, ready, waiting, or at rest for good
  inflight,  \* episodes whose account has a call inflight
  work,      \* what the process is in the middle of
  faults

vars == <<now, policy, episodes, tasks, inflight, work, faults>>

None == [doing |-> "nothing", at |-> 0]
NoTime == -1

Init ==
  /\ now = 1
  /\ policy \in Policies
  /\ episodes = <<>>
  /\ tasks = <<>>
  /\ inflight = {}
  /\ work = None
  /\ faults = 0

-----------------------------------------------------------------------------
(* admission_window: an episode leaves a rolling day or week at an instant, *)
(* and only there, or when the cadence allows, can the next one come in.   *)
Admitted == DOMAIN episodes
Since(t, span) == {i \in Admitted : t - episodes[i].at < span}
Total(of, S) == FoldFunctionOnSet(+, 0, of, S)
ReservedIn(S, f) == Total([i \in S |-> episodes[i].policy.episode[f]], S)

Cadence(p) ==
  IF p.interval = 0 \/ episodes = <<>> THEN now
  ELSE Max({now} \cup {episodes[i].at + p.interval : i \in Admitted})

(* Mutant: an episode is looked at when it leaves the day, not the week.   *)
DayBoundaries(p) ==
  {now, Cadence(p)} \cup {t \in {episodes[i].at + Day : i \in Admitted} : t > now}

Boundaries(p) ==
  {now, Cadence(p)} \cup {t \in {episodes[i].at + span : i \in Admitted,
                                                       span \in {Day, Week}} : t > now}

Fits(p, t) ==
  /\ p.interval # 0 => \A i \in Admitted : episodes[i].at + p.interval <= t
  /\ Cardinality(Since(t, Day)) < p.perDay
  /\ \A f \in Fields : ReservedIn(Since(t, Week), f) + p.episode[f] <= p.week[f]

NotBefore(p) ==
  LET open == {t \in Boundaries(p) : Fits(p, t)} IN
  IF open = {} THEN NoTime ELSE CHOOSE t \in open : \A u \in open : t <= u

-----------------------------------------------------------------------------
(* The process that holds the research lease.                              *)
Ready == {i \in DOMAIN tasks : tasks[i] = "ready"}
Known(k) == \E i \in Admitted : episodes[i].key = k

(* Mutant: a window that will open is enough.                              *)
Foreseen == NotBefore(policy) # NoTime
Due == NotBefore(policy) = now

\* What every admission asks of the window, and its immutable record.  kind is
\* what it was admitted for, lineage the lineage_id of a failure's further
\* episodes, and review the episode whose request a capability review granted.
Reserve(k, kind, lineage, review) ==
  /\ work = None /\ policy.enabled
  /\ inflight = {} /\ \A i \in Admitted : episodes[i].at <= now
  /\ Due
  /\ episodes' = Append(episodes, [key |-> k, at |-> now, policy |-> policy, kind |-> kind,
                                   lineage |-> lineage, review |-> review])
  /\ tasks' = Append(tasks, "none")
  /\ work' = [doing |-> "admission", at |-> Len(episodes) + 1]
  /\ UNCHANGED <<now, policy, inflight, faults>>

Questions == UNION Roots
RootHasRoom(k) ==
  \A root \in Roots : k \in root =>
    Cardinality({i \in Admitted : episodes[i].key \in root}) < MaxQuestions

\* A failure nobody practised, or a lesson nobody asked a question about.
Admit(k) ==
  /\ Ready = {} \/ k \in Reviewed
  /\ ~Known(k) /\ RootHasRoom(k)
  /\ Reserve(k, "failure", 0, 0)

(* Mutant: an episode of a lineage starts one of its own.                  *)
OwnLineage(i) == i
Lineage(i) == IF episodes[i].lineage = 0 THEN i ELSE episodes[i].lineage
Family(lineage) == {j \in Admitted : episodes[j].lineage = lineage}

\* After a rejected experiment with the method that episode i authored.
FollowUp(i) ==
  /\ episodes[i].key \notin Questions /\ tasks[i] # "none"
  /\ Cardinality(Family(Lineage(i))) < MaxFollowups
  /\ Reserve(episodes[i].key, "experiment", Lineage(i), 0)

\* After an approved repair of the interface that episode i, now settled and
\* exhausted, was authored through.
Recover(i) ==
  /\ episodes[i].key \notin Questions /\ tasks[i] = "rest"
  /\ \A j \in Family(Lineage(i)) \cup {i} : episodes[j].kind # "authoring"
  /\ Reserve(episodes[i].key, "authoring", Lineage(i), 0)

\* After the approval of the measurement that episode i requested.
Extend(i) ==
  /\ episodes[i].key \in Questions /\ tasks[i] = "rest" /\ Ready = {}
  /\ \A j \in Admitted : episodes[j].review # i
  /\ RootHasRoom(episodes[i].key)
  /\ Reserve(episodes[i].key, "capability", 0, i)

WriteTask ==
  /\ work.doing = "admission"
  /\ tasks' = [tasks EXCEPT ![work.at] = "ready"]
  /\ work' = None
  /\ UNCHANGED <<now, policy, episodes, inflight, faults>>

\* What a task waits for, a repair or a validation window, has come.
Resume(i) ==
  /\ work = None /\ policy.enabled /\ tasks[i] = "waiting"
  /\ tasks' = [tasks EXCEPT ![i] = "ready"]
  /\ UNCHANGED <<now, policy, episodes, inflight, work, faults>>

(* Mutant: the account shows a call when it has been made.                 *)
NotedLater(i) == inflight
Noted(i) == inflight \cup {i}

\* One call of a ready task, under the policy it was admitted under.
Call(i) ==
  /\ work = None /\ policy.enabled /\ i \in Ready \ inflight
  /\ IF policy = episodes[i].policy
       THEN /\ inflight' = Noted(i)
            /\ work' = [doing |-> "call", at |-> i]
            /\ UNCHANGED tasks
       ELSE /\ tasks' = [tasks EXCEPT ![i] = "rest"]
            /\ UNCHANGED <<inflight, work>>
  /\ UNCHANGED <<now, policy, episodes, faults>>

Settle ==
  /\ work.doing = "call"
  /\ \E s \in {"ready", "waiting", "rest"} : tasks' = [tasks EXCEPT ![work.at] = s]
  /\ inflight' = inflight \ {work.at}
  /\ work' = None
  /\ UNCHANGED <<now, policy, episodes, faults>>

\* The settlement cannot be written: tick puts the task to rest, and the
\* account keeps its call.
SettlementFails ==
  /\ work.doing = "call" /\ faults < MaxFaults
  /\ tasks' = [tasks EXCEPT ![work.at] = "rest"]
  /\ work' = None /\ faults' = faults + 1
  /\ UNCHANGED <<now, policy, episodes, inflight>>

\* A later tick finds the call of a worker that died.
SettleInterruption(i) ==
  /\ work = None /\ policy.enabled /\ i \in Ready \cap inflight
  /\ tasks' = [tasks EXCEPT ![i] = "rest"]
  /\ inflight' = inflight \ {i}
  /\ UNCHANGED <<now, policy, episodes, work, faults>>

-----------------------------------------------------------------------------
(* The operator and the host.                                              *)
Configure(p) ==
  /\ p # policy
  /\ policy' = p
  /\ UNCHANGED <<now, episodes, tasks, inflight, work, faults>>

Pass ==
  /\ now < MaxNow
  /\ now' = now + 1
  /\ UNCHANGED <<policy, episodes, tasks, inflight, work, faults>>

SetBack(t) ==
  /\ t < now /\ faults < MaxFaults
  /\ now' = t /\ faults' = faults + 1
  /\ UNCHANGED <<policy, episodes, tasks, inflight, work>>

Crash ==
  /\ work # None /\ faults < MaxFaults
  /\ work' = None /\ faults' = faults + 1
  /\ UNCHANGED <<now, policy, episodes, tasks, inflight>>

Next ==
  \/ \E k \in Failures : Admit(k)
  \/ \E i \in Admitted : FollowUp(i) \/ Recover(i) \/ Extend(i)
  \/ WriteTask
  \/ \E i \in DOMAIN tasks : Resume(i) \/ Call(i) \/ SettleInterruption(i)
  \/ Settle \/ SettlementFails
  \/ \E p \in Policies : Configure(p)
  \/ Pass \/ Crash
  \/ \E t \in 1..MaxNow : SetBack(t)

Spec == Init /\ [][Next]_vars

-----------------------------------------------------------------------------
\* Every record keeps its shape, and what a call may cost is on its account
\* before it is made.
TypeOK ==
  /\ now \in 1..MaxNow /\ policy \in Policies
  /\ episodes \in Seq(Episode)
  /\ tasks \in [Admitted -> {"none", "ready", "waiting", "rest"}]
  /\ inflight \subseteq {i \in Admitted : tasks[i] \in {"ready", "rest"}}
  /\ \/ work = None
     \/ work.doing = "admission" /\ work.at \in Admitted
     \/ work.doing = "call" /\ work.at \in Ready \cap inflight
  /\ faults \in 0..MaxFaults

\* Whatever the policies in between and however the clock was set, every episode
\* came in under its own policy: with those of the day before it within the
\* day's number, and with what those of the week before it reserved within the
\* week's caps, and no sooner than its interval after any of them.
Preceding(i, span) ==
  {j \in 1..(i - 1) : episodes[i].at - episodes[j].at < span}
WithinCaps(i) ==
  LET p == episodes[i].policy IN
  /\ p.interval # 0 =>
       \A j \in 1..(i - 1) : episodes[j].at + p.interval <= episodes[i].at
  /\ Cardinality(Preceding(i, Day)) < p.perDay
  /\ \A f \in Fields : ReservedIn(Preceding(i, Week), f) + p.episode[f] <= p.week[f]
CapsHold == \A i \in Admitted : WithinCaps(i)

\* However rejected experiments and repaired interfaces follow one another, from
\* whichever episodes of a failure, the failure is reserved for once by itself,
\* once by a recovery, and as often as the follow-up policy allows by
\* experiments; and a question's root not oftener than the loop policy allows,
\* each granted measurement counting once.  A crash that loses the task of an
\* admission does not give its place to another.
Reserved(k, kind) == {i \in Admitted : episodes[i].key = k /\ episodes[i].kind = kind}
LineagesBounded ==
  /\ \A k \in Failures :
       /\ \A kind \in {"failure", "authoring"} :
            \A i, j \in Reserved(k, kind) : i = j
       /\ Cardinality(Reserved(k, "experiment")) <= MaxFollowups
  /\ \A root \in Roots :
       Cardinality({i \in Admitted : episodes[i].key \in root}) <= MaxQuestions
  /\ \A k \in Failures : \A i, j \in Reserved(k, "capability") :
       episodes[i].review = episodes[j].review => i = j

\* The window is the earliest instant at which the episodes on record leave
\* room under the policy, and there is none only if there never will be.
Room(p, t) ==
  /\ Cardinality({i \in Admitted : episodes[i].at > t - Day}) + 1 <= p.perDay
  /\ \A f \in Fields :
       MapThenSumSet(LAMBDA i : episodes[i].policy.episode[f],
                     {i \in Admitted : episodes[i].at > t - Week})
         <= p.week[f] - p.episode[f]
  /\ p.interval # 0 => \A i \in Admitted : episodes[i].at <= t - p.interval

WindowIsEarliest ==
  (\A i \in Admitted : episodes[i].at <= now) =>
    \A p \in Policies :
      LET open == {t \in now..(now + Week) : Room(p, t)} IN
      NotBefore(p) = IF open = {} THEN NoTime ELSE Min(open)
=============================================================================
