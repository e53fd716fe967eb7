------------------------- MODULE ReviewQueueProofs -------------------------
(***************************************************************************)
(* The four records of a review agree, for any reviewers, any lease and    *)
(* any crash between two of them.                                          *)
(*                                                                         *)
(* Nothing in a decision says that it is the only one on its item.  What   *)
(* does is the pointer: who is past the look at the lease is the claim     *)
(* that the pointer names, the pointer moves only while the question is    *)
(* pending, and a question that was decided is never pending again.        *)
(***************************************************************************)
EXTENDS ReviewQueue, TLAPS

Stages == {"review", "charged", "release", "apply", "record"}
Reviewing == proc.pc \in Stages

\* What the call at work holds in memory.
ProcOK ==
  proc \in {Idle} \cup [pc : {"point"}, claim : claims]
             \cup [pc : Stages, claim : claims, decision : Decision]

\* The question n was reviewed and the task has gone on.
Over(n) == n < task.question \/ (n = task.question /\ task.applied)

TaskOK ==
  /\ task.state = "awaiting_question_review" => ~task.applied
  /\ \A c \in claims : c.item <= task.question

\* What was decided is over, and stays with the claim that decided it.
DecidedIsOver ==
  \A d \in decisions :
    /\ d.item = d.claim.item
    /\ pointer[d.item] = d.claim
    /\ Over(d.item)
    /\ reviews[d.item].decision = d.decision

\* A claim is pointed to while its question is pending.
PointOK == At("point") => PendingItem(proc.claim.item)

\* The reviewer at work has the item, said what it would decide, and has not
\* decided yet.
HolderOK ==
  Reviewing =>
    /\ pointer[proc.claim.item] = proc.claim
    /\ [claim |-> proc.claim, decision |-> proc.decision] \in intents
    /\ ~Decided(proc.claim)

\* How far each stage has come.
StageOK ==
  /\ At("charged") => reviews[proc.claim.item] = NoReview
  /\ proc.pc \in {"release", "apply", "record"} =>
       /\ reviews[proc.claim.item] # NoReview
       /\ reviews[proc.claim.item].decision = proc.decision
  /\ proc.pc \in {"charged", "release", "apply"} => task.question = proc.claim.item
  /\ At("record") => Over(proc.claim.item)

-----------------------------------------------------------------------------
(* What a call holds is a claim on record and a decision.                  *)
LEMMA TypeStep ==
  ASSUME TypeOK, ProcOK, [Next]_vars
  PROVE  TypeOK' /\ ProcOK'
<1> USE QueueAssumption DEF TypeOK, ProcOK, episode, queue, At, Idle, Stages,
        Claim, NoClaim, NoReview, CallLeft, Questions, Decision
<1>1. CASE Author
  BY <1>1 DEF Author
<1>2. CASE SettleInterruption
  BY <1>2 DEF SettleInterruption
<1>3. CASE Sync
  BY <1>3 DEF Sync
<1>4. CASE StoreClaim
  BY <1>4 DEF StoreClaim
<1>5. CASE Point
  BY <1>5 DEF Point
<1>6. CASE Intend
  BY <1>6 DEF Intend
<1>7. CASE ReviewRefused
  BY <1>7 DEF ReviewRefused
<1>8. CASE ReviewRetried
  BY <1>8 DEF ReviewRetried
<1>9. CASE Charge
  BY <1>9 DEF Charge
<1>10. CASE ReviewFails
  BY <1>10 DEF ReviewFails
<1>11. CASE StoreReview
  BY <1>11 DEF StoreReview
<1>12. CASE Release
  <2>1. proc \in [pc : Stages, claim : claims, decision : Decision]
    BY <1>12 DEF Release
  <2>2. proc' = [proc EXCEPT !.pc = "apply"] /\ UNCHANGED <<queue, now>>
    BY <1>12 DEF Release
  <2>3. ProcOK'
    BY <2>1, <2>2
  <2>4. TypeOK'
    BY <1>12 DEF Release
  <2> QED
    BY <2>3, <2>4
<1>13. CASE Apply
  <2>1. proc \in [pc : Stages, claim : claims, decision : Decision]
    BY <1>13 DEF Apply
  <2>2. proc' = [proc EXCEPT !.pc = "record"] /\ UNCHANGED <<queue, now>>
    BY <1>13 DEF Apply
  <2>3. ProcOK'
    BY <2>1, <2>2
  <2>4. TypeOK'
    BY <1>13 DEF Apply
  <2> QED
    BY <2>3, <2>4
<1>14. CASE RecordDecision
  BY <1>14 DEF RecordDecision
<1>15. CASE Clock
  BY <1>15 DEF Clock
<1>16. CASE Crash
  BY <1>16 DEF Crash
<1>17. CASE UNCHANGED vars
  BY <1>17 DEF vars
<1> QED
  BY <1>1, <1>2, <1>3, <1>4, <1>5, <1>6, <1>7, <1>8, <1>9, <1>10, <1>11, <1>12,
     <1>13, <1>14, <1>15, <1>16, <1>17 DEF Next

Records == /\ TaskOK /\ PointOK /\ DecidedIsOver
           /\ HolderOK /\ StageOK /\ ReviewWasIntended

(* The records keep in step, whichever of them is written.                 *)
LEMMA RecordsStep ==
  ASSUME TypeOK, ProcOK, Records, [Next]_vars, TypeOK', ProcOK'
  PROVE  Records'
<1> USE QueueAssumption
    DEF TypeOK, ProcOK, Records, TaskOK, PointOK, DecidedIsOver, HolderOK,
        StageOK, ReviewWasIntended, episode, queue, At, Idle, Over, PendingItem,
        Reviewing, Stages, Decided, Claim, Current, Intended, Reviewed, NoClaim,
        NoReview, CallLeft, Questions, Decision
<1>1. CASE Author
  BY <1>1 DEF Author
<1>2. CASE SettleInterruption
  BY <1>2 DEF SettleInterruption
<1>3. CASE Sync
  BY <1>3 DEF Sync
<1>4. CASE StoreClaim
  BY <1>4 DEF StoreClaim
<1>5. CASE Point
  BY <1>5 DEF Point
<1>6. CASE Intend
  BY <1>6 DEF Intend
<1>7. CASE ReviewRefused
  BY <1>7 DEF ReviewRefused
<1>8. CASE ReviewRetried
  BY <1>8 DEF ReviewRetried
<1>9. CASE Charge
  BY <1>9 DEF Charge
<1>10. CASE ReviewFails
  BY <1>10 DEF ReviewFails
<1>11. CASE StoreReview
  <2> DEFINE n == proc.claim.item
             r == [decision |-> proc.decision, reviewer |-> proc.claim.reviewer]
  <2>1. /\ reviews' = [reviews EXCEPT ![n] = r]
        /\ UNCHANGED <<now, task, inflight, items, claims, pointer, intents, decisions>>
        /\ proc' = [proc EXCEPT !.pc = "release"] /\ proc.pc = "charged"
    BY <1>11 DEF StoreReview
  <2>2. TaskOK' /\ PointOK'
    BY <2>1
  <2>3. DecidedIsOver'
    BY <2>1
  <2>4. HolderOK' /\ StageOK'
    BY <2>1
  <2>5. ReviewWasIntended'
    <3>1. [claim |-> proc.claim, decision |-> proc.decision] \in intents
      BY <2>1
    <3>2. \A m \in Questions : reviews'[m] = IF m = n THEN r ELSE reviews[m]
      BY <2>1
    <3>3. r.reviewer = proc.claim.reviewer /\ r.decision = proc.decision
      OBVIOUS
    <3>4. \E i \in intents : /\ i.claim.item = n
                            /\ i.claim.reviewer = r.reviewer
                            /\ i.decision = r.decision
      BY <3>1, <3>3
    <3>5. ASSUME NEW m \in Questions, reviews'[m] # NoReview
          PROVE  \E i \in intents : /\ i.claim.item = m
                                    /\ i.claim.reviewer = reviews'[m].reviewer
                                    /\ i.decision = reviews'[m].decision
      <4>1. CASE m = n
        <5>1. reviews'[m] = r
          BY <3>2, <4>1
        <5> HIDE DEF r
        <5> QED
          BY <3>4, <4>1, <5>1
      <4>2. CASE m # n
        <5>1. reviews'[m] = reviews[m]
          BY <3>2, <4>2
        <5>2. \E i \in intents : /\ i.claim.item = m
                                 /\ i.claim.reviewer = reviews[m].reviewer
                                 /\ i.decision = reviews[m].decision
          BY <3>5, <5>1
        <5> QED
          BY <5>1, <5>2
      <4> QED
        BY <4>1, <4>2
    <3> QED
      BY <2>1, <3>5
  <2> QED
    BY <2>2, <2>3, <2>4, <2>5
<1>12. CASE Release
  BY <1>12 DEF Release
<1>13. CASE Apply
  <2>1. TaskOK' /\ PointOK' /\ ReviewWasIntended'
    BY <1>13 DEF Apply
  <2>2. DecidedIsOver'
    BY <1>13 DEF Apply
  <2>3. HolderOK' /\ StageOK'
    BY <1>13 DEF Apply
  <2> QED
    BY <2>1, <2>2, <2>3
<1>14. CASE RecordDecision
  <2>1. TaskOK' /\ PointOK' /\ ReviewWasIntended'
    BY <1>14 DEF RecordDecision
  <2>2. DecidedIsOver'
    BY <1>14 DEF RecordDecision
  <2>3. HolderOK' /\ StageOK'
    BY <1>14 DEF RecordDecision
  <2> QED
    BY <2>1, <2>2, <2>3
<1>15. CASE Clock
  BY <1>15 DEF Clock
<1>16. CASE Crash
  BY <1>16 DEF Crash
<1>17. CASE UNCHANGED vars
  BY <1>17 DEF vars
<1> QED
  BY <1>1, <1>2, <1>3, <1>4, <1>5, <1>6, <1>7, <1>8, <1>9, <1>10, <1>11, <1>12,
     <1>13, <1>14, <1>15, <1>16, <1>17 DEF Next

-----------------------------------------------------------------------------
LEMMA Invariance == Spec => [](TypeOK /\ ProcOK /\ Records)
<1>1. Init => TypeOK /\ ProcOK
  <2> SUFFICES ASSUME Init
               PROVE  TypeOK /\ ProcOK
    OBVIOUS
  <2>1. now \in 0..MaxNow
    BY QueueAssumption DEF Init
  <2>2. task.state = "ready" /\ task \in
          [state : {"ready", "awaiting_question_review", "question_reviewed",
                    "exhausted_requires_review"},
           question : Questions \cup {0}, applied : BOOLEAN]
    BY DEF Init
  <2>3. /\ inflight \in BOOLEAN /\ items = {} /\ claims = {} /\ intents = {}
        /\ decisions = {} /\ proc = Idle
    BY DEF Init
  <2>4. pointer \in [Questions -> claims \cup {NoClaim}]
    BY DEF Init
  <2>5. reviews \in [Questions ->
                     {NoReview} \cup [decision : Decision, reviewer : Reviewers]]
    BY DEF Init
  <2> QED
    BY <2>1, <2>2, <2>3, <2>4, <2>5 DEF TypeOK, ProcOK
<1>2. Init => Records
  <2> SUFFICES ASSUME Init
               PROVE  Records
    OBVIOUS
  <2>1. proc.pc = "idle" /\ claims = {} /\ intents = {} /\ decisions = {}
    BY DEF Init, Idle
  <2>2. \A m \in Questions : reviews[m] = NoReview
    BY DEF Init
  <2>3. task.state = "ready"
    BY DEF Init
  <2> QED
    BY <2>1, <2>2, <2>3
       DEF Records, TaskOK, PointOK, DecidedIsOver, HolderOK, StageOK,
           ReviewWasIntended, At, Reviewing, Stages
<1>3. TypeOK /\ ProcOK /\ Records /\ [Next]_vars => (TypeOK /\ ProcOK /\ Records)'
  BY TypeStep, RecordsStep
<1> QED
  BY <1>1, <1>2, <1>3, PTL DEF Spec

(* Every record keeps its shape, and every claim, intent and decision is   *)
(* about a claim that was stored (recursive_review_queue.claim, decide).   *)
THEOREM TypeCorrect == Spec => []TypeOK
  BY Invariance, PTL

(* An item is decided once, with the decision of the review on record: the *)
(* claim that decides is the one the pointer names, and the pointer stays  *)
(* there, for a question that is over is claimed by nobody                 *)
(* (recursive_review_queue.decide).                                        *)
THEOREM DecidedOnce == Spec => []OneDecisionPerItem
<1>1. TypeOK /\ Records => OneDecisionPerItem
  <2> SUFFICES ASSUME TypeOK, DecidedIsOver
               PROVE  OneDecisionPerItem
    BY DEF Records
  <2>1. ASSUME NEW d \in decisions, NEW e \in decisions, d.item = e.item
        PROVE  d = e
    <3>1. d.claim = e.claim /\ d.decision = e.decision
      BY <2>1 DEF DecidedIsOver
    <3>2. d \in [claim : claims, item : Questions, decision : Decision]
          /\ e \in [claim : claims, item : Questions, decision : Decision]
      BY <2>1 DEF TypeOK
    <3> QED
      BY <2>1, <3>1, <3>2
  <2> QED
    BY <2>1 DEF OneDecisionPerItem, DecidedIsOver
<1> QED
  BY <1>1, Invariance, PTL

(* Every review on record was intended by its reviewer under a claim on    *)
(* its question, and no claim carries two intents, whatever crash falls    *)
(* between the intent and the review (recursive_review_queue.decide).      *)
THEOREM ReviewsIntended == Spec => []ReviewWasIntended
<1>1. Records => ReviewWasIntended
  BY DEF Records
<1> QED
  BY <1>1, Invariance, PTL
=============================================================================
