---------------------- MODULE LearningAdmissionProofs ----------------------
(***************************************************************************)
(* For any policies the operator may configure, any failures and any       *)
(* length of a day and a week: records keep their shape, no episode is     *)
(* admitted beyond the caps of its own policy, no failure and no root is   *)
(* reserved for without end; and the window the code names is the earliest *)
(* there is.                                                               *)
(*                                                                         *)
(* CapsHold is inductive with the types: an episode is judged by those     *)
(* before it, and episodes are only ever added.  What is to be shown of an *)
(* admission is that the window the code finds "now" has room, which is    *)
(* not what its search says: it says that now is the least of the instants *)
(* that have.  The search looks at the boundaries alone.  It misses no     *)
(* earlier instant, since nothing leaves a day or a week between two of    *)
(* them: an instant with room has as much at the boundary before it.       *)
(*                                                                         *)
(* LineagesBounded counts what was reserved for a failure; the code counts *)
(* a lineage.  Rooted is what makes the two the same: every further        *)
(* episode stands in the lineage of a first one, of the same failure, and  *)
(* there is but one first.                                                 *)
(***************************************************************************)
EXTENDS LearningAdmission, FiniteSetTheorems, WellFoundedInduction, TLAPS

(* The least of a set of naturals (min() of the code's windows).           *)
LEMMA LeastExists ==
  ASSUME NEW S \in SUBSET Nat, S # {}
  PROVE  \E m \in S : \A x \in S : m <= x
<1>1. PICK m \in S : \A x \in S : ~(<<x, m>> \in OpToRel(<, Nat))
  BY NatLessThanWellFounded, WFMin
<1>2. \A x \in S : ~(x < m)
  BY <1>1 DEF OpToRel
<1> QED
  BY <1>2

(* The greatest of a bounded one (max() of them).                          *)
LEMMA GreatestExists ==
  ASSUME NEW B \in Nat, NEW S \in SUBSET (0..B), S # {}
  PROVE  \E m \in S : \A x \in S : m >= x
<1> DEFINE R == {B - x : x \in S}
<1>1. \A x \in S : x \in Nat /\ B - x \in Nat
  OBVIOUS
<1>2. R \in SUBSET Nat
  BY <1>1
<1>3. R # {}
  OBVIOUS
<1>4. PICK r \in R : \A y \in R : r <= y
  BY <1>2, <1>3, LeastExists
<1>5. PICK m \in S : r = B - m
  BY <1>4
<1>6. \A x \in S : B - m <= B - x
  BY <1>4, <1>5
<1> QED
  BY <1>1, <1>6

-----------------------------------------------------------------------------

LEMMA Shape ==
  ASSUME TypeOK
  PROVE  /\ Admitted = 1..Len(episodes) /\ Len(episodes) \in Nat
         /\ \A i \in Admitted : /\ episodes[i] \in Episode
                                /\ episodes[i].at \in Nat
                                /\ episodes[i].at \in 1..MaxNow
                                /\ episodes[i].policy \in Policies
<1>1. episodes \in Seq(Episode)
  BY DEF TypeOK
<1>2. Admitted = 1..Len(episodes) /\ Len(episodes) \in Nat
  BY <1>1 DEF Admitted
<1>3. \A i \in Admitted : episodes[i] \in Episode
  BY <1>1, <1>2
<1>4. MaxNow \in Nat
  BY AdmissionAssumption
<1> QED
  BY <1>2, <1>3, <1>4 DEF Episode

(* The set of instants the search looks at is one of natural numbers, so   *)
(* it finds now only if now has room.                                      *)
LEMMA CadenceType ==
  ASSUME TypeOK, NEW p \in Policies
  PROVE  Cadence(p) \in Nat
<1> DEFINE T == {now} \cup {episodes[i].at + p.interval : i \in Admitted}
<1>1. p.interval \in 0..Day /\ now \in 1..MaxNow /\ MaxNow \in Nat /\ Day \in Nat
  BY AdmissionAssumption DEF TypeOK, Configurable, PolicyShape
<1>2. \A i \in Admitted : episodes[i].at \in 1..MaxNow
  BY Shape
<1>3. T \in SUBSET (0..(MaxNow + Day)) /\ T # {}
  <2>1. \A i \in Admitted : episodes[i].at + p.interval \in 0..(MaxNow + Day)
    BY <1>1, <1>2
  <2>2. now \in 0..(MaxNow + Day)
    BY <1>1
  <2> QED
    BY <2>1, <2>2
<1>4. MaxNow + Day \in Nat
  BY <1>1
<1>5. \E m \in T : \A x \in T : m >= x
  BY <1>3, <1>4, GreatestExists
<1>6. Max(T) \in T
  BY <1>5 DEF Max
<1>7. Max(T) \in Nat
  BY <1>3, <1>6
<1> QED
  BY <1>1, <1>7 DEF Cadence

LEMMA DueHasRoom ==
  ASSUME TypeOK, Due
  PROVE  Fits(policy, now)
<1> DEFINE open == {t \in Boundaries(policy) : Fits(policy, t)}
<1>1. policy \in Policies /\ now \in Nat /\ Day \in Nat /\ Week \in Nat
  BY AdmissionAssumption DEF TypeOK
<1>2. \A i \in Admitted, span \in {Day, Week} : episodes[i].at + span \in Nat
  <2>1. \A i \in Admitted : episodes[i].at \in Nat
    BY Shape
  <2> QED
    BY <1>1, <2>1
<1>3. Boundaries(policy) \in SUBSET Nat
  BY <1>1, <1>2, CadenceType DEF Boundaries
<1>4. open # {}
  BY <1>1 DEF Due, NotBefore, NoTime
<1>5. \E t \in open : \A u \in open : t <= u
  BY <1>3, <1>4, LeastExists
<1>6. now = CHOOSE t \in open : \A u \in open : t <= u
  BY <1>4 DEF Due, NotBefore
<1> QED
  BY <1>5, <1>6

-----------------------------------------------------------------------------
(* The episode that an admission makes of its reason.                      *)
Made(k, kind, lineage, review) ==
  [key |-> k, at |-> now, policy |-> policy, kind |-> kind,
   lineage |-> lineage, review |-> review]

(* An admission adds one episode, at the end.                              *)
LEMMA Added ==
  ASSUME TypeOK, NEW k, NEW kind, NEW lineage, NEW review, Reserve(k, kind, lineage, review)
  PROVE  /\ Len(episodes) \in Nat
         /\ Admitted = 1..Len(episodes)
         /\ Admitted' = 1..(Len(episodes) + 1)
         /\ \A i \in Admitted : episodes'[i] = episodes[i]
         /\ episodes'[Len(episodes) + 1] = Made(k, kind, lineage, review)
  BY Shape DEF Reserve, Admitted, TypeOK, Made

(* Every admission makes a reservation, of a failure there is.             *)
Admission == (\E k \in Failures : Admit(k))
             \/ \E i \in Admitted : FollowUp(i) \/ Recover(i) \/ Extend(i)

LEMMA AdmissionReserves ==
  ASSUME TypeOK, Admission
  PROVE  \E k \in Failures, kind \in Kinds, lineage \in Nat, review \in Nat :
           Reserve(k, kind, lineage, review)
<1>1. CASE \E k \in Failures : Admit(k)
  BY <1>1 DEF Admit, Kinds
<1>2. ASSUME NEW i \in Admitted, FollowUp(i) \/ Recover(i) \/ Extend(i)
      PROVE  \E k \in Failures, kind \in Kinds, lineage \in Nat, review \in Nat :
               Reserve(k, kind, lineage, review)
  <2>1. episodes[i] \in Episode /\ i \in Nat
    BY Shape
  <2>2. episodes[i].key \in Failures /\ Lineage(i) \in Nat
    BY <2>1 DEF Episode, Lineage
  <2> QED
    BY <1>2, <2>1, <2>2 DEF FollowUp, Recover, Extend, Kinds
<1> QED
  BY <1>1, <1>2 DEF Admission

(* What was reserved by some of the episodes is not changed by another one. *)
LEMMA SameReserved ==
  ASSUME NEW S, NEW f, \A i \in S : episodes'[i] = episodes[i]
  PROVE  Total([i \in S |-> episodes'[i].policy.episode[f]], S) = ReservedIn(S, f)
<1>1. [i \in S |-> episodes'[i].policy.episode[f]]
        = [i \in S |-> episodes[i].policy.episode[f]]
  OBVIOUS
<1> QED
  BY <1>1 DEF ReservedIn

LEMMA CapsAdmit ==
  ASSUME TypeOK, CapsHold, NEW k, NEW kind, NEW lineage, NEW review,
         Reserve(k, kind, lineage, review)
  PROVE  CapsHold'
<1> SUFFICES ASSUME NEW n, n = Len(episodes) + 1
             PROVE  CapsHold'
  OBVIOUS
<1>1. n \in Nat /\ Admitted = 1..(n - 1) /\ Admitted' = 1..n
  <2>1. Len(episodes) \in Nat
    BY Added
  <2>2. n \in Nat /\ n - 1 = Len(episodes)
    BY <2>1
  <2> QED
    BY <2>2, Added
<1>2. \A i \in 1..(n - 1) : episodes'[i] = episodes[i]
  BY <1>1, Added
<1>3. episodes'[n].at = now /\ episodes'[n].policy = policy
  <2>1. episodes'[n] = Made(k, kind, lineage, review)
    BY Added
  <2> QED
    BY <2>1 DEF Made
<1>4. ASSUME NEW i \in 1..(n - 1)
      PROVE  WithinCaps(i)'
  <2>1. \A j \in 1..(i - 1) : j \in 1..(n - 1)
    BY <1>1
  <2>2. \A span : Preceding(i, span)' = Preceding(i, span)
    BY <1>2, <2>1 DEF Preceding
  <2>3. \A f : ReservedIn(Preceding(i, Week), f)' = ReservedIn(Preceding(i, Week), f)
    <3>1. \A j \in Preceding(i, Week) : episodes'[j] = episodes[j]
      BY <1>2, <2>1 DEF Preceding
    <3> QED
      BY <2>2, <3>1, SameReserved DEF ReservedIn
  <2>4. WithinCaps(i)
    BY <1>1 DEF CapsHold
  <2> QED
    BY <1>2, <2>1, <2>2, <2>3, <2>4 DEF WithinCaps
<1>5. WithinCaps(n)'
  <2>1. Fits(policy, now)
    BY DueHasRoom DEF Reserve
  <2>2. \A span : Preceding(n, span)' = Since(now, span)
    <3>1. \A span : {j \in 1..(n - 1) : episodes'[n].at - episodes'[j].at < span}
                      = {j \in 1..(n - 1) : now - episodes[j].at < span}
      BY <1>2, <1>3
    <3> QED
      BY <1>1, <3>1 DEF Preceding, Since
  <2>3. \A f : ReservedIn(Preceding(n, Week), f)' = ReservedIn(Since(now, Week), f)
    <3>1. \A j \in Since(now, Week) : episodes'[j] = episodes[j]
      BY <1>1, <1>2 DEF Since
    <3> QED
      BY <2>2, <3>1, SameReserved DEF ReservedIn
  <2> QED
    BY <1>1, <1>2, <1>3, <2>1, <2>2, <2>3 DEF WithinCaps, Fits
<1> QED
  BY <1>1, <1>4, <1>5 DEF CapsHold

-----------------------------------------------------------------------------
(* Every action but an admission leaves the episodes alone.                *)
LEMMA OtherStep ==
  ASSUME [Next]_vars, ~Admission
  PROVE  episodes' = episodes
  BY DEF Admission, Next, vars, WriteTask, Resume, Call, Settle, SettlementFails,
         SettleInterruption, Configure, Pass, SetBack, Crash

LEMMA TypeAdmit ==
  ASSUME TypeOK, NEW k \in Failures, NEW kind \in Kinds, NEW lineage \in Nat, NEW review \in Nat,
         Reserve(k, kind, lineage, review)
  PROVE  TypeOK'
<1> SUFFICES ASSUME NEW n, n = Len(episodes) + 1
             PROVE  TypeOK'
  OBVIOUS
<1>1. now' \in 1..MaxNow /\ policy' \in Policies /\ faults' \in 0..MaxFaults
  BY DEF TypeOK, Reserve
<1>2. episodes' \in Seq(Episode)
  <2>1. episodes \in Seq(Episode) /\ Made(k, kind, lineage, review) \in Episode
    BY DEF TypeOK, Episode, Made
  <2>2. episodes' = Append(episodes, Made(k, kind, lineage, review))
    BY DEF Reserve, Made
  <2> QED
    BY <2>1, <2>2
<1>3. Len(episodes) \in Nat /\ Admitted = 1..Len(episodes) /\ Admitted' = 1..n
  BY Added
<1>4. tasks' \in [Admitted' -> {"none", "ready", "waiting", "rest"}]
  <2>1. tasks \in [1..Len(episodes) -> {"none", "ready", "waiting", "rest"}]
    BY <1>3 DEF TypeOK
  <2>2. tasks \in Seq({"none", "ready", "waiting", "rest"}) /\ Len(tasks) = Len(episodes)
    BY <1>3, <2>1
  <2>3. tasks' = Append(tasks, "none")
    BY DEF Reserve
  <2>4. tasks' \in Seq({"none", "ready", "waiting", "rest"}) /\ Len(tasks') = Len(tasks) + 1
    BY <2>2, <2>3
  <2>5. DOMAIN tasks' = 1..n /\ n = Len(tasks')
    BY <2>2, <2>4
  <2>6. tasks' \in [1..n -> {"none", "ready", "waiting", "rest"}]
    BY <2>4, <2>5
  <2> QED
    BY <1>3, <2>6
<1>5. inflight' = {} /\ work' = [doing |-> "admission", at |-> n] /\ n \in Admitted'
  BY <1>3 DEF Reserve
<1> QED
  BY <1>1, <1>2, <1>4, <1>5 DEF TypeOK

LEMMA TypeStep ==
  ASSUME TypeOK, [Next]_vars
  PROVE  TypeOK'
<1> USE DEF TypeOK, Admitted, Ready, None
<1>1. CASE Admission
  <2>1. PICK k \in Failures, kind \in Kinds, lineage \in Nat, review \in Nat :
          Reserve(k, kind, lineage, review)
    BY <1>1, AdmissionReserves
  <2> HIDE DEF TypeOK, Admitted, Ready, None
  <2> QED
    BY <2>1, TypeAdmit
<1>2. CASE WriteTask
  BY <1>2 DEF WriteTask
<1>3. ASSUME NEW i \in DOMAIN tasks, Resume(i)
      PROVE  TypeOK'
  BY <1>3 DEF Resume
<1>4. ASSUME NEW i \in DOMAIN tasks, Call(i)
      PROVE  TypeOK'
  <2>1. CASE policy = episodes[i].policy
    <3>1. /\ inflight' = inflight \cup {i}
          /\ work' = [doing |-> "call", at |-> i]
          /\ UNCHANGED <<now, policy, episodes, tasks, faults>>
      BY <1>4, <2>1 DEF Call, Noted
    <3>2. i \in Ready /\ i \in Admitted
      BY <1>4 DEF Call
    <3> QED
      BY <3>1, <3>2
  <2>2. CASE policy # episodes[i].policy
    BY <1>4, <2>2 DEF Call
  <2> QED
    BY <2>1, <2>2
<1>5. ASSUME NEW i \in DOMAIN tasks, SettleInterruption(i)
      PROVE  TypeOK'
  BY <1>5 DEF SettleInterruption
<1>6. CASE Settle
  BY <1>6 DEF Settle
<1>7. CASE SettlementFails
  BY <1>7, AdmissionAssumption DEF SettlementFails
<1>8. CASE \E p \in Policies : Configure(p)
  BY <1>8 DEF Configure
<1>9. CASE Pass \/ \E t \in 1..MaxNow : SetBack(t)
  BY <1>9, AdmissionAssumption DEF Pass, SetBack
<1>10. CASE Crash
  BY <1>10, AdmissionAssumption DEF Crash
<1>11. CASE UNCHANGED vars
  BY <1>11 DEF vars
<1> QED
  BY <1>1, <1>2, <1>3, <1>4, <1>5, <1>6, <1>7, <1>8, <1>9, <1>10, <1>11 DEF Next, Admission

-----------------------------------------------------------------------------
LEMMA Initially ==
  ASSUME Init
  PROVE  TypeOK /\ CapsHold
<1>1. Admitted = {}
  BY DEF Init, Admitted
<1>2. episodes \in Seq(Episode)
  BY DEF Init
<1>3. tasks \in [Admitted -> {"none", "ready", "waiting", "rest"}]
  BY <1>1 DEF Init
<1>4. now \in 1..MaxNow /\ faults \in 0..MaxFaults
  BY AdmissionAssumption DEF Init
<1>5. policy \in Policies /\ inflight = {} /\ work = None
  BY DEF Init
<1>6. TypeOK
  BY <1>2, <1>3, <1>4, <1>5 DEF TypeOK
<1> QED
  BY <1>1, <1>6 DEF CapsHold

(* Every record keeps its shape, and a call is on its account before it is *)
(* made.                                                                   *)
THEOREM TypeCorrect == Spec => []TypeOK
<1>1. TypeOK /\ [Next]_vars => TypeOK'
  BY TypeStep
<1> QED
  BY Initially, <1>1, PTL DEF Spec

(* Under any sequence of policies, crashes and clocks set back, no episode *)
(* is admitted beyond the number of its day, the reservations of its week  *)
(* or the interval of its own policy (learning_episodes.admission_window). *)
THEOREM CapsNeverExceeded == Spec => []CapsHold
<1>1. ASSUME TypeOK, CapsHold, [Next]_vars
      PROVE  CapsHold'
  <2>1. CASE Admission
    <3>1. PICK k, kind, lineage, review : Reserve(k, kind, lineage, review)
      BY <1>1, <2>1, AdmissionReserves
    <3> QED
      BY <1>1, <3>1, CapsAdmit
  <2>2. CASE ~Admission
    <3>1. episodes' = episodes
      BY <1>1, <2>2, OtherStep
    <3> QED
      BY <1>1, <3>1 DEF CapsHold, WithinCaps, Preceding, ReservedIn, Admitted
  <2> QED
    BY <2>1, <2>2
<1>2. TypeOK /\ CapsHold /\ [Next]_vars => CapsHold'
  BY <1>1
<1> QED
  BY Initially, TypeCorrect, <1>2, PTL DEF Spec

-----------------------------------------------------------------------------
(* A set of naturals that has 0 and every successor has them all.          *)
LEMMA Climb ==
  ASSUME NEW Q \in SUBSET Nat, 0 \in Q, \A n \in Q : n + 1 \in Q
  PROVE  Q = Nat
<1>1. SUFFICES ASSUME Nat \ Q # {}
               PROVE  FALSE
  OBVIOUS
<1>2. PICK m \in Nat \ Q : \A n \in Nat \ Q : m <= n
  BY <1>1, LeastExists
<1>3. m # 0 /\ m - 1 \in Nat /\ (m - 1) + 1 = m
  BY <1>2
<1>4. m - 1 \in Q
  BY <1>2, <1>3
<1>5. (m - 1) + 1 \in Q
  BY <1>4
<1> QED
  BY <1>2, <1>3, <1>5

(* What the episodes of a set reserved is a number: the fold defines, over *)
(* the subsets of a finite set, the function that its equation describes.  *)
LEMMA SumIsNumber ==
  ASSUME NEW S, IsFiniteSet(S), NEW g \in [S -> Int]
  PROVE  Total(g, S) \in Int
<1> DEFINE c(s) == CHOOSE x \in s : TRUE
           Up(n) == {s \in SUBSET S : Cardinality(s) <= n}
           Sums(h, n) == /\ h \in [Up(n) -> Int]
                         /\ \A s \in Up(n) : h[s] = IF s = {} THEN 0 ELSE g[c(s)] + h[s \ {c(s)}]
           F(iter) == iter = [s \in SUBSET S |->
                               IF s = {} THEN 0 ELSE g[c(s)] + iter[s \ {c(s)}]]
           Summed == {n \in Nat : \E h : Sums(h, n)}
<1>1. \A s \in SUBSET S : IsFiniteSet(s) /\ Cardinality(s) \in Nat
                          /\ Cardinality(s) <= Cardinality(S)
  BY FS_Subset, FS_CardinalityType
<1>2. \A s \in SUBSET S : s # {} =>
        /\ c(s) \in s /\ c(s) \in S /\ s \ {c(s)} \in SUBSET S
        /\ Cardinality(s \ {c(s)}) = Cardinality(s) - 1
  BY <1>1, FS_RemoveElement
<1>3. {} \in SUBSET S /\ \A s \in SUBSET S : Cardinality(s) = 0 <=> s = {}
  BY <1>1, FS_EmptySet
<1> HIDE DEF c
<1>4. 0 \in Summed
  <2> DEFINE h == [s \in Up(0) |-> 0]
  <2>1. \A s \in Up(0) : s = {}
    BY <1>1, <1>3
  <2>2. Sums(h, 0)
    BY <2>1
  <2> QED
    BY <2>2
<1>5. ASSUME NEW n \in Summed
      PROVE  n + 1 \in Summed
  <2>1. PICK h : Sums(h, n)
    BY <1>5
  <2> DEFINE k == [s \in Up(n + 1) |-> IF s = {} THEN 0 ELSE g[c(s)] + h[s \ {c(s)}]]
  <2>2. n \in Nat
    OBVIOUS
  <2>3. \A s \in Up(n + 1) : s # {} => c(s) \in S /\ s \ {c(s)} \in Up(n) /\ s \ {c(s)} \in Up(n + 1)
    BY <1>1, <1>2, <2>2
  <2>4. \A s \in Up(n) : s \in Up(n + 1)
    BY <1>1, <2>2
  <2> HIDE DEF Up
  <2>5. k \in [Up(n + 1) -> Int]
    BY <2>1, <2>3
  <2>6. \A s \in Up(n) : k[s] = h[s]
    BY <2>1, <2>4
  <2>7. \A s \in Up(n + 1) : k[s] = IF s = {} THEN 0 ELSE g[c(s)] + k[s \ {c(s)}]
    BY <2>3, <2>6
  <2>8. Sums(k, n + 1)
    BY <2>5, <2>7
  <2>9. n + 1 \in Nat
    BY <2>2
  <2> HIDE DEF Sums
  <2>10. \E x : Sums(x, n + 1)
    BY <2>8
  <2> QED
    BY <2>9, <2>10
<1> HIDE DEF Summed
<1>6. Cardinality(S) \in Summed
  <2>1. Summed \subseteq Nat
    BY DEF Summed
  <2>2. Summed = Nat
    BY <1>4, <1>5, <2>1, Climb
  <2> QED
    BY <1>1, <2>2
<1>7. PICK h : Sums(h, Cardinality(S))
  BY <1>6 DEF Summed
<1>8. Up(Cardinality(S)) = SUBSET S
  BY <1>1
<1>9. F(h)
  BY <1>7, <1>8
<1>10. PICK iter : iter = (CHOOSE i : F(i)) /\ F(iter)
  BY <1>9
<1>11. Total(g, S) = iter[S]
  BY <1>10 DEF Total, FoldFunctionOnSet, MapThenFoldSet, c
<1>12. Cardinality(S) \in {n \in Nat : \A s \in Up(n) : iter[s] \in Int}
  <2> DEFINE Good == {n \in Nat : \A s \in Up(n) : iter[s] \in Int}
  <2>1. \A s \in SUBSET S : iter[s] = IF s = {} THEN 0 ELSE g[c(s)] + iter[s \ {c(s)}]
    BY <1>10
  <2>2. 0 \in Good
    <3>1. \A s \in Up(0) : s = {}
      BY <1>1, <1>3
    <3>2. iter[{}] = 0
      BY <1>3, <2>1
    <3>3. \A s \in Up(0) : iter[s] \in Int
      BY <3>1, <3>2
    <3> QED
      BY <3>3
  <2>3. ASSUME NEW n \in Good
        PROVE  n + 1 \in Good
    <3>1. n \in Nat /\ \A s \in Up(n) : iter[s] \in Int
      OBVIOUS
    <3>2. ASSUME NEW s \in Up(n + 1), s # {}
          PROVE  iter[s] \in Int
      <4>1. c(s) \in S /\ s \ {c(s)} \in Up(n)
        BY <1>1, <1>2, <3>1, <3>2
      <4>2. g[c(s)] \in Int /\ iter[s \ {c(s)}] \in Int
        BY <3>1, <4>1
      <4>3. iter[s] = g[c(s)] + iter[s \ {c(s)}]
        BY <2>1, <3>2
      <4> QED
        BY <4>2, <4>3
    <3>3. \A s \in Up(n + 1) : iter[s] \in Int
      BY <1>3, <2>1, <3>2
    <3> QED
      BY <3>1, <3>3
  <2>4. Good \subseteq Nat
    OBVIOUS
  <2> HIDE DEF Good
  <2>5. Good = Nat
    BY <2>2, <2>3, <2>4, Climb
  <2> QED
    BY <1>1, <2>5 DEF Good
<1>13. S \in Up(Cardinality(S))
  BY <1>1
<1> QED
  BY <1>11, <1>12, <1>13

(* The sum that the property names is the one the code takes.              *)
LEMMA SumOfRecords ==
  ASSUME NEW S, NEW f
  PROVE  MapThenSumSet(LAMBDA i : episodes[i].policy.episode[f], S) = ReservedIn(S, f)
<1> DEFINE F(iter) == iter = [s \in SUBSET S |-> IF s = {} THEN 0
                               ELSE [i \in S |-> episodes[i].policy.episode[f]][CHOOSE x \in s : TRUE]
                                      + iter[s \ {CHOOSE x \in s : TRUE}]]
           G(iter) == iter = [s \in SUBSET S |-> IF s = {} THEN 0
                               ELSE episodes[CHOOSE x \in s : TRUE].policy.episode[f]
                                      + iter[s \ {CHOOSE x \in s : TRUE}]]
<1>1. \A iter : F(iter) <=> G(iter)
  OBVIOUS
<1>2. ReservedIn(S, f) = (CHOOSE iter : F(iter))[S]
  BY DEF ReservedIn, Total, FoldFunctionOnSet, MapThenFoldSet
<1>3. MapThenSumSet(LAMBDA i : episodes[i].policy.episode[f], S) = (CHOOSE iter : G(iter))[S]
  BY DEF MapThenSumSet, MapThenFoldSet
<1>4. (CHOOSE iter : G(iter)) = (CHOOSE iter : F(iter))
  BY <1>1
<1> QED
  BY <1>2, <1>3, <1>4

LEMMA PolicyNumbers ==
  ASSUME NEW p \in Policies
  PROVE  /\ p.interval \in Nat /\ p.interval <= Day /\ p.perDay \in Nat
         /\ \A f \in Fields : p.episode[f] \in Nat /\ p.week[f] \in Nat
BY AdmissionAssumption DEF Configurable, PolicyShape

LEMMA ReservedNumber ==
  ASSUME TypeOK, NEW S \in SUBSET Admitted, NEW f \in Fields
  PROVE  IsFiniteSet(S) /\ Cardinality(S) \in Nat /\ ReservedIn(S, f) \in Int
<1>1. IsFiniteSet(S) /\ Cardinality(S) \in Nat
  <2>1. Admitted = 1..Len(episodes) /\ Len(episodes) \in Int
    BY Shape
  <2>2. IsFiniteSet(Admitted)
    BY <2>1, FS_Interval
  <2>3. IsFiniteSet(S)
    BY <2>2, FS_Subset
  <2> QED
    BY <2>3, FS_CardinalityType
<1>2. \A i \in S : episodes[i].policy.episode[f] \in Int
  BY Shape, PolicyNumbers
<1>3. [i \in S |-> episodes[i].policy.episode[f]] \in [S -> Int]
  BY <1>2
<1> QED
  BY <1>1, <1>3, SumIsNumber DEF ReservedIn

(* There is room at an instant exactly if the code's test of it passes.    *)
LEMMA RoomFits ==
  ASSUME TypeOK, NEW p \in Policies, NEW t \in Nat
  PROVE  Room(p, t) <=> Fits(p, t)
<1>1. Day \in Nat /\ Week \in Nat /\ p.perDay \in Nat /\ p.interval \in Nat
        /\ \A i \in Admitted : episodes[i].at \in Nat
  BY AdmissionAssumption, PolicyNumbers, Shape
<1>2. /\ {i \in Admitted : episodes[i].at > t - Day} = Since(t, Day)
      /\ {i \in Admitted : episodes[i].at > t - Week} = Since(t, Week)
  BY <1>1 DEF Since
<1>3. Cardinality(Since(t, Day)) + 1 <= p.perDay <=> Cardinality(Since(t, Day)) < p.perDay
  <2>1. Cardinality(Since(t, Day)) \in Nat
    BY ReservedNumber DEF Since, Fields
  <2> QED
    BY <1>1, <2>1
<1>4. \A f \in Fields :
        MapThenSumSet(LAMBDA i : episodes[i].policy.episode[f], Since(t, Week))
            <= p.week[f] - p.episode[f]
          <=> ReservedIn(Since(t, Week), f) + p.episode[f] <= p.week[f]
  <2>1. SUFFICES ASSUME NEW f \in Fields
                 PROVE  MapThenSumSet(LAMBDA i : episodes[i].policy.episode[f], Since(t, Week))
                            <= p.week[f] - p.episode[f]
                          <=> ReservedIn(Since(t, Week), f) + p.episode[f] <= p.week[f]
    OBVIOUS
  <2>2. ReservedIn(Since(t, Week), f) \in Int
    BY ReservedNumber DEF Since
  <2>3. MapThenSumSet(LAMBDA i : episodes[i].policy.episode[f], Since(t, Week))
          = ReservedIn(Since(t, Week), f)
    BY SumOfRecords
  <2> QED
    BY <2>2, <2>3, PolicyNumbers
<1>5. \A i \in Admitted : episodes[i].at <= t - p.interval <=> episodes[i].at + p.interval <= t
  BY <1>1
<1> QED
  BY <1>2, <1>3, <1>4, <1>5 DEF Room, Fits

(* The cadence is the latest of now and the instants the interval leaves.  *)
LEMMA CadenceLatest ==
  ASSUME TypeOK, NEW p \in Policies
  PROVE  /\ p.interval # 0 => \A i \in Admitted : episodes[i].at + p.interval <= Cadence(p)
         /\ \/ Cadence(p) = now
            \/ p.interval # 0 /\ Cadence(p) >= now
                 /\ \E i \in Admitted : Cadence(p) = episodes[i].at + p.interval
<1> DEFINE T == {now} \cup {episodes[i].at + p.interval : i \in Admitted}
<1>1. p.interval \in Nat /\ now \in Nat /\ MaxNow \in Nat /\ now <= MaxNow
        /\ \A i \in Admitted : episodes[i].at \in 1..MaxNow
  BY AdmissionAssumption, PolicyNumbers, Shape DEF TypeOK
<1>2. CASE p.interval = 0 \/ episodes = <<>>
  <2>1. episodes = <<>> => Admitted = {}
    BY DEF Admitted
  <2> QED
    BY <1>2, <2>1 DEF Cadence
<1>3. CASE p.interval # 0 /\ episodes # <<>>
  <2>1. T \in SUBSET (0..(MaxNow + p.interval)) /\ T # {} /\ MaxNow + p.interval \in Nat
    <3>1. \A i \in Admitted : episodes[i].at + p.interval \in 0..(MaxNow + p.interval)
      BY <1>1
    <3>2. now \in 0..(MaxNow + p.interval)
      BY <1>1
    <3> QED
      BY <1>1, <3>1, <3>2
  <2>2. \E m \in T : \A x \in T : m >= x
    BY <2>1, GreatestExists
  <2>3. Max(T) \in T /\ \A x \in T : Max(T) >= x
    BY <2>2 DEF Max
  <2>4. Cadence(p) = Max(T)
    BY <1>3 DEF Cadence
  <2>5. \A x \in T : x \in Nat
    BY <2>1
  <2> QED
    BY <1>3, <2>3, <2>4, <2>5
<1> QED
  BY <1>2, <1>3

LEMMA BoundaryRange ==
  ASSUME TypeOK, NEW p \in Policies, \A i \in Admitted : episodes[i].at <= now
  PROVE  /\ Boundaries(p) \subseteq now..(now + Week) /\ now \in Boundaries(p)
         /\ now \in Nat /\ Boundaries(p) \in SUBSET (0..(now + Week)) /\ now + Week \in Nat
<1>1. now \in Nat /\ Day \in Nat /\ Week \in Nat /\ Day < Week
        /\ p.interval \in Nat /\ p.interval <= Day
        /\ \A i \in Admitted : episodes[i].at \in Nat
  BY AdmissionAssumption, PolicyNumbers, Shape DEF TypeOK
<1>2. Cadence(p) \in now..(now + Week)
  BY <1>1, CadenceLatest
<1>3. ASSUME NEW i \in Admitted, NEW span \in {Day, Week}, episodes[i].at + span > now
      PROVE  episodes[i].at + span \in now..(now + Week)
  BY <1>1, <1>3
<1>4. now \in now..(now + Week)
  BY <1>1
<1>5. Boundaries(p) \subseteq now..(now + Week)
  BY <1>2, <1>3, <1>4 DEF Boundaries
<1>6. now..(now + Week) \subseteq 0..(now + Week)
  BY <1>1
<1> QED
  BY <1>1, <1>5, <1>6 DEF Boundaries

(* Between two boundaries nothing leaves the day or the week, so that an   *)
(* instant with room has a boundary with room before it, or is one.        *)
LEMMA BoundaryBefore ==
  ASSUME TypeOK, NEW p \in Policies, \A i \in Admitted : episodes[i].at <= now,
         NEW t \in now..(now + Week), Fits(p, t)
  PROVE  \E b \in Boundaries(p) : b <= t /\ Fits(p, b)
<1> DEFINE C == {b \in Boundaries(p) : b <= t}
<1>1. now \in Nat /\ t \in Nat /\ now <= t /\ Day \in Nat /\ Week \in Nat
        /\ \A i \in Admitted : episodes[i].at \in Nat
  BY AdmissionAssumption, Shape DEF TypeOK
<1>2. C \in SUBSET (0..(now + Week)) /\ now \in C /\ now + Week \in Nat
  BY <1>1, BoundaryRange
<1>3. PICK b \in C : \A x \in C : b >= x
  BY <1>2, GreatestExists
<1>4. b \in Nat /\ b <= t /\ now <= b /\ b \in Boundaries(p)
  BY <1>2, <1>3
<1>5. ASSUME NEW span \in {Day, Week}
      PROVE  Since(b, span) = Since(t, span)
  <2>1. span \in Nat
    BY <1>1
  <2>2. ASSUME NEW i \in Admitted, t - episodes[i].at < span
        PROVE  b - episodes[i].at < span
    BY <1>1, <1>4, <2>1, <2>2
  <2>3. ASSUME NEW i \in Admitted, b - episodes[i].at < span
        PROVE  t - episodes[i].at < span
    <3>1. episodes[i].at \in Nat /\ episodes[i].at + span > now
      BY <1>1, <1>4, <2>1, <2>3
    <3>2. episodes[i].at + span \in Boundaries(p)
      BY <3>1 DEF Boundaries
    <3>3. episodes[i].at + span <= t => episodes[i].at + span <= b
      BY <1>3, <3>2
    <3> QED
      BY <1>1, <1>4, <2>1, <2>3, <3>1, <3>3
  <2> QED
    BY <2>2, <2>3 DEF Since
<1>6. p.interval # 0 => \A i \in Admitted : episodes[i].at + p.interval <= b
  <2>1. SUFFICES ASSUME p.interval # 0, NEW i \in Admitted
                 PROVE  episodes[i].at + p.interval <= b
    OBVIOUS
  <2>2. Cadence(p) \in Nat /\ p.interval \in Nat
    BY CadenceType, PolicyNumbers
  <2>3. Cadence(p) <= t
    BY <1>1, <2>1, CadenceLatest DEF Fits
  <2>4. Cadence(p) \in C
    BY <2>3 DEF Boundaries
  <2>5. Cadence(p) <= b
    BY <1>3, <1>4, <2>2, <2>4
  <2> QED
    BY <1>1, <1>4, <2>1, <2>2, <2>5, CadenceLatest
<1>7. Fits(p, b)
  BY <1>5, <1>6 DEF Fits
<1> QED
  BY <1>4, <1>7

(* NotBefore's search over the boundaries finds what a search over every   *)
(* instant would.                                                          *)
LEMMA Earliest ==
  ASSUME TypeOK
  PROVE  WindowIsEarliest
<1> SUFFICES ASSUME \A i \in Admitted : episodes[i].at <= now, NEW p \in Policies
             PROVE  LET open == {t \in now..(now + Week) : Room(p, t)} IN
                    NotBefore(p) = IF open = {} THEN NoTime ELSE Min(open)
  BY DEF WindowIsEarliest
<1> DEFINE open == {t \in now..(now + Week) : Room(p, t)}
           found == {t \in Boundaries(p) : Fits(p, t)}
<1>1. /\ Boundaries(p) \subseteq now..(now + Week) /\ now \in Nat
      /\ Boundaries(p) \in SUBSET (0..(now + Week)) /\ now + Week \in Nat
  BY BoundaryRange
<1>2. \A t \in now..(now + Week) : t \in Nat /\ (Room(p, t) <=> Fits(p, t))
  <2>1. \A t \in now..(now + Week) : t \in Nat
    BY <1>1
  <2> QED
    BY <2>1, RoomFits
<1>3. found \subseteq open /\ open \in SUBSET Nat
  BY <1>1, <1>2
<1>4. \A t \in open : \E b \in found : b <= t
  <2>1. SUFFICES ASSUME NEW t \in open
                 PROVE  \E b \in found : b <= t
    OBVIOUS
  <2>2. t \in now..(now + Week) /\ Fits(p, t)
    BY <1>2
  <2> QED
    BY <2>2, BoundaryBefore
<1>5. NotBefore(p) = IF found = {} THEN NoTime ELSE CHOOSE t \in found : \A u \in found : t <= u
  BY DEF NotBefore
<1> HIDE DEF open, found
<1>6. CASE found = {}
  BY <1>4, <1>5, <1>6 DEF open
<1>7. CASE found # {}
  <2>1. PICK m \in found : \A u \in found : m <= u
    BY <1>3, <1>7, LeastExists
  <2>2. m \in open /\ \A u \in open : m <= u
    BY <1>3, <1>4, <2>1
  <2>3. Min(open) = m
    <3>1. Min(open) \in open /\ \A u \in open : Min(open) <= u
      BY <2>2 DEF Min
    <3>2. m \in Nat /\ Min(open) \in Nat /\ m <= Min(open) /\ Min(open) <= m
      BY <1>3, <2>2, <3>1
    <3> QED
      BY <3>2
  <2>4. NotBefore(p) = m
    <3>1. NotBefore(p) \in found /\ \A u \in found : NotBefore(p) <= u
      BY <1>5, <1>7, <2>1
    <3>2. m \in Nat /\ NotBefore(p) \in Nat /\ m <= NotBefore(p) /\ NotBefore(p) <= m
      BY <1>3, <2>1, <3>1
    <3> QED
      BY <3>2
  <2> QED
    BY <2>2, <2>3, <2>4 DEF open
<1> QED
  BY <1>6, <1>7

(* The window the code names is the earliest instant at which the records  *)
(* leave room, and it names none only if there is none, for any policy and *)
(* any records of the past (learning_episodes.admission_window).           *)
THEOREM NoEarlierWindow == Spec => []WindowIsEarliest
<1>1. TypeOK => WindowIsEarliest
  BY Earliest
<1> QED
  BY <1>1, TypeCorrect, PTL

-----------------------------------------------------------------------------
(* A failure's further episodes stand in the lineage of its first one, and *)
(* none but a question's lesson is reserved for by a capability review.    *)
Rooted ==
  \A i \in Admitted :
    LET l == episodes[i].lineage IN
    /\ episodes[i].kind \in {"experiment", "authoring"} =>
         l \in Admitted /\ episodes[l].kind = "failure" /\ episodes[l].key = episodes[i].key
    /\ episodes[i].kind \in {"failure", "capability"} => l = 0
    /\ episodes[i].kind = "capability" => episodes[i].key \in Questions

LEMMA LineageOf ==
  ASSUME TypeOK, Rooted, NEW i \in Admitted, episodes[i].key \notin Questions
  PROVE  /\ Lineage(i) \in Admitted
         /\ episodes[Lineage(i)].kind = "failure"
         /\ episodes[Lineage(i)].key = episodes[i].key
<1>1. episodes[i] \in Episode /\ 0 \notin Admitted
  BY Shape
<1>2. episodes[i].kind \in Kinds /\ episodes[i].kind # "capability"
  BY <1>1 DEF Episode, Rooted
<1>3. CASE episodes[i].kind = "failure"
  BY <1>3 DEF Rooted, Lineage
<1>4. CASE episodes[i].kind \in {"experiment", "authoring"}
  BY <1>1, <1>4 DEF Rooted, Lineage
<1> QED
  BY <1>2, <1>3, <1>4 DEF Kinds

(* One lineage, since there is one first episode: what either module looks *)
(* up there are all the further episodes of the failure.                   *)
LEMMA OneLineage ==
  ASSUME TypeOK, Rooted, LineagesBounded, NEW i \in Admitted, episodes[i].key \notin Questions,
         NEW kind \in {"experiment", "authoring"}
  PROVE  Reserved(episodes[i].key, kind) \subseteq Family(Lineage(i))
<1>1. SUFFICES ASSUME NEW j \in Reserved(episodes[i].key, kind)
               PROVE  j \in Family(Lineage(i))
  OBVIOUS
<1>2. j \in Admitted /\ episodes[j].kind = kind /\ episodes[j].key = episodes[i].key
  BY DEF Reserved
<1>3. /\ episodes[j].lineage \in Reserved(episodes[i].key, "failure")
      /\ Lineage(i) \in Reserved(episodes[i].key, "failure")
  BY <1>2, LineageOf DEF Rooted, Reserved
<1>4. episodes[i].key \in Failures
  BY Shape DEF Episode
<1>5. episodes[j].lineage = Lineage(i)
  BY <1>3, <1>4 DEF LineagesBounded
<1> QED
  BY <1>2, <1>5 DEF Family

(* What an admission adds to the episodes of a failure and of a root.      *)
LEMMA OneMore ==
  ASSUME TypeOK, NEW k, NEW kind, NEW lineage, NEW review, Reserve(k, kind, lineage, review),
         NEW n, n = Len(episodes) + 1
  PROVE  /\ n \notin Admitted /\ Admitted' = Admitted \cup {n}
         /\ episodes'[n] = Made(k, kind, lineage, review)
         /\ \A i \in Admitted : episodes'[i] = episodes[i]
         /\ Reserved(k, kind)' = Reserved(k, kind) \cup {n}
         /\ \A q, other : q # k \/ other # kind => Reserved(q, other)' = Reserved(q, other)
<1>1. n \notin Admitted /\ Admitted' = Admitted \cup {n}
  <2>1. Len(episodes) \in Nat /\ Admitted = 1..Len(episodes) /\ Admitted' = 1..n
    BY Added
  <2> QED
    BY <2>1
<1>2. /\ episodes'[n] = Made(k, kind, lineage, review)
      /\ \A i \in Admitted : episodes'[i] = episodes[i]
  BY Added
<1>3. episodes'[n].key = k /\ episodes'[n].kind = kind
  BY <1>2 DEF Made
<1> QED
  BY <1>1, <1>2, <1>3 DEF Reserved

LEMMA CountOneMore ==
  ASSUME TypeOK, NEW S \in SUBSET Admitted, NEW n, NEW max \in Nat
  PROVE  /\ Cardinality(S) < max => Cardinality(S \cup {n}) <= max
         /\ \A T \in SUBSET S : Cardinality(T) <= Cardinality(S)
<1>1. IsFiniteSet(S) /\ Cardinality(S) \in Nat
  BY ReservedNumber DEF Fields
<1>2. /\ IsFiniteSet(S \cup {n})
      /\ Cardinality(S \cup {n}) \in {Cardinality(S), Cardinality(S) + 1}
  <2>1. CASE n \in S
    <3>1. S \cup {n} = S
      BY <2>1
    <3> QED
      BY <1>1, <3>1
  <2>2. CASE n \notin S
    BY <1>1, <2>2, FS_AddElement
  <2> QED
    BY <2>1, <2>2
<1>3. \A T \in SUBSET S : Cardinality(T) <= Cardinality(S)
  BY <1>1, FS_Subset
<1> QED
  BY <1>1, <1>2, <1>3

(* The room of a root is looked at by both who ask its questions, and      *)
(* nobody else reserves for its lessons.                                   *)
LEMMA RootsStep ==
  ASSUME TypeOK, LineagesBounded, NEW k, NEW kind, NEW lineage, NEW review,
         Reserve(k, kind, lineage, review), RootHasRoom(k) \/ k \notin Questions
  PROVE  \A root \in Roots :
           Cardinality({i \in Admitted : episodes[i].key \in root})' <= MaxQuestions
<1> SUFFICES ASSUME NEW root \in Roots, NEW n, n = Len(episodes) + 1
             PROVE  Cardinality({i \in Admitted' : episodes'[i].key \in root}) <= MaxQuestions
  OBVIOUS
<1> DEFINE S == {i \in Admitted : episodes[i].key \in root}
<1>1. /\ Admitted' = Admitted \cup {n} /\ n \notin Admitted
      /\ episodes'[n].key = k
      /\ \A i \in Admitted : episodes'[i] = episodes[i]
  <2>1. episodes'[n] = Made(k, kind, lineage, review)
    BY OneMore
  <2>2. episodes'[n].key = k
    BY <2>1 DEF Made
  <2> QED
    BY <2>2, OneMore
<1>2. CASE k \notin root
  <2>1. {i \in Admitted' : episodes'[i].key \in root} = S
    BY <1>1, <1>2
  <2> QED
    BY <2>1 DEF LineagesBounded
<1>3. CASE k \in root
  <2>1. {i \in Admitted' : episodes'[i].key \in root} = S \cup {n}
    BY <1>1, <1>3
  <2>2. Cardinality(S) < MaxQuestions
    BY <1>3 DEF RootHasRoom, Questions
  <2>3. S \in SUBSET Admitted /\ MaxQuestions \in Nat
    BY AdmissionAssumption
  <2> HIDE DEF S
  <2> QED
    BY <2>1, <2>2, <2>3, CountOneMore
<1> QED
  BY <1>2, <1>3

LEMMA RootedStep ==
  ASSUME TypeOK, Rooted, NEW k, NEW kind, NEW lineage, NEW review,
         Reserve(k, kind, lineage, review),
         kind \in {"experiment", "authoring"} =>
           lineage \in Admitted /\ episodes[lineage].kind = "failure" /\ episodes[lineage].key = k,
         kind \in {"failure", "capability"} => lineage = 0,
         kind = "capability" => k \in Questions
  PROVE  Rooted'
<1> SUFFICES ASSUME NEW n, n = Len(episodes) + 1
             PROVE  Rooted'
  OBVIOUS
<1>1. /\ Admitted' = Admitted \cup {n} /\ n \notin Admitted
      /\ \A i \in Admitted : episodes'[i] = episodes[i]
  BY OneMore
<1>2. /\ episodes'[n].kind = kind /\ episodes'[n].key = k /\ episodes'[n].lineage = lineage
  <2>1. episodes'[n] = Made(k, kind, lineage, review)
    BY OneMore
  <2> QED
    BY <2>1 DEF Made
<1> QED
  BY <1>1, <1>2 DEF Rooted, Questions

LEMMA AdmitKeeps ==
  ASSUME TypeOK, Rooted, LineagesBounded, NEW k \in Failures, Admit(k)
  PROVE  Rooted' /\ LineagesBounded'
<1> SUFFICES ASSUME NEW n, n = Len(episodes) + 1
             PROVE  Rooted' /\ LineagesBounded'
  OBVIOUS
<1>1. Reserve(k, "failure", 0, 0) /\ RootHasRoom(k) /\ ~Known(k)
  BY DEF Admit
<1>2. Rooted'
  BY <1>1, RootedStep
<1>3. \A root \in Roots :
        Cardinality({i \in Admitted : episodes[i].key \in root})' <= MaxQuestions
  BY <1>1, RootsStep
<1>4. /\ \A i \in Admitted : episodes'[i] = episodes[i]
      /\ Reserved(k, "failure")' = Reserved(k, "failure") \cup {n}
      /\ \A q, other : q # k \/ other # "failure" => Reserved(q, other)' = Reserved(q, other)
  BY <1>1, OneMore
<1>5. Reserved(k, "failure") = {}
  BY <1>1 DEF Known, Reserved
<1>6. \A q, other : other # "failure" =>
        /\ Reserved(q, other)' = Reserved(q, other)
        /\ \A i \in Reserved(q, other) : episodes'[i] = episodes[i]
  <2>1. \A q, other : \A i \in Reserved(q, other) : i \in Admitted
    BY DEF Reserved
  <2> QED
    BY <1>4, <2>1
<1>7. \A q \in Failures, kind \in {"failure", "authoring"} :
        \A i, j \in Reserved(q, kind)' : i = j
  <2>1. ASSUME NEW q \in Failures
        PROVE  \A i, j \in Reserved(q, "failure")' : i = j
    <3>1. CASE q = k
      BY <1>4, <1>5, <3>1
    <3>2. CASE q # k
      BY <1>4, <3>2 DEF LineagesBounded
    <3> QED
      BY <3>1, <3>2
  <2>2. ASSUME NEW q \in Failures
        PROVE  \A i, j \in Reserved(q, "authoring")' : i = j
    BY <1>6 DEF LineagesBounded
  <2> QED
    BY <2>1, <2>2
<1>8. \A q \in Failures : Cardinality(Reserved(q, "experiment")') <= MaxFollowups
  BY <1>6 DEF LineagesBounded
<1>9. \A q \in Failures : \A i, j \in Reserved(q, "capability")' :
        episodes'[i].review = episodes'[j].review => i = j
  BY <1>6 DEF LineagesBounded
<1> QED
  BY <1>2, <1>3, <1>7, <1>8, <1>9 DEF LineagesBounded

LEMMA FollowUpKeeps ==
  ASSUME TypeOK, Rooted, LineagesBounded, NEW s \in Admitted, FollowUp(s)
  PROVE  Rooted' /\ LineagesBounded'
<1> SUFFICES ASSUME NEW n, n = Len(episodes) + 1, NEW k, k = episodes[s].key
             PROVE  Rooted' /\ LineagesBounded'
  OBVIOUS
<1>1. /\ Reserve(k, "experiment", Lineage(s), 0) /\ k \notin Questions
      /\ Cardinality(Family(Lineage(s))) < MaxFollowups
  BY DEF FollowUp
<1>2. Rooted'
  BY <1>1, LineageOf, RootedStep
<1>3. \A root \in Roots :
        Cardinality({i \in Admitted : episodes[i].key \in root})' <= MaxQuestions
  BY <1>1, RootsStep
<1>4. /\ \A i \in Admitted : episodes'[i] = episodes[i]
      /\ Reserved(k, "experiment")' = Reserved(k, "experiment") \cup {n}
      /\ \A q, other : q # k \/ other # "experiment" => Reserved(q, other)' = Reserved(q, other)
  BY <1>1, OneMore
<1>5. \A q, other : other # "experiment" =>
        /\ Reserved(q, other)' = Reserved(q, other)
        /\ \A i \in Reserved(q, other) : episodes'[i] = episodes[i]
  <2>1. \A q, other : \A i \in Reserved(q, other) : i \in Admitted
    BY DEF Reserved
  <2> QED
    BY <1>4, <2>1
<1>6. Cardinality(Reserved(k, "experiment")') <= MaxFollowups
  <2>1. Reserved(k, "experiment") \subseteq Family(Lineage(s))
    BY <1>1, OneLineage
  <2>2. /\ Family(Lineage(s)) \in SUBSET Admitted
        /\ Reserved(k, "experiment") \in SUBSET Admitted
    BY DEF Family, Reserved
  <2>3. /\ Cardinality(Family(Lineage(s))) \in Nat
        /\ Cardinality(Reserved(k, "experiment")) \in Nat
        /\ MaxFollowups \in Nat
    BY <2>2, ReservedNumber, AdmissionAssumption DEF Fields
  <2>4. Cardinality(Reserved(k, "experiment")) <= Cardinality(Family(Lineage(s)))
    BY <2>1, <2>2, CountOneMore, <2>3
  <2>5. Cardinality(Reserved(k, "experiment")) < MaxFollowups
    BY <1>1, <2>3, <2>4
  <2> QED
    BY <1>4, <2>2, <2>3, <2>5, CountOneMore
<1>7. \A q \in Failures : Cardinality(Reserved(q, "experiment")') <= MaxFollowups
  <2>1. SUFFICES ASSUME NEW q \in Failures, q # k
                 PROVE  Cardinality(Reserved(q, "experiment")') <= MaxFollowups
    BY <1>6
  <2>2. Reserved(q, "experiment")' = Reserved(q, "experiment")
    BY <1>4, <2>1
  <2> QED
    BY <2>2 DEF LineagesBounded
<1>8. \A q \in Failures, kind \in {"failure", "authoring"} :
        \A i, j \in Reserved(q, kind)' : i = j
  BY <1>5 DEF LineagesBounded
<1>9. \A q \in Failures : \A i, j \in Reserved(q, "capability")' :
        episodes'[i].review = episodes'[j].review => i = j
  BY <1>5 DEF LineagesBounded
<1> QED
  BY <1>2, <1>3, <1>7, <1>8, <1>9 DEF LineagesBounded

LEMMA RecoverKeeps ==
  ASSUME TypeOK, Rooted, LineagesBounded, NEW s \in Admitted, Recover(s)
  PROVE  Rooted' /\ LineagesBounded'
<1> SUFFICES ASSUME NEW n, n = Len(episodes) + 1, NEW k, k = episodes[s].key
             PROVE  Rooted' /\ LineagesBounded'
  OBVIOUS
<1>1. /\ Reserve(k, "authoring", Lineage(s), 0) /\ k \notin Questions
      /\ \A j \in Family(Lineage(s)) : episodes[j].kind # "authoring"
  BY DEF Recover
<1>2. Rooted'
  BY <1>1, LineageOf, RootedStep
<1>3. \A root \in Roots :
        Cardinality({i \in Admitted : episodes[i].key \in root})' <= MaxQuestions
  BY <1>1, RootsStep
<1>4. /\ \A i \in Admitted : episodes'[i] = episodes[i]
      /\ Reserved(k, "authoring")' = Reserved(k, "authoring") \cup {n}
      /\ \A q, other : q # k \/ other # "authoring" => Reserved(q, other)' = Reserved(q, other)
  BY <1>1, OneMore
<1>5. \A q, other : other # "authoring" =>
        /\ Reserved(q, other)' = Reserved(q, other)
        /\ \A i \in Reserved(q, other) : episodes'[i] = episodes[i]
  <2>1. \A q, other : \A i \in Reserved(q, other) : i \in Admitted
    BY DEF Reserved
  <2> QED
    BY <1>4, <2>1
<1>6. Reserved(k, "authoring") = {}
  <2>1. Reserved(k, "authoring") \subseteq Family(Lineage(s))
    BY <1>1, OneLineage
  <2> QED
    BY <1>1, <2>1 DEF Reserved
<1>7. \A q \in Failures, kind \in {"failure", "authoring"} :
        \A i, j \in Reserved(q, kind)' : i = j
  <2>1. ASSUME NEW q \in Failures
        PROVE  \A i, j \in Reserved(q, "authoring")' : i = j
    <3>1. CASE q = k
      BY <1>4, <1>6, <3>1
    <3>2. CASE q # k
      BY <1>4, <3>2 DEF LineagesBounded
    <3> QED
      BY <3>1, <3>2
  <2>2. ASSUME NEW q \in Failures
        PROVE  \A i, j \in Reserved(q, "failure")' : i = j
    BY <1>5 DEF LineagesBounded
  <2> QED
    BY <2>1, <2>2
<1>8. \A q \in Failures : Cardinality(Reserved(q, "experiment")') <= MaxFollowups
  BY <1>5 DEF LineagesBounded
<1>9. \A q \in Failures : \A i, j \in Reserved(q, "capability")' :
        episodes'[i].review = episodes'[j].review => i = j
  BY <1>5 DEF LineagesBounded
<1> QED
  BY <1>2, <1>3, <1>7, <1>8, <1>9 DEF LineagesBounded

LEMMA ExtendKeeps ==
  ASSUME TypeOK, Rooted, LineagesBounded, NEW s \in Admitted, Extend(s)
  PROVE  Rooted' /\ LineagesBounded'
<1> SUFFICES ASSUME NEW n, n = Len(episodes) + 1, NEW k, k = episodes[s].key
             PROVE  Rooted' /\ LineagesBounded'
  OBVIOUS
<1>1. /\ Reserve(k, "capability", 0, s) /\ k \in Questions /\ RootHasRoom(k)
      /\ \A j \in Admitted : episodes[j].review # s
  BY DEF Extend
<1>2. Rooted'
  BY <1>1, RootedStep
<1>3. \A root \in Roots :
        Cardinality({i \in Admitted : episodes[i].key \in root})' <= MaxQuestions
  BY <1>1, RootsStep
<1>4. /\ \A i \in Admitted : episodes'[i] = episodes[i]
      /\ Reserved(k, "capability")' = Reserved(k, "capability") \cup {n}
      /\ \A q, other : q # k \/ other # "capability" => Reserved(q, other)' = Reserved(q, other)
      /\ episodes'[n] = Made(k, "capability", 0, s)
  BY <1>1, OneMore
<1>5. \A q, other : other # "capability" =>
        /\ Reserved(q, other)' = Reserved(q, other)
        /\ \A i \in Reserved(q, other) : episodes'[i] = episodes[i]
  <2>1. \A q, other : \A i \in Reserved(q, other) : i \in Admitted
    BY DEF Reserved
  <2> QED
    BY <1>4, <2>1
<1>6. \A q \in Failures : \A i, j \in Reserved(q, "capability")' :
        episodes'[i].review = episodes'[j].review => i = j
  <2>1. episodes'[n].review = s
    BY <1>4 DEF Made
  <2>2. \A q : \A i \in Reserved(q, "capability") : episodes'[i] = episodes[i] /\ episodes[i].review # s
    BY <1>1, <1>4 DEF Reserved
  <2>3. \A q \in Failures : \A i \in Reserved(q, "capability")' :
          i \in Reserved(q, "capability") \/ i = n
    BY <1>4
  <2>4. \A q \in Failures : \A i, j \in Reserved(q, "capability") :
          episodes'[i].review = episodes'[j].review => i = j
    BY <2>2 DEF LineagesBounded
  <2> QED
    BY <2>1, <2>2, <2>3, <2>4
<1>7. \A q \in Failures, kind \in {"failure", "authoring"} :
        \A i, j \in Reserved(q, kind)' : i = j
  BY <1>5 DEF LineagesBounded
<1>8. \A q \in Failures : Cardinality(Reserved(q, "experiment")') <= MaxFollowups
  BY <1>5 DEF LineagesBounded
<1> QED
  BY <1>2, <1>3, <1>6, <1>7, <1>8 DEF LineagesBounded

LEMMA FirstLineages ==
  ASSUME Init
  PROVE  Rooted /\ LineagesBounded
<1>1. Admitted = {}
  BY DEF Init, Admitted
<1>2. \A k, kind : Reserved(k, kind) = {}
  BY <1>1 DEF Reserved
<1>3. Cardinality({}) = 0 /\ MaxFollowups \in Nat /\ MaxQuestions \in Nat
  BY FS_EmptySet, AdmissionAssumption
<1>4. \A root : {i \in Admitted : episodes[i].key \in root} = {}
  BY <1>1
<1>5. /\ \A k : Cardinality(Reserved(k, "experiment")) <= MaxFollowups
      /\ \A root : Cardinality({i \in Admitted : episodes[i].key \in root}) <= MaxQuestions
  BY <1>2, <1>3, <1>4
<1> QED
  BY <1>1, <1>2, <1>5 DEF Rooted, LineagesBounded

(* However recoveries, rejected experiments and granted measurements       *)
(* follow one another and whatever a crash loses, a failure and a          *)
(* question's root are reserved for no oftener than their policies say     *)
(* (learning_episodes.admit, experiment_learning.admit,                    *)
(* authoring_recovery.admit and recursive_loop.admit).                     *)
THEOREM NoLineageRunsOn == Spec => []LineagesBounded
<1>1. ASSUME TypeOK, Rooted, LineagesBounded, [Next]_vars
      PROVE  Rooted' /\ LineagesBounded'
  <2>1. CASE Admission
    BY <1>1, <2>1, AdmitKeeps, FollowUpKeeps, RecoverKeeps, ExtendKeeps DEF Admission
  <2>2. CASE ~Admission
    <3>1. episodes' = episodes
      BY <1>1, <2>2, OtherStep
    <3>2. Admitted' = Admitted
      BY <3>1 DEF Admitted
    <3> QED
      BY <1>1, <3>1, <3>2 DEF LineagesBounded, Reserved, Rooted, Questions
  <2> QED
    BY <2>1, <2>2
<1>2. TypeOK /\ Rooted /\ LineagesBounded /\ [Next]_vars => Rooted' /\ LineagesBounded'
  BY <1>1
<1> QED
  BY FirstLineages, TypeCorrect, <1>2, PTL DEF Spec
=============================================================================
