---------------------- MODULE ResearchSchedulerProofs ----------------------
(***************************************************************************)
(* For any number of processes, any work and any number of crashes: one    *)
(* process at most is past the lease, after the operator withdraws the     *)
(* controls or the policy at most one more step is reserved, and no work   *)
(* has two turns while another one waits.                                  *)
(***************************************************************************)
EXTENDS ResearchScheduler, FiniteSetTheorems, TLAPS

Holding(w) == proc[w].pc \in {"controls", "gather", "choose", "advance"}
PastControls(w) == proc[w].pc \in {"gather", "choose", "advance"}

(* Who is past Acquire holds the lease.  A step that is reserved late ends *)
(* its tick, and no tick passes the controls while they are withdrawn; the *)
(* policy is read before the lease is asked for, so what a process owes to *)
(* a withdrawn policy is over when it is idle again.                       *)
LeaseHeld == \A w \in Workers : Holding(w) => lock = w
Withdrawn ==
  /\ late \in {0, 1}
  /\ late = 1 => ~active /\ \A w \in Workers : ~PastControls(w)
PolicyWithdrawn ==
  /\ stale \in [Workers -> {0, 1}]
  /\ \A w \in Workers : stale[w] = 1 => ~enabled /\ At(w, "idle")

IInv ==
  /\ DOMAIN proc = Workers
  /\ enabled \in BOOLEAN /\ active \in BOOLEAN
  /\ LeaseHeld
  /\ Withdrawn
  /\ PolicyWithdrawn

-----------------------------------------------------------------------------
LEMMA InitIInv == Init => IInv
  BY DEF Init, IInv, LeaseHeld, Withdrawn, PolicyWithdrawn, Holding,
         PastControls, At, Idle

(* What a process does with the lease or without it.                       *)
LEMMA StepIInv ==
  ASSUME IInv, NEW w \in Workers, Step(w) \/ Crash(w)
  PROVE  IInv'
<1> USE DEF IInv, LeaseHeld, Withdrawn, PolicyWithdrawn, Holding,
            PastControls, At, Go, authority, history
<1>1. CASE ReadPolicy(w)
  BY <1>1 DEF ReadPolicy
<1>2. CASE Acquire(w)
  BY <1>2, SchedulerAssumption DEF Acquire
<1>3. CASE GiveUp(w)
  BY <1>3 DEF GiveUp, Idle
<1>4. CASE Controls(w)
  BY <1>4 DEF Controls, Release, Idle
<1>5. CASE Gather(w)
  BY <1>5 DEF Gather, Release, Idle
<1>6. CASE TakeTurn(w)
  BY <1>6 DEF TakeTurn
<1>7. CASE Advance(w)
  BY <1>7 DEF Advance, Release, Idle
<1>8. CASE AdvanceNothing(w)
  BY <1>8 DEF AdvanceNothing, Release, Idle
<1>9. CASE Crash(w)
  BY <1>9 DEF Crash, Idle
<1> QED
  BY <1>1, <1>2, <1>3, <1>4, <1>5, <1>6, <1>7, <1>8, <1>9 DEF Step

(* What the operator and the rest of the system do.                        *)
LEMMA AroundIInv ==
  ASSUME IInv, OperatorControls \/ OperatorPolicy \/ WorkChanges
  PROVE  IInv'
<1> USE DEF IInv, LeaseHeld, Withdrawn, PolicyWithdrawn, Holding,
            PastControls, At, authority, history
<1>1. CASE OperatorControls
  BY <1>1 DEF OperatorControls
<1>2. CASE OperatorPolicy
  BY <1>2 DEF OperatorPolicy
<1>3. CASE WorkChanges
  BY <1>3 DEF WorkChanges
<1> QED
  BY <1>1, <1>2, <1>3

LEMMA IInvStep == IInv /\ [Next]_vars => IInv'
<1> SUFFICES ASSUME IInv, [Next]_vars
             PROVE  IInv'
  OBVIOUS
<1>1. CASE Next
  BY <1>1, StepIInv, AroundIInv DEF Next
<1>2. CASE UNCHANGED vars
  BY <1>2 DEF vars, IInv, LeaseHeld, Withdrawn, PolicyWithdrawn, Holding,
              PastControls, At
<1> QED
  BY <1>1, <1>2

THEOREM Invariance == Spec => []IInv
  BY InitIInv, IInvStep, PTL DEF Spec

(* Two ticks never work at a time (research_runtime.py:481): a process     *)
(* that is past the lease is alone there.                                  *)
Alone == \A v, w \in Workers : Holding(v) /\ Holding(w) => v = w

(* The lease excludes: whatever crashes, no two processes are past it.     *)
THEOREM OneAtWork == Spec => []Alone
<1>1. IInv => Alone
  BY DEF IInv, LeaseHeld, Alone
<1> QED
  BY <1>1, Invariance, PTL

(* "every step rereads it and the operator controls before reserving any   *)
(* work" (research_runtime.py:640-641): one step at most is reserved after *)
(* the controls are withdrawn, and one by each process after the policy is.*)
THEOREM AuthorityWithdrawn == Spec => []WithdrawalStops
<1>1. IInv => WithdrawalStops
  BY DEF IInv, Withdrawn, PolicyWithdrawn, WithdrawalStops
<1> QED
  BY <1>1, Invariance, PTL

-----------------------------------------------------------------------------
(* Turns.  Renumbering keeps their order and bounds them.                  *)

LEMMA TurnsFinite ==
  ASSUME NEW t \in [Work -> Nat]
  PROVE  /\ IsFiniteSet({t[j] : j \in Work})
         /\ Cardinality({t[j] : j \in Work}) <= Cardinality(Work)
<1> DEFINE T == {t[j] : j \in Work}
<1>1. t \in Surjection(Work, T)
  BY DEF Surjection
<1>2. IsFiniteSet(Work)
  BY SchedulerAssumption
<1> QED
  BY <1>1, <1>2, FS_Surjection

LEMMA RenumberBounded ==
  ASSUME NEW t \in [Work -> Nat]
  PROVE  Renumber(t) \in [Work -> 0..Cardinality(Work)]
<1> DEFINE T == {t[j] : j \in Work}
<1>1. SUFFICES ASSUME NEW k \in Work
               PROVE  Renumber(t)[k] \in 0..Cardinality(Work)
  BY DEF Renumber
<1>2. Cardinality(Work) \in Nat
  BY SchedulerAssumption, FS_CardinalityType
<1>3. IsFiniteSet(T) /\ Cardinality(T) <= Cardinality(Work) /\ Cardinality(T) \in Nat
  BY TurnsFinite, FS_CardinalityType
<1>4. Cardinality(T \cap 1..t[k]) \in 0..Cardinality(T)
  <2>1. IsFiniteSet(T \cap 1..t[k]) /\ Cardinality(T \cap 1..t[k]) <= Cardinality(T)
    BY <1>3, FS_Intersection
  <2>2. Cardinality(T \cap 1..t[k]) \in Nat
    BY <2>1, FS_CardinalityType
  <2> QED
    BY <1>3, <2>1, <2>2
<1>5. CASE t[k] = Never
  <2>1. Renumber(t)[k] = 0
    BY <1>5 DEF Renumber, Never
  <2> QED
    BY <1>2, <2>1
<1>6. CASE t[k] # Never
  <2>1. Renumber(t)[k] = Cardinality(T \cap 1..t[k])
    BY <1>6 DEF Renumber
  <2> QED
    BY <1>2, <1>3, <1>4, <2>1
<1> QED
  BY <1>5, <1>6

LEMMA RenumberOrder ==
  ASSUME NEW t \in [Work -> Nat], NEW j \in Work, NEW k \in Work, t[j] < t[k]
  PROVE  Renumber(t)[j] < Renumber(t)[k]
<1> DEFINE T == {t[i] : i \in Work}
           A == T \cap 1..t[j]
           B == T \cap 1..t[k]
<1>1. IsFiniteSet(T)
  BY TurnsFinite
<1>2. IsFiniteSet(A) /\ IsFiniteSet(B)
  BY <1>1, FS_Intersection
<1>3. Cardinality(A) \in Nat /\ Cardinality(B) \in Nat
  BY <1>2, FS_CardinalityType
<1>4. A \subseteq B /\ t[k] \in B /\ t[k] \notin A
  OBVIOUS
<1>5. Cardinality(A) < Cardinality(B)
  <2>1. Cardinality(A) <= Cardinality(B) /\ (Cardinality(B) = Cardinality(A) => B = A)
    BY <1>2, <1>4, FS_Subset
  <2> QED
    BY <1>3, <1>4, <2>1
<1>6. Renumber(t)[k] = Cardinality(B)
  BY DEF Renumber, Never
<1>7. CASE t[j] = Never
  <2>1. Renumber(t)[j] = 0
    BY <1>7 DEF Renumber, Never
  <2> QED
    BY <1>3, <1>5, <1>6, <2>1
<1>8. CASE t[j] # Never
  <2>1. Renumber(t)[j] = Cardinality(A)
    BY <1>8 DEF Renumber
  <2> QED
    BY <1>5, <1>6, <2>1
<1> QED
  BY <1>7, <1>8

-----------------------------------------------------------------------------
(* Who overtook a waiting work had a later turn than it, so it is not the  *)
(* oldest again; and what a tick chooses by is what is on disk, because it *)
(* is alone.                                                               *)
Chosen ==
  \A w \in Workers : At(w, "choose") =>
    proc[w].last = last /\ proc[w].pool \subseteq Work
Overtaken ==
  /\ overtaken \in [Work -> [Work -> {0, 1}]]
  /\ \A j, k \in Work : overtaken[j][k] = 1 => last[j] < last[k]

TInv ==
  /\ last \in [Work -> 0..Cardinality(Work)]
  /\ candidates \subseteq Work
  /\ Chosen
  /\ Overtaken

LEMMA InitTInv == Init => TInv
<1>1. Cardinality(Work) \in Nat
  BY SchedulerAssumption, FS_CardinalityType
<1> QED
  BY <1>1 DEF Init, TInv, Chosen, Overtaken, At, Idle, Never

(* The turn itself: k, the oldest of the pool, goes to the end.            *)
LEMMA TurnTInv ==
  ASSUME IInv, TInv, NEW w \in Workers, TakeTurn(w)
  PROVE  TInv'
<1> DEFINE pool == proc[w].pool
<1>1. At(w, "choose") /\ lock = w
  BY DEF TakeTurn, IInv, LeaseHeld, Holding, At
<1>2. proc[w].last = last /\ pool \subseteq Work
  BY <1>1 DEF TInv, Chosen
<1>3. PICK k \in pool :
        /\ Oldest(k, pool, last)
        /\ last' = Renumber([last EXCEPT ![k] = Cardinality(Work) + 1])
        /\ Go(w, [pc |-> "advance", key |-> k])
        /\ overtaken' = [j \in Work |-> IF j \in pool \ {k}
                                          THEN [overtaken[j] EXCEPT ![k] = @ + 1]
                                          ELSE [i \in Work |-> 0]]
  BY <1>2 DEF TakeTurn
<1> DEFINE t == [last EXCEPT ![k] = Cardinality(Work) + 1]
<1>4. Cardinality(Work) \in Nat
  BY SchedulerAssumption, FS_CardinalityType
<1>5. k \in Work /\ last \in [Work -> Nat] /\ t \in [Work -> Nat]
  BY <1>2, <1>4 DEF TInv
<1>6. \A j \in Work : j # k => t[j] = last[j] /\ t[j] < t[k]
  BY <1>4, <1>5 DEF TInv
<1>7. last' \in [Work -> 0..Cardinality(Work)]
  BY <1>3, <1>5, RenumberBounded
<1>8. candidates' \subseteq Work
  BY DEF TakeTurn, TInv
<1>9. Chosen'
  <2> SUFFICES ASSUME NEW v \in Workers, At(v, "choose")'
               PROVE  FALSE
    BY DEF Chosen
  <2>1. v # w
    BY <1>3 DEF IInv, Go, At
  <2>2. At(v, "choose")
    BY <1>3, <2>1 DEF Go, At
  <2> QED
    BY <1>1, <2>1, <2>2 DEF IInv, LeaseHeld, Holding, At
<1>10. \A j \in pool \ {k} : overtaken[j][k] = 0
  <2> SUFFICES ASSUME NEW j \in pool \ {k}
               PROVE  overtaken[j][k] = 0
    OBVIOUS
  <2>1. ~(last[j] < last[k])
    BY <1>2, <1>3, <1>5 DEF Oldest, Before
  <2> QED
    BY <1>2, <1>5, <2>1 DEF TInv, Overtaken
<1>11. overtaken' \in [Work -> [Work -> {0, 1}]]
  BY <1>2, <1>3, <1>5, <1>10 DEF TInv, Overtaken
<1>12. \A j, i \in Work : overtaken'[j][i] = 1 => last'[j] < last'[i]
  <2> SUFFICES ASSUME NEW j \in Work, NEW i \in Work, overtaken'[j][i] = 1
               PROVE  last'[j] < last'[i]
    OBVIOUS
  <2>1. j \in pool /\ j # k
    BY <1>3
  <2>2. t[j] < t[i]
    <3>1. CASE i = k
      BY <1>6, <2>1, <3>1
    <3>2. CASE i # k
      <4>1. overtaken[j][i] = 1
        BY <1>3, <2>1, <3>2 DEF TInv, Overtaken
      <4>2. last[j] < last[i]
        BY <4>1 DEF TInv, Overtaken
      <4> QED
        BY <1>6, <2>1, <3>2, <4>2
    <3> QED
      BY <3>1, <3>2
  <2> QED
    BY <1>3, <1>5, <2>2, RenumberOrder
<1> QED
  BY <1>7, <1>8, <1>9, <1>11, <1>12 DEF TInv, Overtaken

LEMMA OtherTInv ==
  ASSUME TInv, UNCHANGED <<last, overtaken>>, candidates' \subseteq Work,
         \A w \in Workers : At(w, "choose")' =>
           \/ At(w, "choose") /\ proc'[w] = proc[w]
           \/ proc'[w] = [pc |-> "choose", pool |-> candidates, last |-> last]
  PROVE  TInv'
BY DEF TInv, Chosen, Overtaken, At

LEMMA TInvStep == IInv /\ TInv /\ [Next]_vars => TInv'
<1> SUFFICES ASSUME IInv, TInv, [Next]_vars
             PROVE  TInv'
  OBVIOUS
<1> USE DEF IInv, At, Go, authority, history
<1>1. ASSUME NEW w \in Workers, Step(w) \/ Crash(w)
      PROVE  TInv'
  <2>1. CASE ReadPolicy(w)
    BY <2>1, OtherTInv DEF ReadPolicy, TInv
  <2>2. CASE Acquire(w)
    BY <2>2, OtherTInv DEF Acquire, TInv
  <2>3. CASE GiveUp(w)
    BY <2>3, OtherTInv DEF GiveUp, Idle, TInv
  <2>4. CASE Controls(w)
    BY <2>4, OtherTInv DEF Controls, Release, Idle, TInv
  <2>5. CASE Gather(w)
    BY <2>5, OtherTInv DEF Gather, Release, Idle, TInv
  <2>6. CASE TakeTurn(w)
    BY <2>6, TurnTInv
  <2>7. CASE Advance(w)
    BY <2>7, OtherTInv DEF Advance, Release, Idle, TInv
  <2>8. CASE AdvanceNothing(w)
    BY <2>8, OtherTInv DEF AdvanceNothing, Release, Idle, TInv
  <2>9. CASE Crash(w)
    BY <2>9, OtherTInv DEF Crash, Idle, TInv
  <2> QED
    BY <1>1, <2>1, <2>2, <2>3, <2>4, <2>5, <2>6, <2>7, <2>8, <2>9 DEF Step
<1>2. CASE OperatorControls
  BY <1>2, OtherTInv DEF OperatorControls, TInv
<1>3. CASE OperatorPolicy
  BY <1>3, OtherTInv DEF OperatorPolicy, TInv
<1>4. CASE WorkChanges
  <2>1. candidates' \subseteq Work
    BY <1>4 DEF WorkChanges, TInv
  <2> QED
    BY <1>4, <2>1, OtherTInv DEF WorkChanges
<1>5. CASE UNCHANGED vars
  BY <1>5, OtherTInv DEF vars, TInv
<1> QED
  BY <1>1, <1>2, <1>3, <1>4, <1>5 DEF Next

LEMMA TurnsKept == Spec => []TInv
  BY InitTInv, TInvStep, Invariance, PTL DEF Spec

(* "Fairness is explicit: paused work cannot monopolize the research       *)
(* budget." (research_runtime.py:547): for any work and any interleaving,  *)
(* nothing has two turns while something else stays open and waits.        *)
THEOREM Unmonopolized == Spec => []NoWorkMonopolizes
<1>1. TInv => NoWorkMonopolizes
  <2> SUFFICES ASSUME TInv, NEW j \in Work, NEW k \in Work
               PROVE  overtaken[j][k] <= 1
    BY DEF NoWorkMonopolizes
  <2>1. overtaken[j][k] \in {0, 1}
    BY DEF TInv, Overtaken
  <2> QED
    BY <2>1
<1> QED
  BY <1>1, TurnsKept, PTL

-----------------------------------------------------------------------------
(* Every process is at one of the places of a tick, and the lease is held  *)
(* by a process or by none.                                                *)
Places == {"idle", "policy", "controls", "gather", "choose", "advance"}
Located ==
  /\ lock \in Workers \cup {Nobody}
  /\ \A w \in Workers : proc[w].pc \in Places

LEMMA LocatedStep == IInv /\ Located /\ [Next]_vars => Located'
<1> SUFFICES ASSUME IInv, Located, [Next]_vars
             PROVE  Located'
  OBVIOUS
<1> USE DEF Located, Places, IInv, At, Go, authority, history
<1>1. ASSUME NEW w \in Workers, Step(w) \/ Crash(w)
      PROVE  Located'
  <2>1. CASE ReadPolicy(w)
    BY <2>1 DEF ReadPolicy
  <2>2. CASE Acquire(w)
    BY <2>2 DEF Acquire
  <2>3. CASE GiveUp(w)
    BY <2>3 DEF GiveUp, Idle
  <2>4. CASE Controls(w)
    BY <2>4 DEF Controls, Release, Idle
  <2>5. CASE Gather(w)
    BY <2>5 DEF Gather, Release, Idle
  <2>6. CASE TakeTurn(w)
    <3>1. PICK k : proc' = [proc EXCEPT ![w] = [pc |-> "advance", key |-> k]]
      BY <2>6 DEF TakeTurn
    <3>2. UNCHANGED lock
      BY <2>6 DEF TakeTurn
    <3> QED
      BY <3>1, <3>2
  <2>7. CASE Advance(w) \/ AdvanceNothing(w)
    BY <2>7 DEF Advance, AdvanceNothing, Release, Idle
  <2>8. CASE Crash(w)
    BY <2>8 DEF Crash, Idle
  <2> QED
    BY <1>1, <2>1, <2>2, <2>3, <2>4, <2>5, <2>6, <2>7, <2>8 DEF Step
<1>2. CASE OperatorControls \/ OperatorPolicy \/ WorkChanges \/ UNCHANGED vars
  BY <1>2 DEF OperatorControls, OperatorPolicy, WorkChanges, vars
<1> QED
  BY <1>1, <1>2 DEF Next

(* Every variable keeps its range, and whoever is past the lease is its    *)
(* holder, for any number of processes that tick and any crashes.          *)
THEOREM TypeCorrect == Spec => []TypeOK
<1>1. Init => Located
  BY DEF Init, Located, Places, Idle
<1>2. Spec => []Located
  BY <1>1, LocatedStep, Invariance, PTL DEF Spec
<1>3. IInv /\ TInv /\ Located => TypeOK
  <2> SUFFICES ASSUME IInv, TInv, Located
               PROVE  TypeOK
    OBVIOUS
  <2>1. overtaken \in [Work -> [Work -> Nat]]
    BY DEF TInv, Overtaken
  <2>2. \A w \in Workers : ~(At(w, "idle") \/ At(w, "policy")) => lock = w
    BY DEF IInv, LeaseHeld, Holding, Located, Places, At
  <2> QED
    BY <2>1, <2>2 DEF TypeOK, IInv, TInv, Located
<1> QED
  BY <1>2, <1>3, Invariance, TurnsKept, PTL
=============================================================================
