----------------------- MODULE TheoryAllowanceProofs -----------------------
(***************************************************************************)
(* The theorems of TheoryAllowance, for every budget, policy and number of *)
(* crashes.  That a run's calls stay within its grants needs to know what  *)
(* every pass leaves of the limit (Limits): apart from a continuation it   *)
(* is backed by the renewals and the reserve, and a pass reaches the run's *)
(* own work only with a limit that some receipt pays for.  The receipts    *)
(* in turn need the range of the worker's reading of the policy (ProcOK)   *)
(* and of their own fields (Receipts): that a new key was never used is a  *)
(* fact about all that the snapshot has, the run's and the others'.        *)
(***************************************************************************)
EXTENDS TheoryAllowance, TLAPS

(* The worker during a pass holds what it read of the policy.              *)
Passing == {"refresh", "renewed", "reserve", "method", "selected", "act"}
Pass ==
  [pc : Passing, pass : {"look", "advance"}, policy : Policies,
   ready : BOOLEAN, controls : BOOLEAN]
ProcOK ==
  /\ proc.pc \in Passing \cup {"idle", "call", "tool", "stored", "outcome"}
  /\ proc.pc \in Passing => proc \in Pass
  /\ proc.pc \in {"tool", "stored"} =>
       /\ proc = [pc |-> proc.pc, command |-> proc.command]
       /\ proc.command \in Commands
  /\ At("tool") /\ proc.command = "evaluate" => evaluated < run.evaluations

(* A receipt's key is an evaluation it has seen, the sources, or that of   *)
(* another run.                                                            *)
Renewal == [key : 0..MaxEvaluations, seen : 0..MaxEvaluations, before : Nat]
Other == [key : Nat, seen : Nat]
Receipts ==
  /\ renewals \in Seq(Renewal)
  /\ elsewhere \in Seq(Other)
  /\ \A i \in 1..Len(renewals) : renewals[i].key <= renewals[i].seen
  /\ \A i \in 1..Len(elsewhere) :
       elsewhere[i].key = Sources \/ elsewhere[i].key > MaxEvaluations

(* What backs the limit: the renewals until a reserve is added, both until *)
(* a continuation keeps what was there before it.                          *)
Limits ==
  /\ run.allow.before = 0 =>
       /\ run.allow.scientific <= Ceiling
       /\ Limit(run) <= Ceiling + reserve.calls
       /\ run.allow.scientific = 0 => Limit(run) <= Ceiling
  /\ run.allow.before <= Ceiling + reserve.calls
  /\ extra = NoExtra => run.allow.before = 0
  /\ extra.before <= Ceiling + reserve.calls
  /\ At("act") =>
       /\ Limit(run) <= Greatest(Ceiling + reserve.calls, ExtraLimit)
       /\ Over => Limit(run) <= Ceiling + reserve.calls

-----------------------------------------------------------------------------
LEMMA Lowered ==
  /\ Lower("ample") = {"none", "low", "ample"}
  /\ \A r : Lower(r) \subseteq Lower("ample")
<1>1. Left[1] = "none" /\ Left[2] = "low" /\ Left[3] = "ample"
  BY DEF Left
<1>2. Lower("ample") = {"none", "low", "ample"}
  <2>1. \A j \in 1..3 : \E k \in j..3 : Left[k] = "ample"
    BY <1>1
  <2>2. Lower("ample") = {Left[i] : i \in 1..3}
    BY <2>1 DEF Lower
  <2>3. 1..3 = {1, 2, 3}
    OBVIOUS
  <2> QED
    BY <1>1, <2>2, <2>3
<1>3. \A r : Lower(r) \subseteq {Left[i] : i \in 1..3}
  BY DEF Lower
<1>4. {Left[i] : i \in 1..3} = {"none", "low", "ample"}
  <2>1. 1..3 = {1, 2, 3}
    OBVIOUS
  <2> QED
    BY <1>1, <2>1
<1> QED
  BY <1>2, <1>3, <1>4

LEMMA PolicyRange ==
  ASSUME NEW p \in Policies
  PROVE  p.renewals \in 0..2 /\ p.per \in 1..6 /\ p.recovery \in 0..4
BY AllowanceAssumption

LEMMA Amounts ==
  ASSUME TypeOK
  PROVE  /\ BaseCalls \in Nat /\ BaseCalls > 0
         /\ run.calls \in Nat /\ run.allow.limit \in Nat
         /\ run.allow.scientific \in Nat /\ run.allow.before \in Nat
         /\ Limit(run) \in Nat /\ Limit(run) > 0
         /\ reserve.calls \in Nat /\ reserve.before \in Nat
         /\ extra.calls \in Nat /\ extra.before \in Nat /\ ExtraLimit \in Nat
         /\ contract.max \in 0..2 /\ contract.per \in 0..6
BY AllowanceAssumption
   DEF TypeOK, Runs, Allowances, Limit, ExtraLimit, NoContract

LEMMA GrantsAll ==
  ASSUME Receipts
  PROVE  /\ Len(renewals) \in Nat /\ Len(elsewhere) \in Nat /\ Len(Grants) \in Nat
         /\ Len(Grants) = Len(renewals) + Len(elsewhere)
         /\ \A i \in 1..Len(renewals) : Grants[i] = renewals[i]
         /\ \A i \in 1..Len(elsewhere) : Grants[Len(renewals) + i] = elsewhere[i]
BY DEF Receipts, Grants

LEMMA UpToTwo ==
  ASSUME NEW n \in Nat, n <= 2
  PROVE  n \in 0..2
OBVIOUS

LEMMA Few ==
  ASSUME Receipts, SnapshotRenewals
  PROVE  Len(renewals) \in 0..2 /\ Len(elsewhere) \in 0..2
<1>1. Len(Grants) <= 2
  BY DEF SnapshotRenewals
<1>2. /\ Len(renewals) \in Nat /\ Len(elsewhere) \in Nat /\ Len(Grants) \in Nat
      /\ Len(Grants) = Len(renewals) + Len(elsewhere)
  BY GrantsAll
<1>3. Len(renewals) <= 2 /\ Len(elsewhere) <= 2
  BY <1>1, <1>2
<1> QED
  BY <1>2, <1>3, UpToTwo

LEMMA Products ==
  ASSUME NEW n \in 0..2, NEW m \in 0..6
  PROVE  n * m \in Nat /\ (n + 1) * m = n * m + m
<1>1. n \in {0, 1, 2}
  OBVIOUS
<1> QED
  BY <1>1

LEMMA Rising ==
  ASSUME NEW a \in 0..2, NEW b \in 0..2, NEW c \in 0..6, NEW d \in 0..6, a <= b, c <= d
  PROVE  a * c <= b * d
<1>1. a \in {0, 1, 2} /\ b \in {0, 1, 2}
  OBVIOUS
<1> QED
  BY <1>1

LEMMA Ceilings ==
  ASSUME TypeOK, Len(renewals) \in 0..2
  PROVE  Ceiling \in Nat /\ Ceiling >= BaseCalls
<1>1. Len(renewals) * contract.per \in Nat
  BY Amounts, Products
<1> QED
  BY <1>1, Amounts DEF Ceiling

LEMMA Effectives ==
  ASSUME TypeOK, Len(renewals) \in 0..2, proc \in Pass
  PROVE  Effective \in Nat /\ BaseCalls <= Effective /\ Effective <= Ceiling
<1>1. proc.policy.renewals \in 0..2 /\ proc.policy.per \in 0..6
  BY PolicyRange DEF Pass
<1>2. proc.policy.renewals * proc.policy.per \in Nat
  BY <1>1, Products
<1>3. Configured \in Nat /\ Configured >= BaseCalls
  BY <1>2, Amounts DEF Configured
<1> QED
  BY <1>3, Ceilings, Amounts DEF Effective, Least

-----------------------------------------------------------------------------
(* What the steps make of the run's file.  Only Dispatch changes its calls, *)
(* only ReserveTool its evaluations, only the projections its allowance.   *)
States == Waiting \cup {"ready"}
Spending(r) == <<r.calls, r.evaluations>>

LEMMA Names ==
  /\ "waiting_for_changed_input" \in Waiting /\ "waiting_for_capability" \in Waiting
  /\ {"", "exhausted", "reused", "repairable", "cached", "note", "interrupted",
      "provider", "failed"} \subseteq Feedbacks
BY DEF Waiting, Feedbacks

LEMMA FailsType ==
  ASSUME NEW r \in Runs, NEW feedback \in Feedbacks, Fails(r, feedback)
  PROVE  /\ run' \in Runs /\ run'.woken = r.woken
         /\ Spending(run') = Spending(r) /\ run'.allow = r.allow
<1>1. r.state \in States /\ "waiting_for_changed_input" \in States
  BY Names DEF Runs, States
<1>2. PICK left \in Lower(r.left),
           state \in {r.state} \cup IF r.failed THEN {"waiting_for_changed_input"} ELSE {} :
        run' = [r EXCEPT !.state = state, !.left = left, !.inflight = "none",
                         !.feedback = feedback, !.failed = TRUE]
  BY DEF Fails
<1>3. left \in Lower("ample") /\ state \in States
  BY <1>1, <1>2, Lowered
<1> QED
  BY <1>2, <1>3 DEF Runs, States, Spending

LEMMA ObservedType ==
  ASSUME run \in Runs, NEW left \in Lower("ample")
  PROVE  /\ Observed(left) \in Runs /\ Observed(left).woken = run.woken
         /\ Spending(Observed(left)) = Spending(run) /\ Observed(left).allow = run.allow
BY Names DEF Observed, Runs, Spending

LEMMA WokenType ==
  ASSUME run \in Runs, arrived \subseteq Reviews, run.woken \subseteq arrived,
         NEW controls \in BOOLEAN
  PROVE  /\ Woken(controls) \in Runs /\ Woken(controls).woken \subseteq arrived
         /\ Spending(Woken(controls)) = Spending(run)
         /\ Woken(controls).allow = run.allow
BY Names DEF Woken, Runs, Spending

LEMMA ContinuedType ==
  ASSUME TypeOK, NEW s \in Runs, NEW controls \in BOOLEAN,
         NEW current \in BOOLEAN
  PROVE  /\ Continued(s, controls, current) \in Runs
         /\ Continued(s, controls, current).woken = s.woken
         /\ Spending(Continued(s, controls, current)) = Spending(s)
<1> DEFINE before == IF s.allow.before # 0 THEN s.allow.before ELSE Limit(s)
           active == ExtraActive(controls, current)
           limit == IF active THEN Greatest(before, ExtraLimit) ELSE before
           acts == active /\ s.inflight = "none"
           mends == acts /\ Mends(s, current)
           first == acts /\ ~Mends(s, current) /\ ~s.continued
           goes == acts /\ (mends \/ first \/ proc.ready \/ s.feedback = "")
           stops == ~active /\ s.inflight = "none" /\ s.calls >= before
           state == IF goes THEN "ready"
                    ELSE IF stops THEN "waiting_for_changed_input" ELSE s.state
           feedback == IF mends \/ first THEN "" ELSE s.feedback
           mended == s.mended \/ mends
           continued == s.continued \/ first
           allow == [s.allow EXCEPT !.before = before, !.limit = limit]
<1>1. s.allow \in Allowances /\ s.state \in States /\ s.feedback \in Feedbacks
        /\ s.continued \in BOOLEAN /\ s.mended \in BOOLEAN
  BY DEF Runs, States
<1>2. before \in Nat /\ limit \in Nat
  <2>1. before \in Nat
    BY <1>1, Amounts DEF Allowances, Limit
  <2> QED
    BY <2>1, Amounts DEF Greatest
<1>3. allow \in Allowances
  BY <1>1, <1>2 DEF Allowances
<1>4. state \in States /\ feedback \in Feedbacks /\ continued \in BOOLEAN
        /\ mended \in BOOLEAN
  BY <1>1, Names DEF States
<1>5. CASE extra = NoExtra
  BY <1>5 DEF Continued
<1>6. CASE extra # NoExtra
  <2>1. Continued(s, controls, current) =
          [s EXCEPT !.state = state, !.feedback = feedback, !.mended = mended,
                    !.continued = continued, !.allow = allow]
    <3>1. Continued(s, controls, current) =
            [s EXCEPT !.state = state, !.feedback = feedback, !.mended = mended,
                      !.continued = continued, !.allow.before = before,
                      !.allow.limit = limit]
      BY <1>6 DEF Continued
    <3> HIDE DEF state, feedback, mended, continued, before, limit
    <3>2. [s EXCEPT !.state = state, !.feedback = feedback, !.mended = mended,
                    !.continued = continued, !.allow.before = before,
                    !.allow.limit = limit]
          = [s EXCEPT !.state = state, !.feedback = feedback, !.mended = mended,
                      !.continued = continued, !.allow = allow]
      BY DEF Runs, Allowances
    <3> QED
      BY <3>1, <3>2
  <2> HIDE DEF state, feedback, mended, continued, allow
  <2> QED
    BY <1>3, <1>4, <2>1 DEF Runs, States, Spending
<1> QED
  BY <1>5, <1>6

LEMMA ProjectedType ==
  ASSUME TypeOK, proc \in Pass, Len(renewals) \in 0..2, NEW limit \in Nat,
         NEW activated \in BOOLEAN, NEW awakened \in BOOLEAN
  PROVE  LET s == Projected(limit, activated, awakened) IN
         /\ s \in Runs /\ s.woken = run.woken /\ Spending(s) = Spending(run)
         /\ s.allow = IF proc.policy.renewals = 0 /\ contract = NoContract
                      THEN run.allow
                      ELSE [limit |-> limit, scientific |-> 0, before |-> 0,
                            completing |-> renewals # <<>> /\ run.calls >= BaseCalls,
                            controls |-> proc.controls, active |-> Len(renewals)]
<1> DEFINE resumed == [run EXCEPT
             !.state = IF activated \/ awakened THEN "ready" ELSE @,
             !.suspended = @ /\ ~awakened,
             !.feedback = IF activated THEN "note" ELSE @]
           completing == renewals # <<>> /\ run.calls >= BaseCalls
           settled == run.inflight = "none"
           suspends == completing /\ settled /\ resumed.state = "ready"
                         /\ (~proc.controls \/ (limit <= run.calls /\ run.calls < Ceiling))
           stops == settled /\ \/ completing /\ ~proc.controls
                               \/ run.calls >= limit
                                    /\ resumed.state # "waiting_for_capability"
           state == IF stops THEN "waiting_for_changed_input" ELSE resumed.state
           suspended == resumed.suspended \/ suspends
           allow == IF proc.policy.renewals = 0 /\ contract = NoContract THEN run.allow
                    ELSE [limit |-> limit, scientific |-> 0, before |-> 0,
                          completing |-> completing, controls |-> proc.controls,
                          active |-> Len(renewals)]
<1>1. resumed \in Runs /\ resumed.woken = run.woken /\ resumed.allow = run.allow
        /\ Spending(resumed) = Spending(run)
  BY Names DEF TypeOK, Runs, Spending
<1>2. completing \in BOOLEAN /\ proc.controls \in BOOLEAN
  BY DEF Pass
<1>3. allow \in Allowances
  BY <1>2 DEF TypeOK, Runs, Allowances
<1>4. state \in States /\ suspended \in BOOLEAN
  BY <1>1, Names DEF Runs, States
<1>5. Projected(limit, activated, awakened) =
        [resumed EXCEPT !.state = state, !.suspended = suspended, !.allow = allow]
  BY <1>1 DEF Projected
<1> HIDE DEF resumed, state, suspended, allow
<1>6. [resumed EXCEPT !.state = state, !.suspended = suspended, !.allow = allow] \in Runs
  BY <1>1, <1>3, <1>4 DEF Runs, States
<1> QED
  BY <1>1, <1>5, <1>6 DEF Runs, Spending, allow

LEMMA RunStep ==
  ASSUME TypeOK, ProcOK, Receipts, SnapshotRenewals, Next
  PROVE  /\ run' \in Runs /\ run'.woken \subseteq arrived' /\ arrived' \subseteq Reviews
         /\ \/ run'.evaluations = run.evaluations
            \/ ReserveTool /\ run'.evaluations \in {run.evaluations, run.evaluations + 1}
         /\ run'.calls = run.calls \/ Dispatch
         /\ run'.allow = run.allow \/ Refresh \/ SuspendReserve \/ ApplyReserve \/ Resume
<1>0. run \in Runs /\ run.woken \subseteq arrived /\ arrived \subseteq Reviews
  BY DEF TypeOK
<1>1. CASE UNCHANGED run
  <2>1. arrived \subseteq arrived' /\ arrived' \subseteq Reviews
    <3>1. UNCHANGED arrived \/ ReviewArrives
      BY DEF Next, Project, Act, Outside, outside, Begin, BeginAdvance, WriteContract,
         WriteRenewal, Refresh, SuspendReserve, ApplyReserve, ReserveRaises, RecoverMethod, Resume, ResumeRaises,
         SettleInflight, Stop, Exhausted, PreflightFails, Dispatch, Refuse, ReserveTool,
         ToolFails, StoreTurn, Observe, RecordOutcome, Crash, MethodStale, Readopt, IssueReserve,
         IssueExtra, AuthorizeRepair, ElsewhereRenews
    <3> QED
      BY <1>0, <3>1 DEF ReviewArrives
  <2> QED
    BY <1>0, <1>1, <2>1
<1>2. CASE Refresh
  <2>1. proc \in Pass /\ Len(renewals) \in 0..2
    <3>1. proc \in Pass
      BY <1>2 DEF ProcOK, Refresh, At, Passing
    <3> QED
      BY <3>1, Few
  <2>2. Ceiling \in Nat /\ Effective \in Nat
    BY <2>1, Ceilings, Effectives
  <2>3. PendingActivation \in BOOLEAN /\ SuspensionEnds \in BOOLEAN
    BY <1>0, <2>1 DEF PendingActivation, SuspensionEnds, Runs, Pass
  <2>4. PICK limit \in Nat, activated \in BOOLEAN, awakened \in BOOLEAN :
          run' = Projected(limit, activated, awakened)
    BY <1>2, <2>2, <2>3 DEF Refresh
  <2>5. run' \in Runs /\ run'.woken = run.woken /\ Spending(run') = Spending(run)
    BY <2>1, <2>4, ProjectedType
  <2> QED
    BY <1>0, <1>2, <2>5 DEF Refresh, outside, Spending
<1>3. CASE SuspendReserve
  <2> DEFINE allow == [run.allow EXCEPT !.limit = Scientific]
  <2>1. allow \in Allowances
    BY <1>0, Amounts DEF Runs, Allowances, Scientific
  <2>2. run' = [run EXCEPT !.state = "waiting_for_changed_input", !.allow = allow]
    BY <1>3, <1>0 DEF SuspendReserve, Runs, Allowances
  <2> HIDE DEF allow
  <2> QED
    BY <1>0, <1>3, <2>1, <2>2, Names DEF SuspendReserve, outside, Runs
<1>4. CASE ApplyReserve
  <2> DEFINE allow == [run.allow EXCEPT !.scientific = Scientific,
                                        !.limit = Scientific + reserve.calls]
             applied == [run EXCEPT !.allow = allow]
  <2>1. allow \in Allowances
    <3>1. Scientific \in Nat /\ Scientific + reserve.calls \in Nat
      BY Amounts DEF Scientific
    <3> QED
      BY <1>0, <3>1 DEF Runs, Allowances
  <2>2. [run EXCEPT !.allow.scientific = Scientific,
                    !.allow.limit = Scientific + reserve.calls] = applied
    BY <1>0 DEF Runs, Allowances
  <2>3. applied \in Runs /\ applied.woken = run.woken /\ Spending(applied) = Spending(run)
    <3> HIDE DEF allow
    <3> QED
      BY <1>0, <2>1 DEF Runs, Spending
  <2> HIDE DEF applied
  <2>4. run' \in {applied, [applied EXCEPT !.state = "ready"],
                  [applied EXCEPT !.state = "ready", !.feedback = "", !.recovered = TRUE]}
    BY <1>4, <2>2 DEF ApplyReserve
  <2>5. run' \in Runs /\ run'.woken = run.woken /\ Spending(run') = Spending(run)
    BY <2>3, <2>4, Names DEF Runs, Spending
  <2> QED
    BY <1>0, <1>4, <2>5 DEF ApplyReserve, outside, Spending
<1>5. CASE RecoverMethod
  BY <1>0, <1>5, Names DEF RecoverMethod, outside, Runs
<1>6. CASE Resume
  <2>1. PICK active \in BOOLEAN, controls \in BOOLEAN, current \in BOOLEAN :
          run' = Continued(Woken(active), controls, current)
    BY <1>6 DEF Resume
  <2>2. Woken(active) \in Runs /\ Woken(active).woken \subseteq arrived
          /\ Spending(Woken(active)) = Spending(run)
    BY <1>0, WokenType
  <2>3. run' \in Runs /\ run'.woken \subseteq arrived /\ Spending(run') = Spending(run)
    BY <2>1, <2>2, ContinuedType
  <2> QED
    BY <1>0, <1>6, <2>3 DEF Resume, outside, Spending
<1>7. CASE SettleInflight
  <2>1. PICK left \in Lower("ample") :
          run' = [run EXCEPT !.state = "waiting_for_changed_input", !.left = left,
                             !.feedback = "interrupted", !.inflight = "none"]
    BY <1>7, Lowered DEF SettleInflight
  <2> QED
    BY <1>0, <1>7, <2>1, Names DEF SettleInflight, outside, Runs
<1>8. CASE Exhausted
  BY <1>0, <1>8, Names DEF Exhausted, outside, Runs
<1>9. CASE PreflightFails
  <2>1. PICK left \in Lower("ample") :
          run' = [run EXCEPT !.state = "waiting_for_changed_input", !.left = left,
                             !.feedback = "failed", !.unsent = FALSE,
                             !.woken = arrived]
    BY <1>9, Lowered DEF PreflightFails
  <2> QED
    BY <1>0, <1>9, <2>1, Names DEF PreflightFails, outside, Runs
<1>10. CASE Dispatch
  <2>1. run' = [run EXCEPT !.calls = run.calls + 1, !.inflight = "model",
                           !.unsent = FALSE, !.woken = arrived]
    BY <1>10 DEF Dispatch
  <2>2. run.calls + 1 \in Nat /\ "model" \in {"none", "model", "tool"}
          /\ arrived' = arrived /\ arrived \in SUBSET Reviews
    BY <1>0, <1>10, Amounts DEF Dispatch, outside
  <2> DEFINE r == [run EXCEPT !.calls = run.calls + 1, !.inflight = "model"]
  <2>3. run' \in Runs /\ run'.woken = arrived
    <3>1. r \in Runs
      BY <1>0, <2>2 DEF Runs
    <3>2. run' = [r EXCEPT !.unsent = FALSE, !.woken = arrived]
      BY <2>1
    <3> HIDE DEF r
    <3> QED
      BY <2>2, <3>1, <3>2 DEF Runs
  <2>4. run'.evaluations = run.evaluations /\ run'.allow = run.allow
    BY <1>0, <2>1 DEF Runs
  <2> QED
    BY <1>10, <2>2, <2>3, <2>4
<1>11. CASE Refuse
  <2>1. PICK r \in {run, [run EXCEPT !.unsent = TRUE]}, feedback \in Feedbacks :
          Fails(r, feedback)
    BY <1>11, Names DEF Refuse
  <2>2. /\ r \in Runs /\ r.woken = run.woken
        /\ Spending(r) = Spending(run) /\ r.allow = run.allow
    BY <1>0 DEF Runs, Spending
  <2> QED
    BY <1>0, <1>11, <2>1, <2>2, FailsType DEF Refuse, outside, Spending
<1>12. CASE ReserveTool
  <2>1. PICK command \in Commands :
          /\ command = "evaluate" => run.evaluations < MaxEvaluations
          /\ run' = [run EXCEPT !.inflight = "tool",
                       !.evaluations = IF command = "evaluate" THEN @ + 1 ELSE @]
    BY <1>12 DEF ReserveTool
  <2> DEFINE n == IF command = "evaluate" THEN run.evaluations + 1 ELSE run.evaluations
  <2>2. n \in 0..MaxEvaluations /\ n \in {run.evaluations, run.evaluations + 1}
    BY <1>0, <2>1, AllowanceAssumption DEF Runs
  <2>3. run' = [run EXCEPT !.inflight = "tool", !.evaluations = n]
    BY <2>1
  <2> HIDE DEF n
  <2> QED
    BY <1>0, <1>12, <2>2, <2>3 DEF ReserveTool, outside, Runs
<1>13. CASE ToolFails
  BY <1>0, <1>13, FailsType, Names DEF ToolFails, outside, Spending
<1>14. CASE Observe
  <2>1. PICK left \in Lower("ample") :
          \/ run' = Observed(left)
          \/ Fails(Observed(left), "failed")
          \/ run' = [Observed(left) EXCEPT !.state = "waiting_for_changed_input",
                                           !.feedback = "failed"]
    BY <1>14, Lowered DEF Observe
  <2>2. /\ Observed(left) \in Runs /\ Observed(left).woken = run.woken
        /\ Spending(Observed(left)) = Spending(run) /\ Observed(left).allow = run.allow
    BY <1>0, ObservedType
  <2>3. /\ run' \in Runs /\ run'.woken = run.woken
        /\ Spending(run') = Spending(run) /\ run'.allow = run.allow
    <3>1. CASE run' = Observed(left)
      BY <2>2, <3>1
    <3>2. CASE Fails(Observed(left), "failed")
      BY <2>2, <3>2, FailsType, Names
    <3>3. CASE run' = [Observed(left) EXCEPT !.state = "waiting_for_changed_input",
                                             !.feedback = "failed"]
      BY <2>2, <3>3, Names DEF Runs, Spending
    <3> QED
      BY <2>1, <3>1, <3>2, <3>3
  <2> QED
    BY <1>0, <1>14, <2>3 DEF Observe, outside, Spending
<1> QED
  BY <1>1, <1>2, <1>3, <1>4, <1>5, <1>6, <1>7, <1>8, <1>9, <1>10, <1>11, <1>12, <1>13, <1>14
     DEF Next, Project, Act, Outside, Begin, BeginAdvance, WriteContract, WriteRenewal,
         ReserveRaises, ResumeRaises, Stop, StoreTurn, RecordOutcome, Crash,
         MethodStale, Readopt, ReviewArrives, IssueReserve, IssueExtra, AuthorizeRepair, ElsewhereRenews

-----------------------------------------------------------------------------
(* Who writes the other files.                                             *)
LEMMA Frame ==
  ASSUME Next
  PROVE  /\ UNCHANGED adopted \/ MethodStale \/ Readopt
         /\ UNCHANGED crashes \/ Crash
         /\ UNCHANGED <<evaluated, covered>> \/ StoreTurn
         /\ UNCHANGED closed \/ RecordOutcome
         /\ UNCHANGED contract \/ WriteContract
         /\ UNCHANGED renewals \/ WriteRenewal
         /\ UNCHANGED elsewhere \/ ElsewhereRenews
         /\ UNCHANGED reserve \/ IssueReserve
         /\ UNCHANGED extra \/ IssueExtra
         /\ UNCHANGED repair \/ AuthorizeRepair
         /\ UNCHANGED repaired \/ RecordOutcome
<1> USE DEF outside, disk
<1>1. CASE Project
  BY <1>1 DEF Project, Begin, BeginAdvance, WriteContract, WriteRenewal, Refresh,
         SuspendReserve, ApplyReserve, ReserveRaises, RecoverMethod, Resume, ResumeRaises
<1>2. CASE Act
  BY <1>2 DEF Act, SettleInflight, Stop, Exhausted, PreflightFails, Dispatch, Refuse,
         ReserveTool, ToolFails, StoreTurn, Observe, RecordOutcome
<1>3. CASE Crash
  BY <1>3 DEF Crash
<1>4. CASE Outside
  BY <1>4 DEF Outside, MethodStale, Readopt, ReviewArrives, IssueReserve, IssueExtra, AuthorizeRepair, ElsewhereRenews
<1> QED
  BY <1>1, <1>2, <1>3, <1>4 DEF Next

LEMMA DiskStep ==
  ASSUME TypeOK, ProcOK, Receipts, SnapshotRenewals, Next
  PROVE  /\ adopted' \in Adoptions /\ crashes' \in 0..MaxCrashes
         /\ evaluated' \in 0..run'.evaluations /\ covered' \in BOOLEAN
         /\ closed' \in Nat
         /\ contract' \in {NoContract} \cup [max : 1..2, per : 1..6]
         /\ reserve' \in [calls : 0..4, before : Nat]
         /\ extra' \in [calls : 0..2, before : Nat, failure : Feedbacks]
         /\ repair' \in [before : Nat, review : Adoptions] /\ repaired' \in BOOLEAN
<1>1. adopted' \in Adoptions /\ crashes' \in 0..MaxCrashes
  <2>1. adopted' \in Adoptions
    <3>1. adopted \in Adoptions
      BY DEF TypeOK
    <3>2. CASE MethodStale \/ Readopt
      BY <3>2 DEF MethodStale, Readopt, Adoptions
    <3>3. CASE UNCHANGED adopted
      BY <3>1, <3>3
    <3>4. UNCHANGED adopted \/ MethodStale \/ Readopt
      BY Frame
    <3> QED
      BY <3>2, <3>3, <3>4
  <2>2. crashes \in 0..MaxCrashes /\ MaxCrashes \in Nat
    BY AllowanceAssumption DEF TypeOK
  <2>3. UNCHANGED crashes \/ (crashes < MaxCrashes /\ crashes' = crashes + 1)
    BY Frame DEF Crash
  <2> QED
    BY <2>1, <2>2, <2>3
<1>2. evaluated' \in 0..run'.evaluations /\ covered' \in BOOLEAN
  <2>1. run.evaluations \in Nat /\ evaluated \in Nat /\ evaluated <= run.evaluations
          /\ covered \in BOOLEAN
    BY AllowanceAssumption DEF TypeOK, Runs
  <2>2. CASE UNCHANGED <<evaluated, covered>>
    <3>1. run'.evaluations \in {run.evaluations, run.evaluations + 1}
      BY RunStep
    <3> QED
      BY <2>1, <2>2, <3>1
  <2>3. CASE StoreTurn
    <3>1. /\ covered' \in BOOLEAN
          /\ evaluated' \in {evaluated, IF proc.command = "evaluate" THEN evaluated + 1
                                        ELSE evaluated}
          /\ run' = run /\ At("tool")
      BY <2>1, <2>3 DEF StoreTurn
    <3> QED
      BY <2>1, <3>1 DEF ProcOK
  <2> QED
    BY <2>2, <2>3, Frame
<1>3. closed' \in Nat /\ repaired' \in BOOLEAN
  <2>1. closed \in Nat /\ repaired \in BOOLEAN /\ run.calls \in Nat
    BY Amounts DEF TypeOK
  <2>2. CASE RecordOutcome
    <3>1. closed' \in {closed, run.calls}
      BY <2>2 DEF RecordOutcome
    <3>2. repaired' \in BOOLEAN
      BY <2>1, <2>2 DEF RecordOutcome
    <3> QED
      BY <2>1, <3>1, <3>2
  <2>3. UNCHANGED <<closed, repaired>> \/ RecordOutcome
    BY Frame
  <2> QED
    BY <2>1, <2>2, <2>3
<1>4. contract' \in {NoContract} \cup [max : 1..2, per : 1..6]
  <2>1. CASE WriteContract
    <3>1. proc \in Pass
      BY <2>1 DEF WriteContract, ProcOK, At, Passing
    <3>2. proc.policy.renewals \in 1..2 /\ proc.policy.per \in 1..6
      BY <2>1, <3>1, PolicyRange DEF WriteContract, Renewable, Pass
    <3> QED
      BY <2>1, <3>2 DEF WriteContract
  <2> QED
    BY <2>1, Frame DEF TypeOK
<1>5. reserve' \in [calls : 0..4, before : Nat]
  <2>1. CASE IssueReserve
    <3>1. PICK policy \in Policies : \E calls \in 1..Least(4, policy.recovery) :
            reserve' = [calls |-> calls, before |-> run.calls]
      BY <2>1 DEF IssueReserve
    <3>2. PICK calls \in 1..Least(4, policy.recovery) :
            reserve' = [calls |-> calls, before |-> run.calls]
      BY <3>1
    <3>3. calls \in 0..4
      BY <3>2, PolicyRange DEF Least
    <3> QED
      BY <3>2, <3>3, Amounts
  <2> QED
    BY <2>1, Frame DEF TypeOK
<1>6. extra' \in [calls : 0..2, before : Nat, failure : Feedbacks]
  <2>1. CASE IssueExtra
    <3>1. PICK calls \in Continuations :
            extra' = [calls |-> calls, before |-> run.calls, failure |-> run.feedback]
      BY <2>1 DEF IssueExtra
    <3>2. calls \in 0..2 /\ run.feedback \in Feedbacks
      BY AllowanceAssumption DEF TypeOK, Runs
    <3> QED
      BY <3>1, <3>2, Amounts
  <2> QED
    BY <2>1, Frame DEF TypeOK
<1>7. repair' \in [before : Nat, review : Adoptions]
  <2>1. CASE AuthorizeRepair
    <3>1. repair' = [before |-> run.calls, review |-> adopted]
      BY <2>1 DEF AuthorizeRepair
    <3> QED
      BY <3>1, Amounts DEF TypeOK
  <2> QED
    BY <2>1, Frame DEF TypeOK
<1> QED
  BY <1>1, <1>2, <1>3, <1>4, <1>5, <1>6, <1>7

LEMMA TypeStep ==
  ASSUME TypeOK, ProcOK, Receipts, SnapshotRenewals, Next
  PROVE  TypeOK'
BY RunStep, DiskStep DEF TypeOK

LEMMA ProcStep ==
  ASSUME TypeOK, ProcOK, Receipts, SnapshotRenewals, Next
  PROVE  ProcOK'
<1> USE DEF ProcOK, Pass, Passing, At, Go, Idle, outside, disk
<1>1. CASE proc' = Idle
  BY <1>1
<1>2. CASE UNCHANGED proc
  <2>1. UNCHANGED evaluated /\ run'.evaluations = run.evaluations
    <3>1. ~StoreTurn
      BY <1>2 DEF StoreTurn
    <3>2. ~ReserveTool
      <4>1. ReserveTool => proc.pc = "call" /\ proc'.pc = "tool"
        BY DEF ReserveTool
      <4> QED
        BY <1>2, <4>1
    <3>3. UNCHANGED <<evaluated, covered>> \/ StoreTurn
      BY Frame
    <3>4. run'.evaluations = run.evaluations \/ ReserveTool
      BY RunStep
    <3> QED
      BY <3>1, <3>2, <3>3, <3>4
  <2> QED
    BY <1>2, <2>1
<1>3. CASE Begin \/ BeginAdvance
  <2>1. PICK pass \in {"look", "advance"}, policy \in Policies : Read(pass, policy)
    BY <1>3 DEF Begin, BeginAdvance
  <2>2. proc' \in Pass /\ proc'.pc = "refresh"
    BY <2>1 DEF Read, TypeOK
  <2> QED
    BY <2>2
<1>4. CASE \E pc \in Passing : Go(pc) /\ proc \in Pass
  BY <1>4
<1>5. CASE Refresh
  <2>1. proc' \in Pass /\ proc'.pc \in {"method", "reserve"}
    BY <1>5 DEF Refresh
  <2> QED
    BY <2>1
<1>6. CASE Dispatch \/ \E verified, sent \in BOOLEAN : GoOutcome(verified, sent)
  BY <1>6 DEF Dispatch, GoOutcome
<1>7. CASE ReserveTool
  <2>1. PICK command \in Commands :
          /\ run' = [run EXCEPT !.inflight = "tool",
                       !.evaluations = IF command = "evaluate" THEN @ + 1 ELSE @]
          /\ proc' = [pc |-> "tool", command |-> command]
    BY <1>7 DEF ReserveTool
  <2>2. run \in Runs /\ evaluated' = evaluated /\ evaluated \in Nat
          /\ run.evaluations \in Nat /\ evaluated <= run.evaluations
    BY <1>7, AllowanceAssumption DEF ReserveTool, TypeOK, Runs
  <2>3. command = "evaluate" => run'.evaluations = run.evaluations + 1
    BY <2>1, <2>2 DEF Runs
  <2>4. command = "evaluate" => evaluated' < run'.evaluations
    BY <2>2, <2>3
  <2> QED
    BY <2>1, <2>4
<1>8. CASE StoreTurn
  BY <1>8 DEF StoreTurn
<1>9. CASE Resume
  <2>1. proc' \in Pass \/ proc' = Idle
    BY <1>9 DEF Resume
  <2>2. proc' \in Pass => proc'.pc \in {"act", "selected"}
    BY <1>9 DEF Resume
  <2> QED
    BY <2>1, <2>2
<1> QED
  BY <1>1, <1>2, <1>3, <1>4, <1>5, <1>6, <1>7, <1>8, <1>9
     DEF Next, Project, Act, Outside, WriteContract, WriteRenewal,
         SuspendReserve, ApplyReserve, ReserveRaises, RecoverMethod, ResumeRaises,
         SettleInflight, Stop, Exhausted, PreflightFails, Refuse,
         ToolFails, Observe, Recorded, RecordOutcome, Crash, MethodStale, Readopt, ReviewArrives,
         IssueReserve, IssueExtra, AuthorizeRepair, ElsewhereRenews

-----------------------------------------------------------------------------
(* Receipts.  No two of the snapshot's have a key in common if no two of   *)
(* the run's do, no two of the others' and none of each.                   *)
Apart(s, t) ==
  /\ \A i, j \in 1..Len(s) : s[i].key = s[j].key => i = j
  /\ \A i, j \in 1..Len(t) : t[i].key = t[j].key => i = j
  /\ \A i \in 1..Len(s), j \in 1..Len(t) : s[i].key # t[j].key

LEMMA Joined ==
  ASSUME NEW S, NEW T, NEW s \in Seq(S), NEW t \in Seq(T)
  PROVE  (\A i, j \in 1..Len(s \o t) : (s \o t)[i].key = (s \o t)[j].key => i = j)
           <=> Apart(s, t)
<1> DEFINE u == s \o t
           m == Len(s)
           n == Len(t)
<1>1. m \in Nat /\ n \in Nat /\ Len(u) = m + n
  OBVIOUS
<1>2. \A i \in 1..m : u[i] = s[i]
  OBVIOUS
<1>3. \A i \in 1..n : u[m + i] = t[i]
  OBVIOUS
<1> HIDE DEF u, m, n
<1>4. ASSUME Apart(s, t), NEW i \in 1..(m + n), NEW j \in 1..(m + n), u[i].key = u[j].key
      PROVE  i = j
  <2>1. \A k \in 1..(m + n) : k \in 1..m \/ (k - m \in 1..n /\ u[k] = t[k - m])
    <3>1. ASSUME NEW k \in 1..(m + n), k \notin 1..m
          PROVE  k - m \in 1..n /\ k = m + (k - m)
      BY <1>1, <3>1
    <3> QED
      BY <1>3, <3>1
  <2>2. /\ \A a, b \in 1..m : s[a].key = s[b].key => a = b
        /\ \A a, b \in 1..n : t[a].key = t[b].key => a = b
        /\ \A a \in 1..m, b \in 1..n : s[a].key # t[b].key
    BY <1>4 DEF Apart, m, n
  <2>3. CASE i \in 1..m /\ j \in 1..m
    BY <1>2, <1>4, <2>2, <2>3
  <2>4. CASE i \in 1..m /\ j \notin 1..m
    BY <1>2, <1>4, <2>1, <2>2, <2>4
  <2>5. CASE i \notin 1..m /\ j \in 1..m
    BY <1>2, <1>4, <2>1, <2>2, <2>5
  <2>6. CASE i \notin 1..m /\ j \notin 1..m
    <3>1. i - m = j - m
      BY <1>4, <2>1, <2>2, <2>6
    <3> QED
      BY <1>1, <3>1
  <2> QED
    BY <2>3, <2>4, <2>5, <2>6
<1>5. ASSUME \A i, j \in 1..(m + n) : u[i].key = u[j].key => i = j
      PROVE  Apart(s, t)
  <2>1. ASSUME NEW i \in 1..m, NEW j \in 1..m, s[i].key = s[j].key
        PROVE  i = j
    BY <1>1, <1>2, <1>5, <2>1
  <2>2. \A i \in 1..n : m + i \in 1..(m + n)
    BY <1>1
  <2>3. ASSUME NEW i \in 1..n, NEW j \in 1..n, t[i].key = t[j].key
        PROVE  i = j
    <3>1. m + i = m + j
      BY <1>3, <1>5, <2>2, <2>3
    <3> QED
      BY <1>1, <3>1
  <2>4. ASSUME NEW i \in 1..m, NEW j \in 1..n, s[i].key = t[j].key
        PROVE  FALSE
    <3>1. i = m + j
      <4>1. i \in 1..(m + n)
        BY <1>1
      <4> QED
        BY <1>2, <1>3, <1>5, <2>2, <2>4, <4>1
    <3> QED
      BY <1>1, <3>1
  <2> QED
    BY <2>1, <2>3, <2>4 DEF Apart, m, n
<1> QED
  BY <1>1, <1>4, <1>5 DEF u

LEMMA Added ==
  ASSUME NEW S, NEW s \in Seq(S), NEW r \in S
  PROVE  /\ Append(s, r) \in Seq(S) /\ Len(s) \in Nat
         /\ Len(Append(s, r)) = Len(s) + 1
         /\ \A i \in 1..Len(s) : Append(s, r)[i] = s[i]
         /\ Append(s, r)[Len(s) + 1] = r
OBVIOUS

LEMMA AddedApart ==
  ASSUME NEW S, NEW s \in Seq(S), NEW r \in S, NEW t, Apart(s, t),
         \A i \in 1..Len(s) : s[i].key # r.key,
         \A i \in 1..Len(t) : t[i].key # r.key
  PROVE  Apart(Append(s, r), t) /\ (Apart(t, s) => Apart(t, Append(s, r)))
<1> DEFINE u == Append(s, r)
           m == Len(s)
<1>1. m \in Nat /\ Len(u) = m + 1 /\ u[m + 1] = r /\ \A i \in 1..m : u[i] = s[i]
  BY Added
<1> HIDE DEF u
<1>2. 1..(m + 1) = 1..m \cup {m + 1}
  BY <1>1
<1>3. \A i, j \in 1..Len(u) : u[i].key = u[j].key => i = j
  BY <1>1, <1>2 DEF Apart
<1>4. \A i \in 1..Len(u), j \in 1..Len(t) : u[i].key # t[j].key
  BY <1>1, <1>2 DEF Apart
<1> QED
  BY <1>3, <1>4 DEF Apart, u

(* What a new receipt is given for, no receipt was given for.              *)
LEMMA FreshKey ==
  ASSUME TypeOK, Receipts, NEW key \in Evidence
  PROVE  /\ key \in 0..evaluated /\ evaluated \in 0..MaxEvaluations
         /\ \A i \in 1..Len(renewals) : renewals[i].key # key
         /\ \A i \in 1..Len(elsewhere) : elsewhere[i].key # key
<1>1. evaluated \in 0..MaxEvaluations
  BY AllowanceAssumption DEF TypeOK, Runs
<1>2. \A i \in 1..Len(elsewhere) : Len(renewals) + i \in 1..Len(Grants)
  BY GrantsAll
<1>3. \A i \in 1..Len(renewals) : i \in 1..Len(Grants)
  BY GrantsAll
<1>4. \A i \in 1..Len(renewals) :
        renewals[i] \in Renewal /\ renewals[i].key <= renewals[i].seen
  BY DEF Receipts
<1>5. \A i \in 1..Len(elsewhere) :
        /\ elsewhere[i].key \in Nat
        /\ elsewhere[i].key = 0 \/ elsewhere[i].key > MaxEvaluations
  <2>1. \A i \in 1..Len(elsewhere) : elsewhere[i] \in Other
    BY DEF Receipts
  <2> QED
    BY <2>1 DEF Receipts, Sources, Other
<1>6. CASE Fresh # {}
  <2>1. key \in 1..evaluated /\ \A g \in 1..Len(Grants) : Grants[g].seen < key
    BY <1>6 DEF Evidence, Fresh
  <2>2. \A i \in 1..Len(renewals) : renewals[i].seen < key
    BY <1>3, <2>1, GrantsAll
  <2>3. \A i \in 1..Len(renewals) : renewals[i].key # key
    BY <1>1, <1>4, <2>1, <2>2 DEF Renewal
  <2>4. \A i \in 1..Len(elsewhere) : elsewhere[i].key # key
    BY <1>1, <1>5, <2>1, AllowanceAssumption
  <2> QED
    BY <1>1, <2>1, <2>3, <2>4
<1>7. CASE Fresh = {}
  <2>1. key = 0 /\ \A g \in 1..Len(Grants) : Grants[g].key # 0
    BY <1>7 DEF Evidence, Sources
  <2> QED
    BY <1>1, <1>2, <1>3, <2>1, GrantsAll
<1> QED
  BY <1>6, <1>7

LEMMA RenewalWritten ==
  ASSUME TypeOK, Receipts, WriteRenewal
  PROVE  \E r \in Renewal :
           /\ renewals' = Append(renewals, r) /\ elsewhere' = elsewhere
           /\ r.before = run.calls /\ r.key <= r.seen
           /\ \A i \in 1..Len(renewals) : renewals[i].key # r.key
           /\ \A i \in 1..Len(elsewhere) : elsewhere[i].key # r.key
<1>1. PICK key \in Evidence :
        renewals' = Append(renewals, [key |-> key, seen |-> evaluated, before |-> run.calls])
  BY DEF WriteRenewal
<1> DEFINE r == [key |-> key, seen |-> evaluated, before |-> run.calls]
<1>2. r \in Renewal /\ r.before = run.calls /\ r.key <= r.seen /\ r.key = key
  BY FreshKey, Amounts, AllowanceAssumption DEF Renewal
<1>3. elsewhere' = elsewhere
  BY DEF WriteRenewal
<1> HIDE DEF r
<1> QED
  BY <1>1, <1>2, <1>3, FreshKey DEF r

LEMMA OtherWritten ==
  ASSUME TypeOK, Receipts, ElsewhereRenews
  PROVE  \E r \in Other :
           /\ elsewhere' = Append(elsewhere, r) /\ renewals' = renewals
           /\ r.key = Sources \/ r.key > MaxEvaluations
           /\ \A i \in 1..Len(renewals) : renewals[i].key # r.key
           /\ \A i \in 1..Len(elsewhere) : elsewhere[i].key # r.key
<1>1. PICK key \in {MaxEvaluations + 1 + Len(elsewhere), Sources} :
        /\ \A g \in 1..Len(Grants) : Grants[g].key # key
        /\ elsewhere' = Append(elsewhere, [key |-> key, seen |-> evaluated])
  BY DEF ElsewhereRenews
<1> DEFINE r == [key |-> key, seen |-> evaluated]
<1>2. MaxEvaluations \in Nat /\ Len(elsewhere) \in Nat /\ evaluated \in Nat
  BY GrantsAll, AllowanceAssumption DEF TypeOK, Runs
<1>3. r \in Other /\ r.key = key /\ (r.key = Sources \/ r.key > MaxEvaluations)
  BY <1>2 DEF Other, Sources
<1>4. \A i \in 1..Len(renewals) : renewals[i].key # key
  <2>1. \A i \in 1..Len(renewals) : i \in 1..Len(Grants)
    BY GrantsAll
  <2> QED
    BY <1>1, <2>1, GrantsAll
<1>5. \A i \in 1..Len(elsewhere) : elsewhere[i].key # key
  <2>1. \A i \in 1..Len(elsewhere) : Len(renewals) + i \in 1..Len(Grants)
    BY GrantsAll
  <2> QED
    BY <1>1, <2>1, GrantsAll
<1>6. renewals' = renewals
  BY DEF ElsewhereRenews
<1> HIDE DEF r
<1> QED
  BY <1>1, <1>3, <1>4, <1>5, <1>6 DEF r

LEMMA ReceiptsStep ==
  ASSUME TypeOK, Receipts, Next
  PROVE  Receipts'
<1>1. CASE WriteRenewal
  <2>1. PICK r \in Renewal : renewals' = Append(renewals, r) /\ elsewhere' = elsewhere
                             /\ r.key <= r.seen
    BY <1>1, RenewalWritten
  <2>2. renewals \in Seq(Renewal) /\ \A i \in 1..Len(renewals) : renewals[i].key <= renewals[i].seen
    BY DEF Receipts
  <2>3. /\ renewals' \in Seq(Renewal) /\ Len(renewals) \in Nat
        /\ Len(renewals') = Len(renewals) + 1
        /\ \A i \in 1..Len(renewals) : renewals'[i] = renewals[i]
        /\ renewals'[Len(renewals) + 1] = r
    BY <2>1, <2>2, Added
  <2>4. \A i \in 1..Len(renewals') : renewals'[i].key <= renewals'[i].seen
    <3>1. 1..Len(renewals') = 1..Len(renewals) \cup {Len(renewals) + 1}
      BY <2>3
    <3> QED
      BY <2>1, <2>2, <2>3, <3>1
  <2> QED
    BY <2>1, <2>3, <2>4 DEF Receipts
<1>2. CASE ElsewhereRenews
  <2>1. PICK r \in Other : elsewhere' = Append(elsewhere, r) /\ renewals' = renewals
                           /\ (r.key = Sources \/ r.key > MaxEvaluations)
    BY <1>2, OtherWritten
  <2>2. elsewhere \in Seq(Other) /\ \A i \in 1..Len(elsewhere) :
          elsewhere[i].key = Sources \/ elsewhere[i].key > MaxEvaluations
    BY DEF Receipts
  <2>3. /\ elsewhere' \in Seq(Other) /\ Len(elsewhere) \in Nat
        /\ Len(elsewhere') = Len(elsewhere) + 1
        /\ \A i \in 1..Len(elsewhere) : elsewhere'[i] = elsewhere[i]
        /\ elsewhere'[Len(elsewhere) + 1] = r
    BY <2>1, <2>2, Added
  <2>4. \A i \in 1..Len(elsewhere') :
          elsewhere'[i].key = Sources \/ elsewhere'[i].key > MaxEvaluations
    <3>1. 1..Len(elsewhere') = 1..Len(elsewhere) \cup {Len(elsewhere) + 1}
      BY <2>3
    <3> QED
      BY <2>1, <2>2, <2>3, <3>1
  <2> QED
    BY <2>1, <2>3, <2>4 DEF Receipts
<1>3. CASE UNCHANGED <<renewals, elsewhere>>
  BY <1>3 DEF Receipts
<1>4. UNCHANGED renewals \/ WriteRenewal
  BY Frame
<1>5. UNCHANGED elsewhere \/ ElsewhereRenews
  BY Frame
<1> QED
  BY <1>1, <1>2, <1>3, <1>4, <1>5

LEMMA SnapshotStep ==
  ASSUME TypeOK, ProcOK, Receipts, SnapshotRenewals, Next
  PROVE  SnapshotRenewals'
<1>1. renewals \in Seq(Renewal) /\ elsewhere \in Seq(Other)
        /\ Len(renewals) \in Nat /\ Len(elsewhere) \in Nat
        /\ Len(Grants) = Len(renewals) + Len(elsewhere)
  BY GrantsAll DEF Receipts
<1>2. Apart(renewals, elsewhere)
  BY <1>1, Joined DEF SnapshotRenewals, Grants
<1>3. renewals' \in Seq(Renewal) /\ elsewhere' \in Seq(Other)
  BY ReceiptsStep DEF Receipts
<1>4. ASSUME Len(Grants') <= 2, Apart(renewals', elsewhere')
      PROVE  SnapshotRenewals'
  <2>1. \A i, j \in 1..Len(renewals' \o elsewhere') :
          (renewals' \o elsewhere')[i].key = (renewals' \o elsewhere')[j].key => i = j
    BY <1>3, <1>4, Joined
  <2> QED
    BY <1>4, <2>1 DEF SnapshotRenewals, Grants
<1>5. Len(Grants') = Len(renewals') + Len(elsewhere')
  BY <1>3 DEF Grants
<1>6. CASE WriteRenewal
  <2>1. PICK r \in Renewal :
          /\ renewals' = Append(renewals, r) /\ elsewhere' = elsewhere
          /\ \A i \in 1..Len(renewals) : renewals[i].key # r.key
          /\ \A i \in 1..Len(elsewhere) : elsewhere[i].key # r.key
    BY <1>6, RenewalWritten
  <2>2. Apart(renewals', elsewhere')
    BY <1>1, <1>2, <2>1, AddedApart
  <2>3. Len(Grants) < 2
    <3>1. proc \in Pass
      BY <1>6 DEF WriteRenewal, ProcOK, At, Passing
    <3>2. proc.policy.renewals \in 0..2
      BY <3>1, PolicyRange DEF Pass
    <3>3. \E m : Len(Grants) < Least(proc.policy.renewals, m) /\ m \in 0..2
      BY <1>6, Amounts DEF WriteRenewal, Renewable
    <3> QED
      BY <1>1, <3>2, <3>3 DEF Least
  <2>4. Len(renewals') = Len(renewals) + 1
    BY <1>1, <2>1
  <2>5. Len(Grants') <= 2
    BY <1>1, <1>5, <2>1, <2>3, <2>4
  <2> QED
    BY <1>4, <2>2, <2>5
<1>7. CASE ElsewhereRenews
  <2>1. PICK r \in Other :
          /\ elsewhere' = Append(elsewhere, r) /\ renewals' = renewals
          /\ \A i \in 1..Len(renewals) : renewals[i].key # r.key
          /\ \A i \in 1..Len(elsewhere) : elsewhere[i].key # r.key
    BY <1>7, OtherWritten
  <2>2. Apart(renewals', elsewhere')
    <3>1. Apart(elsewhere, renewals)
      BY <1>2 DEF Apart
    <3>2. Apart(renewals, Append(elsewhere, r))
      BY <1>1, <1>2, <2>1, <3>1, AddedApart
    <3> QED
      BY <2>1, <3>2
  <2>3. Len(Grants) < 2
    BY <1>7 DEF ElsewhereRenews
  <2>4. Len(elsewhere') = Len(elsewhere) + 1
    BY <1>1, <2>1
  <2>5. Len(Grants') <= 2
    BY <1>1, <1>5, <2>1, <2>3, <2>4
  <2> QED
    BY <1>4, <2>2, <2>5
<1>8. CASE UNCHANGED <<renewals, elsewhere>>
  BY <1>8 DEF SnapshotRenewals, Grants
<1>9. UNCHANGED renewals \/ WriteRenewal
  BY Frame
<1>10. UNCHANGED elsewhere \/ ElsewhereRenews
  BY Frame
<1> QED
  BY <1>6, <1>7, <1>8, <1>9, <1>10

LEMMA NoneUncontracted ==
  ASSUME Receipts, ChainHolds, contract = NoContract
  PROVE  Len(renewals) = 0 /\ renewals = <<>>
<1>1. Len(renewals) \in Nat /\ renewals \in Seq(Renewal)
  BY GrantsAll DEF Receipts
<1>2. 1 \notin 1..Len(renewals)
  BY DEF ChainHolds, NoContract
<1>3. Len(renewals) = 0
  BY <1>1, <1>2
<1> QED
  BY <1>1, <1>3

(* The calls a renewal is given after reach the ceiling of those before.   *)
LEMMA ChainStep ==
  ASSUME TypeOK, ProcOK, Receipts, SnapshotRenewals, ChainHolds, Next
  PROVE  ChainHolds'
<1>1. CASE WriteContract
  <2>1. Len(renewals') = 0
    BY <1>1, NoneUncontracted DEF WriteContract
  <2> QED
    BY <2>1 DEF ChainHolds
<1>2. CASE WriteRenewal
  <2>1. PICK r \in Renewal : renewals' = Append(renewals, r) /\ r.before = run.calls
    BY <1>2, RenewalWritten
  <2> DEFINE n == Len(renewals)
             p == proc.policy
  <2>2. /\ n \in Nat /\ Len(renewals') = n + 1 /\ renewals'[n + 1] = r
        /\ \A i \in 1..n : renewals'[i] = renewals[i]
    BY <2>1, Added DEF Receipts
  <2>3. contract' = contract /\ contract.max \in 0..2 /\ contract.per \in 0..6
    BY <1>2, Amounts DEF WriteRenewal
  <2>4. proc \in Pass
    BY <1>2 DEF WriteRenewal, ProcOK, At, Passing
  <2>5. p.renewals \in 0..2 /\ p.per \in 0..6
    BY <2>4, PolicyRange DEF Pass
  <2>6. contract.per <= p.per
    BY <1>2, <2>3, <2>5 DEF WriteRenewal, Renewable
  <2>7. n + 1 <= contract.max /\ n + 1 <= p.renewals
    <3>1. Len(Grants) < Least(p.renewals, contract.max)
      BY <1>2 DEF WriteRenewal, Renewable
    <3>2. n <= Len(Grants) /\ Len(Grants) \in Nat
      BY GrantsAll
    <3> HIDE DEF n, p
    <3> QED
      BY <2>2, <2>3, <2>5, <3>1, <3>2 DEF Least, n
  <2>8. run.calls >= BaseCalls + n * contract.per
    <3> HIDE DEF n, p
    <3>1. n \in 0..2 /\ n <= p.renewals
      BY <2>2, <2>5, <2>7
    <3>2. n * contract.per <= p.renewals * p.per
      BY <2>3, <2>5, <2>6, <3>1, Rising
    <3>3. n * contract.per \in Nat /\ p.renewals * p.per \in Nat
      BY <2>3, <2>5, <3>1, Products
    <3>4. Effective = Least(BaseCalls + n * contract.per, BaseCalls + p.renewals * p.per)
      BY DEF Effective, Ceiling, Configured, n, p
    <3>5. run.calls >= Effective
      BY <1>2 DEF WriteRenewal, Renewable
    <3> QED
      BY <3>2, <3>3, <3>4, <3>5, Amounts DEF Least
  <2> HIDE DEF n
  <2>9. ASSUME NEW i \in 1..(n + 1)
        PROVE  i <= contract.max /\ renewals'[i].before >= BaseCalls + (i - 1) * contract.per
    <3>1. CASE i \in 1..n
      BY <2>2, <3>1 DEF ChainHolds, n
    <3>2. CASE i = n + 1
      <4>1. i - 1 = n
        BY <2>2, <3>2
      <4> QED
        BY <2>1, <2>2, <2>7, <2>8, <3>2, <4>1
    <3> QED
      BY <2>2, <3>1, <3>2
  <2> QED
    BY <2>2, <2>3, <2>9 DEF ChainHolds
<1>3. CASE UNCHANGED <<contract, renewals>>
  BY <1>3 DEF ChainHolds
<1>4. UNCHANGED renewals \/ WriteRenewal
  BY Frame
<1>5. UNCHANGED contract \/ WriteContract
  BY Frame
<1>6. WriteContract => UNCHANGED renewals
  BY DEF WriteContract
<1>7. WriteRenewal => UNCHANGED contract
  BY DEF WriteRenewal
<1> QED
  BY <1>1, <1>2, <1>3, <1>4, <1>5

-----------------------------------------------------------------------------
(* Limits.  The ceiling of the renewals and the calls of a reserve only    *)
(* rise.                                                                   *)
LEMMA CeilingRises ==
  ASSUME TypeOK, ProcOK, Receipts, SnapshotRenewals, ChainHolds, Next
  PROVE  /\ Ceiling \in Nat /\ Ceiling' \in Nat /\ Ceiling <= Ceiling'
         /\ reserve.calls \in Nat /\ reserve'.calls \in Nat /\ reserve.calls <= reserve'.calls
         /\ extra.calls \in Nat /\ extra'.calls \in Nat /\ extra.calls <= extra'.calls
<1>1. Len(renewals) \in 0..2 /\ contract.per \in 0..6 /\ BaseCalls \in Nat
  BY Few, Amounts
<1>2. Ceiling \in Nat
  BY <1>1, Few, Ceilings
<1>3. Ceiling' \in Nat /\ Ceiling <= Ceiling'
  <2>1. CASE WriteContract
    <3>1. Len(renewals) = 0 /\ renewals' = renewals
      BY <2>1, NoneUncontracted DEF WriteContract
    <3>2. contract'.per \in 0..6
      BY <2>1, DiskStep DEF NoContract
    <3>3. Len(renewals) * contract.per = 0 /\ Len(renewals) * contract'.per = 0
      BY <1>1, <3>1, <3>2
    <3>4. Ceiling' = Ceiling
      BY <3>1, <3>3 DEF Ceiling
    <3> QED
      BY <1>2, <3>4
  <2>2. CASE WriteRenewal
    <3>1. Len(renewals') = Len(renewals) + 1 /\ contract' = contract
      BY <2>2, RenewalWritten, Added DEF Receipts, WriteRenewal
    <3>2. (Len(renewals) + 1) * contract.per = Len(renewals) * contract.per + contract.per
            /\ Len(renewals) * contract.per \in Nat
      BY <1>1, Products
    <3>3. Ceiling' = Ceiling + contract.per
      BY <1>1, <3>1, <3>2 DEF Ceiling
    <3> QED
      BY <1>1, <1>2, <3>3
  <2>3. CASE UNCHANGED <<contract, renewals>>
    BY <1>2, <2>3 DEF Ceiling
  <2>4. UNCHANGED renewals \/ WriteRenewal
    BY Frame
  <2>5. UNCHANGED contract \/ WriteContract
    BY Frame
  <2> QED
    BY <2>1, <2>2, <2>3, <2>4, <2>5
<1>4. reserve.calls \in Nat /\ reserve'.calls \in Nat /\ reserve.calls <= reserve'.calls
  <2>1. reserve.calls \in Nat /\ reserve'.calls \in Nat
    BY DiskStep DEF TypeOK
  <2>2. IssueReserve => reserve.calls = 0
    BY DEF IssueReserve, NoReserve
  <2>3. UNCHANGED reserve \/ IssueReserve
    BY Frame
  <2> QED
    BY <2>1, <2>2, <2>3
<1>5. extra.calls \in Nat /\ extra'.calls \in Nat /\ extra.calls <= extra'.calls
  <2>1. extra.calls \in Nat /\ extra'.calls \in Nat
    BY DiskStep DEF TypeOK
  <2>2. ASSUME IssueExtra
        PROVE  extra.calls = 0
    <3>1. extra = NoExtra
      BY <2>2 DEF IssueExtra
    <3> QED
      BY <3>1 DEF NoExtra
  <2>3. UNCHANGED extra \/ IssueExtra
    BY Frame
  <2> QED
    BY <2>1, <2>2, <2>3
<1> QED
  BY <1>2, <1>3, <1>4, <1>5

(* What a continuation leaves of the limit, after a review or not.         *)
Bought == IF run.allow.before # 0 THEN run.allow.before ELSE Limit(run)

LEMMA ContinuedAllow ==
  ASSUME TypeOK, NEW awake \in BOOLEAN, NEW controls \in BOOLEAN,
         NEW current \in BOOLEAN
  PROVE  LET s == Continued(Woken(awake), controls, current)
             limit == IF ExtraActive(controls, current) THEN Greatest(Bought, ExtraLimit) ELSE Bought
         IN /\ extra = NoExtra => s.allow = run.allow
            /\ extra # NoExtra => /\ s.allow.before = Bought /\ s.allow.limit = limit
                                  /\ s.allow.scientific = run.allow.scientific
<1> DEFINE w == Woken(awake)
           limit == IF ExtraActive(controls, current) THEN Greatest(Bought, ExtraLimit) ELSE Bought
<1>1. w \in Runs /\ w.allow = run.allow
  BY WokenType DEF TypeOK
<1> HIDE DEF w
<1>2. CASE extra = NoExtra
  BY <1>1, <1>2 DEF Continued, w
<1>3. CASE extra # NoExtra
  <2>1. Bought = IF w.allow.before # 0 THEN w.allow.before ELSE Limit(w)
    BY <1>1 DEF Bought, Limit
  <2>2. /\ Continued(w, controls, current).allow.before = Bought
        /\ Continued(w, controls, current).allow.limit = limit
        /\ Continued(w, controls, current).allow.scientific = w.allow.scientific
    BY <1>1, <1>3, <2>1 DEF Continued, Runs, Allowances
  <2> QED
    BY <1>1, <1>3, <2>2 DEF w
<1> QED
  BY <1>2, <1>3

(* The limit apart from a continuation's calls.                            *)
Scope(allow, ceiling, spare) ==
  /\ allow.before = 0 =>
       /\ allow.scientific <= ceiling
       /\ allow.limit <= ceiling + spare
       /\ allow.scientific = 0 => allow.limit <= ceiling
  /\ allow.before <= ceiling + spare

LEMMA Scoped ==
  ASSUME NEW r \in Runs, NEW ceiling \in Nat, NEW spare \in Nat, BaseCalls <= ceiling
  PROVE  Scope(r.allow, ceiling, spare)
           <=> /\ r.allow.before = 0 =>
                    /\ r.allow.scientific <= ceiling
                    /\ Limit(r) <= ceiling + spare
                    /\ r.allow.scientific = 0 => Limit(r) <= ceiling
               /\ r.allow.before <= ceiling + spare
BY AllowanceAssumption DEF Scope, Limit, Runs, Allowances

LEMMA Widened ==
  ASSUME NEW allow \in Allowances, NEW c \in Nat, NEW d \in Nat, c <= d,
         NEW m \in Nat, NEW n \in Nat, m <= n, Scope(allow, c, m)
  PROVE  Scope(allow, d, n)
BY DEF Scope, Allowances

LEMMA ReserveApplied ==
  ASSUME run \in Runs, ApplyReserve
  PROVE  /\ run'.allow.limit = Scientific + reserve.calls
         /\ run'.allow.before = run.allow.before
         /\ run'.allow.scientific = Scientific
<1> DEFINE allow == [run.allow EXCEPT !.scientific = Scientific,
                                      !.limit = Scientific + reserve.calls]
           applied == [run EXCEPT !.allow = allow]
<1>1. /\ applied.allow.limit = Scientific + reserve.calls
      /\ applied.allow.before = run.allow.before
      /\ applied.allow.scientific = Scientific
  BY DEF Runs, Allowances
<1>2. [run EXCEPT !.allow.scientific = Scientific,
                  !.allow.limit = Scientific + reserve.calls] = applied
  BY DEF Runs, Allowances
<1>3. DOMAIN applied = DOMAIN run
  OBVIOUS
<1> HIDE DEF applied
<1>4. run' \in {applied, [applied EXCEPT !.state = "ready"],
                [applied EXCEPT !.state = "ready", !.feedback = "", !.recovered = TRUE]}
  BY <1>2 DEF ApplyReserve
<1>5. run'.allow = applied.allow
  BY <1>3, <1>4 DEF Runs
<1> QED
  BY <1>1, <1>5

(* Each projection keeps the limit within the ceiling and the reserve.     *)
LEMMA ProjectionScope ==
  ASSUME TypeOK, ProcOK, Receipts, SnapshotRenewals, ChainHolds, Limits,
         Refresh \/ SuspendReserve \/ ApplyReserve \/ Resume
  PROVE  /\ Scope(run'.allow, Ceiling, reserve.calls)
         /\ run'.allow.before \in {0, run.allow.before} \/ extra # NoExtra
<1>1. Len(renewals) \in 0..2 /\ run.allow \in Allowances /\ run \in Runs
  BY Few DEF TypeOK, Runs
<1>2. /\ Ceiling \in Nat /\ Ceiling >= BaseCalls /\ BaseCalls \in Nat /\ BaseCalls > 0
      /\ reserve.calls \in Nat
  BY <1>1, Amounts, Ceilings
<1>3. Scope(run.allow, Ceiling, reserve.calls)
  BY <1>1, <1>2, Scoped DEF Limits
<1>4. CASE Refresh
  <2>1. proc \in Pass
    BY <1>4 DEF ProcOK, Refresh, At, Passing
  <2>2. Effective \in Nat /\ Effective <= Ceiling
    BY <1>1, <2>1, Effectives
  <2>3. PendingActivation \in BOOLEAN /\ SuspensionEnds \in BOOLEAN
    BY <1>1, <2>1 DEF PendingActivation, SuspensionEnds, Runs, Pass
  <2>4. PICK limit \in Nat, activated \in BOOLEAN, awakened \in BOOLEAN :
          run' = Projected(limit, activated, awakened) /\ limit <= Ceiling
    <3>1. CASE run' = Projected(Ceiling, TRUE, FALSE)
      <4> Ceiling \in Nat
        BY <1>2
      <4> WITNESS Ceiling \in Nat, TRUE \in BOOLEAN, FALSE \in BOOLEAN
      <4> QED
        BY <1>2, <3>1
    <3>2. CASE run' = Projected(Effective, PendingActivation, SuspensionEnds)
      BY <2>2, <2>3, <3>2
    <3> QED
      BY <1>4, <3>1, <3>2 DEF Refresh
  <2>5. \/ run'.allow = run.allow
        \/ run'.allow.limit = limit /\ run'.allow.scientific = 0 /\ run'.allow.before = 0
    <3>1. Projected(limit, activated, awakened).allow =
            IF proc.policy.renewals = 0 /\ contract = NoContract THEN run.allow
            ELSE [limit |-> limit, scientific |-> 0, before |-> 0,
                  completing |-> renewals # <<>> /\ run.calls >= BaseCalls,
                  controls |-> proc.controls, active |-> Len(renewals)]
      BY <1>1, <2>1, ProjectedType
    <3> QED
      BY <2>4, <3>1
  <2>6. Scope(run'.allow, Ceiling, reserve.calls)
    BY <1>2, <1>3, <2>4, <2>5 DEF Scope
  <2>7. run'.allow.before \in {0, run.allow.before}
    BY <2>5
  <2> QED
    BY <2>6, <2>7
<1>5. /\ Scientific \in Nat
      /\ run.allow.before = 0 => Scientific <= Ceiling
      /\ Scientific > 0
  BY <1>3, Amounts DEF Scientific, Limits
<1>6. CASE SuspendReserve
  <2>1. /\ run'.allow.limit = Scientific /\ run'.allow.before = run.allow.before
        /\ run'.allow.scientific = run.allow.scientific
    BY <1>1, <1>6 DEF SuspendReserve, Runs, Allowances
  <2>2. Scope(run'.allow, Ceiling, reserve.calls)
    BY <1>2, <1>3, <1>5, <2>1 DEF Scope
  <2>3. run'.allow.before \in {0, run.allow.before}
    BY <2>1
  <2> QED
    BY <2>2, <2>3
<1>7. CASE ApplyReserve
  <2>1. /\ run'.allow.limit = Scientific + reserve.calls
        /\ run'.allow.before = run.allow.before
        /\ run'.allow.scientific = Scientific
    BY <1>1, <1>7, ReserveApplied
  <2>2. Scope(run'.allow, Ceiling, reserve.calls)
    BY <1>2, <1>3, <1>5, <2>1 DEF Scope
  <2>3. run'.allow.before \in {0, run.allow.before}
    BY <2>1
  <2> QED
    BY <2>2, <2>3
<1>8. CASE Resume
  <2>1. PICK awake \in BOOLEAN, controls \in BOOLEAN, current \in BOOLEAN :
          run' = Continued(Woken(awake), controls, current)
    BY <1>8 DEF Resume
  <2>2. \/ run'.allow = run.allow
        \/ run'.allow.before = Bought /\ extra # NoExtra
    BY <2>1, ContinuedAllow
  <2>3. Bought \in Nat /\ Bought > 0 /\ Bought <= Ceiling + reserve.calls
    BY <1>3, Amounts DEF Bought, Limits
  <2>4. Scope(run'.allow, Ceiling, reserve.calls)
    BY <1>2, <1>3, <2>2, <2>3 DEF Scope
  <2>5. run'.allow.before \in {0, run.allow.before} \/ extra # NoExtra
    BY <2>2
  <2> QED
    BY <1>8, <2>4, <2>5
<1> QED
  BY <1>4, <1>6, <1>7, <1>8

(* Where the worker may act: it has just resumed the run, or was there.    *)
LEMMA Acts ==
  ASSUME TypeOK, ProcOK, Next, proc'.pc = "act"
  PROVE  Resume \/ (At("act") /\ UNCHANGED <<run, disk>>)
<1> USE DEF ProcOK, Pass, Passing, At, Go, Idle
<1>1. CASE proc' = Idle
  BY <1>1
<1>2. CASE MethodStale \/ Readopt \/ ReviewArrives
  BY <1>2 DEF MethodStale, Readopt, ReviewArrives
<1>3. CASE Begin \/ BeginAdvance
  BY <1>3 DEF Begin, BeginAdvance, Read
<1>4. CASE \E pc \in Passing \ {"act"} : Go(pc) /\ proc \in Pass
  BY <1>4
<1>5. CASE Refresh
  <2>1. proc' \in Pass /\ proc'.pc \in {"method", "reserve"}
    BY <1>5 DEF Refresh
  <2> QED
    BY <2>1
<1>6. CASE Dispatch \/ \E verified, sent \in BOOLEAN : GoOutcome(verified, sent)
  BY <1>6 DEF Dispatch, GoOutcome
<1>7. CASE ReserveTool
  <2>1. PICK command \in Commands : proc' = [pc |-> "tool", command |-> command]
    BY <1>7 DEF ReserveTool
  <2> QED
    BY <2>1
<1>8. CASE StoreTurn
  BY <1>8 DEF StoreTurn
<1>9. CASE UNCHANGED proc /\ ~At("act")
  BY <1>9
<1> QED
  BY <1>1, <1>2, <1>3, <1>4, <1>5, <1>6, <1>7, <1>8, <1>9
     DEF Next, Project, Act, Outside, WriteContract, WriteRenewal,
         SuspendReserve, ApplyReserve, ReserveRaises, RecoverMethod, ResumeRaises,
         SettleInflight, Stop, Exhausted, PreflightFails, Refuse,
         ToolFails, Observe, Recorded, RecordOutcome, Crash, IssueReserve, IssueExtra, AuthorizeRepair,
         ElsewhereRenews

(* A pass that reaches the run's own work leaves a limit it may use up.    *)
LEMMA ActLimit ==
  ASSUME TypeOK, ProcOK, Receipts, SnapshotRenewals, ChainHolds, Limits, Next,
         proc'.pc = "act"
  PROVE  /\ Limit(run') <= Greatest(Ceiling + reserve.calls, ExtraLimit)
         /\ Over => Limit(run') <= Ceiling + reserve.calls
         /\ UNCHANGED disk
<1>1. /\ Ceiling \in Nat /\ reserve.calls \in Nat /\ ExtraLimit \in Nat
      /\ run.allow.before \in Nat /\ Limit(run) \in Nat /\ Limit(run) > 0
      /\ BaseCalls \in Nat /\ BaseCalls > 0 /\ BaseCalls <= Ceiling
  BY Amounts, Few, Ceilings
<1>2. CASE At("act") /\ UNCHANGED <<run, disk>>
  <2>1. Limit(run') = Limit(run)
    BY <1>2 DEF Limit
  <2> QED
    BY <1>2, <2>1 DEF Limits
<1>3. CASE Resume
  <2>1. PICK awake \in BOOLEAN, controls \in BOOLEAN, current \in BOOLEAN :
          run' = Continued(Woken(awake), controls, current)
    BY <1>3 DEF Resume
  <2>2. UNCHANGED disk
    BY <1>3 DEF Resume
  <2>3. CASE extra = NoExtra
    <3>1. run'.allow = run.allow
      BY <2>1, <2>3, ContinuedAllow
    <3>2. Limit(run') = Limit(run)
      BY <3>1 DEF Limit
    <3>3. Limit(run) <= Ceiling + reserve.calls
      BY <2>3 DEF Limits
    <3> QED
      BY <1>1, <2>2, <3>2, <3>3 DEF Greatest
  <2>4. CASE extra # NoExtra
    <3>1. run'.allow.limit = IF ExtraActive(controls, current) THEN Greatest(Bought, ExtraLimit)
                             ELSE Bought
      BY <2>1, <2>4, ContinuedAllow
    <3>2. Bought \in Nat /\ Bought > 0 /\ Bought <= Ceiling + reserve.calls
      BY <1>1 DEF Bought, Limits
    <3>3. Limit(run') = run'.allow.limit
      <4>1. run'.allow.limit # 0
        BY <1>1, <3>1, <3>2 DEF Greatest
      <4> QED
        BY <4>1 DEF Limit
    <3>4. Over => ~ExtraActive(controls, current)
      BY DEF ExtraActive, RepairOpen, Over
    <3> QED
      BY <1>1, <2>2, <3>1, <3>2, <3>3, <3>4 DEF Greatest
  <2> QED
    BY <2>3, <2>4
<1> QED
  BY <1>2, <1>3, Acts

LEMMA Dispatched ==
  ASSUME TypeOK, ProcOK, Receipts, SnapshotRenewals, ChainHolds, Limits, Dispatch
  PROVE  /\ run'.calls = run.calls + 1
         /\ run'.calls <= Greatest(Ceiling + reserve.calls, ExtraLimit)
         /\ Over => run'.calls <= Ceiling + reserve.calls
<1>1. /\ Ceiling \in Nat /\ reserve.calls \in Nat /\ ExtraLimit \in Nat
      /\ run.calls \in Nat /\ Limit(run) \in Nat
  BY Amounts, Few, Ceilings
<1>2. run'.calls = run.calls + 1
  BY DEF Dispatch, TypeOK, Runs
<1>3. At("act") /\ run.calls < Limit(run)
  BY <1>1 DEF Dispatch, MayAct, Spent
<1> QED
  BY <1>1, <1>2, <1>3 DEF Limits, Greatest

LEMMA CallsStep ==
  ASSUME TypeOK, ProcOK, Receipts, SnapshotRenewals, ChainHolds, Limits,
         CallsWithinGrants, Next
  PROVE  CallsWithinGrants'
<1>1. /\ Ceiling \in Nat /\ Ceiling' \in Nat /\ Ceiling <= Ceiling'
      /\ reserve.calls \in Nat /\ reserve'.calls \in Nat /\ reserve.calls <= reserve'.calls
      /\ extra.calls \in Nat /\ extra'.calls \in Nat /\ extra.calls <= extra'.calls
  BY CeilingRises
<1>2. run.calls \in Nat /\ extra.before \in Nat
  BY Amounts
<1>3. run'.calls \in Nat /\ run'.calls <= Ceiling + reserve.calls + extra.calls
  <2>1. CASE Dispatch
    <3>1. run'.calls = run.calls + 1 /\ run'.calls <= Greatest(Ceiling + reserve.calls, ExtraLimit)
      BY <2>1, Dispatched
    <3>2. extra.before <= Ceiling + reserve.calls
      BY DEF Limits
    <3> QED
      BY <1>1, <1>2, <3>1, <3>2 DEF Greatest, ExtraLimit
  <2>2. CASE run'.calls = run.calls
    BY <1>2, <2>2 DEF CallsWithinGrants
  <2> QED
    BY <2>1, <2>2, RunStep
<1> QED
  BY <1>1, <1>3 DEF CallsWithinGrants

LEMMA LimitsStep ==
  ASSUME TypeOK, ProcOK, Receipts, SnapshotRenewals, ChainHolds, Limits,
         CallsWithinGrants, Next
  PROVE  Limits'
<1>1. /\ Ceiling \in Nat /\ Ceiling' \in Nat /\ Ceiling <= Ceiling'
      /\ reserve.calls \in Nat /\ reserve'.calls \in Nat /\ reserve.calls <= reserve'.calls
  BY CeilingRises
<1>2. BaseCalls <= Ceiling /\ BaseCalls \in Nat
  BY Few, Ceilings, Amounts
<1>3. run \in Runs /\ run' \in Runs /\ run'.allow \in Allowances
  BY RunStep DEF TypeOK, Runs
<1>4. Scope(run.allow, Ceiling, reserve.calls)
  BY <1>1, <1>2, <1>3, Scoped DEF Limits
<1>5. Scope(run'.allow, Ceiling, reserve.calls)
  BY <1>4, RunStep, ProjectionScope
<1>6. Scope(run'.allow, Ceiling', reserve'.calls)
  BY <1>1, <1>3, <1>5, Widened
<1>7. /\ run'.allow.before = 0 =>
           /\ run'.allow.scientific <= Ceiling'
           /\ Limit(run') <= Ceiling' + reserve'.calls
           /\ run'.allow.scientific = 0 => Limit(run') <= Ceiling'
      /\ run'.allow.before <= Ceiling' + reserve'.calls
  <2>1. BaseCalls <= Ceiling'
    BY <1>1, <1>2
  <2> QED
    BY <1>1, <1>3, <1>6, <2>1, Scoped
<1>8. extra' = NoExtra => run'.allow.before = 0
  <2>1. extra' = NoExtra => extra = NoExtra
    <3>1. IssueExtra => extra = NoExtra
      BY DEF IssueExtra
    <3> QED
      BY <3>1, Frame
  <2>2. run'.allow.before \in {0, run.allow.before} \/ extra # NoExtra
    BY RunStep, ProjectionScope
  <2> QED
    BY <2>1, <2>2 DEF Limits
<1>9. extra'.before <= Ceiling' + reserve'.calls
  <2>1. CASE IssueExtra
    <3>1. extra = NoExtra /\ extra'.before = run.calls
      BY <2>1 DEF IssueExtra
    <3>2. run.calls <= Ceiling + reserve.calls /\ run.calls \in Nat
      <4>1. extra.calls = 0
        BY <3>1 DEF NoExtra
      <4> QED
        BY <1>1, <4>1, Amounts DEF CallsWithinGrants
    <3> QED
      BY <1>1, <3>1, <3>2
  <2>2. CASE UNCHANGED extra
    BY <1>1, <2>2, Amounts DEF Limits
  <2> QED
    BY <2>1, <2>2, Frame
<1>10. ASSUME proc'.pc = "act"
       PROVE  /\ Limit(run') <= Greatest(Ceiling' + reserve'.calls, ExtraLimit')
              /\ Over' => Limit(run') <= Ceiling' + reserve'.calls
  <2>1. /\ Limit(run') <= Greatest(Ceiling + reserve.calls, ExtraLimit)
        /\ Over => Limit(run') <= Ceiling + reserve.calls
        /\ UNCHANGED disk
    BY <1>10, ActLimit
  <2>2. Ceiling' = Ceiling /\ ExtraLimit' = ExtraLimit /\ reserve' = reserve /\ Over' = Over
    BY <2>1 DEF disk, Ceiling, ExtraLimit, Over
  <2> QED
    BY <2>1, <2>2
<1>11. Limit(run)' = Limit(run')
  BY DEF Limit
<1> QED
  BY <1>7, <1>8, <1>9, <1>10, <1>11 DEF Limits, At

-----------------------------------------------------------------------------
(* The inductive invariant: the files keep their ranges, the receipts are  *)
(* apart and a chain, and what a limit allows is backed by receipts.       *)
IInv ==
  /\ TypeOK /\ ProcOK /\ Receipts
  /\ SnapshotRenewals /\ ChainHolds
  /\ Limits /\ CallsWithinGrants

LEMMA Start ==
  ASSUME Init
  PROVE  IInv
<1>1. /\ contract = NoContract /\ reserve = NoReserve /\ extra = NoExtra
      /\ proc = Idle /\ crashes = 0 /\ evaluated = 0 /\ covered = FALSE
      /\ adopted = "first" /\ arrived = {} /\ closed = 0
      /\ repair = NoRepair /\ repaired = FALSE
      /\ renewals = <<>> /\ elsewhere = <<>>
  BY DEF Init
<1>2. /\ run.allow = NoAllowance /\ run.calls = 0 /\ run.evaluations = 0
      /\ run.woken = {} /\ run \in Runs
  <2>1. NoAllowance \in Allowances
    BY DEF NoAllowance, Allowances
  <2>2. "ready" \in Waiting \cup {"ready"} /\ "ample" \in Lower("ample") /\ "" \in Feedbacks
    BY Lowered DEF Feedbacks
  <2>3. 0 \in 0..MaxEvaluations /\ {} \in SUBSET Reviews
    BY AllowanceAssumption
  <2>4. /\ run.allow = NoAllowance /\ run.calls = 0 /\ run.evaluations = 0
        /\ run.woken = {}
    BY DEF Init
  <2>5. run \in Runs
    BY <2>1, <2>2, <2>3 DEF Init, Runs
  <2> QED
    BY <2>4, <2>5
<1>3. TypeOK
  <2>1. NoReserve \in [calls : 0..4, before : Nat]
    BY DEF NoReserve
  <2>2. NoExtra \in [calls : 0..2, before : Nat, failure : Feedbacks]
    BY DEF NoExtra, Feedbacks
  <2>3. 0 \in 0..MaxCrashes /\ 0 \in 0..run.evaluations
    BY <1>2, AllowanceAssumption
  <2>4. NoRepair \in [before : Nat, review : Adoptions] /\ "first" \in Adoptions
    BY DEF NoRepair, Adoptions
  <2> QED
    BY <1>1, <1>2, <2>1, <2>2, <2>3, <2>4 DEF TypeOK
<1>4. ProcOK
  BY <1>1 DEF ProcOK, Idle, Passing, At
<1>5. Len(renewals) = 0 /\ Len(elsewhere) = 0 /\ 1..Len(renewals) = {} /\ 1..Len(elsewhere) = {}
  BY <1>1
<1>6. Receipts
  BY <1>1, <1>5 DEF Receipts
<1>7. SnapshotRenewals /\ ChainHolds
  <2>1. Len(Grants) = 0 /\ 1..Len(Grants) = {}
    BY <1>5, <1>6, GrantsAll
  <2> QED
    BY <1>5, <2>1 DEF SnapshotRenewals, ChainHolds
<1>8. Ceiling = BaseCalls /\ BaseCalls \in Nat /\ BaseCalls > 0
  BY <1>1, <1>5, AllowanceAssumption DEF Ceiling, NoContract
<1>9. Limit(run) = BaseCalls
  BY <1>2 DEF Limit, NoAllowance
<1>10. Limits
  <2>1. run.allow.before = 0 /\ run.allow.scientific = 0
    BY <1>2 DEF NoAllowance
  <2>2. reserve.calls = 0 /\ extra.before = 0 /\ ~At("act")
    BY <1>1 DEF NoReserve, NoExtra, At, Idle
  <2> QED
    BY <1>8, <1>9, <2>1, <2>2 DEF Limits
<1>11. CallsWithinGrants
  <2>1. reserve.calls = 0 /\ extra.calls = 0
    BY <1>1 DEF NoReserve, NoExtra
  <2> QED
    BY <1>2, <1>8, <2>1 DEF CallsWithinGrants
<1> QED
  BY <1>3, <1>4, <1>6, <1>7, <1>10, <1>11 DEF IInv

LEMMA Kept ==
  ASSUME IInv, [Next]_vars
  PROVE  IInv'
<1>1. CASE Next
  BY <1>1, TypeStep, ProcStep, ReceiptsStep, SnapshotStep, ChainStep, LimitsStep, CallsStep
     DEF IInv
<1>2. CASE UNCHANGED vars
  <2> USE <1>2 DEF vars
  <2>1. TypeOK'
    BY DEF IInv, TypeOK
  <2>2. ProcOK'
    BY DEF IInv, ProcOK, At
  <2>3. Receipts' /\ SnapshotRenewals' /\ ChainHolds'
    BY DEF IInv, Receipts, SnapshotRenewals, ChainHolds, Grants
  <2>4. Limits'
    BY DEF IInv, Limits, Limit, Ceiling, ExtraLimit, Over, At
  <2>5. CallsWithinGrants'
    BY DEF IInv, CallsWithinGrants, Ceiling
  <2> QED
    BY <2>1, <2>2, <2>3, <2>4, <2>5 DEF IInv
<1> QED
  BY <1>1, <1>2

LEMMA Always == Spec => []IInv
BY Start, Kept, PTL DEF Spec

(* Every file of the run keeps its range over every pass, crash and change *)
(* of the policy: the state is one of the three the tick knows, and an     *)
(* evaluation is charged before it is evidence (ReserveTool, StoreTurn).   *)
THEOREM TypeCorrect == Spec => []TypeOK
<1>1. IInv => TypeOK
  BY DEF IInv
<1> QED
  BY <1>1, Always, PTL

(* A snapshot gets at most two renewals, for different evidence, whatever  *)
(* the policies and however often a receipt is read again (_grants,        *)
(* refresh_call_allowance).                                                *)
THEOREM SnapshotTwice == Spec => []SnapshotRenewals
<1>1. IInv => SnapshotRenewals
  BY DEF IInv
<1> QED
  BY <1>1, Always, PTL

(* The receipts of a run are the chain its later passes check, so that the *)
(* integrity failure that would end the run is never raised                *)
(* (refresh_call_allowance).                                               *)
THEOREM ChainKept == Spec => []ChainHolds
<1>1. IInv => ChainHolds
  BY DEF IInv
<1> QED
  BY <1>1, Always, PTL

(* A run never makes more model calls than its work reserved and its three *)
(* kinds of grant add (refresh_call_allowance, apply_grant, apply).        *)
THEOREM CallsGranted == Spec => []CallsWithinGrants
<1>1. IInv => CallsWithinGrants
  BY DEF IInv
<1> QED
  BY <1>1, Always, PTL

(* Once the result of a continuation is recorded its calls buy nothing     *)
(* more, whatever its grant and the run's file still say, unless a repair  *)
(* of it is authorized, and then until the repair's own result             *)
(* (record_outcome, method_continuation.apply, method_repair).             *)
THEOREM ContinuationOver == Spec => ContinuationEnds
<1>1. IInv /\ [Next]_vars
        => [Over /\ run'.calls > run.calls => run'.calls <= Ceiling + reserve.calls]_vars
  <2>1. SUFFICES ASSUME IInv, Next, Over, run'.calls > run.calls
                 PROVE  run'.calls <= Ceiling + reserve.calls
    OBVIOUS
  <2>2. Dispatch
    <3>1. run.calls \in Nat
      BY <2>1, Amounts DEF IInv
    <3>2. run'.calls = run.calls \/ Dispatch
      BY <2>1, RunStep DEF IInv
    <3> QED
      BY <2>1, <3>1, <3>2
  <2> QED
    BY <2>1, <2>2, Dispatched DEF IInv
<1> QED
  BY <1>1, Always, PTL DEF Spec, ContinuationEnds

-----------------------------------------------------------------------------
(* The refinement.  A continuation that was never given has no outcome to  *)
(* record and is not over; a repair is of one that is, and ends after it.  *)
Granted ==
  /\ extra.calls = 0 => /\ extra = NoExtra /\ closed = 0 /\ repair = NoRepair
                        /\ ~At("outcome")
  /\ repair # NoRepair => closed # 0
  /\ repaired => repair # NoRepair

LEMMA Outcomes ==
  ASSUME TypeOK, ProcOK, Next, proc'.pc = "outcome", extra = NoExtra => repair = NoRepair
  PROVE  extra # NoExtra \/ At("outcome")
<1> USE DEF ProcOK, Pass, Passing, At, Go, Idle
<1>1. CASE proc' = Idle
  BY <1>1
<1>2. CASE UNCHANGED proc
  BY <1>2
<1>3. CASE Begin \/ BeginAdvance
  BY <1>3 DEF Begin, BeginAdvance, Read
<1>4. CASE \E pc \in Passing : Go(pc) /\ proc \in Pass
  BY <1>4
<1>5. CASE Refresh
  <2>1. proc' \in Pass /\ proc'.pc \in {"method", "reserve"}
    BY <1>5 DEF Refresh
  <2> QED
    BY <2>1
<1>6. CASE Resume
  <2>1. proc' = Idle \/ proc'.pc \in {"act", "selected"}
    BY <1>6 DEF Resume
  <2> QED
    BY <2>1
<1>7. CASE Recorded(TRUE) \/ Recorded(FALSE) \/ PreflightFails
  <2>1. extra = NoExtra => proc' = Idle
    BY <1>7 DEF Recorded, PreflightFails
  <2> QED
    BY <2>1
<1>8. CASE Dispatch
  BY <1>8 DEF Dispatch
<1>9. CASE ReserveTool
  <2>1. PICK command \in Commands : proc' = [pc |-> "tool", command |-> command]
    BY <1>9 DEF ReserveTool
  <2> QED
    BY <2>1
<1>10. CASE StoreTurn
  BY <1>10 DEF StoreTurn
<1> QED
  BY <1>1, <1>2, <1>3, <1>4, <1>5, <1>6, <1>7, <1>8, <1>9, <1>10
     DEF Next, Project, Act, Outside, WriteContract, WriteRenewal,
         SuspendReserve, ApplyReserve, ReserveRaises, RecoverMethod, ResumeRaises,
         SettleInflight, Stop, Exhausted, Refuse,
         ToolFails, Observe, RecordOutcome, Crash, MethodStale, Readopt, ReviewArrives,
         IssueReserve, IssueExtra, AuthorizeRepair, ElsewhereRenews

LEMMA GrantedStep ==
  ASSUME TypeOK, ProcOK, Granted, Next
  PROVE  Granted'
<1>1. extra = NoExtra => closed = 0 /\ repair = NoRepair /\ ~At("outcome")
  <2>1. ASSUME extra = NoExtra
        PROVE  extra.calls = 0
    BY <2>1 DEF NoExtra
  <2> QED
    BY <2>1 DEF Granted
<1>2. extra'.calls = 0 => /\ extra' = NoExtra /\ closed' = 0 /\ repair' = NoRepair
                          /\ ~At("outcome")'
  <2>1. CASE IssueExtra
    <3>1. PICK calls \in Continuations :
            extra' = [calls |-> calls, before |-> run.calls, failure |-> run.feedback]
      BY <2>1 DEF IssueExtra
    <3>2. calls > 0
      BY <3>1, AllowanceAssumption
    <3> QED
      BY <3>1, <3>2
  <2>2. CASE UNCHANGED extra
    <3>1. ASSUME extra = NoExtra
          PROVE  closed' = 0 /\ repair' = NoRepair /\ ~At("outcome")'
      <4>1. ~RecordOutcome /\ ~AuthorizeRepair
        BY <1>1, <3>1 DEF RecordOutcome, AuthorizeRepair
      <4>2. closed' = closed /\ repair' = repair
        BY <4>1, Frame
      <4>3. ASSUME proc'.pc = "outcome"
            PROVE  FALSE
        BY <1>1, <3>1, <4>3, Outcomes
      <4> QED
        BY <1>1, <3>1, <4>2, <4>3 DEF At
    <3> QED
      BY <2>2, <3>1 DEF Granted
  <2> QED
    BY <2>1, <2>2, Frame
<1>3. (repair' # NoRepair => closed' # 0) /\ (repaired' => repair' # NoRepair)
  <2>1. CASE AuthorizeRepair
    <3>1. closed # 0 /\ UNCHANGED <<closed, repaired>> /\ repair = NoRepair
      BY <2>1 DEF AuthorizeRepair
    <3> QED
      BY <3>1 DEF Granted
  <2>2. CASE RecordOutcome
    <3>1. UNCHANGED repair
      BY <2>2 DEF RecordOutcome
    <3>2. repair # NoRepair => UNCHANGED closed
      BY <2>2 DEF RecordOutcome
    <3>3. repair = NoRepair => UNCHANGED repaired
      BY <2>2 DEF RecordOutcome
    <3> QED
      BY <3>1, <3>2, <3>3 DEF Granted
  <2>3. CASE UNCHANGED <<closed, repair, repaired>>
    BY <2>3 DEF Granted
  <2> QED
    BY <2>1, <2>2, <2>3, Frame
<1> QED
  BY <1>2, <1>3 DEF Granted

LEMMA AllowanceInit == Init => Allowance!Init
<1> SUFFICES ASSUME Init
             PROVE  Allowance!Init
  OBVIOUS
<1>1. run.calls = 0 /\ reserve.calls = 0 /\ extra.calls = 0 /\ Len(renewals) = 0
  BY DEF Init, NoReserve, NoExtra
<1>2. contract = Allowance!NoTerms /\ Stage = "open"
  BY DEF Init, Allowance!NoTerms, NoContract, Stage
<1> QED
  BY <1>1, <1>2 DEF Allowance!Init

(* What the abstract allowance counts, when neither a call nor a receipt   *)
(* is written.                                                             *)
LEMMA AllowanceStep ==
  ASSUME IInv, IInv', Granted, Next
  PROVE  [Allowance!Next]_(Allowance!vars)
<1> USE DEF IInv
<1> DEFINE book == <<contract, Len(renewals), reserve.calls, extra.calls, Stage>>
<1>1. CASE Dispatch
  <2>1. UNCHANGED book
    BY <1>1 DEF Dispatch, disk, Stage
  <2>2. run'.calls = run.calls + 1 /\ run.calls < Allowance!Given
    <3>1. /\ run'.calls = run.calls + 1
          /\ run'.calls <= Greatest(Ceiling + reserve.calls, ExtraLimit)
          /\ Over => run'.calls <= Ceiling + reserve.calls
      BY <1>1, Dispatched
    <3>2. /\ Ceiling \in Nat /\ reserve.calls \in Nat /\ extra.calls \in Nat
          /\ extra.before \in Nat /\ run.calls \in Nat
      BY Amounts, Few, Ceilings
    <3>3. Allowance!Given = Ceiling + reserve.calls + IF Over THEN 0 ELSE extra.calls
      BY DEF Allowance!Given, Allowance!Renewals, Ceiling, Stage, Over
    <3>4. extra.before <= Ceiling + reserve.calls
      BY DEF Limits
    <3> QED
      BY <3>1, <3>2, <3>3, <3>4 DEF Greatest, ExtraLimit
  <2>3. Allowance!Call
    BY <2>1, <2>2 DEF Allowance!Call
  <2> QED
    BY <2>3 DEF Allowance!Next
<1>2. CASE WriteContract
  <2>1. contract = NoContract /\ contract' \in [max : 1..2, per : 1..6]
    <3>1. contract' # NoContract /\ contract = NoContract
      BY <1>2, PolicyRange DEF WriteContract, ProcOK, Passing, Pass, At, NoContract, Renewable
    <3> QED
      BY <3>1 DEF TypeOK
  <2>2. Len(renewals) = 0
    BY <2>1, NoneUncontracted
  <2>3. UNCHANGED <<run, renewals, reserve, extra, Stage>>
    BY <1>2 DEF WriteContract, Stage
  <2>4. Allowance!Agree
    BY <2>1, <2>2, <2>3 DEF Allowance!Agree, Allowance!NoTerms, NoContract
  <2> QED
    BY <2>4 DEF Allowance!Next
<1>3. CASE WriteRenewal
  <2> DEFINE n == Len(renewals)
  <2>1. PICK key \in Evidence :
          renewals' = Append(renewals, [key |-> key, seen |-> evaluated, before |-> run.calls])
    BY <1>3 DEF WriteRenewal
  <2>2. /\ n \in Nat /\ Len(renewals') = n + 1
        /\ renewals'[n + 1].before = run.calls
    BY <2>1, Added DEF Receipts
  <2>3. UNCHANGED <<run, contract, reserve, extra, Stage>>
    BY <1>3 DEF WriteRenewal, Stage
  <2>4. n + 1 <= contract.max /\ run.calls >= BaseCalls + n * contract.per
    <3>1. n + 1 \in 1..Len(renewals')
      BY <2>2
    <3>2. /\ n + 1 <= contract'.max
          /\ renewals'[n + 1].before >= BaseCalls + ((n + 1) - 1) * contract'.per
      BY <3>1 DEF ChainHolds
    <3>3. (n + 1) - 1 = n
      BY <2>2
    <3> HIDE DEF n
    <3> QED
      BY <2>2, <2>3, <3>2, <3>3
  <2>5. n < contract.max
    BY <2>2, <2>4, Amounts
  <2>6. Allowance!Renew
    BY <2>2, <2>3, <2>4, <2>5 DEF Allowance!Renew, Allowance!Renewals
  <2> QED
    BY <2>6 DEF Allowance!Next
<1>4. CASE IssueReserve
  <2>1. PICK policy \in Policies : \E calls \in 1..Least(4, policy.recovery) :
          reserve' = [calls |-> calls, before |-> run.calls]
    BY <1>4 DEF IssueReserve
  <2>2. reserve'.calls \in 1..4
    BY <2>1, PolicyRange DEF Least
  <2>3. reserve.calls = 0 /\ UNCHANGED <<run, contract, renewals, extra, Stage>>
    BY <1>4 DEF IssueReserve, NoReserve, Stage
  <2>4. Allowance!Recover
    BY <2>2, <2>3 DEF Allowance!Recover
  <2> QED
    BY <2>4 DEF Allowance!Next
<1>5. CASE IssueExtra
  <2>1. extra'.calls \in 1..2
    BY <1>5, AllowanceAssumption DEF IssueExtra
  <2>2. extra.calls = 0 /\ UNCHANGED <<run, contract, renewals, reserve, Stage>>
    BY <1>5 DEF IssueExtra, NoExtra, Stage
  <2>3. Stage = "open"
    BY <2>2 DEF Granted, Stage
  <2>4. Allowance!Continue
    BY <2>1, <2>2, <2>3 DEF Allowance!Continue
  <2> QED
    BY <2>4 DEF Allowance!Next
<1>6. CASE RecordOutcome \/ AuthorizeRepair
  <2>1. UNCHANGED <<run, contract, renewals, reserve, extra>>
    BY <1>6 DEF RecordOutcome, AuthorizeRepair
  <2>2. \/ Stage' = Stage
        \/ Stage = "open" /\ Stage' = "over"
        \/ Stage = "reopened" /\ Stage' = "spent"
        \/ Stage = "over" /\ Stage' = "reopened"
    <3>1. CASE RecordOutcome /\ repair = NoRepair
      <4>1. UNCHANGED <<repair, repaired>> /\ (closed # 0 => closed' = closed)
        BY <3>1 DEF RecordOutcome
      <4> QED
        BY <3>1, <4>1 DEF Stage
    <3>2. CASE RecordOutcome /\ repair # NoRepair
      <4>1. UNCHANGED <<repair, closed>> /\ (repaired => repaired')
        BY <3>2 DEF RecordOutcome
      <4> QED
        BY <3>2, <4>1 DEF Stage, Granted, TypeOK
    <3>3. CASE AuthorizeRepair
      <4>1. closed # 0 /\ UNCHANGED <<closed, repaired>> /\ repair = NoRepair
        BY <3>3 DEF AuthorizeRepair
      <4>2. ~repaired
        BY <4>1 DEF Granted
      <4> QED
        BY <4>1, <4>2 DEF Stage
    <3> QED
      BY <1>6, <3>1, <3>2, <3>3
  <2>3. extra.calls # 0
    BY <1>6 DEF RecordOutcome, AuthorizeRepair, Granted
  <2> QED
    BY <2>1, <2>2, <2>3
       DEF Allowance!Next, Allowance!End, Allowance!Repair, Allowance!vars
<1>7. CASE /\ ~Dispatch /\ ~WriteContract /\ ~WriteRenewal /\ ~IssueReserve /\ ~IssueExtra
           /\ ~RecordOutcome /\ ~AuthorizeRepair
  <2>1. run'.calls = run.calls
    BY <1>7, RunStep
  <2>2. UNCHANGED book
    BY <1>7, Frame DEF Stage
  <2> QED
    BY <2>1, <2>2 DEF Allowance!vars
<1> QED
  BY <1>1, <1>2, <1>3, <1>4, <1>5, <1>6, <1>7

(* Receipts, limits and passes, cut off anywhere, give a run what the      *)
(* abstract allowance gives and nothing else (refresh_call_allowance,      *)
(* apply_grant, apply, _advance_theory).                                   *)
THEOREM AllowanceKept == Spec => AllowanceSpec
<1>1. Init => Granted
  <2>1. Init => /\ extra = NoExtra /\ closed = 0 /\ proc = Idle
                /\ repair = NoRepair /\ repaired = FALSE
    BY DEF Init
  <2>2. proc = Idle => ~At("outcome")
    BY DEF Idle, At
  <2> QED
    BY <2>1, <2>2 DEF Granted
<1>2. IInv /\ Granted /\ [Next]_vars => Granted'
  <2>1. CASE UNCHANGED vars
    BY <2>1 DEF vars, Granted, At
  <2> QED
    BY <2>1, GrantedStep DEF IInv
<1>3. IInv /\ IInv' /\ Granted /\ [Next]_vars => [Allowance!Next]_(Allowance!vars)
  <2>1. CASE UNCHANGED vars
    BY <2>1 DEF vars, Allowance!vars, Stage
  <2> QED
    BY <2>1, AllowanceStep
<1> QED
  BY <1>1, <1>2, <1>3, Always, AllowanceInit, PTL DEF Spec, AllowanceSpec, Allowance!Spec
=============================================================================
