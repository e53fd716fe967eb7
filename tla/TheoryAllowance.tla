-------------------------- MODULE TheoryAllowance --------------------------
(***************************************************************************)
(* The model calls of one theory run (theory_runtime._advance_theory).     *)
(* The run's work reserves BaseCalls.  Three grants may add to them, each  *)
(* with an immutable receipt of its own: a renewal earned by evidence      *)
(* (theory_allowance), a reserve for a repaired provider                   *)
(* (provider_recovery) and a continuation with an adopted method           *)
(* (method_continuation), whose unused calls a repair may set free once    *)
(* more (method_repair).  Every pass of a tick projects the receipts anew  *)
(* on the run's file, one after another, and each projection may stop the  *)
(* run or set it going.  The policy, the controls and the program that     *)
(* runs change at any time: what a reading of them finds is any of their   *)
(* values.  The worker may die between any two writes.                     *)
(***************************************************************************)
EXTENDS Naturals, Sequences, FiniteSets

CONSTANTS
  BaseCalls,      \* work.limits.model_calls
  MaxEvaluations, \* work.limits.evaluations
  Policies,       \* what research_policy.json may say
  Reviews,        \* independent reviews of this run's records
  Continuations,  \* bound: calls of a continuation, within 1..2
  Elsewhere,      \* bound: renewals of another run on the same snapshot
  MaxCrashes      \* bound: crashes in one behaviour

ASSUME AllowanceAssumption ==
  /\ BaseCalls \in Nat \ {0} /\ MaxEvaluations \in Nat /\ MaxCrashes \in Nat
  /\ Continuations \subseteq 1..2
  /\ Policies \subseteq [renewals : 0..2, per : 1..6, recovery : 0..4]

VARIABLES
  adopted,    \* the review the continuation's method is adopted by
  arrived,    \* reviews published
  run,        \* runs/<id>.json: the state file of the run
  evaluated,  \* turns of the run: its evaluations, 1..evaluated ...
  covered,    \* ... and whether it read enough of its sources
  contract,   \* call_allowances/<id>.json
  renewals,   \* call_renewals/*.json of the run, by their index ...
  elsewhere,  \* ... and those of other runs of the snapshot
  reserve,    \* research_recovery/grants/<id>.json
  extra,      \* continuation_grants: the run's continuation ...
  closed,     \* ... and the calls made when its result was recorded (0: not yet)
  repair,     \* repair_authorizations: of the continuation, once closed ...
  repaired,   \* ... and whether the repair's result is recorded
  proc,       \* the worker
  crashes

disk == <<evaluated, covered, contract, renewals, elsewhere, reserve, extra,
          closed, repair, repaired>>
outside == <<adopted, arrived>>
vars == <<adopted, arrived, run, evaluated, covered,
          contract, renewals, elsewhere, reserve, extra, closed, repair, repaired,
          proc, crashes>>

-----------------------------------------------------------------------------
Waiting == {"waiting_for_changed_input", "waiting_for_capability"}
NoContract == [max |-> 0, per |-> 0]
NoReserve == [calls |-> 0, before |-> 0]
NoExtra == [calls |-> 0, before |-> 0, failure |-> ""]
NoRepair == [before |-> 0, review |-> "none"]
Idle == [pc |-> "idle"]
At(pc) == proc.pc = pc
Go(pc) == proc' = [proc EXCEPT !.pc = pc]
Least(m, n) == IF m <= n THEN m ELSE n
Greatest(m, n) == IF m <= n THEN n ELSE m

(* call_allowance, absent until it is first projected: the limit in effect,*)
(* the limits it was before a reserve and before a continuation (0: absent)*)
NoAllowance ==
  [limit |-> 0, scientific |-> 0, before |-> 0, completing |-> FALSE,
   controls |-> FALSE, active |-> 0]
Limit(s) == IF s.allow.limit = 0 THEN BaseCalls ELSE s.allow.limit

(* The work left besides calls: tools, evaluations and compute seconds.    *)
Left == <<"none", "low", "ample">>
Lower(r) == {Left[i] : i \in {j \in 1..3 : \E k \in j..3 : Left[k] = r}}

Grants == renewals \o elsewhere
Ceiling == BaseCalls + Len(renewals) * contract.per

Init ==
  /\ adopted = "first"
  /\ arrived = {}
  /\ run = [state |-> "ready", calls |-> 0, left |-> "ample", inflight |-> "none",
            evaluations |-> 0, feedback |-> "", failed |-> FALSE,
            suspended |-> FALSE, allow |-> NoAllowance, recovered |-> FALSE,
            continued |-> FALSE, mended |-> FALSE, unsent |-> FALSE,
            method |-> FALSE, woken |-> {}]
  /\ evaluated = 0
  /\ covered = FALSE
  /\ contract = NoContract
  /\ renewals = <<>>
  /\ elsewhere = <<>>
  /\ reserve = NoReserve
  /\ extra = NoExtra
  /\ closed = 0
  /\ repair = NoRepair
  /\ repaired = FALSE
  /\ proc = Idle
  /\ crashes = 0

-----------------------------------------------------------------------------
(* One pass of the projections: by theory_work_state when the tick gathers *)
(* its candidates, and again when it advances the run.                     *)

Read(pass, policy) ==
  \E controls \in BOOLEAN :
    proc' = [pc |-> "refresh", pass |-> pass, policy |-> policy,
             ready |-> run.state = "ready",
             controls |-> policy.renewals > 0 /\ controls]

Begin ==
  /\ At("idle")
  /\ \E policy \in Policies : Read("look", policy)
  /\ UNCHANGED <<outside, run, disk, crashes>>

BeginAdvance ==
  /\ At("selected")
  /\ Read("advance", proc.policy)
  /\ UNCHANGED <<outside, run, disk, crashes>>

(* refresh_call_allowance                                                  *)
Configured == BaseCalls + proc.policy.renewals * proc.policy.per
Effective == Least(Ceiling, Configured)

RenewableFeedback == {"", "exhausted", "reused", "cached"}

(* Mutant: the calls of a renewal are those of the policy of the day.      *)
RenewableAtAnyRate ==
  /\ proc.policy.renewals > 0
  /\ run.calls >= Effective
  /\ proc.controls
  /\ run.inflight = "none" /\ run.state # "waiting_for_capability"
  /\ run.left = "ample" /\ run.evaluations < MaxEvaluations
  /\ Len(Grants) < Least(proc.policy.renewals,
                           IF contract = NoContract THEN 2 ELSE contract.max)
  /\ run.feedback \in RenewableFeedback

Renewable ==
  /\ proc.policy.renewals > 0
  /\ run.calls >= Effective
  /\ proc.controls
  /\ run.inflight = "none" /\ run.state # "waiting_for_capability"
  /\ run.left = "ample" /\ run.evaluations < MaxEvaluations
  /\ Len(Grants) < Least(proc.policy.renewals,
                           IF contract = NoContract THEN 2 ELSE contract.max)
  /\ run.feedback \in RenewableFeedback
  /\ contract # NoContract => proc.policy.per >= contract.per

(* A completed evaluation that no grant saw, or else, once, the sources.   *)
Sources == 0
Fresh == {i \in 1..evaluated : \A g \in 1..Len(Grants) : Grants[g].seen < i}

(* Mutant: the reading of the sources is not remembered as spent.          *)
EvidenceAgain ==
  IF Fresh # {} THEN Fresh ELSE IF covered /\ renewals = <<>> THEN {Sources} ELSE {}

Evidence ==
  IF Fresh # {} THEN Fresh
  ELSE IF covered /\ renewals = <<>> /\ \A g \in 1..Len(Grants) : Grants[g].key # Sources
         THEN {Sources} ELSE {}

WriteContract ==
  /\ At("refresh")
  /\ Renewable /\ Evidence # {} /\ contract = NoContract
  /\ contract' = [max |-> proc.policy.renewals, per |-> proc.policy.per]
  /\ UNCHANGED <<outside, run, evaluated, covered, renewals, elsewhere, reserve,
                 extra, closed, repair, repaired, proc, crashes>>

WriteRenewal ==
  /\ At("refresh")
  /\ Renewable /\ contract # NoContract
  /\ \E key \in Evidence :
       renewals' = Append(renewals, [key |-> key, seen |-> evaluated,
                                     before |-> run.calls])
  /\ Go("renewed")
  /\ UNCHANGED <<outside, run, evaluated, covered, contract, elsewhere, reserve,
                 extra, closed, repair, repaired, crashes>>

(* "An immutable grant survives a crash between receipt creation and state *)
(* update."                                                                *)
PendingActivation ==
  /\ renewals # <<>>
  /\ run.allow.active # Len(renewals)
  /\ run.calls = renewals[Len(renewals)].before
  /\ run.inflight = "none" /\ proc.controls
  /\ Effective > run.calls

Projected(limit, activated, awakened) ==
  LET resumed == [run EXCEPT
        !.state = IF activated \/ awakened THEN "ready" ELSE @,
        !.suspended = @ /\ ~awakened,
        !.feedback = IF activated THEN "note" ELSE @]
      completing == renewals # <<>> /\ run.calls >= BaseCalls
      settled == run.inflight = "none"
      suspends == completing /\ settled /\ resumed.state = "ready"
                    /\ (~proc.controls \/ (limit <= run.calls /\ run.calls < Ceiling))
      stops == settled /\ \/ completing /\ ~proc.controls
                          \/ run.calls >= limit
                               /\ resumed.state # "waiting_for_capability"
  IN [resumed EXCEPT
        !.state = IF stops THEN "waiting_for_changed_input" ELSE @,
        !.suspended = @ \/ suspends,
        !.allow = IF proc.policy.renewals = 0 /\ contract = NoContract THEN @
                  ELSE [limit |-> limit, scientific |-> 0, before |-> 0,
                        completing |-> completing, controls |-> proc.controls,
                        active |-> Len(renewals)]]

SuspensionEnds ==
  run.suspended /\ proc.controls /\ Effective > run.calls /\ run.inflight = "none"

Refresh ==
  /\ \/ At("renewed") /\ run' = Projected(Ceiling, TRUE, FALSE)
     \/ At("refresh") /\ ~(Renewable /\ Evidence # {})
          /\ run' = Projected(Effective, PendingActivation, SuspensionEnds)
  /\ proc' = [proc EXCEPT !.controls = FALSE,
                !.pc = IF reserve = NoReserve \/ run.inflight # "none"
                         THEN "method" ELSE "reserve"]
  /\ UNCHANGED <<outside, disk, crashes>>

(* provider_recovery.apply_grant                                           *)
Scientific == IF run.allow.scientific # 0 THEN run.allow.scientific ELSE Limit(run)

OthersLeft == run.left # "none" /\ run.evaluations < MaxEvaluations

ReserveSuspended ==
  \/ proc.policy.recovery < reserve.calls
  \/ run.allow.completing /\ ~run.allow.controls

(* Always possible: the reading of the emergency stop may find it on.      *)
SuspendReserve ==
  /\ At("reserve")
  /\ run' = [run EXCEPT !.state = "waiting_for_changed_input",
                        !.allow.limit = Scientific]
  /\ Go("method")
  /\ UNCHANGED <<outside, disk, crashes>>

(* Mutant: the reserve is added to the limit in effect.                    *)
ReserveAgain ==
  /\ At("reserve")
  /\ ~ReserveSuspended
  /\ run' = [run EXCEPT !.state = "ready", !.recovered = TRUE,
               !.allow.limit = Limit(run) + reserve.calls]
  /\ Go("method")
  /\ UNCHANGED <<outside, disk, crashes>>

ApplyReserve ==
  LET limit == Scientific + reserve.calls
      applied == [run EXCEPT !.allow.scientific = Scientific, !.allow.limit = limit]
  IN /\ At("reserve")
     /\ ~ReserveSuspended
     /\ \/ /\ ~run.recovered
           /\ run.calls = reserve.before /\ run.feedback = "provider" /\ OthersLeft
           /\ run' = [applied EXCEPT !.state = "ready", !.feedback = "",
                                     !.recovered = TRUE]
        \/ /\ run.recovered
           /\ run' = IF /\ run.state = "waiting_for_changed_input"
                        /\ proc.ready \/ run.feedback \in {"", "exhausted"}
                        /\ run.calls < limit /\ OthersLeft
                       THEN [applied EXCEPT !.state = "ready"] ELSE applied
     /\ Go("method")
     /\ UNCHANGED <<outside, disk, crashes>>

(* The failure the reserve was given for has changed, or the provider is   *)
(* not the repaired one.                                                   *)
ReserveRaises ==
  /\ At("reserve")
  /\ ~ReserveSuspended
  /\ ~run.recovered
  /\ proc' = Idle
  /\ UNCHANGED <<outside, run, disk, crashes>>

(* theory_methods.recover_methods: once, for a run that repeated a command *)
(* and has evidence in memory.                                             *)
RecoverMethod ==
  /\ At("method")
  /\ run.state = "waiting_for_changed_input" /\ run.inflight = "none"
  /\ run.feedback \in {"reused", "repairable"} /\ ~run.method
  /\ run.calls < Limit(run) /\ run.left # "none"
  /\ run' = [run EXCEPT !.state = "ready", !.method = TRUE, !.feedback = "note"]
  /\ UNCHANGED <<outside, disk, proc, crashes>>

(* research_feedback.resume_reviewed_work, then method_continuation.apply  *)
Woken(controls) ==
  IF /\ controls /\ run.inflight = "none" /\ run.state \in Waiting
     /\ run.calls < Limit(run) /\ run.left # "none" /\ run.feedback # "interrupted"
     /\ ~(arrived \subseteq run.woken)
    THEN [run EXCEPT !.state = "ready", !.woken = arrived, !.feedback = "note"]
    ELSE run

ExtraLimit == extra.before + extra.calls

(* A repair that is authorized and has no result yet stands in for the     *)
(* continuation's own result, as long as the program it was authorized     *)
(* for is the one that runs.                                               *)
RepairOpen(current) == repair # NoRepair /\ ~repaired /\ current
RequiredReview(current) == IF RepairOpen(current) THEN repair.review ELSE "first"

(* Mutant: the recorded result of the continuation is not looked up.       *)
ExtraUnclosed(controls, current) ==
  /\ run.calls < ExtraLimit
  /\ adopted = RequiredReview(current) /\ run.left # "none" /\ controls

ExtraActive(controls, current) ==
  /\ run.calls < ExtraLimit
  /\ closed = 0 \/ RepairOpen(current)
  /\ adopted = RequiredReview(current) /\ run.left # "none" /\ controls

(* The pass that first finds the repair, and else the one that first finds *)
(* the grant, sets the run going; neither does if the run moved on since.  *)
Mends(s, current) == RepairOpen(current) /\ ~s.mended

ExtraChanged(s, controls, current) ==
  /\ extra # NoExtra /\ ExtraActive(controls, current) /\ s.inflight = "none"
  /\ \/ Mends(s, current) /\ (s.calls # repair.before \/ ~s.unsent)
     \/ /\ ~Mends(s, current) /\ ~s.continued
        /\ s.calls # extra.before \/ s.feedback # extra.failure

Continued(s, controls, current) ==
  LET before == IF s.allow.before # 0 THEN s.allow.before ELSE Limit(s)
      active == ExtraActive(controls, current)
      acts == active /\ s.inflight = "none"
      mends == acts /\ Mends(s, current)
      first == acts /\ ~Mends(s, current) /\ ~s.continued
      goes == acts /\ (mends \/ first \/ proc.ready \/ s.feedback = "")
      stops == ~active /\ s.inflight = "none" /\ s.calls >= before
  IN IF extra = NoExtra THEN s
     ELSE [s EXCEPT
             !.state = IF goes THEN "ready"
                       ELSE IF stops THEN "waiting_for_changed_input" ELSE @,
             !.feedback = IF mends \/ first THEN "" ELSE @,
             !.mended = @ \/ mends,
             !.continued = @ \/ first,
             !.allow.before = before,
             !.allow.limit = IF active THEN Greatest(before, ExtraLimit) ELSE before]

Resume ==
  /\ At("method")
  /\ \E active, controls, current \in BOOLEAN :
       /\ ~ExtraChanged(Woken(active), controls, current)
       /\ run' = Continued(Woken(active), controls, current)
  /\ proc' \in IF proc.pass = "advance" THEN {[proc EXCEPT !.pc = "act"]}
               ELSE IF run'.state \in Waiting THEN {Idle}
               ELSE {Idle, [proc EXCEPT !.pc = "selected"]}
  /\ UNCHANGED <<outside, disk, crashes>>

ResumeRaises ==
  /\ At("method")
  /\ \E active, controls, current \in BOOLEAN :
       ExtraChanged(Woken(active), controls, current)
  /\ proc' = Idle
  /\ UNCHANGED <<outside, run, disk, crashes>>

-----------------------------------------------------------------------------
(* The rest of _advance_theory: one call, and the command it asks for.     *)

SettleInflight ==
  /\ At("act") /\ run.inflight # "none"
  /\ \E left \in Lower(run.left) :
       run' = [run EXCEPT !.state = "waiting_for_changed_input", !.left = left,
                          !.feedback = "interrupted", !.inflight = "none"]
  /\ proc' = Idle
  /\ UNCHANGED <<outside, disk, crashes>>

Stop ==
  /\ At("act") /\ run.inflight = "none" /\ run.state \in Waiting
  /\ proc' = Idle
  /\ UNCHANGED <<outside, run, disk, crashes>>

MayAct == At("act") /\ run.inflight = "none" /\ run.state = "ready"
Spent == run.calls >= Limit(run) \/ run.left = "none"

Exhausted ==
  /\ MayAct /\ Spent
  /\ run' = [run EXCEPT !.state = "waiting_for_changed_input", !.feedback = "exhausted"]
  /\ proc' = Idle
  /\ UNCHANGED <<outside, disk, crashes>>

GoOutcome(verified, sent) ==
  proc' = [pc |-> "outcome", verified |-> verified, sent |-> sent]

(* No call is made or charged, but its preparation is; a repair ends by it.*)
PreflightFails ==
  /\ MayAct /\ ~Spent
  /\ \E left \in Lower(run.left) :
       run' = [run EXCEPT !.state = "waiting_for_changed_input", !.left = left,
                          !.feedback = "failed", !.unsent = FALSE, !.woken = arrived]
  /\ IF repair = NoRepair THEN proc' = Idle ELSE GoOutcome(FALSE, FALSE)
  /\ UNCHANGED <<outside, disk, crashes>>

Dispatch ==
  /\ MayAct /\ ~Spent
  /\ run' = [run EXCEPT !.calls = @ + 1, !.inflight = "model", !.unsent = FALSE,
                      !.woken = arrived]
  /\ proc' = [pc |-> "call"]
  /\ UNCHANGED <<outside, disk, crashes>>

(* A failure leaves the run as it is, until the same failure returns.      *)
Fails(s, feedback) ==
  \E left \in Lower(s.left),
     state \in {s.state} \cup IF s.failed THEN {"waiting_for_changed_input"} ELSE {} :
    run' = [s EXCEPT !.state = state, !.left = left, !.inflight = "none",
                     !.feedback = feedback, !.failed = TRUE]

Recorded(verified) ==
  IF extra = NoExtra THEN proc' = Idle ELSE GoOutcome(verified, TRUE)

(* The provider fails, or the command is refused before it is run.  unsent *)
(* is the failure a repair may be for: the context was found too large     *)
(* before the request was made, though the call is charged.                *)
Refuse ==
  /\ At("call")
  /\ \/ \E feedback \in {"provider", "cached", "reused", "repairable", "failed"} :
          Fails(run, feedback)
     \/ Fails([run EXCEPT !.unsent = TRUE], "failed")
  /\ Recorded(FALSE)
  /\ UNCHANGED <<outside, disk, crashes>>

Commands == {"evaluate", "read", "cached", "capability", "measure"}

(* Mutant: an evaluation is charged when it is observed, not before.       *)
ReserveToolUncharged ==
  /\ At("call") /\ run.left # "none"
  /\ \E command \in Commands :
       /\ command = "evaluate" => run.evaluations < MaxEvaluations
       /\ run' = [run EXCEPT !.inflight = "tool"]
       /\ proc' = [pc |-> "tool", command |-> command]
  /\ UNCHANGED <<outside, disk, crashes>>

ReserveTool ==
  /\ At("call") /\ run.left # "none"
  /\ \E command \in Commands :
       /\ command = "evaluate" => run.evaluations < MaxEvaluations
       /\ command = "read" => ~run.allow.completing
       /\ run' = [run EXCEPT !.inflight = "tool",
                    !.evaluations = IF command = "evaluate" THEN @ + 1 ELSE @]
       /\ proc' = [pc |-> "tool", command |-> command]
  /\ UNCHANGED <<outside, disk, crashes>>

ToolFails ==
  /\ At("tool")
  /\ Fails(run, "failed")
  /\ Recorded(FALSE)
  /\ UNCHANGED <<outside, disk, crashes>>

(* The turn is stored before the run: an evaluation it repeats, or one of  *)
(* an instrument that was not valid, is no evidence.                       *)
StoreTurn ==
  /\ At("tool")
  /\ evaluated' \in {evaluated, IF proc.command = "evaluate" THEN evaluated + 1
                                ELSE evaluated}
  /\ covered' \in {covered, covered \/ proc.command = "read"}
  /\ Go("stored")
  /\ UNCHANGED <<outside, run, contract, renewals, elsewhere, reserve, extra,
                 closed, repair, repaired, crashes>>

Observed(left) ==
  [run EXCEPT !.inflight = "none", !.left = left,
              !.state = IF proc.command = "capability" THEN "waiting_for_capability"
                        ELSE "ready",
              !.feedback = IF proc.command = "cached" THEN "cached" ELSE ""]

Observe ==
  /\ At("stored")
  /\ \E left \in Lower(run.left) :
       \/ run' = Observed(left)
       \/ Fails(Observed(left), "failed")
       \/ /\ proc.command = "measure"
          /\ run' = [Observed(left) EXCEPT !.state = "waiting_for_changed_input",
                                           !.feedback = "failed"]
  /\ Recorded(TRUE)
  /\ UNCHANGED <<outside, disk, crashes>>

(* method_continuation.record_outcome: the outcome is the repair's, once   *)
(* there is one.                                                           *)
RecordOutcome ==
  /\ At("outcome")
  /\ \/ /\ repair # NoRepair
        /\ repaired' = \/ repaired
                        \/ run.calls > repair.before \/ ~proc.sent
        /\ UNCHANGED closed
     \/ /\ repair = NoRepair
        /\ closed' = IF /\ closed = 0 /\ run.calls > extra.before
                        /\ \/ ~proc.verified \/ run.state \in Waiting
                           \/ run.calls >= ExtraLimit
                       THEN run.calls ELSE closed
        /\ UNCHANGED repaired
  /\ proc' = Idle
  /\ UNCHANGED <<outside, run, evaluated, covered, contract, renewals, elsewhere,
                 reserve, extra, repair, crashes>>

Crash ==
  /\ ~At("idle") /\ crashes < MaxCrashes
  /\ crashes' = crashes + 1
  /\ proc' = Idle
  /\ UNCHANGED <<outside, run, disk>>

-----------------------------------------------------------------------------
(* The operator and the rest of the system.  The grants and the repair the *)
(* operator issues are written under the lease.                            *)

MethodStale ==
  /\ extra # NoExtra
  /\ adopted' = "none"
  /\ UNCHANGED <<arrived, run, disk, proc, crashes>>

(* The method is adopted again, by another review than the grant names.    *)
Readopt ==
  /\ adopted = "none" /\ repair = NoRepair
  /\ adopted' = "second"
  /\ UNCHANGED <<arrived, run, disk, proc, crashes>>

ReviewArrives ==
  /\ \E r \in Reviews \ arrived : arrived' = arrived \cup {r}
  /\ UNCHANGED <<adopted, run, disk, proc, crashes>>

(* provider_recovery.issue_grant                                           *)
IssueReserve ==
  /\ At("idle")
  /\ reserve = NoReserve
  /\ run.inflight = "none" /\ run.state = "waiting_for_changed_input"
  /\ run.feedback = "provider"
  /\ \E policy \in Policies : \E calls \in 1..Least(4, policy.recovery) :
       reserve' = [calls |-> calls, before |-> run.calls]
  /\ UNCHANGED <<outside, run, evaluated, covered, contract, renewals, elsewhere,
                 extra, closed, repair, repaired, proc, crashes>>

(* method_continuation.issue                                               *)
IssueExtra ==
  /\ At("idle")
  /\ extra = NoExtra
  /\ adopted = "first" /\ run.inflight = "none" /\ run.state \in Waiting
  /\ run.left = "ample" /\ run.calls >= Limit(run)
  /\ \E calls \in Continuations :
       extra' = [calls |-> calls, before |-> run.calls, failure |-> run.feedback]
  /\ UNCHANGED <<outside, run, evaluated, covered, contract, renewals, elsewhere,
                 reserve, closed, repair, repaired, proc, crashes>>

(* method_repair.reauthorize, whose proposal and review found the same: no *)
(* call is added, and what the failed call left is as it was.              *)
AuthorizeRepair ==
  /\ At("idle")
  /\ extra # NoExtra /\ repair = NoRepair
  /\ adopted # "none" /\ run.inflight = "none" /\ run.state \in Waiting
  /\ run.left = "ample" /\ run.calls < ExtraLimit
  /\ closed # 0 /\ closed = run.calls /\ run.unsent
  /\ repair' = [before |-> run.calls, review |-> adopted]
  /\ UNCHANGED <<outside, run, evaluated, covered, contract, renewals, elsewhere,
                 reserve, extra, closed, repaired, proc, crashes>>

(* A run of the same snapshot under another policy has a renewal, by its   *)
(* own evaluation or by the sources.                                       *)
ElsewhereRenews ==
  /\ At("idle")
  /\ Len(elsewhere) < Elsewhere /\ Len(Grants) < 2
  /\ \E key \in {MaxEvaluations + 1 + Len(elsewhere), Sources} :
       /\ \A g \in 1..Len(Grants) : Grants[g].key # key
       /\ elsewhere' = Append(elsewhere, [key |-> key, seen |-> evaluated])
  /\ UNCHANGED <<outside, run, evaluated, covered, contract, renewals, reserve,
                 extra, closed, repair, repaired, proc, crashes>>

Project ==
  \/ Begin \/ BeginAdvance \/ WriteContract \/ WriteRenewal \/ Refresh
  \/ SuspendReserve \/ ApplyReserve \/ ReserveRaises
  \/ RecoverMethod \/ Resume \/ ResumeRaises

Act ==
  \/ SettleInflight \/ Stop \/ Exhausted \/ PreflightFails \/ Dispatch \/ Refuse
  \/ ReserveTool \/ ToolFails \/ StoreTurn \/ Observe \/ RecordOutcome

Outside ==
  \/ MethodStale \/ Readopt \/ ReviewArrives
  \/ IssueReserve \/ IssueExtra \/ AuthorizeRepair \/ ElsewhereRenews

Next == Project \/ Act \/ Crash \/ Outside
Spec == Init /\ [][Next]_vars

-----------------------------------------------------------------------------
Feedbacks == {"", "exhausted", "reused", "repairable", "cached", "note",
              "interrupted", "provider", "failed"}

Allowances ==
  [limit : Nat, scientific : Nat, before : Nat, active : 0..2,
   completing : BOOLEAN, controls : BOOLEAN]
Adoptions == {"first", "second", "none"}
Runs ==
  [state : Waiting \cup {"ready"}, calls : Nat, evaluations : 0..MaxEvaluations,
   left : Lower("ample"), inflight : {"none", "model", "tool"},
   feedback : Feedbacks, failed : BOOLEAN, suspended : BOOLEAN,
   recovered : BOOLEAN, continued : BOOLEAN, mended : BOOLEAN,
   unsent : BOOLEAN, method : BOOLEAN,
   woken : SUBSET Reviews, allow : Allowances]

(* Every field the worker writes stays in its range: the state is one of   *)
(* the three the tick knows, the limits are numbers of calls, and an       *)
(* evaluation is charged before it is evidence.                            *)
TypeOK ==
  /\ adopted \in Adoptions /\ arrived \subseteq Reviews /\ crashes \in 0..MaxCrashes
  /\ run \in Runs /\ run.woken \subseteq arrived
  /\ evaluated \in 0..run.evaluations /\ covered \in BOOLEAN /\ closed \in Nat
  /\ contract \in {NoContract} \cup [max : 1..2, per : 1..6]
  /\ reserve \in [calls : 0..4, before : Nat]
  /\ extra \in [calls : 0..2, before : Nat, failure : Feedbacks]
  /\ repair \in [before : Nat, review : Adoptions] /\ repaired \in BOOLEAN

(* "Usage never resets": a run never makes more model calls than its work  *)
(* reserved and the three kinds of grant add, however often the receipts   *)
(* are projected again (refresh_call_allowance, apply_grant, apply).       *)
CallsWithinGrants == run.calls <= Ceiling + reserve.calls + extra.calls

(* "A source snapshot gets at most two grants", each for evidence that no  *)
(* other grant of the snapshot was given for, over policy changes, other   *)
(* runs of the snapshot and crashes between a receipt and the run's file.  *)
SnapshotRenewals ==
  /\ Len(Grants) <= 2
  /\ \A i, j \in 1..Len(Grants) : Grants[i].key = Grants[j].key => i = j

(* The receipts a run writes are the chain that every later pass checks:   *)
(* call_allowance_grant_chain_integrity_failure, which would end the run   *)
(* for good, is never raised, whatever the policy was when each was given. *)
ChainHolds ==
  \A i \in 1..Len(renewals) :
    /\ i <= contract.max
    /\ renewals[i].before >= BaseCalls + (i - 1) * contract.per

(* A continuation is over with its recorded result, but for a repair that  *)
(* was authorized and has no result yet.  While it is over it buys no call,*)
(* though its calls are not used up and every later pass finds its grant   *)
(* again, its limit still in the run's file (record_outcome, apply).       *)
Over == closed # 0 /\ (repair = NoRepair \/ repaired)
ContinuationEnds ==
  [][Over /\ run'.calls > run.calls => run'.calls <= Ceiling + reserve.calls]_vars

-----------------------------------------------------------------------------
(* Refinement: a grant is given when its receipt is written, whatever      *)
(* limit the run's file holds until a pass projects it.                    *)
Stage ==
  IF closed = 0 THEN "open" ELSE IF repair = NoRepair THEN "over"
  ELSE IF repaired THEN "spent" ELSE "reopened"

Allowance == INSTANCE CallAllowance WITH
  calls <- run.calls, terms <- contract, renewed <- Len(renewals),
  reserve <- reserve.calls, continuation <- extra.calls, stage <- Stage

(* The files and the passes together give what the abstract allowance      *)
(* does: each kind of grant as often as it may be, a renewal only when the *)
(* calls before it are used up, a continuation whose unused calls a repair *)
(* sets free once at most, and no call that nothing pays for               *)
(* (refresh_call_allowance, apply_grant, apply, record_outcome,            *)
(* _advance_theory).                                                       *)
AllowanceSpec == Allowance!Spec
=============================================================================
