--------------------------- MODULE CallAllowance ---------------------------
(***************************************************************************)
(* What the grants of a theory run promise, told without receipts,         *)
(* projections and crashes: a run makes one call after the other within    *)
(* what it was given.  It may be given renewals, each only when the calls  *)
(* of its work and of those before it are used up and all at the terms of  *)
(* the first; a reserve, once; and a continuation, once, whose calls count *)
(* until it is over, and once more while a repair of it is open.           *)
(*                                                                         *)
(* TheoryAllowance implements this specification: every pass computes the  *)
(* limit anew from files that are written one at a time.                   *)
(***************************************************************************)
EXTENDS Naturals

CONSTANT BaseCalls  \* the calls the run's work reserves

VARIABLES calls, terms, renewed, reserve, continuation,
          stage  \* of the continuation: open, over, reopened, spent

vars == <<calls, terms, renewed, reserve, continuation, stage>>

NoTerms == [max |-> 0, per |-> 0]

Init ==
  /\ calls = 0
  /\ terms = NoTerms
  /\ renewed = 0
  /\ reserve = 0
  /\ continuation = 0
  /\ stage = "open"

Renewals == BaseCalls + renewed * terms.per

(* A continuation that is over pays for nothing, used up or not.           *)
Given ==
  Renewals + reserve + IF stage \in {"open", "reopened"} THEN continuation ELSE 0

Call ==
  /\ calls < Given
  /\ calls' = calls + 1
  /\ UNCHANGED <<terms, renewed, reserve, continuation, stage>>

(* The terms are set for good before the first renewal.                    *)
Agree ==
  /\ terms = NoTerms /\ renewed = 0
  /\ terms' \in [max : 1..2, per : 1..6]
  /\ UNCHANGED <<calls, renewed, reserve, continuation, stage>>

Renew ==
  /\ renewed < terms.max
  /\ calls >= Renewals
  /\ renewed' = renewed + 1
  /\ UNCHANGED <<calls, terms, reserve, continuation, stage>>

Recover ==
  /\ reserve = 0
  /\ reserve' \in 1..4
  /\ UNCHANGED <<calls, terms, renewed, continuation, stage>>

Continue ==
  /\ continuation = 0 /\ stage = "open"
  /\ continuation' \in 1..2
  /\ UNCHANGED <<calls, terms, renewed, reserve, stage>>

End ==
  /\ continuation # 0
  /\ \/ stage = "open" /\ stage' = "over"
     \/ stage = "reopened" /\ stage' = "spent"
  /\ UNCHANGED <<calls, terms, renewed, reserve, continuation>>

Repair ==
  /\ stage = "over"
  /\ stage' = "reopened"
  /\ UNCHANGED <<calls, terms, renewed, reserve, continuation>>

Next == Call \/ Agree \/ Renew \/ Recover \/ Continue \/ End \/ Repair

Spec == Init /\ [][Next]_vars
=============================================================================
