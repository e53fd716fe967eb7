------------------------- MODULE MCTheoryAllowance -------------------------
(* One run with a single call of its own, so that everything after it is   *)
(* granted.                                                                *)
EXTENDS TheoryAllowance

(* Renewals off, of three calls and of one: a ceiling of three calls a     *)
(* renewal is above what the policy of one configures.                     *)
MCPolicies ==
  {[renewals |-> 0, per |-> 1, recovery |-> 1],
   [renewals |-> 2, per |-> 3, recovery |-> 1],
   [renewals |-> 2, per |-> 1, recovery |-> 0]}

(* A single renewal of one call and no reserve, beside the continuation.   *)
OneRenewal == {[renewals |-> 1, per |-> 1, recovery |-> 0]}
=============================================================================
