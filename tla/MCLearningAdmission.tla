------------------------ MODULE MCLearningAdmission ------------------------
(* A day of two units of time and a week of five.  The default policy with *)
(* two episodes a week, one with a cadence of half a day whose episodes    *)
(* are small, and a closed one whose week has no room for a single         *)
(* episode.  Two failures, and a root with one lesson to ask about; one    *)
(* follow-up in a lineage, two questions of the root.                      *)
EXTENDS LearningAdmission

CONSTANTS f1, q1

Limits(calls, tools, seconds) ==
  [model_calls |-> calls, tool_calls |-> tools, compute_seconds |-> seconds]
Default == [enabled |-> TRUE, interval |-> 0, perDay |-> 1,
            episode |-> Limits(2, 26, 280), week |-> Limits(4, 78, 840)]
Quick == [enabled |-> TRUE, interval |-> 1, perDay |-> 2,
          episode |-> Limits(1, 13, 140), week |-> Limits(6, 39, 560)]
Closed == [Default EXCEPT !.enabled = FALSE, !.week = Limits(6, 25, 840)]
MCPolicies == {Default, Quick, Closed}
MCRoots == {{q1}}
=============================================================================
