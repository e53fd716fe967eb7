----------------------- MODULE MCPracticeTransaction -----------------------
(* Two counters with values 0..2: enough for a call and a review charge on *)
(* top of a settlement, and for a counter that moves while the other does  *)
(* not.                                                                    *)
EXTENDS PracticeTransaction

MCKind == {"model_calls", "tool_calls"}
=============================================================================
