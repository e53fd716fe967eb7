------------------------- MODULE MCResearchEpisode -------------------------
(* A plan of one action and a plan with a network action.                  *)
EXTENDS ResearchEpisode

MCPlans == {<<"local">>, <<"local", "network">>}
MCShortPlan == {<<"local">>}
MCElapsed == {0, 1, 3}
MCInstant == {0}
=============================================================================
