------------------------ MODULE MCResearchScheduler ------------------------
(* Three pieces of work: two that wait and one that overtakes.             *)
EXTENDS ResearchScheduler

MCWork == 1..3
=============================================================================
