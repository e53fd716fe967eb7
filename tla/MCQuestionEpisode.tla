------------------------- MODULE MCQuestionEpisode -------------------------
(* The repository's own limits with ten seconds as the unit of time: an    *)
(* episode reserves 280 seconds, a call 140 seconds and 6 checks, a review *)
(* 20 seconds and 2 checks.  Of the checks the code reserves 26; 16 are    *)
(* two calls and two reviews, so that a third review meets the limit.  A   *)
(* call takes ten seconds or everything it reserved, a review nothing or   *)
(* everything.                                                             *)
EXTENDS QuestionEpisode

MCCallElapsed == {1, CallSeconds}
MCReviewElapsed == {0, ReviewSeconds}
=============================================================================
