--------------------------- MODULE MCReviewQueue ---------------------------
(* An episode has two calls, so two questions at most.                     *)
EXTENDS ReviewQueue
=============================================================================
