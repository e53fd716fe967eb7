----------------------------- MODULE MCConveyor -----------------------------
(* Two children: the second is spawned when the first one has ended, or    *)
(* when the conveyor thinks so.                                            *)
EXTENDS Conveyor
=============================================================================
