--------------------------- MODULE PracticeLedger ---------------------------
(***************************************************************************)
(* What one practice episode promises about its two durable files, told    *)
(* without the journal that keeps the promise: the task projection and the *)
(* retained spend account change together when an attempt is settled, and  *)
(* nothing ever lowers the spend.                                          *)
(*                                                                         *)
(* PracticeTransaction implements this specification on two files that     *)
(* are written one after the other by a process that may crash in between. *)
(***************************************************************************)
EXTENDS Naturals

CONSTANTS
  Kind,       \* the spend counters of an account (model_calls, tool_calls, ...)
  Calls,      \* the counter that counts dispatched model calls
  MaxUsage    \* bound on every counter

VARIABLES task, account

vars == <<task, account>>

(* Where the task stands for the scheduler: it may be advanced; an attempt  *)
(* was settled and a reviewer is next; the scheduler's error handler parked *)
(* it.                                                                      *)
TaskState == {"ready", "settled", "parked"}

Task == [state : TaskState, calls : 0..MaxUsage]
Usage == [Kind -> 0..MaxUsage]
Account == [usage : Usage, inflight : BOOLEAN]

(* No counter of u is below the same counter of v.                         *)
AtLeast(u, v) == \A k \in Kind : u[k] >= v[k]

Init ==
  /\ task = [state |-> "ready", calls |-> 0]
  /\ account = [usage |-> [k \in Kind |-> 0], inflight |-> FALSE]

(* The cost of a model call or of a review is put on the account before    *)
(* the work starts.                                                        *)
Charge ==
  /\ ~account.inflight
  /\ account' \in Account
  /\ account'.inflight
  /\ AtLeast(account'.usage, account.usage)
  /\ UNCHANGED task

(* An attempt is settled: both halves change in one step.                  *)
Settle ==
  /\ task.state = "ready"
  /\ task' \in Task
  /\ account' \in Account
  /\ task'.state # "parked"
  /\ task'.calls = account'.usage[Calls]
  /\ ~account'.inflight
  /\ AtLeast(account'.usage, account.usage)

(* A review returns its reservation.                                       *)
Release ==
  /\ account.inflight
  /\ account' \in Account
  /\ ~account'.inflight
  /\ AtLeast(account'.usage, account.usage)
  /\ account'.usage[Calls] = account.usage[Calls]
  /\ UNCHANGED task

(* The task moves on with the spend it projects.                           *)
Move ==
  /\ task' \in Task
  /\ task.state # "parked" /\ task'.state # "parked"
  /\ task'.calls = task.calls
  /\ UNCHANGED account

(* The scheduler gives up on the task.                                     *)
Park ==
  /\ task' \in Task
  /\ task'.state = "parked"
  /\ UNCHANGED account

Next == Charge \/ Settle \/ Release \/ Move \/ Park

Spec == Init /\ [][Next]_vars
=============================================================================
