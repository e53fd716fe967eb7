------------------------- MODULE ResearchScheduler -------------------------
(***************************************************************************)
(* The research tick as a scheduler (research_runtime.run_research_tick    *)
(* and schedule_research_tick): several processes may run the daemon or    *)
(* the command line, one at a time holds the research lease, and each tick *)
(* advances the candidate whose last turn is the oldest.  The turn is      *)
(* written before the work is done.  What the operator allows, and which   *)
(* work is open, changes at any time and under no lock.                    *)
(*                                                                         *)
(* scheduler.json numbers the turns; only their order is ever compared, so *)
(* they are renumbered here from 1 after each turn.                        *)
(***************************************************************************)
EXTENDS Naturals, FiniteSets

CONSTANTS
  Work,      \* support requests and theory subjects: 1, 2, ... in key order
  Workers,   \* processes that tick
  MaxCrashes \* bound: crashes in one behaviour

Nobody == "nobody"

ASSUME SchedulerAssumption ==
  /\ Nobody \notin Workers
  /\ Work \subseteq Nat /\ IsFiniteSet(Work)
  /\ MaxCrashes \in Nat

VARIABLES
  enabled,    \* research_policy.json: the policy is enabled
  active,     \* the operator's controls let research run
  candidates, \* the work that is open
  last,       \* scheduler.json: the number of each work's last turn
  lock,       \* worker.lock: who holds it
  proc,       \* each process: where it is and what it holds in memory
  crashes,    \* crashes so far
  late,       \* history: reservations since the controls were withdrawn
  stale,      \* history: ... since the policy was, for each process
  overtaken   \* history: turns of each work while another one waited

authority == <<enabled, active>>
history == <<late, stale, overtaken>>
vars == <<enabled, active, candidates, last, lock, proc, crashes, late, stale,
          overtaken>>

-----------------------------------------------------------------------------
Never == 0
Idle == [pc |-> "idle"]
At(w, pc) == proc[w].pc = pc
Go(w, state) == proc' = [proc EXCEPT ![w] = state]

Init ==
  /\ enabled = TRUE
  /\ active = TRUE
  /\ candidates = Work
  /\ last = [k \in Work |-> Never]
  /\ lock = Nobody
  /\ proc = [w \in Workers |-> Idle]
  /\ crashes = 0
  /\ late = 0
  /\ stale = [w \in Workers |-> 0]
  /\ overtaken = [k \in Work |-> [j \in Work |-> 0]]

(* load_policy(), read before the lease is asked for.                      *)
ReadPolicy(w) ==
  /\ At(w, "idle")
  /\ enabled
  /\ Go(w, [pc |-> "policy"])
  /\ UNCHANGED <<authority, candidates, last, lock, crashes, history>>

(* Mutant: the tick goes on without the lease.                             *)
AcquireAnyway(w) ==
  /\ At(w, "policy")
  /\ lock' = w
  /\ Go(w, [pc |-> "controls"])
  /\ UNCHANGED <<authority, candidates, last, crashes, history>>

Acquire(w) ==
  /\ At(w, "policy")
  /\ lock = Nobody
  /\ lock' = w
  /\ Go(w, [pc |-> "controls"])
  /\ UNCHANGED <<authority, candidates, last, crashes, history>>

(* worker_already_running                                                  *)
GiveUp(w) ==
  /\ At(w, "policy")
  /\ lock # Nobody
  /\ Go(w, Idle)
  /\ UNCHANGED <<authority, candidates, last, lock, crashes, history>>

Release(w) ==
  /\ lock' = Nobody
  /\ Go(w, Idle)

(* Mutant: the controls are read before the lease was taken only.          *)
ControlsUnread(w) ==
  /\ At(w, "controls")
  /\ Go(w, [pc |-> "gather"])
  /\ UNCHANGED <<lock, authority, candidates, last, crashes, history>>

(* Mutant: an early return leaves the lease locked.                        *)
ControlsLocked(w) ==
  /\ At(w, "controls")
  /\ Go(w, IF active THEN [pc |-> "gather"] ELSE Idle)
  /\ UNCHANGED <<lock, authority, candidates, last, crashes, history>>

(* emergency_stop, autonomy_paused, campaign mode disabled, active         *)
(* children: nothing is done.                                              *)
Controls(w) ==
  /\ At(w, "controls")
  /\ IF active THEN Go(w, [pc |-> "gather"]) /\ UNCHANGED lock ELSE Release(w)
  /\ UNCHANGED <<authority, candidates, last, crashes, history>>

(* The candidates and their last turns are read.                           *)
Gather(w) ==
  /\ At(w, "gather")
  /\ IF candidates = {} THEN Release(w)
     ELSE Go(w, [pc |-> "choose", pool |-> candidates, last |-> last])
            /\ UNCHANGED lock
  /\ UNCHANGED <<authority, candidates, last, crashes, history>>

Before(k, j, turns) ==
  turns[k] < turns[j] \/ (turns[k] = turns[j] /\ k < j)

(* Mutant: the work with the least key has its turn.                       *)
LeastKey(k, pool, turns) == k \in pool /\ \A j \in pool : k <= j

Oldest(k, pool, turns) ==
  k \in pool /\ \A j \in pool \ {k} : Before(k, j, turns)

Renumber(turns) ==
  [k \in Work |-> IF turns[k] = Never THEN Never
                  ELSE Cardinality({turns[j] : j \in Work} \cap 1..turns[k])]

(* The turn is written: the cursor that was read, with one more turn.      *)
TakeTurn(w) ==
  /\ At(w, "choose")
  /\ \E k \in proc[w].pool :
       LET waiting == proc[w].pool \ {k}
       IN /\ Oldest(k, proc[w].pool, proc[w].last)
          /\ last' = Renumber([proc[w].last EXCEPT ![k] = Cardinality(Work) + 1])
          /\ Go(w, [pc |-> "advance", key |-> k])
          /\ overtaken' =
               [j \in Work |-> IF j \in waiting
                                 THEN [overtaken[j] EXCEPT ![k] = @ + 1]
                                 ELSE [i \in Work |-> 0]]
  /\ UNCHANGED <<authority, candidates, lock, crashes, late, stale>>

(* advance_episode or advance_theory reserves one step of the work and     *)
(* carries it out; it may find nothing to reserve, and it may close it.    *)
Advance(w) ==
  /\ At(w, "advance")
  /\ late' = IF active THEN late ELSE late + 1
  /\ stale' = IF enabled THEN stale ELSE [stale EXCEPT ![w] = @ + 1]
  /\ candidates' \in {candidates, candidates \ {proc[w].key}}
  /\ Release(w)
  /\ UNCHANGED <<authority, last, crashes, overtaken>>

AdvanceNothing(w) ==
  /\ At(w, "advance")
  /\ candidates' \in {candidates, candidates \ {proc[w].key}}
  /\ Release(w)
  /\ UNCHANGED <<authority, last, crashes, history>>

(* The process dies; the operating system releases its lease.              *)
Crash(w) ==
  /\ ~At(w, "idle")
  /\ crashes < MaxCrashes
  /\ crashes' = crashes + 1
  /\ lock' = IF lock = w THEN Nobody ELSE lock
  /\ Go(w, Idle)
  /\ UNCHANGED <<authority, candidates, last, history>>

-----------------------------------------------------------------------------
(* The operator and the rest of the system.                                *)

OperatorControls ==
  /\ active' = ~active
  /\ late' = 0
  /\ UNCHANGED <<enabled, candidates, last, lock, proc, crashes, stale, overtaken>>

OperatorPolicy ==
  /\ enabled' = ~enabled
  /\ stale' = [w \in Workers |-> 0]
  /\ UNCHANGED <<active, candidates, last, lock, proc, crashes, late, overtaken>>

WorkChanges ==
  /\ \E k \in Work :
       candidates' = IF k \in candidates THEN candidates \ {k}
                     ELSE candidates \cup {k}
  /\ UNCHANGED <<authority, last, lock, proc, crashes, history>>

Step(w) ==
  \/ ReadPolicy(w) \/ Acquire(w) \/ GiveUp(w) \/ Controls(w) \/ Gather(w)
  \/ TakeTurn(w) \/ Advance(w) \/ AdvanceNothing(w)

Next ==
  \/ \E w \in Workers : Step(w) \/ Crash(w)
  \/ OperatorControls \/ OperatorPolicy \/ WorkChanges

Spec == Init /\ [][Next]_vars

(* Every daemon thread loops for as long as its policy is enabled.         *)
FairSpec == Spec /\ \A w \in Workers : WF_vars(Step(w))

-----------------------------------------------------------------------------
TypeOK ==
  /\ {enabled, active} \subseteq BOOLEAN
  /\ candidates \subseteq Work
  /\ last \in [Work -> 0..Cardinality(Work)]
  /\ lock \in Workers \cup {Nobody}
  /\ \A w \in Workers :
       ~(At(w, "idle") \/ At(w, "policy")) => lock = w
  /\ overtaken \in [Work -> [Work -> Nat]]

(* "A daemon has no authority beyond the policy; every step rereads it and *)
(* the operator controls before reserving any work."                       *)
(* (research_runtime.py:640-641): after the controls are withdrawn at most *)
(* one step is still reserved, by all the processes together, and after    *)
(* the policy is withdrawn at most one by each.                            *)
WithdrawalStops ==
  /\ late <= 1
  /\ \A w \in Workers : stale[w] <= 1

(* "paused work cannot monopolize the research budget"                     *)
(* (research_runtime.py:547): while a work stays open no other work has    *)
(* two turns before it, whatever opens, closes or dies meanwhile.          *)
NoWorkMonopolizes == \A j, k \in Work : overtaken[j][k] <= 1

(* Work that stays open is served again and again once the operator leaves *)
(* research running.                                                       *)
Served(k) == \E w \in Workers : At(w, "advance") /\ proc[w].key = k
OpenWorkIsServed ==
  \A k \in Work :
    <>[](enabled /\ active /\ k \in candidates) => []<>Served(k)
=============================================================================
