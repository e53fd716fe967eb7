------------------------------ MODULE Conveyor ------------------------------
(***************************************************************************)
(* The child runs of one conveyor directive: their reservation and spawn   *)
(* as docker containers, the reconciliation of their records with docker,  *)
(* the packets they return, and the decisions on those.  Every record is a *)
(* file of its own, replaced whole.                                        *)
(*                                                                         *)
(* "tick" is the thread that holds the lock of the scheduler's ticks, full *)
(* or bounded; "web" is a status request, which reconciles and evaluates   *)
(* without it.  A docker call takes seconds: what was listed before one    *)
(* and is written back after it is in `proc`, and the rest of the system   *)
(* moves in between.  Between two files of one operation a crash may fall. *)
(* What the kernel thinks of a packet is one step with a free outcome.     *)
(***************************************************************************)
EXTENDS Naturals, Sequences, FiniteSets

CONSTANTS
  MaxChildren,   \* bound: child runs the directive may have
  MaxRequests,   \* bound: status requests
  MaxActs,       \* bound: acts of the operator
  MaxFaults      \* bound: crashes, docker failures and lost containers

ASSUME ConveyorAssumption ==
  {MaxChildren, MaxRequests, MaxActs, MaxFaults} \subseteq Nat

VARIABLES
  directive,  \* directives/<id>.json: state, active child, latest packet
  children,   \* children/<id>.json
  packets,    \* returns/<id>.json, in the order they were first written
  lock,       \* spawn_locks/<id>.lock: none, made, or with its owner
  docker,     \* the containers, and what each leaves in its directories
  aged,       \* reservations of 600 seconds and more; 0 is the lock
  proc,       \* the thread of the tick and the one of a status request
  lost,       \* containers whose record was lost or given up (a history)
  budget      \* requests, acts and faults left

records == <<children, packets>>
world == <<docker, aged, lost>>
vars == <<directive, records, lock, world, proc, budget>>

-----------------------------------------------------------------------------
Child == 1..MaxChildren
Threads == {"tick", "web"}
\* Nothing, work in progress, or the work and the packet that returns it.
Evidence == {"nothing", "progress", "packet"}

Unborn == [state |-> "none", ref |-> FALSE, stop |-> FALSE, closed |-> FALSE,
           removed |-> FALSE]
Reserved == [Unborn EXCEPT !.state = "spawning"]

Terminal(r) == r.state \in {"returned", "failed", "stopped"}
Active(r) == r.state # "none" /\ ~Terminal(r)
ActiveChildren == {c \in Child : Active(children[c])}
Pending == {n \in DOMAIN packets : packets[n].review = "pending"}
Running(c) == docker[c].state = "running"

\* What a thread holds: the records it listed, the child or packet it is at,
\* what it found and the record it read.
Idle == [pc |-> "idle", todo |-> <<>>, at |-> 0, found |-> "", rec |-> Unborn]
At(p, pc) == proc[p].pc = pc
Go(p, pc) == proc' = [proc EXCEPT ![p].pc = pc]
GoTo(p, pc, c, f) ==
  proc' = [proc EXCEPT ![p].pc = pc, ![p].at = c, ![p].found = f]
Listed(S) == [c \in S |-> children[c]]
Begin(p, pc, todo) == proc' = [proc EXCEPT ![p].pc = pc, ![p].todo = todo]
\* Back to the list, the record at hand being done.
Done(p, pc) ==
  proc' = [proc EXCEPT ![p] =
    [Idle EXCEPT !.pc = pc,
                 !.todo = [c \in DOMAIN proc[p].todo \ {proc[p].at} |-> proc[p].todo[c]]]]
Stop(p) == proc' = [proc EXCEPT ![p] = Idle]

WriteChild(c, r) == children' = [children EXCEPT ![c] = r]
SetDirective(s, a) == directive' = [directive EXCEPT !.state = s, !.active = a]
Fault == budget.faults > 0 /\ budget' = [budget EXCEPT !.faults = @ - 1]

Spawning == {"locking", "reserved", "starting", "started", "spawned"}

Init ==
  /\ directive = [state |-> "queued", active |-> 0, latest |-> 0]
  /\ children = [c \in Child |-> Unborn]
  /\ packets = <<>>
  /\ lock = "none"
  /\ docker = [c \in Child |-> [state |-> "none", left |-> "nothing"]]
  /\ aged = {}
  /\ proc = [p \in Threads |-> Idle]
  /\ lost = {}
  /\ budget = [requests |-> MaxRequests, acts |-> MaxActs, faults |-> MaxFaults]

-----------------------------------------------------------------------------
(* reconcile_child_runs: the active records are read at once, then each    *)
(* container is inspected and its record written.                          *)
Reconcile(p) ==
  /\ At(p, "idle")
  /\ IF p = "tick" THEN UNCHANGED budget
       ELSE budget.requests > 0 /\ budget' = [budget EXCEPT !.requests = @ - 1]
  /\ Begin(p, "children", Listed(ActiveChildren))
  /\ UNCHANGED <<directive, records, lock, world>>

\* docker inspect by the reference in the record that was listed.
Inspect(p, c) ==
  /\ At(p, "children") /\ c \in DOMAIN proc[p].todo
  /\ \E seen \in {"unknown", "missing", "running", "exited"} :
       /\ GoTo(p, "inspected", c, seen)
       /\ IF ~proc[p].todo[c].ref
            THEN seen = "unknown" /\ UNCHANGED budget
            ELSE \/ seen = "unknown" /\ Fault
                 \/ /\ seen = IF docker[c].state \in {"running", "exited"}
                                THEN docker[c].state ELSE "missing"
                    /\ UNCHANGED budget
  /\ UNCHANGED <<directive, records, lock, world>>

Read(p) == proc[p].todo[proc[p].at]
Left(p) == docker[proc[p].at].left
Found(p, s) == At(p, "inspected") /\ proc[p].found = s
(* Mutant: what docker could not tell counts as the end.                 *)
EndedOrUnknown(p) == Found(p, "exited") \/ Found(p, "unknown")
Ended(p) == Found(p, "exited")

\* Nothing to conclude: the record goes back as it was listed.
KeepRecord(p) ==
  LET c == proc[p].at IN
  /\ \/ Found(p, "running") \/ Found(p, "unknown")
     \/ Found(p, "missing") /\ Left(p) = "nothing"
  /\ WriteChild(c, Read(p))
  /\ lost' = IF children[c].ref /\ ~Read(p).ref THEN lost \cup {c} ELSE lost
  /\ Done(p, "children")
  /\ UNCHANGED <<directive, packets, lock, docker, aged, budget>>

\* _record_terminal_child_without_review_return
CloseChild(p) ==
  LET r == Read(p) IN
  /\ \/ Found(p, "missing") /\ Left(p) # "nothing"
     \/ Ended(p) /\ Left(p) # "packet" /\ (r.stop \/ Left(p) = "progress")
  /\ WriteChild(proc[p].at,
       [r EXCEPT !.state = IF r.stop THEN "stopped" ELSE "failed", !.closed = TRUE])
  /\ Go(p, "closing")
  /\ UNCHANGED <<directive, packets, lock, world, budget>>

CloseDirective(p) ==
  /\ At(p, "closing")
  /\ SetDirective("requeued", 0)
  /\ Done(p, IF proc[p].found = "backfill" THEN "backfill" ELSE "children")
  /\ UNCHANGED <<records, lock, world, budget>>

\* record_child_return_packet: the packet, then the child, then the directive.
(* Mutant: the packet is written at the end of the return.               *)
AddPacketLater(c, kind) == UNCHANGED packets
AddPacket(c, kind) ==
  packets' = Append(packets, [child |-> c, kind |-> kind, review |-> "pending",
                              weighed |-> "no"])
(* Mutant: the child is given the state of the result.                   *)
ResultState(kind) == IF kind = "return" THEN "completed" ELSE "failed"
EndState(kind) == IF kind = "return" THEN "returned" ELSE "failed"
Absent(p) == Left(p) = "nothing" /\ ~Read(p).stop
MissingFiled(c) ==
  \E n \in DOMAIN packets : packets[n].child = c /\ packets[n].kind = "missing"

FilePacket(p) ==
  LET c == proc[p].at
      kind == IF Left(p) = "packet" THEN "return" ELSE "missing" IN
  /\ Ended(p) /\ (Left(p) = "packet" \/ Absent(p))
  /\ kind = "missing" => ~MissingFiled(c)
  /\ AddPacket(c, kind)
  /\ proc' = [proc EXCEPT ![p].pc = "filed", ![p].found = kind, ![p].rec = children[c]]
  /\ UNCHANGED <<directive, children, lock, world, budget>>

(* Mutant: the packet found, the child is not written.                   *)
FileAgainUnwritten(p) ==
  /\ Ended(p) /\ Absent(p) /\ MissingFiled(proc[p].at)
  /\ Done(p, "children")
  /\ UNCHANGED <<directive, records, lock, world, budget>>

FileAgain(p) ==
  LET c == proc[p].at IN
  /\ Ended(p) /\ Absent(p)
  /\ MissingFiled(c)
  /\ IF Terminal(children[c]) THEN UNCHANGED children
       ELSE WriteChild(c, [children[c] EXCEPT !.state = "failed"])
  /\ Done(p, "children")
  /\ UNCHANGED <<directive, packets, lock, world, budget>>

FileChild(p) ==
  /\ At(p, "filed")
  /\ WriteChild(proc[p].at, [proc[p].rec EXCEPT !.state = EndState(proc[p].found)])
  /\ Go(p, "answered")
  /\ UNCHANGED <<directive, packets, lock, world, budget>>

FileDirective(p) ==
  LET mine == {n \in DOMAIN packets : packets[n].child = proc[p].at} IN
  /\ At(p, "answered")
  /\ directive' = [state |-> "returned_for_review", active |-> 0,
                   latest |-> CHOOSE n \in mine : \A m \in mine : m <= n]
  /\ Done(p, "children")
  /\ UNCHANGED <<records, lock, world, budget>>

\* _backfill_terminal_child_lifecycle_assessments, of a one-shot child.
Backfill(p) ==
  LET c == directive.active
      due == /\ c # 0 /\ directive.state \notin {"accepted", "returned_for_review"}
             /\ Terminal(children[c]) /\ ~children[c].closed /\ ~children[c].stop
             /\ docker[c].left # "nothing" IN
  /\ \/ At(p, "children") /\ proc[p].todo = <<>>
     \/ At(p, "backfill")
  /\ IF due
       THEN /\ WriteChild(c, [children[c] EXCEPT !.state = "failed", !.closed = TRUE])
            /\ GoTo(p, "closing", c, "backfill")
       ELSE /\ Begin(p, "cleanup",
                 Listed({d \in Child : LET r == children[d] IN
                           Terminal(r) /\ r.ref /\ ~r.removed}))
            /\ UNCHANGED children
  /\ UNCHANGED <<directive, packets, lock, world, budget>>

\* cleanup_terminal_child_containers: docker rm refuses a running container.
Remove(p, c) ==
  /\ At(p, "cleanup") /\ c \in DOMAIN proc[p].todo
  /\ \E ok \in BOOLEAN :
       /\ IF ok THEN ~Running(c) /\ UNCHANGED budget
            ELSE IF Running(c) THEN UNCHANGED budget ELSE Fault
       /\ docker' = IF ok THEN [docker EXCEPT ![c].state = "removed"] ELSE docker
       /\ GoTo(p, "removing", c, IF ok THEN "removed" ELSE "kept")
  /\ UNCHANGED <<directive, records, lock, aged, lost>>

RecordRemoval(p) ==
  /\ At(p, "removing")
  /\ WriteChild(proc[p].at, [Read(p) EXCEPT !.removed = proc[p].found = "removed"])
  /\ Done(p, "cleanup")
  /\ UNCHANGED <<directive, packets, lock, world, budget>>

\* evaluate_pending_child_returns: a packet overtaken by another child is
\* requeued, the others are weighed, and some of them requeued by the kernel.
\* The tick's evaluation may be cut off before it did anything; one that began
\* is not cut off between two packets.
Overtaken(n) == directive.state = "running" /\ directive.active \notin {0, packets[n].child}
Evaluate(p) ==
  LET overtaken == {n \in Pending : Overtaken(n)} IN
  /\ At(p, "cleanup") /\ proc[p].todo = <<>>
  /\ \/ \E again \in SUBSET (Pending \ overtaken) :
          /\ packets' = [n \in DOMAIN packets |->
               IF n \notin Pending THEN packets[n]
               ELSE [packets[n] EXCEPT
                       !.review = IF n \in overtaken \cup again THEN "requeued" ELSE @,
                       !.weighed = IF n \in overtaken THEN @ ELSE "yes"]]
          /\ IF again # {} THEN SetDirective("requeued", 0) ELSE UNCHANGED directive
     \/ p = "tick" /\ UNCHANGED <<directive, packets>>
  /\ IF p = "tick" THEN Go(p, "repair") ELSE Stop(p)
  /\ UNCHANGED <<children, lock, world, budget>>

-----------------------------------------------------------------------------
(* The repairs of a full tick.                                             *)
\* A directive in the queue is given its active child, then one that is not
\* at work loses the child it names.
RepairLinks ==
  /\ At("tick", "repair")
  /\ IF directive.state \in {"queued", "requeued"} /\ ActiveChildren # {}
       THEN \E c \in ActiveChildren : SetDirective("running", c)
       ELSE directive' =
              IF directive.state \in {"returned_for_review", "accepted", "requeued"}
                THEN [directive EXCEPT !.active = 0] ELSE directive
  /\ Go("tick", "reservations")
  /\ UNCHANGED <<records, lock, world, budget>>

\* _cleanup_stale_spawn_reservations
Stale(c) == children[c].state = "spawning" /\ c \in aged
FailReservation ==
  /\ At("tick", "reservations")
  /\ \E c \in Child :
       /\ Stale(c)
       /\ WriteChild(c, [children[c] EXCEPT !.state = "failed", !.closed = TRUE])
       /\ lost' = IF Running(c) THEN lost \cup {c} ELSE lost
       /\ GoTo("tick", "failing", c, "")
  /\ UNCHANGED <<directive, packets, lock, docker, aged, budget>>

ReleaseReservation ==
  /\ At("tick", "failing")
  /\ IF directive.active = proc["tick"].at
       THEN SetDirective("requeued", 0) ELSE UNCHANGED directive
  /\ proc' = [proc EXCEPT !["tick"] = [Idle EXCEPT !.pc = "reservations"]]
  /\ UNCHANGED <<records, lock, world, budget>>

\* repair_conveyor_directive_integrity: packets that are malformed or not
\* awaited any more are requeued, a directive is given back to a live child,
\* an old spawn lock is removed, and children nobody wants are stopped.
Malformed(n) == n \in Pending /\ packets[n].kind = "missing" /\ packets[n].weighed = "no"
Awaited == directive.state = "returned_for_review"
(* Mutant: a lock without an owner has no age.                           *)
LockOutlived == lock = "held" /\ 0 \in aged
LockExpired == lock = "made" \/ (lock = "held" /\ 0 \in aged)
Unwanted == directive.state \in {"queued", "requeued", "returned_for_review"}
Requeued(n) == [packets[n] EXCEPT !.review = "requeued",
                  !.weighed = IF Malformed(n) THEN "void" ELSE @]

\* The child to keep of several: the one the directive names, else one whose
\* container runs, else any.  The inspections that tell are taken with the
\* repair, as one step, and do not fail here.
Best(live) ==
  LET up == {c \in live : children[c].ref /\ Running(c)} IN
  IF directive.active \in live THEN {directive.active}
  ELSE IF up # {} THEN up ELSE live

RepairIntegrity ==
  LET live == ActiveChildren IN
  /\ At("tick", "reservations") /\ ~\E c \in Child : Stale(c)
  /\ \E newest \in IF live = {} THEN {0} ELSE live,
        best \in IF live = {} THEN {0} ELSE Best(live) :
       LET stale == {n \in Pending : IF Malformed(n)
                       THEN ~(Awaited /\ live # {} /\ packets[n].child \notin live)
                       ELSE ~Awaited}
           void == {n \in DOMAIN packets :
                      /\ Awaited /\ live # {} /\ packets[n].child # newest
                      /\ \/ Malformed(n)
                         \/ packets[n].weighed = "void" /\ packets[n].review = "requeued"}
           out == IF void # {} THEN live \ {newest}
                  ELSE IF Unwanted THEN live ELSE live \ {best} IN
       /\ packets' = [n \in DOMAIN packets |->
                        IF n \in stale \cup void THEN Requeued(n) ELSE packets[n]]
       /\ directive' = IF void # {}
                         THEN [directive EXCEPT !.state = "running", !.active = newest]
                         ELSE directive
       /\ Begin("tick", "stopping", Listed(out))
  /\ lock' = IF LockExpired THEN "none" ELSE lock
  /\ aged' = IF lock' = "none" THEN aged \ {0} ELSE aged
  /\ UNCHANGED <<children, docker, lost, budget>>

\* docker rm -f; the child is recorded as stopped whatever it answers.
ForceRemove(c) ==
  /\ At("tick", "stopping") /\ c \in DOMAIN proc["tick"].todo
  /\ \/ /\ proc["tick"].todo[c].ref
        /\ \E e \in IF Running(c) THEN Evidence ELSE {docker[c].left} :
             docker' = [docker EXCEPT ![c] = [state |-> "removed", left |-> e]]
        /\ UNCHANGED budget
     \/ ~proc["tick"].todo[c].ref /\ UNCHANGED <<docker, budget>>
     \/ proc["tick"].todo[c].ref /\ Fault /\ UNCHANGED docker
  /\ GoTo("tick", "forced", c, "")
  /\ UNCHANGED <<directive, records, lock, aged, lost>>

RecordStop ==
  LET c == proc["tick"].at IN
  /\ At("tick", "forced")
  /\ WriteChild(c, [Read("tick") EXCEPT !.state = "stopped", !.stop = TRUE])
  /\ lost' = IF Running(c) THEN lost \cup {c} ELSE lost
  /\ Done("tick", "stopping")
  /\ UNCHANGED <<directive, packets, lock, docker, aged, budget>>

\* apply_task_manager_repairs: an active child that is none.
PhantomCleared ==
  [directive EXCEPT !.active = 0, !.state = IF @ = "running" THEN "requeued" ELSE @]
ClearPhantom ==
  /\ At("tick", "stopping") /\ proc["tick"].todo = <<>>
  /\ IF directive.active \notin ActiveChildren \cup {0}
       THEN directive' = PhantomCleared
       ELSE UNCHANGED directive
  /\ Go("tick", "admit")
  /\ UNCHANGED <<records, lock, world, budget>>

-----------------------------------------------------------------------------
(* Admission and spawn, under the lock of the ticks and the directive's    *)
(* spawn lock.                                                             *)
Fresh == {c \in Child : children[c].state = "none"}
Admissible == /\ directive.state \in {"queued", "requeued"}
              /\ ActiveChildren = {} /\ Fresh # {}

BoundedTick ==
  /\ At("tick", "idle")
  /\ Go("tick", "admit")
  /\ UNCHANGED <<directive, records, lock, world, budget>>

Admit ==
  /\ At("tick", "admit")
  /\ IF Admissible /\ (lock = "none" \/ (lock = "held" /\ 0 \in aged))
       THEN lock' = "made" /\ aged' = aged \ {0} /\ Go("tick", "locking")
       ELSE UNCHANGED <<lock, aged>> /\ Stop("tick")
  /\ UNCHANGED <<directive, records, docker, lost, budget>>

\* The records are read again: a child that is active suppresses the spawn.
\* The lock's owner file and the child's record are written as one.
Reserve ==
  LET c == CHOOSE x \in Fresh : \A y \in Fresh : x <= y IN
  /\ At("tick", "locking")
  /\ IF ActiveChildren # {}
       THEN lock' = "none" /\ Stop("tick") /\ UNCHANGED children
       ELSE /\ Fresh # {}
            /\ lock' = "held"
            /\ WriteChild(c, Reserved)
            /\ GoTo("tick", "reserved", c, "")
  /\ UNCHANGED <<directive, packets, world, budget>>

ReserveDirective ==
  /\ At("tick", "reserved")
  /\ SetDirective("running", proc["tick"].at)
  /\ Go("tick", "starting")
  /\ UNCHANGED <<records, lock, world, budget>>

\* docker run: a call that fails may have started the container all the same.
DockerRun ==
  LET c == proc["tick"].at IN
  /\ At("tick", "starting")
  /\ \E ok, up \in BOOLEAN :
       /\ ok => up
       /\ IF ok THEN UNCHANGED budget ELSE Fault
       /\ docker' = IF up THEN [docker EXCEPT ![c].state = "running"] ELSE docker
       /\ GoTo("tick", "started", c, IF ok THEN "ok" ELSE "failed")
  /\ UNCHANGED <<directive, records, lock, aged, lost>>

RecordSpawn ==
  LET c == proc["tick"].at
      ok == proc["tick"].found = "ok" IN
  /\ At("tick", "started")
  /\ WriteChild(c, [Reserved EXCEPT !.ref = TRUE,
                                    !.state = IF ok THEN "running" ELSE "failed"])
  /\ lost' = IF ~ok /\ Running(c) THEN lost \cup {c} ELSE lost
  /\ Go("tick", "spawned")
  /\ UNCHANGED <<directive, packets, lock, docker, aged, budget>>

SpawnDirective ==
  /\ At("tick", "spawned")
  /\ IF proc["tick"].found = "ok" THEN SetDirective("running", proc["tick"].at)
                             ELSE SetDirective("requeued", 0)
  /\ lock' = "none"
  /\ Stop("tick")
  /\ UNCHANGED <<records, world, budget>>

-----------------------------------------------------------------------------
(* The operator's requests.                                                *)
Act == budget.acts > 0 /\ budget' = [budget EXCEPT !.acts = @ - 1]

\* apply_directive_feedback
Feedback ==
  /\ Act
  /\ SetDirective("requeued", 0)
  /\ UNCHANGED <<records, lock, world, proc>>

\* _record_child_control_intent, of a stop
AskStop(c) ==
  /\ children[c].state # "none" /\ Act
  /\ WriteChild(c, [children[c] EXCEPT !.stop = TRUE])
  /\ UNCHANGED <<directive, packets, lock, world, proc>>

\* accept_child_return and requeue_child_return, of any packet: the last also
\* requeues the other pending packets of the child.
Decide(n, d) ==
  /\ Act
  /\ packets' = [m \in DOMAIN packets |->
       IF m = n \/ (/\ d = "requeued" /\ m \in Pending
                   /\ packets[m].child = packets[n].child)
         THEN [packets[m] EXCEPT !.review = d] ELSE packets[m]]
  /\ SetDirective(d, 0)
  /\ UNCHANGED <<children, lock, world, proc>>

-----------------------------------------------------------------------------
(* The containers, the clock and the host.                                 *)
Exit(c) ==
  /\ Running(c)
  /\ \E e \in Evidence : docker' = [docker EXCEPT ![c] = [state |-> "exited", left |-> e]]
  /\ UNCHANGED <<directive, records, lock, aged, lost, proc, budget>>

Vanish(c) ==
  /\ docker[c].state \in {"running", "exited"} /\ Fault
  /\ \E e \in IF Running(c) THEN Evidence ELSE {docker[c].left} :
       docker' = [docker EXCEPT ![c] = [state |-> "removed", left |-> e]]
  /\ UNCHANGED <<directive, records, lock, aged, lost, proc>>

\* 600 seconds go by: more than a spawn takes.
Age ==
  /\ proc["tick"].pc \notin Spawning
  /\ aged' = aged \cup {c \in Child : children[c].state = "spawning"}
               \cup (IF lock = "held" THEN {0} ELSE {})
  /\ aged' # aged
  /\ UNCHANGED <<directive, records, lock, docker, lost, proc, budget>>

\* All threads die; the files and the containers stay.
Crash ==
  /\ Fault
  /\ proc' = [p \in Threads |-> Idle]
  /\ lost' = lost \cup {c \in Child : Running(c) /\ ~children[c].ref}
  /\ UNCHANGED <<directive, records, lock, docker, aged>>

-----------------------------------------------------------------------------
Pass(p) ==
  \/ \E c \in Child : Inspect(p, c) \/ Remove(p, c)
  \/ KeepRecord(p) \/ CloseChild(p) \/ CloseDirective(p)
  \/ FilePacket(p) \/ FileAgain(p) \/ FileChild(p) \/ FileDirective(p)
  \/ Backfill(p) \/ RecordRemoval(p) \/ Evaluate(p)

Repair ==
  \/ RepairLinks \/ FailReservation \/ ReleaseReservation \/ RepairIntegrity
  \/ \E c \in Child : ForceRemove(c)
  \/ RecordStop \/ ClearPhantom

Spawn ==
  \/ BoundedTick \/ Admit \/ Reserve \/ ReserveDirective
  \/ DockerRun \/ RecordSpawn \/ SpawnDirective

OperatorActs ==
  \/ Feedback
  \/ \E c \in Child : AskStop(c)
  \/ \E n \in DOMAIN packets, d \in {"accepted", "requeued"} : Decide(n, d)

Host == (\E c \in Child : Exit(c) \/ Vanish(c)) \/ Age \/ Crash

Next ==
  \/ \E p \in Threads : Reconcile(p) \/ Pass(p)
  \/ Repair \/ Spawn \/ OperatorActs \/ Host

Spec == Init /\ [][Next]_vars

\* The scheduler ticks again and again, a request and a decision that began
\* go on, and time passes.  A container need not end.
Fairness ==
  /\ WF_vars(Pass("tick") \/ Repair \/ Spawn)
  /\ SF_vars(Reconcile("tick"))
  /\ WF_vars(Pass("web"))
  /\ WF_vars(Age)

FairSpec == Spec /\ Fairness
-----------------------------------------------------------------------------
\* Every record keeps its shape.
ChildRecord ==
  [state : {"none", "spawning", "running", "returned", "failed", "stopped"},
   ref : BOOLEAN, stop : BOOLEAN, closed : BOOLEAN, removed : BOOLEAN]
Container == [state : {"none", "running", "exited", "removed"}, left : Evidence]
Packet ==
  [child : Child, kind : {"return", "missing"},
   review : {"pending", "requeued", "accepted"}, weighed : {"no", "yes", "void"}]

Directive ==
  [state : {"queued", "running", "requeued", "accepted", "returned_for_review"},
   active : Child \cup {0}, latest : Nat]

TypeOK ==
  /\ directive \in Directive
  /\ children \in [Child -> ChildRecord]
  /\ docker \in [Child -> Container]
  /\ packets \in Seq(Packet)
  /\ lock \in {"none", "made", "held"}
  /\ aged \subseteq Child \cup {0}
  /\ lost \subseteq Child

\* Whoever waits for a review waits for a packet that was written: a directive
\* returned for review names one, still pending or not, and a returned child has its own,
\* whatever crash falls between the three records of a return.
Filed ==
  /\ Awaited => directive.latest \in DOMAIN packets
  /\ \A c \in Child : children[c].state = "returned" =>
       \E n \in DOMAIN packets : packets[n].child = c /\ packets[n].kind = "return"

\* Two containers of one directive never run at a time, unless the record of
\* one of them was lost: to a crash or a time-out in docker run, to a forced
\* removal that failed, or to a status request that wrote an old record back.
OneContainer == \A c, d \in Child :
  c # d /\ Running(c) /\ Running(d) => {c, d} \cap lost # {}

\* No child stays active when nothing works for it any more: a reservation whose
\* spawn died is given up, and a container that exited is noticed and its child
\* ends, unless the container is gone before anyone looked.
NoChildHangs == \A c \in Child :
  /\ children[c].state = "spawning" ~> children[c].state # "spawning"
  /\ Active(children[c]) /\ docker[c].state = "exited"
       ~> ~Active(children[c]) \/ docker[c].state = "removed"

\* A directive that waits for nobody is given a child again, however its last
\* one ended and wherever the worker died, holding the spawn lock or not.
Deserted == /\ directive.state \in {"queued", "running", "requeued"}
            /\ ActiveChildren = {} /\ Fresh # {}
WorkGoesOn == Deserted ~> ~Deserted
=============================================================================
