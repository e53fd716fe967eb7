--------------------------- MODULE ConveyorProofs ---------------------------
(***************************************************************************)
(* For any number of children, requests and faults: the records of a       *)
(* directive keep their shape, whoever waits for a review has a packet to  *)
(* review, and two containers run at a time only if a record was lost.     *)
(*                                                                         *)
(* A record may be written back as it was listed long ago.  What makes     *)
(* that harmless is that packets are never taken away and never change     *)
(* their child or kind, so that what was true of a record when it was      *)
(* listed is true of it still (Held), and that the packet is written       *)
(* before the two records that speak of it (Filing).                       *)
(*                                                                         *)
(* A container counts until its record is lost.  One that counts is that   *)
(* of an active child, so that the reservation of another, made when none  *)
(* is active, finds no container that counts (Counted); and an old record  *)
(* can neither end a child whose container counts nor bring one back to    *)
(* its spawn (Settled, Past).                                              *)
(***************************************************************************)
EXTENDS Conveyor, WellFoundedInduction, TLAPS

-----------------------------------------------------------------------------
(* The least of a set of naturals: the first free number.                  *)
LEMMA LeastExists ==
  ASSUME NEW S \in SUBSET Nat, S # {}
  PROVE  \E m \in S : \A x \in S : m <= x
<1>1. PICK m \in S : \A x \in S : ~(<<x, m>> \in OpToRel(<, Nat))
  BY NatLessThanWellFounded, WFMin
<1>2. \A x \in S : ~(x < m)
  BY <1>1 DEF OpToRel
<1> QED
  BY <1>2

(* The greatest of a bounded one: the latest of a child's packets.         *)
LEMMA GreatestExists ==
  ASSUME NEW B \in Nat, NEW S \in SUBSET (0..B), S # {}
  PROVE  \E m \in S : \A x \in S : m >= x
<1> DEFINE R == {B - x : x \in S}
<1>1. \A x \in S : x \in Nat /\ B - x \in Nat
  OBVIOUS
<1>2. R \in SUBSET Nat
  BY <1>1
<1>3. R # {}
  OBVIOUS
<1>4. PICK r \in R : \A y \in R : r <= y
  BY <1>2, <1>3, LeastExists
<1>5. PICK m \in S : r = B - m
  BY <1>4
<1>6. \A x \in S : B - m <= B - x
  BY <1>4, <1>5
<1> QED
  BY <1>1, <1>6

-----------------------------------------------------------------------------
(* What a thread holds.                                                    *)
Todos == UNION {[S -> ChildRecord] : S \in SUBSET Child}

LEMMA TodoEmpty == <<>> \in Todos
<1>1. <<>> \in [{} -> ChildRecord]
  OBVIOUS
<1> QED
  BY <1>1 DEF Todos

LEMMA TodoListed ==
  ASSUME children \in [Child -> ChildRecord], NEW S \in SUBSET Child
  PROVE  Listed(S) \in Todos
<1>1. Listed(S) \in [S -> ChildRecord]
  BY DEF Listed
<1> QED
  BY <1>1 DEF Todos

LEMMA TodoRead ==
  ASSUME NEW todo \in Todos, NEW c \in DOMAIN todo
  PROVE  c \in Child /\ todo[c] \in ChildRecord
<1>1. PICK S \in SUBSET Child : todo \in [S -> ChildRecord]
  BY DEF Todos
<1> QED
  BY <1>1

LEMMA TodoLess ==
  ASSUME NEW todo \in Todos, NEW x
  PROVE  [c \in DOMAIN todo \ {x} |-> todo[c]] \in Todos
<1>1. PICK S \in SUBSET Child : todo \in [S -> ChildRecord]
  BY DEF Todos
<1>2. [c \in DOMAIN todo \ {x} |-> todo[c]] \in [S \ {x} -> ChildRecord]
  BY <1>1
<1> QED
  BY <1>2 DEF Todos

Stages ==
  {"idle", "children", "inspected", "closing", "filed", "answered", "backfill",
   "cleanup", "removing", "repair", "reservations", "failing", "stopping",
   "forced", "admit", "locking", "reserved", "starting", "started", "spawned"}
Findings ==
  {"", "unknown", "missing", "running", "exited", "backfill", "return",
   "removed", "kept", "ok", "failed"}
Held ==
  [pc : Stages, todo : Todos, at : Child \cup {0}, found : Findings, rec : ChildRecord]

\* Where a thread reads the record it listed, and where it is at a child.
Reading == {"inspected", "removing", "forced"}
Filing == {"filed", "answered"}
AtChild ==
  Reading \cup Filing \cup
    {"closing", "failing", "reserved", "starting", "started", "spawned"}

\* A packet that returns the work of child c was written.
HasReturn(c) ==
  \E n \in DOMAIN packets : packets[n].child = c /\ packets[n].kind = "return"

\* The container of child c may be started, cannot be any more, or is not
\* counted any more.
Starting(c) == proc["tick"].pc \in {"reserved", "starting"} /\ proc["tick"].at = c
Past(c) == children[c].state # "none" /\ ~Starting(c) /\ ~Running(c)
Settled(c) == ~Starting(c) /\ (Running(c) => c \in lost)

\* What a thread holds at its stage: a child, a record it listed, a packet it
\* filed, no record of a returned child without the packet, none of a child
\* that has ended with a container that counts, and the end of a container
\* only if it has ended.
Sound(h) ==
  /\ h.pc \in AtChild => h.at \in Child
  /\ h.pc \in Reading => h.at \in DOMAIN h.todo
  /\ \A c \in DOMAIN h.todo :
       /\ h.todo[c].state = "returned" => HasReturn(c)
       /\ h.todo[c].state # "none" /\ children[c].state # "none"
       /\ h.todo[c].ref => ~Starting(c)
       /\ Terminal(h.todo[c]) => Settled(c)
  /\ h.pc = "filed" \/ (h.pc = "inspected" /\ h.found \in {"missing", "exited"}) =>
       Past(h.at)
  /\ h.pc \in Filing =>
       /\ h.found \in {"return", "missing"}
       /\ \E n \in DOMAIN packets : /\ packets[n].child = h.at
                                    /\ packets[n].kind = h.found

AllSound(f) == f \in [Threads -> Held] /\ \A p \in Threads : Sound(f[p])
ThreadsOK == AllSound(proc)

\* Packets are added, and keep their child and kind.
Kept ==
  /\ packets' \in Seq(Packet)
  /\ \A n \in DOMAIN packets :
       /\ n \in DOMAIN packets'
       /\ packets'[n].child = packets[n].child
       /\ packets'[n].kind = packets[n].kind

\* A container that counts is that of an active child, and while one may be
\* started there is none.
Counted ==
  /\ \A c \in Child : Running(c) => c \in lost \/ Active(children[c])
  /\ \A c \in Child : Starting(c) => Active(children[c]) /\ ~children[c].ref
  /\ proc["tick"].pc \in {"reserved", "starting"} =>
       \A c \in Child : Running(c) => c \in lost

IInv == TypeOK /\ ThreadsOK /\ Filed /\ Counted /\ OneContainer

-----------------------------------------------------------------------------
(* A thread that takes up another sound state leaves the threads sound,     *)
(* and starts no container that it was not about to start.                 *)
Moving == AllSound(proc') /\ \A c : Starting(c)' => Starting(c)

LEMMA Moved ==
  ASSUME ThreadsOK, NEW p \in Threads, NEW h \in Held, Sound(h),
         proc' = [proc EXCEPT ![p] = h],
         h.pc \in {"reserved", "starting"} =>
           proc[p].pc \in {"reserved", "starting"} /\ h.at = proc[p].at
  PROVE  Moving
<1>1. proc' \in [Threads -> Held]
  BY DEF ThreadsOK, AllSound
<1>2. \A q \in Threads : proc'[q] = IF q = p THEN h ELSE proc[q]
  BY DEF ThreadsOK, AllSound
<1>3. ASSUME NEW q \in Threads
      PROVE  Sound(proc'[q])
  <2>1. CASE q = p
    <3>1. proc'[q] = h
      BY <1>2, <2>1
    <3> QED
      BY <3>1
  <2>2. CASE q # p
    <3>1. proc'[q] = proc[q]
      BY <1>2, <2>2
    <3> QED
      BY <3>1 DEF ThreadsOK, AllSound
  <2> QED
    BY <2>1, <2>2
<1>4. ASSUME NEW c, Starting(c)'
      PROVE  Starting(c)
  <2>1. proc'["tick"] = IF p = "tick" THEN h ELSE proc["tick"]
    BY <1>2 DEF Threads
  <2> QED
    BY <1>4, <2>1 DEF Starting
<1> QED
  BY <1>1, <1>3, <1>4 DEF Moving, AllSound

LEMMA Going ==
  ASSUME ThreadsOK, NEW p \in Threads, NEW pc \in Stages, Go(p, pc),
         pc \notin Reading \cup {"filed", "reserved"},
         pc = "starting" => proc[p].pc = "reserved",
         pc \in AtChild => proc[p].at \in Child,
         pc \in Filing => proc[p].pc \in Filing
  PROVE  Moving
<1> DEFINE h == [proc[p] EXCEPT !.pc = pc]
<1>1. proc[p] \in Held /\ Sound(proc[p])
  BY DEF ThreadsOK, AllSound
<1>2. h \in Held
  BY <1>1 DEF Held
<1>3. /\ h.pc = pc /\ h.at = proc[p].at /\ h.todo = proc[p].todo
      /\ h.found = proc[p].found
  BY <1>1 DEF Held
<1>4. Sound(h)
  <2> HIDE DEF h
  <2> QED
    BY <1>1, <1>3 DEF Sound, Reading
<1>5. proc' = [proc EXCEPT ![p] = h]
  BY DEF Go, ThreadsOK, AllSound
<1> HIDE DEF h
<1> QED
  BY <1>2, <1>3, <1>4, <1>5, Moved

LEMMA GoingTo ==
  ASSUME ThreadsOK, NEW p \in Threads, NEW pc \in Stages, NEW c \in Child,
         NEW f \in Findings, GoTo(p, pc, c, f),
         pc \in Reading => c \in DOMAIN proc[p].todo,
         pc \notin Filing \cup {"reserved", "starting"},
         pc = "inspected" /\ f \in {"missing", "exited"} => Past(c)
  PROVE  Moving
<1> DEFINE h == [proc[p] EXCEPT !.pc = pc, !.at = c, !.found = f]
<1>1. proc[p] \in Held /\ Sound(proc[p])
  BY DEF ThreadsOK, AllSound
<1>2. h \in Held
  BY <1>1 DEF Held
<1>3. h.pc = pc /\ h.at = c /\ h.todo = proc[p].todo /\ h.found = f
  BY <1>1 DEF Held
<1>4. Sound(h)
  <2> HIDE DEF h
  <2> QED
    BY <1>1, <1>3 DEF Sound, Filing
<1>5. proc' = [proc EXCEPT ![p] = h]
  BY DEF GoTo, ThreadsOK, AllSound
<1> HIDE DEF h
<1> QED
  BY <1>2, <1>3, <1>4, <1>5, Moved

\* The records are listed as they are.
LEMMA Beginning ==
  ASSUME TypeOK, ThreadsOK, Filed, Counted, NEW p \in Threads, NEW pc \in Stages,
         NEW S \in SUBSET Child, Begin(p, pc, Listed(S)), pc \notin AtChild,
         \A c \in S : children[c].state # "none"
  PROVE  Moving
<1> DEFINE h == [proc[p] EXCEPT !.pc = pc, !.todo = Listed(S)]
<1>1. proc[p] \in Held /\ Sound(proc[p])
  BY DEF ThreadsOK, AllSound
<1>2. Listed(S) \in Todos
  BY TodoListed DEF TypeOK
<1>3. h \in Held /\ h.pc = pc /\ h.todo = Listed(S)
  BY <1>1, <1>2 DEF Held
<1>4. ASSUME NEW c \in DOMAIN Listed(S)
      PROVE  /\ Listed(S)[c].state = "returned" => HasReturn(c)
             /\ Listed(S)[c].state # "none" /\ children[c].state # "none"
             /\ Listed(S)[c].ref => ~Starting(c)
             /\ Terminal(Listed(S)[c]) => Settled(c)
  <2>1. c \in S /\ c \in Child /\ Listed(S)[c] = children[c]
    BY DEF Listed
  <2> QED
    BY <2>1 DEF Filed, HasReturn, Counted, Settled, Active
<1>5. Sound(h)
  <2> HIDE DEF h
  <2> QED
    BY <1>1, <1>3, <1>4 DEF Sound, AtChild, Reading, Filing
<1>6. proc' = [proc EXCEPT ![p] = h]
  BY DEF Begin, ThreadsOK, AllSound
<1> HIDE DEF h
<1> QED
  BY <1>3, <1>5, <1>6, Moved DEF AtChild

LEMMA IdleSound == Idle \in Held /\ Sound(Idle)
<1>1. Unborn \in ChildRecord
  BY DEF Unborn, ChildRecord
<1>2. Idle \in Held
  BY <1>1, TodoEmpty DEF Idle, Held, Stages, Findings
<1>3. Idle.pc = "idle" /\ Idle.todo = <<>>
  BY DEF Idle
<1>4. DOMAIN <<>> = {}
  OBVIOUS
<1> QED
  BY <1>2, <1>3, <1>4 DEF Sound, AtChild, Reading, Filing

LEMMA Stopping ==
  ASSUME ThreadsOK, NEW p \in Threads, Stop(p)
  PROVE  Moving
<1>1. Idle.pc = "idle"
  BY DEF Idle
<1> QED
  BY <1>1, IdleSound, Moved DEF Stop

LEMMA BackToList ==
  ASSUME ThreadsOK, NEW p \in Threads, NEW pc \in Stages, Done(p, pc), pc \notin AtChild
  PROVE  Moving
<1> DEFINE rest == [c \in DOMAIN proc[p].todo \ {proc[p].at} |-> proc[p].todo[c]]
           h == [Idle EXCEPT !.pc = pc, !.todo = rest]
<1>1. proc[p] \in Held /\ Sound(proc[p])
  BY DEF ThreadsOK, AllSound
<1>2. rest \in Todos
  BY <1>1, TodoLess DEF Held
<1>3. \A c \in DOMAIN rest :
         /\ rest[c].state = "returned" => HasReturn(c)
         /\ rest[c].state # "none" /\ children[c].state # "none"
         /\ rest[c].ref => ~Starting(c)
         /\ Terminal(rest[c]) => Settled(c)
  BY <1>1 DEF Sound
<1>4. proc' = [proc EXCEPT ![p] = h]
  BY DEF Done
<1> HIDE DEF rest
<1>5. h \in Held /\ h.pc = pc /\ h.todo = rest
  BY <1>2, IdleSound DEF Held
<1> HIDE DEF h
<1>6. Sound(h)
  BY <1>3, <1>5 DEF Sound, AtChild, Reading, Filing
<1> QED
  BY <1>4, <1>5, <1>6, Moved DEF AtChild

-----------------------------------------------------------------------------
(* A packet is added or decided on, and none is taken away.                *)
LEMMA Decided ==
  ASSUME TypeOK, NEW f, DOMAIN f = DOMAIN packets,
         \A n \in DOMAIN packets : f[n] \in Packet
                                     /\ f[n].child = packets[n].child
                                     /\ f[n].kind = packets[n].kind,
         packets' = [n \in DOMAIN packets |-> f[n]]
  PROVE  Kept
<1>1. Len(packets) \in Nat /\ DOMAIN packets = 1..Len(packets)
  BY DEF TypeOK
<1>2. packets' \in [1..Len(packets) -> Packet]
  BY <1>1
<1>3. packets' \in Seq(Packet)
  BY <1>1, <1>2
<1> QED
  BY <1>3 DEF Kept

LEMMA PacketsStep ==
  ASSUME TypeOK, ThreadsOK, [Next]_vars
  PROVE  Kept
<1>1. \A n \in DOMAIN packets : packets[n] \in Packet
  BY DEF TypeOK
<1>3. ASSUME NEW p \in Threads, FilePacket(p)
      PROVE  Kept
  <2>1. proc[p].at \in Child
    BY <1>3 DEF FilePacket, Ended, Found, At, ThreadsOK, AllSound, Sound, AtChild, Reading
  <2>2. PICK k \in {"return", "missing"} :
          packets' = Append(packets, [child |-> proc[p].at, kind |-> k,
                                      review |-> "pending", weighed |-> "no"])
    BY <1>3 DEF FilePacket, AddPacket
  <2>3. [child |-> proc[p].at, kind |-> k, review |-> "pending", weighed |-> "no"] \in Packet
    BY <2>1 DEF Packet
  <2> QED
    BY <2>2, <2>3 DEF TypeOK, Kept
<1>4. ASSUME NEW p \in Threads, Evaluate(p)
      PROVE  Kept
  <2>1. CASE UNCHANGED packets
    BY <2>1 DEF Kept, TypeOK
  <2>2. CASE packets' # packets
    <3>1. PICK again \in SUBSET Pending :
            packets' = [n \in DOMAIN packets |->
               IF n \notin Pending THEN packets[n]
               ELSE [packets[n] EXCEPT
                       !.review = IF n \in {m \in Pending : Overtaken(m)} \cup again
                                    THEN "requeued" ELSE @,
                       !.weighed = IF n \in {m \in Pending : Overtaken(m)} THEN @ ELSE "yes"]]
      BY <1>4, <2>2 DEF Evaluate
    <3> DEFINE f == [n \in DOMAIN packets |-> 
               IF n \notin Pending THEN packets[n]
               ELSE [packets[n] EXCEPT
                       !.review = IF n \in {m \in Pending : Overtaken(m)} \cup again
                                    THEN "requeued" ELSE @,
                       !.weighed = IF n \in {m \in Pending : Overtaken(m)} THEN @ ELSE "yes"]]
    <3>2. \A n \in DOMAIN packets : f[n] \in Packet
                                     /\ f[n].child = packets[n].child
                                     /\ f[n].kind = packets[n].kind
      BY <1>1 DEF Packet
    <3> QED
      BY <3>1, <3>2, Decided
  <2> QED
    BY <2>1, <2>2
<1>5. ASSUME RepairIntegrity
      PROVE  Kept
  <2>1. \A n \in DOMAIN packets :
          /\ Requeued(n) \in Packet
          /\ Requeued(n).child = packets[n].child
          /\ Requeued(n).kind = packets[n].kind
    BY <1>1 DEF Requeued, Packet
  <2>2. PICK Z : packets' = [n \in DOMAIN packets |->
                               IF n \in Z THEN Requeued(n) ELSE packets[n]]
    BY <1>5 DEF RepairIntegrity
  <2> DEFINE f == [n \in DOMAIN packets |-> IF n \in Z THEN Requeued(n) ELSE packets[n]]
  <2>3. \A n \in DOMAIN packets : /\ f[n] \in Packet
                                  /\ f[n].child = packets[n].child
                                  /\ f[n].kind = packets[n].kind
    BY <1>1, <2>1
  <2> QED
    BY <2>2, <2>3, Decided
<1>6. ASSUME NEW m \in DOMAIN packets, NEW d \in {"accepted", "requeued"}, Decide(m, d)
      PROVE  Kept
  <2>1. PICK Z : packets' = [n \in DOMAIN packets |->
                  IF n \in Z THEN [packets[n] EXCEPT !.review = d] ELSE packets[n]]
    <3> DEFINE Z == {n \in DOMAIN packets :
                       n = m \/ (/\ d = "requeued" /\ n \in Pending
                                 /\ packets[n].child = packets[m].child)}
    <3>1. packets' = [n \in DOMAIN packets |->
                  IF n \in Z THEN [packets[n] EXCEPT !.review = d] ELSE packets[n]]
      BY <1>6, Zenon DEF Decide
    <3> QED
      BY <3>1
  <2> DEFINE f == [n \in DOMAIN packets |->
                  IF n \in Z THEN [packets[n] EXCEPT !.review = d] ELSE packets[n]]
  <2>2. \A n \in DOMAIN packets : /\ f[n] \in Packet
                                  /\ f[n].child = packets[n].child
                                  /\ f[n].kind = packets[n].kind
    BY <1>1 DEF Packet
  <2> QED
    BY <2>1, <2>2, Decided
<1>7. CASE UNCHANGED packets
  BY <1>7 DEF Kept, TypeOK
<1> QED
  BY <1>3, <1>4, <1>5, <1>6, <1>7
     DEF Next, Pass, Repair, Spawn, OperatorActs, Host, records, vars, Reconcile,
         Inspect, KeepRecord, CloseChild, CloseDirective, FileAgain, FileChild,
         FileDirective, Backfill, Remove, RecordRemoval, RepairLinks,
         FailReservation, ReleaseReservation, ForceRemove, RecordStop,
         ClearPhantom, BoundedTick, Admit, Reserve, ReserveDirective, DockerRun,
         RecordSpawn, SpawnDirective, Feedback, AskStop, Exit, Vanish, Age, Crash

-----------------------------------------------------------------------------
(* A directive that is returned for review names a packet.                 *)
Awaits(d) ==
  d \in Directive /\ (d.state = "returned_for_review" => d.latest \in DOMAIN packets)

LEMMA LatestExists ==
  ASSUME TypeOK, NEW c, NEW n \in DOMAIN packets, packets[n].child = c
  PROVE  LET mine == {m \in DOMAIN packets : packets[m].child = c} IN
         (CHOOSE m \in mine : \A x \in mine : x <= m) \in DOMAIN packets \cap Nat
<1> DEFINE mine == {m \in DOMAIN packets : packets[m].child = c}
<1>1. Len(packets) \in Nat /\ DOMAIN packets = 1..Len(packets)
  BY DEF TypeOK
<1>2. mine \in SUBSET (0..Len(packets)) /\ mine # {} /\ mine \subseteq DOMAIN packets
  BY <1>1
<1> HIDE DEF mine
<1>3. \E m \in mine : \A x \in mine : m >= x
  BY <1>1, <1>2, GreatestExists
<1>4. \E m \in mine : \A x \in mine : x <= m
  BY <1>1, <1>2, <1>3
<1>5. (CHOOSE m \in mine : \A x \in mine : x <= m) \in mine
  BY <1>4
<1> QED
  BY <1>1, <1>2, <1>5 DEF mine

LEMMA Set ==
  ASSUME TypeOK, NEW s \in {"queued", "running", "requeued", "accepted"},
         NEW c \in Child \cup {0}, SetDirective(s, c)
  PROVE  Awaits(directive')
<1>1. directive' = [directive EXCEPT !.state = s, !.active = c] /\ directive \in Directive
  BY DEF SetDirective, TypeOK
<1>2. directive' \in Directive /\ directive'.state = s
  BY <1>1 DEF Directive
<1> QED
  BY <1>2 DEF Awaits

LEMMA Renamed ==
  ASSUME TypeOK, Filed, NEW c \in Child \cup {0},
         directive' = [directive EXCEPT !.active = c]
  PROVE  Awaits(directive')
<1>1. /\ directive' \in Directive /\ directive'.state = directive.state
      /\ directive'.latest = directive.latest
  BY DEF TypeOK, Directive
<1> QED
  BY <1>1 DEF Awaits, Filed, Awaited

LEMMA DirectiveStep ==
  ASSUME TypeOK, ThreadsOK, Filed, [Next]_vars
  PROVE  Awaits(directive')
<1> USE DEF At
<1>0. \A c : c \in ActiveChildren => c \in Child
  BY DEF ActiveChildren
<1>1. ASSUME UNCHANGED directive
      PROVE  Awaits(directive')
  BY <1>1 DEF TypeOK, Filed, Awaited, Awaits
<1>2. ASSUME NEW s \in {"queued", "running", "requeued", "accepted"}, SetDirective(s, 0)
      PROVE  Awaits(directive')
  BY <1>2, Set
<1>3. ASSUME NEW p \in Threads, FileDirective(p)
      PROVE  Awaits(directive')
  <2>1. PICK n \in DOMAIN packets : packets[n].child = proc[p].at
    BY <1>3 DEF FileDirective, ThreadsOK, AllSound, Sound, Filing
  <2> DEFINE mine == {m \in DOMAIN packets : packets[m].child = proc[p].at}
             last == CHOOSE m \in mine : \A x \in mine : x <= m
  <2>2. last \in DOMAIN packets \cap Nat
    BY <2>1, LatestExists
  <2>3. directive' = [state |-> "returned_for_review", active |-> 0, latest |-> last]
    BY <1>3 DEF FileDirective
  <2> HIDE DEF last
  <2> QED
    BY <2>2, <2>3 DEF Awaits, Directive
<1>4. ASSUME NEW p \in Threads, Evaluate(p)
      PROVE  Awaits(directive')
  BY <1>4, <1>1, <1>2 DEF Evaluate
<1>5. ASSUME RepairLinks
      PROVE  Awaits(directive')
  <2>1. CASE \E c \in ActiveChildren : SetDirective("running", c)
    BY <1>0, <2>1, Set
  <2>2. CASE directive' = [directive EXCEPT !.active = 0]
    BY <2>2, Renamed
  <2> QED
    BY <1>1, <1>5, <2>1, <2>2 DEF RepairLinks
<1>6. ASSUME RepairIntegrity
      PROVE  Awaits(directive')
  <2>1. CASE \E c \in Child : directive' = [directive EXCEPT !.state = "running", !.active = c]
    BY <2>1, Set DEF SetDirective
  <2>2. CASE UNCHANGED directive
    BY <1>1, <2>2
  <2>3. \/ UNCHANGED directive
        \/ \E c \in ActiveChildren :
             directive' = [directive EXCEPT !.state = "running", !.active = c]
    BY <1>6 DEF RepairIntegrity
  <2> QED
    BY <1>0, <2>1, <2>2, <2>3
<1>7. ASSUME ClearPhantom
      PROVE  Awaits(directive')
  <2>1. CASE directive.state = "running" /\ directive' = PhantomCleared
    <3>1. directive' = [directive EXCEPT !.state = "requeued", !.active = 0]
      BY <2>1 DEF PhantomCleared, TypeOK, Directive
    <3> QED
      BY <3>1, Set DEF SetDirective
  <2>2. CASE directive.state # "running" /\ directive' = PhantomCleared
    <3>1. directive' = [directive EXCEPT !.active = 0]
      BY <2>2 DEF PhantomCleared, TypeOK, Directive
    <3> QED
      BY <3>1, Renamed
  <2> QED
    BY <1>1, <1>7, <2>1, <2>2 DEF ClearPhantom
<1>8. ASSUME ReserveDirective \/ SpawnDirective
      PROVE  Awaits(directive')
  <2>1. proc["tick"].at \in Child
    BY <1>8 DEF ReserveDirective, SpawnDirective, ThreadsOK, AllSound, Sound, AtChild, Threads
  <2>2. CASE SetDirective("running", proc["tick"].at)
    BY <2>1, <2>2, Set
  <2> QED
    BY <1>2, <1>8, <2>2 DEF ReserveDirective, SpawnDirective
<1>9. ASSUME NEW p \in Threads, CloseDirective(p)
      PROVE  Awaits(directive')
  BY <1>2, <1>9 DEF CloseDirective
<1>10. ASSUME ReleaseReservation \/ Feedback
       PROVE  Awaits(directive')
  BY <1>1, <1>2, <1>10 DEF ReleaseReservation, Feedback
<1>11. ASSUME NEW m \in DOMAIN packets, NEW d \in {"accepted", "requeued"}, Decide(m, d)
       PROVE  Awaits(directive')
  BY <1>2, <1>11 DEF Decide
<1> QED
  BY <1>1, <1>3, <1>4, <1>5, <1>6, <1>7, <1>8, <1>9, <1>10, <1>11
     DEF Next, Pass, Repair, Spawn, OperatorActs, Host, vars, Reconcile,
         Inspect, KeepRecord, CloseChild, FilePacket, FileAgain, FileChild,
         Backfill, Remove, RecordRemoval,
         FailReservation, ForceRemove, RecordStop,
         BoundedTick, Admit, Reserve, DockerRun,
         RecordSpawn, AskStop, Exit, Vanish, Age, Crash

-----------------------------------------------------------------------------
(* Containers, locks and ages.                                             *)
HostOK ==
  /\ docker \in [Child -> Container]
  /\ lock \in {"none", "made", "held"}
  /\ aged \subseteq Child \cup {0}
  /\ lost \subseteq Child

LEMMA Holder ==
  ASSUME ThreadsOK, NEW p \in Threads, proc[p].pc \in AtChild
  PROVE  /\ proc[p].at \in Child
         /\ proc[p].pc \in Reading =>
              /\ Read(p) \in ChildRecord
              /\ Read(p).state = "returned" => HasReturn(proc[p].at)
              /\ Read(p).state # "none"
              /\ Read(p).ref => ~Starting(proc[p].at)
              /\ Terminal(Read(p)) => Settled(proc[p].at)
<1>1. proc[p].todo \in Todos /\ Sound(proc[p])
  BY DEF ThreadsOK, AllSound, Held
<1>2. proc[p].at \in Child
  BY <1>1 DEF Sound
<1>3. ASSUME proc[p].pc \in Reading
      PROVE  /\ Read(p) \in ChildRecord
             /\ Read(p).state = "returned" => HasReturn(proc[p].at)
             /\ Read(p).state # "none"
             /\ Read(p).ref => ~Starting(proc[p].at)
             /\ Terminal(Read(p)) => Settled(proc[p].at)
  BY <1>1, <1>3, TodoRead DEF Sound, Read
<1> QED
  BY <1>2, <1>3

LEMMA DockerWritten ==
  ASSUME TypeOK, NEW c \in Child, NEW s \in {"running", "exited", "removed"}
  PROVE  /\ [docker EXCEPT ![c].state = s] \in [Child -> Container]
         /\ \A e \in Evidence :
              [docker EXCEPT ![c] = [state |-> s, left |-> e]] \in [Child -> Container]
         /\ docker[c].left \in Evidence
  BY DEF TypeOK, Container

LEMMA HostStep ==
  ASSUME TypeOK, ThreadsOK, [Next]_vars
  PROVE  HostOK'
<1> USE DEF At
<1>1. HostOK /\ "tick" \in Threads
  BY DEF TypeOK, HostOK, Threads
<1>2. \A p \in Threads : proc[p].pc \in AtChild => proc[p].at \in Child
  BY Holder
<1>3. CASE UNCHANGED <<docker, lock, aged, lost>>
  BY <1>1, <1>3 DEF HostOK
<1>4. ASSUME NEW p \in Threads, KeepRecord(p)
      PROVE  HostOK'
  BY <1>1, <1>2, <1>4 DEF KeepRecord, Found, HostOK, AtChild, Reading
<1>5. ASSUME NEW c \in Child, \E p \in Threads : Remove(p, c)
      PROVE  HostOK'
  <2>1. docker' = docker \/ docker' = [docker EXCEPT ![c].state = "removed"]
    BY <1>5 DEF Remove
  <2>2. docker' \in [Child -> Container]
    BY <1>1, <2>1, DockerWritten DEF HostOK
  <2> QED
    BY <1>1, <1>5, <2>2 DEF Remove, HostOK
<1>6. ASSUME NEW c \in Child, ForceRemove(c)
      PROVE  HostOK'
  <2>1. PICK e \in Evidence :
          docker' = docker \/ docker' = [docker EXCEPT ![c] = [state |-> "removed", left |-> e]]
    BY <1>1, <1>6, DockerWritten DEF ForceRemove, HostOK, Evidence
  <2>2. [docker EXCEPT ![c] = [state |-> "removed", left |-> e]] \in [Child -> Container]
    BY DockerWritten
  <2>3. docker' \in [Child -> Container]
    BY <1>1, <2>1, <2>2 DEF HostOK
  <2> QED
    BY <1>1, <1>6, <2>3 DEF ForceRemove, HostOK
<1>7. ASSUME NEW c \in Child, Exit(c) \/ Vanish(c)
      PROVE  HostOK'
  <2>1. docker[c].left \in Evidence
    BY DockerWritten
  <2>2. docker' \in [Child -> Container]
    <3>1. CASE Exit(c)
      <4>1. PICK e \in Evidence : docker' = [docker EXCEPT ![c] = [state |-> "exited", left |-> e]]
        BY <3>1 DEF Exit
      <4> QED
        BY <4>1, DockerWritten
    <3>2. CASE Vanish(c)
      <4>1. PICK e \in Evidence : docker' = [docker EXCEPT ![c] = [state |-> "removed", left |-> e]]
        BY <2>1, <3>2 DEF Vanish
      <4> QED
        BY <4>1, DockerWritten
    <3> QED
      BY <1>7, <3>1, <3>2
  <2> QED
    BY <1>1, <1>7, <2>2 DEF Exit, Vanish, HostOK
<1>8. ASSUME DockerRun
      PROVE  HostOK'
  <2>1. proc["tick"].at \in Child
    BY <1>1, <1>2, <1>8 DEF DockerRun, AtChild
  <2>2. docker' = docker \/ docker' = [docker EXCEPT ![proc["tick"].at].state = "running"]
    BY <1>8 DEF DockerRun
  <2>3. [docker EXCEPT ![proc["tick"].at].state = "running"] \in [Child -> Container]
    BY <2>1, DockerWritten
  <2>4. docker' \in [Child -> Container]
    BY <1>1, <2>2, <2>3 DEF HostOK
  <2> QED
    BY <1>1, <1>8, <2>4 DEF DockerRun, HostOK
<1>9. ASSUME RecordStop \/ RecordSpawn
      PROVE  HostOK'
  BY <1>1, <1>2, <1>9 DEF RecordStop, RecordSpawn, HostOK, AtChild, Reading
<1>10. ASSUME FailReservation \/ RepairIntegrity \/ Admit \/ Reserve
              \/ SpawnDirective \/ Age \/ Crash
       PROVE  HostOK'
  BY <1>1, <1>10
     DEF FailReservation, RepairIntegrity, Admit, Reserve, SpawnDirective, Age,
         Crash, HostOK, world
<1> QED
  BY <1>3, <1>4, <1>5, <1>6, <1>7, <1>8, <1>9, <1>10
     DEF Next, Pass, Repair, Spawn, OperatorActs, Host, vars, world, Reconcile,
         Inspect, CloseChild, CloseDirective, FilePacket, FileAgain, FileChild,
         FileDirective, Backfill, RecordRemoval, Evaluate, RepairLinks, ReleaseReservation,
         ClearPhantom, BoundedTick, ReserveDirective, Feedback, AskStop, Decide

\* A container is only started where it was about to be, and a record that was
\* lost stays so.
Grown ==
  /\ lost \subseteq lost'
  /\ \A c \in Child : Running(c)' => Running(c) \/ (Starting(c) /\ DockerRun)

LEMMA GrownStep ==
  ASSUME TypeOK, [Next]_vars
  PROVE  Grown
<1>1. docker \in [Child -> Container]
  BY DEF TypeOK
<1>2. CASE UNCHANGED docker /\ lost \subseteq lost'
  BY <1>2 DEF Grown, Running
<1>3. ASSUME KeepRecord("tick") \/ KeepRecord("web") \/ FailReservation \/ RecordStop
             \/ RecordSpawn \/ Crash
      PROVE  UNCHANGED docker /\ lost \subseteq lost'
  BY <1>3 DEF KeepRecord, FailReservation, RecordStop, RecordSpawn, Crash
<1>4. ASSUME NEW c \in Child, \/ Remove("tick", c) \/ Remove("web", c) \/ ForceRemove(c)
                              \/ Exit(c) \/ Vanish(c)
      PROVE  Grown
  <2>1. UNCHANGED lost
    BY <1>4 DEF Remove, ForceRemove, Exit, Vanish
  <2>2. \/ docker' = docker
        \/ docker' = [docker EXCEPT ![c].state = "removed"]
        \/ \E e : docker' = [docker EXCEPT ![c] = [state |-> "removed", left |-> e]]
        \/ \E e : docker' = [docker EXCEPT ![c] = [state |-> "exited", left |-> e]]
    BY <1>4 DEF Remove, ForceRemove, Exit, Vanish
  <2>3. docker[c] \in Container
    BY <1>1
  <2>4. docker'[c] = docker[c] \/ docker'[c].state \in {"removed", "exited"}
    BY <1>1, <2>2, <2>3 DEF Container
  <2>5. \A d \in Child : d # c => docker'[d] = docker[d]
    BY <1>1, <2>2
  <2> QED
    BY <2>1, <2>4, <2>5 DEF Grown, Running
<1>5. ASSUME DockerRun
      PROVE  Grown
  <2>1. UNCHANGED lost
    BY <1>5 DEF DockerRun
  <2>2. \A d \in Child : d # proc["tick"].at => docker'[d] = docker[d]
    BY <1>1, <1>5 DEF DockerRun
  <2>3. Starting(proc["tick"].at)
    BY <1>5 DEF DockerRun, At, Starting
  <2> QED
    BY <1>5, <2>1, <2>2, <2>3 DEF Grown, Running
<1> QED
  BY <1>2, <1>3, <1>4, <1>5
     DEF Next, Pass, Repair, Spawn, OperatorActs, Host, vars, world, Threads, Reconcile,
         Inspect, CloseChild, CloseDirective, FilePacket, FileAgain, FileChild,
         FileDirective, Backfill, RecordRemoval, Evaluate, RepairLinks,
         ReleaseReservation, RepairIntegrity, ClearPhantom, BoundedTick, Admit,
         Reserve, ReserveDirective, SpawnDirective, Feedback, AskStop, Decide, Age

-----------------------------------------------------------------------------
(* A record is written with what was read, says "returned" only when the   *)
(* packet is there, and ends only when its container does not count.       *)
Answered(f) ==
  /\ f \in [Child -> ChildRecord]
  /\ \A c \in Child :
       /\ f[c].state = "returned" => HasReturn(c)
       /\ f[c].state = "none" => children[c].state = "none"
       /\ Running(c) => c \in lost' \/ Active(f[c])
       /\ Starting(c) => Active(f[c]) /\ ~f[c].ref

\* A record may be ended if its container does not count, and a container that
\* may be started is that of an active record without a reference.
Writable(c, r) ==
  \/ Active(r) /\ (r.ref => ~Starting(c))
  \/ ~Starting(c) /\ (Running(c) => c \in lost')

LEMMA Written ==
  ASSUME TypeOK, Filed, Counted, lost \subseteq lost', NEW c \in Child,
         NEW r \in ChildRecord, WriteChild(c, r),
         r.state = "returned" => HasReturn(c), r.state # "none", Writable(c, r)
  PROVE  Answered(children')
<1>1. children' = [children EXCEPT ![c] = r] /\ children \in [Child -> ChildRecord]
  BY DEF WriteChild, TypeOK
<1>2. children' \in [Child -> ChildRecord]
  BY <1>1
<1>3. \A d \in Child : children'[d] = IF d = c THEN r ELSE children[d]
  BY <1>1
<1>4. \A d \in Child : children[d].state = "returned" => HasReturn(d)
  BY DEF Filed, HasReturn
<1>5. \A d \in Child :
         /\ Running(d) => d \in lost' \/ Active(children'[d])
         /\ Starting(d) => Active(children'[d]) /\ ~children'[d].ref
  BY <1>3 DEF Counted, Writable
<1>6. \A d \in Child : children'[d].state = "none" => children[d].state = "none"
  BY <1>3
<1>7. \A d \in Child : children'[d].state = "returned" => HasReturn(d)
  BY <1>3, <1>4
<1> QED
  BY <1>2, <1>5, <1>6, <1>7 DEF Answered

Ends == {"failed", "stopped"}

LEMMA Finished ==
  ASSUME NEW r \in ChildRecord, NEW s \in Ends
  PROVE  /\ [r EXCEPT !.state = s] \in ChildRecord
         /\ [r EXCEPT !.state = s].state = s
         /\ [r EXCEPT !.state = s, !.closed = TRUE] \in ChildRecord
         /\ [r EXCEPT !.state = s, !.closed = TRUE].state = s
         /\ [r EXCEPT !.state = s, !.stop = TRUE] \in ChildRecord
         /\ [r EXCEPT !.state = s, !.stop = TRUE].state = s
  BY DEF ChildRecord, Ends

LEMMA Noted ==
  ASSUME NEW r \in ChildRecord, NEW b \in BOOLEAN
  PROVE  /\ [r EXCEPT !.stop = b] \in ChildRecord
         /\ [r EXCEPT !.stop = b].state = r.state
         /\ [r EXCEPT !.removed = b] \in ChildRecord
         /\ [r EXCEPT !.removed = b].state = r.state
         /\ [r EXCEPT !.removed = b].ref = r.ref /\ [r EXCEPT !.stop = b].ref = r.ref
         /\ r.stop \in BOOLEAN
  BY DEF ChildRecord

LEMMA FirstFresh ==
  ASSUME Fresh # {}
  PROVE  (CHOOSE x \in Fresh : \A y \in Fresh : x <= y) \in Fresh \cap Child
<1>1. Fresh \in SUBSET Nat /\ Fresh \subseteq Child
  BY ConveyorAssumption DEF Fresh, Child
<1>2. \E x \in Fresh : \A y \in Fresh : x <= y
  BY <1>1, LeastExists
<1> QED
  BY <1>1, <1>2

LEMMA ChildrenStep ==
  ASSUME TypeOK, ThreadsOK, Filed, Counted, [Next]_vars
  PROVE  Answered(children')
<1> USE DEF At
<1>0. /\ "tick" \in Threads /\ children \in [Child -> ChildRecord]
      /\ lost \subseteq lost'
  BY GrownStep DEF Threads, TypeOK, Grown
<1>1. CASE UNCHANGED children
  BY <1>0, <1>1 DEF Filed, HasReturn, Counted, Answered
<1>2. ASSUME NEW p \in Threads, KeepRecord(p)
      PROVE  Answered(children')
  <2>1. proc[p].pc = "inspected"
    BY <1>2 DEF KeepRecord, Found
  <2>2. /\ Read(p) \in ChildRecord /\ proc[p].at \in Child
        /\ Read(p).state = "returned" => HasReturn(proc[p].at)
        /\ Read(p).state # "none"
    BY <2>1, Holder DEF AtChild, Reading
  <2>3. Writable(proc[p].at, Read(p))
    BY <1>0, <2>1, <2>2, Holder DEF AtChild, Reading, Writable, Active, Settled
  <2> QED
    BY <1>0, <1>2, <2>2, <2>3, Written DEF KeepRecord
<1>3. ASSUME NEW p \in Threads, CloseChild(p)
      PROVE  Answered(children')
  <2>1. proc[p].pc = "inspected"
    BY <1>3 DEF CloseChild, Found, Ended
  <2>2. Read(p) \in ChildRecord /\ proc[p].at \in Child
    BY <2>1, Holder DEF AtChild, Reading
  <2>3. PICK s \in {"stopped", "failed"} :
          WriteChild(proc[p].at, [Read(p) EXCEPT !.state = s, !.closed = TRUE])
    BY <1>3 DEF CloseChild
  <2>4. \A x : Writable(proc[p].at, x)
    <3>1. Past(proc[p].at)
      BY <1>3 DEF CloseChild, Found, Ended, ThreadsOK, AllSound, Sound
    <3> QED
      BY <3>1 DEF Past, Writable
  <2> QED
    BY <1>0, <2>2, <2>3, <2>4, Finished, Written DEF Ends
<1>4. ASSUME NEW p \in Threads, FileAgain(p)
      PROVE  Answered(children')
  <2>1. proc[p].at \in Child
    BY <1>4, Holder DEF FileAgain, Ended, Found, AtChild, Reading
  <2>2. children[proc[p].at] \in ChildRecord
    BY <1>0, <2>1
  <2>3. \/ UNCHANGED children
        \/ WriteChild(proc[p].at, [children[proc[p].at] EXCEPT !.state = "failed"])
    BY <1>4 DEF FileAgain
  <2>4. \A x : Writable(proc[p].at, x)
    <3>1. Past(proc[p].at)
      BY <1>4 DEF FileAgain, Ended, Found, ThreadsOK, AllSound, Sound
    <3> QED
      BY <3>1 DEF Past, Writable
  <2> QED
    BY <1>0, <1>1, <2>1, <2>2, <2>3, <2>4, Finished, Written DEF Ends
<1>5. ASSUME NEW p \in Threads, FileChild(p)
      PROVE  Answered(children')
  <2>1. Sound(proc[p]) /\ proc[p] \in Held /\ proc[p].pc = "filed"
    BY <1>5 DEF FileChild, ThreadsOK, AllSound
  <2>2. proc[p].rec \in ChildRecord /\ proc[p].at \in Child
    BY <2>1 DEF Held, Sound, AtChild, Filing
  <2>3. WriteChild(proc[p].at, [proc[p].rec EXCEPT !.state = EndState(proc[p].found)])
    BY <1>5 DEF FileChild
  <2>4. \A x : Writable(proc[p].at, x)
    <3>1. Past(proc[p].at)
      BY <2>1 DEF Sound
    <3> QED
      BY <3>1 DEF Past, Writable
  <2>5. CASE proc[p].found = "return"
    <3>1. HasReturn(proc[p].at)
      BY <2>1, <2>5 DEF Sound, Filing, HasReturn
    <3>2. /\ [proc[p].rec EXCEPT !.state = "returned"] \in ChildRecord
          /\ [proc[p].rec EXCEPT !.state = "returned"].state # "none"
      BY <2>2 DEF ChildRecord
    <3> QED
      BY <1>0, <2>2, <2>3, <2>4, <2>5, <3>1, <3>2, Written DEF EndState
  <2>6. CASE proc[p].found # "return"
    <3>1. WriteChild(proc[p].at, [proc[p].rec EXCEPT !.state = "failed"])
      BY <2>3, <2>6 DEF EndState
    <3> QED
      BY <1>0, <2>2, <2>4, <3>1, Finished, Written DEF Ends
  <2> QED
    BY <2>5, <2>6
<1>6. ASSUME NEW p \in Threads, Backfill(p)
      PROVE  Answered(children')
  <2>1. \/ UNCHANGED children
        \/ /\ directive.active \in Child /\ Terminal(children[directive.active])
           /\ WriteChild(directive.active,
                [children[directive.active] EXCEPT !.state = "failed", !.closed = TRUE])
    BY <1>6 DEF Backfill, TypeOK, Directive
  <2>2. directive.active \in Child => children[directive.active] \in ChildRecord
    BY <1>0
  <2>3. Terminal(children[directive.active]) /\ directive.active \in Child =>
          \A x : Writable(directive.active, x)
    BY <1>0 DEF Counted, Writable, Active
  <2> QED
    BY <1>0, <1>1, <2>1, <2>2, <2>3, Finished, Written DEF Ends
<1>7. ASSUME NEW p \in Threads, RecordRemoval(p)
      PROVE  Answered(children')
  <2>1. /\ proc[p].pc = "removing"
        /\ WriteChild(proc[p].at, [Read(p) EXCEPT !.removed = (proc[p].found = "removed")])
    BY <1>7 DEF RecordRemoval
  <2>2. /\ Read(p) \in ChildRecord /\ proc[p].at \in Child
        /\ Read(p).state = "returned" => HasReturn(proc[p].at)
        /\ Read(p).state # "none"
        /\ Read(p).ref => ~Starting(proc[p].at)
        /\ Terminal(Read(p)) => Settled(proc[p].at)
    BY <2>1, Holder DEF AtChild, Reading
  <2> DEFINE b == proc[p].found = "removed"
             w == [Read(p) EXCEPT !.removed = b]
  <2>3. b \in BOOLEAN
    OBVIOUS
  <2>4. w \in ChildRecord /\ w.state = Read(p).state /\ w.ref = Read(p).ref
    BY <2>2, <2>3, Noted
  <2>5. WriteChild(proc[p].at, w)
    BY <2>1
  <2> HIDE DEF w
  <2>6. Writable(proc[p].at, w)
    BY <1>0, <2>2, <2>4 DEF Writable, Active, Terminal, Settled
  <2> QED
    BY <1>0, <2>2, <2>4, <2>5, <2>6, Written
<1>8. ASSUME FailReservation
      PROVE  Answered(children')
  <2>1. PICK c \in Child :
          /\ WriteChild(c, [children[c] EXCEPT !.state = "failed", !.closed = TRUE])
          /\ lost' = IF Running(c) THEN lost \cup {c} ELSE lost
    BY <1>8 DEF FailReservation
  <2>2. Running(c) => c \in lost'
    BY <2>1
  <2>3. \A x : Writable(c, x)
    BY <1>8, <2>2 DEF FailReservation, Starting, Writable
  <2> QED
    BY <1>0, <2>1, <2>3, Finished, Written DEF Ends
<1>9. ASSUME RecordStop
      PROVE  Answered(children')
  <2>1. /\ proc["tick"].pc = "forced"
        /\ WriteChild(proc["tick"].at, [Read("tick") EXCEPT !.state = "stopped", !.stop = TRUE])
    BY <1>9 DEF RecordStop
  <2>2. Read("tick") \in ChildRecord /\ proc["tick"].at \in Child
    BY <1>0, <2>1, Holder DEF AtChild, Reading
  <2>3. \A x : Writable(proc["tick"].at, x)
    BY <1>9, <2>1 DEF RecordStop, Starting, Writable
  <2> QED
    BY <1>0, <2>1, <2>2, <2>3, Finished, Written DEF Ends
<1>10. ASSUME Reserve
       PROVE  Answered(children')
  <2>1. UNCHANGED children \/ \E c \in Child : WriteChild(c, Reserved)
    BY <1>10, FirstFresh DEF Reserve
  <2>2. Reserved \in ChildRecord /\ Reserved.state = "spawning" /\ ~Reserved.ref
    BY DEF Reserved, Unborn, ChildRecord
  <2>3. \A c : Writable(c, Reserved)
    BY <2>2 DEF Writable, Active, Terminal
  <2> QED
    BY <1>0, <1>1, <2>1, <2>2, <2>3, Written
<1>11. ASSUME RecordSpawn
       PROVE  Answered(children')
  <2>1. PICK s \in {"running", "failed"} :
          /\ WriteChild(proc["tick"].at, [Reserved EXCEPT !.ref = TRUE, !.state = s])
          /\ s = "failed" /\ Running(proc["tick"].at) => proc["tick"].at \in lost'
    BY <1>11 DEF RecordSpawn
  <2> DEFINE w == [Reserved EXCEPT !.ref = TRUE, !.state = s]
  <2>2. w \in ChildRecord /\ w.state = s
    BY DEF Reserved, Unborn, ChildRecord
  <2>3. proc["tick"].at \in Child
    BY <1>0, <1>11, Holder DEF RecordSpawn, AtChild
  <2>4. WriteChild(proc["tick"].at, w)
    BY <2>1
  <2> HIDE DEF w
  <2>5. Writable(proc["tick"].at, w)
    BY <1>11, <2>1, <2>2 DEF RecordSpawn, Starting, Writable, Active, Terminal
  <2> QED
    BY <1>0, <2>2, <2>3, <2>4, <2>5, Written
<1>12. ASSUME NEW c \in Child, AskStop(c)
       PROVE  Answered(children')
  <2> DEFINE w == [children[c] EXCEPT !.stop = TRUE]
  <2>1. WriteChild(c, w) /\ children[c].state # "none"
    BY <1>12 DEF AskStop
  <2>2. children[c].state = "returned" => HasReturn(c)
    BY DEF Filed, HasReturn
  <2>3. w \in ChildRecord /\ w.state = children[c].state /\ w.ref = children[c].ref
    BY <1>0, Noted
  <2> HIDE DEF w
  <2>4. Writable(c, w)
    BY <1>0, <2>3 DEF Counted, Writable, Active, Terminal
  <2> QED
    BY <1>0, <2>1, <2>2, <2>3, <2>4, Written
<1> QED
  BY <1>1, <1>2, <1>3, <1>4, <1>5, <1>6, <1>7, <1>8, <1>9, <1>10, <1>11, <1>12
     DEF Next, Pass, Repair, Spawn, OperatorActs, Host, vars, records, Reconcile,
         Inspect, CloseDirective, FilePacket, FileDirective, Remove, Evaluate,
         RepairLinks, ReleaseReservation, RepairIntegrity, ForceRemove,
         ClearPhantom, BoundedTick, Admit, ReserveDirective, DockerRun,
         SpawnDirective, Feedback, Decide, Exit, Vanish, Age, Crash

-----------------------------------------------------------------------------
(* What a thread takes up is sound, but for a packet it has just written.  *)
LEMMA ThreadsStep ==
  ASSUME TypeOK, ThreadsOK, Filed, Counted, [Next]_vars,
         ~\E p \in Threads : FilePacket(p), ~Reserve
  PROVE  Moving
<1> USE DEF At
<1>0. "tick" \in Threads /\ "web" \in Threads
  BY DEF Threads
<1>1. CASE UNCHANGED proc
  BY <1>1 DEF ThreadsOK, Moving, Starting
<1>2. ASSUME NEW p \in Threads, Reconcile(p)
      PROVE  Moving
  <2>1. Begin(p, "children", Listed(ActiveChildren))
    BY <1>2 DEF Reconcile
  <2>2. ActiveChildren \in SUBSET Child /\ \A c \in ActiveChildren : children[c].state # "none"
    BY DEF ActiveChildren, Active
  <2> QED
    BY <2>1, <2>2, Beginning DEF Stages, AtChild, Reading, Filing
<1>3. ASSUME NEW p \in Threads, NEW c \in Child, Inspect(p, c)
      PROVE  Moving
  <2>1. PICK seen \in {"unknown", "missing", "running", "exited"} :
          /\ GoTo(p, "inspected", c, seen)
          /\ ~proc[p].todo[c].ref => seen = "unknown"
          /\ seen \in {"missing", "exited"} =>
               seen = IF docker[c].state \in {"running", "exited"}
                        THEN docker[c].state ELSE "missing"
    BY <1>3 DEF Inspect
  <2>2. c \in DOMAIN proc[p].todo /\ Sound(proc[p])
    BY <1>3 DEF Inspect, ThreadsOK, AllSound
  <2>3. ASSUME seen \in {"missing", "exited"}
        PROVE  Past(c)
    <3>1. proc[p].todo[c].ref /\ ~Running(c)
      BY <2>1, <2>3 DEF Running
    <3> QED
      BY <2>2, <3>1 DEF Sound, Past
  <2> QED
    BY <2>1, <2>2, <2>3, GoingTo DEF Stages, Findings, Filing
<1>4. ASSUME NEW p \in Threads, KeepRecord(p) \/ FileAgain(p) \/ FileDirective(p)
      PROVE  Moving
  <2>1. Done(p, "children")
    BY <1>4 DEF KeepRecord, FileAgain, FileDirective
  <2> QED
    BY <2>1, BackToList DEF Stages, AtChild, Reading, Filing
<1>5. ASSUME NEW p \in Threads, CloseChild(p)
      PROVE  Moving
  <2>1. Go(p, "closing") /\ proc[p].pc = "inspected"
    BY <1>5 DEF CloseChild, Found, Ended
  <2>2. proc[p].at \in Child
    BY <2>1, Holder DEF AtChild, Reading
  <2> QED
    BY <2>1, <2>2, Going DEF Stages, Reading, Filing
<1>6. ASSUME NEW p \in Threads, CloseDirective(p)
      PROVE  Moving
  <2>1. Done(p, "backfill") \/ Done(p, "children")
    BY <1>6 DEF CloseDirective
  <2> QED
    BY <2>1, BackToList DEF Stages, AtChild, Reading, Filing
<1>7. ASSUME NEW p \in Threads, FileChild(p)
      PROVE  Moving
  <2>1. Go(p, "answered") /\ proc[p].pc = "filed"
    BY <1>7 DEF FileChild
  <2>2. proc[p].at \in Child
    BY <2>1, Holder DEF AtChild, Filing
  <2> QED
    BY <2>1, <2>2, Going DEF Stages, Reading, Filing
<1>8. ASSUME NEW p \in Threads, Backfill(p)
      PROVE  Moving
  <2>1. ASSUME NEW S \in SUBSET Child, \A c \in S : children[c].state # "none",
               Begin(p, "cleanup", Listed(S))
        PROVE  Moving
    BY <2>1, Beginning DEF Stages, AtChild, Reading, Filing
  <2>2. CASE directive.active # 0 /\ GoTo(p, "closing", directive.active, "backfill")
    <3>1. directive.active \in Child
      BY <2>2 DEF TypeOK, Directive
    <3> QED
      BY <2>2, <3>1, GoingTo DEF Stages, Findings, Filing, Reading
  <2> QED
    <3>1. \A c \in Child : Terminal(children[c]) => children[c].state # "none"
      BY DEF Terminal
    <3> QED
      BY <1>8, <2>1, <2>2, <3>1 DEF Backfill
<1>9. ASSUME NEW p \in Threads, NEW c \in Child, Remove(p, c)
      PROVE  Moving
  <2>1. PICK f \in {"removed", "kept"} : GoTo(p, "removing", c, f)
    BY <1>9 DEF Remove
  <2>2. c \in DOMAIN proc[p].todo
    BY <1>9 DEF Remove
  <2> QED
    BY <2>1, <2>2, GoingTo DEF Stages, Findings, Filing
<1>10. ASSUME NEW p \in Threads, RecordRemoval(p)
       PROVE  Moving
  <2>1. Done(p, "cleanup")
    BY <1>10 DEF RecordRemoval
  <2> QED
    BY <2>1, BackToList DEF Stages, AtChild, Reading, Filing
<1>11. ASSUME NEW p \in Threads, Go(p, "repair") \/ Stop(p)
       PROVE  Moving
  BY <1>11, Going, Stopping DEF Stages, AtChild, Reading, Filing
<1>12. ASSUME \/ Go("tick", "reservations") \/ Go("tick", "admit")
              \/ Go("tick", "locking") \/ Stop("tick")
       PROVE  Moving
  BY <1>0, <1>12, Going, Stopping DEF Stages, AtChild, Reading, Filing
<1>13. ASSUME FailReservation
       PROVE  Moving
  <2>1. PICK c \in Child : GoTo("tick", "failing", c, "")
    BY <1>13 DEF FailReservation
  <2> QED
    BY <1>0, <2>1, GoingTo DEF Stages, Findings, Filing, Reading
<1>14. ASSUME ReleaseReservation
       PROVE  Moving
  <2> DEFINE h == [Idle EXCEPT !.pc = "reservations"]
  <2>1. proc' = [proc EXCEPT !["tick"] = h]
    BY <1>14 DEF ReleaseReservation
  <2>2. h \in Held /\ h.pc = "reservations" /\ h.todo = Idle.todo
    BY IdleSound DEF Held, Stages
  <2> HIDE DEF h
  <2>3. Sound(h)
    BY <2>2, IdleSound DEF Sound, AtChild, Reading, Filing
  <2> QED
    BY <1>0, <2>1, <2>2, <2>3, Moved
<1>15. ASSUME RepairIntegrity
       PROVE  Moving
  <2>1. PICK S \in SUBSET ActiveChildren : Begin("tick", "stopping", Listed(S))
    BY <1>15 DEF RepairIntegrity
  <2>2. S \in SUBSET Child /\ \A c \in S : children[c].state # "none"
    BY DEF ActiveChildren, Active
  <2> QED
    BY <1>0, <2>1, <2>2, Beginning DEF Stages, AtChild, Reading, Filing
<1>16. ASSUME NEW c \in Child, ForceRemove(c)
       PROVE  Moving
  <2>1. GoTo("tick", "forced", c, "") /\ c \in DOMAIN proc["tick"].todo
    BY <1>16 DEF ForceRemove
  <2> QED
    BY <1>0, <2>1, GoingTo DEF Stages, Findings, Filing
<1>17. ASSUME RecordStop
       PROVE  Moving
  <2>1. Done("tick", "stopping")
    BY <1>17 DEF RecordStop
  <2> QED
    BY <1>0, <2>1, BackToList DEF Stages, AtChild, Reading, Filing
<1>18. ASSUME ReserveDirective \/ RecordSpawn
       PROVE  Moving
  <2>1. /\ proc["tick"].pc \in AtChild
        /\ \/ Go("tick", "starting") /\ proc["tick"].pc = "reserved"
           \/ Go("tick", "spawned")
    BY <1>18 DEF ReserveDirective, RecordSpawn, AtChild
  <2>2. proc["tick"].at \in Child
    BY <1>0, <2>1, Holder
  <2> QED
    BY <1>0, <2>1, <2>2, Going DEF Stages, Reading, Filing
<1>19. ASSUME DockerRun
       PROVE  Moving
  <2>1. proc["tick"].pc \in AtChild /\
        \E f \in {"ok", "failed"} : GoTo("tick", "started", proc["tick"].at, f)
    BY <1>19 DEF DockerRun, AtChild
  <2>2. proc["tick"].at \in Child
    BY <1>0, <2>1, Holder
  <2> QED
    BY <1>0, <2>1, <2>2, GoingTo DEF Stages, Findings, Filing, Reading
<1>20. ASSUME Crash
       PROVE  Moving
  <2>1. proc' = [p \in Threads |-> Idle]
    BY <1>20 DEF Crash
  <2>2. proc'["tick"].pc = "idle"
    BY <1>0, <2>1 DEF Idle
  <2> QED
    BY <2>1, <2>2, IdleSound DEF AllSound, Moving, Starting
<1> QED
  BY <1>0, <1>1, <1>2, <1>3, <1>4, <1>5, <1>6, <1>7, <1>8, <1>9, <1>10, <1>11,
     <1>12, <1>13, <1>14, <1>15, <1>16, <1>17, <1>18, <1>19, <1>20
     DEF Next, Pass, Repair, Spawn, OperatorActs, Host, vars, Evaluate, RepairLinks,
         ClearPhantom, BoundedTick, Admit, SpawnDirective, Feedback, AskStop, Decide,
         Exit, Vanish, Age

-----------------------------------------------------------------------------
(* What was true by the packets before a step is true by those after it.   *)
LEMMA Lasting ==
  ASSUME Kept, NEW c, HasReturn(c)
  PROVE  HasReturn(c)'
  BY DEF Kept, HasReturn

\* No child is forgotten, and only a new one comes to be started.
Onward ==
  /\ Kept /\ Grown
  /\ \A c \in Child : children[c].state # "none" =>
       children'[c].state # "none" /\ (Starting(c)' => Starting(c))

LEMMA SoundLasts ==
  ASSUME Onward, NEW h \in Held, Sound(h)
  PROVE  /\ h.pc \in AtChild => h.at \in Child
         /\ h.pc \in Reading => h.at \in DOMAIN h.todo
         /\ \A c \in DOMAIN h.todo :
              /\ h.todo[c].state = "returned" => HasReturn(c)'
              /\ h.todo[c].state # "none" /\ children'[c].state # "none"
              /\ h.todo[c].ref => ~Starting(c)'
              /\ Terminal(h.todo[c]) => Settled(c)'
         /\ h.pc = "filed" \/ (h.pc = "inspected" /\ h.found \in {"missing", "exited"}) =>
              Past(h.at)'
         /\ h.pc \in Filing =>
              /\ h.found \in {"return", "missing"}
              /\ \E n \in DOMAIN packets' : /\ packets'[n].child = h.at
                                            /\ packets'[n].kind = h.found
<1>1. ASSUME NEW c \in DOMAIN h.todo
      PROVE  /\ h.todo[c].state = "returned" => HasReturn(c)'
             /\ h.todo[c].state # "none" /\ children'[c].state # "none"
             /\ h.todo[c].ref => ~Starting(c)'
             /\ Terminal(h.todo[c]) => Settled(c)'
  <2>1. c \in Child
    BY TodoRead DEF Held
  <2>2. h.todo[c].state = "returned" => HasReturn(c)'
    BY Lasting DEF Sound, Onward
  <2> QED
    BY <2>1, <2>2 DEF Sound, Onward, Grown, Settled
<1>2. ASSUME h.pc \in Filing
      PROVE  \E n \in DOMAIN packets' : /\ packets'[n].child = h.at
                                        /\ packets'[n].kind = h.found
  BY <1>2 DEF Sound, Onward, Kept
<1>3. ASSUME h.pc = "filed" \/ (h.pc = "inspected" /\ h.found \in {"missing", "exited"})
      PROVE  Past(h.at)'
  <2>1. h.at \in Child /\ Past(h.at)
    BY <1>3 DEF Sound, AtChild, Reading, Filing
  <2> QED
    BY <2>1 DEF Onward, Grown, Past
<1> QED
  BY <1>1, <1>2, <1>3 DEF Sound

\* A container comes to be started only by a reservation made when no child was
\* active.
Reserving(c) == /\ Reserve /\ ActiveChildren = {}
                /\ children[c].state = "none" /\ children'[c] = Reserved

LEMMA StartingStep ==
  ASSUME IInv, [Next]_vars
  PROVE  \A c \in Child : Starting(c)' => Starting(c) \/ Reserving(c)
<1> USE DEF IInv
<1>0. "tick" \in Threads /\ proc \in [Threads -> Held]
  BY DEF Threads, ThreadsOK, AllSound
<1>1. ASSUME NEW p \in Threads, FilePacket(p), NEW c \in Child, Starting(c)'
      PROVE  Starting(c)
  <2>1. proc'[p].pc = "filed" /\ \A q \in Threads : q # p => proc'[q] = proc[q]
    BY <1>0, <1>1 DEF FilePacket, Held
  <2> QED
    BY <1>0, <1>1, <2>1 DEF Starting
<1>2. ASSUME Reserve, NEW c \in Child, Starting(c)'
      PROVE  Reserving(c)
  <2>1. CASE ActiveChildren # {}
    <3>1. proc'["tick"].pc = "idle"
      <4>1. Stop("tick")
        BY <1>2, <2>1 DEF Reserve
      <4>2. proc'["tick"] = Idle
        BY <1>0, <4>1 DEF Stop
      <4>3. Idle.pc = "idle"
        BY DEF Idle
      <4> QED
        BY <4>2, <4>3
    <3> QED
      BY <1>2, <3>1 DEF Starting
  <2>2. CASE ActiveChildren = {}
    <3>1. PICK d \in Fresh \cap Child :
            GoTo("tick", "reserved", d, "") /\ WriteChild(d, Reserved)
      BY <1>2, <2>2, FirstFresh DEF Reserve
    <3>2. c = d
      BY <1>0, <1>2, <3>1 DEF GoTo, Starting, Held
    <3>3. children'[d] = Reserved /\ children[d].state = "none"
      BY <3>1 DEF WriteChild, TypeOK, Fresh
    <3> QED
      BY <1>2, <2>2, <3>2, <3>3 DEF Reserving
  <2> QED
    BY <2>1, <2>2
<1>3. CASE ~Reserve /\ ~\E p \in Threads : FilePacket(p)
  BY <1>3, ThreadsStep DEF Moving
<1> QED
  BY <1>1, <1>2, <1>3

LEMMA OnwardStep ==
  ASSUME IInv, [Next]_vars
  PROVE  Onward
<1> USE DEF IInv
<1>1. Kept /\ Grown /\ Answered(children')
  BY PacketsStep, GrownStep, ChildrenStep
<1>2. \A c \in Child : Starting(c)' => Starting(c) \/ children[c].state = "none"
  BY StartingStep DEF Reserving
<1> QED
  BY <1>1, <1>2 DEF Onward, Answered

LEMMA ThreadsAfter ==
  ASSUME IInv, [Next]_vars
  PROVE  ThreadsOK'
<1> USE DEF IInv
<1>1. Onward /\ proc \in [Threads -> Held] /\ \A q \in Threads : Sound(proc[q])
  BY OnwardStep DEF ThreadsOK, AllSound
\* The threads that stay where they are, and one that takes up h.
<1>2. ASSUME NEW p \in Threads, NEW h \in Held, proc' = [proc EXCEPT ![p] = h],
             (Sound(proc[p]))'
      PROVE  ThreadsOK'
  <2>1. proc' \in [Threads -> Held]
    BY <1>1, <1>2
  <2>2. ASSUME NEW q \in Threads
        PROVE  Sound(proc[q])'
    <3>1. CASE q = p
      BY <1>2, <3>1
    <3>2. CASE q # p
      <4>1. proc'[q] = proc[q] /\ Sound(proc[q]) /\ proc[q] \in Held
        BY <1>1, <1>2, <3>2
      <4> QED
        BY <1>1, <4>1, SoundLasts DEF Sound
    <3> QED
      BY <3>1, <3>2
  <2> QED
    BY <2>1, <2>2 DEF ThreadsOK, AllSound
<1>3. CASE ~Reserve /\ ~\E p \in Threads : FilePacket(p)
  <2>1. proc' \in [Threads -> Held] /\ \A p \in Threads : Sound(proc'[p])
    BY <1>3, ThreadsStep DEF Moving, AllSound
  <2>2. ASSUME NEW q \in Threads
        PROVE  Sound(proc[q])'
    BY <1>1, <2>1, SoundLasts DEF Sound
  <2> QED
    BY <2>1, <2>2 DEF ThreadsOK, AllSound
<1>4. ASSUME NEW p \in Threads, FilePacket(p)
      PROVE  ThreadsOK'
  <2> DEFINE k == IF Left(p) = "packet" THEN "return" ELSE "missing"
             c == proc[p].at
             h == [proc[p] EXCEPT !.pc = "filed", !.found = k, !.rec = children[c]]
  <2>1. /\ proc[p] \in Held /\ Sound(proc[p])
        /\ proc[p].pc = "inspected" /\ proc[p].found = "exited"
    BY <1>4 DEF FilePacket, Ended, Found, At, ThreadsOK, AllSound
  <2>2. c \in Child /\ children[c] \in ChildRecord /\ k \in {"return", "missing"}
    BY <2>1 DEF Sound, AtChild, Reading, TypeOK
  <2>3. h \in Held
    BY <2>1, <2>2 DEF Held, Stages, Findings
  <2>4. h.pc = "filed" /\ h.at = c /\ h.todo = proc[p].todo /\ h.found = k
    BY <2>1 DEF Held
  <2>5. \E n \in DOMAIN packets' : packets'[n].child = c /\ packets'[n].kind = k
    <3>1. packets' = Append(packets, [child |-> c, kind |-> k,
                                      review |-> "pending", weighed |-> "no"])
      BY <1>4 DEF FilePacket, AddPacket
    <3>2. packets'[Len(packets) + 1] = [child |-> c, kind |-> k,
                                        review |-> "pending", weighed |-> "no"]
      BY <3>1 DEF TypeOK
    <3>3. Len(packets) + 1 \in DOMAIN packets'
      BY <3>1 DEF TypeOK
    <3> QED
      BY <3>2, <3>3
  <2>6. proc' = [proc EXCEPT ![p] = h]
    BY <1>4 DEF FilePacket, ThreadsOK, AllSound
  <2> HIDE DEF h, k
  <2>7. /\ \A x \in DOMAIN h.todo :
             /\ h.todo[x].state = "returned" => HasReturn(x)'
             /\ h.todo[x].state # "none" /\ children'[x].state # "none"
             /\ h.todo[x].ref => ~Starting(x)'
             /\ Terminal(h.todo[x]) => Settled(x)'
        /\ \A x : x = c => Past(x)'
    BY <1>1, <2>1, <2>4, SoundLasts
  <2>8. Sound(proc[p])'
    <3>1. proc'[p] = h
      BY <2>6 DEF ThreadsOK, AllSound
    <3> QED
      BY <2>2, <2>4, <2>5, <2>7, <3>1 DEF Sound, AtChild, Reading, Filing
  <2> QED
    BY <1>2, <2>3, <2>6, <2>8
<1>5. ASSUME Reserve
      PROVE  ThreadsOK'
  <2>0. "tick" \in Threads
    BY DEF Threads
  <2>1. CASE ActiveChildren # {}
    <3>1. proc' = [proc EXCEPT !["tick"] = Idle]
      BY <1>5, <2>1 DEF Reserve, Stop
    <3>2. Sound(proc["tick"])'
      <4>1. proc'["tick"] = Idle
        BY <1>1, <2>0, <3>1
      <4>2. Idle.pc = "idle" /\ Idle.todo = <<>> /\ DOMAIN <<>> = {}
        BY DEF Idle
      <4> QED
        BY <4>1, <4>2 DEF Sound, AtChild, Reading, Filing
    <3> QED
      BY <1>2, <2>0, <3>1, <3>2, IdleSound
  <2>2. CASE ActiveChildren = {}
    <3>1. PICK d \in Child : GoTo("tick", "reserved", d, "")
      BY <1>5, <2>2, FirstFresh DEF Reserve
    <3> DEFINE h == [proc["tick"] EXCEPT !.pc = "reserved", !.at = d, !.found = ""]
    <3>2. proc' = [proc EXCEPT !["tick"] = h]
      BY <3>1 DEF GoTo
    <3>3. h \in Held /\ h.pc = "reserved" /\ h.at = d /\ h.todo = proc["tick"].todo
      BY <1>1, <2>0 DEF Held, Stages, Findings
    <3> HIDE DEF h
    <3>4. proc'["tick"] = h
      BY <1>1, <2>0, <3>2
    <3>5. \A x \in DOMAIN h.todo :
            /\ h.todo[x].state = "returned" => HasReturn(x)'
            /\ h.todo[x].state # "none" /\ children'[x].state # "none"
            /\ h.todo[x].ref => ~Starting(x)'
            /\ Terminal(h.todo[x]) => Settled(x)'
      BY <1>1, <2>0, <3>3, SoundLasts
    <3>6. Sound(proc["tick"])'
      BY <3>3, <3>4, <3>5 DEF Sound, Reading, Filing
    <3> QED
      BY <1>2, <2>0, <3>2, <3>3, <3>6
  <2> QED
    BY <2>1, <2>2
<1> QED
  BY <1>3, <1>4, <1>5

LEMMA CountedAfter ==
  ASSUME IInv, [Next]_vars
  PROVE  Counted' /\ OneContainer'
<1> USE DEF IInv
<1>1. Grown /\ Answered(children') /\ ThreadsOK'
  BY GrownStep, ChildrenStep, ThreadsAfter
<1>2. \A c \in Child : Starting(c)' => Starting(c) \/ Reserving(c)
  BY StartingStep
<1>3. ASSUME DockerRun
      PROVE  proc'["tick"].pc = "started" /\ proc["tick"].pc = "starting"
  BY <1>3 DEF DockerRun, At, GoTo, ThreadsOK, AllSound, Threads, Held
<1>4. \A c \in Child : Running(c)' => c \in lost' \/ Active(children'[c])
  BY <1>1 DEF Grown, Answered
<1>5. \A c \in Child : Starting(c)' => Active(children'[c]) /\ ~children'[c].ref
  <2>1. Active(Reserved) /\ ~Reserved.ref
    BY DEF Active, Terminal, Reserved, Unborn
  <2> QED
    BY <1>1, <1>2, <2>1 DEF Answered, Reserving
<1>6. ASSUME proc'["tick"].pc \in {"reserved", "starting"}, NEW c \in Child, Running(c)'
      PROVE  c \in lost'
  <2>1. PICK d \in Child : Starting(d)'
    <3>1. proc'["tick"].at \in Child
      BY <1>1, <1>6 DEF ThreadsOK, AllSound, Threads, Sound, AtChild
    <3> QED
      BY <1>6, <3>1 DEF Starting
  <2>2. Running(c)
    BY <1>1, <1>3, <1>6 DEF Grown
  <2>3. CASE Starting(d)
    BY <1>1, <2>2, <2>3 DEF Counted, Starting, Grown
  <2>4. CASE ActiveChildren = {}
    BY <1>1, <2>2, <2>4 DEF Counted, ActiveChildren, Grown
  <2> QED
    BY <1>2, <2>1, <2>3, <2>4 DEF Reserving
<1>7. ASSUME NEW c \in Child, NEW d \in Child, c # d, Running(c)', Running(d)'
      PROVE  {c, d} \cap lost' # {}
  <2>1. CASE DockerRun
    <3>1. \A x \in Child : Running(x) => x \in lost
      BY <1>3, <2>1 DEF Counted
    <3> QED
      BY <1>1, <1>7, <3>1 DEF Grown, Starting
  <2>2. CASE ~DockerRun
    BY <1>1, <1>7, <2>2 DEF Grown, OneContainer
  <2> QED
    BY <2>1, <2>2
<1>8. Counted'
  BY <1>4, <1>5, <1>6 DEF Counted
<1>9. OneContainer'
  BY <1>7 DEF OneContainer
<1> QED
  BY <1>8, <1>9

LEMMA InvStep ==
  ASSUME IInv, [Next]_vars
  PROVE  IInv'
<1> USE DEF IInv
<1>1. Kept
  BY PacketsStep
<1>2. Awaits(directive') /\ HostOK' /\ Answered(children')
  BY DirectiveStep, HostStep, ChildrenStep
<1>3. TypeOK'
  BY <1>1, <1>2 DEF TypeOK, Kept, Awaits, HostOK, Answered
<1>4. Filed'
  <2>1. Awaited' => directive'.latest \in DOMAIN packets'
    BY <1>1, <1>2 DEF Awaited, Awaits, Kept
  <2>2. \A c \in Child : children'[c].state = "returned" => HasReturn(c)'
    BY <1>1, <1>2, Lasting DEF Answered
  <2> QED
    BY <2>1, <2>2 DEF Filed, HasReturn
<1>5. ThreadsOK' /\ Counted' /\ OneContainer'
  BY ThreadsAfter, CountedAfter
<1> QED
  BY <1>3, <1>4, <1>5

LEMMA Initially == Init => IInv
<1> SUFFICES ASSUME Init
             PROVE  IInv
  OBVIOUS
<1>1. /\ directive \in Directive /\ directive.state = "queued"
      /\ packets = <<>> /\ lock = "none" /\ aged = {} /\ lost = {}
  BY DEF Init, Directive
<1>2. children \in [Child -> ChildRecord] /\ \A c \in Child : children[c].state = "none"
  BY DEF Init, Unborn, ChildRecord
<1>3. docker \in [Child -> Container]
  BY DEF Init, Container, Evidence
<1>4. TypeOK
  BY <1>1, <1>2, <1>3 DEF TypeOK
<1>5. Filed
  BY <1>1, <1>2 DEF Filed, Awaited
<1>6. proc = [p \in Threads |-> Idle]
  BY DEF Init
<1>7. ThreadsOK
  BY <1>6, IdleSound DEF ThreadsOK, AllSound
<1>8. \A c \in Child : ~Running(c)
  BY DEF Init, Running
<1>9. proc["tick"].pc = "idle"
  BY <1>6 DEF Threads, Idle
<1>10. Counted /\ OneContainer
  BY <1>8, <1>9 DEF Counted, OneContainer, Starting
<1> QED
  BY <1>4, <1>5, <1>7, <1>10 DEF IInv

LEMMA Invariance == Spec => []IInv
  BY Initially, InvStep, PTL DEF Spec

(* The records of a directive and of its children, packets and containers  *)
(* keep their shape (conveyor.reconcile_child_runs and its callees).       *)
THEOREM TypeCorrect == Spec => []TypeOK
<1>1. IInv => TypeOK
  BY DEF IInv
<1> QED
  BY <1>1, Invariance, PTL

(* A directive returned for review names a packet, and a returned child    *)
(* has its own, however old the record that is written back and wherever   *)
(* a crash falls (conveyor.record_child_return_packet).                    *)
THEOREM ReviewsHavePackets == Spec => []Filed
<1>1. IInv => Filed
  BY DEF IInv
<1> QED
  BY <1>1, Invariance, PTL

(* Two containers of one directive never run at a time, unless the record  *)
(* of one of them was lost (conveyor._spawn_child_for_directive).           *)
THEOREM ContainersCount == Spec => []OneContainer
<1>1. IInv => OneContainer
  BY DEF IInv
<1> QED
  BY <1>1, Invariance, PTL
=============================================================================
