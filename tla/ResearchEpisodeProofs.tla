----------------------- MODULE ResearchEpisodeProofs -----------------------
(***************************************************************************)
(* For any budgets, plans, reviews and crashes: every call and tool run of *)
(* an episode was charged before it was made, no action is run twice, no   *)
(* review wakes an episode again, and the pointer names a whole result.    *)
(*                                                                         *)
(* A crash takes back what the tick has in memory, so that whatever was    *)
(* done has to be covered by the record on disk as well as by the one in   *)
(* memory (Good): an action that is inflight counts as run, and the plans  *)
(* an episode has seen bound what it may have run.  What the tick knows of *)
(* the record at each of its stages is Stage.                              *)
(***************************************************************************)
EXTENDS ResearchEpisode, FiniteSetTheorems, TLAPS

-----------------------------------------------------------------------------
(* An episode as it is on disk or in memory.                               *)
Opened == {"planning", "executing", "interpreting"}
Asking == {"planning", "interpreting"}
InTool(s) == IF s.inflight.kind = "tool" THEN 1 ELSE 0

\* What a state has to say of its episode, of which n calls were made and the
\* tool actions X were run, and which was woken w times and has the reviews A.
Good(s, n, X, w, A) ==
  /\ s \in EpisodeState
  /\ n <= s.calls /\ Cardinality(X) <= s.tools
  /\ s.compute + s.inflight.reserved <= MaxCompute
  /\ s.observed + InTool(s) <= Len(s.plan)
  /\ s.plan # NoPlan => s.plan \in s.seen
  /\ s.state \in {"interpreting", "completed"} => s.observed = Len(s.plan)
  /\ \A run \in X : /\ run[2] \in s.seen
                    /\ run[2] = s.plan => run[3] <= s.observed + InTool(s)
  /\ s.woken \subseteq A
  /\ w <= Cardinality(s.woken) + (IF s.recovered THEN 1 ELSE 0)

Untouched(e) == called[e] = 0 /\ Runs(e) = {} /\ wakes[e] = 0

Disk ==
  /\ \A e \in Episode :
       IF episodes[e] = Absent THEN Untouched(e)
         ELSE Good(episodes[e], called[e], Runs(e), wakes[e], arrived[e])
  /\ IsFiniteSet(executed) /\ \A e \in Episode : IsFiniteSet(arrived[e])

-----------------------------------------------------------------------------
(* What the tick at work holds, by its stage.                              *)
Stepping == {"begin", "step", "call", "answer", "tool", "finish"}
Publishing == {"result", "pointer", "mark"}

\* The tick holds s, d is on disk and z is its result.  From the first look at
\* an episode to the end of its step the record on disk is open.
Stage(pc, s, d, z, n, X, w, A) ==
  /\ pc \in Stepping \cup Publishing
  /\ pc = "begin" => s = d
  /\ pc # "begin" => Good(s, n, X, w, A) /\ d # Absent
  /\ pc \in Stepping => d.state \notin Terminal
  /\ pc \in {"call", "tool"} \cup Publishing => s = d
  /\ pc \in {"step", "answer", "finish"} => s.inflight = NoFlight
  /\ pc = "step" => s.state \in Opened /\ s.compute < MaxCompute
  /\ pc = "call" => s.state \in Asking /\ s.inflight.kind = "model" /\ n < s.calls
  /\ pc = "answer" => s.state \in Asking
  /\ pc = "tool" =>
       /\ s.inflight.kind = "tool" /\ s.state = "executing"
       /\ Cardinality(X) < s.tools
       /\ \A run \in X : run[2] = s.plan => run[3] <= s.observed
  /\ pc \in Publishing => s.state = "completed"
  /\ pc \in {"pointer", "mark"} => z = s.plan

ProcOK ==
  \/ proc = Idle
  \/ LET e == proc.episode IN
     /\ e \in Episode
     /\ Stage(proc.pc, proc.state, episodes[e], results[e],
              called[e], Runs(e), wakes[e], arrived[e])

IInv == TypeOK /\ Disk /\ ProcOK /\ repeated = {} /\ PointerSettled

-----------------------------------------------------------------------------
(* What each change of a state preserves.                                  *)
LEMMA Budgets ==
  /\ {MaxCalls, MaxTools, MaxNetwork, MaxCompute, MaxRevision, MaxCrashes} \subseteq Nat
  /\ ModelSeconds \in Nat \ {0} /\ NetworkSeconds \in Nat \ {0} /\ LocalSeconds = 1
  BY ResearchAssumption

LEMMA Flights == NoFlight \in Flight /\ NoFlight.kind = "none" /\ NoFlight.reserved = 0
  BY Budgets DEF NoFlight, Flight

LEMMA Lengths ==
  ASSUME NEW p \in Plans \cup {NoPlan}
  PROVE  p \in Seq(Action) /\ Len(p) \in Nat /\ (p = NoPlan <=> Len(p) = 0)
<1>1. NoPlan \in Seq(Action) /\ Len(NoPlan) = 0
  BY DEF NoPlan
<1>2. ASSUME p \in Plans
      PROVE  p \in Seq(Action) /\ Len(p) \in 1..MaxTools
  BY <1>2, ResearchAssumption
<1>3. CASE p = NoPlan
  BY <1>1, <1>3
<1>4. CASE p \in Plans
  <2>1. Len(p) \in Nat /\ Len(p) # 0
    BY <1>2, <1>4, Budgets
  <2> QED
    BY <1>1, <1>2, <1>4, <2>1
<1> QED
  BY <1>3, <1>4

LEMMA Fields ==
  ASSUME NEW s \in EpisodeState
  PROVE  /\ s.calls \in 0..MaxCalls /\ s.tools \in 0..MaxTools
         /\ s.network \in 0..MaxNetwork /\ s.compute \in 0..MaxCompute
         /\ s.inflight \in Flight /\ s.inflight.reserved \in 0..MaxCompute
         /\ s.plan \in Plans \cup {NoPlan} /\ s.seen \in SUBSET Plans
         /\ s.observed \in Nat /\ Len(s.plan) \in Nat
         /\ s.rejected \in SUBSET Rejection /\ s.woken \in SUBSET Reviews
         /\ InTool(s) \in {0, 1} /\ (s.inflight.kind # "tool" <=> InTool(s) = 0)
<1>1. /\ s.calls \in 0..MaxCalls /\ s.tools \in 0..MaxTools
      /\ s.network \in 0..MaxNetwork /\ s.compute \in 0..MaxCompute
      /\ s.inflight \in Flight /\ s.plan \in Plans \cup {NoPlan}
      /\ s.seen \in SUBSET Plans /\ s.observed \in Nat
      /\ s.rejected \in SUBSET Rejection /\ s.woken \in SUBSET Reviews
  BY DEF EpisodeState
<1> QED
  BY <1>1, Lengths DEF Flight, InTool

LEMMA NotAbsent == \A s \in EpisodeState : s # Absent /\ s.state # "absent"
<1>1. \A s \in EpisodeState : s.state # "absent"
  BY DEF EpisodeState, Terminal
<1> QED
  BY <1>1 DEF Absent

LEMMA FreshGood ==
  ASSUME NEW A
  PROVE  Good(Fresh, 0, {}, 0, A)
<1>1. Cardinality({}) = 0
  BY FS_EmptySet
<1>2. Fresh \in EpisodeState
  BY Budgets, Flights DEF Fresh, EpisodeState, NoPlan, Feedbacks
<1>3. InTool(Fresh) = 0
  BY Flights DEF Fresh, InTool
<1>4. /\ Fresh.calls = 0 /\ Fresh.tools = 0 /\ Fresh.compute = 0
      /\ Fresh.inflight = NoFlight /\ Fresh.observed = 0 /\ Fresh.plan = NoPlan
      /\ Fresh.state = "planning" /\ Fresh.woken = {} /\ ~Fresh.recovered
  BY DEF Fresh
<1>5. Len(NoPlan) = 0 /\ Cardinality(Fresh.woken) = 0
  BY <1>1, <1>4, Lengths
<1> QED
  BY <1>1, <1>2, <1>3, <1>4, <1>5, Budgets, Flights DEF Good

\* A change that touches neither what was used nor the plan.
Alike(r, s) ==
  /\ r.calls = s.calls /\ r.tools = s.tools /\ r.observed = s.observed
  /\ r.plan = s.plan /\ r.seen = s.seen
  /\ r.woken = s.woken /\ r.recovered = s.recovered

LEMMA AlikeGood ==
  ASSUME NEW s, NEW n, NEW X, NEW w, NEW A, Good(s, n, X, w, A),
         NEW r \in EpisodeState, Alike(r, s), InTool(r) = InTool(s),
         r.compute + r.inflight.reserved <= MaxCompute,
         r.state \in {"interpreting", "completed"} => s.observed = Len(s.plan)
  PROVE  Good(r, n, X, w, A)
  BY DEF Good, Alike

LEMMA SettledGood ==
  ASSUME NEW s, NEW n, NEW X, NEW w, NEW A, Good(s, n, X, w, A)
  PROVE  LET r == SettleInflight(s) IN
         Good(r, n, X, w, A) /\ r.inflight = NoFlight /\ r.state = s.state
<1> DEFINE r == SettleInflight(s)
           x == IF s.inflight.kind = "tool" THEN s.observed + 1 ELSE s.observed
           y == s.compute + s.inflight.reserved
<1>1. s \in EpisodeState
  BY DEF Good
<1>2. /\ r.state = s.state /\ r.calls = s.calls /\ r.tools = s.tools
      /\ r.inflight = NoFlight /\ r.plan = s.plan /\ r.seen = s.seen
      /\ r.woken = s.woken /\ r.recovered = s.recovered
  BY <1>1 DEF SettleInflight, EpisodeState
<1>3. r.compute = y
  BY <1>1 DEF SettleInflight, EpisodeState
<1>4. r.observed = x
  BY <1>1 DEF SettleInflight, EpisodeState
<1>5. x = s.observed + InTool(s) /\ x \in Nat /\ y \in 0..MaxCompute
  <2>1. s.observed \in Nat /\ s.compute \in Nat /\ s.inflight.reserved \in Nat
    BY <1>1, Fields, Budgets
  <2>2. s.compute + s.inflight.reserved <= MaxCompute
    BY DEF Good
  <2> QED
    BY <2>1, <2>2, Budgets DEF InTool
<1>6. r \in EpisodeState
  <2>1. PICK f \in {s.feedback, "interrupted"} :
          r = [s EXCEPT !.inflight = NoFlight, !.observed = x, !.feedback = f, !.compute = y]
    BY <1>1 DEF SettleInflight, EpisodeState
  <2> HIDE DEF x, y, r
  <2> QED
    BY <1>1, <1>5, <2>1, Flights DEF EpisodeState, Feedbacks
<1>7. InTool(r) = 0
  BY <1>2, Flights DEF InTool
<1> HIDE DEF r, x, y
<1>8. r.compute + r.inflight.reserved <= MaxCompute
  BY <1>2, <1>3, <1>5, Flights, Budgets
<1>9. /\ r.observed + InTool(r) = s.observed + InTool(s)
      /\ r.observed = s.observed + InTool(s)
  BY <1>4, <1>5, <1>7
<1>10. r.state \in {"interpreting", "completed"} => r.observed = Len(r.plan)
  <2> HAVE r.state \in {"interpreting", "completed"}
  <2>1. s.observed = Len(s.plan) /\ s.observed + InTool(s) <= Len(s.plan)
    BY <1>2 DEF Good
  <2> QED
    BY <1>1, <1>2, <1>9, <2>1, Fields
<1>11. /\ n <= r.calls /\ Cardinality(X) <= r.tools
       /\ r.plan # NoPlan => r.plan \in r.seen
       /\ r.woken \subseteq A
       /\ w <= Cardinality(r.woken) + (IF r.recovered THEN 1 ELSE 0)
  BY <1>2 DEF Good
<1>12. /\ r.observed + InTool(r) <= Len(r.plan)
       /\ \A run \in X :
            /\ run[2] \in r.seen
            /\ run[2] = r.plan => run[3] <= r.observed + InTool(r)
  BY <1>2, <1>9 DEF Good
<1>13. Good(r, n, X, w, A)
  BY <1>6, <1>8, <1>10, <1>11, <1>12 DEF Good
<1> QED
  BY <1>2, <1>13 DEF r

\* One field or two are written.
LEMMA Set ==
  ASSUME NEW s \in EpisodeState, NEW f \in Feedbacks
  PROVE  /\ [s EXCEPT !.feedback = f] \in EpisodeState
         /\ [s EXCEPT !.inflight = NoFlight] \in EpisodeState
         /\ [s EXCEPT !.published = TRUE] \in EpisodeState
         /\ \A y \in 0..MaxCompute : [s EXCEPT !.compute = y] \in EpisodeState
         /\ \A q \in Opened \cup Terminal :
              [s EXCEPT !.state = q, !.feedback = f] \in EpisodeState
         /\ \A x \in Rejection :
              [s EXCEPT !.rejected = @ \cup {x}, !.feedback = f] \in EpisodeState
  BY Flights DEF EpisodeState, Opened

LEMMA LandedGood ==
  ASSUME NEW s, NEW n, NEW X, NEW w, NEW A, Good(s, n, X, w, A), s.inflight.kind # "tool"
  PROVE  LET r == [s EXCEPT !.inflight = NoFlight] IN
         Good(r, n, X, w, A) /\ r.inflight = NoFlight /\ r.state = s.state
<1> DEFINE r == [s EXCEPT !.inflight = NoFlight]
<1>1. s \in EpisodeState /\ (s.state \in {"interpreting", "completed"} => s.observed = Len(s.plan))
  BY DEF Good
<1>2. r \in EpisodeState
  BY <1>1, Set DEF Feedbacks
<1>3. Alike(r, s) /\ r.inflight = NoFlight /\ r.state = s.state /\ r.compute = s.compute
  BY <1>1 DEF Alike, EpisodeState
<1> HIDE DEF r
<1>4. InTool(r) = InTool(s)
  BY <1>3, Flights DEF InTool
<1>5. r.compute + r.inflight.reserved <= MaxCompute
  BY <1>1, <1>3, Fields, Flights, Budgets
<1> QED
  BY <1>1, <1>2, <1>3, <1>4, <1>5, AlikeGood DEF r

\* The state, or the feedback of a record.
LEMMA MovedGood ==
  ASSUME NEW s, NEW n, NEW X, NEW w, NEW A, Good(s, n, X, w, A),
         NEW q \in Opened \cup Terminal, NEW f \in Feedbacks,
         q = "interpreting" \/ q = "completed" => s.observed = Len(s.plan)
  PROVE  LET r == [s EXCEPT !.state = q, !.feedback = f] IN
         Good(r, n, X, w, A) /\ r.inflight = s.inflight /\ r.state = q
<1> DEFINE r == [s EXCEPT !.state = q, !.feedback = f]
<1>1. s \in EpisodeState /\ s.compute + s.inflight.reserved <= MaxCompute
  BY DEF Good
<1>2. r \in EpisodeState
  BY <1>1, Set
<1>3. Alike(r, s) /\ r.inflight = s.inflight /\ r.state = q /\ r.compute = s.compute
  BY <1>1 DEF Alike, EpisodeState
<1> HIDE DEF r
<1>4. InTool(r) = InTool(s)
  BY <1>3 DEF InTool
<1> QED
  BY <1>1, <1>2, <1>3, <1>4, AlikeGood DEF r

LEMMA NotedGood ==
  ASSUME NEW s, NEW n, NEW X, NEW w, NEW A, Good(s, n, X, w, A),
         NEW r \in EpisodeState, Alike(r, s), r.inflight = s.inflight,
         r.state = s.state, r.compute = s.compute
  PROVE  Good(r, n, X, w, A)
<1>1. /\ s.compute + s.inflight.reserved <= MaxCompute
      /\ s.state \in {"interpreting", "completed"} => s.observed = Len(s.plan)
  BY DEF Good
<1>2. InTool(r) = InTool(s)
  BY DEF InTool
<1> QED
  BY <1>1, <1>2, AlikeGood

LEMMA RejectedGood ==
  ASSUME NEW s, NEW n, NEW X, NEW w, NEW A, Good(s, n, X, w, A),
         NEW x \in Rejection, NEW f \in Feedbacks
  PROVE  /\ LET r == [s EXCEPT !.rejected = @ \cup {x}, !.feedback = f] IN
            Good(r, n, X, w, A) /\ r.inflight = s.inflight
         /\ LET r == [s EXCEPT !.feedback = f] IN
            Good(r, n, X, w, A) /\ r.inflight = s.inflight
         /\ LET r == [s EXCEPT !.published = TRUE] IN Good(r, n, X, w, A) /\ Alike(r, s)
                                                        /\ r.state = s.state
<1> DEFINE r1 == [s EXCEPT !.rejected = @ \cup {x}, !.feedback = f]
           r2 == [s EXCEPT !.feedback = f]
           r3 == [s EXCEPT !.published = TRUE]
<1>1. s \in EpisodeState
  BY DEF Good
<1>2. r1 \in EpisodeState /\ r2 \in EpisodeState /\ r3 \in EpisodeState
  BY <1>1, Set
<1>3. Alike(r1, s) /\ r1.inflight = s.inflight /\ r1.state = s.state /\ r1.compute = s.compute
  BY <1>1 DEF Alike, EpisodeState
<1>4. Alike(r2, s) /\ r2.inflight = s.inflight /\ r2.state = s.state /\ r2.compute = s.compute
  BY <1>1 DEF Alike, EpisodeState
<1>5. Alike(r3, s) /\ r3.inflight = s.inflight /\ r3.state = s.state /\ r3.compute = s.compute
  BY <1>1 DEF Alike, EpisodeState
<1> HIDE DEF r1, r2, r3
<1>6. Good(r1, n, X, w, A) /\ Good(r2, n, X, w, A) /\ Good(r3, n, X, w, A)
  BY <1>2, <1>3, <1>4, <1>5, NotedGood
<1> QED
  BY <1>3, <1>4, <1>5, <1>6 DEF r1, r2, r3

LEMMA TimedGood ==
  ASSUME NEW s, NEW n, NEW X, NEW w, NEW A, Good(s, n, X, w, A), s.inflight = NoFlight,
         NEW t \in Nat, s.compute + t <= MaxCompute
  PROVE  LET r == [s EXCEPT !.compute = @ + t] IN
         Good(r, n, X, w, A) /\ r.state = s.state /\ Alike(r, s)
<1> DEFINE y == s.compute + t
           r == [s EXCEPT !.compute = y]
<1>1. s \in EpisodeState /\ (s.state \in {"interpreting", "completed"} => s.observed = Len(s.plan))
  BY DEF Good
<1>2. y \in 0..MaxCompute
  BY <1>1, Fields, Budgets
<1>3. r = [s EXCEPT !.compute = @ + t]
  OBVIOUS
<1> HIDE DEF y
<1>4. r \in EpisodeState
  BY <1>1, <1>2, Set DEF Feedbacks
<1>5. Alike(r, s) /\ r.inflight = NoFlight /\ r.state = s.state /\ r.compute = y
  BY <1>1 DEF Alike, EpisodeState
<1> HIDE DEF r
<1>6. InTool(r) = InTool(s)
  BY <1>5 DEF InTool
<1>7. r.compute + r.inflight.reserved <= MaxCompute
  BY <1>2, <1>5, Flights, Budgets
<1> QED
  BY <1>1, <1>3, <1>4, <1>5, <1>6, <1>7, AlikeGood

\* A call is reserved.
LEMMA ReservedGood ==
  ASSUME NEW s, NEW n \in Nat, NEW X, NEW w, NEW A, Good(s, n, X, w, A),
         s.inflight = NoFlight, s.compute < MaxCompute, s.calls < MaxCalls
  PROVE  LET r == [s EXCEPT !.calls = @ + 1,
                     !.inflight = [kind |-> "model",
                       reserved |-> Least(ModelSeconds, MaxCompute - s.compute)]] IN
         /\ Good(r, n, X, w, A) /\ r.state = s.state
         /\ r.inflight.kind = "model" /\ n < r.calls
<1> DEFINE i == [kind |-> "model", reserved |-> Least(ModelSeconds, MaxCompute - s.compute)]
           y == s.calls + 1
           r == [s EXCEPT !.calls = y, !.inflight = i]
<1>1. s \in EpisodeState
  BY DEF Good
<1>2. y \in 0..MaxCalls /\ n < y
  <2>1. s.calls \in 0..MaxCalls /\ n <= s.calls
    BY <1>1, Fields DEF Good
  <2> QED
    BY <2>1, Budgets
<1>3. Least(ModelSeconds, MaxCompute - s.compute) \in 0..(MaxCompute - s.compute)
  BY <1>1, Fields, Budgets DEF Least
<1>4. i \in Flight /\ s.compute + i.reserved <= MaxCompute
  BY <1>1, <1>3, Fields, Budgets DEF Flight
<1>5. r = [s EXCEPT !.calls = @ + 1, !.inflight = i]
  OBVIOUS
<1>6. i.kind = "model"
  OBVIOUS
<1> HIDE DEF i, y
<1>7. r \in EpisodeState
  BY <1>1, <1>2, <1>4 DEF EpisodeState
<1>8. /\ r.calls = y /\ r.inflight = i /\ r.state = s.state /\ r.tools = s.tools
      /\ r.compute = s.compute /\ r.observed = s.observed /\ r.plan = s.plan
      /\ r.seen = s.seen /\ r.woken = s.woken /\ r.recovered = s.recovered
  BY <1>1 DEF EpisodeState
<1> HIDE DEF r
<1>9. InTool(r) = 0 /\ InTool(s) = 0
  BY <1>6, <1>8, Flights DEF InTool
<1>10. /\ n <= r.calls /\ Cardinality(X) <= r.tools
       /\ r.compute + r.inflight.reserved <= MaxCompute
       /\ r.observed + InTool(r) <= Len(r.plan)
  <2>1. n <= y
    BY <1>1, <1>2, Fields
  <2> QED
    BY <1>4, <1>8, <1>9, <2>1 DEF Good
<1>11. Good(r, n, X, w, A)
  BY <1>7, <1>8, <1>9, <1>10 DEF Good
<1> QED
  BY <1>2, <1>5, <1>6, <1>8, <1>11 DEF i

\* A plan is accepted that the episode has not seen.
LEMMA PlannedGood ==
  ASSUME NEW s, NEW n, NEW X, NEW w, NEW A, Good(s, n, X, w, A),
         s.inflight = NoFlight, NEW p \in Plans \ s.seen
  PROVE  LET r == [s EXCEPT !.plan = p, !.seen = @ \cup {p}, !.observed = 0,
                            !.state = "executing", !.feedback = ""] IN
         Good(r, n, X, w, A) /\ r.inflight = NoFlight
<1> DEFINE r == [s EXCEPT !.plan = p, !.seen = @ \cup {p}, !.observed = 0,
                          !.state = "executing", !.feedback = ""]
<1>1. s \in EpisodeState
  BY DEF Good
<1>2. r \in EpisodeState
  BY <1>1 DEF EpisodeState, Feedbacks
<1>3. /\ r.calls = s.calls /\ r.inflight = NoFlight /\ r.state = "executing"
      /\ r.tools = s.tools /\ r.compute = s.compute /\ r.observed = 0 /\ r.plan = p
      /\ r.seen = s.seen \cup {p} /\ r.woken = s.woken /\ r.recovered = s.recovered
  BY <1>1 DEF EpisodeState
<1> HIDE DEF r
<1>4. InTool(r) = 0
  BY <1>3, Flights DEF InTool
<1>5. r.observed + InTool(r) <= Len(r.plan)
  BY <1>2, <1>3, <1>4, Fields
<1>6. \A run \in X : run[2] \in r.seen /\ run[2] # r.plan
  BY <1>3 DEF Good
<1>7. Good(r, n, X, w, A)
  BY <1>2, <1>3, <1>5, <1>6 DEF Good
<1> QED
  BY <1>3, <1>7 DEF r

\* An action is observed: nothing was run, or it was run and X shows it.
LEMMA ObservedGood ==
  ASSUME NEW s, NEW n, NEW X, NEW w, NEW A, Good(s, n, X, w, A),
         s.state = "executing", NEW x \in Nat, x <= Len(s.plan), s.observed <= x,
         \A run \in X : run[2] = s.plan => run[3] <= x
  PROVE  LET r == Observed([s EXCEPT !.observed = x]) IN
         Good(r, n, X, w, A) /\ r.inflight = NoFlight
<1> DEFINE v == [s EXCEPT !.observed = x]
           r == Observed(v)
<1>1. s \in EpisodeState
  BY DEF Good
<1>2. v \in EpisodeState
  BY <1>1 DEF EpisodeState
<1>3. /\ v.calls = s.calls /\ v.state = s.state
      /\ v.tools = s.tools /\ v.compute = s.compute /\ v.observed = x /\ v.plan = s.plan
      /\ v.seen = s.seen /\ v.woken = s.woken /\ v.recovered = s.recovered
  BY <1>1 DEF EpisodeState
<1> HIDE DEF v
<1>4. PICK q \in {"interpreting", v.state} :
        /\ r = [v EXCEPT !.inflight = NoFlight, !.state = q]
        /\ q = "interpreting" => v.observed = Len(v.plan) \/ v.state = "interpreting"
  BY <1>2 DEF Observed
<1>5. r \in EpisodeState
  <2>1. v.state \in {"planning", "executing", "interpreting"} \cup Terminal
    BY <1>2 DEF EpisodeState
  <2> QED
    BY <1>2, <1>4, <2>1, Flights DEF EpisodeState
<1>6. /\ r.calls = s.calls /\ r.inflight = NoFlight /\ r.state = q
      /\ r.tools = s.tools /\ r.compute = s.compute /\ r.observed = x /\ r.plan = s.plan
      /\ r.seen = s.seen /\ r.woken = s.woken /\ r.recovered = s.recovered
  BY <1>2, <1>3, <1>4 DEF EpisodeState
<1> HIDE DEF r
<1>7. InTool(r) = 0
  BY <1>6, Flights DEF InTool
<1>8. r.compute + r.inflight.reserved <= MaxCompute
  BY <1>1, <1>6, Fields, Flights, Budgets
<1>9. r.observed + InTool(r) <= Len(r.plan)
  BY <1>6, <1>7
<1>10. r.state \in {"interpreting", "completed"} => r.observed = Len(r.plan)
  BY <1>3, <1>4, <1>6
<1>11. \A run \in X : /\ run[2] \in r.seen
                      /\ run[2] = r.plan => run[3] <= r.observed + InTool(r)
  BY <1>6, <1>7 DEF Good
<1>12. Good(r, n, X, w, A)
  BY <1>5, <1>6, <1>8, <1>9, <1>10, <1>11 DEF Good
<1> QED
  BY <1>6, <1>12 DEF r, v

\* A tool is reserved: from here its action counts as run.
LEMMA ToolGood ==
  ASSUME NEW s, NEW n, NEW X, NEW w, NEW A, Good(s, n, X, w, A), IsFiniteSet(X),
         \A run \in X : run[3] \in Nat,
         s.inflight = NoFlight, s.state = "executing", s.compute < MaxCompute,
         s.observed < Len(s.plan), s.tools < MaxTools, NEW a \in Action,
         a = "network" => /\ s.network < MaxNetwork
                          /\ NetworkSeconds <= MaxCompute - s.compute
  PROVE  LET r == [s EXCEPT !.tools = @ + 1,
                     !.network = IF a = "network" THEN @ + 1 ELSE @,
                     !.inflight = [kind |-> "tool", reserved |-> Seconds(a)]] IN
         /\ Good(r, n, X, w, A) /\ r.inflight.kind = "tool" /\ r.state = s.state
         /\ Cardinality(X) < r.tools
         /\ \A run \in X : run[2] = r.plan => run[3] <= r.observed
<1> DEFINE i == [kind |-> "tool", reserved |-> Seconds(a)]
           y == s.tools + 1
           z == IF a = "network" THEN s.network + 1 ELSE s.network
           r == [s EXCEPT !.tools = y, !.network = z, !.inflight = i]
<1>1. s \in EpisodeState /\ Cardinality(X) \in Nat
  BY FS_CardinalityType DEF Good
<1>2. y \in 0..MaxTools /\ Cardinality(X) < y
  <2>1. s.tools \in 0..MaxTools /\ Cardinality(X) <= s.tools
    BY <1>1, Fields DEF Good
  <2> QED
    BY <1>1, <2>1, Budgets
<1>3. z \in 0..MaxNetwork
  BY <1>1, Fields, Budgets
<1>4. i.kind = "tool" /\ i \in Flight /\ s.compute + i.reserved <= MaxCompute
  <2>1. Seconds(a) \in 0..MaxCompute /\ s.compute + Seconds(a) <= MaxCompute
    BY <1>1, Fields, Budgets DEF Seconds
  <2> QED
    BY <2>1 DEF Flight
<1>5. r = [s EXCEPT !.tools = @ + 1,
             !.network = IF a = "network" THEN @ + 1 ELSE @, !.inflight = i]
  BY <1>1 DEF EpisodeState
<1> HIDE DEF i, y, z
<1>6. r \in EpisodeState
  BY <1>1, <1>2, <1>3, <1>4 DEF EpisodeState
<1>7. /\ r.calls = s.calls /\ r.inflight = i /\ r.state = s.state /\ r.tools = y
      /\ r.compute = s.compute /\ r.observed = s.observed /\ r.plan = s.plan
      /\ r.seen = s.seen /\ r.woken = s.woken /\ r.recovered = s.recovered
  BY <1>1 DEF EpisodeState
<1> HIDE DEF r
<1>8. InTool(r) = 1 /\ InTool(s) = 0
  BY <1>4, <1>7, Flights DEF InTool
<1>9. r.observed + InTool(r) <= Len(r.plan)
  BY <1>1, <1>7, <1>8, Fields
<1>10. \A run \in X : /\ run[2] \in r.seen
                      /\ run[2] = r.plan => run[3] <= r.observed
  <2> TAKE run \in X
  <2>1. run[2] \in s.seen /\ (run[2] = s.plan => run[3] <= s.observed + 0)
    BY <1>8 DEF Good
  <2> QED
    BY <1>1, <1>7, <2>1, Fields
<1>11. \A run \in X : run[2] = r.plan => run[3] <= r.observed + InTool(r)
  <2> TAKE run \in X
  <2> HAVE run[2] = r.plan
  <2>1. run[3] <= r.observed /\ run[3] \in Nat
    BY <1>10
  <2>2. r.observed \in Nat /\ r.observed <= r.observed + InTool(r)
    BY <1>6, <1>8, Fields
  <2> QED
    BY <1>8, <2>1, <2>2
<1>12. n <= r.calls /\ Cardinality(X) <= r.tools
  BY <1>1, <1>2, <1>7, Fields DEF Good
<1>13. Good(r, n, X, w, A)
  BY <1>4, <1>6, <1>7, <1>9, <1>10, <1>11, <1>12 DEF Good
<1> QED
  BY <1>2, <1>4, <1>5, <1>7, <1>10, <1>13 DEF i, y, z

-----------------------------------------------------------------------------
(* What each change of what happened to an episode preserves.              *)

\* The tool runs: the action that was inflight is among those run.
LEMMA RanGood ==
  ASSUME NEW s, NEW n, NEW X, NEW w, NEW A, Good(s, n, X, w, A), IsFiniteSet(X),
         s.inflight.kind = "tool", Cardinality(X) < s.tools, NEW run,
         run[2] = s.plan, run[3] = s.observed + 1
  PROVE  Good(s, n, X \cup {run}, w, A)
<1>1. s \in EpisodeState /\ Cardinality(X) \in Nat
  BY FS_CardinalityType DEF Good
<1>2. IsFiniteSet(X \cup {run}) /\ Cardinality(X \cup {run}) <= Cardinality(X) + 1
  BY <1>1, FS_AddElement
<1>3. Cardinality(X \cup {run}) <= s.tools
  <2>1. Cardinality(X \cup {run}) \in Nat /\ s.tools \in Nat
    BY <1>1, <1>2, FS_CardinalityType, Fields, Budgets
  <2> QED
    BY <1>1, <1>2, <2>1
<1>4. InTool(s) = 1
  BY DEF InTool
<1>5. s.plan # NoPlan
  <2>1. s.observed + 1 <= Len(s.plan) /\ s.observed \in Nat /\ Len(s.plan) \in Nat
    BY <1>1, <1>4, Fields DEF Good
  <2> QED
    BY <2>1, Lengths DEF NoPlan
<1>6. \A x \in X \cup {run} : /\ x[2] \in s.seen
                              /\ x[2] = s.plan => x[3] <= s.observed + InTool(s)
  <2>1. s.plan \in s.seen
    BY <1>5 DEF Good
  <2>2. run[3] <= s.observed + InTool(s)
    BY <1>1, <1>4, Fields
  <2> QED
    BY <2>1, <2>2 DEF Good
<1> QED
  BY <1>3, <1>6 DEF Good

\* Reviews that did not wake the episode before wake it.
LEMMA WokenGood ==
  ASSUME NEW s, NEW n, NEW X, NEW w \in Nat, NEW A, Good(s, n, X, w, A),
         IsFiniteSet(A), A \subseteq Reviews, NEW F, F \subseteq A \ s.woken, F # {}
  PROVE  LET r == [s EXCEPT !.state = "planning", !.woken = @ \cup F,
                            !.feedback = "review"] IN
         Good(r, n, X, w + 1, A) /\ r.state = "planning"
<1> DEFINE W == s.woken \cup F
           r == [s EXCEPT !.state = "planning", !.woken = W, !.feedback = "review"]
<1>1. s \in EpisodeState /\ s.woken \subseteq A
  BY DEF Good
<1>2. r = [s EXCEPT !.state = "planning", !.woken = @ \cup F, !.feedback = "review"]
  OBVIOUS
<1>3. W \subseteq A /\ IsFiniteSet(W)
  BY <1>1, FS_Subset
<1>4. /\ Cardinality(W) \in Nat /\ Cardinality(s.woken) \in Nat
      /\ Cardinality(s.woken) + 1 <= Cardinality(W)
  <2>1. s.woken \subseteq W /\ s.woken # W
    BY <1>1
  <2>2. IsFiniteSet(s.woken) /\ Cardinality(s.woken) <= Cardinality(W)
        /\ Cardinality(s.woken) # Cardinality(W)
    BY <1>3, <2>1, FS_Subset
  <2> QED
    BY <1>3, <2>2, FS_CardinalityType
<1> HIDE DEF W
<1>5. r \in EpisodeState
  BY <1>1, <1>3 DEF EpisodeState, Feedbacks
<1>6. /\ r.calls = s.calls /\ r.inflight = s.inflight /\ r.state = "planning"
      /\ r.tools = s.tools /\ r.compute = s.compute /\ r.observed = s.observed
      /\ r.plan = s.plan /\ r.seen = s.seen /\ r.woken = W /\ r.recovered = s.recovered
  BY <1>1 DEF EpisodeState
<1> HIDE DEF r
<1>7. InTool(r) = InTool(s)
  BY <1>6 DEF InTool
<1>8. w + 1 <= Cardinality(r.woken) + (IF r.recovered THEN 1 ELSE 0)
  <2>1. w <= Cardinality(s.woken) + (IF s.recovered THEN 1 ELSE 0)
    BY DEF Good
  <2> QED
    BY <1>4, <1>6, <2>1
<1>9. Good(r, n, X, w + 1, A)
  BY <1>3, <1>5, <1>6, <1>7, <1>8 DEF Good
<1> QED
  BY <1>2, <1>6, <1>9

\* The method recovery wakes the episode, once.
LEMMA RecoveredGood ==
  ASSUME NEW s, NEW n, NEW X, NEW w \in Nat, NEW A, Good(s, n, X, w, A),
         IsFiniteSet(A), ~s.recovered
  PROVE  LET r == [s EXCEPT !.state = "planning", !.recovered = TRUE] IN
         Good(r, n, X, w + 1, A) /\ r.state = "planning"
<1> DEFINE r == [s EXCEPT !.state = "planning", !.recovered = TRUE]
<1>1. s \in EpisodeState /\ s.woken \subseteq A
  BY DEF Good
<1>2. Cardinality(s.woken) \in Nat
  BY <1>1, FS_Subset, FS_CardinalityType
<1>3. r \in EpisodeState
  BY <1>1 DEF EpisodeState
<1>4. /\ r.calls = s.calls /\ r.inflight = s.inflight /\ r.state = "planning"
      /\ r.tools = s.tools /\ r.compute = s.compute /\ r.observed = s.observed
      /\ r.plan = s.plan /\ r.seen = s.seen /\ r.woken = s.woken /\ r.recovered
  BY <1>1 DEF EpisodeState
<1> HIDE DEF r
<1>5. InTool(r) = InTool(s)
  BY <1>4 DEF InTool
<1>6. w + 1 <= Cardinality(r.woken) + (IF r.recovered THEN 1 ELSE 0)
  <2>1. w <= Cardinality(s.woken) + 0
    BY DEF Good
  <2> QED
    BY <1>2, <1>4, <2>1
<1>7. Good(r, n, X, w + 1, A)
  BY <1>3, <1>4, <1>5, <1>6 DEF Good
<1> QED
  BY <1>4, <1>7 DEF r

LEMMA MoreGood ==
  ASSUME NEW s, NEW n, NEW X, NEW w, NEW A, Good(s, n, X, w, A)
  PROVE  /\ \A m \in Nat : m <= s.calls => Good(s, m, X, w, A)
         /\ \A B : A \subseteq B => Good(s, n, X, w, B)
  BY DEF Good

-----------------------------------------------------------------------------
(* What a step leaves alone.                                               *)
Recorded(e) == Good(episodes[e], called[e], Runs(e), wakes[e], arrived[e])
Kept(e) == IF episodes[e] = Absent THEN Untouched(e) ELSE Recorded(e)
Knows(pc, r, e) ==
  Stage(pc, r, episodes[e], results[e], called[e], Runs(e), wakes[e], arrived[e])

LEMMA Named == \A e \in Episode : e # <<>>
<1> TAKE e \in Episode
<1>1. PICK a \in 0..MaxRevision, b \in 0..(MaxEpisodes - 1) : e = <<a, b>>
  BY DEF Episode
<1>2. Len(<<a, b>>) = 2 /\ Len(<<>>) = 0
  OBVIOUS
<1> QED
  BY <1>1, <1>2

LEMMA Working ==
  ASSUME IInv, ~At("idle")
  PROVE  /\ proc.episode \in Episode /\ Knows(proc.pc, proc.state, proc.episode)
         /\ proc.pc \in Stepping => pointer # proc.episode
         /\ IF episodes[proc.episode] = Absent THEN Untouched(proc.episode)
              ELSE Recorded(proc.episode)
<1>1. proc # Idle
  BY DEF At, Idle
<1>2. proc.episode \in Episode /\ Knows(proc.pc, proc.state, proc.episode)
  BY <1>1 DEF IInv, ProcOK, Knows
<1>3. proc.pc \in Stepping => pointer # proc.episode
  <2> SUFFICES ASSUME proc.pc \in Stepping, pointer = proc.episode PROVE FALSE
    OBVIOUS
  <2>1. episodes[proc.episode].state \notin Terminal
    BY <1>2 DEF Knows, Stage
  <2>2. pointer # <<>>
    BY <1>2, Named
  <2> QED
    BY <2>1, <2>2 DEF IInv, PointerSettled, Terminal
<1> QED
  BY <1>2, <1>3 DEF IInv, Disk, Recorded

LEMMA Resting ==
  ASSUME IInv, At("idle")
  PROVE  proc = Idle
BY DEF IInv, ProcOK, Stage, At, Stepping, Publishing

LEMMA Runnings ==
  ASSUME IInv, NEW e \in Episode
  PROVE  /\ IsFiniteSet(Runs(e)) /\ \A run \in Runs(e) : run[3] \in Nat
         /\ called[e] \in Nat /\ wakes[e] \in Nat
         /\ IsFiniteSet(arrived[e]) /\ arrived[e] \subseteq Reviews
<1>1. Runs(e) \subseteq executed /\ IsFiniteSet(executed)
  BY DEF Runs, IInv, Disk
<1>2. executed \subseteq Episode \X Plans \X Nat
  BY DEF IInv, TypeOK
<1>3. IsFiniteSet(Runs(e))
  BY <1>1, FS_Subset
<1>4. \A run \in Runs(e) : run[3] \in Nat
  BY <1>1, <1>2
<1>5. called[e] \in Nat /\ wakes[e] \in Nat /\ arrived[e] \subseteq Reviews
  BY DEF IInv, TypeOK
<1> QED
  BY <1>3, <1>4, <1>5 DEF IInv, Disk

\* Only the tick's memory changes.
LEMMA Held ==
  ASSUME IInv, NEW e \in Episode, NEW pc, NEW r,
         proc' = [pc |-> pc, episode |-> e, state |-> r], Knows(pc, r, e),
         UNCHANGED <<revision, disk, feedback, history, crashes>>
  PROVE  IInv'
<1> USE DEF disk, feedback, history
<1>1. \A x : Runs(x)' = Runs(x)
  BY DEF Runs
<1>2. TypeOK'
  BY DEF IInv, TypeOK
<1>3. Disk'
  BY <1>1 DEF IInv, Disk, Untouched
<1>4. ProcOK'
  <2>1. proc'.episode = e /\ proc'.pc = pc /\ proc'.state = r
    OBVIOUS
  <2>2. Stage(pc, r, episodes'[e], results'[e], called'[e], Runs(e)', wakes'[e], arrived'[e])
    BY <1>1 DEF Knows
  <2> QED
    BY <2>1, <2>2 DEF ProcOK
<1>5. repeated' = {} /\ PointerSettled'
  BY DEF IInv, PointerSettled
<1> QED
  BY <1>2, <1>3, <1>4, <1>5 DEF IInv

\* The record on disk changes, and the tick has it in memory or rests.
LEMMA SavedWoken ==
  ASSUME IInv, NEW e \in Episode, NEW r, NEW v \in Nat,
         Good(r, called[e], Runs(e), v, arrived[e]), wakes' = [wakes EXCEPT ![e] = v],
         episodes' = [episodes EXCEPT ![e] = r],
         pointer = e => r.state = "completed" /\ Alike(r, episodes[e]),
         \/ proc' = Idle
         \/ \E pc :
              /\ proc' = [pc |-> pc, episode |-> e, state |-> r]
              /\ Stage(pc, r, r, results[e], called[e], Runs(e), v, arrived[e]),
         UNCHANGED <<revision, results, pointer, feedback, called, executed, repeated, crashes>>
  PROVE  IInv'
<1> USE DEF feedback
<1>1. \A x : Runs(x)' = Runs(x)
  BY DEF Runs
<1>2. r \in EpisodeState /\ r # Absent /\ r.observed <= Len(r.plan)
  <2>1. r \in EpisodeState /\ r.observed + InTool(r) <= Len(r.plan)
    BY DEF Good
  <2> QED
    BY <2>1, Fields, NotAbsent
<1>3. /\ episodes \in [Episode -> {Absent} \cup EpisodeState]
      /\ episodes'[e] = r /\ \A x \in Episode \ {e} : episodes'[x] = episodes[x]
      /\ wakes' \in [Episode -> Nat]
      /\ wakes'[e] = v /\ \A x \in Episode \ {e} : wakes'[x] = wakes[x]
  BY DEF IInv, TypeOK
<1>4. TypeOK'
  <2>1. episodes' \in [Episode -> {Absent} \cup EpisodeState]
    BY <1>2, <1>3
  <2>2. \A x \in Episode : episodes'[x] # Absent =>
          episodes'[x].observed <= Len(episodes'[x].plan)
    BY <1>2, <1>3 DEF IInv, TypeOK
  <2>3. proc' = Idle \/ proc'.episode \in Episode
    OBVIOUS
  <2> QED
    BY <1>3, <2>1, <2>2, <2>3 DEF IInv, TypeOK
<1>5. Disk'
  BY <1>1, <1>2, <1>3 DEF IInv, Disk, Untouched
<1>6. ProcOK'
  <2>1. CASE proc' = Idle
    BY <2>1 DEF ProcOK
  <2>2. ASSUME NEW pc, proc' = [pc |-> pc, episode |-> e, state |-> r],
               Stage(pc, r, r, results[e], called[e], Runs(e), v, arrived[e])
        PROVE  ProcOK'
    <3>1. proc'.episode = e /\ proc'.pc = pc /\ proc'.state = r
      BY <2>2
    <3>2. Stage(pc, r, episodes'[e], results'[e], called'[e], Runs(e)', wakes'[e], arrived'[e])
      BY <1>1, <1>3, <2>2
    <3> QED
      BY <3>1, <3>2 DEF ProcOK
  <2> QED
    BY <2>1, <2>2
<1>7. PointerSettled'
  <2>1. pointer = <<>> \/ pointer \in Episode
    BY DEF IInv, TypeOK
  <2>2. CASE pointer = e
    BY <1>3, <2>2 DEF IInv, PointerSettled, Alike
  <2>3. CASE pointer # e
    BY <1>3, <2>1, <2>3 DEF IInv, PointerSettled
  <2> QED
    BY <2>2, <2>3
<1>8. repeated' = {}
  BY DEF IInv
<1> QED
  BY <1>4, <1>5, <1>6, <1>7, <1>8 DEF IInv

LEMMA Saved ==
  ASSUME IInv, NEW e \in Episode, NEW r,
         Good(r, called[e], Runs(e), wakes[e], arrived[e]),
         episodes' = [episodes EXCEPT ![e] = r],
         pointer = e => r.state = "completed" /\ Alike(r, episodes[e]),
         \/ proc' = Idle
         \/ \E pc :
              /\ proc' = [pc |-> pc, episode |-> e, state |-> r]
              /\ Stage(pc, r, r, results[e], called[e], Runs(e), wakes[e], arrived[e]),
         UNCHANGED <<revision, results, pointer, feedback, history, crashes>>
  PROVE  IInv'
<1>1. wakes' = [wakes EXCEPT ![e] = wakes[e]] /\ wakes[e] \in Nat
  BY DEF history, IInv, TypeOK
<1> QED
  BY <1>1, SavedWoken DEF history

-----------------------------------------------------------------------------
(* The steps of the tick, from its start to what it saves.                 *)

LEMMA Starting ==
  ASSUME IInv, Start
  PROVE  IInv'
<1>1. At("idle") /\ proc = Idle
  BY Resting DEF Start, Select, WakeByReview, WakeByMethod
<1>2. CASE Select
  <2>1. PICK e \in Episode :
          /\ episodes[e].state \notin Terminal
          /\ proc' = [pc |-> "begin", episode |-> e, state |-> episodes[e]]
    BY <1>2 DEF Select
  <2>2. Knows("begin", episodes[e], e)
    BY <2>1 DEF Knows, Stage, Stepping, Publishing
  <2> QED
    BY <1>2, <2>1, <2>2, Held DEF Select
<1>3. ASSUME NEW e \in Episode, Wakeable(e)
      PROVE  Recorded(e) /\ pointer # e
  <2>1. episodes[e] # Absent /\ episodes[e].state # "completed"
    BY <1>3 DEF Wakeable, Waiting, Absent
  <2>2. pointer # e
    BY <2>1, Named DEF IInv, PointerSettled
  <2> QED
    BY <2>1, <2>2 DEF IInv, Disk, Recorded
<1>4. ASSUME NEW r, NEW e, r.state = "planning"
      PROVE  Stage("begin", r, r, results[e], called[e], Runs(e), wakes[e] + 1, arrived[e])
  BY <1>4 DEF Stage, Stepping, Publishing, Terminal
<1>5. CASE WakeByReview
  <2>1. PICK e \in Episode :
          LET fresh == Unanswered(e) \ episodes[e].woken
              s == [episodes[e] EXCEPT !.state = "planning", !.woken = @ \cup fresh,
                                       !.feedback = "review"]
          IN /\ Wakeable(e) /\ fresh # {}
             /\ episodes' = [episodes EXCEPT ![e] = s]
             /\ wakes' = [wakes EXCEPT ![e] = @ + 1]
             /\ proc' = [pc |-> "begin", episode |-> e, state |-> s]
    BY <1>5 DEF WakeByReview
  <2> DEFINE fresh == Unanswered(e) \ episodes[e].woken
             s == [episodes[e] EXCEPT !.state = "planning", !.woken = @ \cup fresh,
                                      !.feedback = "review"]
  <2>2. Recorded(e) /\ pointer # e /\ fresh \subseteq arrived[e] \ episodes[e].woken
    BY <1>3, <2>1 DEF Unanswered
  <2>3. Good(s, called[e], Runs(e), wakes[e] + 1, arrived[e]) /\ s.state = "planning"
    <3>1. fresh # {} /\ Good(episodes[e], called[e], Runs(e), wakes[e], arrived[e])
      BY <2>1, <2>2 DEF Recorded
    <3>2. wakes[e] \in Nat /\ IsFiniteSet(arrived[e]) /\ arrived[e] \subseteq Reviews
      BY Runnings
    <3> HIDE DEF fresh
    <3> QED
      <4> DEFINE D == episodes[e]
                 N == called[e]
                 W == wakes[e]
                 A == arrived[e]
                 X == Runs(e)
      <4>1. /\ Good(D, N, X, W, A) /\ W \in Nat /\ IsFiniteSet(A) /\ A \subseteq Reviews
            /\ fresh \subseteq A \ D.woken /\ fresh # {}
        BY <2>2, <3>1, <3>2
      <4>2. s = [D EXCEPT !.state = "planning", !.woken = D.woken \cup fresh,
                                      !.feedback = "review"]
        OBVIOUS
      <4> HIDE DEF s, D, N, W, A, X
      <4>3. LET r == [D EXCEPT !.state = "planning", !.woken = D.woken \cup fresh,
                               !.feedback = "review"] IN
            Good(r, N, X, W + 1, A) /\ r.state = "planning"
        BY <4>1, WokenGood
      <4> QED
        BY <4>2, <4>3 DEF N, W, A, X
  <2>4. wakes' = [wakes EXCEPT ![e] = wakes[e] + 1] /\ wakes[e] + 1 \in Nat
    BY <2>1, Runnings
  <2> HIDE DEF s, fresh
  <2>5. /\ episodes' = [episodes EXCEPT ![e] = s]
        /\ proc' = [pc |-> "begin", episode |-> e, state |-> s]
    BY <2>1 DEF s, fresh
  <2>6. UNCHANGED <<revision, results, pointer, feedback, called, executed, repeated, crashes>>
    BY <1>5 DEF WakeByReview
  <2> QED
    BY <1>4, <2>2, <2>3, <2>4, <2>5, <2>6, SavedWoken
<1>6. CASE WakeByMethod
  <2>1. PICK e \in Episode :
          LET s == [episodes[e] EXCEPT !.state = "planning", !.recovered = TRUE]
          IN /\ Wakeable(e) /\ ~episodes[e].recovered
             /\ episodes' = [episodes EXCEPT ![e] = s]
             /\ wakes' = [wakes EXCEPT ![e] = @ + 1]
             /\ proc' = [pc |-> "begin", episode |-> e, state |-> s]
    BY <1>6 DEF WakeByMethod
  <2> DEFINE s == [episodes[e] EXCEPT !.state = "planning", !.recovered = TRUE]
  <2>2. Recorded(e) /\ pointer # e
    BY <1>3, <2>1
  <2>3. Good(s, called[e], Runs(e), wakes[e] + 1, arrived[e]) /\ s.state = "planning"
    BY <2>1, <2>2, Runnings, RecoveredGood DEF Recorded
  <2>4. wakes' = [wakes EXCEPT ![e] = wakes[e] + 1] /\ wakes[e] + 1 \in Nat
    BY <2>1, Runnings
  <2> HIDE DEF s
  <2>5. /\ episodes' = [episodes EXCEPT ![e] = s]
        /\ proc' = [pc |-> "begin", episode |-> e, state |-> s]
    BY <2>1 DEF s
  <2>6. UNCHANGED <<revision, results, pointer, feedback, called, executed, repeated, crashes>>
    BY <1>6 DEF WakeByMethod
  <2> QED
    BY <1>4, <2>2, <2>3, <2>4, <2>5, <2>6, SavedWoken
<1> QED
  BY <1>2, <1>5, <1>6 DEF Start

LEMMA Beginning ==
  ASSUME IInv, Create \/ Supersede \/ ComputeExhausted \/ Proceed
  PROVE  IInv'
<1>1. PICK e \in Episode :
        /\ e = proc.episode /\ proc.pc = "begin" /\ pointer # e
        /\ proc.state = episodes[e] /\ episodes[e].state \notin Terminal
        /\ episodes[e] = Absent => Untouched(e)
        /\ episodes[e] # Absent => Recorded(e)
  <2>1. At("begin") /\ ~At("idle") /\ proc.pc \in Stepping
    BY DEF Create, Supersede, ComputeExhausted, Proceed, At, Stepping
  <2> QED
    BY <2>1, Working DEF Knows, Stage, At
<1> DEFINE d == episodes[e]
<1>2. CASE Create
  <2>1. Absent = d /\ episodes' = [episodes EXCEPT ![e] = Fresh]
        /\ proc' = [pc |-> "begin", episode |-> e, state |-> Fresh]
    BY <1>1, <1>2 DEF Create, Save, Hold
  <2>2. Good(Fresh, called[e], Runs(e), wakes[e], arrived[e])
    BY <1>1, <2>1, FreshGood DEF Untouched
  <2>3. Stage("begin", Fresh, Fresh, results[e], called[e], Runs(e), wakes[e], arrived[e])
    BY DEF Stage, Stepping, Publishing, Fresh, Terminal
  <2> QED
    BY <1>1, <1>2, <2>1, <2>2, <2>3, Saved DEF Create
<1>3. ASSUME d # Absent
      PROVE  /\ Good(d, called[e], Runs(e), wakes[e], arrived[e])
             /\ d.state \in Opened /\ d.feedback \in Feedbacks
             /\ d = [d EXCEPT !.feedback = d.feedback]
  <2>1. Good(d, called[e], Runs(e), wakes[e], arrived[e]) /\ d \in EpisodeState
    BY <1>1, <1>3 DEF Recorded, Good
  <2>2. d.state \in Opened \cup Terminal /\ d.feedback \in Feedbacks
    BY <2>1 DEF EpisodeState, Opened
  <2>3. d = [d EXCEPT !.feedback = d.feedback]
    BY <2>1 DEF EpisodeState
  <2> QED
    BY <1>1, <2>1, <2>2, <2>3
<1>4. ASSUME d # Absent
      PROVE  LET r == SettleInflight(d) IN
             /\ Good(r, called[e], Runs(e), wakes[e], arrived[e])
             /\ r.inflight = NoFlight /\ r.state \in Opened
  BY <1>3, <1>4, SettledGood
<1>5. CASE Supersede
  <2> DEFINE r == [d EXCEPT !.state = "superseded"]
  <2>1. /\ d # Absent /\ proc' = Idle
        /\ episodes' = [episodes EXCEPT ![e] = r]
        /\ UNCHANGED <<revision, results, pointer, feedback, history, crashes>>
    BY <1>1, <1>5 DEF Supersede, Save
  <2>2. r = [d EXCEPT !.state = "superseded", !.feedback = d.feedback]
    BY <1>3, <2>1 DEF Good, EpisodeState
  <2> HIDE DEF r
  <2>3. Good(r, called[e], Runs(e), wakes[e], arrived[e])
    <3>1. "superseded" \in Opened \cup Terminal
      BY DEF Terminal
    <3>2. Good(d, called[e], Runs(e), wakes[e], arrived[e]) /\ d.feedback \in Feedbacks
      BY <1>3, <2>1
    <3> HIDE DEF d
    <3> QED
      BY <2>2, <3>1, <3>2, MovedGood
  <2> QED
    BY <1>1, <2>1, <2>3, Saved
<1>6. CASE ComputeExhausted
  <2>1. PICK s \in {d, SettleInflight(d)} :
          /\ d # Absent /\ proc' = Idle
          /\ episodes' = [episodes EXCEPT ![e] =
               [s EXCEPT !.state = "waiting_for_changed_input",
                         !.feedback = "compute_exhausted"]]
          /\ UNCHANGED <<revision, results, pointer, feedback, history, crashes>>
    BY <1>1, <1>6 DEF ComputeExhausted, Save
  <2> DEFINE r == [s EXCEPT !.state = "waiting_for_changed_input",
                            !.feedback = "compute_exhausted"]
  <2>2. Good(s, called[e], Runs(e), wakes[e], arrived[e])
    BY <1>3, <1>4, <2>1
  <2>3. Good(r, called[e], Runs(e), wakes[e], arrived[e])
    BY <2>2, MovedGood DEF Terminal, Feedbacks
  <2> HIDE DEF r
  <2>4. episodes' = [episodes EXCEPT ![e] = r]
    BY <2>1 DEF r
  <2> QED
    BY <1>1, <2>1, <2>3, <2>4, Saved
<1>7. CASE Proceed
  <2> DEFINE r == SettleInflight(d)
  <2>1. /\ d # Absent /\ r.compute < MaxCompute
        /\ proc' = [pc |-> "step", episode |-> e, state |-> r]
        /\ UNCHANGED <<revision, disk, feedback, history, crashes>>
    BY <1>1, <1>7 DEF Proceed, Hold
  <2>2. /\ Good(r, called[e], Runs(e), wakes[e], arrived[e])
        /\ r.inflight = NoFlight /\ r.state \in Opened
    BY <1>4, <2>1
  <2> HIDE DEF r
  <2>3. Knows("step", r, e)
    BY <1>1, <2>1, <2>2 DEF Knows, Stage, Stepping, Publishing
  <2> QED
    BY <2>1, <2>3, Held
<1> QED
  BY <1>2, <1>5, <1>6, <1>7

-----------------------------------------------------------------------------
(* The steps of the tick that work on an open record.                      *)

LEMMA AtWork ==
  ASSUME IInv, proc.pc \in {"step", "call", "answer", "tool", "finish"}
  PROVE  LET e == proc.episode
             s == proc.state IN
         /\ e \in Episode /\ pointer # e /\ episodes[e] # Absent
         /\ episodes[e].state \notin Terminal
         /\ Good(s, called[e], Runs(e), wakes[e], arrived[e]) /\ s \in EpisodeState
         /\ Knows(proc.pc, s, e)
<1>1. ~At("idle") /\ proc.pc \in Stepping /\ proc.pc # "begin"
  BY DEF At, Stepping
<1>2. /\ proc.episode \in Episode /\ pointer # proc.episode
      /\ Knows(proc.pc, proc.state, proc.episode)
  BY <1>1, Working
<1> QED
  BY <1>1, <1>2 DEF Knows, Stage, Good

LEMMA ToFinish ==
  ASSUME IInv, proc.pc \in {"step", "answer"}, NEW r,
         LET e == proc.episode IN Good(r, called[e], Runs(e), wakes[e], arrived[e]),
         r.inflight = NoFlight, Hold("finish", r),
         UNCHANGED <<revision, disk, feedback, history, crashes>>
  PROVE  IInv'
<1>1. PICK e \in Episode :
        /\ e = proc.episode /\ episodes[e] # Absent /\ episodes[e].state \notin Terminal
  BY AtWork
<1>2. Knows("finish", r, e)
  BY <1>1 DEF Knows, Stage, Stepping, Publishing
<1> QED
  BY <1>1, <1>2, Held DEF Hold

LEMMA Asked ==
  ASSUME IInv, CallsExhausted \/ ReserveCall \/ CallFails \/ AnswerInvalid \/ PlanUnchanged
               \/ AcceptPlan \/ AcceptInterpretation
  PROVE  IInv'
<1>1. proc.pc \in {"step", "answer"}
  BY DEF CallsExhausted, ReserveCall, CallFails, AnswerInvalid, PlanUnchanged, AcceptPlan,
         AcceptInterpretation, At
<1>2. PICK e \in Episode, s \in EpisodeState :
        /\ e = proc.episode /\ s = proc.state /\ pointer # e
        /\ episodes[e] # Absent /\ episodes[e].state \notin Terminal
        /\ Good(s, called[e], Runs(e), wakes[e], arrived[e])
        /\ s.inflight = NoFlight /\ s.feedback \in Feedbacks
        /\ proc.pc = "step" => s.compute < MaxCompute
        /\ proc.pc = "answer" => s.state \in Asking
  <2>1. proc.state.feedback \in Feedbacks
    BY <1>1, AtWork DEF EpisodeState
  <2> QED
    BY <1>1, <2>1, AtWork DEF Knows, Stage
<1>3. ASSUME NEW r, Good(r, called[e], Runs(e), wakes[e], arrived[e]),
             r.inflight = NoFlight, Hold("finish", r),
             UNCHANGED <<revision, disk, feedback, history, crashes>>
      PROVE  IInv'
  BY <1>1, <1>2, <1>3, ToFinish
<1>4. ASSUME NEW q \in Opened \cup Terminal, NEW f \in Feedbacks,
             q = "interpreting" \/ q = "completed" => s.observed = Len(s.plan)
      PROVE  LET r == [s EXCEPT !.state = q, !.feedback = f] IN
             /\ Good(r, called[e], Runs(e), wakes[e], arrived[e])
             /\ r.inflight = NoFlight
  <2>1. Good(s, called[e], Runs(e), wakes[e], arrived[e])
    BY <1>2
  <2> DEFINE r == [s EXCEPT !.state = q, !.feedback = f]
  <2>2. Good(r, called[e], Runs(e), wakes[e], arrived[e])
    BY <1>4, <2>1, MovedGood
  <2>3. r.inflight = s.inflight
    BY <1>2 DEF EpisodeState
  <2> QED
    BY <1>2, <2>2, <2>3
<1>5. CASE CallsExhausted
  <2>1. /\ "waiting_for_changed_input" \in Opened \cup Terminal
        /\ "calls_exhausted" \in Feedbacks
    BY DEF Terminal, Feedbacks
  <2> QED
    BY <1>2, <1>3, <1>4, <1>5, <2>1 DEF CallsExhausted
<1>6. CASE ReserveCall
  <2> DEFINE r == [s EXCEPT !.calls = @ + 1,
                     !.inflight = [kind |-> "model",
                       reserved |-> Least(ModelSeconds, MaxCompute - s.compute)]]
  <2>1. /\ proc.pc = "step" /\ s.state \in Asking /\ s.calls < MaxCalls
        /\ episodes' = [episodes EXCEPT ![e] = r]
        /\ proc' = [pc |-> "call", episode |-> e, state |-> r]
        /\ UNCHANGED <<revision, results, pointer, feedback, history, crashes>>
    BY <1>2, <1>6 DEF ReserveCall, At, Calling, Asking, Save, Hold
  <2>2. called[e] \in Nat
    BY Runnings
  <2>3. /\ Good(r, called[e], Runs(e), wakes[e], arrived[e]) /\ r.state = s.state
        /\ r.inflight.kind = "model" /\ called[e] < r.calls
    BY <1>2, <2>1, <2>2, ReservedGood
  <2> HIDE DEF r
  <2>4. Stage("call", r, r, results[e], called[e], Runs(e), wakes[e], arrived[e])
    <3>1. r # Absent
      BY <2>3, NotAbsent DEF Good
    <3> QED
      BY <2>1, <2>3, <3>1 DEF Stage, Stepping, Publishing, Asking, Terminal
  <2> QED
    BY <1>2, <2>1, <2>3, <2>4, Saved
<1>7. CASE CallFails
  <2> DEFINE r == [s EXCEPT !.feedback = "failed"]
  <2>1. r = [s EXCEPT !.state = s.state, !.feedback = "failed"]
    BY DEF EpisodeState
  <2>2. /\ s.state \in Opened \cup Terminal /\ "failed" \in Feedbacks
        /\ s.state = "interpreting" \/ s.state = "completed" => s.observed = Len(s.plan)
    BY <1>2 DEF EpisodeState, Opened, Feedbacks, Good
  <2>3. Good(r, called[e], Runs(e), wakes[e], arrived[e]) /\ r.inflight = NoFlight
    BY <1>4, <2>1, <2>2
  <2> HIDE DEF r
  <2>4. Hold("finish", r) /\ UNCHANGED <<revision, disk, feedback, history, crashes>>
    BY <1>2, <1>7 DEF CallFails, r
  <2> QED
    BY <1>3, <2>3, <2>4
<1>8. CASE AnswerInvalid \/ PlanUnchanged
  <2>1. PICK p \in Plans \cup {NoPlan}, reason \in {"invalid", "unchanged"} :
          Reject(reason, p) /\ UNCHANGED <<revision, disk, feedback, history, crashes>>
    BY <1>8 DEF AnswerInvalid, PlanUnchanged
  <2> DEFINE x == <<s.state, reason, p>>
             r1 == [s EXCEPT !.state = "waiting_for_changed_input",
                             !.feedback = Repeated(reason)]
             r2 == [s EXCEPT !.rejected = @ \cup {x}, !.feedback = reason]
  <2>2. Hold("finish", r1) \/ Hold("finish", r2)
    BY <1>2, <2>1 DEF Reject
  <2>3. /\ "waiting_for_changed_input" \in Opened \cup Terminal
        /\ Repeated(reason) \in Feedbacks /\ reason \in Feedbacks
    BY DEF Terminal, Feedbacks, Repeated
  <2>4. s.state \in Asking
    BY <1>2, <1>8 DEF AnswerInvalid, PlanUnchanged, At
  <2>5. x \in Rejection
    BY <2>4 DEF Rejection, Asking
  <2>6. Good(r1, called[e], Runs(e), wakes[e], arrived[e]) /\ r1.inflight = NoFlight
    BY <1>4, <2>3
  <2> HIDE DEF x, r1
  <2>7. Good(r2, called[e], Runs(e), wakes[e], arrived[e]) /\ r2.inflight = NoFlight
    <3>1. Good(s, called[e], Runs(e), wakes[e], arrived[e])
      BY <1>2
    <3>2. Good(r2, called[e], Runs(e), wakes[e], arrived[e])
      BY <2>3, <2>5, <3>1, RejectedGood
    <3>3. r2.inflight = s.inflight
      BY <1>2 DEF EpisodeState
    <3> QED
      BY <1>2, <3>2, <3>3
  <2> HIDE DEF r2
  <2> QED
    BY <1>3, <2>1, <2>2, <2>6, <2>7
<1>9. CASE AcceptPlan
  <2>1. PICK p \in Plans \ s.seen :
          Hold("finish", [s EXCEPT !.plan = p, !.seen = @ \cup {p}, !.observed = 0,
                                   !.state = "executing", !.feedback = ""])
    BY <1>2, <1>9 DEF AcceptPlan
  <2> QED
    BY <1>2, <1>3, <1>9, <2>1, PlannedGood DEF AcceptPlan
<1>10. CASE AcceptInterpretation
  <2>1. "completed" \in Opened \cup Terminal /\ "" \in Feedbacks
    BY DEF Terminal, Feedbacks
  <2>2. s.observed = Len(s.plan)
    BY <1>2, <1>10 DEF AcceptInterpretation, Good
  <2> QED
    BY <1>2, <1>3, <1>4, <1>10, <2>1, <2>2 DEF AcceptInterpretation
<1> QED
  BY <1>5, <1>6, <1>7, <1>8, <1>9, <1>10

\* What was done is recorded in the history, or a request is made.
LEMMA Done ==
  ASSUME IInv, NEW e \in Episode, NEW pc, NEW r,
         proc' = [pc |-> pc, episode |-> e, state |-> r],
         Stage(pc, r, episodes[e], results[e], called'[e], Runs(e)', wakes[e], arrived[e]),
         Good(episodes[e], called'[e], Runs(e)', wakes[e], arrived[e]),
         episodes[e] # Absent,
         \A x \in Episode \ {e} : called'[x] = called[x] /\ Runs(x)' = Runs(x),
         called' \in [Episode -> Nat], executed' \subseteq Episode \X Plans \X Nat,
         IsFiniteSet(executed'), repeated' = {},
         requested' \subseteq Episode, answered' \in [Episode -> SUBSET Reviews],
         \A x \in Episode : answered'[x] \subseteq arrived[x],
         UNCHANGED <<revision, disk, arrived, wakes, crashes>>
  PROVE  IInv'
<1> USE DEF disk
<1>1. proc'.episode = e /\ proc'.pc = pc /\ proc'.state = r
  OBVIOUS
<1>2. TypeOK'
  BY <1>1 DEF IInv, TypeOK
<1>3. Disk'
  BY DEF IInv, Disk, Untouched
<1>4. ProcOK'
  BY <1>1 DEF ProcOK
<1>5. PointerSettled'
  BY DEF IInv, PointerSettled
<1> QED
  BY <1>2, <1>3, <1>4, <1>5 DEF IInv

LEMMA Answered ==
  ASSUME IInv, CallModel \/ RequestCapability
  PROVE  IInv'
<1>1. CASE CallModel
  <2>1. PICK e \in Episode, s \in EpisodeState :
          /\ e = proc.episode /\ s = proc.state
          /\ episodes[e] = s /\ s # Absent /\ s.state \notin Terminal
          /\ Good(s, called[e], Runs(e), wakes[e], arrived[e])
          /\ s.state \in Asking /\ s.inflight.kind = "model" /\ called[e] < s.calls
    <3>1. proc.pc = "call"
      BY <1>1 DEF CallModel, At
    <3> QED
      BY <3>1, AtWork DEF Knows, Stage
  <2> DEFINE r == [s EXCEPT !.inflight = NoFlight]
             n == called[e] + 1
  <2>2. /\ called' = [called EXCEPT ![e] = n]
        /\ proc' = [pc |-> "answer", episode |-> e, state |-> r]
        /\ UNCHANGED <<revision, disk, feedback, executed, repeated, wakes, crashes>>
    BY <1>1, <2>1 DEF CallModel, Hold
  <2>3. n \in Nat /\ n <= s.calls
    <3>1. called[e] \in Nat /\ s.calls \in Nat
      BY <2>1, Runnings, Fields, Budgets
    <3> QED
      BY <2>1, <3>1
  <2> HIDE DEF n
  <2>4. Good(s, n, Runs(e), wakes[e], arrived[e])
    BY <2>1, <2>3, MoreGood
  <2>5. Good(r, n, Runs(e), wakes[e], arrived[e])
    BY <2>1, <2>4, LandedGood
  <2>6. r.inflight = NoFlight /\ r.state = s.state
    BY <2>1 DEF EpisodeState
  <2> HIDE DEF r
  <2>7. /\ called' \in [Episode -> Nat] /\ called'[e] = n
        /\ \A x \in Episode \ {e} : called'[x] = called[x]
    BY <2>2, <2>3 DEF IInv, TypeOK
  <2>8. \A x : Runs(x)' = Runs(x)
    BY <2>2 DEF Runs
  <2>9. Stage("answer", r, episodes[e], results[e], n, Runs(e), wakes[e], arrived[e])
    BY <2>1, <2>5, <2>6 DEF Stage, Stepping, Publishing
  <2>10. /\ IsFiniteSet(executed') /\ repeated' = {}
         /\ executed' \subseteq Episode \X Plans \X Nat
         /\ requested' \subseteq Episode /\ answered' \in [Episode -> SUBSET Reviews]
         /\ \A x \in Episode : answered'[x] \subseteq arrived[x]
         /\ UNCHANGED <<revision, disk, arrived, wakes, crashes>>
    BY <2>2 DEF IInv, TypeOK, Disk, feedback
  <2> QED
    BY <2>1, <2>2, <2>4, <2>7, <2>8, <2>9, <2>10, Done
<1>2. CASE RequestCapability
  <2>1. PICK e \in Episode, s \in EpisodeState :
          /\ e = proc.episode /\ s = proc.state
          /\ episodes[e] # Absent /\ episodes[e].state \notin Terminal
          /\ Good(s, called[e], Runs(e), wakes[e], arrived[e])
          /\ Good(episodes[e], called[e], Runs(e), wakes[e], arrived[e])
          /\ s.inflight = NoFlight
    <3>1. proc.pc = "answer"
      BY <1>2 DEF RequestCapability, At
    <3> QED
      BY <3>1, AtWork DEF Knows, Stage, IInv, Disk
  <2> DEFINE r == [s EXCEPT !.state = "waiting_for_capability", !.feedback = ""]
  <2>2. /\ requested' = requested \cup {e}
        /\ proc' = [pc |-> "finish", episode |-> e, state |-> r]
        /\ UNCHANGED <<revision, disk, arrived, history, crashes>>
    BY <1>2, <2>1 DEF RequestCapability, Hold
  <2>3. \/ answered' = answered
        \/ \E x \in Unanswered(e) : answered' = [answered EXCEPT ![e] = @ \cup {x}]
    BY <1>2, <2>1 DEF RequestCapability
  <2>4. /\ requested' \subseteq Episode /\ answered' \in [Episode -> SUBSET Reviews]
        /\ \A x \in Episode : answered'[x] \subseteq arrived[x]
    <3>1. /\ requested \subseteq Episode /\ arrived \in [Episode -> SUBSET Reviews]
          /\ answered \in [Episode -> SUBSET Reviews]
          /\ \A x \in Episode : answered[x] \subseteq arrived[x]
      BY DEF IInv, TypeOK
    <3>2. CASE answered' = answered
      BY <2>2, <3>1, <3>2
    <3>3. ASSUME NEW x \in arrived[e], answered' = [answered EXCEPT ![e] = @ \cup {x}]
          PROVE  /\ answered' \in [Episode -> SUBSET Reviews]
                 /\ \A y \in Episode : answered'[y] \subseteq arrived[y]
      BY <3>1, <3>3
    <3> QED
      BY <2>2, <2>3, <3>1, <3>2, <3>3 DEF Unanswered
  <2>5. "waiting_for_capability" \in Opened \cup Terminal /\ "" \in Feedbacks
    BY DEF Terminal, Feedbacks
  <2>6. Good(r, called[e], Runs(e), wakes[e], arrived[e])
    BY <2>1, <2>5, MovedGood
  <2>7. r.inflight = NoFlight
    BY <2>1 DEF EpisodeState
  <2> HIDE DEF r
  <2>8. Stage("finish", r, episodes[e], results[e], called[e], Runs(e), wakes[e], arrived[e])
    BY <2>1, <2>6, <2>7 DEF Stage, Stepping, Publishing
  <2>9. /\ \A x : Runs(x)' = Runs(x)
        /\ called' = called /\ called' \in [Episode -> Nat]
        /\ executed' \subseteq Episode \X Plans \X Nat
        /\ IsFiniteSet(executed') /\ repeated' = {}
        /\ UNCHANGED <<revision, disk, arrived, wakes, crashes>>
    BY <2>2 DEF Runs, IInv, TypeOK, Disk, history
  <2> QED
    BY <2>1, <2>2, <2>4, <2>8, <2>9, Done
<1> QED
  BY <1>1, <1>2

LEMMA Acting ==
  ASSUME IInv, NothingPending \/ ObserveWithoutTool \/ ReserveTool
  PROVE  IInv'
<1>1. PICK e \in Episode, s \in EpisodeState :
        /\ e = proc.episode /\ s = proc.state /\ pointer # e
        /\ proc.pc = "step" /\ episodes[e] # Absent /\ episodes[e].state \notin Terminal
        /\ Good(s, called[e], Runs(e), wakes[e], arrived[e])
        /\ s.inflight = NoFlight /\ s.compute < MaxCompute /\ s.state = "executing"
  <2>1. proc.pc = "step" /\ proc.state.state = "executing"
    BY DEF NothingPending, ObserveWithoutTool, ReserveTool, At
  <2> QED
    BY <2>1, AtWork DEF Knows, Stage
<1>2. /\ \A run \in Runs(e) : run[3] \in Nat /\ (run[2] = s.plan => run[3] <= s.observed)
      /\ s.observed \in Nat /\ Len(s.plan) \in Nat /\ s.observed <= Len(s.plan)
  <2>1. InTool(s) = 0
    BY <1>1, Flights DEF InTool
  <2>2. s.observed + 0 = s.observed /\ s.observed \in Nat /\ Len(s.plan) \in Nat
    BY <1>1, Fields
  <2> QED
    BY <1>1, <2>1, <2>2, Runnings DEF Good
<1>3. CASE NothingPending
  <2>1. s = [s EXCEPT !.observed = s.observed]
    BY <1>1 DEF EpisodeState
  <2> DEFINE r == Observed(s)
  <2>2. Good(r, called[e], Runs(e), wakes[e], arrived[e]) /\ r.inflight = NoFlight
    BY <1>1, <1>2, <2>1, ObservedGood
  <2>3. Hold("finish", r) /\ UNCHANGED <<revision, disk, feedback, history, crashes>>
    BY <1>1, <1>3 DEF NothingPending
  <2> HIDE DEF r
  <2> QED
    BY <1>1, <2>2, <2>3, ToFinish
<1>4. CASE ObserveWithoutTool
  <2> DEFINE x == s.observed + 1
             r == Observed([s EXCEPT !.observed = x])
  <2>1. /\ Hold("finish", r) /\ s.observed < Len(s.plan)
        /\ UNCHANGED <<revision, disk, feedback, history, crashes>>
    BY <1>1, <1>4 DEF ObserveWithoutTool, Pending
  <2>2. /\ x \in Nat /\ x <= Len(s.plan) /\ s.observed <= x
        /\ \A run \in Runs(e) : run[2] = s.plan => run[3] <= x
    BY <1>2, <2>1
  <2> HIDE DEF x
  <2>3. Good(r, called[e], Runs(e), wakes[e], arrived[e]) /\ r.inflight = NoFlight
    BY <1>1, <2>2, ObservedGood
  <2> HIDE DEF r
  <2> QED
    BY <1>1, <2>1, <2>3, ToFinish
<1>5. CASE ReserveTool
  <2> DEFINE a == s.plan[s.observed + 1]
             r == [s EXCEPT !.tools = @ + 1,
                     !.network = IF a = "network" THEN @ + 1 ELSE @,
                     !.inflight = [kind |-> "tool", reserved |-> Seconds(a)]]
  <2>1. /\ s.observed < Len(s.plan) /\ s.tools \in Nat /\ ~(s.tools >= MaxTools)
        /\ a = "network" => ~(s.network >= MaxNetwork)
                            /\ ~(MaxCompute - s.compute < NetworkSeconds)
    BY <1>1, <1>5, Fields, Budgets DEF ReserveTool, Pending, ToolsExhausted, NextAction
  <2>2. /\ s.tools < MaxTools
        /\ a = "network" => s.network < MaxNetwork /\ NetworkSeconds <= MaxCompute - s.compute
    <3>1. /\ s.network \in Nat /\ s.compute \in Nat /\ MaxTools \in Nat /\ MaxNetwork \in Nat
          /\ MaxCompute \in Nat /\ NetworkSeconds \in Nat
      BY <1>1, Fields, Budgets
    <3> HIDE DEF a
    <3> QED
      BY <2>1, <3>1
  <2>3. a \in Action
    <3>1. s.plan \in Seq(Action)
      BY <1>1, Fields, Lengths
    <3> QED
      BY <1>2, <2>1, <3>1
  <2>4. /\ episodes' = [episodes EXCEPT ![e] = r]
        /\ proc' = [pc |-> "tool", episode |-> e, state |-> r]
        /\ UNCHANGED <<revision, results, pointer, feedback, history, crashes>>
    BY <1>1, <1>5 DEF ReserveTool, Save, Hold, NextAction
  <2>5. IsFiniteSet(Runs(e)) /\ \A run \in Runs(e) : run[3] \in Nat
    BY Runnings
  <2> HIDE DEF a
  <2>6. /\ Good(r, called[e], Runs(e), wakes[e], arrived[e])
        /\ r.inflight.kind = "tool" /\ r.state = s.state
        /\ Cardinality(Runs(e)) < r.tools
        /\ \A run \in Runs(e) : run[2] = r.plan => run[3] <= r.observed
    <3>1. /\ Good(s, called[e], Runs(e), wakes[e], arrived[e]) /\ s.inflight = NoFlight
          /\ s.state = "executing" /\ s.compute < MaxCompute /\ s.observed < Len(s.plan)
      BY <1>1, <2>1
    <3> QED
      BY <2>2, <2>3, <2>5, <3>1, ToolGood
  <2> HIDE DEF r
  <2>7. Stage("tool", r, r, results[e], called[e], Runs(e), wakes[e], arrived[e])
    <3>1. r # Absent
      BY <2>6, NotAbsent DEF Good
    <3> QED
      BY <1>1, <2>6, <3>1 DEF Stage, Stepping, Publishing, Terminal
  <2> QED
    BY <1>1, <2>4, <2>6, <2>7, Saved
<1> QED
  BY <1>3, <1>4, <1>5

\* The tool runs.  The action has not run before: every run of its plan came
\* before it, and a plan is accepted once.
LEMMA Running ==
  ASSUME IInv, RunTool
  PROVE  IInv'
<1>1. PICK e \in Episode, s \in EpisodeState :
        /\ e = proc.episode /\ s = proc.state
        /\ episodes[e] = s /\ s # Absent /\ s.state \notin Terminal
        /\ Good(s, called[e], Runs(e), wakes[e], arrived[e])
        /\ s.inflight.kind = "tool" /\ s.state = "executing"
        /\ Cardinality(Runs(e)) < s.tools
        /\ \A run \in Runs(e) : run[2] = s.plan => run[3] <= s.observed
  <2>1. proc.pc = "tool"
    BY DEF RunTool, At
  <2> QED
    BY <2>1, AtWork DEF Knows, Stage
<1> DEFINE x == s.observed + 1
           run == <<e, s.plan, x>>
           r == Observed([s EXCEPT !.observed = x])
<1>2. /\ executed' = executed \cup {run}
      /\ repeated' = IF run \in executed THEN repeated \cup {run} ELSE repeated
      /\ proc' = [pc |-> "finish", episode |-> e, state |-> r]
      /\ UNCHANGED <<revision, disk, feedback, called, wakes, crashes>>
  BY <1>1 DEF RunTool, Hold
<1>3. x \in Nat /\ x <= Len(s.plan) /\ s.observed <= x /\ ~(x <= s.observed)
  <2>1. InTool(s) = 1 /\ s.observed \in Nat
    BY <1>1, Fields DEF InTool
  <2> QED
    BY <1>1, <2>1 DEF Good
<1>4. s.plan \in Plans
  <2>1. s.plan \in Plans \cup {NoPlan} /\ Len(s.plan) # 0
    BY <1>1, <1>3, Fields
  <2> QED
    BY <2>1, Lengths
<1>5. run[1] = e /\ run[2] = s.plan /\ run[3] = x
  OBVIOUS
<1>6. run \notin executed
  BY <1>1, <1>3, <1>5 DEF Runs
<1>7. Runs(e)' = Runs(e) \cup {run} /\ \A y \in Episode \ {e} : Runs(y)' = Runs(y)
  BY <1>2, <1>5 DEF Runs
<1> DEFINE X == Runs(e) \cup {run}
<1>8. Good(s, called[e], X, wakes[e], arrived[e])
  BY <1>1, <1>5, Runnings, RanGood
<1>9. \A y \in X : y[2] = s.plan => y[3] <= x
  <2>1. ASSUME NEW y \in Runs(e), y[2] = s.plan
        PROVE  y[3] <= x
    <3>1. y[3] <= s.observed /\ y[3] \in Nat /\ s.observed \in Nat
      BY <1>1, <2>1, Runnings, Fields
    <3> QED
      BY <3>1
  <2>2. run[3] <= x
    BY <1>3, <1>5
  <2> QED
    BY <2>1, <2>2
<1> HIDE DEF x, X
<1>10. Good(r, called[e], X, wakes[e], arrived[e]) /\ r.inflight = NoFlight
  BY <1>1, <1>3, <1>8, <1>9, ObservedGood
<1> HIDE DEF r
<1>11. Stage("finish", r, episodes[e], results[e], called[e], X, wakes[e], arrived[e])
  BY <1>1, <1>10 DEF Stage, Stepping, Publishing
<1>12. /\ executed' \subseteq Episode \X Plans \X Nat /\ IsFiniteSet(executed')
       /\ repeated' = {} /\ called' \in [Episode -> Nat]
  <2>1. run \in Episode \X Plans \X Nat
    BY <1>3, <1>4
  <2> HIDE DEF run
  <2>2. IsFiniteSet(executed')
    BY <1>2, FS_AddElement DEF IInv, Disk
  <2> QED
    BY <1>2, <1>6, <2>1, <2>2 DEF IInv, TypeOK
<1>13. /\ called'[e] = called[e] /\ \A y \in Episode \ {e} : called'[y] = called[y]
       /\ requested' \subseteq Episode /\ answered' \in [Episode -> SUBSET Reviews]
       /\ \A y \in Episode : answered'[y] \subseteq arrived[y]
       /\ UNCHANGED <<revision, disk, arrived, wakes, crashes>>
  BY <1>2 DEF feedback, IInv, TypeOK
<1>14. Runs(e)' = X
  BY <1>7 DEF X
<1> QED
  BY <1>1, <1>2, <1>7, <1>8, <1>11, <1>12, <1>13, <1>14, Done

LEMMA Finishing ==
  ASSUME IInv, Finish
  PROVE  IInv'
<1>1. PICK e \in Episode, s \in EpisodeState :
        /\ e = proc.episode /\ s = proc.state /\ pointer # e
        /\ Good(s, called[e], Runs(e), wakes[e], arrived[e]) /\ s.inflight = NoFlight
  <2>1. proc.pc = "finish"
    BY DEF Finish, At
  <2> QED
    BY <2>1, AtWork DEF Knows, Stage
<1>2. PICK t \in Elapsed :
        /\ s.compute + t <= MaxCompute
        /\ episodes' = [episodes EXCEPT ![e] = [s EXCEPT !.compute = @ + t]]
        /\ IF [s EXCEPT !.compute = @ + t].state = "completed"
             THEN proc' = [pc |-> "result", episode |-> e,
                           state |-> [s EXCEPT !.compute = @ + t]]
             ELSE proc' = Idle
        /\ UNCHANGED <<revision, results, pointer, feedback, history, crashes>>
  BY <1>1 DEF Finish, Durations, Save, Hold
<1> DEFINE r == [s EXCEPT !.compute = @ + t]
<1>3. t \in Nat
  BY ResearchAssumption
<1>4. Good(r, called[e], Runs(e), wakes[e], arrived[e])
  BY <1>1, <1>2, <1>3, TimedGood
<1>5. /\ episodes' = [episodes EXCEPT ![e] = r]
      /\ IF r.state = "completed"
           THEN proc' = [pc |-> "result", episode |-> e, state |-> r] ELSE proc' = Idle
  BY <1>2
<1> HIDE DEF r
<1>6. r.state = "completed" =>
        Stage("result", r, r, results[e], called[e], Runs(e), wakes[e], arrived[e])
  <2>1. r # Absent
    BY <1>4, NotAbsent DEF Good
  <2> QED
    BY <1>4, <2>1 DEF Stage, Stepping, Publishing
<1> QED
  BY <1>1, <1>2, <1>4, <1>5, <1>6, Saved

-----------------------------------------------------------------------------
(* The publication of a completed episode.                                 *)
LEMMA Publication ==
  ASSUME IInv, PublishResult \/ PublishPointer \/ MarkPublished
  PROVE  IInv'
<1>1. PICK e \in Episode, s \in EpisodeState :
        /\ e = proc.episode /\ s = proc.state
        /\ episodes[e] = s /\ s # Absent
        /\ Good(s, called[e], Runs(e), wakes[e], arrived[e])
        /\ s.state = "completed" /\ s.observed = Len(s.plan)
        /\ proc.pc \in {"pointer", "mark"} => results[e] = s.plan
  <2>1. ~At("idle") /\ proc.pc \in Publishing /\ proc.pc \notin Stepping
    BY DEF PublishResult, PublishPointer, MarkPublished, At, Publishing, Stepping
  <2>2. Knows(proc.pc, proc.state, proc.episode) /\ proc.episode \in Episode
    BY <2>1, Working
  <2> QED
    BY <2>1, <2>2 DEF Knows, Stage, Good, Publishing, Stepping
<1>2. s.plan \in Plans \cup {NoPlan}
  BY <1>1, Fields
<1>3. ASSUME PublishResult \/ PublishPointer
      PROVE  /\ \A x : Runs(x)' = Runs(x)
             /\ UNCHANGED <<revision, episodes, feedback, history, crashes>>
  BY <1>3 DEF PublishResult, PublishPointer, Runs, history
<1>4. CASE PublishResult
  <2>1. /\ results' = [results EXCEPT ![e] = s.plan] /\ UNCHANGED pointer
        /\ proc' = [pc |-> "pointer", episode |-> e, state |-> s]
    BY <1>1, <1>4 DEF PublishResult, Hold
  <2>2. /\ results' \in [Episode -> Plans \cup {NoPlan}] /\ results'[e] = s.plan
        /\ \A x \in Episode \ {e} : results'[x] = results[x]
    BY <1>2, <2>1 DEF IInv, TypeOK
  <2>3. TypeOK'
    BY <1>3, <1>4, <2>1, <2>2 DEF IInv, TypeOK, feedback, history
  <2>4. Disk' /\ repeated' = {}
    BY <1>3, <1>4 DEF IInv, Disk, Untouched, feedback, history
  <2>5. PointerSettled'
    <3>1. pointer = <<>> \/ pointer \in Episode
      BY DEF IInv, TypeOK
    <3>2. CASE pointer = e
      BY <1>1, <1>3, <1>4, <2>1, <2>2, <3>2 DEF PointerSettled
    <3>3. CASE pointer # e
      BY <1>3, <1>4, <2>1, <2>2, <3>1, <3>3 DEF IInv, PointerSettled
    <3> QED
      BY <3>2, <3>3
  <2>6. ProcOK'
    <3>1. Stage("pointer", s, s, s.plan, called[e], Runs(e), wakes[e], arrived[e])
      BY <1>1 DEF Stage, Publishing, Stepping
    <3>2. proc'.pc = "pointer" /\ proc'.episode = e /\ proc'.state = s
      BY <2>1
    <3>3. Stage("pointer", s, episodes'[e], results'[e], called'[e], Runs(e)', wakes'[e],
                arrived'[e])
      BY <1>1, <1>3, <1>4, <2>2, <3>1 DEF feedback, history
    <3> QED
      BY <3>2, <3>3 DEF ProcOK
  <2> QED
    BY <2>3, <2>4, <2>5, <2>6 DEF IInv
<1>5. CASE PublishPointer
  <2>1. /\ pointer' = e /\ UNCHANGED results /\ results[e] = s.plan
        /\ proc' = [pc |-> "mark", episode |-> e, state |-> s]
    BY <1>1, <1>5 DEF PublishPointer, Hold, At
  <2>2. TypeOK'
    BY <1>3, <1>5, <2>1 DEF IInv, TypeOK, feedback, history
  <2>3. Disk' /\ repeated' = {}
    BY <1>3, <1>5 DEF IInv, Disk, Untouched, feedback, history
  <2>4. PointerSettled'
    BY <1>1, <1>3, <1>5, <2>1 DEF PointerSettled
  <2>5. ProcOK'
    <3>1. Stage("mark", s, s, results[e], called[e], Runs(e), wakes[e], arrived[e])
      BY <1>1, <2>1 DEF Stage, Publishing, Stepping
    <3>2. proc'.pc = "mark" /\ proc'.episode = e /\ proc'.state = s
      BY <2>1
    <3>3. Stage("mark", s, episodes'[e], results'[e], called'[e], Runs(e)', wakes'[e],
                arrived'[e])
      BY <1>1, <1>3, <1>5, <2>1, <3>1 DEF feedback, history
    <3> QED
      BY <3>2, <3>3 DEF ProcOK
  <2> QED
    BY <2>2, <2>3, <2>4, <2>5 DEF IInv
<1>6. CASE MarkPublished
  <2> DEFINE r == [s EXCEPT !.published = TRUE]
  <2>1. /\ episodes' = [episodes EXCEPT ![e] = r] /\ proc' = Idle
        /\ UNCHANGED <<revision, results, pointer, feedback, history, crashes>>
    BY <1>1, <1>6 DEF MarkPublished, Save
  <2>2. Alike(r, s) /\ r.state = "completed" /\ r.inflight = s.inflight
        /\ r.compute = s.compute
    BY <1>1 DEF Alike, EpisodeState
  <2>3. r \in EpisodeState
    BY <1>1 DEF EpisodeState
  <2> HIDE DEF r
  <2>4. Good(r, called[e], Runs(e), wakes[e], arrived[e])
    BY <1>1, <2>2, <2>3, NotedGood
  <2> QED
    BY <1>1, <2>1, <2>2, <2>4, Saved
<1> QED
  BY <1>4, <1>5, <1>6

-----------------------------------------------------------------------------
(* What happens around the tick.                                           *)
LEMMA Around ==
  ASSUME IInv, ArtifactsChange \/ ReviewArrives \/ Crash
  PROVE  IInv'
<1> USE DEF disk, history
<1>1. UNCHANGED <<episodes, results, pointer, called, executed, repeated, wakes>>
  BY DEF ArtifactsChange, ReviewArrives, Crash
<1>2. /\ \A x : Runs(x)' = Runs(x)
      /\ PointerSettled' /\ repeated' = {}
  BY <1>1 DEF Runs, IInv, PointerSettled
<1>3. CASE ArtifactsChange
  <2>1. TypeOK'
    <3>1. revision' \in 0..MaxRevision
      BY <1>3, Budgets DEF ArtifactsChange, IInv, TypeOK
    <3> QED
      BY <1>1, <1>3, <3>1 DEF ArtifactsChange, IInv, TypeOK, feedback
  <2>2. Disk' /\ ProcOK'
    BY <1>1, <1>2, <1>3 DEF ArtifactsChange, IInv, Disk, ProcOK, Untouched, feedback
  <2> QED
    BY <1>2, <2>1, <2>2 DEF IInv
<1>4. CASE Crash
  <2>1. TypeOK'
    BY <1>1, <1>4 DEF Crash, IInv, TypeOK, feedback
  <2>2. Disk' /\ ProcOK'
    BY <1>1, <1>2, <1>4 DEF Crash, IInv, Disk, ProcOK, Untouched, feedback
  <2> QED
    BY <1>2, <2>1, <2>2 DEF IInv
<1>5. CASE ReviewArrives
  <2>1. PICK e \in Episode, x \in Reviews :
          /\ arrived' = [arrived EXCEPT ![e] = @ \cup {x}]
          /\ UNCHANGED <<revision, requested, answered, proc, crashes>>
    BY <1>5 DEF ReviewArrives, IInv, TypeOK
  <2>2. /\ arrived \in [Episode -> SUBSET Reviews]
        /\ arrived' \in [Episode -> SUBSET Reviews]
        /\ arrived'[e] = arrived[e] \cup {x}
        /\ \A y \in Episode : arrived[y] \subseteq arrived'[y]
        /\ \A y \in Episode \ {e} : arrived[y] = arrived'[y]
    BY <2>1 DEF IInv, TypeOK
  <2>3. TypeOK'
    BY <1>1, <2>1, <2>2 DEF IInv, TypeOK
  <2>4. \A y \in Episode : IsFiniteSet(arrived'[y])
    <3> TAKE y \in Episode
    <3>1. IsFiniteSet(arrived[y])
      BY DEF IInv, Disk
    <3> QED
      BY <2>2, <3>1, FS_AddElement
  <2>5. Disk'
    <3>1. ASSUME NEW y \in Episode, episodes[y] # Absent
          PROVE  Good(episodes[y], called[y], Runs(y), wakes[y], arrived'[y])
      <4>1. Good(episodes[y], called[y], Runs(y), wakes[y], arrived[y])
        BY <3>1 DEF IInv, Disk
      <4> QED
        BY <2>2, <4>1, MoreGood
    <3>2. \A y \in Episode : episodes[y] = Absent => Untouched(y)
      BY DEF IInv, Disk
    <3> QED
      BY <1>1, <1>2, <2>4, <3>1, <3>2 DEF Disk, Untouched, IInv
  <2>6. ProcOK'
    <3>1. CASE proc = Idle
      BY <2>1, <3>1 DEF ProcOK
    <3>2. CASE proc # Idle
      <4>1. PICK y \in Episode :
              /\ y = proc.episode
              /\ Stage(proc.pc, proc.state, episodes[y], results[y],
                       called[y], Runs(y), wakes[y], arrived[y])
        BY <3>2 DEF IInv, ProcOK
      <4>2. Stage(proc.pc, proc.state, episodes[y], results[y],
                  called[y], Runs(y), wakes[y], arrived'[y])
        BY <2>2, <4>1, MoreGood DEF Stage
      <4> QED
        BY <1>1, <1>2, <2>1, <4>1, <4>2 DEF ProcOK
    <3> QED
      BY <3>1, <3>2
  <2> QED
    BY <1>2, <2>3, <2>5, <2>6 DEF IInv
<1> QED
  BY <1>3, <1>4, <1>5

LEMMA Initially == Init => IInv
<1> SUFFICES ASSUME Init PROVE IInv
  OBVIOUS
<1>1. TypeOK
  BY Budgets DEF Init, TypeOK
<1>2. \A e : Runs(e) = {}
  BY DEF Init, Runs
<1>3. Disk
  BY <1>2, FS_EmptySet DEF Init, Disk, Untouched
<1> QED
  BY <1>1, <1>3 DEF Init, IInv, ProcOK, PointerSettled

LEMMA Stuttering == IInv /\ UNCHANGED vars => IInv'
<1> SUFFICES ASSUME IInv, UNCHANGED vars PROVE IInv'
  OBVIOUS
<1> USE DEF vars
<1>1. \A x : Runs(x)' = Runs(x)
  BY DEF Runs
<1>2. TypeOK' /\ repeated' = {} /\ PointerSettled'
  BY DEF IInv, TypeOK, PointerSettled
<1>3. Disk' /\ ProcOK'
  BY <1>1 DEF IInv, Disk, ProcOK, Untouched
<1> QED
  BY <1>2, <1>3 DEF IInv

-----------------------------------------------------------------------------
(* What the records on disk and in memory say of their episodes, and what  *)
(* the tick knows at each stage, holds after every step of every tick.     *)
THEOREM Invariance == Spec => []IInv
<1>1. IInv /\ Next => IInv'
  BY Starting, Beginning, Asked, Answered, Acting, Running, Finishing, Publication, Around
     DEF Next, Work
<1> QED
  BY <1>1, Initially, Stuttering, PTL DEF Spec

(* The state of every episode keeps its fields within the frozen budgets.  *)
THEOREM TypeCorrect == Spec => []TypeOK
<1>1. IInv => TypeOK
  BY DEF IInv
<1> QED
  BY <1>1, Invariance, PTL

(* Every model call and every tool run of an episode was charged on disk   *)
(* before it was made, and what is inflight fits in the compute, for any   *)
(* number of crashes (research_episodes.py:471-473, 550-553).              *)
THEOREM Charged == Spec => []ChargesCovered
<1>1. IInv => ChargesCovered
  <2> SUFFICES ASSUME IInv, NEW e \in Episode, episodes[e] # Absent
               PROVE  /\ called[e] <= episodes[e].calls
                      /\ Cardinality(Runs(e)) <= episodes[e].tools
                      /\ episodes[e].compute + episodes[e].inflight.reserved <= MaxCompute
    BY DEF ChargesCovered
  <2> QED
    BY DEF IInv, Disk, Good
<1> QED
  BY <1>1, Invariance, PTL

(* No action of a plan is run twice, whatever is lost in a crash           *)
(* (research_episodes.py:447).                                             *)
THEOREM OnceOnly == Spec => []NeverRunTwice
<1>1. IInv => NeverRunTwice
  BY DEF IInv, NeverRunTwice
<1> QED
  BY <1>1, Invariance, PTL

(* The handoff pointer names a completed episode and its whole result      *)
(* (research_episodes.py:610-613).                                         *)
THEOREM HandoffWhole == Spec => []PointerSettled
<1>1. IInv => PointerSettled
  BY DEF IInv
<1> QED
  BY <1>1, Invariance, PTL

(* A review wakes an episode at most once, and the method recovery once    *)
(* more (research_feedback.py:242).                                        *)
THEOREM ReviewsWakeOnce == Spec => []WokenOnce
<1>1. IInv => WokenOnce
  <2> SUFFICES ASSUME IInv, NEW e \in Episode, episodes[e] # Absent
               PROVE  wakes[e] <= Cardinality(arrived[e])
                                    + (IF episodes[e].recovered THEN 1 ELSE 0)
    BY DEF WokenOnce
  <2>1. /\ episodes[e].woken \subseteq arrived[e]
        /\ wakes[e] <= Cardinality(episodes[e].woken)
                         + (IF episodes[e].recovered THEN 1 ELSE 0)
    BY DEF IInv, Disk, Good
  <2>2. IsFiniteSet(arrived[e]) /\ wakes[e] \in Nat
    BY Runnings
  <2>3. /\ Cardinality(episodes[e].woken) \in Nat /\ Cardinality(arrived[e]) \in Nat
        /\ Cardinality(episodes[e].woken) <= Cardinality(arrived[e])
    BY <2>1, <2>2, FS_Subset, FS_CardinalityType
  <2> QED
    BY <2>1, <2>2, <2>3
<1> QED
  BY <1>1, Invariance, PTL
=============================================================================
