-------------------------- MODULE ResearchEpisode --------------------------
(***************************************************************************)
(* The research episodes of one support request.  The research tick        *)
(* (research_runtime.run_research_tick) picks the first open episode of    *)
(* the current artifact revision and advances it by one step               *)
(* (research_episodes.advance_episode): a planning call, a tool action or  *)
(* an interpretation call, each reserved on disk before it is made.  A     *)
(* completed episode is published in three writes (_publish), and the      *)
(* support kernel reads the published packet without any lock              *)
(* (load_research_handoff).                                                *)
(*                                                                         *)
(* The worker holds the research lease; a crash may fall between any two   *)
(* writes and loses `proc'.  Artifacts change at any time.                 *)
(***************************************************************************)
EXTENDS Naturals, Sequences, FiniteSets

CONSTANTS
  Plans,        \* the plans a planner may answer: sequences of actions
  MaxCalls, MaxTools, MaxNetwork, MaxCompute,   \* ResearchPolicy
  ModelSeconds, NetworkSeconds, LocalSeconds,   \* reserved for one step
  Elapsed,      \* the seconds a step may take
  MaxEpisodes,  \* max_episodes_per_input
  Reviews,      \* the independent reviews an episode may get
  MaxRevision,  \* bound: changes of the artifacts
  MaxCrashes    \* bound: crashes in one behaviour

Action == {"local", "network"}

ASSUME ResearchAssumption ==
  /\ {MaxCalls, MaxTools, MaxNetwork, MaxCompute, MaxRevision, MaxCrashes}
       \subseteq Nat
  /\ {ModelSeconds, NetworkSeconds, LocalSeconds, MaxEpisodes}
       \subseteq Nat \ {0}
  /\ LocalSeconds = 1
  /\ Elapsed \subseteq Nat /\ 0 \in Elapsed
  /\ Plans \subseteq Seq(Action)
  /\ \A p \in Plans : Len(p) \in 1..MaxTools

VARIABLES
  revision,   \* the artifacts' current revision
  episodes,   \* episodes/<id>/state.json, by revision and index
  results,    \* episodes/<id>/result.json
  pointer,    \* handoffs/<support request>.json
  requested,  \* capability_requests/: the episodes that made one
  arrived,    \* research_feedback/reviews/: the reviews of each episode
  answered,   \* research_feedback/responses/: the reviews answered
  called,     \* history: model calls made, for each episode
  executed,   \* history: tool actions run, each <<episode, plan, index>>
  repeated,   \* history: tool actions run a second time
  wakes,      \* history: how often each episode was woken
  proc,       \* the tick at work, and what it holds in memory
  crashes     \* crashes so far

disk == <<episodes, results, pointer>>
feedback == <<requested, arrived, answered>>
history == <<called, executed, repeated, wakes>>
vars == <<revision, episodes, results, pointer, requested, arrived, answered,
          called, executed, repeated, wakes, proc, crashes>>

-----------------------------------------------------------------------------
Episode == (0..MaxRevision) \X (0..(MaxEpisodes - 1))
Terminal == {"completed", "waiting_for_changed_input",
             "waiting_for_capability", "superseded"}
Waiting == {"waiting_for_changed_input", "waiting_for_capability"}

NoFlight == [kind |-> "none", reserved |-> 0]
NoPlan == <<>>
Absent == [state |-> "absent"]
Fresh ==
  [state |-> "planning", calls |-> 0, tools |-> 0, network |-> 0, compute |-> 0,
   inflight |-> NoFlight, plan |-> NoPlan, seen |-> {}, observed |-> 0,
   rejected |-> {}, feedback |-> "", woken |-> {}, recovered |-> FALSE,
   published |-> FALSE]

Idle == [pc |-> "idle"]
At(pc) == proc.pc = pc
Least(m, n) == IF m <= n THEN m ELSE n

Init ==
  /\ revision = 0
  /\ episodes = [e \in Episode |-> Absent]
  /\ results = [e \in Episode |-> NoPlan]
  /\ pointer = <<>>
  /\ requested = {}
  /\ arrived = [e \in Episode |-> {}]
  /\ answered = [e \in Episode |-> {}]
  /\ called = [e \in Episode |-> 0]
  /\ executed = {}
  /\ repeated = {}
  /\ wakes = [e \in Episode |-> 0]
  /\ proc = Idle
  /\ crashes = 0

(* The step goes on with s in memory.                                      *)
Hold(pc, s) == proc' = [pc |-> pc, episode |-> proc.episode, state |-> s]

(* s is written to state.json.                                             *)
Save(s) == episodes' = [episodes EXCEPT ![proc.episode] = s]

-----------------------------------------------------------------------------
(* The tick's choice among the indices of the current input.               *)

FirstOpen(e) ==
  /\ e[1] = revision
  /\ \A i \in 0..(e[2] - 1) : episodes[<<revision, i>>].state = "completed"
  /\ episodes[e].state # "completed"

Select ==
  /\ At("idle")
  /\ \E e \in Episode :
       /\ FirstOpen(e)
       /\ episodes[e].state \notin Terminal
       /\ proc' = [pc |-> "begin", episode |-> e, state |-> episodes[e]]
  /\ UNCHANGED <<revision, disk, feedback, history, crashes>>

(* research_recovery.recover: allowance that is left may be woken ...      *)
Wakeable(e) ==
  /\ FirstOpen(e)
  /\ episodes[e].state \in Waiting
  /\ episodes[e].inflight = NoFlight
  /\ episodes[e].calls < MaxCalls
  /\ episodes[e].tools < MaxTools
  /\ episodes[e].compute < MaxCompute

Unanswered(e) == arrived[e] \ answered[e]

(* Mutant: a review that woke the episode before wakes it again.           *)
WakeByAnyReview ==
  /\ At("idle")
  /\ \E e \in Episode :
       LET s == [episodes[e] EXCEPT !.state = "planning", !.feedback = "review"]
       IN /\ Wakeable(e)
          /\ Unanswered(e) # {}
          /\ episodes[e].feedback # "interrupted"
          /\ episodes' = [episodes EXCEPT ![e] = s]
          /\ wakes' = [wakes EXCEPT ![e] = @ + 1]
          /\ proc' = [pc |-> "begin", episode |-> e, state |-> s]
  /\ UNCHANGED <<revision, results, pointer, feedback, called, executed,
                 repeated, crashes>>

(* ... by a review that has not woken it before ...                        *)
WakeByReview ==
  /\ At("idle")
  /\ \E e \in Episode :
       LET fresh == Unanswered(e) \ episodes[e].woken
           s == [episodes[e] EXCEPT !.state = "planning", !.woken = @ \cup fresh,
                                    !.feedback = "review"]
       IN /\ Wakeable(e)
          /\ fresh # {}
          /\ episodes[e].feedback # "interrupted"
          /\ episodes' = [episodes EXCEPT ![e] = s]
          /\ wakes' = [wakes EXCEPT ![e] = @ + 1]
          /\ proc' = [pc |-> "begin", episode |-> e, state |-> s]
  /\ UNCHANGED <<revision, results, pointer, feedback, called, executed,
                 repeated, crashes>>

(* ... and once by this version's method feedback, after a repeated        *)
(* unchanged experiment.                                                   *)
WakeByMethod ==
  /\ At("idle")
  /\ \E e \in Episode :
       LET s == [episodes[e] EXCEPT !.state = "planning", !.recovered = TRUE]
       IN /\ Wakeable(e)
          /\ Unanswered(e) \subseteq episodes[e].woken
          /\ ~episodes[e].recovered
          /\ episodes[e].state = "waiting_for_changed_input"
          /\ episodes[e].feedback = "repeated_unchanged"
          /\ episodes' = [episodes EXCEPT ![e] = s]
          /\ wakes' = [wakes EXCEPT ![e] = @ + 1]
          /\ proc' = [pc |-> "begin", episode |-> e, state |-> s]
  /\ UNCHANGED <<revision, results, pointer, feedback, called, executed,
                 repeated, crashes>>

-----------------------------------------------------------------------------
(* advance_episode up to its try block.                                    *)

Create ==
  /\ At("begin")
  /\ proc.state = Absent
  /\ Save(Fresh)
  /\ Hold("begin", Fresh)
  /\ UNCHANGED <<revision, results, pointer, feedback, history, crashes>>

(* Artifacts changed since the tick froze the task: the episode is closed. *)
Supersede ==
  /\ At("begin")
  /\ proc.state # Absent
  /\ proc.episode[1] # revision
  /\ Save([proc.state EXCEPT !.state = "superseded"])
  /\ proc' = Idle
  /\ UNCHANGED <<revision, results, pointer, feedback, history, crashes>>

(* Mutant: every interruption is observed, a call's too.                   *)
SettleAsObserved(s) ==
  [s EXCEPT !.inflight = NoFlight,
            !.observed = IF s.inflight = NoFlight THEN @ ELSE @ + 1,
            !.compute = @ + s.inflight.reserved]

(* Mutant: the interrupted action is left pending.                         *)
RetryInflight(s) ==
  [s EXCEPT !.inflight = NoFlight,
            !.feedback = IF s.inflight.kind = "model" THEN "interrupted" ELSE @,
            !.compute = @ + s.inflight.reserved]

(* An inflight step is the trace of a crash: its reservation is spent and  *)
(* a tool's outcome is recorded as unknown.                                *)
SettleInflight(s) ==
  [s EXCEPT !.inflight = NoFlight,
            !.observed = IF s.inflight.kind = "tool" THEN @ + 1 ELSE @,
            !.feedback = IF s.inflight.kind = "model" THEN "interrupted" ELSE @,
            !.compute = @ + s.inflight.reserved]

(* No compute is left, before or after the interruption is settled.        *)
ComputeExhausted ==
  /\ At("begin")
  /\ proc.state # Absent
  /\ proc.episode[1] = revision
  /\ LET s == IF proc.state.compute >= MaxCompute THEN proc.state
              ELSE SettleInflight(proc.state)
     IN /\ s.compute >= MaxCompute
        /\ Save([s EXCEPT !.state = "waiting_for_changed_input",
                          !.feedback = "compute_exhausted"])
  /\ proc' = Idle
  /\ UNCHANGED <<revision, results, pointer, feedback, history, crashes>>

Proceed ==
  /\ At("begin")
  /\ proc.state # Absent
  /\ proc.episode[1] = revision
  /\ proc.state.compute < MaxCompute
  /\ SettleInflight(proc.state).compute < MaxCompute
  /\ Hold("step", SettleInflight(proc.state))
  /\ UNCHANGED <<revision, disk, feedback, history, crashes>>

-----------------------------------------------------------------------------
(* Planning and interpreting: one model call.                              *)

Calling == proc.state.state \in {"planning", "interpreting"}

CallsExhausted ==
  /\ At("step") /\ Calling
  /\ proc.state.calls >= MaxCalls
  /\ Hold("finish", [proc.state EXCEPT !.state = "waiting_for_changed_input",
                                       !.feedback = "calls_exhausted"])
  /\ UNCHANGED <<revision, disk, feedback, history, crashes>>

(* Mutant: the reservation is kept in memory only.                         *)
ReserveUnwritten ==
  /\ At("step") /\ Calling
  /\ proc.state.calls < MaxCalls
  /\ LET s == [proc.state EXCEPT !.calls = @ + 1,
                 !.inflight = [kind |-> "model",
                   reserved |-> Least(ModelSeconds, MaxCompute - proc.state.compute)]]
     IN Hold("call", s)
  /\ UNCHANGED <<revision, disk, feedback, history, crashes>>

ReserveCall ==
  /\ At("step") /\ Calling
  /\ proc.state.calls < MaxCalls
  /\ LET s == [proc.state EXCEPT !.calls = @ + 1,
                 !.inflight = [kind |-> "model",
                   reserved |-> Least(ModelSeconds, MaxCompute - proc.state.compute)]]
     IN Save(s) /\ Hold("call", s)
  /\ UNCHANGED <<revision, results, pointer, feedback, history, crashes>>

CallModel ==
  /\ At("call")
  /\ called' = [called EXCEPT ![proc.episode] = @ + 1]
  /\ Hold("answer", [proc.state EXCEPT !.inflight = NoFlight])
  /\ UNCHANGED <<revision, disk, feedback, executed, repeated, wakes, crashes>>

(* The provider fails: nothing was answered that could be repeated.        *)
CallFails ==
  /\ At("answer")
  /\ Hold("finish", [proc.state EXCEPT !.feedback = "failed"])
  /\ UNCHANGED <<revision, disk, feedback, history, crashes>>

Repeated(reason) ==
  IF reason = "invalid" THEN "repeated_invalid" ELSE "repeated_unchanged"

(* An answer is rejected for a reason; the second rejection of the same    *)
(* answer for the same reason parks the input.                             *)
Reject(reason, answer) ==
  LET sign == <<proc.state.state, reason, answer>>
  IN Hold("finish",
       IF sign \in proc.state.rejected
         THEN [proc.state EXCEPT !.state = "waiting_for_changed_input",
                                 !.feedback = Repeated(reason)]
         ELSE [proc.state EXCEPT !.rejected = @ \cup {sign}, !.feedback = reason])

AnswerInvalid ==
  /\ At("answer")
  /\ Reject("invalid", NoPlan)
  /\ UNCHANGED <<revision, disk, feedback, history, crashes>>

(* The plan was run before, or everything it would acquire is known.       *)
PlanUnchanged ==
  /\ At("answer")
  /\ proc.state.state = "planning"
  /\ \E p \in Plans : Reject("unchanged", p)
  /\ UNCHANGED <<revision, disk, feedback, history, crashes>>

(* The request is recorded before the state is saved; while a review is    *)
(* unanswered the request has to answer one.                               *)
RequestCapability ==
  /\ At("answer")
  /\ proc.state.state = "planning"
  /\ requested' = requested \cup {proc.episode}
  /\ LET pending == Unanswered(proc.episode)
     IN \/ pending = {} /\ UNCHANGED answered
        \/ \E r \in pending :
             answered' = [answered EXCEPT ![proc.episode] = @ \cup {r}]
  /\ Hold("finish", [proc.state EXCEPT !.state = "waiting_for_capability",
                                       !.feedback = ""])
  /\ UNCHANGED <<revision, disk, arrived, history, crashes>>

AcceptPlan ==
  /\ At("answer")
  /\ proc.state.state = "planning"
  /\ \E p \in Plans \ proc.state.seen :
       Hold("finish", [proc.state EXCEPT !.plan = p, !.seen = @ \cup {p},
              !.observed = 0, !.state = "executing", !.feedback = ""])
  /\ UNCHANGED <<revision, disk, feedback, history, crashes>>

AcceptInterpretation ==
  /\ At("answer")
  /\ proc.state.state = "interpreting"
  /\ Hold("finish", [proc.state EXCEPT !.state = "completed", !.feedback = ""])
  /\ UNCHANGED <<revision, disk, feedback, history, crashes>>

-----------------------------------------------------------------------------
(* Executing: the first action of the plan that has no observation.        *)

Pending == proc.state.observed < Len(proc.state.plan)
NextAction == proc.state.plan[proc.state.observed + 1]
Seconds(a) == IF a = "network" THEN NetworkSeconds ELSE LocalSeconds

ToolsExhausted ==
  \/ proc.state.tools >= MaxTools
  \/ /\ NextAction = "network"
     /\ \/ proc.state.network >= MaxNetwork
        \/ MaxCompute - proc.state.compute < NetworkSeconds

(* Mutant: one observation more than the plan has is waited for.           *)
ObservedLate(s) ==
  [s EXCEPT !.inflight = NoFlight,
            !.state = IF s.observed > Len(s.plan) THEN "interpreting" ELSE @]

(* An observation was added, or none was left to make.                     *)
Observed(s) ==
  [s EXCEPT !.inflight = NoFlight,
            !.state = IF s.observed = Len(s.plan) THEN "interpreting" ELSE @]

NothingPending ==
  /\ At("step")
  /\ proc.state.state = "executing" /\ ~Pending
  /\ Hold("finish", Observed(proc.state))
  /\ UNCHANGED <<revision, disk, feedback, history, crashes>>

(* Evidence that is known is reused, and an action beyond the budget is    *)
(* observed as not made.                                                   *)
ObserveWithoutTool ==
  /\ At("step")
  /\ proc.state.state = "executing" /\ Pending
  /\ Hold("finish", Observed([proc.state EXCEPT !.observed = @ + 1]))
  /\ UNCHANGED <<revision, disk, feedback, history, crashes>>

ReserveTool ==
  /\ At("step")
  /\ proc.state.state = "executing" /\ Pending /\ ~ToolsExhausted
  /\ LET s == [proc.state EXCEPT !.tools = @ + 1,
                 !.network = IF NextAction = "network" THEN @ + 1 ELSE @,
                 !.inflight = [kind |-> "tool", reserved |-> Seconds(NextAction)]]
     IN Save(s) /\ Hold("tool", s)
  /\ UNCHANGED <<revision, results, pointer, feedback, history, crashes>>

(* The tool runs; its result or its error is observed.                     *)
RunTool ==
  /\ At("tool")
  /\ LET run == <<proc.episode, proc.state.plan, proc.state.observed + 1>>
     IN /\ executed' = executed \cup {run}
        /\ repeated' = IF run \in executed THEN repeated \cup {run} ELSE repeated
  /\ Hold("finish", Observed([proc.state EXCEPT !.observed = @ + 1]))
  /\ UNCHANGED <<revision, disk, feedback, called, wakes, crashes>>

-----------------------------------------------------------------------------
(* The finally clause, and the publication of a completed episode.  A step *)
(* takes no longer than the seconds that were left when it began.          *)
Durations == {t \in Elapsed : proc.state.compute + t <= MaxCompute}

(* Mutant: the episode is published before it is saved.                    *)
FinishByPublishing ==
  /\ At("finish")
  /\ \E t \in Durations :
       LET s == [proc.state EXCEPT !.compute = @ + t]
       IN IF s.state = "completed"
            THEN Hold("result", s) /\ UNCHANGED episodes
            ELSE Save(s) /\ proc' = Idle
  /\ UNCHANGED <<revision, results, pointer, feedback, history, crashes>>

Finish ==
  /\ At("finish")
  /\ \E t \in Durations :
       LET s == [proc.state EXCEPT !.compute = @ + t]
       IN /\ Save(s)
          /\ IF s.state = "completed" THEN Hold("result", s) ELSE proc' = Idle
  /\ UNCHANGED <<revision, results, pointer, feedback, history, crashes>>

PublishResult ==
  /\ At("result")
  /\ results' = [results EXCEPT ![proc.episode] = proc.state.plan]
  /\ Hold("pointer", proc.state)
  /\ UNCHANGED <<revision, episodes, pointer, feedback, history, crashes>>

PublishPointer ==
  /\ At("pointer")
  /\ pointer' = proc.episode
  /\ Hold("mark", proc.state)
  /\ UNCHANGED <<revision, episodes, results, feedback, history, crashes>>

MarkPublished ==
  /\ At("mark")
  /\ Save([proc.state EXCEPT !.published = TRUE])
  /\ proc' = Idle
  /\ UNCHANGED <<revision, results, pointer, feedback, history, crashes>>

-----------------------------------------------------------------------------
(* What happens around the worker.                                         *)

ArtifactsChange ==
  /\ revision < MaxRevision
  /\ revision' = revision + 1
  /\ UNCHANGED <<disk, feedback, history, proc, crashes>>

(* A reviewer asks for a revision of a request on record.                  *)
ReviewArrives ==
  /\ \E e \in requested, r \in Reviews :
       /\ r \notin arrived[e]
       /\ arrived' = [arrived EXCEPT ![e] = @ \cup {r}]
  /\ UNCHANGED <<revision, disk, requested, answered, history, proc, crashes>>

Crash ==
  /\ ~At("idle")
  /\ crashes < MaxCrashes
  /\ proc' = Idle
  /\ crashes' = crashes + 1
  /\ UNCHANGED <<revision, disk, feedback, history>>

Start == Select \/ WakeByReview \/ WakeByMethod

Work ==
  \/ Create \/ Supersede \/ ComputeExhausted \/ Proceed
  \/ CallsExhausted \/ ReserveCall \/ CallModel \/ CallFails \/ AnswerInvalid
  \/ PlanUnchanged \/ RequestCapability \/ AcceptPlan \/ AcceptInterpretation
  \/ NothingPending \/ ObserveWithoutTool \/ ReserveTool \/ RunTool
  \/ Finish \/ PublishResult \/ PublishPointer \/ MarkPublished

Next == Start \/ Work \/ ArtifactsChange \/ ReviewArrives \/ Crash

Spec == Init /\ [][Next]_vars

(* The daemon ticks as long as the policy is enabled and a step that was   *)
(* begun returns or its process dies; reviews and artifacts owe nothing.   *)
FairSpec == Spec /\ WF_vars(Work) /\ WF_vars(Select)
-----------------------------------------------------------------------------
Flight == [kind : {"none", "model", "tool"}, reserved : 0..MaxCompute]
Rejection ==
  {"planning", "interpreting"} \X {"invalid", "unchanged"} \X (Plans \cup {NoPlan})
Feedbacks ==
  {"", "review", "compute_exhausted", "calls_exhausted", "failed", "interrupted",
   "invalid", "unchanged", "repeated_invalid", "repeated_unchanged"}
EpisodeState ==
  [state : {"planning", "executing", "interpreting"} \cup Terminal,
   calls : 0..MaxCalls, tools : 0..MaxTools, network : 0..MaxNetwork,
   compute : 0..MaxCompute,
   inflight : Flight, plan : Plans \cup {NoPlan}, seen : SUBSET Plans, observed : Nat,
   rejected : SUBSET Rejection, feedback : Feedbacks,
   woken : SUBSET Reviews, recovered : BOOLEAN, published : BOOLEAN]

TypeOK ==
  /\ revision \in 0..MaxRevision
  /\ episodes \in [Episode -> {Absent} \cup EpisodeState]
  /\ \A e \in Episode :
       episodes[e] # Absent => episodes[e].observed <= Len(episodes[e].plan)
  /\ results \in [Episode -> Plans \cup {NoPlan}]
  /\ pointer = <<>> \/ pointer \in Episode
  /\ requested \subseteq Episode
  /\ arrived \in [Episode -> SUBSET Reviews]
  /\ answered \in [Episode -> SUBSET Reviews]
  /\ \A e \in Episode : answered[e] \subseteq arrived[e]
  /\ called \in [Episode -> Nat] /\ wakes \in [Episode -> Nat]
  /\ repeated \subseteq executed /\ executed \subseteq Episode \X Plans \X Nat
  /\ proc = Idle \/ proc.episode \in Episode

Runs(e) == {run \in executed : run[1] = e}

(* However often the worker dies, every model call and every tool run of   *)
(* an episode was on its state before it was made, there are no more of    *)
(* them than the frozen budget has, and what is inflight fits in what is   *)
(* left of the compute, so that settling an interruption never exceeds it. *)
(* (research_episodes.py:471-473 and 550-553 write the reservation first;  *)
(* 456 and 472 reserve what remains.)                                      *)
ChargesCovered ==
  \A e \in Episode : episodes[e] # Absent =>
    /\ called[e] <= episodes[e].calls
    /\ Cardinality(Runs(e)) <= episodes[e].tools
    /\ episodes[e].compute + episodes[e].inflight.reserved <= MaxCompute

(* "It is never silently executed twice after restart."                    *)
(* (research_episodes.py:447): no action of a plan is run twice, whether   *)
(* the worker dies, the plan is proposed again or the episode is woken.    *)
NeverRunTwice == repeated = {}

(* What the handoff pointer names is a completed episode and its whole     *)
(* result: all actions of the plan observed, then interpreted, then saved. *)
(* A reader without the lease can follow it at any time.                   *)
(* (research_episodes.py:610-613 publishes after the finally clause.)      *)
PointerSettled ==
  pointer # <<>> =>
    /\ episodes[pointer].state = "completed"
    /\ results[pointer] = episodes[pointer].plan
    /\ episodes[pointer].observed = Len(results[pointer])

(* "A changed review may wake existing allowance once; it never supplies   *)
(* calls." (research_feedback.py:242): an episode is woken at most once by *)
(* each review, and once more by the method recovery.                      *)
WokenOnce ==
  \A e \in Episode : episodes[e] # Absent =>
    wakes[e] <= Cardinality(arrived[e])
                  + (IF episodes[e].recovered THEN 1 ELSE 0)

(* An open episode of the current input comes to an end: whatever the      *)
(* planner answers, every step uses up budget or actions.                  *)
Open(e) == episodes[e].state \in {"planning", "executing", "interpreting"}
Settles == \A e \in Episode : Open(e) ~> ~Open(e) \/ e[1] # revision
=============================================================================
