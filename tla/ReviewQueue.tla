---------------------------- MODULE ReviewQueue ----------------------------
(***************************************************************************)
(* The operator review queue over one question episode                     *)
(* (recursive_review_queue.sync, claim and decide).  A reviewer claims an  *)
(* item for a bounded time, states its intent, has the question reviewed   *)
(* (recursive_loop.review_question, under lesson_review_budget.charge) and *)
(* records the decision: four durable records of one act, and a crash or   *)
(* the end of the lease may fall between any two of them.                  *)
(*                                                                         *)
(* Whoever acts holds the research lease, so one call is at work at a time;*)
(* the clock goes on during it.                                            *)
(***************************************************************************)
EXTENDS Naturals, FiniteSets

CONSTANTS
  Reviewers,
  MaxQuestions, \* the questions the episode has calls for
  Lease,       \* ttl of a claim
  MaxNow,      \* bound: the last time the model looks at
  MaxCrashes   \* bound: crashes in one behaviour

ASSUME QueueAssumption ==
  /\ Lease \in Nat \ {0}
  /\ {MaxQuestions, MaxNow, MaxCrashes} \subseteq Nat

VARIABLES
  now,
  task,       \* episode_tasks/<id>.json: its state and its question
  inflight,   \* episode_accounts/<id>.json: a charge is inflight
  items,      \* recursive_review_items/: the questions that have one
  claims,     \* recursive_review_claims/
  pointer,    \* review_claims/<item>.json: the current claim
  intents,    \* recursive_queue_intents/
  reviews,    \* recursive_question_reviews/: the review of each question
  decisions,  \* recursive_queue_decisions/
  proc,       \* the call at work, and what it holds in memory
  crashes     \* crashes so far

episode == <<task, inflight>>
queue == <<items, claims, pointer, intents, reviews, decisions>>
vars == <<now, task, inflight, items, claims, pointer, intents, reviews,
          decisions, proc, crashes>>

-----------------------------------------------------------------------------
Questions == 1..MaxQuestions
Decision == {"approve", "reject", "revise"}
Claim == [item : Questions, reviewer : Reviewers, expires : 0..(MaxNow + Lease)]
NoClaim == [item |-> 0]
NoReview == [decision |-> "none"]
Idle == [pc |-> "idle"]
At(pc) == proc.pc = pc

Init ==
  /\ now = 0
  /\ task = [state |-> "ready", question |-> 0, applied |-> FALSE]
  /\ inflight = FALSE
  /\ items = {}
  /\ claims = {}
  /\ pointer = [n \in Questions |-> NoClaim]
  /\ intents = {}
  /\ reviews = [n \in Questions |-> NoReview]
  /\ decisions = {}
  /\ proc = Idle
  /\ crashes = 0

(* pending(): the question the task waits with.                            *)
PendingItem(n) == task.state = "awaiting_question_review" /\ task.question = n
CallLeft == task.question + 1 \in Questions

-----------------------------------------------------------------------------
(* The research worker's tick.                                             *)

Author ==
  /\ At("idle")
  /\ task.state = "ready" /\ ~inflight
  /\ CallLeft
  /\ task' = [state |-> "awaiting_question_review",
              question |-> task.question + 1, applied |-> FALSE]
  /\ UNCHANGED <<now, inflight, queue, proc, crashes>>

(* advance() settles what a crash left inflight and closes the episode.    *)
SettleInterruption ==
  /\ At("idle")
  /\ task.state = "ready" /\ inflight
  /\ task' = [task EXCEPT !.state = "exhausted_requires_review"]
  /\ inflight' = FALSE
  /\ UNCHANGED <<now, queue, proc, crashes>>

Sync ==
  /\ At("idle")
  /\ \E n \in Questions : PendingItem(n) /\ items' = items \cup {n}
  /\ UNCHANGED <<now, episode, claims, pointer, intents, reviews, decisions,
                 proc, crashes>>

-----------------------------------------------------------------------------
(* claim(): the record first, then the pointer.                            *)

Current(c) == pointer[c.item] = c /\ now < c.expires

(* Mutant: the pointer is written and the claim is not stored.             *)
ClaimUnstored ==
  /\ At("idle")
  /\ \E n \in items, r \in Reviewers :
       /\ PendingItem(n)
       /\ pointer[n] # NoClaim => pointer[n].expires <= now
       /\ proc' = [pc |-> "point",
                   claim |-> [item |-> n, reviewer |-> r, expires |-> now + Lease]]
  /\ UNCHANGED <<now, episode, queue, crashes>>

StoreClaim ==
  /\ At("idle")
  /\ \E n \in items, r \in Reviewers :
       /\ PendingItem(n)
       /\ pointer[n] # NoClaim => pointer[n].expires <= now
       /\ LET c == [item |-> n, reviewer |-> r, expires |-> now + Lease]
          IN /\ claims' = claims \cup {c}
             /\ proc' = [pc |-> "point", claim |-> c]
  /\ UNCHANGED <<now, episode, items, pointer, intents, reviews, decisions, crashes>>

Point ==
  /\ At("point")
  /\ pointer' = [pointer EXCEPT ![proc.claim.item] = proc.claim]
  /\ proc' = Idle
  /\ UNCHANGED <<now, episode, items, claims, intents, reviews, decisions, crashes>>

-----------------------------------------------------------------------------
(* decide()                                                                *)

Decided(c) == \E d \in decisions : d.claim = c
Intended(c) == {i.decision : i \in {j \in intents : j.claim = c}}

(* Mutant: a claim that was current once may decide.                       *)
DecideLate ==
  /\ At("idle")
  /\ \E c \in claims, d \in Decision :
       /\ ~Decided(c)
       /\ IF Intended(c) # {} THEN d \in Intended(c) ELSE PendingItem(c.item)
       /\ intents' = intents \cup {[claim |-> c, decision |-> d]}
       /\ proc' = [pc |-> "review", claim |-> c, decision |-> d]
  /\ UNCHANGED <<now, episode, items, claims, pointer, reviews, decisions, crashes>>

(* Mutant: an intent on record is overridden.                              *)
DecideAgain ==
  /\ At("idle")
  /\ \E c \in claims, d \in Decision :
       /\ Current(c) /\ ~Decided(c)
       /\ PendingItem(c.item)
       /\ intents' = {i \in intents : i.claim # c} \cup {[claim |-> c, decision |-> d]}
       /\ proc' = [pc |-> "review", claim |-> c, decision |-> d]
  /\ UNCHANGED <<now, episode, items, claims, pointer, reviews, decisions, crashes>>

(* The lease is looked at once, here.  An intent on record is not changed. *)
Intend ==
  /\ At("idle")
  /\ \E c \in claims, d \in Decision :
       /\ Current(c) /\ ~Decided(c)
       /\ IF Intended(c) # {} THEN d \in Intended(c) ELSE PendingItem(c.item)
       /\ intents' = intents \cup {[claim |-> c, decision |-> d]}
       /\ proc' = [pc |-> "review", claim |-> c, decision |-> d]
  /\ UNCHANGED <<now, episode, items, claims, pointer, reviews, decisions, crashes>>

(* review_question() for a question that has a review: the same decision   *)
(* is applied if it was not, any other one is refused.                     *)
Reviewed == reviews[proc.claim.item] # NoReview

ReviewRefused ==
  /\ At("review")
  /\ IF Reviewed THEN reviews[proc.claim.item].decision # proc.decision
     ELSE \/ ~PendingItem(proc.claim.item)
          \/ proc.decision = "revise" /\ ~CallLeft
          \/ inflight
  /\ proc' = Idle
  /\ UNCHANGED <<now, episode, queue, crashes>>

ReviewRetried ==
  /\ At("review") /\ Reviewed
  /\ reviews[proc.claim.item].decision = proc.decision
  /\ proc' = [proc EXCEPT !.pc =
       IF task.question = proc.claim.item /\ ~task.applied THEN "apply" ELSE "record"]
  /\ UNCHANGED <<now, episode, queue, crashes>>

Charge ==
  /\ At("review") /\ ~Reviewed
  /\ PendingItem(proc.claim.item)
  /\ proc.decision = "revise" => CallLeft
  /\ ~inflight
  /\ inflight' = TRUE
  /\ proc' = [proc EXCEPT !.pc = "charged"]
  /\ UNCHANGED <<now, task, queue, crashes>>

(* The measurement does not replay: the charge is released, nothing else.  *)
ReviewFails ==
  /\ At("charged")
  /\ inflight' = FALSE
  /\ proc' = Idle
  /\ UNCHANGED <<now, task, queue, crashes>>

StoreReview ==
  /\ At("charged")
  /\ reviews' = [reviews EXCEPT ![proc.claim.item] =
       [decision |-> proc.decision, reviewer |-> proc.claim.reviewer]]
  /\ proc' = [proc EXCEPT !.pc = "release"]
  /\ UNCHANGED <<now, episode, items, claims, pointer, intents, decisions, crashes>>

Release ==
  /\ At("release")
  /\ inflight' = FALSE
  /\ proc' = [proc EXCEPT !.pc = "apply"]
  /\ UNCHANGED <<now, task, queue, crashes>>

Apply ==
  /\ At("apply")
  /\ task' = [task EXCEPT !.applied = TRUE,
       !.state = IF proc.decision = "revise" THEN "ready" ELSE "question_reviewed"]
  /\ proc' = [proc EXCEPT !.pc = "record"]
  /\ UNCHANGED <<now, inflight, queue, crashes>>

RecordDecision ==
  /\ At("record")
  /\ decisions' = decisions \cup
       {[claim |-> proc.claim, item |-> proc.claim.item, decision |-> proc.decision]}
  /\ proc' = Idle
  /\ UNCHANGED <<now, episode, items, claims, pointer, intents, reviews, crashes>>

-----------------------------------------------------------------------------
Clock ==
  /\ now < MaxNow
  /\ now' = now + 1
  /\ UNCHANGED <<episode, queue, proc, crashes>>

Crash ==
  /\ ~At("idle")
  /\ crashes < MaxCrashes
  /\ proc' = Idle
  /\ crashes' = crashes + 1
  /\ UNCHANGED <<now, episode, queue>>

Next ==
  \/ Author \/ SettleInterruption \/ Sync \/ StoreClaim \/ Point \/ Intend
  \/ ReviewRefused \/ ReviewRetried \/ Charge \/ ReviewFails \/ StoreReview
  \/ Release \/ Apply \/ RecordDecision \/ Clock \/ Crash

Spec == Init /\ [][Next]_vars

-----------------------------------------------------------------------------
TypeOK ==
  /\ now \in 0..MaxNow
  /\ task \in [state : {"ready", "awaiting_question_review", "question_reviewed",
                        "exhausted_requires_review"},
               question : Questions \cup {0}, applied : BOOLEAN]
  /\ inflight \in BOOLEAN
  /\ items \subseteq Questions
  /\ claims \subseteq Claim
  /\ pointer \in [Questions -> claims \cup {NoClaim}]
  /\ intents \subseteq [claim : claims, decision : Decision]
  /\ reviews \in [Questions ->
                    {NoReview} \cup [decision : Decision, reviewer : Reviewers]]
  /\ decisions \subseteq [claim : claims, item : Questions, decision : Decision]

(* An item is decided once, although claims on it expire and a second      *)
(* reviewer may take over an act the first one did not finish, and the     *)
(* queue's decision is the decision of the review on record, even when     *)
(* that review was stored by an earlier claim.                             *)
(* (recursive_review_queue.py:125 asks for the current claim, 126-129 and  *)
(* 133 for what is on record; calibration at 181-184 grades by it.)        *)
OneDecisionPerItem ==
  /\ \A d, e \in decisions : d.item = e.item => d = e
  /\ \A d \in decisions : reviews[d.item].decision = d.decision

(* A review on record was intended by its reviewer, under a claim on its   *)
(* question; a claim never carries two intents, so a crash cannot turn a   *)
(* reviewer's approval into a rejection.                                   *)
ReviewWasIntended ==
  /\ \A n \in Questions : reviews[n] # NoReview =>
       \E i \in intents : /\ i.claim.item = n
                          /\ i.claim.reviewer = reviews[n].reviewer
                          /\ i.decision = reviews[n].decision
  /\ \A i, j \in intents : i.claim = j.claim => i = j
=============================================================================
