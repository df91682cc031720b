----------------------------- MODULE HumanReview -----------------------------
(***************************************************************************)
(* What HitlController (hitl/intervention.rs) does to the review part of   *)
(* an agent state.  Every operation runs under the state's write lock.     *)
(*                                                                         *)
(* A request is its id, a decision the id it answers and a verdict; edits  *)
(* are the value they give to the one context key they patch.  The log is  *)
(* the approval_events key.                                                *)
(***************************************************************************)
EXTENDS Naturals, Sequences

NoRequest  == 0
NoDecision == [request |-> NoRequest, verdict |-> "none"]
NoEdits    == "no edits"
Verdicts   == {"approved", "denied"}

NoReview == [paused   |-> FALSE,      \* hitl_paused
             request  |-> NoRequest,  \* approval_request
             decision |-> NoDecision, \* approval_decision
             edits    |-> NoEdits,    \* hitl_edits
             patched  |-> NoEdits,    \* the context key edits patch
             log      |-> <<>>]       \* approval_events

Created(request)          == [kind |-> "checkpoint_created", request |-> request]
Edited(edits)             == [kind |-> "intervention_edited", edits |-> edits]
Recorded(request, verdict) == [kind |-> "decision_recorded", request |-> request, verdict |-> verdict]

\* Mutant: a pause leaves the last decision in place.
PauseKeepsDecision(review, request) ==
  [review EXCEPT !.log = Append(@, Created(request)), !.request = request, !.paused = TRUE]

\* pause: a new request, to be decided afresh.
Pause(review, request) ==
  [review EXCEPT !.log      = Append(@, Created(request)),
                 !.request  = request,
                 !.paused   = TRUE,
                 !.decision = NoDecision]

MayQueueEdits(review) == review.paused

QueueEdits(review, edits) ==
  [review EXCEPT !.log = Append(@, Edited(edits)), !.edits = edits]

ApplyEdits(review) ==
  IF review.edits = NoEdits THEN review ELSE [review EXCEPT !.patched = review.edits]

MayDecide(review) == review.request # NoRequest

\* What approve and deny have in common: an approval applies the queued edits
\* first, a denial drops them.
Decide(review, verdict) ==
  LET seen == IF verdict = "approved" THEN ApplyEdits(review) ELSE review
  IN  [seen EXCEPT !.log      = Append(@, Recorded(review.request, verdict)),
                   !.decision = [request |-> review.request, verdict |-> verdict],
                   !.paused   = FALSE,
                   !.edits    = NoEdits]

-----------------------------------------------------------------------------
Decisions(review) == {i \in DOMAIN review.log : review.log[i].kind = "decision_recorded"}
Creations(review) == {i \in DOMAIN review.log : review.log[i].kind = "checkpoint_created"}

\* The parts of a review tell one story: the current request is the last one
\* created, the decision answers it and is the last one logged, every decision
\* logged answers a request created before it, and while the review is paused
\* its request is undecided.  Edits are queued only while it is paused.
Consistent(review) ==
  /\ review.paused => review.request # NoRequest /\ review.decision = NoDecision
  /\ review.edits # NoEdits => review.paused
  /\ review.request # NoRequest =>
       \E i \in Creations(review) : /\ review.log[i].request = review.request
                                    /\ \A j \in Creations(review) : j <= i
  /\ review.decision # NoDecision =>
       /\ review.decision.request = review.request
       /\ \E i \in Decisions(review) :
            /\ review.log[i].request = review.request
            /\ review.log[i].verdict = review.decision.verdict
            /\ \A j \in Decisions(review) : j <= i
  /\ \A i \in Decisions(review) :
       \E j \in Creations(review) : j < i /\ review.log[j].request = review.log[i].request
=============================================================================
