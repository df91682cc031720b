----------------------------- MODULE Approvals -----------------------------
(* Human approval inside a graph: the checkpoint and the nodes around it        *)
(* (hitl/node.rs), over the state HitlController works on (HumanReview). The     *)
(* review is one context key here; edits patch change_summary. A request carries  *)
(* the summary and the risk it asks about.                                        *)
EXTENDS AgentStates, HumanReview

\* ApprovalMatrix::default, and a policy that denies what is of high risk.
DefaultMatrix == [low |-> "allow", medium |-> "pause", high |-> "pause"]
DenyHigh == [DefaultMatrix EXCEPT !.high = "deny"]
RequiresPause(matrix, risk) == matrix[risk] = "pause"

Review(s) == GetOr(s, "review", NoReview)
WithReview(s, review) == Put(s, "review", review)

\* apply_edits, on the key the edits patch.
Patched(s) ==
    IF Review(s).edits = NoEdits THEN s ELSE Put(s, "change_summary", Review(s).edits)

\* ApprovalRequest::new: ids are never used again.
Request(s, risk) ==
    [id |-> Cardinality(Creations(Review(s))) + 1, summary |-> Get(s, "change_summary"),
     risk |-> risk]

\* ReviewSummaryBuilder: from_state and to_explanation.
Explanation(s, risk) ==
    [summary |-> Get(s, "change_summary"), risk |-> risk,
     diff |-> Get(s, "proposed_diff"), tools |-> GetOr(s, "recent_tool_actions", <<>>)]

\* What a checkpoint that stops leaves behind; unlike Pause, an older decision
\* stays (there is none where it is used).
Stop(s, risk) ==
    LET request == Request(s, risk)
    IN  Put(WithReview(s, [Review(s) EXCEPT !.log = Append(@, Created(request.id)),
                                            !.request = request.id, !.paused = TRUE]),
            "approval_request", request)

Unpaused(s) == WithReview(s, [Review(s) EXCEPT !.paused = FALSE])

\* Mutant: what was asked for high risk is let through as medium is.
CheckpointUnasked(s, matrix) ==
    LET decision == Review(s).decision
        risk == GetOr(s, "change_risk_level", "medium")
    IN  IF decision # NoDecision THEN {Result(Unpaused(s), Transition(decision.verdict))}
        ELSE {Result(s, Transition(IF matrix[risk] = "deny" THEN "denied" ELSE "approved"))}

\* ApprovalCheckpointNode: any decision counts, whatever request it answers.
ApprovalCheckpointNode(s, matrix) ==
    LET decision == Review(s).decision
        risk == GetOr(s, "change_risk_level", "medium")
    IN  IF decision # NoDecision
        THEN {Result(Unpaused(s), Transition(decision.verdict))}
        ELSE CASE matrix[risk] = "allow" -> {Result(s, Transition("approved"))}
               [] matrix[risk] = "deny" -> {Result(Stop(s, risk), Transition("denied"))}
               [] OTHER ->
                    {Result(Put(Stop(s, risk), "explanation", Explanation(s, risk)),
                            Transition("awaiting_approval"))}

\* GrantApprovalNode: edits are neither applied nor dropped.
GrantApprovalNode(s) ==
    LET review == Review(s)
    IN  IF ~MayDecide(review) THEN {Failure(s)}
        ELSE {Result(WithReview(s, [review EXCEPT
                        !.log = Append(@, Recorded(review.request, "approved")),
                        !.decision = [request |-> review.request, verdict |-> "approved"],
                        !.paused = FALSE]), Cont)}

\* EditInterventionNode: applied edits stay queued.
EditInterventionNode(s) == {Result(WithReview(Patched(s), ApplyEdits(Review(s))), Cont)}

ResumeNode(s) == {Result(Unpaused(s), Cont)}
-----------------------------------------------------------------------------
(* The controller's operations on the state between runs. *)

ControllerPause(s, risk) ==
    LET request == Request(s, risk)
    IN  Put(WithReview(s, Pause(Review(s), request.id)), "approval_request", request)
ControllerEdit(s, summary) == WithReview(s, QueueEdits(Review(s), summary))
ControllerDecide(s, verdict) ==
    WithReview(IF verdict = "approved" THEN Patched(s) ELSE s, Decide(Review(s), verdict))

\* resume
ControllerResume(s) == Unpaused(WithReview(Patched(s), ApplyEdits(Review(s))))
=============================================================================
