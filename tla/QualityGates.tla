---------------------------- MODULE QualityGates ----------------------------
(* The quality gate and the risk of a change: guardrails/. A check is a command *)
(* [program, arg], both by what validate tells apart; the process it runs ends   *)
(* with any exit code.                                                           *)
EXTENDS AgentStates

Programs == {"empty", "path", "metachars", "shell", "unlisted", "listed"}

\* CommandSpec::validate; a shell is refused even on the list.
MayRun(check, allowed) == check.program \in allowed \ {"empty", "path", "metachars", "shell"}
                          /\ check.arg # "nul"

\* ProcessCommandRunner::run: an exit code (ok, not ok, killed by a signal), or
\* an error when the command is refused or cannot be started.
ExitCodes == {"zero", "nonzero", "signal"}
RunResults(check, allowed) == IF MayRun(check, allowed) THEN ExitCodes \cup {"error"} ELSE {"error"}

\* ReviewFinding::error, GateCheck.
FindingError(rule) == [rule |-> rule, severity |-> "error"]
GateCheck(check, result) ==
    [name |-> check.name, passed |-> result = "zero",
     findings |-> IF result = "zero" THEN <<>> ELSE <<FindingError(check.name)>>]

\* GateResult::pass and fail.
GateResult(checks) ==
    LET findings == FlattenSeq([k \in DOMAIN checks |-> checks[k].findings])
    IN  [passed |-> \A k \in DOMAIN checks : checks[k].passed, checks |-> checks,
         findings |-> findings,
         blocked |-> \E k \in DOMAIN findings : findings[k].severity = "error"]


\* run_checks: every check runs, failed ones before it or not.
RunChecks(config, allowed) ==
    {GateResult([k \in DOMAIN config.checks |-> GateCheck(config.checks[k], r[k])]) :
       r \in {f \in [DOMAIN config.checks -> ExitCodes \cup {"error"}] :
                \A k \in DOMAIN f : f[k] \in RunResults(config.checks[k], allowed)}}

\* ChangeRisk and its Default. deleted: at the threshold of 100 lines or more;
\* files: few, more than 5, more than 20.
NoRisk == [git |-> FALSE, deleted |-> FALSE, network |-> FALSE, shell |-> FALSE, files |-> "few"]

\* RiskClassifier::classify
Classify(change) ==
    IF change.git \/ change.deleted THEN "high"
    ELSE IF change.network \/ change.shell \/ change.files # "few" THEN "medium"
    ELSE "low"


\* RiskClassifier::approval_route
ApprovalRoute(risk, passed) ==
    IF ~passed THEN "gate_failed"
    ELSE CASE risk = "high" -> "needs_approval"
           [] risk = "medium" -> "review"
           [] risk = "low" -> "passed"

\* RiskClassifier::merge_blocker
MergeBlocked(risk, passed) == ~passed \/ risk = "high"

\* QualityGateNode::execute. A gate that does not block passes on the route, not
\* in gate_passed.
QualityGateNode(s, config, allowed) ==
    LET risk == Classify(GetOr(s, "change_risk", NoRisk))
        answer(gate) ==
            LET passed == gate.passed \/ ~config.blockOnFailure
            IN  Result(PutAll(s, [gate_result |-> gate, change_risk_level |-> risk,
                                  merge_blocker |-> MergeBlocked(risk, passed),
                                  gate_passed |-> gate.passed]),
                       Transition(ApprovalRoute(risk, passed)))
    IN  {answer(gate) : gate \in RunChecks(config, allowed)}

\* ImplementNode of the autonomous development example, for any agent's change.
ImplementNode(s, risks) ==
    {Result(PutAll(s, [change_summary |-> "modules", change_risk |-> risk]), Cont) :
       risk \in risks}
=============================================================================
