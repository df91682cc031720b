----------------------------- MODULE Enterprise -----------------------------
(* Tenancy, audit, budget and objectives: enterprise/. A hash is taken as the    *)
(* record it is the hash of; what a record says is what the checks read of it.    *)
EXTENDS AgentStates

RbacRoles == {"viewer", "operator", "admin", "platform_admin"}
Permissions == {"read", "execute", "manage_secrets", "export_audit", "administer"}
Subject(tenant, roles) == [tenant |-> tenant, roles |-> roles]

\* RbacPolicy::enterprise_default
Grants(role) ==
    CASE role = "viewer" -> {"read"}
      [] role = "operator" -> {"read", "execute"}
      [] role = "admin" -> {"read", "execute", "manage_secrets", "export_audit"}
      [] role = "platform_admin" -> Permissions
Allows(subject, permission) == \E role \in subject.roles : permission \in Grants(role)

\* RbacSubject::has_role
HasRole(subject, role) == subject.roles \cap {role, "platform_admin"} # {}


\* TenantGuard::check_access
CheckAccess(subject, tenant, permission) ==
    Allows(subject, permission) /\ (subject.tenant = tenant \/ HasRole(subject, "platform_admin"))
-----------------------------------------------------------------------------
(* The audit log *)

Genesis == "genesis"
RecordHash(record) == record
PrevHash(log) == IF log = <<>> THEN Genesis ELSE RecordHash(log[Len(log)])

\* AuditLog::append
AuditAppend(log, tenant, actor, outcome, detail) ==
    Append(log, [sequence |-> Len(log) + 1, tenant |-> tenant, actor |-> actor,
                 outcome |-> outcome, detail |-> detail, prev |-> PrevHash(log)])

\* verify_chain: the links, not the length or the numbers.
VerifyChain(log) == \A k \in DOMAIN log : log[k].prev = PrevHash(SubSeq(log, 1, k - 1))

\* SecretRedactor::redact on the guard's line. "secret" occurs in the name of
\* one permission, and everything from the first "=" on goes.
Redact(permission, tenant) ==
    IF permission = "manage_secrets" THEN "redacted" ELSE <<permission, tenant>>

\* ComplianceExporter: export_tenant and passes_internal_checks.
ExportTenant(log, tenant) ==
    [records |-> SelectSeq(log, LAMBDA r : r.tenant = tenant), valid |-> VerifyChain(log)]
PassesInternalChecks(export) ==
    /\ export.valid /\ export.records # <<>>
    /\ \A k \in DOMAIN export.records : export.records[k].detail # "secret"
-----------------------------------------------------------------------------
(* Budget and objectives *)

Budget(limit) == [limit |-> limit, spent |-> 0]

\* BudgetGuardrail: check (saturating, so it never wraps) and charge.
\* Mutant: what is spent already is compared, not what would be.
WithinBudgetLate(budget, cost) == budget.spent <= budget.limit
WithinBudget(budget, cost) == budget.spent + cost <= budget.limit
Charge(budget, cost) == [budget EXCEPT !.spent = @ + cost]

\* SloTracker: register, record, evaluate (rates as counts out of 100).
Counting(counts, name) ==
    [n \in DOMAIN counts \cup {name} |-> IF n \in DOMAIN counts THEN counts[n] ELSE 0]
NoTracker == [targets |-> <<>>, attempts |-> <<>>, successes |-> <<>>]
Register(tracker, name, target) ==
    [targets |-> [n \in DOMAIN tracker.targets \cup {name} |->
                    IF n = name THEN target ELSE tracker.targets[n]],
     attempts |-> Counting(tracker.attempts, name), successes |-> Counting(tracker.successes, name)]
Bump(counts, name) == [Counting(counts, name) EXCEPT ![name] = @ + 1]
RecordSlo(tracker, name, success) ==
    [targets |-> tracker.targets, attempts |-> Bump(tracker.attempts, name),
     successes |-> IF success THEN Bump(tracker.successes, name) ELSE tracker.successes]
EvaluateSlo(tracker, name) ==
    LET attempts == tracker.attempts[name]
        successes == tracker.successes[name]
    IN  [attempts |-> attempts, successes |-> successes,
         met |-> attempts = 0 \/ 100 * successes >= tracker.targets[name] * attempts]
Dashboard(tracker) == [name \in DOMAIN tracker.targets |-> EvaluateSlo(tracker, name)]

\* ScopedCredential::allows_scope
AllowsScope(credential, scope) == credential \cap {scope, "*"} # {}
-----------------------------------------------------------------------------
(* The nodes *)

TenantGuardNode(s, permission) ==
    LET tenant == Get(s, "tenant_id")
        allowed == CheckAccess(s.ctx["rbac_subject"], tenant, permission)
        outcome == IF allowed THEN "allowed" ELSE "denied"
    IN  IF ~Has(s, "rbac_subject") \/ ~Has(s, "tenant_id") THEN {Failure(s)}
        ELSE {Result(Put(s, "audit_log", AuditAppend(GetOr(s, "audit_log", <<>>), tenant,
                                                     s.ctx["rbac_subject"], outcome,
                                                     Redact(permission, tenant))),
                     Transition(outcome))}

SecretScopeNode(s, scope) ==
    {Result(s, Transition(IF \E c \in GetOr(s, "scoped_credentials", {}) : AllowsScope(c, scope)
                          THEN "scoped" ELSE "missing_scope"))}

BudgetGuardNode(s, cost) ==
    LET budget == s.ctx["cost_budget"]
    IN  IF ~Has(s, "cost_budget") THEN {Failure(s)}
        ELSE IF WithinBudget(budget, cost)
             THEN {Result(Put(s, "cost_budget", Charge(budget, cost)), Transition("within_budget"))}
             ELSE {Result(s, Transition("over_budget"))}

SloRecordNode(s, name, success) ==
    LET tracker == RecordSlo(GetOr(s, "slo_tracker", NoTracker), name, success)
    IN  {Result(PutAll(s, [slo_tracker |-> tracker, slo_dashboard |-> Dashboard(tracker)]), Cont)}

AuditExportNode(s) ==
    LET export == ExportTenant(s.ctx["audit_log"], s.ctx["tenant_id"])
    IN  IF ~Has(s, "tenant_id") \/ ~Has(s, "audit_log") THEN {Failure(s)}
        ELSE {Result(Put(s, "compliance_export", export),
                     Transition(IF PassesInternalChecks(export) THEN "exported"
                                ELSE "failed_checks"))}

\* EnterpriseSetupNode of the example: everything starts anew with it.
EnterpriseSetupNode(s, limit) ==
    {Result(PutAll(s, [tenant_id |-> "acme", rbac_subject |-> Subject("acme", {"operator"}),
                       audit_log |-> <<>>, cost_budget |-> Budget(limit),
                       scoped_credentials |-> {{"git:read"}},
                       slo_tracker |-> Register(NoTracker, "workflow_success", 95)]),
            Cont)}
=============================================================================
