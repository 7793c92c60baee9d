\* A run and its retry over a contract of at most two clauses.
SPECIFICATION Spec
CONSTANTS
    Runs = {r1, r2}
    RiskTypes = {t1}
    RuleLevel <- MCRuleLevel
    RuleReview <- MCRuleReview
    MaxClauses = 2
    MaxActive = 1
    MaxFaults = 1
INVARIANT TypeOK
INVARIANT RiskIsReviewed
INVARIANT CompletedIsClean
INVARIANT RememberedIsAudited
INVARIANT RecordsAgree
\* Every review ends.
CHECK_DEADLOCK FALSE
