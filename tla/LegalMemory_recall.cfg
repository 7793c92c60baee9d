\* Three runs of two tenants, a worker and a clerk, a table of two memories.
SPECIFICATION Spec
CONSTANTS
    f1 = f1
    f2 = f2
    f3 = f3
    f4 = f4
    r1 = r1
    r2 = r2
    r3 = r3
    A = A
    B = B
    payment = payment
    None = None
    Findings = {f1, f2, f3, f4}
    RunOf <- MCRunOf
    TopicOf <- MCTopicOf
    Tenants = {A, B}
    Subjects = {payment}
    Flagged = {}
    HighRisk = {f1}
    LlmOnly = {f4}
    Injected = {r2}
    MaxEntries = 2
    Workers = {w1}
    Clerks = {c1}
    Backend = "file"
INVARIANT TypeOK
INVARIANT RecallIsApproved
INVARIANT OwnAdvice
INVARIANT CapacityBounded
INVARIANT EvictedIsArchived
\* Every run is consolidated once and a rejected memory stays: it comes to rest.
CHECK_DEADLOCK FALSE
