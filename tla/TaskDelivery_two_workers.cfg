\* Two tasks of one priority, two workers that neither crash nor are slow.
SPECIFICATION Spec
CONSTANTS
    t1 = t1
    t2 = t2
    k1 = k1
    NoKey = NoKey
    NoTask = NoTask
    Tasks = {t1, t2}
    BizKeys = {k1}
    Workers = {w1, w2}
    High = {}
    KeyOf <- MCKeyOf
    MaxAttempts <- MCMaxAttempts
    Deletable = {}
    Kinds = {"refused", "resend"}
    MaxIncidents = 1
    MaxEntries = 6
INVARIANT NoConcurrentReview
INVARIANT AttemptsBounded
INVARIANT PendingIsHeld
\* Finitely many tasks are submitted: the system comes to rest.
CHECK_DEADLOCK FALSE
