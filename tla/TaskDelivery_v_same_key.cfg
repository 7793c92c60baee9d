\* Two tasks with the same dedup_key, one after the other.
SPECIFICATION Spec
CONSTANTS
    t1 = t1
    t2 = t2
    k1 = k1
    NoKey = NoKey
    NoTask = NoTask
    Tasks = {t1, t2}
    BizKeys = {k1}
    Workers = {w1}
    High = {t1}
    KeyOf <- MCSameKey
    MaxAttempts <- MCMaxAttempts
    Deletable = {}
    Kinds = {}
    MaxIncidents = 0
    MaxEntries = 6
INVARIANT NoTaskLost
\* Finitely many tasks are submitted: the system comes to rest.
CHECK_DEADLOCK FALSE
