\* Two workers, no incident at all.
SPECIFICATION Spec
CONSTANTS
    t1 = t1
    t2 = t2
    k1 = k1
    NoKey = NoKey
    NoTask = NoTask
    Tasks = {t1}
    BizKeys = {k1}
    Workers = {w1, w2}
    High = {t1}
    KeyOf <- MCKeyOf
    MaxAttempts <- MCMaxAttempts
    Deletable = {}
    Kinds = {}
    MaxIncidents = 0
    MaxEntries = 4
PROPERTY CompletedIsFinal
\* Finitely many tasks are submitted: the system comes to rest.
CHECK_DEADLOCK FALSE
