\* One task, two workers, two incidents outside bus.publish: the promise of TaskLifecycle.
SPECIFICATION FairSpec
CONSTANTS
    t1 = t1
    t2 = t2
    k1 = k1
    NoKey = NoKey
    NoTask = NoTask
    Tasks = {t1}
    BizKeys = {k1}
    Workers = {w1, w2}
    High = {t1}
    KeyOf <- MCKeyOf
    MaxAttempts <- MCMaxAttempts
    Deletable = {t1}
    Kinds = {"worker_crash", "slow_worker", "ack_error", "key_expiry", "resend", "refused"}
    MaxIncidents = 2
    MaxEntries = 12
INVARIANT NoTaskLost
INVARIANT AttemptsArePaid
PROPERTY ImplementsLifecycle
\* Finitely many tasks are submitted: the system comes to rest.
CHECK_DEADLOCK FALSE
