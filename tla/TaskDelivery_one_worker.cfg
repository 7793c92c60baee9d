\* A task of each priority, one worker, two incidents of any kind but a failing XACK.
SPECIFICATION Spec
CONSTANTS
    t1 = t1
    t2 = t2
    k1 = k1
    NoKey = NoKey
    NoTask = NoTask
    Tasks = {t1, t2}
    BizKeys = {k1}
    Workers = {w1}
    High = {t1}
    KeyOf <- MCKeyOf
    MaxAttempts <- MCMaxAttempts
    Deletable = {}
    Kinds = {"worker_crash", "slow_worker", "key_expiry", "resend", "refused", "sweep_refused", "lost_reply", "publish_crash", "slow_publish"}
    MaxIncidents = 2
    MaxEntries = 8
INVARIANT TypeOK
PROPERTY CompletedIsFinal
\* Finitely many tasks are submitted: the system comes to rest.
CHECK_DEADLOCK FALSE
