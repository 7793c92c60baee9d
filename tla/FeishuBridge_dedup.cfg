\* Two instances, a message of any kind delivered twice, one that is only marked once; the file keeps one id.
SPECIFICATION Spec
CONSTANTS
    h1 = h1
    h2 = h2
    p1 = p1
    p2 = p2
    m1 = m1
    m2 = m2
    Messages = {m1, m2}
    Handlers = {h1, h2}
    Processes = {p1, p2}
    ProcessOf <- MCProcessOf
    Cap = 1
    Secrets = {"token"}
    KindsOf <- MCKindsOf
    Deliveries <- MCDeliveries
    MaxCrashes = 1
INVARIANT TypeOK
INVARIANT TwiceIsExplained
INVARIANT MarkedIsAnswered
\* Deliveries end.
CHECK_DEADLOCK FALSE
