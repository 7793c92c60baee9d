\* Both backends, four events of two tenants, two at a time, a subscriber whose connection is lost once.
SPECIFICATION FairSpec
CONSTANTS
    Subscribers = {s1}
    TenantOf <- MCTenantOf
    Tenants <- MCTenants
    Limit = 2
    MaxEvents = 4
    MaxOpen = 2
    MaxDrops = 1
INVARIANT TypeOK
INVARIANT LossIsRaced
INVARIANT SeenOnceOrExplained
PROPERTY EventuallySeen
\* Finitely many events are emitted: the stream comes to rest.
CHECK_DEADLOCK FALSE
