\* A web process and a worker process, one request.
SPECIFICATION Spec
CONSTANTS
    write = write
    save = save
    lookup = lookup
    ann = ann
    bob = bob
    A = A
    B = B
    web = web
    worker = worker
    h1 = h1
    h2 = h2
    NoThread = NoThread
    Nobody = Nobody
    AnyTenant = AnyTenant
    Requests = {write}
    Users = {ann, bob}
    Tenants = {A}
    Threads = {h1, h2}
    MaxIds = 1
    Flagged = {}
    Marked = {write}
    Sensitive = {}
    Permitted = {write}
    UserOf <- MCUserOf
    TenantOf <- MCTenantOf
    AccessOf <- MCAccessOf
    ProcessOf <- MCProcesses
INVARIANT SingleUse
\* When the bound on approvals is reached every thread may wait in a request.
CHECK_DEADLOCK FALSE
