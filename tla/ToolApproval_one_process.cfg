\* Two threads of one process, three kinds of tool call.
SPECIFICATION Spec
CONSTANTS
    write = write
    save = save
    lookup = lookup
    ann = ann
    bob = bob
    A = A
    B = B
    web = web
    worker = worker
    h1 = h1
    h2 = h2
    NoThread = NoThread
    Nobody = Nobody
    AnyTenant = AnyTenant
    Requests = {write, save, lookup}
    Users = {ann, bob}
    Tenants = {A, B}
    Threads = {h1, h2}
    MaxIds = 2
    Flagged = {}
    Marked = {write, save, lookup}
    Sensitive = {save}
    Permitted = {write, save, lookup}
    UserOf <- MCUserOf
    TenantOf <- MCTenantOf
    AccessOf <- MCAccessOf
    ProcessOf <- MCOneProcess
INVARIANT TypeOK
INVARIANT SingleUse
INVARIANT WritesAreGranted
PROPERTY ImplementsLedger
\* When the bound on approvals is reached every thread may wait in a request.
CHECK_DEADLOCK FALSE
