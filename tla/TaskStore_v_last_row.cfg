\* PostgreSQL, one thread, a tenant with one task.
SPECIFICATION StoreSpec
CONSTANTS
    a = a
    b = b
    c = c
    A = A
    B = B
    web = web
    worker = worker
    h1 = h1
    h2 = h2
    h3 = h3
    NoOp = NoOp
    NoThread = NoThread
    Ids = {a, c}
    Ops = {"add a", "add c", "delete c"}
    Threads = {h1}
    Backend = "postgres"
    KindOf <- MCKindOf
    IdsOf <- MCIdsOf
    StatusOf <- MCStatusOf
    KeyOf <- MCKeyOf
    OwnerOf <- MCOwnerOf
    ProcessOf <- MCOneProcess
PROPERTY DeletedIsGone
\* Each call is made once: in the end there is none left to make.
CHECK_DEADLOCK FALSE
