\* PostgreSQL, two tenants, a web process and a worker process with two threads.
SPECIFICATION StoreSpec
CONSTANTS
    a = a
    b = b
    c = c
    A = A
    B = B
    web = web
    worker = worker
    h1 = h1
    h2 = h2
    h3 = h3
    NoOp = NoOp
    NoThread = NoThread
    Ids = {a, b, c}
    Ops = {"add a", "add b", "add c", "fail a", "claim a", "finish b", "clean up"}
    Threads = {h1, h2, h3}
    Backend = "postgres"
    KindOf <- MCKindOf
    IdsOf <- MCIdsOf
    StatusOf <- MCStatusOf
    KeyOf <- MCKeyOf
    OwnerOf <- MCOwnerOf
    ProcessOf <- MCProcesses
PROPERTY LossIsOvertaken
\* Each call is made once: in the end there is none left to make.
CHECK_DEADLOCK FALSE
