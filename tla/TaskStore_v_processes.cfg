\* A web process that accepts a task while a worker updates another.
SPECIFICATION StoreSpec
CONSTANTS
    a = a
    b = b
    c = c
    A = A
    B = B
    web = web
    worker = worker
    h1 = h1
    h2 = h2
    h3 = h3
    NoOp = NoOp
    NoThread = NoThread
    Ids = {a, c}
    Ops = {"add a", "add c", "run c"}
    Threads = {h1, h2}
    Backend = "file"
    KindOf <- MCKindOf
    IdsOf <- MCIdsOf
    StatusOf <- MCStatusOf
    KeyOf <- MCKeyOf
    OwnerOf <- MCOwnerOf
    ProcessOf <- MCProcesses
PROPERTY AcceptedStays
\* Each call is made once: in the end there is none left to make.
CHECK_DEADLOCK FALSE
