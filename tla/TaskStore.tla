------------------------------ MODULE TaskStore ------------------------------
(***************************************************************************)
(* The task table as tasks/queue.py keeps it: every call reads the whole   *)
(* table, changes its copy and writes the whole table back, into a file or *)
(* into PostgreSQL (storage/postgres.py).  A lock is shared by the threads *)
(* of one process and unknown to every other process; delete, the clean-up *)
(* and recover_stale_running take it only to read and to write.            *)
(***************************************************************************)
EXTENDS FiniteSets

CONSTANTS
    Ids, Ops, KindOf, IdsOf, StatusOf, KeyOf,   \* as in TaskTable
    OwnerOf,     \* the tenant of each task
    Threads,     \* threads that use the table
    ProcessOf,   \* the process each of them runs in
    Backend,     \* "file" or "postgres"
    NoOp, NoThread

VARIABLES
    table,   \* the stored rows
    done,    \* calls that have returned
    op,      \* the call each thread is in
    snap,    \* the copy of the table that call works on
    lock,    \* holder of each process's lock
    since    \* history: the threads that have stored the table since a call read it

storeVars == <<table, done, op, snap, lock, since>>

Table == INSTANCE TaskTable

Processes == {ProcessOf[h] : h \in Threads}

ASSUME StoreAssumption ==
    /\ KindOf \in [Ops -> Table!Kinds]
    /\ IdsOf \in [Ops -> SUBSET Ids]
    /\ StatusOf \in [Ops -> Table!Statuses]
    /\ Backend \in {"file", "postgres"}
    /\ NoOp \notin Ops
    /\ NoThread \notin Threads

\* The calls that hold the lock from the read to the write.
Locking == {"add", "update", "claim"}

StoreInit ==
    /\ table = [i \in Ids |-> Table!Absent]
    /\ done = {}
    /\ op = [h \in Threads |-> NoOp]
    /\ snap = [h \in Threads |-> [i \in Ids |-> Table!Absent]]
    /\ lock = [p \in Processes |-> NoThread]
    /\ since = [h \in Threads |-> {}]

\* Mutant of Load: nobody keeps the lock.
Load_Unlocked(h, o) ==
    /\ op[h] = NoOp /\ o \notin done /\ \A g \in Threads : op[g] # o
    /\ lock[ProcessOf[h]] = NoThread
    /\ op' = [op EXCEPT ![h] = o]
    /\ snap' = [snap EXCEPT ![h] = table]
    /\ UNCHANGED <<table, done, lock, since>>

\* A call begins: list() reads the table.
Load(h, o) ==
    /\ op[h] = NoOp /\ o \notin done /\ \A g \in Threads : op[g] # o
    /\ lock[ProcessOf[h]] = NoThread
    /\ op' = [op EXCEPT ![h] = o]
    /\ snap' = [snap EXCEPT ![h] = table]
    /\ lock' = IF KindOf[o] \in Locking THEN [lock EXCEPT ![ProcessOf[h]] = h] ELSE lock
    /\ UNCHANGED <<table, done, since>>

Owners(T) == {OwnerOf[i] : i \in Table!Present(T)}

\* Mutant of Stored: the rows that are not in T are deleted, whoever owns them.
Stored_Global(T) == T

\* What is stored when T is written.  The file is replaced; in the database the
\* rows of T are inserted or updated, and the other rows of the tenants that
\* occur in T are deleted.
Stored(T) ==
    IF Backend = "file" THEN T
    ELSE [i \in Ids |-> IF OwnerOf[i] \in Owners(T) THEN T[i] ELSE table[i]]

\* The call changes its copy, saves it unless nothing changed, and returns.
Save(h) ==
    /\ op[h] # NoOp
    /\ lock[ProcessOf[h]] \in {h, NoThread}
    /\ LET T == Table!Effect(op[h], snap[h])
       IN  /\ table' = IF T = snap[h] THEN table ELSE Stored(T)
           /\ since' = [g \in Threads |->
                          IF g = h \/ op[g] = NoOp THEN {}
                          ELSE IF T = snap[h] THEN since[g] ELSE since[g] \cup {h}]
    /\ done' = done \cup {op[h]}
    /\ op' = [op EXCEPT ![h] = NoOp]
    /\ lock' = [lock EXCEPT ![ProcessOf[h]] = NoThread]
    /\ UNCHANGED snap

\* A process dies and is started again; the call may be made once more.
Crash(p) ==
    /\ \E h \in Threads : ProcessOf[h] = p /\ op[h] # NoOp
    /\ op' = [h \in Threads |-> IF ProcessOf[h] = p THEN NoOp ELSE op[h]]
    /\ lock' = [lock EXCEPT ![p] = NoThread]
    /\ since' = [h \in Threads |-> IF ProcessOf[h] = p THEN {} ELSE since[h]]
    /\ UNCHANGED <<table, done, snap>>

StoreNext ==
    \/ \E h \in Threads, o \in Ops : Load(h, o)
    \/ \E h \in Threads : Save(h)
    \/ \E p \in Processes : Crash(p)

StoreSpec == StoreInit /\ [][StoreNext]_storeVars

-----------------------------------------------------------------------------
(* Properties.                                                             *)

\* A thread inside a call that locks throughout holds its process's lock.
LockHeld ==
    \A h \in Threads :
        op[h] \in Ops /\ KindOf[op[h]] \in Locking => lock[ProcessOf[h]] = h

StoreTypeOK ==
    /\ table \in Table!Tables
    /\ done \subseteq Ops
    /\ op \in [Threads -> Ops \cup {NoOp}]
    /\ snap \in [Threads -> Table!Tables]
    /\ lock \in [Processes -> Threads \cup {NoThread}]
    /\ since \in [Threads -> SUBSET Threads]
    /\ LockHeld

\* Every call takes effect at once and as a whole, whatever the other threads
\* do in the meantime and whenever the process dies (ReviewTaskQueue).
ImplementsTable == Table!Spec

Removes(o, i) == KindOf[o] \in {"delete", "cleanup"} /\ i \in IdsOf[o]

\* The call that this step completes.
Returns(o) == o \in done' \ done

\* A task that has been accepted leaves the table only when a call that removes
\* it returns: no call about another task takes it along (outbox, queue.py).
AcceptedStays ==
    [][\A i \in Table!Present(table) \ Table!Present(table)' :
         \E o \in Ops : Returns(o) /\ Removes(o, i)]_storeVars

\* Another call has stored the table since this one read it.  A call that locks throughout is
\* overtaken by another process only.
Overtaken(h) ==
    \E g \in since[h] : ProcessOf[g] # ProcessOf[h] \/ KindOf[op[h]] \notin Locking

\* The rows that a call may write: in the database, of the tenants its copy has rows of.
Within(h, i) == Backend = "file" \/ OwnerOf[i] \in Owners(Table!Effect(op[h], snap[h]))

\* No accepted task is lost, changed or brought back by a call about another, and no update of
\* a task is undone, unless a call that was overtaken writes its older copy: among the threads
\* of a process delete, the clean-up and recover_stale_running only.  However old that copy is,
\* PostgreSQL keeps the rows of a tenant of which it has none (replace_tasks).  A removal that
\* leaves its tenant without rows does nothing there.
LossIsOvertaken ==
    [][\A h \in Threads : Returns(op[h]) => \A i \in Ids :
         \/ table'[i] = Table!Effect(op[h], table)[i]
         \/ Overtaken(h) /\ (Within(h, i) \/ table'[i] = table[i])
         \/ /\ Backend = "postgres" /\ KindOf[op[h]] \in {"delete", "cleanup"}
            /\ table'[i] = table[i]]_storeVars

\* A deleted task stays deleted: no write of an older copy brings it back.
NoResurrection ==
    [][\A i \in Table!Present(table)' \ Table!Present(table) :
         \E o \in Ops : Returns(o) /\ KindOf[o] = "add" /\ i \in IdsOf[o]]_storeVars

\* When delete has returned, the task is not in the table.
DeletedIsGone ==
    [][\A o \in Ops : Returns(o) /\ KindOf[o] = "delete"
                        => IdsOf[o] \cap Table!Present(table)' = {}]_storeVars
=============================================================================
