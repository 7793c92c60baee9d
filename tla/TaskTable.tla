------------------------------ MODULE TaskTable ------------------------------
(***************************************************************************)
(* What the task table promises its callers: every operation of            *)
(* tasks/queue.py that changes it takes effect at once and as a whole.     *)
(***************************************************************************)
CONSTANTS
    Ids,       \* task ids
    Ops,       \* calls that are made, each once
    KindOf,    \* what a call does
    IdsOf,     \* the rows it is about; for a clean-up or a recovery, those that
               \* have no contract or started long enough ago
    StatusOf,  \* the status an update writes
    KeyOf      \* the dedup_key and tenant of a task; a task with none has its own

VARIABLES
    table,     \* the rows
    done       \* the calls that have taken effect

Kinds    == {"add", "update", "claim", "delete", "cleanup", "recover"}
Statuses == {"pending", "running", "completed", "failed"}

\* A row is its status and the calls that have left their mark on it.
Absent == [status |-> "absent", marks |-> {}]
Rows   == [status : Statuses, marks : SUBSET Ops] \cup {Absent}
Tables == [Ids -> Rows]

Present(T) == {i \in Ids : T[i].status # "absent"}

\* add with a dedup_key returns the task that is still under way with that key.
UnderWay(T, i) == \E j \in Ids : KeyOf[j] = KeyOf[i] /\ T[j].status \in {"pending", "running"}

Mark(row, o, status) == [status |-> status, marks |-> row.marks \cup {o}]

\* What the six calls make of row i of table T.
Added(o, T, i) ==
    IF i \in Present(T) \/ UnderWay(T, i) THEN T[i] ELSE Mark(Absent, o, "pending")
Updated(o, T, i)   == IF i \in Present(T) THEN Mark(T[i], o, StatusOf[o]) ELSE T[i]
Claimed(o, T, i)   == IF T[i].status = "pending" THEN Mark(T[i], o, "running") ELSE T[i]
Deleted(T, i)      == Absent
CleanedUp(T, i)    == IF T[i].status = "failed" THEN Absent ELSE T[i]
Recovered(o, T, i) == IF T[i].status = "running" THEN Mark(T[i], o, "pending") ELSE T[i]

Changed(o, T, i) ==
    CASE KindOf[o] = "add"     -> Added(o, T, i)
      [] KindOf[o] = "update"  -> Updated(o, T, i)
      [] KindOf[o] = "claim"   -> Claimed(o, T, i)
      [] KindOf[o] = "delete"  -> Deleted(T, i)
      [] KindOf[o] = "cleanup" -> CleanedUp(T, i)
      [] KindOf[o] = "recover" -> Recovered(o, T, i)

Effect(o, T) == [i \in Ids |-> IF i \in IdsOf[o] THEN Changed(o, T, i) ELSE T[i]]

Init ==
    /\ table = [i \in Ids |-> Absent]
    /\ done = {}

Call(o) ==
    /\ o \notin done
    /\ table' = Effect(o, table)
    /\ done' = done \cup {o}

Next == \E o \in Ops : Call(o)

Spec == Init /\ [][Next]_<<table, done>>
=============================================================================
