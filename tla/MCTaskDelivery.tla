--------------------------- MODULE MCTaskDelivery ---------------------------
EXTENDS TaskDelivery

CONSTANTS t1, t2, k1

\* t1 has high priority and its own business key; t2 is a plain task.
MCKeyOf       == [t \in Tasks |-> IF t = t1 THEN k1 ELSE NoKey]
MCSameKey     == [t \in Tasks |-> k1]
MCMaxAttempts == [t \in Tasks |-> IF t = t1 THEN 2 ELSE 1]
=============================================================================
