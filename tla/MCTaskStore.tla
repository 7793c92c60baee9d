----------------------------- MODULE MCTaskStore -----------------------------
EXTENDS TaskStore

CONSTANTS a, b, c, A, B, web, worker, h1, h2, h3

\* Tasks a and b have the same dedup_key; a and b are tenant A's, c is B's.
MCKeyOf    == [i \in Ids |-> IF i = c THEN "c" ELSE "ab"]
MCOwnerOf == [i \in Ids |-> IF i = c THEN B ELSE A]

MCKindOf == [o \in Ops |->
    CASE o \in {"add a", "add b", "add c"} -> "add"
      [] o \in {"fail a", "finish b", "run c"} -> "update"
      [] o \in {"claim a", "claim b"} -> "claim"
      [] o \in {"delete a", "delete c"} -> "delete"
      [] o = "clean up" -> "cleanup"
      [] OTHER -> "recover"]
MCIdsOf == [o \in Ops |->
    CASE o \in {"add a", "fail a", "claim a", "delete a"} -> {a}
      [] o \in {"add b", "finish b", "claim b"} -> {b} \cap Ids
      [] o \in {"add c", "run c", "delete c"} -> {c} \cap Ids
      [] OTHER -> Ids]
MCStatusOf == [o \in Ops |->
    CASE o = "fail a" -> "failed" [] o = "finish b" -> "completed" [] OTHER -> "running"]

MCOneProcess == [h \in Threads |-> web]
MCProcesses  == [h \in Threads |-> IF h = h1 THEN web ELSE worker]
=============================================================================
