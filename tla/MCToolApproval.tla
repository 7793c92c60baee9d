--------------------------- MODULE MCToolApproval ---------------------------
EXTENDS ToolApproval

CONSTANTS write, save, lookup, ann, bob, A, B, web, worker, h1, h2

\* Ann asks to write outside and to save a file, bob to look something up.
MCUserOf   == [r \in Requests |-> IF r = lookup THEN bob ELSE ann]
MCTenantOf == [r \in Requests |-> A]
MCAccessOf == [r \in Requests |->
    CASE r = write -> "external_write" [] r = save -> "local_write" [] OTHER -> "read"]

MCOneProcess == [h \in Threads |-> web]
MCProcesses  == [h \in Threads |-> IF h = h1 THEN web ELSE worker]
=============================================================================
