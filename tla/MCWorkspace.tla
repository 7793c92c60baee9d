----------------------------- MODULE MCWorkspace -----------------------------
\* An operator of one tenant and an administrator of another.
EXTENDS Workspace

CONSTANTS a1, a2

MCTenantOf == a1 :> "t1" @@ a2 :> "t2"
MCRolesOf  == a1 :> {"operator"} @@ a2 :> {"admin"}
=============================================================================
