---------------------------- MODULE MCEventStream ----------------------------
(* EventStream with subscribers of one tenant, and events of two. *)
EXTENDS EventStream

MCTenants  == {"A", "B"}
MCTenantOf == [s \in Subscribers |-> "A"]
==============================================================================
