--------------------------- MODULE ApprovalLedger ---------------------------
(***************************************************************************)
(* What the approval ledger of governance/tool_policy.py promises: a       *)
(* request is decided once, and an approved one is spent once or lapses.   *)
(***************************************************************************)
CONSTANT Ids
VARIABLES phase, granted

Phases == {"none", "pending", "approved", "rejected", "consumed", "expired"}

Init == phase = [i \in Ids |-> "none"] /\ granted = [i \in Ids |-> 0]

Move(i, from, to) == phase[i] = from /\ phase' = [phase EXCEPT ![i] = to]

Ask(i)     == Move(i, "none", "pending") /\ UNCHANGED granted
Approve(i) == Move(i, "pending", "approved") /\ UNCHANGED granted
Reject(i)  == Move(i, "pending", "rejected") /\ UNCHANGED granted
Lapse(i)   == Move(i, "approved", "expired") /\ UNCHANGED granted
Spend(i)   == /\ Move(i, "approved", "consumed")
              /\ granted' = [granted EXCEPT ![i] = 1]

Next == \E i \in Ids : Ask(i) \/ Approve(i) \/ Reject(i) \/ Lapse(i) \/ Spend(i)

Spec == Init /\ [][Next]_<<phase, granted>>
=============================================================================
