---------------------------- MODULE TaskLifecycle ---------------------------
(***************************************************************************)
(* What the task queue promises to the user who submits a review: a task   *)
(* that has been accepted is open until its review succeeds, or it is      *)
(* parked among the dead letters, where the operator can open it again, or *)
(* it is deleted.  There is no way to leave "open" without an outcome.     *)
(***************************************************************************)
CONSTANT Tasks
VARIABLE phase

Phases == {"new", "open", "done", "parked", "deleted"}

TypeOK == phase \in [Tasks -> Phases]

Init == phase = [t \in Tasks |-> "new"]

Move(t, from, to) == phase[t] \in from /\ phase' = [phase EXCEPT ![t] = to]

Submit(t) == Move(t, {"new"}, "open")
Succeed(t) == Move(t, {"open"}, "done")
Park(t)   == Move(t, {"open"}, "parked")
Reopen(t) == Move(t, {"parked"}, "open")
Remove(t) == Move(t, {"open", "done", "parked"}, "deleted")

Next == \E t \in Tasks : Submit(t) \/ Succeed(t) \/ Park(t) \/ Reopen(t) \/ Remove(t)

\* An open task gets its outcome, whatever happens to the other tasks.
Spec == /\ Init /\ [][Next]_phase
        /\ \A t \in Tasks : WF_phase(Succeed(t) \/ Park(t))
=============================================================================
