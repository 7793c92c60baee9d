------------------------- MODULE TaskDeliveryProofs -------------------------
(***************************************************************************)
(* Proofs about TaskDelivery, for any tasks, workers, attempts and bounds. *)
(***************************************************************************)
EXTENDS TaskDelivery, TLAPS

(***************************************************************************)
(* At-least-once delivery holds under two conditions.  Nothing goes wrong  *)
(* half way through bus.publish, where a key can stay set with no message  *)
(* behind it; and no two tasks ever share a business key.  Workers may     *)
(* crash or be slow at any step, acknowledgements may fail, keys may       *)
(* expire, Redis may refuse a producer, and dead letters may be sent again.*)
(***************************************************************************)
PublishIsSound ==
    Kinds \cap {"sweep_refused", "lost_reply", "publish_crash", "slow_publish"} = {}
OwnKeys ==
    \A t, u \in Tasks : KeyOf[t] = KeyOf[u] /\ KeyOf[t] # NoKey => t = u

-----------------------------------------------------------------------------
(* The strengthening of NoTaskLost.  A task is rescued once there is an    *)
(* outcome or an entry for it; a rescued task stays rescued.               *)

\* The task has an outcome, or an entry younger than i.
RescuedAfter(t, i) ==
    \/ t \in succeeded
    \/ store[t].status = "deleted"
    \/ \E j \in Ids : j > i /\ entry[j].task = t

Rescued(t) == RescuedAfter(t, 0) \/ SweepAdds(t)

EntriesInv ==
    \A i \in Ids : i >= nextId => entry[i] = Unused

\* A worker's message is the entry it was made from, as long as that lasts.
WorkerInv(w) ==
    /\ wpc[w] \in {"idle", "sweep"} => wmsg[w] = NoMsg
    /\ wpc[w] \in Handling =>
         /\ wmsg[w].id \in 1 .. (nextId - 1)
         /\ entry[wmsg[w].id].task \in {wmsg[w].task, NoTask}
         /\ Rescued(wmsg[w].task)
    /\ wpc[w] = "acking" => wmsg[w].task \in succeeded
    /\ wpc[w] \in {"ackRequeued", "ackDead"} => RescuedAfter(wmsg[w].task, wmsg[w].id)
    /\ wpc[w] \in {"sweepPublished", "sweepDeduplicated"} => Rescued(wmsg[w].task)
    /\ wpc[w] \notin {"idle", "sweep"} => ppc[wmsg[w].task] \in {"published", "done"}
    /\ wpc[w] \in Sweeping => \A t \in wsnap[w] : ppc[t] = "done"

ResendInv ==
    resending # 0 =>
      /\ resending < nextId
      /\ entry[resending].task \in Tasks => RescuedAfter(entry[resending].task, resending)

\* Nobody but its producer knows a task whose publish has not succeeded yet.
TaskInv(t) ==
    /\ ppc[t] \notin {"deduplicated", "dead"}
    /\ t \in aged => ppc[t] = "done"
    /\ store[t].status = "absent" <=> ppc[t] = "none"
    /\ store[t].status = "completed" => t \in succeeded
    /\ ppc[t] \in {"none", "error"} \cup Publishing =>
         /\ \A i \in Ids : entry[i].task # t
         /\ store[t].status \in {"absent", "pending", "deleted"}
         /\ store[t].queue = "none"
         /\ t \in dedup => ppc[t] = "adding"
    /\ ppc[t] \in {"none", "saved"} => KeyOf[t] \notin dedup
    /\ ppc[t] = "published" => Rescued(t)
    /\ ppc[t] = "done" => Rescued(t) \/ Sweepable(t)
    /\ t \in dedup /\ ppc[t] # "adding" => Rescued(t)

IInv ==
    /\ TypeOK
    /\ EntriesInv
    /\ \A w \in Workers : WorkerInv(w)
    /\ ResendInv
    /\ \A t \in Tasks : TaskInv(t)

-----------------------------------------------------------------------------
(* Type correctness.                                                       *)

LEMMA TypeInit == Init => TypeOK
  BY DeliveryAssumption DEF Init, TypeOK, Entries, Messages, Unused, NoMsg, Ids, Keys,
     EntriesTyped, Live,      Rows, Statuses, Outbox

LEMMA UpdateType ==
  ASSUME TypeOK, NEW t, NEW row, t \in Tasks => row \in Rows, UpdateTask(t, row)
  PROVE  store' \in [Tasks -> Rows]
  BY DEF TypeOK, UpdateTask

LEMMA XaddType ==
  ASSUME TypeOK, NEW t \in Tasks, NEW n \in Nat,
         NEW s \in {"fresh", "dlq"}, Xadd(t, n, s)
  PROVE  EntriesTyped' /\ nextId' \in 1 .. (MaxEntries + 1)
  BY DeliveryAssumption DEF TypeOK, EntriesTyped, Xadd, Entries, Ids, Live

LEMMA ForgetType ==
  ASSUME TypeOK, NEW i, Forget(i)
  PROVE  EntriesTyped'
  BY DeliveryAssumption DEF TypeOK, EntriesTyped, Forget, Gone, Unused, Entries, Live

LEMMA IncidentType ==
  ASSUME TypeOK, NEW kind, Incident(kind)
  PROVE  incidents' \in 0 .. MaxIncidents
  BY DeliveryAssumption DEF TypeOK, Incident

LEMMA TypeStep == TypeOK /\ [Next]_vars => TypeOK'
<1> SUFFICES ASSUME TypeOK, [Next]_vars PROVE TypeOK'
  OBVIOUS
<1> USE DEF TypeOK, EntriesTyped
<1>1. ASSUME NEW t \in Tasks, Add(t) PROVE TypeOK'
  BY <1>1 DEF Add, redisVars, workerVars, Rows, Statuses, Publishing, Reporting
<1>2. ASSUME NEW t \in Tasks, ClaimBizKey(t) PROVE TypeOK'
  BY <1>2, DeliveryAssumption DEF ClaimBizKey, workerVars, Keys, Publishing, Reporting
<1>3. ASSUME NEW t \in Tasks, ClaimTaskKey(t) PROVE TypeOK'
  BY <1>3 DEF ClaimTaskKey, workerVars, Keys, Publishing, Reporting
<1>4. ASSUME NEW t \in Tasks, AddEntry(t) PROVE TypeOK'
  <2>1. EntriesTyped' /\ nextId' \in 1 .. (MaxEntries + 1)
    BY <1>4, XaddType DEF AddEntry, Entries, Messages
  <2> QED BY <1>4, <2>1 DEF AddEntry, workerVars, Ids, Publishing, Reporting
<1>5. ASSUME NEW t \in Tasks, Report(t) PROVE TypeOK'
  <2>1. store' \in [Tasks -> Rows]
    BY <1>5, UpdateType DEF Report, Rows, Statuses, Outbox, Messages, Reporting
  <2> QED BY <1>5, <2>1 DEF Report, redisVars, workerVars, Publishing, Reporting
<1>6. ASSUME NEW t \in Tasks, ClaimError(t) PROVE TypeOK'
  <2>1. incidents' \in 0 .. MaxIncidents
    BY <1>6, IncidentType DEF ClaimError
  <2> QED BY <1>6, <2>1, DeliveryAssumption DEF ClaimError, workerVars, Keys,
       Publishing, Reporting
<1>7. ASSUME NEW t \in Tasks, AddError(t) PROVE TypeOK'
  <2>1. EntriesTyped' /\ nextId' \in 1 .. (MaxEntries + 1)
    BY <1>7, XaddType DEF AddError, Entries, Messages
  <2>2. incidents' \in 0 .. MaxIncidents
    BY <1>7, IncidentType DEF AddError
  <2> QED BY <1>7, <2>1, <2>2, DeliveryAssumption DEF AddError, workerVars, Ids, Keys,
       Publishing, Reporting
<1>8. ASSUME NEW t \in Tasks, ProducerCrash(t) PROVE TypeOK'
  <2>1. incidents' \in 0 .. MaxIncidents
    BY <1>8, IncidentType DEF ProducerCrash
  <2> QED BY <1>8, <2>1 DEF ProducerCrash, redisVars, workerVars, Publishing,
       Reporting
<1>9. ASSUME NEW t \in Tasks, Delete(t) PROVE TypeOK'
  BY <1>9 DEF Delete, redisVars, workerVars, Rows, Statuses
<1>10. ASSUME NEW t \in Tasks, Age(t) PROVE TypeOK'
  <2>1. incidents' \in 0 .. MaxIncidents
    BY <1>10, IncidentType DEF Age
  <2> QED BY <1>10, <2>1 DEF Age, redisVars, workerVars
<1>11. ASSUME NEW w \in Workers, ClaimStale(w) PROVE TypeOK'
  BY <1>11 DEF ClaimStale, Receive, Goto, MaxOf, InState, Oldest, OnHigh, OnNormal,
     Ids, Entries, Messages, Handling, Sweeping
<1>12. ASSUME NEW w \in Workers, ReadNew(w) PROVE TypeOK'
  <2> DEFINE fresh == InState("fresh")
             delivered == Oldest(OnHigh(fresh)) \cup Oldest(OnNormal(fresh))
  <2>1. \A i \in delivered : i \in Ids /\ entry[i].state = "fresh"
    BY DEF InState, Oldest, OnHigh, OnNormal
  <2>2. entry' = [i \in Ids |->
           IF i \in delivered THEN [entry[i] EXCEPT !.state = "pending", !.times = 1]
                              ELSE entry[i]]
    BY <1>12 DEF ReadNew
  <2>3. PICK i \in delivered : Receive(w, i, entry[i].attempts)
    BY <1>12 DEF ReadNew
  <2> HIDE DEF delivered
  <2>4. EntriesTyped'
    <3>1. ASSUME NEW e \in Entries PROVE [e EXCEPT !.state = "pending", !.times = 1] \in Entries
      BY DEF Entries, Live
    <3>2. ASSUME NEW e \in Entries PROVE [e EXCEPT !.state = "pending", !.times = 1].task = e.task
      BY DEF Entries
    <3>3. ASSUME NEW e \in Entries PROVE [e EXCEPT !.state = "pending", !.times = 1].state = "pending"
      BY DEF Entries
    <3>4. \A k \in Ids : entry[k] \in Entries
      OBVIOUS
    <3>5. entry' \in [Ids -> Entries]
      BY <2>2, <3>1, <3>4
    <3>6. ASSUME NEW k \in Ids PROVE entry'[k].state \in Live <=> entry'[k].task \in Tasks
      <4>1. CASE k \in delivered
        BY <2>1, <2>2, <3>2, <3>3, <3>4, <4>1 DEF Live
      <4>2. CASE k \notin delivered
        BY <2>2, <4>2
      <4> QED BY <4>1, <4>2
    <3> QED BY <3>5, <3>6
  <2>5. /\ wmsg' \in [Workers -> Messages] /\ wpc' = [wpc EXCEPT ![w] = "got"]
        /\ wmsg'[w].task \in Tasks /\ \A v \in Workers \ {w} : wmsg'[v] = wmsg[v]
    BY <2>1, <2>3 DEF Receive, Goto, Entries, Messages, Live
  <2> QED BY <1>12, <2>4, <2>5 DEF ReadNew, Handling
<1>13. ASSUME NEW w \in Workers, Lookup(w) PROVE TypeOK'
  <2>1. CASE UNCHANGED <<entry, wmsg>> /\ Goto(w, "start")
    BY <1>13, <2>1, SMTT(20) DEF Lookup, Goto, Handling
  <2>2. CASE Forget(wmsg[w].id) /\ Finish(w)
    <3>1. EntriesTyped'
      BY <2>2, ForgetType
    <3> QED BY <1>13, <2>2, <3>1 DEF Lookup, Finish, Goto, NoMsg, Messages
  <2> QED BY <1>13, <2>1, <2>2 DEF Lookup
<1>14. ASSUME NEW w \in Workers, Start(w) PROVE TypeOK'
  <2>1. store' \in [Tasks -> Rows]
    <3> DEFINE m == wmsg[w]
    <3>1. m.task \in Tasks =>
            [store[m.task] EXCEPT !.status = "running", !.attempts = m.attempts] \in Rows
      BY DEF Rows, Statuses, Messages
    <3> QED BY <1>14, <3>1, UpdateType DEF Start
  <2> QED BY <1>14, <2>1, SMTT(20) DEF Start, Goto, redisVars, Handling, Sweeping
<1>15. ASSUME NEW w \in Workers, Review(w) PROVE TypeOK'
  BY <1>15 DEF Review, Goto, redisVars, Handling, Sweeping
<1>16. ASSUME NEW w \in Workers, Complete(w) PROVE TypeOK'
  <2>1. store' \in [Tasks -> Rows]
    <3>1. wmsg[w].task \in Tasks => [store[wmsg[w].task] EXCEPT !.status = "completed"] \in Rows
      BY DEF Rows, Statuses
    <3> QED BY <1>16, <3>1, UpdateType DEF Complete
  <2> QED BY <1>16, <2>1 DEF Complete, Goto, redisVars, Handling, Sweeping
<1>17. ASSUME NEW w \in Workers, Ack(w) PROVE TypeOK'
  <2>1. EntriesTyped'
    BY <1>17, ForgetType DEF Ack
  <2> QED BY <1>17, <2>1 DEF Ack, Finish, Goto, NoMsg, Ids, Messages, Handling,
       Sweeping
<1>18. ASSUME NEW w \in Workers, Fail(w) PROVE TypeOK'
  <2>1. EntriesTyped' /\ nextId' \in 1 .. (MaxEntries + 1)
    <3>1. wmsg[w].task \in Tasks /\ wmsg[w].attempts \in Nat
      BY <1>18 DEF Fail, Messages
    <3> QED BY <1>18, <3>1, XaddType DEF Fail
  <2> QED BY <1>18, <2>1 DEF Fail, Goto, Ids, Handling, Sweeping
<1>19. ASSUME NEW w \in Workers, FailAck(w) PROVE TypeOK'
  <2>1. EntriesTyped'
    BY <1>19, ForgetType DEF FailAck
  <2> QED BY <1>19, <2>1 DEF FailAck, Goto, Ids, Handling, Sweeping
<1>20. ASSUME NEW w \in Workers, WriteBack(w) PROVE TypeOK'
  <2>1. store' \in [Tasks -> Rows]
    BY <1>20, UpdateType DEF WriteBack, Rows, Statuses, Outbox, Messages
  <2> QED BY <1>20, <2>1 DEF WriteBack, Finish, Goto, NoMsg, redisVars, Ids, Messages,
       Entries, Handling, Sweeping
<1>21. ASSUME NEW w \in Workers, BeginSweep(w) PROVE TypeOK'
  BY <1>21 DEF BeginSweep, Goto, InState, Unpublished, redisVars, Handling, Sweeping
<1>22. ASSUME NEW w \in Workers, SweepClaim(w) PROVE TypeOK'
  BY <1>22 DEF SweepClaim, Goto, NoMsg, Ids, Messages, Entries, Keys, Handling,
     Sweeping
<1>23. ASSUME NEW w \in Workers, SweepAdd(w) PROVE TypeOK'
  <2>1. EntriesTyped' /\ nextId' \in 1 .. (MaxEntries + 1)
    BY <1>23, XaddType DEF SweepAdd, Entries, Messages
  <2> QED BY <1>23, <2>1 DEF SweepAdd, Goto, Ids, Handling, Sweeping
<1>24. ASSUME NEW w \in Workers, SweepReport(w) PROVE TypeOK'
  <2>1. store' \in [Tasks -> Rows]
    BY <1>24, UpdateType DEF SweepReport, Rows, Statuses, Outbox, Messages
  <2> QED BY <1>24, <2>1 DEF SweepReport, Goto, NoMsg, redisVars, Ids, Messages,
       Entries, Handling, Sweeping
<1>25. ASSUME NEW w \in Workers, AckError(w) PROVE TypeOK'
  <2>1. EntriesTyped'
    BY <1>25, ForgetType DEF AckError
  <2>2. incidents' \in 0 .. MaxIncidents
    BY <1>25, IncidentType DEF AckError
  <2> QED BY <1>25, <2>1, <2>2 DEF AckError, Goto, Ids, Handling, Sweeping
<1>26. ASSUME NEW w \in Workers, WorkerCrash(w) PROVE TypeOK'
  <2>1. incidents' \in 0 .. MaxIncidents
    BY <1>26, IncidentType DEF WorkerCrash
  <2> QED BY <1>26, <2>1 DEF WorkerCrash, Finish, Goto, NoMsg, redisVars, Ids,
       Messages, Entries, Handling, Sweeping
<1>27. ASSUME NEW w \in Workers, SweepAddError(w) PROVE TypeOK'
  <2>1. EntriesTyped' /\ nextId' \in 1 .. (MaxEntries + 1)
    BY <1>27, XaddType DEF SweepAddError, Entries, Messages
  <2>2. incidents' \in 0 .. MaxIncidents
    BY <1>27, IncidentType DEF SweepAddError
  <2> QED BY <1>27, <2>1, <2>2 DEF SweepAddError, Finish, Goto, NoMsg, Ids, Messages,
       Keys, Handling, Sweeping
<1>28. ASSUME NEW w \in Workers, SweepCrash(w) PROVE TypeOK'
  <2>1. incidents' \in 0 .. MaxIncidents
    BY <1>28, IncidentType DEF SweepCrash
  <2> QED BY <1>28, <2>1 DEF SweepCrash, Finish, Goto, NoMsg, redisVars, Ids,
       Messages, Entries, Handling, Sweeping
<1>29. ASSUME NEW i \in Ids, Resend(i) PROVE TypeOK'
  <2>1. EntriesTyped' /\ nextId' \in 1 .. (MaxEntries + 1)
    <3>1. entry[i].task \in Tasks
      BY <1>29 DEF Resend, InState, Live
    <3> QED BY <1>29, <3>1, XaddType DEF Resend
  <2>2. incidents' \in 0 .. MaxIncidents
    BY <1>29, IncidentType DEF Resend
  <2> QED BY <1>29, <2>1, <2>2 DEF Resend, InState, workerVars, Ids
<1>30. ASSUME NEW i \in Ids, GoStale(i) PROVE TypeOK'
  BY <1>30 DEF GoStale, workerVars, Entries, Live
<1>31. ASSUME NEW i \in Ids, Outlive(i) PROVE TypeOK'
  <2>1. incidents' \in 0 .. MaxIncidents
    BY <1>31, IncidentType DEF Outlive
  <2> QED BY <1>31, <2>1 DEF Outlive, workerVars, Entries, Live
<1>32. CASE DropDeadLetter
  <2>1. EntriesTyped'
    BY <1>32, ForgetType DEF DropDeadLetter
  <2> QED BY <1>32, <2>1 DEF DropDeadLetter, workerVars, Ids
<1>33. CASE ResendCrash
  <2>1. incidents' \in 0 .. MaxIncidents
    BY <1>33, IncidentType DEF ResendCrash
  <2> QED BY <1>33, <2>1 DEF ResendCrash, redisVars, workerVars, Ids
<1>34. ASSUME NEW k \in Keys, ExpireKey(k) PROVE TypeOK'
  <2>1. incidents' \in 0 .. MaxIncidents
    BY <1>34, IncidentType DEF ExpireKey
  <2> QED BY <1>34, <2>1 DEF ExpireKey, workerVars, Keys
<1>35. CASE UNCHANGED vars
  BY <1>35 DEF vars
<1> QED BY <1>1, <1>2, <1>3, <1>4, <1>5, <1>6, <1>7, <1>8, <1>9, <1>10, <1>11,
     <1>12, <1>13, <1>14, <1>15, <1>16, <1>17, <1>18, <1>19, <1>20, <1>21, <1>22,
     <1>23, <1>24, <1>25, <1>26, <1>27, <1>28, <1>29, <1>30, <1>31, <1>32, <1>33,
     <1>34, <1>35 DEF Next, Produce, Work

\* Every variable always holds a value of its type.
THEOREM TypeCorrect == Spec => []TypeOK
  BY TypeInit, TypeStep, PTL DEF Spec

-----------------------------------------------------------------------------
(* What no step takes back.  The invariants of the tasks and workers that  *)
(* a step does not touch follow from Progress alone (the frame lemmas).    *)

Evolves ==
    /\ EntriesInv'
    /\ nextId' \in Nat /\ nextId <= nextId'
    /\ \A i \in 1 .. (nextId - 1) : entry'[i].task \in {entry[i].task, NoTask}
    /\ \A t \in Tasks : \A i \in Nat : RescuedAfter(t, i) => RescuedAfter(t, i)'

Progress ==
    /\ Evolves
    /\ succeeded \subseteq succeeded'
    /\ \A t \in Tasks : /\ Rescued(t) => Rescued(t)'
                        /\ ppc[t] = "done" => ppc'[t] = "done"
                        /\ ppc[t] = "published" => ppc'[t] \in {"published", "done"}

\* Worker w is the only one that moves.
Moves(w) == \A v \in Workers \ {w} :
    wpc'[v] = wpc[v] /\ wmsg'[v] = wmsg[v] /\ wsnap'[v] = wsnap[v]

LEMMA WorkerFrame ==
  ASSUME NEW v \in Workers, TypeOK, WorkerInv(v), Progress,
         wpc'[v] = wpc[v], wmsg'[v] = wmsg[v], wsnap'[v] = wsnap[v]
  PROVE  WorkerInv(v)'
  <1>1. wpc[v] \notin {"idle", "sweep"} => wmsg[v].task \in Tasks
    BY DEF TypeOK
  <1>2. wmsg[v].id \in Nat /\ nextId \in Nat /\ nextId' \in Nat /\ nextId' >= nextId
    BY DeliveryAssumption DEF TypeOK, Messages, Ids, Progress, Evolves
  <1>3. wsnap[v] \subseteq Tasks
    BY DEF TypeOK
  <1>4. wpc[v] \in Handling \/ wpc[v] \in {"ackRequeued", "ackDead", "acking", "sweepPublished", "sweepDeduplicated"}
            => wpc[v] \notin {"idle", "sweep"}
    BY DEF Handling
  <1>5. ASSUME wpc[v] \in Handling
        PROVE  /\ wmsg[v].id \in 1 .. (nextId' - 1)
               /\ entry'[wmsg[v].id].task \in {wmsg[v].task, NoTask}
               /\ Rescued(wmsg[v].task)'
    <2>1. wmsg[v].id \in 1 .. (nextId - 1) /\ entry[wmsg[v].id].task \in {wmsg[v].task, NoTask}
      BY <1>5 DEF WorkerInv
    <2>2. Rescued(wmsg[v].task)'
      BY <1>1, <1>4, <1>5 DEF WorkerInv, Progress, Evolves
    <2>3. entry'[wmsg[v].id].task \in {entry[wmsg[v].id].task, NoTask}
      BY <2>1 DEF Progress, Evolves
    <2>4. wmsg[v].id \in 1 .. (nextId' - 1)
      BY <1>2, <2>1
    <2> QED BY <2>1, <2>2, <2>3, <2>4
  <1> QED
    BY <1>1, <1>2, <1>3, <1>4, <1>5 DEF WorkerInv, Progress, Evolves

LEMMA ResendFrame ==
  ASSUME TypeOK, ResendInv, Progress, resending' = resending
  PROVE  ResendInv'
  <1> SUFFICES ASSUME NEW r \in 1 .. (nextId - 1), r = resending, r # 0 PROVE ResendInv'
    BY DeliveryAssumption DEF TypeOK, ResendInv, Ids
  <1>1. r \in Nat /\ nextId \in Nat /\ r < nextId'
    BY DeliveryAssumption DEF TypeOK, Progress, Evolves
  <1>2. entry'[r].task \in {entry[r].task, NoTask}
    BY DEF Progress, Evolves
  <1>3. ASSUME NEW t \in Tasks, entry'[r].task = t PROVE RescuedAfter(t, r)'
    <2>1. entry[r].task = t
      BY <1>2, <1>3, DeliveryAssumption
    <2>2. RescuedAfter(t, r)
      BY <2>1 DEF ResendInv
    <2> QED BY <1>1, <2>2 DEF Progress, Evolves
  <1> QED
    BY <1>1, <1>3 DEF ResendInv

LEMMA TaskFrame ==
  ASSUME NEW t \in Tasks, TypeOK, TaskInv(t), Progress,
         ppc'[t] = ppc[t], store'[t] = store[t], t \in aged' => t \in aged,
         t \in dedup' => t \in dedup, KeyOf[t] \in dedup' => KeyOf[t] \in dedup,
         ppc[t] \in {"none", "error"} \cup Publishing => \A i \in Ids : entry'[i].task # t
  PROVE  TaskInv(t)'
  BY DEF TaskInv, Progress, Sweepable

\* A task that has been published satisfies its invariant because it is rescued.
LEMMA TaskRescued ==
  ASSUME NEW t \in Tasks, TaskInv(t), ppc[t] \in {"published", "done"},
         ppc'[t] = ppc[t], t \in aged' => t \in aged, Rescued(t)',
         store'[t].status # "absent", store'[t].status = "completed" => t \in succeeded'
  PROVE  TaskInv(t)'
  BY DEF TaskInv, Publishing

-----------------------------------------------------------------------------
(* The three ways in which a step touches the streams.                     *)

LEMMA SameEntries ==
  ASSUME TypeOK, EntriesInv, succeeded \subseteq succeeded', nextId' = nextId,
         \A t \in Tasks : store[t].status = "deleted" => store'[t].status = "deleted",
         \A i \in Ids : /\ entry'[i].task = entry[i].task
                        /\ entry[i] = Unused => entry'[i] = entry[i]
  PROVE  Evolves
  <1>1. nextId \in Nat /\ \A i \in 1 .. (nextId - 1) : i \in Ids
    BY DeliveryAssumption DEF TypeOK, Ids
  <1>2. EntriesInv'
    BY DEF EntriesInv
  <1>3. \A t \in Tasks : \A i \in Nat : RescuedAfter(t, i) => RescuedAfter(t, i)'
    BY DEF RescuedAfter
  <1> QED BY <1>1, <1>2, <1>3 DEF Evolves

LEMMA XaddEntries ==
  ASSUME TypeOK, EntriesInv, NEW u \in Tasks, NEW n, NEW s, Xadd(u, n, s),
         succeeded \subseteq succeeded',
         \A t \in Tasks : store[t].status = "deleted" => store'[t].status = "deleted"
  PROVE  /\ Evolves
         /\ \A i \in Ids : entry'[i].task \in {entry[i].task, u}
         /\ \A i \in Nat : i < nextId => RescuedAfter(u, i)'
  <1>1. nextId \in Ids /\ nextId \in Nat /\ Ids \subseteq Nat
    BY DeliveryAssumption DEF Xadd, Ids
  <1>2. entry' = [entry EXCEPT ![nextId] =
                    [task |-> u, attempts |-> n, times |-> 0, state |-> s]]
        /\ nextId' = nextId + 1
    BY DEF Xadd
  <1>3. entry[nextId].task = NoTask /\ NoTask \notin Tasks
    BY <1>1, DeliveryAssumption DEF EntriesInv, Unused
  <1>4. entry \in [Ids -> Entries]
    BY DEF TypeOK, EntriesTyped
  <1>5. \A i \in Ids \ {nextId} : entry'[i] = entry[i]
    BY <1>2, <1>4
  <1>6. entry'[nextId].task = u
    BY <1>1, <1>2, <1>4
  <1>7. EntriesInv'
    <2>1. SUFFICES ASSUME NEW i \in Ids, i >= nextId'
                   PROVE  entry'[i] = Unused
      BY Zenon DEF EntriesInv
    <2>2. i # nextId /\ i >= nextId
      BY <1>1, <1>2, <2>1
    <2>3. entry[i] = Unused
      BY <2>2 DEF EntriesInv
    <2> QED BY <1>5, <2>2, <2>3
  <1>8. \A t \in Tasks : \A i \in Nat : RescuedAfter(t, i) => RescuedAfter(t, i)'
    BY <1>1, <1>3, <1>5 DEF RescuedAfter
  <1>9. \A i \in Nat : i < nextId => RescuedAfter(u, i)'
    BY <1>1, <1>6 DEF RescuedAfter
  <1>10. \A i \in 1 .. (nextId - 1) : i \in Ids \ {nextId}
    BY <1>1, DeliveryAssumption DEF Ids
  <1>11. Evolves
    BY <1>1, <1>2, <1>5, <1>7, <1>8, <1>10 DEF Evolves
  <1> QED BY <1>5, <1>6, <1>9, <1>11

LEMMA ForgetEntries ==
  ASSUME TypeOK, EntriesInv, NEW x \in 1 .. (nextId - 1), Forget(x), nextId' = nextId,
         entry[x].task \in Tasks => RescuedAfter(entry[x].task, x),
         succeeded \subseteq succeeded',
         \A t \in Tasks : store[t].status = "deleted" => store'[t].status = "deleted"
  PROVE  /\ Evolves
         /\ \A i \in Ids : entry'[i].task \in {entry[i].task, NoTask}
  <1>1. x \in Ids /\ x \in Nat /\ Ids \subseteq Nat /\ nextId \in Nat /\ nextId - 1 <= MaxEntries
    BY DeliveryAssumption DEF TypeOK, Ids
  <1>2. entry'[x].task = NoTask /\ \A j \in Ids \ {x} : entry'[j] = entry[j]
    BY <1>1 DEF Forget, Gone, Unused, TypeOK, EntriesTyped
  <1>3. EntriesInv'
    <2>1. SUFFICES ASSUME NEW i \in Ids, i >= nextId'
                   PROVE  entry'[i] = Unused
      BY Zenon DEF EntriesInv
    <2>2. i # x /\ i >= nextId
      BY <1>1, <2>1
    <2>3. entry[i] = Unused
      BY <2>2 DEF EntriesInv
    <2> QED BY <1>2, <2>2, <2>3
  <1>4. ASSUME NEW t \in Tasks, NEW i \in Nat, RescuedAfter(t, i) PROVE RescuedAfter(t, i)'
    <2>1. CASE t \in succeeded \/ store[t].status = "deleted"
      BY <2>1 DEF RescuedAfter
    <2>2. CASE \E j \in Ids : j > i /\ entry[j].task = t
      <3>1. PICK j \in Ids : j > i /\ entry[j].task = t
        BY <2>2
      <3>2. CASE j # x
        BY <1>2, <3>1, <3>2 DEF RescuedAfter
      <3>3. CASE j = x
        <4>1. RescuedAfter(t, x)
          BY <3>1, <3>3
        <4>2. CASE t \in succeeded \/ store[t].status = "deleted"
          BY <4>2 DEF RescuedAfter
        <4>3. CASE \E k \in Ids : k > x /\ entry[k].task = t
          BY <1>1, <1>2, <3>1, <3>3, <4>3 DEF RescuedAfter
        <4> QED BY <4>1, <4>2, <4>3 DEF RescuedAfter
      <3> QED BY <3>2, <3>3
    <2> QED BY <1>4, <2>1, <2>2 DEF RescuedAfter
  <1>5. \A i \in Ids : entry'[i].task \in {entry[i].task, NoTask}
    BY <1>2
  <1>6. \A i \in 1 .. (nextId - 1) : i \in Ids
    BY <1>1, DeliveryAssumption DEF Ids
  <1>7. Evolves
    BY <1>1, <1>3, <1>4, <1>5, <1>6 DEF Evolves
  <1> QED BY <1>5, <1>7

-----------------------------------------------------------------------------
(* A step of worker w that concerns at most the published task u.          *)

LEMMA WorkerProgress ==
  ASSUME TypeOK, Evolves, NEW w \in Workers, Moves(w), wpc[w] # "sweepAdd",
         ppc' = ppc, succeeded \subseteq succeeded'
  PROVE  Progress
  <1>1. ASSUME NEW t \in Tasks, Rescued(t) PROVE Rescued(t)'
    <2>1. CASE RescuedAfter(t, 0)
      BY <2>1 DEF Evolves, Rescued
    <2>2. CASE SweepAdds(t)
      BY <2>2 DEF SweepAdds, Rescued, Moves
    <2> QED BY <1>1, <2>1, <2>2 DEF Rescued
  <1> QED BY <1>1 DEF Progress

LEMMA TasksAround ==
  ASSUME NEW u \in Tasks, IInv, Progress, ppc' = ppc, aged' = aged,
         ppc[u] \in {"published", "done"}, Rescued(u)',
         \A t \in Tasks \ {u} : store'[t] = store[t],
         store'[u].status # "absent", store'[u].status = "completed" => u \in succeeded',
         dedup' \subseteq dedup \cup {u},
         \A i \in Ids : entry'[i].task \in {entry[i].task, NoTask, u}
  PROVE  \A t \in Tasks : TaskInv(t)'
  <1>1. TaskInv(u)'
    BY TaskRescued DEF IInv
  <1>2. ASSUME NEW t \in Tasks \ {u} PROVE TaskInv(t)'
    <2>1. TypeOK /\ TaskInv(t) /\ KeyOf[t] # u
      <3>1. KeyOf[t] \in BizKeys \cup {NoKey}
        BY DeliveryAssumption
      <3> QED BY <3>1, DeliveryAssumption DEF IInv
    <2>2. ppc[t] \in {"none", "error"} \cup Publishing => \A i \in Ids : entry'[i].task # t
      BY <2>1, DeliveryAssumption DEF TaskInv
    <2> QED BY <2>1, <2>2, TaskFrame
  <1> QED BY <1>1, <1>2

LEMMA WorkerMove ==
  ASSUME IInv, TypeOK', Progress, NEW w \in Workers, Moves(w), WorkerInv(w)',
         resending' = resending, \A t \in Tasks : TaskInv(t)'
  PROVE  IInv'
  <1>1. ASSUME NEW v \in Workers \ {w} PROVE WorkerInv(v)'
    BY WorkerFrame DEF IInv, Moves
  <1>2. ResendInv'
    BY ResendFrame DEF IInv
  <1> QED BY <1>1, <1>2 DEF IInv, Progress, Evolves

LEMMA Held ==
  ASSUME IInv, NEW w \in Workers, wpc[w] \notin {"idle", "sweep"}
  PROVE  /\ wmsg[w].task \in Tasks
         /\ ppc[wmsg[w].task] \in {"published", "done"}
         /\ store[wmsg[w].task].status # "absent"
         /\ store[wmsg[w].task].status = "completed" => wmsg[w].task \in succeeded
         /\ wpc[w] \in Handling =>
              /\ wmsg[w].id \in 1 .. (nextId - 1)
              /\ entry[wmsg[w].id].task \in {wmsg[w].task, NoTask}
              /\ Rescued(wmsg[w].task)
  BY DEF IInv, TypeOK, WorkerInv, TaskInv

-----------------------------------------------------------------------------
(* A worker's steps, one lemma per group of actions.                       *)

\* What ReadNew delivers are entries that nobody has seen yet.
LEMMA ReadNewEffect ==
  ASSUME TypeOK, NEW w \in Workers, ReadNew(w)
  PROVE  /\ \A i \in Ids : \/ entry'[i] = entry[i]
                           \/ /\ entry[i].state = "fresh"
                              /\ entry'[i].task = entry[i].task
         /\ \E i \in Ids : entry[i].state = "fresh" /\ Receive(w, i, entry[i].attempts)
  <1> DEFINE fresh == InState("fresh")
             delivered == Oldest(OnHigh(fresh)) \cup Oldest(OnNormal(fresh))
  <1>1. \A i \in delivered : i \in Ids /\ entry[i].state = "fresh"
    BY DEF InState, Oldest, OnHigh, OnNormal
  <1>2. /\ \E i \in delivered : Receive(w, i, entry[i].attempts)
        /\ entry' = [i \in Ids |->
             IF i \in delivered THEN [entry[i] EXCEPT !.state = "pending", !.times = 1]
                                ELSE entry[i]]
    BY DEF ReadNew
  <1> HIDE DEF delivered
  <1>3. \A i \in Ids : [entry[i] EXCEPT !.state = "pending", !.times = 1].task = entry[i].task
    BY DEF TypeOK, EntriesTyped, Entries
  <1> QED BY <1>1, <1>2, <1>3

LEMMA ClaimStaleEffect ==
  ASSUME TypeOK, NEW w \in Workers, ClaimStale(w)
  PROVE  \E i \in Ids, n \in Nat :
           /\ entry[i].state = "stale" /\ Receive(w, i, n)
           /\ entry'[i].task = entry[i].task
           /\ \A j \in Ids \ {i} : entry'[j] = entry[j]
  <1>1. PICK i \in InState("stale") :
           /\ Receive(w, i, MaxOf(entry[i].attempts, entry[i].times))
           /\ entry' = [entry EXCEPT ![i].state = "pending", ![i].times = entry[i].times + 1]
    BY DEF ClaimStale, OnHigh, Oldest
  <1>2. MaxOf(entry[i].attempts, entry[i].times) \in Nat
    BY <1>1 DEF InState, TypeOK, EntriesTyped, Entries, MaxOf
  <1>3. entry'[i].task = entry[i].task /\ \A j \in Ids \ {i} : entry'[j] = entry[j]
    BY <1>1 DEF InState, TypeOK, EntriesTyped, Entries
  <1> QED BY <1>1, <1>2, <1>3 DEF InState

\* Messages are delivered: the entry stays, and the worker holds it.
LEMMA DeliverySteps ==
  ASSUME IInv, TypeOK', NEW w \in Workers, ClaimStale(w) \/ ReadNew(w)
  PROVE  IInv'
  <1>1. /\ wpc[w] = "idle" /\ Moves(w) /\ ppc' = ppc
        /\ UNCHANGED <<store, aged, dedup, nextId, resending, succeeded, wsnap>>
    BY DEF ClaimStale, ReadNew, Receive, Goto, Moves, IInv, TypeOK
  <1>2. \A i \in Ids : entry'[i].task = entry[i].task /\ (entry[i] = Unused => entry'[i] = Unused)
    <2>1. CASE ClaimStale(w)
      BY <2>1, ClaimStaleEffect DEF Unused, IInv
    <2>2. CASE ReadNew(w)
      BY <2>2, ReadNewEffect DEF Unused, IInv
    <2> QED BY <2>1, <2>2
  <1>3. Evolves
    BY <1>1, <1>2, SameEntries DEF IInv
  <1>4. Progress
    BY <1>1, <1>3, WorkerProgress DEF IInv
  <1>5. PICK i \in Ids, n \in Nat : entry[i].state \in Live /\ Receive(w, i, n)
    <2>1. CASE ClaimStale(w)
      BY <2>1, ClaimStaleEffect DEF Live, IInv
    <2>2. CASE ReadNew(w)
      BY <2>2, ReadNewEffect DEF Live, IInv, TypeOK, EntriesTyped, Entries
    <2> QED BY <2>1, <2>2
  <1>6. PICK u \in Tasks : entry[i].task = u /\ i \in 1 .. (nextId - 1)
    BY <1>5, DeliveryAssumption DEF IInv, TypeOK, EntriesTyped, EntriesInv, Unused, Live, Ids
  <1>7. Rescued(u) /\ Rescued(u)' /\ ppc[u] \in {"published", "done"}
    <2>1. Rescued(u)
      BY <1>6 DEF Rescued, RescuedAfter, Ids
    <2>2. ppc[u] \in {"published", "done"}
      BY <1>6 DEF IInv, TypeOK, TaskInv, Publishing, Reporting
    <2> QED BY <1>4, <1>6, <2>1, <2>2 DEF Progress
  <1>8. \A t \in Tasks : TaskInv(t)'
    BY <1>1, <1>2, <1>4, <1>6, <1>7, TasksAround DEF IInv, TaskInv
  <1>9. WorkerInv(w)'
    BY <1>1, <1>2, <1>5, <1>6, <1>7 DEF WorkerInv, Receive, Goto, Sweeping, IInv, TypeOK
  <1> QED BY <1>1, <1>4, <1>8, <1>9, WorkerMove

\* The worker goes on with its message and leaves the streams alone.
LEMMA QuietSteps ==
  ASSUME IInv, TypeOK', NEW w \in Workers,
         Start(w) \/ Review(w) \/ Complete(w) \/ WriteBack(w) \/ WorkerCrash(w)
  PROVE  IInv'
  <1>1. /\ wpc[w] \in Handling /\ Moves(w) /\ UNCHANGED <<ppc, aged, dedup, entry, nextId, resending, wsnap>>
        /\ succeeded \subseteq succeeded'
    BY DEF Start, Review, Complete, WriteBack, WorkerCrash, Finish, Goto, Moves, Handling, redisVars, IInv, TypeOK
  <1>2. wpc[w] \notin {"idle", "sweep", "sweepAdd"}
    BY <1>1 DEF Handling
  <1>u. PICK u \in Tasks : u = wmsg[w].task
    BY <1>2, Held
  <1>3. /\ \A t \in Tasks \ {u} : store'[t] = store[t]
        /\ store[u].status = "deleted" => store'[u] = store[u]
        /\ store'[u].status # "absent"
        /\ store'[u].status = "completed" => u \in succeeded'
    <2>1. u \in Tasks /\ store[u].status # "absent" /\ (store[u].status = "completed" => u \in succeeded)
      BY <1>2, <1>u, Held
    <2>2. CASE Start(w)
      BY <1>u, <2>1, <2>2 DEF Start, UpdateTask, InTable, IInv, TypeOK, Rows
    <2>3. CASE Review(w) \/ WorkerCrash(w)
      BY <2>1, <2>3 DEF Review, WorkerCrash
    <2>4. CASE Complete(w)
      BY <1>u, <2>1, <2>4 DEF Complete, UpdateTask, InTable, IInv, TypeOK, Rows
    <2>5. CASE WriteBack(w)
      BY <1>u, <2>1, <2>5 DEF WriteBack, UpdateTask, InTable, IInv, TypeOK, Rows
    <2> QED BY <2>2, <2>3, <2>4, <2>5
  <1>4. Evolves
    BY <1>1, <1>3, SameEntries DEF IInv
  <1>5. Progress
    BY <1>1, <1>2, <1>4, WorkerProgress DEF IInv
  <1>6. u \in Tasks /\ ppc[u] \in {"published", "done"} /\ Rescued(u) /\ Rescued(u)'
    BY <1>u, <1>1, <1>2, <1>5, Held DEF Progress
  <1>7. \A t \in Tasks : TaskInv(t)'
    BY <1>1, <1>3, <1>5, <1>6, TasksAround
  <1>8. WorkerInv(w)'
    <2>1. CASE Start(w) \/ Review(w)
      BY <1>u, <1>1, <1>2, <1>6, <2>1, Held DEF Start, Review, Goto, WorkerInv, Handling, Sweeping, IInv, TypeOK
    <2>2. CASE Complete(w)
      BY <1>u, <1>1, <1>2, <1>6, <2>2, Held DEF Complete, Goto, WorkerInv, Handling, Sweeping, IInv, TypeOK
    <2>3. CASE WriteBack(w) \/ WorkerCrash(w)
      BY <2>3 DEF WriteBack, WorkerCrash, Finish, Goto, WorkerInv, Handling, Sweeping, IInv, TypeOK
    <2> QED BY <2>1, <2>2, <2>3
  <1> QED BY <1>1, <1>5, <1>7, <1>8, WorkerMove

\* The worker acknowledges an entry whose task has an outcome or a later entry.
LEMMA ForgetSteps ==
  ASSUME IInv, TypeOK', NEW w \in Workers,
         Lookup(w) \/ Ack(w) \/ AckError(w) \/ FailAck(w)
  PROVE  IInv'
  <1>1. wpc[w] \in {"got", "acking", "ackRequeued", "ackDead"}
    BY DEF Lookup, Ack, AckError, FailAck
  <1>2. wpc[w] \in Handling /\ wpc[w] \notin {"idle", "sweep", "sweepAdd"}
    BY <1>1 DEF Handling
  <1>3. PICK u \in Tasks, x \in 1 .. (nextId - 1) :
          u = wmsg[w].task /\ x = wmsg[w].id /\ entry[x].task \in {u, NoTask}
    BY <1>2, Held
  <1>4. ppc[u] \in {"published", "done"} /\ Rescued(u) /\ store[u].status # "absent"
        /\ (store[u].status = "completed" => u \in succeeded)
    BY <1>2, <1>3, Held
  <1>5. /\ Moves(w)
        /\ UNCHANGED <<store, aged, nextId, dedup, ppc, wsnap, resending, succeeded>>
        /\ wpc'[w] \in {"idle", "start", "failing", "setPending", "setFailed"}
        /\ wpc'[w] = "idle" => wmsg'[w] = NoMsg
        /\ wpc'[w] # "idle" => wmsg'[w] = wmsg[w]
    BY DEF Lookup, Ack, AckError, FailAck, Finish, Goto, Moves, IInv, TypeOK
  <1>6. entry' = entry \/ Forget(x)
    BY <1>3 DEF Lookup, Ack, AckError, FailAck
  <1>7. ASSUME entry' # entry, entry[x].task = u PROVE RescuedAfter(u, x)
    <2>1. CASE Lookup(w)
      BY <1>3, <1>4, <1>7, <2>1 DEF Lookup, InTable, RescuedAfter
    <2>2. CASE Ack(w) \/ AckError(w)
      BY <1>3, <2>2 DEF Ack, AckError, IInv, WorkerInv, RescuedAfter
    <2>3. CASE FailAck(w)
      BY <1>3, <2>3 DEF FailAck, IInv, WorkerInv
    <2> QED BY <2>1, <2>2, <2>3
  <1>8. Evolves /\ \A i \in Ids : entry'[i].task \in {entry[i].task, NoTask}
    <2>1. CASE entry' = entry
      BY <1>5, <2>1, SameEntries DEF IInv
    <2>2. CASE entry' # entry
      <3>1. entry[x].task \in Tasks => RescuedAfter(entry[x].task, x)
        BY <1>3, <1>7, <2>2, DeliveryAssumption
      <3> QED BY <1>5, <1>6, <2>2, <3>1, ForgetEntries DEF IInv
    <2> QED BY <2>1, <2>2
  <1>9. Progress
    BY <1>2, <1>5, <1>8, WorkerProgress DEF IInv
  <1>10. Rescued(u)'
    BY <1>4, <1>9 DEF Progress
  <1>11. \A t \in Tasks : TaskInv(t)'
    BY <1>4, <1>5, <1>8, <1>9, <1>10, TasksAround
  <1>12. WorkerInv(w)'
    <2>1. CASE wpc'[w] = "idle"
      BY <1>5, <2>1 DEF WorkerInv, Handling, Sweeping
    <2>2. CASE wpc'[w] # "idle"
      <3>1. entry'[x].task \in {u, NoTask} /\ x \in 1 .. (nextId' - 1)
        BY <1>3, <1>5, <1>9 DEF Progress, Evolves
      <3> QED BY <1>3, <1>4, <1>5, <1>10, <2>2, <3>1 DEF WorkerInv, Sweeping
    <2> QED BY <2>1, <2>2
  <1> QED BY <1>5, <1>9, <1>11, <1>12, WorkerMove

\* bus.fail adds an entry younger than the one it is about to acknowledge.
LEMMA FailStep ==
  ASSUME IInv, TypeOK', NEW w \in Workers, Fail(w)
  PROVE  IInv'
  <1>1. wpc[w] = "failing" /\ wpc[w] \in Handling
    BY DEF Fail, Handling
  <1>2. PICK u \in Tasks, x \in 1 .. (nextId - 1) :
          u = wmsg[w].task /\ x = wmsg[w].id /\ entry[x].task \in {u, NoTask}
    BY <1>1, Held
  <1>3. ppc[u] \in {"published", "done"} /\ store[u].status # "absent"
        /\ (store[u].status = "completed" => u \in succeeded)
    BY <1>1, <1>2, Held
  <1>4. /\ Moves(w) /\ wmsg'[w] = wmsg[w] /\ wpc'[w] \in {"ackRequeued", "ackDead"}
        /\ UNCHANGED <<store, aged, dedup, ppc, wsnap, resending, succeeded>>
    BY DEF Fail, Goto, Moves, IInv, TypeOK
  <1>5. /\ Evolves
        /\ \A i \in Ids : entry'[i].task \in {entry[i].task, u}
        /\ \A i \in Nat : i < nextId => RescuedAfter(u, i)'
    <2>1. \E n, s : Xadd(u, n, s)
      BY <1>2 DEF Fail
    <2> QED BY <1>4, <2>1, XaddEntries DEF IInv
  <1>6. Progress
    BY <1>1, <1>4, <1>5, WorkerProgress DEF IInv
  <1>7. RescuedAfter(u, x)' /\ RescuedAfter(u, 0)'
    BY <1>2, <1>5, DeliveryAssumption DEF IInv, TypeOK
  <1>8. Rescued(u)'
    BY <1>7 DEF Rescued
  <1>9. \A t \in Tasks : TaskInv(t)'
    BY <1>3, <1>4, <1>5, <1>6, <1>8, TasksAround
  <1>10. WorkerInv(w)'
    <2>1. entry'[x].task \in {u, NoTask} /\ x \in 1 .. (nextId' - 1)
      BY <1>2, <1>6 DEF Progress, Evolves, IInv, TypeOK
    <2> QED BY <1>2, <1>3, <1>4, <1>7, <1>8, <2>1 DEF WorkerInv, Sweeping
  <1> QED BY <1>4, <1>6, <1>9, <1>10, WorkerMove

-----------------------------------------------------------------------------
(* The steps of the outbox sweep.                                          *)

LEMMA BeginSweepStep ==
  ASSUME IInv, TypeOK', NEW w \in Workers, BeginSweep(w)
  PROVE  IInv'
  <1>1. /\ wpc[w] = "idle" /\ wpc'[w] = "sweep" /\ Moves(w) /\ wsnap'[w] \subseteq aged
        /\ UNCHANGED <<store, aged, entry, nextId, dedup, ppc, wmsg, resending, succeeded>>
    BY DEF BeginSweep, Goto, Moves, Unpublished, redisVars, IInv, TypeOK
  <1>2. Evolves
    BY <1>1, SameEntries DEF IInv
  <1>3. Progress
    BY <1>1, <1>2, WorkerProgress DEF IInv
  <1>4. ASSUME NEW t \in Tasks PROVE TaskInv(t)'
    <2>1. TaskInv(t) /\ (ppc[t] \in {"none", "error"} \cup Publishing => \A i \in Ids : entry'[i].task # t)
      BY <1>1 DEF IInv, TaskInv
    <2> QED BY <1>1, <1>3, <2>1, TaskFrame DEF IInv
  <1>5. WorkerInv(w)'
    <2>1. wmsg[w] = NoMsg /\ \A t \in wsnap'[w] : ppc[t] = "done"
      BY <1>1 DEF IInv, WorkerInv, TaskInv, TypeOK
    <2> QED BY <1>1, <2>1 DEF WorkerInv, Handling, Sweeping
  <1> QED BY <1>1, <1>3, <1>4, <1>5, WorkerMove

\* A key that is set already has a message behind it.
LEMMA SweepClaimStep ==
  ASSUME IInv, TypeOK', NEW w \in Workers, SweepClaim(w)
  PROVE  IInv'
  <1>1. PICK u \in wsnap[w] :
          /\ wmsg' = [wmsg EXCEPT ![w] = [NoMsg EXCEPT !.task = u]]
          /\ wsnap' = [wsnap EXCEPT ![w] = @ \ {u}]
          /\ Goto(w, IF u \in dedup THEN "sweepDeduplicated" ELSE "sweepAdd")
          /\ dedup' = dedup \cup {u}
    BY DEF SweepClaim
  <1>2. u \in Tasks /\ ppc[u] = "done" /\ wpc[w] = "sweep" /\ TaskInv(u)
    BY DEF SweepClaim, IInv, WorkerInv, Sweeping, TypeOK
  <1>3. /\ Moves(w) /\ wmsg'[w].task = u /\ wsnap'[w] \subseteq wsnap[w]
        /\ wpc'[w] = IF u \in dedup THEN "sweepDeduplicated" ELSE "sweepAdd"
        /\ UNCHANGED <<store, aged, entry, nextId, ppc, resending, succeeded>>
    BY <1>1 DEF SweepClaim, Goto, Moves, NoMsg, IInv, TypeOK
  <1>4. Evolves
    BY <1>3, SameEntries DEF IInv
  <1>5. Progress
    BY <1>2, <1>3, <1>4, WorkerProgress DEF IInv
  <1>6. Rescued(u)'
    <2>1. CASE u \in dedup
      BY <1>2, <1>5, <2>1 DEF TaskInv, Progress
    <2>2. CASE u \notin dedup
      BY <1>3, <2>2 DEF Rescued, SweepAdds
    <2> QED BY <2>1, <2>2
  <1>7. \A t \in Tasks : TaskInv(t)'
    <2>1. store'[u].status # "absent" /\ (store'[u].status = "completed" => u \in succeeded')
      BY <1>2, <1>3 DEF TaskInv
    <2> QED BY <1>1, <1>2, <1>3, <1>5, <1>6, <2>1, TasksAround
  <1>8. WorkerInv(w)'
    <2>1. \A t \in wsnap'[w] : ppc[t] = "done"
      BY <1>2, <1>3 DEF IInv, WorkerInv, Sweeping
    <2> QED BY <1>2, <1>3, <1>6, <2>1 DEF WorkerInv, Handling, Sweeping
  <1> QED BY <1>3, <1>5, <1>7, <1>8, WorkerMove

LEMMA SweepAddStep ==
  ASSUME IInv, TypeOK', NEW w \in Workers, SweepAdd(w)
  PROVE  IInv'
  <1>1. PICK u \in Tasks : u = wmsg[w].task /\ ppc[u] \in {"published", "done"}
    BY Held DEF SweepAdd
  <1>2. store[u].status # "absent" /\ (store[u].status = "completed" => u \in succeeded)
    BY <1>1, Held DEF SweepAdd
  <1>3. /\ wpc[w] = "sweepAdd" /\ wpc'[w] = "sweepPublished" /\ Moves(w)
        /\ UNCHANGED <<store, aged, dedup, ppc, wmsg, wsnap, resending, succeeded>>
    BY DEF SweepAdd, Goto, Moves, IInv, TypeOK
  <1>4. /\ Evolves
        /\ \A i \in Ids : entry'[i].task \in {entry[i].task, u}
        /\ \A i \in Nat : i < nextId => RescuedAfter(u, i)'
    <2>1. Xadd(u, 1, "fresh")
      BY <1>1 DEF SweepAdd
    <2> QED BY <1>3, <2>1, XaddEntries DEF IInv
  <1>5. Rescued(u)'
    BY <1>4, DeliveryAssumption DEF Rescued, IInv, TypeOK
  <1>6. Progress
    <2>1. ASSUME NEW t \in Tasks, Rescued(t) PROVE Rescued(t)'
      <3>1. CASE RescuedAfter(t, 0)
        BY <1>4, <3>1 DEF Evolves, Rescued
      <3>2. CASE SweepAdds(t)
        BY <1>1, <1>3, <1>5, <3>2 DEF SweepAdds, Rescued, Moves
      <3> QED BY <2>1, <3>1, <3>2 DEF Rescued
    <2> QED BY <1>3, <1>4, <2>1 DEF Progress
  <1>7. \A t \in Tasks : TaskInv(t)'
    BY <1>1, <1>2, <1>3, <1>4, <1>5, <1>6, TasksAround
  <1>8. WorkerInv(w)'
    BY <1>1, <1>3, <1>5 DEF WorkerInv, Handling, Sweeping, IInv
  <1> QED BY <1>3, <1>6, <1>7, <1>8, WorkerMove

LEMMA SweepReportStep ==
  ASSUME IInv, TypeOK', NEW w \in Workers, SweepReport(w)
  PROVE  IInv'
  <1>1. wpc[w] \in {"sweepPublished", "sweepDeduplicated"}
    BY DEF SweepReport
  <1>2. PICK u \in Tasks : u = wmsg[w].task /\ ppc[u] \in {"published", "done"} /\ Rescued(u)
    BY <1>1, Held DEF IInv, WorkerInv
  <1>3. store[u].status # "absent" /\ (store[u].status = "completed" => u \in succeeded)
    BY <1>1, <1>2, Held
  <1>4. /\ Moves(w) /\ wpc'[w] \in {"idle", "sweep"} /\ wmsg'[w] = NoMsg
        /\ UNCHANGED <<aged, entry, nextId, dedup, ppc, wsnap, resending, succeeded>>
    BY DEF SweepReport, Goto, Moves, redisVars, IInv, TypeOK
  <1>5. /\ \A t \in Tasks \ {u} : store'[t] = store[t]
        /\ store'[u].status = store[u].status
    BY <1>2 DEF SweepReport, UpdateTask, IInv, TypeOK, Rows
  <1>6. Evolves
    BY <1>4, <1>5, SameEntries DEF IInv
  <1>7. Progress
    BY <1>1, <1>4, <1>6, WorkerProgress DEF IInv
  <1>8. \A t \in Tasks : TaskInv(t)'
    BY <1>2, <1>3, <1>4, <1>5, <1>7, TasksAround DEF Progress
  <1>9. WorkerInv(w)'
    BY <1>1, <1>4 DEF WorkerInv, Handling, Sweeping, IInv
  <1> QED BY <1>4, <1>7, <1>8, <1>9, WorkerMove

-----------------------------------------------------------------------------
(* The steps of a producer, of the user and of time.                       *)

\* A step that concerns task t and no worker.
LEMMA TaskMove ==
  ASSUME OwnKeys, IInv, TypeOK', Evolves, NEW t \in Tasks,
         UNCHANGED <<workerVars, resending, succeeded>>,
         \A u \in Tasks \ {t} : ppc'[u] = ppc[u] /\ store'[u] = store[u] /\ (u \in aged' => u \in aged),
         ppc[t] = "done" => ppc'[t] = "done",
         ppc[t] = "published" => ppc'[t] \in {"published", "done"},
         dedup' \subseteq dedup \cup {t, KeyOf[t]},
         \A i \in Ids : entry'[i].task \in {entry[i].task, t},
         Progress => TaskInv(t)'
  PROVE  IInv'
  <1>1. Progress
    <2>1. ASSUME NEW u \in Tasks, Rescued(u) PROVE Rescued(u)'
      BY <2>1 DEF Rescued, Evolves, SweepAdds, workerVars
    <2> QED BY <2>1 DEF Progress
  <1>2. ASSUME NEW u \in Tasks \ {t} PROVE TaskInv(u)'
    <2>1. KeyOf[u] \in BizKeys \cup {NoKey} /\ KeyOf[t] \in BizKeys \cup {NoKey}
      BY DeliveryAssumption
    <2>2. (u \in dedup' => u \in dedup) /\ (KeyOf[u] \in dedup' => KeyOf[u] \in dedup)
      BY <2>1, DeliveryAssumption DEF OwnKeys, TypeOK, Keys
    <2>3. TaskInv(u) /\ (ppc[u] \in {"none", "error"} \cup Publishing => \A i \in Ids : entry'[i].task # u)
      BY DEF IInv, TaskInv
    <2> QED BY <1>1, <2>2, <2>3, TaskFrame DEF IInv
  <1>3. \A w \in Workers : WorkerInv(w)'
    BY <1>1, WorkerFrame DEF IInv, workerVars
  <1>4. ResendInv'
    BY <1>1, ResendFrame DEF IInv
  <1> QED BY <1>1, <1>2, <1>3, <1>4 DEF IInv, Evolves

LEMMA ProducerSteps ==
  ASSUME PublishIsSound, OwnKeys, IInv, TypeOK', NEW t \in Tasks,
         \/ Add(t) \/ ClaimBizKey(t) \/ ClaimTaskKey(t) \/ Report(t)
         \/ ClaimError(t) \/ AddError(t) \/ Delete(t) \/ Age(t)
  PROVE  IInv'
  <1>1. TypeOK /\ TaskInv(t)
    BY DEF IInv
  <1>2. KeyOf[t] \in BizKeys \cup {NoKey} /\ KeyOf[t] # t /\ NoKey \notin dedup
    <2>1. KeyOf[t] \in BizKeys \cup {NoKey}
      BY DeliveryAssumption
    <2> QED BY <1>1, <2>1, DeliveryAssumption DEF TypeOK, Keys
  <1>3. ~ Incident("lost_reply") /\ ~ Incident("slow_publish")
    BY DEF PublishIsSound, Incident
  <1>4. /\ UNCHANGED <<workerVars, resending, succeeded, entry, nextId>>
        /\ \A u \in Tasks \ {t} : ppc'[u] = ppc[u] /\ store'[u] = store[u] /\ (u \in aged' => u \in aged)
    <2>1. CASE Add(t)
      BY <1>1, <2>1 DEF Add, redisVars, TypeOK
    <2>2. CASE ClaimBizKey(t) \/ ClaimTaskKey(t) \/ Age(t)
      BY <1>1, <2>2 DEF ClaimBizKey, ClaimTaskKey, Age, redisVars, TypeOK
    <2>3. CASE Report(t)
      BY <1>1, <2>3 DEF Report, UpdateTask, redisVars, TypeOK
    <2>4. CASE ClaimError(t) \/ AddError(t)
      BY <1>1, <1>3, <2>4 DEF ClaimError, AddError, TypeOK
    <2>5. CASE Delete(t)
      BY <1>1, <2>5 DEF Delete, redisVars, TypeOK
    <2> QED BY <2>1, <2>2, <2>3, <2>4, <2>5
  <1>5. /\ ppc[t] = "done" => ppc'[t] = "done"
        /\ ppc[t] = "published" => ppc'[t] \in {"published", "done"}
        /\ dedup' \subseteq dedup \cup {t, KeyOf[t]}
        /\ store[t].status = "deleted" => store'[t].status = "deleted"
    <2>1. CASE Add(t)
      BY <1>1, <2>1 DEF Add, redisVars, TypeOK, TaskInv, Publishing, Rows
    <2>2. CASE ClaimBizKey(t) \/ ClaimTaskKey(t) \/ Age(t)
      BY <1>1, <2>2 DEF ClaimBizKey, ClaimTaskKey, Age, redisVars, TypeOK
    <2>3. CASE Report(t)
      BY <1>1, <2>3 DEF Report, UpdateTask, InTable, redisVars, TypeOK, Rows
    <2>4. CASE ClaimError(t) \/ AddError(t)
      BY <1>1, <1>3, <2>4 DEF ClaimError, AddError, TypeOK
    <2>5. CASE Delete(t)
      BY <1>1, <2>5 DEF Delete, redisVars, TypeOK, Rows
    <2> QED BY <2>1, <2>2, <2>3, <2>4, <2>5
  <1>6. Evolves
    BY <1>1, <1>4, <1>5, SameEntries DEF IInv
  <1>7. ASSUME Progress PROVE TaskInv(t)'
    <2>1. CASE Add(t)
      BY <1>1, <1>2, <1>4, <2>1 DEF Add, redisVars, TypeOK, Rows, TaskInv, Publishing
    <2>2. CASE ClaimBizKey(t)
      BY <1>1, <1>2, <1>4, <2>2 DEF ClaimBizKey, TypeOK, TaskInv, Publishing
    <2>3. CASE ClaimTaskKey(t)
      BY <1>1, <1>2, <1>4, <2>3 DEF ClaimTaskKey, TypeOK, TaskInv, Publishing
    <2>4. CASE ClaimError(t)
      BY <1>1, <1>2, <1>3, <1>4, <2>4 DEF ClaimError, TypeOK, TaskInv, Publishing
    <2>5. CASE AddError(t)
      BY <1>1, <1>2, <1>3, <1>4, <2>5 DEF AddError, TypeOK, TaskInv, Publishing
    <2>6. CASE Report(t)
      <3>1. CASE ppc[t] = "published"
        BY <1>1, <1>4, <1>7, <2>6, <3>1 DEF Report, UpdateTask, InTable, redisVars, TypeOK, Rows, TaskInv, Publishing, Progress
      <3>2. CASE ppc[t] = "error"
        BY <1>1, <1>2, <1>4, <2>6, <3>2 DEF Report, UpdateTask, InTable, redisVars, TypeOK, Rows, TaskInv, Publishing, Sweepable, Rescued, RescuedAfter
      <3> QED BY <1>1, <2>6, <3>1, <3>2 DEF Report, Reporting, TaskInv
    <2>7. CASE Delete(t)
      BY <1>1, <1>4, <2>7 DEF Delete, InTable, redisVars, TypeOK, Rows, TaskInv, Rescued, RescuedAfter
    <2>8. CASE Age(t)
      <3>1. ppc[t] = "done"
        BY <1>1, <1>3, <2>8 DEF Age, InTable, TypeOK, TaskInv, Publishing, Reporting
      <3> QED BY <1>1, <1>4, <1>7, <2>8, <3>1 DEF Age, redisVars, TaskInv, Publishing, Sweepable, Progress
    <2> QED BY <2>1, <2>2, <2>3, <2>4, <2>5, <2>6, <2>7, <2>8
  <1> QED BY <1>4, <1>5, <1>6, <1>7, TaskMove

LEMMA AddEntryStep ==
  ASSUME OwnKeys, IInv, TypeOK', NEW t \in Tasks, AddEntry(t)
  PROVE  IInv'
  <1>1. /\ Xadd(t, 1, "fresh") /\ ppc[t] = "adding" /\ ppc' = [ppc EXCEPT ![t] = "published"]
        /\ UNCHANGED <<store, aged, dedup, workerVars, resending, succeeded>>
    BY DEF AddEntry
  <1>2. /\ Evolves
        /\ \A i \in Ids : entry'[i].task \in {entry[i].task, t}
        /\ \A i \in Nat : i < nextId => RescuedAfter(t, i)'
    BY <1>1, XaddEntries DEF IInv
  <1>3. Rescued(t)'
    BY <1>2, DeliveryAssumption DEF Rescued, IInv, TypeOK
  <1>4. ppc'[t] = "published" /\ \A u \in Tasks \ {t} : ppc'[u] = ppc[u]
    BY <1>1 DEF IInv, TypeOK
  <1>5. TaskInv(t)'
    BY <1>1, <1>3, <1>4 DEF IInv, TaskInv, Publishing
  <1> QED BY <1>1, <1>2, <1>4, <1>5, TaskMove

-----------------------------------------------------------------------------
(* The steps of the operator and of the clock, in which no worker moves.   *)

LEMMA NobodyMoves ==
  ASSUME IInv, TypeOK', Progress, UNCHANGED workerVars, ResendInv',
         \A t \in Tasks : TaskInv(t)'
  PROVE  IInv'
  <1>1. \A w \in Workers : WorkerInv(w)'
    BY WorkerFrame DEF IInv, workerVars
  <1> QED BY <1>1 DEF IInv, Progress, Evolves

\* Such a step makes progress when it keeps the producers where they are.
LEMMA NobodyProgress ==
  ASSUME Evolves, UNCHANGED workerVars, ppc' = ppc, succeeded' = succeeded
  PROVE  Progress
  <1>1. ASSUME NEW t \in Tasks, Rescued(t) PROVE Rescued(t)'
    BY <1>1 DEF Rescued, Evolves, SweepAdds, workerVars
  <1> QED BY <1>1 DEF Progress

LEMMA ResendStep ==
  ASSUME IInv, TypeOK', NEW i \in Ids, Resend(i)
  PROVE  IInv'
  <1>1. /\ entry[i].state = "dlq" /\ Xadd(entry[i].task, 1, "fresh") /\ resending' = i
        /\ UNCHANGED <<store, aged, dedup, ppc, workerVars, succeeded>>
    BY DEF Resend, InState
  <1>2. PICK u \in Tasks : entry[i].task = u
    BY <1>1 DEF IInv, TypeOK, EntriesTyped, Live
  <1>3. i < nextId /\ i \in Nat
    BY <1>1, DeliveryAssumption DEF IInv, EntriesInv, Unused, TypeOK, Ids
  <1>4. ppc[u] \in {"published", "done"} /\ store[u].status # "absent"
        /\ (store[u].status = "completed" => u \in succeeded)
    BY <1>2 DEF IInv, TypeOK, TaskInv, Publishing, Reporting
  <1>5. /\ Evolves
        /\ \A j \in Ids : entry'[j].task \in {entry[j].task, u}
        /\ \A j \in Nat : j < nextId => RescuedAfter(u, j)'
    BY <1>1, <1>2, XaddEntries DEF IInv
  <1>6. Progress
    BY <1>1, <1>5, NobodyProgress
  <1>7. Rescued(u)'
    BY <1>5, DeliveryAssumption DEF Rescued, IInv, TypeOK
  <1>8. \A t \in Tasks : TaskInv(t)'
    BY <1>1, <1>4, <1>5, <1>6, <1>7, TasksAround
  <1>9. ResendInv'
    <2>1. entry'[i].task = u /\ RescuedAfter(u, i)' /\ i < nextId'
      BY <1>2, <1>3, <1>5 DEF Evolves, IInv, TypeOK
    <2> QED BY <1>1, <2>1 DEF ResendInv
  <1> QED BY <1>1, <1>6, <1>8, <1>9, NobodyMoves

LEMMA StillSteps ==
  ASSUME IInv, TypeOK',
         \/ DropDeadLetter \/ \E i \in Ids : GoStale(i) \/ Outlive(i)
         \/ \E k \in Keys : ExpireKey(k)
  PROVE  IInv'
  <1>1. /\ UNCHANGED <<store, aged, nextId, ppc, workerVars, succeeded>>
        /\ dedup' \subseteq dedup /\ resending' \in {resending, 0}
    BY DEF DropDeadLetter, GoStale, Outlive, ExpireKey
  <1>2. Evolves /\ \A i \in Ids : entry'[i].task \in {entry[i].task, NoTask}
    <2>1. CASE DropDeadLetter
      <3>1. Forget(resending) /\ resending \in 1 .. (nextId - 1)
        BY <2>1, DeliveryAssumption DEF DropDeadLetter, IInv, ResendInv, TypeOK, Ids
      <3>2. entry[resending].task \in Tasks => RescuedAfter(entry[resending].task, resending)
        BY <2>1 DEF DropDeadLetter, IInv, ResendInv
      <3> QED BY <1>1, <3>1, <3>2, ForgetEntries DEF IInv
    <2>2. CASE ~ DropDeadLetter
      <3>1. \A i \in Ids : /\ entry'[i].task = entry[i].task
                           /\ entry[i] = Unused => entry'[i] = entry[i]
        BY <2>2 DEF GoStale, Outlive, ExpireKey, Unused, IInv, TypeOK, EntriesTyped, Entries
      <3> QED BY <1>1, <3>1, SameEntries DEF IInv
    <2> QED BY <2>1, <2>2
  <1>3. Progress
    BY <1>1, <1>2, NobodyProgress
  <1>4. ASSUME NEW t \in Tasks PROVE TaskInv(t)'
    <2>1. TaskInv(t) /\ (ppc[t] \in {"none", "error"} \cup Publishing => \A i \in Ids : entry'[i].task # t)
      BY <1>2, DeliveryAssumption DEF IInv, TaskInv
    <2> QED BY <1>1, <1>3, <2>1, TaskFrame DEF IInv
  <1>5. ResendInv'
    BY <1>1, <1>3, ResendFrame DEF IInv, ResendInv
  <1> QED BY <1>1, <1>3, <1>4, <1>5, NobodyMoves

-----------------------------------------------------------------------------
(* The invariant, and the theorem.                                         *)

LEMMA InitIInv == Init => IInv
  <1> SUFFICES ASSUME Init PROVE IInv
    OBVIOUS
  <1>1. TypeOK
    BY TypeInit
  <1>2. ASSUME NEW t \in Tasks PROVE TaskInv(t)
    BY <1>2, DeliveryAssumption DEF Init, TaskInv, Publishing, Unused
  <1> QED BY <1>1, <1>2 DEF Init, IInv, EntriesInv, WorkerInv, ResendInv, Handling, Sweeping

LEMMA NextIInv ==
  ASSUME PublishIsSound, OwnKeys, IInv, [Next]_vars
  PROVE  IInv'
  <1>1. TypeOK'
    BY TypeStep DEF IInv
  <1>2. ~ Incident("publish_crash") /\ ~ Incident("sweep_refused") /\ ~ Incident("lost_reply")
    BY DEF PublishIsSound, Incident
  <1>3. ASSUME NEW t \in Tasks,
               \/ Add(t) \/ Produce(t) \/ ClaimError(t) \/ AddError(t)
               \/ ProducerCrash(t) \/ Delete(t) \/ Age(t)
        PROVE  IInv'
    BY <1>1, <1>2, <1>3, ProducerSteps, AddEntryStep DEF Produce, ProducerCrash
  <1>4. ASSUME NEW w \in Workers, Work(w) PROVE IInv'
    <2>1. CASE ClaimStale(w) \/ ReadNew(w)
      BY <1>1, <2>1, DeliverySteps
    <2>2. CASE Start(w) \/ Review(w) \/ Complete(w) \/ WriteBack(w)
      BY <1>1, <2>2, QuietSteps
    <2>3. CASE Lookup(w) \/ Ack(w) \/ FailAck(w)
      BY <1>1, <2>3, ForgetSteps
    <2>4. CASE Fail(w)
      BY <1>1, <2>4, FailStep
    <2>5. CASE BeginSweep(w) \/ SweepClaim(w) \/ SweepAdd(w) \/ SweepReport(w)
      BY <1>1, <2>5, BeginSweepStep, SweepClaimStep, SweepAddStep, SweepReportStep
    <2> QED BY <1>4, <2>1, <2>2, <2>3, <2>4, <2>5 DEF Work
  <1>5. ASSUME NEW w \in Workers,
               AckError(w) \/ WorkerCrash(w) \/ SweepAddError(w) \/ SweepCrash(w)
        PROVE  IInv'
    BY <1>1, <1>2, <1>5, ForgetSteps, QuietSteps DEF SweepAddError, SweepCrash
  <1>6. ASSUME NEW i \in Ids, Resend(i) \/ GoStale(i) \/ Outlive(i) PROVE IInv'
    BY <1>1, <1>6, ResendStep, StillSteps
  <1>7. CASE DropDeadLetter \/ ResendCrash \/ \E k \in Keys : ExpireKey(k)
    BY <1>1, <1>2, <1>7, StillSteps DEF ResendCrash
  <1>8. CASE UNCHANGED vars
    <2>1. UNCHANGED <<store, aged, entry, nextId, dedup, ppc, workerVars, resending, succeeded>>
      BY <1>8 DEF vars, workerVars
    <2>2. Evolves
      BY <2>1, SameEntries DEF IInv
    <2>3. Progress
      BY <2>1, <2>2, NobodyProgress
    <2>4. \A t \in Tasks : TaskInv(t)'
      BY <2>1, <2>3, TaskFrame DEF IInv, TaskInv
    <2> QED BY <1>1, <2>1, <2>3, <2>4, ResendFrame, NobodyMoves DEF IInv
  <1> QED BY <1>3, <1>4, <1>5, <1>6, <1>7, <1>8 DEF Next

LEMMA RescuedIsCarried == IInv => NoTaskLost
  <1> SUFFICES ASSUME IInv, NEW t \in Tasks, InTable(t), t \notin succeeded PROVE Carried(t)
    BY DEF NoTaskLost
  <1>1. CASE Rescued(t)
    BY <1>1 DEF Rescued, RescuedAfter, InTable, Carried, EntryOf, IInv, TypeOK, EntriesTyped
  <1>2. CASE ~ Rescued(t)
    BY <1>2 DEF IInv, TaskInv, InTable, Carried, TypeOK, Reporting
  <1> QED BY <1>1, <1>2

\* Delivery is at least once: with a sound publish and keys of their own, no
\* accepted task is ever lost, whatever workers, acknowledgements, key expiry,
\* refused commands and the operator do (mq/bus.py, tasks/worker.py).
THEOREM AtLeastOnce ==
  ASSUME PublishIsSound, OwnKeys
  PROVE  Spec => []NoTaskLost
  <1>1. IInv /\ [Next]_vars => IInv'
    BY NextIInv
  <1> QED BY InitIInv, <1>1, RescuedIsCarried, PTL DEF Spec

-----------------------------------------------------------------------------
(***************************************************************************)
(* How often a task is tried.  Every attempt beyond the limit is paid for  *)
(* by a worker that dies or is too slow; no other incident costs one.      *)
(***************************************************************************)

InHand(i) == \E w \in Workers : HeldBy(w, i)

\* Incidents so far, if they are of a kind that leaves entries behind.
Paid == IF Kinds \cap {"worker_crash", "slow_worker"} = {} THEN 0 ELSE incidents

\* An entry that waits has been delivered once more than was paid for; in the
\* hands of a worker the delivery under way comes on top.
EntryInv(i) ==
    /\ i >= nextId => entry[i] = Unused
    /\ entry[i].state = "fresh" => entry[i].times = 0 /\ ~InHand(i)
    /\ entry[i].state \in {"fresh", "pending", "stale"} =>
         entry[i].attempts <= MaxAttempts[entry[i].task]
    /\ entry[i].state = "stale" => entry[i].times <= 1 + Paid
    /\ entry[i].state = "pending" =>
         \/ entry[i].times <= 1 + Paid
         \/ InHand(i) /\ entry[i].times <= 2 + Paid

HandInv(w) ==
    /\ wpc[w] \in Handling =>
         /\ wmsg[w].id \in 1 .. (nextId - 1)
         /\ wmsg[w].attempts <= MaxAttempts[wmsg[w].task] + Paid
    /\ wpc[w] \in {"setPending", "setFailed"} => entry[wmsg[w].id].state = "gone"

RowInv(t) == store[t].attempts <= MaxAttempts[t] + Paid

AttemptInv ==
    /\ TypeOK
    /\ \A i \in Ids : EntryInv(i)
    /\ \A w \in Workers : HandInv(w)
    /\ \A t \in Tasks : RowInv(t)

\* What holds of the numbers in every state.
LEMMA Numbers ==
  ASSUME TypeOK
  PROVE  /\ nextId \in Nat /\ nextId >= 1 /\ Ids \subseteq Nat /\ 0 \notin Ids
         /\ \A i \in 1 .. (nextId - 1) : i \in Ids
         /\ Paid \in Nat
         /\ entry \in [Ids -> Entries]
         /\ \A w \in Workers : wmsg[w] \in Messages /\ wmsg[w].attempts \in Nat /\ wmsg[w].id \in Nat
         /\ \A t \in Tasks : store[t].attempts \in Nat /\ MaxAttempts[t] \in Nat /\ MaxAttempts[t] >= 1
         /\ \A i \in Ids : entry[i].attempts \in Nat /\ entry[i].times \in Nat
                           /\ (entry[i].state \in {"fresh", "pending", "stale", "dlq"} => entry[i].task \in Tasks)
  BY DeliveryAssumption DEF TypeOK, EntriesTyped, Entries, Messages, Rows, Ids, Paid, Live

LEMMA EntryFrame ==
  ASSUME NEW i \in Ids, TypeOK, TypeOK', EntryInv(i), entry'[i] = entry[i], nextId <= nextId',
         Paid <= Paid', InHand(i)' => InHand(i),
         InHand(i) => InHand(i)' \/ Paid' = Paid + 1 \/ entry[i].state # "pending"
  PROVE  EntryInv(i)'
  <1>1. i \in Nat /\ nextId \in Nat /\ nextId' \in Nat /\ Paid \in Nat /\ Paid' \in Nat
        /\ entry[i].times \in Nat
    <2>1. Paid' \in Nat /\ nextId' \in Nat
      BY DeliveryAssumption DEF TypeOK, Paid, Ids
    <2> QED BY <2>1, Numbers
  <1>2. i >= nextId' => entry'[i] = Unused
    BY <1>1 DEF EntryInv
  <1>3. entry[i].state = "stale" => entry[i].times <= 1 + Paid'
    BY <1>1 DEF EntryInv
  <1>4. entry[i].state = "pending" => entry[i].times <= 1 + Paid' \/ (InHand(i)' /\ entry[i].times <= 2 + Paid')
    BY <1>1 DEF EntryInv
  <1> QED BY <1>2, <1>3, <1>4 DEF EntryInv

LEMMA HandFrame ==
  ASSUME NEW v \in Workers, TypeOK, TypeOK', HandInv(v), wpc'[v] = wpc[v], wmsg'[v] = wmsg[v],
         nextId <= nextId', Paid <= Paid',
         \A i \in Ids : entry[i].state = "gone" => entry'[i].state = "gone"
  PROVE  HandInv(v)'
  <1>1. nextId \in Nat /\ nextId' \in Nat /\ Paid \in Nat /\ Paid' \in Nat
    BY DeliveryAssumption DEF TypeOK, Paid, Ids
  <1>2. CASE wpc[v] \in Handling
    <2>1. /\ wmsg[v].id \in 1 .. (nextId - 1) /\ wmsg[v].id \in Ids
          /\ wmsg[v].attempts <= MaxAttempts[wmsg[v].task] + Paid
      BY <1>2, Numbers DEF HandInv
    <2>2. wmsg[v].task \in Tasks /\ wmsg[v].attempts \in Nat
      BY <1>2, Numbers DEF TypeOK, Handling
    <2>3. MaxAttempts[wmsg[v].task] \in Nat
      BY <2>2, Numbers
    <2> QED BY <1>1, <1>2, <2>1, <2>2, <2>3 DEF HandInv
  <1>3. CASE wpc[v] \notin Handling
    BY <1>3 DEF HandInv, Handling
  <1> QED BY <1>2, <1>3

LEMMA RowFrame ==
  ASSUME NEW t \in Tasks, TypeOK, TypeOK', RowInv(t), store'[t].attempts = store[t].attempts, Paid <= Paid'
  PROVE  RowInv(t)'
  <1>1. Paid \in Nat /\ Paid' \in Nat /\ store[t].attempts \in Nat /\ MaxAttempts[t] \in Nat
    <2>1. Paid' \in Nat
      BY DeliveryAssumption DEF TypeOK, Paid
    <2> QED BY <2>1, Numbers
  <1> QED BY <1>1 DEF RowInv

\* Who holds an entry changes only with the worker that moves.
LEMMA HandsAround ==
  ASSUME NEW w \in Workers, NEW i, \A v \in Workers \ {w} : wpc'[v] = wpc[v] /\ wmsg'[v] = wmsg[v],
         HeldBy(w, i)' <=> HeldBy(w, i)
  PROVE  InHand(i)' <=> InHand(i)
  BY DEF InHand, HeldBy

LEMMA SameHands ==
  ASSUME wpc' = wpc, wmsg' = wmsg, NEW i
  PROVE  InHand(i)' <=> InHand(i)
  BY DEF InHand, HeldBy

LEMMA PaidGrows ==
  ASSUME TypeOK, TypeOK'
  PROVE  /\ incidents' = incidents => Paid' = Paid
         /\ (\E kind : Incident(kind)) => Paid <= Paid'
         /\ Incident("worker_crash") \/ Incident("slow_worker") => Paid' = Paid + 1
  <1>1. incidents \in Nat /\ incidents' \in Nat
    BY DeliveryAssumption DEF TypeOK
  <1> QED BY <1>1 DEF Paid, Incident

\* One entry is added.
LEMMA XaddKeeps ==
  ASSUME AttemptInv, TypeOK', NEW u \in Tasks, NEW n \in Nat, NEW s \in {"fresh", "dlq"}, Xadd(u, n, s),
         s = "fresh" => n <= MaxAttempts[u],
         \A i \in Ids : InHand(i)' <=> InHand(i), Paid <= Paid'
  PROVE  /\ \A i \in Ids : EntryInv(i)'
         /\ nextId <= nextId'
         /\ \A i \in Ids : entry[i].state = "gone" => entry'[i].state = "gone"
  <1>1. nextId \in Ids /\ nextId \in Nat /\ Ids \subseteq Nat /\ nextId' = nextId + 1 /\ TypeOK
    BY Numbers DEF Xadd, AttemptInv
  <1>k. PICK k \in Ids : k = nextId
    BY <1>1
  <1>2. entry[k] = Unused /\ ~InHand(k)
    BY <1>1, <1>k DEF AttemptInv, EntryInv, InHand, HeldBy, HandInv
  <1>3. /\ entry'[k] = [task |-> u, attempts |-> n, times |-> 0, state |-> s]
        /\ \A i \in Ids \ {k} : entry'[i] = entry[i]
    BY <1>1, <1>k, Numbers DEF Xadd
  <1>4. EntryInv(k)'
    BY <1>1, <1>k, <1>2, <1>3 DEF EntryInv
  <1>5. ASSUME NEW i \in Ids \ {k} PROVE EntryInv(i)'
    BY <1>1, <1>3, <1>5, EntryFrame DEF AttemptInv
  <1> QED BY <1>1, <1>2, <1>3, <1>4, <1>5 DEF Unused

\* One entry is forgotten.
LEMMA ForgetKeeps ==
  ASSUME AttemptInv, TypeOK', NEW x \in 1 .. (nextId - 1), Forget(x), nextId' = nextId,
         \A i \in Ids \ {x} : InHand(i)' <=> InHand(i), Paid <= Paid'
  PROVE  /\ \A i \in Ids : EntryInv(i)'
         /\ \A i \in Ids : entry[i].state = "gone" => entry'[i].state = "gone"
         /\ entry'[x].state = "gone"
  <1>1. x \in Ids /\ nextId \in Nat /\ Ids \subseteq Nat /\ TypeOK
    BY Numbers DEF AttemptInv
  <1>2. entry'[x] = Gone /\ \A i \in Ids \ {x} : entry'[i] = entry[i]
    BY <1>1, Numbers DEF Forget
  <1>3. EntryInv(x)'
    BY <1>1, <1>2 DEF EntryInv, Gone, Unused
  <1>4. ASSUME NEW i \in Ids \ {x} PROVE EntryInv(i)'
    BY <1>1, <1>2, <1>4, EntryFrame DEF AttemptInv
  <1> QED BY <1>1, <1>2, <1>3, <1>4 DEF Gone, Unused

-----------------------------------------------------------------------------
\* Steps of producers, time and the operator: nobody's hands change.

LEMMA AttemptStill ==
  ASSUME AttemptInv, TypeOK', UNCHANGED <<entry, nextId, wpc, wmsg>>, Paid <= Paid',
         \A t \in Tasks : store'[t].attempts = store[t].attempts
  PROVE  AttemptInv'
  <1>0. TypeOK /\ nextId <= nextId'
    BY Numbers DEF AttemptInv
  <1>1. ASSUME NEW i \in Ids PROVE EntryInv(i)'
    BY <1>0, EntryFrame, SameHands DEF AttemptInv
  <1>2. ASSUME NEW v \in Workers PROVE HandInv(v)'
    BY <1>0, HandFrame DEF AttemptInv
  <1>3. ASSUME NEW t \in Tasks PROVE RowInv(t)'
    BY <1>0, RowFrame DEF AttemptInv
  <1> QED BY <1>1, <1>2, <1>3 DEF AttemptInv

LEMMA AttemptXadd ==
  ASSUME AttemptInv, TypeOK', NEW u \in Tasks, Xadd(u, 1, "fresh"), wpc' = wpc, wmsg' = wmsg,
         store' = store, Paid <= Paid'
  PROVE  AttemptInv'
  <1>0. TypeOK /\ 1 <= MaxAttempts[u]
    BY Numbers DEF AttemptInv
  <1>1. /\ \A i \in Ids : EntryInv(i)'
        /\ nextId <= nextId'
        /\ \A i \in Ids : entry[i].state = "gone" => entry'[i].state = "gone"
    BY <1>0, XaddKeeps, SameHands
  <1>2. ASSUME NEW v \in Workers PROVE HandInv(v)'
    BY <1>0, <1>1, HandFrame DEF AttemptInv
  <1>3. ASSUME NEW t \in Tasks PROVE RowInv(t)'
    BY <1>0, RowFrame DEF AttemptInv
  <1> QED BY <1>1, <1>2, <1>3 DEF AttemptInv

LEMMA UpdateAttempts ==
  ASSUME TypeOK, NEW t, NEW row, UpdateTask(t, row), row.attempts = store[t].attempts, NEW u \in Tasks
  PROVE  store'[u].attempts = store[u].attempts
  BY DEF UpdateTask, TypeOK

LEMMA ProducersPayNothing ==
  ASSUME AttemptInv, TypeOK', NEW t \in Tasks,
         \/ Add(t) \/ Produce(t) \/ ClaimError(t) \/ AddError(t) \/ ProducerCrash(t) \/ Delete(t) \/ Age(t)
  PROVE  AttemptInv'
  <1>0. TypeOK /\ Paid \in Nat
    BY Numbers DEF AttemptInv
  <1>p. Paid <= Paid'
    <2>1. incidents' = incidents \/ \E kind : Incident(kind)
      BY DEF Add, Produce, ClaimBizKey, ClaimTaskKey, AddEntry, Report, ClaimError, AddError, ProducerCrash, Delete, Age
    <2> QED BY <1>0, <2>1, PaidGrows
  <1>1. CASE Add(t) \/ ClaimBizKey(t) \/ ClaimTaskKey(t) \/ ClaimError(t) \/ ProducerCrash(t) \/ Delete(t) \/ Age(t)
    <2>1. UNCHANGED <<entry, nextId, wpc, wmsg>>
      BY <1>1 DEF Add, ClaimBizKey, ClaimTaskKey, ClaimError, ProducerCrash, Delete, Age, redisVars, workerVars
    <2>2. \A u \in Tasks : store'[u].attempts = store[u].attempts
      BY <1>0, <1>1 DEF Add, ClaimBizKey, ClaimTaskKey, ClaimError, ProducerCrash, Delete, Age, TypeOK, Rows
    <2> QED BY <1>p, <2>1, <2>2, AttemptStill
  <1>2. CASE Report(t)
    <2>1. UNCHANGED <<entry, nextId, wpc, wmsg>>
      BY <1>2 DEF Report, redisVars, workerVars
    <2>2. [store[t] EXCEPT !.queue = ppc[t]].attempts = store[t].attempts
      BY <1>0 DEF TypeOK, Rows
    <2>3. \A u \in Tasks : store'[u].attempts = store[u].attempts
      BY <1>0, <1>2, <2>2, UpdateAttempts DEF Report
    <2> QED BY <1>p, <2>1, <2>3, AttemptStill
  <1>3. CASE AddEntry(t) \/ AddError(t)
    <2>1. UNCHANGED <<store, wpc, wmsg>>
      BY <1>3 DEF AddEntry, AddError, workerVars
    <2>2. CASE Xadd(t, 1, "fresh")
      BY <1>p, <2>1, <2>2, AttemptXadd
    <2>3. CASE UNCHANGED <<entry, nextId>>
      BY <1>p, <2>1, <2>3, AttemptStill
    <2> QED BY <1>3, <2>2, <2>3 DEF AddEntry, AddError
  <1> QED BY <1>1, <1>2, <1>3 DEF Produce

-----------------------------------------------------------------------------
\* Steps of a worker.

\* Worker w moves, and its hand and the rows are as they should be afterwards.
LEMMA AttemptMove ==
  ASSUME AttemptInv, TypeOK', NEW w \in Workers, Moves(w), nextId <= nextId', Paid <= Paid',
         \A i \in Ids : EntryInv(i)',
         \A i \in Ids : entry[i].state = "gone" => entry'[i].state = "gone",
         HandInv(w)', \A t \in Tasks : RowInv(t)'
  PROVE  AttemptInv'
  <1>1. ASSUME NEW v \in Workers PROVE HandInv(v)'
    BY HandFrame DEF AttemptInv, Moves
  <1> QED BY <1>1 DEF AttemptInv

LEMMA RowsStay ==
  ASSUME AttemptInv, TypeOK', \A t \in Tasks : store'[t].attempts = store[t].attempts, Paid <= Paid'
  PROVE  \A t \in Tasks : RowInv(t)'
  BY RowFrame DEF AttemptInv

LEMMA EntriesStay ==
  ASSUME AttemptInv, TypeOK', entry' = entry, nextId' = nextId, Paid <= Paid',
         \A i \in Ids : InHand(i)' => InHand(i),
         \A i \in Ids : InHand(i) => InHand(i)' \/ Paid' = Paid + 1 \/ entry[i].state # "pending"
  PROVE  \A i \in Ids : EntryInv(i)'
  <1>1. TypeOK /\ nextId <= nextId'
    BY Numbers DEF AttemptInv
  <1> QED BY <1>1, EntryFrame DEF AttemptInv

\* An entry is delivered: n attempts are received, and what is delivered beside it waits.
LEMMA AttemptDelivery ==
  ASSUME AttemptInv, TypeOK', NEW w \in Workers, ClaimStale(w) \/ ReadNew(w)
  PROVE  AttemptInv'
  <1>1. /\ TypeOK /\ wpc[w] = "idle" /\ Moves(w)
        /\ UNCHANGED <<store, nextId, incidents>>
    BY DEF ClaimStale, ReadNew, Receive, Goto, Moves, AttemptInv, TypeOK
  <1>2. Paid' = Paid /\ Paid \in Nat /\ nextId \in Nat
    BY <1>1, PaidGrows, Numbers
  <1>3. ASSUME NEW k \in Ids, NEW n \in Nat, Receive(w, k, n), entry[k].state \in {"fresh", "stale"},
               n <= MaxAttempts[entry[k].task] + Paid, entry'[k].state = "pending",
               entry'[k].attempts = entry[k].attempts, entry'[k].task = entry[k].task,
               entry'[k].times <= 2 + Paid,
               \A i \in Ids \ {k} :
                  \/ entry'[i] = entry[i]
                  \/ /\ entry[i].state = "fresh" /\ entry'[i].state = "pending" /\ entry'[i].times = 1
                     /\ entry'[i].task = entry[i].task /\ entry'[i].attempts = entry[i].attempts
        PROVE  AttemptInv'
    <2>1. /\ wpc' = [wpc EXCEPT ![w] = "got"]
          /\ wmsg'[w] = [id |-> k, task |-> entry[k].task, attempts |-> n]
          /\ wpc'[w] = "got" /\ HeldBy(w, k)' /\ ~HeldBy(w, k)
          /\ \A i \in Ids \ {k} : HeldBy(w, i)' <=> HeldBy(w, i)
      BY <1>1, <1>3 DEF Receive, Goto, HeldBy, Handling, TypeOK
    <2>2. InHand(k)' /\ \A i \in Ids \ {k} : InHand(i)' <=> InHand(i)
      <3>1. InHand(k)'
        BY <2>1 DEF InHand
      <3> QED BY <1>1, <2>1, <3>1, HandsAround DEF Moves
    <2>3. k \in Nat /\ k < nextId /\ EntryInv(k)
      BY <1>1, <1>2, <1>3, Numbers DEF AttemptInv, EntryInv, Unused
    <2>4. EntryInv(k)'
      <3>1. k >= nextId' => entry'[k] = Unused
        BY <1>1, <1>2, <2>3
      <3>2. entry'[k].attempts <= MaxAttempts[entry'[k].task]
        BY <1>3, <2>3 DEF EntryInv
      <3> QED BY <1>2, <1>3, <2>2, <3>1, <3>2 DEF EntryInv
    <2>5. ASSUME NEW i \in Ids \ {k} PROVE EntryInv(i)'
      <3>1. CASE entry'[i] = entry[i]
        BY <1>1, <1>2, <2>2, <3>1, EntryFrame DEF AttemptInv
      <3>2. CASE entry'[i] # entry[i]
        <4>1. EntryInv(i) /\ entry[i].state = "fresh"
          BY <1>3, <2>5, <3>2 DEF AttemptInv
        <4>2. i \in Nat /\ i < nextId
          BY <1>1, <1>2, <4>1, Numbers DEF EntryInv, Unused
        <4>3. /\ entry'[i].state = "pending" /\ entry'[i].times = 1
              /\ entry'[i].attempts <= MaxAttempts[entry'[i].task]
          BY <1>3, <3>2, <4>1 DEF EntryInv
        <4>4. i >= nextId' => entry'[i] = Unused
          BY <1>1, <1>2, <4>2
        <4> QED BY <1>2, <4>3, <4>4 DEF EntryInv
      <3> QED BY <3>1, <3>2
    <2>6. HandInv(w)'
      <3>1. wmsg'[w].id \in 1 .. (nextId' - 1)
        BY <1>1, <1>2, <2>1, <2>3 DEF Ids
      <3> QED BY <1>2, <1>3, <2>1, <3>1 DEF HandInv
    <2>7. \A i \in Ids : entry[i].state = "gone" => entry'[i].state = "gone"
      BY <1>3
    <2>8. \A t \in Tasks : RowInv(t)'
      BY <1>1, <1>2, RowsStay
    <2> QED BY <1>1, <1>2, <2>4, <2>5, <2>6, <2>7, <2>8, AttemptMove
  <1>4. CASE ClaimStale(w)
    <2>1. PICK k \in Ids : /\ entry[k].state = "stale"
                           /\ Receive(w, k, MaxOf(entry[k].attempts, entry[k].times))
                           /\ entry' = [entry EXCEPT ![k].state = "pending",
                                                     ![k].times = entry[k].times + 1]
      BY <1>4 DEF ClaimStale, OnHigh, Oldest, InState
    <2>2. EntryInv(k) /\ entry[k].attempts \in Nat /\ entry[k].times \in Nat /\ MaxAttempts[entry[k].task] \in Nat
          /\ MaxAttempts[entry[k].task] >= 1
      BY <1>1, <2>1, Numbers DEF AttemptInv
    <2>3. /\ MaxOf(entry[k].attempts, entry[k].times) \in Nat
          /\ MaxOf(entry[k].attempts, entry[k].times) <= MaxAttempts[entry[k].task] + Paid
      BY <1>2, <2>1, <2>2 DEF EntryInv, MaxOf
    <2>4. /\ entry'[k].state = "pending" /\ entry'[k].times = entry[k].times + 1
          /\ entry'[k].attempts = entry[k].attempts /\ entry'[k].task = entry[k].task
          /\ \A i \in Ids \ {k} : entry'[i] = entry[i]
      BY <1>1, <2>1 DEF TypeOK, EntriesTyped, Entries
    <2>5. entry'[k].times <= 2 + Paid
      BY <1>2, <2>1, <2>2, <2>4 DEF EntryInv
    <2> HIDE DEF MaxOf
    <2> QED BY <1>3, <2>1, <2>3, <2>4, <2>5
  <1>5. CASE ReadNew(w)
    <2> DEFINE fresh == InState("fresh")
               delivered == Oldest(OnHigh(fresh)) \cup Oldest(OnNormal(fresh))
    <2>1. \A i \in delivered : i \in Ids /\ entry[i].state = "fresh"
      BY DEF InState, Oldest, OnHigh, OnNormal
    <2>2. /\ \E i \in delivered : Receive(w, i, entry[i].attempts)
          /\ entry' = [i \in Ids |->
               IF i \in delivered THEN [entry[i] EXCEPT !.state = "pending", !.times = 1]
                                  ELSE entry[i]]
      BY <1>5 DEF ReadNew
    <2> HIDE DEF delivered
    <2>3. PICK k \in delivered : Receive(w, k, entry[k].attempts)
      BY <2>2
    <2>4. \A i \in Ids : IF i \in delivered
            THEN /\ entry'[i].state = "pending" /\ entry'[i].times = 1
                 /\ entry'[i].task = entry[i].task /\ entry'[i].attempts = entry[i].attempts
            ELSE entry'[i] = entry[i]
      <3>1. ASSUME NEW e \in Entries
            PROVE  LET d == [e EXCEPT !.state = "pending", !.times = 1] IN
                     d.state = "pending" /\ d.times = 1 /\ d.task = e.task /\ d.attempts = e.attempts
        BY DEF Entries
      <3>2. \A i \in Ids : entry[i] \in Entries
        BY <1>1, Numbers
      <3> QED BY <2>2, <3>1, <3>2
    <2>5. entry[k].attempts \in Nat /\ MaxAttempts[entry[k].task] \in Nat /\ EntryInv(k) /\ k \in Ids
      BY <1>1, <2>1, <2>3, Numbers DEF AttemptInv
    <2>6. entry[k].attempts <= MaxAttempts[entry[k].task] + Paid /\ entry'[k].times <= 2 + Paid
      BY <1>2, <2>1, <2>3, <2>4, <2>5 DEF EntryInv
    <2> QED BY <1>3, <2>1, <2>3, <2>4, <2>5, <2>6
  <1> QED BY <1>4, <1>5

\* The worker keeps its message and leaves the streams alone.
LEMMA AttemptOnward ==
  ASSUME AttemptInv, TypeOK', NEW w \in Workers,
         \/ Lookup(w) /\ UNCHANGED <<entry, wmsg>> /\ Goto(w, "start")
         \/ Start(w) \/ Review(w) \/ Complete(w)
         \/ AckError(w) /\ UNCHANGED entry
  PROVE  AttemptInv'
  <1>1. /\ TypeOK /\ wpc[w] \in Handling /\ wpc'[w] \in Handling \ {"setPending", "setFailed"}
        /\ Moves(w) /\ UNCHANGED <<entry, nextId, wmsg>>
    <2>1. TypeOK /\ UNCHANGED <<entry, nextId, wmsg, wsnap>>
      BY DEF Lookup, Start, Review, Complete, AckError, redisVars, AttemptInv
    <2>2. wpc[w] \in {"got", "start", "review", "reviewed", "acking"}
      BY DEF Lookup, Start, Review, Complete, AckError
    <2>3. \E pc \in {"start", "review", "reviewed", "failing", "acking"} : Goto(w, pc)
      BY DEF Lookup, Start, Review, Complete, AckError
    <2> QED BY <2>1, <2>2, <2>3 DEF Goto, Handling, Moves, TypeOK
  <1>2. Paid <= Paid' /\ Paid \in Nat /\ Paid' \in Nat /\ nextId \in Nat
    <2>1. incidents' = incidents \/ \E kind : Incident(kind)
      BY DEF Lookup, Start, Review, Complete, AckError
    <2>2. Paid' \in Nat /\ Paid \in Nat
      BY <1>1, DeliveryAssumption DEF TypeOK, Paid
    <2> QED BY <1>1, <2>1, <2>2, PaidGrows, Numbers
  <1>3. ASSUME NEW i \in Ids PROVE InHand(i)' <=> InHand(i)
    BY <1>1, HandsAround DEF Moves, HeldBy
  <1>4. \A i \in Ids : EntryInv(i)'
    BY <1>1, <1>2, <1>3, EntriesStay
  <1>5. /\ wmsg[w].id \in 1 .. (nextId - 1) /\ wmsg[w].task \in Tasks /\ wmsg[w].attempts \in Nat
        /\ wmsg[w].attempts <= MaxAttempts[wmsg[w].task] + Paid
        /\ MaxAttempts[wmsg[w].task] \in Nat
    <2>1. wmsg[w].task \in Tasks
      BY <1>1 DEF TypeOK, Handling
    <2> QED BY <1>1, <2>1, Numbers DEF AttemptInv, HandInv
  <1>6. HandInv(w)'
    BY <1>1, <1>2, <1>5 DEF HandInv
  <1>7. ASSUME NEW t \in Tasks PROVE RowInv(t)'
    <2>1. CASE store'[t].attempts = store[t].attempts
      BY <1>1, <1>2, <2>1, RowFrame DEF AttemptInv
    <2>2. CASE Start(w) /\ t = wmsg[w].task
      <3>1. UpdateTask(t, [store[t] EXCEPT !.status = "running", !.attempts = wmsg[w].attempts])
        BY <2>2 DEF Start
      <3>2. store'[t].attempts \in {store[t].attempts, wmsg[w].attempts}
        BY <1>1, <3>1 DEF UpdateTask, TypeOK, Rows
      <3>3. RowInv(t) /\ store[t].attempts \in Nat
        BY <1>1, Numbers DEF AttemptInv
      <3> QED BY <1>2, <1>5, <2>2, <3>2, <3>3 DEF RowInv
    <2>3. CASE Start(w) /\ t # wmsg[w].task
      BY <1>1, <2>3, <2>1 DEF Start, UpdateTask, TypeOK
    <2>4. CASE Complete(w)
      <3>1. wmsg[w].task \in Tasks => [store[wmsg[w].task] EXCEPT !.status = "completed"].attempts = store[wmsg[w].task].attempts
        BY <1>1 DEF TypeOK, Rows
      <3> QED BY <1>1, <1>5, <2>1, <2>4, <3>1, UpdateAttempts DEF Complete
    <2>5. CASE store' = store
      BY <2>1, <2>5
    <2> QED BY <2>2, <2>3, <2>4, <2>5 DEF Lookup, Review, AckError
  <1> QED BY <1>1, <1>2, <1>4, <1>6, <1>7, AttemptMove

\* The worker forgets the entry in its hand.
LEMMA AttemptForget ==
  ASSUME AttemptInv, TypeOK', NEW w \in Workers,
         \/ Lookup(w) /\ Forget(wmsg[w].id) /\ Finish(w)
         \/ Ack(w) \/ FailAck(w)
         \/ AckError(w) /\ Forget(wmsg[w].id)
  PROVE  AttemptInv'
  <1>1. /\ TypeOK /\ wpc[w] \in Handling /\ Forget(wmsg[w].id) /\ UNCHANGED <<store, nextId>>
        /\ Moves(w)
        /\ \/ wpc'[w] = "idle"
           \/ wpc'[w] \in Handling /\ wmsg' = wmsg
    <2>1. TypeOK /\ Forget(wmsg[w].id) /\ UNCHANGED <<store, nextId, wsnap>>
      BY DEF Lookup, Ack, FailAck, AckError, AttemptInv
    <2>2. wpc[w] \in {"got", "acking", "ackRequeued", "ackDead"}
      BY DEF Lookup, Ack, FailAck, AckError
    <2>3. \/ Finish(w)
          \/ wmsg' = wmsg /\ \E pc \in {"failing", "setPending", "setFailed"} : Goto(w, pc)
      BY DEF Lookup, Ack, FailAck, AckError
    <2> QED BY <2>1, <2>2, <2>3 DEF Finish, Goto, Handling, Moves, TypeOK
  <1>2. Paid <= Paid' /\ Paid \in Nat /\ Paid' \in Nat /\ nextId \in Nat
    <2>1. incidents' = incidents \/ \E kind : Incident(kind)
      BY DEF Lookup, Ack, FailAck, AckError
    <2>2. Paid' \in Nat /\ Paid \in Nat
      BY <1>1, DeliveryAssumption DEF TypeOK, Paid
    <2> QED BY <1>1, <2>1, <2>2, PaidGrows, Numbers
  <1>x. PICK x \in 1 .. (nextId - 1) : x = wmsg[w].id
    BY <1>1 DEF AttemptInv, HandInv
  <1>3. ASSUME NEW i \in Ids \ {x} PROVE InHand(i)' <=> InHand(i)
    <2>1. ~HeldBy(w, i) /\ ~HeldBy(w, i)'
      BY <1>1, <1>x, <1>3 DEF HeldBy, Handling
    <2> QED BY <1>1, <2>1, HandsAround DEF Moves
  <1>4. /\ \A i \in Ids : EntryInv(i)'
        /\ \A i \in Ids : entry[i].state = "gone" => entry'[i].state = "gone"
        /\ entry'[x].state = "gone"
    BY <1>1, <1>2, <1>x, <1>3, ForgetKeeps
  <1>5. HandInv(w)'
    <2>1. CASE wpc'[w] = "idle"
      BY <2>1 DEF HandInv, Handling
    <2>2. CASE wpc'[w] \in Handling /\ wmsg' = wmsg
      <3>1. wmsg[w].task \in Tasks
        BY <1>1 DEF TypeOK, Handling
      <3>2. /\ wmsg[w].attempts \in Nat /\ MaxAttempts[wmsg[w].task] \in Nat
            /\ wmsg[w].attempts <= MaxAttempts[wmsg[w].task] + Paid
        BY <1>1, <3>1, Numbers DEF AttemptInv, HandInv
      <3> QED BY <1>1, <1>2, <1>x, <1>4, <2>2, <3>2 DEF HandInv
    <2> QED BY <1>1, <2>1, <2>2
  <1>6. \A t \in Tasks : RowInv(t)'
    BY <1>1, <1>2, RowsStay
  <1> QED BY <1>1, <1>2, <1>4, <1>5, <1>6, AttemptMove

\* The worker lets its message go: it is done with it, or it dies.
LEMMA AttemptRelease ==
  ASSUME AttemptInv, TypeOK', NEW w \in Workers, WriteBack(w) \/ WorkerCrash(w)
  PROVE  AttemptInv'
  <1>1. TypeOK /\ Finish(w) /\ wpc[w] \in Handling /\ UNCHANGED <<entry, nextId, wsnap>>
    BY DEF WriteBack, WorkerCrash, redisVars, AttemptInv, Handling
  <1>2. Moves(w) /\ wpc'[w] = "idle"
    BY <1>1 DEF Finish, Goto, Moves, TypeOK
  <1>3. Paid \in Nat /\ Paid <= Paid' /\ (WorkerCrash(w) => Paid' = Paid + 1)
    <2>1. IF WorkerCrash(w) THEN Incident("worker_crash") ELSE incidents' = incidents
      BY DEF WriteBack, WorkerCrash
    <2> QED BY <1>1, <2>1, PaidGrows, Numbers
  <1>4. ASSUME NEW i \in Ids
        PROVE  /\ InHand(i)' => InHand(i)
               /\ InHand(i) => InHand(i)' \/ Paid' = Paid + 1 \/ entry[i].state # "pending"
    <2>1. ~HeldBy(w, i)'
      BY <1>2 DEF HeldBy, Handling
    <2>2. CASE ~HeldBy(w, i)
      BY <1>2, <2>1, <2>2, HandsAround DEF Moves
    <2>3. CASE HeldBy(w, i)
      <3>1. InHand(i)
        BY <2>3 DEF InHand
      <3>2. CASE WriteBack(w)
        <4>1. entry[i].state = "gone"
          BY <2>3, <3>2 DEF WriteBack, AttemptInv, HandInv, HeldBy
        <4> QED BY <3>1, <4>1
      <3> QED BY <1>3, <3>1, <3>2
    <2> QED BY <2>2, <2>3
  <1>5. \A i \in Ids : EntryInv(i)'
    BY <1>1, <1>3, <1>4, EntriesStay
  <1>6. \A t \in Tasks : store'[t].attempts = store[t].attempts
    <2>1. CASE WriteBack(w)
      <3>1. PICK s \in Statuses : UpdateTask(wmsg[w].task, [store[wmsg[w].task] EXCEPT !.status = s])
        BY <2>1 DEF WriteBack, Statuses
      <3>2. wmsg[w].task \in Tasks
        BY <1>1 DEF TypeOK, Handling
      <3>3. [store[wmsg[w].task] EXCEPT !.status = s].attempts = store[wmsg[w].task].attempts
        BY <1>1, <3>2 DEF TypeOK, Rows
      <3> QED BY <1>1, <3>1, <3>3, UpdateAttempts
    <2>2. CASE WorkerCrash(w)
      BY <2>2 DEF WorkerCrash
    <2> QED BY <2>1, <2>2
  <1>7. HandInv(w)'
    BY <1>2 DEF HandInv, Handling
  <1>8. nextId <= nextId' /\ \A t \in Tasks : RowInv(t)'
    BY <1>1, <1>3, <1>6, RowsStay, Numbers
  <1> QED BY <1>1, <1>2, <1>3, <1>5, <1>7, <1>8, AttemptMove

\* bus.fail adds the next attempt, within the limit, or a dead letter.
LEMMA AttemptFail ==
  ASSUME AttemptInv, TypeOK', NEW w \in Workers, Fail(w)
  PROVE  AttemptInv'
  <1>1. TypeOK /\ wpc[w] = "failing" /\ UNCHANGED <<store, wmsg, wsnap, incidents>>
    BY DEF Fail, AttemptInv
  <1>2. PICK pc \in {"ackDead", "ackRequeued"} : Goto(w, pc)
    BY DEF Fail
  <1>3. Moves(w) /\ wpc[w] \in Handling /\ wpc'[w] \in Handling \ {"setPending", "setFailed"}
    BY <1>1, <1>2 DEF Goto, Moves, TypeOK, Handling
  <1>4. Paid' = Paid /\ Paid \in Nat
    BY <1>1, PaidGrows, Numbers
  <1>5. \A i \in Ids : InHand(i)' <=> InHand(i)
    BY <1>1, <1>3, HandsAround DEF Moves, HeldBy
  <1>6. wmsg[w].task \in Tasks /\ wmsg[w].attempts \in Nat /\ MaxAttempts[wmsg[w].task] \in Nat
    <2>1. wmsg[w].task \in Tasks
      BY <1>1 DEF TypeOK
    <2> QED BY <1>1, <2>1, Numbers
  <1>7. PICK n \in Nat, s \in {"fresh", "dlq"} :
          Xadd(wmsg[w].task, n, s) /\ (s = "fresh" => n <= MaxAttempts[wmsg[w].task])
    <2>1. CASE wmsg[w].attempts >= MaxAttempts[wmsg[w].task]
      BY <1>6, <2>1 DEF Fail
    <2>2. CASE ~(wmsg[w].attempts >= MaxAttempts[wmsg[w].task])
      <3>1. Xadd(wmsg[w].task, wmsg[w].attempts + 1, "fresh")
        BY <2>2 DEF Fail
      <3> QED BY <1>6, <2>2, <3>1
    <2> QED BY <2>1, <2>2
  <1>8. /\ \A i \in Ids : EntryInv(i)'
        /\ nextId <= nextId'
        /\ \A i \in Ids : entry[i].state = "gone" => entry'[i].state = "gone"
    BY <1>4, <1>5, <1>6, <1>7, XaddKeeps
  <1>9. nextId \in Nat /\ nextId' \in Nat
    BY <1>1, DeliveryAssumption DEF TypeOK, Ids
  <1>10. HandInv(w)'
    BY <1>1, <1>3, <1>4, <1>8, <1>9 DEF AttemptInv, HandInv
  <1>11. \A t \in Tasks : RowInv(t)'
    BY <1>1, <1>4, RowsStay
  <1> QED BY <1>3, <1>4, <1>8, <1>10, <1>11, AttemptMove

\* A sweep holds no entry.
LEMMA AttemptSweep ==
  ASSUME AttemptInv, TypeOK', NEW w \in Workers,
         \/ BeginSweep(w) \/ SweepClaim(w) \/ SweepAdd(w) \/ SweepReport(w)
         \/ SweepAddError(w) \/ SweepCrash(w)
  PROVE  AttemptInv'
  <1>0. TypeOK
    BY DEF AttemptInv
  <1>1. wpc[w] \notin Handling /\ wpc'[w] \notin Handling /\ Moves(w)
    <2>1. wpc[w] \in {"idle"} \cup Sweeping
      BY DEF BeginSweep, SweepClaim, SweepAdd, SweepReport, SweepAddError, SweepCrash, Sweeping
    <2>2. \E pc \in {"idle"} \cup Sweeping : Goto(w, pc)
      BY DEF BeginSweep, SweepClaim, SweepAdd, SweepReport, SweepAddError, SweepCrash, Sweeping, Finish
    <2>3. \A v \in Workers \ {w} : wmsg'[v] = wmsg[v] /\ wsnap'[v] = wsnap[v]
      BY <1>0 DEF BeginSweep, SweepClaim, SweepAdd, SweepReport, SweepAddError, SweepCrash, Finish, TypeOK
    <2> QED BY <1>0, <2>1, <2>2, <2>3 DEF Goto, Moves, TypeOK, Handling, Sweeping
  <1>2. Paid <= Paid' /\ Paid \in Nat
    <2>1. incidents' = incidents \/ \E kind : Incident(kind)
      BY DEF BeginSweep, SweepClaim, SweepAdd, SweepReport, SweepAddError, SweepCrash
    <2>2. Paid \in Nat
      BY <1>0, Numbers
    <2> QED BY <1>0, <2>1, <2>2, PaidGrows
  <1>3. \A i \in Ids : InHand(i)' <=> InHand(i)
    BY <1>1, HandsAround DEF Moves, HeldBy
  <1>4. \A t \in Tasks : store'[t].attempts = store[t].attempts
    <2>1. CASE SweepReport(w)
      <3>1. PICK q \in Outbox : UpdateTask(wmsg[w].task, [store[wmsg[w].task] EXCEPT !.queue = q])
        BY <2>1 DEF SweepReport, Outbox
      <3>2. wmsg[w].task \in Tasks
        BY <1>0, <2>1 DEF TypeOK, SweepReport
      <3>3. [store[wmsg[w].task] EXCEPT !.queue = q].attempts = store[wmsg[w].task].attempts
        BY <1>0, <3>2 DEF TypeOK, Rows
      <3> QED BY <1>0, <3>1, <3>3, UpdateAttempts
    <2>2. CASE store' = store
      BY <2>2
    <2> QED BY <2>1, <2>2 DEF BeginSweep, SweepClaim, SweepAdd, SweepAddError, SweepCrash
  <1>5. /\ \A i \in Ids : EntryInv(i)'
        /\ nextId <= nextId'
        /\ \A i \in Ids : entry[i].state = "gone" => entry'[i].state = "gone"
    <2>1. CASE UNCHANGED <<entry, nextId>>
      <3>1. nextId <= nextId'
        BY <1>0, <2>1, Numbers
      <3> QED BY <1>2, <1>3, <2>1, <3>1, EntriesStay
    <2>2. CASE (SweepAdd(w) \/ SweepAddError(w)) /\ Xadd(wmsg[w].task, 1, "fresh")
      <3>1. wmsg[w].task \in Tasks
        BY <1>0, <2>2 DEF TypeOK, SweepAdd, SweepAddError
      <3>2. 1 <= MaxAttempts[wmsg[w].task]
        BY <1>0, <3>1, Numbers
      <3> QED BY <1>2, <1>3, <2>2, <3>1, <3>2, XaddKeeps
    <2> QED BY <2>1, <2>2
         DEF BeginSweep, SweepClaim, SweepAdd, SweepReport, SweepAddError, SweepCrash, redisVars
  <1>6. HandInv(w)'
    BY <1>1 DEF HandInv, Handling
  <1> QED BY <1>1, <1>2, <1>4, <1>5, <1>6, RowsStay, AttemptMove

-----------------------------------------------------------------------------
\* An entry has waited long enough; in the hands of a worker, that is an incident.
LEMMA AttemptStale ==
  ASSUME AttemptInv, TypeOK', NEW k \in Ids, GoStale(k) \/ Outlive(k)
  PROVE  AttemptInv'
  <1>1. /\ TypeOK /\ UNCHANGED <<store, nextId, wpc, wmsg>> /\ entry[k].state = "pending"
        /\ entry' = [entry EXCEPT ![k].state = "stale"]
    BY DEF GoStale, Outlive, workerVars, AttemptInv
  <1>2. /\ Paid \in Nat /\ nextId <= nextId' /\ Paid <= Paid'
        /\ InHand(k) => Paid' = Paid + 1
    <2>1. CASE GoStale(k)
      BY <1>1, <2>1, PaidGrows, Numbers DEF GoStale, InHand
    <2>2. CASE Outlive(k)
      BY <1>1, <2>2, PaidGrows, Numbers DEF Outlive
    <2> QED BY <2>1, <2>2
  <1>3. /\ entry'[k] = [entry[k] EXCEPT !.state = "stale"]
        /\ \A i \in Ids \ {k} : entry'[i] = entry[i]
    BY <1>1, Numbers
  <1>4. /\ entry'[k].state = "stale" /\ entry'[k].times = entry[k].times
        /\ entry'[k].attempts = entry[k].attempts /\ entry'[k].task = entry[k].task
    <2>1. ASSUME NEW e \in Entries
          PROVE  LET s == [e EXCEPT !.state = "stale"] IN
                   s.state = "stale" /\ s.times = e.times /\ s.attempts = e.attempts /\ s.task = e.task
      BY DEF Entries
    <2>2. entry[k] \in Entries
      BY <1>1, Numbers
    <2> QED BY <1>3, <2>1, <2>2
  <1>5. EntryInv(k) /\ ~(k >= nextId) /\ entry[k].times \in Nat /\ nextId' = nextId /\ Paid' \in Nat
    <2>1. EntryInv(k) /\ ~(k >= nextId)
      BY <1>1 DEF AttemptInv, EntryInv, Unused
    <2>2. Paid' \in Nat
      BY DeliveryAssumption DEF TypeOK, Paid
    <2> QED BY <1>1, <2>1, <2>2, Numbers
  <1>6. entry[k].times <= 1 + Paid'
    BY <1>1, <1>2, <1>5 DEF EntryInv
  <1>7. EntryInv(k)'
    <2>1. k >= nextId' => entry'[k] = Unused
      BY <1>5
    <2>2. entry'[k].attempts <= MaxAttempts[entry'[k].task]
      BY <1>1, <1>4, <1>5 DEF EntryInv
    <2> QED BY <1>4, <1>6, <2>1, <2>2 DEF EntryInv
  <1>8. ASSUME NEW i \in Ids PROVE EntryInv(i)'
    BY <1>1, <1>2, <1>3, <1>7, EntryFrame, SameHands DEF AttemptInv
  <1>9. ASSUME NEW v \in Workers PROVE HandInv(v)'
    BY <1>1, <1>2, <1>3, HandFrame DEF AttemptInv
  <1> QED BY <1>1, <1>2, <1>8, <1>9, RowsStay DEF AttemptInv

LEMMA AttemptOperator ==
  ASSUME AttemptInv, TypeOK', resending < nextId,
         (\E i \in Ids : Resend(i)) \/ DropDeadLetter \/ ResendCrash \/ (\E k \in Keys : ExpireKey(k))
  PROVE  AttemptInv' /\ resending' < nextId'
  <1>0. TypeOK /\ Paid \in Nat /\ nextId \in Nat /\ nextId >= 1
    BY Numbers DEF AttemptInv
  <1>p. Paid <= Paid'
    <2>1. incidents' = incidents \/ \E kind : Incident(kind)
      BY DEF Resend, DropDeadLetter, ResendCrash, ExpireKey
    <2> QED BY <1>0, <2>1, PaidGrows
  <1>1. ASSUME NEW i \in Ids, Resend(i) PROVE AttemptInv' /\ resending' < nextId'
    <2>1. entry[i].task \in Tasks /\ entry[i].state = "dlq"
      BY <1>0, <1>1, Numbers DEF Resend, InState
    <2>2. i < nextId /\ i \in Nat
      BY <1>0, <2>1, Numbers DEF AttemptInv, EntryInv, Unused
    <2>3. resending' = i /\ nextId' = nextId + 1
      BY <1>1 DEF Resend, Xadd
    <2> QED BY <1>0, <1>1, <1>p, <2>1, <2>2, <2>3, AttemptXadd DEF Resend, workerVars
  <1>2. CASE DropDeadLetter
    <2>1. /\ UNCHANGED <<store, nextId, wpc, wmsg>> /\ Forget(resending)
          /\ resending \in 1 .. (nextId - 1) /\ resending' = 0
      BY <1>0, <1>2, DeliveryAssumption DEF DropDeadLetter, workerVars, TypeOK, Ids
    <2>2. /\ \A i \in Ids : EntryInv(i)'
          /\ \A i \in Ids : entry[i].state = "gone" => entry'[i].state = "gone"
      BY <1>p, <2>1, ForgetKeeps, SameHands
    <2>3. ASSUME NEW v \in Workers PROVE HandInv(v)'
      BY <1>0, <1>p, <2>1, <2>2, HandFrame DEF AttemptInv
    <2> QED BY <1>0, <1>p, <2>1, <2>2, <2>3, RowsStay DEF AttemptInv
  <1>3. CASE ResendCrash \/ \E k \in Keys : ExpireKey(k)
    <2>1. UNCHANGED <<store, entry, nextId, wpc, wmsg>> /\ resending' \in {0, resending}
      BY <1>3 DEF ResendCrash, ExpireKey, redisVars, workerVars
    <2> QED BY <1>0, <1>p, <2>1, AttemptStill
  <1> QED BY <1>1, <1>2, <1>3

-----------------------------------------------------------------------------
DeliveryInv == AttemptInv /\ resending < nextId

LEMMA DeliveryInit == Init => DeliveryInv
  <1> SUFFICES ASSUME Init PROVE DeliveryInv
    OBVIOUS
  <1>1. TypeOK /\ Paid \in Nat
    BY TypeInit, Numbers
  <1>2. ASSUME NEW i \in Ids PROVE EntryInv(i)
    BY DEF Init, EntryInv, Unused
  <1>3. ASSUME NEW w \in Workers PROVE HandInv(w)
    BY DEF Init, HandInv, Handling
  <1>4. ASSUME NEW t \in Tasks PROVE RowInv(t)
    <2>1. store[t].attempts = 0 /\ MaxAttempts[t] \in Nat
      BY <1>1, Numbers DEF Init
    <2> QED BY <1>1, <2>1 DEF RowInv
  <1> QED BY <1>1, <1>2, <1>3, <1>4 DEF DeliveryInv, AttemptInv, Init

\* Only a resend changes what is being sent again, and ids only grow.
LEMMA ResendingStays ==
  ASSUME TypeOK, resending < nextId, [Next]_vars, \A i \in Ids : ~Resend(i), ~DropDeadLetter, ~ResendCrash
  PROVE  resending' < nextId'
  <1>1. ASSUME NEW t \in Tasks,
               \/ Add(t) \/ Produce(t) \/ ClaimError(t) \/ AddError(t)
               \/ ProducerCrash(t) \/ Delete(t) \/ Age(t)
        PROVE  resending' = resending /\ nextId' \in {nextId, nextId + 1}
    BY <1>1 DEF Add, Produce, ClaimBizKey, ClaimTaskKey, AddEntry, Report, ClaimError, AddError,
                ProducerCrash, Delete, Age, redisVars, Xadd
  <1>2. ASSUME NEW w \in Workers, Work(w)
        PROVE  resending' = resending /\ nextId' \in {nextId, nextId + 1}
    <2>1. CASE ClaimStale(w) \/ ReadNew(w) \/ Lookup(w) \/ Start(w) \/ Review(w) \/ Complete(w) \/ Ack(w)
      BY <2>1 DEF ClaimStale, ReadNew, Lookup, Start, Review, Complete, Ack, redisVars
    <2>2. CASE Fail(w) \/ FailAck(w) \/ WriteBack(w)
      BY <2>2 DEF Fail, FailAck, WriteBack, redisVars, Xadd
    <2>3. CASE BeginSweep(w) \/ SweepClaim(w) \/ SweepAdd(w) \/ SweepReport(w)
      BY <2>3 DEF BeginSweep, SweepClaim, SweepAdd, SweepReport, redisVars, Xadd
    <2> QED BY <1>2, <2>1, <2>2, <2>3 DEF Work
  <1>3. ASSUME NEW w \in Workers, AckError(w) \/ WorkerCrash(w) \/ SweepAddError(w) \/ SweepCrash(w)
        PROVE  resending' = resending /\ nextId' \in {nextId, nextId + 1}
    BY <1>3 DEF AckError, WorkerCrash, SweepAddError, SweepCrash, redisVars, Xadd
  <1>4. ASSUME (\E i \in Ids : GoStale(i) \/ Outlive(i)) \/ (\E k \in Keys : ExpireKey(k)) \/ UNCHANGED vars
        PROVE  resending' = resending /\ nextId' \in {nextId, nextId + 1}
    BY <1>4 DEF GoStale, Outlive, ExpireKey, vars
  <1>5. resending' = resending /\ nextId' \in {nextId, nextId + 1}
    <2>1. \/ \E t \in Tasks : \/ Add(t) \/ Produce(t) \/ ClaimError(t) \/ AddError(t)
                            \/ ProducerCrash(t) \/ Delete(t) \/ Age(t)
          \/ \E w \in Workers : Work(w)
          \/ \E w \in Workers : AckError(w) \/ WorkerCrash(w) \/ SweepAddError(w) \/ SweepCrash(w)
          \/ (\E i \in Ids : GoStale(i) \/ Outlive(i)) \/ (\E k \in Keys : ExpireKey(k)) \/ UNCHANGED vars
      BY DEF Next
    <2> QED BY <1>1, <1>2, <1>3, <1>4, <2>1
  <1>6. nextId \in Nat /\ resending \in Nat
    BY Numbers DEF TypeOK
  <1> QED BY <1>5, <1>6

LEMMA DeliveryStep == DeliveryInv /\ [Next]_vars => DeliveryInv'
  <1> SUFFICES ASSUME DeliveryInv, [Next]_vars PROVE DeliveryInv'
    OBVIOUS
  <1>1. AttemptInv /\ TypeOK /\ TypeOK' /\ resending < nextId
    BY TypeStep DEF DeliveryInv, AttemptInv
  <1>2. CASE (\E i \in Ids : Resend(i)) \/ DropDeadLetter \/ ResendCrash \/ (\E k \in Keys : ExpireKey(k))
    BY <1>1, <1>2, AttemptOperator DEF DeliveryInv
  <1>3. CASE ~((\E i \in Ids : Resend(i)) \/ DropDeadLetter \/ ResendCrash \/ (\E k \in Keys : ExpireKey(k)))
    <2>1. resending' < nextId'
      BY <1>1, <1>3, ResendingStays
    <2>2. ASSUME NEW t \in Tasks,
                 \/ Add(t) \/ Produce(t) \/ ClaimError(t) \/ AddError(t)
                 \/ ProducerCrash(t) \/ Delete(t) \/ Age(t)
          PROVE  AttemptInv'
      BY <1>1, <2>2, ProducersPayNothing
    <2>3. ASSUME NEW w \in Workers, Lookup(w) \/ AckError(w) PROVE AttemptInv'
      <3>1. CASE UNCHANGED <<entry, wmsg>> /\ (Lookup(w) => Goto(w, "start"))
        BY <1>1, <2>3, <3>1, AttemptOnward
      <3>2. CASE Forget(wmsg[w].id) /\ (Lookup(w) => Finish(w))
        BY <1>1, <2>3, <3>2, AttemptForget
      <3>3. CASE Lookup(w)
        BY <3>1, <3>2, <3>3 DEF Lookup
      <3>4. CASE AckError(w)
        <4>1. ~Lookup(w)
          BY <3>4 DEF Lookup, AckError
        <4> QED BY <3>1, <3>2, <3>4, <4>1 DEF AckError
      <3> QED BY <2>3, <3>3, <3>4
    <2>4. ASSUME NEW w \in Workers, Work(w) \/ WorkerCrash(w) \/ SweepAddError(w) \/ SweepCrash(w)
          PROVE  AttemptInv'
      BY <1>1, <2>3, <2>4, AttemptDelivery, AttemptOnward, AttemptForget, AttemptFail, AttemptRelease,
         AttemptSweep DEF Work
    <2>5. ASSUME NEW i \in Ids, GoStale(i) \/ Outlive(i) PROVE AttemptInv'
      BY <1>1, <2>5, AttemptStale
    <2>6. CASE UNCHANGED vars
      <3>1. UNCHANGED <<store, entry, nextId, wpc, wmsg, incidents>> /\ Paid \in Nat
        BY <1>1, <2>6, Numbers DEF vars
      <3>2. Paid' = Paid
        BY <1>1, <3>1, PaidGrows
      <3> QED BY <1>1, <2>1, <3>1, <3>2, AttemptStill DEF DeliveryInv
    <2> QED BY <1>3, <2>1, <2>2, <2>3, <2>4, <2>5, <2>6 DEF Next, DeliveryInv
  <1> QED BY <1>2, <1>3

LEMMA DeliveryHolds == Spec => []DeliveryInv
  BY DeliveryInit, DeliveryStep, PTL DEF Spec

\* Attempts beyond max_attempts are paid for: a task is tried again beyond its
\* limit (the delivery count of mq/bus.py and the retries of tasks/worker.py)
\* only after an incident, one for each attempt.
THEOREM AttemptsCostIncidents == Spec => []AttemptsArePaid
  <1>1. DeliveryInv => AttemptsArePaid
    <2> SUFFICES ASSUME DeliveryInv, NEW t \in Tasks PROVE store[t].attempts <= MaxAttempts[t] + incidents
      BY DEF AttemptsArePaid
    <2>1. TypeOK /\ RowInv(t) /\ incidents \in Nat
      BY DeliveryAssumption DEF DeliveryInv, AttemptInv, TypeOK
    <2>2. store[t].attempts \in Nat /\ MaxAttempts[t] \in Nat /\ Paid \in Nat /\ Paid <= incidents
      BY <2>1, Numbers DEF Paid
    <2> QED BY <2>1, <2>2 DEF RowInv
  <1> QED BY <1>1, DeliveryHolds, PTL

\* Workers neither die with a message in their hands nor keep it too long.
WorkersAreSound == Kinds \cap {"worker_crash", "slow_worker"} = {}

\* With sound workers no review starts on an attempt beyond max_attempts, whatever
\* else goes wrong: keys that expire, lost replies, failing acknowledgements,
\* processes that die inside publish, dead letters sent again.
THEOREM RetriesAreBounded ==
  ASSUME WorkersAreSound
  PROVE  Spec => []AttemptsBounded
  <1>1. DeliveryInv => AttemptsBounded
    <2> SUFFICES ASSUME DeliveryInv, NEW t \in Tasks PROVE store[t].attempts <= MaxAttempts[t]
      BY DEF AttemptsBounded
    <2>1. TypeOK /\ RowInv(t) /\ Paid = 0
      BY DEF DeliveryInv, AttemptInv, Paid, WorkersAreSound
    <2>2. store[t].attempts \in Nat /\ MaxAttempts[t] \in Nat
      BY <2>1, Numbers
    <2> QED BY <2>1, <2>2 DEF RowInv
  <1> QED BY <1>1, DeliveryHolds, PTL

-----------------------------------------------------------------------------
(***************************************************************************)
(* One task, one review at a time.  A task has at most one carrier: the    *)
(* producer or the sweep that is about to add its entry, an entry that     *)
(* waits, or the worker that holds the entry and is not through with it.   *)
(* Its key in dedup outlives them all, so nobody publishes it again.       *)
(***************************************************************************)

\* No worker dies or is slow, no key expires, no reply is lost, and no process
\* dies inside publish or a resend.
NothingIsRepeated ==
    Kinds \cap {"worker_crash", "slow_worker", "key_expiry", "lost_reply", "publish_crash"} = {}

\* The entry waits for a worker or for the operator.
Waits(i) ==
    \/ entry[i].state = "fresh"
    \/ entry[i].state = "dlq" /\ i # resending
    \/ entry[i].state \in {"pending", "stale"} /\ ~InHand(i)

\* The worker has the next entry of the task to add, or a review to finish.
Carrying == {"got", "start", "review", "reviewed", "acking", "failing", "sweepAdd"}

Bears(w, t) == wpc[w] \in Carrying /\ wmsg[w].task = t

Carriers(t) ==
    {<<"entry", i>> : i \in {j \in Ids : Waits(j) /\ entry[j].task = t}}
    \cup {<<"worker", w>> : w \in {v \in Workers : Bears(v, t)}}
    \cup {<<"producer", u>> : u \in {v \in {t} : ppc[v] = "adding"}}

Sole(t) ==
    /\ \A c, d \in Carriers(t) : c = d
    /\ Carriers(t) # {} => t \in dedup

StaleInv == \A i \in Ids : entry[i].state = "stale" => ~InHand(i)

SoleInv ==
    /\ DeliveryInv
    /\ StaleInv
    /\ \A t \in Tasks : Sole(t)

\* How the carrier of a task changes: it stays or ends, hands over, or is new.
LEMMA SoleStay ==
  ASSUME NEW t \in Tasks, Sole(t), Carriers(t)' \subseteq Carriers(t), t \in dedup => t \in dedup'
  PROVE  Sole(t)'
  BY DEF Sole

LEMMA SoleEnd ==
  ASSUME NEW t \in Tasks, Sole(t), NEW c \in Carriers(t), Carriers(t)' \subseteq Carriers(t), c \notin Carriers(t)'
  PROVE  Sole(t)'
  <1>1. Carriers(t)' = {}
    BY DEF Sole
  <1> QED BY <1>1 DEF Sole

LEMMA SoleMove ==
  ASSUME NEW t \in Tasks, Sole(t), NEW c \in Carriers(t), NEW d,
         Carriers(t)' \subseteq Carriers(t) \cup {d}, c \notin Carriers(t)', t \in dedup => t \in dedup'
  PROVE  Sole(t)'
  <1>1. Carriers(t)' \subseteq {d} /\ t \in dedup'
    BY DEF Sole
  <1> QED BY <1>1 DEF Sole

LEMMA SoleNew ==
  ASSUME NEW t \in Tasks, Sole(t), t \notin dedup, NEW d,
         Carriers(t)' \subseteq Carriers(t) \cup {d}, t \in dedup'
  PROVE  Sole(t)'
  <1>1. Carriers(t)' \subseteq {d}
    BY DEF Sole
  <1> QED BY <1>1 DEF Sole

\* Carriers by their kinds.
LEMMA CarriersUpTo ==
  ASSUME NEW t \in Tasks, NEW d,
         \A i \in Ids : Waits(i)' /\ entry'[i].task = t => (Waits(i) /\ entry[i].task = t) \/ <<"entry", i>> = d,
         \A w \in Workers : Bears(w, t)' => Bears(w, t) \/ <<"worker", w>> = d,
         ppc'[t] = "adding" => ppc[t] = "adding" \/ <<"producer", t>> = d
  PROVE  Carriers(t)' \subseteq Carriers(t) \cup {d}
  BY DEF Carriers

LEMMA CarriersStay ==
  ASSUME NEW t \in Tasks,
         \A i \in Ids : Waits(i)' /\ entry'[i].task = t => Waits(i) /\ entry[i].task = t,
         \A w \in Workers : Bears(w, t)' => Bears(w, t),
         ppc'[t] = "adding" => ppc[t] = "adding"
  PROVE  Carriers(t)' \subseteq Carriers(t)
  BY DEF Carriers

LEMMA CarrierKinds ==
  ASSUME NEW t \in Tasks
  PROVE  /\ \A i \in Ids : <<"entry", i>> \in Carriers(t) <=> Waits(i) /\ entry[i].task = t
         /\ \A w \in Workers : <<"worker", w>> \in Carriers(t) <=> Bears(w, t)
         /\ <<"producer", t>> \in Carriers(t) <=> ppc[t] = "adding"
  <1>1. ASSUME NEW i \in Ids PROVE <<"entry", i>> \in Carriers(t) <=> Waits(i) /\ entry[i].task = t
    BY DEF Carriers
  <1>2. ASSUME NEW w \in Workers PROVE <<"worker", w>> \in Carriers(t) <=> Bears(w, t)
    BY DEF Carriers
  <1>3. <<"producer", t>> \in Carriers(t) <=> ppc[t] = "adding"
    BY DEF Carriers
  <1> QED BY <1>1, <1>2, <1>3

LEMMA CarrierKindsNext ==
  ASSUME NEW t \in Tasks
  PROVE  /\ \A i \in Ids : <<"entry", i>> \in Carriers(t)' <=> Waits(i)' /\ entry'[i].task = t
         /\ \A w \in Workers : <<"worker", w>> \in Carriers(t)' <=> Bears(w, t)'
         /\ <<"producer", t>> \in Carriers(t)' <=> ppc'[t] = "adding"
  <1>1. ASSUME NEW i \in Ids PROVE <<"entry", i>> \in Carriers(t)' <=> Waits(i)' /\ entry'[i].task = t
    BY DEF Carriers
  <1>2. ASSUME NEW w \in Workers PROVE <<"worker", w>> \in Carriers(t)' <=> Bears(w, t)'
    BY DEF Carriers
  <1>3. <<"producer", t>> \in Carriers(t)' <=> ppc'[t] = "adding"
    BY DEF Carriers
  <1> QED BY <1>1, <1>2, <1>3

\* What a step that leaves an entry alone leaves of its waiting.
LEMMA WaitsStay ==
  ASSUME NEW i \in Ids, entry'[i] = entry[i], resending' = resending, InHand(i) => InHand(i)'
  PROVE  Waits(i)' => Waits(i)
  BY DEF Waits

\* An entry is added for u: at most its carrier is new.
LEMMA XaddSole ==
  ASSUME DeliveryInv, StaleInv, NEW u \in Tasks, NEW n, NEW s \in {"fresh", "dlq"}, Xadd(u, n, s),
         resending' = resending, \A i \in Ids : InHand(i)' <=> InHand(i)
  PROVE  /\ StaleInv'
         /\ \A t \in Tasks \ {u} : \A i \in Ids :
              Waits(i)' /\ entry'[i].task = t => Waits(i) /\ entry[i].task = t
         /\ \E k \in Ids : \A i \in Ids :
              Waits(i)' /\ entry'[i].task = u => (Waits(i) /\ entry[i].task = u) \/ <<"entry", i>> = <<"entry", k>>
  <1>1. nextId \in Ids /\ TypeOK
    BY DEF Xadd, DeliveryInv, AttemptInv
  <1>k. PICK k \in Ids : k = nextId
    BY <1>1
  <1>2. /\ entry'[k] = [task |-> u, attempts |-> n, times |-> 0, state |-> s]
        /\ \A i \in Ids \ {k} : entry'[i] = entry[i]
    BY <1>1, <1>k, Numbers DEF Xadd
  <1>3. ASSUME NEW i \in Ids \ {k} PROVE Waits(i)' => Waits(i)
    BY <1>2, WaitsStay
  <1>4. StaleInv'
    BY <1>2 DEF StaleInv
  <1>5. ASSUME NEW t \in Tasks \ {u}, NEW i \in Ids, Waits(i)', entry'[i].task = t
        PROVE  Waits(i) /\ entry[i].task = t
    BY <1>2, <1>3, <1>5
  <1>6. \A i \in Ids :
          Waits(i)' /\ entry'[i].task = u => (Waits(i) /\ entry[i].task = u) \/ <<"entry", i>> = <<"entry", k>>
    BY <1>2, <1>3
  <1> QED BY <1>4, <1>5, <1>6

\* An entry is forgotten: no carrier is new.
LEMMA ForgetSole ==
  ASSUME DeliveryInv, StaleInv, NEW x \in Ids, Forget(x),
         \A i \in Ids \ {x} : resending' = resending \/ (i # resending /\ resending' = 0),
         \A i \in Ids \ {x} : InHand(i)' <=> InHand(i)
  PROVE  /\ StaleInv'
         /\ \A t \in Tasks : \A i \in Ids :
              Waits(i)' /\ entry'[i].task = t => Waits(i) /\ entry[i].task = t
  <1>1. TypeOK
    BY DEF DeliveryInv, AttemptInv
  <1>2. entry'[x] = Gone /\ \A i \in Ids \ {x} : entry'[i] = entry[i]
    BY <1>1, Numbers DEF Forget
  <1>3. ~Waits(x)' /\ entry'[x].state = "gone"
    BY <1>2 DEF Waits, Gone, Unused
  <1>4. ASSUME NEW i \in Ids \ {x} PROVE Waits(i)' => Waits(i)
    BY <1>2, <1>4 DEF Waits
  <1>5. StaleInv'
    BY <1>2, <1>3 DEF StaleInv
  <1> QED BY <1>2, <1>3, <1>4, <1>5

LEMMA SoleStill ==
  ASSUME SoleInv, UNCHANGED <<entry, wpc, wmsg, resending>>,
         \A t \in Tasks : /\ ppc'[t] = "adding" => ppc[t] = "adding"
                          /\ t \in dedup => t \in dedup'
  PROVE  StaleInv' /\ \A t \in Tasks : Sole(t)'
  <1>1. \A i \in Ids : InHand(i)' <=> InHand(i)
    BY SameHands
  <1>2. \A i \in Ids : Waits(i)' => Waits(i)
    BY <1>1, WaitsStay
  <1>3. ASSUME NEW t \in Tasks PROVE Sole(t)'
    <2>1. Carriers(t)' \subseteq Carriers(t)
      BY <1>2, CarriersStay DEF Bears
    <2> QED BY <2>1, SoleStay DEF SoleInv
  <1>4. StaleInv'
    BY <1>1 DEF StaleInv, SoleInv
  <1> QED BY <1>3, <1>4

LEMMA SoleProducer ==
  ASSUME SoleInv, NothingIsRepeated, NEW u \in Tasks,
         \/ Add(u) \/ Produce(u) \/ ClaimError(u) \/ AddError(u) \/ ProducerCrash(u) \/ Delete(u) \/ Age(u)
  PROVE  StaleInv' /\ \A t \in Tasks : Sole(t)'
  <1>0. TypeOK /\ DeliveryInv /\ StaleInv /\ \A t \in Tasks : Sole(t)
    BY DEF SoleInv, DeliveryInv, AttemptInv
  <1>n. ~Incident("lost_reply") /\ ~ProducerCrash(u)
    BY DEF NothingIsRepeated, Incident, ProducerCrash
  <1>1. CASE Add(u) \/ ClaimBizKey(u) \/ ClaimError(u) \/ Report(u) \/ Delete(u) \/ Age(u)
    <2>1. UNCHANGED <<entry, wpc, wmsg, resending>>
      BY <1>1 DEF Add, ClaimBizKey, ClaimError, Report, Delete, Age, redisVars, workerVars
    <2>2. \A t \in Tasks : ppc'[t] = "adding" => ppc[t] = "adding"
      BY <1>0, <1>1 DEF Add, ClaimBizKey, ClaimError, Report, Delete, Age, TypeOK
    <2>3. dedup \subseteq dedup'
      BY <1>1, <1>n DEF Add, ClaimBizKey, ClaimError, Report, Delete, Age, redisVars
    <2> QED BY <2>1, <2>2, <2>3, SoleStill
  <1>2. CASE ClaimTaskKey(u)
    <2>1. /\ UNCHANGED <<entry, wpc, wmsg, resending>> /\ dedup' = dedup \cup {u}
          /\ \A t \in Tasks \ {u} : ppc'[t] = ppc[t]
          /\ u \in dedup => ppc'[u] # "adding"
      BY <1>0, <1>2 DEF ClaimTaskKey, workerVars, TypeOK
    <2>2. CASE u \in dedup
      BY <2>1, <2>2, SoleStill
    <2>3. CASE u \notin dedup
      <3>1. \A i \in Ids : Waits(i)' => Waits(i)
        BY <2>1, SameHands, WaitsStay
      <3>2. Sole(u)'
        <4>1. Carriers(u)' \subseteq Carriers(u) \cup {<<"producer", u>>}
          BY <2>1, <3>1, CarriersUpTo DEF Bears
        <4> QED BY <1>0, <2>1, <2>3, <4>1, SoleNew
      <3>3. ASSUME NEW t \in Tasks \ {u} PROVE Sole(t)'
        <4>1. Carriers(t)' \subseteq Carriers(t)
          BY <2>1, <3>1, CarriersStay DEF Bears
        <4> QED BY <1>0, <2>1, <4>1, SoleStay
      <3>4. StaleInv'
        BY <1>0, <2>1, SameHands DEF StaleInv
      <3> QED BY <3>2, <3>3, <3>4
    <2> QED BY <2>2, <2>3
  <1>3. CASE AddEntry(u)
    <2>1. /\ UNCHANGED <<wpc, wmsg, resending, dedup>> /\ Xadd(u, 1, "fresh")
          /\ ppc[u] = "adding" /\ ppc'[u] # "adding"
          /\ \A t \in Tasks \ {u} : ppc'[t] = ppc[t]
      BY <1>0, <1>3 DEF AddEntry, workerVars, TypeOK
    <2>2. \A i \in Ids : InHand(i)' <=> InHand(i)
      BY <2>1, SameHands
    <2>3. StaleInv'
      BY <1>0, <2>1, <2>2, XaddSole
    <2>4. ASSUME NEW t \in Tasks \ {u} PROVE Sole(t)'
      <3>1. \A i \in Ids : Waits(i)' /\ entry'[i].task = t => Waits(i) /\ entry[i].task = t
        BY <1>0, <2>1, <2>2, XaddSole
      <3>2. Carriers(t)' \subseteq Carriers(t)
        BY <2>1, <3>1, CarriersStay DEF Bears
      <3> QED BY <1>0, <2>1, <3>2, SoleStay
    <2>5. Sole(u)'
      <3>1. PICK k \in Ids : \A i \in Ids :
              Waits(i)' /\ entry'[i].task = u => (Waits(i) /\ entry[i].task = u) \/ <<"entry", i>> = <<"entry", k>>
        BY <1>0, <2>1, <2>2, XaddSole
      <3>2. Carriers(u)' \subseteq Carriers(u) \cup {<<"entry", k>>}
        BY <2>1, <3>1, CarriersUpTo DEF Bears
      <3>3. <<"producer", u>> \in Carriers(u) /\ <<"producer", u>> \notin Carriers(u)'
        BY <2>1, CarrierKinds, CarrierKindsNext
      <3> QED BY <1>0, <2>1, <3>2, <3>3, SoleMove
    <2> QED BY <2>3, <2>4, <2>5
  <1>4. CASE AddError(u)
    <2>1. /\ UNCHANGED <<entry, wpc, wmsg, resending>> /\ dedup' = dedup \ ({u, KeyOf[u]} \ {NoKey})
          /\ ppc[u] = "adding" /\ ppc'[u] # "adding"
          /\ \A t \in Tasks \ {u} : ppc'[t] = ppc[t]
      BY <1>0, <1>4, <1>n DEF AddError, workerVars, TypeOK
    <2>2. \A t \in Tasks \ {u} : t \in dedup => t \in dedup'
      BY <2>1, DeliveryAssumption
    <2>3. \A i \in Ids : Waits(i)' => Waits(i)
      BY <2>1, SameHands, WaitsStay
    <2>4. ASSUME NEW t \in Tasks PROVE Carriers(t)' \subseteq Carriers(t)
      BY <2>1, <2>3, CarriersStay DEF Bears
    <2>5. Sole(u)'
      <3>1. <<"producer", u>> \in Carriers(u) /\ <<"producer", u>> \notin Carriers(u)'
        BY <2>1, CarrierKinds, CarrierKindsNext
      <3> QED BY <1>0, <2>4, <3>1, SoleEnd
    <2>6. StaleInv'
      BY <1>0, <2>1, SameHands DEF StaleInv
    <2> QED BY <1>0, <2>2, <2>4, <2>5, <2>6, SoleStay
  <1> QED BY <1>n, <1>1, <1>2, <1>3, <1>4 DEF Produce

LEMMA SoleDelivery ==
  ASSUME SoleInv, NEW w \in Workers, ClaimStale(w) \/ ReadNew(w)
  PROVE  StaleInv' /\ \A t \in Tasks : Sole(t)'
  <1>0. TypeOK /\ DeliveryInv /\ StaleInv /\ (\A t \in Tasks : Sole(t)) /\ (\A i \in Ids : EntryInv(i))
    BY DEF SoleInv, DeliveryInv, AttemptInv
  <1>1. /\ wpc[w] = "idle" /\ Moves(w)
        /\ UNCHANGED <<ppc, dedup, resending>>
    BY <1>0 DEF ClaimStale, ReadNew, Receive, Goto, Moves, TypeOK
  <1>2. PICK k \in Ids, n \in Nat :
          /\ Receive(w, k, n) /\ entry[k].state \in {"fresh", "stale"}
          /\ entry'[k].state = "pending" /\ entry'[k].task = entry[k].task
          /\ \A i \in Ids \ {k} :
               \/ entry'[i] = entry[i]
               \/ entry[i].state = "fresh" /\ entry'[i].state = "pending" /\ entry'[i].task = entry[i].task
    <2>1. CASE ClaimStale(w)
      <3>1. PICK k \in Ids, n \in Nat :
               /\ entry[k].state = "stale" /\ Receive(w, k, n)
               /\ entry'[k].task = entry[k].task
               /\ \A j \in Ids \ {k} : entry'[j] = entry[j]
               /\ entry'[k].state = "pending"
        <4>1. PICK i \in InState("stale") :
                 /\ Receive(w, i, MaxOf(entry[i].attempts, entry[i].times))
                 /\ entry' = [entry EXCEPT ![i].state = "pending", ![i].times = entry[i].times + 1]
          BY <2>1 DEF ClaimStale, OnHigh, Oldest
        <4>2. MaxOf(entry[i].attempts, entry[i].times) \in Nat
          BY <1>0, <4>1 DEF InState, TypeOK, EntriesTyped, Entries, MaxOf
        <4>3. /\ entry'[i].task = entry[i].task /\ entry'[i].state = "pending"
              /\ \A j \in Ids \ {i} : entry'[j] = entry[j]
          BY <1>0, <4>1 DEF InState, TypeOK, EntriesTyped, Entries
        <4> QED BY <4>1, <4>2, <4>3 DEF InState
      <3> QED BY <3>1
    <2>2. CASE ReadNew(w)
      <3> DEFINE fresh == InState("fresh")
                 delivered == Oldest(OnHigh(fresh)) \cup Oldest(OnNormal(fresh))
      <3>1. \A i \in delivered : i \in Ids /\ entry[i].state = "fresh"
        BY DEF InState, Oldest, OnHigh, OnNormal
      <3>2. /\ \E i \in delivered : Receive(w, i, entry[i].attempts)
            /\ entry' = [i \in Ids |->
                 IF i \in delivered THEN [entry[i] EXCEPT !.state = "pending", !.times = 1]
                                    ELSE entry[i]]
        BY <2>2 DEF ReadNew
      <3> HIDE DEF delivered
      <3>3. \A i \in Ids : IF i \in delivered THEN entry'[i].state = "pending" /\ entry'[i].task = entry[i].task
                                              ELSE entry'[i] = entry[i]
        <4>1. ASSUME NEW e \in Entries
              PROVE  LET d == [e EXCEPT !.state = "pending", !.times = 1] IN
                       d.state = "pending" /\ d.task = e.task
          BY DEF Entries
        <4>2. \A i \in Ids : entry[i] \in Entries
          BY <1>0, Numbers
        <4> QED BY <3>2, <4>1, <4>2
      <3>4. PICK k \in delivered : Receive(w, k, entry[k].attempts)
        BY <3>2
      <3>5. k \in Ids /\ entry[k].attempts \in Nat
        BY <1>0, <3>1, <3>4, Numbers
      <3> QED BY <3>1, <3>3, <3>4, <3>5
    <2> QED BY <2>1, <2>2
  <1>3. /\ wpc'[w] = "got" /\ wmsg'[w] = [id |-> k, task |-> entry[k].task, attempts |-> n]
        /\ HeldBy(w, k)' /\ InHand(k)'
        /\ \A i \in Ids \ {k} : HeldBy(w, i)' <=> HeldBy(w, i)
    <2>1. wpc'[w] = "got" /\ wmsg'[w] = [id |-> k, task |-> entry[k].task, attempts |-> n]
      BY <1>0, <1>2 DEF Receive, Goto, TypeOK
    <2> QED BY <1>1, <2>1 DEF HeldBy, InHand, Handling
  <1>4. \A i \in Ids \ {k} : InHand(i)' <=> InHand(i)
    BY <1>1, <1>3, HandsAround DEF Moves
  <1>5. Waits(k) /\ ~Waits(k)' /\ entry[k].task \in Tasks
    BY <1>0, <1>2, <1>3, Numbers DEF Waits, StaleInv, EntryInv
  <1>6. ASSUME NEW i \in Ids, Waits(i)' PROVE Waits(i) /\ entry'[i].task = entry[i].task
    <2>1. i # k
      BY <1>5, <1>6
    <2>2. CASE entry'[i] = entry[i]
      BY <1>1, <1>4, <1>6, <2>1, <2>2, WaitsStay
    <2>3. CASE entry[i].state = "fresh" /\ entry'[i].task = entry[i].task
      BY <2>3 DEF Waits
    <2> QED BY <1>2, <2>1, <2>2, <2>3
  <1>u. PICK u \in Tasks : u = entry[k].task
    BY <1>5
  <1>7. \A v \in Workers, t \in Tasks : Bears(v, t)' => Bears(v, t) \/ (v = w /\ t = u)
    <2>1. \A v \in Workers \ {w} : wpc'[v] = wpc[v] /\ wmsg'[v] = wmsg[v]
      BY <1>1 DEF Moves
    <2>2. wmsg'[w].task = u
      BY <1>3, <1>u
    <2> QED BY <2>1, <2>2 DEF Bears, Carrying
  <1>8. Sole(u)'
    <2>1. Carriers(u)' \subseteq Carriers(u) \cup {<<"worker", w>>}
      BY <1>1, <1>6, <1>7, CarriersUpTo
    <2>2. <<"entry", k>> \in Carriers(u) /\ <<"entry", k>> \notin Carriers(u)'
      BY <1>5, <1>u, CarrierKinds, CarrierKindsNext
    <2> QED BY <1>0, <1>1, <2>1, <2>2, SoleMove
  <1>9. ASSUME NEW t \in Tasks \ {u} PROVE Sole(t)'
    <2>1. Carriers(t)' \subseteq Carriers(t)
      BY <1>1, <1>6, <1>7, CarriersStay
    <2> QED BY <1>0, <1>1, <2>1, SoleStay
  <1>10. StaleInv'
    BY <1>0, <1>2, <1>4 DEF StaleInv
  <1> QED BY <1>8, <1>9, <1>10

\* The worker goes on, or forgets its entry, or lets it go: no carrier is new.
LEMMA SoleOnward ==
  ASSUME SoleInv, NothingIsRepeated, NEW w \in Workers,
         \/ Lookup(w) \/ Start(w) \/ Review(w) \/ Complete(w) \/ Ack(w) \/ AckError(w)
         \/ FailAck(w) \/ WriteBack(w)
  PROVE  StaleInv' /\ \A t \in Tasks : Sole(t)'
  <1>0. /\ TypeOK /\ DeliveryInv /\ StaleInv /\ (\A t \in Tasks : Sole(t))
        /\ (\A i \in Ids : EntryInv(i)) /\ HandInv(w)
    BY DEF SoleInv, DeliveryInv, AttemptInv
  <1>1. UNCHANGED <<ppc, dedup, resending, wsnap>>
    BY DEF Lookup, Start, Review, Complete, Ack, AckError, FailAck, WriteBack, redisVars
  <1>2. \/ Finish(w)
        \/ wmsg' = wmsg /\ \E pc \in {"start", "review", "reviewed", "acking", "failing"} : Goto(w, pc)
        \/ wmsg' = wmsg /\ wpc[w] \notin Carrying /\ \E pc \in {"setPending", "setFailed"} : Goto(w, pc)
    <2>1. CASE Lookup(w) \/ Start(w) \/ Review(w) \/ Complete(w) \/ Ack(w) \/ AckError(w) \/ WriteBack(w)
      BY <2>1 DEF Lookup, Start, Review, Complete, Ack, AckError, WriteBack
    <2>2. CASE FailAck(w)
      <3>1. wmsg' = wmsg /\ wpc[w] \notin Carrying
        BY <2>2 DEF FailAck, Carrying
      <3>2. Goto(w, "setPending") \/ Goto(w, "setFailed")
        BY <2>2 DEF FailAck
      <3> QED BY <3>1, <3>2
    <2> QED BY <2>1, <2>2
  <1>3. Forget(wmsg[w].id) \/ entry' = entry
    BY DEF Lookup, Start, Review, Complete, Ack, AckError, FailAck, WriteBack, redisVars
  <1>4. wpc[w] \in Handling /\ wpc[w] # "sweepAdd"
    BY DEF Lookup, Start, Review, Complete, Ack, AckError, FailAck, WriteBack, Handling
  <1>5. Moves(w) /\ \A t \in Tasks : Bears(w, t)' => Bears(w, t)
    <2>1. CASE Finish(w)
      BY <1>0, <1>1, <2>1 DEF Finish, Goto, Moves, TypeOK, Bears, Carrying
    <2>2. CASE wmsg' = wmsg /\ \E pc \in {"start", "review", "reviewed", "acking", "failing"} : Goto(w, pc)
      <3>1. wpc[w] \in Carrying
        BY <1>0, <2>2 DEF Lookup, Start, Review, Complete, Ack, AckError, FailAck, WriteBack, Carrying,
           Goto, Finish, TypeOK
      <3> QED BY <1>0, <1>1, <2>2, <3>1 DEF Goto, Moves, TypeOK, Bears
    <2>3. CASE wmsg' = wmsg /\ wpc[w] \notin Carrying /\ \E pc \in {"setPending", "setFailed"} : Goto(w, pc)
      BY <1>0, <1>1, <2>3 DEF Goto, Moves, TypeOK, Bears, Carrying
    <2> QED BY <1>2, <2>1, <2>2, <2>3
  <1>x. PICK x \in Ids : x = wmsg[w].id
    BY <1>0, <1>4, Numbers DEF HandInv
  <1>6. ASSUME NEW i \in Ids \ {x} PROVE InHand(i)' <=> InHand(i)
    <2>1. ~HeldBy(w, i) /\ ~HeldBy(w, i)'
      BY <1>0, <1>2, <1>4, <1>x DEF HeldBy, Finish, Goto, Handling, TypeOK
    <2> QED BY <1>5, <2>1, HandsAround DEF Moves
  <1>7. /\ StaleInv'
        /\ \A t \in Tasks : \A i \in Ids :
             Waits(i)' /\ entry'[i].task = t => Waits(i) /\ entry[i].task = t
    <2>1. CASE Forget(wmsg[w].id)
      <3>1. Forget(x)
        BY <1>x, <2>1
      <3>2. resending' = resending
        BY <1>1
      <3>3. \A i \in Ids \ {x} : resending' = resending \/ (i # resending /\ resending' = 0)
        BY <3>2
      <3>4. DeliveryInv /\ StaleInv
        BY <1>0
      <3> HIDE DEF StaleInv
      <3>5. \A i \in Ids \ {x} : InHand(i)' <=> InHand(i)
        BY <1>6
      <3>6. StaleInv'
        BY <3>1, <3>3, <3>4, <3>5, ForgetSole
      <3> QED BY <3>1, <3>3, <3>4, <3>5, <3>6, ForgetSole, Zenon
    <2>2. CASE entry' = entry /\ ~Forget(wmsg[w].id)
      <3>1. (InHand(x) => InHand(x)') \/ entry[x].state = "gone"
        <4>1. CASE Finish(w)
          <5>1. WriteBack(w)
            BY <1>0, <2>2, <4>1 DEF Lookup, Start, Review, Complete, Ack, AckError, FailAck, WriteBack,
               Finish, Goto, TypeOK
          <5> QED BY <1>0, <1>x, <5>1 DEF HandInv, WriteBack
        <4>2. CASE wmsg' = wmsg /\ \E pc \in {"start", "review", "reviewed", "acking", "failing", "setPending", "setFailed"} : Goto(w, pc)
          BY <1>0, <1>x, <4>2 DEF InHand, HeldBy, Goto, Handling, TypeOK
        <4> QED BY <1>2, <4>1, <4>2
      <3>2. InHand(x)' => InHand(x)
        BY <1>4, <1>x DEF InHand, HeldBy
      <3>3. \A i \in Ids : Waits(i)' => Waits(i)
        BY <1>1, <1>6, <2>2, <3>1 DEF Waits
      <3>4. StaleInv'
        BY <1>0, <1>6, <2>2, <3>2 DEF StaleInv
      <3> QED BY <2>2, <3>3, <3>4
    <2> QED BY <1>3, <2>1, <2>2
  <1>8. ASSUME NEW t \in Tasks PROVE Sole(t)'
    <2>1. Carriers(t)' \subseteq Carriers(t)
      BY <1>1, <1>5, <1>7, CarriersStay DEF Bears, Moves
    <2> QED BY <1>0, <1>1, <2>1, SoleStay
  <1> QED BY <1>7, <1>8

\* The carrier c of u hands over to an entry that is added; no other task is touched.
LEMMA SoleHandover ==
  ASSUME SoleInv, NEW u \in Tasks, NEW n, NEW s \in {"fresh", "dlq"}, Xadd(u, n, s),
         resending' = resending, ppc' = ppc, dedup' = dedup,
         \A i \in Ids : InHand(i)' <=> InHand(i),
         \A v \in Workers : \A t \in Tasks : Bears(v, t)' => Bears(v, t),
         NEW c \in Carriers(u), c \notin Carriers(u)'
  PROVE  StaleInv' /\ \A t \in Tasks : Sole(t)'
  <1>0. DeliveryInv /\ StaleInv /\ \A t \in Tasks : Sole(t)
    BY DEF SoleInv
  <1>1. StaleInv'
    BY <1>0, XaddSole
  <1>2. ASSUME NEW t \in Tasks \ {u} PROVE Sole(t)'
    <2>1. \A i \in Ids : Waits(i)' /\ entry'[i].task = t => Waits(i) /\ entry[i].task = t
      BY <1>0, XaddSole
    <2>2. Carriers(t)' \subseteq Carriers(t)
      BY <2>1, CarriersStay
    <2> QED BY <1>0, <2>2, SoleStay
  <1>3. Sole(u)'
    <2>1. PICK k \in Ids : \A i \in Ids :
            Waits(i)' /\ entry'[i].task = u => (Waits(i) /\ entry[i].task = u) \/ <<"entry", i>> = <<"entry", k>>
      BY <1>0, XaddSole
    <2>2. Carriers(u)' \subseteq Carriers(u) \cup {<<"entry", k>>}
      BY <2>1, CarriersUpTo
    <2> QED BY <1>0, <2>2, SoleMove
  <1> QED BY <1>1, <1>2, <1>3

LEMMA SoleFail ==
  ASSUME SoleInv, NEW w \in Workers, Fail(w)
  PROVE  StaleInv' /\ \A t \in Tasks : Sole(t)'
  <1>0. TypeOK
    BY DEF SoleInv, DeliveryInv, AttemptInv
  <1>1. /\ wpc[w] = "failing" /\ UNCHANGED <<resending, ppc, dedup, wmsg, wsnap>>
        /\ \E pc \in {"ackDead", "ackRequeued"} : Goto(w, pc)
        /\ \E n \in Int, s \in {"fresh", "dlq"} : Xadd(wmsg[w].task, n, s)
    <2>1. CASE wmsg[w].attempts >= MaxAttempts[wmsg[w].task]
      <3>1. wmsg[w].attempts \in Int
        BY <1>0, Numbers
      <3> QED BY <2>1, <3>1 DEF Fail
    <2>2. CASE ~(wmsg[w].attempts >= MaxAttempts[wmsg[w].task])
      <3>1. wmsg[w].attempts + 1 \in Int
        BY <1>0, Numbers
      <3> QED BY <2>2, <3>1 DEF Fail
    <2> QED BY <2>1, <2>2
  <1>2. /\ wpc'[w] \in {"ackDead", "ackRequeued"}
        /\ \A v \in Workers \ {w} : wpc'[v] = wpc[v]
    BY <1>0, <1>1 DEF Goto, TypeOK
  <1>u. PICK u \in Tasks : u = wmsg[w].task
    BY <1>0, <1>1 DEF TypeOK
  <1>3. \A i \in Ids : InHand(i)' <=> InHand(i)
    BY <1>1, <1>2 DEF InHand, HeldBy, Handling
  <1>4. Bears(w, u) /\ ~Bears(w, u)' /\ \A v \in Workers, t \in Tasks : Bears(v, t)' => Bears(v, t)
    BY <1>1, <1>2, <1>u DEF Bears, Carrying
  <1>5. <<"worker", w>> \in Carriers(u) /\ <<"worker", w>> \notin Carriers(u)'
    BY <1>4, CarrierKinds, CarrierKindsNext
  <1>6. PICK n \in Int, s \in {"fresh", "dlq"} : Xadd(u, n, s)
    BY <1>1, <1>u
  <1> QED BY <1>1, <1>3, <1>4, <1>5, <1>6, SoleHandover

LEMMA SoleSweep ==
  ASSUME SoleInv, NothingIsRepeated, NEW w \in Workers,
         \/ BeginSweep(w) \/ SweepClaim(w) \/ SweepAdd(w) \/ SweepReport(w) \/ SweepAddError(w)
  PROVE  StaleInv' /\ \A t \in Tasks : Sole(t)'
  <1>0. TypeOK /\ DeliveryInv /\ StaleInv /\ \A t \in Tasks : Sole(t)
    BY DEF SoleInv, DeliveryInv, AttemptInv
  <1>1. /\ wpc[w] \in {"idle"} \cup Sweeping /\ UNCHANGED <<resending, ppc>>
        /\ \E pc \in {"idle"} \cup Sweeping : Goto(w, pc)
    BY DEF BeginSweep, SweepClaim, SweepAdd, SweepReport, SweepAddError, Sweeping, Finish, redisVars
  <1>2. /\ wpc'[w] \notin Handling
        /\ \A v \in Workers \ {w} : wpc'[v] = wpc[v] /\ wmsg'[v] = wmsg[v]
    <2>1. \A v \in Workers \ {w} : wmsg'[v] = wmsg[v]
      BY <1>0 DEF BeginSweep, SweepClaim, SweepAdd, SweepReport, SweepAddError, Finish, TypeOK
    <2> QED BY <1>0, <1>1, <2>1 DEF Goto, TypeOK, Handling, Sweeping
  <1>3. \A i \in Ids : InHand(i)' <=> InHand(i)
    BY <1>1, <1>2 DEF InHand, HeldBy, Handling, Sweeping
  <1>4. CASE BeginSweep(w) \/ SweepReport(w)
    <2>1. UNCHANGED <<entry, dedup>>
      BY <1>4 DEF BeginSweep, SweepReport, redisVars
    <2>2. wpc'[w] \notin Carrying
      BY <1>0, <1>4 DEF BeginSweep, SweepReport, Goto, Carrying, TypeOK
    <2>3. ASSUME NEW t \in Tasks PROVE Carriers(t)' \subseteq Carriers(t)
      <3>1. \A v \in Workers : Bears(v, t)' => Bears(v, t)
        BY <1>2, <2>2 DEF Bears, Carrying
      <3> QED BY <1>1, <1>3, <2>1, <3>1, WaitsStay, CarriersStay
    <2>4. StaleInv'
      BY <1>0, <1>3, <2>1 DEF StaleInv
    <2> QED BY <1>0, <2>1, <2>3, <2>4, SoleStay
  <1>5. CASE SweepClaim(w)
    <2>1. PICK u \in wsnap[w] :
            /\ wmsg' = [wmsg EXCEPT ![w] = [NoMsg EXCEPT !.task = u]]
            /\ Goto(w, IF u \in dedup THEN "sweepDeduplicated" ELSE "sweepAdd")
            /\ dedup' = dedup \cup {u}
      BY <1>5 DEF SweepClaim
    <2>u. u \in Tasks
      BY <1>0 DEF TypeOK
    <2>d. dedup \subseteq dedup' /\ u \in dedup'
      BY <2>1
    <2>m. wmsg'[w].task = u
      BY <1>0, <2>1 DEF TypeOK, NoMsg
    <2>p. u \in dedup => wpc'[w] \notin Carrying
      BY <1>0, <2>1 DEF TypeOK, Goto, Carrying
    <2>2. entry' = entry
      BY <1>5 DEF SweepClaim
    <2>3. \A v \in Workers, t \in Tasks : Bears(v, t)' => Bears(v, t) \/ (v = w /\ t = u /\ u \notin dedup)
      BY <1>2, <2>m, <2>p DEF Bears, Carrying
    <2>4. \A i \in Ids : Waits(i)' => Waits(i)
      BY <1>1, <1>3, <2>2, WaitsStay
    <2>5. ASSUME NEW t \in Tasks, t # u \/ u \in dedup PROVE Sole(t)'
      <3>1. Carriers(t)' \subseteq Carriers(t)
        BY <1>1, <2>2, <2>3, <2>4, <2>5, CarriersStay
      <3> QED BY <1>0, <2>d, <3>1, SoleStay
    <2>6. ASSUME u \notin dedup PROVE Sole(u)'
      <3>1. Carriers(u)' \subseteq Carriers(u) \cup {<<"worker", w>>}
        BY <1>1, <2>2, <2>3, <2>4, <2>u, CarriersUpTo
      <3> QED BY <1>0, <2>d, <2>u, <2>6, <3>1, SoleNew
    <2>7. StaleInv'
      BY <1>0, <1>3, <2>2 DEF StaleInv
    <2> QED BY <2>u, <2>5, <2>6, <2>7
  <1>6. CASE SweepAdd(w) \/ SweepAddError(w)
    <2>1. /\ wpc[w] = "sweepAdd" /\ wpc'[w] \notin Carrying
          /\ \/ Xadd(wmsg[w].task, 1, "fresh") /\ dedup' = dedup
             \/ entry' = entry /\ dedup' = dedup \ {wmsg[w].task}
      <3>1. ~Incident("lost_reply")
        BY DEF NothingIsRepeated, Incident
      <3> QED BY <1>0, <1>6, <3>1 DEF SweepAdd, SweepAddError, Finish, Goto, Carrying, TypeOK
    <2>u. PICK u \in Tasks : u = wmsg[w].task
      BY <1>0, <2>1 DEF TypeOK
    <2>2. Bears(w, u) /\ ~Bears(w, u)' /\ \A v \in Workers, t \in Tasks : Bears(v, t)' => Bears(v, t)
      BY <1>2, <2>1, <2>u DEF Bears, Carrying
    <2>3. <<"worker", w>> \in Carriers(u) /\ <<"worker", w>> \notin Carriers(u)'
      BY <2>2, CarrierKinds, CarrierKindsNext
    <2>4. CASE Xadd(wmsg[w].task, 1, "fresh") /\ dedup' = dedup
      BY <1>1, <1>3, <2>2, <2>3, <2>4, <2>u, SoleHandover
    <2>5. CASE entry' = entry /\ dedup' = dedup \ {wmsg[w].task}
      <3>1. \A i \in Ids : Waits(i)' => Waits(i)
        BY <1>1, <1>3, <2>5, WaitsStay
      <3>2. ASSUME NEW t \in Tasks PROVE Carriers(t)' \subseteq Carriers(t)
        BY <1>1, <2>2, <2>5, <3>1, CarriersStay
      <3>3. Sole(u)'
        BY <1>0, <2>3, <3>2, SoleEnd
      <3>4. ASSUME NEW t \in Tasks \ {u} PROVE Sole(t)'
        BY <1>0, <2>5, <2>u, <3>2, SoleStay
      <3>5. StaleInv'
        BY <1>0, <1>3, <2>5 DEF StaleInv
      <3> QED BY <3>3, <3>4, <3>5
    <2> QED BY <2>1, <2>4, <2>5
  <1> QED BY <1>4, <1>5, <1>6

LEMMA SoleOperator ==
  ASSUME SoleInv,
         (\E i \in Ids : Resend(i) \/ GoStale(i)) \/ DropDeadLetter
  PROVE  StaleInv' /\ \A t \in Tasks : Sole(t)'
  <1>0. TypeOK /\ DeliveryInv /\ StaleInv /\ \A t \in Tasks : Sole(t)
    BY DEF SoleInv, DeliveryInv, AttemptInv
  <1>1. UNCHANGED <<ppc, dedup, wpc, wmsg>>
    BY DEF Resend, GoStale, DropDeadLetter, workerVars
  <1>2. \A i \in Ids : InHand(i)' <=> InHand(i)
    BY <1>1, SameHands
  <1>3. \A v \in Workers, t \in Tasks : Bears(v, t)' => Bears(v, t)
    BY <1>1 DEF Bears, Carrying
  <1>4. ASSUME NEW k \in Ids, GoStale(k) PROVE StaleInv' /\ \A t \in Tasks : Sole(t)'
    <2>1. /\ entry[k].state = "pending" /\ ~InHand(k) /\ resending' = resending
          /\ \A i \in Ids \ {k} : entry'[i] = entry[i]
          /\ entry'[k].state = "stale" /\ entry'[k].task = entry[k].task
      BY <1>0, <1>4 DEF GoStale, InHand, TypeOK, EntriesTyped, Entries
    <2>2. ASSUME NEW i \in Ids, Waits(i)' PROVE Waits(i) /\ entry'[i].task = entry[i].task
      <3>1. CASE i = k
        BY <2>1, <3>1 DEF Waits
      <3>2. CASE i # k
        BY <1>2, <2>1, <2>2, <3>2, WaitsStay
      <3> QED BY <3>1, <3>2
    <2>3. ASSUME NEW t \in Tasks PROVE Sole(t)'
      <3>1. Carriers(t)' \subseteq Carriers(t)
        BY <1>1, <1>3, <2>2, CarriersStay
      <3> QED BY <1>0, <1>1, <3>1, SoleStay
    <2>4. StaleInv'
      BY <1>0, <1>2, <2>1 DEF StaleInv
    <2> QED BY <2>3, <2>4
  <1>5. CASE DropDeadLetter
    <2>1. resending \in Ids /\ Forget(resending) /\ resending' = 0
      BY <1>0, <1>5 DEF DropDeadLetter, TypeOK
    <2>x. PICK x \in Ids : x = resending
      BY <2>1
    <2>2. /\ StaleInv'
          /\ \A t \in Tasks : \A i \in Ids :
               Waits(i)' /\ entry'[i].task = t => Waits(i) /\ entry[i].task = t
      BY <1>0, <1>2, <2>1, <2>x, ForgetSole
    <2>3. ASSUME NEW t \in Tasks PROVE Sole(t)'
      <3>1. Carriers(t)' \subseteq Carriers(t)
        BY <1>1, <1>3, <2>2, CarriersStay
      <3> QED BY <1>0, <1>1, <3>1, SoleStay
    <2> QED BY <2>2, <2>3
  <1>6. ASSUME NEW k \in Ids, Resend(k) PROVE StaleInv' /\ \A t \in Tasks : Sole(t)'
    <2>1. /\ resending = 0 /\ resending' = k /\ entry[k].state = "dlq" /\ Xadd(entry[k].task, 1, "fresh")
          /\ k \in Nat /\ k # 0 /\ nextId \in Ids
      BY <1>0, <1>6, Numbers DEF Resend, InState, Xadd
    <2>u. PICK u \in Tasks : u = entry[k].task
      BY <1>0, <2>1, Numbers
    <2>j. PICK j \in Ids : j = nextId
      BY <2>1
    <2>2. /\ entry'[j] = [task |-> u, attempts |-> 1, times |-> 0, state |-> "fresh"]
          /\ \A i \in Ids \ {j} : entry'[i] = entry[i]
      BY <1>0, <2>1, <2>u, <2>j, Numbers DEF Xadd
    <2>3. j # k
      <3>1. EntryInv(j)
        BY <1>0 DEF DeliveryInv, AttemptInv
      <3>2. entry[j] = Unused
        BY <1>0, <2>j, <3>1, Numbers DEF EntryInv
      <3> QED BY <2>1, <3>2 DEF Unused
    <2>4. Waits(k) /\ ~Waits(k)'
      BY <2>1, <2>2, <2>3 DEF Waits
    <2>5. ASSUME NEW i \in Ids \ {j}, Waits(i)' PROVE Waits(i)
      <3>1. i # resending
        BY <1>0, <2>1, Numbers
      <3> QED BY <1>2, <2>2, <2>5, <3>1 DEF Waits
    <2>6. Sole(u)'
      <3>0. \A i \in Ids : Waits(i)' /\ entry'[i].task = u => (Waits(i) /\ entry[i].task = u) \/ <<"entry", i>> = <<"entry", j>>
        BY <2>2, <2>5
      <3>1. Carriers(u)' \subseteq Carriers(u) \cup {<<"entry", j>>}
        BY <1>1, <1>3, <3>0, CarriersUpTo
      <3>2. <<"entry", k>> \in Carriers(u) /\ <<"entry", k>> \notin Carriers(u)'
        BY <2>4, <2>u, CarrierKinds, CarrierKindsNext
      <3> QED BY <1>0, <1>1, <3>1, <3>2, SoleMove
    <2>7. ASSUME NEW t \in Tasks \ {u} PROVE Sole(t)'
      <3>1. Carriers(t)' \subseteq Carriers(t)
        BY <1>1, <1>3, <2>2, <2>5, CarriersStay
      <3> QED BY <1>0, <1>1, <3>1, SoleStay
    <2>8. StaleInv'
      BY <1>0, <1>2, <2>2 DEF StaleInv
    <2> QED BY <2>6, <2>7, <2>8
  <1> QED BY <1>4, <1>5, <1>6

LEMMA SoleInit == Init => SoleInv
  <1> SUFFICES ASSUME Init PROVE SoleInv
    OBVIOUS
  <1>1. \A i \in Ids : ~Waits(i)
    BY DEF Init, Waits, Unused
  <1>2. \A w \in Workers, t \in Tasks : ~Bears(w, t)
    BY DEF Init, Bears, Carrying
  <1>3. ASSUME NEW t \in Tasks PROVE Carriers(t) = {}
    BY <1>1, <1>2 DEF Carriers, Init
  <1>4. StaleInv
    BY DEF Init, StaleInv, Unused
  <1> QED BY <1>3, <1>4, DeliveryInit DEF SoleInv, Sole

LEMMA SoleStep == NothingIsRepeated /\ SoleInv /\ [Next]_vars => SoleInv'
  <1> SUFFICES ASSUME NothingIsRepeated, SoleInv, [Next]_vars PROVE SoleInv'
    OBVIOUS
  <1>1. DeliveryInv'
    BY DeliveryStep DEF SoleInv
  <1>2. \A kind \in {"worker_crash", "slow_worker", "key_expiry", "publish_crash"} : ~Incident(kind)
    BY DEF NothingIsRepeated, Incident
  <1>3. ASSUME NEW t \in Tasks,
               \/ Add(t) \/ Produce(t) \/ ClaimError(t) \/ AddError(t)
               \/ ProducerCrash(t) \/ Delete(t) \/ Age(t)
        PROVE  SoleInv'
    BY <1>1, <1>3, SoleProducer DEF SoleInv
  <1>4. ASSUME NEW w \in Workers, Work(w) \/ AckError(w) \/ WorkerCrash(w) \/ SweepAddError(w) \/ SweepCrash(w)
        PROVE  SoleInv'
    <2>1. ~WorkerCrash(w) /\ ~SweepCrash(w)
      BY <1>2 DEF WorkerCrash, SweepCrash
    <2> QED BY <1>1, <1>4, <2>1, SoleDelivery, SoleOnward, SoleFail, SoleSweep DEF Work, SoleInv
  <1>5. ASSUME NEW i \in Ids, Resend(i) \/ GoStale(i) \/ Outlive(i) PROVE SoleInv'
    <2>1. ~Outlive(i)
      BY <1>2 DEF Outlive
    <2> QED BY <1>1, <1>5, <2>1, SoleOperator DEF SoleInv
  <1>6. CASE DropDeadLetter \/ ResendCrash \/ \E k \in Keys : ExpireKey(k)
    <2>1. ~ResendCrash /\ \A k \in Keys : ~ExpireKey(k)
      BY <1>2 DEF ResendCrash, ExpireKey
    <2> QED BY <1>1, <1>6, <2>1, SoleOperator DEF SoleInv
  <1>7. CASE UNCHANGED vars
    BY <1>1, <1>7, SoleStill DEF SoleInv, vars
  <1> QED BY <1>3, <1>4, <1>5, <1>6, <1>7 DEF Next

\* Two workers never review one task at the same time (the promise of the
\* consumer group, mq/bus.py), however many workers there are, whatever fails in
\* a review, an acknowledgement or a publish that Redis refuses, and however often
\* the operator sends a dead letter again.
THEOREM OneReviewAtATime ==
  ASSUME NothingIsRepeated
  PROVE  Spec => []NoConcurrentReview
  <1>1. SoleInv => NoConcurrentReview
    <2> SUFFICES ASSUME SoleInv, NEW v \in Workers, NEW w \in Workers, v # w,
                        wpc[v] = "review", wpc[w] = "review", wmsg[v].task = wmsg[w].task
                 PROVE  FALSE
      BY DEF NoConcurrentReview
    <2>1. PICK t \in Tasks : t = wmsg[w].task
      BY DEF SoleInv, DeliveryInv, AttemptInv, TypeOK
    <2>2. Bears(v, t) /\ Bears(w, t)
      BY <2>1 DEF Bears, Carrying
    <2>3. <<"worker", v>> \in Carriers(t) /\ <<"worker", w>> \in Carriers(t)
      BY <2>2, CarrierKinds
    <2>4. <<"worker", v>> = <<"worker", w>>
      BY <2>3 DEF SoleInv, Sole
    <2> QED BY <2>4
  <1>2. SoleInv /\ [Next]_vars => SoleInv'
    BY SoleStep
  <1> QED BY <1>1, <1>2, SoleInit, PTL DEF Spec

-----------------------------------------------------------------------------
(***************************************************************************)
(* Nothing is left behind in the pending list.  It takes streams of one    *)
(* priority, where a read delivers no second entry beside the one it       *)
(* takes, and workers that do not die with a message.  They may be slow:   *)
(* an entry claimed from one of them is in the hands of another.           *)
(***************************************************************************)

OnePriority == High = {} \/ High = Tasks

Listed(i) == entry[i].state \in {"pending", "stale"}

PendingInv == \A i \in Ids : Listed(i) => InHand(i)

\* An XADD and an XACK list no entry; nor does what leaves the streams alone.
LEMMA NotListed ==
  ASSUME TypeOK,
         \/ entry' = entry
         \/ \E t, n : \E s \in {"fresh", "dlq"} : Xadd(t, n, s)
         \/ \E x : Forget(x)
         \/ \E k \in Ids : GoStale(k) \/ Outlive(k)
  PROVE  \A i \in Ids : Listed(i)' => Listed(i)
  <1>0. entry \in [Ids -> Entries]
    BY Numbers
  <1>1. ASSUME NEW t, NEW n, NEW s \in {"fresh", "dlq"}, Xadd(t, n, s), NEW i \in Ids
        PROVE  Listed(i)' => Listed(i)
    BY <1>0, <1>1 DEF Xadd, Listed
  <1>2. ASSUME NEW x, Forget(x), NEW i \in Ids PROVE Listed(i)' => Listed(i)
    BY <1>0, <1>2 DEF Forget, Listed, Gone, Unused
  <1>3. ASSUME NEW k \in Ids, GoStale(k) \/ Outlive(k), NEW i \in Ids PROVE Listed(i)' => Listed(i)
    <2>1. entry[k].state = "pending" /\ entry' = [entry EXCEPT ![k].state = "stale"]
      BY <1>3 DEF GoStale, Outlive
    <2> QED BY <1>0, <2>1 DEF Listed
  <1> QED BY <1>1, <1>2, <1>3 DEF Listed

\* The worker w keeps what it holds or has acknowledged it.
LEMMA PendingMove ==
  ASSUME PendingInv, NEW w \in Workers, \A v \in Workers \ {w} : wpc'[v] = wpc[v] /\ wmsg'[v] = wmsg[v],
         \A i \in Ids : Listed(i)' => Listed(i),
         \A i \in Ids : HeldBy(w, i) => HeldBy(w, i)' \/ ~Listed(i)'
  PROVE  PendingInv'
  <1> SUFFICES ASSUME NEW i \in Ids, Listed(i)' PROVE InHand(i)'
    BY DEF PendingInv
  <1>1. PICK v \in Workers : HeldBy(v, i)
    BY DEF PendingInv, InHand
  <1>2. HeldBy(v, i)'
    BY <1>1 DEF HeldBy, Handling
  <1> QED BY <1>2 DEF InHand

LEMMA PendingStill ==
  ASSUME PendingInv, wpc' = wpc, wmsg' = wmsg, \A i \in Ids : Listed(i)' => Listed(i)
  PROVE  PendingInv'
  BY SameHands DEF PendingInv

\* The entry k goes to worker w and is the only one that is delivered.
LEMMA PendingDelivery ==
  ASSUME DeliveryInv, PendingInv, OnePriority, NEW w \in Workers, ClaimStale(w) \/ ReadNew(w)
  PROVE  PendingInv'
  <1>0. TypeOK /\ wpc[w] = "idle" /\ entry \in [Ids -> Entries]
    <2>1. TypeOK
      BY DEF DeliveryInv, AttemptInv
    <2> QED BY <2>1, Numbers DEF ClaimStale, ReadNew
  <1>1. ASSUME NEW k \in Ids, NEW n, Receive(w, k, n), \A i \in Ids \ {k} : entry'[i] = entry[i]
        PROVE  PendingInv'
    <2>1. /\ wpc'[w] = "got" /\ wmsg'[w].id = k
          /\ \A v \in Workers \ {w} : wpc'[v] = wpc[v] /\ wmsg'[v] = wmsg[v]
      BY <1>0, <1>1 DEF Receive, Goto, TypeOK
    <2>2. InHand(k)'
      BY <2>1 DEF InHand, HeldBy, Handling
    <2>3. ASSUME NEW i \in Ids \ {k}, Listed(i)' PROVE InHand(i)'
      <3>1. PICK v \in Workers : HeldBy(v, i)
        BY <1>1, <2>3 DEF PendingInv, InHand, Listed
      <3>2. v # w
        BY <1>0, <3>1 DEF HeldBy, Handling
      <3>3. HeldBy(v, i)'
        BY <2>1, <3>1, <3>2 DEF HeldBy, Handling
      <3> QED BY <3>3 DEF InHand
    <2> QED BY <2>2, <2>3 DEF PendingInv
  <1>2. CASE ClaimStale(w)
    <2>1. PICK k \in Ids : /\ Receive(w, k, MaxOf(entry[k].attempts, entry[k].times))
                           /\ entry' = [entry EXCEPT ![k].state = "pending",
                                                     ![k].times = entry[k].times + 1]
      BY <1>2 DEF ClaimStale, OnHigh, Oldest, InState
    <2>2. \A i \in Ids \ {k} : entry'[i] = entry[i]
      BY <1>0, <2>1
    <2> QED BY <1>1, <2>1, <2>2
  <1>3. CASE ReadNew(w)
    <2> DEFINE fresh == InState("fresh")
               delivered == Oldest(OnHigh(fresh)) \cup Oldest(OnNormal(fresh))
    <2>1. delivered \subseteq Ids
      BY DEF InState, Oldest, OnHigh, OnNormal
    <2>2. OnHigh(fresh) = {} \/ OnNormal(fresh) = {}
      <3>1. \A i \in fresh : entry[i].task \in Tasks
        BY <1>0, Numbers DEF InState
      <3> QED BY <3>1 DEF OnePriority, OnHigh, OnNormal
    <2>3. \A i, j \in delivered : i = j
      <3>1. ASSUME NEW S \in SUBSET Ids, NEW i \in Oldest(S), NEW j \in Oldest(S) PROVE i = j
        <4>1. i \in Nat /\ j \in Nat /\ i <= j /\ j <= i
          BY DEF Oldest, Ids
        <4> QED BY <4>1
      <3>2. OnHigh(fresh) \in SUBSET Ids /\ OnNormal(fresh) \in SUBSET Ids /\ Oldest({}) = {}
        BY DEF InState, OnHigh, OnNormal, Oldest
      <3> QED BY <2>2, <3>1, <3>2
    <2>4. /\ \E i \in delivered : Receive(w, i, entry[i].attempts)
          /\ entry' = [i \in Ids |->
               IF i \in delivered THEN [entry[i] EXCEPT !.state = "pending", !.times = 1]
                                  ELSE entry[i]]
      BY <1>3 DEF ReadNew
    <2> HIDE DEF delivered
    <2>5. PICK k \in delivered : Receive(w, k, entry[k].attempts)
      BY <2>4
    <2>6. k \in Ids /\ \A i \in Ids \ {k} : entry'[i] = entry[i]
      BY <2>1, <2>3, <2>4
    <2> QED BY <1>1, <2>5, <2>6
  <1> QED BY <1>2, <1>3

LEMMA PendingHands ==
  ASSUME DeliveryInv, PendingInv, NEW w \in Workers,
         \/ Lookup(w) \/ Start(w) \/ Review(w) \/ Complete(w) \/ Ack(w) \/ AckError(w)
         \/ Fail(w) \/ FailAck(w) \/ WriteBack(w)
  PROVE  PendingInv'
  <1>0. TypeOK /\ wpc[w] \in Handling /\ wmsg[w].id \in Ids /\ HandInv(w)
    <2>1. TypeOK /\ HandInv(w)
      BY DEF DeliveryInv, AttemptInv
    <2>2. wpc[w] \in Handling
      BY DEF Lookup, Start, Review, Complete, Ack, AckError, Fail, FailAck, WriteBack, Handling
    <2> QED BY <2>1, <2>2, Numbers DEF HandInv
  <1>x. PICK x \in Ids : x = wmsg[w].id
    BY <1>0
  <1>1. \A i \in Ids : Listed(i)' => Listed(i)
    <2>1. \/ entry' = entry
          \/ \E t, n : \E s \in {"fresh", "dlq"} : Xadd(t, n, s)
          \/ \E y : Forget(y)
      BY DEF Lookup, Start, Review, Complete, Ack, AckError, Fail, FailAck, WriteBack, redisVars
    <2> QED BY <1>0, <2>1, NotListed
  <1>2. \/ wmsg' = wmsg /\ \E pc \in Handling : Goto(w, pc)
        \/ Finish(w) /\ (Forget(x) \/ (entry' = entry /\ entry[x].state = "gone"))
    <2>1. CASE Lookup(w)
      BY <1>x, <2>1 DEF Lookup, Handling
    <2>2. CASE Ack(w)
      BY <1>x, <2>2 DEF Ack
    <2>3. CASE WriteBack(w)
      BY <1>0, <1>x, <2>3 DEF WriteBack, redisVars, HandInv
    <2>4. CASE Start(w) \/ Review(w) \/ Complete(w) \/ AckError(w) \/ Fail(w) \/ FailAck(w)
      <3>1. \E pc \in {"review", "reviewed", "failing", "acking", "ackDead", "ackRequeued", "setFailed", "setPending"} :
               Goto(w, pc)
        BY <2>4 DEF Start, Review, Complete, AckError, Fail, FailAck
      <3> QED BY <2>4, <3>1 DEF Start, Review, Complete, AckError, Fail, FailAck, Handling
    <2> QED BY <2>1, <2>2, <2>3, <2>4
  <1>3. \A v \in Workers \ {w} : wpc'[v] = wpc[v] /\ wmsg'[v] = wmsg[v]
    BY <1>0, <1>2 DEF Finish, Goto, TypeOK
  <1>4. ASSUME NEW i \in Ids, HeldBy(w, i) PROVE HeldBy(w, i)' \/ ~Listed(i)'
    <2>1. i = x
      BY <1>x, <1>4 DEF HeldBy
    <2>2. CASE wmsg' = wmsg /\ \E pc \in Handling : Goto(w, pc)
      BY <1>0, <1>4, <2>2 DEF HeldBy, Handling, Goto, TypeOK
    <2>3. CASE Forget(x) \/ (entry' = entry /\ entry[x].state = "gone")
      BY <1>0, <2>1, <2>3, Numbers DEF Forget, Listed, Gone, Unused
    <2> QED BY <1>2, <2>2, <2>3
  <1> QED BY <1>1, <1>3, <1>4, PendingMove

LEMMA PendingSweep ==
  ASSUME DeliveryInv, PendingInv, NEW w \in Workers,
         \/ BeginSweep(w) \/ SweepClaim(w) \/ SweepAdd(w) \/ SweepReport(w)
         \/ SweepAddError(w) \/ SweepCrash(w)
  PROVE  PendingInv'
  <1>0. TypeOK
    BY DEF DeliveryInv, AttemptInv
  <1>1. \A i \in Ids : ~HeldBy(w, i)
    BY DEF BeginSweep, SweepClaim, SweepAdd, SweepReport, SweepAddError, SweepCrash, HeldBy, Handling, Sweeping
  <1>2. \A v \in Workers \ {w} : wpc'[v] = wpc[v] /\ wmsg'[v] = wmsg[v]
    BY <1>0 DEF BeginSweep, SweepClaim, SweepAdd, SweepReport, SweepAddError, SweepCrash, Finish, Goto, TypeOK
  <1>3. \A i \in Ids : Listed(i)' => Listed(i)
    <2>1. entry' = entry \/ \E t, n : Xadd(t, n, "fresh")
      BY DEF BeginSweep, SweepClaim, SweepAdd, SweepReport, SweepAddError, SweepCrash, redisVars
    <2> QED BY <1>0, <2>1, NotListed
  <1> QED BY <1>1, <1>2, <1>3, PendingMove

LEMMA PendingStep ==
  ASSUME OnePriority, "worker_crash" \notin Kinds
  PROVE  DeliveryInv /\ PendingInv /\ [Next]_vars => PendingInv'
  <1> SUFFICES ASSUME DeliveryInv, PendingInv, [Next]_vars PROVE PendingInv'
    OBVIOUS
  <1>0. TypeOK
    BY DEF DeliveryInv, AttemptInv
  <1>1. ASSUME NEW t \in Tasks,
               \/ Add(t) \/ Produce(t) \/ ClaimError(t) \/ AddError(t)
               \/ ProducerCrash(t) \/ Delete(t) \/ Age(t)
        PROVE  PendingInv'
    <2>1. wpc' = wpc /\ wmsg' = wmsg /\ (entry' = entry \/ \E n : Xadd(t, n, "fresh"))
      BY <1>1 DEF Add, Produce, ClaimBizKey, ClaimTaskKey, AddEntry, Report, ClaimError, AddError,
                  ProducerCrash, Delete, Age, redisVars, workerVars
    <2> QED BY <1>0, <2>1, NotListed, PendingStill
  <1>2. ASSUME NEW w \in Workers, Work(w) \/ AckError(w) \/ WorkerCrash(w) \/ SweepAddError(w) \/ SweepCrash(w)
        PROVE  PendingInv'
    <2>1. ~WorkerCrash(w)
      BY DEF WorkerCrash, Incident
    <2> QED BY <1>2, <2>1, PendingDelivery, PendingHands, PendingSweep DEF Work
  <1>3. ASSUME NEW i \in Ids, Resend(i) \/ GoStale(i) \/ Outlive(i) PROVE PendingInv'
    <2>1. /\ wpc' = wpc /\ wmsg' = wmsg
          /\ GoStale(i) \/ Outlive(i) \/ \E t, n : Xadd(t, n, "fresh")
      BY <1>3 DEF Resend, GoStale, Outlive, workerVars
    <2> QED BY <1>0, <2>1, NotListed, PendingStill
  <1>4. CASE DropDeadLetter \/ ResendCrash \/ \E k \in Keys : ExpireKey(k)
    <2>1. wpc' = wpc /\ wmsg' = wmsg /\ (entry' = entry \/ \E x : Forget(x))
      BY <1>4 DEF DropDeadLetter, ResendCrash, ExpireKey, redisVars, workerVars
    <2> QED BY <1>0, <2>1, NotListed, PendingStill
  <1>5. CASE UNCHANGED vars
    BY <1>0, <1>5, NotListed, PendingStill DEF vars
  <1> QED BY <1>1, <1>2, <1>3, <1>4, <1>5 DEF Next

\* An entry in the pending list of the consumer group (mq/bus.py) is in the hands
\* of a worker, slow workers, failing acknowledgements and all: with one priority,
\* only a worker that dies leaves an entry to be claimed by idle time.
THEOREM PendingEntriesAreHeld ==
  ASSUME OnePriority, "worker_crash" \notin Kinds
  PROVE  Spec => []PendingIsHeld
  <1>1. Init => PendingInv
    BY DEF Init, PendingInv, Listed, Unused
  <1>2. DeliveryInv /\ PendingInv /\ [Next]_vars => PendingInv'
    BY PendingStep
  <1>3. PendingInv => PendingIsHeld
    BY DEF PendingInv, PendingIsHeld, Listed, InState, InHand
  <1> QED BY <1>1, <1>2, <1>3, DeliveryHolds, PTL DEF Spec

-----------------------------------------------------------------------------
(***************************************************************************)
(* The outcome of a task is final when one worker runs the reviews and the *)
(* XACK of a completed task does not raise: between the look at the table  *)
(* and the write of an outcome nobody else completes the task.             *)
(***************************************************************************)

OneWorker == \A v, w \in Workers : v = w

\* The worker has found its task open and has no outcome of it in the table.
Unfinished == {"start", "review", "reviewed", "failing", "ackRequeued", "ackDead", "setPending", "setFailed"}

FinalInv ==
    /\ TypeOK
    /\ \A t \in Tasks : ppc[t] = "none" => store[t].status = "absent"
    /\ \A w \in Workers : wpc[w] \in Unfinished => store[wmsg[w].task].status # "completed"

Final == \A t \in Tasks : store[t].status = "completed" => store'[t].status \in {"completed", "deleted"}

\* What a write on the task table does: it touches one row that is there.
LEMMA UpdateRow ==
  ASSUME TypeOK, NEW u \in Tasks, NEW row \in Rows, UpdateTask(u, row)
  PROVE  /\ \A t \in Tasks \ {u} : store'[t] = store[t]
         /\ IF InTable(u) THEN store'[u] = row ELSE store'[u] = store[u]
  BY DEF UpdateTask, TypeOK

\* A step that writes no status, and moves no worker into the unfinished ones.
LEMMA FinalStill ==
  ASSUME FinalInv, TypeOK', \A t \in Tasks : store'[t].status = store[t].status,
         \A t \in Tasks : ppc'[t] = "none" => ppc[t] = "none",
         \A w \in Workers : wpc'[w] \in Unfinished =>
            /\ wmsg'[w] = wmsg[w]
            /\ wpc[w] \in Unfinished \/ (wmsg[w].task \in Tasks /\ store[wmsg[w].task].status # "completed")
  PROVE  Final /\ FinalInv'
  <1>1. Final
    BY DEF Final
  <1>2. ASSUME NEW w \in Workers, wpc'[w] \in Unfinished PROVE store'[wmsg'[w].task].status # "completed"
    <2>1. wmsg'[w] = wmsg[w] /\ store[wmsg[w].task].status # "completed" /\ wmsg[w].task \in Tasks
      BY <1>2 DEF FinalInv, TypeOK, Unfinished
    <2> QED BY <2>1
  <1> QED BY <1>1, <1>2 DEF FinalInv

LEMMA FinalProducer ==
  ASSUME FinalInv, TypeOK', NEW u \in Tasks,
         \/ Add(u) \/ Produce(u) \/ ClaimError(u) \/ AddError(u)
         \/ ProducerCrash(u) \/ Delete(u) \/ Age(u)
  PROVE  Final /\ FinalInv'
  <1>0. TypeOK
    BY DEF FinalInv
  <1>1. CASE \/ ClaimBizKey(u) \/ ClaimTaskKey(u) \/ AddEntry(u) \/ ClaimError(u) \/ AddError(u)
             \/ ProducerCrash(u) \/ Age(u)
    <2>1. store' = store /\ wpc' = wpc /\ wmsg' = wmsg
      BY <1>1 DEF ClaimBizKey, ClaimTaskKey, AddEntry, ClaimError, AddError, ProducerCrash, Age, workerVars
    <2>2. \A t \in Tasks : ppc'[t] = "none" => ppc[t] = "none"
      BY <1>0, <1>1 DEF ClaimBizKey, ClaimTaskKey, AddEntry, ClaimError, AddError, ProducerCrash, Age, TypeOK
    <2> QED BY <2>1, <2>2, FinalStill
  <1>2. CASE Report(u)
    <2>1. /\ ppc[u] \in Outbox /\ UpdateTask(u, [store[u] EXCEPT !.queue = ppc[u]])
          /\ wpc' = wpc /\ wmsg' = wmsg /\ ppc' = [ppc EXCEPT ![u] = "done"]
      BY <1>2 DEF Report, Reporting, Outbox, workerVars
    <2>2. store[u] \in Rows
      BY <1>0 DEF TypeOK
    <2>r. PICK row \in Rows : row = [store[u] EXCEPT !.queue = ppc[u]] /\ row.status = store[u].status
      BY <2>1, <2>2 DEF Rows
    <2>3. \A t \in Tasks : store'[t].status = store[t].status
      BY <1>0, <2>1, <2>r, UpdateRow
    <2>4. \A t \in Tasks : ppc'[t] = "none" => ppc[t] = "none"
      BY <1>0, <2>1 DEF TypeOK
    <2> QED BY <2>1, <2>3, <2>4, FinalStill
  <1>3. CASE Add(u) \/ Delete(u)
    <2>1. /\ \A t \in Tasks \ {u} : store'[t] = store[t] /\ ppc'[t] = ppc[t]
          /\ store'[u].status \in {"pending", "deleted"} /\ ppc'[u] # "none"
          /\ store[u].status = "completed" => store'[u].status = "deleted"
      <3>1. store[u] \in Rows
        BY <1>0 DEF TypeOK
      <3>2. CASE Add(u)
        <4>1. /\ store' = [store EXCEPT ![u] = [store[u] EXCEPT !.status = "pending"]]
              /\ ppc[u] = "none" /\ ppc' = [ppc EXCEPT ![u] = "saved"]
          BY <3>2 DEF Add
        <4>2. store[u].status = "absent"
          BY <4>1 DEF FinalInv
        <4>3. [store[u] EXCEPT !.status = "pending"].status = "pending"
          BY <3>1 DEF Rows
        <4> QED BY <1>0, <4>1, <4>2, <4>3 DEF TypeOK
      <3>3. CASE Delete(u)
        <4>1. /\ store' = [store EXCEPT ![u] = [store[u] EXCEPT !.status = "deleted"]]
              /\ store[u].status # "absent" /\ ppc' = ppc
          BY <3>3 DEF Delete, InTable
        <4>2. ppc[u] # "none"
          BY <4>1 DEF FinalInv
        <4>3. [store[u] EXCEPT !.status = "deleted"].status = "deleted"
          BY <3>1 DEF Rows
        <4> QED BY <1>0, <4>1, <4>2, <4>3 DEF TypeOK
      <3> QED BY <1>3, <3>2, <3>3
    <2>2. wpc' = wpc /\ wmsg' = wmsg
      BY <1>3 DEF Add, Delete, workerVars
    <2>3. ASSUME NEW w \in Workers, wpc[w] \in Unfinished PROVE store'[wmsg[w].task].status # "completed"
      <3>1. wmsg[w].task \in Tasks /\ store[wmsg[w].task].status # "completed"
        BY <1>0, <2>3 DEF FinalInv, TypeOK, Unfinished
      <3> QED BY <2>1, <3>1
    <2> QED BY <2>1, <2>2, <2>3 DEF Final, FinalInv
  <1> QED BY <1>1, <1>2, <1>3 DEF Produce

\* Steps of the worker that write no status.
LEMMA FinalQuiet ==
  ASSUME FinalInv, TypeOK', NEW w \in Workers,
         \/ ClaimStale(w) \/ ReadNew(w) \/ Lookup(w) \/ Review(w) \/ Ack(w) \/ Fail(w) \/ FailAck(w)
         \/ WorkerCrash(w) \/ BeginSweep(w) \/ SweepClaim(w) \/ SweepAdd(w) \/ SweepAddError(w) \/ SweepCrash(w)
  PROVE  Final /\ FinalInv'
  <1>0. TypeOK
    BY DEF FinalInv
  <1>1. store' = store /\ ppc' = ppc
    BY DEF ClaimStale, ReadNew, Lookup, Review, Ack, Fail, FailAck, WorkerCrash, BeginSweep, SweepClaim,
           SweepAdd, SweepAddError, SweepCrash
  <1>2. \A v \in Workers \ {w} : wpc'[v] = wpc[v] /\ wmsg'[v] = wmsg[v]
    <2>1. CASE ClaimStale(w) \/ ReadNew(w)
      BY <1>0, <2>1 DEF ClaimStale, ReadNew, Receive, Goto, TypeOK
    <2>2. CASE Lookup(w) \/ Ack(w) \/ WorkerCrash(w) \/ SweepAddError(w) \/ SweepCrash(w)
      BY <1>0, <2>2 DEF Lookup, Ack, WorkerCrash, SweepAddError, SweepCrash, Finish, Goto, TypeOK
    <2>3. CASE Review(w) \/ Fail(w) \/ FailAck(w) \/ BeginSweep(w) \/ SweepClaim(w) \/ SweepAdd(w)
      BY <1>0, <2>3 DEF Review, Fail, FailAck, BeginSweep, SweepClaim, SweepAdd, Goto, TypeOK
    <2> QED BY <2>1, <2>2, <2>3
  <1>3. wpc'[w] \in Unfinished =>
          /\ wmsg'[w] = wmsg[w]
          /\ wpc[w] \in Unfinished \/ (wmsg[w].task \in Tasks /\ store[wmsg[w].task].status # "completed")
    <2>1. CASE ClaimStale(w) \/ ReadNew(w)
      BY <1>0, <2>1 DEF ClaimStale, ReadNew, Receive, Goto, TypeOK, Unfinished
    <2>2. CASE Lookup(w)
      BY <1>0, <2>2 DEF Lookup, Finish, Goto, TypeOK, Unfinished
    <2>3. CASE Ack(w) \/ WorkerCrash(w) \/ SweepAddError(w) \/ SweepCrash(w)
      BY <1>0, <2>3 DEF Ack, WorkerCrash, SweepAddError, SweepCrash, Finish, Goto, TypeOK, Unfinished
    <2>4. CASE Review(w) \/ Fail(w) \/ FailAck(w)
      BY <1>0, <2>4 DEF Review, Fail, FailAck, Unfinished
    <2>5. CASE BeginSweep(w) \/ SweepClaim(w) \/ SweepAdd(w)
      BY <1>0, <2>5 DEF BeginSweep, SweepClaim, SweepAdd, Goto, TypeOK, Unfinished
    <2> QED BY <2>1, <2>2, <2>3, <2>4, <2>5
  <1>4. \A v \in Workers : wpc'[v] \in Unfinished =>
          /\ wmsg'[v] = wmsg[v]
          /\ wpc[v] \in Unfinished \/ (wmsg[v].task \in Tasks /\ store[wmsg[v].task].status # "completed")
    BY <1>2, <1>3
  <1> QED BY <1>1, <1>4, FinalStill

\* Steps that write: the worker has no message that another is about to finish.
LEMMA FinalWrite ==
  ASSUME FinalInv, TypeOK', OneWorker, NEW w \in Workers,
         Start(w) \/ Complete(w) \/ WriteBack(w) \/ SweepReport(w)
  PROVE  Final /\ FinalInv'
  <1>0. TypeOK /\ ppc' = ppc
    BY DEF FinalInv, Start, Complete, WriteBack, SweepReport
  <1>u. PICK u \in Tasks : u = wmsg[w].task
    BY <1>0 DEF TypeOK, Start, Complete, WriteBack, SweepReport
  <1>1. store[u] \in Rows /\ wmsg[w].attempts \in Nat
    BY <1>0, Numbers DEF TypeOK
  <1>2. CASE Start(w) \/ WriteBack(w)
    <2>1. PICK row \in Rows : UpdateTask(u, row) /\ row.status \notin {"completed", "absent"}
      <3>1. CASE Start(w)
        <4>1. UpdateTask(u, [store[u] EXCEPT !.status = "running", !.attempts = wmsg[w].attempts])
          BY <1>u, <3>1 DEF Start
        <4>2. [store[u] EXCEPT !.status = "running", !.attempts = wmsg[w].attempts] \in Rows
          BY <1>1 DEF Rows, Statuses
        <4>3. [store[u] EXCEPT !.status = "running", !.attempts = wmsg[w].attempts].status = "running"
          BY <1>1 DEF Rows
        <4> QED BY <4>1, <4>2, <4>3
      <3>2. CASE WriteBack(w)
        <4>1. PICK s \in {"failed", "pending"} : UpdateTask(u, [store[u] EXCEPT !.status = s])
          BY <1>u, <3>2 DEF WriteBack
        <4>2. [store[u] EXCEPT !.status = s] \in Rows
          BY <1>1 DEF Rows, Statuses
        <4>3. [store[u] EXCEPT !.status = s].status = s
          BY <1>1 DEF Rows
        <4> QED BY <4>1, <4>2, <4>3
      <3> QED BY <1>2, <3>1, <3>2
    <2>2. store[u].status # "completed"
      BY <1>2, <1>u DEF FinalInv, Unfinished, Start, WriteBack
    <2>3. \A t \in Tasks : /\ store'[t].status = store[t].status
                              \/ (InTable(t) /\ store'[t].status \notin {"completed", "absent"})
                           /\ store[t].status = "completed" => store'[t].status = "completed"
      BY <1>0, <2>1, <2>2, UpdateRow
    <2>4. ASSUME NEW v \in Workers, wpc'[v] \in Unfinished PROVE store'[wmsg'[v].task].status # "completed"
      <3>1. v = w
        BY DEF OneWorker
      <3>2. wmsg'[w].task = u
        <4>1. CASE Start(w)
          BY <1>u, <4>1 DEF Start
        <4>2. CASE WriteBack(w)
          BY <1>0, <2>4, <3>1, <4>2 DEF WriteBack, Finish, Goto, TypeOK, Unfinished
        <4> QED BY <1>2, <4>1, <4>2
      <3> QED BY <2>2, <2>3, <3>1, <3>2
    <2>5. \A t \in Tasks : ppc'[t] = "none" => store'[t].status = "absent"
      BY <1>0, <2>3 DEF FinalInv, InTable
    <2> QED BY <2>3, <2>4, <2>5 DEF Final, FinalInv
  <1>3. CASE Complete(w) \/ SweepReport(w)
    <2>1. PICK row \in Rows : UpdateTask(u, row) /\ row.status \in {"completed", store[u].status}
      <3>1. CASE Complete(w)
        <4>1. UpdateTask(u, [store[u] EXCEPT !.status = "completed"])
          BY <1>u, <3>1 DEF Complete
        <4>2. [store[u] EXCEPT !.status = "completed"] \in Rows
          BY <1>1 DEF Rows, Statuses
        <4>3. [store[u] EXCEPT !.status = "completed"].status = "completed"
          BY <1>1 DEF Rows
        <4> QED BY <4>1, <4>2, <4>3
      <3>2. CASE SweepReport(w)
        <4>1. PICK q \in {"published", "deduplicated"} : UpdateTask(u, [store[u] EXCEPT !.queue = q])
          BY <1>u, <3>2 DEF SweepReport
        <4>2. [store[u] EXCEPT !.queue = q] \in Rows
          BY <1>1 DEF Rows, Outbox
        <4>3. [store[u] EXCEPT !.queue = q].status = store[u].status
          BY <1>1 DEF Rows
        <4> QED BY <4>1, <4>2, <4>3
      <3> QED BY <1>3, <3>1, <3>2
    <2>2. \A t \in Tasks : /\ store[t].status = "absent" => store'[t].status = "absent"
                           /\ store[t].status = "completed" => store'[t].status = "completed"
      BY <1>0, <2>1, UpdateRow DEF InTable
    <2>3. wpc'[w] \notin Unfinished
      BY <1>0, <1>3 DEF Complete, SweepReport, Goto, TypeOK, Unfinished
    <2>4. \A v \in Workers : wpc'[v] \notin Unfinished
      BY <2>3 DEF OneWorker
    <2> QED BY <1>0, <2>2, <2>4 DEF Final, FinalInv
  <1> QED BY <1>2, <1>3

LEMMA FinalStep ==
  ASSUME OneWorker, "ack_error" \notin Kinds
  PROVE  FinalInv /\ [Next]_vars => Final /\ FinalInv'
  <1> SUFFICES ASSUME FinalInv, [Next]_vars PROVE Final /\ FinalInv'
    OBVIOUS
  <1>0. TypeOK'
    BY TypeStep DEF FinalInv
  <1>1. ASSUME NEW t \in Tasks,
               \/ Add(t) \/ Produce(t) \/ ClaimError(t) \/ AddError(t)
               \/ ProducerCrash(t) \/ Delete(t) \/ Age(t)
        PROVE  Final /\ FinalInv'
    BY <1>0, <1>1, FinalProducer
  <1>2. ASSUME NEW w \in Workers, Work(w) \/ AckError(w) \/ WorkerCrash(w) \/ SweepAddError(w) \/ SweepCrash(w)
        PROVE  Final /\ FinalInv'
    <2>1. ~AckError(w)
      BY DEF AckError, Incident
    <2> QED BY <1>0, <1>2, <2>1, FinalQuiet, FinalWrite DEF Work
  <1>3. CASE \/ \E i \in Ids : Resend(i) \/ GoStale(i) \/ Outlive(i)
             \/ DropDeadLetter \/ ResendCrash \/ \E k \in Keys : ExpireKey(k)
             \/ UNCHANGED vars
    <2>1. store' = store /\ ppc' = ppc /\ wpc' = wpc /\ wmsg' = wmsg
      BY <1>3 DEF Resend, GoStale, Outlive, DropDeadLetter, ResendCrash, ExpireKey, workerVars, vars
    <2> QED BY <1>0, <2>1, FinalStill
  <1> QED BY <1>1, <1>2, <1>3 DEF Next

\* A task recorded as completed stays completed until it is deleted
\* (tasks/worker.py, run_once), whatever the one worker, the producers and the
\* operator do: crashes, redeliveries and dead letters sent again included.
THEOREM OutcomesAreFinal ==
  ASSUME OneWorker, "ack_error" \notin Kinds
  PROVE  Spec => CompletedIsFinal
  <1>1. Init => FinalInv
    BY TypeInit DEF Init, FinalInv, Unfinished
  <1>2. FinalInv /\ [Next]_vars => Final /\ FinalInv'
    BY FinalStep
  <1>3. Final => [\A t \in Tasks : store[t].status = "completed"
                                     => store'[t].status \in {"completed", "deleted"}]_vars
    BY DEF Final
  <1> QED BY <1>1, <1>2, <1>3, PTL DEF Spec, CompletedIsFinal

-----------------------------------------------------------------------------
(***************************************************************************)
(* The delivery machinery takes the steps of TaskLifecycle.  No task is    *)
(* ever lost, so its phase follows from its row, from whether its review   *)
(* has succeeded and from whether only a dead letter is left of it; and a  *)
(* step changes these of one task at most.                                 *)
(***************************************************************************)

Active == {"fresh", "pending", "stale"}

\* A dead letter is all there is of the task.
Parked(t) == EntryOf(t, {"dlq"}) /\ ~EntryOf(t, Active) /\ ~Handled(t)

SuccInv == \A t \in succeeded : store[t].status # "absent"

PhaseInv ==
    \A t \in Tasks :
      Phase(t) = IF store[t].status = "absent" THEN "new"
                 ELSE IF store[t].status = "deleted" THEN "deleted"
                 ELSE IF t \in succeeded THEN "done"
                 ELSE IF Parked(t) THEN "parked" ELSE "open"

LEMMA PhaseOf == IInv => PhaseInv
  <1> SUFFICES ASSUME IInv, NEW t \in Tasks
               PROVE  Phase(t) = IF store[t].status = "absent" THEN "new"
                                 ELSE IF store[t].status = "deleted" THEN "deleted"
                                 ELSE IF t \in succeeded THEN "done"
                                 ELSE IF Parked(t) THEN "parked" ELSE "open"
    BY DEF PhaseInv
  <1>1. store[t].status \notin {"absent", "deleted"} /\ t \notin succeeded => Carried(t)
    BY RescuedIsCarried DEF NoTaskLost, InTable
  <1>2. Live \ {"dlq"} = Active
    BY DEF Live, Active
  <1>3. CASE store[t].status \in {"absent", "deleted"} \/ t \in succeeded
    BY <1>3 DEF Phase
  <1>4. CASE store[t].status \notin {"absent", "deleted"} /\ t \notin succeeded
    <2>1. Phase(t) = IF Handled(t) \/ EntryOf(t, Active) \/ (Carried(t) /\ ~EntryOf(t, {"dlq"}))
                       THEN "open"
                       ELSE IF EntryOf(t, {"dlq"}) THEN "parked" ELSE "lost"
      BY <1>2, <1>4 DEF Phase
    <2> QED BY <1>1, <1>4, <2>1 DEF Parked
  <1> QED BY <1>3, <1>4

-----------------------------------------------------------------------------
\* What a step leaves of the phases.

Same(t) ==
    /\ store'[t].status = store[t].status
    /\ t \in succeeded' <=> t \in succeeded
    /\ Parked(t)' <=> Parked(t)

\* The task has been submitted; if its review succeeds now, a worker has it.
Fine(t) ==
    /\ store[t].status # "absent" /\ store'[t].status # "absent"
    /\ store[t].status = "deleted" => store'[t].status = "deleted"
    /\ t \in succeeded => t \in succeeded'
    /\ t \in succeeded' => t \in succeeded \/ Handled(t)

Submitted(t) ==
    /\ store[t].status = "absent" /\ store'[t].status = "pending"
    /\ t \notin succeeded' /\ ~Parked(t)'

LifeStep(u) ==
    /\ \A t \in Tasks \ {u} : Same(t)
    /\ u \in Tasks => Same(u) \/ Fine(u) \/ Submitted(u)

\* An entry goes on carrying what it carried.
EntryKeeps(i) ==
    /\ entry'[i].task = entry[i].task
    /\ entry'[i].state = "dlq" <=> entry[i].state = "dlq"
    /\ entry'[i].state \in Active <=> entry[i].state \in Active

EntriesOf(u) ==
    \A i \in Ids : EntryKeeps(i) \/ (entry[i].task \in {u, NoTask} /\ entry'[i].task \in {u, NoTask})

LEMMA ParkedOther ==
  ASSUME NEW u, NEW t \in Tasks \ {u}, EntriesOf(u), Handled(t)' <=> Handled(t)
  PROVE  Parked(t)' <=> Parked(t)
  <1>1. \A i \in Ids : entry'[i].task = t \/ entry[i].task = t => EntryKeeps(i)
    BY DeliveryAssumption DEF EntriesOf
  <1>2. EntryOf(t, {"dlq"})' <=> EntryOf(t, {"dlq"})
    BY <1>1 DEF EntryOf, EntryKeeps
  <1>3. EntryOf(t, Active)' <=> EntryOf(t, Active)
    BY <1>1 DEF EntryOf, EntryKeeps, Active
  <1> QED BY <1>2, <1>3 DEF Parked, Active

LEMMA HandledOther ==
  ASSUME NEW w \in Workers, NEW u, \A v \in Workers \ {w} : wpc'[v] = wpc[v] /\ wmsg'[v] = wmsg[v],
         wpc[w] \in Handling => wmsg[w].task = u, wpc'[w] \in Handling => wmsg'[w].task = u,
         NEW t \in Tasks \ {u}
  PROVE  Handled(t)' <=> Handled(t)
  BY DEF Handled, Handling

LEMMA HandledStill ==
  ASSUME wpc' = wpc, wmsg' = wmsg, NEW t
  PROVE  Handled(t)' <=> Handled(t)
  BY DEF Handled, Handling

LEMMA XaddOf ==
  ASSUME IInv, NEW u \in Tasks, NEW n, NEW s, Xadd(u, n, s)
  PROVE  EntriesOf(u)
  <1>1. TypeOK /\ nextId \in Ids
    BY DEF IInv, Xadd
  <1>k. PICK k \in Ids : k = nextId
    BY <1>1
  <1>2. entry[k] = Unused
    BY <1>1, <1>k, Numbers DEF IInv, EntriesInv
  <1>3. entry'[k].task = u /\ \A i \in Ids \ {k} : entry'[i] = entry[i]
    BY <1>1, <1>k, Numbers DEF Xadd
  <1> QED BY <1>2, <1>3 DEF EntriesOf, EntryKeeps, Unused

LEMMA ForgetOf ==
  ASSUME TypeOK, NEW u, NEW x \in Ids, Forget(x), entry[x].task \in {u, NoTask}
  PROVE  EntriesOf(u)
  <1>1. entry'[x] = Gone /\ \A i \in Ids \ {x} : entry'[i] = entry[i]
    BY Numbers DEF Forget
  <1>2. entry'[x].task = NoTask
    BY <1>1 DEF Gone, Unused
  <1> QED BY <1>1, <1>2 DEF EntriesOf, EntryKeeps

LEMMA StillOf ==
  ASSUME entry' = entry, NEW u
  PROVE  EntriesOf(u)
  BY DEF EntriesOf, EntryKeeps

\* A step whose entries and hands are those of u.
LEMMA LifeOf ==
  ASSUME NEW u, EntriesOf(u), \A t \in Tasks \ {u} : Handled(t)' <=> Handled(t),
         \A t \in Tasks \ {u} : store'[t].status = store[t].status /\ (t \in succeeded' <=> t \in succeeded),
         u \in Tasks => Same(u) \/ Fine(u) \/ Submitted(u)
  PROVE  LifeStep(u)
  BY ParkedOther DEF LifeStep, Same

\* A step that touches nothing of this is one of no task.
LEMMA LifeStill ==
  ASSUME entry' = entry, \A t \in Tasks : Handled(t)' <=> Handled(t), succeeded' = succeeded,
         \A t \in Tasks : store'[t].status = store[t].status
  PROVE  LifeStep(NoTask)
  <1>1. EntriesOf(NoTask) /\ NoTask \notin Tasks
    BY StillOf, DeliveryAssumption
  <1> QED BY <1>1, LifeOf

\* A write of a row that is in the table, or of none.
LEMMA StatusAround ==
  ASSUME TypeOK, NEW u \in Tasks, NEW row \in Rows, row.status \notin {"absent", "deleted"}, UpdateTask(u, row),
         store[u].status # "absent"
  PROVE  /\ \A t \in Tasks \ {u} : store'[t].status = store[t].status
         /\ store'[u].status # "absent"
         /\ store[u].status = "deleted" => store'[u].status = "deleted"
  BY UpdateRow DEF InTable

-----------------------------------------------------------------------------
LEMMA LifeProducer ==
  ASSUME IInv, IInv', SuccInv, NEW u \in Tasks,
         \/ Add(u) \/ Produce(u) \/ ClaimError(u) \/ AddError(u)
         \/ ProducerCrash(u) \/ Delete(u) \/ Age(u)
  PROVE  \E t : LifeStep(t)
  <1>0. TypeOK /\ TaskInv(u) /\ wpc' = wpc /\ wmsg' = wmsg /\ succeeded' = succeeded
    BY DEF IInv, Add, Produce, ClaimBizKey, ClaimTaskKey, AddEntry, Report, ClaimError, AddError,
           ProducerCrash, Delete, Age, workerVars
  <1>h. \A t \in Tasks : Handled(t)' <=> Handled(t)
    BY <1>0, HandledStill
  <1>1. CASE \/ ClaimBizKey(u) \/ ClaimTaskKey(u) \/ ClaimError(u) \/ ProducerCrash(u) \/ Age(u) \/ Report(u)
    <2>1. entry' = entry
      BY <1>1 DEF ClaimBizKey, ClaimTaskKey, ClaimError, ProducerCrash, Age, Report, redisVars
    <2>2. \A t \in Tasks : store'[t].status = store[t].status
      <3>1. CASE Report(u)
        <4>1. [store[u] EXCEPT !.queue = ppc[u]].status = store[u].status
          BY <1>0 DEF TypeOK, Rows
        <4>2. UpdateTask(u, [store[u] EXCEPT !.queue = ppc[u]])
          BY <3>1 DEF Report
        <4> QED BY <1>0, <4>1, <4>2 DEF UpdateTask, TypeOK
      <3> QED BY <1>1, <3>1 DEF ClaimBizKey, ClaimTaskKey, ClaimError, ProducerCrash, Age
    <2> QED BY <1>0, <1>h, <2>1, <2>2, LifeStill
  <1>2. CASE AddEntry(u) \/ AddError(u)
    <2>1. store' = store /\ store[u].status # "absent"
      BY <1>0, <1>2 DEF AddEntry, AddError, TaskInv
    <2>2. EntriesOf(u)
      <3>1. Xadd(u, 1, "fresh") \/ entry' = entry
        BY <1>2 DEF AddEntry, AddError
      <3> QED BY <3>1, XaddOf, StillOf
    <2>3. Fine(u)
      BY <1>0, <2>1 DEF Fine
    <2> QED BY <1>0, <1>h, <2>1, <2>2, <2>3, LifeOf
  <1>3. CASE Delete(u)
    <2>1. /\ store' = [store EXCEPT ![u] = [store[u] EXCEPT !.status = "deleted"]]
          /\ store[u].status # "absent" /\ entry' = entry
      BY <1>3 DEF Delete, InTable, redisVars
    <2>2. [store[u] EXCEPT !.status = "deleted"].status = "deleted"
      BY <1>0 DEF TypeOK, Rows
    <2>3. store'[u].status = "deleted" /\ \A t \in Tasks \ {u} : store'[t].status = store[t].status
      BY <1>0, <2>1, <2>2 DEF TypeOK
    <2>4. Fine(u)
      BY <1>0, <2>1, <2>3 DEF Fine
    <2> QED BY <1>0, <1>h, <2>1, <2>3, <2>4, StillOf, LifeOf
  <1>4. CASE Add(u)
    <2>1. /\ store' = [store EXCEPT ![u] = [store[u] EXCEPT !.status = "pending"]]
          /\ ppc[u] = "none" /\ entry' = entry
      BY <1>4 DEF Add, redisVars
    <2>2. [store[u] EXCEPT !.status = "pending"].status = "pending"
      BY <1>0 DEF TypeOK, Rows
    <2>3. store'[u].status = "pending" /\ \A t \in Tasks \ {u} : store'[t].status = store[t].status
      BY <1>0, <2>1, <2>2 DEF TypeOK
    <2>4. store[u].status = "absent" /\ \A i \in Ids : entry[i].task # u
      BY <1>0, <2>1 DEF TaskInv
    <2>5. u \notin succeeded /\ ~Parked(u)'
      BY <2>1, <2>4 DEF SuccInv, Parked, EntryOf
    <2>6. Submitted(u)
      BY <1>0, <2>3, <2>4, <2>5 DEF Submitted
    <2> QED BY <1>0, <1>h, <2>1, <2>3, <2>6, StillOf, LifeOf
  <1> QED BY <1>1, <1>2, <1>3, <1>4 DEF Produce

\* An entry is delivered: it goes on carrying its task.
LEMMA LifeDelivery ==
  ASSUME IInv, IInv', NEW w \in Workers, ClaimStale(w) \/ ReadNew(w)
  PROVE  \E t : LifeStep(t)
  <1>0. TypeOK /\ wpc[w] = "idle" /\ store' = store /\ succeeded' = succeeded /\ TypeOK'
    BY DEF IInv, ClaimStale, ReadNew
  <1>1. \A i \in Ids : \/ entry'[i] = entry[i]
                       \/ /\ entry[i].state \in Active /\ entry'[i].state = "pending"
                          /\ entry'[i].task = entry[i].task
    <2>1. CASE ClaimStale(w)
      <3>1. PICK k \in Ids : /\ entry[k].state = "stale"
                             /\ entry' = [entry EXCEPT ![k].state = "pending",
                                                       ![k].times = entry[k].times + 1]
        BY <2>1 DEF ClaimStale, OnHigh, Oldest, InState
      <3>2. /\ entry'[k].state = "pending" /\ entry'[k].task = entry[k].task
            /\ \A i \in Ids \ {k} : entry'[i] = entry[i]
        BY <1>0, <3>1 DEF TypeOK, EntriesTyped, Entries
      <3> QED BY <3>1, <3>2 DEF Active
    <2>2. CASE ReadNew(w)
      <3> DEFINE fresh == InState("fresh")
                 delivered == Oldest(OnHigh(fresh)) \cup Oldest(OnNormal(fresh))
      <3>1. \A i \in delivered : i \in Ids /\ entry[i].state = "fresh"
        BY DEF InState, Oldest, OnHigh, OnNormal
      <3>2. entry' = [i \in Ids |->
                 IF i \in delivered THEN [entry[i] EXCEPT !.state = "pending", !.times = 1]
                                    ELSE entry[i]]
        BY <2>2 DEF ReadNew
      <3> HIDE DEF delivered
      <3>3. ASSUME NEW e \in Entries
            PROVE  LET d == [e EXCEPT !.state = "pending", !.times = 1] IN
                     d.state = "pending" /\ d.task = e.task
        BY DEF Entries
      <3>4. \A i \in Ids : entry[i] \in Entries
        BY <1>0, Numbers
      <3> QED BY <3>1, <3>2, <3>3, <3>4 DEF Active
    <2> QED BY <2>1, <2>2
  <1>2. PICK k, n : k \in Ids /\ Receive(w, k, n)
    <2>1. CASE ClaimStale(w)
      BY <1>0, <2>1, ClaimStaleEffect
    <2>2. CASE ReadNew(w)
      BY <1>0, <2>2, ReadNewEffect
    <2> QED BY <2>1, <2>2
  <1>u. PICK u : u = entry[k].task
    OBVIOUS
  <1>3. /\ wmsg'[w].task = u
        /\ \A v \in Workers \ {w} : wpc'[v] = wpc[v] /\ wmsg'[v] = wmsg[v]
    BY <1>0, <1>2, <1>u DEF Receive, Goto, TypeOK
  <1>4. u \in Tasks
    <2>1. wpc'[w] = "got"
      BY <1>0, <1>2 DEF Receive, Goto, TypeOK
    <2> QED BY <1>0, <1>3, <2>1 DEF TypeOK
  <1>5. \A t \in Tasks \ {u} : Handled(t)' <=> Handled(t)
    BY <1>0, <1>3, HandledOther DEF Handling
  <1>6. EntriesOf(u)
    BY <1>1 DEF EntriesOf, EntryKeeps, Active
  <1>7. Fine(u)
    <2>1. \E i \in Ids : entry[i].task = u
      BY <1>2, <1>u
    <2>2. store[u].status # "absent"
      BY <1>4, <2>1 DEF IInv, TaskInv
    <2> QED BY <1>0, <2>2 DEF Fine
  <1> QED BY <1>0, <1>5, <1>6, <1>7, LifeOf

LEMMA LifeHands ==
  ASSUME IInv, NEW w \in Workers,
         \/ Lookup(w) \/ Start(w) \/ Review(w) \/ Complete(w) \/ Ack(w) \/ AckError(w)
         \/ Fail(w) \/ FailAck(w) \/ WriteBack(w) \/ WorkerCrash(w)
  PROVE  \E t : LifeStep(t)
  <1>0. /\ TypeOK /\ wpc[w] \in Handling /\ wpc[w] \notin {"idle", "sweep"}
    BY DEF IInv, Lookup, Start, Review, Complete, Ack, AckError, Fail, FailAck, WriteBack, WorkerCrash, Handling
  <1>u. PICK u \in Tasks : u = wmsg[w].task
    BY <1>0, Held
  <1>x. PICK x \in Ids : x = wmsg[w].id /\ entry[x].task \in {u, NoTask}
    <2>1. wmsg[w].id \in 1 .. (nextId - 1) /\ entry[wmsg[w].id].task \in {u, NoTask}
      BY <1>0, <1>u, Held
    <2> QED BY <1>0, <2>1, Numbers
  <1>1. store[u].status # "absent" /\ Handled(u)
    BY <1>0, <1>u, Held DEF Handled
  <1>2. /\ \A v \in Workers \ {w} : wpc'[v] = wpc[v] /\ wmsg'[v] = wmsg[v]
        /\ wpc'[w] \in Handling => wmsg'[w].task = u
    <2>1. Finish(w) \/ (wmsg' = wmsg /\ \E pc : Goto(w, pc))
      BY DEF Lookup, Start, Review, Complete, Ack, AckError, Fail, FailAck, WriteBack, WorkerCrash
    <2> QED BY <1>0, <1>u, <2>1 DEF Finish, Goto, TypeOK, Handling
  <1>3. \A t \in Tasks \ {u} : Handled(t)' <=> Handled(t)
    BY <1>u, <1>2, HandledOther
  <1>4. EntriesOf(u)
    <2>1. entry' = entry \/ Forget(x) \/ \E n, s : Xadd(u, n, s)
      BY <1>u, <1>x DEF Lookup, Start, Review, Complete, Ack, AckError, Fail, FailAck, WriteBack,
                        WorkerCrash, redisVars
    <2> QED BY <1>0, <1>x, <2>1, XaddOf, ForgetOf, StillOf
  <1>5. succeeded \subseteq succeeded' /\ succeeded' \subseteq succeeded \cup {u}
    BY <1>u DEF Lookup, Start, Review, Complete, Ack, AckError, Fail, FailAck, WriteBack, WorkerCrash
  <1>6. /\ \A t \in Tasks \ {u} : store'[t].status = store[t].status
        /\ store'[u].status # "absent"
        /\ store[u].status = "deleted" => store'[u].status = "deleted"
    <2>r. store[u] \in Rows /\ wmsg[w].attempts \in Nat
      BY <1>0, Numbers DEF TypeOK
    <2>1. CASE Start(w)
      <3>1. UpdateTask(u, [store[u] EXCEPT !.status = "running", !.attempts = wmsg[w].attempts])
        BY <1>u, <2>1 DEF Start
      <3>2. [store[u] EXCEPT !.status = "running", !.attempts = wmsg[w].attempts] \in Rows
        BY <2>r DEF Rows, Statuses
      <3>3. [store[u] EXCEPT !.status = "running", !.attempts = wmsg[w].attempts].status = "running"
        BY <2>r DEF Rows
      <3> QED BY <1>0, <1>1, <3>1, <3>2, <3>3, StatusAround
    <2>2. CASE Complete(w) \/ WriteBack(w)
      <3>1. PICK s \in {"completed", "failed", "pending"} : UpdateTask(u, [store[u] EXCEPT !.status = s])
        BY <1>u, <2>2 DEF Complete, WriteBack
      <3>2. [store[u] EXCEPT !.status = s] \in Rows
        BY <2>r DEF Rows, Statuses
      <3>3. [store[u] EXCEPT !.status = s].status = s
        BY <2>r DEF Rows
      <3> QED BY <1>0, <1>1, <3>1, <3>2, <3>3, StatusAround
    <2>3. CASE store' = store
      BY <1>1, <2>3
    <2> QED BY <2>1, <2>2, <2>3 DEF Lookup, Review, Ack, AckError, Fail, FailAck, WorkerCrash
  <1>7. Fine(u)
    BY <1>1, <1>5, <1>6 DEF Fine
  <1> QED BY <1>3, <1>4, <1>5, <1>6, <1>7, LifeOf

LEMMA LifeSweep ==
  ASSUME IInv, NEW w \in Workers,
         \/ BeginSweep(w) \/ SweepClaim(w) \/ SweepAdd(w) \/ SweepReport(w)
         \/ SweepAddError(w) \/ SweepCrash(w)
  PROVE  \E t : LifeStep(t)
  <1>0. TypeOK /\ succeeded' = succeeded
    BY DEF IInv, BeginSweep, SweepClaim, SweepAdd, SweepReport, SweepAddError, SweepCrash
  <1>1. /\ wpc[w] \notin Handling /\ wpc'[w] \notin Handling
        /\ \A v \in Workers \ {w} : wpc'[v] = wpc[v] /\ wmsg'[v] = wmsg[v]
    <2>1. wpc[w] \in {"idle"} \cup Sweeping
      BY DEF BeginSweep, SweepClaim, SweepAdd, SweepReport, SweepAddError, SweepCrash, Sweeping
    <2>2. \E pc \in {"idle"} \cup Sweeping : Goto(w, pc)
      BY DEF BeginSweep, SweepClaim, SweepAdd, SweepReport, SweepAddError, SweepCrash, Sweeping, Finish
    <2>3. \A v \in Workers \ {w} : wmsg'[v] = wmsg[v]
      BY <1>0 DEF BeginSweep, SweepClaim, SweepAdd, SweepReport, SweepAddError, SweepCrash, Finish, TypeOK
    <2> QED BY <1>0, <2>1, <2>2, <2>3 DEF Goto, TypeOK, Handling, Sweeping
  <1>2. \A t \in Tasks : Handled(t)' <=> Handled(t)
    BY <1>1 DEF Handled, Handling
  <1>3. \A t \in Tasks : store'[t].status = store[t].status
    <2>1. CASE SweepReport(w)
      <3>1. PICK q \in Outbox : UpdateTask(wmsg[w].task, [store[wmsg[w].task] EXCEPT !.queue = q])
        BY <2>1 DEF SweepReport, Outbox
      <3>2. wmsg[w].task \in Tasks
        BY <1>0, <2>1 DEF TypeOK, SweepReport
      <3>3. [store[wmsg[w].task] EXCEPT !.queue = q].status = store[wmsg[w].task].status
        BY <1>0, <3>2 DEF TypeOK, Rows
      <3> QED BY <1>0, <3>1, <3>2, <3>3 DEF UpdateTask, TypeOK
    <2> QED BY <2>1 DEF BeginSweep, SweepClaim, SweepAdd, SweepAddError, SweepCrash
  <1>4. CASE entry' = entry
    BY <1>0, <1>2, <1>3, <1>4, LifeStill
  <1>5. CASE (SweepAdd(w) \/ SweepAddError(w)) /\ Xadd(wmsg[w].task, 1, "fresh")
    <2>1. wpc[w] = "sweepAdd"
      BY <1>5 DEF SweepAdd, SweepAddError
    <2>u. PICK u \in Tasks : u = wmsg[w].task /\ store[u].status # "absent"
      BY <2>1, Held
    <2>2. EntriesOf(u) /\ Fine(u)
      BY <1>0, <1>3, <1>5, <2>u, XaddOf DEF Fine
    <2> QED BY <1>0, <1>2, <1>3, <2>2, LifeOf
  <1> QED BY <1>4, <1>5
       DEF BeginSweep, SweepClaim, SweepAdd, SweepReport, SweepAddError, SweepCrash, redisVars

LEMMA LifeOperator ==
  ASSUME IInv,
         \/ \E i \in Ids : Resend(i) \/ GoStale(i) \/ Outlive(i)
         \/ DropDeadLetter \/ ResendCrash \/ \E k \in Keys : ExpireKey(k)
         \/ UNCHANGED vars
  PROVE  \E t : LifeStep(t)
  <1>0. TypeOK /\ wpc' = wpc /\ wmsg' = wmsg /\ store' = store /\ succeeded' = succeeded
    BY DEF IInv, Resend, GoStale, Outlive, DropDeadLetter, ResendCrash, ExpireKey, workerVars, vars
  <1>h. \A t \in Tasks : Handled(t)' <=> Handled(t)
    BY <1>0, HandledStill
  <1>1. ASSUME NEW u, EntriesOf(u), u \in Tasks => store[u].status # "absent" PROVE LifeStep(u)
    <2>1. u \in Tasks => Fine(u)
      BY <1>0, <1>1 DEF Fine
    <2> QED BY <1>0, <1>h, <1>1, <2>1, LifeOf
  <1>2. NoTask \notin Tasks
    BY DeliveryAssumption
  <1>3. ASSUME NEW i \in Ids, Resend(i) PROVE \E t : LifeStep(t)
    <2>1. entry[i].task \in Tasks
      BY <1>0, <1>3, Numbers DEF Resend, InState
    <2>u. PICK u \in Tasks : u = entry[i].task
      BY <2>1
    <2>2. store[u].status # "absent"
      BY <2>u DEF IInv, TaskInv
    <2>3. EntriesOf(u)
      BY <1>3, <2>u, XaddOf DEF Resend
    <2> QED BY <1>1, <2>2, <2>3
  <1>4. ASSUME NEW i \in Ids, GoStale(i) \/ Outlive(i) PROVE \E t : LifeStep(t)
    <2>1. entry[i].state = "pending" /\ entry' = [entry EXCEPT ![i].state = "stale"]
      BY <1>4 DEF GoStale, Outlive
    <2>2. /\ entry'[i].state = "stale" /\ entry'[i].task = entry[i].task
          /\ \A j \in Ids \ {i} : entry'[j] = entry[j]
      BY <1>0, <2>1 DEF TypeOK, EntriesTyped, Entries
    <2>3. EntriesOf(NoTask)
      BY <2>1, <2>2 DEF EntriesOf, EntryKeeps, Active
    <2> QED BY <1>1, <1>2, <2>3
  <1>5. CASE DropDeadLetter
    <2>x. PICK x \in Ids : x = resending /\ Forget(x)
      BY <1>0, <1>5 DEF DropDeadLetter, TypeOK
    <2>u. PICK u : u = entry[x].task
      OBVIOUS
    <2>1. u \in Tasks => store[u].status # "absent"
      BY <2>u DEF IInv, TaskInv
    <2>2. EntriesOf(u)
      BY <1>0, <2>x, <2>u, ForgetOf
    <2> QED BY <1>1, <2>1, <2>2
  <1>6. CASE ResendCrash \/ (\E k \in Keys : ExpireKey(k)) \/ UNCHANGED vars
    <2>1. entry' = entry
      BY <1>6 DEF ResendCrash, ExpireKey, redisVars, vars
    <2> QED BY <1>1, <1>2, <2>1, StillOf
  <1> QED BY <1>3, <1>4, <1>5, <1>6

-----------------------------------------------------------------------------
\* Such a step is one of TaskLifecycle, or none.

phases == [t \in Tasks |-> Phase(t)]

LEMMA OnePhase ==
  ASSUME NEW u \in Tasks, NEW b, phases' = [phases EXCEPT ![u] = b],
         \/ phases[u] = "new" /\ b = "open"
         \/ phases[u] = "open" /\ b \in {"done", "parked"}
         \/ phases[u] = "parked" /\ b = "open"
         \/ phases[u] \in {"open", "done", "parked"} /\ b = "deleted"
         \/ phases[u] = b
  PROVE  [Lifecycle!Next]_phases
  <1>1. CASE phases[u] = b
    BY <1>1 DEF phases
  <1>2. CASE phases[u] = "new" /\ b = "open"
    BY <1>2 DEF Lifecycle!Next, Lifecycle!Submit, Lifecycle!Move, phases
  <1>3. CASE phases[u] = "open" /\ b = "done"
    BY <1>3 DEF Lifecycle!Next, Lifecycle!Succeed, Lifecycle!Move, phases
  <1>4. CASE phases[u] = "open" /\ b = "parked"
    BY <1>4 DEF Lifecycle!Next, Lifecycle!Park, Lifecycle!Move, phases
  <1>5. CASE phases[u] = "parked" /\ b = "open"
    BY <1>5 DEF Lifecycle!Next, Lifecycle!Reopen, Lifecycle!Move, phases
  <1>6. CASE phases[u] \in {"open", "done", "parked"} /\ b = "deleted"
    BY <1>6 DEF Lifecycle!Next, Lifecycle!Remove, Lifecycle!Move, phases
  <1> QED BY <1>1, <1>2, <1>3, <1>4, <1>5, <1>6

LEMMA PhaseMoves ==
  ASSUME IInv, IInv', NEW u, LifeStep(u)
  PROVE  [Lifecycle!Next]_phases
  <1>p. PhaseInv /\ PhaseInv'
    BY PhaseOf, PTL
  <1>1. ASSUME NEW t \in Tasks, Same(t) PROVE Phase(t)' = Phase(t)
    BY <1>p, <1>1 DEF Same, PhaseInv
  <1>2. CASE u \notin Tasks \/ Same(u)
    <2>1. \A t \in Tasks : Phase(t)' = Phase(t)
      BY <1>1, <1>2 DEF LifeStep
    <2>2. phases' = phases
      BY <2>1 DEF phases
    <2> QED BY <2>2
  <1>3. CASE u \in Tasks /\ (Fine(u) \/ Submitted(u))
    <2>1. phases' = [phases EXCEPT ![u] = Phase(u)'] /\ phases[u] = Phase(u)
      BY <1>1, <1>3 DEF LifeStep, phases
    <2>2. CASE Submitted(u)
      <3>1. Phase(u) = "new" /\ Phase(u)' = "open"
        BY <1>p, <1>3, <2>2 DEF Submitted, PhaseInv
      <3> QED BY <1>3, <2>1, <3>1, OnePhase
    <2>3. CASE Fine(u)
      <3>1. Phase(u) = Phase(u)' \/ (Phase(u) # "deleted" /\ Phase(u)' = "deleted")
            \/ (Phase(u) = "open" /\ Phase(u)' \in {"done", "parked"})
            \/ (Phase(u) = "parked" /\ Phase(u)' = "open")
        BY <1>p, <1>3, <2>3 DEF Fine, Parked, PhaseInv
      <3>2. Phase(u) \in {"open", "done", "parked", "deleted"}
        BY <1>p, <1>3, <2>3 DEF Fine, PhaseInv
      <3> QED BY <1>3, <2>1, <3>1, <3>2, OnePhase
    <2> QED BY <1>3, <2>2, <2>3
  <1> QED BY <1>2, <1>3 DEF LifeStep

LEMMA LifeMoves ==
  ASSUME PublishIsSound, OwnKeys, IInv, SuccInv, [Next]_vars
  PROVE  [Lifecycle!Next]_phases /\ SuccInv'
  <1>1. IInv'
    BY NextIInv
  <1>2. ASSUME NEW t \in Tasks,
               \/ Add(t) \/ Produce(t) \/ ClaimError(t) \/ AddError(t)
               \/ ProducerCrash(t) \/ Delete(t) \/ Age(t)
        PROVE  \E u : LifeStep(u)
    BY <1>1, <1>2, LifeProducer
  <1>3. ASSUME NEW w \in Workers, Work(w) \/ AckError(w) \/ WorkerCrash(w) \/ SweepAddError(w) \/ SweepCrash(w)
        PROVE  \E u : LifeStep(u)
    BY <1>1, <1>3, LifeDelivery, LifeHands, LifeSweep DEF Work
  <1>4. PICK u : LifeStep(u)
    BY <1>2, <1>3, LifeOperator DEF Next
  <1>5. ASSUME NEW t \in succeeded' PROVE store'[t].status # "absent"
    <2>1. t \in Tasks
      BY <1>1 DEF IInv, TypeOK
    <2>2. CASE Same(t)
      BY <2>2 DEF Same, SuccInv
    <2>3. CASE Fine(t) \/ Submitted(t)
      BY <2>3 DEF Fine, Submitted
    <2> QED BY <1>4, <2>1, <2>2, <2>3 DEF LifeStep
  <1> QED BY <1>1, <1>4, <1>5, PhaseMoves DEF SuccInv

\* The delivery machinery (mq/bus.py, tasks/queue.py, tasks/worker.py) takes no
\* step that TaskLifecycle does not allow: one task at a time moves, an open task
\* leaves "open" only with an outcome, and nothing leaves "done" but a deletion.
THEOREM StepsOfTheLifecycle ==
  ASSUME PublishIsSound, OwnKeys
  PROVE  Spec => Lifecycle!Init /\ [][Lifecycle!Next]_phases
  <1>1. Init => IInv /\ SuccInv /\ Lifecycle!Init
    <2>1. Init => IInv /\ SuccInv
      BY InitIInv DEF Init, SuccInv
    <2>2. Init => Lifecycle!Init
      BY DEF Init, Lifecycle!Init, Phase
    <2> QED BY <2>1, <2>2
  <1>2. IInv /\ SuccInv /\ [Next]_vars => IInv' /\ SuccInv' /\ [Lifecycle!Next]_phases
    BY NextIInv, LifeMoves
  <1> QED BY <1>1, <1>2, PTL DEF Spec
=============================================================================
