---------------------------- MODULE TaskDelivery ----------------------------
(***************************************************************************)
(* Delivery of review tasks through Redis Streams: the producers that save *)
(* a task and publish it (tasks/queue.py), the bus (mq/bus.py), the        *)
(* workers that consume, review and acknowledge it (tasks/worker.py), the  *)
(* outbox sweep, and the operator who sends dead letters round again.      *)
(*                                                                         *)
(* One step of this module is one command to Redis or one call on the task *)
(* store.  A call on the store is atomic here: what happens when two       *)
(* processes interleave inside a call is the subject of TaskStore.         *)
(***************************************************************************)
EXTENDS Integers, FiniteSets

CONSTANTS
    Tasks,        \* tasks that may be created
    BizKeys,      \* values of dedup_key other than ""
    Workers,      \* worker processes; a crashed one is started again
    High,         \* the tasks whose priority reaches high_priority_threshold
    KeyOf,        \* dedup_key of each task, NoKey for ""
    MaxAttempts,  \* max_attempts of each task
    Deletable,    \* the tasks a user may delete (bounds the model)
    Kinds,        \* the kinds of incident that may happen
    MaxIncidents, \* bound: how many of them in one behaviour
    MaxEntries,   \* bound: entries ever added to the three streams
    NoKey, NoTask

AllKinds ==
    {"worker_crash",   \* a worker dies while it handles a message
     "slow_worker",    \* a live worker keeps a message beyond claim_idle_ms
     "ack_error",      \* the XACK of a completed task raises
     "key_expiry",     \* a deduplication key reaches dedup_ttl_seconds
     "resend",         \* the operator sends a dead letter again
     "refused",        \* Redis does not execute a command of a producer
     "sweep_refused",  \* Redis does not execute the XADD of a sweep
     "lost_reply",     \* a command of bus.publish raises, executed or not
     "publish_crash",  \* a process dies inside bus.publish or a resend
     "slow_publish"}   \* a producer needs longer than min_age_seconds

ASSUME DeliveryAssumption ==
    /\ High \subseteq Tasks
    /\ Deletable \subseteq Tasks
    /\ NoKey \notin BizKeys \cup Tasks
    /\ NoTask \notin Tasks
    /\ Tasks \cap BizKeys = {}
    /\ KeyOf \in [Tasks -> BizKeys \cup {NoKey}]
    /\ MaxAttempts \in [Tasks -> Nat \ {0}]
    /\ Kinds \subseteq AllKinds
    /\ MaxIncidents \in Nat
    /\ MaxEntries \in Nat

VARIABLES
    store,      \* the task table: status, attempts and outbox column per task
    aged,       \* tasks created at least min_age_seconds ago
    entry,      \* the entries of the high, normal and dead-letter streams
    nextId,     \* the id the next XADD returns
    dedup,      \* deduplication keys that are set
    ppc,        \* per task, where its producer is inside ReviewTaskQueue.add
    wpc,        \* where a worker is
    wmsg,       \* the message it holds; for a sweep, the task it publishes
    wsnap,      \* the rest of the task list its sweep has read
    resending,  \* dead letter added to its stream again and not yet deleted
    incidents,  \* incidents so far
    succeeded   \* history: tasks some worker has recorded as completed

vars == <<store, aged, entry, nextId, dedup, ppc, wpc, wmsg, wsnap,
          resending, incidents, succeeded>>

Statuses  == {"absent", "pending", "running", "completed", "failed", "deleted"}
Outbox    == {"none", "published", "deduplicated", "error"}
Rows      == [status : Statuses, attempts : Nat, queue : Outbox]
Ids       == 1 .. MaxEntries
Keys      == Tasks \cup BizKeys       \* "task:<id>" is written as the task
Live      == {"fresh", "pending", "stale", "dlq"}
Entries   == [task : Tasks \cup {NoTask}, attempts : Nat, times : Nat,
              state : Live \cup {"unused", "gone"}]
Messages  == [id : Ids \cup {0}, task : Tasks \cup {NoTask}, attempts : Nat]
NoMsg     == [id |-> 0, task |-> NoTask, attempts |-> 0]
Unused    == [task |-> NoTask, attempts |-> 0, times |-> 0, state |-> "unused"]
Gone      == [Unused EXCEPT !.state = "gone"]

Publishing == {"saved", "keyed", "adding"}
Reporting  == {"published", "deduplicated", "error"}
Sweeping   == {"sweep", "sweepAdd", "sweepPublished", "sweepDeduplicated"}
Handling   == {"got", "start", "review", "reviewed", "acking", "failing",
               "ackRequeued", "ackDead", "setPending", "setFailed"}

InTable(t) == store[t].status \notin {"absent", "deleted"}

\* ReviewTaskQueue.update: a task that is not in the table is left alone.
UpdateTask(t, row) ==
    store' = IF InTable(t) THEN [store EXCEPT ![t] = row] ELSE store

\* XADD of one entry under the next id.
Xadd(t, attempts, state) ==
    /\ nextId \in Ids
    /\ nextId' = nextId + 1
    /\ entry' = [entry EXCEPT ![nextId] =
                    [task |-> t, attempts |-> attempts, times |-> 0, state |-> state]]

\* XACK (or XDEL): the entry is never delivered or listed again.
Forget(i) == entry' = [entry EXCEPT ![i] = Gone]

InState(s) == {i \in Ids : entry[i].state = s}
OnHigh(S)  == {i \in S : entry[i].task \in High}
OnNormal(S) == S \ OnHigh(S)
Oldest(S)  == {i \in S : \A j \in S : i <= j}
HeldBy(w, i) == wpc[w] \in Handling /\ wmsg[w].id = i

Incident(kind) ==
    /\ kind \in Kinds
    /\ incidents < MaxIncidents
    /\ incidents' = incidents + 1

Init ==
    /\ store = [t \in Tasks |-> [status |-> "absent", attempts |-> 0, queue |-> "none"]]
    /\ aged = {}
    /\ entry = [i \in Ids |-> Unused]
    /\ nextId = 1
    /\ dedup = {}
    /\ ppc = [t \in Tasks |-> "none"]
    /\ wpc = [w \in Workers |-> "idle"]
    /\ wmsg = [w \in Workers |-> NoMsg]
    /\ wsnap = [w \in Workers |-> {}]
    /\ resending = 0
    /\ incidents = 0
    /\ succeeded = {}

-----------------------------------------------------------------------------
(* Producers: ReviewTaskQueue.add and RedisTaskBus.publish.                *)

redisVars  == <<entry, nextId, dedup>>
workerVars == <<wpc, wmsg, wsnap>>

\* The row is saved before anything is published, unless a task with the
\* same dedup_key is still pending or running.
Add(t) ==
    /\ ppc[t] = "none"
    /\ KeyOf[t] # NoKey =>
         \A u \in Tasks : KeyOf[u] = KeyOf[t] => store[u].status \notin {"pending", "running"}
    /\ store' = [store EXCEPT ![t].status = "pending"]
    /\ ppc' = [ppc EXCEPT ![t] = "saved"]
    /\ UNCHANGED <<aged, redisVars, workerVars, resending, incidents, succeeded>>

\* SET NX of the business key, when the task has one.
ClaimBizKey(t) ==
    /\ ppc[t] = "saved"
    /\ IF KeyOf[t] \in dedup
         THEN ppc' = [ppc EXCEPT ![t] = "deduplicated"] /\ UNCHANGED dedup
         ELSE /\ ppc' = [ppc EXCEPT ![t] = "keyed"]
              /\ dedup' = dedup \cup ({KeyOf[t]} \ {NoKey})
    /\ UNCHANGED <<store, aged, entry, nextId, workerVars, resending, incidents, succeeded>>

\* SET NX of the task key; the business key stays set when this one is taken.
ClaimTaskKey(t) ==
    /\ ppc[t] = "keyed"
    /\ ppc' = [ppc EXCEPT ![t] = IF t \in dedup THEN "deduplicated" ELSE "adding"]
    /\ dedup' = dedup \cup {t}
    /\ UNCHANGED <<store, aged, entry, nextId, workerVars, resending, incidents, succeeded>>

AddEntry(t) ==
    /\ ppc[t] = "adding"
    /\ Xadd(t, 1, "fresh")
    /\ ppc' = [ppc EXCEPT ![t] = "published"]
    /\ UNCHANGED <<store, aged, dedup, workerVars, resending, incidents, succeeded>>

\* The bus cannot be reached, or a SET raises: the exception leaves publish and
\* releases nothing, whether or not the server had set the key.
ClaimError(t) ==
    /\ ppc[t] \in {"saved", "keyed"}
    /\ \/ Incident("refused") /\ UNCHANGED dedup
       \/ /\ Incident("lost_reply")
          /\ dedup' = dedup \cup IF ppc[t] = "saved" THEN {KeyOf[t]} \ {NoKey} ELSE {t}
    /\ ppc' = [ppc EXCEPT ![t] = "error"]
    /\ UNCHANGED <<store, aged, entry, nextId, workerVars, resending, succeeded>>

\* The XADD raises.  The claimed keys are deleted one by one, each on a best
\* effort; when only the reply is lost the entry may have been added.
AddError(t) ==
    /\ ppc[t] = "adding"
    /\ LET claimed == {t, KeyOf[t]} \ {NoKey}
       IN  \/ /\ Incident("refused")
              /\ dedup' = dedup \ claimed
              /\ UNCHANGED <<entry, nextId>>
           \/ /\ Incident("lost_reply")
              /\ \E released \in SUBSET claimed : dedup' = dedup \ released
              /\ Xadd(t, 1, "fresh") \/ UNCHANGED <<entry, nextId>>
    /\ ppc' = [ppc EXCEPT ![t] = "error"]
    /\ UNCHANGED <<store, aged, workerVars, resending, succeeded>>

\* add writes the result of publish into the row.
Report(t) ==
    /\ ppc[t] \in Reporting
    /\ UpdateTask(t, [store[t] EXCEPT !.queue = ppc[t]])
    /\ ppc' = [ppc EXCEPT ![t] = "done"]
    /\ UNCHANGED <<aged, redisVars, workerVars, resending, incidents, succeeded>>

ProducerCrash(t) ==
    /\ ppc[t] \in Publishing \cup Reporting
    /\ Incident("publish_crash")
    /\ ppc' = [ppc EXCEPT ![t] = "dead"]
    /\ UNCHANGED <<store, aged, redisVars, workerVars, resending, succeeded>>

\* ReviewTaskQueue.delete, and the clean-up of failed tasks.
Delete(t) ==
    /\ t \in Deletable /\ InTable(t)
    /\ store' = [store EXCEPT ![t].status = "deleted"]
    /\ UNCHANGED <<aged, redisVars, ppc, workerVars, resending, incidents, succeeded>>

Produce(t) == ClaimBizKey(t) \/ ClaimTaskKey(t) \/ AddEntry(t) \/ Report(t)

-----------------------------------------------------------------------------
(* Workers: ReviewTaskWorker.run_once, one action per command.             *)

Goto(w, pc) == wpc' = [wpc EXCEPT ![w] = pc]
Finish(w)   == Goto(w, "idle") /\ wmsg' = [wmsg EXCEPT ![w] = NoMsg]

Receive(w, i, attempts) ==
    /\ Goto(w, "got")
    /\ wmsg' = [wmsg EXCEPT ![w] =
                   [id |-> i, task |-> entry[i].task, attempts |-> attempts]]

MaxOf(a, b) == IF a < b THEN b ELSE a

\* Mutant of ClaimStale: claim_idle_ms is not looked at.
ClaimStale_AnyIdle(w) ==
    /\ wpc[w] = "idle"
    /\ \E i \in Oldest(InState("pending") \cup InState("stale")) :
          /\ Receive(w, i, MaxOf(entry[i].attempts, entry[i].times))
          /\ entry' = [entry EXCEPT ![i].state = "pending", ![i].times = @ + 1]
    /\ UNCHANGED <<store, aged, nextId, dedup, ppc, wsnap, resending, incidents, succeeded>>

\* _claim_stale: the first entry of the pending list, high stream first, that
\* has been idle for claim_idle_ms.  The delivery count is read before XCLAIM
\* increments it.
ClaimStale(w) ==
    /\ wpc[w] = "idle"
    /\ LET stale == InState("stale")
       IN  \E i \in Oldest(IF OnHigh(stale) # {} THEN OnHigh(stale) ELSE stale) :
             /\ Receive(w, i, MaxOf(entry[i].attempts, entry[i].times))
             /\ entry' = [entry EXCEPT ![i].state = "pending",
                                       ![i].times = entry[i].times + 1]
    /\ UNCHANGED <<store, aged, nextId, dedup, ppc, wsnap, resending, incidents, succeeded>>

\* XREADGROUP with COUNT 1 delivers one entry of EACH stream that has one; the
\* worker takes the entry of the high stream and drops the other, which is in
\* the pending list from then on.
ReadNew(w) ==
    /\ wpc[w] = "idle"
    /\ InState("stale") = {}
    /\ LET fresh     == InState("fresh")
           delivered == Oldest(OnHigh(fresh)) \cup Oldest(OnNormal(fresh))
       IN  /\ \E i \in delivered :
                /\ OnHigh(delivered) # {} => i \in OnHigh(delivered)
                /\ Receive(w, i, entry[i].attempts)
           /\ entry' = [i \in Ids |->
                 IF i \in delivered THEN [entry[i] EXCEPT !.state = "pending", !.times = 1]
                                    ELSE entry[i]]
    /\ UNCHANGED <<store, aged, nextId, dedup, ppc, wsnap, resending, incidents, succeeded>>

\* Mutants of Lookup: a running task counts as handled; a completed one does not.
Lookup_SkipRunning(w) ==
    /\ wpc[w] = "got"
    /\ IF InTable(wmsg[w].task) /\ store[wmsg[w].task].status \notin {"completed", "running"}
         THEN Goto(w, "start") /\ UNCHANGED <<entry, wmsg>>
         ELSE Forget(wmsg[w].id) /\ Finish(w)
    /\ UNCHANGED <<store, aged, nextId, dedup, ppc, wsnap, resending, incidents, succeeded>>

Lookup_Again(w) ==
    /\ wpc[w] = "got"
    /\ IF InTable(wmsg[w].task)
         THEN Goto(w, "start") /\ UNCHANGED <<entry, wmsg>>
         ELSE Forget(wmsg[w].id) /\ Finish(w)
    /\ UNCHANGED <<store, aged, nextId, dedup, ppc, wsnap, resending, incidents, succeeded>>

\* queue.get: the message of a deleted task, or of one already completed, is
\* acknowledged at once.
Lookup(w) ==
    /\ wpc[w] = "got"
    /\ IF InTable(wmsg[w].task) /\ store[wmsg[w].task].status # "completed"
         THEN Goto(w, "start") /\ UNCHANGED <<entry, wmsg>>
         ELSE Forget(wmsg[w].id) /\ Finish(w)
    /\ UNCHANGED <<store, aged, nextId, dedup, ppc, wsnap, resending, incidents, succeeded>>

Start(w) ==
    /\ wpc[w] = "start"
    /\ UpdateTask(wmsg[w].task, [store[wmsg[w].task] EXCEPT
                                   !.status = "running", !.attempts = wmsg[w].attempts])
    /\ Goto(w, "review")
    /\ UNCHANGED <<aged, redisVars, ppc, wmsg, wsnap, resending, incidents, succeeded>>

\* The review ends with a run that is completed or blocked, or it raises.
Review(w) ==
    /\ wpc[w] = "review"
    /\ Goto(w, "reviewed") \/ Goto(w, "failing")
    /\ UNCHANGED <<store, aged, redisVars, ppc, wmsg, wsnap, resending, incidents, succeeded>>

Complete(w) ==
    /\ wpc[w] = "reviewed"
    /\ UpdateTask(wmsg[w].task, [store[wmsg[w].task] EXCEPT !.status = "completed"])
    /\ succeeded' = succeeded \cup {wmsg[w].task}
    /\ Goto(w, "acking")
    /\ UNCHANGED <<aged, redisVars, ppc, wmsg, wsnap, resending, incidents>>

Ack(w) ==
    /\ wpc[w] = "acking"
    /\ Forget(wmsg[w].id)
    /\ Finish(w)
    /\ UNCHANGED <<store, aged, nextId, dedup, ppc, wsnap, resending, incidents, succeeded>>

\* The XACK of a completed task is inside the try: when it raises, the message
\* takes the failure path.
AckError(w) ==
    /\ wpc[w] = "acking"
    /\ Incident("ack_error")
    /\ Forget(wmsg[w].id) \/ UNCHANGED entry
    /\ Goto(w, "failing")
    /\ UNCHANGED <<store, aged, nextId, dedup, ppc, wmsg, wsnap, resending, succeeded>>

\* Mutant of Fail: one attempt too many.
Fail_OneMore(w) ==
    /\ wpc[w] = "failing"
    /\ LET m == wmsg[w]
       IN  IF m.attempts > MaxAttempts[m.task]
             THEN Xadd(m.task, m.attempts, "dlq") /\ Goto(w, "ackDead")
             ELSE Xadd(m.task, m.attempts + 1, "fresh") /\ Goto(w, "ackRequeued")
    /\ UNCHANGED <<store, aged, dedup, ppc, wmsg, wsnap, resending, incidents, succeeded>>

\* bus.fail: add the next attempt to the same stream, or a dead letter ...
Fail(w) ==
    /\ wpc[w] = "failing"
    /\ LET m    == wmsg[w]
           dead == m.attempts >= MaxAttempts[m.task]
       IN  IF dead THEN Xadd(m.task, m.attempts, "dlq") /\ Goto(w, "ackDead")
                   ELSE Xadd(m.task, m.attempts + 1, "fresh") /\ Goto(w, "ackRequeued")
    /\ UNCHANGED <<store, aged, dedup, ppc, wmsg, wsnap, resending, incidents, succeeded>>

\* Mutant of FailAck: the failed message is not acknowledged.
FailAck_Keep(w) ==
    /\ wpc[w] \in {"ackRequeued", "ackDead"}
    /\ Goto(w, IF wpc[w] = "ackDead" THEN "setFailed" ELSE "setPending")
    /\ UNCHANGED <<store, aged, redisVars, ppc, wmsg, wsnap, resending, incidents, succeeded>>

\* ... then acknowledge this one ...
FailAck(w) ==
    /\ wpc[w] \in {"ackRequeued", "ackDead"}
    /\ Forget(wmsg[w].id)
    /\ Goto(w, IF wpc[w] = "ackDead" THEN "setFailed" ELSE "setPending")
    /\ UNCHANGED <<store, aged, nextId, dedup, ppc, wmsg, wsnap, resending, incidents, succeeded>>

\* Mutant of WriteBack: a status nobody knows.
WriteBack_Retry(w) ==
    /\ wpc[w] \in {"setPending", "setFailed"}
    /\ UpdateTask(wmsg[w].task, [store[wmsg[w].task] EXCEPT
                     !.status = IF wpc[w] = "setFailed" THEN "failed" ELSE "retry"])
    /\ Finish(w)
    /\ UNCHANGED <<aged, redisVars, ppc, wsnap, resending, incidents, succeeded>>

\* ... then write the outcome into the task table.
WriteBack(w) ==
    /\ wpc[w] \in {"setPending", "setFailed"}
    /\ UpdateTask(wmsg[w].task, [store[wmsg[w].task] EXCEPT
                     !.status = IF wpc[w] = "setFailed" THEN "failed" ELSE "pending"])
    /\ Finish(w)
    /\ UNCHANGED <<aged, redisVars, ppc, wsnap, resending, incidents, succeeded>>

\* A worker that dies, or whose run_loop ends with an exception of consume,
\* ack or fail, is started again and knows nothing of its message.
WorkerCrash(w) ==
    /\ wpc[w] \in Handling
    /\ Incident("worker_crash")
    /\ Finish(w)
    /\ UNCHANGED <<store, aged, redisVars, ppc, wsnap, resending, succeeded>>

-----------------------------------------------------------------------------
(* The outbox sweep of an idle worker: _sweep_outbox.                      *)

\* Mutant of Unpublished: a publish that failed is taken for one that was made.
Unpublished_Unreported == {t \in aged : store[t].status = "pending"
                                        /\ store[t].queue = "none"}

Unpublished == {t \in aged : store[t].status = "pending"
                             /\ store[t].queue \in {"none", "error"}}

BeginSweep(w) ==
    /\ wpc[w] = "idle"
    /\ InState("stale") \cup InState("fresh") = {}
    /\ Unpublished # {}
    /\ wsnap' = [wsnap EXCEPT ![w] = Unpublished]
    /\ Goto(w, "sweep")
    /\ UNCHANGED <<store, aged, redisVars, ppc, wmsg, resending, incidents, succeeded>>

\* publish with no business key; the rows were read before the loop began.
SweepClaim(w) ==
    /\ wpc[w] = "sweep"
    /\ \E t \in wsnap[w] :
         /\ wmsg' = [wmsg EXCEPT ![w] = [NoMsg EXCEPT !.task = t]]
         /\ wsnap' = [wsnap EXCEPT ![w] = @ \ {t}]
         /\ Goto(w, IF t \in dedup THEN "sweepDeduplicated" ELSE "sweepAdd")
         /\ dedup' = dedup \cup {t}
    /\ UNCHANGED <<store, aged, entry, nextId, ppc, resending, incidents, succeeded>>

SweepAdd(w) ==
    /\ wpc[w] = "sweepAdd"
    /\ Xadd(wmsg[w].task, 1, "fresh")
    /\ Goto(w, "sweepPublished")
    /\ UNCHANGED <<store, aged, dedup, ppc, wmsg, wsnap, resending, incidents, succeeded>>

\* The exception of XADD is caught nowhere up to run_loop: the worker dies.
SweepAddError(w) ==
    /\ wpc[w] = "sweepAdd"
    /\ \/ /\ Incident("sweep_refused")
          /\ dedup' = dedup \ {wmsg[w].task}
          /\ UNCHANGED <<entry, nextId>>
       \/ /\ Incident("lost_reply")
          /\ dedup' = dedup \ {wmsg[w].task} \/ UNCHANGED dedup
          /\ Xadd(wmsg[w].task, 1, "fresh") \/ UNCHANGED <<entry, nextId>>
    /\ Finish(w)
    /\ wsnap' = [wsnap EXCEPT ![w] = {}]
    /\ UNCHANGED <<store, aged, ppc, resending, succeeded>>

SweepReport(w) ==
    /\ wpc[w] \in {"sweepPublished", "sweepDeduplicated"}
    /\ UpdateTask(wmsg[w].task, [store[wmsg[w].task] EXCEPT
         !.queue = IF wpc[w] = "sweepPublished" THEN "published" ELSE "deduplicated"])
    /\ Goto(w, IF wsnap[w] = {} THEN "idle" ELSE "sweep")
    /\ wmsg' = [wmsg EXCEPT ![w] = NoMsg]
    /\ UNCHANGED <<aged, redisVars, ppc, wsnap, resending, incidents, succeeded>>

SweepCrash(w) ==
    /\ wpc[w] \in Sweeping
    /\ Incident("publish_crash")
    /\ Finish(w)
    /\ wsnap' = [wsnap EXCEPT ![w] = {}]
    /\ UNCHANGED <<store, aged, redisVars, ppc, resending, succeeded>>

-----------------------------------------------------------------------------
(* The operator's dlq_requeue_all, one dead letter at a time.              *)

Resend(i) ==
    /\ resending = 0
    /\ i \in InState("dlq")
    /\ Incident("resend")
    /\ Xadd(entry[i].task, 1, "fresh")
    /\ resending' = i
    /\ UNCHANGED <<store, aged, dedup, ppc, workerVars, succeeded>>

DropDeadLetter ==
    /\ resending # 0
    /\ Forget(resending)
    /\ resending' = 0
    /\ UNCHANGED <<store, aged, nextId, dedup, ppc, workerVars, incidents, succeeded>>

ResendCrash ==
    /\ resending # 0
    /\ Incident("publish_crash")
    /\ resending' = 0
    /\ UNCHANGED <<store, aged, redisVars, ppc, workerVars, succeeded>>

-----------------------------------------------------------------------------
(* Time.                                                                   *)

\* A task is min_age_seconds old: its producer is through, or it is slow.
Age(t) ==
    /\ InTable(t) /\ t \notin aged
    /\ IF ppc[t] \in Publishing \cup Reporting
         THEN Incident("slow_publish")
         ELSE UNCHANGED incidents
    /\ aged' = aged \cup {t}
    /\ UNCHANGED <<store, redisVars, ppc, workerVars, resending, succeeded>>

\* An entry nobody works on has been idle for claim_idle_ms ...
GoStale(i) ==
    /\ entry[i].state = "pending"
    /\ \A w \in Workers : ~HeldBy(w, i)
    /\ entry' = [entry EXCEPT ![i].state = "stale"]
    /\ UNCHANGED <<store, aged, nextId, dedup, ppc, workerVars, resending, incidents, succeeded>>

\* ... and so has one whose worker is still reviewing.
Outlive(i) ==
    /\ entry[i].state = "pending"
    /\ \E w \in Workers : HeldBy(w, i)
    /\ Incident("slow_worker")
    /\ entry' = [entry EXCEPT ![i].state = "stale"]
    /\ UNCHANGED <<store, aged, nextId, dedup, ppc, workerVars, resending, succeeded>>

ExpireKey(k) ==
    /\ k \in dedup
    /\ Incident("key_expiry")
    /\ dedup' = dedup \ {k}
    /\ UNCHANGED <<store, aged, entry, nextId, ppc, workerVars, resending, succeeded>>

-----------------------------------------------------------------------------
Work(w) ==
    \/ ClaimStale(w) \/ ReadNew(w) \/ Lookup(w) \/ Start(w) \/ Review(w)
    \/ Complete(w) \/ Ack(w) \/ Fail(w) \/ FailAck(w) \/ WriteBack(w)
    \/ BeginSweep(w) \/ SweepClaim(w) \/ SweepAdd(w) \/ SweepReport(w)

Next ==
    \/ \E t \in Tasks : \/ Add(t) \/ Produce(t) \/ ClaimError(t) \/ AddError(t)
                        \/ ProducerCrash(t) \/ Delete(t) \/ Age(t)
    \/ \E w \in Workers : \/ Work(w) \/ AckError(w) \/ WorkerCrash(w)
                          \/ SweepAddError(w) \/ SweepCrash(w)
    \/ \E i \in Ids : Resend(i) \/ GoStale(i) \/ Outlive(i)
    \/ DropDeadLetter \/ ResendCrash
    \/ \E k \in Keys : ExpireKey(k)

Spec == Init /\ [][Next]_vars

\* run_loop polls for ever, time passes, and a request that has begun goes on
\* unless its process dies; nobody has to create a task or resend a letter.
Fairness ==
    /\ \A t \in Tasks : WF_vars(Produce(t)) /\ WF_vars(Age(t))
    /\ \A w \in Workers : WF_vars(Work(w))
    /\ \A i \in Ids : WF_vars(GoStale(i))

FairSpec == Spec /\ Fairness

-----------------------------------------------------------------------------
(* Properties.                                                             *)

\* The entries that may still be delivered or resent are those that name a task.
EntriesTyped ==
    /\ entry \in [Ids -> Entries]
    /\ \A i \in Ids : entry[i].state \in Live <=> entry[i].task \in Tasks

TypeOK ==
    /\ store \in [Tasks -> Rows]
    /\ aged \subseteq Tasks
    /\ EntriesTyped
    /\ nextId \in 1 .. (MaxEntries + 1)
    /\ dedup \subseteq Keys
    /\ ppc \in [Tasks -> {"none", "done", "dead"} \cup Publishing \cup Reporting]
    /\ wpc \in [Workers -> {"idle"} \cup Handling \cup Sweeping]
    /\ wmsg \in [Workers -> Messages]
    /\ wsnap \in [Workers -> SUBSET Tasks]
    /\ resending \in Ids \cup {0}
    /\ incidents \in 0 .. MaxIncidents
    /\ succeeded \subseteq Tasks
    /\ \A w \in Workers : wpc[w] \notin {"idle", "sweep"} => wmsg[w].task \in Tasks

EntryOf(t, states) == \E i \in Ids : entry[i].task = t /\ entry[i].state \in states
SweepAdds(t) == \E w \in Workers : wpc[w] = "sweepAdd" /\ wmsg[w].task = t
Handled(t)   == \E w \in Workers : wpc[w] \in Handling /\ wmsg[w].task = t

\* The task is pending and the next sweep will publish it.
Sweepable(t) == store[t].status = "pending" /\ store[t].queue \in {"none", "error"}

\* Something will still bring the task to a worker or to the operator.
Carried(t) ==
    \/ EntryOf(t, Live) \/ SweepAdds(t) \/ Sweepable(t)
    \/ ppc[t] \in Publishing \cup {"error"}

\* No accepted task is lost: until its review has succeeded or it is deleted,
\* a producer or a sweep is about to publish it, the sweep will find it, or an
\* entry in one of the streams still carries it (at-least-once, bus.py).
NoTaskLost == \A t \in Tasks : InTable(t) /\ t \notin succeeded => Carried(t)

\* A task recorded as completed stays completed until it is deleted: no late
\* write of another attempt overwrites the outcome (idempotent consumption).
CompletedIsFinal ==
    [][\A t \in Tasks : store[t].status = "completed"
                          => store'[t].status \in {"completed", "deleted"}]_vars

\* Two workers never run the review of one task at the same time.
NoConcurrentReview ==
    \A v, w \in Workers :
        v # w /\ wpc[v] = "review" /\ wpc[w] = "review" => wmsg[v].task # wmsg[w].task

\* An entry in the pending list is in the hands of a worker: only a crash
\* leaves one there to be claimed by idle time.
PendingIsHeld ==
    \A i \in InState("pending") \cup InState("stale") : \E w \in Workers : HeldBy(w, i)

\* No review starts on an attempt beyond max_attempts (bounded retries).
AttemptsBounded == \A t \in Tasks : store[t].attempts <= MaxAttempts[t]

\* Every attempt beyond max_attempts is paid for by an incident: failures
\* alone never push a task past its limit.
AttemptsArePaid == \A t \in Tasks : store[t].attempts <= MaxAttempts[t] + incidents

\* The phase of a task as its user sees it.  "lost" is no phase of the promise.
Phase(t) ==
    IF store[t].status = "absent" THEN "new"
    ELSE IF store[t].status = "deleted" THEN "deleted"
    ELSE IF t \in succeeded THEN "done"
    ELSE IF \/ Handled(t) \/ EntryOf(t, Live \ {"dlq"})
            \/ (Carried(t) /\ ~EntryOf(t, {"dlq"})) THEN "open"
    ELSE IF EntryOf(t, {"dlq"}) THEN "parked" ELSE "lost"

Lifecycle == INSTANCE TaskLifecycle WITH phase <- [t \in Tasks |-> Phase(t)]

\* The delivery machinery implements the promise of TaskLifecycle.
ImplementsLifecycle == Lifecycle!Spec
=============================================================================
