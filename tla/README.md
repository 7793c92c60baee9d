# Verification of legal-agent-workbench

TLA+ modules, TLC runs and TLAPS proofs for the service in `src/src/legalworkbench`: contracts are submitted for
review, reviews run in worker processes on several agents, their tools are gated by a policy with human approvals, and
what was learnt is kept in a long-term memory. The program is a Python application whose parts are held together by
Redis Streams, by JSON files that are rewritten as a whole, or by PostgreSQL. Its hard part is not the reviewing but
what happens when several processes, crashes and retries meet at those three places. That is what is modelled here,
and besides it what the agents, the language model client, the Feishu bot and the configuration of a workspace decide.

## The system

| component (source) | state | operations | talks to | hard because of |
|---|---|---|---|---|
| task bus (`mq/bus.py`) | two priority streams, a dead-letter stream, pending lists, deduplication keys | publish, consume, claim of stale entries, ack, fail, requeue of dead letters | Redis | redelivery, lost replies, crashes between two commands, counters |
| worker (`tasks/worker.py`) | the message in hand | run_once, run_loop, outbox sweep | bus, task queue, runtime | late writes, slow reviews, failure of the acknowledgement |
| task queue (`tasks/queue.py`, `storage/postgres.py`) | task rows (also the outbox) | add, update, claim, delete, clean-up, recovery | bus, file or PostgreSQL | whole-table rewrites under a lock of one process |
| tool gate (`governance/tool_policy.py`, `tools/base.py`) | encrypted ledger of approvals | evaluate, request, decide, consume, execute | file | single use, binding of a grant, two processes |
| memory (`memory/manager.py`) | memories, archive | mark_used, consolidate, evict, approve, activate, reject, stale, archive | file or PostgreSQL | no lock at all, two writers, eviction in two steps |
| review run (`runtime/engine.py`, `agents/`) | run record, findings with their marks | review, fail | all of the above | rules, retrieval, model, guard and reflection may each fail; several stores written one after the other |
| events (`hooks/events.py`, `GET /api/events/stream`) | `events.jsonl` or a table, a cursor per stream | emit, tail, poll, reconnect | web (SSE) | ids from line counts, no lock, late commits, resumption |
| sessions, run store (`storage/sessions.py`, `store.py`) | snapshots, run records, samples | save, list, init | review run | which snapshot is the last one |
| LLM client, cache (`llm/client.py`, `cache.py`) | circuit breaker, cached answers, traces | complete, decide, drain_traces | remote model, Redis | shared cache entries, one circuit per worker, traces that outlive a review |
| Feishu bridge (`feishu_events.py`, `feishu_stream.py`) | processed message ids in a cache and a file | handle | Feishu, runtime | at-least-once callbacks, look-up and mark in two steps, two records |
| documents (`documents/store.py`) | texts, originals, index | save, list, get | file | index rewritten without a lock and cut |
| secrets, encryption, migration (`secrets.py`, `secure_storage.py`, `privacy_migration.py`) | `secrets.json`, files encrypted or plain | save, encrypt, migrate | settings, key services | the setting that decides is itself a racing file |
| authentication (`auth.py`) | mode and key, read at start or at each request | authenticate | settings, secrets | a running server keeps its mode |
| web and commands (`web.py`, `cli.py`, `security_cli.py`) | `settings.json`, `skills.json` | routes and commands that configure | all of the above | whole-file rewrites without a lock |
| rules, injection scan, retrieval, parser, report, skills, evaluation | none, or outside | pure functions and requests | | |

A web process saves a task row and publishes it; a worker consumes the message, reads the row, writes `running`, lets
the runtime review the contract, writes the outcome and acknowledges. The row and the message are two records of the
same task, and no transaction covers both: `queue.py` calls the table an outbox and the worker sweeps it. During a
review every tool call passes the gate, and a gated one waits for a user of another process to decide. At the end of
the review the memory curator merges the findings into the memory, while clerks approve and reject at the command line.

What makes each component correct:

* delivery: no accepted task is lost; a completed task stays completed; attempts are bounded; no two reviews of one
  task at once; every task gets an outcome;
* table: every call takes effect as a whole; removed rows do not come back; an accepted task or an update is lost only
  by the older copy of a call that was overtaken, and not across tenants of which that copy has no row;
* gate: no outside write without the approval of another user for exactly this request; a grant is spent once;
* memory: nothing that requires approval is recalled without it; advice stays with its tenant; capacity; export;
* review run: what its five records say agrees wherever it stops; every high risk ends blocked or before a person;
* events: an event is lost, skipped or repeated only for a reason that can be named, and else seen by every stream;
* model calls: the personal values of a client that masks stay inside, an outage costs one request, a report accounts
  for its own calls;
* bridge: one review per message and one answer in its chat, or a reason why not;
* workspace: what a request stored stays stored unless another change overlapped; what lies in plain has a reason.

## Modules

| module | models | abstraction it implements | proofs |
|---|---|---|---|
| `TaskDelivery` | bus, worker, producer, sweep, operator | `TaskLifecycle` | `TaskDeliveryProofs` |
| `TaskStore` | the task table as threads and processes rewrite it | `TaskTable` | `WorkspaceProofs` |
| `ToolApproval` | tool gate and approval ledger | `ApprovalLedger` | `ToolApprovalProofs` |
| `LegalMemory` | the long-term memory | | `LegalMemoryProofs` |
| `ReviewRun` | supervisor, agents, and the records of a run | | `ReviewRunProofs` |
| `EventStream` | event log and its subscribers | | `EventStreamProofs` |
| `ModelCalls` | LLM client, masking, cache, traces | | `ModelCallsProofs` |
| `FeishuBridge` | the bot: deduplication, review, reply | | `FeishuBridgeProofs` |
| `Workspace` | documents, settings, secrets, tasks file, encryption, authentication, the routes and commands that write them | | `WorkspaceProofs` |

For each of them but `TaskLifecycle`, `TaskTable` and `ApprovalLedger` a module `MC...` gives the functions among the
constants their values; the `.cfg` files give the sets and bounds. An operator named `X_Something` with the comment
"Mutant of X" is a deliberately wrong X: it shows that the properties notice the bug it stands for, and no specification
uses it.

### TaskDelivery

One action is one command to Redis or one call on the task table, in the order of the code. `store` holds status,
attempts and the `queue` column of each row; `entry` the stream entries (`fresh` = not delivered, `pending` = in the
pending list, `stale` = idle for `claim_idle_ms`, `dlq` = dead letter, `gone` = acknowledged); `dedup` the set keys;
`ppc` and `wpc` the place of each producer (`ReviewTaskQueue.add`) and each worker (`run_once`, `_sweep_outbox`).
`Work(w)` is a worker's loop; `ClaimStale`, `ReadNew`, `Lookup`, `Start`, `Review`, `Complete`, `Ack` are its straight
path, `Fail`, `FailAck`, `WriteBack` the failure path (the retry is added, then the message acknowledged, then the
status written), `BeginSweep` ... `SweepReport` the sweep. What the environment does is an *incident*: its kinds are
listed in `AllKinds`, a run chooses `Kinds` and at most `MaxIncidents` of them. The review itself is one step that
succeeds or raises. A call on the table is atomic here; its interior is `TaskStore`.

`succeeded` is a history variable. `TaskLifecycle` is the promise to the user: a task is open, then done, parked among
the dead letters, or deleted. `Phase` is the refinement mapping. A state where no producer, entry or sweep carries the
task maps to `lost`, which the promise does not have.

Fairness (`Fairness`): a worker's loop goes on (`run_loop` polls for ever and a crashed worker is started again), a
producer that has begun goes on unless its process dies, and time passes (`Age`, `GoStale`). Nobody has to submit, to
delete or to resend. Incidents are never fair.

### TaskStore and TaskTable

Every call of `tasks/queue.py` is `Load` (the whole table) and `Save` (the changed copy). `add`, `update` and `claim`
hold the lock of their process in between; `delete`, `delete_failed_without_contract` and
`recover_stale_running` do not. `Stored` is the whole-file replacement or `replace_tasks`. A row carries the calls that
have left a mark on it, so a lost update shows. `TaskTable` is the table with atomic calls.

### ToolApproval and ApprovalLedger

`Begin`, then `Request`, `Decide` or `Consume` are the calls on the ledger under the process's lock (load, change,
save); `Pass`, `Evaluate` and `Run` are `ToolPolicyMiddleware.evaluate` and `ToolRegistry.execute`. A request stands
for tenant, user, run, tool and arguments, which the fingerprint binds. `decided`, `granted` and `ran` are histories.
The agents of the application never pass an `approval_id` (`agents/base.py:88-104`), so today a grant is consumed only
by callers of the registry itself; the model lets any caller present any approval.

### LegalMemory

Each call reads the table and computes its copy in one step, exports evictions (`ReadArchive`, `WriteArchive`) and
saves the copy; no lock keeps calls apart, so `Save` may write back a copy of any age. Advice is named by the finding
that suggests it; `RequiresApproval` is `_requires_human_approval`. The order of the findings of a run, which of two
matching memories is reinforced, and the ranking by retention score are left open: every outcome is allowed. Left out:
confidence, use counts, the index file `MEMORY.md` (derived from the table) and the masking of personal data.

### ReviewRun

`LegalReviewSupervisor.review` from the first snapshot to the dashboard; `at[r]` is where it is. A clause goes through
`Retrieve` (with one refined query), `Draft` and `Approve`; then `Reflect`, `Finalize`, `Curate`, `WriteReport`,
`SaveRun`, `SaveSnapshot`, `Announce`, `ListRuns` and `ExportDashboard`, each a write of its own. `Fail` is the handler
of `AgentExecutionError`; `Abandon` is any other exception, or a crash, anywhere. A finding is kept as what decides over
it: risk type, level, whether evidence supports it, whether it is an absolute judgement, and the marks `review` and
`blocked`. Which wording a rule hits, what retrieval finds and what the model proposes or confirms are left open; what
the code then does with each combination is not. A failing tool gives what the code makes of its error.

### EventStream

`Begin` and `End` of an `emit`: the file is read and later written whole, with the line number as the id; in PostgreSQL
the id is drawn at the insert and the row is visible from the commit. `Abort` is a crash or a rollback. `Poll` is a
round of the stream of a subscriber with its cursor and `last_signature`; `Receive` hands an answer to the browser,
which keeps its id; `Reconnect` loses what is on the wire and resumes after that id. Fairness: an `emit` ends one way or
the other, the stream polls every second, the browser reads. Connections are never lost fairly.

### ModelCalls

A call goes through `Look` (cache), `Gate` (circuit), `Send`, then `Keep` or `Break`, and `TraceAnswer` or `TraceError`;
`Degrade` is the fallback of `decide`; `Drain` hands the traces to the report. A prompt is the sequence of the personal
values in it; `Mask` numbers them in order of first occurrence and `Restore` puts those of the *caller's* prompt back,
so two prompts that differ in values only have one key. `masking` is the setting `llm.mask_pii` of each
client as it was when the client was made (`Settings` are the possible ones): what a client sends and looks up is
`Outbound`, the masked prompt or the prompt itself, and `MappingOf` is empty if it does not mask. Clients are one per
runtime and meet in Redis, so a client that masks may ask a cache that one which does not has filled. A failed request
is one call of `_openai_compatible`, which sends a second time if the connection is lost at once (`client.py:407-429`);
the circuit stays open for 300 seconds (`Cool`).

### FeishuBridge

`handle` step by step: `LookCache`, `LookFile`, `Obtain` (what the message holds), `MarkCache`, `MarkRead`, `MarkWrite`,
`Save`, `Review`, `Reply`. A message is delivered several times to any handler of any instance, through the callback
(`Authentic`) or the long connection. Redis may refuse a command, a key expires, an instance crashes, the download fails
in both ways, a reply that timed out may have been sent.

### Workspace

A job is the sequence of the steps of one request, command or migration: `Take` begins one, `Work` does its first step.
A change of a shared file is `Read`, `Encode` (which reads `settings.json` to decide whether to encrypt) and
`WriteShared`; `settings.json` and `skills.json` are never encrypted. `Holding` and `Locked` are the lock of the task
queue. `Refuse` is a key that is not to be had, `Stop` an exception or a crash between two steps, `Restart` the web
server that reads its authentication mode anew. `written`, `raced`, `met`, `escaped` and `secured` are histories: what
belongs in a file, what overlapped, and whether a migration has ended with the encryption set (`Migrated`). With a
second console `init --force` may reset the settings while a migration seals; such a migration ends, but secures
nothing.

## Runs

| run | instance | shows |
|---|---|---|
| `delivery_one_worker` | 2 tasks of different priority, 1 worker, 2 incidents of any kind but a failing XACK, 8 entries | types; a completed task stays completed under redelivery, crashes, lost replies and resends |
| `delivery_lifecycle` | 1 task, 2 workers, 2 incidents (crash, slow worker, failing XACK, key expiry, resend, refused command), deletion, 12 entries | no task is lost; attempts beyond the limit are paid for by incidents; the promise of `TaskLifecycle` including liveness |
| `delivery_two_workers` | 2 tasks of one priority, 2 workers that neither crash nor are slow, 1 incident, 6 entries | no concurrent review, bounded attempts, no entry left in nobody's hands |
| `store_locked` | 3 tasks, 2 tenants, 3 threads of one process, PostgreSQL | the locked calls implement `TaskTable` |
| `store_deleting` | 3 tasks, 2 tenants, 3 threads of one process, PostgreSQL, a clean-up | no removed row comes back; a row is lost or changed by a call about another only by the clean-up's older copy, and then of a tenant of which it has rows |
| `approval_one_process` | 3 requests, 2 users, 2 tenants, 2 threads of one process | types, single use, granted writes, refinement of `ApprovalLedger` |
| `memory_recall` | 4 findings of 3 runs of 2 tenants, a worker and a clerk, 2 memories at most, file | recall, tenants, capacity, export |
| `review_records` | a review and its retry over at most 2 clauses, 1 risk type that a rule rates high and may ask review for, 1 exception or crash anywhere | every high risk is blocked or before a person, "completed" is clean, memory holds audited findings only, the five records and the dashboard agree |
| `events_resume` | both backends, 4 events of 2 tenants, 2 emits at a time, answers of 2 events, 1 lost connection | ids are unique, loss needs an overlap, an event is skipped or repeated only for a reason, and else received (liveness) |
| `model_calls` | 2 clients with Redis or without, 2 reviews of 2 and 1 calls beside 1 of 1, 2 tasks on 2 models, 2 prompts with the same mask, remote or local, both clients mask or one of them | the values of a client that masks stay inside, an outage costs one request, reports account for their calls |
| `feishu_dedup` | 2 instances, a message of each kind delivered twice, another that is only marked, the file keeps 1 id, 1 crash | a second review has one of two causes; a marked message is answered or its handler failed |
| `workspace_files` | a requester and an administrator with a console in two tenants, 3 jobs of all kinds, 1 break-off, an index of 1 row | what was stored stays unless changes overlapped; what is plain after a migration has a reason |

Why the bounds are enough. Two tasks cover the interplay of the two streams and of two rows of one table; two workers
cover every pair of steps of two handlers; `max_attempts` is 2 for one task and 1 for the other, so both a retry and a
dead letter occur. One incident and its repair need at most a redelivery; a second incident strikes while the first is
being repaired, which is where the code's faults were found. `MaxEntries` cuts off only behaviours in which both
incidents multiply the entries of tasks that then fail every time; in `delivery_lifecycle` it cuts off none, or the
stuck worker would break the liveness of the promise. In the store each call is made once, with three threads, so two
calls can overlap a third; one of the three tasks has a tenant of its own, whose rows a copy may lack. In the memory
three runs over two places force evictions, and two of the runs have the same subject. In the review a second clause
adds findings beside a first that was clean, blocked or injected, and the retry overlaps nothing but meets every state
an abandoned run leaves. In the event stream four events fill two answers, so the limit cuts one while another overlaps.
A client needs a review after another to meet old traces, and a second client to meet a cached answer, also of one that
does not mask. Two deliveries are enough for a second review, and a second message to push the first out of the file. In
the workspace two jobs that overlap cause every loss, and the third reads what they left. The sizes that the code fixes
(50 events, 500 rows, 1000 ids) are constants so that one or two reach them. Every run allows deadlock: the inputs are
finite and a system without work rests.

## What is proved

All proofs are checked by TLAPS for every value of the constants allowed by the module's `ASSUME`.

* `TaskDeliveryProofs`, about any number of tasks, workers, entries and incidents:
  * `TypeCorrect`, without assumption.
  * `AtLeastOnce`: no accepted task is lost, assuming `PublishIsSound` (no incident strikes inside `bus.publish` or a
    sweep's publish) and `OwnKeys` (no two tasks share a business key). Both are needed: without either TLC finds a lost
    task. `NoTaskLost` is not inductive, as a worker drops an entry trusting that it has added another. The
    strengthening says per worker what that other is: an entry *younger* than the one in hand (`RescuedAfter`), so that
    acknowledging the one cannot remove the other.
  * `StepsOfTheLifecycle`: under the same assumptions every step is one of `TaskLifecycle` or a stutter, which is the
    safety half of `ImplementsLifecycle`. As no task is lost, its phase follows from three facts (`PhaseOf`): its
    status, whether its review has succeeded, and whether a dead letter is all that is left of it; a step changes these
    of one task at most.
  * `AttemptsCostIncidents`, without assumption, and `RetriesAreBounded`, assuming `WorkersAreSound` (workers neither
    crash nor are slow). `AttemptInv` counts deliveries: an entry that waits has been delivered once more than was paid
    for, and the delivery in hand comes on top; `Paid` is what has been paid so far. So of all incidents only the two of
    a worker cost an attempt.
  * `OneReviewAtATime`: no concurrent review, assuming `NothingIsRepeated` (no crashed or slow worker, no expired key,
    no lost reply, no process that dies inside `publish`). `SoleInv`: a task has at most one *carrier*, which is the
    producer or the sweep about to add its entry, an entry that waits, or the worker that has the entry and is not
    through with it; and as long as there is one its key is in `dedup`, so that nobody publishes the task again.
  * `PendingEntriesAreHeld`, assuming `OnePriority` and that no worker crashes; slow workers are allowed.
  * `OutcomesAreFinal`: a completed task stays completed, assuming `OneWorker` and that XACK does not fail. `FinalInv`:
    what the worker still has to write is about a task that is not completed.
* `WorkspaceProofs` extends `TaskStore` and `Workspace`, which share no variable: the task table is one of the
  workspace's files, seen closely. About `TaskStore`:
  * `StoreTypeCorrect`, in any deployment.
  * `LockedCallsAreAtomic` (refinement of `TaskTable`), assuming `OneProcess` and `LockedOnly` (no delete, clean-up or
    recovery). The invariant is `CopyIsCurrent`: the copy of the call under way is the stored table.
  * `RemovedStaysRemoved`, assuming `OneProcess` and `OneRemover` (one call at most is a delete, clean-up or recovery):
    nobody saves while another call holds the lock, so a call that locks still works on the stored table, and calls that
    lock remove nothing; hence the copy of the other call may be old but has no row that the table lacks
    (`CopiesAreBounded`).
  * `LossNeedsAnOvertakenCall`, in any deployment and with any number of such calls, without assumption beyond
    `StoreAssumption`. `since` keeps for each call under way the threads that have stored the table since it read it.
    The invariant `Overtakers` says that a call that locks throughout is overtaken by other processes only, and that a
    copy which nobody has overtaken is the stored table; so what such a call writes is what it means (`SavedAsMeant`).
    What an overtaken copy writes follows row by row from `Stored` (`SavedRow`): in PostgreSQL, rows of the tenants it
    has rows of.
* `WorkspaceProofs`, about `Workspace`: `WorkspaceTypesHold`, `WritesStayStored` and `PlainFilesAreExplained`, for any
  number of actors, consoles and jobs, a break-off at any step, and any limit of the index, without assumption beyond
  `WorkspaceAssumption`. None of the three is inductive, and `WorkInv` has a part for each reason.
  * `Documents`: a row is written after its file, because the step that creates the file comes before it in the same job
    (`Supplied`), and no two steps store the same text (`Apart`), which keeps the order of documents injective.
  * `Contents`: the file *and the copy of it that any open change has read* (`Busy`) differ from what belongs in it only
    in what raced, and in the rows that are cut (`Good`), since any of these copies may become the file. What a write
    stores or removes is raced if another such copy is open (`GoodKept`); the new content is the writer's copy but for
    these entries (`GoodWritten`). A row that was cut stays cut, as documents keep their ages and the rows that belong
    in the index only become more (`CutsKept`).
  * `Plains`: a migration is before its list, or what it has still to seal covers whatever is in plain and has no reason
    to be (`Course`); everybody who works beside it has `met` it, so what they write in plain has escaped.
* `ToolApprovalProofs`: `ApprovalTypeCorrect` and `OutsideWritesAreGranted` in *every* deployment, with any number of
  processes overwriting one another's ledger: every copy of the ledger anybody holds is backed by decisions, and
  decisions only grow. `GrantsAreSingleUse` and `DecisionsStand` (refinement of `ApprovalLedger`) assume `OneProcess`.
* `LegalMemoryProofs`: `MemoryTypeCorrect`, `RecallNeedsApproval`, `AdviceIsOwn` without assumption; `CapacityKept`
  for the file backend; `EvictionsAreExported` for one reviewing process. The invariant `Sound` is required of the
  table and of every copy a caller still holds, because any of them may become the table.
* `ReviewRunProofs`: `ReviewTypeCorrect`, `RisksAreReviewed`, `CompletedRunsAreClean`, `MemoryIsAudited` and
  `AllRecordsAgree`, without assumption beyond `ReviewAssumption`. A step of one review leaves what is kept of the other
  runs alone (`StepIsLocal`), so the invariant is one statement per run, `Sound`: where the review is determines which
  marks its findings bear (`MarkedFinding` from the approval, `AuditedFinding` from the reflection on) and which records
  exist. The memory and the dashboard, which all runs share, have parts of their own (`MemorySound`, `DashboardSound`).
* `EventStreamProofs`: `OnlyRacedEventsAreLost` and `EventsAreSeenOnce`, for any number of subscribers, events, emits at
  once and lost connections, in both backends. `EmitInv` says what an emit alone knows of the log (its copy is the log,
  or its id the last one drawn), and that what a copy lacks was emitted during the emit. `UpTo(s, known, c)` says that a
  set of known events reaches up to an id; it holds of what a subscriber has been sent with its cursor, and of what it
  has received with the id it resumes after, which is why a lost connection costs nothing. `TypesHold` adds the numbers:
  the file has no more lines than events were begun, nor has the table drawn more ids (`Bounds`), and an answer
  fits the limit because ids differ (`NewestFits`).
* `ModelCallsProofs`: `PersonalValuesStayInside`, for prompts of any length, clients that share a cache and any of them
  set not to mask, and `OneFailurePerOutage`. A client that masks is safe from the others' entries because these have
  raw texts as keys: an entry holds only values that its key holds (`Clean`), and the key of a masked text holds none.
  Assumed (`CallsAssumption`) is that no personal value is itself a placeholder. The lemmas say that masking leaves
  numbers only, and that restoring brings back values of the caller's own text only. `TypesHold` and `ReportsAreTrue`
  rest on `AccountInv`: the list of a client ends with the traces of the calls of the review at hand, in order and one
  for each (`OrderOf`), whatever failed reviews have left before them; each trace is true of its call (`TruthOf`); a
  cache entry names the model of its task, which is why an answer taken from a cache that another client has filled is
  reported with the right model.
* `FeishuBridgeProofs`: `TypesHold`, `SecondReviewsAreExplained` and `MarkedMessagesAreAnswered`, for any number of
  instances, handlers, messages, deliveries and crashes and any cap of the file, without assumption beyond
  `BridgeAssumption`. The parts of `BridgeInv`: the file and each copy of it hold an id once and no more than `Cap`
  (`Files`); every review and every handler at work on a message is paid for by a delivery (`Paid`); until two handlers
  have overlapped, one alone is between look-up and mark, and what it marks is in a cache and a file or has been lost
  from them (`Watched`); whatever has ever been put in a cache is heard of, and every record was preceded by that
  (`Heard`).

Some operators are written in the form the provers accept: `Phase` with nested conditionals, and `Picked` and `Without`
with a recursive function instead of `SelectSeq` and `Remove`. What these two return for every list is proved without an
induction principle: a set of positions where the statement fails would have a least member, and there is none.

Only model-checked: liveness (of `ImplementsLifecycle` and `EventuallySeen`), which is out of the prover's reach. Every
other property of a run is stated by a theorem above, under assumptions (on `Kinds`, `Ops` and the like) that the
constants of that run satisfy. What happens where an assumption fails is told below.

## Where the code falls short

Five configurations beside those of the runs (a sixth, `TaskStore_two_processes.cfg`, checks `LossIsOvertaken` with a
web process and a worker process on PostgreSQL, and passes) show disagreements between what the repository says of
itself and what the code does, each on the smallest instance; TLC ends with the violation named:

| `tlc -config` | module | violated | what happens |
|---|---|---|---|
| `TaskDelivery_v_same_key.cfg` | `MCTaskDelivery` | `NoTaskLost` | a task accepted with the `dedup_key` of a finished one is never published while the key lives (`bus.py:138`, `worker.py:120`; `queue.py:93` calls the table an outbox) |
| `TaskDelivery_v_late_write.cfg` | `MCTaskDelivery` | `CompletedIsFinal` | the status of a failed attempt is written after the next attempt is visible: `completed` becomes `pending` (`worker.py:85`, against `worker.py:5`) |
| `TaskStore_v_processes.cfg` | `MCTaskStore` | `AcceptedStays` | a worker's older copy of the table removes a task the web process has accepted: the lock is one of threads (`queue.py:16`) |
| `TaskStore_v_last_row.cfg` | `MCTaskStore` | `DeletedIsGone` | in PostgreSQL `delete` of a tenant's last task returns True and deletes nothing (`postgres.py:207`, against `tests/test_runtime.py:686-688`) |
| `ToolApproval_v_processes.cfg` | `MCToolApproval` | `SingleUse` | two processes consume one approval (`tool_policy.py:46`, against `tool_policy.py:57`) |

Further behaviours are excluded by the `Kinds` or the constants of a run; allowing them makes TLC report the property
named:

* a process dies between `SET NX` and `XADD` (`bus.py:137`), or the reply of a `SET` is lost: the sweep then finds the
  key set, records the task as deduplicated and never publishes it (`NoTaskLost`);
* the XACK of a completed task raises: the task takes the failure path and is reviewed again (`CompletedIsFinal`);
* a worker dies between `bus.fail` and the status update, or the review kills the worker again and again: attempts
  exceed `max_attempts` by one per incident (`AttemptsBounded`, hence `AttemptsArePaid`);
* with both priorities, `XREADGROUP COUNT 1` delivers an entry of each stream and the bus drops one, which waits
  `claim_idle_ms` in nobody's hands (`PendingIsHeld`, checked for one priority);
* two of `delete`, clean-up and recovery at once in one process (`NoResurrection`);
* a copy of the queue that holds rows of several tenants, as `list` reads them, and is overtaken: `replace_tasks`
  reconciles all these tenants, so it removes a task that another tenant's call has added meanwhile, although the
  comment in `postgres.py:205-206` excludes that (`AcceptedStays`; `LossIsOvertaken` says what remains true);
* two processes that write the memory: a rejected memory comes back with an older copy, and in PostgreSQL the snapshot
  of one tenant's writer removes new memories of another (`postgres.py:170-172` says it must not).

The newer modules contain such behaviours, and their properties say what remains true. What they do *not* promise:

* review: `docs/ARCHITECTURE.md:62` has all candidates of the language model marked for a person's review, but
  `compliance_auditor.py:51` takes the mark over only for one reason of the guard: a medium candidate ends unmarked;
* events: two overlapping emits to the file lose an event, and the line number is given out again, although
  `docs/ARCHITECTURE.md:67` promises growing ids; a lost event may come back with an older copy; in PostgreSQL an event
  that commits after a larger id is skipped by every open stream (`postgres.py:292`);
* model calls: with `llm.mask_pii` off personal values are sent to the provider, and replies that repeat them are cached
  in Redis; the comment in `client.py:207-208` speaks of masked text only;
* bridge: `cache.py:7-11` and `README.md:306` claim `SET NX`, but the bridge looks up and sets in two steps
  (`set_if_absent` has no caller); `README.md:381` has documents behind a link read, but a text that holds a link is not
  empty and is itself reviewed (`feishu_events.py:123`), as is the report of a document that could not be read
  (`:277-278`); without `review_sync` the chat is told of a task that nothing creates (`:162-164`); a failed run is
  announced like a completed one (`:324-334`); a refused download is final while a network error is tried again;
* workspace: `settings.json` is changed by routes and commands without a lock, so an overlapping change of the retrieval
  settings can erase the section `encryption` or `auth`, after which files are written in plain or everybody is the
  local administrator; a migration that overlaps requests can put older copies of index, secrets and tasks back;
  `init --force` resets both sections (`store.py:122-123`); a running server keeps its mode (`auth.py:95`); a crash
  leaves the parser's file in plain (`documents/store.py:187-205`).

## Not modelled

Trimming of streams by `maxlen` and the claim of up to ten entries; `LocalTaskBus` and the choice of a backend per
process; the connection pool and the transactions of PostgreSQL beyond the statements of one call, which are taken as
atomic except in `EventStream`; the cipher, and the masking of derived records by the migration; expiry of tokens;
retrieval (`rag/`), an outside store and numerical ranking without state of the program's own; evaluation and sample
data (`evals/`, `data/`, `scripts/`), offline tools; parsing, prompts, wording, HTTP and the command line's output.
Files are replaced atomically (`fs.py`). In `Workspace`, the environment variables that override the provider of the
encryption, the mode of authentication and the signing key (`secure_storage.py:69-75`, `auth.py:80` and `:192`), which
are taken as unset; and an `init` without `--force` (`store.py:80-123`, `security_cli.py:46`), as the workspace has its
samples from the start.

## Plan

In order; each item has an abstract promise, properties and theorems of its own. The number of runs is kept small: as
modules are added, configurations that refute a property are kept beside the runs and not among them.

1. Memory, second part: sequential promise (a lifecycle per memory, refinement), and the tenant-scoped save.
2. `ReviewRun` composed with `LegalMemory`: a retried review that reinforces what a failed one has left.
3. `LocalDelivery`: `LocalTaskBus` and mixed backends under the same `TaskLifecycle`; trimming of streams.
