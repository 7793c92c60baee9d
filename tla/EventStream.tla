----------------------------- MODULE EventStream -----------------------------
(***************************************************************************)
(* The stream of hook events: HookEventBus.emit appends to events.jsonl or *)
(* to PostgreSQL, and GET /api/events/stream polls tail for each           *)
(* subscriber and pushes what is new, resuming after the last event id.    *)
(*                                                                         *)
(* In the file the id of an event is its line number, and a line is added  *)
(* by writing the whole file again.  In PostgreSQL the id is drawn by the  *)
(* INSERT and the row is visible from the COMMIT on.                       *)
(***************************************************************************)
EXTENDS Naturals, FiniteSets

CONSTANTS
    Subscribers,   \* browsers with an open stream
    TenantOf,      \* tenant of each subscriber
    Tenants,
    Limit,         \* events of one answer of tail (50 in the code)
    MaxEvents,     \* bound: events emitted
    MaxOpen,       \* bound: calls of emit under way at once
    MaxDrops       \* bound: connections lost

ASSUME StreamAssumption ==
    /\ TenantOf \in [Subscribers -> Tenants]
    /\ Limit \in Nat \ {0} /\ MaxEvents \in Nat /\ MaxOpen \in Nat /\ MaxDrops \in Nat

Events == 1 .. MaxEvents       \* an event is named by its turn to be emitted
Ids    == 1 .. MaxEvents
Rows   == [id: Ids, event: Events]

VARIABLES
    backend,   \* "file" or "postgres"
    begun,     \* events whose emit has begun
    emit,      \* where emit(e) is
    tenant,    \* tenant of each event
    copy,      \* file: the rows emit(e) has read
    mine,      \* the id emit(e) gives its event
    log,       \* the stored rows
    drawn,     \* postgres: ids drawn
    cursor,    \* cursor of the stream of a subscriber; 0 for ""
    signature, \* last_signature of that stream
    wire,      \* rows sent and not received
    last,      \* Last-Event-ID in the subscriber's hands
    seen,      \* events received
    repeated,  \* events received again
    cut,       \* events left out of an answer by the limit
    raced,     \* events whose emit overlapped another
    erased,    \* events that have once been written over
    drops      \* connections lost so far

emitting    == <<begun, emit, tenant, copy, mine, drawn, raced, erased>>
subscribing == <<cursor, signature, wire, last, seen, repeated, cut, drops>>
vars        == <<backend, log, emitting, subscribing>>

NoTenant    == "none"
NoSignature == [size |-> 0, last |-> {}]      \* "" and "0:" both mean: nothing sent

Init ==
    /\ backend \in {"file", "postgres"}
    /\ begun = 0
    /\ emit = [e \in Events |-> "idle"]
    /\ tenant = [e \in Events |-> NoTenant]
    /\ copy = [e \in Events |-> {}]
    /\ mine = [e \in Events |-> 0]
    /\ log = {}
    /\ drawn = 0
    /\ cursor = [s \in Subscribers |-> 0]
    /\ signature = [s \in Subscribers |-> NoSignature]
    /\ wire = [s \in Subscribers |-> {}]
    /\ last = [s \in Subscribers |-> 0]
    /\ seen = [s \in Subscribers |-> {}]
    /\ repeated = [s \in Subscribers |-> {}]
    /\ cut = [s \in Subscribers |-> {}]
    /\ raced = {}
    /\ erased = {}
    /\ drops = 0

-----------------------------------------------------------------------------
\* emit: the file is read, or the row is inserted.

EventsOf(rows) == {r.event : r \in rows}

Open == {e \in Events : emit[e] = "open"}

\* Mutant of NextId: the table counts its rows, too.
NextId_Counted == Cardinality(log) + 1

NextId == IF backend = "file" THEN Cardinality(log) + 1 ELSE drawn + 1

Begin(e) ==
    /\ e = begun + 1
    /\ Cardinality(Open) < MaxOpen
    /\ begun' = e
    /\ emit' = [emit EXCEPT ![e] = "open"]
    /\ \E t \in Tenants : tenant' = [tenant EXCEPT ![e] = t]
    /\ mine' = [mine EXCEPT ![e] = NextId]
    /\ IF backend = "file" THEN copy' = [copy EXCEPT ![e] = log] /\ UNCHANGED drawn
       ELSE drawn' = NextId /\ UNCHANGED copy
    /\ raced' = IF Open = {} THEN raced ELSE raced \union Open \union {e}
    /\ UNCHANGED <<backend, log, erased, subscribing>>

\* The file is written with the new line, or the transaction commits.
End(e) ==
    /\ emit[e] = "open"
    /\ emit' = [emit EXCEPT ![e] = "done"]
    /\ log' = (IF backend = "file" THEN copy[e] ELSE log)
              \union {[id |-> mine[e], event |-> e]}
    /\ erased' = erased \union (EventsOf(log) \ EventsOf(log'))
    /\ copy' = [copy EXCEPT ![e] = {}]
    /\ UNCHANGED <<backend, begun, tenant, mine, drawn, raced, subscribing>>

\* The process dies inside emit, or the transaction is rolled back.
Abort(e) ==
    /\ emit[e] = "open"
    /\ emit' = [emit EXCEPT ![e] = "dead"]
    /\ copy' = [copy EXCEPT ![e] = {}]
    /\ UNCHANGED <<backend, log, begun, tenant, mine, drawn, raced, erased, subscribing>>

-----------------------------------------------------------------------------
\* tail(limit, tenant_id, after_event_id) and the stream of a subscriber.

Visible(s) == {r \in log : tenant[r.event] = TenantOf[s]}

\* The file is searched for the event with that id; when there is none, everything counts as
\* new.  (Ids in the file are line numbers: what follows an event has a larger id.)
After(s) ==
    IF backend = "file" /\ \A r \in Visible(s) : r.id # cursor[s]
    THEN Visible(s)
    ELSE {r \in Visible(s) : r.id > cursor[s]}

\* Mutant of Newest: the limit is forgotten.
Newest_All(rows) == rows

Newest(rows) == {r \in rows : Cardinality({q \in rows : q.id > r.id}) < Limit}

LastOf(rows) == {r \in rows : \A q \in rows : q.id <= r.id}

SignatureOf(rows) == [size |-> Cardinality(rows), last |-> LastOf(rows)]

\* Mutant of Poll: the signature is the number of events alone.
Poll_Counted(s) ==
    /\ wire[s] = {}
    /\ LET rows == Newest(After(s)) IN
       /\ Cardinality(rows) # signature[s].size
       /\ signature' = [signature EXCEPT ![s] = SignatureOf(rows)]
       /\ IF rows = {} THEN UNCHANGED <<wire, cursor, cut>>
          ELSE /\ wire' = [wire EXCEPT ![s] = rows]
               /\ \E r \in LastOf(rows) : cursor' = [cursor EXCEPT ![s] = r.id]
               /\ cut' = [cut EXCEPT ![s] = @ \union EventsOf(After(s) \ rows)]
    /\ UNCHANGED <<backend, log, emitting, last, seen, repeated, drops>>

\* One round of event_stream.  A round that finds what the one before found sends a heartbeat.
Poll(s) ==
    /\ wire[s] = {}
    /\ LET rows == Newest(After(s)) IN
       /\ SignatureOf(rows) # signature[s]
       /\ signature' = [signature EXCEPT ![s] = SignatureOf(rows)]
       /\ IF rows = {} THEN UNCHANGED <<wire, cursor, cut>>
          ELSE /\ wire' = [wire EXCEPT ![s] = rows]
               /\ \E r \in LastOf(rows) : cursor' = [cursor EXCEPT ![s] = r.id]
               /\ cut' = [cut EXCEPT ![s] = @ \union EventsOf(After(s) \ rows)]
    /\ UNCHANGED <<backend, log, emitting, last, seen, repeated, drops>>

\* The browser receives an answer and keeps its id for the next connection.
Receive(s) ==
    /\ wire[s] # {}
    /\ seen' = [seen EXCEPT ![s] = @ \union EventsOf(wire[s])]
    /\ repeated' = [repeated EXCEPT ![s] = @ \union (EventsOf(wire[s]) \intersect seen[s])]
    /\ last' = [last EXCEPT ![s] = cursor[s]]
    /\ wire' = [wire EXCEPT ![s] = {}]
    /\ UNCHANGED <<backend, log, emitting, cursor, signature, cut, drops>>

\* Mutant of Reconnect: the stream resumes where the lost connection was.
Reconnect_AtServer(s) ==
    /\ drops < MaxDrops
    /\ drops' = drops + 1
    /\ wire' = [wire EXCEPT ![s] = {}]
    /\ signature' = [signature EXCEPT ![s] = NoSignature]
    /\ UNCHANGED <<backend, log, emitting, cursor, last, seen, repeated, cut>>

\* The connection is lost with what is on the wire, and the browser opens another with its
\* Last-Event-ID.
Reconnect(s) ==
    /\ drops < MaxDrops
    /\ drops' = drops + 1
    /\ wire' = [wire EXCEPT ![s] = {}]
    /\ cursor' = [cursor EXCEPT ![s] = last[s]]
    /\ signature' = [signature EXCEPT ![s] = NoSignature]
    /\ UNCHANGED <<backend, log, emitting, last, seen, repeated, cut>>

Next ==
    \/ \E e \in Events : Begin(e) \/ End(e) \/ Abort(e)
    \/ \E s \in Subscribers : Poll(s) \/ Receive(s) \/ Reconnect(s)

\* emit is a call without a wait of its own; the stream polls every second; the browser reads
\* what it is sent.
Fairness ==
    /\ \A e \in Events : WF_vars(End(e) \/ Abort(e))
    /\ \A s \in Subscribers : WF_vars(Poll(s)) /\ WF_vars(Receive(s))

Spec     == Init /\ [][Next]_vars
FairSpec == Spec /\ Fairness

-----------------------------------------------------------------------------
\* Properties.

\* Every variable has its type, and every answer on the wire fits the limit.
TypeOK ==
    /\ backend \in {"file", "postgres"}
    /\ begun \in 0 .. MaxEvents
    /\ emit \in [Events -> {"idle", "open", "done", "dead"}]
    /\ tenant \in [Events -> Tenants \union {NoTenant}]
    /\ copy \in [Events -> SUBSET Rows]
    /\ mine \in [Events -> 0 .. MaxEvents]
    /\ log \subseteq Rows
    /\ drawn \in 0 .. MaxEvents
    /\ cursor \in [Subscribers -> 0 .. MaxEvents]
    /\ \A s \in Subscribers :
        /\ signature[s].size \in 0 .. Limit /\ signature[s].last \subseteq Rows
        /\ wire[s] \subseteq Rows /\ Cardinality(wire[s]) <= Limit
    /\ last \in [Subscribers -> 0 .. MaxEvents]
    /\ seen \in [Subscribers -> SUBSET Events]
    /\ repeated \in [Subscribers -> SUBSET Events]
    /\ cut \in [Subscribers -> SUBSET Events]
    /\ raced \subseteq Events /\ erased \subseteq Events
    /\ drops \in 0 .. MaxDrops

\* No two events of the log share an id, and an event that was emitted is lost only to an
\* emit that overlapped its own, and only in the file (HookEventBus.emit, emit_event).
LossIsRaced ==
    /\ \A q, r \in log : q.id = r.id => q = r
    /\ \A e \in Events : emit[e] = "done" /\ e \notin EventsOf(log) =>
           backend = "file" /\ e \in raced

\* Why subscriber s may never see event e: the limit cut it off, its emit overlapped another
\* (it took over the id of an event already seen, or committed after a larger id), or an event
\* s has seen was lost, so that the id s resumes after means nothing or another event.
Explained(s, e) ==
    \/ e \in cut[s]
    \/ e \in raced
    \/ \E f \in seen[s] \union EventsOf(wire[s]) : f \in erased

\* A stored event of the tenant that lies behind a subscriber's cursor has been sent to it, or
\* there is a reason; and an event is sent again only after an event it had seen was lost.
\* Lost connections and answers lost with them are no reason (event_stream, tail).
SeenOnceOrExplained == \A s \in Subscribers :
    /\ \A r \in Visible(s) :
        \/ r.id > cursor[s]
        \/ r.event \in seen[s] \union EventsOf(wire[s])
        \/ Explained(s, r.event)
    /\ repeated[s] # {} => backend = "file" /\ \E f \in seen[s] : f \in erased

\* Every event that is stored is at last received by every subscriber of its tenant, unless it
\* is lost or one of the reasons above holds (event_stream).
EventuallySeen == \A s \in Subscribers, e \in Events :
    (e \in EventsOf(Visible(s))) ~>
        (e \in seen[s] \/ e \in erased \/ Explained(s, e))
=============================================================================
