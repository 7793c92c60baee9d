-------------------------- MODULE EventStreamProofs --------------------------
(***************************************************************************)
(* Proofs about EventStream: what the log may lose, and what a subscriber  *)
(* may miss or see twice.  The invariant has a part about the emitters and *)
(* the log (EmitInv) and one about each subscriber (StreamInv): whatever   *)
(* it knows reaches up to its cursor, and what it has received reaches up  *)
(* to the id it resumes after.                                             *)
(***************************************************************************)
EXTENDS EventStream, FiniteSetTheorems, WellFoundedInduction, TLAPS

AnyRows == [id: Nat, event: Events]

Types ==
    /\ backend \in {"file", "postgres"}
    /\ begun \in 0 .. MaxEvents
    /\ emit \in [Events -> {"idle", "open", "done", "dead"}]
    /\ tenant \in [Events -> Tenants \union {NoTenant}]
    /\ copy \in [Events -> SUBSET AnyRows]
    /\ mine \in [Events -> Nat]
    /\ log \subseteq AnyRows
    /\ drawn \in Nat
    /\ cursor \in [Subscribers -> Nat]
    /\ wire \in [Subscribers -> SUBSET AnyRows]
    /\ last \in [Subscribers -> Nat]
    /\ seen \in [Subscribers -> SUBSET Events]
    /\ repeated \in [Subscribers -> SUBSET Events]
    /\ cut \in [Subscribers -> SUBSET Events]
    /\ raced \subseteq Events /\ erased \subseteq Events

Done == {e \in Events : emit[e] = "done"}

-----------------------------------------------------------------------------
(* The emitters and the log.                                               *)

\* The rows of a finished event carry the id it was given.
OwnRows(rows) == \A r \in rows : r.event \in Done /\ r.id = mine[r.event]

\* The lines of a file: each has a number of its own, up to their count.
Numbered(rows) ==
    /\ IsFiniteSet(rows)
    /\ \A r \in rows : r.id <= Cardinality(rows)
    /\ \A q, r \in rows : q.id = r.id => q = r

Emitters ==
    /\ \A e \in Events : (emit[e] = "idle") <=> (e > begun)
    /\ \A e \in Events : emit[e] # "idle" => mine[e] > 0
    /\ \A e, f \in Open : e # f => e \in raced
    /\ OwnRows(log)
    /\ \A e \in Events : OwnRows(copy[e])

\* An emit alone has read the log as it is.  Whatever a finished emit has put into the log and
\* another will not write again, or is lost already, was emitted during the other.
FileLog == backend = "file" =>
    /\ Numbered(log)
    /\ \A e \in Open : Numbered(copy[e]) /\ mine[e] = Cardinality(copy[e]) + 1
    /\ \A e \in Open \ raced : copy[e] = log
    /\ \A e \in Done : e \notin EventsOf(log) => e \in raced
    /\ \A f \in Open : EventsOf(log) \ EventsOf(copy[f]) \subseteq raced

\* An emit alone has drawn the last id.
TableLog == backend = "postgres" =>
    /\ \A e \in Events : emit[e] # "idle" => mine[e] <= drawn
    /\ \A e, f \in Events : emit[e] # "idle" /\ emit[f] # "idle" /\ mine[e] = mine[f] => e = f
    /\ \A e \in Open \ raced : mine[e] = drawn
    /\ Done \subseteq EventsOf(log)
    /\ erased = {}

EmitInv == Emitters /\ FileLog /\ TableLog

-----------------------------------------------------------------------------
(* A subscriber.  known is a set of events it has been sent, c an id.      *)

OwnEvents(s, known) == known \subseteq {e \in Done : tenant[e] = TenantOf[s]}

\* c is the id of a known event, still in the log or once lost.
Points(known, c) ==
    IF c = 0 THEN known = {}
    ELSE \E g \in known : mine[g] = c /\ g \in EventsOf(log) \union erased

Forgotten(known) == backend = "file" /\ \E g \in known : g \in erased

\* No known event lies ahead of c, and no unknown one behind it, or there is a reason.
Ahead(known, c) == Forgotten(known) \/ \A f \in known : mine[f] <= c

Behind(s, known, c) == \A r \in Visible(s) :
    \/ r.id > c
    \/ r.event \in known \union cut[s] \union raced
    \/ \E f \in known : f \in erased

UpTo(s, known, c) ==
    OwnEvents(s, known) /\ Points(known, c) /\ Ahead(known, c) /\ Behind(s, known, c)

Known(s) == seen[s] \union EventsOf(wire[s])

SubscriberInv(s) ==
    /\ OwnRows(wire[s])
    /\ UpTo(s, Known(s), cursor[s])
    /\ UpTo(s, seen[s], last[s])
    /\ EventsOf(wire[s]) \intersect seen[s] # {} => Forgotten(seen[s])
    /\ repeated[s] # {} => Forgotten(seen[s])

StreamInv == Types /\ EmitInv /\ \A s \in Subscribers : SubscriberInv(s)

LEMMA InitStreamInv == Init => StreamInv
<1> SUFFICES ASSUME Init PROVE StreamInv
  OBVIOUS
<1> USE StreamAssumption DEF Init
<1>1. Types
  BY DEF Types
<1>2. EmitInv
  BY FS_EmptySet DEF EmitInv, Emitters, FileLog, TableLog, OwnRows, Numbered, Open, Done, Events, EventsOf
<1>3. ASSUME NEW s \in Subscribers PROVE SubscriberInv(s)
  BY <1>3 DEF SubscriberInv, OwnRows, UpTo, OwnEvents, Points, Ahead, Behind, Visible, Known, EventsOf
<1> QED
  BY <1>1, <1>2, <1>3 DEF StreamInv

-----------------------------------------------------------------------------
(* The steps of an emitter.                                                *)

EmitStep(e) == Begin(e) \/ End(e) \/ Abort(e)

LEMMA NextIdType ==
    ASSUME Types, EmitInv
    PROVE  NextId \in Nat \ {0}
<1>1. CASE backend = "file"
  BY <1>1, FS_CardinalityType DEF EmitInv, FileLog, Numbered, NextId
<1>2. CASE backend # "file"
  BY <1>2 DEF Types, NextId
<1> QED
  BY <1>1, <1>2

LEMMA EmitTypes ==
    ASSUME Types, EmitInv, NEW e \in Events, EmitStep(e)
    PROVE  Types'
<1> USE DEF Types, subscribing
<1>1. CASE Begin(e)
  <2>1. /\ begun' = e /\ e = begun + 1 /\ emit' = [emit EXCEPT ![e] = "open"]
        /\ mine' = [mine EXCEPT ![e] = NextId]
        /\ UNCHANGED <<backend, log, erased, cursor, wire, last, seen, repeated, cut>>
    BY <1>1 DEF Begin
  <2>2. PICK t \in Tenants : tenant' = [tenant EXCEPT ![e] = t]
    BY <1>1 DEF Begin
  <2>3. copy' \in [Events -> SUBSET AnyRows] /\ drawn' \in Nat
    BY <1>1, NextIdType DEF Begin
  <2>4. raced' \subseteq Events
    BY <1>1 DEF Begin, Open
  <2>5. begun' \in 0 .. MaxEvents
    BY <2>1, StreamAssumption DEF Events
  <2>6. mine' \in [Events -> Nat]
    BY <2>1, NextIdType
  <2> HIDE <1>1
  <2> QED
    BY <2>1, <2>2, <2>3, <2>4, <2>5, <2>6
<1>2. CASE End(e)
  <2>1. [id |-> mine[e], event |-> e] \in AnyRows
    BY DEF AnyRows
  <2>2. log' \subseteq AnyRows
    BY <1>2, <2>1 DEF End
  <2>3. erased' \subseteq Events
    BY <1>2 DEF End, EventsOf, AnyRows
  <2> QED
    BY <1>2, <2>2, <2>3 DEF End
<1>3. CASE Abort(e)
  BY <1>3 DEF Abort
<1> QED
  BY <1>1, <1>2, <1>3 DEF EmitStep

\* What Begin does, without the cases.
LEMMA BeginFacts ==
    ASSUME Types, EmitInv, NEW e \in Events, Begin(e)
    PROVE  /\ e = begun + 1 /\ begun' = e /\ emit[e] = "idle"
           /\ emit' = [emit EXCEPT ![e] = "open"] /\ mine' = [mine EXCEPT ![e] = NextId]
           /\ Open' = Open \union {e} /\ e \notin Open /\ Done' = Done /\ e \notin Done
           /\ raced \subseteq raced' /\ (Open # {} => raced' = raced \union Open \union {e})
           /\ log' = log /\ backend' = backend /\ erased' = erased
           /\ backend = "file" => copy' = [copy EXCEPT ![e] = log]
           /\ backend = "postgres" => copy' = copy /\ drawn' = drawn + 1 /\ NextId = drawn + 1
<1>1. e = begun + 1 /\ begun \in Nat
  BY StreamAssumption DEF Begin, Types
<1>2. emit[e] = "idle"
  BY <1>1 DEF EmitInv, Emitters
<1>3. emit' = [emit EXCEPT ![e] = "open"]
  BY DEF Begin
<1>4. Open' = Open \union {e} /\ e \notin Open /\ Done' = Done /\ e \notin Done
  BY <1>2, <1>3 DEF Open, Done, Types
<1> QED
  BY <1>1, <1>2, <1>3, <1>4 DEF Begin, NextId

LEMMA BeginEmitInv ==
    ASSUME Types, EmitInv, NEW e \in Events, Begin(e)
    PROVE  EmitInv'
<1> DEFINE id == NextId
<1>1. /\ e = begun + 1 /\ begun' = e /\ emit[e] = "idle"
      /\ emit' = [emit EXCEPT ![e] = "open"] /\ mine' = [mine EXCEPT ![e] = id]
      /\ Open' = Open \union {e} /\ e \notin Open /\ Done' = Done /\ e \notin Done
      /\ raced \subseteq raced' /\ (Open # {} => raced' = raced \union Open \union {e})
      /\ log' = log /\ backend' = backend /\ erased' = erased
      /\ backend = "file" => copy' = [copy EXCEPT ![e] = log]
      /\ backend = "postgres" => copy' = copy /\ drawn' = drawn + 1 /\ id = drawn + 1
  BY BeginFacts
<1>2. id \in Nat \ {0} /\ (backend = "file" => id = Cardinality(log) + 1)
  BY NextIdType DEF NextId
<1>3. begun \in Nat /\ \A f \in Events : f \in Nat
  BY DEF Types, Events
<1> HIDE DEF id
<1>4. \A rows : OwnRows(rows) => OwnRows(rows)'
  BY <1>1 DEF OwnRows, Types
<1>5. Emitters'
  <2>1. \A f \in Events : (emit'[f] = "idle") <=> (f > begun')
    BY <1>1, <1>3 DEF EmitInv, Emitters, Types
  <2>2. \A f \in Events : emit'[f] # "idle" => mine'[f] > 0
    BY <1>1, <1>2 DEF EmitInv, Emitters, Types
  <2>3. \A f, g \in Open' : f # g => f \in raced'
    BY <1>1 DEF EmitInv, Emitters
  <2>4. OwnRows(log)' /\ \A f \in Events : OwnRows(copy[f])'
    <3>1. \A f \in Events : copy'[f] = copy[f] \/ copy'[f] = log
      BY <1>1 DEF Types
    <3> QED
      BY <3>1, <1>1, <1>4 DEF EmitInv, Emitters, OwnRows, Types
  <2> QED
    BY <2>1, <2>2, <2>3, <2>4 DEF Emitters
<1>6. FileLog'
  <2> SUFFICES ASSUME backend = "file" PROVE FileLog'
    BY <1>1 DEF FileLog
  <2>1. copy' = [copy EXCEPT ![e] = log] /\ id = Cardinality(log) + 1
    BY <1>1, <1>2
  <2>2. Numbered(log)' /\ \A f \in Open' : Numbered(copy[f])' /\ mine'[f] = Cardinality(copy'[f]) + 1
    BY <1>1, <2>1 DEF EmitInv, FileLog, Types, Numbered, Open
  <2>3. \A f \in Open' \ raced' : copy'[f] = log'
    BY <1>1, <2>1 DEF EmitInv, FileLog, Types, Open
  <2>4. \A f \in Done' : f \notin EventsOf(log') => f \in raced'
    BY <1>1 DEF EmitInv, FileLog
  <2>5. \A f \in Open' : EventsOf(log') \ EventsOf(copy'[f]) \subseteq raced'
    BY <1>1, <2>1 DEF EmitInv, FileLog, Types, Open
  <2> QED
    BY <2>2, <2>3, <2>4, <2>5 DEF FileLog, EventsOf
<1>7. TableLog'
  <2> SUFFICES ASSUME backend = "postgres" PROVE TableLog'
    BY <1>1 DEF TableLog
  <2>1. drawn' = drawn + 1 /\ id = drawn + 1 /\ drawn \in Nat
    BY <1>1 DEF Types
  <2>2. \A f \in Events : f # e => emit'[f] = emit[f] /\ mine'[f] = mine[f]
    BY <1>1 DEF Types
  <2>3. \A f \in Events : emit[f] # "idle" => mine[f] \in Nat /\ mine[f] <= drawn
    BY DEF EmitInv, TableLog, Types
  <2>4. mine'[e] = drawn + 1
    BY <1>1, <2>1 DEF Types
  <2>5. \A f \in Events : emit'[f] # "idle" => mine'[f] <= drawn'
    BY <2>1, <2>2, <2>3, <2>4
  <2>6. \A f, g \in Events : emit'[f] # "idle" /\ emit'[g] # "idle" /\ mine'[f] = mine'[g] => f = g
    BY <2>1, <2>2, <2>3, <2>4 DEF EmitInv, TableLog
  <2>7. \A f \in Open' \ raced' : mine'[f] = drawn'
    BY <1>1, <2>1, <2>4
  <2>8. Done' \subseteq EventsOf(log') /\ erased' = {}
    BY <1>1 DEF EmitInv, TableLog
  <2> QED
    BY <2>5, <2>6, <2>7, <2>8 DEF TableLog, EventsOf
<1> QED
  BY <1>5, <1>6, <1>7 DEF EmitInv

LEMMA EventsOfAdd ==
    ASSUME NEW rows, NEW r
    PROVE  EventsOf(rows \union {r}) = EventsOf(rows) \union {r.event}
<1>1. ASSUME NEW f \in EventsOf(rows \union {r}) PROVE f \in EventsOf(rows) \union {r.event}
  BY DEF EventsOf
<1>2. ASSUME NEW f \in EventsOf(rows) \union {r.event} PROVE f \in EventsOf(rows \union {r})
  BY DEF EventsOf
<1> QED
  BY <1>1, <1>2

LEMMA EndFacts ==
    ASSUME Types, EmitInv, NEW e \in Events, End(e)
    PROVE  /\ e \in Open /\ Open' = Open \ {e} /\ Done' = Done \union {e} /\ e \notin Done
           /\ emit' = [emit EXCEPT ![e] = "done"]
           /\ copy' = [copy EXCEPT ![e] = {}]
           /\ UNCHANGED <<backend, begun, tenant, mine, drawn, raced, subscribing>>
           /\ backend = "file" => log' = copy[e] \union {[id |-> mine[e], event |-> e]}
           /\ backend = "postgres" => log' = log \union {[id |-> mine[e], event |-> e]}
           /\ erased' = erased \union (EventsOf(log) \ EventsOf(log'))
           /\ EventsOf(log') = EventsOf(IF backend = "file" THEN copy[e] ELSE log) \union {e}
<1>1. emit[e] = "open" /\ emit' = [emit EXCEPT ![e] = "done"]
  BY DEF End
<1>2. e \in Open /\ Open' = Open \ {e} /\ Done' = Done \union {e} /\ e \notin Done
  BY <1>1 DEF Open, Done, Types
<1>3. /\ copy' = [copy EXCEPT ![e] = {}]
      /\ UNCHANGED <<backend, begun, tenant, mine, drawn, raced, subscribing>>
      /\ log' = (IF backend = "file" THEN copy[e] ELSE log) \union {[id |-> mine[e], event |-> e]}
      /\ erased' = erased \union (EventsOf(log) \ EventsOf(log'))
  BY DEF End
<1>4. \A rows : EventsOf(rows \union {[id |-> mine[e], event |-> e]}) = EventsOf(rows) \union {e}
  BY EventsOfAdd
<1>5. EventsOf(log') = EventsOf(IF backend = "file" THEN copy[e] ELSE log) \union {e}
  BY <1>3, <1>4
<1> QED
  BY <1>1, <1>2, <1>3, <1>5

LEMMA EndEmitInv ==
    ASSUME Types, EmitInv, NEW e \in Events, End(e)
    PROVE  EmitInv'
<1> DEFINE row == [id |-> mine[e], event |-> e]
<1>1. /\ e \in Open /\ Open' = Open \ {e} /\ Done' = Done \union {e} /\ e \notin Done
      /\ emit' = [emit EXCEPT ![e] = "done"]
      /\ copy' = [copy EXCEPT ![e] = {}]
      /\ UNCHANGED <<backend, begun, tenant, mine, drawn, raced, subscribing>>
      /\ backend = "file" => log' = copy[e] \union {row}
      /\ backend = "postgres" => log' = log \union {row}
      /\ erased' = erased \union (EventsOf(log) \ EventsOf(log'))
      /\ EventsOf(log') = EventsOf(IF backend = "file" THEN copy[e] ELSE log) \union {e}
  BY EndFacts
<1>2. row.id = mine[e] /\ row.event = e
  OBVIOUS
<1> HIDE DEF row
<1>3. backend = "file" \/ backend = "postgres"
  BY DEF Types
<1>4. Emitters'
  <2>1. \A f \in Events : emit'[f] = "idle" <=> emit[f] = "idle"
    BY <1>1 DEF Open, Types
  <2>2. OwnRows(log)' /\ \A f \in Events : OwnRows(copy[f])'
    BY <1>1, <1>2, <1>3 DEF EmitInv, Emitters, OwnRows, Types
  <2> QED
    BY <1>1, <2>1, <2>2 DEF EmitInv, Emitters, OwnRows
<1>5. FileLog'
  <2> SUFFICES ASSUME backend = "file" PROVE FileLog'
    BY <1>1 DEF FileLog
  <2>1. log' = copy[e] \union {row} /\ EventsOf(log') = EventsOf(copy[e]) \union {e}
    BY <1>1
  <2>2. Numbered(copy[e]) /\ mine[e] = Cardinality(copy[e]) + 1 /\ Cardinality(copy[e]) \in Nat
        /\ copy[e] \subseteq AnyRows
    BY <1>1, FS_CardinalityType DEF EmitInv, FileLog, Numbered, Types
  <2>3. row \notin copy[e]
    BY <1>2, <2>2 DEF Numbered
  <2>4. IsFiniteSet(log') /\ Cardinality(log') = Cardinality(copy[e]) + 1
    BY <2>1, <2>2, <2>3, FS_AddElement DEF Numbered
  <2>5. Numbered(log)'
    <3>1. \A r \in copy[e] : r.id \in Nat /\ r.id <= Cardinality(copy[e])
      BY <2>2 DEF Numbered, AnyRows
    <3>2. \A r \in log' : r.id <= Cardinality(log')
      BY <1>2, <2>1, <2>2, <2>4, <3>1
    <3>3. \A q, r \in copy[e] : q.id = r.id => q = r
      BY <2>2 DEF Numbered
    <3>4. \A r \in copy[e] : r.id # row.id
      BY <1>2, <2>2, <3>1
    <3>5. \A q, r \in log' : q.id = r.id => q = r
      BY <2>1, <3>3, <3>4
    <3> QED
      BY <2>4, <3>2, <3>5 DEF Numbered
  <2>6. \A f \in Open' : Numbered(copy[f])' /\ mine'[f] = Cardinality(copy'[f]) + 1
    BY <1>1 DEF EmitInv, FileLog, Types, Numbered, Open
  <2>7. \A f \in Open' \ raced' : copy'[f] = log'
    BY <1>1 DEF EmitInv, Emitters
  <2>8. \A f \in Done' : f \notin EventsOf(log') => f \in raced'
    BY <1>1, <2>1 DEF EmitInv, FileLog
  <2>9. ASSUME NEW f \in Open' PROVE EventsOf(log') \ EventsOf(copy'[f]) \subseteq raced'
    <3>1. e \in raced /\ copy'[f] = copy[f] /\ f \in Open
      BY <1>1 DEF EmitInv, Emitters, Open, Types
    <3>2. EventsOf(copy[e]) \subseteq Done
      BY DEF EmitInv, Emitters, OwnRows, EventsOf
    <3> QED
      BY <1>1, <2>1, <3>1, <3>2 DEF EmitInv, FileLog
  <2> QED
    BY <2>5, <2>6, <2>7, <2>8, <2>9 DEF FileLog, EventsOf
<1>6. TableLog'
  <2> SUFFICES ASSUME backend = "postgres" PROVE TableLog'
    BY <1>1 DEF TableLog
  <2>1. EventsOf(log') = EventsOf(log) \union {e}
    BY <1>1
  <2>2. Done' \subseteq EventsOf(log') /\ erased' = {}
    BY <1>1, <2>1 DEF EmitInv, TableLog
  <2>3. \A f \in Events : emit'[f] = "idle" <=> emit[f] = "idle"
    BY <1>1 DEF Open, Types
  <2> QED
    BY <1>1, <2>2, <2>3 DEF EmitInv, TableLog, EventsOf
<1> QED
  BY <1>4, <1>5, <1>6 DEF EmitInv

LEMMA AbortFacts ==
    ASSUME Types, NEW e \in Events, Abort(e)
    PROVE  /\ Open' = Open \ {e} /\ Done' = Done
           /\ \A f \in Events : emit'[f] = "idle" <=> emit[f] = "idle"
           /\ copy' = [copy EXCEPT ![e] = {}]
           /\ UNCHANGED <<backend, log, begun, tenant, mine, drawn, raced, erased, subscribing>>
  BY DEF Abort, Open, Done, Types

LEMMA AbortEmitInv ==
    ASSUME Types, EmitInv, NEW e \in Events, Abort(e)
    PROVE  EmitInv'
<1>1. /\ Open' = Open \ {e} /\ Done' = Done
      /\ \A f \in Events : emit'[f] = "idle" <=> emit[f] = "idle"
      /\ copy' = [copy EXCEPT ![e] = {}]
      /\ UNCHANGED <<backend, log, begun, tenant, mine, drawn, raced, erased>>
  BY AbortFacts
<1>2. Emitters'
  BY <1>1 DEF EmitInv, Emitters, OwnRows, Types
<1>3. FileLog'
  BY <1>1 DEF EmitInv, FileLog, Numbered, EventsOf, Types, Open
<1>4. TableLog'
  BY <1>1 DEF EmitInv, TableLog, EventsOf
<1> QED
  BY <1>2, <1>3, <1>4 DEF EmitInv

-----------------------------------------------------------------------------
(* What a step of an emitter does to what a subscriber knows.              *)

\* The id of an emit that no other overlaps is larger than those in the log.
LEMMA AloneIsAhead ==
    ASSUME Types, EmitInv, NEW e \in Open \ raced, NEW g \in EventsOf(log)
    PROVE  mine[g] < mine[e] /\ mine[e] > 0
<1>1. PICK r \in log : r.event = g
  BY DEF EventsOf
<1>2. g \in Done /\ r.id = mine[g] /\ e \in Events /\ g \in Events /\ mine[g] \in Nat /\ mine[e] \in Nat
  BY <1>1 DEF EmitInv, Emitters, OwnRows, Done, Open, Types
<1>3. mine[e] > 0 /\ g # e
  BY <1>2 DEF EmitInv, Emitters, Open, Done
<1>4. CASE backend = "file"
  <2>1. copy[e] = log /\ mine[e] = Cardinality(log) + 1 /\ r.id <= Cardinality(log)
        /\ Cardinality(log) \in Nat
    BY <1>4, FS_CardinalityType DEF EmitInv, FileLog, Numbered
  <2> QED
    BY <1>2, <1>3, <2>1
<1>5. CASE backend = "postgres"
  <2>1. mine[e] = drawn /\ mine[g] <= drawn /\ mine[g] # mine[e]
    BY <1>2, <1>3, <1>5 DEF EmitInv, TableLog, Open, Done
  <2> QED
    BY <1>2, <1>3, <2>1 DEF Types
<1> QED
  BY <1>4, <1>5 DEF Types

\* An event of the log has one row.
LEMMA OneRow ==
    ASSUME Types, NEW rows, rows \subseteq AnyRows, OwnRows(log), OwnRows(rows), NEW r \in rows,
           r.event \in EventsOf(log)
    PROVE  r \in log
<1>1. PICK q \in log : q.event = r.event
  BY DEF EventsOf
<1>2. q.id = r.id /\ q \in AnyRows /\ r \in AnyRows
  BY <1>1 DEF OwnRows, Types
<1> QED
  BY <1>1, <1>2 DEF AnyRows

\* What an emitter leaves as it is, and the rows it may add: its own, or one of a raced event.
EmitFrame ==
    /\ backend' = backend /\ UNCHANGED subscribing
    /\ Done \subseteq Done' /\ raced \subseteq raced' /\ erased \subseteq erased'
    /\ \A f \in Done : mine'[f] = mine[f] /\ tenant'[f] = tenant[f]
    /\ EventsOf(log) \subseteq EventsOf(log') \union erased'
    /\ \A r \in log' : \/ r \in log
                       \/ r.event \in raced
                       \/ r.event \in Open \ raced /\ r.id = mine[r.event]

LEMMA EmitFrames ==
    ASSUME Types, EmitInv, NEW e \in Events, EmitStep(e)
    PROVE  EmitFrame
<1>1. CASE Begin(e)
  <2>1. \A f \in Done : mine'[f] = mine[f] /\ tenant'[f] = tenant[f]
    <3>1. e \notin Done /\ mine' = [mine EXCEPT ![e] = NextId]
      BY <1>1, BeginFacts
    <3>2. PICK t : tenant' = [tenant EXCEPT ![e] = t]
      BY <1>1 DEF Begin
    <3> QED
      BY <3>1, <3>2 DEF Done, Types
  <2> QED
    BY <1>1, <2>1, BeginFacts DEF Begin, EmitFrame
<1>2. CASE End(e)
  <2>1. \A f \in Done : mine'[f] = mine[f] /\ tenant'[f] = tenant[f]
    BY <1>2, EndFacts
  <2>2. ASSUME NEW r \in log'
        PROVE  \/ r \in log
               \/ r.event \in raced
               \/ r.event \in Open \ raced /\ r.id = mine[r.event]
    <3>1. CASE r = [id |-> mine[e], event |-> e]
      BY <1>2, <3>1, EndFacts
    <3>2. CASE backend = "file" /\ r \in copy[e]
      <4>1. OwnRows(copy[e]) /\ OwnRows(log) /\ copy[e] \subseteq AnyRows
        BY DEF EmitInv, Emitters, Types
      <4>2. CASE r.event \in EventsOf(log)
        BY <3>2, <4>1, <4>2, OneRow
      <4>3. CASE r.event \notin EventsOf(log)
        BY <3>2, <4>1, <4>3 DEF EmitInv, FileLog, OwnRows
      <4> QED
        BY <4>2, <4>3
    <3>3. backend \in {"file", "postgres"}
      BY DEF Types
    <3> QED
      BY <1>2, <2>2, <3>1, <3>2, <3>3, EndFacts
  <2> QED
    BY <1>2, <2>1, <2>2, EndFacts DEF EmitFrame
<1>3. CASE Abort(e)
  <2>1. tenant' = tenant
    BY <1>3 DEF Abort
  <2> QED
    BY <1>3, <2>1, AbortFacts DEF EmitFrame
<1> QED
  BY <1>1, <1>2, <1>3 DEF EmitStep

\* What reached up to c still does.
LEMMA EmitKeepsUpTo ==
    ASSUME Types, EmitInv, EmitFrame, NEW s \in Subscribers, NEW known, NEW c \in Nat,
           UpTo(s, known, c)
    PROVE  UpTo(s, known, c)'
<1> USE DEF UpTo, EmitFrame
<1>1. OwnEvents(s, known)' /\ known \subseteq Done
  BY DEF OwnEvents, Done
<1>2. Points(known, c)'
  BY <1>1 DEF Points
<1>3. Ahead(known, c)'
  BY <1>1 DEF Ahead, Forgotten
<1>4. Behind(s, known, c)'
  <2>1. SUFFICES ASSUME NEW r \in log', tenant'[r.event] = TenantOf[s],
                        ~(r.event \in known \union cut[s] \union raced'),
                        ~(\E f \in known : f \in erased')
                 PROVE  r.id > c
    BY DEF Behind, Visible, subscribing
  <2>2. CASE r \in log
    <3>1. r.event \in Done
      BY <2>2 DEF EmitInv, Emitters, OwnRows
    <3>2. r \in Visible(s)
      BY <2>1, <2>2, <3>1 DEF Visible
    <3> QED
      BY <2>1, <3>2 DEF Behind
  <2>3. CASE r.event \in Open \ raced /\ r.id = mine[r.event]
    <3>1. mine[r.event] > 0 /\ mine[r.event] \in Nat
      BY <2>3 DEF EmitInv, Emitters, Open, Types
    <3>2. CASE c = 0
      BY <2>3, <3>1, <3>2
    <3>3. CASE c # 0
      <4>1. PICK g \in known : mine[g] = c /\ g \in EventsOf(log) \union erased
        BY <3>3 DEF Points
      <4>2. g \in EventsOf(log)
        BY <2>1, <4>1
      <4> QED
        BY <2>3, <3>1, <4>1, <4>2, AloneIsAhead
    <3> QED
      BY <3>2, <3>3
  <2> QED
    BY <2>1, <2>2, <2>3
<1> QED
  BY <1>1, <1>2, <1>3, <1>4

LEMMA EmitKeepsSubscriber ==
    ASSUME Types, EmitInv, EmitFrame, NEW s \in Subscribers, SubscriberInv(s)
    PROVE  SubscriberInv(s)'
<1>1. PICK K, c : K = Known(s) /\ c = cursor[s]
  OBVIOUS
<1>2. PICK L, d : L = seen[s] /\ d = last[s]
  OBVIOUS
<1>3. Known(s)' = K /\ cursor'[s] = c /\ seen'[s] = L /\ last'[s] = d
      /\ wire' = wire /\ repeated' = repeated
  BY <1>1, <1>2 DEF EmitFrame, subscribing, Known, EventsOf
<1>4. UpTo(s, K, c)' /\ UpTo(s, L, d)'
  BY <1>1, <1>2, EmitKeepsUpTo DEF SubscriberInv, Types
<1>5. UpTo(s, Known(s), cursor[s])' /\ UpTo(s, seen[s], last[s])'
  BY <1>3, <1>4 DEF UpTo, OwnEvents, Points, Ahead, Behind, Forgotten
<1>6. OwnRows(wire[s])'
  BY <1>3 DEF SubscriberInv, OwnRows, EmitFrame
<1>7. Forgotten(seen[s]) => Forgotten(seen[s])'
  BY <1>2, <1>3 DEF Forgotten, EmitFrame
<1> QED
  BY <1>2, <1>3, <1>5, <1>6, <1>7 DEF SubscriberInv, EventsOf

-----------------------------------------------------------------------------
(* The steps of a subscriber.                                              *)

\* A step that leaves the emitters alone keeps every known set up to its id, and may cut more.
LEMMA MoreCut ==
    ASSUME UNCHANGED <<backend, log, emitting>>, NEW s \in Subscribers, NEW known, NEW c,
           UpTo(s, known, c), cut[s] \subseteq cut'[s]
    PROVE  UpTo(s, known, c)'
  BY DEF emitting, UpTo, OwnEvents, Points, Ahead, Forgotten, Behind, Visible, EventsOf, Done

\* Nothing changes for a subscriber whose variables do not.
LEMMA SubscriberFrame ==
    ASSUME UNCHANGED <<backend, log, emitting>>, NEW q \in Subscribers, SubscriberInv(q),
           cursor'[q] = cursor[q], wire'[q] = wire[q], last'[q] = last[q], seen'[q] = seen[q],
           repeated'[q] = repeated[q], cut'[q] = cut[q]
    PROVE  SubscriberInv(q)'
  BY DEF SubscriberInv, Known, emitting, UpTo, OwnEvents, OwnRows, Points, Ahead, Forgotten, Behind,
         Visible, EventsOf, Done

\* tail answers with what follows the cursor; or with everything, when the stream is new or an
\* event the subscriber has received was lost.
LEMMA AfterFacts ==
    ASSUME Types, EmitInv, NEW s \in Subscribers, SubscriberInv(s), wire[s] = {}
    PROVE  /\ After(s) \subseteq Visible(s)
           /\ \A r \in Visible(s) \ After(s) : ~(r.id > cursor[s])
           /\ \A r \in After(s) : \/ r.id > cursor[s]
                                  \/ Forgotten(seen[s])
                                  \/ cursor[s] = 0 /\ seen[s] = {}
<1>1. Known(s) = seen[s]
  BY DEF Known, EventsOf
<1>2. PICK K, c : K = seen[s] /\ c = cursor[s] /\ UpTo(s, K, c)
  BY <1>1 DEF SubscriberInv
<1>3. ASSUME backend = "file", \A r \in Visible(s) : r.id # c, c # 0
      PROVE  Forgotten(K)
  <2>1. PICK g \in K : mine[g] = c /\ g \in EventsOf(log) \union erased
    BY <1>2, <1>3 DEF UpTo, Points
  <2>2. ASSUME g \in EventsOf(log) PROVE FALSE
    <3>1. PICK r \in log : r.event = g
      BY <2>2 DEF EventsOf
    <3>2. r.id = c /\ r \in Visible(s)
      BY <1>2, <2>1, <3>1 DEF EmitInv, Emitters, OwnRows, UpTo, OwnEvents, Visible
    <3> QED
      BY <1>3, <3>2
  <2> QED
    BY <1>3, <2>1, <2>2 DEF Forgotten
<1>4. c = 0 => K = {}
  BY <1>2 DEF UpTo, Points
<1> QED
  BY <1>2, <1>3, <1>4 DEF After, Forgotten

LEMMA PollKeeps ==
    ASSUME Types, EmitInv, NEW s \in Subscribers, \A q \in Subscribers : SubscriberInv(q), Poll(s)
    PROVE  Types' /\ \A q \in Subscribers : SubscriberInv(q)'
<1> DEFINE rows == Newest(After(s))
<1>1. /\ wire[s] = {} /\ UNCHANGED <<backend, log, emitting, last, seen, repeated>>
      /\ \/ rows = {} /\ UNCHANGED <<wire, cursor, cut>>
         \/ /\ rows # {} /\ wire' = [wire EXCEPT ![s] = rows]
            /\ \E r \in LastOf(rows) : cursor' = [cursor EXCEPT ![s] = r.id]
            /\ cut' = [cut EXCEPT ![s] = @ \union EventsOf(After(s) \ rows)]
  BY DEF Poll
<1>2. rows \subseteq After(s) /\ \A top \in LastOf(rows) : top \in rows /\ \A r \in rows : r.id <= top.id
  BY DEF Newest, LastOf
<1>3. SubscriberInv(s) /\ Known(s) = seen[s]
  BY <1>1 DEF Known, EventsOf
<1>4. /\ After(s) \subseteq Visible(s)
      /\ \A r \in Visible(s) \ After(s) : ~(r.id > cursor[s])
      /\ \A r \in After(s) : \/ r.id > cursor[s]
                             \/ Forgotten(seen[s])
                             \/ cursor[s] = 0 /\ seen[s] = {}
  BY <1>1, <1>3, AfterFacts
<1> HIDE DEF rows
<1>5. CASE UNCHANGED <<wire, cursor, cut>>
  <2>1. Types'
    BY <1>1, <1>5 DEF Types, emitting
  <2> QED
    BY <1>1, <1>5, <2>1, SubscriberFrame
<1>6. ASSUME wire' = [wire EXCEPT ![s] = rows], NEW top \in LastOf(rows),
             cursor' = [cursor EXCEPT ![s] = top.id],
             cut' = [cut EXCEPT ![s] = @ \union EventsOf(After(s) \ rows)]
      PROVE  Types' /\ \A q \in Subscribers : SubscriberInv(q)'
  <2>1. /\ rows \subseteq Visible(s) /\ Visible(s) \subseteq log /\ log \subseteq AnyRows
        /\ top \in rows /\ \A r \in rows : r.id <= top.id
    BY <1>2, <1>4, <1>6 DEF Visible, Types
  <2>2. \A r \in log : r.event \in Done /\ r.id = mine[r.event] /\ r.id \in Nat /\ r.id > 0
                       /\ r.event \in EventsOf(log)
    BY <2>1 DEF EmitInv, Emitters, OwnRows, AnyRows, EventsOf, Done
  <2>3. Types'
    <3>1. EventsOf(After(s) \ rows) \subseteq Events
      BY <1>4, <2>1 DEF EventsOf, AnyRows
    <3>2. rows \in SUBSET AnyRows /\ top.id \in Nat
      BY <2>1, <2>2
    <3>3. wire' \in [Subscribers -> SUBSET AnyRows] /\ cursor' \in [Subscribers -> Nat]
          /\ cut' \in [Subscribers -> SUBSET Events]
      BY <1>6, <3>1, <3>2 DEF Types
    <3> QED
      BY <1>1, <3>3 DEF Types, emitting
  <2>4. PICK K, c : K = seen[s] /\ c = cursor[s] /\ UpTo(s, K, c) /\ c \in Nat
    BY <1>3 DEF SubscriberInv, Types
  <2>5. PICK M : M = K \union EventsOf(rows)
    OBVIOUS
  <2>6. wire'[s] = rows /\ cursor'[s] = top.id /\ Known(s)' = M
        /\ cut'[s] = cut[s] \union EventsOf(After(s) \ rows)
    BY <1>1, <1>6, <2>4, <2>5 DEF Known, Types
  <2>7. UpTo(s, M, top.id)'
    <3>1. OwnEvents(s, M)'
      BY <1>1, <2>1, <2>2, <2>4, <2>5 DEF emitting, UpTo, OwnEvents, EventsOf, Visible, Done
    <3>2. Points(M, top.id)'
      BY <1>1, <2>1, <2>2, <2>5 DEF emitting, Points, EventsOf
    <3>3. Ahead(M, top.id)'
      <4>1. CASE Forgotten(K)
        BY <1>1, <2>5, <4>1 DEF emitting, Ahead, Forgotten
      <4>2. CASE K = {}
        BY <1>1, <2>1, <2>2, <2>5, <4>2 DEF emitting, Ahead, EventsOf
      <4>3. CASE ~Forgotten(K) /\ K # {}
        <5>1. top.id > c /\ \A f \in K : mine[f] <= c /\ mine[f] \in Nat
          BY <1>2, <1>4, <2>1, <2>4, <4>3 DEF UpTo, Ahead, OwnEvents, Done, Types
        <5>2. \A f \in EventsOf(rows) : mine[f] <= top.id
          BY <2>1, <2>2 DEF EventsOf
        <5> QED
          BY <1>1, <2>1, <2>2, <2>4, <2>5, <5>1, <5>2 DEF emitting, Ahead
      <4> QED
        BY <4>1, <4>2, <4>3
    <3>4. Behind(s, M, top.id)'
      <4>1. SUFFICES ASSUME NEW r \in Visible(s)
                     PROVE  \/ r.id > top.id
                            \/ r.event \in M \union cut'[s] \union raced
                            \/ \E f \in M : f \in erased
        BY <1>1 DEF emitting, Behind, Visible
      <4>2. CASE r \in rows
        BY <2>5, <4>2 DEF EventsOf
      <4>3. CASE r \in After(s) \ rows
        BY <2>6, <4>3 DEF EventsOf
      <4>4. CASE r \notin After(s)
        <5>1. ~(r.id > c)
          BY <1>4, <2>4, <4>4
        <5> QED
          BY <2>4, <2>5, <2>6, <5>1 DEF UpTo, Behind
      <4> QED
        BY <4>2, <4>3, <4>4
    <3> QED
      BY <3>1, <3>2, <3>3, <3>4 DEF UpTo
  <2>8. UpTo(s, Known(s), cursor[s])'
    BY <2>6, <2>7 DEF UpTo, OwnEvents, Points, Ahead, Forgotten, Behind
  <2>9. UpTo(s, seen[s], last[s])'
    <3>1. PICK d : d = last[s] /\ UpTo(s, K, d)
      BY <1>3, <2>4 DEF SubscriberInv
    <3>2. UpTo(s, K, d)'
      BY <1>1, <2>6, <3>1, MoreCut
    <3> QED
      BY <1>1, <2>4, <3>1, <3>2 DEF UpTo, OwnEvents, Points, Ahead, Forgotten, Behind
  <2>10. OwnRows(wire[s])'
    BY <1>1, <2>1, <2>2, <2>6 DEF emitting, OwnRows, Done
  <2>11. ASSUME NEW r \in rows, r.event \in K PROVE Forgotten(K)
    <3>1. r.id > c \/ Forgotten(K)
      BY <1>2, <1>4, <2>4, <2>11
    <3>2. Forgotten(K) \/ mine[r.event] <= c
      BY <2>4, <2>11 DEF UpTo, Ahead
    <3> QED
      BY <2>1, <2>2, <2>4, <3>1, <3>2
  <2>12. (EventsOf(wire[s]) \intersect seen[s] # {} => Forgotten(seen[s]))'
    BY <1>1, <2>4, <2>6, <2>11 DEF EventsOf, Forgotten, emitting
  <2>13. (repeated[s] # {} => Forgotten(seen[s]))'
    BY <1>1, <1>3 DEF SubscriberInv, Forgotten, emitting
  <2>14. SubscriberInv(s)'
    BY <2>8, <2>9, <2>10, <2>12, <2>13 DEF SubscriberInv
  <2>15. ASSUME NEW q \in Subscribers, q # s PROVE SubscriberInv(q)'
    BY <1>1, <1>6, <2>15, SubscriberFrame DEF Types
  <2> QED
    BY <2>3, <2>14, <2>15
<1> QED
  BY <1>1, <1>5, <1>6

LEMMA ReceiveKeeps ==
    ASSUME Types, EmitInv, NEW s \in Subscribers, \A q \in Subscribers : SubscriberInv(q),
           Receive(s)
    PROVE  Types' /\ \A q \in Subscribers : SubscriberInv(q)'
<1>1. /\ UNCHANGED <<backend, log, emitting, cursor, cut>>
      /\ seen' = [seen EXCEPT ![s] = @ \union EventsOf(wire[s])]
      /\ repeated' = [repeated EXCEPT ![s] = @ \union (EventsOf(wire[s]) \intersect seen[s])]
      /\ last' = [last EXCEPT ![s] = cursor[s]]
      /\ wire' = [wire EXCEPT ![s] = {}]
  BY DEF Receive
<1>2. Types'
  <2>1. EventsOf(wire[s]) \subseteq Events
    BY DEF Types, AnyRows, EventsOf
  <2> QED
    BY <1>1, <2>1 DEF Types, emitting
<1>3. PICK M, c : M = Known(s) /\ c = cursor[s] /\ UpTo(s, M, c)
  BY DEF SubscriberInv
<1>4. seen'[s] = M /\ Known(s)' = M /\ last'[s] = c /\ cursor'[s] = c /\ wire'[s] = {}
      /\ repeated'[s] = repeated[s] \union (EventsOf(wire[s]) \intersect seen[s])
  BY <1>1, <1>3 DEF Known, EventsOf, Types
<1>5. UpTo(s, M, c)'
  BY <1>1, <1>3, MoreCut
<1>6. UpTo(s, Known(s), cursor[s])' /\ UpTo(s, seen[s], last[s])'
  BY <1>4, <1>5 DEF UpTo, OwnEvents, Points, Ahead, Forgotten, Behind
<1>7. Forgotten(seen[s]) => Forgotten(seen[s])'
  BY <1>1, <1>3, <1>4 DEF Forgotten, emitting, Known
<1>8. (repeated[s] # {} => Forgotten(seen[s]))'
  BY <1>4, <1>7 DEF SubscriberInv
<1>9. SubscriberInv(s)'
  BY <1>4, <1>6, <1>8 DEF SubscriberInv, OwnRows, EventsOf
<1>10. ASSUME NEW q \in Subscribers, q # s PROVE SubscriberInv(q)'
  BY <1>1, <1>10, SubscriberFrame DEF Types
<1> QED
  BY <1>2, <1>9, <1>10

LEMMA ReconnectKeeps ==
    ASSUME Types, EmitInv, NEW s \in Subscribers, \A q \in Subscribers : SubscriberInv(q),
           Reconnect(s)
    PROVE  Types' /\ \A q \in Subscribers : SubscriberInv(q)'
<1>1. /\ UNCHANGED <<backend, log, emitting, last, seen, repeated, cut>>
      /\ cursor' = [cursor EXCEPT ![s] = last[s]]
      /\ wire' = [wire EXCEPT ![s] = {}]
  BY DEF Reconnect
<1>2. Types'
  BY <1>1 DEF Types, emitting
<1>3. PICK K, d : K = seen[s] /\ d = last[s] /\ UpTo(s, K, d)
  BY DEF SubscriberInv
<1>4. seen'[s] = K /\ Known(s)' = K /\ last'[s] = d /\ cursor'[s] = d /\ wire'[s] = {}
  BY <1>1, <1>3 DEF Known, EventsOf, Types
<1>5. UpTo(s, K, d)'
  BY <1>1, <1>3, MoreCut
<1>6. UpTo(s, Known(s), cursor[s])' /\ UpTo(s, seen[s], last[s])'
  BY <1>4, <1>5 DEF UpTo, OwnEvents, Points, Ahead, Forgotten, Behind
<1>7. (repeated[s] # {} => Forgotten(seen[s]))'
  BY <1>1 DEF SubscriberInv, Forgotten, emitting
<1>8. SubscriberInv(s)'
  BY <1>4, <1>6, <1>7 DEF SubscriberInv, OwnRows, EventsOf
<1>9. ASSUME NEW q \in Subscribers, q # s PROVE SubscriberInv(q)'
  BY <1>1, <1>9, SubscriberFrame DEF Types
<1> QED
  BY <1>2, <1>8, <1>9

LEMMA StreamInvStep == StreamInv /\ [Next]_vars => StreamInv'
<1>1. ASSUME StreamInv, NEW e \in Events, EmitStep(e) PROVE StreamInv'
  <2>1. Types' /\ EmitInv'
    BY <1>1, EmitTypes, BeginEmitInv, EndEmitInv, AbortEmitInv DEF StreamInv, EmitStep
  <2> QED
    BY <1>1, <2>1, EmitFrames, EmitKeepsSubscriber DEF StreamInv
<1>2. ASSUME StreamInv, NEW s \in Subscribers, Poll(s) \/ Receive(s) \/ Reconnect(s) PROVE StreamInv'
  <2>1. Types' /\ \A q \in Subscribers : SubscriberInv(q)'
    BY <1>2, PollKeeps, ReceiveKeeps, ReconnectKeeps DEF StreamInv
  <2>2. UNCHANGED <<backend, log, emitting>>
    BY <1>2 DEF Poll, Receive, Reconnect
  <2>3. EmitInv'
    BY <1>2, <2>2 DEF StreamInv, emitting, EmitInv, Emitters, FileLog, TableLog, OwnRows, Numbered,
                      EventsOf, Open, Done
  <2> QED
    BY <2>1, <2>3 DEF StreamInv
<1>3. ASSUME StreamInv, UNCHANGED vars PROVE StreamInv'
  <2>1. Types' /\ \A q \in Subscribers : SubscriberInv(q)'
    BY <1>3, SubscriberFrame DEF StreamInv, vars, subscribing, emitting, Types
  <2>2. EmitInv'
    BY <1>3 DEF StreamInv, vars, emitting, EmitInv, Emitters, FileLog, TableLog, OwnRows, Numbered,
                EventsOf, Open, Done
  <2> QED
    BY <2>1, <2>2 DEF StreamInv
<1> QED
  BY <1>1, <1>2, <1>3 DEF Next, EmitStep

LEMMA StreamInvAlways == Spec => []StreamInv
  BY InitStreamInv, StreamInvStep, PTL DEF Spec

-----------------------------------------------------------------------------
(* The bounds: no id exceeds the number of events, and no answer the limit.*)

\* No two rows of the log share an id.
LEMMA IdsDiffer ==
    ASSUME Types, EmitInv, NEW q \in log, NEW r \in log, q.id = r.id
    PROVE  q = r
<1>1. q \in AnyRows /\ r \in AnyRows /\ q.event \in Done /\ r.event \in Done
      /\ q.id = mine[q.event] /\ r.id = mine[r.event]
  BY DEF Types, EmitInv, Emitters, OwnRows
<1>2. CASE backend = "file"
  BY <1>2 DEF EmitInv, FileLog, Numbered
<1>3. CASE backend = "postgres"
  <2>1. q.event = r.event
    BY <1>1, <1>3 DEF EmitInv, TableLog, Done
  <2> QED
    BY <1>1, <2>1 DEF AnyRows
<1> QED
  BY <1>2, <1>3 DEF Types

\* Of rows with ids of their own at most Limit are newest: all of them but the oldest are newer
\* than that one, and fewer than Limit rows are.
LEMMA NewestFits ==
    ASSUME NEW rows \in SUBSET AnyRows, IsFiniteSet(rows), \A q, r \in rows : q.id = r.id => q = r
    PROVE  IsFiniteSet(Newest(rows)) /\ Cardinality(Newest(rows)) \in 0 .. Limit
<1> DEFINE N == Newest(rows)
           T == {r.id : r \in N}
<1>1. N \subseteq rows /\ \A r \in N : r.id \in Nat /\ Cardinality({q \in rows : q.id > r.id}) < Limit
  BY DEF Newest, AnyRows
<1>2. IsFiniteSet(N) /\ Cardinality(N) \in Nat
  BY <1>1, FS_Subset, FS_CardinalityType
<1>3. Limit \in Nat
  BY StreamAssumption
<1> HIDE DEF N
<1>4. CASE N = {}
  BY <1>2, <1>3, <1>4, FS_EmptySet DEF N
<1>5. CASE N # {}
  <2>1. T \subseteq Nat /\ T # {}
    <3>1. PICK r : r \in N
      BY <1>5
    <3>2. r.id \in T
      BY <3>1
    <3> QED
      BY <1>1, <3>2
  <2>2. PICK i \in T : \A j \in T : ~(<<j, i>> \in OpToRel(<, Nat))
    BY <2>1, NatLessThanWellFounded, WFMin
  <2>3. PICK oldest \in N : oldest.id = i
    BY <2>2
  <2> DEFINE U == {q \in rows : q.id > oldest.id}
  <2>4. \A r \in N : ~(r.id < oldest.id)
    BY <2>1, <2>2, <2>3 DEF OpToRel
  <2>5. N \ {oldest} \subseteq U
    <3> SUFFICES ASSUME NEW r \in N, r # oldest PROVE r \in U
      OBVIOUS
    <3>1. r \in rows /\ oldest \in rows /\ r.id \in Nat /\ oldest.id \in Nat
      BY <1>1, <2>3
    <3>2. r.id # oldest.id /\ ~(r.id < oldest.id)
      BY <2>4, <3>1
    <3>3. r.id > oldest.id
      BY <3>1, <3>2
    <3> QED
      BY <3>1, <3>3
  <2>6. IsFiniteSet(U) /\ Cardinality(U) \in Nat
    BY FS_Subset, FS_CardinalityType
  <2>7. Cardinality(N \ {oldest}) <= Cardinality(U)
    BY <2>5, <2>6, FS_Subset
  <2>8. Cardinality(N \ {oldest}) = Cardinality(N) - 1
    BY <1>2, <2>3, FS_RemoveElement
  <2>9. Cardinality(U) < Limit
    BY <1>1, <2>3
  <2> HIDE DEF U
  <2>10. Cardinality(N) \in 0 .. Limit
    BY <1>2, <1>3, <2>6, <2>7, <2>8, <2>9
  <2> QED
    BY <1>2, <2>10 DEF N
<1> QED
  BY <1>4, <1>5

\* The file has a line for some of the events begun, an emit has read lines of events before its
\* own, and the table has drawn one id for every event begun at most.
EmitBounds ==
    /\ drawn <= begun
    /\ IsFiniteSet(log)
    /\ \A e \in Events : mine[e] <= MaxEvents
    /\ backend = "file" => Cardinality(log) <= begun /\ \A e \in Open : Cardinality(copy[e]) < e

Signatures == [size: 0 .. Limit, last: SUBSET Rows]

StreamBounds ==
    /\ cursor \in [Subscribers -> 0 .. MaxEvents]
    /\ last \in [Subscribers -> 0 .. MaxEvents]
    /\ signature \in [Subscribers -> Signatures]
    /\ \A s \in Subscribers : Cardinality(wire[s]) <= Limit
    /\ drops \in 0 .. MaxDrops

Bounds == EmitBounds /\ StreamBounds

\* A stored row has an id of its bounds.
LEMMA StoredRows ==
    ASSUME Types, EmitInv, EmitBounds, NEW rows \in SUBSET AnyRows, OwnRows(rows)
    PROVE  rows \subseteq Rows
<1> SUFFICES ASSUME NEW r \in rows PROVE r \in Rows
  OBVIOUS
<1>1. r \in AnyRows /\ r.event \in Events /\ emit[r.event] # "idle" /\ r.id = mine[r.event]
  BY DEF OwnRows, Done, AnyRows
<1>2. r.id \in Nat /\ r.id > 0 /\ r.id <= MaxEvents
  BY <1>1 DEF EmitInv, Emitters, EmitBounds, AnyRows
<1>3. r.id \in Ids
  BY <1>2, StreamAssumption DEF Ids
<1> QED
  BY <1>1, <1>3 DEF AnyRows, Rows

LEMMA InitBounds == Init => Bounds
<1> SUFFICES ASSUME Init PROVE Bounds
  OBVIOUS
<1> USE StreamAssumption DEF Init
<1>1. EmitBounds
  BY FS_EmptySet DEF EmitBounds, Open
<1>2. NoSignature \in Signatures
  BY DEF NoSignature, Signatures
<1>3. StreamBounds
  BY <1>2, FS_EmptySet DEF StreamBounds
<1> QED
  BY <1>1, <1>3 DEF Bounds

LEMMA EmitKeepsBounds ==
    ASSUME Types, EmitInv, EmitBounds, NEW e \in Events, EmitStep(e)
    PROVE  EmitBounds'
<1>1. /\ begun \in Nat /\ drawn \in Nat /\ e \in Nat /\ e <= MaxEvents /\ MaxEvents \in Nat
      /\ mine \in [Events -> Nat] /\ copy \in [Events -> SUBSET AnyRows]
      /\ \A f \in Events : f \in Nat
  BY StreamAssumption DEF Types, Events
<1>2. backend = "file" \/ backend = "postgres"
  BY DEF Types
<1>3. Cardinality(log) \in Nat
  BY FS_CardinalityType DEF EmitBounds
<1>4. CASE Begin(e)
  <2>1. /\ e = begun + 1 /\ begun' = e /\ mine' = [mine EXCEPT ![e] = NextId]
        /\ Open' = Open \union {e} /\ e \notin Open /\ log' = log /\ backend' = backend
        /\ backend = "file" => copy' = [copy EXCEPT ![e] = log]
        /\ backend = "postgres" => copy' = copy /\ drawn' = drawn + 1 /\ NextId = drawn + 1
    BY <1>4, BeginFacts
  <2>2. backend = "file" => drawn' = drawn /\ NextId = Cardinality(log) + 1
    BY <1>4 DEF Begin, NextId
  <2>3. NextId <= MaxEvents
    BY <1>1, <1>2, <1>3, <2>1, <2>2 DEF EmitBounds
  <2>4. \A f \in Events : mine'[f] <= MaxEvents
    BY <1>1, <2>1, <2>3 DEF EmitBounds
  <2>5. drawn' <= begun'
    BY <1>1, <1>2, <2>1, <2>2 DEF EmitBounds
  <2>6. ASSUME backend = "file" PROVE \A f \in Open' : Cardinality(copy'[f]) < f
    BY <1>1, <1>3, <2>1, <2>6 DEF EmitBounds, Open
  <2> QED
    BY <1>1, <1>3, <2>1, <2>4, <2>5, <2>6 DEF EmitBounds
<1>5. CASE End(e)
  <2> DEFINE row == [id |-> mine[e], event |-> e]
  <2>1. /\ e \in Open /\ Open' = Open \ {e} /\ copy' = [copy EXCEPT ![e] = {}]
        /\ UNCHANGED <<backend, begun, mine, drawn>>
        /\ backend = "file" => log' = copy[e] \union {row}
        /\ backend = "postgres" => log' = log \union {row}
    BY <1>5, EndFacts
  <2> HIDE DEF row
  <2>2. ASSUME backend = "postgres" PROVE IsFiniteSet(log')
    BY <2>1, <2>2, FS_AddElement DEF EmitBounds
  <2>3. ASSUME backend = "file"
        PROVE  /\ IsFiniteSet(log') /\ Cardinality(log') <= begun'
               /\ \A f \in Open' : Cardinality(copy'[f]) < f
    <3>1. IsFiniteSet(copy[e]) /\ Cardinality(copy[e]) \in Nat /\ Cardinality(copy[e]) < e
      BY <2>1, <2>3, FS_CardinalityType DEF EmitInv, FileLog, Numbered, EmitBounds
    <3>2. e <= begun
      BY <1>1, <2>1 DEF EmitInv, Emitters, Open
    <3>3. IsFiniteSet(log') /\ Cardinality(log') \in Nat /\ Cardinality(log') <= Cardinality(copy[e]) + 1
      <4>1. IsFiniteSet(copy[e] \union {row})
            /\ Cardinality(copy[e] \union {row}) =
                 IF row \in copy[e] THEN Cardinality(copy[e]) ELSE Cardinality(copy[e]) + 1
        BY <3>1, FS_AddElement
      <4>2. log' = copy[e] \union {row}
        BY <2>1, <2>3
      <4> QED
        BY <3>1, <4>1, <4>2
    <3>4. Cardinality(log') <= begun'
      BY <1>1, <2>1, <3>1, <3>2, <3>3
    <3>5. \A f \in Open' : copy'[f] = copy[f]
      BY <1>1, <2>1 DEF Open
    <3> QED
      BY <2>1, <2>3, <3>3, <3>4, <3>5 DEF EmitBounds
  <2> QED
    BY <1>2, <2>1, <2>2, <2>3 DEF EmitBounds
<1>6. CASE Abort(e)
  <2>1. /\ copy' = [copy EXCEPT ![e] = {}] /\ UNCHANGED <<backend, log, begun, mine, drawn>>
        /\ emit' = [emit EXCEPT ![e] = "dead"] /\ emit[e] = "open"
    BY <1>6 DEF Abort
  <2>2. \A f \in Open' : f \in Open /\ copy'[f] = copy[f]
    BY <1>1, <2>1 DEF Open, Types
  <2> QED
    BY <2>1, <2>2 DEF EmitBounds
<1> QED
  BY <1>4, <1>5, <1>6 DEF EmitStep

LEMMA PollBounds ==
    ASSUME Types, EmitInv, Bounds, NEW s \in Subscribers, Poll(s)
    PROVE  StreamBounds'
<1> DEFINE rows == Newest(After(s))
<1>1. /\ UNCHANGED <<last, drops>> /\ signature' = [signature EXCEPT ![s] = SignatureOf(rows)]
      /\ \/ rows = {} /\ UNCHANGED <<wire, cursor, cut>>
         \/ /\ wire' = [wire EXCEPT ![s] = rows]
            /\ \E r \in LastOf(rows) : cursor' = [cursor EXCEPT ![s] = r.id]
  BY DEF Poll
<1>2. After(s) \subseteq log /\ log \in SUBSET AnyRows /\ log \subseteq Rows /\ IsFiniteSet(log)
  BY StoredRows DEF After, Visible, Types, EmitInv, Emitters, Bounds, EmitBounds
<1>3. IsFiniteSet(After(s)) /\ After(s) \in SUBSET AnyRows /\ \A q, r \in After(s) : q.id = r.id => q = r
  BY <1>2, FS_Subset, IdsDiffer
<1>4. IsFiniteSet(rows) /\ Cardinality(rows) \in 0 .. Limit
  BY <1>3, NewestFits
<1>5. rows \subseteq Rows
  BY <1>2 DEF Newest
<1> HIDE DEF rows
<1>6. SignatureOf(rows) \in Signatures /\ \A r \in LastOf(rows) : r.id \in 0 .. MaxEvents
  BY <1>4, <1>5 DEF SignatureOf, Signatures, LastOf, Rows, Ids
<1>7. signature' \in [Subscribers -> Signatures]
  BY <1>1, <1>6 DEF Bounds, StreamBounds
<1>8. cursor' \in [Subscribers -> 0 .. MaxEvents]
  BY <1>1, <1>6 DEF Bounds, StreamBounds
<1>9. \A q \in Subscribers : Cardinality(wire'[q]) <= Limit
  BY <1>1, <1>4 DEF Types, Bounds, StreamBounds
<1> QED
  BY <1>1, <1>7, <1>8, <1>9 DEF Bounds, StreamBounds

LEMMA BoundsStep == StreamInv /\ Bounds /\ [Next]_vars => Bounds'
<1> SUFFICES ASSUME StreamInv, Bounds, [Next]_vars PROVE Bounds'
  OBVIOUS
<1> USE DEF StreamInv, Bounds
<1>1. ASSUME NEW e \in Events, EmitStep(e) PROVE Bounds'
  <2>1. EmitBounds'
    BY <1>1, EmitKeepsBounds
  <2>2. UNCHANGED subscribing
    BY <1>1 DEF EmitStep, Begin, End, Abort
  <2> QED
    BY <2>1, <2>2 DEF StreamBounds, subscribing
<1>2. ASSUME UNCHANGED <<backend, log, emitting>> PROVE EmitBounds'
  BY <1>2 DEF emitting, EmitBounds, Open
<1>3. ASSUME NEW s \in Subscribers, Poll(s) PROVE Bounds'
  BY <1>2, <1>3, PollBounds DEF Poll
<1>4. ASSUME NEW s \in Subscribers, Receive(s) PROVE Bounds'
  <2>1. /\ UNCHANGED <<backend, log, emitting>> /\ UNCHANGED <<cursor, signature, drops>>
        /\ last' = [last EXCEPT ![s] = cursor[s]] /\ wire' = [wire EXCEPT ![s] = {}]
    BY <1>4 DEF Receive
  <2> QED
    BY <1>2, <2>1, FS_EmptySet, StreamAssumption DEF StreamBounds, Types
<1>5. ASSUME NEW s \in Subscribers, Reconnect(s) PROVE Bounds'
  <2>1. /\ UNCHANGED <<backend, log, emitting>> /\ last' = last
        /\ drops < MaxDrops /\ drops' = drops + 1
        /\ cursor' = [cursor EXCEPT ![s] = last[s]] /\ wire' = [wire EXCEPT ![s] = {}]
        /\ signature' = [signature EXCEPT ![s] = NoSignature]
    BY <1>5 DEF Reconnect
  <2>2. NoSignature \in Signatures
    BY StreamAssumption DEF NoSignature, Signatures
  <2> QED
    BY <1>2, <2>1, <2>2, FS_EmptySet, StreamAssumption DEF StreamBounds, Types
<1>6. ASSUME UNCHANGED vars PROVE Bounds'
  <2>1. UNCHANGED <<backend, log, emitting>> /\ UNCHANGED subscribing
    BY <1>6 DEF vars
  <2> QED
    BY <1>2, <2>1 DEF StreamBounds, subscribing
<1> QED
  BY <1>1, <1>3, <1>4, <1>5, <1>6 DEF Next, EmitStep

LEMMA BoundsAlways == Spec => [](StreamInv /\ Bounds)
  BY InitStreamInv, StreamInvStep, InitBounds, BoundsStep, PTL DEF Spec

-----------------------------------------------------------------------------
(* The theorems.                                                           *)

\* The log holds one event under an id, and loses only events of the file whose emit overlapped
\* another, for any number of events and of emits at once.
THEOREM OnlyRacedEventsAreLost == Spec => []LossIsRaced
<1>1. ASSUME StreamInv PROVE LossIsRaced
  <2>1. ASSUME NEW q \in log, NEW r \in log, q.id = r.id PROVE q = r
    BY <1>1, <2>1, IdsDiffer DEF StreamInv
  <2>2. ASSUME NEW e \in Events, emit[e] = "done", e \notin EventsOf(log)
        PROVE  backend = "file" /\ e \in raced
    BY <1>1, <2>2 DEF StreamInv, Types, EmitInv, FileLog, TableLog, Done
  <2> QED
    BY <2>1, <2>2 DEF LossIsRaced
<1> QED
  BY <1>1, StreamInvAlways, PTL

\* Lost connections make no subscriber miss an event or see one twice, for any number of
\* subscribers, events, emits at once and connections lost.
THEOREM EventsAreSeenOnce == Spec => []SeenOnceOrExplained
<1>1. ASSUME StreamInv PROVE SeenOnceOrExplained
  <2>1. ASSUME NEW s \in Subscribers, NEW r \in Visible(s)
        PROVE  \/ r.id > cursor[s]
               \/ r.event \in seen[s] \union EventsOf(wire[s])
               \/ Explained(s, r.event)
    BY <1>1, <2>1 DEF StreamInv, SubscriberInv, UpTo, Behind, Known, Explained
  <2>2. ASSUME NEW s \in Subscribers, repeated[s] # {}
        PROVE  backend = "file" /\ \E f \in seen[s] : f \in erased
    BY <1>1, <2>2 DEF StreamInv, SubscriberInv, Forgotten
  <2> QED
    BY <2>1, <2>2 DEF SeenOnceOrExplained
<1> QED
  BY <1>1, StreamInvAlways, PTL

\* Every variable has its type: no event gets an id larger than the number of events emitted, in
\* the file or in the table, and no answer has more rows than the limit.
THEOREM TypesHold == Spec => []TypeOK
<1>1. ASSUME StreamInv, Bounds PROVE TypeOK
  <2> USE <1>1 DEF StreamInv, Bounds
  <2>1. log \subseteq Rows /\ copy \in [Events -> SUBSET Rows]
    BY StoredRows DEF Types, EmitInv, Emitters
  <2>2. mine \in [Events -> 0 .. MaxEvents] /\ drawn \in 0 .. MaxEvents
    BY StreamAssumption DEF Types, EmitBounds
  <2>3. ASSUME NEW s \in Subscribers
        PROVE  /\ signature[s].size \in 0 .. Limit /\ signature[s].last \subseteq Rows
               /\ wire[s] \subseteq Rows /\ Cardinality(wire[s]) <= Limit
    <3>1. wire[s] \subseteq Rows
      BY <2>3, StoredRows DEF Types, SubscriberInv
    <3> QED
      BY <2>3, <3>1 DEF StreamBounds, Signatures
  <2> QED
    BY <2>1, <2>2, <2>3 DEF TypeOK, Types, StreamBounds
<1> QED
  BY <1>1, BoundsAlways, PTL
==============================================================================
