------------------------- MODULE ToolApprovalProofs -------------------------
(***************************************************************************)
(* The gate holds in every deployment: no outside write without the        *)
(* approval of another user.  The ledger keeps its other promises in a     *)
(* deployment of one process.                                              *)
(***************************************************************************)
EXTENDS ToolApproval, TLAPS

LedgerKinds == {"request", "consume", "decide"}

-----------------------------------------------------------------------------
(* The calls and the types.                                                *)

\* The kind of a call tells what the record is.
LEMMA CallShape ==
    ASSUME NEW c \in Calls
    PROVE  /\ c.kind \in LedgerKinds <=> c \in LockCalls
           /\ c.kind = "request" => c.req \in Requests
           /\ c.kind = "consume" => c.req \in Requests /\ c.id \in Ids
           /\ c.kind = "decide" => /\ c.id \in Ids /\ c.user \in Users
                                   /\ c.approve \in BOOLEAN
           /\ c.kind = "run" => c.req \in Requests /\ c.id \in Ids \cup {0}
  BY DEF Calls, LockCalls, RunCalls, NoCall, LedgerKinds

\* A call that ends leaves the lock to the others and the types as they are.
LEMMA ReturnType ==
    ASSUME TypeOK, NEW h \in Threads, call[h] \in LockCalls,
           NEW c \in RunCalls \cup {NoCall}, Return(h, c)
    PROVE  /\ call' \in [Threads -> Calls]
           /\ snap' \in [Threads -> Ledgers]
           /\ lock' \in [Processes -> Threads \cup {NoThread}]
           /\ late' = late
           /\ LockHeld'
<1>1. NoRows \in Ledgers
  BY DEF NoRows, Ledgers, Rows
<1>2. c \in Calls /\ c \notin LockCalls
  BY DEF Calls, RunCalls, LockCalls, NoCall
<1>3. /\ call' = [call EXCEPT ![h] = c]
      /\ snap' = [snap EXCEPT ![h] = NoRows]
      /\ lock' = [lock EXCEPT ![ProcessOf[h]] = NoThread]
      /\ late' = late
  BY DEF Return
<1>4. LockHeld'
  <2> SUFFICES ASSUME NEW g \in Threads, call'[g] \in LockCalls
               PROVE  lock'[ProcessOf[g]] = g
    BY DEF LockHeld
  <2>1. g # h /\ call'[g] = call[g]
    BY <1>2, <1>3 DEF TypeOK
  <2>2. lock[ProcessOf[g]] = g /\ lock[ProcessOf[h]] = h
    BY <2>1 DEF TypeOK, LockHeld
  <2> QED
    BY <1>3, <2>1, <2>2 DEF TypeOK
<1> QED
  BY <1>1, <1>2, <1>3, <1>4 DEF TypeOK

\* A call that begins takes the lock and works on the stored ledger.
LEMMA BeginType ==
    ASSUME TypeOK, NEW h \in Threads, NEW c \in LockCalls, Begin(h, c)
    PROVE  TypeOK'
<1>1. /\ call' = [call EXCEPT ![h] = c]
      /\ snap' = [snap EXCEPT ![h] = rows]
      /\ lock' = [lock EXCEPT ![ProcessOf[h]] = h]
      /\ lock[ProcessOf[h]] = NoThread
      /\ ProcessOf[h] \in Processes
      /\ UNCHANGED <<rows, late, nextId, decided, granted, ran>>
  BY DEF Begin, ledgerVars, histVars, Processes
<1>2. c \in Calls
  BY DEF Calls
<1>3. LockHeld'
  <2> SUFFICES ASSUME NEW g \in Threads, call'[g] \in LockCalls
               PROVE  lock'[ProcessOf[g]] = g
    BY DEF LockHeld
  <2>1. CASE g = h
    BY <1>1, <2>1 DEF TypeOK
  <2>2. CASE g # h
    <3>1. lock[ProcessOf[g]] = g
      BY <1>1, <2>2 DEF TypeOK, LockHeld
    <3> QED
      BY <1>1, <2>2, <3>1, ApprovalAssumption DEF TypeOK
  <2> QED
    BY <2>1, <2>2
<1> QED
  BY <1>1, <1>2, <1>3 DEF TypeOK

\* Evaluate and Answer only begin calls on the ledger.
LEMMA BeginsAreLockCalls ==
    ASSUME NEW h \in Threads,
           Answer(h) \/ \E r \in Requests : Evaluate(h, r)
    PROVE  \E c \in LockCalls : Begin(h, c)
<1>1. CASE Answer(h)
  <2>1. PICK i \in Ids, u \in Users, a \in BOOLEAN, t \in Tenants \cup {AnyTenant} :
           Begin(h, [kind |-> "decide", id |-> i, user |-> u, approve |-> a, tenant |-> t])
    BY <1>1 DEF Answer
  <2> QED
    BY <2>1 DEF LockCalls
<1>2. ASSUME NEW r \in Requests, Evaluate(h, r)
      PROVE  \E c \in LockCalls : Begin(h, c)
  <2>1. [kind |-> "request", req |-> r] \in LockCalls
    BY DEF LockCalls
  <2>2. \A i \in Ids : [kind |-> "consume", req |-> r, id |-> i] \in LockCalls
    BY DEF LockCalls
  <2> QED
    BY <1>2, <2>1, <2>2 DEF Evaluate
<1> QED
  BY <1>1, <1>2

LEMMA RequestType ==
    ASSUME TypeOK, NEW h \in Threads, Request(h)
    PROVE  TypeOK'
<1>1. call[h] \in LockCalls /\ call[h].req \in Requests
  BY CallShape DEF Request, TypeOK, LedgerKinds
<1>2. rows' \in Ledgers /\ nextId' \in 1 .. MaxIds + 1
  <2> DEFINE row == [status |-> "pending", req |-> call[h].req]
  <2>1. row \in Rows /\ snap[h] \in Ledgers
    BY <1>1 DEF Rows, Statuses, TypeOK
  <2>2. \/ UNCHANGED <<rows, nextId>>
        \/ /\ nextId \in Ids
           /\ rows' = [snap[h] EXCEPT ![nextId] = row]
           /\ nextId' = nextId + 1
    BY DEF Request
  <2>3. rows' \in Ledgers
    <3> HIDE DEF row
    <3> QED
      BY <2>1, <2>2 DEF TypeOK, Ledgers
  <2>4. nextId' \in 1 .. MaxIds + 1
    BY <2>2, ApprovalAssumption DEF TypeOK, Ids
  <2> QED
    BY <2>3, <2>4
<1>3. /\ call' \in [Threads -> Calls]
      /\ snap' \in [Threads -> Ledgers]
      /\ lock' \in [Processes -> Threads \cup {NoThread}]
      /\ late' = late
      /\ LockHeld'
  BY <1>1, ReturnType DEF Request
<1> QED
  BY <1>2, <1>3 DEF Request, TypeOK, histVars

LEMMA DecideType ==
    ASSUME TypeOK, NEW h \in Threads, Decide(h)
    PROVE  TypeOK'
<1>1. call[h] \in LockCalls /\ call[h].id \in Ids /\ call[h].user \in Users
  BY CallShape DEF Decide, TypeOK, LedgerKinds
<1>2. rows' \in Ledgers /\ decided' \subseteq [id : Ids, req : Requests, by : Users]
  <2> DEFINE row == snap[h][call[h].id]
  <2>1. snap[h] \in Ledgers /\ row \in Rows
    BY <1>1 DEF TypeOK, Ledgers
  <2>2. CASE ~MayDecide(call[h], row)
    BY <2>2 DEF Decide, TypeOK
  <2>3. CASE MayDecide(call[h], row)
    <3>1. row.status = "pending" /\ row.req \in Requests
      BY <2>1, <2>3 DEF MayDecide, Rows, NoRow
    <3>2. \A s \in Statuses : [row EXCEPT !.status = s] \in Rows
      BY <2>1, <3>1 DEF Rows, NoRow
    <3>3. rows' = [snap[h] EXCEPT ![call[h].id] = [row EXCEPT !.status =
                     IF call[h].approve THEN "approved" ELSE "rejected"]]
      BY <2>3 DEF Decide
    <3>4. rows' \in Ledgers
      BY <1>1, <2>1, <3>2, <3>3 DEF Ledgers, Statuses
    <3>5. decided' \subseteq [id : Ids, req : Requests, by : Users]
      BY <1>1, <2>3, <3>1 DEF Decide, TypeOK
    <3> QED
      BY <3>4, <3>5
  <2> QED
    BY <2>2, <2>3
<1>3. /\ call' \in [Threads -> Calls]
      /\ snap' \in [Threads -> Ledgers]
      /\ lock' \in [Processes -> Threads \cup {NoThread}]
      /\ late' = late
      /\ LockHeld'
  BY <1>1, ReturnType DEF Decide
<1> QED
  BY <1>2, <1>3 DEF Decide, TypeOK

LEMMA ConsumeType ==
    ASSUME TypeOK, NEW h \in Threads, Consume(h)
    PROVE  TypeOK'
<1>1. call[h] \in LockCalls /\ call[h].id \in Ids /\ call[h].req \in Requests
  BY CallShape DEF Consume, TypeOK, LedgerKinds
<1>2. [kind |-> "run", req |-> call[h].req, id |-> call[h].id] \in RunCalls
  BY <1>1 DEF RunCalls
<1>3. /\ call' \in [Threads -> Calls]
      /\ snap' \in [Threads -> Ledgers]
      /\ lock' \in [Processes -> Threads \cup {NoThread}]
      /\ late' = late
      /\ LockHeld'
  <2>1. \E c \in RunCalls \cup {NoCall} : Return(h, c)
    BY <1>2 DEF Consume
  <2> QED
    BY <1>1, <2>1, ReturnType
<1>4. rows' \in Ledgers /\ granted' \in [Ids -> 0 .. 2]
  <2>1. CASE ~Matches(call[h], snap[h][call[h].id])
    BY <2>1 DEF Consume, TypeOK
  <2>2. CASE Matches(call[h], snap[h][call[h].id])
    <3>1. \A s \in Statuses : [snap[h][call[h].id] EXCEPT !.status = s] \in Rows
      BY <1>1, <2>2 DEF Matches, Rows
    <3>2. snap[h] \in Ledgers
      BY DEF TypeOK
    <3>3. \A s \in Statuses : [snap[h] EXCEPT ![call[h].id].status = s] \in Ledgers
      BY <1>1, <3>1, <3>2 DEF Ledgers
    <3>4. \E s \in Statuses : rows' = [snap[h] EXCEPT ![call[h].id].status = s]
      BY <2>2 DEF Consume, Statuses
    <3>5. granted' \in [Ids -> 0 .. 2]
      <4>1. \/ granted' = granted
            \/ granted' = [granted EXCEPT ![call[h].id] = IF @ = 0 THEN 1 ELSE 2]
        BY DEF Consume
      <4> QED
        BY <1>1, <4>1 DEF TypeOK
    <3> QED
      BY <3>3, <3>4, <3>5
  <2> QED
    BY <2>1, <2>2
<1> QED
  BY <1>3, <1>4 DEF Consume, TypeOK

\* The steps outside the lock.
LEMMA OtherType ==
    ASSUME TypeOK,
           \/ \E h \in Threads : Run(h) \/ \E r \in Requests : Pass(h, r)
           \/ \E i \in Ids : Expire(i)
           \/ \E p \in Processes : Crash(p)
           \/ UNCHANGED vars
    PROVE  TypeOK'
<1>1. ASSUME NEW h \in Threads, NEW c \in RunCalls \cup {NoCall},
             call' = [call EXCEPT ![h] = c], UNCHANGED lock
      PROVE  call' \in [Threads -> Calls] /\ LockHeld'
  <2>1. c \in Calls /\ c \notin LockCalls
    BY DEF Calls, RunCalls, LockCalls, NoCall
  <2> QED
    BY <1>1, <2>1 DEF TypeOK, LockHeld
<1>2. ASSUME NEW h \in Threads, Run(h)
      PROVE  TypeOK'
  <2>1. call[h].req \in Requests /\ call[h].id \in Ids \cup {0}
    BY <1>2, CallShape DEF Run, TypeOK
  <2>2. ran' \subseteq [req : Requests, id : Ids \cup {0}]
    BY <1>2, <2>1 DEF Run, TypeOK
  <2>3. call' \in [Threads -> Calls] /\ LockHeld'
    BY <1>1, <1>2 DEF Run
  <2> QED
    BY <1>2, <2>2, <2>3 DEF Run, TypeOK, ledgerVars
<1>3. ASSUME NEW h \in Threads, NEW r \in Requests, Pass(h, r)
      PROVE  TypeOK'
  <2>1. [kind |-> "run", req |-> r, id |-> 0] \in RunCalls
    BY DEF RunCalls
  <2> QED
    BY <1>1, <1>3, <2>1 DEF Pass, TypeOK, ledgerVars, histVars
<1>4. ASSUME NEW i \in Ids, Expire(i)
      PROVE  TypeOK'
  BY <1>4 DEF Expire, TypeOK, LockHeld, callVars, histVars
<1>5. ASSUME NEW p \in Processes, Crash(p)
      PROVE  TypeOK'
  <2>1. NoCall \in Calls /\ NoCall \notin LockCalls /\ NoRows \in Ledgers
    BY DEF Calls, NoCall, LockCalls, NoRows, Ledgers, Rows
  <2>2. call' \in [Threads -> Calls] /\ snap' \in [Threads -> Ledgers]
    BY <1>5, <2>1 DEF Crash, TypeOK
  <2>3. lock' = [lock EXCEPT ![p] = NoThread]
    BY <1>5 DEF Crash
  <2>4. LockHeld'
    <3> SUFFICES ASSUME NEW g \in Threads, call'[g] \in LockCalls
                 PROVE  lock'[ProcessOf[g]] = g
      BY DEF LockHeld
    <3>1. ProcessOf[g] # p /\ call'[g] = call[g] /\ ProcessOf[g] \in Processes
      BY <1>5, <2>1 DEF Crash, Processes
    <3> QED
      BY <2>3, <3>1 DEF TypeOK, LockHeld
  <2> QED
    BY <1>5, <2>2, <2>3, <2>4 DEF Crash, TypeOK, ledgerVars, histVars
<1>6. ASSUME UNCHANGED vars
      PROVE  TypeOK'
  BY <1>6 DEF vars, ledgerVars, callVars, histVars, TypeOK, LockHeld
<1> QED
  BY <1>2, <1>3, <1>4, <1>5, <1>6

LEMMA InitType == Init => TypeOK
<1> SUFFICES ASSUME Init
             PROVE  TypeOK
  OBVIOUS
<1>1. NoRows \in Ledgers
  BY DEF NoRows, Ledgers, Rows
<1>2. NoCall \in Calls /\ NoCall \notin LockCalls
  BY DEF Calls, NoCall, LockCalls
<1>3. nextId \in 1 .. MaxIds + 1
  BY ApprovalAssumption DEF Init
<1> QED
  BY <1>1, <1>2, <1>3 DEF Init, TypeOK, LockHeld

\* Every step of the gate is one of these.
LEMMA Steps ==
    ASSUME [Next]_vars
    PROVE  \/ \E h \in Threads, c \in LockCalls : Begin(h, c)
           \/ \E h \in Threads : Request(h) \/ Decide(h) \/ Consume(h)
           \/ \E h \in Threads : Run(h) \/ \E r \in Requests : Pass(h, r)
           \/ \E i \in Ids : Expire(i)
           \/ \E p \in Processes : Crash(p)
           \/ UNCHANGED vars
  BY BeginsAreLockCalls DEF Next

LEMMA NextType == ASSUME TypeOK, [Next]_vars PROVE TypeOK'
  BY Steps, BeginType, RequestType, DecideType, ConsumeType, OtherType

\* Whatever the requests, users, threads and processes: the state keeps its
\* type, and a call on the ledger holds its process's lock until it returns.
THEOREM ApprovalTypeCorrect == Spec => []TypeOK
  BY InitType, NextType, PTL DEF Spec

-----------------------------------------------------------------------------
(* No outside write without the approval of another user.                  *)

\* One of the decisions D: another user has approved request r under id i.
Backed(D, i, r) == \E d \in D : d.id = i /\ d.req = r /\ d.by # UserOf[r]

LedgerBacked(D, L) == \A i \in Ids : L[i].status = "approved" => Backed(D, i, L[i].req)

\* The approved rows of the ledger and of every copy, the runs that are about to
\* begin and those that have begun all stand on a decision.
GInv ==
    /\ LedgerBacked(decided, rows)
    /\ \A h \in Threads : LedgerBacked(decided, snap[h])
    /\ \A h \in Threads :
         call[h].kind = "run" /\ AccessOf[call[h].req] = "external_write"
           => Backed(decided, call[h].id, call[h].req)
    /\ WritesAreGranted

\* Decisions are never forgotten.
LEMMA BackedStays ==
    ASSUME NEW D, NEW E, D \subseteq E
    PROVE  /\ \A i, r : Backed(D, i, r) => Backed(E, i, r)
           /\ \A L : LedgerBacked(D, L) => LedgerBacked(E, L)
  BY DEF Backed, LedgerBacked

LEMMA GInvInit == Init => GInv
  BY DEF Init, GInv, LedgerBacked, NoRows, NoRow, NoCall, WritesAreGranted

\* A step that changes no run and writes a backed ledger and backed copies.
LEMMA QuietStep ==
    ASSUME TypeOK, GInv, decided \subseteq decided', UNCHANGED ran,
           LedgerBacked(decided', rows'),
           \A h \in Threads : snap'[h] \in {snap[h], rows, NoRows},
           \A h \in Threads : call'[h].kind = "run" => call'[h] = call[h]
    PROVE  GInv'
<1>1. decided \subseteq decided'
  OBVIOUS
<1>2. ASSUME NEW h \in Threads
      PROVE  LedgerBacked(decided', snap'[h])
  <2>1. CASE snap'[h] = NoRows
    BY <2>1 DEF LedgerBacked, NoRows, NoRow
  <2>2. CASE snap'[h] \in {snap[h], rows}
    BY <1>1, <2>2, BackedStays DEF GInv
  <2> QED
    BY <2>1, <2>2
<1>3. ASSUME NEW h \in Threads, call'[h].kind = "run",
             AccessOf[call'[h].req] = "external_write"
      PROVE  Backed(decided', call'[h].id, call'[h].req)
  BY <1>1, <1>3, BackedStays DEF GInv
<1>4. WritesAreGranted'
  BY <1>1 DEF GInv, WritesAreGranted
<1> QED
  BY <1>1, <1>2, <1>3, <1>4 DEF GInv

LEMMA RequestKeepsGInv ==
    ASSUME TypeOK, GInv, NEW h \in Threads, Request(h)
    PROVE  GInv'
<1>1. /\ UNCHANGED <<decided, ran>>
      /\ call' = [call EXCEPT ![h] = NoCall]
      /\ snap' = [snap EXCEPT ![h] = NoRows]
  BY DEF Request, Return, histVars
<1>2. \A i \in Ids : \/ rows'[i] \in {rows[i], snap[h][i]}
                     \/ rows'[i].status = "pending"
  <2>1. CASE rows' = rows
    BY <2>1
  <2>2. CASE rows' = [snap[h] EXCEPT ![nextId] = [status |-> "pending", req |-> call[h].req]]
    BY <2>2 DEF TypeOK, Ledgers
  <2> QED
    BY <2>1, <2>2 DEF Request
<1>3. LedgerBacked(decided', rows')
  BY <1>1, <1>2 DEF GInv, LedgerBacked, Backed
<1>4. \A g \in Threads : snap'[g] \in {snap[g], rows, NoRows}
  BY <1>1 DEF TypeOK
<1>5. \A g \in Threads : call'[g].kind = "run" => call'[g] = call[g]
  BY <1>1 DEF TypeOK, NoCall
<1> QED
  BY <1>1, <1>3, <1>4, <1>5, QuietStep

LEMMA DecideKeepsGInv ==
    ASSUME TypeOK, GInv, NEW h \in Threads, Decide(h)
    PROVE  GInv'
<1> DEFINE c   == call[h]
           row == snap[h][c.id]
<1>1. /\ UNCHANGED ran
      /\ call' = [call EXCEPT ![h] = NoCall]
      /\ snap' = [snap EXCEPT ![h] = NoRows]
      /\ decided \subseteq decided'
  BY DEF Decide, Return
<1>2. LedgerBacked(decided', rows')
  <2>1. CASE ~MayDecide(c, row)
    BY <1>1, <2>1 DEF Decide, GInv, LedgerBacked, Backed
  <2>2. CASE MayDecide(c, row)
    <3>1. rows' = [snap[h] EXCEPT ![c.id].status =
                                IF c.approve THEN "approved" ELSE "rejected"]
      BY <2>2 DEF Decide
    <3>2. snap[h] \in Ledgers /\ c.id \in Ids /\ row \in Rows
      BY CallShape DEF Decide, TypeOK, Ledgers
    <3>3. row.status = "pending" /\ row \in [status : Statuses, req : Requests]
      BY <2>2, <3>2 DEF MayDecide, Rows, NoRow
    <3>4. rows'[c.id].req = row.req
      BY <3>1, <3>2, <3>3 DEF Ledgers
    <3>5. rows'[c.id].status = IF c.approve THEN "approved" ELSE "rejected"
      BY <3>1, <3>2, <3>3 DEF Ledgers
    <3>6. c.approve => Backed(decided', c.id, row.req)
      <4> SUFFICES ASSUME c.approve
                   PROVE  Backed(decided', c.id, row.req)
        OBVIOUS
      <4> DEFINE d == [id |-> c.id, req |-> row.req, by |-> c.user]
      <4>1. d \in decided'
        BY <2>2 DEF Decide
      <4>2. d.id = c.id /\ d.req = row.req /\ d.by # UserOf[row.req]
        BY <2>2 DEF MayDecide
      <4> HIDE DEF d
      <4> QED
        BY <4>1, <4>2 DEF Backed
    <3>7. \A i \in Ids \ {c.id} : rows'[i] = snap[h][i]
      BY <3>1, <3>2 DEF Ledgers
    <3> QED
      BY <1>1, <3>4, <3>5, <3>6, <3>7 DEF GInv, LedgerBacked, Backed
  <2> QED
    BY <2>1, <2>2
<1>3. \A g \in Threads : snap'[g] \in {snap[g], rows, NoRows}
  BY <1>1 DEF TypeOK
<1>4. \A g \in Threads : call'[g].kind = "run" => call'[g] = call[g]
  BY <1>1 DEF TypeOK, NoCall
<1> QED
  BY <1>1, <1>2, <1>3, <1>4, QuietStep

LEMMA ConsumeKeepsGInv ==
    ASSUME TypeOK, GInv, NEW h \in Threads, Consume(h)
    PROVE  GInv'
<1> DEFINE c   == call[h]
           row == snap[h][c.id]
           run == [kind |-> "run", req |-> c.req, id |-> c.id]
<1>1. UNCHANGED <<decided, ran>> /\ snap' = [snap EXCEPT ![h] = NoRows]
  BY DEF Consume, Return
<1>2. snap[h] \in Ledgers /\ c.id \in Ids
  BY CallShape DEF Consume, TypeOK
<1>3. LedgerBacked(decided', rows')
  <2>1. CASE rows' = rows
    BY <1>1, <2>1 DEF GInv, LedgerBacked, Backed
  <2>2. ASSUME NEW s \in {"expired", "consumed"}, Matches(c, row),
               rows' = [snap[h] EXCEPT ![c.id].status = s]
        PROVE  LedgerBacked(decided', rows')
    <3>1. rows'[c.id].status = s
      BY <1>2, <2>2 DEF Ledgers, Matches
    <3>2. \A i \in Ids \ {c.id} : rows'[i] = snap[h][i]
      BY <1>2, <2>2 DEF Ledgers
    <3> QED
      BY <1>1, <3>1, <3>2 DEF GInv, LedgerBacked, Backed
  <2> QED
    BY <2>1, <2>2 DEF Consume
<1>4. \A g \in Threads : LedgerBacked(decided', snap'[g])
  <2>1. \A g \in Threads : snap'[g] \in {snap[g], NoRows}
    BY <1>1 DEF TypeOK
  <2> QED
    BY <1>1, <2>1 DEF GInv, LedgerBacked, Backed, NoRows, NoRow
<1>5. ASSUME NEW g \in Threads, call'[g].kind = "run",
             AccessOf[call'[g].req] = "external_write"
      PROVE  Backed(decided', call'[g].id, call'[g].req)
  <2>1. CASE call'[g] = call[g]
    BY <1>1, <1>5, <2>1 DEF GInv, Backed
  <2>2. CASE call'[g] # call[g]
    <3>1. \/ call' = [call EXCEPT ![h] = NoCall]
          \/ Matches(c, row) /\ call' = [call EXCEPT ![h] = run]
      BY DEF Consume, Return
    <3>2. Matches(c, row) /\ call'[g] = run
      BY <1>5, <2>2, <3>1 DEF TypeOK, NoCall
    <3>3. row.status = "approved" /\ row.req = c.req
      BY <3>2 DEF Matches
    <3>4. Backed(decided, c.id, c.req)
      BY <1>2, <3>3 DEF GInv, LedgerBacked
    <3> QED
      BY <1>1, <3>2, <3>4 DEF Backed
  <2> QED
    BY <2>1, <2>2
<1>6. WritesAreGranted'
  BY <1>1 DEF GInv, WritesAreGranted
<1> QED
  BY <1>3, <1>4, <1>5, <1>6 DEF GInv

LEMMA NextKeepsGInv ==
    ASSUME TypeOK, GInv, [Next]_vars
    PROVE  GInv'
<1>1. ASSUME NEW h \in Threads, NEW c \in LockCalls, Begin(h, c)
      PROVE  GInv'
  <2>1. /\ UNCHANGED <<rows, decided, ran>>
        /\ call' = [call EXCEPT ![h] = c] /\ snap' = [snap EXCEPT ![h] = rows]
    BY <1>1 DEF Begin, ledgerVars, histVars
  <2>2. c.kind # "run"
    BY DEF LockCalls
  <2>3. LedgerBacked(decided', rows')
    BY <2>1 DEF GInv, LedgerBacked, Backed
  <2>4. /\ \A g \in Threads : snap'[g] \in {snap[g], rows, NoRows}
        /\ \A g \in Threads : call'[g].kind = "run" => call'[g] = call[g]
    BY <2>1, <2>2 DEF TypeOK
  <2> QED
    BY <2>1, <2>3, <2>4, QuietStep
<1>2. ASSUME NEW h \in Threads, Run(h)
      PROVE  GInv'
  <2>1. /\ UNCHANGED <<rows, snap, decided>>
        /\ call' = [call EXCEPT ![h] = NoCall]
        /\ ran' = ran \cup {[req |-> call[h].req, id |-> call[h].id]}
    BY <1>2 DEF Run, ledgerVars
  <2>2. WritesAreGranted'
    BY <1>2, <2>1 DEF GInv, WritesAreGranted, Backed, Run
  <2>3. \A g \in Threads : call'[g].kind = "run" => call'[g] = call[g]
    BY <2>1 DEF TypeOK, NoCall
  <2> QED
    BY <2>1, <2>2, <2>3 DEF GInv, LedgerBacked, Backed
<1>3. ASSUME NEW h \in Threads, NEW r \in Requests, Pass(h, r)
      PROVE  GInv'
  <2>1. /\ UNCHANGED <<rows, snap, decided, ran>>
        /\ call' = [call EXCEPT ![h] = [kind |-> "run", req |-> r, id |-> 0]]
    BY <1>3 DEF Pass, ledgerVars, histVars
  <2>2. AccessOf[r] # "external_write"
    BY <1>3 DEF Pass, NeedsApproval
  <2>3. \A g \in Threads : \/ call'[g] = call[g]
                           \/ call'[g] = [kind |-> "run", req |-> r, id |-> 0]
    BY <2>1 DEF TypeOK
  <2> QED
    BY <2>1, <2>2, <2>3 DEF GInv, LedgerBacked, Backed, WritesAreGranted
<1>4. ASSUME NEW i \in Ids, Expire(i)
      PROVE  GInv'
  BY <1>4 DEF Expire, GInv, LedgerBacked, Backed, WritesAreGranted, callVars, histVars
<1>5. ASSUME NEW p \in Processes, Crash(p)
      PROVE  GInv'
  <2>1. UNCHANGED <<rows, decided, ran>>
    BY <1>5 DEF Crash, ledgerVars, histVars
  <2>2. /\ \A g \in Threads : snap'[g] \in {snap[g], rows, NoRows}
        /\ \A g \in Threads : call'[g].kind = "run" => call'[g] = call[g]
    BY <1>5 DEF Crash, NoCall
  <2>3. LedgerBacked(decided', rows')
    BY <2>1 DEF GInv, LedgerBacked, Backed
  <2> QED
    BY <2>1, <2>2, <2>3, QuietStep
<1>6. ASSUME UNCHANGED vars
      PROVE  GInv'
  BY <1>6 DEF vars, ledgerVars, callVars, histVars, GInv, LedgerBacked, Backed,
              WritesAreGranted
<1> QED
  BY <1>1, <1>2, <1>3, <1>4, <1>5, <1>6, Steps, RequestKeepsGInv, DecideKeepsGInv,
     ConsumeKeepsGInv

\* For any requests, users, tenants, threads and processes, and whatever
\* happens to the ledger: a tool that writes outside has run only if another
\* user approved exactly this request.
THEOREM OutsideWritesAreGranted == Spec => []WritesAreGranted
<1>1. TypeOK /\ GInv /\ [Next]_vars => TypeOK' /\ GInv'
  BY NextType, NextKeepsGInv
<1>2. GInv => WritesAreGranted
  BY DEF GInv
<1> QED
  BY <1>1, <1>2, InitType, GInvInit, PTL DEF Spec

-----------------------------------------------------------------------------
(* One process: the ledger keeps its promise.                              *)

\* The deployment without workers: every thread lives in the web process.
OneProcess == \A g, h \in Threads : ProcessOf[g] = ProcessOf[h]

\* The copy of a call under way is the stored ledger; the rows that are still
\* to come do not exist; an approval has been spent if its row says so.
SInv ==
    /\ \A h \in Threads : call[h] \in LockCalls => snap[h] = rows
    /\ \A i \in Ids : i >= nextId => rows[i] = NoRow
    /\ \A i \in Ids : granted[i] = IF rows[i].status = "consumed" THEN 1 ELSE 0

\* The abstract ledger that a state shows.
Shown == [i \in Ids |-> rows[i].status]

LEMMA SInvInit == Init => SInv
  BY DEF Init, SInv, NoRows, NoRow, NoCall, LockCalls

\* No other thread of the process is inside a call.
LEMMA Alone ==
    ASSUME OneProcess, TypeOK, NEW h \in Threads, call[h] \in LockCalls,
           NEW g \in Threads \ {h}
    PROVE  call[g] \notin LockCalls
  BY DEF OneProcess, TypeOK, LockHeld

\* A call that returns keeps SInv when the rows and the grants agree.
LEMMA ReturnKeepsSInv ==
    ASSUME OneProcess, TypeOK, NEW h \in Threads, call[h] \in LockCalls,
           NEW c \in RunCalls \cup {NoCall}, Return(h, c),
           \A i \in Ids : i >= nextId' => rows'[i] = NoRow,
           \A i \in Ids : granted'[i] = IF rows'[i].status = "consumed" THEN 1 ELSE 0
    PROVE  SInv'
<1>1. c \notin LockCalls
  BY DEF RunCalls, LockCalls, NoCall
<1>2. \A g \in Threads : call'[g] \notin LockCalls
  BY <1>1, Alone DEF Return, TypeOK
<1> QED
  BY <1>2 DEF SInv

LEMMA RequestStep ==
    ASSUME OneProcess, TypeOK, SInv, NEW h \in Threads, Request(h)
    PROVE  SInv' /\ [Ledger!Next]_<<Shown, granted>>
<1>1. call[h] \in LockCalls /\ snap[h] = rows /\ granted' = granted
  BY CallShape DEF Request, TypeOK, LedgerKinds, SInv, histVars
<1>2. CASE UNCHANGED <<rows, nextId>>
  <2>1. SInv'
    BY <1>1, <1>2, ReturnKeepsSInv DEF Request, SInv
  <2> QED
    BY <1>1, <1>2, <2>1 DEF Shown
<1>3. ASSUME nextId \in Ids, nextId' = nextId + 1,
             rows' = [rows EXCEPT ![nextId] = [status |-> "pending", req |-> call[h].req]]
      PROVE  SInv' /\ [Ledger!Next]_<<Shown, granted>>
  <2> PICK n \in Ids : n = nextId
    BY <1>3
  <2>1. rows[n] = NoRow /\ rows \in Ledgers
    BY <1>3 DEF SInv, TypeOK, Ids
  <2>2. /\ \A i \in Ids \ {n} : rows'[i] = rows[i]
        /\ rows'[n].status = "pending"
    BY <1>3, <2>1 DEF Ledgers
  <2>3. /\ \A i \in Ids : i >= nextId' => rows'[i] = NoRow
        /\ \A i \in Ids : granted'[i] = IF rows'[i].status = "consumed" THEN 1 ELSE 0
    BY <1>1, <1>3, <2>1, <2>2 DEF SInv, Ids, NoRow
  <2>4. SInv'
    BY <1>1, <2>3, ReturnKeepsSInv DEF Request
  <2>5. Shown' = [Shown EXCEPT ![n] = "pending"] /\ Shown[n] = "none"
    <3>1. \A j \in Ids : rows'[j].status = IF j = n THEN "pending" ELSE rows[j].status
      BY <2>2
    <3>2. Shown' = [Shown EXCEPT ![n] = "pending"]
      BY <3>1 DEF Shown
    <3>3. Shown[n] = "none"
      BY <2>1 DEF Shown, NoRow
    <3> QED
      BY <3>2, <3>3
  <2>6. Ledger!Ask(n)
    BY <1>1, <2>5 DEF Ledger!Ask, Ledger!Move, Shown
  <2> QED
    BY <2>4, <2>6 DEF Ledger!Next
<1> QED
  BY <1>1, <1>2, <1>3 DEF Request

\* Changing the status of one row of the ledger.
LEMMA StatusChange ==
    ASSUME TypeOK, NEW i \in Ids, rows[i] # NoRow, NEW s \in Statuses,
           rows' = [rows EXCEPT ![i].status = s]
    PROVE  /\ rows'[i].status = s
           /\ \A j \in Ids \ {i} : rows'[j] = rows[j]
           /\ Shown' = [Shown EXCEPT ![i] = s]
<1>1. rows \in Ledgers /\ rows[i] \in [status : Statuses, req : Requests]
  BY DEF TypeOK, Ledgers, Rows
<1>2. rows'[i].status = s /\ \A j \in Ids \ {i} : rows'[j] = rows[j]
  BY <1>1 DEF Ledgers
<1>3. \A j \in Ids : rows'[j].status = IF j = i THEN s ELSE rows[j].status
  BY <1>2
<1>4. Shown' = [Shown EXCEPT ![i] = s]
  BY <1>3 DEF Shown
<1> QED
  BY <1>2, <1>4

LEMMA DecideStep ==
    ASSUME OneProcess, TypeOK, SInv, NEW h \in Threads, Decide(h)
    PROVE  SInv' /\ [Ledger!Next]_<<Shown, granted>>
<1> DEFINE c == call[h]
<1> PICK n : n = c.id
  OBVIOUS
<1>1. /\ c \in LockCalls /\ n \in Ids /\ c.approve \in BOOLEAN
      /\ snap[h] = rows /\ UNCHANGED <<granted, nextId>>
  BY CallShape DEF Decide, TypeOK, LedgerKinds, SInv
<1>2. CASE ~MayDecide(c, rows[n])
  <2>1. rows' = rows
    BY <1>1, <1>2 DEF Decide
  <2>2. SInv'
    BY <1>1, <2>1, ReturnKeepsSInv DEF Decide, SInv
  <2> QED
    BY <1>1, <2>1, <2>2 DEF Shown
<1>3. CASE MayDecide(c, rows[n])
  <2>1. PICK s \in {"approved", "rejected"} : rows' = [rows EXCEPT ![n].status = s]
    BY <1>1, <1>3 DEF Decide
  <2>2. rows[n].status = "pending" /\ rows[n] # NoRow
    BY <1>3 DEF MayDecide, NoRow
  <2>3. /\ rows'[n].status = s
        /\ \A j \in Ids \ {n} : rows'[j] = rows[j]
        /\ Shown' = [Shown EXCEPT ![n] = s]
    BY <1>1, <2>1, <2>2, StatusChange DEF Statuses
  <2>4. \A i \in Ids : /\ i >= nextId' => rows'[i] = NoRow
                       /\ granted'[i] = IF rows'[i].status = "consumed" THEN 1 ELSE 0
    BY <1>1, <2>2, <2>3 DEF SInv
  <2>5. SInv'
    BY <1>1, <2>4, ReturnKeepsSInv DEF Decide
  <2>6. Ledger!Move(n, "pending", s)
    BY <1>1, <2>2, <2>3 DEF Ledger!Move, Shown
  <2> QED
    BY <1>1, <2>5, <2>6 DEF Ledger!Next, Ledger!Approve, Ledger!Reject
<1> QED
  BY <1>2, <1>3

LEMMA ConsumeStep ==
    ASSUME OneProcess, TypeOK, SInv, NEW h \in Threads, Consume(h)
    PROVE  SInv' /\ [Ledger!Next]_<<Shown, granted>>
<1> DEFINE c   == call[h]
           run == [kind |-> "run", req |-> c.req, id |-> c.id]
<1> PICK n : n = c.id
  OBVIOUS
<1>1. /\ c \in LockCalls /\ n \in Ids /\ c.req \in Requests
      /\ snap[h] = rows /\ UNCHANGED nextId
  BY CallShape DEF Consume, TypeOK, LedgerKinds, SInv
<1>2. PICK d \in RunCalls \cup {NoCall} : Return(h, d)
  BY <1>1 DEF Consume, RunCalls
<1>3. CASE UNCHANGED <<rows, granted>>
  <2>1. SInv'
    BY <1>1, <1>2, <1>3, ReturnKeepsSInv DEF SInv
  <2> QED
    BY <1>3, <2>1 DEF Shown
<1>4. ASSUME Matches(c, rows[n]), NEW s \in {"expired", "consumed"},
             rows' = [rows EXCEPT ![n].status = s],
             granted' = IF s = "expired" THEN granted
                        ELSE [granted EXCEPT ![n] = IF @ = 0 THEN 1 ELSE 2]
      PROVE  SInv' /\ [Ledger!Next]_<<Shown, granted>>
  <2>1. rows[n].status = "approved" /\ rows[n] # NoRow
    BY <1>4 DEF Matches, NoRow
  <2>2. /\ rows'[n].status = s
        /\ \A j \in Ids \ {n} : rows'[j] = rows[j]
        /\ Shown' = [Shown EXCEPT ![n] = s]
    BY <1>1, <1>4, <2>1, StatusChange DEF Statuses
  <2>3. granted[n] = 0 /\ granted \in [Ids -> 0 .. 2]
    BY <1>1, <2>1 DEF SInv, TypeOK
  <2>4. granted' = IF s = "expired" THEN granted ELSE [granted EXCEPT ![n] = 1]
    BY <1>4, <2>3
  <2>5. \A i \in Ids : /\ i >= nextId' => rows'[i] = NoRow
                       /\ granted'[i] = IF rows'[i].status = "consumed" THEN 1 ELSE 0
    BY <1>1, <2>1, <2>2, <2>3, <2>4 DEF SInv
  <2>6. SInv'
    BY <1>1, <1>2, <2>5, ReturnKeepsSInv
  <2>7. Ledger!Move(n, "approved", s)
    BY <1>1, <2>1, <2>2 DEF Ledger!Move, Shown
  <2> QED
    BY <1>1, <2>4, <2>6, <2>7 DEF Ledger!Next, Ledger!Lapse, Ledger!Spend
<1> QED
  BY <1>1, <1>3, <1>4 DEF Consume

LEMMA NextStep ==
    ASSUME OneProcess, TypeOK, SInv, [Next]_vars
    PROVE  SInv' /\ [Ledger!Next]_<<Shown, granted>>
<1>1. ASSUME NEW h \in Threads, NEW c \in LockCalls, Begin(h, c)
      PROVE  SInv' /\ UNCHANGED <<Shown, granted>>
  <2>1. /\ UNCHANGED <<rows, nextId, granted>>
        /\ call' = [call EXCEPT ![h] = c] /\ snap' = [snap EXCEPT ![h] = rows]
    BY <1>1 DEF Begin, ledgerVars, histVars
  <2> QED
    BY <2>1 DEF SInv, TypeOK, Shown
<1>2. ASSUME NEW h \in Threads, Run(h) \/ \E r \in Requests : Pass(h, r)
      PROVE  SInv' /\ UNCHANGED <<Shown, granted>>
  <2>1. UNCHANGED <<rows, nextId, granted, snap>>
    BY <1>2 DEF Run, Pass, ledgerVars, histVars
  <2>2. \A g \in Threads : call'[g] = call[g] \/ call'[g] \notin LockCalls
    BY <1>2 DEF Run, Pass, TypeOK, NoCall, LockCalls
  <2> QED
    BY <2>1, <2>2 DEF SInv, Shown
<1>3. ASSUME NEW i \in Ids, Expire(i)
      PROVE  SInv' /\ UNCHANGED <<Shown, granted>>
  BY <1>3 DEF Expire, SInv, Shown, callVars, histVars
<1>4. ASSUME NEW p \in Processes, Crash(p)
      PROVE  SInv' /\ UNCHANGED <<Shown, granted>>
  <2>1. NoCall \notin LockCalls
    BY DEF NoCall, LockCalls
  <2> QED
    BY <1>4, <2>1 DEF Crash, SInv, Shown, ledgerVars, histVars
<1>5. ASSUME UNCHANGED vars
      PROVE  SInv' /\ UNCHANGED <<Shown, granted>>
  BY <1>5 DEF vars, ledgerVars, callVars, histVars, SInv, Shown
<1> QED
  BY <1>1, <1>2, <1>3, <1>4, <1>5, Steps, RequestStep, DecideStep, ConsumeStep

LEMMA OneProcessInvariance ==
    ASSUME OneProcess
    PROVE  Spec => [](TypeOK /\ SInv)
<1>1. TypeOK /\ SInv /\ [Next]_vars => (TypeOK /\ SInv)'
  BY NextType, NextStep
<1> QED
  BY <1>1, InitType, SInvInit, PTL DEF Spec

\* In one process an approved grant is consumed at most once.
THEOREM GrantsAreSingleUse ==
    ASSUME OneProcess
    PROVE  Spec => []SingleUse
<1>1. SInv => SingleUse
  BY DEF SInv, SingleUse
<1> QED
  BY <1>1, OneProcessInvariance, PTL

\* In one process every decision stands, no row is lost, and an approval is
\* spent once or lapses: the file implements the ledger of ApprovalLedger.
THEOREM DecisionsStand ==
    ASSUME OneProcess
    PROVE  Spec => ImplementsLedger
<1>1. Init => Ledger!Init
  BY DEF Init, Ledger!Init, NoRows, NoRow
<1>2. TypeOK /\ SInv /\ [Next]_vars => [Ledger!Next]_<<Shown, granted>>
  BY NextStep
<1> QED
  BY <1>1, <1>2, OneProcessInvariance, PTL DEF Spec, ImplementsLedger, Ledger!Spec, Shown
=============================================================================
