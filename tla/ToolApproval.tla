---------------------------- MODULE ToolApproval ----------------------------
(***************************************************************************)
(* The gate in front of every tool (governance/tool_policy.py,             *)
(* tools/base.py): a tool that writes outside runs only on a grant, which  *)
(* another user has approved for exactly this request.  The grants are     *)
(* rows of one encrypted file that every call reads and rewrites as a      *)
(* whole under a lock of its own process.                                  *)
(***************************************************************************)
EXTENDS Naturals, FiniteSets

CONSTANTS
    Requests,    \* tool calls: tenant, user, review run, tool, arguments
    UserOf,      \* the user each is made for
    TenantOf,    \* and the user's tenant
    AccessOf,    \* the access the tool's policy declares
    Flagged,     \* requests to tools whose policy has approval_required
    Marked,      \* requests to tools whose policy has sensitive_resource
    Sensitive,   \* requests of reviews of sensitive contracts
    Permitted,   \* requests of users with the permission the policy requires
    Users, Tenants,
    Threads, ProcessOf,
    MaxIds,      \* bound: approvals ever requested
    NoThread, Nobody, AnyTenant

Accesses == {"read", "compute", "local_write", "external_write"}
Ids      == 1 .. MaxIds

ASSUME ApprovalAssumption ==
    /\ UserOf \in [Requests -> Users]
    /\ TenantOf \in [Requests -> Tenants]
    /\ AccessOf \in [Requests -> Accesses]
    /\ Flagged \subseteq Requests
    /\ Marked \subseteq Requests
    /\ Sensitive \subseteq Requests
    /\ Permitted \subseteq Requests
    /\ MaxIds \in Nat
    /\ NoThread \notin Threads
    /\ Nobody \notin Users
    /\ AnyTenant \notin Tenants

VARIABLES
    rows,     \* the ledger
    late,     \* approvals past expires_at
    nextId,   \* the id the next new row gets
    call,     \* the call each thread is in
    snap,     \* the copy of the ledger it works on
    lock,     \* holder of each process's lock
    decided,  \* history: decisions to approve that have been written
    granted,  \* history: how often each approval was consumed, 2 for more than once
    ran       \* history: the tool calls that have run, and on which approval

ledgerVars == <<rows, late, nextId>>
callVars   == <<call, snap, lock>>
histVars   == <<decided, granted, ran>>
vars       == <<ledgerVars, callVars, histVars>>

Processes == {ProcessOf[h] : h \in Threads}
Statuses  == {"pending", "approved", "rejected", "consumed", "expired"}
NoRow     == [status |-> "none"]
NoRows    == [i \in Ids |-> NoRow]
Rows      == [status : Statuses, req : Requests] \cup {NoRow}
Ledgers   == [Ids -> Rows]

NoCall    == [kind |-> "none"]
LockCalls ==
    [kind : {"request"}, req : Requests]
      \cup [kind : {"consume"}, req : Requests, id : Ids]
      \cup [kind : {"decide"}, id : Ids, user : Users, approve : BOOLEAN,
            tenant : Tenants \cup {AnyTenant}]
RunCalls  == [kind : {"run"}, req : Requests, id : Ids \cup {0}]
Calls     == LockCalls \cup RunCalls \cup {NoCall}

\* A sensitive resource replaces the other two conditions: it asks for approval
\* of every write, and of nothing else.
NeedsApproval(r) ==
    IF r \in Marked /\ r \in Sensitive
      THEN AccessOf[r] \in {"local_write", "external_write"}
      ELSE r \in Flagged \/ AccessOf[r] = "external_write"

Init ==
    /\ rows = NoRows
    /\ late = {}
    /\ nextId = 1
    /\ call = [h \in Threads |-> NoCall]
    /\ snap = [h \in Threads |-> NoRows]
    /\ lock = [p \in Processes |-> NoThread]
    /\ decided = {}
    /\ granted = [i \in Ids |-> 0]
    /\ ran = {}

-----------------------------------------------------------------------------
(* The calls on the ledger.                                                *)

\* Mutant of Begin: the lock is not taken.
Begin_Unlocked(h, c) ==
    /\ call[h] = NoCall
    /\ lock[ProcessOf[h]] = NoThread
    /\ call' = [call EXCEPT ![h] = c]
    /\ snap' = [snap EXCEPT ![h] = rows]
    /\ UNCHANGED <<ledgerVars, lock, histVars>>

\* A call takes the lock of its process and loads the file.
Begin(h, c) ==
    /\ call[h] = NoCall
    /\ lock[ProcessOf[h]] = NoThread
    /\ call' = [call EXCEPT ![h] = c]
    /\ snap' = [snap EXCEPT ![h] = rows]
    /\ lock' = [lock EXCEPT ![ProcessOf[h]] = h]
    /\ UNCHANGED <<ledgerVars, histVars>>

\* It ends: the lock is released, the copy is dropped, thread h goes on with c.
Return(h, c) ==
    /\ call' = [call EXCEPT ![h] = c]
    /\ snap' = [snap EXCEPT ![h] = NoRows]
    /\ lock' = [lock EXCEPT ![ProcessOf[h]] = NoThread]
    /\ UNCHANGED late

\* request: a pending approval of the same request is returned as it is.
Request(h) ==
    /\ call[h].kind = "request"
    /\ LET r == call[h].req
       IN  IF \E i \in Ids : snap[h][i] = [status |-> "pending", req |-> r]
             THEN UNCHANGED <<rows, nextId>>
             ELSE /\ nextId \in Ids
                  /\ rows' = [snap[h] EXCEPT ![nextId] = [status |-> "pending", req |-> r]]
                  /\ nextId' = nextId + 1
    /\ Return(h, NoCall)
    /\ UNCHANGED histVars

\* Mutant of MayDecide: users may approve their own requests.
MayDecide_Own(c, row) ==
    /\ row.status = "pending"
    /\ c.tenant \in {TenantOf[row.req], AnyTenant}

\* decide raises unless the row is pending, of the given tenant, and, to be
\* approved, not the approver's own.
MayDecide(c, row) ==
    /\ row.status = "pending"
    /\ c.tenant \in {TenantOf[row.req], AnyTenant}
    /\ c.approve => c.user # UserOf[row.req]

Decide(h) ==
    /\ call[h].kind = "decide"
    /\ LET c   == call[h]
           row == snap[h][c.id]
       IN  IF ~MayDecide(c, row)
             THEN UNCHANGED <<rows, decided>>
             ELSE /\ rows' = [snap[h] EXCEPT ![c.id].status =
                                 IF c.approve THEN "approved" ELSE "rejected"]
                  /\ decided' = IF c.approve
                       THEN decided \cup {[id |-> c.id, req |-> row.req, by |-> c.user]}
                       ELSE decided
    /\ Return(h, NoCall)
    /\ UNCHANGED <<nextId, granted, ran>>

\* consume compares tenant, requester and fingerprint, which are all bound by
\* the request, and the status.
Matches(c, row) == row = [status |-> "approved", req |-> c.req]

Consume(h) ==
    /\ call[h].kind = "consume"
    /\ LET c  == call[h]
           ok == Matches(c, snap[h][c.id])
       IN  \/ /\ ~ok
              /\ UNCHANGED <<rows, granted>>
              /\ Return(h, NoCall)
           \/ /\ ok /\ c.id \in late
              /\ rows' = [snap[h] EXCEPT ![c.id].status = "expired"]
              /\ UNCHANGED granted
              /\ Return(h, NoCall)
           \/ /\ ok /\ c.id \notin late
              /\ rows' = [snap[h] EXCEPT ![c.id].status = "consumed"]
              /\ granted' = [granted EXCEPT ![c.id] = IF @ = 0 THEN 1 ELSE 2]
              /\ Return(h, [kind |-> "run", req |-> c.req, id |-> c.id])
    /\ UNCHANGED <<nextId, decided, ran>>

-----------------------------------------------------------------------------
(* ToolRegistry.execute and ToolPolicyMiddleware.evaluate.                 *)

\* A permitted tool call that needs no approval runs ...
Pass(h, r) ==
    /\ call[h] = NoCall
    /\ r \in Permitted /\ ~NeedsApproval(r)
    /\ call' = [call EXCEPT ![h] = [kind |-> "run", req |-> r, id |-> 0]]
    /\ UNCHANGED <<ledgerVars, snap, lock, histVars>>

\* ... one without an approval_id asks for an approval, and one with an
\* approval_id tries to consume it.
Evaluate(h, r) ==
    /\ r \in Permitted /\ NeedsApproval(r)
    /\ \/ Begin(h, [kind |-> "request", req |-> r])
       \/ \E i \in Ids : Begin(h, [kind |-> "consume", req |-> r, id |-> i])

\* A user of the API or of the command line decides.
Answer(h) ==
    \E i \in Ids, u \in Users, a \in BOOLEAN, t \in Tenants \cup {AnyTenant} :
        Begin(h, [kind |-> "decide", id |-> i, user |-> u, approve |-> a, tenant |-> t])

\* The tool runs after evaluate has returned.
Run(h) ==
    /\ call[h].kind = "run"
    /\ ran' = ran \cup {[req |-> call[h].req, id |-> call[h].id]}
    /\ call' = [call EXCEPT ![h] = NoCall]
    /\ UNCHANGED <<ledgerVars, snap, lock, decided, granted>>

Expire(i) ==
    /\ rows[i] # NoRow /\ i \notin late
    /\ late' = late \cup {i}
    /\ UNCHANGED <<rows, nextId, callVars, histVars>>

\* A process dies; its lock goes with it, the file is replaced atomically.
Crash(p) ==
    /\ \E h \in Threads : ProcessOf[h] = p /\ call[h] # NoCall
    /\ call' = [h \in Threads |-> IF ProcessOf[h] = p THEN NoCall ELSE call[h]]
    /\ snap' = [h \in Threads |-> IF ProcessOf[h] = p THEN NoRows ELSE snap[h]]
    /\ lock' = [lock EXCEPT ![p] = NoThread]
    /\ UNCHANGED <<ledgerVars, histVars>>

Next ==
    \/ \E h \in Threads : \/ \E r \in Requests : Pass(h, r) \/ Evaluate(h, r)
                          \/ Answer(h) \/ Request(h) \/ Decide(h) \/ Consume(h) \/ Run(h)
    \/ \E i \in Ids : Expire(i)
    \/ \E p \in Processes : Crash(p)

Spec == Init /\ [][Next]_vars

-----------------------------------------------------------------------------
(* Properties.                                                             *)

\* A thread inside a call on the ledger holds the lock of its process.
LockHeld == \A h \in Threads : call[h] \in LockCalls => lock[ProcessOf[h]] = h

TypeOK ==
    /\ rows \in Ledgers
    /\ late \subseteq Ids
    /\ nextId \in 1 .. MaxIds + 1
    /\ call \in [Threads -> Calls]
    /\ snap \in [Threads -> Ledgers]
    /\ lock \in [Processes -> Threads \cup {NoThread}]
    /\ decided \subseteq [id : Ids, req : Requests, by : Users]
    /\ granted \in [Ids -> 0 .. 2]
    /\ ran \subseteq [req : Requests, id : Ids \cup {0}]
    /\ LockHeld

\* A tool that writes outside runs only after another user has approved exactly
\* this request: same tenant, user, review run, tool and arguments (README).
WritesAreGranted ==
    \A x \in ran : AccessOf[x.req] = "external_write" =>
        \E d \in decided : d.id = x.id /\ d.req = x.req /\ d.by # UserOf[x.req]

\* An approved grant is consumed at most once (ToolApprovalStore).
SingleUse == \A i \in Ids : granted[i] <= 1

Ledger == INSTANCE ApprovalLedger WITH phase <- [i \in Ids |-> rows[i].status]

\* A decision, once made, stands; no row is lost; a grant is spent once.
ImplementsLedger == Ledger!Spec
=============================================================================
