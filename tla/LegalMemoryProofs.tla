-------------------------- MODULE LegalMemoryProofs --------------------------
(***************************************************************************)
(* Proofs about LegalMemory.  Any caller may overwrite the table with an   *)
(* older copy at any time, so no invariant of the table alone is           *)
(* inductive: what is proved of the table is proved of every copy a caller *)
(* still holds, relative to approvals, which only grow.                    *)
(***************************************************************************)
EXTENDS LegalMemory, FiniteSetTheorems, TLAPS

Approvals == [id : Ids, advice : Findings]

\* What holds of memory i in whatever copy of the table it is found.
SoundMemory(m, i, A) ==
    /\ m \in Memories \cup {Absent}
    /\ m.status \in Trusted \cup {"stale"} =>
         /\ m.approved \in Findings
         /\ RequiresApproval(m.approved) => [id |-> i, advice |-> m.approved] \in A
    /\ m.status = "proposed" => m.proposed \in Findings
    /\ m.human => \E x \in A : x.id = i
    /\ \A f \in {m.proposed, m.approved} \ {None} : TopicOf[f] = i.topic

Sound(T, A) ==
    /\ T \in Tables
    /\ \A i \in Ids : SoundMemory(T[i], i, A)
    /\ Backend = "file" => Cardinality(Present(T)) <= MaxEntries

IInv ==
    /\ archive \subseteq Ids
    /\ work \in [Callers -> Busy \cup {Idle}]
    /\ ended \subseteq Runs
    /\ approvals \subseteq Approvals
    /\ Sound(table, approvals)
    /\ \A h \in Callers : work[h] # Idle => Sound(work[h].copy, approvals)

-----------------------------------------------------------------------------
(* Memories and tables.                                                    *)

\* An absent memory is sound, and its id has no status of a stored one.
LEMMA AbsentSound ==
    ASSUME NEW i \in Ids, NEW A
    PROVE  SoundMemory(Absent, i, A)
  BY DEF SoundMemory, Absent, Trusted

\* Approvals only add to what is sound.
LEMMA MoreApprovals ==
    ASSUME NEW T, NEW A, NEW B, Sound(T, A), A \subseteq B
    PROVE  Sound(T, B)
<1> SUFFICES ASSUME NEW i \in Ids, SoundMemory(T[i], i, A)
             PROVE  SoundMemory(T[i], i, B)
  BY DEF Sound
<1> QED
  BY DEF SoundMemory

\* A finding creates or reinforces a memory of its own topic and keeps it sound.
LEMMA WrittenSound ==
    ASSUME NEW m, NEW i \in Ids, NEW A, NEW f \in Findings,
           SoundMemory(m, i, A), TopicOf[f] = i.topic
    PROVE  SoundMemory(Written(m, f), i, A) /\ Written(m, f) \in Memories
<1> USE MemoryAssumption
<1>1. CASE m = Absent
  <2>1. CASE RequiresApproval(f)
    <3>1. Written(m, f) = [status |-> "proposed", proposed |-> f, approved |-> None,
                           human |-> FALSE]
      BY <1>1, <2>1 DEF Written, Absent
    <3> QED
      BY <3>1 DEF SoundMemory, Memories, Statuses, Trusted
  <2>2. CASE ~RequiresApproval(f)
    <3>1. Written(m, f) = [status |-> "active", proposed |-> None, approved |-> f,
                           human |-> FALSE]
      BY <1>1, <2>2 DEF Written, Absent
    <3> QED
      BY <2>2, <3>1 DEF SoundMemory, Memories, Statuses, Trusted
  <2> QED
    BY <2>1, <2>2
<1>2. CASE m # Absent
  <2>1. m \in Memories
    BY <1>2 DEF SoundMemory
  <2>2. CASE RequiresApproval(f)
    <3>1. Written(m, f) = [m EXCEPT !.proposed = f, !.approved = m.approved]
      BY <1>2, <2>2 DEF Written
    <3> QED
      BY <2>1, <3>1 DEF SoundMemory, Memories
  <2>3. CASE ~RequiresApproval(f)
    <3>1. Written(m, f) = [m EXCEPT !.proposed = m.proposed, !.approved = f]
      BY <1>2, <2>3 DEF Written
    <3> QED
      BY <2>1, <2>3, <3>1 DEF SoundMemory, Memories
  <2> QED
    BY <2>2, <2>3
<1> QED
  BY <1>1, <1>2

\* What a run writes into a sound table is sound, memory by memory.
LEMMA ConsolidatedSound ==
    ASSUME NEW T, NEW A, NEW r \in Runs, NEW w \in Writings(T, r), Sound(T, A),
           NEW i \in Ids
    PROVE  SoundMemory(Consolidated(T, w)[i], i, A)
<1>1. w[i] \in Findings \cup {None} /\ (w[i] # None => i \in Targets(T, Id(w[i])))
  BY DEF Writings
<1>2. Consolidated(T, w)[i] = IF w[i] = None THEN T[i] ELSE Written(T[i], w[i])
  BY DEF Consolidated
<1>3. SoundMemory(T[i], i, A)
  BY DEF Sound
<1>4. CASE w[i] # None
  <2>1. w[i] \in Findings /\ i.topic = TopicOf[w[i]]
    BY <1>1, <1>4 DEF Targets, Matches, Id
  <2> QED
    BY <1>2, <1>3, <1>4, <2>1, WrittenSound
<1> QED
  BY <1>2, <1>3, <1>4

\* A transition of one present memory leaves the table as full as it is.
LEMMA TransitionSound ==
    ASSUME NEW T, NEW A, NEW B, NEW i \in Ids, NEW m \in Memories,
           Sound(T, A), A \subseteq B, T[i].status # "absent", SoundMemory(m, i, B)
    PROVE  Sound([T EXCEPT ![i] = m], B)
<1> DEFINE U == [T EXCEPT ![i] = m]
<1>1. U \in Tables
  BY DEF Sound, Tables
<1>2. ASSUME NEW j \in Ids
      PROVE  SoundMemory(U[j], j, B)
  <2>1. SoundMemory(T[j], j, B)
    BY MoreApprovals DEF Sound
  <2> QED
    BY <2>1 DEF Sound, Tables
<1>3. Present(U) = Present(T)
  BY DEF Sound, Tables, Present, Memories, Statuses
<1> QED
  BY <1>1, <1>2, <1>3 DEF Sound

-----------------------------------------------------------------------------
(* Steps.                                                                  *)

\* A caller that has read the table and holds a sound copy of its own.
LEMMA Begun ==
    ASSUME IInv, NEW h \in Callers, NEW W \in Busy,
           work' = [work EXCEPT ![h] = W], UNCHANGED <<table, archive>>,
           ended' \subseteq Runs, approvals \subseteq approvals',
           approvals' \subseteq Approvals, Sound(W.copy, approvals')
    PROVE  IInv'
<1>1. work' \in [Callers -> Busy \cup {Idle}]
  BY DEF IInv
<1>2. Sound(table, approvals)'
  BY MoreApprovals DEF IInv
<1>3. ASSUME NEW g \in Callers, work'[g] # Idle
      PROVE  Sound(work'[g].copy, approvals')
  <2>1. CASE g = h
    BY <2>1 DEF IInv
  <2>2. CASE g # h
    <3>1. work'[g] = work[g]
      BY <2>2 DEF IInv
    <3>2. Sound(work[g].copy, approvals)
      BY <1>3, <3>1 DEF IInv
    <3> QED
      BY <3>1, <3>2, MoreApprovals
  <2> QED
    BY <2>1, <2>2
<1> QED
  BY <1>1, <1>2, <1>3 DEF IInv

\* ... in particular a call that goes straight to save the copy T.
LEMMA SavingBegun ==
    ASSUME IInv, NEW h \in Callers, NEW T, ToSave(h, T), approvals \subseteq approvals',
           approvals' \subseteq Approvals, Sound(T, approvals')
    PROVE  IInv'
<1> DEFINE W == [phase |-> "save", copy |-> T, out |-> {}, previous |-> {}]
<1>1. W \in Busy
  BY DEF Busy, Sound
<1>2. work' = [work EXCEPT ![h] = W] /\ UNCHANGED <<table, archive, ended>>
  BY DEF ToSave
<1>3. ended' \subseteq Runs
  BY <1>2 DEF IInv
<1> HIDE DEF W
<1>4. W.copy = T
  BY DEF W
<1> QED
  BY <1>1, <1>2, <1>3, <1>4, Begun

\* A transition to a sound memory m.
LEMMA TransitionBegun ==
    ASSUME IInv, NEW h \in Callers, NEW i \in Ids, NEW from, NEW m \in Memories,
           from \subseteq Statuses, Transition(h, i, from, m),
           approvals \subseteq approvals', approvals' \subseteq Approvals,
           SoundMemory(m, i, approvals')
    PROVE  IInv'
<1>1. table[i].status # "absent" /\ ToSave(h, [table EXCEPT ![i] = m])
  BY DEF Transition, Statuses
<1>2. Sound([table EXCEPT ![i] = m], approvals')
  BY <1>1, TransitionSound DEF IInv
<1> QED
  BY <1>1, <1>2, SavingBegun

LEMMA InitIInv == Init => IInv
<1> SUFFICES ASSUME Init PROVE IInv
  OBVIOUS
<1>1. table = [i \in Ids |-> Absent] /\ table \in Tables
  BY DEF Init, Tables
<1>2. Present(table) = {}
  BY <1>1 DEF Present, Absent
<1>3. Cardinality(Present(table)) <= MaxEntries
  BY <1>2, FS_EmptySet, MemoryAssumption
<1>4. \A i \in Ids : SoundMemory(table[i], i, approvals)
  BY <1>1, AbsentSound
<1>5. Sound(table, approvals)
  BY <1>1, <1>3, <1>4 DEF Sound
<1> QED
  BY <1>5 DEF Init, IInv, Idle, Busy

LEMMA ConsolidateIInv ==
    ASSUME IInv, NEW h \in Callers, NEW r \in Runs, Consolidate(h, r)
    PROVE  IInv'
<1>0. PICK w \in Writings(table, r) :
        LET T == Consolidated(table, w)
        IN  \E K \in Kept(T) :
              work' = [work EXCEPT ![h] =
                [phase    |-> IF K = Present(T) THEN "save" ELSE "readArchive",
                 copy     |-> [i \in Ids |-> IF i \in K THEN T[i] ELSE Absent],
                 out      |-> Present(T) \ K,
                 previous |-> {}]]
  BY DEF Consolidate
<1>1. PICK K \in Kept(Consolidated(table, w)) :
        work' = [work EXCEPT ![h] =
          [phase    |-> IF K = Present(Consolidated(table, w)) THEN "save" ELSE "readArchive",
           copy     |-> [i \in Ids |-> IF i \in K THEN Consolidated(table, w)[i] ELSE Absent],
           out      |-> Present(Consolidated(table, w)) \ K,
           previous |-> {}]]
  BY <1>0
<1> DEFINE T == Consolidated(table, w)
           C == [i \in Ids |-> IF i \in K THEN T[i] ELSE Absent]
           W == [phase    |-> IF K = Present(T) THEN "save" ELSE "readArchive",
                 copy     |-> C,
                 out      |-> Present(T) \ K,
                 previous |-> {}]
<1>2. \A i \in Ids : SoundMemory(T[i], i, approvals)
  BY ConsolidatedSound DEF IInv
<1>3. K \subseteq Present(T) /\ Cardinality(K) <= MaxEntries /\ Present(T) \subseteq Ids
  <2>1. K \in IF Cardinality(Present(T)) <= MaxEntries THEN {Present(T)}
              ELSE {L \in SUBSET Present(T) : Cardinality(L) = MaxEntries}
    BY DEF Kept
  <2>2. CASE Cardinality(Present(T)) <= MaxEntries
    BY <2>1, <2>2 DEF Present
  <2>3. CASE ~(Cardinality(Present(T)) <= MaxEntries)
    <3>1. K \subseteq Present(T) /\ Cardinality(K) = MaxEntries
      BY <2>1, <2>3
    <3>2. MaxEntries <= MaxEntries
      BY MemoryAssumption
    <3> QED
      BY <3>1, <3>2 DEF Present
  <2> QED
    BY <2>2, <2>3
<1>4. \A i \in Ids : C[i] \in Memories \cup {Absent} /\ SoundMemory(C[i], i, approvals)
  <2> SUFFICES ASSUME NEW i \in Ids
               PROVE  C[i] \in Memories \cup {Absent} /\ SoundMemory(C[i], i, approvals)
    OBVIOUS
  <2>1. CASE i \in K
    BY <1>2, <2>1 DEF SoundMemory
  <2>2. CASE i \notin K
    BY <2>2, AbsentSound
  <2> QED
    BY <2>1, <2>2
<1>5. Present(C) = K
  BY <1>3 DEF Present, Absent
<1>6. Sound(C, approvals)
  <2>1. C \in Tables
    BY <1>4 DEF Tables
  <2> HIDE DEF C
  <2> QED
    BY <1>3, <1>4, <1>5, <2>1 DEF Sound
<1>7. W \in Busy /\ W.copy = C
  BY <1>3, <1>6 DEF Busy, Sound
<1>8. work' = [work EXCEPT ![h] = W]
  BY <1>1
<1>9. /\ UNCHANGED <<table, archive, approvals>>
      /\ ended' \subseteq Runs
      /\ approvals' \subseteq Approvals
  BY DEF Consolidate, IInv
<1> HIDE DEF W, C
<1> QED
  BY <1>6, <1>7, <1>8, <1>9, Begun

LEMMA MarkUsedIInv ==
    ASSUME IInv, NEW h \in Callers, MarkUsed(h)
    PROVE  IInv'
<1>1. ToSave(h, table) /\ UNCHANGED approvals
  BY DEF MarkUsed
<1>2. Sound(table, approvals') /\ approvals' \subseteq Approvals
  BY <1>1 DEF IInv
<1> QED
  BY <1>1, <1>2, SavingBegun

\* The archive steps leave the caller's copy alone.
LEMMA ReadArchiveIInv ==
    ASSUME IInv, NEW h \in Callers, ReadArchive(h)
    PROVE  IInv'
<1> DEFINE W == [work[h] EXCEPT !.phase = "writeArchive", !.previous = archive]
<1>1. work[h] \in Busy /\ work[h] # Idle
  BY DEF ReadArchive, IInv, Idle
<1>2. W \in Busy /\ W.copy = work[h].copy
  BY <1>1 DEF Busy, IInv
<1>3. work' = [work EXCEPT ![h] = W]
  BY DEF ReadArchive, IInv
<1>4. UNCHANGED <<table, archive, ended, approvals>>
  BY DEF ReadArchive
<1>5. Sound(W.copy, approvals') /\ ended' \subseteq Runs /\ approvals' \subseteq Approvals
  BY <1>1, <1>2, <1>4 DEF IInv
<1> HIDE DEF W
<1> QED
  BY <1>2, <1>3, <1>4, <1>5, Begun

LEMMA WriteArchiveIInv ==
    ASSUME IInv, NEW h \in Callers, WriteArchive(h)
    PROVE  IInv'
<1>1. work[h] \in Busy /\ work[h] # Idle
  BY DEF WriteArchive, IInv, Idle
<1>2. archive' \subseteq Ids
  BY <1>1 DEF WriteArchive, Busy
<1>3. work' = [work EXCEPT ![h].phase = "save"] /\ UNCHANGED <<table, ended, approvals>>
  BY DEF WriteArchive
<1>4. work' \in [Callers -> Busy \cup {Idle}]
  BY <1>1, <1>3 DEF Busy, IInv
<1>5. ASSUME NEW g \in Callers, work'[g] # Idle
      PROVE  Sound(work'[g].copy, approvals')
  <2>1. work'[g].copy = work[g].copy /\ work[g] # Idle
    BY <1>1, <1>3, <1>5 DEF Busy, IInv
  <2> QED
    BY <1>3, <2>1 DEF IInv
<1> QED
  BY <1>2, <1>3, <1>4, <1>5 DEF IInv

\* Saving replaces memories of a sound table by memories of a sound copy.
LEMMA StoredSound ==
    ASSUME IInv, NEW T, Sound(T, approvals)
    PROVE  Sound(Stored(T), approvals)
<1>1. CASE Backend = "file"
  BY <1>1 DEF Stored
<1>2. CASE Backend # "file"
  <2>1. PICK tenants : Stored(T) =
          [i \in Ids |-> IF i.topic.tenant \in tenants THEN T[i] ELSE table[i]]
    BY <1>2 DEF Stored
  <2>2. \A i \in Ids : Stored(T)[i] \in {T[i], table[i]}
    BY <2>1
  <2>3. Stored(T) \in Tables
    BY <2>1, <2>2 DEF Tables, IInv, Sound
  <2> QED
    BY <1>2, <2>2, <2>3 DEF IInv, Sound
<1> QED
  BY <1>1, <1>2

LEMMA SaveIInv ==
    ASSUME IInv, NEW h \in Callers, Save(h)
    PROVE  IInv'
<1>1. work[h] # Idle
  BY DEF Save, Idle
<1>2. Sound(work[h].copy, approvals)
  BY <1>1 DEF IInv
<1>3. Sound(Stored(work[h].copy), approvals)
  BY <1>2, StoredSound
<1>4. table' = Stored(work[h].copy) /\ work' = [work EXCEPT ![h] = Idle]
      /\ UNCHANGED <<archive, ended, approvals>>
  BY DEF Save
<1>5. Sound(table', approvals')
  BY <1>3, <1>4
<1>6. \A g \in Callers : work'[g] # Idle => work'[g] = work[g]
  BY <1>4 DEF IInv
<1> QED
  BY <1>4, <1>5, <1>6 DEF IInv

LEMMA CrashIInv ==
    ASSUME IInv, NEW h \in Callers, Crash(h)
    PROVE  IInv'
<1>1. \A g \in Callers : work'[g] # Idle => work'[g] = work[g]
  BY DEF Crash, IInv
<1> QED
  BY <1>1 DEF Crash, IInv

\* The transitions: what the clerk writes is sound once the approval counts.
LEMMA ClerkIInv ==
    ASSUME IInv, NEW h \in Callers, NEW i \in Ids,
           \/ Approve(h, i) \/ Reject(h, i) \/ Activate(h, i)
           \/ MarkStale(h, i) \/ Archive(h, i)
    PROVE  IInv'
<1> DEFINE m == table[i]
<1>1. SoundMemory(m, i, approvals) /\ approvals \subseteq Approvals
  BY DEF IInv, Sound
<1>2. m.status \in Statuses => m \in Memories
  BY <1>1 DEF SoundMemory, Absent, Statuses
<1>3. CASE Approve(h, i)
  <2> DEFINE n == [m EXCEPT !.status = "approved", !.human = TRUE, !.approved = m.proposed]
             B == approvals \cup {[id |-> i, advice |-> m.proposed]}
  <2>1. Transition(h, i, {"proposed"}, n) /\ approvals' = B
    BY <1>3 DEF Approve
  <2>2. m \in Memories /\ m.status = "proposed" /\ m.proposed \in Findings
    BY <1>1, <1>2, <2>1 DEF Transition, SoundMemory, Statuses
  <2>3. n \in Memories /\ SoundMemory(n, i, B)
    <3>1. n \in Memories /\ n.status = "approved" /\ n.human
          /\ n.approved = m.proposed /\ n.proposed = m.proposed
      BY <2>2 DEF Memories, Statuses
    <3>2. [id |-> i, advice |-> n.approved] \in B
      BY <3>1
    <3> HIDE DEF n
    <3> QED
      BY <1>1, <2>2, <3>1, <3>2 DEF SoundMemory
  <2>4. B \subseteq Approvals
    BY <1>1, <2>2 DEF Approvals
  <2> HIDE DEF n, m
  <2>5. approvals \subseteq B /\ {"proposed"} \subseteq Statuses
    BY DEF Statuses
  <2> QED
    BY <2>1, <2>3, <2>4, <2>5, TransitionBegun
<1>4. CASE Reject(h, i)
  <2> DEFINE n == [m EXCEPT !.status = "rejected", !.human = FALSE, !.approved = None]
             from == {"proposed", "approved"}
  <2>1. Transition(h, i, from, n) /\ UNCHANGED approvals
    BY <1>4 DEF Reject
  <2>2. m \in Memories /\ from \subseteq Statuses
    BY <1>2, <2>1 DEF Transition, Statuses
  <2>3. n \in Memories /\ SoundMemory(n, i, approvals)
    BY <1>1, <2>2 DEF SoundMemory, Memories, Statuses, Trusted
  <2> HIDE DEF n, m, from
  <2> QED
    BY <1>1, <2>1, <2>2, <2>3, TransitionBegun
<1>5. CASE Activate(h, i)
  <2> DEFINE n == [m EXCEPT !.status = "active"]
             from == {"approved", "stale"}
  <2>1. Transition(h, i, from, n) /\ UNCHANGED approvals
    BY <1>5 DEF Activate
  <2>2. m \in Memories /\ from \subseteq Statuses /\ m.status \in from
    BY <1>2, <2>1 DEF Transition, Statuses
  <2>3. n \in Memories /\ SoundMemory(n, i, approvals)
    BY <1>1, <2>2 DEF SoundMemory, Memories, Statuses, Trusted
  <2> HIDE DEF n, m, from
  <2> QED
    BY <1>1, <2>1, <2>2, <2>3, TransitionBegun
<1>6. CASE MarkStale(h, i)
  <2> DEFINE n == [m EXCEPT !.status = "stale"]
             from == {"active"}
  <2>1. Transition(h, i, from, n) /\ UNCHANGED approvals
    BY <1>6 DEF MarkStale
  <2>2. m \in Memories /\ from \subseteq Statuses /\ m.status \in from
    BY <1>2, <2>1 DEF Transition, Statuses
  <2>3. n \in Memories /\ SoundMemory(n, i, approvals)
    BY <1>1, <2>2 DEF SoundMemory, Memories, Statuses, Trusted
  <2> HIDE DEF n, m, from
  <2> QED
    BY <1>1, <2>1, <2>2, <2>3, TransitionBegun
<1>7. CASE Archive(h, i)
  <2> DEFINE n == [m EXCEPT !.status = "archived"]
             from == {"active", "stale", "rejected"}
  <2>1. Transition(h, i, from, n) /\ UNCHANGED approvals
    BY <1>7 DEF Archive
  <2>2. m \in Memories /\ from \subseteq Statuses
    BY <1>2, <2>1 DEF Transition, Statuses
  <2>3. n \in Memories /\ SoundMemory(n, i, approvals)
    BY <1>1, <2>2 DEF SoundMemory, Memories, Statuses, Trusted
  <2> HIDE DEF n, m, from
  <2> QED
    BY <1>1, <2>1, <2>2, <2>3, TransitionBegun
<1> QED
  BY <1>3, <1>4, <1>5, <1>6, <1>7

LEMMA StepIInv ==
    ASSUME IInv, [Next]_vars
    PROVE  IInv'
<1>1. ASSUME NEW h \in Workers,
             \/ MarkUsed(h) \/ ReadArchive(h) \/ WriteArchive(h)
             \/ \E r \in Runs : Consolidate(h, r)
      PROVE  IInv'
  <2>1. h \in Callers
    BY DEF Callers
  <2> QED
    BY <1>1, <2>1, MarkUsedIInv, ReadArchiveIInv, WriteArchiveIInv, ConsolidateIInv
<1>2. ASSUME NEW h \in Clerks, NEW i \in Ids,
             \/ Approve(h, i) \/ Reject(h, i) \/ Activate(h, i)
             \/ MarkStale(h, i) \/ Archive(h, i)
      PROVE  IInv'
  BY <1>2, ClerkIInv DEF Callers
<1>3. ASSUME NEW h \in Callers, Save(h) \/ Crash(h)
      PROVE  IInv'
  BY <1>3, SaveIInv, CrashIInv
<1>4. CASE UNCHANGED vars
  BY <1>4 DEF vars, IInv
<1> QED
  BY <1>1, <1>2, <1>3, <1>4 DEF Next

LEMMA Invariance == Spec => []IInv
  BY InitIInv, StepIInv, PTL DEF Spec

-----------------------------------------------------------------------------
(* Evictions, when one process reviews.                                    *)

OneWorker == \A g, h \in Workers : g = h

\* Only a worker evicts, and nothing is stored before its evictions are exported.
Exported ==
    \A h \in Callers : work[h] # Idle =>
        /\ work[h].phase = "save" => work[h].out \subseteq archive
        /\ h \in Clerks => work[h].out = {}

\* A caller begins a call, or goes on with one, and the archive stays.
LEMMA ExportedWork ==
    ASSUME IInv, Exported, NEW h \in Callers, NEW W \in Busy \cup {Idle},
           work' = [work EXCEPT ![h] = W], archive' = archive,
           W # Idle => /\ W.phase = "save" => W.out \subseteq archive
                       /\ h \in Clerks => W.out = {}
    PROVE  Exported'
<1> SUFFICES ASSUME NEW g \in Callers, work'[g] # Idle
             PROVE  /\ work'[g].phase = "save" => work'[g].out \subseteq archive'
                    /\ g \in Clerks => work'[g].out = {}
  BY DEF Exported
<1>1. CASE g = h
  BY <1>1 DEF IInv
<1>2. CASE g # h
  BY <1>2 DEF IInv, Exported
<1> QED
  BY <1>1, <1>2

LEMMA ExportedSave ==
    ASSUME IInv, IInv', Exported, NEW h \in Callers, NEW T, ToSave(h, T)
    PROVE  Exported'
<1> DEFINE W == [phase |-> "save", copy |-> T, out |-> {}, previous |-> {}]
<1>1. work' = [work EXCEPT ![h] = W] /\ archive' = archive
  BY DEF ToSave
<1>2. work'[h] = W /\ work'[h] \in Busy \cup {Idle}
  BY <1>1 DEF IInv
<1>3. W.out = {} /\ W \in Busy \cup {Idle}
  BY <1>2
<1> HIDE DEF W
<1> QED
  BY <1>1, <1>3, ExportedWork

LEMMA StepExported ==
    ASSUME OneWorker, IInv, IInv', Exported, [Next]_vars
    PROVE  Exported'
<1>1. ASSUME NEW h \in Workers, MarkUsed(h)
      PROVE  Exported'
  BY <1>1, ExportedSave DEF MarkUsed, Callers
<1>2. ASSUME NEW h \in Workers, NEW r \in Runs, Consolidate(h, r)
      PROVE  Exported'
  <2>1. PICK w \in Writings(table, r) :
          LET T == Consolidated(table, w)
          IN  \E K \in Kept(T) :
                work' = [work EXCEPT ![h] =
                  [phase    |-> IF K = Present(T) THEN "save" ELSE "readArchive",
                   copy     |-> [i \in Ids |-> IF i \in K THEN T[i] ELSE Absent],
                   out      |-> Present(T) \ K,
                   previous |-> {}]]
    BY <1>2 DEF Consolidate
  <2> DEFINE T == Consolidated(table, w)
  <2>2. PICK K, C : work' = [work EXCEPT ![h] =
                 [phase    |-> IF K = Present(T) THEN "save" ELSE "readArchive",
                  copy     |-> C, out |-> Present(T) \ K, previous |-> {}]]
    BY <2>1
  <2> DEFINE W == [phase    |-> IF K = Present(T) THEN "save" ELSE "readArchive",
                   copy     |-> C, out |-> Present(T) \ K, previous |-> {}]
  <2>3. h \in Callers /\ h \notin Clerks /\ archive' = archive
    BY <1>2, MemoryAssumption DEF Consolidate, Callers
  <2>4. W.phase = "save" => W.out = {}
    OBVIOUS
  <2>5. work' = [work EXCEPT ![h] = W]
    BY <2>2
  <2> HIDE DEF W
  <2>6. W \in Busy \cup {Idle}
    BY <2>3, <2>5 DEF IInv
  <2> QED
    BY <2>3, <2>4, <2>5, <2>6, ExportedWork
<1>3. ASSUME NEW h \in Workers, ReadArchive(h)
      PROVE  Exported'
  <2>1. h \in Callers /\ h \notin Clerks
    BY MemoryAssumption DEF Callers
  <2>2. work[h] \in Busy
    BY <1>3, <2>1 DEF ReadArchive, IInv, Idle
  <2> DEFINE W == [work[h] EXCEPT !.phase = "writeArchive", !.previous = archive]
  <2>3. W \in Busy /\ W.phase = "writeArchive"
    BY <2>2 DEF Busy, IInv
  <2>4. work' = [work EXCEPT ![h] = W] /\ archive' = archive
    BY <1>3, <2>1 DEF ReadArchive, IInv
  <2> HIDE DEF W
  <2> QED
    BY <2>1, <2>3, <2>4, ExportedWork
<1>4. ASSUME NEW h \in Workers, WriteArchive(h)
      PROVE  Exported'
  <2>1. h \in Callers /\ h \notin Clerks
    BY MemoryAssumption DEF Callers
  <2>2. work[h] \in Busy
    BY <1>4, <2>1 DEF WriteArchive, IInv, Idle
  <2>3. work' = [work EXCEPT ![h].phase = "save"] /\ archive' = work[h].previous \cup work[h].out
    BY <1>4 DEF WriteArchive
  <2>4. work'[h].out = work[h].out
    BY <2>1, <2>2, <2>3 DEF Busy, IInv
  <2>5. ASSUME NEW g \in Callers, g # h, work'[g] # Idle
        PROVE  work'[g].out = {}
    <3>1. g \in Clerks
      BY <2>5 DEF Callers, OneWorker
    <3> QED
      BY <2>3, <2>5, <3>1 DEF IInv, Exported
  <2> QED
    BY <2>1, <2>3, <2>4, <2>5 DEF Exported
<1>5. ASSUME NEW h \in Clerks, NEW i \in Ids,
             \/ Approve(h, i) \/ Reject(h, i) \/ Activate(h, i)
             \/ MarkStale(h, i) \/ Archive(h, i)
      PROVE  Exported'
  <2>1. PICK T : ToSave(h, T)
    BY <1>5 DEF Approve, Reject, Activate, MarkStale, Archive, Transition
  <2> QED
    BY <2>1, ExportedSave DEF Callers
<1>6. ASSUME NEW h \in Callers, Save(h) \/ Crash(h)
      PROVE  Exported'
  <2>1. work' = [work EXCEPT ![h] = Idle] /\ archive' = archive
    BY <1>6 DEF Save, Crash
  <2> QED
    BY <2>1, ExportedWork
<1>7. CASE UNCHANGED vars
  BY <1>7 DEF vars, Exported
<1> QED
  BY <1>1, <1>2, <1>3, <1>4, <1>5, <1>6, <1>7 DEF Next

-----------------------------------------------------------------------------
(* Theorems.                                                               *)

\* The variables keep their types, whichever copy a caller writes back.
THEOREM MemoryTypeCorrect == Spec => []TypeOK
<1>1. IInv => TypeOK
  BY DEF IInv, TypeOK, Sound, Approvals
<1> QED
  BY <1>1, Invariance, PTL

\* Recall returns no unconfirmed advice of a finding that requires a person's
\* approval, and no memory is marked as approved by a person without that
\* (_requires_human_approval, _transition): for every number of workers and
\* clerks without a lock, every crash, and both backends.
THEOREM RecallNeedsApproval == Spec => []RecallIsApproved
<1>1. IInv => RecallIsApproved
  BY DEF IInv, Sound, SoundMemory, RecallIsApproved
<1> QED
  BY <1>1, Invariance, PTL

\* The advice of a memory comes from findings of its own tenant and subject
\* (_memory_key).
THEOREM AdviceIsOwn == Spec => []OwnAdvice
<1>1. IInv => OwnAdvice
  BY DEF IInv, Sound, SoundMemory, OwnAdvice
<1> QED
  BY <1>1, Invariance, PTL

\* In a file the table never outgrows max_entries (_evict_if_needed), even when
\* a caller writes back a copy from before an eviction.
THEOREM CapacityKept ==
    ASSUME Backend = "file"
    PROVE  Spec => []CapacityBounded
<1>1. IInv => CapacityBounded
  BY DEF IInv, Sound, CapacityBounded
<1> QED
  BY <1>1, Invariance, PTL

\* One process that reviews never stores a table without the memories it has
\* evicted before they are in the archive (_archive_evicted), whatever the clerks
\* do and whenever it dies.
THEOREM EvictionsAreExported ==
    ASSUME OneWorker
    PROVE  Spec => []EvictedIsArchived
<1>1. Init => Exported
  BY DEF Init, Exported
<1>2. IInv /\ IInv' /\ Exported /\ [Next]_vars => Exported'
  BY StepExported
<1>3. IInv /\ Exported => EvictedIsArchived
  BY DEF Exported, EvictedIsArchived, Idle
<1> QED
  BY <1>1, <1>2, <1>3, Invariance, PTL DEF Spec
=============================================================================
