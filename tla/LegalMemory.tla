----------------------------- MODULE LegalMemory -----------------------------
(***************************************************************************)
(* The long-term memory of the reviews (memory/manager.py): what workers   *)
(* make of the findings of a run, and what people decide about it at the   *)
(* command line.  Every call reads the whole table, changes its copy and   *)
(* writes the whole table back; no lock keeps the calls of different       *)
(* processes, or of the threads of one, apart.                             *)
(***************************************************************************)
EXTENDS Naturals, FiniteSets

CONSTANTS
    Findings,    \* findings with evidence that no rule blocks
    RunOf,       \* the review run each belongs to
    TopicOf,     \* its tenant and its subject: contract type, risk, summary
    Flagged,     \* findings with requires_human_review
    HighRisk,    \* findings with risk_level "high"
    LlmOnly,     \* findings with the rule hit llm_semantic_candidate
    Injected,    \* runs in whose contract an injection was detected
    Tenants, Subjects,
    MaxEntries,  \* policy.max_entries
    Workers,     \* callers that end review runs
    Clerks,      \* callers that decide about memories
    Backend,     \* "file" or "postgres"
    None

Runs == {RunOf[f] : f \in Findings}

ASSUME MemoryAssumption ==
    /\ \A f \in Findings : TopicOf[f] \in [tenant : Tenants, subject : Subjects]
    /\ \A f, g \in Findings : RunOf[f] = RunOf[g] => TopicOf[f].tenant = TopicOf[g].tenant
    /\ None \notin Findings
    /\ MaxEntries \in Nat \ {0}
    /\ Workers \cap Clerks = {}
    /\ Backend \in {"file", "postgres"}

VARIABLES
    table,      \* the stored memories
    archive,    \* memories exported to memory_archive.jsonl
    work,       \* where each caller is, and the copies it works on
    ended,      \* runs that have been consolidated, each of them once
    approvals   \* history: what a person has approved, memory by memory

vars == <<table, archive, work, ended, approvals>>

Callers  == Workers \cup Clerks
Statuses == {"proposed", "approved", "active", "rejected", "stale", "archived"}
Trusted  == {"approved", "active"}       \* what recall returns

\* _requires_human_approval.
RequiresApproval(f) == f \in Flagged \cup HighRisk \cup LlmOnly \/ RunOf[f] \in Injected

\* The memory a finding creates has an id of its own run; findings of a run
\* with one key and one bucket create one memory.
Bucket(f) == IF RequiresApproval(f) THEN "pending" ELSE "trusted"
Id(f)     == [run |-> RunOf[f], topic |-> TopicOf[f], bucket |-> Bucket(f)]
Ids       == {Id(f) : f \in Findings}

\* Advice is named by the finding that suggests it.
Memories  == [status : Statuses, proposed : Findings \cup {None},
              approved : Findings \cup {None}, human : BOOLEAN]
Absent    == [status |-> "absent", proposed |-> None, approved |-> None, human |-> FALSE]
Tables    == [Ids -> Memories \cup {Absent}]
Present(T) == {i \in Ids : T[i].status # "absent"}

Idle   == [phase |-> "idle"]
Busy   == [phase : {"readArchive", "writeArchive", "save"}, copy : Tables,
           out : SUBSET Ids, previous : SUBSET Ids]

Init ==
    /\ table = [i \in Ids |-> Absent]
    /\ archive = {}
    /\ work = [h \in Callers |-> Idle]
    /\ ended = {}
    /\ approvals = {}

-----------------------------------------------------------------------------
(* save                                                                    *)

\* The file is replaced; in the database the memories of the copy are inserted
\* or updated and the others of the tenants that occur in it are deleted.
Stored(T) ==
    IF Backend = "file" THEN T
    ELSE LET tenants == {i.topic.tenant : i \in Present(T)}
         IN  [i \in Ids |-> IF i.topic.tenant \in tenants THEN T[i] ELSE table[i]]

Save(h) ==
    /\ work[h].phase = "save"
    /\ table' = Stored(work[h].copy)
    /\ work' = [work EXCEPT ![h] = Idle]
    /\ UNCHANGED <<archive, ended, approvals>>

\* Caller h has read the table and is about to store the copy T.
ToSave(h, T) ==
    /\ work[h] = Idle
    /\ work' = [work EXCEPT ![h] = [phase |-> "save", copy |-> T, out |-> {},
                                    previous |-> {}]]
    /\ UNCHANGED <<table, archive, ended>>

-----------------------------------------------------------------------------
(* Workers: mark_used and consolidate_from_run, at the end of a run.       *)

\* mark_used counts uses, which only the ranking looks at, and writes the
\* table back if one of the memories the run has recalled is still trusted.
MarkUsed(h) ==
    /\ \E i \in Ids : table[i].status \in Trusted
    /\ ToSave(h, table)
    /\ UNCHANGED approvals

InBucket(status, bucket) ==
    status \in IF bucket = "pending" THEN {"proposed"} ELSE Trusted

\* Mutant of Matches: the key has no tenant.
Matches_AnyTenant(T, n) ==
    {i \in Ids : i.topic.subject = n.topic.subject /\ InBucket(T[i].status, n.bucket)}

\* The memories with the key and in the bucket of n; a new one has the id n.
Matches(T, n) == {i \in Ids : i.topic = n.topic /\ InBucket(T[i].status, n.bucket)}
Targets(T, n) == IF Matches(T, n) = {} THEN {n} ELSE Matches(T, n)

\* Which finding of the run is the last to write each memory.  The order of the
\* findings, and of the table where it holds several matches, is left open.
Writings(T, r) ==
    LET F == {f \in Findings : RunOf[f] = r}
    IN  {w \in [Ids -> F \cup {None}] :
           /\ \A i \in Ids : w[i] # None => i \in Targets(T, Id(w[i]))
           /\ \A f \in F : \E i \in Ids : w[i] # None /\ Id(w[i]) = Id(f)
           /\ \A i, j \in Ids : w[i] # None /\ w[j] # None /\ Id(w[i]) = Id(w[j]) => i = j}

\* Mutant of Written: the detected injections of a run are not looked at.
Written_Injected(m, f) ==
    LET asks == f \in Flagged \cup HighRisk \cup LlmOnly
        p    == IF asks THEN f ELSE m.proposed
        a    == IF asks THEN m.approved ELSE f
    IN  IF m = Absent
          THEN [status |-> IF asks THEN "proposed" ELSE "active",
                proposed |-> p, approved |-> a, human |-> FALSE]
          ELSE [m EXCEPT !.proposed = p, !.approved = a]

\* A memory is created, or reinforced: it takes the newer suggestion.
Written(m, f) ==
    LET p == IF RequiresApproval(f) THEN f ELSE m.proposed
        a == IF RequiresApproval(f) THEN m.approved ELSE f
    IN  IF m = Absent
          THEN [status |-> IF RequiresApproval(f) THEN "proposed" ELSE "active",
                proposed |-> p, approved |-> a, human |-> FALSE]
          ELSE [m EXCEPT !.proposed = p, !.approved = a]

Consolidated(T, w) == [i \in Ids |-> IF w[i] = None THEN T[i] ELSE Written(T[i], w[i])]

\* Mutant of Kept: one memory too many.
Kept_OneMore(T) ==
    IF Cardinality(Present(T)) <= MaxEntries + 1 THEN {Present(T)}
    ELSE {K \in SUBSET Present(T) : Cardinality(K) = MaxEntries + 1}

\* _evict_if_needed keeps max_entries of them; the ranking by retention score
\* is left open.
Kept(T) ==
    IF Cardinality(Present(T)) <= MaxEntries THEN {Present(T)}
    ELSE {K \in SUBSET Present(T) : Cardinality(K) = MaxEntries}

\* Mutant of Consolidate: the evicted memories are not exported.
Consolidate_NoExport(h, r) ==
    /\ work[h] = Idle /\ r \notin ended
    /\ \E w \in Writings(table, r) :
         LET T == Consolidated(table, w)
         IN  \E K \in Kept(T) :
               work' = [work EXCEPT ![h] =
                 [phase    |-> "save",
                  copy     |-> [i \in Ids |-> IF i \in K THEN T[i] ELSE Absent],
                  out      |-> Present(T) \ K,
                  previous |-> {}]]
    /\ ended' = ended \cup {r}
    /\ UNCHANGED <<table, archive, approvals>>

\* consolidate_from_run of a run with findings; one with none stores nothing.
Consolidate(h, r) ==
    /\ work[h] = Idle /\ r \notin ended
    /\ \E w \in Writings(table, r) :
         LET T == Consolidated(table, w)
         IN  \E K \in Kept(T) :
               work' = [work EXCEPT ![h] =
                 [phase    |-> IF K = Present(T) THEN "save" ELSE "readArchive",
                  copy     |-> [i \in Ids |-> IF i \in K THEN T[i] ELSE Absent],
                  out      |-> Present(T) \ K,
                  previous |-> {}]]
    /\ ended' = ended \cup {r}
    /\ UNCHANGED <<table, archive, approvals>>

\* _archive_evicted reads the archive and replaces it, before the table is saved.
ReadArchive(h) ==
    /\ work[h].phase = "readArchive"
    /\ work' = [work EXCEPT ![h].phase = "writeArchive", ![h].previous = archive]
    /\ UNCHANGED <<table, archive, ended, approvals>>

WriteArchive(h) ==
    /\ work[h].phase = "writeArchive"
    /\ archive' = work[h].previous \cup work[h].out
    /\ work' = [work EXCEPT ![h].phase = "save"]
    /\ UNCHANGED <<table, ended, approvals>>

-----------------------------------------------------------------------------
(* Clerks: the transitions of a memory.                                    *)

Transition(h, i, from, m) ==
    /\ table[i].status \in from
    /\ ToSave(h, [table EXCEPT ![i] = m])

\* Mutant of Approve: the status of the memory is not looked at.
Approve_Any(h, i) ==
    /\ Transition(h, i, Statuses,
         [table[i] EXCEPT !.status = "approved", !.human = TRUE, !.approved = table[i].proposed])
    /\ approvals' = approvals \cup {[id |-> i, advice |-> table[i].proposed]}

\* approve adopts the advice that is proposed by then.
Approve(h, i) ==
    /\ Transition(h, i, {"proposed"},
         [table[i] EXCEPT !.status = "approved", !.human = TRUE, !.approved = table[i].proposed])
    /\ approvals' = approvals \cup {[id |-> i, advice |-> table[i].proposed]}

Reject(h, i) ==
    /\ Transition(h, i, {"proposed", "approved"},
         [table[i] EXCEPT !.status = "rejected", !.human = FALSE, !.approved = None])
    /\ UNCHANGED approvals

Activate(h, i) ==
    /\ Transition(h, i, {"approved", "stale"}, [table[i] EXCEPT !.status = "active"])
    /\ UNCHANGED approvals

MarkStale(h, i) ==
    /\ Transition(h, i, {"active"}, [table[i] EXCEPT !.status = "stale"])
    /\ UNCHANGED approvals

Archive(h, i) ==
    /\ Transition(h, i, {"active", "stale", "rejected"}, [table[i] EXCEPT !.status = "archived"])
    /\ UNCHANGED approvals

\* A process dies and forgets its call; files are replaced atomically.
Crash(h) ==
    /\ work[h] # Idle
    /\ work' = [work EXCEPT ![h] = Idle]
    /\ UNCHANGED <<table, archive, ended, approvals>>

Next ==
    \/ \E h \in Workers : \/ MarkUsed(h) \/ ReadArchive(h) \/ WriteArchive(h)
                          \/ \E r \in Runs : Consolidate(h, r)
    \/ \E h \in Clerks, i \in Ids : \/ Approve(h, i) \/ Reject(h, i) \/ Activate(h, i)
                                    \/ MarkStale(h, i) \/ Archive(h, i)
    \/ \E h \in Callers : Save(h) \/ Crash(h)

Spec == Init /\ [][Next]_vars

-----------------------------------------------------------------------------
(* Properties.                                                             *)

TypeOK ==
    /\ table \in Tables
    /\ archive \subseteq Ids
    /\ work \in [Callers -> Busy \cup {Idle}]
    /\ ended \subseteq Runs
    /\ approvals \subseteq [id : Ids, advice : Findings]

\* Advice of a finding that requires a person's approval is recalled only after
\* a person has approved that very advice (ARCHITECTURE: nothing of high risk,
\* of an injected contract or of the model alone is recalled unconfirmed), and
\* nothing bears the mark of a person's approval without one.
RecallIsApproved ==
    \A i \in Ids :
        /\ table[i].status \in Trusted =>
             /\ table[i].approved \in Findings
             /\ RequiresApproval(table[i].approved) =>
                  [id |-> i, advice |-> table[i].approved] \in approvals
        /\ table[i].human => \E x \in approvals : x.id = i

\* What a memory says was found for its own tenant and its own subject.
OwnAdvice ==
    \A i \in Ids : \A f \in {table[i].proposed, table[i].approved} \ {None} :
        TopicOf[f] = i.topic

\* The table never outgrows max_entries, whoever writes which copy.
CapacityBounded == Cardinality(Present(table)) <= MaxEntries

\* A caller about to store a table without the memories it has evicted finds
\* them all in the archive (evicted memories stay auditable).
EvictedIsArchived ==
    \A h \in Callers : work[h].phase = "save" => work[h].out \subseteq archive
=============================================================================
