------------------------------ MODULE ReviewRun ------------------------------
(***************************************************************************)
(* One review of a contract: LegalReviewSupervisor.review leads the agents *)
(* through the run, and what comes of it is recorded in five places        *)
(* (memory, report, run record, session snapshot, event stream, and then   *)
(* the dashboard), one after the other and without a transaction.          *)
(*                                                                         *)
(* A finding is kept as what the agents decide by: its risk type and       *)
(* level, whether it has evidence, and the two marks it ends with.         *)
(* Nothing in the code tells a low risk from a medium one.                 *)
(***************************************************************************)
EXTENDS Naturals, FiniteSets

CONSTANTS
    Runs,         \* the runs of the contract: a first one and its retries
    RiskTypes,    \* KNOWN_RISK_TYPES
    RuleLevel,    \* level a rule gives its risk type
    RuleReview,   \* whether a rule asks for a person's review
    MaxClauses,   \* bound: clauses of the contract
    MaxActive,    \* bound: reviews under way at once (worker processes)
    MaxFaults     \* bound: reviews that die or raise an unexpected exception

Levels == {"high", "medium"}

ASSUME ReviewAssumption ==
    /\ RuleLevel \in [RiskTypes -> Levels]
    /\ RuleReview \in [RiskTypes -> BOOLEAN]
    /\ MaxClauses \in Nat /\ MaxActive \in Nat /\ MaxFaults \in Nat

VARIABLES
    at,         \* where review(r) is
    status,     \* run.status
    left,       \* clauses still to be reviewed
    injected,   \* run.mcp_context["injection"]["detected"]
    evidence,   \* the EvidenceBundle at hand: level of the best item of each type, and
                \* whether there are items of no known type
    drafts,     \* drafts of the clause at hand
    findings,   \* findings of the run
    memory,     \* what the runs have handed to the long-term memory
    report,     \* runs whose Markdown report is on disk
    record,     \* run records, by WorkbenchStore.save_run
    snapshot,   \* last session snapshot of each run
    announced,  \* the last of review.completed and review.failed in the event stream
    listing,    \* the run records export_dashboard has read
    dashboard,  \* the run records the dashboard shows
    faults      \* faults so far

vars == <<at, status, left, injected, evidence, drafts, findings, memory, report,
          record, snapshot, announced, listing, dashboard, faults>>

agents == <<left, injected, evidence, drafts, findings>>
stores == <<memory, report, record, snapshot, announced, listing, dashboard>>

Places == {"idle", "created", "parsed", "clauses", "retrieved", "drafted", "audited",
           "finalized", "curated", "reported", "recorded", "snapped", "announced",
           "listed", "failing", "failed", "noted", "returned", "raised"}
Ended  == {"returned", "raised"}
Active == {r \in Runs : at[r] \notin Ended \union {"idle"}}

Statuses  == {"created", "parsing", "retrieving", "risk_checking", "rewriting",
              "compliance_reviewing", "completed", "blocked", "failed"}
NoRecord  == [status |-> "none", findings |-> {}, injected |-> FALSE]

Drafts   == [type: RiskTypes, level: Levels, sourced: BOOLEAN, review: BOOLEAN]
Findings == [type: RiskTypes, level: Levels, sourced: BOOLEAN, absolute: BOOLEAN,
             review: BOOLEAN, blocked: BOOLEAN]
Records  == [status: {"none", "completed", "blocked", "failed"},
             findings: SUBSET Findings, injected: BOOLEAN]
NoItem   == "none"
NoBundle == [item |-> [t \in RiskTypes |-> NoItem], other |-> FALSE]
Bundles  == [item: [RiskTypes -> Levels \union {NoItem}], other: BOOLEAN]

Init ==
    /\ at = [r \in Runs |-> "idle"]
    /\ status = [r \in Runs |-> "created"]
    /\ left = [r \in Runs |-> 0]
    /\ injected = [r \in Runs |-> FALSE]
    /\ evidence = [r \in Runs |-> NoBundle]
    /\ drafts = [r \in Runs |-> {}]
    /\ findings = [r \in Runs |-> {}]
    /\ memory = {}
    /\ report = {}
    /\ record = [r \in Runs |-> NoRecord]
    /\ snapshot = [r \in Runs |-> "none"]
    /\ announced = [r \in Runs |-> "none"]
    /\ listing = [r \in Runs |-> {}]
    /\ dashboard = {}
    /\ faults = 0

-----------------------------------------------------------------------------
\* The agents.  Go(r, from, to) moves review(r) on.

Go(r, from, to) == at[r] = from /\ at' = [at EXCEPT ![r] = to]

Mark(r, s) == status' = [status EXCEPT ![r] = s]

\* review: the run is created, with its first snapshot.  A task that has a finished run is not
\* reviewed again (ReviewTaskWorker.run_once).
Create(r) ==
    /\ Cardinality(Active) < MaxActive
    /\ \A q \in Runs : at[q] = "returned" => record[q].status = "failed"
    /\ Go(r, "idle", "created")
    /\ snapshot' = [snapshot EXCEPT ![r] = "created"]
    /\ UNCHANGED <<status, agents, memory, report, record, announced, listing,
                   dashboard, faults>>

\* ParserAgent.run: the tool's error is the run's.
Parse(r) ==
    /\ Mark(r, "parsing")
    /\ \/ Go(r, "created", "parsed") /\ \E n \in 0 .. MaxClauses : left' = [left EXCEPT ![r] = n]
       \/ Go(r, "created", "failing") /\ UNCHANGED left
    /\ UNCHANGED <<injected, evidence, drafts, findings, stores, faults>>

\* scan_injection.
Scan(r) ==
    /\ Go(r, "parsed", "clauses")
    /\ \E hit \in BOOLEAN : injected' = [injected EXCEPT ![r] = hit]
    /\ UNCHANGED <<status, left, evidence, drafts, findings, stores, faults>>

\* Mutant of Retrieve: a clause that is passed over is tried for ever.
Retrieve_Again(r) ==
    /\ Mark(r, "retrieving")
    /\ \/ /\ Go(r, "clauses", "retrieved")
          /\ \E b \in Bundles : evidence' = [evidence EXCEPT ![r] = b]
          /\ UNCHANGED left
       \/ /\ Go(r, "clauses", "clauses")
          /\ left' = [left EXCEPT ![r] = @ - 1]
          /\ UNCHANGED evidence
    /\ UNCHANGED <<injected, drafts, findings, stores, faults>>

\* EvidenceAgent.retrieve_clause with at most one refined query, whose failure
\* leaves the evidence of the first.  A clause whose retrieval fails is passed over.
Retrieve(r) ==
    /\ left[r] > 0
    /\ Mark(r, "retrieving")
    /\ \/ /\ Go(r, "clauses", "retrieved")
          /\ \E b \in Bundles : evidence' = [evidence EXCEPT ![r] = b]
          /\ UNCHANGED left
       \/ /\ Go(r, "clauses", "clauses")
          /\ left' = [left EXCEPT ![r] = @ - 1]
          /\ UNCHANGED evidence
    /\ UNCHANGED <<injected, drafts, findings, stores, faults>>

\* RiskRuleEngine.evaluate finds the types with adverse wording; a failing risk_rule tool
\* finds none.
RuleHits(adverse) == {adverse, {}}

\* evidence_implies_risk and skill_implies_risk: adverse wording and an item of
\* the type; which scores suffice is left open.
Implied(adverse, bundle) == SUBSET {t \in adverse : bundle.item[t] # NoItem}

\* What passes _validate_semantic_candidate: known types at a valid level, one of each.
Proposals == UNION {[C -> Levels] : C \in SUBSET RiskTypes}

\* _discover_semantic_candidates: asked only when no rule has hit.
Candidates(hits) == IF hits # {} THEN {<<>>} ELSE Proposals

\* matched_evidence: of the type; for a candidate by a search of its own (found);
\* for a rule else any two items of the bundle.
Matched(t, bundle, cands, found) ==
    \/ bundle.item[t] # NoItem
    \/ t \in found
    \/ /\ t \notin DOMAIN cands
       /\ bundle.other \/ \E u \in RiskTypes : bundle.item[u] # NoItem

\* A candidate nothing else supports needs evidence and a second judgement.
Rejected(t, bundle, implied, cands, found, judged) ==
    /\ t \in DOMAIN cands \ implied
    /\ ~Matched(t, bundle, cands, found) \/ t \notin judged

DraftOf(t, bundle, hits, cands, found) ==
    LET level == IF t \in hits THEN RuleLevel[t]
                 ELSE IF t \in DOMAIN cands THEN cands[t] ELSE bundle.item[t]
    IN  [type |-> t, level |-> level, sourced |-> Matched(t, bundle, cands, found),
         review |-> IF t \in hits THEN RuleReview[t]
                    ELSE t \in DOMAIN cands \/ level = "high"]

\* RiskReviewerAgent.draft_findings.
Draft(r) ==
    /\ Go(r, "retrieved", "drafted")
    /\ Mark(r, "risk_checking")
    /\ \E adverse \in SUBSET RiskTypes : \E hits \in RuleHits(adverse) :
       \E implied \in Implied(adverse, evidence[r]), cands \in Candidates(hits) :
       \E found, judged \in SUBSET DOMAIN cands :
         LET b     == evidence[r]
             types == {t \in hits \union implied \union DOMAIN cands :
                         ~Rejected(t, b, implied, cands, found, judged)}
         IN  drafts' = [drafts EXCEPT ![r] = {DraftOf(t, b, hits, cands, found) : t \in types}]
    /\ evidence' = [evidence EXCEPT ![r] = NoBundle]
    /\ UNCHANGED <<left, injected, findings, stores, faults>>

\* PermissionGuard.check: no evidence and absolute conclusions are blocked.
Allowed(d, absolute) == d.sourced /\ ~absolute

\* Mutant of Approved: the mark of an injected contract is forgotten.
Approved_Unmarked(d, absolute, guarded, hit) ==
    LET ok == guarded /\ Allowed(d, absolute)
    IN  [type |-> d.type, level |-> d.level, sourced |-> d.sourced, absolute |-> absolute,
         review |-> (ok /\ d.level = "high" /\ d.review), blocked |-> ~ok]

\* ComplianceAuditorAgent.approve_finding: a failing guard tool blocks as well.
Approved(d, absolute, guarded, hit) ==
    LET ok == guarded /\ Allowed(d, absolute)
    IN  [type |-> d.type, level |-> d.level, sourced |-> d.sourced, absolute |-> absolute,
         review |-> hit \/ (ok /\ d.level = "high" /\ d.review), blocked |-> ~ok]

\* The loop over the drafts: ClauseRewriterAgent.rewrite, approve_finding, and the
\* supervisor's mark of an injected contract.
Approve(r) ==
    /\ Go(r, "drafted", "clauses")
    /\ Mark(r, IF drafts[r] = {} THEN status[r] ELSE "rewriting")
    /\ \E absolute, guarded \in [drafts[r] -> BOOLEAN] :
         findings' = [findings EXCEPT ![r] = @ \union
             {Approved(d, absolute[d], guarded[d], injected[r]) : d \in drafts[r]}]
    /\ drafts' = [drafts EXCEPT ![r] = {}]
    /\ left' = [left EXCEPT ![r] = @ - 1]
    /\ UNCHANGED <<injected, evidence, stores, faults>>

\* ReflectionAuditor.review_findings and apply.
Reflected(f) ==
    IF ~f.sourced \/ (f.absolute /\ (f.level = "high" => f.review))
      THEN [f EXCEPT !.blocked = TRUE]
      ELSE IF f.level = "high" THEN [f EXCEPT !.review = TRUE] ELSE f

\* ComplianceAuditorAgent.reflect.
Reflect(r) ==
    /\ left[r] = 0
    /\ Go(r, "clauses", "audited")
    /\ Mark(r, "compliance_reviewing")
    /\ findings' = [findings EXCEPT ![r] = {Reflected(f) : f \in @}]
    /\ UNCHANGED <<left, injected, evidence, drafts, stores, faults>>

\* Mutant of Finalize: one clean finding is enough.
Finalize_AnyClean(r) ==
    /\ Go(r, "audited", "finalized")
    /\ Mark(r, IF findings[r] # {} /\ \A f \in findings[r] : f.blocked THEN "blocked" ELSE "completed")
    /\ UNCHANGED <<agents, stores, faults>>

\* ReportWriterAgent.finalize_context.
Finalize(r) ==
    /\ Go(r, "audited", "finalized")
    /\ Mark(r, IF \E f \in findings[r] : f.blocked THEN "blocked" ELSE "completed")
    /\ UNCHANGED <<agents, stores, faults>>

-----------------------------------------------------------------------------
\* The stores.

\* Mutant of Curate: blocked findings are taken in as well.
Curate_Blocked(r) ==
    /\ Go(r, "finalized", "curated")
    /\ \E enabled \in BOOLEAN :
         memory' = memory \union
           {[run |-> r, finding |-> f] : f \in {g \in findings[r] : enabled /\ g.sourced}}
    /\ UNCHANGED <<status, agents, report, record, snapshot, announced, listing,
                   dashboard, faults>>

\* MemoryCuratorAgent.consolidate: what consolidate_from_run takes in.
Curate(r) ==
    /\ Go(r, "finalized", "curated")
    /\ \E enabled \in BOOLEAN :
         memory' = memory \union
           {[run |-> r, finding |-> f] : f \in {g \in findings[r] : enabled /\ g.sourced /\ ~g.blocked}}
    /\ UNCHANGED <<status, agents, report, record, snapshot, announced, listing,
                   dashboard, faults>>

\* Mutant of WriteReport: the tool's error is ignored.
WriteReport_Ignored(r) ==
    /\ \/ Go(r, "curated", "reported") /\ report' = report \union {r}
       \/ Go(r, "curated", "reported") /\ UNCHANGED report
    /\ UNCHANGED <<status, agents, memory, record, snapshot, announced, listing,
                   dashboard, faults>>

\* ReportWriterAgent.write_report: the tool's error is the run's.
WriteReport(r) ==
    /\ \/ Go(r, "curated", "reported") /\ report' = report \union {r}
       \/ Go(r, "curated", "failing") /\ UNCHANGED report
    /\ UNCHANGED <<status, agents, memory, record, snapshot, announced, listing,
                   dashboard, faults>>

RecordOf(r, s) == [status |-> s, findings |-> findings[r], injected |-> injected[r]]

\* WorkbenchStore.save_run.
SaveRun(r) ==
    /\ Go(r, "reported", "recorded")
    /\ record' = [record EXCEPT ![r] = RecordOf(r, status[r])]
    /\ UNCHANGED <<status, agents, memory, report, snapshot, announced, listing,
                   dashboard, faults>>

\* ReviewSessionStore.save_snapshot.
SaveSnapshot(r, from, to, event) ==
    /\ Go(r, from, to)
    /\ snapshot' = [snapshot EXCEPT ![r] = event]
    /\ UNCHANGED <<status, agents, memory, report, record, announced, listing,
                   dashboard, faults>>

\* The event that ends the run.
Announce(r, from, to, event) ==
    /\ Go(r, from, to)
    /\ announced' = [announced EXCEPT ![r] = event]
    /\ UNCHANGED <<status, agents, memory, report, record, snapshot, listing,
                   dashboard, faults>>

\* export_dashboard: WorkbenchStore.list_runs, then the file is replaced.
ListRuns(r) ==
    /\ Go(r, "announced", "listed")
    /\ listing' = [listing EXCEPT ![r] = {q \in Runs : record[q] # NoRecord}]
    /\ UNCHANGED <<status, agents, memory, report, record, snapshot, announced,
                   dashboard, faults>>

ExportDashboard(r) ==
    /\ Go(r, "listed", "returned")
    /\ dashboard' = listing[r]
    /\ listing' = [listing EXCEPT ![r] = {}]
    /\ UNCHANGED <<status, agents, memory, report, record, snapshot, announced, faults>>

\* fail: an AgentExecutionError, from the parser or from the report.
Fail(r) ==
    /\ Go(r, "failing", "failed")
    /\ Mark(r, "failed")
    /\ record' = [record EXCEPT ![r] = RecordOf(r, "failed")]
    /\ UNCHANGED <<agents, memory, report, snapshot, announced, listing, dashboard, faults>>

\* Any other exception leaves review at once, and the process may die: what is
\* recorded stays as it is.
Abandon(r) ==
    /\ r \in Active /\ faults < MaxFaults
    /\ at' = [at EXCEPT ![r] = "raised"]
    /\ listing' = [listing EXCEPT ![r] = {}]
    /\ faults' = faults + 1
    /\ UNCHANGED <<status, agents, memory, report, record, snapshot, announced, dashboard>>

Step(r) ==
    \/ Create(r) \/ Parse(r) \/ Scan(r) \/ Retrieve(r) \/ Draft(r) \/ Approve(r)
    \/ Reflect(r) \/ Finalize(r) \/ Curate(r) \/ WriteReport(r)
    \/ SaveRun(r)
    \/ SaveSnapshot(r, "recorded", "snapped", "completed")
    \/ Announce(r, "snapped", "announced", "completed")
    \/ ListRuns(r) \/ ExportDashboard(r)
    \/ Fail(r)
    \/ SaveSnapshot(r, "failed", "noted", "failed")
    \/ Announce(r, "noted", "returned", "failed")
    \/ Abandon(r)

Next == \E r \in Runs : Step(r)

Spec == Init /\ [][Next]_vars

-----------------------------------------------------------------------------
\* Properties.

\* Every variable keeps its type.
TypeOK ==
    /\ at \in [Runs -> Places]
    /\ status \in [Runs -> Statuses]
    /\ left \in [Runs -> 0 .. MaxClauses]
    /\ injected \in [Runs -> BOOLEAN]
    /\ evidence \in [Runs -> Bundles]
    /\ drafts \in [Runs -> SUBSET Drafts]
    /\ findings \in [Runs -> SUBSET Findings]
    /\ memory \subseteq [run: Runs, finding: Findings]
    /\ report \subseteq Runs
    /\ record \in [Runs -> Records]
    /\ snapshot \in [Runs -> {"none", "created", "completed", "failed"}]
    /\ announced \in [Runs -> {"none", "completed", "failed"}]
    /\ listing \in [Runs -> SUBSET Runs]
    /\ dashboard \subseteq Runs
    /\ faults \in 0 .. MaxFaults

Finished(r) == record[r].status \in {"completed", "blocked"}

\* Whatever rule, retrieval or model a conclusion comes from, and whatever tool failed on the
\* way, a finished run shows no high risk that is neither blocked nor up for a person's review,
\* and none at all without review when the contract carries an injection (supervisor.py:196).
RiskIsReviewed ==
    \A r \in Runs : Finished(r) => \A f \in record[r].findings :
        /\ f.level = "high" => f.blocked \/ f.review
        /\ record[r].injected => f.review

\* A finished run is "completed" only if every conclusion in it has a source and none is an
\* absolute legal judgement: otherwise the run is "blocked" (report_writer.py:21).
CompletedIsClean ==
    \A r \in Runs : record[r].status = "completed" =>
        \A f \in record[r].findings : f.sourced /\ ~f.absolute /\ ~f.blocked

\* What the memory has taken in has passed the audit, even when the run has failed since:
\* LegalMemory decides by these marks what needs approval.
RememberedIsAudited ==
    \A m \in memory :
        /\ m.finding.sourced /\ ~m.finding.blocked /\ ~m.finding.absolute
        /\ m.finding.level = "high" \/ injected[m.run] => m.finding.review

\* The five records of a run never contradict one another, wherever the review stopped: a
\* completed snapshot or event is backed by a finished record with its report, a failed one by a
\* failed record, and a task is never told of a finished run that has no record.  With one review
\* at a time the dashboard shows every run whose review has returned finished, also after a later
\* review that raised.
RecordsAgree ==
    \A r \in Runs :
        /\ Finished(r) => r \in report
        /\ snapshot[r] = "completed" => Finished(r)
        /\ announced[r] = "completed" => snapshot[r] = "completed"
        /\ snapshot[r] = "failed" => record[r].status = "failed"
        /\ announced[r] = "failed" => snapshot[r] = "failed"
        /\ at[r] = "returned" => record[r].status = status[r]
        /\ MaxActive = 1 /\ at[r] = "returned" /\ Finished(r) => r \in dashboard
==============================================================================
