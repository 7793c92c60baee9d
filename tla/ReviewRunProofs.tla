--------------------------- MODULE ReviewRunProofs ---------------------------
(***************************************************************************)
(* Proofs about ReviewRun.  A step of one review leaves all that is kept   *)
(* of the other runs alone, but for the report, the memory and the         *)
(* dashboard; so the invariant is one statement per run (Sound), with      *)
(* what those three need besides.                                          *)
(***************************************************************************)
EXTENDS ReviewRun, FiniteSetTheorems, TLAPS

USE DEF Levels

-----------------------------------------------------------------------------
(* Types.                                                                  *)

\* A clause at hand is still counted.
ClauseLeft == \A r \in Runs : at[r] \in {"retrieved", "drafted"} => left[r] > 0

\* From Finalize to the dashboard the status is an outcome.
Closing   == {"finalized", "curated", "reported", "recorded", "snapped", "announced", "listed"}
HasStatus == \A r \in Runs : at[r] \in Closing => status[r] \in {"completed", "blocked"}

TypeInv == TypeOK /\ ClauseLeft /\ HasStatus

LEMMA InitTypeInv == Init => TypeInv
<1> SUFFICES ASSUME Init PROVE TypeInv
  OBVIOUS
<1>1. NoBundle \in Bundles
  BY DEF NoBundle, Bundles
<1>2. NoRecord \in Records
  BY DEF NoRecord, Records
<1> QED
  BY <1>1, <1>2, ReviewAssumption
     DEF Init, TypeInv, TypeOK, ClauseLeft, HasStatus, Closing, Places, Ended, Statuses

\* What a clause comes to is a draft: a type that only evidence implies has an item with its level.
LEMMA DraftTyped ==
    ASSUME NEW b \in Bundles, NEW hits \in SUBSET RiskTypes, NEW adverse \in SUBSET RiskTypes,
           NEW implied \in Implied(adverse, b), NEW cands \in Candidates(hits), NEW found,
           NEW t \in hits \union implied \union DOMAIN cands
    PROVE  DraftOf(t, b, hits, cands, found) \in Drafts
<1>1. DOMAIN cands \subseteq RiskTypes /\ \A u \in DOMAIN cands : cands[u] \in Levels
  BY DEF Candidates, Proposals
<1>2. t \in RiskTypes
  BY <1>1 DEF Implied
<1>3. t \notin hits \union DOMAIN cands => b.item[t] \in Levels
  BY DEF Implied, Bundles
<1>4. RuleLevel[t] \in Levels /\ RuleReview[t] \in BOOLEAN
  BY <1>2, ReviewAssumption
<1>5. Matched(t, b, cands, found) \in BOOLEAN
  BY DEF Matched, Bundles
<1> QED
  BY <1>1, <1>2, <1>3, <1>4, <1>5 DEF DraftOf, Drafts

LEMMA ApprovedTyped ==
    ASSUME NEW d \in Drafts, NEW absolute \in BOOLEAN, NEW guarded \in BOOLEAN,
           NEW hit \in BOOLEAN
    PROVE  Approved(d, absolute, guarded, hit) \in Findings
  BY DEF Approved, Allowed, Drafts, Findings

LEMMA ReflectedTyped ==
    ASSUME NEW f \in Findings
    PROVE  Reflected(f) \in Findings
  BY DEF Reflected, Findings

LEMMA TypeStep ==
    ASSUME TypeInv, NEW r \in Runs, Step(r)
    PROVE  TypeInv'
<1> USE DEF TypeInv, TypeOK, ClauseLeft, HasStatus, Closing
<1>1. CASE Create(r)
  BY <1>1 DEF Create, Go, Places, Ended, agents
<1>2. CASE Parse(r)
  BY <1>2 DEF Parse, Go, Mark, Places, Ended, Statuses, stores
<1>3. CASE Scan(r)
  BY <1>3 DEF Scan, Go, Places, Ended, stores
<1>4. CASE Retrieve(r)
  <2>1. left[r] \in 0 .. MaxClauses /\ left[r] > 0 /\ left[r] - 1 \in 0 .. MaxClauses
    BY <1>4, ReviewAssumption DEF Retrieve
  <2>2. CASE Go(r, "clauses", "retrieved") /\ left' = left
    BY <1>4, <2>1, <2>2 DEF Retrieve, Go, Mark, Places, Ended, Statuses, stores
  <2>3. CASE Go(r, "clauses", "clauses") /\ left' = [left EXCEPT ![r] = @ - 1] /\ evidence' = evidence
    BY <1>4, <2>1, <2>3 DEF Retrieve, Go, Mark, Places, Ended, Statuses, stores
  <2> QED
    BY <1>4, <2>2, <2>3 DEF Retrieve
<1>5. CASE Draft(r)
  <2>1. PICK adverse \in SUBSET RiskTypes : \E hits \in RuleHits(adverse) :
          \E implied \in Implied(adverse, evidence[r]), cands \in Candidates(hits) :
          \E found, judged \in SUBSET DOMAIN cands :
            drafts' = [drafts EXCEPT ![r] =
              {DraftOf(t, evidence[r], hits, cands, found) :
                 t \in {u \in hits \union implied \union DOMAIN cands :
                          ~Rejected(u, evidence[r], implied, cands, found, judged)}}]
    BY <1>5 DEF Draft
  <2>2. PICK hits \in RuleHits(adverse) :
          \E implied \in Implied(adverse, evidence[r]), cands \in Candidates(hits) :
          \E found, judged \in SUBSET DOMAIN cands :
            drafts' = [drafts EXCEPT ![r] =
              {DraftOf(t, evidence[r], hits, cands, found) :
                 t \in {u \in hits \union implied \union DOMAIN cands :
                          ~Rejected(u, evidence[r], implied, cands, found, judged)}}]
    BY <2>1
  <2>3. PICK implied \in Implied(adverse, evidence[r]), cands \in Candidates(hits) :
          \E found, judged \in SUBSET DOMAIN cands :
            drafts' = [drafts EXCEPT ![r] =
              {DraftOf(t, evidence[r], hits, cands, found) :
                 t \in {u \in hits \union implied \union DOMAIN cands :
                          ~Rejected(u, evidence[r], implied, cands, found, judged)}}]
    BY <2>2
  <2>4. PICK found \in SUBSET DOMAIN cands, judged \in SUBSET DOMAIN cands :
            drafts' = [drafts EXCEPT ![r] =
              {DraftOf(t, evidence[r], hits, cands, found) :
                 t \in {u \in hits \union implied \union DOMAIN cands :
                          ~Rejected(u, evidence[r], implied, cands, found, judged)}}]
    BY <2>3
  <2>5. evidence[r] \in Bundles /\ hits \subseteq RiskTypes
    BY <2>2 DEF RuleHits
  <2>6. \A t \in hits \union implied \union DOMAIN cands :
          DraftOf(t, evidence[r], hits, cands, found) \in Drafts
    BY <2>5, DraftTyped
  <2>7. drafts' \in [Runs -> SUBSET Drafts]
    BY <2>4, <2>6
  <2>8. evidence' \in [Runs -> Bundles]
    BY <1>5 DEF Draft, NoBundle, Bundles
  <2>9. at[r] = "retrieved" /\ at' = [at EXCEPT ![r] = "drafted"]
        /\ status' = [status EXCEPT ![r] = "risk_checking"]
        /\ UNCHANGED <<left, injected, findings, stores, faults>>
    BY <1>5 DEF Draft, Go, Mark
  <2> HIDE <1>5
  <2> QED
    BY <2>7, <2>8, <2>9 DEF Places, Ended, Statuses, stores
<1>6. CASE Approve(r)
  <2>1. PICK absolute \in [drafts[r] -> BOOLEAN], guarded \in [drafts[r] -> BOOLEAN] :
          findings' = [findings EXCEPT ![r] = @ \union
             {Approved(d, absolute[d], guarded[d], injected[r]) : d \in drafts[r]}]
    BY <1>6 DEF Approve
  <2>2. \A d \in drafts[r] : Approved(d, absolute[d], guarded[d], injected[r]) \in Findings
    BY ApprovedTyped
  <2>3. findings' \in [Runs -> SUBSET Findings]
    BY <2>1, <2>2
  <2>4. at[r] = "drafted" /\ left[r] > 0 /\ left[r] - 1 \in 0 .. MaxClauses
    BY <1>6, ReviewAssumption DEF Approve, Go
  <2>5. PICK s \in Statuses : status' = [status EXCEPT ![r] = s]
    <3>1. status' = [status EXCEPT ![r] = IF drafts[r] = {} THEN status[r] ELSE "rewriting"]
      BY <1>6 DEF Approve, Mark
    <3>2. (IF drafts[r] = {} THEN status[r] ELSE "rewriting") \in Statuses
      BY DEF Statuses
    <3> HIDE <1>6
    <3> QED
      BY <3>1, <3>2
  <2>6. /\ at' = [at EXCEPT ![r] = "clauses"] /\ drafts' = [drafts EXCEPT ![r] = {}]
        /\ left' = [left EXCEPT ![r] = @ - 1] /\ UNCHANGED <<injected, evidence, stores, faults>>
    BY <1>6 DEF Approve, Go
  <2> HIDE <1>6
  <2>7. /\ at' \in [Runs -> Places] /\ status' \in [Runs -> Statuses]
        /\ left' \in [Runs -> 0 .. MaxClauses] /\ drafts' \in [Runs -> SUBSET Drafts]
    <3>1. at' \in [Runs -> Places]
      BY <2>6 DEF Places
    <3>2. left' \in [Runs -> 0 .. MaxClauses]
      BY <2>4, <2>6
    <3>3. status' \in [Runs -> Statuses] /\ drafts' \in [Runs -> SUBSET Drafts]
      BY <2>5, <2>6
    <3> QED
      BY <3>1, <3>2, <3>3
  <2>8. ClauseLeft' /\ HasStatus'
    BY <2>4, <2>5, <2>6
  <2> QED
    BY <2>3, <2>6, <2>7, <2>8 DEF stores
<1>7. CASE Reflect(r)
  <2>1. findings' \in [Runs -> SUBSET Findings]
    BY <1>7, ReflectedTyped DEF Reflect
  <2> QED
    BY <1>7, <2>1 DEF Reflect, Go, Mark, Places, Ended, Statuses, stores
<1>8. CASE Finalize(r)
  BY <1>8 DEF Finalize, Go, Mark, Places, Ended, Statuses, stores, agents
<1>9. CASE Curate(r)
  <2>1. memory' \subseteq [run: Runs, finding: Findings]
    BY <1>9 DEF Curate
  <2> QED
    BY <1>9, <2>1 DEF Curate, Go, Places, Ended, agents
<1>10. CASE WriteReport(r)
  BY <1>10 DEF WriteReport, Go, Places, Ended, agents
<1>11. CASE SaveRun(r)
  <2>1. RecordOf(r, status[r]) \in Records
    BY <1>11 DEF SaveRun, Go, RecordOf, Records
  <2> QED
    BY <1>11, <2>1 DEF SaveRun, Go, Places, Ended, agents
<1>12. CASE SaveSnapshot(r, "recorded", "snapped", "completed")
  BY <1>12 DEF SaveSnapshot, Go, Places, Ended, agents
<1>13. CASE Announce(r, "snapped", "announced", "completed")
  BY <1>13 DEF Announce, Go, Places, Ended, agents
<1>14. CASE ListRuns(r)
  <2>1. {q \in Runs : record[q] # NoRecord} \in SUBSET Runs
    OBVIOUS
  <2> QED
    BY <1>14, <2>1 DEF ListRuns, Go, Places, Ended, agents
<1>15. CASE ExportDashboard(r)
  BY <1>15 DEF ExportDashboard, Go, Places, Ended, agents
<1>16. CASE Fail(r)
  <2>1. RecordOf(r, "failed") \in Records
    BY DEF RecordOf, Records
  <2> QED
    BY <1>16, <2>1 DEF Fail, Go, Mark, Places, Ended, Statuses, agents
<1>17. CASE SaveSnapshot(r, "failed", "noted", "failed")
  BY <1>17 DEF SaveSnapshot, Go, Places, Ended, agents
<1>18. CASE Announce(r, "noted", "returned", "failed")
  BY <1>18 DEF Announce, Go, Places, Ended, agents
<1>19. CASE Abandon(r)
  <2>1. faults + 1 \in 0 .. MaxFaults
    BY <1>19, ReviewAssumption DEF Abandon
  <2> QED
    BY <1>19, <2>1 DEF Abandon, Places, Ended, agents
<1> QED
  BY <1>1, <1>2, <1>3, <1>4, <1>5, <1>6, <1>7, <1>8, <1>9, <1>10, <1>11, <1>12, <1>13,
     <1>14, <1>15, <1>16, <1>17, <1>18, <1>19 DEF Step

\* Every variable of a review keeps its type, whatever the rules, the retrieval and the model say,
\* whichever tool fails and however many reviews run at once.
THEOREM ReviewTypeCorrect == Spec => []TypeOK
<1>1. TypeInv /\ [Next]_vars => TypeInv'
  <2>1. ASSUME TypeInv, Next PROVE TypeInv'
    BY <2>1, TypeStep DEF Next
  <2>2. ASSUME TypeInv, UNCHANGED vars PROVE TypeInv'
    BY <2>2 DEF vars, TypeInv, TypeOK, ClauseLeft, HasStatus
  <2> QED
    BY <2>1, <2>2
<1>2. TypeInv => TypeOK
  BY DEF TypeInv
<1> QED
  BY <1>1, <1>2, InitTypeInv, PTL DEF Spec

-----------------------------------------------------------------------------
(* The records.  A finding is marked when it is approved and again when it *)
(* is reflected on; a run is recorded only after that.                     *)

Fresh      == {"idle", "created", "parsed"}
Recorded   == {"recorded", "snapped", "announced", "listed"}
Unrecorded == Fresh \union {"clauses", "retrieved", "drafted", "audited", "finalized", "curated",
                            "reported", "failing"}

\* What holds of a finding from its approval on, in a contract with an injection or not.
MarkedFinding(f, hit) == (hit => f.review) /\ (f.blocked \/ (f.sourced /\ ~f.absolute))

\* ... and from the reflection on.
AuditedFinding(f) == f.level = "high" => f.blocked \/ f.review

FindingsSound(r) ==
    /\ \A f \in findings[r] : MarkedFinding(f, injected[r])
    /\ at[r] \in Fresh => findings[r] = {}
    /\ at[r] \in Closing \union {"audited"} => \A f \in findings[r] : AuditedFinding(f)
    /\ at[r] \in Closing /\ status[r] = "completed" => \A f \in findings[r] : ~f.blocked

RecordSound(r) ==
    /\ at[r] \in Recorded => record[r] = RecordOf(r, status[r])
    /\ Finished(r) => \A f \in record[r].findings :
         AuditedFinding(f) /\ MarkedFinding(f, record[r].injected)
    /\ record[r].status = "completed" => \A f \in record[r].findings : ~f.blocked
    /\ Finished(r) \/ at[r] \in Recorded \union {"reported"} => r \in report

OthersSound(r) ==
    /\ at[r] \in Unrecorded \union {"recorded", "failed"} =>
         snapshot[r] \in {"none", "created"} /\ announced[r] = "none"
    /\ at[r] = "snapped" => snapshot[r] = "completed" /\ announced[r] = "none"
    /\ at[r] = "noted" => snapshot[r] = "failed" /\ announced[r] = "none"
    /\ at[r] \in {"failed", "noted"} => record[r].status = "failed" /\ status[r] = "failed"
    /\ snapshot[r] = "completed" => Finished(r)
    /\ announced[r] = "completed" => snapshot[r] = "completed"
    /\ snapshot[r] = "failed" => record[r].status = "failed"
    /\ announced[r] = "failed" => snapshot[r] = "failed"
    /\ at[r] = "returned" => record[r].status = status[r]

Sound(r) == FindingsSound(r) /\ RecordSound(r) /\ OthersSound(r)

\* A step that leaves a run alone, except that reports are added, leaves it sound.
LEMMA Frame ==
    ASSUME NEW q \in Runs, Sound(q), at'[q] = at[q], status'[q] = status[q],
           injected'[q] = injected[q], findings'[q] = findings[q], record'[q] = record[q],
           snapshot'[q] = snapshot[q], announced'[q] = announced[q], report \subseteq report'
    PROVE  Sound(q)'
  BY DEF Sound, FindingsSound, RecordSound, OthersSound, RecordOf, Finished

\* Every step is about one run.
LEMMA StepIsLocal ==
    ASSUME TypeInv, NEW r \in Runs, Step(r), NEW q \in Runs, q # r
    PROVE  /\ at'[q] = at[q] /\ status'[q] = status[q] /\ injected'[q] = injected[q]
           /\ findings'[q] = findings[q] /\ record'[q] = record[q]
           /\ snapshot'[q] = snapshot[q] /\ announced'[q] = announced[q]
           /\ report \subseteq report'
<1> USE DEF TypeInv, TypeOK, Go, Mark, agents, stores
<1>1. CASE Create(r) \/ Parse(r) \/ Scan(r) \/ Retrieve(r)
  BY <1>1 DEF Create, Parse, Scan, Retrieve
<1>2. CASE Draft(r)
  BY <1>2 DEF Draft
<1>3. CASE Approve(r)
  BY <1>3 DEF Approve
<1>4. CASE Reflect(r) \/ Finalize(r) \/ Curate(r) \/ WriteReport(r) \/ SaveRun(r)
  BY <1>4 DEF Reflect, Finalize, Curate, WriteReport, SaveRun
<1>5. CASE \/ SaveSnapshot(r, "recorded", "snapped", "completed")
           \/ SaveSnapshot(r, "failed", "noted", "failed")
  BY <1>5 DEF SaveSnapshot
<1>6. CASE \/ Announce(r, "snapped", "announced", "completed")
           \/ Announce(r, "noted", "returned", "failed")
  BY <1>6 DEF Announce
<1>7. CASE ListRuns(r) \/ ExportDashboard(r) \/ Fail(r) \/ Abandon(r)
  BY <1>7 DEF ListRuns, ExportDashboard, Fail, Abandon
<1> QED
  BY <1>1, <1>2, <1>3, <1>4, <1>5, <1>6, <1>7 DEF Step

\* What the agents do to the findings keeps them sound; nothing is recorded meanwhile.
LEMMA AgentsKeepSound ==
    ASSUME TypeInv, NEW r \in Runs, Sound(r),
           \/ Create(r) \/ Parse(r) \/ Scan(r) \/ Retrieve(r) \/ Draft(r) \/ Approve(r)
           \/ Reflect(r) \/ Finalize(r)
    PROVE  Sound(r)'
<1> USE DEF TypeInv, TypeOK, Go, Mark, Fresh, Closing, Recorded, Unrecorded
<1>1. CASE Create(r)
  BY <1>1 DEF Create, agents, Sound, FindingsSound, RecordSound, OthersSound, Finished
<1>2. CASE Parse(r)
  BY <1>2 DEF Parse, stores, Sound, FindingsSound, RecordSound, OthersSound, Finished
<1>3. CASE Scan(r)
  BY <1>3 DEF Scan, stores, Sound, FindingsSound, RecordSound, OthersSound, Finished
<1>4. CASE Retrieve(r)
  BY <1>4 DEF Retrieve, stores, Sound, FindingsSound, RecordSound, OthersSound, Finished
<1>5. CASE Draft(r)
  <2>1. /\ at[r] = "retrieved" /\ at'[r] = "drafted" /\ status'[r] = "risk_checking"
        /\ UNCHANGED <<left, injected, findings, stores, faults>>
    BY <1>5 DEF Draft
  <2> HIDE <1>5
  <2> QED
    BY <2>1 DEF stores, Sound, FindingsSound, RecordSound, OthersSound, Finished
<1>6. CASE Approve(r)
  <2>1. PICK absolute \in [drafts[r] -> BOOLEAN], guarded \in [drafts[r] -> BOOLEAN] :
          findings' = [findings EXCEPT ![r] = @ \union
             {Approved(d, absolute[d], guarded[d], injected[r]) : d \in drafts[r]}]
    BY <1>6 DEF Approve
  <2>2. \A d \in drafts[r] :
          MarkedFinding(Approved(d, absolute[d], guarded[d], injected[r]), injected[r])
    BY DEF Approved, Allowed, MarkedFinding, Drafts
  <2>3. \A f \in findings'[r] : MarkedFinding(f, injected[r])
    BY <2>1, <2>2 DEF Sound, FindingsSound
  <2>4. /\ at[r] = "drafted" /\ at'[r] = "clauses" /\ UNCHANGED <<injected, stores, faults>>
    BY <1>6 DEF Approve
  <2> HIDE <1>6
  <2>5. FindingsSound(r)'
    BY <2>3, <2>4 DEF FindingsSound
  <2>6. RecordSound(r)' /\ OthersSound(r)'
    BY <2>4 DEF stores, Sound, RecordSound, OthersSound, Finished
  <2> QED
    BY <2>5, <2>6 DEF Sound
<1>7. CASE Reflect(r)
  <2>1. /\ at[r] = "clauses" /\ at'[r] = "audited" /\ UNCHANGED <<injected, stores, faults>>
        /\ findings'[r] = {Reflected(f) : f \in findings[r]}
    BY <1>7 DEF Reflect
  <2>2. \A f \in Findings : MarkedFinding(f, injected[r]) =>
          MarkedFinding(Reflected(f), injected[r]) /\ AuditedFinding(Reflected(f))
    BY DEF Reflected, MarkedFinding, AuditedFinding, Findings
  <2>3. FindingsSound(r)'
    BY <2>1, <2>2 DEF Sound, FindingsSound
  <2>4. RecordSound(r)' /\ OthersSound(r)'
    BY <2>1 DEF stores, Sound, RecordSound, OthersSound, Finished
  <2> QED
    BY <2>3, <2>4 DEF Sound
<1>8. CASE Finalize(r)
  BY <1>8 DEF Finalize, agents, stores, Sound, FindingsSound, RecordSound, OthersSound, Finished
<1> QED
  BY <1>1, <1>2, <1>3, <1>4, <1>5, <1>6, <1>7, <1>8

\* What is recorded of a run is recorded after its findings were audited, and in order.
LEMMA StoresKeepSound ==
    ASSUME TypeInv, NEW r \in Runs, Sound(r),
           \/ Curate(r) \/ WriteReport(r) \/ SaveRun(r)
           \/ SaveSnapshot(r, "recorded", "snapped", "completed")
           \/ Announce(r, "snapped", "announced", "completed")
           \/ ListRuns(r) \/ ExportDashboard(r) \/ Fail(r)
           \/ SaveSnapshot(r, "failed", "noted", "failed")
           \/ Announce(r, "noted", "returned", "failed") \/ Abandon(r)
    PROVE  Sound(r)'
<1> USE DEF TypeInv, TypeOK, HasStatus, Go, Mark, Fresh, Closing, Recorded, Unrecorded
<1>1. CASE Curate(r)
  BY <1>1 DEF Curate, agents, Sound, FindingsSound, RecordSound, OthersSound, Finished
<1>2. CASE WriteReport(r)
  BY <1>2 DEF WriteReport, agents, Sound, FindingsSound, RecordSound, OthersSound, Finished
<1>3. CASE SaveRun(r)
  <2>1. /\ at[r] = "reported" /\ at'[r] = "recorded" /\ record'[r] = RecordOf(r, status[r])
        /\ UNCHANGED <<status, left, injected, evidence, drafts, findings, memory, report, snapshot,
                       announced>>
    BY <1>3 DEF SaveRun, agents
  <2>2. /\ record'[r].status = status[r] /\ record'[r].findings = findings[r]
        /\ record'[r].injected = injected[r]
    BY <2>1 DEF RecordOf
  <2> HIDE <1>3
  <2>3. FindingsSound(r)'
    BY <2>1 DEF Sound, FindingsSound
  <2>4. RecordSound(r)'
    BY <2>1, <2>2 DEF Sound, FindingsSound, RecordSound, Finished, RecordOf
  <2>5. OthersSound(r)'
    BY <2>1, <2>2 DEF Sound, OthersSound, Finished
  <2> QED
    BY <2>3, <2>4, <2>5 DEF Sound
<1>4. CASE SaveSnapshot(r, "recorded", "snapped", "completed")
  <2>1. Finished(r)
    BY <1>4 DEF SaveSnapshot, Sound, RecordSound, RecordOf, Finished
  <2> QED
    BY <1>4, <2>1 DEF SaveSnapshot, agents, Sound, FindingsSound, RecordSound, OthersSound,
                      Finished, RecordOf
<1>5. CASE Announce(r, "snapped", "announced", "completed")
  BY <1>5 DEF Announce, agents, Sound, FindingsSound, RecordSound, OthersSound, Finished, RecordOf
<1>6. CASE ListRuns(r)
  BY <1>6 DEF ListRuns, agents, Sound, FindingsSound, RecordSound, OthersSound, Finished, RecordOf
<1>7. CASE ExportDashboard(r)
  <2>1. record[r].status = status[r]
    BY <1>7 DEF ExportDashboard, Sound, RecordSound, RecordOf
  <2> QED
    BY <1>7, <2>1 DEF ExportDashboard, agents, Sound, FindingsSound, RecordSound, OthersSound,
                      Finished
<1>8. CASE Fail(r)
  BY <1>8 DEF Fail, agents, Sound, FindingsSound, RecordSound, OthersSound, Finished, RecordOf
<1>9. CASE SaveSnapshot(r, "failed", "noted", "failed")
  BY <1>9 DEF SaveSnapshot, agents, Sound, FindingsSound, RecordSound, OthersSound, Finished
<1>10. CASE Announce(r, "noted", "returned", "failed")
  BY <1>10 DEF Announce, agents, Sound, FindingsSound, RecordSound, OthersSound, Finished
<1>11. CASE Abandon(r)
  BY <1>11 DEF Abandon, Active, agents, Sound, FindingsSound, RecordSound, OthersSound, Finished
<1> QED
  BY <1>1, <1>2, <1>3, <1>4, <1>5, <1>6, <1>7, <1>8, <1>9, <1>10, <1>11

LEMMA SoundStep ==
    ASSUME TypeInv, \A q \in Runs : Sound(q), NEW r \in Runs, Step(r)
    PROVE  \A q \in Runs : Sound(q)'
<1>1. Sound(r)'
  BY AgentsKeepSound, StoresKeepSound DEF Step
<1>2. ASSUME NEW q \in Runs, q # r PROVE Sound(q)'
  BY <1>2, StepIsLocal, Frame
<1> QED
  BY <1>1, <1>2

-----------------------------------------------------------------------------
(* The memory and the dashboard, which a step of one review changes for    *)
(* all of them.                                                            *)

\* What the memory has taken in, with the run's injection, which is settled by then.
MemorySound ==
    \A m \in memory :
        /\ at[m.run] \notin Fresh
        /\ m.finding.sourced /\ ~m.finding.blocked /\ ~m.finding.absolute
        /\ m.finding.level = "high" \/ injected[m.run] => m.finding.review

\* With one review at a time there is one, and the records do not change between its listing
\* and its dashboard.
OneAtATime == IsFiniteSet(Active) /\ (MaxActive = 1 => \A q, s \in Active : q = s)
Listed     == MaxActive = 1 => \A r \in Runs : at[r] = "listed" =>
                                 {q \in Runs : Finished(q)} \subseteq listing[r]
Shown      == MaxActive = 1 => \A r \in Runs : at[r] = "returned" /\ Finished(r) => r \in dashboard

DashboardSound == OneAtATime /\ Listed /\ Shown

ReviewInv == TypeInv /\ (\A r \in Runs : Sound(r)) /\ MemorySound /\ DashboardSound

LEMMA InitReviewInv == Init => ReviewInv
<1> SUFFICES ASSUME Init PROVE ReviewInv
  OBVIOUS
<1>1. TypeInv
  BY InitTypeInv
<1>2. \A r \in Runs : Sound(r)
  BY DEF Init, Sound, FindingsSound, RecordSound, OthersSound, Fresh, Closing, Recorded,
         Unrecorded, Finished, NoRecord
<1>3. MemorySound
  BY DEF Init, MemorySound
<1>4. Active = {}
  BY DEF Init, Active, Ended
<1>5. DashboardSound
  BY <1>4, FS_EmptySet DEF Init, DashboardSound, OneAtATime, Listed, Shown
<1> QED
  BY <1>1, <1>2, <1>3, <1>5 DEF ReviewInv

LEMMA MemoryStep ==
    ASSUME TypeInv, \A q \in Runs : Sound(q), MemorySound, NEW r \in Runs, Step(r)
    PROVE  MemorySound'
<1> USE DEF TypeInv, TypeOK, Go, Mark, Fresh
<1>1. CASE Scan(r)
  BY <1>1 DEF Scan, MemorySound, stores
<1>2. CASE Curate(r)
  <2>1. PICK enabled \in BOOLEAN : memory' = memory \union
          {[run |-> r, finding |-> f] : f \in {g \in findings[r] : enabled /\ g.sourced /\ ~g.blocked}}
    BY <1>2 DEF Curate
  <2>2. at[r] = "finalized" /\ at' = [at EXCEPT ![r] = "curated"] /\ injected' = injected
    BY <1>2 DEF Curate, agents
  <2>3. \A f \in findings[r] : MarkedFinding(f, injected[r]) /\ AuditedFinding(f)
    BY <2>2 DEF Sound, FindingsSound, Closing
  <2>4. SUFFICES ASSUME NEW m \in memory' PROVE
          /\ at'[m.run] \notin Fresh
          /\ m.finding.sourced /\ ~m.finding.blocked /\ ~m.finding.absolute
          /\ m.finding.level = "high" \/ injected[m.run] => m.finding.review
    BY <2>2 DEF MemorySound
  <2> HIDE <1>2
  <2>5. CASE m \in memory
    BY <2>2, <2>5 DEF MemorySound
  <2>6. ASSUME NEW f \in findings[r], f.sourced, ~f.blocked, m = [run |-> r, finding |-> f]
        PROVE  /\ at'[m.run] \notin Fresh
               /\ m.finding.sourced /\ ~m.finding.blocked /\ ~m.finding.absolute
               /\ m.finding.level = "high" \/ injected[m.run] => m.finding.review
    BY <2>2, <2>3, <2>6 DEF MarkedFinding, AuditedFinding
  <2> QED
    BY <2>1, <2>5, <2>6
<1>3. ASSUME memory' = memory, injected' = injected,
             \A q \in Runs : at[q] \notin Fresh => at'[q] \notin Fresh
      PROVE  MemorySound'
  BY <1>3 DEF MemorySound
<1>4. CASE Create(r) \/ Parse(r) \/ Retrieve(r) \/ Reflect(r) \/ Finalize(r) \/ WriteReport(r)
  BY <1>3, <1>4 DEF Create, Parse, Retrieve, Reflect, Finalize, WriteReport, stores, agents
<1>5. CASE Draft(r)
  BY <1>3, <1>5 DEF Draft, stores
<1>6. CASE Approve(r)
  BY <1>3, <1>6 DEF Approve, stores
<1>7. CASE SaveRun(r) \/ ListRuns(r) \/ ExportDashboard(r) \/ Fail(r) \/ Abandon(r)
  BY <1>3, <1>7 DEF SaveRun, ListRuns, ExportDashboard, Fail, Abandon, agents
<1>8. CASE \/ SaveSnapshot(r, "recorded", "snapped", "completed")
           \/ SaveSnapshot(r, "failed", "noted", "failed")
  BY <1>3, <1>8 DEF SaveSnapshot, agents
<1>9. CASE \/ Announce(r, "snapped", "announced", "completed")
           \/ Announce(r, "noted", "returned", "failed")
  BY <1>3, <1>9 DEF Announce, agents
<1> QED
  BY <1>1, <1>2, <1>4, <1>5, <1>6, <1>7, <1>8, <1>9 DEF Step

\* Only Create starts a review, and it waits for the others.
LEMMA ActiveStep ==
    ASSUME TypeInv, OneAtATime, NEW r \in Runs, Step(r)
    PROVE  OneAtATime' /\ (~Create(r) => r \in Active)
<1> USE DEF TypeInv, TypeOK, Go
<1>1. CASE Create(r)
  <2>1. at' = [at EXCEPT ![r] = "created"] /\ Cardinality(Active) < MaxActive
    BY <1>1 DEF Create
  <2>2. Active' = Active \union {r}
    BY <2>1 DEF Active, Ended
  <2>3. IsFiniteSet(Active')
    BY <2>2, FS_AddElement DEF OneAtATime
  <2>4. MaxActive = 1 => Active = {}
    BY <2>1, FS_EmptySet, FS_CardinalityType DEF OneAtATime
  <2> QED
    BY <1>1, <2>2, <2>3, <2>4 DEF OneAtATime
<1>2. CASE ~Create(r)
  <2>1. r \in Active /\ \A q \in Runs : q # r => at'[q] = at[q]
    <3>1. CASE Parse(r) \/ Scan(r) \/ Retrieve(r) \/ Reflect(r) \/ Finalize(r) \/ Curate(r)
      BY <3>1 DEF Parse, Scan, Retrieve, Reflect, Finalize, Curate, Active, Ended
    <3>2. CASE Draft(r)
      BY <3>2 DEF Draft, Active, Ended
    <3>3. CASE Approve(r)
      BY <3>3 DEF Approve, Active, Ended
    <3>4. CASE WriteReport(r) \/ SaveRun(r) \/ ListRuns(r) \/ ExportDashboard(r) \/ Fail(r) \/ Abandon(r)
      BY <3>4 DEF WriteReport, SaveRun, ListRuns, ExportDashboard, Fail, Abandon, Active, Ended
    <3>5. CASE \/ SaveSnapshot(r, "recorded", "snapped", "completed")
               \/ SaveSnapshot(r, "failed", "noted", "failed")
      BY <3>5 DEF SaveSnapshot, Active, Ended
    <3>6. CASE \/ Announce(r, "snapped", "announced", "completed")
               \/ Announce(r, "noted", "returned", "failed")
      BY <3>6 DEF Announce, Active, Ended
    <3> QED
      BY <1>2, <3>1, <3>2, <3>3, <3>4, <3>5, <3>6 DEF Step
  <2>2. Active' \subseteq Active
    BY <2>1 DEF Active
  <2>3. IsFiniteSet(Active')
    BY <2>2, FS_Subset DEF OneAtATime
  <2> QED
    BY <2>1, <2>2, <2>3 DEF OneAtATime
<1> QED
  BY <1>1, <1>2

LEMMA DashboardStep ==
    ASSUME TypeInv, \A q \in Runs : Sound(q), DashboardSound, NEW r \in Runs, Step(r)
    PROVE  DashboardSound'
<1> USE DEF TypeInv, TypeOK, Go, Mark
<1>1. OneAtATime' /\ (~Create(r) => r \in Active)
  BY ActiveStep DEF DashboardSound
<1> SUFFICES ASSUME MaxActive = 1 PROVE Listed' /\ Shown'
  BY <1>1 DEF DashboardSound, Listed, Shown
<1>2. \A q \in Runs : at[q] = "listed" /\ ~Create(r) => q = r
  BY <1>1 DEF DashboardSound, OneAtATime, Active, Ended
<1>3. ASSUME record' = record, dashboard' = dashboard,
             \A q \in Runs : at'[q] = "listed" => at[q] = "listed" /\ listing'[q] = listing[q],
             \A q \in Runs : at'[q] = "returned" /\ Finished(q) => at[q] = "returned"
      PROVE  Listed' /\ Shown'
  BY <1>3 DEF DashboardSound, Listed, Shown, Finished
<1>4. CASE Create(r) \/ Parse(r) \/ Scan(r) \/ Retrieve(r) \/ Reflect(r) \/ Finalize(r) \/ Curate(r)
  BY <1>3, <1>4 DEF Create, Parse, Scan, Retrieve, Reflect, Finalize, Curate, stores
<1>5. CASE Draft(r)
  BY <1>3, <1>5 DEF Draft, stores
<1>6. CASE Approve(r)
  BY <1>3, <1>6 DEF Approve, stores
<1>7. CASE WriteReport(r) \/ Abandon(r)
  BY <1>3, <1>7 DEF WriteReport, Abandon
<1>8. CASE \/ SaveSnapshot(r, "recorded", "snapped", "completed")
           \/ SaveSnapshot(r, "failed", "noted", "failed")
  BY <1>3, <1>8 DEF SaveSnapshot
<1>9. CASE Announce(r, "snapped", "announced", "completed")
  BY <1>3, <1>9 DEF Announce
<1>10. CASE Announce(r, "noted", "returned", "failed")
  <2>1. ~Finished(r)
    BY <1>10 DEF Announce, Sound, OthersSound, Finished
  <2> QED
    BY <1>3, <1>10, <2>1 DEF Announce
<1>11. CASE SaveRun(r) \/ Fail(r)
  <2>1. /\ \A q \in Runs : q # r => at'[q] = at[q] /\ record'[q] = record[q]
        /\ at'[r] \in {"recorded", "failed"} /\ dashboard' = dashboard /\ ~Create(r)
    BY <1>11 DEF SaveRun, Fail, Create
  <2>2. \A q \in Runs : at'[q] # "listed"
    BY <1>2, <2>1
  <2> QED
    BY <2>1, <2>2 DEF DashboardSound, Listed, Shown, Finished
<1>12. CASE ListRuns(r)
  <2>1. /\ at' = [at EXCEPT ![r] = "listed"] /\ record' = record /\ dashboard' = dashboard
        /\ listing' = [listing EXCEPT ![r] = {q \in Runs : record[q] # NoRecord}] /\ ~Create(r)
    BY <1>12 DEF ListRuns, Create
  <2>2. {q \in Runs : Finished(q)} \subseteq {q \in Runs : record[q] # NoRecord}
    BY DEF Finished, NoRecord
  <2> QED
    BY <1>2, <2>1, <2>2 DEF DashboardSound, Listed, Shown, Finished
<1>13. CASE ExportDashboard(r)
  <2>1. /\ at[r] = "listed" /\ at' = [at EXCEPT ![r] = "returned"] /\ record' = record
        /\ dashboard' = listing[r] /\ ~Create(r)
    BY <1>13 DEF ExportDashboard, Create
  <2>2. {q \in Runs : Finished(q)} \subseteq listing[r]
    BY <2>1 DEF DashboardSound, Listed
  <2> QED
    BY <1>2, <2>1, <2>2 DEF Listed, Shown, Finished
<1> QED
  BY <1>4, <1>5, <1>6, <1>7, <1>8, <1>9, <1>10, <1>11, <1>12, <1>13 DEF Step

LEMMA ReviewInvStep == ReviewInv /\ [Next]_vars => ReviewInv'
<1>1. ASSUME ReviewInv, NEW r \in Runs, Step(r) PROVE ReviewInv'
  BY <1>1, TypeStep, SoundStep, MemoryStep, DashboardStep DEF ReviewInv
<1>2. ASSUME ReviewInv, UNCHANGED vars PROVE ReviewInv'
  <2>1. TypeInv'
    BY <1>2 DEF ReviewInv, vars, TypeInv, TypeOK, ClauseLeft, HasStatus
  <2>2. \A r \in Runs : Sound(r)'
    BY <1>2, Frame DEF ReviewInv, vars
  <2>3. MemorySound' /\ DashboardSound'
    BY <1>2 DEF ReviewInv, vars, MemorySound, DashboardSound, OneAtATime, Listed, Shown, Active,
               Finished
  <2> QED
    BY <2>1, <2>2, <2>3 DEF ReviewInv
<1> QED
  BY <1>1, <1>2 DEF Next

LEMMA ReviewInvAlways == Spec => []ReviewInv
  BY InitReviewInv, ReviewInvStep, PTL DEF Spec

-----------------------------------------------------------------------------
(* The theorems.                                                           *)

\* No high risk leaves a finished run without being blocked or put up for review, and nothing does
\* when the contract carries an injection, for every rule, retrieval and answer of the model.
THEOREM RisksAreReviewed == Spec => []RiskIsReviewed
<1>1. ReviewInv => RiskIsReviewed
  BY DEF ReviewInv, RiskIsReviewed, Sound, RecordSound, AuditedFinding, MarkedFinding
<1> QED
  BY <1>1, ReviewInvAlways, PTL

\* A run that ends "completed" shows only sourced conclusions without absolute judgement.
THEOREM CompletedRunsAreClean == Spec => []CompletedIsClean
<1>1. ReviewInv => CompletedIsClean
  BY DEF ReviewInv, CompletedIsClean, Sound, RecordSound, MarkedFinding, Finished
<1> QED
  BY <1>1, ReviewInvAlways, PTL

\* The memory takes in only what the audit has passed and marked, also from a run that fails
\* later.
THEOREM MemoryIsAudited == Spec => []RememberedIsAudited
<1>1. ReviewInv => RememberedIsAudited
  BY DEF ReviewInv, RememberedIsAudited, MemorySound
<1> QED
  BY <1>1, ReviewInvAlways, PTL

\* Report, record, snapshot, event and (with one review at a time) dashboard of a run agree
\* wherever its review stops, for any number of runs and of reviews that raise.
THEOREM AllRecordsAgree == Spec => []RecordsAgree
<1>1. ReviewInv => RecordsAgree
  <2> SUFFICES ASSUME ReviewInv, NEW r \in Runs
               PROVE  /\ Finished(r) => r \in report
                      /\ snapshot[r] = "completed" => Finished(r)
                      /\ announced[r] = "completed" => snapshot[r] = "completed"
                      /\ snapshot[r] = "failed" => record[r].status = "failed"
                      /\ announced[r] = "failed" => snapshot[r] = "failed"
                      /\ at[r] = "returned" => record[r].status = status[r]
                      /\ MaxActive = 1 /\ at[r] = "returned" /\ Finished(r) => r \in dashboard
    BY DEF RecordsAgree
  <2> QED
    BY DEF ReviewInv, Sound, RecordSound, OthersSound, DashboardSound, Shown
<1> QED
  BY <1>1, ReviewInvAlways, PTL
=============================================================================
