------------------------ MODULE AuditPipeline_proofs ------------------------
(***************************************************************************)
(* The safety properties of AuditPipeline, proved for every catalogue,     *)
(* every evidence, every configuration and every set of failing steps.     *)
(* They follow from one inductive invariant, IInv, whose parts say how the *)
(* control state, the jobs, the saved artifact, the sandbox, the evidence  *)
(* and the matrix hang together.                                           *)
(***************************************************************************)
EXTENDS AuditPipeline, RequirementStatus_proofs, TLAPS

\* Jobs before "at" are closed, those after it have not begun; an exception can
\* leave the run before or after the job is marked.
JobsInOrder ==
    \A s \in Steps :
        /\ s < at => audit.job[s] \in Terminal
        /\ s > at => audit.job[s] = "ABSENT"
        /\ s = at /\ pc # "raised" =>
              audit.job[s] = IF pc \in {"body", "starting"} THEN "RUNNING" ELSE "ABSENT"
        /\ s = at => audit.job[s] \in {"RUNNING", "ABSENT"}

\* The control state, the job it is at and the status of the audit agree.
ControlAgrees ==
    /\ pc = "created" => at = Discovery /\ audit.status = "CREATED"
    /\ pc = "step" => audit.status = "RUNNING"
    /\ pc = "body" => at \in Steps /\ Enabled(at) /\ audit.status = "RUNNING"
    /\ pc = "starting" => at = AppStart /\ config.authorized /\ audit.status = "RUNNING"
    /\ pc \in {"compare", "done"} => at = Report + 1 /\ audit.status = "COMPLETE"
    /\ audit.status = "COMPLETE" => at = Report + 1

\* The artifact differs from the audit in memory in its jobs at most, and only
\* between a step that was not saved and the next save.
DiskFollows ==
    /\ disk = [audit EXCEPT !.job = disk.job]
    /\ pc \in {"created", "body"} \/ at > Correlation => disk = audit
    /\ \A s \in Steps : disk.job[s] \in Terminal =>
          s < at \/ (s = at /\ pc \in {"starting", "raised"})

\* What is known of the sandbox.
SandboxTracked ==
    /\ app = "runserver" => startup = "process" \/ (pc = "raised" /\ at = AppStart)
    /\ startup = "process" => app # "none"
    /\ app # "none" \/ base_url => config.authorized
    /\ at <= AppStart => startup = "none"
    /\ at > Correlation \/ (at = Correlation /\ pc = "body") =>
          startup \in {"none", "stopped"}
    /\ at > AppStart /\ audit.job[AppStart] = "SUCCESS" => base_url

\* Evidence comes from jobs that are closed, and "ok" evidence from successful
\* ones; dynamic evidence needs the authorization.
EvidenceTraced ==
    \A e \in audit.evidence :
        /\ e.source # "internal" =>
              /\ SOURCE_JOBS(e.source) < at
              /\ e.polarity = "ok" => audit.job[SOURCE_JOBS(e.source)] = "SUCCESS"
        /\ e.source \in {"dast", "network", "automated"} => config.authorized

\* The matrix is the correlation of the evidence, the report shows the matrix.
MatrixDerived ==
    /\ at <= Correlation => audit.result = NoResults
    /\ audit.result # NoResults => audit.result = Correlate(audit.evidence)
    /\ audit.report_paths => at = Report + 1 /\ report.result = audit.result

IInv == /\ TypeOK
        /\ JobsInOrder
        /\ ControlAgrees
        /\ DiskFollows
        /\ SnapshotOrder
        /\ SandboxTracked
        /\ EvidenceTraced
        /\ MatrixDerived
-----------------------------------------------------------------------------
(* The operators the model is built from. *)

USE DEF Discovery, InitReqs, Sast, Settings, Dependencies, Endpoints, AppStart,
        Dast, SecurityTests, Network, Correlation, Report, Steps

\* The matrix gives every requirement a verdict.
LEMMA CorrelateType ==
    ASSUME NEW evs
    PROVE  Correlate(evs) \in [Requirements -> Verdicts]
BY VerdictTyped DEF Correlate

\* A PASS in the matrix rests on the evidence of its own requirement.
LEMMA PassInMatrix ==
    ASSUME NEW evs \in SUBSET EvidenceOf(Requirements), NEW r \in Requirements,
           Correlate(evs)[r] = "PASS"
    PROVE  /\ Level[r] = "FULLY_AUTOMATED"
           /\ \E e \in evs : e.req = r /\ e.polarity = "ok"
           /\ \A e \in evs : e.req = r => e.polarity # "vuln"
<1> DEFINE mine == {e \in evs : e.req = r}
<1>1. ComputeStatus(Level[r], mine, TRUE) = "PASS"
    BY DEF Correlate
<1>2. \A e \in mine : e.strong \in BOOLEAN
    BY DEF EvidenceOf
<1> HIDE DEF mine
<1>3. /\ Level[r] = "FULLY_AUTOMATED"
      /\ \E e \in mine : e.polarity = "ok"
      /\ \A e \in mine : e.polarity # "vuln"
    BY <1>1, <1>2, PassNeedsProof
<1>4. QED
    BY <1>3 DEF mine

\* set_job changes one job of the audit and nothing else.
LEMMA SetJobShape ==
    ASSUME NEW a \in AuditRecord, NEW s \in Steps, NEW st \in JobStatuses
    PROVE  /\ SetJob(a, s, st) \in AuditRecord
           /\ SetJob(a, s, st).job = [a.job EXCEPT ![s] = st]
           /\ SetJob(a, s, st).status = a.status
           /\ SetJob(a, s, st).evidence = a.evidence
           /\ SetJob(a, s, st).result = a.result
           /\ SetJob(a, s, st).report_paths = a.report_paths
BY DEF SetJob, AuditRecord

\* Every evidence source has a scanning job before the correlation, except the
\* internal checks; a job has the evidence of its own source only.
LEMMA SourceJobs ==
    ASSUME NEW e \in EvidenceOf(Requirements)
    PROVE  /\ SOURCE_JOBS(e.source) \in Steps
           /\ e.source # "internal" => SOURCE_JOBS(e.source) < Correlation
           /\ e.source \in {"dast", "network", "automated"} <=>
                 SOURCE_JOBS(e.source) \in {Dast, Network, SecurityTests}
BY DEF EvidenceOf, Sources, SOURCE_JOBS
-----------------------------------------------------------------------------
(* The invariant. *)

LEMMA InitIInv == Init => IInv
<1> SUFFICES ASSUME Init PROVE IInv
    OBVIOUS
<1> USE DEF Init, NewAudit, NoReport, NoResults
<1>1. audit \in AuditRecord /\ NoResults \in [Requirements -> Verdicts \union {"NONE"}]
    BY DEF AuditRecord, JobStatuses
<1>2. TypeOK
  <2>1. report.result = NoResults /\ report.compared = FALSE
      OBVIOUS
  <2>2. at \in 1..(Report + 1) /\ disk \in AuditRecord
      BY <1>1
  <2> HIDE DEF NewAudit, NoResults, NoReport
  <2>3. QED
      BY <1>1, <2>1, <2>2 DEF TypeOK
<1>3. \A s \in Steps : audit.job[s] = "ABSENT" /\ disk.job[s] = "ABSENT"
    OBVIOUS
<1>4. JobsInOrder /\ ControlAgrees /\ SnapshotOrder
    BY <1>3 DEF JobsInOrder, ControlAgrees, SnapshotOrder
<1>5. DiskFollows
  <2>1. disk = [audit EXCEPT !.job = disk.job]
      OBVIOUS
  <2>2. QED
      BY <2>1, <1>3 DEF DiskFollows, Terminal
<1>6. SandboxTracked
    BY DEF SandboxTracked
<1>7. EvidenceTraced
    BY DEF EvidenceTraced
<1>8. MatrixDerived
    BY DEF MatrixDerived
<1>9. QED
    BY <1>2, <1>4, <1>5, <1>6, <1>7, <1>8 DEF IInv

\* An audit whose jobs are closed up to one, and absent after it, is in order.
LEMMA ClosedInOrder ==
    ASSUME NEW job, NEW n \in Nat,
           \A s \in Steps : /\ s < n => job[s] \in Terminal
                            /\ s > n => job[s] = "ABSENT"
    PROVE  \A s, t \in Steps : t < s /\ job[s] # "ABSENT" => job[t] \in Terminal
<1> SUFFICES ASSUME NEW s \in Steps, NEW t \in Steps, t < s, job[s] # "ABSENT"
             PROVE  job[t] \in Terminal
    OBVIOUS
<1>1. s <= n
    OBVIOUS
<1>2. QED
    BY <1>1

\* The end of a step, whatever it did to the data of the audit.
LEMMA EndStepKeeps ==
    ASSUME IInv, NEW a \in AuditRecord, NEW status \in Terminal, EndStep(a, status),
           a.job = audit.job, a.status = audit.status,
           a.report_paths => at = Report,
           at # AppStart
    PROVE  /\ audit' \in AuditRecord /\ disk' = audit' /\ pc' = "step" /\ at' = at + 1
           /\ UNCHANGED <<config, base_url, app, startup>>
           /\ audit'.job = [audit.job EXCEPT ![at] = status]
           /\ audit'.evidence = a.evidence /\ audit'.result = a.result
           /\ audit'.report_paths = a.report_paths
           /\ at \in Steps
           /\ JobsInOrder' /\ ControlAgrees' /\ DiskFollows' /\ SnapshotOrder'
           /\ SandboxTracked'
<1>1. /\ pc = "body" /\ pc' = "step" /\ at' = at + 1
      /\ audit' = SetJob(a, at, status) /\ disk' = audit'
      /\ UNCHANGED <<config, base_url, app, startup>>
    BY DEF EndStep, Save
<1>2. at \in Steps /\ audit.status = "RUNNING"
    BY <1>1 DEF IInv, ControlAgrees
<1>3. /\ audit' \in AuditRecord
      /\ audit'.job = [audit.job EXCEPT ![at] = status]
      /\ audit'.status = audit.status
      /\ audit'.evidence = a.evidence /\ audit'.result = a.result
      /\ audit'.report_paths = a.report_paths
  <2>1. status \in JobStatuses
      BY DEF JobStatuses
  <2>2. QED
      BY <1>1, <1>2, <2>1, SetJobShape
<1>4. audit.job \in [Steps -> JobStatuses]
    BY DEF IInv, TypeOK, AuditRecord
<1>5. JobsInOrder'
    BY <1>1, <1>2, <1>3, <1>4 DEF IInv, JobsInOrder
<1>6. ControlAgrees'
    BY <1>1, <1>2, <1>3 DEF ControlAgrees
<1>7. DiskFollows'
  <2>1. disk' = [audit' EXCEPT !.job = disk'.job]
      BY <1>1, <1>3 DEF AuditRecord
  <2>2. \A s \in Steps : disk'.job[s] \in Terminal => s < at'
      BY <1>1, <1>2, <1>3, <1>4 DEF IInv, JobsInOrder, Terminal
  <2>3. QED
      BY <1>1, <2>1, <2>2 DEF DiskFollows
<1>8. SnapshotOrder'
  <2>1. at' \in Nat
      BY <1>1, <1>2
  <2>2. \A s \in Steps : /\ s < at' => audit'.job[s] \in Terminal
                         /\ s > at' => audit'.job[s] = "ABSENT"
      BY <1>5 DEF JobsInOrder
  <2>3. \A s, t \in Steps :
           t < s /\ audit'.job[s] # "ABSENT" => audit'.job[t] \in Terminal
      BY <2>1, <2>2, ClosedInOrder
  <2>4. QED
      BY <1>1, <2>3 DEF SnapshotOrder
<1>9. SandboxTracked'
    BY <1>1, <1>2, <1>3, <1>4 DEF IInv, SandboxTracked
<1>10. QED
    BY <1>1, <1>2, <1>3, <1>5, <1>6, <1>7, <1>8, <1>9
\* Beginning a run, and the steps that save nothing new about their job.
LEMMA RunFullKeeps == IInv /\ RunFull => IInv'
<1> SUFFICES ASSUME IInv, RunFull PROVE IInv'
    OBVIOUS
<1>1. /\ pc = "created" /\ pc' = "step"
      /\ audit' = [audit EXCEPT !.status = "RUNNING"] /\ disk' = audit'
      /\ UNCHANGED <<config, at, base_url, app, startup, report>>
    BY DEF RunFull, Save
<1>2. audit \in AuditRecord /\ disk = audit /\ at = Discovery
    BY <1>1 DEF IInv, TypeOK, ControlAgrees, DiskFollows
<1>3. /\ audit' \in AuditRecord
      /\ audit'.job = audit.job /\ audit'.status = "RUNNING"
      /\ audit'.evidence = audit.evidence /\ audit'.result = audit.result
      /\ audit'.report_paths = audit.report_paths
    BY <1>1, <1>2 DEF AuditRecord
<1>4. TypeOK'
    BY <1>1, <1>3 DEF IInv, TypeOK
<1>5. JobsInOrder' /\ ControlAgrees' /\ SnapshotOrder'
    BY <1>1, <1>2, <1>3 DEF IInv, JobsInOrder, ControlAgrees, SnapshotOrder
<1>6. DiskFollows'
  <2>1. disk' = [audit' EXCEPT !.job = disk'.job]
      BY <1>1, <1>3 DEF AuditRecord
  <2>2. QED
      BY <1>1, <1>2, <1>3, <2>1 DEF IInv, DiskFollows
<1>7. SandboxTracked' /\ EvidenceTraced' /\ MatrixDerived'
    BY <1>1, <1>2, <1>3 DEF IInv, SandboxTracked, EvidenceTraced, MatrixDerived
<1>8. QED
    BY <1>4, <1>5, <1>6, <1>7 DEF IInv

LEMMA SkipStepKeeps == IInv /\ SkipStep => IInv'
<1> SUFFICES ASSUME IInv, SkipStep PROVE IInv'
    OBVIOUS
<1>1. /\ pc = "step" /\ at \in Steps /\ ~Enabled(at) /\ at' = at + 1
      /\ audit' = SetJob(audit, at, "SKIPPED")
      /\ UNCHANGED <<config, disk, pc, base_url, app, startup, report>>
    BY DEF SkipStep
<1>2. audit \in AuditRecord /\ audit.job \in [Steps -> JobStatuses]
    BY DEF IInv, TypeOK, AuditRecord
<1>3. /\ audit' \in AuditRecord
      /\ audit'.job = [audit.job EXCEPT ![at] = "SKIPPED"]
      /\ audit'.status = audit.status
      /\ audit'.evidence = audit.evidence /\ audit'.result = audit.result
      /\ audit'.report_paths = audit.report_paths
  <2>1. "SKIPPED" \in JobStatuses
      BY DEF JobStatuses, Terminal
  <2>2. QED
      BY <1>1, <1>2, <2>1, SetJobShape
<1>4. at < Correlation
    BY <1>1 DEF Enabled
<1>5. TypeOK'
    BY <1>1, <1>3 DEF IInv, TypeOK
<1>6. JobsInOrder'
    BY <1>1, <1>2, <1>3 DEF IInv, JobsInOrder, Terminal
<1>7. ControlAgrees' /\ SnapshotOrder'
    BY <1>1, <1>3 DEF IInv, ControlAgrees, SnapshotOrder
<1>8. DiskFollows'
  <2>1. disk' = [audit' EXCEPT !.job = disk'.job]
      BY <1>1, <1>2 DEF IInv, DiskFollows, SetJob, AuditRecord
  <2>2. QED
      BY <1>1, <1>4, <2>1 DEF IInv, DiskFollows
<1>9. SandboxTracked'
    BY <1>1, <1>2, <1>3, <1>4 DEF IInv, SandboxTracked
<1>10. EvidenceTraced'
    BY <1>1, <1>2, <1>3, SourceJobs DEF IInv, TypeOK, AuditRecord, EvidenceTraced
<1>11. MatrixDerived'
    BY <1>1, <1>3, <1>4 DEF IInv, MatrixDerived
<1>12. QED
    BY <1>5, <1>6, <1>7, <1>8, <1>9, <1>10, <1>11 DEF IInv

LEMMA BeginStepKeeps == IInv /\ BeginStep => IInv'
<1> SUFFICES ASSUME IInv, BeginStep PROVE IInv'
    OBVIOUS
<1>1. /\ pc = "step" /\ at \in Steps /\ Enabled(at) /\ ~CleanupDue /\ pc' = "body"
      /\ audit' = SetJob(audit, at, "RUNNING") /\ disk' = audit'
      /\ UNCHANGED <<config, at, base_url, app, startup, report>>
    BY DEF BeginStep, Save
<1>2. audit \in AuditRecord /\ audit.job \in [Steps -> JobStatuses]
    BY DEF IInv, TypeOK, AuditRecord
<1>3. /\ audit' \in AuditRecord
      /\ audit'.job = [audit.job EXCEPT ![at] = "RUNNING"]
      /\ audit'.status = audit.status
      /\ audit'.evidence = audit.evidence /\ audit'.result = audit.result
      /\ audit'.report_paths = audit.report_paths
  <2>1. "RUNNING" \in JobStatuses
      BY DEF JobStatuses
  <2>2. QED
      BY <1>1, <1>2, <2>1, SetJobShape
<1>4. TypeOK'
    BY <1>1, <1>3 DEF IInv, TypeOK
<1>5. JobsInOrder'
    BY <1>1, <1>2, <1>3 DEF IInv, JobsInOrder
<1>6. ControlAgrees'
    BY <1>1, <1>3 DEF IInv, ControlAgrees, Enabled
<1>7. SnapshotOrder'
  <2>1. \A s \in Steps : /\ s < at => audit'.job[s] \in Terminal
                         /\ s > at => audit'.job[s] = "ABSENT"
      BY <1>1, <1>5 DEF JobsInOrder
  <2>2. \A s, t \in Steps :
           t < s /\ audit'.job[s] # "ABSENT" => audit'.job[t] \in Terminal
      BY <1>1, <2>1, ClosedInOrder
  <2>3. QED
      BY <1>1, <2>2 DEF SnapshotOrder
<1>8. DiskFollows'
  <2>1. disk' = [audit' EXCEPT !.job = disk'.job]
      BY <1>1, <1>3 DEF AuditRecord
  <2>2. \A s \in Steps : disk'.job[s] \in Terminal => s < at'
      BY <1>1, <1>2, <1>3 DEF IInv, JobsInOrder, Terminal
  <2>3. QED
      BY <1>1, <2>1, <2>2 DEF DiskFollows
<1>9. SandboxTracked'
    BY <1>1, <1>2, <1>3 DEF IInv, SandboxTracked, CleanupDue, TypeOK
<1>10. EvidenceTraced'
    BY <1>1, <1>2, <1>3, SourceJobs DEF IInv, TypeOK, AuditRecord, EvidenceTraced
<1>11. MatrixDerived'
    BY <1>1, <1>3 DEF IInv, MatrixDerived
<1>12. QED
    BY <1>4, <1>5, <1>6, <1>7, <1>8, <1>9, <1>10, <1>11 DEF IInv
-----------------------------------------------------------------------------
(* The steps that end a job: what they do to evidence and matrix. *)

\* The job at hand ends with a status, and brings new evidence, its own.
JobEnds(status) ==
    /\ at \in Steps /\ at' = at + 1
    /\ audit'.job = [audit.job EXCEPT ![at] = status]
    /\ UNCHANGED config

Brings(new, status) ==
    /\ new \in SUBSET EvidenceOf(Requirements)
    /\ audit'.evidence = audit.evidence \union new
    /\ \A e \in new :
          /\ e.source # "internal" =>
                SOURCE_JOBS(e.source) = at /\ (e.polarity = "ok" => status = "SUCCESS")
          /\ e.source \in {"dast", "network", "automated"} => config.authorized

LEMMA EvidenceAdded ==
    ASSUME IInv, NEW new, NEW status, JobEnds(status), Brings(new, status)
    PROVE  EvidenceTraced'
<1> USE DEF JobEnds, Brings
<1>1. /\ audit.job \in [Steps -> JobStatuses]
      /\ audit.evidence \in SUBSET EvidenceOf(Requirements)
    BY DEF IInv, TypeOK, AuditRecord
<1>2. ASSUME NEW e \in audit.evidence
      PROVE  /\ e.source # "internal" =>
                    /\ SOURCE_JOBS(e.source) < at'
                    /\ e.polarity = "ok" => audit'.job[SOURCE_JOBS(e.source)] = "SUCCESS"
             /\ e.source \in {"dast", "network", "automated"} => config'.authorized
  <2>1. SOURCE_JOBS(e.source) \in Steps
      BY <1>1, SourceJobs
  <2>2. QED
      BY <1>1, <2>1 DEF IInv, EvidenceTraced
<1>3. ASSUME NEW e \in new
      PROVE  /\ e.source # "internal" =>
                    /\ SOURCE_JOBS(e.source) < at'
                    /\ e.polarity = "ok" => audit'.job[SOURCE_JOBS(e.source)] = "SUCCESS"
             /\ e.source \in {"dast", "network", "automated"} => config'.authorized
    BY <1>1
<1>4. QED
    BY <1>2, <1>3 DEF EvidenceTraced

\* Until the correlation there is no matrix and no report.
LEMMA NoMatrixYet ==
    ASSUME IInv, at \in Steps, at < Correlation, at' = at + 1,
           audit'.result = NoResults, audit'.report_paths = audit.report_paths
    PROVE  MatrixDerived'
BY DEF IInv, MatrixDerived

LEMMA EndPlainStepKeeps == IInv /\ EndPlainStep => IInv'
<1> SUFFICES ASSUME IInv, EndPlainStep PROVE IInv'
    OBVIOUS
<1>1. /\ at \in {Discovery, InitReqs, Endpoints} /\ UNCHANGED report
      /\ audit \in AuditRecord /\ audit.result = NoResults /\ ~audit.report_paths
    BY DEF EndPlainStep, IInv, TypeOK, MatrixDerived, AuditRecord
<1>2. NoResults \in [Requirements -> Verdicts \union {"NONE"}]
    BY DEF NoResults
<1>3. PICK a \in AuditRecord, status \in Terminal :
         /\ EndStep(a, status)
         /\ a.job = audit.job /\ a.status = audit.status /\ a.evidence = audit.evidence
         /\ a.result = NoResults /\ a.report_paths = audit.report_paths
  <2> DEFINE b == [audit EXCEPT !.result = NoResults]
  <2>1. /\ b \in AuditRecord /\ b.job = audit.job /\ b.status = audit.status
        /\ b.evidence = audit.evidence /\ b.result = NoResults
        /\ b.report_paths = audit.report_paths
      BY <1>1, <1>2 DEF AuditRecord
  <2>2. CASE EndStep(b, "SUCCESS")
      BY <2>1, <2>2 DEF Terminal
  <2>3. CASE EndStep(audit, "SUCCESS")
      BY <1>1, <2>3 DEF Terminal
  <2>4. CASE EndStep(audit, "FAILED")
      BY <1>1, <2>4 DEF Terminal
  <2>5. QED
      BY <2>2, <2>3, <2>4 DEF EndPlainStep
<1>4. /\ audit' \in AuditRecord /\ disk' = audit' /\ pc' = "step" /\ at' = at + 1
      /\ UNCHANGED <<config, base_url, app, startup>>
      /\ audit'.job = [audit.job EXCEPT ![at] = status]
      /\ audit'.evidence = audit.evidence /\ audit'.result = NoResults
      /\ audit'.report_paths = audit.report_paths
      /\ JobsInOrder' /\ ControlAgrees' /\ DiskFollows' /\ SnapshotOrder'
      /\ SandboxTracked'
    BY <1>1, <1>3, EndStepKeeps
<1>5. TypeOK'
    BY <1>1, <1>4 DEF IInv, TypeOK
<1>6. EvidenceTraced'
  <2>1. JobEnds(status) /\ Brings({}, status)
      BY <1>1, <1>4 DEF JobEnds, Brings
  <2>2. QED
      BY <2>1, EvidenceAdded
<1>7. MatrixDerived'
    BY <1>1, <1>4, NoMatrixYet
<1>8. QED
    BY <1>4, <1>5, <1>6, <1>7 DEF IInv
\* Every scanner ends in a terminal state and brings evidence of its own, "ok"
\* evidence only with SUCCESS, and dynamic evidence only when authorized.
LEMMA ScanOutcomesSound ==
    ASSUME IInv, at \in ScannerSteps, NEW out \in ScanOutcomes(at)
    PROVE  /\ out.status \in Terminal
           /\ out.evidence \in SUBSET EvidenceFrom(at)
           /\ out.status # "SUCCESS" => \A e \in out.evidence : e.polarity # "ok"
           /\ at \in {Dast, Network} /\ out.evidence # {} => config.authorized
<1>1. CASE at = Dast
  <2>1. ScanOutcomes(at) = DastOutcomes
      BY <1>1 DEF ScanOutcomes
  <2>2. base_url => config.authorized
      BY DEF IInv, SandboxTracked
  <2>3. QED
      BY <1>1, <2>1, <2>2 DEF DastOutcomes, Raised, Skipped, Finished, Terminal
<1>2. CASE at = Network
  <2>1. ScanOutcomes(at) = NetworkOutcomes
      BY <1>2 DEF ScanOutcomes
  <2>2. QED
      BY <1>2, <2>1 DEF NetworkOutcomes, Raised, NoInput, Skipped, Finished, Terminal
<1>3. CASE at = Sast
  <2>1. ScanOutcomes(at) = Raised(at) \union Finished(at)
      BY <1>3 DEF ScanOutcomes
  <2>2. QED
      BY <1>3, <2>1 DEF Raised, Finished, Terminal
<1>4. CASE at \in {Settings, Dependencies}
  <2>1. ScanOutcomes(at) = Raised(at) \union NoInput(at) \union Finished(at)
      BY <1>4 DEF ScanOutcomes
  <2>2. QED
      BY <1>4, <2>1 DEF Raised, NoInput, Finished, Terminal
<1>5. QED
    BY <1>1, <1>2, <1>3, <1>4 DEF ScannerSteps

\* What an engine brings is its own, and never internal.
LEMMA EvidenceFromOwn ==
    ASSUME NEW s \in Steps, NEW e \in EvidenceFrom(s)
    PROVE  /\ e \in EvidenceOf(Requirements)
           /\ SOURCE_JOBS(e.source) = s
           /\ e.source \in {"dast", "network", "automated"} <=>
                 s \in {Dast, Network, SecurityTests}
<1>1. e \in EvidenceOf(Requirements) /\ SOURCE_JOBS(e.source) = s
    BY EvidenceAssumption DEF EvidenceFrom
<1>2. QED
    BY <1>1, SourceJobs

\* A job ends with new evidence of its own engine.
LEMMA EvidenceStepKeeps ==
    ASSUME IInv, UNCHANGED report, at \in ScannerSteps \union {SecurityTests},
           NEW evs \in SUBSET EvidenceFrom(at), NEW status \in Terminal,
           status # "SUCCESS" => \A e \in evs : e.polarity # "ok",
           at \in {Dast, Network, SecurityTests} /\ evs # {} => config.authorized,
           EndStep([audit EXCEPT !.evidence = audit.evidence \union evs], status)
    PROVE  IInv'
<1> DEFINE a == [audit EXCEPT !.evidence = audit.evidence \union evs]
<1>1. at \in Steps /\ at < Correlation
    BY DEF ScannerSteps
<1>2. evs \in SUBSET EvidenceOf(Requirements)
    BY <1>1, EvidenceFromOwn
<1>3. /\ audit \in AuditRecord /\ audit.result = NoResults /\ ~audit.report_paths
    BY <1>1 DEF IInv, TypeOK, MatrixDerived, AuditRecord
<1>4. /\ a \in AuditRecord /\ a.job = audit.job /\ a.status = audit.status
      /\ a.evidence = audit.evidence \union evs /\ a.result = NoResults
      /\ a.report_paths = audit.report_paths
    BY <1>2, <1>3 DEF AuditRecord
<1> HIDE DEF a
<1>5. /\ audit' \in AuditRecord /\ disk' = audit' /\ pc' = "step" /\ at' = at + 1
      /\ UNCHANGED <<config, base_url, app, startup>>
      /\ audit'.job = [audit.job EXCEPT ![at] = status]
      /\ audit'.evidence = audit.evidence \union evs /\ audit'.result = NoResults
      /\ audit'.report_paths = audit.report_paths
      /\ JobsInOrder' /\ ControlAgrees' /\ DiskFollows' /\ SnapshotOrder'
      /\ SandboxTracked'
  <2>1. EndStep(a, status) /\ at # AppStart
      BY DEF a, ScannerSteps
  <2>2. QED
      BY <1>3, <1>4, <2>1, EndStepKeeps
<1>6. TypeOK'
    BY <1>1, <1>5 DEF IInv, TypeOK
<1>7. EvidenceTraced'
  <2>1. \A e \in evs :
           /\ SOURCE_JOBS(e.source) = at /\ (e.polarity = "ok" => status = "SUCCESS")
           /\ e.source \in {"dast", "network", "automated"} => config.authorized
      BY <1>1, EvidenceFromOwn
  <2>2. JobEnds(status) /\ Brings(evs, status)
      BY <1>1, <1>2, <1>5, <2>1 DEF JobEnds, Brings
  <2>3. QED
      BY <2>2, EvidenceAdded
<1>8. MatrixDerived'
    BY <1>1, <1>5, NoMatrixYet
<1>9. QED
    BY <1>5, <1>6, <1>7, <1>8 DEF IInv

LEMMA EndScannerKeeps == IInv /\ EndScanner => IInv'
<1> SUFFICES ASSUME IInv, EndScanner PROVE IInv'
    OBVIOUS
<1>1. at \in ScannerSteps /\ UNCHANGED report
    BY DEF EndScanner
<1>2. PICK evs \in SUBSET EvidenceFrom(at), status \in Terminal :
         /\ EndStep([audit EXCEPT !.evidence = audit.evidence \union evs], status)
         /\ status # "SUCCESS" => \A e \in evs : e.polarity # "ok"
         /\ at \in {Dast, Network} /\ evs # {} => config.authorized
    BY <1>1, ScanOutcomesSound DEF EndScanner
<1>3. at # SecurityTests
    BY <1>1 DEF ScannerSteps
<1>4. QED
    BY <1>1, <1>2, <1>3, EvidenceStepKeeps

LEMMA EndSecurityTestsKeeps == IInv /\ EndSecurityTests => IInv'
<1> SUFFICES ASSUME IInv, EndSecurityTests PROVE IInv'
    OBVIOUS
<1>1. at = SecurityTests /\ UNCHANGED report /\ audit \in AuditRecord
    BY DEF EndSecurityTests, IInv, TypeOK
<1>2. PICK evs \in SUBSET EvidenceFrom(at), status \in {"SUCCESS", "FAILED"} :
         /\ EndStep([audit EXCEPT !.evidence = audit.evidence \union evs], status)
         /\ evs # {} => base_url /\ status = "SUCCESS"
  <2>1. audit = [audit EXCEPT !.evidence = audit.evidence \union {}]
      BY <1>1 DEF AuditRecord
  <2>2. QED
      BY <1>1, <2>1 DEF EndSecurityTests
<1>3. base_url => config.authorized
    BY DEF IInv, SandboxTracked
<1>4. status \in Terminal
    BY DEF Terminal
<1>5. QED
    BY <1>1, <1>2, <1>3, <1>4, EvidenceStepKeeps
-----------------------------------------------------------------------------
(* The sandbox. *)

LEMMA EndPlaceholderKeeps == IInv /\ EndPlaceholder => IInv'
<1> SUFFICES ASSUME IInv, EndPlaceholder PROVE IInv'
    OBVIOUS
<1>1. /\ pc = "body" /\ pc' = "starting" /\ at = AppStart
      /\ disk' = SetJob(audit, AppStart, "SUCCESS")
      /\ audit' = SetJob(audit, AppStart, "RUNNING")
      /\ UNCHANGED <<config, at, base_url, app, startup, report>>
    BY DEF EndPlaceholder
<1>2. /\ audit \in AuditRecord /\ audit.job \in [Steps -> JobStatuses]
      /\ audit.job[AppStart] = "RUNNING"
    BY <1>1 DEF IInv, TypeOK, AuditRecord, JobsInOrder
<1>3. audit' = audit
    BY <1>1, <1>2 DEF SetJob, AuditRecord
<1>4. disk' \in AuditRecord /\ disk'.job = [audit.job EXCEPT ![AppStart] = "SUCCESS"]
  <2>1. "SUCCESS" \in JobStatuses
      BY DEF JobStatuses, Terminal
  <2>2. QED
      BY <1>1, <1>2, <2>1, SetJobShape
<1>5. TypeOK'
    BY <1>1, <1>3, <1>4 DEF IInv, TypeOK
<1>6. JobsInOrder'
    BY <1>1, <1>3 DEF IInv, JobsInOrder
<1>7. ControlAgrees'
    BY <1>1, <1>3 DEF IInv, ControlAgrees, Enabled
<1>8. SnapshotOrder'
  <2>1. \A s \in Steps : /\ s < AppStart => disk'.job[s] \in Terminal
                         /\ s > AppStart => disk'.job[s] = "ABSENT"
      BY <1>1, <1>2, <1>4 DEF IInv, JobsInOrder
  <2>2. \A s, t \in Steps :
           t < s /\ disk'.job[s] # "ABSENT" => disk'.job[t] \in Terminal
      BY <2>1, ClosedInOrder
  <2>3. QED
      BY <2>2 DEF SnapshotOrder
<1>9. DiskFollows'
  <2>1. disk' = [audit' EXCEPT !.job = disk'.job]
      BY <1>1, <1>2, <1>3 DEF SetJob, AuditRecord
  <2>2. \A s \in Steps : disk'.job[s] \in Terminal => s <= AppStart
      BY <1>1, <1>2, <1>4 DEF IInv, JobsInOrder, Terminal
  <2>3. QED
      BY <1>1, <2>1, <2>2 DEF DiskFollows
<1>10. SandboxTracked' /\ EvidenceTraced' /\ MatrixDerived'
    BY <1>1, <1>3 DEF IInv, SandboxTracked, EvidenceTraced, MatrixDerived
<1>11. QED
    BY <1>5, <1>6, <1>7, <1>8, <1>9, <1>10 DEF IInv

LEMMA StartApplicationKeeps == IInv /\ StartApplication => IInv'
<1> SUFFICES ASSUME IInv, StartApplication PROVE IInv'
    OBVIOUS
<1>1. PICK status \in {"SUCCESS", "FAILED"} :
         /\ audit' = SetJob(audit, AppStart, status)
         /\ status = "SUCCESS" => base_url'
         /\ base_url' \in {base_url, TRUE}
         /\ app' \in {"none", "runserver", "containers"}
         /\ startup' \in {"process", "detached", "failed"}
         /\ app' = "runserver" <=> startup' = "process"
    BY DEF StartApplication, AppStarted, AppNotStarted
<1>2. /\ pc = "starting" /\ pc' = "step" /\ at' = at + 1
      /\ UNCHANGED <<config, disk, report>>
    BY DEF StartApplication
<1>3. at = AppStart /\ config.authorized /\ audit.status = "RUNNING"
    BY <1>2 DEF IInv, ControlAgrees
<1>4. audit \in AuditRecord /\ audit.job \in [Steps -> JobStatuses]
    BY DEF IInv, TypeOK, AuditRecord
<1>5. /\ audit' \in AuditRecord
      /\ audit'.job = [audit.job EXCEPT ![AppStart] = status]
      /\ audit'.status = audit.status
      /\ audit'.evidence = audit.evidence /\ audit'.result = audit.result
      /\ audit'.report_paths = audit.report_paths
  <2>1. status \in JobStatuses
      BY DEF JobStatuses, Terminal
  <2>2. QED
      BY <1>1, <1>4, <2>1, SetJobShape
<1>6. TypeOK'
  <2>1. base_url \in BOOLEAN
      BY DEF IInv, TypeOK
  <2>2. base_url' \in BOOLEAN
      BY <1>1, <2>1, Zenon
  <2>3. /\ at' \in 1..(Report + 1)
        /\ app' \in {"none", "runserver", "containers", "exited"}
        /\ startup' \in {"none", "process", "detached", "failed", "stopped"}
      BY <1>1, <1>2, <1>3
  <2>4. QED
      BY <1>2, <1>5, <2>2, <2>3 DEF IInv, TypeOK
<1>7. JobsInOrder'
    BY <1>2, <1>3, <1>4, <1>5 DEF IInv, JobsInOrder, Terminal
<1>8. ControlAgrees' /\ SnapshotOrder'
    BY <1>2, <1>3, <1>5 DEF IInv, ControlAgrees, SnapshotOrder
<1>9. DiskFollows'
  <2>1. disk' = [audit' EXCEPT !.job = disk'.job]
      BY <1>1, <1>2, <1>4 DEF IInv, DiskFollows, SetJob, AuditRecord
  <2>2. QED
      BY <1>2, <1>3, <2>1 DEF IInv, DiskFollows
<1>10. SandboxTracked'
    BY <1>1, <1>2, <1>3, <1>4, <1>5 DEF SandboxTracked
<1>11. EvidenceTraced'
  <2>1. \A e \in audit.evidence : e \in EvidenceOf(Requirements)
      BY <1>4 DEF AuditRecord
  <2>2. ASSUME NEW e \in audit.evidence
        PROVE  /\ e.source # "internal" =>
                      /\ SOURCE_JOBS(e.source) < at'
                      /\ e.polarity = "ok" =>
                            audit'.job[SOURCE_JOBS(e.source)] = "SUCCESS"
               /\ e.source \in {"dast", "network", "automated"} => config'.authorized
    <3>1. SOURCE_JOBS(e.source) \in Steps
        BY <2>1, SourceJobs
    <3>2. QED
        BY <1>2, <1>3, <1>4, <1>5, <3>1 DEF IInv, EvidenceTraced
  <2>3. QED
      BY <1>5, <2>2 DEF EvidenceTraced
<1>12. MatrixDerived'
    BY <1>2, <1>3, <1>5 DEF IInv, MatrixDerived
<1>13. QED
    BY <1>6, <1>7, <1>8, <1>9, <1>10, <1>11, <1>12 DEF IInv

\* An exception leaves the run, with the application up or not.
LEMMA RaisingKeeps ==
    ASSUME IInv, pc' = "raised",
           \/ app' = app
           \/ /\ app' \in {"none", "runserver", "containers"}
              /\ config.authorized /\ startup = "none" /\ at = AppStart,
           UNCHANGED <<config, audit, disk, at, base_url, startup, report>>
    PROVE  IInv'
<1>1. TypeOK' /\ SnapshotOrder'
    BY DEF IInv, TypeOK, SnapshotOrder
<1>2. JobsInOrder' /\ ControlAgrees' /\ DiskFollows'
    BY DEF IInv, JobsInOrder, ControlAgrees, DiskFollows
<1>3. SandboxTracked' /\ EvidenceTraced' /\ MatrixDerived'
    BY DEF IInv, SandboxTracked, EvidenceTraced, MatrixDerived
<1>4. QED
    BY <1>1, <1>2, <1>3 DEF IInv

LEMMA RaisesKeep ==
    ASSUME IInv, StartApplicationRaises \/ ConfigRaises \/ SaveRaises
    PROVE  IInv'
<1>1. CASE StartApplicationRaises
  <2>1. pc = "starting" => config.authorized /\ startup = "none" /\ at = AppStart
      BY DEF IInv, ControlAgrees, SandboxTracked
  <2>2. QED
      BY <1>1, <2>1, RaisingKeeps DEF StartApplicationRaises
<1>2. CASE ConfigRaises \/ SaveRaises
    BY <1>2, RaisingKeeps DEF ConfigRaises, SaveRaises
<1>3. QED
    BY <1>1, <1>2

\* The application exits, or is stopped: only the sandbox is concerned.
LEMMA SandboxStepKeeps ==
    ASSUME IInv, UNCHANGED <<config, audit, disk, pc, at, base_url, report>>,
           app' \in {app, "exited"}, startup' \in {startup, "stopped"},
           app # "none" \/ app' = "none",
           app' = "runserver" => startup' = "process" \/ (pc = "raised" /\ at = AppStart),
           startup' = "process" => app' # "none",
           startup' = "stopped" => startup = "stopped" \/ at > AppStart
    PROVE  IInv'
<1>1. TypeOK' /\ SnapshotOrder'
    BY DEF IInv, TypeOK, SnapshotOrder
<1>2. JobsInOrder' /\ ControlAgrees' /\ DiskFollows'
  <2>1. JobsInOrder'
      BY DEF IInv, JobsInOrder
  <2>2. ControlAgrees'
      BY DEF IInv, ControlAgrees, Enabled
  <2>3. DiskFollows'
      BY DEF IInv, DiskFollows
  <2>4. QED
      BY <2>1, <2>2, <2>3
<1>3. SandboxTracked'
    BY DEF IInv, TypeOK, SandboxTracked
<1>4. EvidenceTraced' /\ MatrixDerived'
    BY DEF IInv, EvidenceTraced, MatrixDerived
<1>5. QED
    BY <1>1, <1>2, <1>3, <1>4 DEF IInv

LEMMA AppExitsKeeps == IInv /\ AppExits => IInv'
<1> SUFFICES ASSUME IInv, AppExits PROVE IInv'
    OBVIOUS
<1>1. QED
    BY SandboxStepKeeps DEF AppExits, IInv, SandboxTracked, TypeOK

LEMMA StopApplicationKeeps == IInv /\ StopApplication => IInv'
<1> SUFFICES ASSUME IInv, StopApplication PROVE IInv'
    OBVIOUS
<1>1. /\ app = "runserver" => startup = "process" \/ (pc = "raised" /\ at = AppStart)
      /\ startup = "process" => app # "none"
    BY DEF IInv, SandboxTracked
<1>2. QED
    BY <1>1, SandboxStepKeeps DEF StopApplication, CleanupDue
-----------------------------------------------------------------------------
(* The correlation, the report and the end of the run. *)

LEMMA InternalEvidenceType ==
    ASSUME NEW flawed \in SUBSET FindingReqs, NEW scanned \in BOOLEAN,
           NEW e \in InternalChecks(flawed, scanned)
    PROVE  e \in EvidenceOf(Requirements) /\ e.source = "internal"
<1>1. PICK r \in Requirements, polarity \in Polarities :
         e = InternalEvidence(r, polarity)
    BY InternalAssumption DEF InternalChecks, Polarities
<1>2. QED
    BY <1>1 DEF InternalEvidence, EvidenceOf, Sources

LEMMA EndCorrelationKeeps == IInv /\ EndCorrelation => IInv'
<1> SUFFICES ASSUME IInv, EndCorrelation PROVE IInv'
    OBVIOUS
<1>1. /\ at = Correlation /\ UNCHANGED report
      /\ audit \in AuditRecord /\ audit.result = NoResults /\ ~audit.report_paths
    BY DEF EndCorrelation, IInv, TypeOK, MatrixDerived, AuditRecord
<1>2. PICK a \in AuditRecord, new \in SUBSET EvidenceOf(Requirements),
           status \in Terminal :
         /\ EndStep(a, status)
         /\ a.job = audit.job /\ a.status = audit.status
         /\ a.report_paths = audit.report_paths
         /\ a.evidence = audit.evidence \union new
         /\ \A e \in new : e.source = "internal"
         /\ a.result \in {NoResults, Correlate(a.evidence)}
  <2>1. CASE EndStep(audit, "FAILED")
    <3>1. /\ audit.evidence = audit.evidence \union {}
          /\ {} \in SUBSET EvidenceOf(Requirements) /\ "FAILED" \in Terminal
          /\ audit.result \in {NoResults, Correlate(audit.evidence)}
        BY <1>1 DEF Terminal
    <3>2. QED
        BY <1>1, <2>1, <3>1
  <2>2. CASE ~EndStep(audit, "FAILED")
    <3>1. PICK flawed \in SUBSET FindingReqs, scanned \in BOOLEAN :
             LET evs == audit.evidence \union InternalChecks(flawed, scanned)
                 c   == Correlated(audit, evs)
             IN  \/ EndStep(c, "FAILED")
                 \/ EndStep([c EXCEPT !.score = TRUE], "SUCCESS")
        BY <2>2 DEF EndCorrelation
    <3> DEFINE new == InternalChecks(flawed, scanned)
               evs == audit.evidence \union new
               c   == Correlated(audit, evs)
               d   == [c EXCEPT !.score = TRUE]
    <3>2. new \in SUBSET EvidenceOf(Requirements) /\ \A e \in new : e.source = "internal"
        BY InternalEvidenceType
    <3> HIDE DEF new
    <3>3. evs \in SUBSET EvidenceOf(Requirements)
        BY <1>1, <3>2 DEF AuditRecord
    <3>4. Correlate(evs) \in [Requirements -> Verdicts \union {"NONE"}]
        BY CorrelateType
    <3>5. /\ c \in AuditRecord /\ c.job = audit.job /\ c.status = audit.status
          /\ c.report_paths = audit.report_paths
          /\ c.evidence = evs /\ c.result = Correlate(evs)
        BY <1>1, <3>3, <3>4 DEF Correlated, AuditRecord
    <3> HIDE DEF c
    <3>6. /\ d \in AuditRecord /\ d.job = audit.job /\ d.status = audit.status
          /\ d.report_paths = audit.report_paths
          /\ d.evidence = evs /\ d.result = Correlate(evs)
        BY <3>5 DEF AuditRecord
    <3>7. EndStep(c, "FAILED") \/ EndStep(d, "SUCCESS")
        BY <3>1 DEF c, new
    <3> HIDE DEF d
    <3>8. CASE EndStep(c, "FAILED")
        BY <3>2, <3>5, <3>8 DEF Terminal
    <3>9. CASE EndStep(d, "SUCCESS")
        BY <3>2, <3>6, <3>9 DEF Terminal
    <3>10. QED
        BY <3>7, <3>8, <3>9
  <2>3. QED
      BY <2>1, <2>2
<1>3. /\ audit' \in AuditRecord /\ disk' = audit' /\ pc' = "step" /\ at' = at + 1
      /\ UNCHANGED <<config, base_url, app, startup>>
      /\ audit'.job = [audit.job EXCEPT ![at] = status]
      /\ audit'.evidence = a.evidence /\ audit'.result = a.result
      /\ audit'.report_paths = audit.report_paths
      /\ JobsInOrder' /\ ControlAgrees' /\ DiskFollows' /\ SnapshotOrder'
      /\ SandboxTracked'
    BY <1>1, <1>2, EndStepKeeps
<1>4. TypeOK'
    BY <1>1, <1>3 DEF IInv, TypeOK
<1>5. EvidenceTraced'
  <2>1. JobEnds(status) /\ Brings(new, status)
      BY <1>1, <1>2, <1>3 DEF JobEnds, Brings
  <2>2. QED
      BY <2>1, EvidenceAdded
<1>6. MatrixDerived'
  <2>1. at' = Correlation + 1 /\ ~audit'.report_paths
      BY <1>1, <1>3
  <2>2. audit'.result # NoResults => audit'.result = Correlate(audit'.evidence)
      BY <1>2, <1>3
  <2>3. (audit.result # NoResults => audit.result = Correlate(audit.evidence))'
      BY <2>2 DEF NoResults, Correlate
  <2>4. QED
      BY <2>1, <2>3 DEF MatrixDerived
<1>7. QED
    BY <1>3, <1>4, <1>5, <1>6 DEF IInv

LEMMA EndReportKeeps == IInv /\ EndReport => IInv'
<1> SUFFICES ASSUME IInv, EndReport PROVE IInv'
    OBVIOUS
<1>1. /\ at = Report /\ audit \in AuditRecord /\ ~audit.report_paths
      /\ report.result \in [Requirements -> Verdicts \union {"NONE"}]
      /\ report.compared \in BOOLEAN
    BY DEF EndReport, IInv, TypeOK, MatrixDerived, AuditRecord
<1>2. PICK a \in AuditRecord, status \in Terminal :
         /\ EndStep(a, status)
         /\ a.job = audit.job /\ a.status = audit.status
         /\ a.evidence = audit.evidence /\ a.result = audit.result
         /\ report' \in {report, Rendered(audit)}
         /\ a.report_paths => report' = Rendered(audit)
  <2> DEFINE b == [audit EXCEPT !.report_paths = TRUE]
  <2>1. /\ b \in AuditRecord /\ b.job = audit.job /\ b.status = audit.status
        /\ b.evidence = audit.evidence /\ b.result = audit.result
      BY <1>1 DEF AuditRecord
  <2>2. CASE EndStep(b, "SUCCESS") /\ report' = Rendered(audit)
      BY <2>1, <2>2 DEF Terminal
  <2>3. CASE EndStep(audit, "FAILED") /\ report' \in {report, Rendered(audit)}
      BY <1>1, <2>3 DEF Terminal
  <2>4. QED
      BY <2>2, <2>3 DEF EndReport
<1>3. /\ audit' \in AuditRecord /\ disk' = audit' /\ pc' = "step" /\ at' = at + 1
      /\ UNCHANGED <<config, base_url, app, startup>>
      /\ audit'.job = [audit.job EXCEPT ![at] = status]
      /\ audit'.evidence = audit.evidence /\ audit'.result = audit.result
      /\ audit'.report_paths = a.report_paths
      /\ JobsInOrder' /\ ControlAgrees' /\ DiskFollows' /\ SnapshotOrder'
      /\ SandboxTracked'
    BY <1>1, <1>2, EndStepKeeps
<1>4. /\ Rendered(audit).result = audit.result
      /\ Rendered(audit).compared = audit.compared
    BY DEF Rendered
<1>5. TypeOK'
  <2>1. /\ audit.result \in [Requirements -> Verdicts \union {"NONE"}]
        /\ audit.compared \in BOOLEAN
      BY <1>1 DEF AuditRecord
  <2>2. report'.result \in [Requirements -> Verdicts \union {"NONE"}]
      BY <1>1, <1>2, <1>4, <2>1
  <2>3. report'.compared \in BOOLEAN
      BY <1>1, <1>2, <1>4, <2>1, Zenon
  <2>4. QED
      BY <1>1, <1>3, <2>2, <2>3 DEF IInv, TypeOK
<1>6. EvidenceTraced'
  <2>1. JobEnds(status) /\ Brings({}, status)
      BY <1>1, <1>3 DEF JobEnds, Brings
  <2>2. QED
      BY <2>1, EvidenceAdded
<1>7. MatrixDerived'
  <2>1. at' > Correlation /\ at' = Report + 1
      BY <1>1, <1>3
  <2>2. audit'.report_paths => report'.result = audit'.result
      BY <1>2, <1>3, <1>4
  <2>3. (audit.result # NoResults => audit.result = Correlate(audit.evidence))'
      BY <1>3 DEF IInv, MatrixDerived, NoResults, Correlate
  <2>4. QED
      BY <2>1, <2>2, <2>3 DEF MatrixDerived
<1>8. QED
    BY <1>3, <1>5, <1>6, <1>7 DEF IInv
LEMMA CompleteKeeps == IInv /\ Complete => IInv'
<1> SUFFICES ASSUME IInv, Complete PROVE IInv'
    OBVIOUS
<1>1. /\ pc = "step" /\ at = Report + 1 /\ pc' \in {"compare", "done"}
      /\ audit' = [audit EXCEPT !.status = "COMPLETE"] /\ disk' = audit'
      /\ UNCHANGED <<config, at, base_url, app, startup, report>>
    BY DEF Complete, Save
<1>2. audit \in AuditRecord /\ disk = audit
    BY <1>1 DEF IInv, TypeOK, DiskFollows
<1>3. /\ audit' \in AuditRecord
      /\ audit'.job = audit.job /\ audit'.status = "COMPLETE"
      /\ audit'.evidence = audit.evidence /\ audit'.result = audit.result
      /\ audit'.report_paths = audit.report_paths
    BY <1>1, <1>2 DEF AuditRecord
<1>4. TypeOK'
    BY <1>1, <1>3 DEF IInv, TypeOK
<1>5. JobsInOrder' /\ ControlAgrees' /\ SnapshotOrder'
    BY <1>1, <1>2, <1>3 DEF IInv, JobsInOrder, ControlAgrees, SnapshotOrder
<1>6. DiskFollows'
  <2>1. disk' = [audit' EXCEPT !.job = disk'.job]
      BY <1>1, <1>3 DEF AuditRecord
  <2>2. QED
      BY <1>1, <1>2, <1>3, <2>1 DEF IInv, DiskFollows
<1>7. SandboxTracked' /\ EvidenceTraced' /\ MatrixDerived'
    BY <1>1, <1>3 DEF IInv, SandboxTracked, EvidenceTraced, MatrixDerived
<1>8. QED
    BY <1>4, <1>5, <1>6, <1>7 DEF IInv

LEMMA CompareAuditsKeeps == IInv /\ CompareAudits => IInv'
<1> SUFFICES ASSUME IInv, CompareAudits PROVE IInv'
    OBVIOUS
<1>1. /\ pc = "compare" /\ pc' = "done"
      /\ audit' = [audit EXCEPT !.compared = TRUE] /\ disk' = audit'
      /\ UNCHANGED <<config, at, base_url, app, startup, report>>
    BY DEF CompareAudits, Save
<1>2. audit \in AuditRecord /\ disk = audit /\ at = Report + 1
    BY <1>1 DEF IInv, TypeOK, ControlAgrees, DiskFollows
<1>3. /\ audit' \in AuditRecord
      /\ audit'.job = audit.job /\ audit'.status = audit.status
      /\ audit'.evidence = audit.evidence /\ audit'.result = audit.result
      /\ audit'.report_paths = audit.report_paths
    BY <1>1, <1>2 DEF AuditRecord
<1>4. TypeOK'
    BY <1>1, <1>3 DEF IInv, TypeOK
<1>5. JobsInOrder' /\ ControlAgrees' /\ SnapshotOrder'
    BY <1>1, <1>2, <1>3 DEF IInv, JobsInOrder, ControlAgrees, SnapshotOrder
<1>6. DiskFollows'
  <2>1. disk' = [audit' EXCEPT !.job = disk'.job]
      BY <1>1, <1>3 DEF AuditRecord
  <2>2. QED
      BY <1>1, <1>2, <1>3, <2>1 DEF IInv, DiskFollows
<1>7. SandboxTracked' /\ EvidenceTraced' /\ MatrixDerived'
    BY <1>1, <1>3 DEF IInv, SandboxTracked, EvidenceTraced, MatrixDerived
<1>8. QED
    BY <1>4, <1>5, <1>6, <1>7 DEF IInv

LEMMA StutterKeeps == IInv /\ UNCHANGED vars => IInv'
<1> SUFFICES ASSUME IInv, UNCHANGED vars PROVE IInv'
    OBVIOUS
<1> USE DEF vars
<1>1. TypeOK' /\ SnapshotOrder'
    BY DEF IInv, TypeOK, SnapshotOrder
<1>2. JobsInOrder'
    BY DEF IInv, JobsInOrder
<1>3. ControlAgrees'
    BY DEF IInv, ControlAgrees, Enabled
<1>4. DiskFollows'
    BY DEF IInv, DiskFollows
<1>5. SandboxTracked' /\ EvidenceTraced' /\ MatrixDerived'
    BY DEF IInv, SandboxTracked, EvidenceTraced, MatrixDerived
<1>6. QED
    BY <1>1, <1>2, <1>3, <1>4, <1>5 DEF IInv

\* The invariant is inductive: one case per action of the pipeline.
LEMMA NextIInv == IInv /\ [Next]_vars => IInv'
<1> SUFFICES ASSUME IInv, [Next]_vars PROVE IInv'
    OBVIOUS
<1>1. CASE RunFull                  BY <1>1, RunFullKeeps
<1>2. CASE SkipStep                 BY <1>2, SkipStepKeeps
<1>3. CASE BeginStep                BY <1>3, BeginStepKeeps
<1>4. CASE EndPlainStep             BY <1>4, EndPlainStepKeeps
<1>5. CASE EndScanner               BY <1>5, EndScannerKeeps
<1>6. CASE EndSecurityTests         BY <1>6, EndSecurityTestsKeeps
<1>7. CASE EndPlaceholder           BY <1>7, EndPlaceholderKeeps
<1>8. CASE StartApplication         BY <1>8, StartApplicationKeeps
<1>9. CASE StartApplicationRaises \/ ConfigRaises \/ SaveRaises
    BY <1>9, RaisesKeep
<1>10. CASE StopApplication         BY <1>10, StopApplicationKeeps
<1>11. CASE EndCorrelation          BY <1>11, EndCorrelationKeeps
<1>12. CASE EndReport               BY <1>12, EndReportKeeps
<1>13. CASE Complete                BY <1>13, CompleteKeeps
<1>14. CASE CompareAudits           BY <1>14, CompareAuditsKeeps
<1>15. CASE AppExits                BY <1>15, AppExitsKeeps
<1>16. CASE UNCHANGED vars          BY <1>16, StutterKeeps
<1>17. QED
    BY <1>1, <1>2, <1>3, <1>4, <1>5, <1>6, <1>7, <1>8, <1>9, <1>10, <1>11, <1>12,
       <1>13, <1>14, <1>15, <1>16 DEF Next, Worker

LEMMA Invariant == Spec => []IInv
<1>1. QED
    BY InitIInv, NextIInv, PTL DEF Spec

-----------------------------------------------------------------------------
(* What the invariant gives. *)

\* The artifacts and the control state of every run have their types.
THEOREM TypeCorrect == Spec => []TypeOK
<1>1. IInv => TypeOK
    BY DEF IInv
<1>2. QED
    BY <1>1, Invariant, PTL

\* Whatever is skipped, fails or crashes, every artifact that can be read shows
\* the jobs in pipeline order (run_full and _job, pipeline.py:56-165).
THEOREM ArtifactsInOrder == Spec => []SnapshotOrder
<1>1. IInv => SnapshotOrder
    BY DEF IInv
<1>2. QED
    BY <1>1, Invariant, PTL

\* A COMPLETE artifact is the audit in memory at the end of the run.
LEMMA CompleteAtEnd ==
    ASSUME IInv, disk.status = "COMPLETE"
    PROVE  disk = audit /\ at = Report + 1
<1>1. audit.status = "COMPLETE"
    BY DEF IInv, TypeOK, AuditRecord, DiskFollows
<1>2. at = Report + 1
    BY <1>1 DEF IInv, ControlAgrees
<1>3. QED
    BY <1>2 DEF IInv, DiskFollows

\* A COMPLETE audit has all its jobs closed and its runserver stopped.
THEOREM CompleteAuditsClosed == Spec => []CompleteIsClosed
<1>1. IInv => CompleteIsClosed
  <2> SUFFICES ASSUME IInv, disk.status = "COMPLETE"
               PROVE  /\ \A s \in Steps : disk.job[s] \in Terminal
                      /\ app # "runserver"
      BY DEF CompleteIsClosed
  <2>1. disk = audit /\ at = Report + 1
      BY CompleteAtEnd
  <2>2. \A s \in Steps : disk.job[s] \in Terminal
      BY <2>1 DEF IInv, JobsInOrder
  <2>3. app # "runserver"
      BY <2>1 DEF IInv, SandboxTracked
  <2>4. QED
      BY <2>2, <2>3
<1>2. QED
    BY <1>1, Invariant, PTL

\* The honesty principle: no catalogue, no evidence and no failure of any engine
\* gives a PASS that is not earned (pipeline.py:3-6, compute_status).
THEOREM PassesEarned == Spec => []PassIsEarned
<1>1. IInv => PassIsEarned
  <2> SUFFICES ASSUME IInv, NEW r \in Requirements, disk.result[r] = "PASS"
               PROVE  /\ Level[r] = "FULLY_AUTOMATED"
                      /\ \E e \in disk.evidence :
                            /\ e.req = r /\ e.polarity = "ok"
                            /\ \/ e.source = "internal"
                               \/ disk.job[SOURCE_JOBS(e.source)] = "SUCCESS"
                      /\ \A e \in disk.evidence : e.req = r => e.polarity # "vuln"
      BY DEF PassIsEarned
  <2>1. disk.result = audit.result /\ disk.evidence = audit.evidence
      BY DEF IInv, TypeOK, AuditRecord, DiskFollows
  <2>2. audit.result # NoResults
      BY <2>1 DEF NoResults
  <2>3. disk = audit
      BY <2>2 DEF IInv, TypeOK, DiskFollows, MatrixDerived
  <2>4. /\ audit.evidence \in SUBSET EvidenceOf(Requirements)
        /\ Correlate(audit.evidence)[r] = "PASS"
      BY <2>1, <2>2 DEF IInv, TypeOK, AuditRecord, MatrixDerived
  <2>5. /\ Level[r] = "FULLY_AUTOMATED"
        /\ \E e \in audit.evidence : e.req = r /\ e.polarity = "ok"
        /\ \A e \in audit.evidence : e.req = r => e.polarity # "vuln"
      BY <2>4, PassInMatrix
  <2>6. \A e \in audit.evidence : e.polarity = "ok" =>
           e.source = "internal" \/ audit.job[SOURCE_JOBS(e.source)] = "SUCCESS"
      BY DEF IInv, EvidenceTraced
  <2>7. QED
      BY <2>3, <2>5, <2>6
<1>2. QED
    BY <1>1, Invariant, PTL

\* The saved matrix is always the correlation of the saved evidence.
THEOREM MatricesReproducible == Spec => []MatrixReproducible
<1>1. IInv => MatrixReproducible
  <2>1. IInv => disk.result = audit.result /\ disk.evidence = audit.evidence
      BY DEF IInv, TypeOK, AuditRecord, DiskFollows
  <2>2. QED
      BY <2>1 DEF IInv, MatrixDerived, MatrixReproducible
<1>2. QED
    BY <1>1, Invariant, PTL

\* The report of a COMPLETE audit shows its final matrix.
THEOREM ReportsFinal == Spec => []ReportIsFinal
<1>1. IInv => ReportIsFinal
    BY CompleteAtEnd DEF IInv, MatrixDerived, ReportIsFinal
<1>2. QED
    BY <1>1, Invariant, PTL

\* Without the authorization nothing is started and nothing dynamic is recorded.
THEOREM UnauthorizedRuns == Spec => []UnauthorizedUntouched
<1>1. IInv => UnauthorizedUntouched
    BY DEF IInv, SandboxTracked, EvidenceTraced, UnauthorizedUntouched
<1>2. QED
    BY <1>1, Invariant, PTL

\* A completed audit that shows app_start SUCCESS did start the application.
THEOREM AppStartsTruthful == Spec => []AppStartTruthful
<1>1. IInv => AppStartTruthful
    BY CompleteAtEnd DEF IInv, SandboxTracked, AppStartTruthful
<1>2. QED
    BY <1>1, Invariant, PTL
-----------------------------------------------------------------------------
(* Steps: evidence only grows, and the artifact follows the life cycle. *)

\* Ending a step, as far as the artifact is concerned.
LEMMA EndStepSaves ==
    ASSUME NEW a, NEW status, EndStep(a, status)
    PROVE  /\ pc = "body" /\ pc' = "step" /\ at' = at + 1 /\ disk' = audit'
           /\ audit' = SetJob(a, at, status)
BY DEF EndStep, Save

LEMMA EvidenceGrows == IInv /\ [Next]_vars => audit.evidence \subseteq audit'.evidence
<1> SUFFICES ASSUME IInv, [Next]_vars PROVE audit.evidence \subseteq audit'.evidence
    OBVIOUS
<1>1. audit \in AuditRecord
    BY DEF IInv, TypeOK
<1>2. ASSUME NEW s, NEW status PROVE SetJob(audit, s, status).evidence = audit.evidence
    BY <1>1 DEF SetJob, AuditRecord
<1>3. ASSUME NEW a, NEW status, EndStep(a, status),
             audit.evidence \subseteq a.evidence,
             a = [audit EXCEPT !.evidence = a.evidence, !.result = a.result,
                               !.score = a.score, !.report_paths = a.report_paths]
      PROVE  audit.evidence \subseteq audit'.evidence
  <2>1. audit' = SetJob(a, at, status)
      BY <1>3, EndStepSaves
  <2>2. DOMAIN a = DOMAIN audit
      BY <1>3
  <2>3. SetJob(a, at, status).evidence = a.evidence
      BY <1>1, <2>2 DEF SetJob, AuditRecord
  <2>4. QED
      BY <1>3, <2>1, <2>3
<1>4. audit = [audit EXCEPT !.evidence = audit.evidence, !.result = audit.result,
                            !.score = audit.score, !.report_paths = audit.report_paths]
    BY <1>1 DEF AuditRecord
<1>5. CASE RunFull \/ Complete \/ CompareAudits
    BY <1>1, <1>5 DEF RunFull, Complete, CompareAudits, Save, AuditRecord
<1>6. CASE SkipStep \/ BeginStep \/ EndPlaceholder \/ StartApplication
    BY <1>2, <1>6 DEF SkipStep, BeginStep, EndPlaceholder, StartApplication, AppStarted,
       AppNotStarted, Save
<1>7. CASE StartApplicationRaises \/ ConfigRaises \/ SaveRaises \/ StopApplication
           \/ AppExits \/ UNCHANGED vars
    BY <1>7 DEF StartApplicationRaises, ConfigRaises, SaveRaises, StopApplication, AppExits,
       vars
<1>8. CASE EndPlainStep
  <2> DEFINE b == [audit EXCEPT !.result = NoResults]
  <2>1. /\ audit.evidence \subseteq b.evidence
        /\ b = [audit EXCEPT !.evidence = b.evidence, !.result = b.result,
                             !.score = b.score, !.report_paths = b.report_paths]
      BY <1>1 DEF AuditRecord
  <2>2. EndStep(b, "SUCCESS") \/ EndStep(audit, "SUCCESS") \/ EndStep(audit, "FAILED")
      BY <1>8 DEF EndPlainStep
  <2> HIDE DEF b
  <2>3. QED
      BY <1>3, <1>4, <2>1, <2>2
<1>9. CASE EndScanner \/ EndSecurityTests
  <2>1. PICK evs, status :
           \/ EndStep([audit EXCEPT !.evidence = audit.evidence \union evs], status)
           \/ EndStep(audit, status)
      BY <1>9 DEF EndScanner, EndSecurityTests
  <2> DEFINE b == [audit EXCEPT !.evidence = audit.evidence \union evs]
  <2>2. /\ audit.evidence \subseteq b.evidence
        /\ b = [audit EXCEPT !.evidence = b.evidence, !.result = b.result,
                             !.score = b.score, !.report_paths = b.report_paths]
      BY <1>1 DEF AuditRecord
  <2>3. EndStep(b, status) \/ EndStep(audit, status)
      BY <2>1
  <2> HIDE DEF b
  <2>4. QED
      BY <1>3, <1>4, <2>2, <2>3
<1>10. CASE EndCorrelation
  <2>1. PICK new :
           LET c == Correlated(audit, audit.evidence \union new)
           IN  \/ EndStep(audit, "FAILED") \/ EndStep(c, "FAILED")
               \/ EndStep([c EXCEPT !.score = TRUE], "SUCCESS")
      BY <1>10 DEF EndCorrelation
  <2> DEFINE c == Correlated(audit, audit.evidence \union new)
             d == [c EXCEPT !.score = TRUE]
  <2>2. /\ audit.evidence \subseteq c.evidence
        /\ c = [audit EXCEPT !.evidence = c.evidence, !.result = c.result,
                             !.score = c.score, !.report_paths = c.report_paths]
      BY <1>1 DEF Correlated, AuditRecord
  <2>3. /\ audit.evidence \subseteq d.evidence
        /\ d = [audit EXCEPT !.evidence = d.evidence, !.result = d.result,
                             !.score = d.score, !.report_paths = d.report_paths]
      BY <1>1 DEF Correlated, AuditRecord
  <2>4. EndStep(audit, "FAILED") \/ EndStep(c, "FAILED") \/ EndStep(d, "SUCCESS")
      BY <2>1
  <2> HIDE DEF c, d
  <2>5. QED
      BY <1>3, <1>4, <2>2, <2>3, <2>4
<1>11. CASE EndReport
  <2> DEFINE b == [audit EXCEPT !.report_paths = TRUE]
  <2>1. /\ audit.evidence \subseteq b.evidence
        /\ b = [audit EXCEPT !.evidence = b.evidence, !.result = b.result,
                             !.score = b.score, !.report_paths = b.report_paths]
      BY <1>1 DEF AuditRecord
  <2>2. EndStep(b, "SUCCESS") \/ EndStep(audit, "FAILED")
      BY <1>11 DEF EndReport
  <2> HIDE DEF b
  <2>3. QED
      BY <1>3, <1>4, <2>1, <2>2
<1>12. QED
    BY <1>5, <1>6, <1>7, <1>8, <1>9, <1>10, <1>11 DEF Next, Worker

\* Evidence that was saved is in every later artifact.
THEOREM EvidenceKept == Spec => EvidenceNeverLost
<1>1. IInv => disk.evidence = audit.evidence
    BY DEF IInv, TypeOK, AuditRecord, DiskFollows
<1>2. IInv /\ IInv' /\ [Next]_vars => [disk.evidence \subseteq disk'.evidence]_disk
    BY <1>1, EvidenceGrows DEF IInv, TypeOK, AuditRecord, DiskFollows
<1>3. QED
    BY <1>2, Invariant, PTL DEF Spec, EvidenceNeverLost
-----------------------------------------------------------------------------
(* Refinement: the artifact goes through the life cycle of AuditLifecycle. *)

\* The jobs the artifact shows as closed.
Closed == {s \in Steps : disk.job[s] \in Terminal}
Before(n) == {s \in Steps : s < n}

\* In memory exactly the jobs before "at" are closed; the artifact never runs
\* ahead of that, except for the placeholder of app_start.
LEMMA ClosedBefore ==
    ASSUME IInv
    PROVE  /\ disk = audit => Closed = Before(at)
           /\ pc \notin {"starting", "raised"} => Closed \subseteq Before(at)
<1>1. \A s \in Steps : audit.job[s] \in Terminal <=> s < at
    BY DEF IInv, TypeOK, JobsInOrder, Terminal
<1>2. QED
    BY <1>1 DEF IInv, DiskFollows, Closed, Before

\* The same one step later.
LEMMA ClosedBeforeNext ==
    ASSUME IInv', disk' = audit'
    PROVE  Closed' = Before(at')
<1>1. \A s \in Steps : audit'.job[s] \in Terminal <=> s < at'
    BY DEF IInv, TypeOK, JobsInOrder, Terminal
<1>2. QED
    BY <1>1 DEF Closed, Before

\* A save that closes jobs in order, and publishes nothing, is a Close.
LEMMA SaveCloses ==
    ASSUME disk.status = "RUNNING", disk'.status = "RUNNING",
           disk'.result = disk.result,
           NEW n \in Nat, Closed \subseteq Closed', Closed' = Before(n)
    PROVE  [Lifecycle!LNext]_(Lifecycle!lvars)
<1>1. CASE Closed' = Closed
    BY <1>1 DEF Closed, Lifecycle!lvars
<1>2. CASE Closed' # Closed
  <2>1. Closed' \in SUBSET Lifecycle!Steps
      BY DEF Closed, Lifecycle!Steps
  <2>2. Lifecycle!InOrder(Closed')
      BY DEF Lifecycle!InOrder, Lifecycle!Steps, Before
  <2>3. Lifecycle!Close
      BY <1>2, <2>1, <2>2 DEF Lifecycle!Close, Closed
  <2>4. QED
      BY <2>3 DEF Lifecycle!LNext
<1>3. QED
    BY <1>1, <1>2

\* Every save of the whole audit closes what its step has finished.
LEMMA WholeSaveCloses ==
    ASSUME IInv, IInv', disk' = audit', pc \notin {"starting", "raised"},
           at' \in {at, at + 1}, disk.status = "RUNNING", disk'.status = "RUNNING",
           disk'.result = disk.result
    PROVE  [Lifecycle!LNext]_(Lifecycle!lvars)
<1>1. at \in Nat /\ at' \in Nat
    BY DEF IInv, TypeOK
<1>2. Closed \subseteq Before(at)
    BY ClosedBefore
<1>3. Closed' = Before(at')
    BY ClosedBeforeNext
<1>4. Before(at) \subseteq Before(at')
    BY <1>1 DEF Before
<1>5. QED
    BY <1>1, <1>2, <1>3, <1>4, SaveCloses

\* A step that leaves the artifact alone, or changes what the life cycle does
\* not know of, is a stutter.
LEMMA SameArtifact ==
    ASSUME disk'.status = disk.status, disk'.job = disk.job, disk'.result = disk.result
    PROVE  UNCHANGED Lifecycle!lvars
BY DEF Lifecycle!lvars

LEMMA LifecycleInit == Init => Lifecycle!LInit
BY DEF Init, NewAudit, Terminal, Lifecycle!LInit, Lifecycle!Steps

\* The end of a step that leaves the matrix alone.
LEMMA EndStepCloses ==
    ASSUME IInv, IInv', NEW a, NEW status, EndStep(a, status),
           a.status = audit.status, a.result = audit.result,
           DOMAIN a = DOMAIN audit
    PROVE  [Lifecycle!LNext]_(Lifecycle!lvars)
<1>1. /\ pc = "body" /\ disk = audit /\ disk' = audit' /\ at' = at + 1
      /\ audit.status = "RUNNING" /\ audit' = SetJob(a, at, status)
    BY EndStepSaves DEF IInv, DiskFollows, ControlAgrees
<1>2. audit'.status = a.status /\ audit'.result = a.result
    BY <1>1 DEF SetJob, IInv, TypeOK, AuditRecord
<1>3. QED
    BY <1>1, <1>2, WholeSaveCloses

LEMMA LifecyclePlainStep ==
    ASSUME IInv, IInv', EndPlainStep
    PROVE  [Lifecycle!LNext]_(Lifecycle!lvars)
<1> DEFINE b == [audit EXCEPT !.result = NoResults]
<1>1. audit.result = NoResults
    BY DEF EndPlainStep, IInv, MatrixDerived
<1>2. b.status = audit.status /\ b.result = audit.result /\ DOMAIN b = DOMAIN audit
    BY <1>1 DEF IInv, TypeOK, AuditRecord
<1>3. EndStep(b, "SUCCESS") \/ EndStep(audit, "SUCCESS") \/ EndStep(audit, "FAILED")
    BY DEF EndPlainStep
<1> HIDE DEF b
<1>4. QED
    BY <1>2, <1>3, EndStepCloses

LEMMA LifecycleEngines ==
    ASSUME IInv, IInv', EndScanner \/ EndSecurityTests
    PROVE  [Lifecycle!LNext]_(Lifecycle!lvars)
<1>1. PICK evs, status :
         \/ EndStep([audit EXCEPT !.evidence = audit.evidence \union evs], status)
         \/ EndStep(audit, status)
    BY DEF EndScanner, EndSecurityTests
<1> DEFINE b == [audit EXCEPT !.evidence = audit.evidence \union evs]
<1>2. b.status = audit.status /\ b.result = audit.result /\ DOMAIN b = DOMAIN audit
    BY DEF IInv, TypeOK, AuditRecord
<1>3. EndStep(b, status) \/ EndStep(audit, status)
    BY <1>1
<1> HIDE DEF b
<1>4. QED
    BY <1>2, <1>3, EndStepCloses

LEMMA LifecycleReport ==
    ASSUME IInv, IInv', EndReport
    PROVE  [Lifecycle!LNext]_(Lifecycle!lvars)
<1> DEFINE b == [audit EXCEPT !.report_paths = TRUE]
<1>1. b.status = audit.status /\ b.result = audit.result /\ DOMAIN b = DOMAIN audit
    BY DEF IInv, TypeOK, AuditRecord
<1>2. EndStep(b, "SUCCESS") \/ EndStep(audit, "FAILED")
    BY DEF EndReport
<1> HIDE DEF b
<1>3. QED
    BY <1>1, <1>2, EndStepCloses

\* The placeholder closes app_start in the artifact while it runs in memory.
LEMMA LifecyclePlaceholder ==
    ASSUME IInv, IInv', EndPlaceholder
    PROVE  [Lifecycle!LNext]_(Lifecycle!lvars)
<1>1. /\ pc = "body" /\ at = AppStart /\ disk = audit /\ audit \in AuditRecord
      /\ audit.status = "RUNNING" /\ disk' = SetJob(audit, AppStart, "SUCCESS")
    BY DEF EndPlaceholder, IInv, TypeOK, DiskFollows, ControlAgrees
<1>2. "SUCCESS" \in JobStatuses /\ AppStart \in Steps
    BY DEF JobStatuses, Terminal
<1>3. /\ disk'.status = "RUNNING" /\ disk'.result = disk.result
      /\ disk'.job = [audit.job EXCEPT ![AppStart] = "SUCCESS"]
    BY <1>1, <1>2, SetJobShape
<1>4. Closed = Before(AppStart)
    BY <1>1, ClosedBefore
<1>5. Closed' = Before(AppStart + 1)
  <2>1. audit.job \in [Steps -> JobStatuses]
      BY <1>1 DEF AuditRecord
  <2>2. \A s \in Steps : audit.job[s] \in Terminal <=> s < AppStart
      BY <1>1, <1>4 DEF Closed, Before
  <2>3. QED
      BY <1>3, <2>1, <2>2 DEF Closed, Before, Terminal
<1>6. QED
    BY <1>1, <1>3, <1>4, <1>5, SaveCloses DEF Before

\* The correlation publishes the matrix, or fails without one.
LEMMA LifecycleCorrelation ==
    ASSUME IInv, IInv', EndCorrelation
    PROVE  [Lifecycle!LNext]_(Lifecycle!lvars)
<1>1. PICK new :
         LET c == Correlated(audit, audit.evidence \union new)
         IN  \/ EndStep(audit, "FAILED") \/ EndStep(c, "FAILED")
             \/ EndStep([c EXCEPT !.score = TRUE], "SUCCESS")
    BY DEF EndCorrelation
<1> DEFINE c == Correlated(audit, audit.evidence \union new)
           d == [c EXCEPT !.score = TRUE]
<1>2. /\ c.status = audit.status /\ d.status = audit.status
      /\ c.result = Correlate(audit.evidence \union new) /\ d.result = c.result
      /\ DOMAIN c = DOMAIN audit /\ DOMAIN d = DOMAIN audit
    BY DEF Correlated, IInv, TypeOK, AuditRecord
<1>3. c.result \in [Requirements -> Verdicts]
    BY <1>2, CorrelateType
<1>4. EndStep(audit, "FAILED") \/ EndStep(c, "FAILED") \/ EndStep(d, "SUCCESS")
    BY <1>1
<1>5. ASSUME NEW a, NEW status, EndStep(a, status), at = Correlation,
             a.status = audit.status, DOMAIN a = DOMAIN audit,
             a.result \in [Requirements -> Verdicts]
      PROVE  Lifecycle!Publish
  <2>1. /\ pc = "body" /\ disk = audit /\ disk' = audit' /\ at' = Correlation + 1
        /\ audit.status = "RUNNING" /\ audit' = SetJob(a, at, status)
        /\ audit.result = NoResults
      BY <1>5, EndStepSaves DEF IInv, DiskFollows, ControlAgrees, MatrixDerived
  <2>2. audit'.status = a.status /\ audit'.result = a.result
      BY <1>5, <2>1 DEF SetJob, IInv, TypeOK, AuditRecord
  <2>3. Closed = Before(Correlation) /\ Closed' = Before(Correlation + 1)
      BY <1>5, <2>1, ClosedBefore, ClosedBeforeNext
  <2>4. Closed = 1..(Correlation - 1) /\ Closed' = 1..Correlation
      BY <2>3 DEF Before
  <2>5. QED
      BY <1>5, <2>1, <2>2, <2>4 DEF Lifecycle!Publish, Lifecycle!Correlation, Closed
<1>6. at = Correlation
    BY DEF EndCorrelation
<1> HIDE DEF c, d
<1>7. CASE EndStep(audit, "FAILED")
    BY <1>7, EndStepCloses
<1>8. CASE EndStep(c, "FAILED")
    BY <1>2, <1>3, <1>5, <1>6, <1>8 DEF Lifecycle!LNext
<1>9. CASE EndStep(d, "SUCCESS")
    BY <1>2, <1>3, <1>5, <1>6, <1>9 DEF Lifecycle!LNext
<1>10. QED
    BY <1>4, <1>7, <1>8, <1>9

\* Start and Finish.
LEMMA LifecycleStart ==
    ASSUME IInv, IInv', RunFull
    PROVE  Lifecycle!Start
<1>1. /\ disk = audit /\ audit \in AuditRecord /\ audit.status = "CREATED"
      /\ disk' = [audit EXCEPT !.status = "RUNNING"]
    BY DEF RunFull, Save, IInv, TypeOK, DiskFollows, ControlAgrees
<1>2. disk'.status = "RUNNING" /\ disk'.job = disk.job /\ disk'.result = disk.result
    BY <1>1 DEF AuditRecord
<1>3. QED
    BY <1>1, <1>2 DEF Lifecycle!Start

LEMMA LifecycleFinish ==
    ASSUME IInv, IInv', Complete
    PROVE  Lifecycle!Finish
<1>1. /\ disk = audit /\ audit \in AuditRecord /\ audit.status = "RUNNING"
      /\ disk' = [audit EXCEPT !.status = "COMPLETE"] /\ at = Report + 1
    BY DEF Complete, Save, IInv, TypeOK, DiskFollows, ControlAgrees
<1>2. disk'.status = "COMPLETE" /\ disk'.job = disk.job /\ disk'.result = disk.result
    BY <1>1 DEF AuditRecord
<1>3. Closed = Steps
    BY <1>1, ClosedBefore DEF Before
<1>4. QED
    BY <1>1, <1>2, <1>3 DEF Lifecycle!Finish, Lifecycle!Steps, Closed

LEMMA LifecycleBegin ==
    ASSUME IInv, IInv', BeginStep
    PROVE  [Lifecycle!LNext]_(Lifecycle!lvars)
<1>1. /\ pc = "step" /\ audit \in AuditRecord /\ audit.status = "RUNNING"
      /\ at \in Steps /\ disk.status = audit.status /\ disk.result = audit.result
      /\ audit' = SetJob(audit, at, "RUNNING") /\ disk' = audit' /\ at' = at
    BY DEF BeginStep, Save, IInv, TypeOK, DiskFollows, ControlAgrees, AuditRecord
<1>2. audit'.status = audit.status /\ audit'.result = audit.result
    BY <1>1 DEF SetJob, AuditRecord
<1>3. QED
    BY <1>1, <1>2, WholeSaveCloses

LEMMA LifecycleStep ==
    ASSUME IInv, IInv', [Next]_vars
    PROVE  [Lifecycle!LNext]_(Lifecycle!lvars)
<1>1. CASE RunFull
    BY <1>1, LifecycleStart DEF Lifecycle!LNext
<1>2. CASE SkipStep \/ StartApplication \/ StartApplicationRaises \/ ConfigRaises
             \/ SaveRaises \/ StopApplication \/ AppExits \/ UNCHANGED vars
  <2>1. disk' = disk
      BY <1>2 DEF SkipStep, StartApplication, StartApplicationRaises, ConfigRaises,
         SaveRaises, StopApplication, AppExits, vars
  <2>2. QED
      BY <2>1, SameArtifact
<1>3. CASE BeginStep
    BY <1>3, LifecycleBegin
<1>4. CASE EndPlainStep
    BY <1>4, LifecyclePlainStep
<1>5. CASE EndScanner \/ EndSecurityTests
    BY <1>5, LifecycleEngines
<1>6. CASE EndPlaceholder
    BY <1>6, LifecyclePlaceholder
<1>7. CASE EndCorrelation
    BY <1>7, LifecycleCorrelation
<1>8. CASE EndReport
    BY <1>8, LifecycleReport
<1>9. CASE Complete
    BY <1>9, LifecycleFinish DEF Lifecycle!LNext
<1>10. CASE CompareAudits
  <2>1. disk = audit /\ audit \in AuditRecord /\ disk' = [audit EXCEPT !.compared = TRUE]
      BY <1>10 DEF CompareAudits, Save, IInv, TypeOK, DiskFollows, ControlAgrees
  <2>2. disk'.status = disk.status /\ disk'.job = disk.job /\ disk'.result = disk.result
      BY <2>1 DEF AuditRecord
  <2>3. QED
      BY <2>2, SameArtifact
<1>11. QED
    BY <1>1, <1>2, <1>3, <1>4, <1>5, <1>6, <1>7, <1>8, <1>9, <1>10 DEF Next, Worker

\* The artifact of every audit, whatever fails, lives the abstract life cycle.
THEOREM LifecycleRefined == Spec => RefinesLifecycle
<1>1. Init => Lifecycle!LInit
    BY LifecycleInit
<1>2. IInv /\ IInv' /\ [Next]_vars => [Lifecycle!LNext]_(Lifecycle!lvars)
    BY LifecycleStep
<1>3. QED
    BY <1>1, <1>2, Invariant, PTL DEF Spec, RefinesLifecycle, Lifecycle!LSpec
=============================================================================
