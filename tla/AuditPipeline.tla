---------------------------- MODULE AuditPipeline ---------------------------
(***************************************************************************)
(* One audit run by AuditPipeline.run_full (apps/audits/pipeline.py), and  *)
(* the comparison run_retest adds after it (apps/audits/retest.py).        *)
(*                                                                         *)
(* "audit" is the Audit object of the worker thread, "disk" the audit.json *)
(* of its last AuditStore.save: what the API, a retest, a report command   *)
(* or a restarted server can see.  Every save is one atomic step here; the *)
(* file operations inside a save are the subject of AuditStore.tla.        *)
(* Because "disk" is constrained in every state, its invariants also hold  *)
(* of what a crash at any point leaves behind.                             *)
(***************************************************************************)
EXTENDS RequirementStatus

CONSTANTS Requirements,     \* requirement ids of the catalogue
          Level,            \* their automation levels
          Evidence,         \* the evidence the scanners and tests can produce
          FindingReqs,      \* internal checks on the findings: REQ-130, 131, 135
          ExclusionReqs,    \* internal check on the SAST run: REQ-132
          PlatformReqs,     \* internal checks that always hold: REQ-133, 134, 137
          Configs,          \* the effective configurations considered
          Fallible,         \* the jobs whose own failure is considered; a bound:
                            \* the code is Fallible = Steps
          SandboxRaises,    \* start_application may raise (subprocess timeouts)
          SavesRaise        \* AuditStore.save may raise (OSError)

\* The switches of "scanning", whether it is a mapping at all ("scanning:" alone
\* is null), the authorization, and whether this is a retest.
ConfigSpace == [sast: BOOLEAN, dependencies: BOOLEAN, dast: BOOLEAN,
                security_tests: BOOLEAN, network: BOOLEAN, readable: BOOLEAN,
                authorized: BOOLEAN, retest: BOOLEAN]

ASSUME LevelAssumption == Level \in [Requirements -> Levels]
ASSUME EvidenceAssumption ==
    Evidence \subseteq {e \in EvidenceOf(Requirements) : e.source # "internal"}
ASSUME InternalAssumption ==
    FindingReqs \union ExclusionReqs \union PlatformReqs \subseteq Requirements
ASSUME ConfigAssumption == Configs \subseteq ConfigSpace
ASSUME FallibleAssumption == Fallible \subseteq Steps
ASSUME RaisesAssumption == SandboxRaises \in BOOLEAN /\ SavesRaise \in BOOLEAN

VARIABLES config,    \* security-audit.yml and the authorization, fixed per audit
          audit,     \* the Audit object in memory
          disk,      \* audit.json as last saved
          pc,        \* where run_full is
          at,        \* the job it is at
          base_url,  \* ctx.base_url is set
          app,       \* what the sandbox left running
          startup,   \* the StartupResult of start_application
          report     \* the requirement matrix and comparison in the report files

vars == <<config, audit, disk, pc, at, base_url, app, startup, report>>

NoResults == [r \in Requirements |-> "NONE"]
NoReport  == [result |-> NoResults, compared |-> FALSE]

AuditRecord ==
    [status: {"CREATED", "RUNNING", "COMPLETE"},
     job: [Steps -> JobStatuses],
     evidence: SUBSET EvidenceOf(Requirements),
     result: [Requirements -> Verdicts \union {"NONE"}],
     score: BOOLEAN,
     report_paths: BOOLEAN,
     compared: BOOLEAN]

NewAudit == [status |-> "CREATED", job |-> [s \in Steps |-> "ABSENT"],
             evidence |-> {}, result |-> NoResults, score |-> FALSE,
             report_paths |-> FALSE, compared |-> FALSE]

\* create_audit saves the audit before run_full is queued.
Init ==
    /\ config \in Configs
    /\ audit = NewAudit
    /\ disk = audit
    /\ pc = "created"
    /\ at = Discovery
    /\ base_url = FALSE
    /\ app = "none"
    /\ startup = "none"
    /\ report = NoReport

-----------------------------------------------------------------------------
(* Audit and AuditStore *)

\* Audit.set_job on audit a.
SetJob(a, s, status) == [a EXCEPT !.job[s] = status]

\* Assign the audit in memory and save it.
Save(a) == audit' = a /\ disk' = a

\* Bug: the application is started without the authorization.
EnabledUnasked(s) ==
    CASE s \in {AppStart, Dast} -> config.dast
      [] s = Network -> config.network
      [] s = SecurityTests -> config.security_tests \/ config.dast
      [] OTHER -> TRUE

\* The steps of run_full that are guarded by the configuration.
Enabled(s) ==
    CASE s = Sast          -> config.sast
      [] s = Dependencies  -> config.dependencies
      [] s = AppStart      -> config.authorized /\ config.dast
      [] s = Dast          -> config.dast
      [] s = SecurityTests -> config.security_tests \/ config.dast
      [] s = Network       -> config.network
      [] OTHER             -> TRUE

-----------------------------------------------------------------------------
(* run_full and _job *)

RunFull ==
    /\ pc = "created"
    /\ Save([audit EXCEPT !.status = "RUNNING"])
    /\ pc' = "step"
    /\ UNCHANGED <<config, at, base_url, app, startup, report>>

\* The switches are read from step 3 on; null has none to read.
SwitchesRead == at = Sast => config.readable

\* A step switched off by configuration or authorization: set_job without a save.
SkipStep ==
    /\ pc = "step" /\ at \in Steps /\ ~Enabled(at) /\ SwitchesRead
    /\ audit' = SetJob(audit, at, "SKIPPED")
    /\ at' = at + 1
    /\ UNCHANGED <<config, disk, pc, base_url, app, startup, report>>

\* Bug: only a failed start is cleaned up.
CleanupOfFailures == at = Correlation /\ startup = "failed"

\* stop_application runs between the network step and the correlation.
CleanupDue == at = Correlation /\ startup \notin {"none", "stopped"}

\* _job: mark RUNNING and save, before the step's function is called.
BeginStep ==
    /\ pc = "step" /\ at \in Steps /\ Enabled(at) /\ SwitchesRead /\ ~CleanupDue
    /\ Save(SetJob(audit, at, "RUNNING"))
    /\ pc' = "body"
    /\ UNCHANGED <<config, at, base_url, app, startup, report>>

\* _job: the step's function has returned or raised; the "finally" saves.
EndStep(a, status) ==
    /\ pc = "body"
    /\ Save(SetJob(a, at, status))
    /\ pc' = "step"
    /\ at' = at + 1
    /\ UNCHANGED <<config, base_url, app, startup>>

\* Steps 1, 2 and 6 produce no evidence; an exception fails their own job.
\* _step_requirements clears the results once the catalogue is loaded.
EndPlainStep ==
    /\ at \in {Discovery, InitReqs, Endpoints}
    /\ \/ EndStep(IF at = InitReqs THEN [audit EXCEPT !.result = NoResults]
                                   ELSE audit, "SUCCESS")
       \/ at \in Fallible /\ EndStep(audit, "FAILED")
    /\ UNCHANGED report

-----------------------------------------------------------------------------
(* Scanners: BaseScanner.safe_run and _step_scanner *)

EvidenceFrom(s) == {e \in Evidence : SOURCE_JOBS(e.source) = s}

\* An exception inside a scanner discards what it had collected.
Raised(s) == [status: IF s \in Fallible THEN {"FAILED"} ELSE {}, evidence: {{}}]
NoInput(s) == [status: IF s \in Fallible THEN {"SKIPPED"} ELSE {}, evidence: {{}}]
Skipped == [status |-> "SKIPPED", evidence |-> {}]
Finished(s) == [status: {"SUCCESS"}, evidence: SUBSET EvidenceFrom(s)]

\* DAST: no base URL, SKIPPED.  A ZAP scan reports alerts, never "ok"; when it
\* breaks off, its alerts stay in the result and the liveness probe decides:
\* FAILED when the application does not answer, else the built-in checks run.
DastOutcomes ==
    IF ~base_url THEN {Skipped}
    ELSE LET zap == SUBSET {e \in EvidenceFrom(Dast) : e.polarity # "ok"}
         IN  Raised(Dast) \union [status: {"SUCCESS", "FAILED"}, evidence: zap]
                \union (IF app = "exited" THEN {} ELSE Finished(Dast))

\* Network: refused without authorization, or with no authorized target; its
\* section of the configuration is read, and can raise, before that.
NetworkOutcomes ==
    Raised(Network) \union
        IF config.authorized THEN NoInput(Network) \union Finished(Network) ELSE {Skipped}

\* Bug: an exception or a missing target keeps whatever was collected.
PartialOutcomes(s) ==
    [status: {"SUCCESS", "FAILED", "SKIPPED"}, evidence: SUBSET EvidenceFrom(s)]

\* Settings and dependencies are SKIPPED when there is nothing to read.
ScanOutcomes(s) ==
    CASE s = Dast    -> DastOutcomes
      [] s = Network -> NetworkOutcomes
      [] s = Sast    -> Raised(s) \union Finished(s)
      [] OTHER       -> Raised(s) \union NoInput(s) \union Finished(s)

\* Bug: the list is assigned, not extended.
EndScannerAssigns ==
    /\ at \in ScannerSteps
    /\ \E out \in ScanOutcomes(at) :
          EndStep([audit EXCEPT !.evidence = out.evidence], out.status)
    /\ UNCHANGED report

EndScanner ==
    /\ at \in ScannerSteps
    /\ \E out \in ScanOutcomes(at) :
          EndStep([audit EXCEPT !.evidence = @ \union out.evidence], out.status)
    /\ UNCHANGED report

\* _step_security_tests: without a base URL every test is NOT_TESTED and leaves
\* no evidence; an exception of the step is raised before evidence is added.
EndSecurityTests ==
    /\ at = SecurityTests
    /\ \/ \E evs \in SUBSET EvidenceFrom(SecurityTests) :
             /\ ~base_url => evs = {}
             /\ EndStep([audit EXCEPT !.evidence = @ \union evs], "SUCCESS")
       \/ at \in Fallible /\ EndStep(audit, "FAILED")
    /\ UNCHANGED report

-----------------------------------------------------------------------------
(* app_start: the sandbox (scanners/dast/sandbox.py) as run_full uses it *)

\* _job("app_start", lambda: None) ends by saving SUCCESS; the RUNNING set
\* right after it is not saved before the next step begins.
EndPlaceholder ==
    /\ pc = "body" /\ at = AppStart
    /\ disk' = SetJob(audit, AppStart, "SUCCESS")
    /\ audit' = SetJob(audit, AppStart, "RUNNING")
    /\ pc' = "starting"
    /\ UNCHANGED <<config, at, base_url, app, startup, report>>

\* start_application returned: the job state is set in memory only.
AppStarted(method, handle) ==
    /\ audit' = SetJob(audit, AppStart, "SUCCESS")
    /\ app' = method
    /\ startup' = handle
    /\ base_url' = TRUE

\* Bug: a failed start is not recorded.
AppNotStartedQuiet(left) ==
    /\ app' = left
    /\ startup' = "failed"
    /\ audit' = SetJob(audit, AppStart, "SUCCESS")
    /\ UNCHANGED base_url

\* A failed compose start can leave its containers up; a runserver that never
\* answered is terminated.
AppNotStarted(left) ==
    /\ audit' = SetJob(audit, AppStart, "FAILED")
    /\ app' = left
    /\ startup' = "failed"
    /\ UNCHANGED base_url

\* A started compose application comes back without a process handle.
StartApplication ==
    /\ pc = "starting"
    /\ \/ AppStarted("runserver", "process")
       \/ AppStarted("containers", "detached")
       \/ AppNotStarted("none")
       \/ AppNotStarted("containers")
    /\ pc' = "step"
    /\ at' = at + 1
    /\ UNCHANGED <<config, disk, report>>

\* The dependency installation of the isolated venv times out, or _wait_http gets an
\* answer that is not HTTP, with the application up: the exception leaves
\* start_application and run_full, and nothing is saved.
StartApplicationRaises ==
    /\ SandboxRaises
    /\ pc = "starting"
    /\ app' \in {"none", "runserver", "containers"}
    /\ pc' = "raised"
    /\ UNCHANGED <<config, audit, disk, at, base_url, startup, report>>

\* The audited application can exit by itself at any moment.
AppExits ==
    /\ app = "runserver"
    /\ app' = "exited"
    /\ UNCHANGED <<config, audit, disk, pc, at, base_url, startup, report>>

\* Bug: the StartupResult is not dropped.
StopApplicationAgain ==
    /\ pc = "step" /\ CleanupDue
    /\ app' = IF startup = "process" THEN "exited" ELSE app
    /\ UNCHANGED <<config, audit, disk, pc, at, base_url, startup, report>>

\* stop_application terminates startup.process, if there is one.
StopApplication ==
    /\ pc = "step" /\ CleanupDue
    /\ app' = IF startup = "process" THEN "exited" ELSE app
    /\ startup' = "stopped"
    /\ UNCHANGED <<config, audit, disk, pc, at, base_url, report>>

-----------------------------------------------------------------------------
(* _step_correlation: scanners/correlation/engine.py *)

\* Every engine records a finding together with its evidence: "vuln", or "info"
\* for an informational alert of ZAP.
HasFindings(a) ==
    \E e \in a.evidence :
        e.polarity = "vuln" \/ (e.source = "dast" /\ e.polarity = "info")

InternalEvidence(r, polarity) ==
    [req |-> r, source |-> "internal", polarity |-> polarity, strong |-> TRUE]

\* internal_checks: "flawed" are the finding checks that fail, "scanned" that
\* the SAST run has read some file.
InternalChecks(flawed, scanned) ==
    {InternalEvidence(r, "vuln") : r \in flawed}
        \union {InternalEvidence(r, "ok") : r \in
                  PlatformReqs \union (FindingReqs \ flawed)
                      \union (IF scanned THEN ExclusionReqs ELSE {})}

\* correlate_requirements: nobody passes an applicability, so all apply.
Correlate(evs) ==
    [r \in Requirements |->
        ComputeStatus(Level[r], {e \in evs : e.req = r}, TRUE)]

\* Bug: the internal evidence is not written back.
CorrelatedUnsaved(a, evs) == [a EXCEPT !.result = Correlate(evs)]

Correlated(a, evs) == [a EXCEPT !.evidence = evs, !.result = Correlate(evs)]

\* The job raises before it has assigned anything, or in the links and the
\* score after the matrix is assigned, or it ends normally.
EndCorrelation ==
    /\ at = Correlation
    /\ \/ at \in Fallible /\ EndStep(audit, "FAILED")
       \/ \E flawed \in SUBSET FindingReqs, scanned \in BOOLEAN :
             /\ ~HasFindings(audit) => flawed = {}
             /\ scanned => audit.job[Sast] = "SUCCESS"
             /\ LET evs == audit.evidence \union InternalChecks(flawed, scanned)
                    a   == Correlated(audit, evs)
                IN  \/ at \in Fallible /\ EndStep(a, "FAILED")
                    \/ EndStep([a EXCEPT !.score = TRUE], "SUCCESS")
    /\ UNCHANGED report

-----------------------------------------------------------------------------
(* _step_report, the end of run_full, and run_retest *)

\* Bug: without a score the matrix is left out of the report.
RenderedIfScored(a) ==
    [result |-> IF a.score THEN a.result ELSE NoResults, compared |-> a.compared]

\* What the report files show of the audit they were generated from.
Rendered(a) == [result |-> a.result, compared |-> a.compared]

\* generate_all_reports can fail before its first file or after some of them.
EndReport ==
    /\ at = Report
    /\ \/ /\ EndStep([audit EXCEPT !.report_paths = TRUE], "SUCCESS")
          /\ report' = Rendered(audit)
       \/ /\ at \in Fallible /\ EndStep(audit, "FAILED")
          /\ report' \in {report, Rendered(audit)}

\* Bug: the audit is closed before its report job.
CompleteEarly ==
    /\ pc = "step" /\ at \in {Report, Report + 1}
    /\ Save([audit EXCEPT !.status = "COMPLETE"])
    /\ pc' = IF config.retest THEN "compare" ELSE "done"
    /\ UNCHANGED <<config, at, base_url, app, startup, report>>

Complete ==
    /\ pc = "step" /\ at = Report + 1
    /\ Save([audit EXCEPT !.status = "COMPLETE"])
    /\ pc' = IF config.retest THEN "compare" ELSE "done"
    /\ UNCHANGED <<config, at, base_url, app, startup, report>>

\* run_retest compares with the previous audit after run_full has returned.
CompareAudits ==
    /\ pc = "compare"
    /\ Save([audit EXCEPT !.compared = TRUE])
    /\ pc' = "done"
    /\ UNCHANGED <<config, at, base_url, app, startup, report>>

-----------------------------------------------------------------------------
(* What no _job handles *)

\* The switches are read outside the handler.
ConfigRaises ==
    /\ pc = "step" /\ at = Sast /\ ~SwitchesRead
    /\ pc' = "raised"
    /\ UNCHANGED <<config, audit, disk, at, base_url, app, startup, report>>

\* A save raises, here before it has changed the artifact.  One that raises later,
\* at the index, has been taken; after the last one nothing is left to break off.
\* What was changed in memory is lost with the run.
SaveRaises ==
    /\ SavesRaise
    /\ pc \in {"created", "step", "body", "starting", "compare"}
    /\ pc' = "raised"
    /\ UNCHANGED <<config, audit, disk, at, base_url, app, startup, report>>

-----------------------------------------------------------------------------
Worker == \/ RunFull \/ SkipStep \/ BeginStep
          \/ EndPlainStep \/ EndScanner \/ EndSecurityTests
          \/ EndPlaceholder \/ StartApplication
          \/ StopApplication \/ EndCorrelation \/ EndReport
          \/ Complete \/ CompareAudits \/ ConfigRaises

Next == Worker \/ StartApplicationRaises \/ SaveRaises \/ AppExits

\* The pipeline is one thread that never waits for another: every call it
\* makes has a timeout, so weak fairness of its steps is what the code gives.
\* No run is bound to meet an exception that only may be raised.
Spec == Init /\ [][Next]_vars /\ WF_vars(Worker)

-----------------------------------------------------------------------------
(* Properties.  Those on "disk" are about what a reader or a restarted      *)
(* server finds, at any moment.                                             *)

\* The artifacts and the control state have their types.
TypeOK ==
    /\ config \in Configs
    /\ audit \in AuditRecord
    /\ disk \in AuditRecord
    /\ pc \in {"created", "step", "body", "starting", "raised", "compare", "done"}
    /\ at \in 1..(Report + 1)
    /\ base_url \in BOOLEAN
    /\ app \in {"none", "runserver", "containers", "exited"}
    /\ startup \in {"none", "process", "detached", "failed", "stopped"}
    /\ report.result \in [Requirements -> Verdicts \union {"NONE"}]
    /\ report.compared \in BOOLEAN

\* A saved artifact never shows a job before every earlier job of the pipeline
\* is closed there; so at most one job is RUNNING, and it is the last one
\* (the order of run_full, with skipped jobs written by a later save).
SnapshotOrder ==
    \A s, t \in Steps : t < s /\ disk.job[s] # "ABSENT" => disk.job[t] \in Terminal

\* An audit saved as COMPLETE has all its jobs closed, and the runserver that
\* was started for it has been stopped (run_full, lines 134-147).
CompleteIsClosed ==
    disk.status = "COMPLETE" =>
        /\ \A s \in Steps : disk.job[s] \in Terminal
        /\ app # "runserver"

\* The honesty principle (README, pipeline.py:3-6): a requirement is PASS only
\* on "ok" evidence saved with it, from an engine whose own job succeeded, and
\* with no vulnerability evidence against it.  A scanner that was skipped or that
\* crashed cannot have produced the PASS.
PassIsEarned ==
    \A r \in Requirements : disk.result[r] = "PASS" =>
        /\ Level[r] = "FULLY_AUTOMATED"
        /\ \E e \in disk.evidence :
              /\ e.req = r /\ e.polarity = "ok"
              /\ \/ e.source = "internal"
                 \/ disk.job[SOURCE_JOBS(e.source)] = "SUCCESS"
        /\ \A e \in disk.evidence : e.req = r => e.polarity # "vuln"

\* The saved matrix can be recomputed from the evidence saved with it: the
\* correlation writes back the internal evidence it used, and no later step
\* adds evidence the matrix does not know of.
MatrixReproducible ==
    disk.result # NoResults => disk.result = Correlate(disk.evidence)

\* The report files of a COMPLETE audit show its final matrix, if they could
\* be written: they are generated before the last save of the audit.
ReportIsFinal ==
    disk.status = "COMPLETE" /\ disk.report_paths => report.result = disk.result

\* Without the authorization nothing is started, and no evidence comes from an
\* engine that touches a running target (README: "skipped, never assumed").
UnauthorizedUntouched ==
    ~config.authorized =>
        /\ app = "none"
        /\ \A e \in audit.evidence :
              e.source \notin {"dast", "network", "automated"}

\* Evidence, once saved, is in every later save of the audit: the correlation
\* rewrites the list and no step may drop what an earlier one collected.
EvidenceNeverLost == [][disk.evidence \subseteq disk'.evidence]_disk

\* The artifact refines the abstract life cycle.
Lifecycle == INSTANCE AuditLifecycle WITH
    Matrices <- [Requirements -> Verdicts],
    NoMatrix <- NoResults,
    status <- disk.status,
    closed <- {s \in Steps : disk.job[s] \in Terminal},
    matrix <- disk.result

RefinesLifecycle == Lifecycle!LSpec

\* After a completed run, app_start is SUCCESS in the artifact only if the
\* application was started: the placeholder status of line 97 is replaced, also
\* when the start fails ("instead of pretending success", sandbox.py:13).
AppStartTruthful ==
    disk.status = "COMPLETE" /\ disk.job[AppStart] = "SUCCESS" => base_url

\* Whatever steps fail, are skipped or find nothing, a run comes to its end:
\* COMPLETE, unless an exception has left it (StartApplicationRaises, ConfigRaises,
\* SaveRaises).
EveryRunEnds == disk.status = "RUNNING" ~> disk.status = "COMPLETE" \/ pc = "raised"

\* Every audit that starts ends COMPLETE: a failing step "never crashes the
\* audit" (pipeline.py:3-5).
EveryAuditCompletes == disk.status = "RUNNING" ~> disk.status = "COMPLETE"
=============================================================================
