----------------------------- MODULE AuditModel -----------------------------
(***************************************************************************)
(* The vocabulary of one audit: the twelve pipeline jobs                   *)
(* (apps/audits/pipeline.py PIPELINE_STEPS), the job states and the        *)
(* evidence polarities (scanners/base.py), and the job behind each         *)
(* evidence source (apps/requirements_engine/engine.py SOURCE_JOBS).       *)
(* A job is named by its position, so "runs before" is "<".                *)
(***************************************************************************)
EXTENDS Naturals

Discovery     == 1
InitReqs      == 2      \* the job "requirements"
Sast          == 3
Settings      == 4
Dependencies  == 5
Endpoints     == 6
AppStart      == 7
Dast          == 8
SecurityTests == 9
Network       == 10
Correlation   == 11
Report        == 12

Steps == 1..12
ScannerSteps == {Sast, Settings, Dependencies, Dast, Network}

\* "ABSENT": the job has no entry yet in Audit.jobs.
Terminal    == {"SUCCESS", "FAILED", "SKIPPED"}
JobStatuses == {"ABSENT", "RUNNING"} \union Terminal

Polarities == {"ok", "vuln", "info"}
Sources == {"sast", "configuration", "dependencies", "network", "dast",
            "automated", "internal"}

\* The job that must have run for evidence of a source to exist.
SOURCE_JOBS(source) ==
    CASE source = "sast"          -> Sast
      [] source = "configuration" -> Settings
      [] source = "dependencies"  -> Dependencies
      [] source = "network"       -> Network
      [] source = "dast"          -> Dast
      [] source = "automated"     -> SecurityTests
      [] source = "internal"      -> Correlation

\* One evidence item, for one requirement.  "strong" abstracts the confidence:
\* Confirmed or High against the weaker ones.
EvidenceOf(reqs) ==
    [req: reqs, source: Sources, polarity: Polarities, strong: BOOLEAN]
=============================================================================
