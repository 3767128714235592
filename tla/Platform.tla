------------------------------ MODULE Platform ------------------------------
(***************************************************************************)
(* The server of apps/api/server.py over the queue, the audit store and    *)
(* the report files: a request creates an audit or a retest, a pool thread *)
(* runs it, others read what there is, the command line regenerates        *)
(* reports in a process of its own, and the server ends and is started     *)
(* again.  A request is named by the audit it leads to, whose artifact has *)
(* one thread in charge at a time: that of the API, then one of the pool.  *)
(* The parts come as their own modules show them: the queue gives every    *)
(* job to one thread, in order (JobQueue.RefinesService), the listing      *)
(* names saved audits only (AuditStore.ListingBehindArtifact), and the     *)
(* saves of a run are those that tell its phases apart.                    *)
(***************************************************************************)
EXTENDS Naturals, Sequences, FiniteSets

CONSTANTS Audits,       \* requests POST /api/audits
          Retests,      \* requests POST /api/audits/{id}/retest
          PreviousOf,   \* the audit each of them names
          Regenerated,  \* the audits "report" is called for
          Clients,      \* "report", and "projects" for GET /api/projects
          max_workers   \* threads of the pool

Requests == Audits \union Retests

ASSUME RequestAssumption ==
    /\ IsFiniteSet(Requests) /\ Audits \intersect Retests = {}
    /\ PreviousOf \in [Retests -> Requests]
    /\ Regenerated \subseteq Requests
    /\ Clients \subseteq {"report", "projects"}
ASSUME WorkersAssumption == max_workers \in Nat \ {0}

\* What a save leaves in the artifact: an audit that is CREATED, that RUNNING
\* without results yet, with them, COMPLETE, with the comparison of a retest.
Created    == 1
Running    == 2
Correlated == 3
Complete   == 4
Compared   == 5
Versions   == 0..Compared

Final(r) == IF r \in Audits THEN Complete ELSE Compared

VARIABLES thread,       \* where the thread in charge of each request is
          artifact,     \* audit.json: open in a save, and its last version
          pool,         \* the jobs no thread has taken yet
          job,          \* what JobQueue.jobs says of each request
          answered,     \* the requests that were answered QUEUED
          logged,       \* the requests in audit.log
          report,       \* the version the report files show, 0 without any
          command,      \* "report": the audit it has loaded
          projects,     \* GET /api/projects: the audits it has still to load
          client,       \* which of the two is considered: they never meet
          users,        \* users.json: "whole", or "torn" (UserStore)
          crashed       \* the server has ended and been started again

vars == <<thread, artifact, pool, job, answered, logged, report, command,
          projects, client, users, crashed>>
requestVars == <<thread, artifact, pool, job, answered, logged>>
clientVars  == <<command, projects, client, users>>

At(pc, v)  == [pc |-> pc, version |-> v]
Nothing    == [audit |-> "none", version |-> 0]

Init ==
    /\ thread = [r \in Requests |-> At("idle", 0)]
    /\ artifact = [r \in Requests |-> [open |-> FALSE, version |-> 0]]
    /\ pool = <<>>
    /\ job = [r \in Requests |-> "none"]
    /\ answered = {} /\ logged = {}
    /\ report = [r \in Requests |-> 0]
    /\ command = Nothing
    /\ projects = [pc |-> "idle", unread |-> {}]
    /\ client \in Clients
    /\ users = "whole"
    /\ crashed = FALSE

-----------------------------------------------------------------------------
\* Bug: only audits that are COMPLETE can be loaded.
ReadableWhenComplete(r) == ~artifact[r].open /\ artifact[r].version >= Complete

\* AuditStore.load: neither FileNotFoundError nor JSONDecodeError.
Readable(r) == ~artifact[r].open /\ artifact[r].version > 0

\* GET /api/audits/{id} and the routes below it, behind auth.
GetAudit(r) ==
    CASE Readable(r) -> 200
      [] ~Readable(r) /\ artifact[r] = [open |-> FALSE, version |-> 0] -> 404
      [] OTHER -> 500

\* The thread in charge of r goes on.
Goto(r, from, to) ==
    /\ thread[r].pc = from
    /\ thread' = [thread EXCEPT ![r] = to]

Saving(v) == At("saving", v)

-----------------------------------------------------------------------------
(* AuditStore.save of the next version of an audit *)

\* Bug: the request is not written to audit.log.
AfterUnlogged(r, v) ==
    CASE v = Created /\ r \in Audits  -> At("submitting", 0)
      [] v = Created /\ r \in Retests -> Saving(Running)
      [] v = Running                  -> At("scanning", 0)
      [] v = Correlated               -> At("reporting", 0)
      [] v = Complete /\ r \in Retests -> Saving(Compared)
      [] OTHER                        -> At("returning", 0)

\* What follows the save of a version: create_audit returns to the API or to
\* run_retest, run_full saves once as RUNNING and goes to its steps, the
\* correlation is followed by the reports, and a retest by the comparison.
After(r, v) ==
    CASE v = Created /\ r \in Audits  -> At("logging", 0)
      [] v = Created /\ r \in Retests -> Saving(Running)
      [] v = Running                  -> At("scanning", 0)
      [] v = Correlated               -> At("reporting", 0)
      [] v = Complete /\ r \in Retests -> Saving(Compared)
      [] OTHER                        -> At("returning", 0)

OpenArtifact(r) ==
    /\ Goto(r, "saving", At("writing", thread[r].version))
    /\ artifact' = [artifact EXCEPT ![r].open = TRUE]
    /\ UNCHANGED <<pool, job, answered, logged, report, clientVars, crashed>>

Written(r) == [artifact EXCEPT ![r] = [open |-> FALSE, version |-> thread[r].version]]

WriteArtifact(r) ==
    /\ Goto(r, "writing", After(r, thread[r].version))
    /\ artifact' = Written(r)
    /\ UNCHANGED <<pool, job, answered, logged, report, clientVars, crashed>>

\* The save raises (OSError): the artifact cannot be opened, or stays torn, or it
\* is written and index.json is not.  No caller of a save catches that: the client
\* of create_audit gets 500, and any other save ends its job.
SaveRaises(r) ==
    /\ thread[r].pc \in {"saving", "writing"}
    /\ \/ UNCHANGED artifact
       \/ thread[r].pc = "writing" /\ artifact' = Written(r)
    /\ IF r \in Audits /\ thread[r].version = Created
       THEN Goto(r, thread[r].pc, At("refused", 0)) /\ UNCHANGED job
       ELSE /\ Goto(r, thread[r].pc, At("ended", 0))
            /\ job' = [job EXCEPT ![r] = "FAILED"]
    /\ UNCHANGED <<pool, answered, logged, report, clientVars, crashed>>

-----------------------------------------------------------------------------
(* The API thread of a request *)

\* auth reads users.json first: a torn one is 500 for every request.  A retest is
\* not looked up before it is queued.
BeginRequest(r) ==
    /\ Goto(r, "idle", CASE users = "torn" -> At("refused", 0)
                         [] users # "torn" /\ r \in Audits  -> Saving(Created)
                         [] users # "torn" /\ r \in Retests -> At("logging", 0))
    /\ UNCHANGED <<artifact, pool, job, answered, logged, report, clientVars, crashed>>

Log(r) ==
    /\ Goto(r, "logging", At("submitting", 0))
    /\ logged' = logged \union {r}
    /\ UNCHANGED <<artifact, pool, job, answered, report, clientVars, crashed>>

\* audit.log cannot be written: the client gets 500.
LogFails(r) ==
    /\ Goto(r, "logging", At("refused", 0))
    /\ UNCHANGED <<artifact, pool, job, answered, logged, report, clientVars, crashed>>

\* queue.submit, and the answer.
Submit(r) ==
    /\ Goto(r, "submitting", At("queued", 0))
    /\ pool' = Append(pool, r)
    /\ job' = [job EXCEPT ![r] = "QUEUED"]
    /\ answered' = answered \union {r}
    /\ UNCHANGED <<artifact, logged, report, clientVars, crashed>>

-----------------------------------------------------------------------------
(* A pool thread: run_full, or run_retest around it *)

Take(r) ==
    /\ pool # <<>> /\ r = Head(pool)
    /\ Cardinality({q \in Requests : job[q] = "RUNNING"}) < max_workers
    /\ pool' = Tail(pool)
    /\ job' = [job EXCEPT ![r] = "RUNNING"]
    /\ Goto(r, "queued", IF r \in Audits THEN Saving(Running) ELSE At("loading", 0))
    /\ UNCHANGED <<artifact, answered, logged, report, clientVars, crashed>>

\* The function of the job raises, or returns.
End(r, from, status) ==
    /\ Goto(r, from, At("ended", 0))
    /\ job' = [job EXCEPT ![r] = status]
    /\ UNCHANGED <<artifact, pool, answered, logged, report, clientVars, crashed>>

\* Bug: a retest waits until its previous audit can be loaded.
LoadPreviousWaits(r) ==
    /\ thread[r].pc = "loading" /\ Readable(PreviousOf[r])
    /\ Goto(r, "loading", Saving(Created))
    /\ UNCHANGED <<artifact, pool, job, answered, logged, report, clientVars, crashed>>

\* The previous audit is loaded when the retest runs, whatever its status; one
\* that is not there, or in a save, or torn, ends the job.
LoadPrevious(r) ==
    /\ thread[r].pc = "loading"
    /\ \/ /\ Readable(PreviousOf[r])
          /\ Goto(r, "loading", Saving(Created))
          /\ UNCHANGED <<artifact, pool, job, answered, logged, report, clientVars, crashed>>
       \/ ~Readable(PreviousOf[r]) /\ End(r, "loading", "FAILED")

\* Bug: an exception is taken for the end of the job.
RaiseQuietly(r) == End(r, "scanning", "SUCCESS")

\* An exception outside _job: of the sandbox, or of a configuration whose
\* "scanning" is null.
Raise(r) == End(r, "scanning", "FAILED")

Correlate(r) ==
    /\ Goto(r, "scanning", Saving(Correlated))
    /\ UNCHANGED <<artifact, pool, job, answered, logged, report, clientVars, crashed>>

\* Bug: the reports are rendered from the audit as it was when it was started.
WriteReportsEarly(r) ==
    /\ Goto(r, "reporting", Saving(Complete))
    /\ report' = [report EXCEPT ![r] = Running]
    /\ UNCHANGED <<artifact, pool, job, answered, logged, clientVars, crashed>>

\* The reports are rendered from the audit in memory.
WriteReports(r) ==
    /\ Goto(r, "reporting", Saving(Complete))
    /\ report' = [report EXCEPT ![r] = Correlated]
    /\ UNCHANGED <<artifact, pool, job, answered, logged, clientVars, crashed>>

Return(r) == End(r, "returning", "SUCCESS")

-----------------------------------------------------------------------------
(* "report AUDIT_ID" of the command line *)

LoadForReport ==
    /\ client = "report" /\ command = Nothing
    /\ \E r \in Regenerated :
          Readable(r) /\ command' = [audit |-> r, version |-> artifact[r].version]
    /\ UNCHANGED <<requestVars, report, projects, client, users, crashed>>

Regenerate ==
    /\ command # Nothing
    /\ report' = [report EXCEPT ![command.audit] = command.version]
    /\ command' = Nothing
    /\ UNCHANGED <<requestVars, projects, client, users, crashed>>

-----------------------------------------------------------------------------
(* GET /api/projects, again and again *)

Saved == {r \in Requests : artifact[r].version > 0}

\* auth reads users.json; then the listing, which may lack some of the audits
\* (AuditStore).
ListAudits ==
    /\ client = "projects" /\ projects.pc # "loading"
    /\ IF users = "torn"
       THEN projects' = [pc |-> "error", unread |-> {}]
       ELSE \E listed \in SUBSET Saved : projects' = [pc |-> "loading", unread |-> listed]
    /\ UNCHANGED <<requestVars, report, command, client, users, crashed>>

\* A JSONDecodeError is not caught: 500, for all projects.
LoadNext ==
    /\ projects.pc = "loading"
    /\ \E r \in projects.unread :
          projects' = IF Readable(r) THEN [projects EXCEPT !.unread = @ \ {r}]
                                     ELSE [pc |-> "error", unread |-> {}]
    /\ UNCHANGED <<requestVars, report, command, client, users, crashed>>

AnswerProjects ==
    /\ projects = [pc |-> "loading", unread |-> {}]
    /\ projects' = [projects EXCEPT !.pc = "served"]
    /\ UNCHANGED <<requestVars, report, command, client, users, crashed>>

-----------------------------------------------------------------------------
\* The server ends at any point, once, and is started again: the jobs and the
\* threads are gone, the files are as they were.  If a login was rewriting
\* users.json, that file stays torn (UserStore).
Stopped == {"idle", "refused", "ended"}
Crash ==
    /\ ~crashed /\ crashed' = TRUE
    /\ thread' = [r \in Requests |->
                    IF thread[r].pc \in Stopped THEN thread[r] ELSE At("lost", 0)]
    /\ pool' = <<>>
    /\ job' = [r \in Requests |-> "none"]
    /\ projects' = [pc |-> "idle", unread |-> {}]
    /\ users' \in {users, "torn"}
    /\ UNCHANGED <<artifact, answered, logged, report, command, client>>

Step(r) == \/ OpenArtifact(r) \/ WriteArtifact(r)
           \/ Log(r) \/ Submit(r)
           \/ Take(r) \/ LoadPrevious(r) \/ Correlate(r)
           \/ WriteReports(r) \/ Return(r)
StepFails(r) == SaveRaises(r) \/ LogFails(r) \/ Raise(r)
Projects == ListAudits \/ LoadNext \/ AnswerProjects

Next == \/ \E r \in Requests : BeginRequest(r) \/ Step(r) \/ StepFails(r)
        \/ LoadForReport \/ Regenerate \/ Projects \/ Crash

\* Some thread that can go on does (the steps of an audit end, see Probing and
\* Sandbox), whether or not anything fails, and the client keeps asking.
Fairness == WF_vars(\E r \in Requests : Step(r)) /\ WF_vars(Projects)

Spec == Init /\ [][Next]_vars /\ Fairness

-----------------------------------------------------------------------------
(* Properties *)

AtWork == {"logging", "submitting", "queued", "saving", "writing", "loading",
           "scanning", "reporting", "returning"}

TypeOK ==
    /\ thread \in [Requests -> [pc: AtWork \union Stopped \union {"lost"},
                                version: Versions]]
    /\ artifact \in [Requests -> [open: BOOLEAN, version: Versions]]
    /\ pool \in Seq(Requests)
    /\ job \in [Requests -> {"none", "QUEUED", "RUNNING", "SUCCESS", "FAILED"}]
    /\ Cardinality({r \in Requests : job[r] = "RUNNING"}) <= max_workers
    /\ answered \in SUBSET Requests /\ logged \in SUBSET Requests
    /\ report \in [Requests -> Versions]
    /\ command \in [audit: Requests, version: Versions] \union {Nothing}
    /\ projects \in [pc: {"idle", "loading", "error", "served"}, unread: SUBSET Saved]
    /\ client \in Clients /\ users \in {"whole", "torn"}
    /\ crashed \in BOOLEAN

\* An audit whose artifact is unfinished or torn is accounted for: a live thread
\* has it, or one waiting job, or its client was told (500, or a FAILED job), or
\* the server has ended under it.  In particular, no job is SUCCESS before its
\* audit is finished on disk.
Unfinished(r) == artifact[r].open \/ artifact[r].version \in 1..(Final(r) - 1)
NobodyForgotten ==
    \A r \in Requests : Unfinished(r) =>
        \/ thread[r].pc \in AtWork \ {"queued"}
        \/ thread[r].pc = "queued" /\ Cardinality({i \in DOMAIN pool : pool[i] = r}) = 1
        \/ thread[r].pc = "ended" /\ (job[r] = "FAILED" \/ crashed)
        \/ thread[r].pc \in {"refused", "lost"}

\* What an answer promises outlives the server: the request is in audit.log
\* ("All mutating API calls are audit-logged", auth.py:6), its audit is on disk,
\* and unless the server has ended since, its job is known.
AnswersHold ==
    \A r \in answered :
        /\ r \in logged
        /\ r \in Audits => GetAudit(r) # 404
        /\ job[r] = "none" => crashed

\* The report files go back only by a "report" command that had loaded an
\* artifact which has been rewritten since.
ReportsGoBackByCommand ==
    [][\A r \in Requests : report'[r] < report[r] =>
          command.audit = r /\ command.version < artifact[r].version]_vars

\* Every request that was answered comes to an end its client can see, unless
\* the server ends under it: again and again, all of them have.
Over(r) ==
    \/ thread[r].pc = "ended" /\ (job[r] \in {"SUCCESS", "FAILED"} \/ crashed)
    \/ thread[r].pc = "lost"
EveryAnsweredEnds == []<>(\A r \in answered : Over(r))

\* GET /api/projects is served again and again, whatever runs, fails or crashes,
\* as long as neither an artifact stays torn nor users.json, which auth reads
\* first (server.py:70): from then on every request is 500.
ProjectsServed ==
    []<>(client = "projects" => projects.pc = "served")
        \/ <>[](users = "torn" \/ \E r \in Requests : artifact[r].open)

\* "The PDF/HTML reports contain: ... retest results" (README.md:156-159).
RetestReported ==
    \A r \in Retests : job[r] = "SUCCESS" => report[r] \in {0, Compared}
=============================================================================
