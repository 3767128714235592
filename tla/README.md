# Verification of django-security-auditor

This directory models the concurrent and the decision-making core of the
auditor in TLA+. TLC checks the models on small instances; TLAPS proves every
safety property of these runs for every instance, the refinements included:
of the status engine, the audit pipeline, the findings and the retest, the
scanners and probes, the sandboxes, the worker queue, the stores and the server
as a whole. Liveness is left to TLC.
Paths are relative to the repository (`src/`).

## The system

| component | code | state | operations |
|---|---|---|---|
| audit pipeline | `apps/audits/pipeline.py` | the `Audit` object of the worker | `create_audit`, `run_full` (twelve steps through `_job`) |
| retest | `apps/audits/retest.py` | `Audit.comparison` | `run_retest`, `compare_audits` |
| requirements status engine | `apps/requirements_engine/` | none | `compute_status`, `load_requirements` |
| correlation engine | `scanners/correlation/engine.py` | none | `internal_checks`, `dedupe_findings`, `correlate_requirements`, `compute_score` |
| scanner contract | `scanners/base.py` | `ScanResult`, `AuditContext` | `safe_run` |
| worker queue | `worker/queue.py` | `jobs`, `_counter`, the thread pool | `submit`, `runner`, `list`, `get` |
| audit store | `apps/audits/models.py` | `audit.json` per audit, `index.json` | `save`, `load`, `list_audits` |
| users, sessions, roles | `apps/users/auth.py` | `users.json`, `audit.log` | `verify`, `create_token`, `set_password`, `create_user`, `user_for_token`, `require` |
| sandbox | `scanners/dast/sandbox.py` | a runserver process, compose containers | `start_application`, `stop_application` |
| static engines: settings, dependencies, endpoints, SAST | `scanners/{configuration,dependencies,sast}`, `scanners/dast/endpoints.py` | none between audits | `extract_settings`, `discover_endpoints`, `analyze_source`, `run` |
| network scanner | `scanners/network/`, `target_authorized`, `load_config` | none between audits | `run` |
| dynamic engines | `scanners/dast/scanner.py`, `security_tests/` | none between audits | `run`, `TestRunner.run_all` |
| REST API | `apps/api/server.py` | none of its own | routes over queue, store and users |
| reports | `apps/reports/` | report files | `generate_all_reports`, also by the command `report` |
| command line | `apps/cli.py` | none of its own | `audit`, `retest`, `report`, `users`, ... |
| acquisition, discovery, dashboard, tools | rest | files | I/O, parsing, formatting |

**How they interact.** An API thread creates an audit (one save), submits
`run_full` to the queue and answers. One of two pool threads runs it: every
step marks its job RUNNING, saves, calls an engine, merges evidence and
findings into the `Audit`, marks the job closed and saves. `app_start` is
special: it runs outside `_job`, after a placeholder job of the same name. The
correlation turns all evidence into one verdict per requirement, the report is
written, the audit becomes COMPLETE. Other threads read the artifact, the index
and the jobs at any time, and log users in; a process of the command line can
regenerate the reports meanwhile. Nothing but `submit` takes a lock, and only the
files survive the server.

**What is hard.** Steps fail in any combination; the application under audit
dies between two probes; the server crashes between two saves, or inside one,
and forgets its jobs; files are rewritten in place by several threads; jobs are read attribute by
attribute while they are written; and all of it must keep the promise of the
README: PASS only on proof. `PROJECT.json` lists the hazards at their lines.

**What makes a component correct.**

* *Audit pipeline*: jobs close in order whatever fails; evidence is never lost;
  a saved PASS has saved evidence of an engine whose job succeeded; nothing
  dynamic happens without the authorization; every run ends.
* *Status engine*: PASS only for a fully automated requirement with proof and
  without any sign of a weakness; more evidence never softens a verdict but by
  the proof that was missing.
* *Correlation, score, retest*: merging loses no evidence and mixes no
  weaknesses; the score counts the worst that was reported; the comparison
  covers every finding of both audits, once; a failed requirement is explained by
  an open finding, but for three that can fail without one.
* *Probes*: a weakness that has shown is held against the application, whatever
  comes later; a scan that heard nothing is not a success; probing ends.
* *Static engines*: what production sets is what is judged, whatever other
  settings modules say; a package is judged by one declaration, the first; the
  endpoints of a plain URL tree are the routes Django serves; cycles end; the
  taint of a function is the flow of the request data that is in sight in it, and
  what a file shows is reported once, whichever layer or function sees it first.
* *Network scanner*: nothing is scanned that the operator has not listed and
  confirmed, whatever the configuration file lacks or gets wrong; what an open
  port shows is not outweighed by the others.
* *Platform*: what an answer promises is in the files; an audit that is not
  finished is in the hands of somebody, or its client can see that it failed.
* *Queue*: a job is executed once, at most `max_workers` at a time, and ends
  once; an observer never sees FAILED without the error.
* *Stores*: the index shows no save that is not in the artifact; without
  overlap the listing, the logins and the password changes are exact, also
  after a crash.
* *Sandbox*: no session that comes to its end leaves a runserver behind; an audit
  probes a foreign application only after a collision of ports.

## Modules

* `AuditModel` — the vocabulary: jobs as numbers 1..12 in pipeline order, job
  states, evidence as (requirement, source, polarity, strong).
* `RequirementStatus` — `ComputeStatus`, the early returns of `compute_status`;
  `RequirementStatus_proofs` — what it promises for all evidence.
* `AuditPipeline` — one audit. `audit` is the object in memory, `disk` the
  artifact as last saved, `pc` and `at` the position in `run_full`. One action
  per half of `_job` (`BeginStep`, and an `End...` action per kind of step),
  `SkipStep` for a switched-off step, four actions for the sandbox, `Complete`
  and `CompareAudits` for the last saves; `StartApplicationRaises`, `ConfigRaises`
  and `SaveRaises` are the exceptions no `_job` handles. Engines are their outcomes
  (`ScanOutcomes`): finished with any evidence of theirs, skipped, or failed
  with the evidence discarded by `safe_run`; DAST depends on the base URL and
  on whether the application is alive.
* `AuditLifecycle` — what a reader of the artifact may rely on: CREATED,
  RUNNING, COMPLETE; jobs close in order and are never reopened; the matrix
  appears once, when all evidence is in. `AuditPipeline` refines it.
* `AuditPipeline_proofs` — its theorems.
* `Findings` — `dedupe_findings`, `_merge`, `compute_score` and
  `compare_audits` as functions on sequences of findings. Scores are in
  hundredths and not rounded; requirement weights are halved beforehand.
* `Retest` — an audit and its retest over `Findings`: `Scan` chooses what the
  engines report, `Correlate` and `CorrelationFails` are `_step_correlation`,
  `BeginRetest` and `EndRetest` the two halves of `run_retest`, with anything
  of the first audit between them. What the engines can report is any sequence
  of weaknesses whose CWEs and places are related as those of the rules are
  (`RuleAssumption`, `PlaceAssumption`). A weakness has the requirements of its
  finding (`reqs`) and those its evidence is tagged with (`tags`), which are the
  same but for ZAP, whose evidence has REQ-136 and whose finding has none
  (`TagAssumption`); `InternalEvidence` is what the platform says of its own work.
  `Retest_proofs` — its theorems.
* `Probing` — the built-in probes of the DAST scanner and `ALL_TESTS`, as a
  table (requests, how the verdict reads the answers, requirements), of which any
  selection that begins with the liveness probe is run (`Suite`), and one
  request per step: `Ask`, `LogIn`, `NotTested`, `Conclude`, `BreakOff` for a
  response that ends in the middle, `AppExits`. An answer is the sign of the
  weakness ("bad"), of a protection ("good"), something else, or none.
* `Sandbox`, `Sandbox_proofs` — the sandboxes of concurrent audits: the port is
  chosen (`PickPort`) long before it is bound (`Bind`), the worker waits for any
  answer on it (`Answered`), probes, and terminates its own process (`GiveUp`,
  `Stop`). `LaunchFails`, `WaitRaises` and `SaveRaises` break the session off by an
  exception; the last two pass `stop_application` by. The
  applications are processes of their own and survive `Crash`.
* `SettingsScan` — `extract_settings` module by module, of those still unread the
  one that comes first by weight and path (`ReadBefore`; in `ReadModule` the latest
  assignment wins, a module that does not parse is passed over), and the checks
  as one table over the kinds of values they tell apart (`RunChecks`).
* `DependencyScan` — `ReadManifest` in the order of the walk, `ParserRaises` for a
  line no parser handles, `FallBack` to the installed environment, `Judge` for one
  declaration.
* `EndpointScan` — the roots that are left, in the order of the files, and
  `parse_file` as a stack of open calls, the innermost one last: `ParseRoot`,
  `AddEndpoint`, `Include`, `PassOver`, `Return`; `Opened` is the call that is refused
  for a file that was visited or does not parse. An entry is a view, a route of a
  router, a place where the router is mounted, or an include, by its name or in
  another form (a tuple, a module). The reference is `Served`, the paths
  Django serves: the mounts of the files as a fixpoint over the includes, and within
  a file the routes of its router under every place where it is mounted.
* `NetworkScan` — `load_config` and `_deep_merge` for the section of the network,
  `target_authorized`, and one host per step (`ScanHost`), a port being judged by
  the branches of `_scan_host`. A port is closed or has a service that is
  outdated, current, or says nothing; where the text of a version decides, the
  model has what the comparison comes to.
* `SastScan` — file by file the patterns (`ScanText`) and the tree (`WalkTree`).
  A node has its depth and its place in the text, which is all that the order of
  `ast.walk` depends on: `TaintOf` looks at the nodes of a function in this order
  (`FirstOf`), and every hit of `CallHits`, `ClassHits` and `MarkHits` has the visit
  on which it is found (`Visit`), so that `Merge` keeps the earliest hit at a place.
  A call has its data as the first argument, a later one or a keyword: `Watched`
  says which of them its rule looks at, `Claimed` what confidence it claims, which
  comes from the first argument alone. The references for taint are two closures of
  the assignments, `Confines` from above and `Flow` from below.
* `Engines` — these five and `Probing`, each on a project of its own: they share
  the source tree and nothing else, so a behaviour is one engine on one project.
  `Engines_proofs` — its theorems, engine by engine.
* `JobQueue`, `JobService`, `JobQueue_proofs` — the worker queue, attribute access by attribute
  access, and the service it refines: numbered, executed once, at most
  `max_workers` at a time, ended once.
* `AuditStore` — `save` and `list_audits` file operation by file operation,
  several writers, one crash.
* `UserStore` — everything that rewrites `users.json`: logins, password changes,
  users that are added or get another role, the default administrator of the first
  start; one thread per request, read and write as two steps. `Rivals` are other
  processes that were started on the same empty directory and write what they start
  with (`OpenFirst`), whatever is there by then.
* `Workdir`, `Workdir_proofs` — these two stores, which share the directory and no
  file, and the theorems about both.
* `Platform`, `Platform_proofs` — the server as its clients see it. A request is named by the audit it
  leads to, and `thread` says where the thread in charge of it is, from the save
  of `create_audit` over `Log`, `Submit`, `Take` and the saves of `run_full` to the
  status of the job; `LoadPrevious` is the beginning of a retest.
  `LoadForReport` and `Regenerate` are the command line in another process,
  `Projects` the listing that loads every artifact, `SaveRaises` a save that fails,
  `Crash` the end of the server that loses pool, jobs and threads and may tear
  `users.json`, which every request reads first. What it takes from the parts is what their
  modules promise: the queue hands every job to one thread, in order
  (`RefinesService`), the listing names saved audits only (`ListingBehindArtifact`),
  the phases of an artifact are those of `AuditLifecycle`.
* `MC...` — the instances for TLC.

Operators whose comment begins with "Bug:" are alternatives of a definition, as
a plausible mistake would write it. They are in no `Next`; replacing the
definition by them shows that the property they belong to can fail.

## What TLC checks

| run | instance | shows |
|---|---|---|
| `AuditPipeline` | 4 requirements, 5 items of evidence, 5 configurations, 7 steps that may fail, saves that raise | artifact, authorization, honesty and life cycle after every save; every run ends |
| `JobQueue` | 3 jobs, 2 clients, 2 workers, 1 observer | the queue implements `JobService`, consistent reading, liveness |
| `Workdir` | 3 audits, 2 saves each; 2 logins, 1 added user who changes a role, the start of the server, and 1 password change or 1 other process started on the empty directory; tokens that live 1 tick; 1 crash | index and artifacts, sessions, roles and passwords under interleaving |
| `Platform` | 2 audits and the retest of one on 2 threads, a client that lists or a report command, failures and saves that raise at every step, 1 crash | answers, unfinished audits, reports and progress of the whole server |
| `Retest` | up to 3 of 8 weaknesses per audit, one port | merging, score, comparison |
| `Engines` | 2 or 3 settings modules; 2 manifests of 2 and 1 entries; 3 URL files of up to 2 entries, with routers and includes of every form; 4 hosts under every small configuration; Python files with up to 3 assignments, nested functions, classes, 2 files; 9 probes of 2 endpoints, bursts of 2 | merge, judgement and resolution of the engines, the verdicts against an application that hangs, exits or breaks off |
| `Sandbox` | 3 audits, 2 threads, 2 ports, 3 kinds of project, exceptions, 1 crash | ports, processes, the end of sessions |
| `RetestReported`, `SandboxRaises`, `FixedIsGone`, `SilencePasses`, `UnreadPasses` | the instances above (`FixedIsGone` with two ports and 2 weaknesses per audit) | the counterexamples below |

**Why the bounds are enough.** The configurations of `AuditPipeline` are
everything on, dynamic steps refused, dynamic steps off, static steps off, and one
whose switches cannot be read: each `if` of `run_full` goes both ways; settings, dependencies and endpoints never
fail there because they repeat what discovery and SAST show (the proofs have no
such restriction). Three jobs on two workers make a job wait while two run, and
two clients can pool in the wrong order. A third audit in `Workdir` is
created after the other two have interfered, or after the crash; two logins and a
writer of another kind are every overlap of `users.json`, and one tick separates
a token that has expired from one that has not. The two logins are alike, which
the run uses as symmetry. `Arrivals` says which requests come together: the rival
process with everything but the password change, and everything but the rival. In
`Platform` the retest can meet its previous audit in every phase, on the other thread or before it in the queue;
the list of projects and the report command touch different files, so that one of
them is considered at a time (`client`). The eight
weaknesses of `Retest` are taken from rules of the engines so that each way to
join a group, and each way not to, occurs; three at a time are needed for a
finding that joins by the representative of a group and not by its second
member; two of them are alerts of ZAP, one without a solution, so that requirements
fail without a finding. One port is enough for its invariants, because ports only
rename keys between two audits; `FixedIsGone` is also violated by the merged key alone. The
nine probes are one of each kind, with requirements that several of them decide.
Three settings modules have weights in the order of their paths, in the reverse
order and with equals, each of them intact or not; two settings at a time are what the checks compare (`DEBUG` with `ALLOWED_HOSTS`, the
two CORS settings). Two manifests and two entries of one name give every first
and every later declaration. Three URL files make a chain, a cycle, a file
mounted twice and one mounted by a file that does not parse; two entries make a
view after an include, where the prefix must be the old one again, or a router and
its mount; one entry may be in a form the code does not resolve. The four hosts
are the two defaults, another local one and a public one, and the configurations
give each key of the section, or null for it, or no section. Two assignments and a
call are a chain with every nesting and every order; the third closes a loop of
three; nested functions share two calls on a line, where the first hit counts.
Two ports and three audits let an audit collide with another, with an orphan of
a crash, and find a port that was given back. The audits are alike but for their
projects, so one order of each choice of projects is considered (`MCInit`).

**Deadlock** is not checked: all of these systems really stop, when the audits
are done, the clients have nothing more to submit, or the server has crashed.

**Fairness.** `AuditPipeline`, `Probing` and `Sandbox` assume that the thread of
an audit takes its next step: it runs alone in its pool thread, it waits for
nothing but requests and commands, and each of them has a timeout (8 s per
request in `http_util.py`, 45 s of waiting and 180 to 600 s per command in
`sandbox.py`). Nothing is assumed of the application, and no exception or failure
that only may happen is under fairness (`StartApplicationRaises`, `SaveRaises`,
`SessionFails`, `StepFails`): a run that can end by nothing else would not end. In
`Engines` fairness is stated of the probes and of the resolution of endpoints,
whose end is in doubt; the other engines are loops over fixed lists.
`Platform` assumes that some thread of the server that can take a step does, which
is weaker than fairness to each, and that the client asks again. `JobQueue` assumes that a
client that has registered a job goes on to pool it and that pool threads run
what is pooled; that the submitted function returns is `EveryRunEnds`. The
stores assume nothing, their properties are safety.

## What disagrees with the documentation

1. `SandboxRaises`: the installation of an isolated environment can raise out of
   `start_application` (`sandbox.py:140-146`), which `run_full` calls outside
   `_job`: the audit stays RUNNING for ever, with app_start SUCCESS in its
   artifact, although a failing step "never crashes the audit"
   (`pipeline.py:3-5`). So can an answer `_wait_http` does not understand
   (`sandbox.py:54-57`), and a configuration with `scanning: null` at
   `pipeline.py:75`.
2. `FixedIsGone`: `compare_audits` calls a weakness fixed that the same rule
   still reports: the key of a merged finding depends on what else was found,
   that of a dynamic finding on the port of its audit (`retest.py:6`).
3. `SilencePasses`: an application that exits after the liveness probe passes
   the tests that look for the sign of a weakness (`framework.py:5-6`).
4. `UnreadPasses`: when no settings module parses, the scan is a SUCCESS and the
   checks that take a missing setting for Django's default pass REQ-010,
   REQ-021, REQ-023 and REQ-069 (`README.md:11-12`, "never `PASS`").
5. `RetestReported`: the report files of a retest lack its results
   (`README.md:156-159`): `run_full` has written them before `run_retest` compares
   (`retest.py:64-69`), until somebody calls `report`.

Seen while modelling, and not stated as a run. Where a property would be violated
by one of the first five, its comment names what it leaves out:

* A runserver stays up when an exception breaks its session off: one of `_wait_http`
  that is neither HTTPError, URLError nor OSError (`sandbox.py:54-57`, 275), or a save
  that raises before `stop_application`, which is in no `finally` (`pipeline.py:135`,
  153, 165), although `docs/THREAT_MODEL.md:14` has "sandbox process group cleanup".
  `NoneLeftRunning` speaks of sessions that come to their end.
* The score deducts for every failed requirement, where the comment wants it only for
  "fails with no finding link" (`engine.py:228-230`).
* The URL parameters of a method are not tainted, since its first parameter is `self`
  (`taint.py:56`), nor what is assigned request data inside a boolean operation, a
  comparison, a comprehension or an `await` (`taint.py:95-124`), against
  `taint.py:4-5`. `TaintFollowsFlow` asks for neither.
* `requests.get(url=request.GET["u"])` is not Confirmed, and
  `requests.request("GET", request.GET["u"])` is no hit (`ast_analyzer.py:460-467`);
  `extra()` is never Confirmed (lines 428-432), against `ast_analyzer.py:4-5`.
  `WeaknessIsHeld` speaks of first arguments.
* `path("api/", include(router.urls))` loses "api/" (`endpoints.py:125-136`), and a
  file included in a tuple or as a module is taken for a root and loses its prefix
  (lines 85, 148), although `endpoints.py:4-5` promises the full mounted path. `Plain`
  excludes both.
* A line `-r` without a target in a requirements file fails the whole scan
  (`discovery.py:59`).

* Two overlapping saves lose an entry of the index (`models.py:159-166`):
  `index.json` is read, changed and rewritten without a lock;
  `SerialListingExact` is what remains.
* A vulnerable version pinned in a lock file is not seen behind a floating entry
  of the same package in an earlier manifest (`scanner.py:203`).
* Routes inside `include([...])`, includes of a project in a subdirectory, apps called
  admin, routes that are no constants and the second mount of a file lose their prefix
  or are not reported, too; `Regular` excludes them.
* A missing `SECRET_KEY` is reported as a literal, because the placeholder
  `"__missing__"` is one; a missing `XFrameOptionsMiddleware` is never reported;
  findings about `DATABASES` and `REST_FRAMEWORK` name no file; what only a
  development module assigns counts; `DJANGO_DEFAULTS` is not used.
* Two overlapping logins lose a token that was returned to its client, in the
  same way as an entry of the index (`auth.py:90-98`); an added user or the default
  administrator undoes what it overlaps with, and so does a process that had found no
  `users.json` when it was started. `SerialSessionsHold` is what remains.
* A torn artifact is an exception for every reader: `GET /api/projects` is then 500
  for all audits (`models.py:135`, `server.py`), for good if it was torn by a crash or
  by a save that failed. A torn `users.json` is one for every request.
  A restart leaves unfinished audits CREATED or RUNNING, and its job ids begin at
  `job-0001` again. An audit whose request cannot be logged stays CREATED, and its
  client gets 500 (`server.py:116-119`).
* A deviation from the expected ports is FAIL, by the evidence of
  `network/scanner.py:175-179` with its default confidence, although the comment at
  line 282 wants a review. An outdated SSH server is never reported: its version has
  another prefix than the check (line 131); nor is an old TLS, which the client
  refuses to speak. An invalid section of the network, or a port in it that is no
  number (line 53), is FAILED instead of skipped, because it is read before the
  authorization is asked for.
* SAST: "direct request data" is not always Confirmed, nor indirect data the default
  of the rule (`docs/ARCHITECTURE.md:60` against PATH-001 and CMD-003); of two calls
  of a rule on a line, or of a function seen from outside and inside, the first hit
  counts and a stronger later one is lost; a check of hosts anywhere in a function
  excuses all of its redirects; an assignment nested deeper than its use is not
  followed; a null byte fails the whole scan before Python 3.12.
* A compose application never answers: the port of `_free_port` is not passed to
  compose. Its containers are left up whatever happens (`sandbox.py:218-229`).
  What answers there, if anything, is another audit's application.
* `REGRESSED` is never set; internal checks can PASS with no engine having run.
* A representative can attract findings that would otherwise stay apart, so the
  score can improve when more is found.
* `RATE-001` fails a dead application; a response that breaks off discards the
  scan, after which a weakness that had shown can end as PASS (`ShownIsHeld`
  excludes this case, by name).
* `dict(headers)` keeps one of several `Set-Cookie` headers
  (`http_util.py:63`).

## What is proved

TLAPS proves every invariant and every action property that a passing run checks,
and both refinements, for every value of the constants: every catalogue, all
evidence, every configuration and every set of failing steps; any number of
audits, ports, threads, processes, clients, requests and saves; any settings modules,
manifests, URL files, networks, Python files and selections of probes; any
weaknesses the engines report. Beyond the runs it proves that jobs
close in order in the artifact (`ArtifactsInOrder`) and that saved evidence stays
(`EvidenceKept`), and the theorems on `ComputeStatus`.

The only assumptions are those on the constants, declared in the modules and
evaluated by TLC: their types, that requirements of internal checks are
requirements, that the audits of `Sandbox`, the pool threads of `JobQueue`, the
requests of `Platform`, the requirements of `Retest` and the URL files of `Engines`
are finitely many, that `Nobody` is no audit, that a login of `UserStore` is not
named like a password nor like one of `Rivals`. Four say more about the data. `SuiteAssumption`: the liveness
probe is the first one, as in the scanner. `RuleAssumption` and `PlaceAssumption`: a
rule goes with one CWE or none, and of two reports under one CWE, if one has a file
and the other a line then each has both, as the engines write them; without it a
merged finding could take its file from one and its line from another.
`TagAssumption`: evidence is tagged with the requirements of its finding, but for the
REQ-136 of ZAP. The projects
of the engines are what `IsProject` of their modules says of them, which is what the
code reads. `AuditStore` and `UserStore` state their assumptions as an operator
(`IsAuditBounds`, `IsUserBounds`), and `Workdir` assumes them.

*The status engine.* Three theorems on `ComputeStatus`, about any set of
evidence: a PASS needs proof and no sign of a weakness, partial evidence is
counted, and more evidence only hardens the verdict but for the proof that was
missing. Since the verdict is a function of the set of evidence, the order of
the engines is immaterial.

*The pipeline.* None of its properties is inductive: each is about `disk`, which
follows `audit` only at the saves. `IInv` adds that jobs before the current one
are closed and later ones absent (`JobsInOrder`), that control state, job and
status agree (`ControlAgrees`), that the artifact differs from memory in jobs at
most and only between a step that was not saved and the next save
(`DiskFollows`), who may be running and who must not (`SandboxTracked`), where
evidence comes from (`EvidenceTraced`) and that matrix and report derive from it
(`MatrixDerived`). There is one lemma per action. `PassesEarned` then takes the
PASS apart with `PassNeedsProof`, a lemma on `ComputeStatus`, and finds the job
of its evidence with `EvidenceTraced`. For the refinement, every action is shown
to be a step of `AuditLifecycle` or to leave its variables alone, by what a save
closes.

*The sandboxes.* `Sharing` says that any two active audits with the same port
have collided. It survives every order of binding and exiting, because a port is
only ever chosen in `PickPort`, which sees all who expect it; with it, whoever
answers a probe is the audit's own application or a collision. A session that has
come to its end has no process, because none was launched or it was terminated; of a
session that was broken off nothing is claimed.

*The queue.* `RunOnce` counts holders, so the proof keeps who has a job apart:
no two places, clients or workers have the same one (`HeldOnce`), the jobs
somebody has are the open ones (`OpenIsHeld`), and the status of a job follows
from who has it (`StatusOfHolder`). `FailedHasError` carries the promise to the
observers: the error is set before the status, and an observer between its two
reads has a job whose error is set already. The refinement needs a count: the
jobs that run map one to one to workers other than the one that is about to
start its own, so there is room for it (`PlaceForTaken`).

*The audit store.* An artifact is the last save once its writer has gone on to the
index (`ArtifactFirst`), and neither the index nor what a writer has read of it is
ahead of an artifact (`EntriesBehind`). Nothing is asked of the order of the
writers or of the files being whole, which is why the listing can be too old
and never too new. That it is exact without overlap needs more: artifacts that
nobody has open are whole (`ArtifactSettled`), one process at most is inside a save
(`OneSaver`), and the index and the copy that this one is about to write back have
the last save of every audit but of those inside a save, where a process that
crashed stays for ever, and of those a rebuild has still to read (`IndexExact`).

*The user store.* The file and every copy of it that a thread is about to write
back are sound (`DataSound`): their password is the default or one somebody had
begun to write, their tokens are earned. It survives every overlap because a thread
that wrote never takes it back, and because the start of the server, which does,
sets the default password. Without overlap one thread at most is between its read
and its write (`OneRewriter`), the file holds everything that was acknowledged or is
empty while this thread has it open (`FileHolds`), and its copy holds the same and what it is about
to acknowledge itself (`ThreadHolds`).

*Findings and retest.* The invariant says little: an audit shows what its engines
reported or what `Dedupe` makes of it. The work is in lemmas on the functions. A
merged finding keeps the evidence, the requirements, the worst severity and the
strongest confidence of its items (`MergeKeeps`); a pass keeps every finding in one
group (`PassKeeps`), no evidence in two (`PassKeepsApart`) and file and line
together (`PassKeepsCoherent`); the pass by keys leaves no key twice (`KeysApart`),
and so the classes of the comparison add up to what it compares (`CountParts`). What is
weighed heaviest is what is worst (`HeavierIsWorse`), and the score stays in its
bounds (`ScoreBounds`). A FAIL has evidence that says "vuln": of an engine, and then
its finding is in a merged one with its requirements, or of the platform or of ZAP,
which are the exceptions of `WithoutFinding`.

*Recursion.* The library's induction over the natural numbers has an operator as a
parameter, which the provers cannot instantiate. Where a recursive function must
be shown to exist or to keep something (`Grouping` and `GroupedKeeps` for the groups,
`LevelsExist` for the includes, `TaintExists` for the taint), the proofs take the least
number for which it fails (`Least`, from the well-foundedness of the naturals) and
contradict it.

*The settings.* Of the modules already read, in the order of `ReadBefore`
(`InOrder`), the last one that assigns a setting and parses has given its value and
its place (`LatestWins`); when all are read, this is the module that decides.

*The dependencies.* The list holds what the manifests read so far declare
(`Collected`), of a name by its first declaration (`LeadersAreFirst`); what has been
judged has exactly the evidence of its first declaration, and what has not been seen
is still to come (`SeenAreJudged`, `UnseenAreListed`).

*The endpoints.* The mounts of a plain project, a least fixpoint, are built level by
level (`IsLevels`). Every open call runs under the mount of its file (`Calls`), and each entry before the
next one of its call is handled: what is reported is an endpoint, a file that is
followed has been visited (`Handled`). A file that has been visited and is not open is done with all its
entries. Conversely a served path that was missed would have a mount of the least level
that was never opened, but its includer, one level up, was.

*The network.* What is scanned and what is still to be is the scope of the
configuration (`ScopeKept`), and the evidence is that of the hosts scanned
(`HostsHeld`).

*SAST.* The nodes of a function are looked at once each, and the tainted names only
grow (`TaintRun`, `TaintGrows`). Names that confine the flow contain each name that is
added (`TaintIsConfined`); an assignment above another and no deeper is looked at before it,
so the flow is followed down the text (`FlowIsTainted`). For the findings, a rule shows
once on one visit (`TreeShowsOnce`), no two visits are at once (`VisitsAreOrdered`)
and of any hits one is the earliest (`EarliestExists`). So `Merge` keeps that every place
seen has one finding, which is of a hit of its file (`FindingsHeld`, `MergeKeeps` for it), and
when all files are read every hit has been seen (`FilesAreCovered`).

*The probes.* What was heard belongs to the current probe (`HeardIsCurrent`); what has
shown is in the evidence or about to be, as long as no response has broken off
(`ShownKept`); after a silent liveness probe only the tests are left
(`SilenceKept`).

*The server.* An artifact has one thread in charge, and the place of that thread
says which version is on disk (`PhaseOnDisk`). With the pool holding exactly what
is queued (`PoolHoldsQueued`) and jobs telling how their audit is left
(`JobsTruthful`), whatever is unfinished has a thread, a job that says FAILED, or a
server that has ended. `AnswersEarned` says what an answer has been preceded by,
`ReadingsBehind` that no report is ahead of the artifact.

*Only model-checked*: liveness (`EveryRunEnds`, `EveryJobFinishes`,
`EveryScanEnds`, `EverySessionEnds`, `EveryAnsweredEnds`, `ProjectsServed`), which
rests on fairness and is out of the prover's reach. The five counterexamples are
of course TLC's, too.

## What is not modelled

The text of findings, reports and logs; how a rule recognises a call, a secret or a
control in Python (a node of `SastScan` says which rule watches it), the advisories
and the comparison of versions, which are data; the rendering of reports, which is
layout; sockets, nmap, git and archives, which are their results; the dashboard, the
tools and the deployment files; the parts of the command line that parse arguments
and print around the operations of the other components. The profile of a project
(`discovery.py`) is pattern matching without state. `PROJECT.json` has the reason for
each component.
Other programs of the host that take a port between `_free_port` and `Bind` are
left out of `Sandbox`: they would answer like a foreign audit.

## Plan

Done, in this order: the status engine, the pipeline with its life cycle and its
proofs, the queue with its service, the stores, findings and retest, the probes,
the sandboxes with their proofs, the engines, the server as a whole, the
proofs of the queue, the stores and the server, those of the serial properties of
the stores, of findings and retest, and of the engines.

Next, in order of importance:

1. `Platform` takes the queue as `JobService` and the artifact as `AuditLifecycle`
   describe them; state this as refinements of `Platform`, and prove them.
2. The confinement of archives and uploads (`sources.py`) against a reference.
