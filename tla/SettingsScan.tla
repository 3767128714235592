---------------------------- MODULE SettingsScan ----------------------------
(***************************************************************************)
(* The Django settings scanner (scanners/configuration/django_settings.py):*)
(* the settings modules of a project are read one after the other, the     *)
(* values of a later one over those of the earlier ones, and one table of  *)
(* checks judges what is left.                                             *)
(*                                                                         *)
(* A value is known by what the checks tell apart:                         *)
(*   "missing"          not assigned by any module read so far             *)
(*   "true", "false"    a literal                                          *)
(*   "safe", "low", "weak", "empty"   another literal: as recommended,     *)
(*                      below the recommendation, insecure; [], {}, "" or 0*)
(*   "env"              os.environ: "secure by indirection"                *)
(*   "unknown"          an expression that is not evaluated                *)
(* A MIDDLEWARE or REST_FRAMEWORK is "safe" with all entries the checks    *)
(* look for and "weak" with none; a DATABASES is "weak" with a literal     *)
(* password and "safe" with one from the environment.                      *)
(***************************************************************************)
EXTENDS RequirementStatus, Sequences

Values == {"missing", "true", "false", "safe", "low", "weak", "empty", "env", "unknown"}
Not(values) == Values \ values

\* A check: the setting it judges, the name under which it looks up where that
\* was assigned, and the values that are "vuln", "ok" and "info" to it.  The
\* first of its requirements stands for all.
Check(id, req, setting, place, vuln, ok, info) ==
    [id |-> id, req |-> req, setting |-> setting, place |-> place,
     vuln |-> vuln, ok |-> ok, info |-> info]

Flag(id, req, setting, vuln, ok, info) ==
    Check(id, req, setting, setting, vuln, ok, info)

\* val() answers "__missing__" for a missing setting: to the checks it is a
\* long text, no safe X-Frame-Options and no unsafe referrer policy.
TRANSPORT_CHECKS == {
    Flag("CFG-DEBUG", "REQ-015", "DEBUG", {"true"}, {"env", "false"}, {}),
    Flag("CFG-SECRETKEY", "REQ-013", "SECRET_KEY", {"weak", "missing"}, {"env"}, {}),
    Flag("CFG-ALLOWED-HOSTS", "REQ-016", "ALLOWED_HOSTS",
         {"missing", "empty", "weak"}, {"safe"}, {}),
    Flag("CFG-SESS-SECURE", "REQ-018", "SESSION_COOKIE_SECURE",
         Not({"true", "env"}), {"true", "env"}, {}),
    Flag("CFG-CSRF-SECURE", "REQ-019", "CSRF_COOKIE_SECURE",
         Not({"true", "env"}), {"true", "env"}, {}),
    Flag("CFG-SESS-HTTPONLY", "REQ-023", "SESSION_COOKIE_HTTPONLY",
         {"false"}, Not({"false"}), {}),
    Flag("CFG-CSRF-HTTPONLY", "REQ-024", "CSRF_COOKIE_HTTPONLY", {}, {"true"}, Not({"true"})),
    Flag("CFG-SSL-REDIRECT", "REQ-017", "SECURE_SSL_REDIRECT", Not({"true"}), {"true"}, {}),
    Flag("CFG-HSTS", "REQ-020", "SECURE_HSTS_SECONDS",
         Not({"safe", "low", "true"}), {"safe"}, {"low", "true"}),
    Flag("CFG-NOSNIFF", "REQ-021", "SECURE_CONTENT_TYPE_NOSNIFF",
         {"false"}, Not({"false"}), {}),
    Flag("CFG-XFO", "REQ-022", "X_FRAME_OPTIONS", Not({"safe"}), {"safe"}, {}),
    Flag("CFG-REFERRER", "REQ-069", "SECURE_REFERRER_POLICY",
         Not({"safe", "missing"}), {"safe", "missing"}, {}),
    Flag("CFG-PROXY-SSL", "REQ-105", "SECURE_PROXY_SSL_HEADER",
         {}, {}, Not({"missing", "unknown"}))}

POLICY_CHECKS == {
    Flag("CFG-CSRF-ORIGINS", "REQ-040", "CSRF_TRUSTED_ORIGINS", {"weak"}, {"safe"}, {}),
    Check("CFG-CORS", "REQ-039", "CORS_ALLOWED_ORIGINS", "CORS_ALLOW_ALL_ORIGINS",
          {"weak"}, {"safe"}, {}),
    Flag("CFG-CSRFMW", "REQ-009", "MIDDLEWARE", {"weak", "empty"}, {"safe"}, {}),
    Flag("CFG-SECMW", "REQ-067", "MIDDLEWARE", {"weak", "empty"}, {"safe"}, {}),
    Flag("CFG-XFOMW", "REQ-022", "MIDDLEWARE", {}, {"safe"}, {}),
    Flag("CFG-CSP", "REQ-068", "MIDDLEWARE", {}, {"safe"}, Not({"safe"})),
    Flag("CFG-SESS-AGE", "REQ-025", "SESSION_COOKIE_AGE",
         {"weak"}, {"safe", "empty", "true", "false"}, {}),
    Flag("CFG-PWHASH", "REQ-010", "PASSWORD_HASHERS", {"weak"}, Not({"weak"}), {}),
    Flag("CFG-PWVALID", "REQ-011", "AUTH_PASSWORD_VALIDATORS", Not({"safe"}), {"safe"}, {}),
    Check("CFG-DB-CREDS", "REQ-042", "DATABASES", "DATABASES.default.PASSWORD",
          {"weak"}, {"safe"}, {}),
    Flag("CFG-BODY-LIMIT", "REQ-076", "DATA_UPLOAD_MAX_MEMORY_SIZE", {}, Values, {})}

\* A REST_FRAMEWORK that is no dictionary counts as an empty one.
DrfCheck(id, req) ==
    Check(id, req, "REST_FRAMEWORK", "REST_FRAMEWORK.DEFAULT_...", Not({"safe"}), {"safe"}, {})

DRF_CHECKS == {
    DrfCheck("CFG-DRF-AUTH", "REQ-045"), DrfCheck("CFG-DRF-PERM", "REQ-046"),
    DrfCheck("CFG-THROTTLE", "REQ-049"), DrfCheck("CFG-PAGINATION", "REQ-052")}

CHECKS == TRANSPORT_CHECKS \union POLICY_CHECKS \union DRF_CHECKS

\* A settings module: what reading it comes to, whether its name says
\* development (0), nothing (1) or production (2), and what it assigns.
ModuleStates == {"intact", "syntax", "raises"}

CONSTANT Projects   \* projects considered, see IsProject

\* The modules in path order, and whether Django REST framework is installed.
IsProject(p) ==
    /\ p.drf \in BOOLEAN
    /\ Len(p.modules) \in Nat /\ DOMAIN p.modules = 1..Len(p.modules)
    /\ \A i \in DOMAIN p.modules :
          LET m == p.modules[i]
          IN  /\ m.state \in ModuleStates
              /\ m.weight \in 0..2
              /\ \A s \in DOMAIN m.assigns : m.assigns[s] \in Values \ {"missing"}

VARIABLES project,      \* what is scanned
          unread,       \* modules still to be read
          values,       \* SettingsState.values, of the settings assigned
          origin,       \* SettingsState.origin
          evidence,     \* the evidence; for "vuln", a finding goes with it
          status        \* of the scan; "idle" before it

vars == <<project, unread, values, origin, evidence, status>>

Nothing == <<>>     \* the empty dictionary

Init ==
    /\ project = [modules |-> <<>>, drf |-> FALSE]
    /\ unread = {}
    /\ values = Nothing
    /\ origin = Nothing
    /\ evidence = {}
    /\ status = "idle"

-----------------------------------------------------------------------------
Module(i) == project.modules[i]

\* Bug: the modules are read in path order.
PathOrder(i, j) == i <= j

\* sorted by weight, then by path: production last.
ReadBefore(i, j) ==
    \/ Module(i).weight < Module(j).weight
    \/ Module(i).weight = Module(j).weight /\ i <= j

NextModule == CHOOSE i \in unread : \A j \in unread : ReadBefore(i, j)

\* Without a settings module the scan is SKIPPED.
Start ==
    /\ status = "idle"
    /\ \E p \in Projects :
          /\ project' = p
          /\ unread' = DOMAIN p.modules
          /\ status' = IF p.modules = <<>> THEN "SKIPPED" ELSE "reading"
    /\ UNCHANGED <<values, origin, evidence>>

\* Bug: the first assignment of a setting is kept.
SetOnce(dict, assigned) ==
    [s \in DOMAIN dict \union DOMAIN assigned |->
        IF s \in DOMAIN dict THEN dict[s] ELSE assigned[s]]

\* SettingsState.set for each assignment: the latest wins.
Set(dict, assigned) ==
    [s \in DOMAIN dict \union DOMAIN assigned |->
        IF s \in DOMAIN assigned THEN assigned[s] ELSE dict[s]]

\* A module that does not parse is passed over; any other exception ends the
\* scan in safe_run.
ReadModule ==
    /\ status = "reading" /\ unread # {}
    /\ LET i == NextModule
           m == Module(i)
       IN  /\ CASE m.state = "raises" ->
                       status' = "FAILED" /\ UNCHANGED <<values, origin>>
                [] m.state = "syntax" -> UNCHANGED <<values, origin, status>>
                [] m.state = "intact" ->
                       /\ values' = Set(values, m.assigns)
                       /\ origin' = Set(origin, [s \in DOMAIN m.assigns |-> i])
                       /\ UNCHANGED status
           /\ unread' = unread \ {i}
    /\ UNCHANGED <<project, evidence>>

-----------------------------------------------------------------------------
(* _core_checks and _drf_checks *)

val(s) == IF s \in DOMAIN values THEN values[s] ELSE "missing"

\* What the table says of a value.
Matched(c, v) ==
    IF v \in c.vuln THEN "vuln"
    ELSE IF v \in c.ok THEN "ok"
    ELSE IF v \in c.info THEN "info" ELSE "none"

\* Bug: a missing setting is not judged.
JudgedIfSet(c) ==
    LET v == val(c.setting)
    IN  IF v = "missing" THEN "none" ELSE Matched(c, v)

\* Hosts matter less in debug mode; CORS_ALLOW_ALL_ORIGINS comes before the
\* list of origins; the DRF checks need DRF or a REST_FRAMEWORK dictionary.
Polarity(c) ==
    LET v == val(c.setting)
    IN  IF c.id = "CFG-ALLOWED-HOSTS" /\ v \in {"missing", "empty"} /\ val("DEBUG") = "true"
        THEN "info"
        ELSE IF c.id = "CFG-CORS" /\ val("CORS_ALLOW_ALL_ORIGINS") = "true" THEN "vuln"
        ELSE IF c.setting = "REST_FRAMEWORK" /\ ~project.drf
                  /\ v \notin {"safe", "weak", "empty", "env"} THEN "none"
        ELSE Matched(c, v)

\* The file the evidence names: none for an entry of a dictionary, and for a
\* wildcard in CORS_ALLOWED_ORIGINS that of another setting.
File(c) ==
    LET place == IF Polarity(c) = "ok" /\ c.id = "CFG-CORS" THEN c.setting ELSE c.place
    IN  IF place \in DOMAIN origin THEN origin[place] ELSE 0

RunChecks ==
    /\ status = "reading" /\ unread = {}
    /\ evidence' = {[check |-> c, polarity |-> Polarity(c), file |-> File(c)] :
                       c \in {d \in CHECKS : Polarity(d) # "none"}}
    /\ status' = "SUCCESS"
    /\ UNCHANGED <<project, unread, values, origin>>

Next == Start \/ ReadModule \/ RunChecks

Spec == Init /\ [][Next]_vars

-----------------------------------------------------------------------------
(* Properties *)

\* The module that decides a setting in production: the last one in path order
\* among the intact production modules that assign it, else among the others
\* that are not for development; 0 if there is none.
Deciding(s) ==
    LET Assigning(w) == {i \in DOMAIN project.modules :
            Module(i).weight = w /\ Module(i).state = "intact"
                /\ s \in DOMAIN Module(i).assigns}
        Last(is) == CHOOSE i \in is : \A j \in is : j <= i
    IN  IF Assigning(2) # {} THEN Last(Assigning(2))
        ELSE IF Assigning(1) # {} THEN Last(Assigning(1)) ELSE 0

\* "production-like files override base ones" (django_settings.py:150): what is
\* judged, and where the evidence points, is the module that decides the
\* setting, whatever development modules say and whichever modules are broken.
ProductionDecides ==
    status = "SUCCESS" =>
        \A e \in evidence : Deciding(e.check.setting) # 0 =>
            LET s == e.check.setting
            IN  /\ val(s) = Module(Deciding(s)).assigns[s]
                /\ e.check.place = s => e.file = Deciding(s)

\* What Django does with a setting nobody assigns (DJANGO_DEFAULTS).
Effective(s) ==
    IF val(s) # "missing" THEN val(s)
    ELSE IF s \in {"SESSION_COOKIE_SECURE", "CSRF_COOKIE_SECURE", "SECURE_SSL_REDIRECT"}
         THEN "false"
    ELSE IF s \in {"ALLOWED_HOSTS", "SECURE_HSTS_SECONDS", "AUTH_PASSWORD_VALIDATORS"}
         THEN "empty"
    ELSE "safe"

Insecure(s) ==
    CASE s = "DEBUG" -> {"true"}
      [] s \in {"SESSION_COOKIE_SECURE", "CSRF_COOKIE_SECURE", "SECURE_SSL_REDIRECT",
                "SESSION_COOKIE_HTTPONLY", "SECURE_CONTENT_TYPE_NOSNIFF"} -> {"false"}
      [] s \in {"ALLOWED_HOSTS", "SECURE_HSTS_SECONDS", "AUTH_PASSWORD_VALIDATORS"} ->
            {"weak", "empty"}
      [] OTHER -> {"weak"}

\* The checks that report nothing: a missing CSP, a CSRF cookie that scripts can
\* read and a proxy header are noted, any body limit is praised, and a missing
\* XFrameOptionsMiddleware is passed over.
NeverReport == {"CFG-CSP", "CFG-CSRF-HTTPONLY", "CFG-PROXY-SSL", "CFG-BODY-LIMIT", "CFG-XFOMW"}

\* A setting whose effective value is insecure, assigned or by Django's own
\* default, is reported: its requirements cannot come out as PASS.  Without a
\* host list only a project in debug mode gets away with a note.
InsecureIsReported ==
    status = "SUCCESS" =>
        \A c \in CHECKS : Effective(c.setting) \in Insecure(c.setting) =>
            \/ \E e \in evidence : e.check.req = c.req /\ e.polarity = "vuln"
            \/ c.id = "CFG-ALLOWED-HOSTS" /\ val("DEBUG") = "true"
            \/ c.id \in NeverReport

\* The level of the requirement in requirements/django_137_requirements.yml.
AutomationOf(r) ==
    IF r \in {"REQ-009", "REQ-024", "REQ-025", "REQ-042", "REQ-049", "REQ-052",
              "REQ-067", "REQ-068", "REQ-076", "REQ-105"}
    THEN "PARTIALLY_AUTOMATED" ELSE "FULLY_AUTOMATED"

\* The verdict on a requirement when the other engines have nothing to say of it.
Verdict(r) ==
    ComputeStatus(AutomationOf(r),
        {[req |-> r, source |-> "configuration", polarity |-> e.polarity, strong |-> TRUE] :
            e \in {f \in evidence : f.check.req = r}}, TRUE)

\* "a scanner that could not run turns its requirements into NOT_TESTED, never
\* PASS" (README.md:12): a settings requirement is PASS only if some settings
\* module could be parsed.
PassNeedsReading ==
    (\E c \in CHECKS : Verdict(c.req) = "PASS") =>
        \E i \in DOMAIN project.modules : Module(i).state = "intact"
=============================================================================
