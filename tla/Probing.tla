------------------------------ MODULE Probing -------------------------------
(***************************************************************************)
(* The dynamic engines against a running application that can stop         *)
(* answering at any request: the built-in probes of the DAST scanner       *)
(* (scanners/dast/scanner.py) and then the automated security tests        *)
(* (security_tests/), over the same client (scanners/dast/http_util.py),   *)
(* up to the verdicts on their requirements.                               *)
(*                                                                         *)
(* An answer is what a probe makes of a response:                          *)
(*   "bad"   the weakness shows (a burst: served without throttling)       *)
(*   "good"  the control shows (a burst: 429)                              *)
(*   "other" neither                                                       *)
(*   "none"  no response: status 0 and an empty body                       *)
(***************************************************************************)
EXTENDS RequirementStatus, Sequences

\* A probe: requests it makes, as a number or per endpoint ("targets") or as a
\* burst; what its verdict looks at; its requirements.
Probe(name, source, requests, kind, ok, vuln) ==
    [name |-> name, source |-> source, requests |-> requests, kind |-> kind,
     ok |-> ok, vuln |-> vuln]

\* Probes of the scanner, in order.  DAST-HDR and DAST-COOKIE look at the answer
\* of the liveness probe ("home").  Probes of several paths are one request, and
\* the four probes of each endpoint are grouped by probe.
DAST_PROBES == <<
    Probe("DAST-HEALTH-001", "dast", "one", "liveness", {"REQ-136"}, {}),
    Probe("DAST-HDR", "dast", "home", "presence",
          {"REQ-020", "REQ-021", "REQ-022", "REQ-067"},
          {"REQ-020", "REQ-021", "REQ-022", "REQ-067"}),
    Probe("DAST-COOKIE-FLAGS", "dast", "home", "presence", {"REQ-023"}, {"REQ-023"}),
    Probe("DAST-ENV-001", "dast", "one", "presence",
          {"REQ-083", "REQ-084", "REQ-085"}, {"REQ-083", "REQ-084", "REQ-085"}),
    Probe("DAST-DEBUG-001", "dast", "one", "absence", {"REQ-082"}, {"REQ-082", "REQ-053"}),
    Probe("DAST-ADMIN-001", "dast", "one", "presence", {"REQ-054"}, {"REQ-054", "REQ-006"}),
    Probe("DAST-DOCS-001", "dast", "one", "alarm", {}, {"REQ-118"}),
    Probe("DAST-XSS-001", "dast", "targets", "alarm", {}, {"REQ-027", "REQ-122"}),
    Probe("DAST-SQLI-001", "dast", "targets", "alarm", {}, {"REQ-008", "REQ-123"}),
    Probe("DAST-TRAVERSAL-001", "dast", "targets", "alarm", {}, {"REQ-032", "REQ-125"}),
    Probe("DAST-REDIR-001", "dast", "targets", "alarm", {}, {"REQ-038", "REQ-001"}),
    Probe("DAST-RATE-001", "dast", "burst", "throttled", {"REQ-049", "REQ-075"}, {}) >>

\* ALL_TESTS, without UPLOAD-001, which is never executed.
ALL_TESTS == <<
    Probe("AUTH-001", "automated", "targets", "absence", {"REQ-001", "REQ-119"},
          {"REQ-001", "REQ-119"}),
    Probe("AUTHZ-V-001", "automated", "one", "session", {"REQ-006", "REQ-095", "REQ-121"},
          {"REQ-006", "REQ-095", "REQ-121"}),
    Probe("AUTHZ-H-001", "automated", "targets", "session",
          {"REQ-004", "REQ-088", "REQ-120", "REQ-128"},
          {"REQ-004", "REQ-088", "REQ-120", "REQ-128"}),
    Probe("XSS-001", "automated", "targets", "first", {"REQ-027", "REQ-122"},
          {"REQ-027", "REQ-122"}),
    Probe("SQLI-001", "automated", "targets", "first", {"REQ-008", "REQ-123"},
          {"REQ-008", "REQ-123"}),
    Probe("TRAVERSAL-001", "automated", "targets", "first",
          {"REQ-032", "REQ-036", "REQ-125"}, {"REQ-032", "REQ-036", "REQ-125"}),
    Probe("REDIR-001", "automated", "targets", "first", {"REQ-038", "REQ-081"},
          {"REQ-038", "REQ-081"}),
    Probe("SSRF-001", "automated", "targets", "first", {"REQ-037", "REQ-124"},
          {"REQ-037", "REQ-124"}),
    Probe("CSRF-001", "automated", "targets", "absence", {"REQ-009", "REQ-127"},
          {"REQ-009", "REQ-127"}),
    Probe("RATE-001", "automated", "burst", "burst", {"REQ-012", "REQ-049"},
          {"REQ-012", "REQ-049"}) >>

\* The whole run, the scanner first.
PROBES == DAST_PROBES \o ALL_TESTS

CONSTANTS Suite,        \* the probes considered, as positions in PROBES; a bound: all
          Targets,      \* endpoints found; at most 10 to 15 are probed
          Burst,        \* requests of a burst; a bound: 20 and 25 in the code
          Accounts,     \* test accounts are configured
          Level         \* the automation levels

\* Probes are left out, but never the liveness probe, and their order is kept.
ASSUME SuiteAssumption ==
    /\ Suite \in Seq(DOMAIN PROBES) /\ Suite # <<>> /\ Suite[1] = 1
    /\ \A i, j \in DOMAIN Suite : i < j => Suite[i] < Suite[j]

ASSUME BoundAssumption == Targets \in Nat /\ Burst \in Nat \ {0} /\ Accounts \in BOOLEAN

Plan == [i \in DOMAIN Suite |-> PROBES[Suite[i]]]
Requirements == UNION {Plan[i].ok \union Plan[i].vuln : i \in DOMAIN Plan}
Answers == {"bad", "good", "other", "none"}

ASSUME LevelAssumption == \A r \in Requirements : Level[r] \in Levels

VARIABLES alive,        \* the application process
          at,           \* position in Plan
          session,      \* the logins of the current test have succeeded
          sent, heard,  \* requests of the current probe, and their answers
          evidence,     \* evidence recorded
          dast,         \* status of the DAST scan
          answered,     \* history: probes that got a response
          shown,        \* history: requirements whose weakness has shown
          broken        \* history: a response broke off

vars == <<alive, at, session, sent, heard, evidence, dast, answered, shown, broken>>

Init ==
    /\ alive = TRUE
    /\ at = 1
    /\ session = FALSE
    /\ sent = 0 /\ heard = {}
    /\ evidence = {}
    /\ dast = "RUNNING"
    /\ answered = {} /\ shown = {} /\ broken = FALSE

-----------------------------------------------------------------------------
Done == at > Len(Plan)
probe == Plan[at]

\* Where the tests begin: the scanner returns there.
AfterScan(i) ==
    CHOOSE j \in (i + 1)..(Len(Plan) + 1) :
        /\ j <= Len(Plan) => Plan[j].source = "automated"
        /\ \A k \in (i + 1)..(j - 1) : Plan[k].source = "dast"

Requests == CASE probe.requests = "targets" -> Targets
              [] probe.requests = "burst"   -> IF Targets = 0 THEN 0 ELSE Burst
              [] OTHER                  -> 1

\* A test that cannot start is NOT_TESTED: no accounts, or no login.
NeedsSession == probe.kind = "session" /\ ~session

\* A test that returns with the first hit.
Decided == probe.kind = "first" /\ "bad" \in heard

\* Bug: an unanswered request is sent again until it is answered.
SentUntilAnswered(answer) == IF answer = "none" THEN sent ELSE sent + 1

Sent(answer) == sent + 1

\* One request.  A running application can also time out.
Ask ==
    /\ ~Done /\ ~NeedsSession /\ sent < Requests /\ ~Decided
    /\ \E answer \in IF probe.requests = "home" THEN Answers \ {"none"}
                     ELSE IF alive THEN Answers ELSE {"none"} :
          /\ sent' = Sent(answer)
          /\ heard' = heard \union {answer}
          /\ answered' = IF answer = "none" THEN answered ELSE answered \union {probe.name}
          /\ shown' = IF answer = "bad" /\ probe.requests # "burst" THEN shown \union probe.vuln
                                                                ELSE shown
    /\ UNCHANGED <<alive, at, session, evidence, dast, broken>>

\* The next probe.
NextProbe(i) ==
    /\ at' = i
    /\ session' = FALSE
    /\ sent' = 0
    /\ heard' = {}

\* SecurityTest.login, for each account of the test.
LogIn ==
    /\ ~Done /\ NeedsSession /\ Accounts /\ alive /\ Requests > 0
    /\ session' = TRUE
    /\ UNCHANGED <<alive, at, sent, heard, evidence, dast, answered, shown, broken>>

NotTested ==
    /\ ~Done /\ NeedsSession
    /\ NextProbe(at + 1)
    /\ UNCHANGED <<alive, evidence, dast, answered, shown, broken>>

-----------------------------------------------------------------------------
(* The verdict of a probe on what it has heard *)

\* Bug: the liveness probe is not looked at.
VerdictAnyhow ==
    IF "bad" \in heard THEN "vuln" ELSE IF "good" \in heard THEN "ok" ELSE "nothing"

Verdict ==
    IF Requests = 0 THEN "nothing" ELSE
    CASE probe.kind = "liveness"   -> IF heard = {"none"} THEN "unreachable" ELSE "ok"
      [] probe.kind = "presence"   -> IF "bad" \in heard THEN "vuln"
                                  ELSE IF "good" \in heard THEN "ok" ELSE "nothing"
      [] probe.kind = "alarm"      -> IF "bad" \in heard THEN "vuln" ELSE "nothing"
      [] probe.kind = "throttled"  -> IF heard \subseteq {"bad", "none"} THEN "info"
                                  ELSE IF "good" \in heard THEN "ok" ELSE "nothing"
      [] probe.kind = "burst"      -> IF "good" \in heard THEN "ok" ELSE "vuln"
      [] OTHER                 -> IF "bad" \in heard THEN "vuln" ELSE "ok"

\* The evidence of a verdict, with the default confidence "High".
Recorded(polarity) ==
    {[req |-> r, source |-> probe.source, polarity |-> polarity, strong |-> TRUE] :
        r \in CASE polarity = "vuln"          -> probe.vuln
                [] polarity \in {"ok", "info"} -> probe.ok
                [] OTHER                       -> {}}

\* Bug: a later "ok" replaces what was recorded before.
RecordLatest(evs) ==
    {e \in evidence : \A f \in evs : f.req # e.req \/ f.polarity = "vuln"} \union evs

Record(evs) == evidence \union evs

\* The liveness probe has failed: the scan is FAILED.
Unreachable ==
    /\ dast' = "FAILED"
    /\ NextProbe(AfterScan(at))
    /\ UNCHANGED evidence

\* The probe has all its answers.
Conclude ==
    /\ ~Done /\ ~NeedsSession /\ (sent = Requests \/ Decided)
    /\ IF Verdict = "unreachable" THEN Unreachable
       ELSE /\ evidence' = Record(Recorded(Verdict))
            /\ dast' = IF probe.source = "dast" /\ AfterScan(at) = at + 1 THEN "SUCCESS"
                                                                     ELSE dast
            /\ NextProbe(at + 1)
    /\ UNCHANGED <<alive, answered, shown, broken>>

\* The application ends in the middle of a response: http.client raises what the
\* client does not catch.  safe_run discards the scan with all its evidence;
\* the test runner reports one test NOT_TESTED.
BreakOff ==
    /\ ~Done /\ alive /\ probe.requests # "home" /\ sent < Requests /\ ~Decided
    /\ NeedsSession => Accounts
    /\ alive' = FALSE
    /\ broken' = TRUE
    /\ IF probe.source = "dast"
       THEN /\ evidence' = {e \in evidence : e.source # "dast"}
            /\ dast' = "FAILED"
            /\ NextProbe(AfterScan(at))
       ELSE /\ NextProbe(at + 1)
            /\ UNCHANGED <<evidence, dast>>
    /\ UNCHANGED <<answered, shown>>

AppExits ==
    /\ alive /\ alive' = FALSE
    /\ UNCHANGED <<at, session, sent, heard, evidence, dast, answered, shown, broken>>

Prober == Ask \/ LogIn \/ NotTested \/ Conclude \/ BreakOff

Next == Prober \/ AppExits

\* Every request has a timeout: the probing thread always goes on.
Spec == Init /\ [][Next]_vars /\ WF_vars(Prober)

-----------------------------------------------------------------------------
(* Properties *)

Result(r) == ComputeStatus(Level[r], {e \in evidence : e.req = r}, TRUE)

\* What the application has shown is held against it: when any probe of any
\* engine has seen a weakness, no later answer, other probe or silence makes a
\* requirement of it PASS (unless a broken response has discarded the scan).
ShownIsHeld ==
    Done /\ ~broken => \A r \in shown : Result(r) # "PASS"

\* A scan that got no response at all is FAILED and leaves no evidence, neither
\* for nor against the application (DASTScanner.run, liveness).
SilentScanFails ==
    (\E i \in DOMAIN Plan : Plan[i].source = "dast" /\ i < at) =>
        \/ \E i \in DOMAIN Plan : Plan[i].source = "dast" /\ Plan[i].name \in answered
        \/ dast = "FAILED" /\ \A e \in evidence : e.source # "dast"

\* "A test that cannot run reports NOT_TESTED - it never silently becomes a
\* PASS" (framework.py:5-6): a PASS rests on a probe that got a response.
PassNeedsAnswer ==
    Done => \A r \in Requirements : Result(r) = "PASS" =>
        \E i \in DOMAIN Plan : r \in Plan[i].ok /\ Plan[i].name \in answered
=============================================================================
