------------------------------- MODULE Retest -------------------------------
(***************************************************************************)
(* An audit and its retest: what the engines report of a project, how the  *)
(* correlation merges and scores it (apps/audits/pipeline.py               *)
(* _step_correlation), and how run_retest (apps/audits/retest.py)          *)
(* classifies it.  Between the two audits the project is changed at will,  *)
(* and the application under test listens on another free port.            *)
(***************************************************************************)
EXTENDS Findings, Integers

CONSTANTS Requirements, Level, ReqSeverity,
          Weaknesses,       \* what the engines can report, in pipeline order
          Ports,            \* the ports _free_port can return
          MaxPresent        \* a bound: weaknesses reported by one audit

ASSUME RequirementsAssumption == IsFiniteSet(Requirements)
ASSUME LevelAssumption == Level \in [Requirements -> Levels]
ASSUME SeverityAssumption == ReqSeverity \in [Requirements -> ToSet(SEVERITIES)]
ASSUME WeaknessAssumption ==
    Weaknesses \in Seq([rule : STRING, source : Sources \ {"internal"},
                        polarity : {"vuln", "info"}, tags : SUBSET Requirements,
                        cwe : SUBSET STRING, reqs : SUBSET Requirements,
                        file : STRING, line : Nat,
                        severity : ToSet(SEVERITIES), confidence : ToSet(CONFIDENCES),
                        owasp : BOOLEAN, remedy : BOOLEAN])
\* The evidence of a weakness is tagged with the requirements of its finding,
\* except the alerts of ZAP: REQ-136 on the evidence, nothing on the finding.
ASSUME TagAssumption ==
    \A i \in DOMAIN Weaknesses :
        LET w == Weaknesses[i]
        IN  w.tags = w.reqs \/ (w.tags = {"REQ-136"} /\ w.reqs = {})
\* A rule goes with one CWE or none, a plugin of ZAP too.
ASSUME RuleAssumption ==
    \A i, j \in DOMAIN Weaknesses :
        /\ \A c, d \in Weaknesses[i].cwe : c = d
        /\ Weaknesses[i].rule = Weaknesses[j].rule => Weaknesses[i].cwe = Weaknesses[j].cwe
\* SAST and the settings report a file and a line or neither, the dependencies
\* a file only and under CWEs of their own, the others neither.
ASSUME PlaceAssumption ==
    \A i, j \in DOMAIN Weaknesses :
        Weaknesses[i].cwe = Weaknesses[j].cwe
        /\ Weaknesses[i].file # NoFile /\ Weaknesses[j].line # NoLine
            => Weaknesses[i].line # NoLine /\ Weaknesses[j].file # NoFile
ASSUME PortAssumption == Ports \subseteq Nat
ASSUME BoundAssumption == MaxPresent \in Nat

VARIABLES audits,       \* the original audit (1) and its retest (2)
          previous,     \* the original audit as run_retest has loaded it
          comparison,   \* the comparison saved with the retest
          pc            \* "audit 1", "audit 2" or "done"

vars == <<audits, previous, comparison, pc>>

NoScore      == -1
NoResult     == [r \in Requirements |-> "NONE"]
NewAudit     == [state |-> "created", raw |-> <<>>, findings |-> <<>>,
                 result |-> NoResult, score |-> NoScore]
NoComparison == [fixed |-> {}, still |-> {}, new |-> {}, changes |-> {}]

Init ==
    /\ audits = [a \in 1..2 |-> NewAudit]
    /\ previous = NewAudit
    /\ comparison = NoComparison
    /\ pc = "audit 1"

-----------------------------------------------------------------------------
(* What the engines report *)

Dynamic(w) == w.source \in {"dast", "automated"}

\* The dedup key of a dynamic finding contains the URL, hence the port.
DedupKey(w, port) == <<w.rule, IF Dynamic(w) THEN port ELSE 0>>

RawFinding(i, port) ==
    LET w == Weaknesses[i]
    IN  [key |-> DedupKey(w, port), cwe |-> w.cwe, reqs |-> w.reqs,
         sources |-> {w.source}, evs |-> {i}, file |-> w.file, line |-> w.line,
         severity |-> w.severity, confidence |-> w.confidence]

\* The positions of up to MaxPresent weaknesses, in the order of the engines.
Selections ==
    {s \in UNION {[1..n -> DOMAIN Weaknesses] : n \in 0..MaxPresent} :
        \A i, j \in DOMAIN s : i < j => s[i] < s[j]}

Reported(present, port) == [n \in DOMAIN present |-> RawFinding(present[n], port)]

\* The confidence of the evidence: that of the finding, or the default "High"
\* of the dynamic engines.
StrongEvidence(w) == Dynamic(w) \/ w.confidence \in {"Confirmed", "High"}

\* The evidence of the engines on requirement r.
EngineEvidence(raw, r) ==
    {[req |-> r, source |-> Weaknesses[i].source, polarity |-> Weaknesses[i].polarity,
      strong |-> StrongEvidence(Weaknesses[i])] :
         i \in {j \in UNION {raw[n].evs : n \in DOMAIN raw} : r \in Weaknesses[j].tags}}

\* internal_checks: what the platform says of its own work, always with
\* confidence "High".  Every raw finding has its evidence, and every audit its
\* source; files says whether SAST has read any file.
InternalVulns(raw) ==
    LET found == {Weaknesses[i] : i \in UNION {raw[n].evs : n \in DOMAIN raw}}
    IN  {r \in {"REQ-131", "REQ-135"} : \E w \in found :
             IF r = "REQ-131" THEN w.severity \in {"Critical", "High"} /\ ~w.remedy
                              ELSE w.cwe = {} /\ ~w.owasp}
InternalOks(raw, files) ==
    ({"REQ-130", "REQ-131", "REQ-133", "REQ-134", "REQ-135", "REQ-137"}
        \union (IF files THEN {"REQ-132"} ELSE {})) \ InternalVulns(raw)

Internal(reqs, polarity) ==
    {[req |-> r, source |-> "internal", polarity |-> polarity, strong |-> TRUE] : r \in reqs}
InternalEvidence(raw, files) ==
    Internal(InternalVulns(raw), "vuln") \union Internal(InternalOks(raw, files), "ok")

-----------------------------------------------------------------------------
Current == IF pc = "audit 1" THEN 1 ELSE 2

Scan ==
    /\ pc # "done" /\ audits[Current].state = "created"
    /\ \E present \in Selections, port \in Ports :
          audits' = [audits EXCEPT ![Current] =
                        [NewAudit EXCEPT !.state = "scanned",
                                         !.raw = Reported(present, port),
                                         !.findings = Reported(present, port)]]
    /\ UNCHANGED <<previous, comparison, pc>>

Matrix(raw, files) ==
    LET internal == InternalEvidence(raw, files)
    IN  [r \in Requirements |->
            ComputeStatus(Level[r], EngineEvidence(raw, r) \union {e \in internal : e.req = r},
                          TRUE)]

Assigned(a, files, state) ==
    [a EXCEPT !.state = state, !.findings = Dedupe(a.raw), !.result = Matrix(a.raw, files)]

\* _step_correlation.
Correlate ==
    /\ pc # "done" /\ audits[Current].state = "scanned"
    /\ \E files \in BOOLEAN :
          LET a == Assigned(audits[Current], files, "correlated")
          IN  audits' = [audits EXCEPT ![Current] =
                   [a EXCEPT !.score = ComputeScore(a.findings, a.result, ReqSeverity)]]
    /\ UNCHANGED <<previous, comparison, pc>>

\* The job of the correlation fails: before it has assigned anything, so that
\* the raw findings stay, or after the matrix, in the links or the score.
CorrelationFails ==
    /\ pc # "done" /\ audits[Current].state = "scanned"
    /\ \E files \in BOOLEAN :
          audits' \in {[audits EXCEPT ![Current].state = "failed"],
                      [audits EXCEPT ![Current] = Assigned(@, files, "failed")]}
    /\ UNCHANGED <<previous, comparison, pc>>

\* run_retest loads the previous audit as it is saved, finished or not.
BeginRetest ==
    /\ pc = "audit 1"
    /\ previous' = audits[1]
    /\ pc' = "audit 2"
    /\ UNCHANGED <<audits, comparison>>

\* The retest has run to its end: compare and save.
EndRetest ==
    /\ pc = "audit 2" /\ audits[2].state \in {"correlated", "failed"}
    /\ comparison' = CompareAudits(previous.findings, audits[2].findings,
                                   previous.result, audits[2].result)
    /\ pc' = "done"
    /\ UNCHANGED <<audits, previous>>

Next == Scan \/ Correlate \/ CorrelationFails \/ BeginRetest \/ EndRetest

Spec == Init /\ [][Next]_vars

-----------------------------------------------------------------------------
(* Properties *)

\* The findings the correlation has written in the audit at hand; the original
\* audit does not change any more when its retest has begun.
Correlated ==
    IF audits[Current].state = "correlated" THEN ToSet(audits[Current].findings)
                                            ELSE {}

\* Merging loses nothing: each raw finding is part of one merged finding with
\* all its evidence and requirements, at least as severe and at least as
\* certain ("keep the worst severity, strongest confidence and all evidence",
\* dedupe_findings).
NothingLost ==
    audits[Current].state = "correlated" =>
        \A f \in ToSet(audits[Current].raw) : \E m \in Correlated :
            /\ f.evs \subseteq m.evs /\ f.reqs \subseteq m.reqs
            /\ severity_rank(m.severity) <= severity_rank(f.severity)
            /\ confidence_rank(m.confidence) <= confidence_rank(f.confidence)

\* Merging mixes nothing: a merged finding is of one CWE at most, evidence is
\* in one finding only, and its file and line, taken from its items one by
\* one, are a place some engine has reported.
OneWeakness ==
    \A m, n \in Correlated :
        /\ \A c, d \in m.cwe : c = d
        /\ m # n => m.evs \intersect n.evs = {}
        /\ \E f \in ToSet(audits[Current].raw) :
              f.evs \subseteq m.evs /\ f.file = m.file /\ f.line = m.line

\* Requirements that can fail without a finding to explain it: the platform's own
\* (remediation and mapping of the findings, internal_checks), and the one ZAP
\* tags its evidence with.
WithoutFinding == {"REQ-131", "REQ-135", "REQ-136"}

\* The score counts the worst thing any engine has reported, whatever was merged,
\* and each failed requirement (linked to a finding or not, against the comment at
\* engine.py:228-229); and a failed requirement is linked to an open finding that
\* has it, so that the report explains the verdict - except those of WithoutFinding
\* (compute_score, _merge, _step_correlation).
ScoreCountsWorst ==
    LET a == audits[Current]
    IN  a.state = "correlated" =>
            /\ a.score >= 0
            /\ \A f \in ToSet(a.raw) : a.score <= 10000 - SCORE_WEIGHTS[f.severity]
            /\ \A r \in Requirements : a.result[r] = "FAIL" =>
                  /\ a.score <= 10000 - REQ_FAIL_WEIGHTS[ReqSeverity[r]]
                  /\ r \in WithoutFinding \/ \E m \in Correlated : r \in m.reqs

\* The comparison covers every finding of both audits, each in one class; the
\* numbers of its summary add up when both audits were correlated; and "still
\* present" is only what an engine has reported under that key in both; a status
\* change is one between two verdicts.
ComparisonExact ==
    pc = "done" =>
        LET c == comparison
        IN  /\ c.fixed \union c.still = Keys(previous.findings)
            /\ c.still \union c.new = Keys(audits[2].findings)
            /\ c.fixed \intersect (c.still \union c.new) = {}
            /\ c.still \intersect c.new = {}
            /\ previous.state = "correlated" =>
                  Cardinality(c.fixed) + Cardinality(c.still) = Len(previous.findings)
            /\ audits[2].state = "correlated" =>
                  Cardinality(c.still) + Cardinality(c.new) = Len(audits[2].findings)
            /\ \A k \in c.still : \A a \in {previous, audits[2]} :
                  \E f \in ToSet(a.raw) : f.key = k
            /\ \A r \in c.changes :
                  {previous.result[r], audits[2].result[r]} \subseteq Verdicts

\* "Fixed - present before, gone now" (retest.py:6): between two complete
\* audits, what is called fixed is not reported by its rule in the retest.
FixedIsGone ==
    pc = "done" /\ previous.state = "correlated" /\ audits[2].state = "correlated" =>
        \A k \in comparison.fixed :
            ~ \E f \in ToSet(audits[2].raw) : f.key[1] = k[1]
=============================================================================
