------------------------------ MODULE Findings ------------------------------
(***************************************************************************)
(* Deduplication and score (scanners/correlation/engine.py) and the        *)
(* comparison of two audits (apps/audits/retest.py), as functions.         *)
(*                                                                         *)
(* A finding is a record; cwe, reqs, sources and evs are sets where the    *)
(* code keeps lists without repetitions.  The texts, the URLs and the      *)
(* dates are left out, and so is the status: it is "OPEN", nothing in the  *)
(* repository sets another.  All engines give a finding one CWE or none.   *)
(***************************************************************************)
EXTENDS RequirementStatus, SequencesExt

SEVERITIES  == <<"Critical", "High", "Medium", "Low", "Info">>
CONFIDENCES == <<"Confirmed", "High", "Medium", "Low", "Potential">>

severity_rank(s)   == CHOOSE i \in DOMAIN SEVERITIES : SEVERITIES[i] = s
confidence_rank(c) == CHOOSE i \in DOMAIN CONFIDENCES : CONFIDENCES[i] = c

\* The severities as Python compares them: as strings.
Alphabetic  == <<"Critical", "High", "Info", "Low", "Medium">>
AsString(s) == CHOOSE i \in DOMAIN Alphabetic : Alphabetic[i] = s

worst_severity(S)       == SEVERITIES[Min({severity_rank(s) : s \in S})]
strongest_confidence(C) == CONFIDENCES[Min({confidence_rank(c) : c \in C})]

NoFile == "none"
NoLine == 0

-----------------------------------------------------------------------------
(* dedupe_findings and _merge *)

\* The first of the items that _merge sorts to the front.
Base(items) ==
    LET Before(f, g) ==
            \/ confidence_rank(f.confidence) < confidence_rank(g.confidence)
            \/ /\ f.confidence = g.confidence
               /\ AsString(f.severity) <= AsString(g.severity)
    IN  items[SelectInSeq(items, LAMBDA f : \A g \in ToSet(items) : Before(f, g))]

\* The first known file and the first known line, each on its own.
FirstFile(items) ==
    LET i == SelectInSeq(items, LAMBDA f : f.file # NoFile)
    IN  IF i = 0 THEN NoFile ELSE items[i].file
FirstLine(items) ==
    LET i == SelectInSeq(items, LAMBDA f : f.line # NoLine)
    IN  IF i = 0 THEN NoLine ELSE items[i].line

\* Bug: the merged finding is the base with the evidence of the others.
MergeIntoBase(items) ==
    [Base(items) EXCEPT !.evs = UNION {f.evs : f \in ToSet(items)},
                        !.reqs = UNION {f.reqs : f \in ToSet(items)}]

\* Bug: the requirements of the base only.
MergeBaseReqs(items) ==
    LET all == ToSet(items)
    IN  [key |-> Base(items).key, cwe |-> UNION {f.cwe : f \in all},
         reqs |-> Base(items).reqs, sources |-> UNION {f.sources : f \in all},
         evs |-> UNION {f.evs : f \in all},
         file |-> FirstFile(items), line |-> FirstLine(items),
         severity |-> worst_severity({f.severity : f \in all}),
         confidence |-> strongest_confidence({f.confidence : f \in all})]

Merge(items) ==
    LET all == ToSet(items)
    IN  [key        |-> Base(items).key,
         cwe        |-> UNION {f.cwe : f \in all},
         reqs       |-> UNION {f.reqs : f \in all},
         sources    |-> UNION {f.sources : f \in all},
         evs        |-> UNION {f.evs : f \in all},
         file       |-> FirstFile(items),
         line       |-> FirstLine(items),
         severity   |-> worst_severity({f.severity : f \in all}),
         confidence |-> strongest_confidence({f.confidence : f \in all})]

\* Bug: a shared requirement is enough, whatever the weakness.
CorroboratesAnyCwe(f, rep) ==
    IF f.sources = rep.sources
    THEN f.cwe # {} /\ f.cwe = rep.cwe
            /\ f.file # NoFile /\ f.file = rep.file
            /\ f.line # NoLine /\ f.line = rep.line
    ELSE f.reqs \intersect rep.reqs # {}

\* f joins the group whose first finding is rep: the same CWE, and a shared
\* requirement across engines or the same line within one.
Corroborates(f, rep) ==
    /\ f.cwe # {} /\ f.cwe = rep.cwe
    /\ IF f.sources = rep.sources
       THEN /\ f.file # NoFile /\ f.file = rep.file
            /\ f.line # NoLine /\ f.line = rep.line
       ELSE f.reqs \intersect rep.reqs # {}

\* The second pass merges what has the same dedup key.
Joins(f, rep, pass) ==
    IF pass = "keys" THEN f.key = rep.key ELSE Corroborates(f, rep)

\* f joins the first group whose representative it fits, or opens one.
Place(groups, f, pass) ==
    LET i == SelectInSeq(groups, LAMBDA g : Joins(f, g[1], pass))
    IN  IF i = 0 THEN Append(groups, <<f>>)
                 ELSE [groups EXCEPT ![i] = Append(@, f)]

Grouped(fs, pass) ==
    LET groups[n \in 0..Len(fs)] ==
            IF n = 0 THEN <<>> ELSE Place(groups[n - 1], fs[n], pass)
    IN  groups[Len(fs)]

Merged(groups) == [i \in DOMAIN groups |-> Merge(groups[i])]

\* Bug: the second pass, by dedup key, is missing.
DedupeOnce(fs) == Merged(Grouped(fs, "weaknesses"))

Dedupe(fs) == Merged(Grouped(Merged(Grouped(fs, "weaknesses")), "keys"))

-----------------------------------------------------------------------------
(* compute_score, in hundredths of a point and before rounding *)

SCORE_WEIGHTS ==
    [Critical |-> 1200, High |-> 600, Medium |-> 200, Low |-> 50, Info |-> 0]
\* REQ_FAIL_WEIGHTS, halved as the deduction halves them.
REQ_FAIL_WEIGHTS ==
    [Critical |-> 150, High |-> 75, Medium |-> 25, Low |-> 10, Info |-> 0]

\* The weights of items, given the severity of each.
Weighed(weights, severityOf) ==
    LET Count(s) == Cardinality({x \in DOMAIN severityOf : severityOf[x] = s})
    IN  weights["Critical"] * Count("Critical") + weights["High"] * Count("High")
        + weights["Medium"] * Count("Medium") + weights["Low"] * Count("Low")
        + weights["Info"] * Count("Info")

ComputeScore(fs, result, severity) ==
    LET failed    == {r \in DOMAIN result : result[r] = "FAIL"}
        deduction == Weighed(SCORE_WEIGHTS, [i \in DOMAIN fs |-> fs[i].severity])
                     + Weighed(REQ_FAIL_WEIGHTS, [r \in failed |-> severity[r]])
    IN  IF deduction > 10000 THEN 0 ELSE 10000 - deduction

-----------------------------------------------------------------------------
(* compare_audits: the fingerprint of a finding is its dedup key *)

Keys(fs) == {f.key : f \in ToSet(fs)}

\* A requirement without a result in one of the audits has not changed.
Changed(was, is) ==
    {r \in DOMAIN is : {was[r], is[r]} \subseteq Verdicts /\ was[r] # is[r]}

CompareAudits(before, after, was, is) ==
    [fixed   |-> Keys(before) \ Keys(after),
     still   |-> Keys(before) \intersect Keys(after),
     new     |-> Keys(after) \ Keys(before),
     changes |-> Changed(was, is)]
=============================================================================
