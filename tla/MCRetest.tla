------------------------------ MODULE MCRetest ------------------------------
(***************************************************************************)
(* The weaknesses are taken from the engines: two secret rules of SAST on  *)
(* one line; an open redirect seen by SAST, under another CWE, by DAST and *)
(* by a test; the anonymous access test, which shares REQ-001 with the     *)
(* redirect of DAST; and two alerts of one ZAP plugin at one URL.          *)
(***************************************************************************)
EXTENDS Retest

Weakness(rule, source, cwe, reqs, file, line, severity, confidence) ==
    [rule |-> rule, source |-> source, polarity |-> "vuln", tags |-> reqs, cwe |-> cwe,
     reqs |-> reqs, file |-> file, line |-> line, severity |-> severity,
     confidence |-> confidence, owasp |-> TRUE, remedy |-> TRUE]

\* An alert of ZAP: no requirement, no OWASP category, perhaps no solution.
Alert(plugin, severity, remedy) ==
    [Weakness(plugin, "dast", {}, {}, NoFile, NoLine, severity, "Medium") EXCEPT
        !.polarity = IF severity = "Info" THEN "info" ELSE "vuln",
        !.tags = {"REQ-136"}, !.owasp = FALSE, !.remedy = remedy]

MCWeaknesses == <<
    Weakness("SECRET-002", "sast", {"CWE-798"}, {"REQ-013"}, "app.py", 7,
             "High", "Medium"),
    Weakness("SECRET-004", "sast", {"CWE-798"}, {"REQ-013", "REQ-014"}, "app.py", 7,
             "Critical", "Confirmed"),
    Weakness("REDIR-001", "sast", {"CWE-601"}, {"REQ-038", "REQ-081"}, "app.py", 9,
             "Medium", "Medium"),
    Weakness("DAST-REDIR-001", "dast", {"CWE-20"}, {"REQ-038", "REQ-001"}, NoFile, NoLine,
             "Medium", "Confirmed"),
    Alert("ZAP-10021", "Info", TRUE),
    Alert("ZAP-10021", "Medium", FALSE),
    Weakness("TEST-AUTH-001", "automated", {"CWE-20"}, {"REQ-001", "REQ-119"},
             NoFile, NoLine, "High", "Confirmed"),
    Weakness("TEST-REDIR-001", "automated", {"CWE-20"}, {"REQ-038", "REQ-081"},
             NoFile, NoLine, "Medium", "Confirmed") >>

MCRequirements == {"REQ-001", "REQ-013", "REQ-014", "REQ-038", "REQ-081", "REQ-119",
                   "REQ-131", "REQ-135", "REQ-136"}
MCLevel == [r \in MCRequirements |->
               IF r \in {"REQ-001", "REQ-038", "REQ-081"} THEN "PARTIALLY_AUTOMATED"
                                                         ELSE "FULLY_AUTOMATED"]
MCReqSeverity == [r \in MCRequirements |->
               CASE r \in {"REQ-013", "REQ-014"} -> "Critical"
                 [] r \in {"REQ-001", "REQ-119"} -> "High"
                 [] r = "REQ-135" -> "Low"
                 [] OTHER -> "Medium"]
=============================================================================
