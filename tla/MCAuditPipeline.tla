--------------------------- MODULE MCAuditPipeline --------------------------
(***************************************************************************)
(* A small catalogue for TLC: a requirement a dynamic and a static engine  *)
(* both speak about, one that is only partially automatable, and one per   *)
(* kind of internal check.                                                 *)
(***************************************************************************)
EXTENDS AuditPipeline

MCRequirements == {"static", "partial", "findings", "platform"}

MCLevel == [r \in MCRequirements |->
    IF r = "partial" THEN "PARTIALLY_AUTOMATED" ELSE "FULLY_AUTOMATED"]

Ev(r, source, polarity, strong) ==
    [req |-> r, source |-> source, polarity |-> polarity, strong |-> strong]

MCEvidence ==
    {Ev("static", "sast", "ok", TRUE), Ev("static", "dast", "vuln", TRUE),
     Ev("static", "dast", "ok", TRUE), Ev("partial", "automated", "ok", TRUE),
     Ev("partial", "network", "vuln", FALSE)}

Config(sast, dast, network, authorized, retest) ==
    [sast |-> sast, dependencies |-> sast, dast |-> dast, security_tests |-> dast,
     network |-> network, readable |-> TRUE, authorized |-> authorized, retest |-> retest]

\* Everything on; dynamic steps refused; dynamic steps off; static steps off; and
\* switches that cannot be read.
MCConfigs ==
    {Config(TRUE, TRUE, TRUE, TRUE, TRUE), Config(TRUE, TRUE, TRUE, FALSE, FALSE),
     Config(TRUE, FALSE, FALSE, TRUE, FALSE), Config(FALSE, TRUE, FALSE, TRUE, FALSE)}
MCUnread  == [Config(TRUE, TRUE, TRUE, TRUE, FALSE) EXCEPT !.readable = FALSE]
MCAllConfigs == MCConfigs \union {MCUnread}

\* The engines and the closing jobs may fail; Settings, Dependencies and
\* Endpoints would repeat what Sast and Discovery already show.
MCFallible == {Discovery, Sast, Dast, SecurityTests, Network, Correlation, Report}
=============================================================================
