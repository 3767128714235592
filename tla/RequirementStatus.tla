-------------------------- MODULE RequirementStatus -------------------------
(***************************************************************************)
(* The requirements status engine, apps/requirements_engine/engine.py.     *)
(* compute_status is a pure function of the automation level of a          *)
(* requirement, the evidence tagged with it and whether it applies; the    *)
(* notes and the evidence ids of the result record are left out.           *)
(***************************************************************************)
EXTENDS AuditModel

Levels == {"FULLY_AUTOMATED", "PARTIALLY_AUTOMATED", "MANUAL", "NOT_AUTOMATABLE"}
Verdicts == {"PASS", "FAIL", "PARTIAL", "NOT_TESTED", "NOT_APPLICABLE",
             "MANUAL_REVIEW"}

IsManual(level) == level \in {"MANUAL", "NOT_AUTOMATABLE"}

Ok(evs)         == {e \in evs : e.polarity = "ok"}
Info(evs)       == {e \in evs : e.polarity = "info"}
StrongVuln(evs) == {e \in evs : e.polarity = "vuln" /\ e.strong}
WeakVuln(evs)   == {e \in evs : e.polarity = "vuln" /\ ~e.strong}

-----------------------------------------------------------------------------
\* The early returns of compute_status, in their order.
ComputeStatus(level, evs, applicable) ==
    IF ~applicable THEN "NOT_APPLICABLE"
    ELSE IF IsManual(level) THEN "MANUAL_REVIEW"
    ELSE IF StrongVuln(evs) # {} THEN "FAIL"
    ELSE IF WeakVuln(evs) # {} THEN "PARTIAL"
    ELSE IF Ok(evs) # {}
         THEN IF level = "FULLY_AUTOMATED" THEN "PASS" ELSE "PARTIAL"
    ELSE IF Info(evs) # {} /\ level = "PARTIALLY_AUTOMATED" THEN "PARTIAL"
    ELSE "NOT_TESTED"
=============================================================================
