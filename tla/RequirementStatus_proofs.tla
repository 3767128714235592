---------------------- MODULE RequirementStatus_proofs ----------------------
(***************************************************************************)
(* What compute_status promises, for every set of evidence.                *)
(***************************************************************************)
EXTENDS RequirementStatus, TLAPS

\* The verdict is one of REQ_STATUSES.
LEMMA VerdictTyped ==
    ASSUME NEW level, NEW evs, NEW applicable
    PROVE  ComputeStatus(level, evs, applicable) \in Verdicts
BY DEF ComputeStatus, Verdicts

\* A PASS rests on "ok" evidence and on the absence of any vulnerability
\* evidence, whatever its strength, and only an applicable, fully automatable
\* requirement gets one (engine.py:3-6 and 34-106).
THEOREM PassNeedsProof ==
    ASSUME NEW level, NEW evs, NEW applicable \in BOOLEAN,
           \A e \in evs : e.strong \in BOOLEAN,
           ComputeStatus(level, evs, applicable) = "PASS"
    PROVE  /\ level = "FULLY_AUTOMATED" /\ applicable
           /\ \E e \in evs : e.polarity = "ok"
           /\ \A e \in evs : e.polarity # "vuln"
<1>1. /\ StrongVuln(evs) = {} /\ WeakVuln(evs) = {} /\ Ok(evs) # {}
      /\ level = "FULLY_AUTOMATED" /\ applicable
    BY DEF ComputeStatus
<1>2. QED
    BY <1>1 DEF StrongVuln, WeakVuln, Ok

\* An applicable, partially automatable requirement with any evidence is never
\* reported as untested (ARCHITECTURE.md, "Requirement status computation").
THEOREM EvidenceIsCounted ==
    ASSUME NEW evs, evs # {},
           \A e \in evs : e.polarity \in Polarities /\ e.strong \in BOOLEAN
    PROVE  ComputeStatus("PARTIALLY_AUTOMATED", evs, TRUE) \in {"FAIL", "PARTIAL"}
<1>1. PICK e \in evs : e.polarity \in {"ok", "vuln", "info"} /\ e.strong \in BOOLEAN
    BY DEF Polarities
<1>2. e \in StrongVuln(evs) \/ e \in WeakVuln(evs) \/ e \in Ok(evs) \/ e \in Info(evs)
    BY <1>1 DEF StrongVuln, WeakVuln, Ok, Info
<1>3. QED
    BY <1>2 DEF ComputeStatus, IsManual

\* Evidence that arrives later, from whatever engine, never takes back a FAIL,
\* turns nothing but an untested requirement into a PASS, and never makes a
\* tested requirement NOT_TESTED again: the engines can run in any order.
THEOREM VerdictOnlyHardens ==
    ASSUME NEW level, NEW applicable \in BOOLEAN, NEW early, NEW late,
           early \subseteq late,
           \A e \in late : e.strong \in BOOLEAN
    PROVE  LET before == ComputeStatus(level, early, applicable)
               after  == ComputeStatus(level, late, applicable)
           IN  /\ before = "FAIL" => after = "FAIL"
               /\ after = "PASS" => before \in {"NOT_TESTED", "PASS"}
               /\ after = "NOT_TESTED" => before = "NOT_TESTED"
<1>1. /\ StrongVuln(early) \subseteq StrongVuln(late)
      /\ WeakVuln(early) \subseteq WeakVuln(late)
      /\ Ok(early) \subseteq Ok(late)
      /\ Info(early) \subseteq Info(late)
    BY DEF StrongVuln, WeakVuln, Ok, Info
<1>2. ASSUME ComputeStatus(level, early, applicable) = "FAIL"
      PROVE  ComputeStatus(level, late, applicable) = "FAIL"
    BY <1>1, <1>2 DEF ComputeStatus
<1>3. ASSUME ComputeStatus(level, late, applicable) = "PASS"
      PROVE  ComputeStatus(level, early, applicable) \in {"NOT_TESTED", "PASS"}
    BY <1>1, <1>3 DEF ComputeStatus, IsManual
<1>4. ASSUME ComputeStatus(level, late, applicable) = "NOT_TESTED"
      PROVE  ComputeStatus(level, early, applicable) = "NOT_TESTED"
    BY <1>1, <1>4 DEF ComputeStatus
<1>5. QED
    BY <1>2, <1>3, <1>4
=============================================================================
