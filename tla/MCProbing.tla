------------------------------ MODULE MCProbing -----------------------------
(* Probes of every kind, with requirements that several of them decide. *)
EXTENDS Probing

Considered == {"DAST-HEALTH-001", "DAST-HDR", "DAST-DEBUG-001", "DAST-ADMIN-001",
               "DAST-XSS-001", "DAST-RATE-001", "AUTHZ-V-001", "XSS-001", "RATE-001"}
MCSuite == SelectSeq([i \in DOMAIN PROBES |-> i], LAMBDA i : PROBES[i].name \in Considered)

\* The automation levels of requirements/django_137_requirements.yml.
Fully == {"REQ-136", "REQ-020", "REQ-021", "REQ-022", "REQ-082", "REQ-121", "REQ-122"}
MCLevel == [r \in Requirements |-> IF r \in Fully THEN "FULLY_AUTOMATED"
                                                  ELSE "PARTIALLY_AUTOMATED"]
=============================================================================
