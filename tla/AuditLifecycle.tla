--------------------------- MODULE AuditLifecycle ---------------------------
(***************************************************************************)
(* What an audit promises to everybody who reads its persisted artifact    *)
(* (the API, a retest, the report command), whatever happens inside:       *)
(*   - it goes CREATED, RUNNING, COMPLETE;                                 *)
(*   - its jobs close in pipeline order, and none is reopened;             *)
(*   - the requirement matrix appears once, together with the closing of   *)
(*     the correlation job, when every job that can produce evidence has   *)
(*     been closed, and is never revised;                                  *)
(*   - it is COMPLETE only when all twelve jobs are closed.                *)
(***************************************************************************)
EXTENDS AuditModel

CONSTANTS Matrices,    \* the requirement matrices
          NoMatrix     \* before the correlation

VARIABLES status,      \* Audit.status
          closed,      \* the jobs in a terminal state
          matrix       \* Audit.requirement_results

lvars == <<status, closed, matrix>>

InOrder(S) == \A s \in S : \A t \in Steps : t < s => t \in S

LInit == status = "CREATED" /\ closed = {} /\ matrix = NoMatrix

Start ==
    /\ status = "CREATED"
    /\ status' = "RUNNING"
    /\ UNCHANGED <<closed, matrix>>

\* A save shows one more closed job, or several when skipped ones preceded it.
Close ==
    /\ status = "RUNNING"
    /\ closed' \in SUBSET Steps
    /\ closed \subseteq closed' /\ closed' # closed
    /\ InOrder(closed')
    /\ UNCHANGED <<status, matrix>>

Publish ==
    /\ status = "RUNNING"
    /\ matrix = NoMatrix
    /\ closed = 1..(Correlation - 1)
    /\ closed' = 1..Correlation
    /\ matrix' \in Matrices
    /\ UNCHANGED status

Finish ==
    /\ status = "RUNNING"
    /\ closed = Steps
    /\ status' = "COMPLETE"
    /\ UNCHANGED <<closed, matrix>>

LNext == Start \/ Close \/ Publish \/ Finish

LSpec == LInit /\ [][LNext]_lvars
=============================================================================
