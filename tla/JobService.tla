----------------------------- MODULE JobService -----------------------------
(***************************************************************************)
(* What the worker queue promises about the jobs it accepts: numbered in   *)
(* the order they are accepted, each executed once, at most Capacity at a  *)
(* time, and ended once in SUCCESS or FAILED.                              *)
(***************************************************************************)
EXTENDS Naturals, FiniteSets

CONSTANTS Ids, Capacity

VARIABLE status       \* Job.status of each id, "NONE" before it is accepted

SInit == status = [j \in Ids |-> "NONE"]

Running == {j \in Ids : status[j] = "RUNNING"}

Accept(j) ==
    /\ status[j] = "NONE"
    /\ \A i \in Ids : i < j => status[i] # "NONE"
    /\ status' = [status EXCEPT ![j] = "QUEUED"]

Execute(j) ==
    /\ status[j] = "QUEUED"
    /\ Cardinality(Running) < Capacity
    /\ status' = [status EXCEPT ![j] = "RUNNING"]

End(j) ==
    /\ status[j] = "RUNNING"
    /\ \E result \in {"SUCCESS", "FAILED"} :
          status' = [status EXCEPT ![j] = result]

SNext == \E j \in Ids : Accept(j) \/ Execute(j) \/ End(j)

SSpec == SInit /\ [][SNext]_status
=============================================================================
