----------------------------- MODULE MCSandbox -----------------------------
(* Three audits on two pool threads and two ports; each project has a compose *)
(* file, or a manage.py, or comes from GitHub.  The audits are alike, so only *)
(* the projects make a difference: one order of them is considered for each   *)
(* choice of three.                                                           *)
EXTENDS Sandbox

Source(compose, github) ==
    [compose |-> compose, github |-> github, allow_github |-> FALSE,
     allow_local |-> TRUE, manage_py |-> TRUE]

MCProjects == {Source(TRUE, FALSE), Source(FALSE, FALSE), Source(FALSE, TRUE)}

Rank(p) == CASE p.compose -> 0 [] p.github -> 1 [] OTHER -> 2

MCInit == /\ Init
          /\ \A a, b \in Audits : a < b => Rank(project[a]) <= Rank(project[b])

MCSpec == MCInit /\ [][Next]_vars /\ \A a \in Audits : WF_vars(Session(a))
=============================================================================
