----------------------------- MODULE MCJobQueue -----------------------------
(* Two clients and two workers (max_workers = 2 in apps/api/server.py).      *)
EXTENDS JobQueue

CONSTANTS c1, c2, w1, w2, o1

MCClients == {c1, c2}
MCWorkers == {w1, w2}
MCObservers == {o1}
=============================================================================
