----------------------------- MODULE MCPlatform -----------------------------
(* Two audits and a retest of one of them on a pool of two threads.          *)
EXTENDS Platform

MCAudits     == {"a1", "a2"}
MCRetests    == {"r1"}
MCPreviousOf == [r1 |-> "a1"]
MCRegenerated == {"r1"}
MCWorkers    == 2

\* One of them in each behaviour.
MCClients    == {"report", "projects"}
=============================================================================
