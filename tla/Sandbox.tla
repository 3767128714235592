------------------------------ MODULE Sandbox ------------------------------
(***************************************************************************)
(* The sandboxes of concurrent audits (scanners/dast/sandbox.py): ports,   *)
(* processes and containers.  Each audit is run by a thread of the worker  *)
(* pool, whose requests go to whatever listens on the port the audit has   *)
(* chosen.  The applications are processes of their own                    *)
(* (start_new_session): they outlive the server.                           *)
(***************************************************************************)
EXTENDS Naturals, FiniteSets

CONSTANTS Audits,       \* a bound: audits run in one life of the host
          Ports,        \* a bound: ephemeral ports of the host
          Workers,      \* threads of the pool
          Projects,     \* what start_application looks at in a project
          Nobody        \* no process

ASSUME PortAssumption == Ports \subseteq Nat \ {0}
ASSUME PoolAssumption == Workers \in Nat \ {0}
ASSUME AuditsAssumption == IsFiniteSet(Audits)
ASSUME NobodyAssumption == Nobody \notin Audits
ASSUME ProjectAssumption ==
    Projects \subseteq [compose: BOOLEAN, github: BOOLEAN, allow_github: BOOLEAN,
                        allow_local: BOOLEAN, manage_py: BOOLEAN]

VARIABLES project,      \* of each audit
          pc, port,     \* where start_application is, and the port it has chosen
          app,          \* the runserver process of each audit
          bound,        \* the process that listens on each port
          containers,   \* audits whose compose containers are up
          heard,        \* history: whose application has answered the probes
          collided,     \* history: audits whose port another one has chosen, too
          crashed       \* the server has crashed; a bound: at most once

NoPort == 0

vars == <<project, pc, port, app, bound, containers, heard, collided, crashed>>

Init ==
    /\ project \in [Audits -> Projects]
    /\ pc = [a \in Audits |-> "queued"]
    /\ port = [a \in Audits |-> NoPort]
    /\ app = [a \in Audits |-> "none"]
    /\ bound = [p \in Ports |-> Nobody]
    /\ containers = {}
    /\ heard = [a \in Audits |-> {}]
    /\ collided = {}
    /\ crashed = FALSE

-----------------------------------------------------------------------------
InSession(a) == pc[a] \in {"picked", "waiting", "probing"}
Running(a)   == app[a] \in {"booting", "serving"}

\* compose first; else runserver, if the configuration allows it.
Method(a) ==
    LET p == project[a]
    IN  IF p.compose THEN "compose"
        ELSE IF ~p.allow_local \/ ~p.manage_py \/ (p.github /\ ~p.allow_github) THEN "refused"
        ELSE "runserver"

\* Bug: a fixed port range, without asking the host.
AnyPort == Ports

\* _free_port: the port is free while it asks, and nobody reserves it.
FreePorts == {p \in Ports : bound[p] = Nobody}

\* Audits that count on port p without listening there (yet, or any more).
Expecting(p) == {b \in Audits : /\ InSession(b) \/ Running(b)
                                /\ port[b] = p /\ bound[p] # b}

Begin(a) == pc[a] = "queued" /\ Cardinality({b \in Audits : InSession(b)}) < Workers
Goto(a, to) == pc' = [pc EXCEPT ![a] = to]

Refuse(a) ==
    /\ Begin(a) /\ Method(a) = "refused"
    /\ Goto(a, "over")
    /\ UNCHANGED <<project, port, app, bound, containers, heard, collided, crashed>>

\* From here it takes minutes until the port is used: compose builds images,
\* _pick_python an environment.
PickPort(a) ==
    /\ Begin(a) /\ Method(a) # "refused"
    /\ \E p \in FreePorts :
          /\ port' = [port EXCEPT ![a] = p]
          /\ collided' = IF Expecting(p) \ {a} = {} THEN collided
                         ELSE collided \union Expecting(p) \union {a}
    /\ Goto(a, "picked")
    /\ UNCHANGED <<project, app, bound, containers, heard, crashed>>

\* docker compose up; the chosen port is not passed to it.
ComposeUp(a) ==
    /\ pc[a] = "picked" /\ Method(a) = "compose"
    /\ containers' = containers \union {a}
    /\ Goto(a, "waiting")
    /\ UNCHANGED <<project, port, app, bound, heard, collided, crashed>>

\* It fails or takes too long, and some containers may be up.
ComposeFails(a) ==
    /\ pc[a] = "picked" /\ Method(a) = "compose"
    /\ containers' \in {containers, containers \union {a}}
    /\ Goto(a, "over")
    /\ UNCHANGED <<project, port, app, bound, heard, collided, crashed>>

Launch(a) ==
    /\ pc[a] = "picked" /\ Method(a) = "runserver"
    /\ app' = [app EXCEPT ![a] = "booting"]
    /\ Goto(a, "waiting")
    /\ UNCHANGED <<project, port, bound, containers, heard, collided, crashed>>

\* Popen raises OSError, which start_application reports; an installation of the
\* environment that takes too long raises through it.
LaunchFails(a) ==
    /\ pc[a] = "picked" /\ Method(a) = "runserver"
    /\ \E to \in {"over", "raised"} : Goto(a, to)
    /\ UNCHANGED <<project, port, app, bound, containers, heard, collided, crashed>>

-----------------------------------------------------------------------------
(* The application *)

Freed(a) == [p \in Ports |-> IF bound[p] = a THEN Nobody ELSE bound[p]]

\* runserver listens, or ends when the port is in use.
Bind(a) ==
    /\ app[a] = "booting"
    /\ IF bound[port[a]] = Nobody
       THEN /\ app' = [app EXCEPT ![a] = "serving"]
            /\ bound' = [bound EXCEPT ![port[a]] = a]
       ELSE /\ app' = [app EXCEPT ![a] = "ended"]
            /\ UNCHANGED bound
    /\ UNCHANGED <<project, pc, port, containers, heard, collided, crashed>>

AppExits(a) ==
    /\ Running(a)
    /\ app' = [app EXCEPT ![a] = "ended"]
    /\ bound' = Freed(a)
    /\ UNCHANGED <<project, pc, port, containers, heard, collided, crashed>>

-----------------------------------------------------------------------------
(* _wait_http, the scans, and the end of the session *)

\* Any HTTP answer on the port will do; the process is not looked at.
Answered(a) ==
    /\ pc[a] = "waiting" /\ bound[port[a]] # Nobody
    /\ Goto(a, "probing")
    /\ UNCHANGED <<project, port, app, bound, containers, heard, collided, crashed>>

Probe(a) ==
    /\ pc[a] = "probing" /\ bound[port[a]] # Nobody
    /\ heard' = [heard EXCEPT ![a] = @ \union {bound[port[a]]}]
    /\ UNCHANGED <<project, pc, port, app, bound, containers, collided, crashed>>

\* An answer that is not HTTP, or that redirects to no URL: the exception is none
\* of those _wait_http knows, and leaves run_full with the process running.
WaitRaises(a) ==
    /\ pc[a] = "waiting" /\ bound[port[a]] # Nobody
    /\ Goto(a, "raised")
    /\ UNCHANGED <<project, port, app, bound, containers, heard, collided, crashed>>

\* A save before or after a scan raises; stop_application is in no finally.
SaveRaises(a) ==
    /\ pc[a] = "probing"
    /\ Goto(a, "raised")
    /\ UNCHANGED <<project, port, app, bound, containers, heard, collided, crashed>>

\* Bug: stop_application stops what listens on the port of the audit.
TerminatePort(a) ==
    /\ app' = [b \in Audits |-> IF bound[port[a]] = b THEN "ended" ELSE app[b]]
    /\ bound' = [bound EXCEPT ![port[a]] = Nobody]

\* _terminate: the audit's own runserver, if it has one; containers stay up.
Terminate(a) ==
    /\ app' = [app EXCEPT ![a] = IF @ = "none" THEN "none" ELSE "ended"]
    /\ bound' = Freed(a)

\* Bug: the deadline is only looked at when the connection was refused.
ExpiredRefused(a) == pc[a] = "waiting" /\ bound[port[a]] = Nobody /\ app[a] = "ended"

\* The deadline has passed; an application that hangs gives no answer either.
Expired(a) == pc[a] = "waiting"

GiveUp(a) ==
    /\ Expired(a)
    /\ Terminate(a)
    /\ Goto(a, "over")
    /\ UNCHANGED <<project, port, containers, heard, collided, crashed>>

\* stop_application, when the scans have ended.
Stop(a) ==
    /\ pc[a] = "probing"
    /\ Terminate(a)
    /\ Goto(a, "over")
    /\ UNCHANGED <<project, port, containers, heard, collided, crashed>>

\* The server ends with its threads; the applications stay.
Crash ==
    /\ ~crashed /\ crashed' = TRUE
    /\ pc' = [a \in Audits |-> IF InSession(a) THEN "lost" ELSE pc[a]]
    /\ UNCHANGED <<project, port, app, bound, containers, heard, collided>>

-----------------------------------------------------------------------------
Session(a) ==
    \/ ComposeUp(a) \/ Launch(a)
    \/ Answered(a) \/ Probe(a) \/ GiveUp(a) \/ Stop(a)

SessionFails(a) ==
    \/ ComposeFails(a) \/ LaunchFails(a) \/ WaitRaises(a) \/ SaveRaises(a)

Next ==
    \/ \E a \in Audits : Refuse(a) \/ PickPort(a)
    \/ \E a \in Audits : Session(a) \/ SessionFails(a)
    \/ \E a \in Audits : Bind(a) \/ AppExits(a)
    \/ Crash

\* Every command and every request of a session has a timeout.  No session is
\* bound to meet a failure.
Spec == Init /\ [][Next]_vars /\ \A a \in Audits : WF_vars(Session(a))

-----------------------------------------------------------------------------
(* Properties *)

\* Who listens on a port is the one process that serves there, and the sessions
\* are not more than the pool has threads.
TypeOK ==
    /\ project \in [Audits -> Projects]
    /\ pc \in [Audits -> {"queued", "picked", "waiting", "probing", "over", "raised", "lost"}]
    /\ port \in [Audits -> Ports \union {NoPort}]
    /\ app \in [Audits -> {"none", "booting", "serving", "ended"}]
    /\ bound \in [Ports -> Audits \union {Nobody}]
    /\ \A a \in Audits, p \in Ports : bound[p] = a <=> app[a] = "serving" /\ port[a] = p
    /\ Cardinality({a \in Audits : InSession(a)}) <= Workers
    /\ containers \subseteq Audits /\ collided \subseteq Audits
    /\ heard \in [Audits -> SUBSET Audits]
    /\ crashed \in BOOLEAN

\* A session that comes to its end leaves no runserver behind: refused, failed to
\* start, given up or stopped after the scans (start_application,
\* stop_application).  Nothing is said of a session that is broken off, and leaves
\* its runserver up against "sandbox process group cleanup" (docs/THREAT_MODEL.md:14):
\* by an answer _wait_http does not understand (sandbox.py:54-57, 275), by a save
\* that raises before stop_application, which is in no finally (pipeline.py:135,
\* 153, 165), or by a crash of the server.
NoneLeftRunning ==
    \A a \in Audits : pc[a] = "over" => ~Running(a)

\* The scans meet another audit's application only when the two have chosen the
\* same port, one of them while the other's application did not listen there
\* (_free_port): a port that an earlier audit has given back is as good as new.
ForeignOnlyByCollision ==
    \A a \in Audits : heard[a] \subseteq {a} \/ a \in collided

\* A session holds its pool thread for a limited time, whatever becomes of the
\* application (_wait_http).
EverySessionEnds ==
    \A a \in Audits : InSession(a) ~> pc[a] \in {"over", "raised", "lost"}
=============================================================================
