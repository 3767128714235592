------------------------------ MODULE Engines -------------------------------
(***************************************************************************)
(* The engines of the pipeline, those of the steps 3 to 7 over the source  *)
(* tree or the network, and the probes and tests of a running application  *)
(* (Probing).  They share no state, so one behaviour is one engine on one  *)
(* project.                                                                *)
(***************************************************************************)
EXTENDS Probing, FiniteSets

CONSTANTS SettingsProjects,                       \* for SettingsScan
          DependencyProjects, Packages, Unnamed,  \* for DependencyScan
          Advised, Dangerous, Hinted,
          EndpointProjects, Files, Routes,        \* for EndpointScan
          NetworkProjects, LocalHosts, PublicHosts,  \* for NetworkScan
          SastProjects, Names                     \* for SastScan

VARIABLES engine,                                 \* the engine that runs
          project, status, todo,                  \* see the engines
          unread, values, origin,
          deps, seen,
          roots, stack, visited, endpoints,
          scanned, controls

probingVars == <<alive, at, session, sent, heard, dast, answered, shown, broken>>
settingsVars == <<unread, values, origin>>
endpointVars == <<roots, stack, visited, endpoints>>
enginesVars == <<engine, project, status, todo, settingsVars, deps, seen, endpointVars,
                 scanned, controls, vars>>

S == INSTANCE SettingsScan WITH Projects <- SettingsProjects
D == INSTANCE DependencyScan WITH Projects <- DependencyProjects
E == INSTANCE EndpointScan WITH Projects <- EndpointProjects
N == INSTANCE NetworkScan WITH Projects <- NetworkProjects
A == INSTANCE SastScan WITH Projects <- SastProjects

ASSUME SettingsAssumption == \A p \in SettingsProjects : S!IsProject(p)
ASSUME DependencyAssumption ==
    /\ \A p \in DependencyProjects : D!IsProject(p)
    /\ Unnamed \notin Packages
    /\ Advised \union Dangerous \union Hinted \subseteq Packages
ASSUME EndpointAssumption ==
    IsFiniteSet(Files) /\ \A p \in EndpointProjects : E!IsProject(p)
ASSUME NetworkAssumption == \A p \in NetworkProjects : N!IsProject(p)
ASSUME SastAssumption == \A p \in SastProjects : A!IsProject(p)

\* What an engine does not use is as it is before the pipeline.
ProbingIdle ==
    /\ alive = TRUE /\ at = 1 /\ session = FALSE /\ sent = 0 /\ heard = {}
    /\ dast = "RUNNING" /\ answered = {} /\ shown = {} /\ broken = FALSE
SettingsIdle   == unread = {} /\ values = <<>> /\ origin = <<>>
DependencyIdle == deps = <<>>
EndpointIdle   == roots = {} /\ stack = <<>> /\ visited = {} /\ endpoints = {}

EnginesInit ==
    \/ /\ engine = "settings" /\ S!Init
       /\ todo = <<>> /\ deps = <<>> /\ seen = {} /\ EndpointIdle /\ scanned = {} /\ controls = {} /\ ProbingIdle
    \/ /\ engine = "dependencies" /\ D!Init
       /\ SettingsIdle /\ EndpointIdle /\ scanned = {} /\ controls = {} /\ ProbingIdle
    \/ /\ engine = "endpoints" /\ E!Init /\ todo = <<>> /\ evidence = {}
       /\ SettingsIdle /\ deps = <<>> /\ seen = {} /\ scanned = {} /\ controls = {} /\ ProbingIdle
    \/ /\ engine = "network" /\ N!Init
       /\ SettingsIdle /\ deps = <<>> /\ seen = {} /\ EndpointIdle /\ controls = {} /\ ProbingIdle
    \/ /\ engine = "sast" /\ A!Init
       /\ SettingsIdle /\ deps = <<>> /\ EndpointIdle /\ scanned = {} /\ ProbingIdle
    \/ /\ engine = "dast" /\ Init
       /\ project = <<>> /\ status = "idle" /\ todo = <<>>
       /\ SettingsIdle /\ deps = <<>> /\ seen = {} /\ EndpointIdle /\ scanned = {} /\ controls = {}

SettingsStep ==
    /\ engine = "settings" /\ S!Next
    /\ UNCHANGED <<engine, todo, deps, seen, endpointVars, scanned, controls, probingVars>>

DependencyStep ==
    /\ engine = "dependencies" /\ D!Next
    /\ UNCHANGED <<engine, settingsVars, endpointVars, scanned, controls, probingVars>>

EndpointStep ==
    /\ engine = "endpoints" /\ E!Next
    /\ UNCHANGED <<engine, todo, evidence, settingsVars, deps, seen, scanned, controls,
                   probingVars>>

NetworkStep ==
    /\ engine = "network" /\ N!Next
    /\ UNCHANGED <<engine, settingsVars, deps, seen, endpointVars, controls, probingVars>>

SastStep ==
    /\ engine = "sast" /\ A!Next
    /\ UNCHANGED <<engine, settingsVars, deps, endpointVars, scanned, probingVars>>

OthersUnchanged ==
    UNCHANGED <<engine, project, status, todo, settingsVars, deps, seen, endpointVars,
                scanned, controls>>

ProbingStep == engine = "dast" /\ Prober /\ OthersUnchanged
Exit        == engine = "dast" /\ AppExits /\ OthersUnchanged

\* The thread of the pipeline.
EngineStep ==
    SettingsStep \/ DependencyStep \/ EndpointStep \/ NetworkStep \/ SastStep \/ ProbingStep

EnginesNext == EngineStep \/ Exit

\* The engines whose end is in doubt: the application goes silent between the requests,
\* files include each other.  The others are loops over a fixed list.
Started == engine = "dast" \/ (engine = "endpoints" /\ status = "parsing")

\* An engine that has been started goes on: nothing it waits for lacks a timeout.
EnginesSpec ==
    /\ EnginesInit /\ [][EnginesNext]_enginesVars
    /\ WF_enginesVars(ProbingStep)
    /\ WF_enginesVars(status = "parsing" /\ EndpointStep)

-----------------------------------------------------------------------------
(* The properties of the engines, see their modules. *)

\* The settings judged are those of production (SettingsScan).
ProductionDecides == engine = "settings" => S!ProductionDecides

\* Insecure settings are reported, also Django's own defaults (SettingsScan).
InsecureIsReported == engine = "settings" => S!InsecureIsReported

\* A settings requirement is PASS only if a settings module could be parsed:
\* "a scanner that could not run turns its requirements into NOT_TESTED, never
\* PASS" (README.md:12).
PassNeedsReading == engine = "settings" => S!PassNeedsReading

\* The first declaration of a package decides what is reported of it
\* (DependencyScan).
FirstDeclarationDecides == engine = "dependencies" => D!FirstDeclarationDecides

\* Of a plain project the endpoints are the routes Django serves (EndpointScan).
PlainRoutesAreServed == engine = "endpoints" => E!PlainRoutesAreServed

\* Only listed, confirmed hosts are scanned, and all of them (NetworkScan).
ScansAreAuthorized == engine = "network" => N!ScansAreAuthorized

\* Taint in a function against the flow of request data in it (SastScan).
TaintFollowsFlow == engine = "sast" => A!TaintFollowsFlow

\* What a network exposes is held against it, and nothing else (NetworkScan); weak
\* code is held against a project, whatever else is clean (SastScan).
WeaknessIsHeld ==
    /\ engine = "network" => N!ExposureDecides
    /\ engine = "sast" => A!ShownIsHeld

Ended == IF engine = "dast" THEN Done ELSE status = "done"

\* Every engine that is started comes to its end: whatever the application does
\* between the requests, and though files include each other (Probing, EndpointScan).
EveryScanEnds == Started ~> Ended
=============================================================================
