------------------------------ MODULE Workdir -------------------------------
(***************************************************************************)
(* The two stores of a work directory, audits and users.  They share the   *)
(* directory and the server and no file, so one behaviour is one store.    *)
(***************************************************************************)
EXTENDS Naturals

CONSTANTS NumAudits, MaxSaves,                            \* for AuditStore
          Rivals, Logins, Changes, Arrivals, RoleOf,      \* for UserStore
          TOKEN_TTL, MaxTime

VARIABLES store,                                          \* the store at work
          dead, overlapped,                               \* see the stores
          saves, artifact, index, writer,
          file, now, thread, answered, acknowledged

auditVars == <<saves, artifact, index, writer>>
userVars  == <<file, now, thread, answered, acknowledged>>
vars == <<store, dead, overlapped, auditVars, userVars>>

A == INSTANCE AuditStore
U == INSTANCE UserStore

ASSUME AuditAssumption == A!IsAuditBounds
ASSUME UserAssumption == U!IsUserBounds

AuditsIdle == saves = <<>> /\ artifact = <<>> /\ index = <<>> /\ writer = <<>>
UsersIdle  == file = <<>> /\ now = 0 /\ thread = <<>> /\ answered = {} /\ acknowledged = <<>>

Init ==
    \/ store = "audits" /\ A!Init /\ UsersIdle
    \/ store = "users" /\ U!Init /\ AuditsIdle

AuditStep == store = "audits" /\ A!Next /\ UNCHANGED <<store, userVars>>
UserStep  == store = "users" /\ U!Next /\ UNCHANGED <<store, auditVars>>

Next == AuditStep \/ UserStep

Spec == Init /\ [][Next]_vars

-----------------------------------------------------------------------------
(* The properties of the stores, see their modules. *)

\* The listing never promises more than the artifacts hold (AuditStore).
ListingBehindArtifact == store = "audits" => A!ListingBehindArtifact

\* Saves that do not overlap leave an exact listing, crash or not (AuditStore).
SerialListingExact == store = "audits" => A!SerialListingExact

\* Without overlap a session holds until it expires, with the permissions of
\* the role its user has now (UserStore).
SerialSessionsHold == store = "users" => U!SerialSessionsHold

\* Without overlap the last acknowledged password is in force (UserStore).
SerialPasswordHolds == store = "users" => U!SerialPasswordHolds

\* Every token that is accepted was earned (UserStore).
TokensAreEarned == store = "users" => U!TokensAreEarned
=============================================================================
