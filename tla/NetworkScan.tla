---------------------------- MODULE NetworkScan -----------------------------
(***************************************************************************)
(* The network scanner (scanners/network/scanner.py): what it may scan,    *)
(* from the configuration file of the operator (apps/audits/config.py) and *)
(* target_authorized (apps/audits/utils.py), and what it records of every  *)
(* open port.  Sockets and nmap are their results: a port is closed, or    *)
(* the service behind it is outdated (an old release, a protocol below TLS *)
(* 1.2, a development server), current, or says nothing.                   *)
(***************************************************************************)
EXTENDS RequirementStatus, Sequences

CONSTANTS LocalHosts,   \* is_local_target: besides the two of the defaults
          PublicHosts,  \* every other address or name
          Projects      \* configurations and networks considered, see IsProject

\* DEFAULT_CONFIG, "network"; the keys it lacks have a default where they are read.
Defaults == [authorized_targets |-> <<"127.0.0.1", "localhost">>]

Local == {"127.0.0.1", "localhost"} \union LocalHosts
Hosts == Local \union PublicHosts

DB_PORTS     == {1433, 1521, 3306, 5432, 27017, 9200, 9092, 5672, 15672, 2181}
CACHE_PORTS  == {6379, 6380, 11211}
LEGACY_PORTS == {21, 23}
TLS_PORTS    == {443, 8443}
COMMON_PORTS == DB_PORTS \union CACHE_PORTS \union LEGACY_PORTS \union TLS_PORTS
                  \union {22, 25, 53, 80, 110, 143, 3000, 8000, 8080, 9090}

Services == {"closed", "outdated", "current", "silent"}

\* "network" of security-audit.yml is absent, null, or has keys.  "invalid" are
\* the keys that are null, and "port" if some entry of scan_ports is no integer;
\* a section that is no mapping is one whose keys are all null.
Keys == {"authorized_targets", "allow_external_targets", "expected_open_ports",
         "scan_ports"}
IsProject(p) ==
    /\ p.section \in {"absent", "null", "keys"}
    /\ p.invalid \subseteq Keys \union {"port"} /\ DOMAIN p.keys \subseteq Keys
    /\ "authorized_targets" \in DOMAIN p.keys => p.keys.authorized_targets \in Seq(Hosts)
    /\ p.confirmed \in BOOLEAN
    /\ p.nmap \in {"absent", "fails", "works"}
    /\ \A h \in Hosts : DOMAIN p.services[h] \subseteq Nat
                          /\ \A port \in DOMAIN p.services[h] : p.services[h][port] \in Services

VARIABLES project,      \* what is scanned
          todo,         \* targets not yet looked at
          scanned,      \* targets_scanned
          evidence,     \* the evidence recorded
          status        \* of the scan; "idle" before it

vars == <<project, todo, scanned, evidence, status>>

Init ==
    /\ project = <<>>
    /\ todo = <<>>
    /\ scanned = {}
    /\ evidence = {}
    /\ status = "idle"

-----------------------------------------------------------------------------
(* The configuration *)

\* The keys of f over those of g.
Over(f, g) == [k \in DOMAIN f \union DOMAIN g |-> IF k \in DOMAIN f THEN f[k] ELSE g[k]]

\* Bug: a list of the file is added to that of the defaults.
DeepMergeLists(p) ==
    CASE p.section = "absent" -> Defaults
      [] p.section = "null"   -> <<>>
      [] p.section = "keys"   ->
            IF "authorized_targets" \in DOMAIN p.keys
            THEN [p.keys EXCEPT !.authorized_targets = Defaults.authorized_targets \o @]
            ELSE Over(p.keys, Defaults)

\* _deep_merge: a key of the file replaces that of the defaults, lists as a
\* whole; so does a section that is null, which the scanner takes for empty.
DeepMerge(p) ==
    CASE p.section = "absent" -> Defaults
      [] p.section = "null"   -> <<>>
      [] p.section = "keys"   -> Over(p.keys, Defaults)

Get(p, key, default) ==
    IF key \in DOMAIN DeepMerge(p) THEN DeepMerge(p)[key] ELSE default

AuthorizedTargets(p)  == Get(p, "authorized_targets", <<"127.0.0.1">>)
Expected(p) == Get(p, "expected_open_ports", {80, 443})
ScanPorts(p) ==
    IF "scan_ports" \in p.invalid THEN COMMON_PORTS ELSE Get(p, "scan_ports", COMMON_PORTS)

\* Iterating over null raises, and so does the integer of an entry that is none;
\* scan_ports that is no list is passed over.
Raises(p) == p.invalid \intersect {"authorized_targets", "expected_open_ports", "port"} # {}

\* target_authorized, of a target the configuration lists.
Authorized(p, h) == h \in Local \/ Get(p, "allow_external_targets", FALSE)

-----------------------------------------------------------------------------
(* One host *)

Item(rule, polarity, req, host, port, strong) ==
    [rule |-> rule, polarity |-> polarity, req |-> req, host |-> host, port |-> port,
     strong |-> strong]

\* _finding: the evidence is Confirmed, of a deviation from the baseline Medium.
Finding(rule, req, host, port)   == {Item(rule, "vuln", req, host, port, TRUE)}
Deviation(rule, req, host, port) == {Item(rule, "vuln", req, host, port, FALSE)}

\* Evidence without a finding has the default confidence, "High".
Noted(rule, polarity, req, host, port) == {Item(rule, polarity, req, host, port, TRUE)}

\* What the two engines make of the banner of an SSH server: "OpenSSH 7.2p2" of
\* the product and version of nmap, "SSH-2.0-OpenSSH_7.2p2" of the banner itself.
SshVersion(p) == IF p.nmap = "works" THEN "OpenSSH " ELSE "SSH-2.0-OpenSSH_"
OldSsh(p, service) == service = "outdated" /\ SshVersion(p) = "OpenSSH_"

\* The branches of _scan_host, one per kind of port.  A handshake below TLS 1.2
\* is refused by create_default_context itself, and no handshake is no evidence.
KindItems(p, host, port, service) ==
    CASE port \in DB_PORTS     -> Finding("PORT-DB-001", "REQ-107", host, port)
      [] port \in CACHE_PORTS  -> Finding("PORT-CACHE-001", "REQ-107", host, port)
      [] port \in LEGACY_PORTS ->
            Finding(IF port = 23 THEN "PORT-TELNET-001" ELSE "PORT-FTP-001", "REQ-109",
                    host, port)
      [] port = 22 ->
            (IF OldSsh(p, service) THEN Finding("PORT-SSH-001", "REQ-110", host, port)
                                   ELSE {})
            \union Noted("PORT-SSH-001", "info", "REQ-110", host, port)
            \union Noted("PORT-SSH-001", "info", "REQ-111", host, port)
      [] port \in TLS_PORTS ->
            IF service = "current" THEN Noted("PORT-TLS-001", "ok", "REQ-113", host, port)
                                   ELSE {}
      [] port = 8000 ->
            IF service = "outdated" THEN Finding("PORT-DEVSRV-001", "REQ-112", host, port)
            ELSE Noted("PORT-DEVSRV-001", "info", "REQ-112", host, port)
      [] OTHER -> {}

\* An open port the configuration does not expect: noted with the default
\* confidence, and again by _finding.
ExtraItems(p, host, port) ==
    IF port \in Expected(p) THEN {}
    ELSE Noted("PORT-EXTRA-001", "vuln", "REQ-108", host, port)
            \union Deviation("PORT-EXTRA-001", "REQ-108", host, port)

Open(p, host) ==
    {port \in DOMAIN p.services[host] \intersect ScanPorts(p) :
        p.services[host][port] # "closed"}

HostItems(p, host) ==
    Noted("SVC-VERSION-001", "info", "REQ-111", host, 0)
        \union UNION {KindItems(p, host, port, p.services[host][port])
                         \union ExtraItems(p, host, port) : port \in Open(p, host)}

-----------------------------------------------------------------------------
(* run *)

\* The configuration is read before the authorization is looked at.
Start ==
    /\ status = "idle"
    /\ \E p \in Projects :
          /\ project' = p
          /\ IF Raises(p) THEN status' = "FAILED" /\ todo' = <<>>
             ELSE IF ~p.confirmed THEN status' = "SKIPPED" /\ todo' = <<>>
             ELSE status' = "scanning" /\ todo' = AuthorizedTargets(p)
    /\ UNCHANGED <<scanned, evidence>>

Refuse ==
    /\ status = "scanning" /\ todo # <<>> /\ ~Authorized(project, Head(todo))
    /\ evidence' = evidence \union Noted("NET-AUTH-001", "info", "none", Head(todo), 0)
    /\ todo' = Tail(todo)
    /\ UNCHANGED <<project, scanned, status>>

\* A host that is listed twice is scanned once.
ScanHost ==
    /\ status = "scanning" /\ todo # <<>> /\ Authorized(project, Head(todo))
    /\ IF Head(todo) \in scanned THEN UNCHANGED <<scanned, evidence>>
       ELSE /\ scanned' = scanned \union {Head(todo)}
            /\ evidence' = evidence \union HostItems(project, Head(todo))
    /\ todo' = Tail(todo)
    /\ UNCHANGED <<project, status>>

Finish ==
    /\ status = "scanning" /\ todo = <<>>
    /\ status' = IF scanned = {} THEN "SKIPPED" ELSE "SUCCESS"
    /\ UNCHANGED <<project, todo, scanned, evidence>>

Next == Start \/ Refuse \/ ScanHost \/ Finish

Spec == Init /\ [][Next]_vars

-----------------------------------------------------------------------------
(* Properties *)

\* The hosts the operator lists, or those of the documented default scope.
Listed ==
    IF project.section = "keys" /\ "authorized_targets" \in DOMAIN project.keys
    THEN {project.keys.authorized_targets[i] : i \in DOMAIN project.keys.authorized_targets}
    ELSE {"127.0.0.1", "localhost"}

AllowsExternal ==
    /\ project.section = "keys" /\ "allow_external_targets" \in DOMAIN project.keys
    /\ project.keys.allow_external_targets

\* Whatever the configuration file says or gets wrong: only hosts it lists, or
\* the loopback defaults, are scanned, only with the confirmation, a public one
\* only with allow_external_targets; and a scan that succeeds has scanned all of
\* these ("public targets need allowlist entry and allow_external_targets: true",
\* docs/THREAT_MODEL.md:5).
ScansAreAuthorized ==
    /\ status # "idle" =>
        \A h \in scanned :
            project.confirmed /\ h \in Listed /\ (h \in Local \/ AllowsExternal)
    /\ status = "SUCCESS" /\ project.section # "null" =>
        scanned = {h \in Listed : h \in Local \/ AllowsExternal}

AutomationOf(req) ==
    IF req \in {"REQ-107", "REQ-109", "REQ-111"} THEN "FULLY_AUTOMATED"
                                                 ELSE "PARTIALLY_AUTOMATED"
Verdict(req) == ComputeStatus(AutomationOf(req), {e \in evidence : e.req = req}, TRUE)

\* Some host that was scanned has such a port open.
Exposed(ports) == \E h \in scanned : Open(project, h) \intersect ports # {}

\* A backing service, a cleartext service or a development server that is open
\* on any host that was scanned fails its requirement, whatever the other hosts
\* and ports show, and nothing else does.
ExposureDecides ==
    status = "SUCCESS" =>
        /\ Verdict("REQ-107") = "FAIL" <=> Exposed(DB_PORTS \union CACHE_PORTS)
        /\ Verdict("REQ-109") = "FAIL" <=> Exposed(LEGACY_PORTS)
        /\ Verdict("REQ-112") = "FAIL" <=>
              \E h \in scanned : 8000 \in Open(project, h)
                                    /\ project.services[h][8000] = "outdated"
=============================================================================
