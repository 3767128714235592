--------------------------- MODULE Engines_proofs ---------------------------
(***************************************************************************)
(* What holds of the engines for all their projects: any configuration of  *)
(* the operator and any network, any settings modules and manifests, any   *)
(* plan of probes.  First each engine by itself, with its invariant; then  *)
(* the pipeline that runs one of them.                                     *)
(***************************************************************************)
EXTENDS Engines, TLAPS, FiniteSetTheorems, WellFoundedInduction

LEMMA Least ==
    ASSUME NEW T \in SUBSET Nat, T # {}
    PROVE  \E n \in T : \A m \in T : n <= m
<1> DEFINE R == OpToRel(<, Nat)
<1>1. IsWellFoundedOn(R, Nat)
    BY NatLessThanWellFounded
<1>2. \A m, n \in Nat : m < n => <<m, n>> \in R
    BY DEF OpToRel
<1> HIDE DEF R
<1>3. PICK n \in T : \A m \in T : <<m, n>> \notin R
    BY <1>1, WFMin
<1>4. ASSUME NEW m \in T PROVE n <= m
  <2>1. m \in Nat /\ n \in Nat /\ ~(m < n)
      BY <1>2, <1>3
  <2>2. QED
      BY <2>1
<1>5. QED
    BY <1>4

(* The network scanner *)

Elements(s) == {s[i] : i \in DOMAIN s}

LEMMA HeadAndTail ==
    ASSUME NEW T, NEW s \in Seq(T), s # <<>>
    PROVE  /\ Head(s) \in T /\ Tail(s) \in Seq(T)
           /\ Elements(s) = {Head(s)} \union Elements(Tail(s))
<1>1. /\ Head(s) = s[1] /\ Head(s) \in T /\ Tail(s) \in Seq(T)
      /\ Len(s) \in Nat \ {0} /\ Len(Tail(s)) = Len(s) - 1
      /\ \A i \in 1..Len(s) - 1 : Tail(s)[i] = s[i + 1]
    OBVIOUS
<1>2. DOMAIN s = 1..Len(s) /\ DOMAIN Tail(s) = 1..(Len(s) - 1)
    BY <1>1
<1>3. ASSUME NEW x \in Elements(s) PROVE x \in {Head(s)} \union Elements(Tail(s))
  <2>1. PICK i \in 1..Len(s) : x = s[i]
      BY <1>2 DEF Elements
  <2>2. CASE i = 1
      BY <1>1, <2>1, <2>2
  <2>3. CASE i # 1
    <3>1. i - 1 \in 1..(Len(s) - 1) /\ x = Tail(s)[i - 1]
        BY <1>1, <2>1, <2>3
    <3>2. QED
        BY <1>2, <3>1 DEF Elements
  <2>4. QED
      BY <2>2, <2>3
<1>4. ASSUME NEW x \in {Head(s)} \union Elements(Tail(s)) PROVE x \in Elements(s)
    BY <1>1, <1>2, <1>4 DEF Elements
<1>5. QED
    BY <1>1, <1>3, <1>4

\* What the scanner may scan of a configuration.
Scope(p) == {h \in Elements(N!AuthorizedTargets(p)) : N!Authorized(p, h)}

NetworkTypes ==
    /\ status # "idle" => project \in NetworkProjects
    /\ todo \in Seq(N!Hosts)
    /\ status \notin {"scanning", "SUCCESS"} => scanned = {}

\* What is scanned is in the scope, what is not is still to be looked at.
ScopeKept ==
    status \in {"scanning", "SUCCESS"} =>
        /\ project.confirmed
        /\ Elements(todo) \subseteq Elements(N!AuthorizedTargets(project))
        /\ scanned \subseteq Scope(project)
        /\ Scope(project) \subseteq scanned \union Elements(todo)
        /\ status = "SUCCESS" => todo = <<>>

\* The evidence is that of the hosts that were scanned.
HostsHeld ==
    /\ status = "idle" => evidence = {}
    /\ \A e \in evidence : e.req = "none" \/ \E h \in scanned : e \in N!HostItems(project, h)
    /\ \A h \in scanned : N!HostItems(project, h) \subseteq evidence

NetworkInv == NetworkTypes /\ ScopeKept /\ HostsHeld

LEMMA ScopeTyped == \A p \in NetworkProjects : N!AuthorizedTargets(p) \in Seq(N!Hosts)
<1> SUFFICES ASSUME NEW p \in NetworkProjects PROVE N!AuthorizedTargets(p) \in Seq(N!Hosts)
    OBVIOUS
<1>1. /\ p.section \in {"absent", "null", "keys"}
      /\ "authorized_targets" \in DOMAIN p.keys => p.keys.authorized_targets \in Seq(N!Hosts)
    BY NetworkAssumption DEF N!IsProject
<1>2. /\ <<"127.0.0.1">> \in Seq(N!Hosts)
      /\ N!Defaults.authorized_targets \in Seq(N!Hosts)
      /\ "authorized_targets" \in DOMAIN N!Defaults
    BY DEF N!Defaults, N!Hosts, N!Local
<1>3. "authorized_targets" \notin DOMAIN <<>>
    OBVIOUS
<1>4. CASE p.section = "keys"
    BY <1>1, <1>2, <1>4 DEF N!AuthorizedTargets, N!Get, N!DeepMerge, N!Over
<1>5. CASE p.section = "absent"
    BY <1>2, <1>5 DEF N!AuthorizedTargets, N!Get, N!DeepMerge
<1>6. CASE p.section = "null"
    BY <1>2, <1>3, <1>6 DEF N!AuthorizedTargets, N!Get, N!DeepMerge
<1>7. QED
    BY <1>1, <1>4, <1>5, <1>6

\* The scope is what the operator has listed and allowed.
LEMMA ScopeIsListed ==
    ASSUME project \in NetworkProjects
    PROVE  /\ Scope(project) \subseteq {h \in N!Listed : h \in N!Local \/ N!AllowsExternal}
           /\ project.section # "null" =>
                 Scope(project) = {h \in N!Listed : h \in N!Local \/ N!AllowsExternal}
<1>1. project.section \in {"absent", "null", "keys"}
    BY NetworkAssumption DEF N!IsProject
<1>2. \A h : N!Authorized(project, h) <=> h \in N!Local \/ N!AllowsExternal
  <2>1. CASE project.section = "keys"
      BY <2>1 DEF N!Authorized, N!AllowsExternal, N!Get, N!DeepMerge, N!Over, N!Defaults
  <2>2. CASE project.section = "absent"
      BY <2>2 DEF N!Authorized, N!AllowsExternal, N!Get, N!DeepMerge, N!Defaults
  <2>3. CASE project.section = "null"
      BY <2>3 DEF N!Authorized, N!AllowsExternal, N!Get, N!DeepMerge
  <2>4. QED
      BY <1>1, <2>1, <2>2, <2>3
<1>3. Elements(N!Defaults.authorized_targets) = {"127.0.0.1", "localhost"}
    BY DEF Elements, N!Defaults
<1>4. CASE project.section = "keys"
  <2>1. N!AuthorizedTargets(project) =
            IF "authorized_targets" \in DOMAIN project.keys
            THEN project.keys.authorized_targets ELSE N!Defaults.authorized_targets
      BY <1>4 DEF N!AuthorizedTargets, N!Get, N!DeepMerge, N!Over, N!Defaults
  <2>2. N!Listed = Elements(N!AuthorizedTargets(project))
      BY <1>3, <1>4, <2>1 DEF N!Listed, Elements
  <2>3. QED
      BY <1>2, <1>4, <2>2 DEF Scope
<1>5. CASE project.section = "absent"
    BY <1>2, <1>3, <1>5
       DEF Scope, N!Listed, N!AuthorizedTargets, N!Get, N!DeepMerge, N!Defaults
<1>6. CASE project.section = "null"
  <2>1. N!AuthorizedTargets(project) = <<"127.0.0.1">>
      BY <1>6 DEF N!AuthorizedTargets, N!Get, N!DeepMerge
  <2>2. Elements(<<"127.0.0.1">>) = {"127.0.0.1"}
      BY DEF Elements
  <2>3. QED
      BY <1>2, <1>6, <2>1, <2>2 DEF Scope, N!Listed
<1>7. QED
    BY <1>1, <1>4, <1>5, <1>6

LEMMA NetworkInit == ASSUME N!Init PROVE NetworkInv
BY DEF N!Init, NetworkInv, NetworkTypes, ScopeKept, HostsHeld

LEMMA NetworkNext == ASSUME NetworkInv, [N!Next]_(N!vars) PROVE NetworkInv'
<1> USE DEF NetworkInv
<1>1. CASE N!Start
  <2>1. PICK p \in NetworkProjects :
            /\ project' = p
            /\ \/ status' \in {"FAILED", "SKIPPED"} /\ todo' = <<>>
               \/ status' = "scanning" /\ todo' = N!AuthorizedTargets(p) /\ p.confirmed
      BY <1>1 DEF N!Start
  <2>2. scanned = {} /\ evidence = {} /\ UNCHANGED <<scanned, evidence>>
      BY <1>1 DEF N!Start, NetworkTypes, HostsHeld
  <2>3. todo' \in Seq(N!Hosts)
    <3>1. N!AuthorizedTargets(p) \in Seq(N!Hosts)
        BY ScopeTyped
    <3>2. <<>> \in Seq(N!Hosts)
        OBVIOUS
    <3>3. QED
        BY <2>1, <3>1, <3>2
  <2>4. NetworkTypes' /\ HostsHeld'
      BY <2>1, <2>2, <2>3 DEF NetworkTypes, HostsHeld
  <2>5. ScopeKept'
      BY <2>1, <2>2 DEF ScopeKept, Scope
  <2>6. QED
      BY <2>4, <2>5
<1>2. ASSUME status = "scanning", todo # <<>>
      PROVE  /\ Head(todo) \in Elements(N!AuthorizedTargets(project))
             /\ Tail(todo) \in Seq(N!Hosts)
             /\ Elements(todo) = {Head(todo)} \union Elements(Tail(todo))
    BY <1>2, HeadAndTail DEF NetworkTypes, ScopeKept
<1>3. CASE N!Refuse
  <2>1. /\ status = "scanning" /\ todo # <<>> /\ todo' = Tail(todo)
        /\ ~N!Authorized(project, Head(todo))
        /\ UNCHANGED <<project, scanned, status>>
      BY <1>3 DEF N!Refuse
  <2>2. \A e \in evidence' : e \in evidence \/ e.req = "none"
      BY <1>3 DEF N!Refuse, N!Noted, N!Item
  <2>3. evidence \subseteq evidence'
      BY <1>3 DEF N!Refuse
  <2>4. NetworkTypes'
      BY <1>2, <2>1 DEF NetworkTypes
  <2>5. ScopeKept'
      BY <1>2, <2>1 DEF ScopeKept, Scope
  <2>6. HostsHeld'
      BY <2>1, <2>2, <2>3 DEF HostsHeld
  <2>7. QED
      BY <2>4, <2>5, <2>6
<1>4. CASE N!ScanHost
  <2>1. /\ status = "scanning" /\ todo # <<>> /\ todo' = Tail(todo)
        /\ N!Authorized(project, Head(todo))
        /\ scanned' = scanned \union {Head(todo)}
        /\ UNCHANGED <<project, status>>
      BY <1>4 DEF N!ScanHost
  <2>2. \/ Head(todo) \in scanned /\ evidence' = evidence
        \/ evidence' = evidence \union N!HostItems(project, Head(todo))
      BY <1>4 DEF N!ScanHost
  <2>3. NetworkTypes'
      BY <1>2, <2>1 DEF NetworkTypes
  <2>4. ScopeKept'
      BY <1>2, <2>1 DEF ScopeKept, Scope
  <2>5. HostsHeld'
      BY <2>1, <2>2 DEF HostsHeld
  <2>6. QED
      BY <2>3, <2>4, <2>5
<1>5. CASE N!Finish
  <2>1. /\ status = "scanning" /\ todo = <<>>
        /\ status' = IF scanned = {} THEN "SKIPPED" ELSE "SUCCESS"
        /\ UNCHANGED <<project, todo, scanned, evidence>>
      BY <1>5 DEF N!Finish
  <2>2. QED
      BY <2>1 DEF NetworkTypes, ScopeKept, HostsHeld, Scope
<1>6. CASE UNCHANGED N!vars
    BY <1>6 DEF N!vars, NetworkTypes, ScopeKept, HostsHeld, Scope
<1>7. QED
    BY <1>1, <1>3, <1>4, <1>5, <1>6 DEF N!Next

LEMMA ScansAreInScope == ASSUME NetworkInv PROVE N!ScansAreAuthorized
<1>1. Elements(<<>>) = {}
    BY DEF Elements
<1>2. QED
    BY <1>1, ScopeIsListed DEF NetworkInv, NetworkTypes, ScopeKept, N!ScansAreAuthorized

\* Which vulnerability evidence of these requirements a host can have.
LEMMA ItemsOfHost ==
    ASSUME NEW p, NEW h, NEW e \in N!HostItems(p, h), e.polarity = "vuln"
    PROVE  /\ e.req = "REQ-107" => N!Open(p, h) \intersect (N!DB_PORTS \union N!CACHE_PORTS) # {}
           /\ e.req = "REQ-109" => N!Open(p, h) \intersect N!LEGACY_PORTS # {}
           /\ e.req = "REQ-112" => 8000 \in N!Open(p, h) /\ p.services[h][8000] = "outdated"
<1>1. e \notin N!Noted("SVC-VERSION-001", "info", "REQ-111", h, 0)
    BY DEF N!Noted, N!Item
<1>2. PICK port \in N!Open(p, h) :
          e \in N!KindItems(p, h, port, p.services[h][port]) \union N!ExtraItems(p, h, port)
    BY <1>1 DEF N!HostItems
<1>3. CASE e \in N!ExtraItems(p, h, port)
    BY <1>3 DEF N!ExtraItems, N!Noted, N!Deviation, N!Item
<1>4. CASE e \in N!KindItems(p, h, port, p.services[h][port])
    BY <1>2, <1>4 DEF N!KindItems, N!Noted, N!Finding, N!Item
<1>5. QED
    BY <1>2, <1>3, <1>4

\* Which strong evidence an open port leaves.
LEMMA PortLeaves ==
    ASSUME NEW p, NEW h, NEW port \in N!Open(p, h),
           NEW req,
           \/ port \in N!DB_PORTS \union N!CACHE_PORTS /\ req = "REQ-107"
           \/ port \in N!LEGACY_PORTS /\ req = "REQ-109"
           \/ port = 8000 /\ p.services[h][port] = "outdated" /\ req = "REQ-112"
    PROVE  \E e \in N!HostItems(p, h) : e.req = req /\ e.polarity = "vuln" /\ e.strong
<1>1. \E e \in N!KindItems(p, h, port, p.services[h][port]) :
          e.req = req /\ e.polarity = "vuln" /\ e.strong
  <2>1. PICK rule \in {"PORT-DB-001", "PORT-CACHE-001", "PORT-TELNET-001", "PORT-FTP-001",
                       "PORT-DEVSRV-001"} :
            N!KindItems(p, h, port, p.services[h][port]) = N!Finding(rule, req, h, port)
      BY DEF N!KindItems, N!DB_PORTS, N!CACHE_PORTS, N!LEGACY_PORTS, N!TLS_PORTS
  <2>2. QED
      BY <2>1 DEF N!Finding, N!Item
<1>2. QED
    BY <1>1 DEF N!HostItems

\* A requirement that can be tested automatically fails by strong evidence, and only by it.
LEMMA FailNeedsStrong ==
    ASSUME NEW level \in {"FULLY_AUTOMATED", "PARTIALLY_AUTOMATED"}, NEW evs
    PROVE  N!ComputeStatus(level, evs, TRUE) = "FAIL" <=>
               \E e \in evs : e.polarity = "vuln" /\ e.strong
BY DEF N!ComputeStatus, N!IsManual, N!StrongVuln

LEMMA ExposureIsDecided == ASSUME NetworkInv PROVE N!ExposureDecides
<1> SUFFICES ASSUME status = "SUCCESS"
             PROVE  /\ N!Verdict("REQ-107") = "FAIL" <=>
                           N!Exposed(N!DB_PORTS \union N!CACHE_PORTS)
                    /\ N!Verdict("REQ-109") = "FAIL" <=> N!Exposed(N!LEGACY_PORTS)
                    /\ N!Verdict("REQ-112") = "FAIL" <=>
                          \E h \in scanned : 8000 \in N!Open(project, h)
                                                /\ project.services[h][8000] = "outdated"
    BY DEF N!ExposureDecides
<1>1. ASSUME NEW req \in {"REQ-107", "REQ-109", "REQ-112"}
      PROVE  N!Verdict(req) = "FAIL" <=>
                 \E h \in scanned : \E e \in N!HostItems(project, h) :
                     e.req = req /\ e.polarity = "vuln" /\ e.strong
  <2>1. N!AutomationOf(req) \in {"FULLY_AUTOMATED", "PARTIALLY_AUTOMATED"}
      BY DEF N!AutomationOf
  <2>2. N!Verdict(req) = "FAIL" <=> \E e \in {f \in evidence : f.req = req} :
                                       e.polarity = "vuln" /\ e.strong
      BY <2>1, FailNeedsStrong DEF N!Verdict
  <2>3. QED
      BY <2>2 DEF NetworkInv, HostsHeld
<1>2. N!Verdict("REQ-107") = "FAIL" <=> N!Exposed(N!DB_PORTS \union N!CACHE_PORTS)
    BY <1>1, ItemsOfHost, PortLeaves DEF N!Exposed
<1>3. N!Verdict("REQ-109") = "FAIL" <=> N!Exposed(N!LEGACY_PORTS)
    BY <1>1, ItemsOfHost, PortLeaves DEF N!Exposed
<1>4. N!Verdict("REQ-112") = "FAIL" <=>
          \E h \in scanned : 8000 \in N!Open(project, h)
                                /\ project.services[h][8000] = "outdated"
    BY <1>1, ItemsOfHost, PortLeaves
<1>5. QED
    BY <1>2, <1>3, <1>4

-----------------------------------------------------------------------------
(* The dependency scanner *)

Declarations == [name: Packages \union {Unnamed}, spec: D!Specs, manifest: Nat]

\* Entry n of manifest i is the first place in the order of the walk that declares
\* the name.
IsFirst(name, i, n) ==
    /\ i \in D!Sources /\ n \in DOMAIN D!Declared(i) /\ D!Declared(i)[n].name = name
    /\ \A k \in D!Sources : \A m \in DOMAIN D!Declared(k) :
          D!Declared(k)[m].name = name => i < k \/ (i = k /\ n <= m)

\* Declaration j of the list is the first one of its name there.
Leads(j) == \A l \in DOMAIN deps : deps[l].name = deps[j].name => j <= l

InList(name) == \E j \in DOMAIN deps : deps[j].name = name

\* The first declaration of each name in the list is the first one of the sources.
LeadersAreFirst ==
    \A j \in DOMAIN deps : Leads(j) /\ deps[j].name \in Packages \ seen =>
        \E i \in D!Sources : \E n \in DOMAIN D!Declared(i) :
            IsFirst(deps[j].name, i, n) /\ deps[j] = D!Declared(i)[n]

\* What is judged of a declaration.
Judged(d) == D!DangerousItems(d) \union D!AdvisoryItems(d) \union D!PinningItems(d)

EvidenceAbout(name) == {e \in evidence : e.package = name}

\* The evidence about a name is what its first declaration comes to.
SeenAreJudged ==
    /\ \A e \in evidence : e.package \in seen
    /\ \A name \in seen : \E i \in D!Sources : \E n \in DOMAIN D!Declared(i) :
          /\ IsFirst(name, i, n)
          /\ \E old \in D!OutdatedItems(D!Declared(i)[n]) :
                EvidenceAbout(name) = Judged(D!Declared(i)[n]) \union old

UnseenAreListed ==
    \A i \in D!Sources : \A n \in DOMAIN D!Declared(i) :
        D!Declared(i)[n].name \in Packages \ seen => InList(D!Declared(i)[n].name)

Total     == Len(project.manifests)
ReadSoFar == Total - Len(todo)

DependencyTypes ==
    /\ status # "idle" => project \in DependencyProjects
    /\ deps \in Seq(Declarations) /\ todo \in Seq(Nat)
    /\ seen \subseteq Packages
    /\ status \notin {"judging", "SUCCESS"} => seen = {} /\ evidence = {}
    /\ status = "idle" => deps = <<>>

\* The manifests up to ReadSoFar have been read, in their order.
Collected ==
    status = "collecting" =>
        /\ Len(todo) <= Total
        /\ \A j \in 1..Len(todo) : todo[j] = ReadSoFar + j
        /\ \A i \in 1..ReadSoFar : \A n \in DOMAIN D!Declared(i) :
              InList(D!Declared(i)[n].name)
        /\ deps # <<>> => D!Sources \subseteq 1..Total
        /\ LeadersAreFirst

JudgedInOrder ==
    /\ status \in {"judging", "SUCCESS"} =>
          LeadersAreFirst /\ SeenAreJudged /\ UnseenAreListed
    /\ status = "SUCCESS" => deps = <<>>
    /\ status = "SKIPPED" =>
          \A i \in D!Sources : \A n \in DOMAIN D!Declared(i) : D!Declared(i)[n].name \notin Packages

DependencyInv == DependencyTypes /\ Collected /\ JudgedInOrder

\* What is declared where, of a project that has been started on.
LEMMA DeclaredTyped ==
    ASSUME project \in DependencyProjects
    PROVE  /\ Total \in Nat /\ DOMAIN project.manifests = 1..Total
           /\ \A i \in 0..Total : D!Declared(i) \in Seq(Declarations)
           /\ \A i \in D!Sources : i \in 0..Total
<1>1. /\ project.manifests \in Seq(D!Manifest)
      /\ project.installed \in Seq([name: Packages, spec: D!Exact \union {"floating"}])
    BY DependencyAssumption DEF D!IsProject
<1>2. Total \in Nat /\ DOMAIN project.manifests = 1..Total
    BY <1>1 DEF Total
<1>3. ASSUME NEW i \in 0..Total PROVE D!Declared(i) \in Seq(Declarations)
  <2> DEFINE entries == IF i = 0 THEN project.installed
                        ELSE IF project.manifests[i].state = "readable"
                        THEN project.manifests[i].entries ELSE <<>>
  <2>1. /\ DOMAIN entries = 1..Len(entries) /\ Len(entries) \in Nat
        /\ \A n \in 1..Len(entries) :
              entries[n].name \in Packages \union {Unnamed} /\ entries[n].spec \in D!Specs
    <3>1. CASE i = 0
      <4> DEFINE Installed == [name: Packages, spec: D!Exact \union {"floating"}]
      <4>1. entries \in Seq(Installed)
          BY <1>1, <3>1
      <4> HIDE DEF entries, Installed
      <4>2. DOMAIN entries = 1..Len(entries) /\ Len(entries) \in Nat
          BY <4>1
      <4>3. \A n \in 1..Len(entries) : entries[n] \in Installed
          BY <4>1
      <4>4. QED
          BY <4>2, <4>3 DEF D!Specs, Installed
    <3>2. CASE i # 0
      <4>1. project.manifests[i] \in D!Manifest
          BY <1>1, <1>2, <3>2
      <4>2. project.manifests[i].entries \in Seq(D!Declaration) /\ <<>> \in Seq(D!Declaration)
          BY <4>1 DEF D!Manifest
      <4>3. entries \in Seq(D!Declaration)
          BY <3>2, <4>2
      <4> HIDE DEF entries
      <4>4. DOMAIN entries = 1..Len(entries) /\ Len(entries) \in Nat
          BY <4>3
      <4>5. \A n \in 1..Len(entries) : entries[n] \in D!Declaration
          BY <4>3
      <4>6. QED
          BY <4>4, <4>5 DEF D!Declaration
    <3> HIDE DEF entries
    <3>3. QED
        BY <3>1, <3>2
  <2>2. D!Declared(i) = [n \in DOMAIN entries |->
            [name |-> entries[n].name, spec |-> entries[n].spec, manifest |-> i]]
      BY DEF D!Declared
  <2> HIDE DEF entries
  <2>4. \A n \in 1..Len(entries) : D!Declared(i)[n] \in Declarations
    <3>1. ASSUME NEW n \in 1..Len(entries)
          PROVE  [name |-> entries[n].name, spec |-> entries[n].spec, manifest |-> i]
                     \in Declarations
      <4>1. i \in Nat
          BY <1>2
      <4>2. QED
          BY <2>1, <4>1 DEF Declarations
    <3>2. QED
        BY <2>1, <2>2, <3>1
  <2>5. QED
      BY <2>1, <2>2, <2>4
<1>4. \A i \in D!Sources : i \in 0..Total
    BY <1>2 DEF D!Sources
<1>5. QED
    BY <1>2, <1>3, <1>4

\* The sources: the manifests that declare something, or the environment.
LEMMA SourcesAre ==
    ASSUME project \in DependencyProjects
    PROVE  /\ \A i \in 1..Total : \A n \in DOMAIN D!Declared(i) :
                 i \in D!Sources /\ \A k \in D!Sources : k \in 1..Total
           /\ (\A i \in 1..Total : DOMAIN D!Declared(i) = {}) => D!Sources = {0}
<1> DEFINE manifests == {i \in DOMAIN project.manifests : D!Declared(i) # <<>>}
<1>1. D!Sources = IF manifests = {} THEN {0} ELSE manifests
    BY DEF D!Sources
<1>2. DOMAIN project.manifests = 1..Total
    BY DeclaredTyped
<1>3. ASSUME NEW i \in 1..Total
      PROVE  D!Declared(i) # <<>> <=> DOMAIN D!Declared(i) # {}
  <2>1. D!Declared(i) \in Seq(Declarations)
      BY DeclaredTyped
  <2>2. CASE Len(D!Declared(i)) = 0
      BY <2>1, <2>2
  <2>3. CASE Len(D!Declared(i)) # 0
      BY <2>1, <2>3
  <2>4. QED
      BY <2>2, <2>3
<1> HIDE DEF manifests
<1>4. \A i : i \in manifests <=> i \in 1..Total /\ DOMAIN D!Declared(i) # {}
    BY <1>2, <1>3 DEF manifests
<1>5. QED
    BY <1>1, <1>4

LEMMA PlacesAre ==
    ASSUME NEW name
    PROVE  \A a : a \in D!Places(name) <=>
               \E i \in D!Sources : \E n \in DOMAIN D!Declared(i) :
                   D!Declared(i)[n].name = name /\ a = <<i, n>>
BY DEF D!Places

\* Only one entry of all is the first of its name.
LEMMA FirstIsOne ==
    ASSUME project \in DependencyProjects, NEW name, NEW i, NEW n, IsFirst(name, i, n)
    PROVE  D!Deciding(name) = [manifest |-> i, spec |-> D!Declared(i)[n].spec]
<1>1. \A a : a \in D!Places(name) <=>
          \E k \in D!Sources : \E m \in DOMAIN D!Declared(k) :
              D!Declared(k)[m].name = name /\ a = <<k, m>>
    BY PlacesAre
<1>2. \A k \in D!Sources : k \in Nat /\ \A m \in DOMAIN D!Declared(k) : m \in Nat
  <2>1. \A k \in D!Sources : k \in 0..Total /\ D!Declared(k) \in Seq(Declarations)
      BY DeclaredTyped
  <2>2. Total \in Nat
      BY DeclaredTyped
  <2>3. QED
      BY <2>1, <2>2
<1> DEFINE a == <<i, n>>
<1>3. a \in D!Places(name)
    BY <1>1 DEF IsFirst
<1>4. \A b \in D!Places(name) : D!Before(a, b) /\ (D!Before(b, a) => b = a)
  <2>1. ASSUME NEW b \in D!Places(name) PROVE D!Before(a, b) /\ (D!Before(b, a) => b = a)
    <3>1. PICK k \in D!Sources : \E m \in DOMAIN D!Declared(k) :
              D!Declared(k)[m].name = name /\ b = <<k, m>>
        BY <1>1, <2>1
    <3>2. PICK m \in DOMAIN D!Declared(k) : D!Declared(k)[m].name = name /\ b = <<k, m>>
        BY <3>1
    <3>3. i < k \/ (i = k /\ n <= m)
        BY <3>2 DEF IsFirst
    <3>4. i \in Nat /\ n \in Nat /\ k \in Nat /\ m \in Nat
        BY <1>2 DEF IsFirst
    <3>5. QED
        BY <3>2, <3>3, <3>4 DEF D!Before
  <2>2. QED
      BY <2>1
<1>5. D!First(D!Places(name)) = a
    BY <1>3, <1>4 DEF D!First
<1>6. QED
    BY <1>5 DEF D!Deciding

\* What is declared does not change during a scan.
LEMMA DeclaredKept ==
    ASSUME project' = project
    PROVE  /\ \A i : D!Declared(i)' = D!Declared(i)
           /\ D!Sources' = D!Sources /\ Total' = Total
           /\ \A name, i, n : IsFirst(name, i, n)' = IsFirst(name, i, n)
<1>1. \A i : D!Declared(i)' = D!Declared(i)
    BY DEF D!Declared
<1>2. D!Sources' = D!Sources
    BY <1>1 DEF D!Sources
<1>3. \A name, i, n : IsFirst(name, i, n)' = IsFirst(name, i, n)
    BY <1>1, <1>2 DEF IsFirst
<1>4. QED
    BY <1>1, <1>2, <1>3 DEF Total

LEMMA DependencyInit == ASSUME D!Init PROVE DependencyInv
BY DEF D!Init, DependencyInv, DependencyTypes, Collected, JudgedInOrder

LEMMA DependencyStart == ASSUME DependencyInv, D!Start PROVE DependencyInv'
<1>1. PICK p \in DependencyProjects :
          /\ project' = p /\ todo' = [i \in DOMAIN p.manifests |-> i] /\ status' = "collecting"
    BY DEF D!Start
<1>2. deps' = <<>> /\ seen' = {} /\ evidence' = {}
    BY DEF D!Start, DependencyInv, DependencyTypes
<1>3. p.manifests \in Seq(D!Manifest)
    BY DependencyAssumption DEF D!IsProject
<1>4. todo' \in Seq(Nat) /\ Len(todo') = Total' /\ Total' \in Nat
      /\ \A j \in 1..Len(todo') : todo'[j] = j
    BY <1>1, <1>3 DEF Total
<1>5. DependencyTypes'
    BY <1>1, <1>2, <1>4 DEF DependencyTypes
<1>6. Collected' /\ JudgedInOrder'
    BY <1>1, <1>2, <1>4, DeclaredKept DEF Collected, JudgedInOrder, ReadSoFar, LeadersAreFirst
<1>7. QED
    BY <1>5, <1>6 DEF DependencyInv

LEMMA DependencyRead == ASSUME DependencyInv, D!ReadManifest PROVE DependencyInv'
<1> DEFINE h   == Head(todo)
           own == D!Declared(h)
<1>1. /\ status = "collecting" /\ todo # <<>>
      /\ deps' = deps \o own /\ todo' = Tail(todo)
      /\ UNCHANGED <<project, seen, evidence, status>>
    BY DEF D!ReadManifest, D!Collect
<1>2. /\ project \in DependencyProjects
      /\ deps \in Seq(Declarations) /\ todo \in Seq(Nat)
      /\ seen = {} /\ evidence = {} /\ Len(todo) <= Total /\ Total \in Nat
    BY <1>1, DeclaredTyped DEF DependencyInv, DependencyTypes, Collected
<1>3. /\ h = ReadSoFar + 1 /\ h \in 1..Total /\ ReadSoFar' = h
      /\ todo' \in Seq(Nat) /\ Len(todo') <= Total
      /\ \A j \in 1..Len(todo') : todo'[j] = h + j
  <2>1. /\ h = todo[1] /\ Len(todo) \in Nat \ {0} /\ Len(Tail(todo)) = Len(todo) - 1
        /\ Tail(todo) \in Seq(Nat)
        /\ \A j \in 1..(Len(todo) - 1) : Tail(todo)[j] = todo[j + 1]
      BY <1>1, <1>2
  <2>2. \A j \in 1..Len(todo) : todo[j] = (Total - Len(todo)) + j
      BY <1>1 DEF DependencyInv, Collected, ReadSoFar
  <2>3. h = (Total - Len(todo)) + 1
      BY <2>1, <2>2
  <2>4. \A j \in 1..(Len(todo) - 1) : Tail(todo)[j] = h + j
      BY <1>2, <2>1, <2>2, <2>3
  <2>5. Total' = Total
      BY <1>1, DeclaredKept
  <2>6. QED
      BY <1>1, <1>2, <2>1, <2>3, <2>4, <2>5 DEF ReadSoFar
<1>4. own \in Seq(Declarations)
  <2>1. h \in 0..Total
      BY <1>2, <1>3
  <2>2. QED
      BY <1>2, <2>1, DeclaredTyped
<1> HIDE DEF own
<1> DEFINE L == Len(deps)
           O == Len(own)
<1>5. /\ L \in Nat /\ O \in Nat
      /\ DOMAIN deps = 1..L /\ DOMAIN own = 1..O
      /\ deps' \in Seq(Declarations) /\ DOMAIN deps' = 1..(L + O)
      /\ \A j \in 1..L : deps'[j] = deps[j]
      /\ \A n \in 1..O : deps'[L + n] = own[n]
    BY <1>1, <1>2, <1>4
<1> HIDE DEF L, O, h
<1>6. /\ \A i \in 1..ReadSoFar : \A n \in DOMAIN D!Declared(i) :
            InList(D!Declared(i)[n].name)
      /\ LeadersAreFirst
    BY <1>1 DEF DependencyInv, Collected
<1>7. \A name : InList(name) => InList(name)'
    BY <1>5 DEF InList
<1>8. ASSUME NEW n \in DOMAIN own, NEW name, own[n].name = name PROVE InList(name)'
  <2>1. L + n \in DOMAIN deps' /\ deps'[L + n] = own[n]
      BY <1>5
  <2>2. QED
      BY <1>8, <2>1 DEF InList
<1>9. (\A i \in 1..ReadSoFar : \A n \in DOMAIN D!Declared(i) : InList(D!Declared(i)[n].name))'
  <2>1. \A i \in 1..h : i = h \/ i \in 1..ReadSoFar
      BY <1>2, <1>3 DEF ReadSoFar
  <2>2. ASSUME NEW i \in 1..h, NEW n \in DOMAIN D!Declared(i), NEW name,
               D!Declared(i)[n].name = name
        PROVE  InList(name)'
    <3>1. CASE i = h
        BY <1>8, <2>2, <3>1 DEF own
    <3>2. CASE i \in 1..ReadSoFar
        BY <1>6, <1>7, <2>2, <3>2
    <3>3. QED
        BY <2>1, <3>1, <3>2
  <2>3. \A i : D!Declared(i)' = D!Declared(i)
      BY <1>1, DeclaredKept
  <2>4. QED
      BY <1>3, <2>2, <2>3
<1>10. LeadersAreFirst'
  <2> SUFFICES ASSUME NEW j \in DOMAIN deps', Leads(j)', deps'[j].name \in Packages
               PROVE  \E i \in D!Sources : \E n \in DOMAIN D!Declared(i) :
                          IsFirst(deps'[j].name, i, n) /\ deps'[j] = D!Declared(i)[n]
      BY <1>1, DeclaredKept DEF LeadersAreFirst
  <2> DEFINE name == deps'[j].name
  <2>1. \A l \in DOMAIN deps' : deps'[l].name = name => j <= l
      BY DEF Leads
  <2>2. CASE j \in 1..L
    <3>1. deps'[j] = deps[j] /\ j \in DOMAIN deps
        BY <1>5, <2>2
    <3>2. Leads(j)
        BY <1>5, <2>1, <3>1 DEF Leads
    <3>3. QED
        BY <1>2, <1>6, <3>1, <3>2 DEF LeadersAreFirst
  <2>3. CASE j \notin 1..L
    <3>1. PICK n \in 1..O : j = L + n
      <4>1. j \in 1..(L + O)
          BY <1>5
      <4>2. j - L \in 1..O /\ j = L + (j - L)
          BY <1>5, <2>3, <4>1
      <4>3. QED
          BY <4>2
    <3>2. deps'[j] = own[n]
        BY <1>5, <3>1
    <3>3. ~InList(name)
      <4>1. \A l \in 1..L : deps[l].name # name
        <5>1. ASSUME NEW l \in 1..L, deps[l].name = name PROVE FALSE
          <6>1. l \in DOMAIN deps' /\ deps'[l].name = name
              BY <1>5, <5>1
          <6>2. j <= l
              BY <2>1, <6>1
          <6>3. QED
              BY <1>5, <3>1, <6>2
        <5>2. QED
            BY <5>1
      <4>2. QED
          BY <1>5, <4>1 DEF InList
    <3>4. h \in D!Sources /\ D!Sources \subseteq 1..Total
        BY <1>2, <1>3, <1>5, SourcesAre DEF own
    <3>5. ASSUME NEW k \in D!Sources, NEW m \in DOMAIN D!Declared(k),
                 D!Declared(k)[m].name = name
          PROVE  h < k \/ (h = k /\ n <= m)
      <4>1. k \in 1..Total /\ k \notin 1..ReadSoFar
          BY <1>6, <3>3, <3>4, <3>5
      <4>2. k >= h
          BY <1>2, <1>3, <4>1 DEF ReadSoFar
      <4>3. CASE k = h
        <5>1. L + m \in DOMAIN deps' /\ deps'[L + m].name = name
            BY <1>5, <3>5, <4>3 DEF own
        <5>2. j <= L + m
            BY <2>1, <5>1
        <5>3. QED
            BY <1>5, <3>1, <4>3, <5>2 DEF own
      <4>4. QED
          BY <1>3, <3>4, <4>2, <4>3
    <3>6. IsFirst(name, h, n)
      <4>1. n \in DOMAIN D!Declared(h) /\ D!Declared(h)[n].name = name
          BY <1>5, <3>2 DEF own
      <4>2. QED
          BY <3>4, <3>5, <4>1 DEF IsFirst
    <3>7. QED
        BY <1>5, <3>2, <3>4, <3>6 DEF own
  <2>4. QED
      BY <2>2, <2>3
<1>11. DependencyTypes'
    BY <1>1, <1>2, <1>3, <1>5 DEF DependencyTypes
<1>12. Collected'
  <2>1. Total' = Total /\ D!Sources' = D!Sources
      BY <1>1, DeclaredKept
  <2>2. ASSUME deps' # <<>> PROVE D!Sources \subseteq 1..Total
    <3>1. CASE O = 0
      <4>1. deps # <<>>
          BY <1>1, <1>2, <1>4, <2>2, <3>1 DEF O
      <4>2. QED
          BY <1>1, <4>1 DEF DependencyInv, Collected
    <3>2. CASE O # 0
        BY <1>2, <1>3, <1>5, <3>2, SourcesAre DEF own
    <3>3. QED
        BY <3>1, <3>2
  <2>3. QED
      BY <1>1, <1>3, <1>9, <1>10, <2>1, <2>2 DEF Collected
<1>13. JudgedInOrder'
    BY <1>1 DEF JudgedInOrder
<1>14. QED
    BY <1>11, <1>12, <1>13 DEF DependencyInv

\* When all manifests have been read, all that they declare is in the list.
LEMMA AllListed ==
    ASSUME DependencyInv, status = "collecting", todo = <<>>
    PROVE  /\ project \in DependencyProjects /\ seen = {} /\ evidence = {}
           /\ \A i \in 1..Total : \A n \in DOMAIN D!Declared(i) :
                 InList(D!Declared(i)[n].name)
<1>1. project \in DependencyProjects /\ seen = {} /\ evidence = {}
    BY DEF DependencyInv, DependencyTypes
<1>2. ReadSoFar = Total
    BY <1>1, DeclaredTyped DEF ReadSoFar
<1>3. QED
    BY <1>1, <1>2 DEF DependencyInv, Collected

LEMMA DependencyFallBack == ASSUME DependencyInv, D!FallBack PROVE DependencyInv'
<1>1. /\ status = "collecting" /\ todo = <<>> /\ deps = <<>>
      /\ deps' = D!Declared(0)
      /\ status' = IF project.installed = <<>> THEN "SKIPPED" ELSE "judging"
      /\ UNCHANGED <<project, todo, seen, evidence>>
    BY DEF D!FallBack
<1>2. project \in DependencyProjects /\ seen = {} /\ evidence = {}
    BY <1>1, AllListed
<1>3. D!Sources = {0}
  <2>1. \A name : ~InList(name)
      BY <1>1 DEF InList
  <2>2. \A i \in 1..Total : \A n : n \notin DOMAIN D!Declared(i)
      BY <1>1, <2>1, AllListed
  <2>3. QED
      BY <1>2, <2>2, SourcesAre
<1>4. D!Declared(0) \in Seq(Declarations)
    BY <1>2, DeclaredTyped
<1>5. /\ DOMAIN D!Declared(0) = DOMAIN project.installed
      /\ \A n \in DOMAIN D!Declared(0) : D!Declared(0)[n].name = project.installed[n].name
    BY DEF D!Declared
<1>6. /\ \A m, n \in DOMAIN project.installed :
            project.installed[m].name = project.installed[n].name => m = n
    BY <1>2, DependencyAssumption DEF D!IsProject
<1>7. DependencyTypes'
    BY <1>1, <1>2, <1>4 DEF DependencyInv, DependencyTypes
<1>8. /\ \A i : D!Declared(i)' = D!Declared(i)
      /\ D!Sources' = {0}
      /\ \A name, i, n : IsFirst(name, i, n)' = IsFirst(name, i, n)
    BY <1>1, <1>3, DeclaredKept
<1>9. ASSUME NEW n \in DOMAIN D!Declared(0) PROVE IsFirst(D!Declared(0)[n].name, 0, n)
  <2>1. n \in Nat /\ \A m \in DOMAIN D!Declared(0) : m \in Nat
      BY <1>4, <1>9
  <2>2. \A m \in DOMAIN D!Declared(0) : D!Declared(0)[m].name = D!Declared(0)[n].name => n = m
      BY <1>5, <1>6, <1>9
  <2>3. QED
      BY <1>3, <1>9, <2>1, <2>2 DEF IsFirst
<1>10. LeadersAreFirst'
    BY <1>1, <1>8, <1>9 DEF LeadersAreFirst
<1>11. UnseenAreListed'
    BY <1>1, <1>8 DEF UnseenAreListed, InList
<1>12. SeenAreJudged'
    BY <1>1, <1>2 DEF SeenAreJudged
<1>13. project.installed = <<>> => \A n \in DOMAIN D!Declared(0) : FALSE
    BY <1>5
<1>14. JudgedInOrder'
    BY <1>1, <1>8, <1>10, <1>11, <1>12, <1>13 DEF JudgedInOrder
<1>15. Collected'
    BY <1>1 DEF Collected
<1>16. QED
    BY <1>7, <1>14, <1>15 DEF DependencyInv

LEMMA DependencyBegin == ASSUME DependencyInv, D!BeginJudging PROVE DependencyInv'
<1>1. /\ status = "collecting" /\ todo = <<>> /\ deps # <<>> /\ status' = "judging"
      /\ UNCHANGED <<project, todo, deps, seen, evidence>>
    BY DEF D!BeginJudging
<1>2. /\ project \in DependencyProjects /\ seen = {} /\ evidence = {}
      /\ \A i \in 1..Total : \A n \in DOMAIN D!Declared(i) : InList(D!Declared(i)[n].name)
    BY <1>1, AllListed
<1>3. /\ \A i : D!Declared(i)' = D!Declared(i)
      /\ D!Sources' = D!Sources
      /\ \A name, i, n : IsFirst(name, i, n)' = IsFirst(name, i, n)
      /\ \A name : InList(name)' = InList(name)
      /\ \A j : Leads(j)' = Leads(j)
    BY <1>1, DeclaredKept DEF InList, Leads
<1>4. DependencyTypes' /\ Collected'
    BY <1>1 DEF DependencyInv, DependencyTypes, Collected
<1>5. LeadersAreFirst
    BY <1>1 DEF DependencyInv, Collected
<1>6. LeadersAreFirst'
    BY <1>1, <1>3, <1>5 DEF LeadersAreFirst
<1>7. D!Sources \subseteq 1..Total
    BY <1>1 DEF DependencyInv, Collected
<1>8. UnseenAreListed'
    BY <1>2, <1>3, <1>7 DEF UnseenAreListed
<1>9. SeenAreJudged'
    BY <1>1, <1>2 DEF SeenAreJudged
<1>10. JudgedInOrder'
    BY <1>1, <1>6, <1>8, <1>9 DEF JudgedInOrder
<1>11. QED
    BY <1>4, <1>10 DEF DependencyInv

\* The evidence of a declaration is about its package.
LEMMA JudgedIsAbout ==
    ASSUME NEW d, NEW old \in D!OutdatedItems(d)
    PROVE  \A e \in Judged(d) \union old : e.package = d.name
BY DEF Judged, D!DangerousItems, D!AdvisoryItems, D!PinningItems, D!OutdatedItems,
       D!Noted, D!Emitted

LEMMA DependencyJudge == ASSUME DependencyInv, D!Judge PROVE DependencyInv'
<1> DEFINE d == Head(deps)
<1>1. /\ status = "judging" /\ deps # <<>> /\ deps' = Tail(deps)
      /\ UNCHANGED <<project, todo, status>>
    BY DEF D!Judge
<1>2. \/ (d.name = Unnamed \/ d.name \in seen) /\ UNCHANGED <<seen, evidence>>
      \/ /\ d.name # Unnamed /\ d.name \notin seen /\ seen' = seen \union {d.name}
         /\ \E old \in D!OutdatedItems(d) : evidence' = evidence \union Judged(d) \union old
    BY DEF D!Judge, D!Seen, Judged
<1>3. /\ project \in DependencyProjects /\ deps \in Seq(Declarations) /\ seen \subseteq Packages
      /\ LeadersAreFirst /\ SeenAreJudged /\ UnseenAreListed
    BY <1>1 DEF DependencyInv, DependencyTypes, JudgedInOrder
<1>4. Unnamed \notin Packages
    BY DependencyAssumption
<1> DEFINE L == Len(deps)
<1>5. /\ L \in Nat \ {0} /\ d = deps[1] /\ DOMAIN deps = 1..L
      /\ deps' \in Seq(Declarations) /\ DOMAIN deps' = 1..(L - 1)
      /\ \A j \in 1..(L - 1) : deps'[j] = deps[j + 1]
    BY <1>1, <1>3
<1>6. d.name \in Packages \union {Unnamed}
  <2>1. d \in Declarations
      BY <1>3, <1>5
  <2>2. QED
      BY <2>1 DEF Declarations
<1> HIDE DEF d, L
<1>7. /\ \A i : D!Declared(i)' = D!Declared(i)
      /\ D!Sources' = D!Sources
      /\ \A name, i, n : IsFirst(name, i, n)' = IsFirst(name, i, n)
    BY <1>1, DeclaredKept
<1>8. seen \subseteq seen' /\ seen' \subseteq Packages /\ (d.name \in Packages => d.name \in seen')
    BY <1>2, <1>3, <1>4, <1>6
<1>9. DependencyTypes' /\ Collected'
    BY <1>1, <1>3, <1>5, <1>8 DEF DependencyInv, DependencyTypes, Collected
<1>10. LeadersAreFirst'
  <2> SUFFICES ASSUME NEW j \in DOMAIN deps', Leads(j)', deps'[j].name \in Packages \ seen'
               PROVE  \E i \in D!Sources : \E n \in DOMAIN D!Declared(i) :
                          IsFirst(deps'[j].name, i, n) /\ deps'[j] = D!Declared(i)[n]
      BY <1>7 DEF LeadersAreFirst
  <2>1. j + 1 \in DOMAIN deps /\ deps'[j] = deps[j + 1] /\ j \in Nat
      BY <1>5
  <2>2. Leads(j + 1)
    <3>1. ASSUME NEW l \in DOMAIN deps, deps[l].name = deps[j + 1].name PROVE j + 1 <= l
      <4>1. l # 1
          BY <1>5, <1>8, <2>1, <3>1
      <4>2. l - 1 \in DOMAIN deps' /\ deps'[l - 1] = deps[l]
          BY <1>5, <4>1
      <4>3. j <= l - 1
          BY <2>1, <3>1, <4>2 DEF Leads
      <4>4. QED
          BY <1>5, <2>1, <4>3
    <3>2. QED
        BY <3>1 DEF Leads
  <2>3. QED
      BY <1>3, <1>8, <2>1, <2>2 DEF LeadersAreFirst
<1>11. UnseenAreListed'
  <2>1. ASSUME NEW name \in Packages \ seen', InList(name) PROVE InList(name)'
    <3>1. PICK j \in DOMAIN deps : deps[j].name = name
        BY <2>1 DEF InList
    <3>2. j # 1
        BY <1>5, <1>8, <2>1, <3>1
    <3>3. j - 1 \in DOMAIN deps' /\ deps'[j - 1] = deps[j]
        BY <1>5, <3>2
    <3>4. QED
        BY <3>1, <3>3 DEF InList
  <2>2. ASSUME NEW i \in D!Sources, NEW n \in DOMAIN D!Declared(i), NEW name,
               name = D!Declared(i)[n].name, name \in Packages \ seen'
        PROVE  InList(name)'
      BY <1>3, <1>8, <2>1, <2>2 DEF UnseenAreListed
  <2>3. QED
      BY <1>7, <2>2 DEF UnseenAreListed
<1>12. SeenAreJudged'
  <2>1. CASE UNCHANGED <<seen, evidence>>
      BY <1>3, <1>7, <2>1 DEF SeenAreJudged, EvidenceAbout
  <2>2. CASE /\ d.name # Unnamed /\ d.name \notin seen /\ seen' = seen \union {d.name}
             /\ \E old \in D!OutdatedItems(d) : evidence' = evidence \union Judged(d) \union old
    <3>1. PICK old \in D!OutdatedItems(d) : evidence' = evidence \union Judged(d) \union old
        BY <2>2
    <3>2. \A e \in Judged(d) \union old : e.package = d.name
        BY <3>1, JudgedIsAbout
    <3>3. \A e \in evidence : e.package \in seen
        BY <1>3 DEF SeenAreJudged
    <3>4. \E i \in D!Sources : \E n \in DOMAIN D!Declared(i) :
              IsFirst(d.name, i, n) /\ d = D!Declared(i)[n]
      <4>1. 1 \in DOMAIN deps /\ deps[1] = d /\ d.name \in Packages \ seen
          BY <1>5, <1>6, <2>2
      <4>2. Leads(1)
          BY <1>5 DEF Leads
      <4>3. QED
          BY <1>3, <4>1, <4>2 DEF LeadersAreFirst
    <3>5. ASSUME NEW name \in seen'
          PROVE  \E i \in D!Sources : \E n \in DOMAIN D!Declared(i) :
                     /\ IsFirst(name, i, n)
                     /\ \E o \in D!OutdatedItems(D!Declared(i)[n]) :
                           {e \in evidence' : e.package = name} = Judged(D!Declared(i)[n]) \union o
      <4>1. CASE name = d.name
        <5>1. {e \in evidence' : e.package = name} = Judged(d) \union old
            BY <2>2, <3>1, <3>2, <3>3, <4>1
        <5>2. QED
            BY <3>1, <3>4, <4>1, <5>1
      <4>2. CASE name # d.name
        <5>1. {e \in evidence' : e.package = name} = {e \in evidence : e.package = name}
            BY <3>1, <3>2, <4>2
        <5>2. name \in seen
            BY <2>2, <4>2
        <5>3. QED
            BY <1>3, <5>1, <5>2 DEF SeenAreJudged, EvidenceAbout
      <4>3. QED
          BY <4>1, <4>2
    <3>6. \A e \in evidence' : e.package \in seen'
        BY <2>2, <3>1, <3>2, <3>3
    <3>7. QED
        BY <1>7, <3>5, <3>6 DEF SeenAreJudged, EvidenceAbout
  <2>3. QED
      BY <1>2, <2>1, <2>2
<1>13. JudgedInOrder'
    BY <1>1, <1>10, <1>11, <1>12 DEF JudgedInOrder
<1>14. QED
    BY <1>9, <1>13 DEF DependencyInv

LEMMA DependencyNext == ASSUME DependencyInv, [D!Next]_(D!vars) PROVE DependencyInv'
<1>1. CASE D!Finish
  <2>1. /\ status = "judging" /\ deps = <<>> /\ status' = "SUCCESS"
        /\ UNCHANGED <<project, todo, deps, seen, evidence>>
      BY <1>1 DEF D!Finish
  <2>2. /\ \A i : D!Declared(i)' = D!Declared(i)
        /\ D!Sources' = D!Sources
        /\ \A name, i, n : IsFirst(name, i, n)' = IsFirst(name, i, n)
      BY <2>1, DeclaredKept
  <2>3. LeadersAreFirst /\ SeenAreJudged /\ UnseenAreListed
      BY <2>1 DEF DependencyInv, JudgedInOrder
  <2>4. LeadersAreFirst' /\ SeenAreJudged' /\ UnseenAreListed'
      BY <2>1, <2>2, <2>3
         DEF LeadersAreFirst, Leads, SeenAreJudged, EvidenceAbout, UnseenAreListed, InList
  <2>5. QED
      BY <2>1, <2>4 DEF DependencyInv, DependencyTypes, Collected, JudgedInOrder
<1>2. CASE UNCHANGED D!vars
  <2>1. UNCHANGED <<project, todo, deps, seen, evidence, status>>
      BY <1>2 DEF D!vars
  <2>2. /\ \A i : D!Declared(i)' = D!Declared(i)
        /\ D!Sources' = D!Sources /\ Total' = Total /\ ReadSoFar' = ReadSoFar
        /\ \A name, i, n : IsFirst(name, i, n)' = IsFirst(name, i, n)
      BY <2>1, DeclaredKept DEF ReadSoFar
  <2>3. /\ LeadersAreFirst => LeadersAreFirst'
        /\ SeenAreJudged => SeenAreJudged'
        /\ UnseenAreListed => UnseenAreListed'
        /\ \A name : InList(name)' = InList(name)
      BY <2>1, <2>2 DEF LeadersAreFirst, Leads, SeenAreJudged, EvidenceAbout, UnseenAreListed, InList
  <2>4. DependencyTypes'
      BY <2>1 DEF DependencyInv, DependencyTypes
  <2>5. Collected'
      BY <2>1, <2>2, <2>3 DEF DependencyInv, Collected
  <2>6. JudgedInOrder'
      BY <2>1, <2>2, <2>3 DEF DependencyInv, JudgedInOrder
  <2>7. QED
      BY <2>4, <2>5, <2>6 DEF DependencyInv
<1>3. CASE D!ParserRaises
  <2>1. /\ status = "collecting" /\ status' = "FAILED"
        /\ UNCHANGED <<project, todo, deps, seen, evidence>>
      BY <1>3 DEF D!ParserRaises
  <2>2. QED
      BY <2>1 DEF DependencyInv, DependencyTypes, Collected, JudgedInOrder
<1>4. QED
    BY <1>1, <1>2, <1>3, DependencyStart, DependencyRead, DependencyFallBack, DependencyBegin,
       DependencyJudge DEF D!Next

\* What is judged of a declaration follows from its specifier.
LEMMA JudgedSays ==
    ASSUME NEW d, d.spec \in D!Specs
    PROVE  /\ (\E e \in Judged(d) : e.rule = "DEP-CVE-001" /\ e.polarity = "vuln") <=>
                 d.name \in Advised /\ d.spec = "affected"
           /\ (\E e \in Judged(d) : e.rule = "DEP-PIN-001" /\ e.polarity = "ok") <=>
                 d.spec \in D!Exact
           /\ (\E e \in Judged(d) : e.rule = "DEP-PIN-001" /\ e.polarity = "vuln") <=>
                 d.spec = "floating"
           /\ \A e \in Judged(d) : e.polarity = "vuln" => e.manifest = d.manifest
<1> DEFINE cve    == D!Emitted(d, "DEP-CVE-001", "vuln")
           note   == D!Noted(d, "DEP-CVE-001", "info")
           pinned == D!Noted(d, "DEP-PIN-001", "ok")
           loose  == D!Emitted(d, "DEP-PIN-001", "vuln")
           danger == D!Emitted(d, "DEP-DANGEROUS-001", "vuln")
<1>1. /\ cve.rule = "DEP-CVE-001" /\ cve.polarity = "vuln" /\ cve.manifest = d.manifest
      /\ note.rule = "DEP-CVE-001" /\ note.polarity = "info"
      /\ pinned.rule = "DEP-PIN-001" /\ pinned.polarity = "ok"
      /\ loose.rule = "DEP-PIN-001" /\ loose.polarity = "vuln" /\ loose.manifest = d.manifest
      /\ danger.rule = "DEP-DANGEROUS-001" /\ danger.polarity = "vuln"
      /\ danger.manifest = d.manifest
    BY DEF D!Emitted, D!Noted
<1>2. \A e : e \in D!DangerousItems(d) <=> d.name \in Dangerous /\ e = danger
    BY DEF D!DangerousItems
<1>3. \A e : e \in D!AdvisoryItems(d) <=>
          \/ d.name \in Advised /\ d.spec = "affected" /\ e = cve
          \/ d.name \in Advised /\ d.spec \notin D!Exact /\ e = note
  <2>1. "affected" \in D!Exact
      BY DEF D!Exact
  <2>2. D!AdvisoryItems(d) = IF d.name \notin Advised THEN {}
                             ELSE IF d.spec = "affected" THEN {cve}
                             ELSE IF d.spec \notin D!Exact THEN {note} ELSE {}
      BY <2>1 DEF D!AdvisoryItems
  <2>3. QED
      BY <2>1, <2>2
<1>4. \A e : e \in D!PinningItems(d) <=>
          \/ d.spec \in D!Exact /\ e = pinned
          \/ d.spec = "floating" /\ e = loose
    BY DEF D!PinningItems, D!Exact, D!Specs
<1> HIDE DEF cve, note, pinned, loose, danger
<1>5. \A e : e \in Judged(d) <=>
          \/ d.name \in Dangerous /\ e = danger
          \/ d.name \in Advised /\ d.spec = "affected" /\ e = cve
          \/ d.name \in Advised /\ d.spec \notin D!Exact /\ e = note
          \/ d.spec \in D!Exact /\ e = pinned
          \/ d.spec = "floating" /\ e = loose
    BY <1>2, <1>3, <1>4 DEF Judged
<1>6. QED
    BY <1>1, <1>5

LEMMA FirstDecides == ASSUME DependencyInv PROVE D!FirstDeclarationDecides
<1>1. ASSUME NEW name \in Packages, NEW i \in D!Sources, NEW n \in DOMAIN D!Declared(i),
             D!Declared(i)[n].name = name
      PROVE  D!Places(name) # {}
  <2>1. <<i, n>> \in D!Places(name)
      BY <1>1, PlacesAre
  <2>2. QED
      BY <2>1
<1>2. ASSUME NEW name \in Packages, D!Places(name) # {}
      PROVE  \E i \in D!Sources : \E n \in DOMAIN D!Declared(i) : D!Declared(i)[n].name = name
  <2>1. PICK a : a \in D!Places(name)
      BY <1>2
  <2>2. QED
      BY <2>1, PlacesAre
<1>3. ASSUME status = "SKIPPED", NEW name \in Packages PROVE D!Places(name) = {}
    BY <1>2, <1>3 DEF DependencyInv, JudgedInOrder
<1>4. ASSUME status = "SUCCESS", NEW name \in Packages, D!Places(name) # {}
      PROVE  LET d == D!Deciding(name)
             IN  /\ D!About(name, "DEP-CVE-001", "vuln") # {} <=>
                       name \in Advised /\ d.spec = "affected"
                 /\ D!About(name, "DEP-PIN-001", "ok") # {} <=> d.spec \in D!Exact
                 /\ D!About(name, "DEP-PIN-001", "vuln") # {} <=> d.spec = "floating"
                 /\ \A e \in evidence :
                       e.package = name /\ e.polarity = "vuln" => e.manifest = d.manifest
  <2>1. /\ project \in DependencyProjects /\ deps = <<>>
        /\ SeenAreJudged /\ UnseenAreListed
      BY <1>4 DEF DependencyInv, DependencyTypes, JudgedInOrder
  <2>2. name \in seen
      BY <1>2, <1>4, <2>1 DEF UnseenAreListed, InList
  <2>3. PICK i \in D!Sources : \E n \in DOMAIN D!Declared(i) :
            /\ IsFirst(name, i, n)
            /\ \E old \in D!OutdatedItems(D!Declared(i)[n]) :
                  EvidenceAbout(name) = Judged(D!Declared(i)[n]) \union old
      BY <2>1, <2>2 DEF SeenAreJudged
  <2>4. PICK n \in DOMAIN D!Declared(i) :
            /\ IsFirst(name, i, n)
            /\ \E old \in D!OutdatedItems(D!Declared(i)[n]) :
                  EvidenceAbout(name) = Judged(D!Declared(i)[n]) \union old
      BY <2>3
  <2> DEFINE d == D!Declared(i)[n]
  <2>5. d \in Declarations
    <3>1. i \in 0..Total /\ D!Declared(i) \in Seq(Declarations)
        BY <2>1, DeclaredTyped
    <3>2. QED
        BY <3>1
  <2>6. d.name = name /\ d.manifest = i
      BY <2>4 DEF IsFirst, D!Declared
  <2>7. D!Deciding(name) = [manifest |-> i, spec |-> d.spec]
      BY <2>1, <2>4, FirstIsOne
  <2>8. PICK old \in D!OutdatedItems(d) : EvidenceAbout(name) = Judged(d) \union old
      BY <2>4
  <2> HIDE DEF d
  <2>9. d.spec \in D!Specs
      BY <2>5 DEF Declarations
  <2>10. \A e \in old : e.polarity = "info"
      BY <2>8 DEF D!OutdatedItems, D!Emitted
  <2>11. /\ (\E e \in Judged(d) : e.rule = "DEP-CVE-001" /\ e.polarity = "vuln") <=>
                name \in Advised /\ d.spec = "affected"
         /\ (\E e \in Judged(d) : e.rule = "DEP-PIN-001" /\ e.polarity = "ok") <=>
                d.spec \in D!Exact
         /\ (\E e \in Judged(d) : e.rule = "DEP-PIN-001" /\ e.polarity = "vuln") <=>
                d.spec = "floating"
         /\ \A e \in Judged(d) : e.polarity = "vuln" => e.manifest = i
      BY <2>6, <2>9, JudgedSays
  <2>12. \A e : e \in EvidenceAbout(name) <=> e \in evidence /\ e.package = name
      BY DEF EvidenceAbout
  <2>13. /\ D!About(name, "DEP-CVE-001", "vuln") # {} <=>
                name \in Advised /\ d.spec = "affected"
         /\ D!About(name, "DEP-PIN-001", "ok") # {} <=> d.spec \in D!Exact
         /\ D!About(name, "DEP-PIN-001", "vuln") # {} <=> d.spec = "floating"
      BY <2>8, <2>10, <2>11, <2>12 DEF D!About
  <2>14. \A e \in evidence :
             e.package = name /\ e.polarity = "vuln" => e.manifest = i
      BY <2>8, <2>10, <2>11, <2>12
  <2>15. QED
      BY <2>7, <2>13, <2>14
<1>5. QED
    BY <1>3, <1>4 DEF D!FirstDeclarationDecides

-----------------------------------------------------------------------------
(* The settings scanner *)

\* Module i has been read, and assigns the setting.
Assigns(i, s) ==
    /\ i \in DOMAIN project.modules \ unread
    /\ S!Module(i).state = "intact" /\ s \in DOMAIN S!Module(i).assigns

\* What is known of a setting comes from the last module read that assigns it.
LatestWins ==
    /\ DOMAIN values = DOMAIN origin
    /\ \A i \in DOMAIN project.modules : \A s :
          Assigns(i, s) => s \in DOMAIN origin /\ S!ReadBefore(i, origin[s])
    /\ \A s \in DOMAIN origin :
          Assigns(origin[s], s) /\ values[s] = S!Module(origin[s]).assigns[s]

\* The modules that have been read come before the others.
InOrder ==
    /\ unread \subseteq DOMAIN project.modules
    /\ \A i \in DOMAIN project.modules \ unread : \A j \in unread : S!ReadBefore(i, j)

SettingsInv ==
    /\ status = "idle" => values = <<>> /\ origin = <<>>
    /\ status # "idle" => project \in SettingsProjects
    /\ status \in {"reading", "SUCCESS"} => LatestWins /\ InOrder
    /\ status = "SUCCESS" =>
          /\ unread = {}
          /\ evidence = {[check |-> c, polarity |-> S!Polarity(c), file |-> S!File(c)] :
                           c \in {d \in S!CHECKS : S!Polarity(d) # "none"}}

LEMMA ModulesTyped ==
    ASSUME project \in SettingsProjects
    PROVE  /\ DOMAIN project.modules \subseteq Nat \ {0}
           /\ \A i \in DOMAIN project.modules :
                 S!Module(i).state \in S!ModuleStates /\ S!Module(i).weight \in 0..2
BY SettingsAssumption DEF S!IsProject, S!Module

\* There is always a module to be read next.
LEMMA NextIsFirst ==
    ASSUME project \in SettingsProjects, unread \subseteq DOMAIN project.modules, unread # {}
    PROVE  S!NextModule \in unread /\ \A j \in unread : S!ReadBefore(S!NextModule, j)
<1> DEFINE Of(w) == {i \in unread : S!Module(i).weight = w}
<1>1. \A i \in unread : i \in Nat /\ S!Module(i).weight \in {0, 1, 2}
    BY ModulesTyped
<1>2. PICK w \in {0, 1, 2} : Of(w) # {} /\ \A v \in {0, 1, 2} : v < w => Of(v) = {}
  <2>1. Of(0) # {} \/ Of(1) # {} \/ Of(2) # {}
      BY <1>1
  <2> HIDE DEF Of
  <2>2. QED
      BY <2>1
<1>3. PICK n \in Of(w) : \A m \in Of(w) : n <= m
  <2>1. Of(w) \in SUBSET Nat
      BY <1>1
  <2> HIDE DEF Of
  <2>2. QED
      BY <1>2, <2>1, Least
<1>4. ASSUME NEW j \in unread PROVE S!ReadBefore(n, j)
  <2>1. S!Module(j).weight \in {0, 1, 2} /\ ~(S!Module(j).weight < w)
      BY <1>1, <1>2
  <2>2. QED
      BY <1>2, <1>3, <2>1 DEF S!ReadBefore
<1>5. QED
    BY <1>3, <1>4 DEF S!NextModule

LEMMA ReadBeforeTransitive ==
    ASSUME project \in SettingsProjects,
           NEW i \in DOMAIN project.modules, NEW j \in DOMAIN project.modules,
           NEW k \in DOMAIN project.modules, S!ReadBefore(i, j), S!ReadBefore(j, k)
    PROVE  S!ReadBefore(i, k)
<1>1. i \in Nat /\ j \in Nat /\ k \in Nat
      /\ S!Module(i).weight \in Nat /\ S!Module(j).weight \in Nat /\ S!Module(k).weight \in Nat
    BY ModulesTyped
<1>2. QED
    BY <1>1 DEF S!ReadBefore

LEMMA SettingsInit == ASSUME S!Init PROVE SettingsInv
BY DEF S!Init, SettingsInv, S!Nothing

LEMMA SettingsNext == ASSUME SettingsInv, [S!Next]_(S!vars) PROVE SettingsInv'
<1>1. CASE S!Start
  <2>1. PICK p \in SettingsProjects :
            /\ project' = p /\ unread' = DOMAIN p.modules
            /\ status' \in {"SKIPPED", "reading"}
      BY <1>1 DEF S!Start
  <2>2. values' = <<>> /\ origin' = <<>>
      BY <1>1 DEF S!Start, SettingsInv
  <2>3. LatestWins'
      BY <2>1, <2>2 DEF LatestWins, Assigns
  <2>4. InOrder'
      BY <2>1 DEF InOrder
  <2>5. QED
      BY <2>1, <2>3, <2>4 DEF SettingsInv
<1>2. CASE S!ReadModule
  <2> DEFINE i == S!NextModule
             m == S!Module(i)
  <2>1. /\ status = "reading" /\ unread # {} /\ unread' = unread \ {i}
        /\ \/ m.state = "raises" /\ status' = "FAILED"
           \/ m.state = "syntax" /\ UNCHANGED <<values, origin, status>>
           \/ /\ m.state = "intact" /\ UNCHANGED status
              /\ values' = S!Set(values, m.assigns)
              /\ origin' = S!Set(origin, [s \in DOMAIN m.assigns |-> i])
        /\ UNCHANGED <<project, evidence>>
    <3>1. status = "reading" /\ unread # {} /\ unread' = unread \ {i}
          /\ UNCHANGED <<project, evidence>>
        BY <1>2 DEF S!ReadModule
    <3>2. m.state \in {"raises", "syntax", "intact"}
        BY <3>1, ModulesTyped, NextIsFirst DEF SettingsInv, InOrder, S!ModuleStates
    <3>3. QED
        BY <1>2, <3>1, <3>2 DEF S!ReadModule
  <2>2. project \in SettingsProjects /\ LatestWins /\ InOrder
      BY <2>1 DEF SettingsInv
  <2>3. i \in unread /\ \A j \in unread : S!ReadBefore(i, j)
      BY <2>1, <2>2, NextIsFirst DEF InOrder
  <2> HIDE DEF i
  <2>4. /\ \A k : S!Module(k)' = S!Module(k)
        /\ \A j, k : S!ReadBefore(j, k)' = S!ReadBefore(j, k)
        /\ DOMAIN project'.modules = DOMAIN project.modules
      BY <2>1 DEF S!Module, S!ReadBefore
  <2>5. /\ i \in DOMAIN project.modules
        /\ \A k : k \in DOMAIN project.modules \ unread' <=>
                      k = i \/ k \in DOMAIN project.modules \ unread
      BY <2>1, <2>2, <2>3 DEF InOrder
  <2>6. InOrder'
      BY <2>1, <2>2, <2>3, <2>4, <2>5 DEF InOrder
  <2>7. \A k, s : Assigns(k, s)' <=>
            Assigns(k, s) \/ (k = i /\ m.state = "intact" /\ s \in DOMAIN m.assigns)
      BY <2>4, <2>5 DEF Assigns
  <2>8. ASSUME m.state = "syntax", UNCHANGED <<values, origin>> PROVE LatestWins'
    <3>1. \A k, s : Assigns(k, s)' <=> Assigns(k, s)
        BY <2>7, <2>8
    <3>2. QED
        BY <2>2, <2>4, <2>8, <3>1 DEF LatestWins
  <2>9. ASSUME /\ m.state = "intact"
               /\ values' = S!Set(values, m.assigns)
               /\ origin' = S!Set(origin, [s \in DOMAIN m.assigns |-> i])
        PROVE  LatestWins'
    <3> DEFINE new == DOMAIN m.assigns
    <3>1. /\ DOMAIN values' = DOMAIN values \union new
          /\ DOMAIN origin' = DOMAIN origin \union new
          /\ \A s \in new : values'[s] = m.assigns[s] /\ origin'[s] = i
          /\ \A s \in DOMAIN values \ new : values'[s] = values[s]
          /\ \A s \in DOMAIN origin \ new : origin'[s] = origin[s]
        BY <2>9 DEF S!Set
    <3>2. DOMAIN values' = DOMAIN origin'
        BY <2>2, <3>1 DEF LatestWins
    <3>3. ASSUME NEW k \in DOMAIN project.modules, NEW s, Assigns(k, s)'
          PROVE  s \in DOMAIN origin' /\ S!ReadBefore(k, origin'[s])
      <4>1. CASE k = i
        <5>1. s \in new \/ Assigns(k, s)
            BY <2>7, <3>3
        <5>2. ~Assigns(i, s)
            BY <2>3 DEF Assigns
        <5>3. S!ReadBefore(i, i)
            BY <2>3
        <5>4. QED
            BY <3>1, <4>1, <5>1, <5>2, <5>3
      <4>2. CASE k # i
        <5>1. Assigns(k, s)
            BY <2>7, <3>3, <4>2
        <5>2. s \in DOMAIN origin /\ S!ReadBefore(k, origin[s])
            BY <2>2, <5>1 DEF LatestWins
        <5>3. S!ReadBefore(k, i)
            BY <2>2, <2>3, <5>1 DEF InOrder, Assigns
        <5>4. QED
            BY <3>1, <5>2, <5>3
      <4>3. QED
          BY <4>1, <4>2
    <3>4. ASSUME NEW s \in DOMAIN origin', NEW k, k = origin'[s]
          PROVE  Assigns(k, s)' /\ values'[s] = S!Module(k).assigns[s]
      <4>1. CASE s \in new
          BY <2>7, <2>9, <3>1, <3>4, <4>1
      <4>2. CASE s \notin new
        <5>1. /\ s \in DOMAIN origin /\ s \in DOMAIN values
              /\ Assigns(origin[s], s) /\ values[s] = S!Module(origin[s]).assigns[s]
            BY <2>2, <3>1, <4>2 DEF LatestWins
        <5>2. QED
            BY <2>7, <3>1, <3>4, <4>2, <5>1
      <4>3. QED
          BY <4>1, <4>2
    <3>5. QED
        BY <2>4, <3>2, <3>3, <3>4 DEF LatestWins
  <2>10. QED
      BY <2>1, <2>2, <2>6, <2>8, <2>9 DEF SettingsInv
<1>3. CASE S!RunChecks
  <2>1. /\ status = "reading" /\ unread = {} /\ status' = "SUCCESS"
        /\ evidence' = {[check |-> c, polarity |-> S!Polarity(c), file |-> S!File(c)] :
                           c \in {d \in S!CHECKS : S!Polarity(d) # "none"}}
        /\ UNCHANGED <<project, unread, values, origin>>
      BY <1>3 DEF S!RunChecks
  <2>2. /\ \A c : S!Polarity(c)' = S!Polarity(c)
        /\ \A c : S!File(c)' = S!File(c)
      BY <2>1 DEF S!Polarity, S!val, S!Matched, S!File
  <2>3. LatestWins' /\ InOrder'
      BY <2>1 DEF SettingsInv, LatestWins, InOrder, Assigns, S!Module, S!ReadBefore
  <2>4. evidence' = {[check |-> c, polarity |-> S!Polarity(c)', file |-> S!File(c)'] :
                           c \in {d \in S!CHECKS : S!Polarity(d)' # "none"}}
      BY <2>1, <2>2
  <2>5. QED
      BY <2>1, <2>3, <2>4 DEF SettingsInv
<1>4. CASE UNCHANGED S!vars
  <2>1. UNCHANGED <<project, unread, values, origin, evidence, status>>
      BY <1>4 DEF S!vars
  <2>2. /\ \A c : S!Polarity(c)' = S!Polarity(c)
        /\ \A c : S!File(c)' = S!File(c)
      BY <2>1 DEF S!Polarity, S!val, S!Matched, S!File
  <2>3. (LatestWins <=> LatestWins') /\ (InOrder <=> InOrder')
      BY <2>1 DEF LatestWins, InOrder, Assigns, S!Module, S!ReadBefore
  <2>4. QED
      BY <2>1, <2>2, <2>3 DEF SettingsInv
<1>5. QED
    BY <1>1, <1>2, <1>3, <1>4 DEF S!Next

\* The deciding module is the one a setting was last assigned by.
LEMMA DecidingIsLatest ==
    ASSUME SettingsInv, status = "SUCCESS", NEW s, S!Deciding(s) # 0
    PROVE  s \in DOMAIN origin /\ S!Deciding(s) = origin[s]
<1> DEFINE Assigning(w) == {i \in DOMAIN project.modules :
                S!Module(i).weight = w /\ S!Module(i).state = "intact"
                    /\ s \in DOMAIN S!Module(i).assigns}
           Last(is) == CHOOSE i \in is : \A j \in is : j <= i
<1>1. project \in SettingsProjects /\ unread = {} /\ LatestWins
    BY DEF SettingsInv
<1>2. \A i : Assigns(i, s) <=> i \in DOMAIN project.modules /\ S!Module(i).state = "intact"
                                   /\ s \in DOMAIN S!Module(i).assigns
    BY <1>1 DEF Assigns
<1>3. S!Deciding(s) = IF Assigning(2) # {} THEN Last(Assigning(2))
                      ELSE IF Assigning(1) # {} THEN Last(Assigning(1)) ELSE 0
    BY DEF S!Deciding
<1>4. ASSUME NEW w \in {1, 2}, Assigning(w) # {}, w = 1 => Assigning(2) = {}
      PROVE  s \in DOMAIN origin /\ Last(Assigning(w)) = origin[s]
  <2>1. PICK k \in Assigning(w) : TRUE
      BY <1>4
  <2>2. s \in DOMAIN origin /\ Assigns(origin[s], s) /\ S!ReadBefore(k, origin[s])
      BY <1>1, <1>2, <2>1 DEF LatestWins
  <2>3. S!Module(k).weight = w /\ S!Module(origin[s]).weight \in 0..2
      BY <1>1, <1>2, <2>1, <2>2, ModulesTyped
  <2>4. S!Module(origin[s]).weight = w
    <3>1. S!Module(origin[s]).weight >= w
        BY <2>2, <2>3 DEF S!ReadBefore
    <3>2. CASE w = 2
        BY <2>3, <3>1, <3>2
    <3>3. CASE w = 1
      <4>1. origin[s] \notin Assigning(2)
          BY <1>4, <3>3
      <4>2. S!Module(origin[s]).weight # 2
          BY <1>2, <2>2, <4>1
      <4>3. QED
          BY <2>3, <3>1, <3>3, <4>2
    <3>4. QED
        BY <3>2, <3>3
  <2>5. origin[s] \in Assigning(w)
      BY <1>2, <2>2, <2>4
  <2>6. ASSUME NEW j \in Assigning(w) PROVE j <= origin[s] /\ j \in Nat
    <3>1. j \in DOMAIN project.modules /\ Assigns(j, s) /\ S!Module(j).weight = w
        BY <1>2, <2>6
    <3>2. S!ReadBefore(j, origin[s])
        BY <1>1, <3>1 DEF LatestWins
    <3>3. QED
        BY <1>1, <2>4, <3>1, <3>2, ModulesTyped DEF S!ReadBefore
  <2> HIDE DEF Assigning
  <2>7. ASSUME NEW i \in Assigning(w), \A j \in Assigning(w) : j <= i PROVE i = origin[s]
      BY <2>5, <2>6, <2>7
  <2>8. QED
      BY <2>2, <2>5, <2>6, <2>7
<1> HIDE DEF Assigning, Last
<1>5. CASE Assigning(2) # {}
    BY <1>3, <1>4, <1>5
<1>6. CASE Assigning(2) = {} /\ Assigning(1) # {}
    BY <1>3, <1>4, <1>6
<1>7. QED
    BY <1>3, <1>5, <1>6

LEMMA LatestDecides == ASSUME SettingsInv PROVE S!ProductionDecides
<1> SUFFICES ASSUME status = "SUCCESS", NEW e \in evidence, NEW s, s = e.check.setting,
                    S!Deciding(s) # 0
             PROVE  /\ S!val(s) = S!Module(S!Deciding(s)).assigns[s]
                    /\ e.check.place = s => e.file = S!Deciding(s)
    BY DEF S!ProductionDecides
<1>1. s \in DOMAIN origin /\ S!Deciding(s) = origin[s]
    BY DecidingIsLatest
<1>2. s \in DOMAIN values /\ values[s] = S!Module(origin[s]).assigns[s]
    BY <1>1 DEF SettingsInv, LatestWins
<1>3. PICK c \in S!CHECKS : e = [check |-> c, polarity |-> S!Polarity(c), file |-> S!File(c)]
    BY DEF SettingsInv
<1>4. c.setting = s /\ e.file = S!File(c) /\ e.check = c
    BY <1>3
<1>5. c.place = s => S!File(c) = origin[s]
    BY <1>1, <1>4 DEF S!File
<1>6. QED
    BY <1>1, <1>2, <1>4, <1>5 DEF S!val

\* The checks that report find the insecure values of their settings.
LEMMA InsecureIsMatched ==
    ASSUME NEW c \in S!CHECKS, c.id \notin S!NeverReport
    PROVE  /\ S!Insecure(c.setting) \subseteq c.vuln
           /\ c.setting \in {"SESSION_COOKIE_SECURE", "CSRF_COOKIE_SECURE", "SECURE_SSL_REDIRECT",
                             "ALLOWED_HOSTS", "SECURE_HSTS_SECONDS", "AUTH_PASSWORD_VALIDATORS"}
                 => "missing" \in c.vuln
           /\ "safe" \notin S!Insecure(c.setting)
           /\ c.setting = "REST_FRAMEWORK" => S!Insecure(c.setting) = {"weak"}
<1>1. CASE c \in S!TRANSPORT_CHECKS
    BY <1>1 DEF S!TRANSPORT_CHECKS, S!Flag, S!Check, S!Insecure, S!Not, S!Values, S!NeverReport
<1>2. CASE c \in S!POLICY_CHECKS
    BY <1>2 DEF S!POLICY_CHECKS, S!Flag, S!Check, S!Insecure, S!Not, S!Values, S!NeverReport
<1>3. CASE c \in S!DRF_CHECKS
    BY <1>3 DEF S!DRF_CHECKS, S!DrfCheck, S!Check, S!Insecure, S!Not, S!Values, S!NeverReport
<1>4. QED
    BY <1>1, <1>2, <1>3 DEF S!CHECKS

LEMMA InsecureAreReported == ASSUME SettingsInv PROVE S!InsecureIsReported
<1> SUFFICES ASSUME status = "SUCCESS", NEW c \in S!CHECKS,
                    S!Effective(c.setting) \in S!Insecure(c.setting),
                    ~(c.id = "CFG-ALLOWED-HOSTS" /\ S!val("DEBUG") = "true"),
                    c.id \notin S!NeverReport
             PROVE  \E e \in evidence : e.check.req = c.req /\ e.polarity = "vuln"
    BY DEF S!InsecureIsReported
<1> DEFINE v == S!val(c.setting)
<1>1. v \in c.vuln
  <2>1. CASE v # "missing"
      BY <2>1, InsecureIsMatched DEF S!Effective
  <2>2. CASE v = "missing"
      BY <2>2, InsecureIsMatched DEF S!Effective
  <2>3. QED
      BY <2>1, <2>2
<1>2. c.setting = "REST_FRAMEWORK" => v = "weak"
    BY InsecureIsMatched DEF S!Effective
<1>3. S!Polarity(c) = "vuln"
    BY <1>1, <1>2 DEF S!Polarity, S!Matched
<1> DEFINE e == [check |-> c, polarity |-> S!Polarity(c), file |-> S!File(c)]
<1>4. e \in evidence /\ e.check = c /\ e.polarity = "vuln"
    BY <1>3 DEF SettingsInv
<1>5. QED
    BY <1>4

-----------------------------------------------------------------------------
(* The probes and tests *)

\* What the tables of the probes have in common.
IsProbe(p) ==
    /\ p.source \in {"dast", "automated"}
    /\ p.kind = "liveness" => p.vuln = {}
    /\ p.kind \in {"throttled", "burst"} => p.requests = "burst"
    /\ p.kind = "session" => p.source = "automated"

LEMMA ProbesAre ==
    /\ Len(DAST_PROBES) = 12 /\ Len(ALL_TESTS) = 10
    /\ \A i \in 1..12 : IsProbe(DAST_PROBES[i]) /\ DAST_PROBES[i].source = "dast"
    /\ \A i \in 1..10 : IsProbe(ALL_TESTS[i]) /\ ALL_TESTS[i].source = "automated"
    /\ DAST_PROBES[1].kind = "liveness" /\ DAST_PROBES[1].requests = "one"
<1>1. /\ Len(DAST_PROBES) = 12
      /\ \A i \in 1..12 : IsProbe(DAST_PROBES[i]) /\ DAST_PROBES[i].source = "dast"
      /\ DAST_PROBES[1].kind = "liveness" /\ DAST_PROBES[1].requests = "one"
    BY DEF DAST_PROBES, Probe, IsProbe
<1>2. /\ Len(ALL_TESTS) = 10
      /\ \A i \in 1..10 : IsProbe(ALL_TESTS[i]) /\ ALL_TESTS[i].source = "automated"
    BY DEF ALL_TESTS, Probe, IsProbe
<1>3. QED
    BY <1>1, <1>2

LEMMA Concatenated ==
    ASSUME NEW T, NEW s \in Seq(T), NEW t \in Seq(T)
    PROVE  /\ DOMAIN (s \o t) = 1..(Len(s) + Len(t))
           /\ \A i \in DOMAIN (s \o t) :
                 (s \o t)[i] = IF i <= Len(s) THEN s[i] ELSE t[i - Len(s)]
OBVIOUS

\* The plan begins with the liveness probe, and after a test come only tests.
LEMMA PlanIs ==
    /\ Len(Plan) \in Nat \ {0} /\ DOMAIN Plan = 1..Len(Plan)
    /\ \A i \in DOMAIN Plan : IsProbe(Plan[i])
    /\ Plan[1].kind = "liveness" /\ Plan[1].requests = "one" /\ Plan[1].source = "dast"
    /\ \A i, j \in DOMAIN Plan : Plan[i].source = "automated" /\ i < j => Plan[j].source = "automated"
<1>1. /\ \A i \in 1..12 : PROBES[i] = DAST_PROBES[i]
      /\ \A i \in 13..22 : PROBES[i] = ALL_TESTS[i - 12]
      /\ DOMAIN PROBES = 1..22
  <2> DEFINE T == {DAST_PROBES[i] : i \in 1..12} \union {ALL_TESTS[i] : i \in 1..10}
  <2>1. DAST_PROBES \in Seq(T)
    <3>1. \A i \in 1..12 : DAST_PROBES[i] \in T
        OBVIOUS
    <3> HIDE DEF T
    <3>2. QED
        BY <3>1 DEF DAST_PROBES
  <2>2. ALL_TESTS \in Seq(T)
    <3>1. \A i \in 1..10 : ALL_TESTS[i] \in T
        OBVIOUS
    <3> HIDE DEF T
    <3>2. QED
        BY <3>1 DEF ALL_TESTS
  <2> HIDE DEF T
  <2>3. /\ Len(DAST_PROBES) = 12 /\ Len(ALL_TESTS) = 10
      BY ProbesAre
  <2>4. /\ DOMAIN PROBES = 1..22
        /\ \A i \in 1..22 : PROBES[i] = IF i <= 12 THEN DAST_PROBES[i] ELSE ALL_TESTS[i - 12]
    <3> DEFINE u == DAST_PROBES \o ALL_TESTS
    <3>1. /\ DOMAIN u = 1..(Len(DAST_PROBES) + Len(ALL_TESTS))
          /\ \A i \in DOMAIN u :
                u[i] = IF i <= Len(DAST_PROBES) THEN DAST_PROBES[i]
                                                ELSE ALL_TESTS[i - Len(DAST_PROBES)]
        BY ONLY <2>1, <2>2, Concatenated
    <3>2. PROBES = u
        BY DEF PROBES
    <3> HIDE DEF u
    <3>3. QED
        BY <2>3, <3>1, <3>2
  <2>5. (\A i \in 1..12 : i \in 1..22 /\ i <= 12) /\ \A i \in 13..22 : i \in 1..22 /\ ~(i <= 12)
      OBVIOUS
  <2>6. QED
      BY <2>4, <2>5
<1>2. /\ \A i \in DOMAIN PROBES : IsProbe(PROBES[i])
      /\ \A i \in DOMAIN PROBES : PROBES[i].source = "automated" <=> i > 12
  <2>1. \A i \in 13..22 : i - 12 \in 1..10
      OBVIOUS
  <2>2. ASSUME NEW i \in 1..22
        PROVE  IsProbe(PROBES[i]) /\ (PROBES[i].source = "automated" <=> i > 12)
    <3>1. CASE i <= 12
      <4>1. i \in 1..12
          BY <3>1
      <4>2. QED
          BY <1>1, <3>1, <4>1, ProbesAre
    <3>2. CASE i > 12
      <4>1. i \in 13..22 /\ i - 12 \in 1..10
          BY <3>2
      <4>2. QED
          BY <1>1, <3>2, <4>1, ProbesAre
    <3>3. QED
        BY <3>1, <3>2
  <2>3. QED
      BY <1>1, <2>2
<1>3. /\ Suite \in Seq(DOMAIN PROBES) /\ Suite # <<>> /\ Suite[1] = 1
      /\ \A i, j \in DOMAIN Suite : i < j => Suite[i] < Suite[j]
    BY SuiteAssumption
<1>4. /\ Len(Suite) \in Nat \ {0} /\ DOMAIN Suite = 1..Len(Suite)
      /\ \A i \in DOMAIN Suite : Suite[i] \in DOMAIN PROBES
    BY <1>3
<1>5. /\ DOMAIN Plan = 1..Len(Suite) /\ Len(Plan) = Len(Suite)
      /\ \A i \in DOMAIN Plan : Plan[i] = PROBES[Suite[i]]
    BY <1>4 DEF Plan
<1>6. Plan[1] = DAST_PROBES[1]
  <2>1. 1 \in DOMAIN Plan /\ 1 \in 1..12
      BY <1>4, <1>5
  <2>2. Plan[1] = PROBES[Suite[1]] /\ Suite[1] = 1
      BY <1>3, <1>5, <2>1
  <2>3. PROBES[1] = DAST_PROBES[1]
      BY <1>1, <2>1
  <2>4. QED
      BY <2>2, <2>3
<1>7. ASSUME NEW i \in DOMAIN Plan, NEW j \in DOMAIN Plan, Plan[i].source = "automated", i < j
      PROVE  Plan[j].source = "automated"
  <2>1. Suite[i] < Suite[j] /\ Suite[i] \in 1..22 /\ Suite[j] \in 1..22
      BY <1>1, <1>3, <1>4, <1>5, <1>7
  <2>2. Suite[i] > 12
      BY <1>1, <1>2, <1>5, <1>7, <2>1
  <2>3. Suite[j] > 12
      BY <2>1, <2>2
  <2>4. j \in DOMAIN Suite
      BY <1>4, <1>5
  <2>5. Suite[j] \in DOMAIN PROBES
      BY <1>4, <2>4
  <2>6. PROBES[Suite[j]].source = "automated"
      BY <1>2, <2>3, <2>5
  <2>7. QED
      BY <1>5, <2>6
<1>8. QED
    BY <1>2, <1>4, <1>5, <1>6, <1>7, ProbesAre

\* The answers heard are those to the requests of the current probe.
HeardIsCurrent ==
    /\ at \in Nat \ {0} /\ sent \in Nat
    /\ ~Done =>
          /\ sent = 0 <=> heard = {}
          /\ heard # {} => Requests # 0 /\ ~NeedsSession
          /\ (\E a \in heard : a # "none") => probe.name \in answered

Against(r) == \E e \in evidence : e.req = r /\ e.polarity = "vuln" /\ e.strong

\* What has shown is in the evidence, or about to be.
ShownKept ==
    ~broken => \A r \in shown :
        Against(r) \/ (~Done /\ "bad" \in heard /\ r \in probe.vuln /\ probe.requests # "burst")

\* After a silent liveness probe only the tests are left.
SilenceKept ==
    /\ at = 1 => evidence = {}
    /\ at > 1 =>
          \/ Plan[1].name \in answered
          \/ /\ dast = "FAILED" /\ \A e \in evidence : e.source # "dast"
             /\ \A k \in DOMAIN Plan : k >= at => Plan[k].source = "automated"

ProbingInv == HeardIsCurrent /\ ShownKept /\ SilenceKept

LEMMA AfterScanIs ==
    ASSUME NEW i \in DOMAIN Plan
    PROVE  /\ AfterScan(i) \in Nat /\ AfterScan(i) > i
           /\ \A k \in DOMAIN Plan : k >= AfterScan(i) => Plan[k].source = "automated"
<1> DEFINE L == Len(Plan)
           Q(j) == /\ j <= L => Plan[j].source = "automated"
                   /\ \A k \in (i + 1)..(j - 1) : Plan[k].source = "dast"
           T == {j \in (i + 1)..(L + 1) : j <= L => Plan[j].source = "automated"}
<1>1. L \in Nat /\ i \in 1..L /\ DOMAIN Plan = 1..L
      /\ \A k \in 1..L : Plan[k].source \in {"dast", "automated"}
    BY PlanIs DEF IsProbe
<1> HIDE DEF L
<1>2. T \in SUBSET Nat /\ L + 1 \in T
    BY <1>1
<1>3. PICK n \in T : \A m \in T : n <= m
    BY <1>2, Least
<1>4. Q(n)
  <2>1. ASSUME NEW k \in (i + 1)..(n - 1) PROVE Plan[k].source = "dast"
    <3>1. k \in Nat /\ n \in Nat /\ k < n /\ k >= i + 1 /\ n <= L + 1
        BY <1>1, <1>2, <1>3, <2>1
    <3>2. k \notin T
        BY <1>3, <3>1
    <3>3. k \in 1..L
        BY <1>1, <3>1
    <3>4. QED
        BY <1>1, <3>1, <3>2, <3>3
  <2>2. QED
      BY <1>3, <2>1
<1>5. AfterScan(i) = CHOOSE j \in (i + 1)..(L + 1) : Q(j)
    BY DEF AfterScan, L
<1>6. n \in (i + 1)..(L + 1)
    BY <1>3
<1> HIDE DEF Q, T
<1>7. AfterScan(i) \in (i + 1)..(L + 1) /\ Q(AfterScan(i))
    BY <1>4, <1>5, <1>6
<1> DEFINE j == AfterScan(i)
<1> HIDE DEF j
<1>8. j \in Nat /\ j > i /\ (j <= L => Plan[j].source = "automated")
    BY <1>1, <1>7 DEF Q, j
<1>9. ASSUME NEW k \in DOMAIN Plan, k >= j PROVE Plan[k].source = "automated"
  <2>1. j \in DOMAIN Plan /\ Plan[j].source = "automated"
      BY <1>1, <1>8, <1>9
  <2>2. QED
      BY <1>1, <1>8, <1>9, <2>1, PlanIs
<1>10. QED
    BY <1>8, <1>9 DEF j

LEMMA ProbingInit == ASSUME Init PROVE ProbingInv
BY PlanIs DEF Init, ProbingInv, HeardIsCurrent, ShownKept, SilenceKept, Done

\* The current probe, and the next one.
LEMMA CurrentIs ==
    ASSUME HeardIsCurrent, ~Done
    PROVE  /\ at \in DOMAIN Plan /\ IsProbe(probe) /\ probe = Plan[at]
           /\ at = 1 => probe.kind = "liveness" /\ Requests = 1 /\ probe.requests = "one"
           /\ at = 1 => ~NeedsSession
<1>1. at \in DOMAIN Plan
    BY PlanIs DEF HeardIsCurrent, Done
<1>2. QED
    BY <1>1, PlanIs DEF probe, Requests, NeedsSession

LEMMA ProbingAsk == ASSUME ProbingInv, Ask PROVE ProbingInv'
<1>1. /\ ~Done /\ ~NeedsSession /\ sent < Requests
      /\ UNCHANGED <<alive, at, session, evidence, dast, broken>>
    BY DEF Ask
<1>2. PICK answer :
          /\ sent' = sent + 1 /\ heard' = heard \union {answer}
          /\ answered' = IF answer = "none" THEN answered ELSE answered \union {probe.name}
          /\ shown' = IF answer = "bad" /\ probe.requests # "burst" THEN shown \union probe.vuln
                                                                ELSE shown
    BY DEF Ask, Sent
<1>3. /\ Done' = Done /\ probe' = probe /\ Requests' = Requests
      /\ NeedsSession' = NeedsSession
    BY <1>1 DEF Done, probe, Requests, NeedsSession
<1>4. at \in Nat \ {0} /\ sent \in Nat
    BY DEF ProbingInv, HeardIsCurrent
<1>5. HeardIsCurrent'
  <2>1. Requests # 0
      BY <1>1, <1>4
  <2>2. (\E a \in heard' : a # "none") => probe.name \in answered'
      BY <1>1, <1>2 DEF ProbingInv, HeardIsCurrent
  <2>3. QED
      BY <1>1, <1>2, <1>3, <1>4, <2>1, <2>2 DEF HeardIsCurrent
<1>6. ShownKept'
  <2>1. \A r : Against(r)' <=> Against(r)
      BY <1>1 DEF Against
  <2>2. ASSUME NEW r \in shown', ~broken
        PROVE  Against(r) \/ ("bad" \in heard' /\ r \in probe.vuln /\ probe.requests # "burst")
      BY <1>2, <2>2 DEF ProbingInv, ShownKept
  <2>3. QED
      BY <1>1, <1>3, <2>1, <2>2 DEF ShownKept
<1>7. SilenceKept'
  <2>1. answered \subseteq answered'
      BY <1>2
  <2>2. QED
      BY <1>1, <2>1 DEF ProbingInv, SilenceKept
<1>8. QED
    BY <1>5, <1>6, <1>7 DEF ProbingInv

\* The next probe has heard nothing yet.
LEMMA NextIsUnheard ==
    ASSUME NEW i \in Nat \ {0}, NextProbe(i)
    PROVE  HeardIsCurrent' /\ at' = i
BY DEF NextProbe, HeardIsCurrent

LEMMA ProbingConclude == ASSUME ProbingInv, Conclude PROVE ProbingInv'
<1>1. /\ ~Done /\ ~NeedsSession /\ (sent = Requests \/ Decided)
      /\ UNCHANGED <<alive, answered, shown, broken>>
    BY DEF Conclude
<1>2. /\ at \in DOMAIN Plan /\ at \in Nat \ {0} /\ IsProbe(probe) /\ probe = Plan[at]
      /\ at = 1 => probe.kind = "liveness" /\ Requests = 1 /\ probe.requests = "one"
    BY <1>1, CurrentIs DEF ProbingInv, HeardIsCurrent
<1>3. "bad" \in heard /\ probe.requests # "burst" /\ probe.vuln # {} => Verdict = "vuln"
  <2>1. "bad" \in heard => Requests # 0
      BY <1>1 DEF ProbingInv, HeardIsCurrent
  <2>2. probe.requests # "burst" => probe.kind \notin {"throttled", "burst"}
      BY <1>2 DEF IsProbe
  <2>3. probe.vuln # {} => probe.kind # "liveness"
      BY <1>2 DEF IsProbe
  <2>4. QED
      BY <2>1, <2>2, <2>3 DEF Verdict
<1>4. CASE Verdict = "unreachable"
  <2>1. dast' = "FAILED" /\ NextProbe(AfterScan(at)) /\ UNCHANGED evidence
      BY <1>4 DEF Conclude, Unreachable
  <2>2. /\ AfterScan(at) \in Nat \ {0} /\ AfterScan(at) > at
        /\ \A k \in DOMAIN Plan : k >= AfterScan(at) => Plan[k].source = "automated"
      BY <1>2, AfterScanIs
  <2>3. HeardIsCurrent' /\ at' = AfterScan(at)
      BY <2>1, <2>2, NextIsUnheard
  <2>4. probe.kind = "liveness"
      BY <1>4 DEF Verdict
  <2>5. ShownKept'
    <3>1. \A r : Against(r)' <=> Against(r)
        BY <2>1 DEF Against
    <3>2. probe.vuln = {}
        BY <1>2, <2>4 DEF IsProbe
    <3>3. QED
        BY <1>1, <3>1, <3>2 DEF ProbingInv, ShownKept
  <2>6. SilenceKept'
      BY <1>1, <1>2, <2>1, <2>2, <2>3 DEF ProbingInv, SilenceKept
  <2>7. QED
      BY <2>3, <2>5, <2>6 DEF ProbingInv
<1>5. CASE Verdict # "unreachable"
  <2>1. /\ evidence' = evidence \union Recorded(Verdict) /\ NextProbe(at + 1)
        /\ dast' = dast \/ probe.source = "dast"
      BY <1>5 DEF Conclude, Record
  <2>2. HeardIsCurrent' /\ at' = at + 1
      BY <1>2, <2>1, NextIsUnheard
  <2>3. \A e \in Recorded(Verdict) : e.source = probe.source
      BY DEF Recorded
  <2>4. ShownKept'
    <3>1. ASSUME NEW r \in probe.vuln, Verdict = "vuln" PROVE Against(r)'
      <4>1. [req |-> r, source |-> probe.source, polarity |-> "vuln", strong |-> TRUE]
                \in Recorded("vuln")
          BY <3>1 DEF Recorded
      <4>2. QED
          BY <2>1, <3>1, <4>1 DEF Against
    <3>2. \A r : Against(r) => Against(r)'
        BY <2>1 DEF Against
    <3>3. ASSUME NEW r \in shown', ~broken PROVE Against(r)'
        BY <1>1, <1>3, <3>1, <3>2, <3>3 DEF ProbingInv, ShownKept
    <3>4. QED
        BY <1>1, <3>3 DEF ShownKept
  <2>5. SilenceKept'
    <3>1. CASE at = 1
      <4>1. probe.name \in answered
        <5>1. heard # {"none"}
            BY <1>2, <1>5, <3>1 DEF Verdict
        <5>2. heard # {}
          <6>1. ~Decided
              BY <1>2, <3>1 DEF Decided
          <6>2. QED
              BY <1>1, <1>2, <3>1, <6>1 DEF ProbingInv, HeardIsCurrent
        <5>3. QED
            BY <1>1, <5>1, <5>2 DEF ProbingInv, HeardIsCurrent
      <4>2. QED
          BY <1>1, <1>2, <2>2, <3>1, <4>1 DEF SilenceKept
    <3>2. CASE at > 1 /\ Plan[1].name \in answered
        BY <1>1, <1>2, <2>2, <3>2 DEF SilenceKept
    <3>3. CASE /\ at > 1 /\ dast = "FAILED" /\ \A e \in evidence : e.source # "dast"
               /\ \A k \in DOMAIN Plan : k >= at => Plan[k].source = "automated"
      <4>1. probe.source = "automated"
          BY <1>2, <3>3
      <4>2. \A k \in DOMAIN Plan : k \in Nat
          BY PlanIs
      <4>3. \A k \in DOMAIN Plan : k >= at + 1 => Plan[k].source = "automated"
          BY <1>2, <3>3, <4>2
      <4>4. QED
          BY <1>2, <2>1, <2>2, <2>3, <3>3, <4>1, <4>3 DEF SilenceKept
    <3>4. QED
        BY <1>2, <3>1, <3>2, <3>3 DEF ProbingInv, SilenceKept
  <2>6. QED
      BY <2>2, <2>4, <2>5 DEF ProbingInv
<1>6. QED
    BY <1>4, <1>5

LEMMA ProbingBreakOff == ASSUME ProbingInv, BreakOff PROVE ProbingInv'
<1>1. ~Done /\ broken' = TRUE /\ UNCHANGED <<answered, shown>>
    BY DEF BreakOff
<1>2. at \in DOMAIN Plan /\ at \in Nat \ {0} /\ IsProbe(probe) /\ probe = Plan[at]
    BY <1>1, CurrentIs DEF ProbingInv, HeardIsCurrent
<1>3. ShownKept'
    BY <1>1 DEF ShownKept
<1>4. CASE probe.source = "dast"
  <2>1. /\ evidence' = {e \in evidence : e.source # "dast"}
        /\ dast' = "FAILED" /\ NextProbe(AfterScan(at))
      BY <1>4 DEF BreakOff
  <2>2. /\ AfterScan(at) \in Nat \ {0} /\ AfterScan(at) > at
        /\ \A k \in DOMAIN Plan : k >= AfterScan(at) => Plan[k].source = "automated"
      BY <1>2, AfterScanIs
  <2>3. HeardIsCurrent' /\ at' = AfterScan(at)
      BY <2>1, <2>2, NextIsUnheard
  <2>4. SilenceKept'
      BY <1>2, <2>1, <2>2, <2>3 DEF SilenceKept
  <2>5. QED
      BY <1>3, <2>3, <2>4 DEF ProbingInv
<1>5. CASE probe.source # "dast"
  <2>1. NextProbe(at + 1) /\ UNCHANGED <<evidence, dast>>
      BY <1>5 DEF BreakOff
  <2>2. HeardIsCurrent' /\ at' = at + 1
      BY <1>2, <2>1, NextIsUnheard
  <2>3. at # 1
      BY <1>2, <1>5, PlanIs
  <2>4. SilenceKept'
    <3>1. \A k \in DOMAIN Plan : k \in Nat
        BY PlanIs
    <3>2. QED
        BY <1>1, <1>2, <2>1, <2>2, <2>3, <3>1 DEF ProbingInv, SilenceKept
  <2>5. QED
      BY <1>3, <2>2, <2>4 DEF ProbingInv
<1>6. QED
    BY <1>4, <1>5

LEMMA ProbingNotTested == ASSUME ProbingInv, NotTested PROVE ProbingInv'
<1>1. /\ ~Done /\ NeedsSession /\ NextProbe(at + 1)
      /\ UNCHANGED <<alive, evidence, dast, answered, shown, broken>>
    BY DEF NotTested
<1>2. /\ at \in DOMAIN Plan /\ at \in Nat \ {0} /\ at # 1
    BY <1>1, CurrentIs DEF ProbingInv, HeardIsCurrent
<1>3. HeardIsCurrent' /\ at' = at + 1
    BY <1>1, <1>2, NextIsUnheard
<1>4. heard = {}
    BY <1>1 DEF ProbingInv, HeardIsCurrent
<1>5. ShownKept'
  <2>1. \A r : Against(r)' <=> Against(r)
      BY <1>1 DEF Against
  <2>2. QED
      BY <1>1, <1>4, <2>1 DEF ProbingInv, ShownKept
<1>6. SilenceKept'
  <2>1. \A k \in DOMAIN Plan : k \in Nat
      BY PlanIs
  <2>2. QED
      BY <1>1, <1>2, <1>3, <2>1 DEF ProbingInv, SilenceKept
<1>7. QED
    BY <1>3, <1>5, <1>6 DEF ProbingInv

LEMMA ProbingNext == ASSUME ProbingInv, [Next]_vars PROVE ProbingInv'
<1>1. CASE LogIn
  <2>1. /\ ~Done /\ NeedsSession /\ session' = TRUE
        /\ UNCHANGED <<alive, at, sent, heard, evidence, dast, answered, shown, broken>>
      BY <1>1 DEF LogIn
  <2>2. Done' = Done /\ probe' = probe /\ Requests' = Requests /\ heard = {}
      BY <2>1 DEF Done, probe, Requests, ProbingInv, HeardIsCurrent
  <2>3. HeardIsCurrent'
      BY <2>1, <2>2 DEF ProbingInv, HeardIsCurrent
  <2>4. ShownKept' /\ SilenceKept'
      BY <2>1, <2>2 DEF ProbingInv, ShownKept, SilenceKept, Against
  <2>5. QED
      BY <2>3, <2>4 DEF ProbingInv
<1>2. CASE AppExits \/ UNCHANGED vars
  <2>1. UNCHANGED <<at, session, sent, heard, evidence, dast, answered, shown, broken>>
      BY <1>2 DEF AppExits, vars
  <2>2. /\ Done' = Done /\ probe' = probe /\ Requests' = Requests
        /\ NeedsSession' = NeedsSession
      BY <2>1 DEF Done, probe, Requests, NeedsSession
  <2>3. HeardIsCurrent'
      BY <2>1, <2>2 DEF ProbingInv, HeardIsCurrent
  <2>4. ShownKept' /\ SilenceKept'
      BY <2>1, <2>2 DEF ProbingInv, ShownKept, SilenceKept, Against
  <2>5. QED
      BY <2>3, <2>4 DEF ProbingInv
<1>3. QED
    BY <1>1, <1>2, ProbingAsk, ProbingConclude, ProbingBreakOff, ProbingNotTested
       DEF Next, Prober

LEMMA ShownAreHeld == ASSUME ProbingInv PROVE ShownIsHeld
<1> SUFFICES ASSUME Done, ~broken, NEW r \in shown PROVE Result(r) # "PASS"
    BY DEF ShownIsHeld
<1>1. PICK e \in evidence : e.req = r /\ e.polarity = "vuln" /\ e.strong
    BY DEF ProbingInv, ShownKept, Against
<1>2. e \in StrongVuln({f \in evidence : f.req = r})
    BY <1>1 DEF StrongVuln
<1>3. QED
    BY <1>2 DEF Result, ComputeStatus

LEMMA SilentScansFail == ASSUME ProbingInv PROVE SilentScanFails
<1> SUFFICES ASSUME NEW i \in DOMAIN Plan, i < at
             PROVE  \/ \E k \in DOMAIN Plan : Plan[k].source = "dast" /\ Plan[k].name \in answered
                    \/ dast = "FAILED" /\ \A e \in evidence : e.source # "dast"
    BY DEF SilentScanFails
<1>1. at > 1 /\ 1 \in DOMAIN Plan /\ Plan[1].source = "dast"
    BY PlanIs DEF ProbingInv, HeardIsCurrent
<1>2. QED
    BY <1>1 DEF ProbingInv, SilenceKept

-----------------------------------------------------------------------------
(* The endpoint discovery *)

LEMMA FilesFinite == IsFiniteSet(Files) /\ Cardinality(Files) \in Nat
BY EndpointAssumption, FS_CardinalityType

\* Include entry i of file f, when f parses.
Includes(p, f, i) ==
    f \in Files \ p.broken /\ i \in DOMAIN p.entries[f] /\ p.entries[f][i].kind = "include"

LEMMA EntriesTyped ==
    ASSUME NEW p, E!IsProject(p), NEW f \in Files
    PROVE  /\ p.entries[f] \in Seq(E!Entries)
           /\ Len(p.entries[f]) \in Nat /\ DOMAIN p.entries[f] = 1..Len(p.entries[f])
           /\ \A i \in DOMAIN p.entries[f] : p.entries[f][i] \in E!Entries
<1>1. p.entries[f] \in Seq(E!Entries)
    BY DEF E!IsProject
<1> HIDE DEF E!Entries
<1>2. QED
    BY <1>1

\* In a plain project every file but the ROOT_URLCONF is included by one entry.
LEMMA IncludedOnce ==
    ASSUME NEW p, E!IsProject(p), E!Plain(p)
    PROVE  /\ \A g, i : Includes(p, g, i) => p.entries[g][i].target \in Files \ {p.urlconf}
           /\ \A g, h, i, j :
                 Includes(p, g, i) /\ Includes(p, h, j)
                 /\ p.entries[g][i].target = p.entries[h][j].target => g = h /\ i = j
           /\ \A f \in Files \ {p.urlconf} : \E g, i : Includes(p, g, i) /\ p.entries[g][i].target = f
<1> DEFINE Of(f, g) == {<<g, n>> : n \in {k \in DOMAIN p.entries[g] :
                p.entries[g][k].kind = "include" /\ p.entries[g][k].target = f}}
           All(f) == UNION {Of(f, g) : g \in Files \ p.broken}
<1>1. ASSUME NEW f \in Files
      PROVE  IsFiniteSet(All(f)) /\ Cardinality(All(f)) = E!TimesIncluded(p, f)
  <2>1. ASSUME NEW g \in Files PROVE IsFiniteSet(Of(f, g))
    <3> DEFINE K == {k \in DOMAIN p.entries[g] :
                        p.entries[g][k].kind = "include" /\ p.entries[g][k].target = f}
    <3>1. IsFiniteSet(1..Len(p.entries[g]))
        BY EntriesTyped, FS_Interval
    <3>2. K \subseteq 1..Len(p.entries[g])
        BY EntriesTyped
    <3>3. IsFiniteSet(K)
        BY <3>1, <3>2, FS_Subset
    <3> HIDE DEF K
    <3>4. IsFiniteSet({<<g, n>> : n \in K})
      <4> DEFINE h == [n \in K |-> <<g, n>>]
      <4>1. h \in Surjection(K, {<<g, n>> : n \in K})
          BY DEF Surjection
      <4>2. QED
          BY <3>3, <4>1, FS_Surjection
    <3>5. QED
        BY <3>4 DEF K
  <2> HIDE DEF Of
  <2>2. IsFiniteSet(Files \ p.broken)
      BY FilesFinite, FS_Subset
  <2>3. IsFiniteSet({Of(f, g) : g \in Files \ p.broken})
    <3> DEFINE h == [g \in Files \ p.broken |-> Of(f, g)]
    <3>1. h \in Surjection(Files \ p.broken, {Of(f, g) : g \in Files \ p.broken})
        BY DEF Surjection
    <3>2. QED
        BY <2>2, <3>1, FS_Surjection
  <2>4. IsFiniteSet(All(f))
    <3> DEFINE parts == {Of(f, g) : g \in Files \ p.broken}
    <3>1. \A T \in parts : IsFiniteSet(T)
        BY <2>1
    <3>2. IsFiniteSet(parts) /\ All(f) = UNION parts
        BY <2>3
    <3>3. IsFiniteSet(parts)
        BY <2>3
    <3> HIDE DEF parts, All
    <3>4. QED
        BY <3>1, <3>2, <3>3, FS_UNION
  <2>5. E!TimesIncluded(p, f) = Cardinality(All(f))
    <3>1. \A X : E!Cardinality(X) = Cardinality(X)
        BY DEF E!Cardinality, Cardinality
    <3>2. E!TimesIncluded(p, f) = E!Cardinality(All(f))
        BY DEF E!TimesIncluded, Of
    <3>3. QED
        BY <3>1, <3>2
  <2>6. QED
      BY <2>4, <2>5
<1>2. \A f, g, i : <<g, i>> \in All(f) <=> Includes(p, g, i) /\ p.entries[g][i].target = f
    BY DEF Includes
<1> HIDE DEF All
<1>3. p.urlconf \in Files
    BY DEF E!IsProject
<1>4. All(p.urlconf) = {}
    BY <1>1, <1>3, FS_EmptySet DEF E!Plain, E!Regular
<1>5. \A f \in Files \ {p.urlconf} : \E x : All(f) = {x}
    BY <1>1, FS_Singleton DEF E!Plain, E!Regular
<1>6. ASSUME NEW g, NEW i, Includes(p, g, i) PROVE p.entries[g][i].target \in Files \ {p.urlconf}
  <2>1. p.entries[g][i] \in E!Entries
      BY <1>6, EntriesTyped DEF Includes
  <2>2. QED
      BY <1>2, <1>4, <1>6, <2>1 DEF E!Entries
<1>7. ASSUME NEW g, NEW h, NEW i, NEW j, Includes(p, g, i), Includes(p, h, j),
             p.entries[g][i].target = p.entries[h][j].target
      PROVE  g = h /\ i = j
  <2>1. PICK x : All(p.entries[g][i].target) = {x}
      BY <1>5, <1>6, <1>7
  <2>2. <<g, i>> \in {x} /\ <<h, j>> \in {x}
      BY <1>2, <1>7, <2>1
  <2>3. QED
      BY <2>2
<1>8. ASSUME NEW f \in Files \ {p.urlconf}
      PROVE  \E g, i : Includes(p, g, i) /\ p.entries[g][i].target = f
  <2>1. PICK x : All(f) = {x}
      BY <1>5
  <2>2. \E g, i : x = <<g, i>>
      BY <2>1 DEF All
  <2>3. QED
      BY <1>2, <2>1, <2>2
<1>9. \A g, i : Includes(p, g, i) => p.entries[g][i].target \in Files \ {p.urlconf}
    BY <1>6
<1>10. \A g, h, i, j :
          Includes(p, g, i) /\ Includes(p, h, j)
          /\ p.entries[g][i].target = p.entries[h][j].target => g = h /\ i = j
    BY <1>7
<1>11. QED
    BY <1>8, <1>9, <1>10

\* Only the ROOT_URLCONF is parsed with an empty prefix.
LEMMA RootIsUrlconf ==
    ASSUME NEW p, E!IsProject(p), E!Plain(p)
    PROVE  /\ E!Roots(p) \in SUBSET DOMAIN p.order /\ E!Roots(p) # {}
           /\ \A n \in E!Roots(p) : p.order[n] = p.urlconf
<1>1. \A f : f \in E!Included(p) <=> \E g, i : Includes(p, g, i) /\ p.entries[g][i].target = f
    BY DEF E!Included, E!Named, E!EntriesOf, E!Plain, E!Regular, E!IncludesAreNames, Includes
<1>2. p.urlconf \notin E!Included(p) /\ \A f \in Files \ {p.urlconf} : f \in E!Included(p)
    BY <1>1, IncludedOnce
<1>3. /\ {p.order[n] : n \in DOMAIN p.order} = Files
      /\ p.urlconf \in Files
    BY DEF E!Plain, E!Regular, E!IsProject
<1> DEFINE rest == {n \in DOMAIN p.order : p.order[n] \notin E!Included(p)}
<1>4. rest # {} /\ \A n \in rest : p.order[n] = p.urlconf
    BY <1>2, <1>3
<1>5. E!Roots(p) = rest
    BY <1>4 DEF E!Roots
<1>6. QED
    BY <1>4, <1>5


\* The mounts through at most n includes.
IsLevels(p, g) ==
    /\ E!Mounts(p) = g[Cardinality(Files)]
    /\ g[0] = {<<p.urlconf, <<>>>>}
    /\ \A n \in 1..Cardinality(Files) : g[n] = E!Deeper(p, g[n - 1])

LEMMA LevelsExist ==
    ASSUME NEW p
    PROVE  \E g : IsLevels(p, g)
<1> DEFINE K == Cardinality(Files)
           Step(g, n) == IF n = 0 THEN {<<p.urlconf, <<>>>>} ELSE E!Deeper(p, g[n - 1])
           P(k) == \E g : g = [n \in 0..k |-> Step(g, n)]
<1>1. P(0)
  <2> DEFINE g == [n \in 0..0 |-> {<<p.urlconf, <<>>>>}]
  <2>1. \A n \in 0..0 : g[n] = Step(g, n)
      OBVIOUS
  <2>2. g = [n \in 0..0 |-> Step(g, n)]
    <3>1. g = [n \in 0..0 |-> g[n]]
        OBVIOUS
    <3> HIDE DEF g, Step
    <3>2. QED
        BY <2>1, <3>1
  <2>3. QED
      BY <2>2
<1>2. ASSUME NEW k \in Nat, P(k) PROVE P(k + 1)
  <2>1. PICK g : g = [n \in 0..k |-> Step(g, n)]
      BY <1>2
  <2> DEFINE h == [n \in 0..k + 1 |-> IF n = k + 1 THEN E!Deeper(p, g[k]) ELSE g[n]]
  <2>2. \A n \in 0..k : g[n] = Step(g, n)
    <3> HIDE DEF Step
    <3>1. QED
        BY <2>1
  <2>3. ASSUME NEW n \in 0..k + 1 PROVE h[n] = Step(h, n)
    <3>1. CASE n = k + 1
      <4>1. h[n - 1] = g[k] /\ n # 0
          BY <3>1
      <4>2. QED
          BY <3>1, <4>1
    <3>2. CASE n \in 1..k
      <4>1. h[n] = g[n] /\ h[n - 1] = g[n - 1] /\ n # 0 /\ n \in 0..k
          BY <3>2
      <4>2. QED
          BY <2>2, <4>1
    <3>3. CASE n = 0
      <4>1. h[0] = g[0]
          OBVIOUS
      <4>2. QED
          BY <2>2, <3>3, <4>1
    <3>4. QED
        BY <3>1, <3>2, <3>3
  <2>4. h = [n \in 0..k + 1 |-> h[n]]
      OBVIOUS
  <2>5. h = [n \in 0..k + 1 |-> Step(h, n)]
    <3> HIDE DEF h, Step
    <3>1. QED
        BY <2>3, <2>4
  <2>6. QED
      BY <2>5
<1> HIDE DEF P
<1>3. \A k \in Nat : P(k)
  <2> DEFINE F == {k \in Nat : ~P(k)}
  <2>1. CASE F # {}
    <3>1. PICK k \in F : \A m \in F : k <= m
        BY <2>1, Least
    <3>2. k \in Nat /\ k # 0 /\ ~P(k)
        BY <1>1, <3>1
    <3>3. k - 1 \in Nat /\ k - 1 \notin F
        BY <3>1, <3>2
    <3>4. P(k - 1) /\ (k - 1) + 1 = k
        BY <3>2, <3>3
    <3>5. QED
        BY <1>2, <3>2, <3>3, <3>4
  <2>2. QED
      BY <2>1
<1>4. K \in Nat /\ E!Cardinality(Files) = K
  <2>1. E!Cardinality(Files) = Cardinality(Files)
      BY DEF E!Cardinality, Cardinality
  <2>2. QED
      BY <2>1, FilesFinite
<1> HIDE DEF K
<1> DEFINE g == CHOOSE g : g = [n \in 0..K |-> Step(g, n)]
<1>5. g = [n \in 0..K |-> Step(g, n)]
  <2>1. \E x : x = [n \in 0..K |-> Step(x, n)]
      BY <1>3, <1>4 DEF P
  <2> HIDE DEF Step
  <2>2. QED
      BY <2>1
<1>6. E!Mounts(p) = g[K]
    BY <1>4 DEF E!Mounts
<1> HIDE DEF g
<1>7. \A n \in 0..K : g[n] = Step(g, n)
  <2> HIDE DEF Step
  <2>1. QED
      BY <1>5
<1>8. g[0] = {<<p.urlconf, <<>>>>}
    BY <1>4, <1>7
<1>9. \A n \in 1..K : g[n] = E!Deeper(p, g[n - 1])
    BY <1>4, <1>7
<1>10. QED
    BY <1>6, <1>8, <1>9 DEF K, IsLevels

\* Mount m is reached from mount b through include entry i.
Through(p, m, b, i) ==
    /\ Includes(p, b[1], i)
    /\ m = <<p.entries[b[1]][i].target, b[2] \o p.entries[b[1]][i].route>>

LEMMA ThroughIs ==
    ASSUME NEW p, NEW m, NEW b, NEW i, Through(p, m, b, i)
    PROVE  Includes(p, b[1], i) /\ m[1] = p.entries[b[1]][i].target
<1> DEFINE path == b[2] \o p.entries[b[1]][i].route
<1>1. Includes(p, b[1], i) /\ m = <<p.entries[b[1]][i].target, path>>
    BY DEF Through
<1> HIDE DEF path
<1>2. QED
    BY <1>1

LEMMA DeeperIs ==
    ASSUME NEW p, E!IsProject(p), E!Plain(p), NEW mounts \in SUBSET (Files \X Seq(Routes))
    PROVE  /\ E!Deeper(p, mounts) \in SUBSET (Files \X Seq(Routes))
           /\ mounts \subseteq E!Deeper(p, mounts)
           /\ \A m : m \in E!Deeper(p, mounts) <=>
                 m \in mounts \/ \E b \in mounts, i \in Nat : Through(p, m, b, i)
<1>1. ASSUME NEW b \in mounts, NEW i, Includes(p, b[1], i)
      PROVE  /\ i \in Nat /\ p.entries[b[1]][i] \in E!EntriesOf(p, b[1])
             /\ b[2] \o p.entries[b[1]][i].inline = b[2]
             /\ <<p.entries[b[1]][i].target, b[2] \o p.entries[b[1]][i].route>>
                   \in Files \X Seq(Routes)
  <2>1. b[1] \in Files /\ b[2] \in Seq(Routes)
      OBVIOUS
  <2>2. p.entries[b[1]][i] \in E!Entries /\ i \in DOMAIN p.entries[b[1]] /\ i \in Nat
      BY <1>1, <2>1, EntriesTyped DEF Includes
  <2>3. p.entries[b[1]][i] \in E!EntriesOf(p, b[1])
      BY <2>2 DEF E!EntriesOf
  <2>4. p.entries[b[1]][i].inline = <<>>
      BY <2>1, <2>3 DEF E!Plain, E!Regular
  <2>5. p.entries[b[1]][i].target \in Files /\ p.entries[b[1]][i].route \in Seq(Routes)
      BY <2>2 DEF E!Entries
  <2>6. b[2] \o p.entries[b[1]][i].inline = b[2]
      BY <2>1, <2>4
  <2>7. b[2] \o p.entries[b[1]][i].route \in Seq(Routes)
      BY <2>1, <2>5
  <2>8. QED
      BY <2>2, <2>3, <2>5, <2>6, <2>7
<1>2. ASSUME NEW m
      PROVE  m \in E!Deeper(p, mounts) <=>
                m \in mounts \/ \E b \in mounts, i \in Nat : Through(p, m, b, i)
  <2>1. ASSUME m \in E!Deeper(p, mounts), m \notin mounts
        PROVE  \E b \in mounts, i \in Nat : Through(p, m, b, i)
    <3>1. PICK b \in mounts : b[1] \notin p.broken /\
              \E e \in E!EntriesOf(p, b[1]) :
                 e.kind = "include" /\ m = <<e.target, b[2] \o e.inline \o e.route>>
        BY <2>1 DEF E!Deeper
    <3>2. PICK i \in DOMAIN p.entries[b[1]] :
              LET e == p.entries[b[1]][i]
              IN  e.kind = "include" /\ m = <<e.target, b[2] \o e.inline \o e.route>>
        BY <3>1 DEF E!EntriesOf
    <3>3. Includes(p, b[1], i)
        BY <3>1, <3>2 DEF Includes
    <3>4. i \in Nat /\ Through(p, m, b, i)
        BY <1>1, <3>2, <3>3 DEF Through
    <3>5. QED
        BY <3>4
  <2>2. ASSUME NEW b \in mounts, NEW i \in Nat, Through(p, m, b, i)
        PROVE  m \in E!Deeper(p, mounts)
    <3> DEFINE e == p.entries[b[1]][i]
    <3>1. e \in E!EntriesOf(p, b[1]) /\ e.kind = "include" /\ b[1] \notin p.broken
        BY <1>1, <2>2 DEF Through, Includes
    <3>2. m = <<e.target, b[2] \o e.inline \o e.route>>
        BY <1>1, <2>2 DEF Through
    <3> HIDE DEF e
    <3>3. m \in {<<x.target, b[2] \o x.inline \o x.route>> :
                    x \in {y \in E!EntriesOf(p, b[1]) : y.kind = "include"}}
        BY <3>1, <3>2
    <3>4. QED
      <4> DEFINE Of(o) == {<<x.target, o[2] \o x.inline \o x.route>> :
                              x \in {y \in E!EntriesOf(p, o[1]) : y.kind = "include"}}
      <4>1. E!Deeper(p, mounts) = mounts \union UNION {Of(o) : o \in {m0 \in mounts : m0[1] \notin p.broken}}
          BY DEF E!Deeper
      <4>2. m \in Of(b)
          BY <3>3
      <4> HIDE DEF Of
      <4>3. QED
          BY <3>1, <4>1, <4>2
  <2>3. m \in mounts => m \in E!Deeper(p, mounts)
      BY DEF E!Deeper
  <2>4. QED
      BY <2>1, <2>2, <2>3
<1>3. ASSUME NEW m \in E!Deeper(p, mounts), m \notin mounts PROVE m \in Files \X Seq(Routes)
  <2>1. PICK b \in mounts, i \in Nat : Through(p, m, b, i)
      BY <1>2, <1>3
  <2>2. QED
      BY <1>1, <2>1 DEF Through
<1>4. QED
    BY <1>2, <1>3

\* In a plain project, the mounts through at most n includes: every mount is the
\* ROOT_URLCONF's or is reached from another one, and no file is mounted twice.
LEMMA PlainLevels ==
    ASSUME NEW p, E!IsProject(p), E!Plain(p), NEW g, IsLevels(p, g)
    PROVE  \A n \in 0..Cardinality(Files) :
              /\ g[n] \in SUBSET (Files \X Seq(Routes))
              /\ n > 0 => g[n - 1] \subseteq g[n]
              /\ \A m \in g[n] :
                    \/ m = <<p.urlconf, <<>>>>
                    \/ n > 0 /\ \E b \in g[n - 1], i \in Nat : Through(p, m, b, i)
              /\ \A m, o \in g[n] : m[1] = o[1] => m = o
<1> DEFINE K == Cardinality(Files)
           Once(n) ==
              /\ g[n] \in SUBSET (Files \X Seq(Routes))
              /\ n > 0 => g[n - 1] \subseteq g[n]
              /\ \A m \in g[n] :
                    \/ m = <<p.urlconf, <<>>>>
                    \/ n > 0 /\ \E b \in g[n - 1], i \in Nat : Through(p, m, b, i)
              /\ \A m, o \in g[n] : m[1] = o[1] => m = o
<1>1. Once(0)
  <2>1. g[0] = {<<p.urlconf, <<>>>>} /\ p.urlconf \in Files /\ <<>> \in Seq(Routes)
      BY DEF IsLevels, E!IsProject
  <2>2. g[0] \in SUBSET (Files \X Seq(Routes))
    <3>1. ASSUME NEW none \in Seq(Routes) PROVE {<<p.urlconf, none>>} \in SUBSET (Files \X Seq(Routes))
        BY <2>1
    <3>2. QED
        BY <2>1, <3>1
  <2>3. \A m, o \in g[0] : m = <<p.urlconf, <<>>>> /\ m = o
      BY <2>1
  <2> DEFINE below(n) == g[n - 1]
             start == <<p.urlconf, <<>>>>
  <2> HIDE DEF below, start
  <2>4. 0 > 0 => below(0) \subseteq g[0]
      OBVIOUS
  <2>5. QED
      BY <2>2, <2>3, <2>4 DEF below
<1>2. ASSUME NEW n \in 1..K, Once(n - 1) PROVE Once(n)
  <2>1. g[n] = E!Deeper(p, g[n - 1])
      BY DEF IsLevels
  <2>2. g[n - 1] \in SUBSET (Files \X Seq(Routes))
      BY <1>2
  <2>3. /\ g[n] \in SUBSET (Files \X Seq(Routes))
        /\ g[n - 1] \subseteq g[n]
        /\ \A m \in g[n] : m \in g[n - 1] \/ \E b \in g[n - 1], i \in Nat : Through(p, m, b, i)
      BY <2>1, <2>2, DeeperIs
  <2>4. n > 0 /\ n \in Nat /\ n - 1 \in Nat
      BY FilesFinite
  <2>5. n - 1 > 0 => g[(n - 1) - 1] \subseteq g[n - 1]
      BY <1>2
  <2>6. ASSUME NEW m \in g[n], m # <<p.urlconf, <<>>>>
        PROVE  \E b \in g[n - 1], i \in Nat : Through(p, m, b, i)
    <3>1. CASE m \in g[n - 1]
      <4>1. n - 1 > 0 /\ \E b \in g[(n - 1) - 1], i \in Nat : Through(p, m, b, i)
          BY <1>2, <2>6, <3>1
      <4>2. QED
          BY <2>5, <4>1
    <3>2. QED
        BY <2>3, <3>1
  <2>7. ASSUME NEW m \in g[n], NEW o \in g[n], m[1] = o[1] PROVE m = o
    <3>1. ASSUME NEW x \in g[n], NEW b, NEW i, Through(p, x, b, i) PROVE x[1] # p.urlconf
        BY <3>1, IncludedOnce DEF Through
    <3>2. CASE m = <<p.urlconf, <<>>>>
        BY <2>6, <2>7, <3>1, <3>2
    <3>3. CASE o = <<p.urlconf, <<>>>>
        BY <2>6, <2>7, <3>1, <3>3
    <3>4. CASE m # <<p.urlconf, <<>>>> /\ o # <<p.urlconf, <<>>>>
      <4>1. PICK b \in g[n - 1], i \in Nat : Through(p, m, b, i)
          BY <2>6, <3>4
      <4>2. PICK c \in g[n - 1], j \in Nat : Through(p, o, c, j)
          BY <2>6, <3>4
      <4>3. b[1] = c[1] /\ i = j
          BY <2>7, <4>1, <4>2, IncludedOnce, ThroughIs
      <4>4. b = c
          BY <1>2, <4>3
      <4>5. QED
          BY <4>1, <4>2, <4>3, <4>4 DEF Through
    <3>5. QED
        BY <3>2, <3>3, <3>4
  <2>8. \A m \in g[n] :
            \/ m = <<p.urlconf, <<>>>>
            \/ n > 0 /\ \E b \in g[n - 1], i \in Nat : Through(p, m, b, i)
      BY <2>4, <2>6
  <2>9. \A m, o \in g[n] : m[1] = o[1] => m = o
      BY <2>7
  <2>10. QED
      BY <2>3, <2>8, <2>9
<1> HIDE DEF Once
<1>3. ASSUME NEW n \in 0..K PROVE Once(n)
  <2> DEFINE F == {k \in 0..K : ~Once(k)}
  <2>1. CASE F # {}
    <3>1. F \in SUBSET Nat /\ K \in Nat
        BY FilesFinite
    <3>2. PICK k \in F : \A m \in F : k <= m
        BY <2>1, <3>1, Least
    <3>3. k \in 1..K /\ k - 1 \in 0..K /\ ~(k <= k - 1)
        BY <1>1, <3>1, <3>2
    <3>4. Once(k - 1)
        BY <3>2, <3>3
    <3>5. QED
        BY <1>2, <3>2, <3>3, <3>4
  <2>2. QED
      BY <2>1
<1>4. QED
    BY <1>3 DEF Once

\* Earlier levels are part of later ones.
LEMMA LevelsGrow ==
    ASSUME NEW p, E!IsProject(p), E!Plain(p), NEW g, IsLevels(p, g),
           NEW n \in 0..Cardinality(Files)
    PROVE  g[n] \subseteq E!Mounts(p)
<1> DEFINE K == Cardinality(Files)
<1>1. K \in Nat
    BY FilesFinite
<1> HIDE DEF K
<1>2. ASSUME NEW k \in 0..K PROVE g[K - k] \subseteq g[K]
  <2> DEFINE F == {j \in 0..K : ~(g[K - j] \subseteq g[K])}
  <2>1. CASE F # {}
    <3>1. F \in SUBSET Nat
        BY <1>1
    <3>2. PICK j \in F : \A m \in F : j <= m
        BY <2>1, <3>1, Least
    <3>3. j # 0
        BY <1>1, <3>2
    <3>4. j - 1 \in 0..K /\ ~(j <= j - 1)
        BY <1>1, <3>2, <3>3
    <3>5. g[K - (j - 1)] \subseteq g[K]
        BY <3>2, <3>4
    <3>6. K - j + 1 \in 0..K /\ K - j + 1 > 0 /\ (K - j + 1) - 1 = K - j /\ K - (j - 1) = K - j + 1
        BY <1>1, <3>2, <3>3
    <3>7. g[K - j] \subseteq g[K - j + 1]
        BY <3>6, PlainLevels DEF K
    <3>8. QED
        BY <3>2, <3>5, <3>6, <3>7
  <2>2. QED
      BY <2>1
<1>3. PICK k \in 0..K : n = K - k
  <2>1. K - n \in 0..K /\ n = K - (K - n)
      BY <1>1 DEF K
  <2>2. QED
      BY <2>1
<1>4. QED
    BY <1>2, <1>3 DEF IsLevels, K


\* An entry of a plain project: it can be read and is in no list, an include is by
\* name, and nothing lies between it and the file.
LEMMA PlainEntry ==
    ASSUME NEW p, E!IsProject(p), E!Plain(p), NEW f \in Files, NEW i \in DOMAIN p.entries[f]
    PROVE  /\ p.entries[f][i] \in E!EntriesOf(p, f)
           /\ p.entries[f][i].readable /\ p.admins = {} /\ ~p.nested
           /\ p.entries[f][i].kind = "include" => p.entries[f][i].named
           /\ p.entries[f][i].kind \in {"view", "register"} =>
                 E!Between(p, f, p.entries[f][i]) = {<<>>}
<1>1. p.entries[f][i] \in E!EntriesOf(p, f)
    BY DEF E!EntriesOf
<1>2. QED
    BY <1>1 DEF E!Plain, E!Regular, E!IncludesAreNames, E!RoutersAtRoot, E!Between

\* The route of a view or a router of the file at mount m makes path x.
ServedUnder(p, m, x) ==
    /\ m[1] \notin p.broken
    /\ \E i \in DOMAIN p.entries[m[1]] :
          /\ p.entries[m[1]][i].kind \in {"view", "register"}
          /\ x = m[2] \o p.entries[m[1]][i].route

LEMMA ServedIs ==
    ASSUME NEW p, E!IsProject(p), E!Plain(p), NEW x
    PROVE  x \in E!Served(p) <=> \E m \in E!Mounts(p) : ServedUnder(p, m, x)
<1>1. PICK g : IsLevels(p, g)
    BY LevelsExist
<1>2. E!Mounts(p) \in SUBSET (Files \X Seq(Routes))
  <2>1. Cardinality(Files) \in 0..Cardinality(Files)
      BY FilesFinite
  <2>2. QED
      BY <1>1, <2>1, PlainLevels DEF IsLevels
<1>3. ASSUME NEW m \in E!Mounts(p)
      PROVE  x \in E!PathsUnder(p, m) <=> \E i \in DOMAIN p.entries[m[1]] :
                /\ p.entries[m[1]][i].kind \in {"view", "register"}
                /\ x = m[2] \o p.entries[m[1]][i].route
  <2>1. m[1] \in Files /\ m[2] \in Seq(Routes)
      BY <1>2
  <2>2. m[2] \o <<>> = m[2]
      BY <2>1
  <2> DEFINE empty == <<>>
             Of(e) == {m[2] \o between \o e.route : between \in E!Between(p, m[1], e)}
  <2> HIDE DEF empty
  <2>3. ASSUME NEW i \in DOMAIN p.entries[m[1]],
               p.entries[m[1]][i].kind \in {"view", "register"}
        PROVE  Of(p.entries[m[1]][i]) = {m[2] \o p.entries[m[1]][i].route}
    <3>1. E!Between(p, m[1], p.entries[m[1]][i]) = {empty}
        BY <2>1, <2>3, PlainEntry DEF empty
    <3>2. m[2] \o empty = m[2]
        BY <2>2 DEF empty
    <3>3. QED
        BY <3>1, <3>2
  <2>4. x \in E!PathsUnder(p, m) <=> \E i \in DOMAIN p.entries[m[1]] :
            p.entries[m[1]][i].kind \in {"view", "register"} /\ x \in Of(p.entries[m[1]][i])
    <3>1. E!PathsUnder(p, m) = UNION {Of(e) : e \in E!Routed(p, m[1])}
        BY DEF E!PathsUnder
    <3> HIDE DEF Of
    <3>2. x \in E!PathsUnder(p, m) <=> \E e \in E!Routed(p, m[1]) : x \in Of(e)
        BY <3>1
    <3>3. \A e : e \in E!Routed(p, m[1]) <=> \E i \in DOMAIN p.entries[m[1]] :
              e = p.entries[m[1]][i] /\ e.kind \in {"view", "register"}
        BY DEF E!Routed, E!EntriesOf
    <3>4. QED
        BY <3>2, <3>3
  <2> HIDE DEF Of
  <2>5. QED
      BY <2>3, <2>4
<1>4. x \in E!Served(p) <=> \E m \in E!Mounts(p) : m[1] \notin p.broken /\ x \in E!PathsUnder(p, m)
    BY DEF E!Served
<1>5. QED
    BY <1>3, <1>4 DEF ServedUnder

\* The open calls are of files that were visited and parse, none of them twice,
\* each under a mount of its file that is as deep as the call.
Calls(s, known) ==
    /\ s \in Seq([file: Files, prefix: Seq(Routes), next: Nat \ {0}])
    /\ \A k \in DOMAIN s : s[k].file \in known \ project.broken
    /\ \A k, l \in DOMAIN s : s[k].file = s[l].file => k = l
    /\ \A g : IsLevels(project, g) =>
          \A k \in DOMAIN s : /\ k - 1 \in 0..Cardinality(Files)
                              /\ <<s[k].file, s[k].prefix>> \in g[k - 1]

\* Entry i of file f has had its turn.
Passed(s, f, i) == \A k \in DOMAIN s : s[k].file = f => i < s[k].next

\* Of a visited file the entries that have had their turn are done: views and routes
\* of the router are reported under every mount of the file, included files visited.
Handled(s, files, found, known) ==
    \A f \in files \ project.broken : \A i \in DOMAIN project.entries[f] :
        Passed(s, f, i) =>
            /\ project.entries[f][i].kind \in {"view", "register"} =>
                  \A m \in E!Mounts(project) :
                     m[1] = f => m[2] \o project.entries[f][i].route \in found
            /\ project.entries[f][i].kind = "include" => project.entries[f][i].target \in known

PlainInv ==
    /\ Calls(stack, visited)
    /\ roots \in SUBSET DOMAIN project.order
    /\ \A n \in roots : project.order[n] = project.urlconf
    /\ roots # {} \/ project.urlconf \in visited
    /\ visited \subseteq Files
    /\ endpoints \subseteq E!Served(project)
    /\ Handled(stack, visited, endpoints, visited)

EndpointInv ==
    /\ status \in {"idle", "done"} => stack = <<>> /\ roots = {}
    /\ status = "idle" => visited = {} /\ endpoints = {}
    /\ status # "idle" => E!IsProject(project)
    /\ status # "idle" /\ E!Plain(project) => PlainInv

\* There are no more open calls than files.
LEMMA CallsFit ==
    ASSUME NEW known, NEW s, Calls(s, known)
    PROVE  Len(s) \in 0..Cardinality(Files) /\ DOMAIN s = 1..Len(s)
<1> DEFINE T == [file: Files, prefix: Seq(Routes), next: Nat \ {0}]
<1>1. s \in Seq(T) /\ \A c \in T : c.file \in Files
    BY DEF Calls
<1> HIDE DEF T
<1>2. Len(s) \in Nat /\ DOMAIN s = 1..Len(s) /\ \A k \in 1..Len(s) : s[k].file \in Files
    BY <1>1
<1> DEFINE N_ == 1..Len(s)
           h == [k \in N_ |-> s[k].file]
<1>3. h \in Injection(N_, Files)
    BY <1>2 DEF Injection, IsInjective, Calls
<1>4. Cardinality(N_) = Len(s)
    BY <1>2, FS_Interval
<1>5. Cardinality(N_) <= Cardinality(Files)
    BY <1>3, FilesFinite, FS_Injection
<1>6. QED
    BY <1>2, <1>4, <1>5, FilesFinite

\* Opening a call keeps what was true of the calls before it.
LEMMA OpenedKeeps ==
    ASSUME E!IsProject(project), visited \subseteq Files, NEW s, Calls(s, visited),
           NEW f \in Files, NEW prefix \in Seq(Routes),
           \A g : IsLevels(project, g) => <<f, prefix>> \in g[Len(s)],
           Handled(s, visited, endpoints, visited \union {f})
    PROVE  /\ Calls(E!Opened(s, f, prefix), visited \union {f})
           /\ Handled(E!Opened(s, f, prefix), visited \union {f}, endpoints, visited \union {f})
<1> DEFINE call == [file |-> f, prefix |-> prefix, next |-> 1]
           T == [file: Files, prefix: Seq(Routes), next: Nat \ {0}]
<1>1. s \in Seq(T) /\ Len(s) \in 0..Cardinality(Files) /\ DOMAIN s = 1..Len(s)
    BY CallsFit DEF Calls
<1>2. CASE f \in visited \union project.broken
  <2>1. E!Opened(s, f, prefix) = s
      BY <1>2 DEF E!Opened
  <2>2. Calls(s, visited \union {f})
      BY DEF Calls
  <2>3. (visited \union {f}) \ project.broken = visited \ project.broken
      BY <1>2
  <2>4. Handled(s, visited \union {f}, endpoints, visited \union {f})
      BY <2>3 DEF Handled
  <2>5. QED
      BY <2>1, <2>2, <2>4
<1>3. CASE f \notin visited \union project.broken
  <2> DEFINE t == Append(s, call)
  <2>1. E!Opened(s, f, prefix) = t
      BY <1>3 DEF E!Opened
  <2>2. call \in T
      BY DEF T
  <2>3. /\ t \in Seq(T) /\ DOMAIN t = 1..Len(s) + 1 /\ Len(s) \in Nat
        /\ \A k \in DOMAIN s : k \in DOMAIN t /\ t[k] = s[k]
        /\ Len(s) + 1 \in DOMAIN t /\ t[Len(s) + 1] = call
        /\ \A k \in DOMAIN t : k \in DOMAIN s \/ k = Len(s) + 1
    <3> HIDE DEF T, call
    <3>1. QED
        BY <1>1, <2>2
  <2>4. call.file = f /\ call.prefix = prefix /\ call.next = 1
      OBVIOUS
  <2> HIDE DEF t, call
  <2>5. \A k \in DOMAIN s : s[k].file \in visited \ project.broken
      BY DEF Calls
  <2>6. \A k, l \in DOMAIN t : t[k].file = t[l].file => k = l
      BY <1>3, <2>3, <2>4, <2>5 DEF Calls
  <2>7. \A k \in DOMAIN t : t[k].file \in (visited \union {f}) \ project.broken
      BY <1>3, <2>3, <2>4, <2>5
  <2>8. ASSUME NEW g, IsLevels(project, g), NEW k \in DOMAIN t
        PROVE  k - 1 \in 0..Cardinality(Files) /\ <<t[k].file, t[k].prefix>> \in g[k - 1]
    <3>1. CASE k \in DOMAIN s
        BY <2>3, <2>8, <3>1 DEF Calls
    <3>2. CASE k = Len(s) + 1
      <4>1. k - 1 = Len(s)
          BY <2>3, <3>2
      <4>2. QED
          BY <1>1, <2>3, <2>4, <2>8, <3>2, <4>1
    <3>3. QED
        BY <2>3, <3>1, <3>2
  <2>9. Calls(t, visited \union {f})
      BY <2>3, <2>6, <2>7, <2>8 DEF Calls, T
  <2>10. ASSUME NEW h \in (visited \union {f}) \ project.broken,
                NEW i \in DOMAIN project.entries[h], Passed(t, h, i)
         PROVE  h \in visited \ project.broken /\ Passed(s, h, i)
    <3>1. h \in Files
        BY <2>10
    <3>2. i \in Nat /\ i >= 1
        BY <3>1, EntriesTyped
    <3>3. h # f
      <4>1. h = f => i < 1
          BY <2>3, <2>4, <2>10 DEF Passed
      <4>2. QED
          BY <3>2, <4>1
    <3>4. Passed(s, h, i)
        BY <2>3, <2>10 DEF Passed
    <3>5. QED
        BY <2>10, <3>3, <3>4
  <2>11. Handled(t, visited \union {f}, endpoints, visited \union {f})
      BY <2>10 DEF Handled
  <2>12. QED
      BY <2>1, <2>9, <2>11
<1>4. QED
    BY <1>2, <1>3


LEMMA CallSteps ==
    ASSUME NEW c \in [file: Files, prefix: Seq(Routes), next: Nat \ {0}], NEW d,
           d = [c EXCEPT !.next = c.next + 1]
    PROVE  /\ d \in [file: Files, prefix: Seq(Routes), next: Nat \ {0}]
           /\ d.file = c.file /\ d.prefix = c.prefix /\ d.next = c.next + 1
           /\ c.next \in Nat \ {0}
OBVIOUS

\* Stepping over an entry once it is done keeps what was true of the calls.
LEMMA AdvancedKeeps ==
    ASSUME E!IsProject(project), visited \subseteq Files, stack # <<>>, Calls(stack, visited),
           E!top.next <= Len(project.entries[E!top.file]),
           NEW found, NEW known, endpoints \subseteq found, visited \subseteq known,
           Handled(stack, visited, endpoints, visited),
           E!entry.kind \in {"view", "register"} =>
               \A m \in E!Mounts(project) : m[1] = E!top.file => m[2] \o E!entry.route \in found,
           E!entry.kind = "include" => E!entry.target \in known
    PROVE  /\ Len(E!Advanced) = Len(stack)
           /\ Calls(E!Advanced, visited)
           /\ Handled(E!Advanced, visited, found, known)
<1> DEFINE T == [file: Files, prefix: Seq(Routes), next: Nat \ {0}]
           L == Len(stack)
           c == stack[L]
           d == [c EXCEPT !.next = c.next + 1]
           t == [stack EXCEPT ![L] = d]
<1>0. stack \in Seq(T) /\ L \in 0..Cardinality(Files) /\ DOMAIN stack = 1..L
    BY CallsFit DEF Calls
<1>1. stack \in Seq(T) /\ L \in 1..Cardinality(Files) /\ DOMAIN stack = 1..L /\ L \in DOMAIN stack
  <2> HIDE DEF T
  <2>1. L # 0
      BY <1>0
  <2>2. QED
      BY <1>0, <2>1, FilesFinite
<1>2. c \in T
  <2> HIDE DEF T
  <2>1. QED
      BY <1>1
<1>3. d \in T /\ d.file = c.file /\ d.prefix = c.prefix /\ d.next = c.next + 1 /\ c.next \in Nat \ {0}
    BY <1>2, CallSteps
<1>4. E!Advanced = t
    BY DEF E!Advanced
<1>5. /\ t \in Seq(T) /\ Len(t) = L /\ DOMAIN t = DOMAIN stack
      /\ \A k \in DOMAIN stack : t[k] = IF k = L THEN d ELSE stack[k]
  <2> HIDE DEF T, d
  <2>1. QED
      BY <1>1, <1>3
<1>6. \A k \in DOMAIN stack : t[k].file = stack[k].file /\ t[k].prefix = stack[k].prefix
    BY <1>3, <1>5
<1>7. E!top = c /\ E!entry = project.entries[c.file][c.next]
    BY DEF E!top, E!entry
<1> HIDE DEF t, d, c
<1>8. Calls(t, visited)
  <2>1. \A k \in DOMAIN t : t[k].file \in visited \ project.broken
      BY <1>5, <1>6 DEF Calls
  <2>2. \A k, l \in DOMAIN t : t[k].file = t[l].file => k = l
      BY <1>5, <1>6 DEF Calls
  <2>3. ASSUME NEW g, IsLevels(project, g), NEW k \in DOMAIN t
        PROVE  k - 1 \in 0..Cardinality(Files) /\ <<t[k].file, t[k].prefix>> \in g[k - 1]
      BY <1>5, <1>6, <2>3 DEF Calls
  <2>4. QED
      BY <1>5, <2>1, <2>2, <2>3 DEF Calls, T
<1>9. ASSUME NEW f \in visited \ project.broken, NEW i \in DOMAIN project.entries[f], Passed(t, f, i)
      PROVE  Passed(stack, f, i) \/ (f = c.file /\ i = c.next)
  <2>1. i \in Nat
      BY EntriesTyped
  <2>2. CASE f = c.file
    <3>1. i < c.next + 1
      <4>1. t[L] = d /\ L \in DOMAIN t
          BY <1>1, <1>5
      <4>2. i < d.next
          BY <1>3, <1>9, <2>2, <4>1 DEF Passed
      <4>3. QED
          BY <1>3, <4>2
    <3>2. \A k \in DOMAIN stack : stack[k].file = f => k = L
        BY <1>1, <2>2 DEF Calls, c
    <3>3. i < c.next \/ i = c.next
        BY <1>3, <2>1, <3>1
    <3>4. QED
        BY <2>2, <3>2, <3>3 DEF Passed, c
  <2>3. CASE f # c.file
    <3>1. \A k \in DOMAIN stack : stack[k].file = f => t[k] = stack[k]
        BY <1>5, <2>3 DEF c
    <3>2. QED
        BY <1>5, <1>6, <1>9, <3>1 DEF Passed
  <2>4. QED
      BY <2>2, <2>3
<1>10. ASSUME NEW f \in visited \ project.broken, NEW i \in DOMAIN project.entries[f], Passed(t, f, i)
       PROVE  /\ project.entries[f][i].kind \in {"view", "register"} =>
                    \A m \in E!Mounts(project) :
                       m[1] = f => m[2] \o project.entries[f][i].route \in found
              /\ project.entries[f][i].kind = "include" => project.entries[f][i].target \in known
  <2>1. CASE Passed(stack, f, i)
      BY <2>1 DEF Handled
  <2>2. CASE f = c.file /\ i = c.next
      BY <1>7, <2>2
  <2>3. QED
      BY <1>9, <1>10, <2>1, <2>2
<1>11. Handled(t, visited, found, known)
    BY <1>10 DEF Handled
<1>12. QED
    BY <1>4, <1>5, <1>8, <1>11

\* The innermost call and the entry whose turn it is.
LEMMA TopIs ==
    ASSUME E!IsProject(project), stack # <<>>, Calls(stack, visited), visited \subseteq Files
    PROVE  /\ Len(stack) \in 1..Cardinality(Files) /\ Len(stack) \in DOMAIN stack
           /\ E!top.file \in visited \ project.broken /\ E!top.file \in Files
           /\ E!top.prefix \in Seq(Routes) /\ E!top.next \in Nat \ {0}
           /\ E!top.next <= Len(project.entries[E!top.file]) =>
                 E!top.next \in DOMAIN project.entries[E!top.file] /\ E!entry \in E!Entries
           /\ \A g : IsLevels(project, g) => <<E!top.file, E!top.prefix>> \in g[Len(stack) - 1]
<1> DEFINE T == [file: Files, prefix: Seq(Routes), next: Nat \ {0}]
<1>0. stack \in Seq(T) /\ Len(stack) \in 0..Cardinality(Files) /\ DOMAIN stack = 1..Len(stack)
    BY CallsFit DEF Calls
<1>1. stack \in Seq(T) /\ Len(stack) \in 1..Cardinality(Files) /\ Len(stack) \in DOMAIN stack
  <2> HIDE DEF T
  <2>1. Len(stack) # 0
      BY <1>0
  <2>2. QED
      BY <1>0, <2>1, FilesFinite
<1>2. E!top \in T
  <2> HIDE DEF T
  <2>1. QED
      BY <1>1 DEF E!top
<1>3. E!top.file \in Files /\ E!top.prefix \in Seq(Routes) /\ E!top.next \in Nat \ {0}
    BY <1>2
<1>4. E!top.file \in visited \ project.broken
    BY <1>1 DEF E!top, Calls
<1>5. ASSUME E!top.next <= Len(project.entries[E!top.file])
      PROVE  E!top.next \in DOMAIN project.entries[E!top.file] /\ E!entry \in E!Entries
  <2>1. E!top.next \in DOMAIN project.entries[E!top.file]
      BY <1>3, <1>5, EntriesTyped
  <2>2. QED
      BY <1>3, <2>1, EntriesTyped DEF E!entry
<1>6. \A g : IsLevels(project, g) => <<E!top.file, E!top.prefix>> \in g[Len(stack) - 1]
    BY <1>1 DEF E!top, Calls
<1>7. QED
    BY <1>1, <1>3, <1>4, <1>5, <1>6

\* What holds of the next state is stated of its variables.
LEMMA NextPlain ==
    ASSUME project' = project, Calls(stack', visited'),
           roots' \in SUBSET DOMAIN project.order,
           \A n \in roots' : project.order[n] = project.urlconf,
           roots' # {} \/ project.urlconf \in visited',
           visited' \subseteq Files,
           endpoints' \subseteq E!Served(project),
           Handled(stack', visited', endpoints', visited')
    PROVE  PlainInv'
BY DEF PlainInv, Calls, Handled, Passed, IsLevels

LEMMA AddEndpointKeeps ==
    ASSUME E!IsProject(project), E!Plain(project), PlainInv, E!AddEndpoint
    PROVE  PlainInv'
<1>1. PICK g : IsLevels(project, g)
    BY LevelsExist
<1>2. /\ E!IsProject(project) /\ stack # <<>> /\ Calls(stack, visited) /\ visited \subseteq Files
      /\ E!top.next <= Len(project.entries[E!top.file]) /\ E!entry.kind \in {"view", "register"}
      /\ Handled(stack, visited, endpoints, visited) /\ endpoints \subseteq E!Served(project)
  <2>1. E!IsProject(project) /\ stack # <<>> /\ Calls(stack, visited) /\ visited \subseteq Files
        /\ E!top.next <= Len(project.entries[E!top.file]) /\ E!Reports(E!entry)
        /\ Handled(stack, visited, endpoints, visited) /\ endpoints \subseteq E!Served(project)
      BY DEF PlainInv, E!AddEndpoint
  <2>2. project.admins = {}
      BY DEF E!Plain, E!Regular
  <2>3. QED
      BY <2>1, <2>2 DEF E!Reports
<1>3. /\ Len(stack) - 1 \in 0..Cardinality(Files) /\ E!top.file \notin project.broken
      /\ E!top.next \in DOMAIN project.entries[E!top.file]
      /\ <<E!top.file, E!top.prefix>> \in g[Len(stack) - 1]
    BY <1>1, <1>2, TopIs, FilesFinite
<1>4. <<E!top.file, E!top.prefix>> \in E!Mounts(project)
    BY <1>1, <1>3, LevelsGrow
<1>5. \A m \in E!Mounts(project) : m[1] = E!top.file => m = <<E!top.file, E!top.prefix>>
  <2>1. Cardinality(Files) \in 0..Cardinality(Files) /\ E!Mounts(project) = g[Cardinality(Files)]
      BY <1>1, FilesFinite DEF IsLevels
  <2>2. \A m, o \in E!Mounts(project) : m[1] = o[1] => m = o
      BY <1>1, <2>1, PlainLevels
  <2>3. QED
      BY <1>4, <2>2
<1>6. E!Full = E!top.prefix \o E!entry.route
    BY DEF E!Full
<1> DEFINE found == endpoints \union {E!Full}
<1>7. ASSUME NEW m \in E!Mounts(project), m[1] = E!top.file
      PROVE  m[2] \o E!entry.route \in found
  <2>1. m[2] = E!top.prefix
      BY <1>5, <1>7
  <2>2. m[2] \o E!entry.route = E!Full
      BY <1>6, <2>1
  <2>3. QED
      BY <2>2
<1>8. E!Full \in E!Served(project)
  <2>1. E!entry = project.entries[E!top.file][E!top.next]
      BY DEF E!entry
  <2>2. ServedUnder(project, <<E!top.file, E!top.prefix>>, E!Full)
      BY <1>2, <1>3, <1>6, <2>1 DEF ServedUnder
  <2>3. QED
      BY <1>2, <1>4, <2>2, ServedIs
<1>9. endpoints \subseteq found /\ visited \subseteq visited /\ found \subseteq E!Served(project)
    BY <1>2, <1>8
<1> HIDE DEF found
<1>10. Calls(E!Advanced, visited) /\ Handled(E!Advanced, visited, found, visited)
  <2>1. E!entry.kind # "include"
      BY <1>2
  <2>2. QED
      BY <1>2, <1>7, <1>9, <2>1, AdvancedKeeps
<1>11. /\ project' = project /\ stack' = E!Advanced /\ visited' = visited
       /\ endpoints' = found /\ roots' = roots
    BY DEF E!AddEndpoint, found
<1>12. Calls(stack', visited') /\ Handled(stack', visited', endpoints', visited')
    BY <1>10, <1>11
<1>13. /\ roots' \in SUBSET DOMAIN project.order
       /\ \A n \in roots' : project.order[n] = project.urlconf
       /\ roots' # {} \/ project.urlconf \in visited'
       /\ visited' \subseteq Files /\ endpoints' \subseteq E!Served(project)
    BY <1>9, <1>11 DEF PlainInv
<1>14. QED
    BY <1>11, <1>12, <1>13, NextPlain

LEMMA IncludeKeeps ==
    ASSUME E!IsProject(project), E!Plain(project), PlainInv, E!Include
    PROVE  PlainInv'
<1> DEFINE f == E!entry.target
           known == visited \union {f}
<1>2. /\ E!IsProject(project) /\ stack # <<>> /\ Calls(stack, visited) /\ visited \subseteq Files
      /\ E!top.next <= Len(project.entries[E!top.file]) /\ E!entry.kind = "include"
      /\ Handled(stack, visited, endpoints, visited) /\ ~project.nested
    BY DEF PlainInv, E!Include, E!Follows, E!Named
<1>3. /\ Len(stack) \in 1..Cardinality(Files)
      /\ E!top.file \in Files \ project.broken /\ E!top.prefix \in Seq(Routes)
      /\ E!top.next \in DOMAIN project.entries[E!top.file] /\ E!entry \in E!Entries
      /\ E!top.next \in Nat
      /\ \A g : IsLevels(project, g) => <<E!top.file, E!top.prefix>> \in g[Len(stack) - 1]
    BY <1>2, TopIs
<1>4. f \in Files /\ E!entry.route \in Seq(Routes)
    BY <1>3 DEF E!Entries
<1>5. E!Full \in Seq(Routes) /\ E!Full = E!top.prefix \o E!entry.route
    BY <1>3, <1>4 DEF E!Full
<1>6. ASSUME NEW g, IsLevels(project, g) PROVE <<f, E!Full>> \in g[Len(stack)]
  <2> DEFINE n == Len(stack)
             m == <<f, E!Full>>
             b == <<E!top.file, E!top.prefix>>
  <2>1. n - 1 \in 0..Cardinality(Files) /\ n \in 1..Cardinality(Files)
      BY <1>3, FilesFinite
  <2>2. b \in g[n - 1] /\ g[n - 1] \in SUBSET (Files \X Seq(Routes))
      BY <1>3, <1>6, <2>1, PlainLevels
  <2>3. g[n] = E!Deeper(project, g[n - 1])
      BY <1>6, <2>1 DEF IsLevels
  <2>4. E!entry = project.entries[E!top.file][E!top.next]
      BY DEF E!entry
  <2>5. Through(project, m, b, E!top.next)
      BY <1>2, <1>3, <1>5, <2>4 DEF Through, Includes
  <2>6. QED
      BY <1>3, <2>2, <2>3, <2>5, DeeperIs
<1>7. visited \subseteq known /\ known \subseteq Files /\ f \in known
    BY <1>2, <1>4
<1> HIDE DEF known, f
<1>8. /\ Len(E!Advanced) = Len(stack) /\ Calls(E!Advanced, visited)
      /\ Handled(E!Advanced, visited, endpoints, known)
  <2>1. E!entry.kind \notin {"view", "register"} /\ E!entry.target \in known /\ endpoints \subseteq endpoints
      BY <1>2, <1>7 DEF f
  <2>2. QED
      BY <1>2, <1>7, <2>1, AdvancedKeeps
<1>9. /\ Calls(E!Opened(E!Advanced, f, E!Full), known)
      /\ Handled(E!Opened(E!Advanced, f, E!Full), known, endpoints, known)
  <2>1. known = visited \union {f}
      BY DEF known
  <2>2. \A g : IsLevels(project, g) => <<f, E!Full>> \in g[Len(E!Advanced)]
      BY <1>6, <1>8
  <2>3. QED
      BY <1>2, <1>4, <1>5, <1>8, <2>1, <2>2, OpenedKeeps DEF f
<1>10. /\ project' = project /\ stack' = E!Opened(E!Advanced, f, E!Full) /\ visited' = known
       /\ endpoints' = endpoints /\ roots' = roots
    BY <1>2 DEF E!Include, known, f
<1>11. Calls(stack', visited') /\ Handled(stack', visited', endpoints', visited')
    BY <1>9, <1>10
<1>12. /\ roots' \in SUBSET DOMAIN project.order
       /\ \A n \in roots' : project.order[n] = project.urlconf
       /\ roots' # {} \/ project.urlconf \in visited'
       /\ visited' \subseteq Files /\ endpoints' \subseteq E!Served(project)
    BY <1>7, <1>10 DEF PlainInv
<1>13. QED
    BY <1>10, <1>11, <1>12, NextPlain

LEMMA ParseRootKeeps ==
    ASSUME E!IsProject(project), E!Plain(project), PlainInv, E!ParseRoot
    PROVE  PlainInv'
<1> DEFINE f == project.urlconf
           known == visited \union {f}
<1>1. PICK n \in roots : /\ stack' = E!Opened(stack, project.order[n], <<>>)
                         /\ visited' = visited \union {project.order[n]}
                         /\ roots' = roots \ {n}
    BY DEF E!ParseRoot
<1>2. project.order[n] = f
    BY DEF PlainInv
<1>3. /\ project' = project /\ stack' = E!Opened(stack, f, <<>>) /\ visited' = known
      /\ endpoints' = endpoints /\ roots' \subseteq roots /\ stack = <<>>
    BY <1>1, <1>2 DEF E!ParseRoot
<1>4. /\ visited \subseteq Files /\ Calls(stack, visited) /\ f \in Files
      /\ Handled(stack, visited, endpoints, visited)
    BY DEF PlainInv, E!IsProject
<1>5. \A g : IsLevels(project, g) => <<f, <<>>>> \in g[Len(stack)]
  <2>1. Len(stack) = 0
      BY <1>3
  <2>2. QED
      BY <2>1 DEF IsLevels
<1>6. Handled(stack, visited, endpoints, known)
    BY <1>4 DEF Handled
<1>7. <<>> \in Seq(Routes)
    OBVIOUS
<1> HIDE DEF f
<1>8. /\ Calls(E!Opened(stack, f, <<>>), known)
      /\ Handled(E!Opened(stack, f, <<>>), known, endpoints, known)
  <2>1. known = visited \union {f}
      OBVIOUS
  <2> HIDE DEF known
  <2>2. QED
      BY <1>4, <1>5, <1>6, <1>7, <2>1, OpenedKeeps
<1>9. Calls(stack', visited') /\ Handled(stack', visited', endpoints', visited')
    BY <1>3, <1>8
<1>10. /\ roots' \in SUBSET DOMAIN project.order
       /\ \A k \in roots' : project.order[k] = project.urlconf
       /\ roots' # {} \/ project.urlconf \in visited'
       /\ visited' \subseteq Files /\ endpoints' \subseteq E!Served(project)
    BY <1>3, <1>4 DEF PlainInv, f
<1>11. QED
    BY <1>3, <1>9, <1>10, NextPlain

\* Of a plain project only the mount of a router is passed over.
LEMMA PassOverKeeps ==
    ASSUME E!IsProject(project), E!Plain(project), PlainInv, E!PassOver
    PROVE  PlainInv'
<1>1. /\ E!IsProject(project) /\ stack # <<>> /\ Calls(stack, visited) /\ visited \subseteq Files
      /\ E!top.next <= Len(project.entries[E!top.file])
      /\ ~E!Reports(E!entry) /\ ~E!Follows(E!entry)
      /\ Handled(stack, visited, endpoints, visited)
    BY DEF PlainInv, E!PassOver
<1>2. E!top.file \in Files /\ E!top.next \in DOMAIN project.entries[E!top.file]
    BY <1>1, TopIs
<1>3. E!entry = project.entries[E!top.file][E!top.next]
    BY DEF E!entry
<1>4. E!entry.kind \notin {"view", "register", "include"}
    BY <1>1, <1>2, <1>3, PlainEntry DEF E!Reports, E!Follows, E!Named
<1>5. Calls(E!Advanced, visited) /\ Handled(E!Advanced, visited, endpoints, visited)
  <2>1. endpoints \subseteq endpoints /\ visited \subseteq visited
      OBVIOUS
  <2>2. QED
      BY <1>1, <1>4, <2>1, AdvancedKeeps
<1>6. /\ project' = project /\ stack' = E!Advanced /\ visited' = visited
      /\ endpoints' = endpoints /\ roots' = roots
    BY DEF E!PassOver
<1>7. Calls(stack', visited') /\ Handled(stack', visited', endpoints', visited')
    BY <1>5, <1>6
<1>8. /\ roots' \in SUBSET DOMAIN project.order
      /\ \A n \in roots' : project.order[n] = project.urlconf
      /\ roots' # {} \/ project.urlconf \in visited'
      /\ visited' \subseteq Files /\ endpoints' \subseteq E!Served(project)
    BY <1>6 DEF PlainInv
<1>9. QED
    BY <1>6, <1>7, <1>8, NextPlain

\* A call returns when all entries of its file have had their turn.
LEMMA ReturnKeeps ==
    ASSUME E!IsProject(project), E!Plain(project), PlainInv, E!Return
    PROVE  PlainInv'
<1> DEFINE T == [file: Files, prefix: Seq(Routes), next: Nat \ {0}]
           L == Len(stack)
           t == SubSeq(stack, 1, L - 1)
<1>1. /\ E!IsProject(project) /\ stack # <<>> /\ Calls(stack, visited) /\ visited \subseteq Files
      /\ E!top.next > Len(project.entries[E!top.file])
      /\ Handled(stack, visited, endpoints, visited)
    BY DEF PlainInv, E!Return
<1>2. /\ L \in 1..Cardinality(Files) /\ L \in DOMAIN stack /\ E!top.file \in Files
      /\ E!top.next \in Nat
    BY <1>1, TopIs
<1>3. stack \in Seq(T) /\ DOMAIN stack = 1..L
    BY <1>1, CallsFit DEF Calls
<1>4. /\ t \in Seq(T) /\ DOMAIN t = 1..L - 1
      /\ \A k \in 1..L - 1 : k \in DOMAIN stack /\ t[k] = stack[k]
  <2> HIDE DEF T
  <2>1. QED
      BY <1>2, <1>3, FilesFinite
<1>5. E!top = stack[L]
    BY DEF E!top
<1>6. project' = project /\ stack' = t /\ visited' = visited /\ endpoints' = endpoints /\ roots' = roots
    BY DEF E!Return
<1> HIDE DEF t
<1>7. Calls(t, visited)
  <2>1. ASSUME NEW g, IsLevels(project, g), NEW k \in DOMAIN t
        PROVE  k - 1 \in 0..Cardinality(Files) /\ <<t[k].file, t[k].prefix>> \in g[k - 1]
      BY <1>1, <1>4, <2>1 DEF Calls
  <2>2. \A k \in DOMAIN t : t[k].file \in visited \ project.broken
      BY <1>1, <1>4 DEF Calls
  <2>3. \A k, l \in DOMAIN t : t[k].file = t[l].file => k = l
      BY <1>1, <1>4 DEF Calls
  <2>4. QED
      BY <1>4, <2>1, <2>2, <2>3 DEF Calls, T
<1>8. ASSUME NEW f \in visited \ project.broken, NEW i \in DOMAIN project.entries[f], Passed(t, f, i)
      PROVE  Passed(stack, f, i)
  <2>1. f \in Files
      BY <1>1
  <2>2. i \in Nat /\ i <= Len(project.entries[f]) /\ Len(project.entries[f]) \in Nat
      BY <2>1, EntriesTyped
  <2>3. f = E!top.file => i < E!top.next
      BY <1>1, <1>2, <2>2
  <2>4. \A k \in DOMAIN stack : k = L \/ k \in 1..L - 1
      BY <1>2, <1>3
  <2>5. \A k \in DOMAIN stack : stack[k].file = f => i < stack[k].next
      BY <1>4, <1>5, <1>8, <2>3, <2>4 DEF Passed
  <2>6. QED
      BY <2>5 DEF Passed
<1>9. Handled(t, visited, endpoints, visited)
    BY <1>1, <1>8 DEF Handled
<1>10. Calls(stack', visited') /\ Handled(stack', visited', endpoints', visited')
    BY <1>6, <1>7, <1>9
<1>11. /\ roots' \in SUBSET DOMAIN project.order
       /\ \A n \in roots' : project.order[n] = project.urlconf
       /\ roots' # {} \/ project.urlconf \in visited'
       /\ visited' \subseteq Files /\ endpoints' \subseteq E!Served(project)
    BY <1>6 DEF PlainInv
<1>12. QED
    BY <1>6, <1>10, <1>11, NextPlain

LEMMA EndpointInit == E!Init => EndpointInv
BY DEF E!Init, EndpointInv

LEMMA EndpointNext ==
    ASSUME EndpointInv, [E!Next]_(E!vars)
    PROVE  EndpointInv'
<1>1. CASE E!Start
  <2>1. PICK p \in EndpointProjects : project' = p /\ roots' = E!Roots(p) /\ status' = "parsing"
      BY <1>1 DEF E!Start
  <2>2. /\ E!IsProject(project')
        /\ stack' = <<>> /\ visited' = {} /\ endpoints' = {}
      BY <1>1, <2>1, EndpointAssumption DEF E!Start, EndpointInv
  <2>3. ASSUME E!Plain(p) PROVE PlainInv'
    <3>1. E!IsProject(p)
        BY <2>1, EndpointAssumption
    <3>2. /\ roots' \in SUBSET DOMAIN p.order /\ roots' # {}
          /\ \A n \in roots' : p.order[n] = p.urlconf
        BY <2>1, <2>3, <3>1, RootIsUrlconf
    <3>3. Calls(<<>>, {})'
      <4>1. /\ <<>> \in Seq([file: Files, prefix: Seq(Routes), next: Nat \ {0}])
            /\ DOMAIN <<>> = {}
          OBVIOUS
      <4>2. QED
          BY <4>1 DEF Calls
    <3>4. Handled(<<>>, {}, {}, {})'
        BY DEF Handled
    <3>5. QED
        BY <2>1, <2>2, <3>2, <3>3, <3>4 DEF PlainInv
  <2>4. QED
      BY <2>1, <2>2, <2>3 DEF EndpointInv
<1>2. CASE E!ParseRoot
    BY <1>2, ParseRootKeeps DEF EndpointInv, E!ParseRoot
<1>3. CASE E!AddEndpoint
    BY <1>3, AddEndpointKeeps DEF EndpointInv, E!AddEndpoint
<1>4. CASE E!Include
    BY <1>4, IncludeKeeps DEF EndpointInv, E!Include
<1>5. CASE E!Return
    BY <1>5, ReturnKeeps DEF EndpointInv, E!Return
<1>6. CASE E!Finish
  <2>1. /\ project' = project /\ stack' = stack /\ visited' = visited /\ endpoints' = endpoints
        /\ roots' = roots /\ status = "parsing" /\ status' = "done" /\ stack = <<>> /\ roots = {}
      BY <1>6 DEF E!Finish
  <2>2. PlainInv => PlainInv'
      BY <2>1, NextPlain DEF PlainInv
  <2>3. QED
      BY <2>1, <2>2 DEF EndpointInv
<1>7. CASE UNCHANGED E!vars
  <2>1. /\ project' = project /\ stack' = stack /\ visited' = visited /\ endpoints' = endpoints
        /\ roots' = roots /\ status' = status
      BY <1>7 DEF E!vars
  <2>2. PlainInv => PlainInv'
      BY <2>1, NextPlain DEF PlainInv
  <2>3. QED
      BY <2>1, <2>2 DEF EndpointInv
<1>8. CASE E!PassOver
    BY <1>8, PassOverKeeps DEF EndpointInv, E!PassOver
<1>9. QED
    BY <1>1, <1>2, <1>3, <1>4, <1>5, <1>6, <1>7, <1>8 DEF E!Next

\* At the end every mounted file was visited, so that every view was reported.
LEMMA EndpointsHeld == EndpointInv => E!PlainRoutesAreServed
<1> SUFFICES ASSUME EndpointInv, status = "done", E!Plain(project)
             PROVE  endpoints = E!Served(project)
    BY DEF E!PlainRoutesAreServed
<1>1. /\ E!IsProject(project) /\ PlainInv /\ stack = <<>> /\ project.urlconf \in visited
    BY DEF EndpointInv, PlainInv
<1>2. PICK g : IsLevels(project, g)
    BY LevelsExist
<1> DEFINE K == Cardinality(Files)
           Seen(n) == \A m \in g[n] : m[1] \in visited
<1>3. K \in Nat
    BY FilesFinite
<1>4. ASSUME NEW f \in visited \ project.broken, NEW i \in DOMAIN project.entries[f]
      PROVE  /\ project.entries[f][i].kind \in {"view", "register"} =>
                   \A m \in E!Mounts(project) :
                      m[1] = f => m[2] \o project.entries[f][i].route \in endpoints
             /\ project.entries[f][i].kind = "include" => project.entries[f][i].target \in visited
  <2>1. Passed(stack, f, i)
    <3>1. DOMAIN stack = {}
        BY <1>1
    <3>2. QED
        BY <3>1 DEF Passed
  <2>2. QED
      BY <1>1, <2>1 DEF PlainInv, Handled
<1>5. Seen(0)
    BY <1>1, <1>2 DEF IsLevels
<1>6. ASSUME NEW n \in 1..K, Seen(n - 1) PROVE Seen(n)
  <2>1. n \in 0..K
      BY <1>3
  <2>2. ASSUME NEW m \in g[n] PROVE m[1] \in visited
    <3>1. CASE m = <<project.urlconf, <<>>>>
        BY <1>1, <3>1
    <3>2. CASE \E b \in g[n - 1], i \in Nat : Through(project, m, b, i)
      <4>1. PICK b \in g[n - 1], i \in Nat : Through(project, m, b, i)
          BY <3>2
      <4>2. b[1] \in visited
          BY <1>6
      <4>3. QED
          BY <1>4, <4>1, <4>2 DEF Through, Includes
    <3>3. QED
        BY <1>1, <1>2, <2>1, <3>1, <3>2, PlainLevels
  <2>3. QED
      BY <2>2
<1> HIDE DEF Seen
<1>7. Seen(K)
  <2> DEFINE F == {k \in 0..K : ~Seen(k)}
  <2>1. CASE F # {}
    <3>1. F \in SUBSET Nat
        BY <1>3
    <3>2. PICK k \in F : \A m \in F : k <= m
        BY <2>1, <3>1, Least
    <3>3. k \in 1..K /\ k - 1 \in 0..K /\ ~(k <= k - 1)
        BY <1>3, <1>5, <3>1, <3>2
    <3>4. QED
        BY <1>6, <3>2, <3>3
  <2>2. QED
      BY <1>3, <2>1
<1>8. \A m \in E!Mounts(project) : m[1] \in visited
    BY <1>2, <1>7 DEF Seen, IsLevels
<1>9. ASSUME NEW x \in E!Served(project) PROVE x \in endpoints
  <2>1. PICK m \in E!Mounts(project) : ServedUnder(project, m, x)
      BY <1>1, <1>9, ServedIs
  <2>2. PICK i \in DOMAIN project.entries[m[1]] :
            /\ project.entries[m[1]][i].kind \in {"view", "register"}
            /\ x = m[2] \o project.entries[m[1]][i].route
      BY <2>1 DEF ServedUnder
  <2>3. m[1] \in visited \ project.broken
      BY <1>8, <2>1 DEF ServedUnder
  <2> DEFINE f == m[1]
  <2>4. f \in visited \ project.broken /\ i \in DOMAIN project.entries[f]
        /\ project.entries[f][i].kind \in {"view", "register"}
      BY <2>2, <2>3
  <2>5. x = m[2] \o project.entries[f][i].route
      BY <2>2
  <2>6. m[1] = f
      OBVIOUS
  <2> HIDE DEF f
  <2>7. \A n \in E!Mounts(project) : n[1] = f => n[2] \o project.entries[f][i].route \in endpoints
      BY <1>4, <2>4
  <2>8. QED
      BY <2>5, <2>6, <2>7
<1>10. QED
    BY <1>1, <1>9 DEF PlainInv

-----------------------------------------------------------------------------
(* The SAST engine *)

LEMMA NodesTyped ==
    ASSUME NEW f, A!IsFile(f)
    PROVE  /\ Len(f.nodes) \in Nat /\ DOMAIN f.nodes = 1..Len(f.nodes)
           /\ \A i \in DOMAIN f.nodes : A!IsNode(f.nodes, i) /\ f.nodes[i].depth \in Nat
BY DEF A!IsFile, A!IsNode

LEMMA FirstIs ==
    ASSUME NEW f, A!IsFile(f), NEW rest \in SUBSET DOMAIN f.nodes, rest # {}
    PROVE  /\ A!FirstOf(f.nodes, rest) \in rest
           /\ \A j \in rest : A!Before(f.nodes, A!FirstOf(f.nodes, rest), j)
<1> DEFINE depths == {f.nodes[i].depth : i \in rest}
<1>1. depths \in SUBSET Nat /\ depths # {}
    BY NodesTyped
<1>2. PICK d \in depths : \A c \in depths : d <= c
    BY <1>1, Least
<1> DEFINE top == {i \in rest : f.nodes[i].depth = d}
<1>3. top \in SUBSET Nat /\ top # {}
    BY <1>2, NodesTyped
<1>4. PICK i \in top : \A j \in top : i <= j
    BY <1>3, Least
<1>5. ASSUME NEW j \in rest PROVE A!Before(f.nodes, i, j)
  <2>1. f.nodes[j].depth \in Nat /\ d \in Nat /\ d <= f.nodes[j].depth /\ f.nodes[i].depth = d
      BY <1>1, <1>2, <1>4, NodesTyped
  <2>2. CASE f.nodes[j].depth = d
      BY <1>4, <2>1, <2>2 DEF A!Before
  <2>3. CASE f.nodes[j].depth # d
    <3>1. d < f.nodes[j].depth
        BY <2>1, <2>3
    <3>2. QED
        BY <2>1, <3>1 DEF A!Before
  <2>4. QED
      BY <2>2, <2>3
<1>6. QED
    BY <1>4, <1>5 DEF A!FirstOf

\* The nodes of the function are looked at one after the other.
IsTaint(nodes, d, g) ==
    LET K == Cardinality(A!NodesIn(nodes, d))
    IN  /\ A!TaintOf(nodes, d) = g[K].names
        /\ g[0] = [rest |-> A!NodesIn(nodes, d), names |-> A!UrlArguments(nodes[d])]
        /\ \A n \in 1..K :
              /\ g[n].rest = g[n - 1].rest \ {A!FirstOf(nodes, g[n - 1].rest)}
              /\ g[n].names = g[n - 1].names \union
                    A!Spread(g[n - 1].names, nodes[A!FirstOf(nodes, g[n - 1].rest)])

LEMMA TaintExists ==
    ASSUME NEW nodes, NEW d, Cardinality(A!NodesIn(nodes, d)) \in Nat
    PROVE  \E g : IsTaint(nodes, d, g)
<1> DEFINE K == Cardinality(A!NodesIn(nodes, d))
           base == [rest |-> A!NodesIn(nodes, d), names |-> A!UrlArguments(nodes[d])]
           After(last) ==
              [rest  |-> last.rest \ {A!FirstOf(nodes, last.rest)},
               names |-> last.names \union A!Spread(last.names, nodes[A!FirstOf(nodes, last.rest)])]
           Step(g, n) == IF n = 0 THEN base ELSE After(g[n - 1])
           P(k) == \E g : g = [n \in 0..k |-> Step(g, n)]
<1>0. \A last : /\ After(last).rest = last.rest \ {A!FirstOf(nodes, last.rest)}
                /\ After(last).names = last.names \union
                        A!Spread(last.names, nodes[A!FirstOf(nodes, last.rest)])
    OBVIOUS
<1> HIDE DEF base, After
<1>1. P(0)
  <2> DEFINE g == [n \in 0..0 |-> base]
  <2>1. \A n \in 0..0 : g[n] = Step(g, n)
      OBVIOUS
  <2>2. g = [n \in 0..0 |-> Step(g, n)]
    <3>1. g = [n \in 0..0 |-> g[n]]
        OBVIOUS
    <3> HIDE DEF g, Step
    <3>2. QED
        BY <2>1, <3>1
  <2>3. QED
      BY <2>2
<1>2. ASSUME NEW k \in Nat, P(k) PROVE P(k + 1)
  <2>1. PICK g : g = [n \in 0..k |-> Step(g, n)]
      BY <1>2
  <2> DEFINE h == [n \in 0..k + 1 |-> IF n = k + 1 THEN After(g[k]) ELSE g[n]]
  <2>2. \A n \in 0..k : g[n] = Step(g, n)
    <3> HIDE DEF Step
    <3>1. QED
        BY <2>1
  <2>3. ASSUME NEW n \in 0..k + 1 PROVE h[n] = Step(h, n)
    <3>1. CASE n = k + 1
      <4>1. h[n - 1] = g[k] /\ n # 0
          BY <3>1
      <4>2. QED
          BY <3>1, <4>1
    <3>2. CASE n \in 1..k
      <4>1. h[n] = g[n] /\ h[n - 1] = g[n - 1] /\ n # 0 /\ n \in 0..k
          BY <3>2
      <4>2. QED
          BY <2>2, <4>1
    <3>3. CASE n = 0
      <4>1. h[0] = g[0]
          OBVIOUS
      <4>2. QED
          BY <2>2, <3>3, <4>1
    <3>4. QED
        BY <3>1, <3>2, <3>3
  <2>4. h = [n \in 0..k + 1 |-> h[n]]
      OBVIOUS
  <2>5. h = [n \in 0..k + 1 |-> Step(h, n)]
    <3> HIDE DEF h, Step
    <3>1. QED
        BY <2>3, <2>4
  <2>6. QED
      BY <2>5
<1> HIDE DEF P
<1>3. \A k \in Nat : P(k)
  <2> DEFINE F == {k \in Nat : ~P(k)}
  <2>1. CASE F # {}
    <3>1. PICK k \in F : \A m \in F : k <= m
        BY <2>1, Least
    <3>2. k \in Nat /\ k # 0 /\ ~P(k)
        BY <1>1, <3>1
    <3>3. k - 1 \in Nat /\ k - 1 \notin F
        BY <3>1, <3>2
    <3>4. P(k - 1) /\ (k - 1) + 1 = k
        BY <3>2, <3>3
    <3>5. QED
        BY <1>2, <3>2, <3>3, <3>4
  <2>2. QED
      BY <2>1
<1>4. K \in Nat /\ A!Cardinality(A!NodesIn(nodes, d)) = K
  <2>1. A!Cardinality(A!NodesIn(nodes, d)) = Cardinality(A!NodesIn(nodes, d))
      BY DEF A!Cardinality, Cardinality
  <2>2. QED
      BY <2>1
<1> HIDE DEF K
<1> DEFINE g == CHOOSE g : g = [n \in 0..K |-> Step(g, n)]
<1>5. g = [n \in 0..K |-> Step(g, n)]
  <2>1. \E x : x = [n \in 0..K |-> Step(x, n)]
      BY <1>3, <1>4 DEF P
  <2> HIDE DEF Step
  <2>2. QED
      BY <2>1
<1>6. A!TaintOf(nodes, d) = g[K].names
    BY <1>4 DEF A!TaintOf, base, After
<1> HIDE DEF g
<1>7. \A n \in 0..K : g[n] = Step(g, n)
  <2> HIDE DEF Step
  <2>1. QED
      BY <1>5
<1>8. g[0] = base
    BY <1>4, <1>7
<1>9. \A n \in 1..K : g[n] = After(g[n - 1])
    BY <1>4, <1>7
<1>10. QED
    BY <1>0, <1>6, <1>8, <1>9 DEF K, IsTaint, base

LEMMA NodesInFinite ==
    ASSUME NEW f, A!IsFile(f), NEW d
    PROVE  IsFiniteSet(A!NodesIn(f.nodes, d)) /\ Cardinality(A!NodesIn(f.nodes, d)) \in Nat
<1>1. A!NodesIn(f.nodes, d) \in SUBSET (1..Len(f.nodes)) /\ Len(f.nodes) \in Nat
    BY NodesTyped DEF A!NodesIn
<1>2. IsFiniteSet(1..Len(f.nodes))
    BY <1>1, FS_Interval
<1>3. IsFiniteSet(A!NodesIn(f.nodes, d))
    BY <1>1, <1>2, FS_Subset
<1>4. QED
    BY <1>3, FS_CardinalityType

\* One node of the function after the other, none of them left out.
RunOf(nodes, d, K, g) ==
    /\ g[0].rest = A!NodesIn(nodes, d) /\ g[K].rest = {}
    /\ g[0].names = A!UrlArguments(nodes[d]) /\ A!TaintOf(nodes, d) = g[K].names
    /\ \A n \in 0..K : g[n].rest \in SUBSET A!NodesIn(nodes, d)
    /\ \A n \in 1..K : \E i \in g[n - 1].rest :
          /\ \A j \in g[n - 1].rest : A!Before(nodes, i, j)
          /\ g[n].rest = g[n - 1].rest \ {i}
          /\ g[n].names = g[n - 1].names \union A!Spread(g[n - 1].names, nodes[i])

LEMMA TaintRun ==
    ASSUME NEW f, A!IsFile(f), NEW d, NEW g, IsTaint(f.nodes, d, g)
    PROVE  RunOf(f.nodes, d, Cardinality(A!NodesIn(f.nodes, d)), g)
<1> DEFINE nodesIn == A!NodesIn(f.nodes, d)
           K == Cardinality(nodesIn)
           Left(n) == /\ g[n].rest \in SUBSET nodesIn
                    /\ IsFiniteSet(g[n].rest) /\ Cardinality(g[n].rest) = K - n
<1>1. nodesIn \in SUBSET DOMAIN f.nodes
    BY DEF A!NodesIn
<1>2. IsFiniteSet(nodesIn) /\ K \in Nat
    BY NodesInFinite
<1>3. /\ A!TaintOf(f.nodes, d) = g[K].names
      /\ g[0].rest = nodesIn /\ g[0].names = A!UrlArguments(f.nodes[d])
      /\ \A n \in 1..K :
            /\ g[n].rest = g[n - 1].rest \ {A!FirstOf(f.nodes, g[n - 1].rest)}
            /\ g[n].names = g[n - 1].names \union
                  A!Spread(g[n - 1].names, f.nodes[A!FirstOf(f.nodes, g[n - 1].rest)])
    BY DEF IsTaint
<1> HIDE DEF nodesIn, K
<1>4. Left(0)
    BY <1>2, <1>3 DEF K
<1>5. ASSUME NEW n \in 1..K, Left(n - 1)
      PROVE  /\ Left(n) /\ A!FirstOf(f.nodes, g[n - 1].rest) \in g[n - 1].rest
             /\ \A j \in g[n - 1].rest : A!Before(f.nodes, A!FirstOf(f.nodes, g[n - 1].rest), j)
  <2>1. /\ n \in Nat /\ n - 1 \in Nat /\ K - (n - 1) \in Nat /\ K - (n - 1) # 0
        /\ K - n = (K - (n - 1)) - 1
      BY <1>2
  <2> DEFINE rest == g[n - 1].rest
             i == A!FirstOf(f.nodes, rest)
  <2>2. rest \in SUBSET nodesIn /\ IsFiniteSet(rest) /\ Cardinality(rest) = K - (n - 1)
      BY <1>5
  <2>3. g[n].rest = rest \ {i}
      BY <1>3
  <2> HIDE DEF rest
  <2>4. rest # {}
      BY <2>1, <2>2, FS_EmptySet
  <2>5. i \in rest /\ \A j \in rest : A!Before(f.nodes, i, j)
      BY <1>1, <2>2, <2>4, FirstIs
  <2> HIDE DEF i
  <2>6. IsFiniteSet(rest \ {i}) /\ Cardinality(rest \ {i}) = Cardinality(rest) - 1
      BY <2>2, <2>5, FS_RemoveElement
  <2>7. Left(n)
      BY <2>1, <2>2, <2>3, <2>6
  <2>8. QED
      BY <2>5, <2>7 DEF rest, i
<1> HIDE DEF Left
<1>6. ASSUME NEW n \in 0..K PROVE Left(n)
  <2> DEFINE F == {k \in 0..K : ~Left(k)}
  <2>1. CASE F # {}
    <3>1. F \in SUBSET Nat
        BY <1>2
    <3>2. PICK k \in F : \A m \in F : k <= m
        BY <2>1, <3>1, Least
    <3>3. k \in 1..K /\ k - 1 \in 0..K /\ ~(k <= k - 1)
        BY <1>2, <1>4, <3>1, <3>2
    <3>4. Left(k - 1)
        BY <3>2, <3>3
    <3>5. QED
        BY <1>5, <3>2, <3>3, <3>4
  <2>2. QED
      BY <2>1
<1>7. g[K].rest = {}
  <2>1. Left(K) /\ K - K = 0
      BY <1>2, <1>6
  <2>2. QED
      BY <2>1, FS_EmptySet DEF Left
<1>8. \A n \in 0..K : g[n].rest \in SUBSET nodesIn
    BY <1>6 DEF Left
<1>9. ASSUME NEW n \in 1..K
      PROVE  \E i \in g[n - 1].rest :
                /\ \A j \in g[n - 1].rest : A!Before(f.nodes, i, j)
                /\ g[n].rest = g[n - 1].rest \ {i}
                /\ g[n].names = g[n - 1].names \union A!Spread(g[n - 1].names, f.nodes[i])
  <2>1. n - 1 \in 0..K
      BY <1>2
  <2>2. QED
      BY <1>3, <1>5, <1>6, <2>1
<1>10. RunOf(f.nodes, d, K, g)
    BY <1>3, <1>7, <1>8, <1>9 DEF nodesIn, RunOf
<1>11. QED
    BY <1>10 DEF nodesIn, K

\* What is tainted stays tainted, from the arguments of the URL on.
LEMMA TaintGrows ==
    ASSUME NEW f, A!IsFile(f), NEW d, NEW g, IsTaint(f.nodes, d, g),
           NEW n \in 0..Cardinality(A!NodesIn(f.nodes, d)), NEW m \in 0..n
    PROVE  g[m].names \subseteq g[n].names
<1> DEFINE K == Cardinality(A!NodesIn(f.nodes, d))
           F == {k \in m..n : ~(g[m].names \subseteq g[k].names)}
<1>1. K \in Nat /\ RunOf(f.nodes, d, K, g)
    BY NodesInFinite, TaintRun
<1> HIDE DEF K
<1>2. n \in 0..K /\ F \in SUBSET Nat
    BY <1>1 DEF K
<1>3. CASE F # {}
  <2>1. PICK k \in F : \A j \in F : k <= j
      BY <1>2, <1>3, Least
  <2>2. k # m
      BY <2>1
  <2>3. k \in 1..K /\ k - 1 \in m..n /\ ~(k <= k - 1)
      BY <1>1, <1>2, <2>1, <2>2
  <2>4. g[m].names \subseteq g[k - 1].names
      BY <2>1, <2>3
  <2>5. QED
      BY <1>1, <2>1, <2>3, <2>4 DEF RunOf
<1>4. QED
  <2>1. n \in m..n
      BY <1>1, <1>2
  <2>2. QED
      BY <1>3, <2>1

\* The arguments that are tainted from the start come after the request, and those
\* after a first request are all tainted.
LEMMA ArgumentsBetween ==
    ASSUME NEW f, A!IsFile(f), NEW d \in A!Defs(f.nodes)
    PROVE  /\ A!UrlArguments(f.nodes[d]) \subseteq A!UrlParameters(f.nodes[d])
           /\ A!Captures(f.nodes[d]) \subseteq A!UrlArguments(f.nodes[d])
<1> DEFINE params == f.nodes[d].params
<1>1. params \in Seq(Names \union {"request", "req", "self"})
    BY NodesTyped DEF A!Defs, A!IsNode
<1>2. ASSUME params # <<>>
      PROVE  /\ Head(params) = params[1]
             /\ \A x \in A!Range(Tail(params)) : \E j \in DOMAIN params : 1 < j /\ x = params[j]
  <2>1. Len(params) \in Nat \ {0} /\ DOMAIN params = 1..Len(params)
      BY <1>1, <1>2
  <2>2. /\ DOMAIN Tail(params) = 1..Len(params) - 1
        /\ \A k \in 1..Len(params) - 1 : Tail(params)[k] = params[k + 1]
      BY <1>1, <1>2, <2>1
  <2>3. ASSUME NEW x \in A!Range(Tail(params))
        PROVE  \E j \in DOMAIN params : 1 < j /\ x = params[j]
    <3>1. PICK k \in DOMAIN Tail(params) : x = Tail(params)[k]
        BY <2>3 DEF A!Range
    <3>2. k + 1 \in DOMAIN params /\ 1 < k + 1 /\ x = params[k + 1]
        BY <2>1, <2>2, <3>1
    <3>3. QED
        BY <3>2
  <2>4. QED
      BY <1>1, <1>2, <2>3
<1>3. A!UrlArguments(f.nodes[d]) \subseteq A!UrlParameters(f.nodes[d])
  <2>1. ASSUME NEW x \in A!UrlArguments(f.nodes[d])
        PROVE  x \in A!UrlParameters(f.nodes[d])
    <3>1. params # <<>> /\ Head(params) \in {"request", "req"} /\ x \in A!Range(Tail(params))
        BY <2>1 DEF A!UrlArguments
    <3>2. PICK j \in DOMAIN params : 1 < j /\ x = params[j]
        BY <1>2, <3>1
    <3>3. 1 \in 1..j - 1 /\ 1 <= 2 /\ params[1] \in {"request", "req"}
        BY <1>1, <1>2, <3>1, <3>2
    <3>4. QED
        BY <3>2, <3>3 DEF A!UrlParameters
  <2>2. QED
      BY <2>1
<1>4. A!Captures(f.nodes[d]) \subseteq A!UrlArguments(f.nodes[d])
    BY <1>2 DEF A!Captures, A!UrlArguments, A!IsView
<1>5. QED
    BY <1>3, <1>4

\* No name is tainted that no assignments lead to.
LEMMA TaintIsConfined ==
    ASSUME NEW f, A!IsFile(f), NEW d \in A!Defs(f.nodes),
           NEW names, A!Confines(f.nodes, d, names)
    PROVE  A!TaintOf(f.nodes, d) \subseteq names
<1> DEFINE nodesIn == A!NodesIn(f.nodes, d)
           K == Cardinality(nodesIn)
<1>1. K \in Nat
    BY NodesInFinite
<1>2. PICK g : IsTaint(f.nodes, d, g)
    BY <1>1, TaintExists
<1>3. RunOf(f.nodes, d, K, g)
    BY <1>2, TaintRun
<1>4. ASSUME NEW i \in nodesIn, NEW known \in SUBSET names
      PROVE  A!Spread(known, f.nodes[i]) \subseteq names
  <2>1. i \in DOMAIN f.nodes
      BY DEF A!NodesIn
  <2>2. "request" \in names /\ "req" \in names
      BY DEF A!Confines
  <2>3. CASE f.nodes[i].kind = "assign"
    <3>1. i \in A!Assigns(f.nodes, d)
        BY <2>3 DEF A!Assigns
    <3>2. A!Tainted(known, f.nodes[i].arg) => f.nodes[i].target \in names
        BY <2>2, <3>1 DEF A!Confines, A!Tainted
    <3>3. QED
        BY <2>3, <3>2 DEF A!Spread
  <2>4. CASE f.nodes[i].kind # "assign"
    <3>1. A!Spread(known, f.nodes[i]) \subseteq {"request", "req"}
        BY <2>4 DEF A!Spread
    <3>2. QED
        BY <2>2, <3>1
  <2>5. QED
      BY <2>3, <2>4
<1> HIDE DEF nodesIn, K
<1>5. g[0].names \subseteq names
    BY <1>3, ArgumentsBetween DEF A!Confines, RunOf
<1>6. g[K].names \subseteq names
  <2> DEFINE F == {k \in 0..K : ~(g[k].names \subseteq names)}
  <2>1. CASE F # {}
    <3>1. F \in SUBSET Nat
        BY <1>1
    <3>2. PICK k \in F : \A m \in F : k <= m
        BY <2>1, <3>1, Least
    <3>3. k \in 1..K /\ k - 1 \in 0..K /\ ~(k <= k - 1)
        BY <1>1, <1>5, <3>1, <3>2
    <3>4. g[k - 1].names \subseteq names
        BY <3>2, <3>3
    <3>5. PICK i \in g[k - 1].rest :
              g[k].names = g[k - 1].names \union A!Spread(g[k - 1].names, f.nodes[i])
        BY <1>3, <3>3 DEF RunOf
    <3>6. i \in nodesIn
        BY <1>3, <3>3 DEF RunOf, nodesIn
    <3>7. QED
        BY <1>4, <3>2, <3>4, <3>5, <3>6
  <2>2. QED
      BY <1>1, <2>1
<1>7. QED
    BY <1>3, <1>6 DEF RunOf

\* Nothing is missed that assignments lead to down the text without leaving a block:
\* an assignment that lies above another one, and no deeper, has its turn before.
LEMMA FlowIsTainted ==
    ASSUME NEW f, A!IsFile(f), NEW d \in A!Defs(f.nodes)
    PROVE  A!Captures(f.nodes[d]) \union {f.nodes[i].target : i \in A!Flow(f.nodes, d)}
              \subseteq A!TaintOf(f.nodes, d)
<1> DEFINE nodesIn == A!NodesIn(f.nodes, d)
           K == Cardinality(nodesIn)
<1>0. A!Captures(f.nodes[d]) \subseteq A!UrlArguments(f.nodes[d])
    BY ArgumentsBetween
<1>1. K \in Nat
    BY NodesInFinite
<1>2. PICK g : IsTaint(f.nodes, d, g)
    BY <1>1, TaintExists
<1>3. RunOf(f.nodes, d, K, g)
    BY <1>2, TaintRun
<1>4. \A n \in 0..K : \A m \in 0..n : g[m].names \subseteq g[n].names
    BY <1>2, TaintGrows
<1> DEFINE assigns == {i \in A!Assigns(f.nodes, d) :
                          \A n \in 0..K : i \notin g[n].rest => f.nodes[i].target \in g[n].names}
<1>5. ASSUME NEW i \in A!Assigns(f.nodes, d), A!Carries(f.nodes, d, i, assigns),
             NEW n \in 0..K, i \notin g[n].rest
      PROVE  f.nodes[i].target \in g[n].names
  <2> DEFINE F == {k \in 0..n : i \notin g[k].rest}
  <2>1. i \in nodesIn /\ f.nodes[i].kind = "assign" /\ i \in DOMAIN f.nodes
      BY DEF A!Assigns, A!NodesIn
  <2> HIDE DEF nodesIn, K, assigns
  <2>2. F \in SUBSET Nat /\ n \in F /\ n \in Nat
      BY <1>1, <1>5
  <2>3. PICK k \in F : \A m \in F : k <= m
      BY <2>2, Least
  <2>4. k # 0
      BY <1>3, <2>1, <2>3 DEF RunOf, nodesIn
  <2>5. k \in 1..K /\ k - 1 \in 0..K /\ k - 1 \in 0..n /\ k \in 0..n /\ ~(k <= k - 1)
      BY <1>1, <2>2, <2>3, <2>4
  <2>6. i \in g[k - 1].rest /\ i \notin g[k].rest
      BY <2>3, <2>5
  <2>7. /\ \A j \in g[k - 1].rest : A!Before(f.nodes, i, j)
        /\ g[k].names = g[k - 1].names \union A!Spread(g[k - 1].names, f.nodes[i])
    <3>1. PICK x \in g[k - 1].rest :
              /\ \A j \in g[k - 1].rest : A!Before(f.nodes, x, j)
              /\ g[k].rest = g[k - 1].rest \ {x}
              /\ g[k].names = g[k - 1].names \union A!Spread(g[k - 1].names, f.nodes[x])
        BY <1>3, <2>5 DEF RunOf
    <3>2. x = i
        BY <2>6, <3>1
    <3>3. QED
        BY <3>1, <3>2
  <2>8. A!Tainted(g[k - 1].names, f.nodes[i].arg)
    <3>1. CASE f.nodes[i].arg.atom \in {"request"} \union A!Captures(f.nodes[d])
      <4>1. 0 \in 0..k - 1 /\ g[0].names \subseteq g[k - 1].names
          BY <1>4, <2>5
      <4>2. QED
          BY <1>0, <1>3, <1>5, <3>1, <4>1 DEF RunOf, A!Carries, A!Tainted
    <3>2. CASE \E j \in assigns : /\ j < i /\ f.nodes[j].depth <= f.nodes[i].depth
                                  /\ f.nodes[j].target = f.nodes[i].arg.atom
      <4>1. PICK j \in assigns : /\ j < i /\ f.nodes[j].depth <= f.nodes[i].depth
                                 /\ f.nodes[j].target = f.nodes[i].arg.atom
          BY <3>2
      <4>2. j \in DOMAIN f.nodes
          BY DEF assigns, A!Assigns, A!NodesIn
      <4>3. /\ f.nodes[j].depth \in Nat /\ f.nodes[i].depth \in Nat /\ i \in Nat /\ j \in Nat
          BY <2>1, <4>2, NodesTyped
      <4>4. j \notin g[k - 1].rest
        <5>1. ~A!Before(f.nodes, i, j)
            BY <4>1, <4>3 DEF A!Before
        <5>2. QED
            BY <2>7, <5>1
      <4>5. f.nodes[j].target \in g[k - 1].names
          BY <2>5, <4>4 DEF assigns
      <4>6. QED
          BY <1>5, <4>1, <4>5 DEF A!Carries, A!Tainted
    <3>3. QED
        BY <1>5, <3>1, <3>2 DEF A!Carries
  <2>9. f.nodes[i].target \in g[k].names
      BY <2>1, <2>7, <2>8 DEF A!Spread
  <2>10. QED
      BY <1>4, <1>5, <2>5, <2>9
<1>6. \A i \in A!Assigns(f.nodes, d) : A!Carries(f.nodes, d, i, assigns) => i \in assigns
    BY <1>5
<1> HIDE DEF nodesIn, K
<1>7. ASSUME NEW i \in A!Flow(f.nodes, d) PROVE f.nodes[i].target \in A!TaintOf(f.nodes, d)
  <2>1. assigns \in SUBSET A!Assigns(f.nodes, d)
      OBVIOUS
  <2> HIDE DEF assigns
  <2>2. i \in assigns
      BY <1>6, <2>1 DEF A!Flow
  <2>3. QED
      BY <1>1, <1>3, <2>2 DEF assigns, RunOf
<1>8. A!Captures(f.nodes[d]) \subseteq A!TaintOf(f.nodes, d)
  <2>1. 0 \in 0..K /\ K \in 0..K
      BY <1>1
  <2>2. QED
      BY <1>0, <1>3, <1>4, <2>1 DEF RunOf
<1>9. QED
    BY <1>7, <1>8

\* The hits of a file, each with the visit of the node that shows it.
HitsOf(f) ==
    A!TextHits(f.text) \union (IF f.tree = "intact" THEN A!TreeHits(f.nodes) ELSE {})

Visits == Nat \X Nat \X Nat \X Nat
Certainties == {"Confirmed", "High", "Medium", "Low", "Potential", "none"}

\* Where a hit of the tree is from: a statement, a class, or a node of a function.
FromStatement(nodes, i, h) ==
    /\ nodes[i].kind = "mark" /\ nodes[i].inside = {}
    /\ h = <<A!Visit(nodes, 0, i), A!Hit(nodes[i].rule, nodes[i].line, "none")>>
FromClass(nodes, i, h) ==
    /\ nodes[i].kind = "class"
    /\ h[1] = A!Visit(nodes, i, i) /\ h[2] \in A!ClassHits(nodes[i]) /\ h = <<h[1], h[2]>>
FromMark(nodes, d, i, h) ==
    /\ nodes[i].kind = "mark"
    /\ h = <<A!Visit(nodes, d, i), A!Hit(nodes[i].rule, nodes[i].line, "none")>>
Guarded(nodes, d) == \E i \in A!NodesIn(nodes, d) : nodes[i].kind = "check"
FromCall(nodes, d, i, h) ==
    /\ nodes[i].kind = "sink"
    /\ h[1] = A!Visit(nodes, d, i) /\ h = <<h[1], h[2]>>
    /\ h[2] \in A!CallHits(A!TaintOf(nodes, d), Guarded(nodes, d), nodes[i])
IsDef(nodes, d, i) == nodes[d].kind = "def" /\ d \in nodes[i].inside

LEMMA FunctionHitsAre ==
    ASSUME NEW nodes, NEW d, NEW h
    PROVE  h \in A!FunctionHits(nodes, d) <=>
              \E i \in A!NodesIn(nodes, d) : FromMark(nodes, d, i, h) \/ FromCall(nodes, d, i, h)
<1> DEFINE names == A!TaintOf(nodes, d)
           guarded == \E i \in A!NodesIn(nodes, d) : nodes[i].kind = "check"
           Of(n) == CASE n.kind = "sink" -> A!CallHits(names, guarded, n)
                      [] n.kind = "mark" -> A!MarkHits(n)
                      [] OTHER           -> {}
<1>1. A!FunctionHits(nodes, d) =
         UNION {{A!Visit(nodes, d, i)} \X Of(nodes[i]) : i \in A!NodesIn(nodes, d)}
    BY DEF A!FunctionHits
<1>2. ASSUME NEW i PROVE h \in {A!Visit(nodes, d, i)} \X Of(nodes[i]) <=>
                              FromMark(nodes, d, i, h) \/ FromCall(nodes, d, i, h)
  <2> DEFINE v == A!Visit(nodes, d, i)
  <2> HIDE DEF v
  <2>1. CASE nodes[i].kind = "sink"
    <3>1. Of(nodes[i]) = A!CallHits(names, guarded, nodes[i])
        BY <2>1
    <3> HIDE DEF Of, names, guarded
    <3>2. h \in {v} \X Of(nodes[i]) <=>
             h[1] = v /\ h[2] \in A!CallHits(names, guarded, nodes[i]) /\ h = <<h[1], h[2]>>
        BY <3>1
    <3>3. QED
        BY <2>1, <3>2 DEF FromMark, FromCall, v, names, guarded, Guarded
  <2>2. CASE nodes[i].kind = "mark"
    <3>1. Of(nodes[i]) = {A!Hit(nodes[i].rule, nodes[i].line, "none")}
        BY <2>2 DEF A!MarkHits
    <3> HIDE DEF Of
    <3>2. h \in {v} \X Of(nodes[i]) <=> h = <<v, A!Hit(nodes[i].rule, nodes[i].line, "none")>>
        BY <3>1
    <3>3. QED
        BY <2>2, <3>2 DEF FromMark, FromCall, v
  <2>3. CASE nodes[i].kind # "sink" /\ nodes[i].kind # "mark"
    <3>1. Of(nodes[i]) = {}
        BY <2>3
    <3> HIDE DEF Of
    <3>2. QED
        BY <2>3, <3>1 DEF FromMark, FromCall
  <2>4. QED
      BY <2>1, <2>2, <2>3 DEF v
<1> HIDE DEF Of
<1>3. QED
    BY <1>1, <1>2

LEMMA TreeHitsAre ==
    ASSUME NEW f, A!IsFile(f), NEW h
    PROVE  h \in A!TreeHits(f.nodes) <=>
              \E i \in DOMAIN f.nodes :
                 \/ FromStatement(f.nodes, i, h) \/ FromClass(f.nodes, i, h)
                 \/ \E d \in DOMAIN f.nodes : IsDef(f.nodes, d, i) /\
                       (FromMark(f.nodes, d, i, h) \/ FromCall(f.nodes, d, i, h))
<1> DEFINE nodes == f.nodes
           classes == UNION {{A!Visit(nodes, i, i)} \X A!ClassHits(nodes[i]) : i \in A!Classes(nodes)}
           functions == UNION {A!FunctionHits(nodes, d) : d \in A!Defs(nodes)}
<1>1. h \in A!TreeHits(nodes) <=> h \in A!LiteralHits(nodes) \/ h \in classes \/ h \in functions
    BY DEF A!TreeHits
<1>2. h \in A!LiteralHits(nodes) <=> \E i \in DOMAIN nodes : FromStatement(nodes, i, h)
  <2>1. ASSUME NEW i PROVE h \in {A!Visit(nodes, 0, i)} \X A!MarkHits(nodes[i]) <=>
                 h = <<A!Visit(nodes, 0, i), A!Hit(nodes[i].rule, nodes[i].line, "none")>>
      BY DEF A!MarkHits
  <2>2. QED
      BY <2>1 DEF FromStatement, A!LiteralHits
<1>3. h \in classes <=> \E i \in DOMAIN nodes : FromClass(nodes, i, h)
  <2>1. ASSUME NEW i PROVE h \in {A!Visit(nodes, i, i)} \X A!ClassHits(nodes[i]) <=>
                 h[1] = A!Visit(nodes, i, i) /\ h[2] \in A!ClassHits(nodes[i]) /\ h = <<h[1], h[2]>>
    <3> DEFINE v == A!Visit(nodes, i, i)
               C == A!ClassHits(nodes[i])
    <3> HIDE DEF v, C
    <3>1. h \in {v} \X C <=> h[1] = v /\ h[2] \in C /\ h = <<h[1], h[2]>>
        OBVIOUS
    <3>2. QED
        BY <3>1 DEF v, C
  <2>2. QED
      BY <2>1 DEF FromClass, A!Classes
<1>4. h \in functions <=> \E d \in DOMAIN nodes : nodes[d].kind = "def" /\ h \in A!FunctionHits(nodes, d)
    BY DEF A!Defs
<1>5. ASSUME NEW d \in DOMAIN nodes
      PROVE  h \in A!FunctionHits(nodes, d) <=>
                \E i \in DOMAIN nodes : d \in nodes[i].inside /\
                   (FromMark(nodes, d, i, h) \/ FromCall(nodes, d, i, h))
    BY FunctionHitsAre DEF A!NodesIn
<1> HIDE DEF classes, functions, nodes
<1>6. QED
    BY <1>1, <1>2, <1>3, <1>4, <1>5 DEF IsDef, nodes

\* A node shows a rule once.
LEMMA OfAClass ==
    ASSUME NEW n, NEW h \in A!ClassHits(n)
    PROVE  /\ h = A!Hit(h.rule, n.line, "none") /\ h.line = n.line /\ h.confidence = "none"
           /\ h.rule \in {"AUTHZ-001", "AUTHZ-002", "AUTHZ-003", "SENSITIVE-001", "AUTHZ-OBJECT-001"}
<1>1. \E rule \in {"AUTHZ-001", "AUTHZ-002", "AUTHZ-003", "SENSITIVE-001", "AUTHZ-OBJECT-001"} :
            h = A!Hit(rule, n.line, "none")
    BY DEF A!ClassHits
<1>2. QED
    BY <1>1 DEF A!Hit

LEMMA OfACall ==
    ASSUME NEW n, n.rule \in A!Calls, NEW names, NEW guarded
    PROVE  \A h \in A!CallHits(names, guarded, n) :
              /\ h = A!Hit(h.rule, n.line, h.confidence) /\ h.confidence \in Certainties
              /\ h.line = n.line /\ (h.rule = n.rule \/ h.rule = "SER-001")
              /\ \A g \in A!CallHits(names, guarded, n) : g.rule = h.rule => g = h
<1>2. \E c \in Certainties : \E rules \in SUBSET {n.rule, "SER-001"} :
         A!CallHits(names, guarded, n) = {A!Hit(r, n.line, c) : r \in rules}
  <2> DEFINE confidence == A!Claimed(names, n)
  <2>1. confidence \in Certainties
      BY DEF Certainties, A!Claimed
  <2>2. A!CallHits(names, guarded, n) =
           CASE n.rule = "MASS-001"     -> A!MassHits(names, n)
             [] n.rule = "LOG-002"      -> A!LogHits(names, n)
             [] n.rule \in A!AnyArgument ->
                   IF n.rule = "DYN-001" /\ n.slot = "keyword" THEN {}
                   ELSE {A!Hit(n.rule, n.line, confidence)}
             [] OTHER -> IF A!Watched(n) /\ A!Dynamic(n.arg) /\ ~(n.rule = "REDIR-001" /\ guarded)
                         THEN {A!Hit(n.rule, n.line, confidence)} ELSE {}
      BY DEF A!CallHits
  <2> HIDE DEF confidence
  <2>3. CASE n.rule = "MASS-001"
    <3>1. A!CallHits(names, guarded, n) = A!MassHits(names, n)
        BY <2>2, <2>3 DEF A!AnyArgument
    <3>2. PICK rules \in SUBSET {n.rule, "SER-001"} :
              A!MassHits(names, n) = {A!Hit(r, n.line, "Confirmed") : r \in rules}
      <4> DEFINE rules == IF ~A!Tainted(names, n.arg) THEN {}
                          ELSE IF n.stores THEN {"MASS-001", "SER-001"} ELSE {"MASS-001"}
      <4>1. rules \in SUBSET {n.rule, "SER-001"}
          BY <2>3
      <4>2. A!MassHits(names, n) = {A!Hit(r, n.line, "Confirmed") : r \in rules}
          BY DEF A!MassHits
      <4> HIDE DEF rules
      <4>3. QED
          BY <4>1, <4>2
    <3>3. QED
        BY <3>1, <3>2 DEF Certainties
  <2>4. CASE n.rule = "LOG-002"
    <3>1. A!CallHits(names, guarded, n) = A!LogHits(names, n)
        BY <2>2, <2>4 DEF A!AnyArgument
    <3> DEFINE rules == IF n.slot # "keyword" /\ n.arg.atom \in names THEN {n.rule} ELSE {}
    <3>2. A!LogHits(names, n) = {A!Hit(r, n.line, "none") : r \in rules}
        BY <2>4 DEF A!LogHits
    <3>3. rules \in SUBSET {n.rule, "SER-001"} /\ "none" \in Certainties
        BY DEF Certainties
    <3>4. A!CallHits(names, guarded, n) = {A!Hit(r, n.line, "none") : r \in rules}
        BY <3>1, <3>2
    <3> HIDE DEF rules
    <3>5. QED
        BY <3>3, <3>4
  <2>5. CASE n.rule \notin {"MASS-001", "LOG-002"}
    <3> DEFINE rules == IF n.rule \in A!AnyArgument
                        THEN IF n.rule = "DYN-001" /\ n.slot = "keyword" THEN {} ELSE {n.rule}
                        ELSE IF /\ A!Watched(n) /\ A!Dynamic(n.arg)
                                /\ ~(n.rule = "REDIR-001" /\ guarded)
                             THEN {n.rule} ELSE {}
    <3>1. A!CallHits(names, guarded, n) = IF rules # {} THEN {A!Hit(n.rule, n.line, confidence)} ELSE {}
        BY <2>2, <2>5
    <3>2. A!CallHits(names, guarded, n) = {A!Hit(r, n.line, confidence) : r \in rules}
        BY <3>1
    <3>3. rules \in SUBSET {n.rule, "SER-001"}
        OBVIOUS
    <3> HIDE DEF rules
    <3>4. QED
        BY <2>1, <3>2, <3>3
  <2>6. QED
      BY <2>3, <2>4, <2>5
<1>3. PICK c \in Certainties, rules \in SUBSET {n.rule, "SER-001"} :
          A!CallHits(names, guarded, n) = {A!Hit(r, n.line, c) : r \in rules}
    BY <1>2
<1>4. ASSUME NEW h \in A!CallHits(names, guarded, n)
      PROVE  /\ h = A!Hit(h.rule, n.line, h.confidence) /\ h.confidence = c
             /\ h.line = n.line /\ (h.rule = n.rule \/ h.rule = "SER-001")
  <2>1. PICK r \in rules : h = A!Hit(r, n.line, c)
      BY <1>3
  <2>2. h.rule = r /\ h.confidence = c /\ h.line = n.line
      BY <2>1 DEF A!Hit
  <2>3. QED
      BY <2>1, <2>2
<1>5. ASSUME NEW h \in A!CallHits(names, guarded, n), NEW g \in A!CallHits(names, guarded, n),
             g.rule = h.rule
      PROVE  g = h
  <2>1. g = A!Hit(g.rule, n.line, c) /\ h = A!Hit(h.rule, n.line, c)
      BY <1>4
  <2>2. QED
      BY <1>5, <2>1
<1>6. QED
    BY <1>3, <1>4, <1>5

\* A hit of the text or of the tree, with its visit.
IsHit(h) ==
    /\ h[1] \in Visits /\ h = <<h[1], h[2]>>
    /\ h[2] = A!Hit(h[2].rule, h[2].line, h[2].confidence) /\ h[2].confidence \in Certainties

SamePlace(g, h) == g[2].rule = h[2].rule /\ g[2].line = h[2].line

LEMMA TextHitsAre ==
    ASSUME NEW f, A!IsFile(f), NEW h
    PROVE  h \in A!TextHits(f.text) <=>
              \E t \in f.text : h = <<<<0, 0, 0, 0>>, A!Hit(t.rule, t.line, "none")>>
<1> DEFINE v == <<0, 0, 0, 0>>
           hits == {A!Hit(t.rule, t.line, "none") : t \in f.text}
<1>1. A!TextHits(f.text) = {v} \X hits
    BY DEF A!TextHits
<1> HIDE DEF v
<1>2. h \in {v} \X hits <=> \E t \in f.text : h = <<v, A!Hit(t.rule, t.line, "none")>>
    OBVIOUS
<1>3. QED
    BY <1>1, <1>2 DEF v

\* What is seen on a visit to a node.
LEMMA VisitsAre ==
    ASSUME NEW f, A!IsFile(f), NEW i \in DOMAIN f.nodes,
           NEW d, d = 0 \/ d = i \/ IsDef(f.nodes, d, i)
    PROVE  /\ A!Visit(f.nodes, d, i) \in Visits
           /\ A!Visit(f.nodes, d, i)[2] = d /\ A!Visit(f.nodes, d, i)[4] = i
<1>1. i \in Nat /\ f.nodes[i].depth \in Nat
    BY NodesTyped
<1>2. d \in Nat /\ (d # 0 => f.nodes[d].depth \in Nat)
  <2>1. CASE IsDef(f.nodes, d, i)
    <3>1. d \in DOMAIN f.nodes
      <4>1. f.nodes[i].inside \subseteq {x \in 1..i - 1 : f.nodes[x].kind = "def"}
          BY NodesTyped DEF A!IsNode
      <4>2. d \in 1..i - 1 /\ i \in 1..Len(f.nodes) /\ Len(f.nodes) \in Nat
          BY <2>1, <4>1, NodesTyped DEF IsDef
      <4>3. QED
          BY <4>2, NodesTyped
    <3>2. QED
        BY <3>1, NodesTyped
  <2>2. CASE d = 0 \/ d = i
      BY <1>1, <2>2
  <2>3. QED
      BY <2>1, <2>2
<1> DEFINE top == IF d = 0 THEN 0 ELSE f.nodes[d].depth
<1>3. top \in Nat
    BY <1>2
<1>4. A!Visit(f.nodes, d, i) = <<top, d, f.nodes[i].depth, i>>
    BY DEF A!Visit
<1> HIDE DEF top
<1>5. QED
    BY <1>1, <1>2, <1>3, <1>4 DEF Visits

\* What is shown by node i, looked at in function d, or by itself.
From(nodes, d, i, h) ==
    \/ d = 0 /\ FromStatement(nodes, i, h)
    \/ d = i /\ FromClass(nodes, i, h)
    \/ IsDef(nodes, d, i) /\ (FromMark(nodes, d, i, h) \/ FromCall(nodes, d, i, h))

LEMMA FromANode ==
    ASSUME NEW f, A!IsFile(f), NEW i \in DOMAIN f.nodes, NEW d, NEW h, From(f.nodes, d, i, h)
    PROVE  /\ h = <<A!Visit(f.nodes, d, i), h[2]>> /\ IsHit(h)
           /\ h[1][2] = d /\ h[1][4] = i
           /\ \A g : From(f.nodes, d, i, g) /\ SamePlace(g, h) => g = h
<1> DEFINE nodes == f.nodes
           v == A!Visit(nodes, d, i)
<1>1. i \in Nat /\ i # 0 /\ nodes[i].inside \subseteq 1..i - 1 /\ (nodes[i].kind = "sink" => nodes[i].rule \in A!Calls)
    BY NodesTyped DEF A!IsNode
<1>2. v \in Visits /\ v[2] = d /\ v[4] = i
    BY VisitsAre DEF From
<1>3. IsDef(nodes, d, i) => d # 0 /\ d # i
    BY <1>1 DEF IsDef
<1> HIDE DEF v, nodes
<1>4. CASE nodes[i].kind = "mark"
  <2>1. \A g : From(nodes, d, i, g) => g = <<v, A!Hit(nodes[i].rule, nodes[i].line, "none")>>
      BY <1>4 DEF From, FromStatement, FromClass, FromMark, FromCall, v, nodes
  <2>2. IsHit(<<v, A!Hit(nodes[i].rule, nodes[i].line, "none")>>)
      BY <1>2 DEF IsHit, A!Hit, Certainties
  <2>3. QED
      BY <1>2, <2>1, <2>2 DEF v, nodes
<1>5. CASE nodes[i].kind = "class"
  <2>1. \A g : From(nodes, d, i, g) => g = <<v, g[2]>> /\ g[1] = v /\ g[2] \in A!ClassHits(nodes[i])
      BY <1>5 DEF From, FromStatement, FromClass, FromMark, FromCall, v, nodes
  <2>2. \A g : From(nodes, d, i, g) => g[2] = A!Hit(g[2].rule, nodes[i].line, "none")
      BY <2>1, OfAClass
  <2>3. \A g : From(nodes, d, i, g) => g[2].line = nodes[i].line /\ g[2].confidence = "none"
      BY <2>1, OfAClass
  <2>4. IsHit(h)
      BY <1>2, <2>1, <2>2, <2>3 DEF IsHit, Certainties, nodes
  <2>5. ASSUME NEW g, From(nodes, d, i, g), SamePlace(g, h) PROVE g = h
    <3>1. g[2] = h[2]
        BY <2>2, <2>5 DEF SamePlace, nodes
    <3>2. QED
        BY <2>1, <2>5, <3>1 DEF nodes
  <2>6. QED
      BY <1>2, <2>1, <2>4, <2>5 DEF v, nodes
<1>6. CASE nodes[i].kind = "sink"
  <2> DEFINE hits == A!CallHits(A!TaintOf(nodes, d), Guarded(nodes, d), nodes[i])
  <2>1. \A g : From(nodes, d, i, g) => g = <<v, g[2]>> /\ g[1] = v /\ g[2] \in hits
      BY <1>6 DEF From, FromStatement, FromClass, FromMark, FromCall, v, nodes
  <2>2. \A x \in hits : /\ x = A!Hit(x.rule, nodes[i].line, x.confidence) /\ x.confidence \in Certainties
                        /\ x.line = nodes[i].line
                        /\ \A y \in hits : y.rule = x.rule => y = x
      BY <1>1, <1>6, OfACall
  <2> HIDE DEF hits
  <2>3. \A x \in hits : x.line = nodes[i].line
      BY <2>2
  <2>4. IsHit(h)
      BY <1>2, <2>1, <2>2, <2>3 DEF IsHit, nodes
  <2>5. ASSUME NEW g, From(nodes, d, i, g), SamePlace(g, h) PROVE g = h
    <3>1. g[2] = h[2]
        BY <2>1, <2>2, <2>5 DEF SamePlace, nodes
    <3>2. QED
        BY <2>1, <2>5, <3>1 DEF nodes
  <2>6. QED
      BY <1>2, <2>1, <2>4, <2>5 DEF v, nodes
<1>7. QED
    BY <1>4, <1>5, <1>6 DEF From, FromStatement, FromClass, FromMark, FromCall, nodes

\* On one visit a rule shows once.
LEMMA TreeShowsOnce ==
    ASSUME NEW f, A!IsFile(f)
    PROVE  \A h \in A!TreeHits(f.nodes) :
              /\ IsHit(h)
              /\ \A g \in A!TreeHits(f.nodes) : g[1] = h[1] /\ SamePlace(g, h) => g = h
<1>1. \A h \in A!TreeHits(f.nodes) : \E i \in DOMAIN f.nodes : \E d : From(f.nodes, d, i, h)
  <2>1. ASSUME NEW h \in A!TreeHits(f.nodes)
        PROVE  \E i \in DOMAIN f.nodes : \E d : From(f.nodes, d, i, h)
      BY TreeHitsAre DEF From
  <2>2. QED
      BY <2>1
<1>2. ASSUME NEW h \in A!TreeHits(f.nodes), NEW g \in A!TreeHits(f.nodes)
      PROVE  IsHit(h) /\ (g[1] = h[1] /\ SamePlace(g, h) => g = h)
  <2>1. PICK i \in DOMAIN f.nodes : \E d : From(f.nodes, d, i, h)
      BY <1>1
  <2>2. PICK j \in DOMAIN f.nodes : \E e : From(f.nodes, e, j, g)
      BY <1>1
  <2>3. PICK d : From(f.nodes, d, i, h)
      BY <2>1
  <2>4. PICK e : From(f.nodes, e, j, g)
      BY <2>2
  <2>5. IsHit(h) /\ h[1][2] = d /\ h[1][4] = i
      BY <2>3, FromANode
  <2>6. g[1][2] = e /\ g[1][4] = j
      BY <2>4, FromANode
  <2>7. CASE g[1] = h[1]
    <3>1. e = d /\ j = i
        BY <2>5, <2>6, <2>7
    <3>2. \A x : From(f.nodes, d, i, x) /\ SamePlace(x, h) => x = h
        BY <2>3, FromANode
    <3>3. QED
        BY <2>4, <2>5, <3>1, <3>2
  <2>8. QED
      BY <2>5, <2>7
<1>3. QED
    BY <1>2

LEMMA TextShowsOnce ==
    ASSUME NEW f, A!IsFile(f)
    PROVE  \A h \in A!TextHits(f.text) :
              /\ IsHit(h)
              /\ \A g \in A!TextHits(f.text) : g[1] = h[1] /\ SamePlace(g, h) => g = h
<1> DEFINE v == <<0, 0, 0, 0>>
<1>1. v \in Visits
    BY DEF Visits
<1>2. ASSUME NEW h \in A!TextHits(f.text)
      PROVE  /\ h = <<v, A!Hit(h[2].rule, h[2].line, "none")>> /\ IsHit(h)
             /\ h[2].confidence = "none"
  <2>1. PICK t \in f.text : h = <<v, A!Hit(t.rule, t.line, "none")>>
      BY TextHitsAre
  <2> HIDE DEF v
  <2>2. h[1] = v /\ h[2] = A!Hit(t.rule, t.line, "none") /\ h[2].confidence = "none"
        /\ h[2].rule = t.rule /\ h[2].line = t.line
      BY <2>1 DEF A!Hit
  <2>3. QED
      BY <1>1, <2>1, <2>2 DEF IsHit, Certainties
<1> HIDE DEF v
<1>3. QED
    BY <1>2 DEF SamePlace

\* Of any hits one is the earliest, and no two visits are at once.
LEMMA EarliestExists ==
    ASSUME NEW hits, hits # {}, \A h \in hits : h[1] \in Visits
    PROVE  \E h \in hits : \A g \in hits : ~A!Earlier(g[1], h[1])
<1> DEFINE Lowest(some, k) == \E h \in some : \A g \in some : h[1][k] <= g[1][k]
<1>1. ASSUME NEW some \in SUBSET hits, some # {}, NEW k \in 1..4 PROVE Lowest(some, k)
  <2> DEFINE T == {h[1][k] : h \in some}
  <2>1. \A h \in hits : h[1][k] \in Nat
      BY <1>1 DEF Visits
  <2>2. T \in SUBSET Nat /\ T # {}
      BY <1>1, <2>1
  <2>3. PICK n \in T : \A m \in T : n <= m
      BY <2>2, Least
  <2>4. QED
      BY <2>3
<1> HIDE DEF Lowest
<1>2. PICK a \in hits : \A g \in hits : a[1][1] <= g[1][1]
    BY <1>1 DEF Lowest
<1> DEFINE A1 == {g \in hits : g[1][1] = a[1][1]}
<1>3. PICK b \in A1 : \A g \in A1 : b[1][2] <= g[1][2]
  <2>1. A1 \in SUBSET hits /\ a \in A1
      BY <1>2
  <2> HIDE DEF A1
  <2>2. Lowest(A1, 2)
      BY <1>1, <2>1
  <2>3. QED
      BY <2>2 DEF Lowest
<1> DEFINE A2 == {g \in A1 : g[1][2] = b[1][2]}
<1>4. PICK c \in A2 : \A g \in A2 : c[1][3] <= g[1][3]
  <2>1. A2 \in SUBSET hits /\ b \in A2
      BY <1>3
  <2> HIDE DEF A2
  <2>2. Lowest(A2, 3)
      BY <1>1, <2>1
  <2>3. QED
      BY <2>2 DEF Lowest
<1> DEFINE A3 == {g \in A2 : g[1][3] = c[1][3]}
<1>5. PICK d \in A3 : \A g \in A3 : d[1][4] <= g[1][4]
  <2>1. A3 \in SUBSET hits /\ c \in A3
      BY <1>4
  <2> HIDE DEF A3
  <2>2. Lowest(A3, 4)
      BY <1>1, <2>1
  <2>3. QED
      BY <2>2 DEF Lowest
<1>6. ASSUME NEW g \in hits PROVE ~A!Earlier(g[1], d[1])
  <2>1. \A k \in 1..4 : d[1][k] \in Nat /\ g[1][k] \in Nat
      BY DEF Visits
  <2>2. /\ d[1][1] <= g[1][1]
        /\ g[1][1] = d[1][1] => d[1][2] <= g[1][2]
        /\ g[1][1] = d[1][1] /\ g[1][2] = d[1][2] => d[1][3] <= g[1][3]
        /\ g[1][1] = d[1][1] /\ g[1][2] = d[1][2] /\ g[1][3] = d[1][3] => d[1][4] <= g[1][4]
      BY <1>2, <1>3, <1>4, <1>5
  <2> DEFINE u == g[1]
             v == d[1]
  <2> HIDE DEF u, v
  <2>3. ASSUME NEW k \in 1..4, \A l \in 1..k - 1 : u[l] = v[l] PROVE ~(u[k] < v[k])
    <3>1. /\ k > 1 => u[1] = v[1]
          /\ k > 2 => u[2] = v[2]
          /\ k > 3 => u[3] = v[3]
        BY <2>3
    <3>2. v[k] <= u[k] /\ v[k] \in Nat /\ u[k] \in Nat
        BY <2>1, <2>2, <3>1 DEF u, v
    <3>3. QED
        BY <3>2
  <2>4. QED
      BY <2>3 DEF A!Earlier, u, v
<1>7. QED
    BY <1>5, <1>6

LEMMA VisitsAreOrdered ==
    ASSUME NEW u \in Visits, NEW v \in Visits, ~A!Earlier(u, v), ~A!Earlier(v, u)
    PROVE  u = v
<1>1. \A k \in 1..4 : u[k] \in Nat /\ v[k] \in Nat
    BY DEF Visits
<1>2. ASSUME NEW k \in 1..4, \A l \in 1..k - 1 : u[l] = v[l] PROVE u[k] = v[k]
  <2>1. ~(u[k] < v[k])
      BY <1>2 DEF A!Earlier
  <2>2. ~(v[k] < u[k])
      BY <1>2 DEF A!Earlier
  <2>3. QED
      BY <1>1, <2>1, <2>2
<1>3. u[1] = v[1]
    BY <1>2
<1>4. u[2] = v[2]
    BY <1>2, <1>3
<1>5. u[3] = v[3]
    BY <1>2, <1>3, <1>4
<1>6. u[4] = v[4]
    BY <1>2, <1>3, <1>4, <1>5
<1>7. QED
    BY <1>3, <1>4, <1>5, <1>6 DEF Visits

\* The findings are of what the files show, one at each place that has been seen.
Place(e) == <<e.file, e.line, e.rule>>
Found(ev) == {e \in ev : e.polarity = "vuln"}

FindingsHeld(places, ev) ==
    /\ \A e \in Found(ev) :
          /\ e.file \in DOMAIN project /\ Place(e) \in places
          /\ \E h \in HitsOf(project[e.file]) : e = A!Emitted(e.file, h[2])
    /\ \A place \in places : \E e \in Found(ev) : Place(e) = place
    /\ \A e, g \in Found(ev) : Place(e) = Place(g) => e = g

LEMMA EmittedIs ==
    ASSUME NEW file, NEW x
    PROVE  LET e == A!Emitted(file, x)
           IN  /\ e.polarity = "vuln" /\ Place(e) = A!Key(file, x)
               /\ e.file = file /\ e.rule = x.rule /\ e.line = x.line
BY DEF A!Emitted, Place, A!Key

LEMMA MergeKeeps ==
    ASSUME NEW file \in DOMAIN project, NEW hits \in SUBSET HitsOf(project[file]),
           \A h \in hits : /\ IsHit(h)
                           /\ \A g \in hits : g[1] = h[1] /\ SamePlace(g, h) => g = h,
           FindingsHeld(seen, evidence)
    PROVE  LET m == A!Merge(file, hits)
           IN  /\ FindingsHeld(m.seen, m.evidence) /\ seen \subseteq m.seen
               /\ \A h \in hits : A!Key(file, h[2]) \in m.seen
<1> DEFINE K(h) == A!Key(file, h[2])
           Item(h) == A!Emitted(file, h[2])
           fresh == {h \in hits : K(h) \notin seen}
           first == {h \in fresh : \A g \in fresh : A!Earlier(g[1], h[1]) => K(g) # K(h)}
           m == A!Merge(file, hits)
<1>1. m.seen = seen \union {K(h) : h \in hits} /\ m.evidence = evidence \union {Item(h) : h \in first}
    BY DEF A!Merge
<1>2. \A h \in hits : /\ Item(h).polarity = "vuln" /\ Place(Item(h)) = K(h) /\ Item(h).file = file
    BY EmittedIs
<1>3. \A g, h \in hits : K(g) = K(h) => SamePlace(g, h)
    BY DEF A!Key, SamePlace
<1> HIDE DEF K, Item, m
<1>4. Found(m.evidence) = Found(evidence) \union {Item(h) : h \in first}
    BY <1>1, <1>2 DEF Found
<1>5. ASSUME NEW e \in Found(m.evidence)
      PROVE  /\ e.file \in DOMAIN project /\ Place(e) \in m.seen
             /\ \E h \in HitsOf(project[e.file]) : e = A!Emitted(e.file, h[2])
  <2>1. CASE e \in Found(evidence)
      BY <1>1, <2>1 DEF FindingsHeld
  <2>2. CASE e \in {Item(h) : h \in first}
    <3>1. PICK h \in first : e = Item(h)
        BY <2>2
    <3>2. e.file = file /\ Place(e) = K(h) /\ h \in HitsOf(project[file])
        BY <1>2, <3>1
    <3>3. K(h) \in m.seen
        BY <1>1
    <3>4. QED
        BY <3>1, <3>2, <3>3 DEF Item
  <2>3. QED
      BY <1>4, <2>1, <2>2
<1>6. ASSUME NEW place \in m.seen PROVE \E e \in Found(m.evidence) : Place(e) = place
  <2>1. CASE place \in seen
      BY <1>4, <2>1 DEF FindingsHeld
  <2>2. CASE place \notin seen
    <3> DEFINE those == {h \in fresh : K(h) = place}
    <3>1. those # {} /\ \A h \in those : h[1] \in Visits
        BY <1>1, <2>2 DEF IsHit
    <3>2. PICK h \in those : \A g \in those : ~A!Earlier(g[1], h[1])
        BY <3>1, EarliestExists
    <3>3. h \in first
        BY <3>2
    <3>4. QED
        BY <1>2, <1>4, <3>2, <3>3
  <2>3. QED
      BY <2>1, <2>2
<1>7. ASSUME NEW g \in first, NEW h \in first, K(g) = K(h) PROVE g = h
  <2>1. ~A!Earlier(g[1], h[1]) /\ ~A!Earlier(h[1], g[1])
      BY <1>7
  <2>2. g[1] \in Visits /\ h[1] \in Visits
      BY DEF IsHit
  <2>3. g[1] = h[1]
      BY <2>1, <2>2, VisitsAreOrdered
  <2>4. QED
      BY <1>3, <1>7, <2>3
<1>8. ASSUME NEW e \in Found(m.evidence), NEW d \in Found(m.evidence), Place(e) = Place(d)
      PROVE  e = d
  <2>1. CASE e \in Found(evidence) /\ d \in Found(evidence)
      BY <1>8, <2>1 DEF FindingsHeld
  <2>2. \A x \in Found(evidence) : Place(x) \in seen
      BY DEF FindingsHeld
  <2>3. \A x \in {Item(h) : h \in first} : Place(x) \notin seen
      BY <1>2
  <2>4. CASE e \in {Item(h) : h \in first} /\ d \in {Item(h) : h \in first}
    <3>1. PICK g \in first : e = Item(g)
        BY <2>4
    <3>2. PICK h \in first : d = Item(h)
        BY <2>4
    <3>3. K(g) = K(h)
        BY <1>2, <1>8, <3>1, <3>2
    <3>4. QED
        BY <1>7, <3>1, <3>2, <3>3
  <2>5. QED
      BY <1>4, <1>8, <2>1, <2>2, <2>3, <2>4
<1>9. FindingsHeld(m.seen, m.evidence)
    BY <1>5, <1>6, <1>8 DEF FindingsHeld
<1>10. seen \subseteq m.seen /\ \A h \in hits : K(h) \in m.seen
    BY <1>1
<1>11. QED
    BY <1>9, <1>10 DEF m, K

\* What a file shows has been seen: that of files read, and the text of the current one.
Covers(k) == \A h \in HitsOf(project[k]) : A!Key(k, h[2]) \in seen

SastTypes ==
    /\ status \in {"idle", "text", "tree", "SUCCESS", "FAILED"}
    /\ A!IsProject(project) /\ todo \in Seq(DOMAIN project)
    /\ status = "tree" => todo # <<>>
    /\ status = "SUCCESS" => todo = <<>>
    /\ status = "idle" => seen = {} /\ evidence = {}

FilesAreCovered ==
    /\ \A k \in DOMAIN project : project[k].scanned /\ k \notin Elements(todo) => Covers(k)
    /\ status = "tree" =>
          \A h \in A!TextHits(project[Head(todo)].text) : A!Key(Head(todo), h[2]) \in seen

SastInv ==
    SastTypes /\ FilesAreCovered /\ (status # "FAILED" => FindingsHeld(seen, evidence))

LEMMA SastInit == ASSUME A!Init PROVE SastInv
<1>1. A!IsProject(<<>>) /\ DOMAIN <<>> = {} /\ <<>> \in Seq({})
    BY DEF A!IsProject
<1>2. QED
    BY <1>1 DEF A!Init, SastInv, SastTypes, FilesAreCovered, FindingsHeld, Found

LEMMA SastStart == ASSUME SastInv, A!Start PROVE SastInv'
<1>1. PICK p \in SastProjects : project' = p /\ todo' = [i \in DOMAIN p |-> i]
    BY DEF A!Start
<1>2. A!IsProject(p)
    BY SastAssumption
<1>3. Len(p) \in Nat /\ DOMAIN p = 1..Len(p)
    BY <1>2 DEF A!IsProject
<1>4. todo' \in Seq(DOMAIN project') /\ \A k \in DOMAIN project' : k \in Elements(todo')
  <2>1. todo' = [i \in 1..Len(p) |-> i]
      BY <1>1, <1>3
  <2>2. todo' \in Seq(1..Len(p)) /\ DOMAIN todo' = 1..Len(p) /\ \A k \in 1..Len(p) : todo'[k] = k
      BY <1>3, <2>1
  <2>3. QED
      BY <1>1, <1>3, <2>2 DEF Elements
<1>5. status' = "text" /\ seen' = {} /\ evidence' = {}
    BY DEF A!Start, SastInv, SastTypes
<1>6. FindingsHeld(seen, evidence)'
    BY <1>5 DEF FindingsHeld, Found
<1>7. QED
    BY <1>1, <1>2, <1>4, <1>5, <1>6 DEF SastInv, SastTypes, FilesAreCovered

\* The file at the head of the list.
LEMMA CurrentFile ==
    ASSUME SastInv, todo # <<>>
    PROVE  /\ Head(todo) \in DOMAIN project /\ A!IsFile(project[Head(todo)])
           /\ A!File = project[Head(todo)]
           /\ Tail(todo) \in Seq(DOMAIN project)
           /\ Elements(todo) = {Head(todo)} \union Elements(Tail(todo))
<1>1. todo \in Seq(DOMAIN project) /\ A!IsProject(project)
    BY DEF SastInv, SastTypes
<1>2. QED
    BY <1>1, HeadAndTail DEF A!IsProject, A!File

LEMMA SastPassOver == ASSUME SastInv, A!PassOver PROVE SastInv'
<1>1. /\ status = "text" /\ todo # <<>> /\ todo' = Tail(todo) /\ ~A!File.scanned
      /\ UNCHANGED <<project, status, seen, evidence>>
    BY DEF A!PassOver
<1>2. SastTypes'
    BY <1>1, CurrentFile DEF SastInv, SastTypes
<1>3. FilesAreCovered'
    BY <1>1, CurrentFile DEF SastInv, FilesAreCovered, Covers
<1>4. FindingsHeld(seen, evidence)'
    BY <1>1 DEF SastInv, FindingsHeld, Found
<1>5. QED
    BY <1>2, <1>3, <1>4 DEF SastInv

LEMMA SastScanText == ASSUME SastInv, A!ScanText PROVE SastInv'
<1> DEFINE file == Head(todo)
           hits == A!TextHits(A!File.text)
           m == A!Merge(file, hits)
<1>1. /\ status = "text" /\ status' = "tree" /\ todo # <<>> /\ UNCHANGED <<project, todo>>
      /\ seen' = m.seen /\ evidence' = m.evidence
    BY DEF A!ScanText
<1>2. file \in DOMAIN project /\ A!IsFile(project[file]) /\ A!File = project[file]
    BY <1>1, CurrentFile
<1>3. /\ \A h \in hits : IsHit(h) /\ \A g \in hits : g[1] = h[1] /\ SamePlace(g, h) => g = h
      /\ hits \in SUBSET HitsOf(project[file])
    BY <1>2, TextShowsOnce DEF HitsOf
<1>4. /\ FindingsHeld(m.seen, m.evidence) /\ seen \subseteq m.seen
      /\ \A h \in hits : A!Key(file, h[2]) \in m.seen
  <2>1. FindingsHeld(seen, evidence)
      BY <1>1 DEF SastInv
  <2> HIDE DEF file, hits
  <2>2. QED
      BY <1>2, <1>3, <2>1, MergeKeeps
<1> HIDE DEF m, hits
<1>5. SastTypes'
    BY <1>1 DEF SastInv, SastTypes
<1>6. FilesAreCovered'
  <2>1. \A k \in DOMAIN project : Covers(k) => Covers(k)'
      BY <1>1, <1>4 DEF Covers
  <2>2. QED
      BY <1>1, <1>2, <1>4, <2>1 DEF SastInv, FilesAreCovered, hits
<1>7. FindingsHeld(seen, evidence)'
    BY <1>1, <1>4 DEF FindingsHeld, Found
<1>8. QED
    BY <1>5, <1>6, <1>7 DEF SastInv

LEMMA SastWalkTree == ASSUME SastInv, A!WalkTree PROVE SastInv'
<1> DEFINE file == Head(todo)
           hits == A!TreeHits(A!File.nodes)
           m == A!Merge(file, hits)
<1>1. /\ status = "tree" /\ status' = "text" /\ todo # <<>> /\ project' = project
      /\ todo' = Tail(todo)
    BY DEF A!WalkTree, SastInv, SastTypes
<1>2. /\ file \in DOMAIN project /\ A!IsFile(project[file]) /\ A!File = project[file]
      /\ Tail(todo) \in Seq(DOMAIN project)
      /\ Elements(todo) = {file} \union Elements(Tail(todo))
    BY <1>1, CurrentFile
<1>3. \A h \in A!TextHits(project[file].text) : A!Key(file, h[2]) \in seen
    BY <1>1 DEF SastInv, FilesAreCovered
<1>4. FindingsHeld(seen, evidence)
    BY <1>1 DEF SastInv
<1>5. /\ FindingsHeld(seen', evidence') /\ seen \subseteq seen'
      /\ \A h \in HitsOf(project[file]) : A!Key(file, h[2]) \in seen'
  <2>1. CASE A!File.tree = "intact"
    <3>1. seen' = m.seen /\ evidence' = m.evidence
        BY <2>1 DEF A!WalkTree
    <3>2. /\ \A h \in hits : IsHit(h) /\ \A g \in hits : g[1] = h[1] /\ SamePlace(g, h) => g = h
          /\ HitsOf(project[file]) = A!TextHits(project[file].text) \union hits
        BY <1>2, <2>1, TreeShowsOnce DEF HitsOf
    <3> HIDE DEF file, hits
    <3>3. /\ FindingsHeld(m.seen, m.evidence) /\ seen \subseteq m.seen
          /\ \A h \in hits : A!Key(file, h[2]) \in m.seen
        BY <1>2, <1>4, <3>2, MergeKeeps
    <3> HIDE DEF m
    <3>4. QED
        BY <1>3, <3>1, <3>2, <3>3
  <2>2. CASE A!File.tree # "intact"
    <3>1. UNCHANGED <<seen, evidence>>
        BY <2>2 DEF A!WalkTree
    <3>2. HitsOf(project[file]) = A!TextHits(project[file].text)
        BY <1>2, <2>2 DEF HitsOf
    <3>3. QED
        BY <1>3, <1>4, <3>1, <3>2
  <2>3. QED
      BY <2>1, <2>2
<1> HIDE DEF file
<1>6. SastTypes'
    BY <1>1, <1>2 DEF SastInv, SastTypes
<1>7. FilesAreCovered'
  <2>1. ASSUME NEW k \in DOMAIN project, project[k].scanned, k \notin Elements(Tail(todo))
        PROVE  Covers(k)'
    <3>1. CASE k = file
        BY <1>1, <1>5, <3>1 DEF Covers
    <3>2. CASE k # file
      <4>1. Covers(k)
          BY <1>2, <2>1, <3>2 DEF SastInv, FilesAreCovered
      <4>2. QED
          BY <1>1, <1>5, <4>1 DEF Covers
    <3>3. QED
        BY <3>1, <3>2
  <2>2. QED
      BY <1>1, <2>1 DEF FilesAreCovered
<1>8. FindingsHeld(seen, evidence)'
    BY <1>1, <1>5 DEF FindingsHeld, Found
<1>9. QED
    BY <1>6, <1>7, <1>8 DEF SastInv

LEMMA SastNext == ASSUME SastInv, [A!Next]_(A!vars) PROVE SastInv'
<1>1. CASE A!Raise
  <2>1. SastTypes'
      BY <1>1 DEF A!Raise, SastInv, SastTypes
  <2>2. FilesAreCovered'
      BY <1>1 DEF A!Raise, SastInv, FilesAreCovered, Covers
  <2>3. QED
      BY <1>1, <2>1, <2>2 DEF A!Raise, SastInv
<1>2. CASE A!Finish
  <2>1. SastTypes'
      BY <1>2 DEF A!Finish, SastInv, SastTypes
  <2>2. FilesAreCovered'
      BY <1>2 DEF A!Finish, SastInv, FilesAreCovered, Covers
  <2>3. Found(evidence') = Found(evidence) /\ UNCHANGED <<project, seen>> /\ status = "text"
    <3> DEFINE oks == {[file |-> 0, line |-> 0, rule |-> key, polarity |-> "ok",
                        confidence |-> "High"] : key \in controls}
    <3>1. evidence' = evidence \union oks
        BY <1>2 DEF A!Finish
    <3>2. \A e \in oks : e.polarity # "vuln"
        OBVIOUS
    <3> HIDE DEF oks
    <3>3. QED
        BY <1>2, <3>1, <3>2 DEF A!Finish, Found
  <2>4. FindingsHeld(seen, evidence)'
    <3>1. FindingsHeld(seen, evidence)
        BY <2>3 DEF SastInv
    <3>2. QED
        BY <2>3, <3>1 DEF FindingsHeld
  <2>5. QED
      BY <2>1, <2>2, <2>4 DEF SastInv
<1>3. CASE UNCHANGED A!vars
  <2>1. UNCHANGED <<project, todo, status, seen, evidence>>
      BY <1>3 DEF A!vars
  <2>2. SastTypes' /\ FilesAreCovered'
      BY <2>1 DEF SastInv, SastTypes, FilesAreCovered, Covers
  <2>3. FindingsHeld(seen, evidence)' <=> FindingsHeld(seen, evidence)
      BY <2>1 DEF FindingsHeld, Found
  <2>4. QED
      BY <2>1, <2>2, <2>3 DEF SastInv
<1>4. QED
    BY <1>1, <1>2, <1>3, SastStart, SastPassOver, SastScanText, SastWalkTree DEF A!Next

LEMMA TaintIsFlow == ASSUME SastInv PROVE A!TaintFollowsFlow
<1>1. status = "tree" => A!IsFile(A!File)
    BY CurrentFile DEF SastInv, SastTypes
<1>2. QED
    BY <1>1, TaintIsConfined, FlowIsTainted DEF A!TaintFollowsFlow

LEMMA TextHitIsShown ==
    ASSUME NEW f, A!IsFile(f), NEW t \in f.text
    PROVE  \E h \in HitsOf(f) : h[2].rule = t.rule /\ h[2].line = t.line
<1> DEFINE h == <<<<0, 0, 0, 0>>, A!Hit(t.rule, t.line, "none")>>
<1>1. h \in A!TextHits(f.text)
    BY TextHitsAre
<1>2. h[2].rule = t.rule /\ h[2].line = t.line
    BY DEF A!Hit
<1> HIDE DEF h
<1>3. QED
    BY <1>1, <1>2 DEF HitsOf

\* A node that is looked at shows what it shows by itself or in some function.
LEMMA NodeHitIsShown ==
    ASSUME NEW f, A!IsFile(f), f.tree = "intact", NEW i \in DOMAIN f.nodes,
           NEW d \in DOMAIN f.nodes \union {0}, NEW h, From(f.nodes, d, i, h)
    PROVE  h \in HitsOf(f)
<1>1. h \in A!TreeHits(f.nodes)
  <2>1. CASE d \in DOMAIN f.nodes /\ IsDef(f.nodes, d, i)
      BY <2>1, TreeHitsAre DEF From
  <2>2. CASE ~IsDef(f.nodes, d, i)
      BY <2>2, TreeHitsAre DEF From
  <2>3. CASE d = 0 /\ IsDef(f.nodes, d, i)
    <3>1. f.nodes[i].inside \subseteq 1..i - 1 /\ i \in Nat
        BY NodesTyped DEF A!IsNode
    <3>2. QED
        BY <2>3, <3>1 DEF IsDef
  <2>4. QED
      BY <2>1, <2>2, <2>3
<1>2. QED
    BY <1>1 DEF HitsOf

LEMMA InsideADef ==
    ASSUME NEW f, A!IsFile(f), NEW i \in DOMAIN f.nodes, f.nodes[i].inside # {}
    PROVE  \E d \in DOMAIN f.nodes : IsDef(f.nodes, d, i)
<1>1. /\ f.nodes[i].inside \subseteq {x \in 1..i - 1 : f.nodes[x].kind = "def"}
      /\ i \in 1..Len(f.nodes) /\ Len(f.nodes) \in Nat /\ DOMAIN f.nodes = 1..Len(f.nodes)
    BY NodesTyped DEF A!IsNode
<1>2. PICK d \in f.nodes[i].inside : TRUE
    OBVIOUS
<1>3. d \in DOMAIN f.nodes /\ f.nodes[d].kind = "def"
    BY <1>1, <1>2
<1>4. QED
    BY <1>2, <1>3 DEF IsDef

LEMMA MarkIsShown ==
    ASSUME NEW f, A!IsFile(f), f.tree = "intact", NEW i \in DOMAIN f.nodes,
           f.nodes[i].kind = "mark"
    PROVE  \E h \in HitsOf(f) : h[2].rule = f.nodes[i].rule /\ h[2].line = f.nodes[i].line
<1> DEFINE hit == A!Hit(f.nodes[i].rule, f.nodes[i].line, "none")
<1>1. hit.rule = f.nodes[i].rule /\ hit.line = f.nodes[i].line
    BY DEF A!Hit
<1>2. \E d \in DOMAIN f.nodes \union {0} : From(f.nodes, d, i, <<A!Visit(f.nodes, d, i), hit>>)
  <2>1. CASE f.nodes[i].inside = {}
      BY <2>1 DEF From, FromStatement
  <2>2. CASE f.nodes[i].inside # {}
      BY <2>2, InsideADef DEF From, FromMark
  <2>3. QED
      BY <2>1, <2>2
<1>3. PICK d \in DOMAIN f.nodes \union {0} : From(f.nodes, d, i, <<A!Visit(f.nodes, d, i), hit>>)
    BY <1>2
<1>4. <<A!Visit(f.nodes, d, i), hit>> \in HitsOf(f)
    BY <1>3, NodeHitIsShown
<1> HIDE DEF hit
<1>5. QED
    BY <1>1, <1>4

LEMMA CallIsShown ==
    ASSUME NEW f, A!IsFile(f), f.tree = "intact", NEW i \in DOMAIN f.nodes,
           f.nodes[i].kind = "sink",
           NEW d \in DOMAIN f.nodes, IsDef(f.nodes, d, i),
           NEW x \in A!CallHits(A!TaintOf(f.nodes, d), Guarded(f.nodes, d), f.nodes[i])
    PROVE  \E h \in HitsOf(f) : h[2] = x
<1> DEFINE h == <<A!Visit(f.nodes, d, i), x>>
<1>1. FromCall(f.nodes, d, i, h) /\ h[2] = x
    BY DEF FromCall
<1> HIDE DEF h
<1>2. h \in HitsOf(f)
    BY <1>1, NodeHitIsShown DEF From
<1>3. QED
    BY <1>1, <1>2

\* What is shown without any flow is among the hits.
LEMMA ShownAreHits ==
    ASSUME NEW f, A!IsFile(f), NEW s \in A!Shown(f)
    PROVE  \E h \in HitsOf(f) : s = <<h[2].rule, h[2].line>>
<1> DEFINE nodes == f.nodes
           Called(k) == /\ nodes[k].kind = "sink" /\ nodes[k].inside # {}
                        /\ \/ nodes[k].rule \in A!AnyArgument /\ nodes[k].slot # "keyword"
                           \/ /\ nodes[k].rule \notin {"MASS-001", "LOG-002"}
                              /\ nodes[k].slot = "first" /\ A!Dynamic(nodes[k].arg)
                              /\ nodes[k].rule = "REDIR-001" =>
                                    \A c \in DOMAIN nodes : nodes[c].kind # "check"
<1>1. CASE s \in {<<t.rule, t.line>> : t \in f.text}
    BY <1>1, TextHitIsShown
<1>2. CASE s \notin {<<t.rule, t.line>> : t \in f.text}
  <2>1. f.tree = "intact" /\ \E i \in DOMAIN nodes :
            s = <<nodes[i].rule, nodes[i].line>> /\ (nodes[i].kind = "mark" \/ Called(i))
      BY <1>2 DEF A!Shown
  <2>2. PICK i \in DOMAIN nodes :
            s = <<nodes[i].rule, nodes[i].line>> /\ (nodes[i].kind = "mark" \/ Called(i))
      BY <2>1
  <2>3. CASE nodes[i].kind = "mark"
      BY <2>1, <2>2, <2>3, MarkIsShown
  <2>4. CASE Called(i)
    <3>1. PICK d \in DOMAIN nodes : IsDef(nodes, d, i)
        BY <2>4, InsideADef
    <3> DEFINE hits == A!CallHits(A!TaintOf(nodes, d), Guarded(nodes, d), nodes[i])
    <3>2. nodes[i].rule = "REDIR-001" => ~Guarded(nodes, d)
        BY <2>4 DEF A!AnyArgument, Guarded, A!NodesIn
    <3>3. nodes[i].rule \notin {"MASS-001", "LOG-002"}
        BY <2>4 DEF A!AnyArgument
    <3>4. \E c : A!Hit(nodes[i].rule, nodes[i].line, c) \in hits
        BY <2>4, <3>2, <3>3 DEF A!CallHits, A!Watched
    <3>5. PICK c : A!Hit(nodes[i].rule, nodes[i].line, c) \in hits
        BY <3>4
    <3> DEFINE x == A!Hit(nodes[i].rule, nodes[i].line, c)
    <3>6. x.rule = nodes[i].rule /\ x.line = nodes[i].line
        BY DEF A!Hit
    <3> HIDE DEF x
    <3>7. \E h \in HitsOf(f) : h[2] = x
        BY <2>1, <2>4, <3>1, <3>5, CallIsShown DEF x
    <3>8. QED
        BY <2>2, <3>6, <3>7
  <2>5. QED
      BY <2>2, <2>3, <2>4
<1>3. QED
    BY <1>1, <1>2

\* The finding of a hit, when all files have been read.
LEMMA HitIsFound ==
    ASSUME SastInv, status = "SUCCESS", NEW k \in A!Scanned, NEW h \in HitsOf(project[k])
    PROVE  \E e \in Found(evidence) :
              /\ e.file = k /\ e.rule = h[2].rule /\ e.line = h[2].line
              /\ \E g \in HitsOf(project[k]) : e = A!Emitted(k, g[2]) /\ SamePlace(g, h)
<1>1. k \in DOMAIN project /\ project[k].scanned /\ Elements(todo) = {}
    BY DEF SastInv, SastTypes, A!Scanned, Elements
<1>2. A!Key(k, h[2]) \in seen
    BY <1>1 DEF SastInv, FilesAreCovered, Covers
<1>3. PICK e \in Found(evidence) : Place(e) = A!Key(k, h[2])
    BY <1>2 DEF SastInv, FindingsHeld
<1>4. e.file = k /\ e.rule = h[2].rule /\ e.line = h[2].line
    BY <1>3 DEF Place, A!Key
<1>5. PICK g \in HitsOf(project[k]) : e = A!Emitted(k, g[2])
    BY <1>4 DEF SastInv, FindingsHeld
<1>6. e.rule = g[2].rule /\ e.line = g[2].line
    BY <1>5, EmittedIs
<1>7. QED
    BY <1>4, <1>5, <1>6 DEF SamePlace

\* A finding keeps its requirements from PASS, a certain one fails them.
LEMMA FindingDecides ==
    ASSUME NEW e \in Found(evidence), NEW r \in A!RequirementsOf(e.rule)
    PROVE  /\ A!Verdict(r) # "PASS"
           /\ e.confidence \in {"Confirmed", "High"} => A!Verdict(r) = "FAIL"
<1> DEFINE evs == {[req |-> r, source |-> "sast", polarity |-> x.polarity,
                    strong |-> x.confidence \in {"Confirmed", "High"}] :
                       x \in {y \in evidence : r \in A!RequirementsOf(y.rule)}}
           item == [req |-> r, source |-> "sast", polarity |-> e.polarity,
                    strong |-> e.confidence \in {"Confirmed", "High"}]
<1>1. A!Verdict(r) = A!ComputeStatus(A!AutomationOf(r), evs, TRUE)
    BY DEF A!Verdict
<1>2. item \in evs /\ item.polarity = "vuln" /\ item.strong = (e.confidence \in {"Confirmed", "High"})
    BY DEF Found
<1>3. ~A!IsManual(A!AutomationOf(r))
    BY DEF A!IsManual, A!AutomationOf
<1> HIDE DEF evs, item
<1>4. item \in A!StrongVuln(evs) \/ item \in A!WeakVuln(evs)
    BY <1>2 DEF A!StrongVuln, A!WeakVuln
<1>5. e.confidence \in {"Confirmed", "High"} => item \in A!StrongVuln(evs)
    BY <1>2 DEF A!StrongVuln
<1>6. QED
    BY <1>1, <1>3, <1>4, <1>5 DEF A!ComputeStatus

\* A rule or a layer that is sure of a hit makes the finding strong.
LEMMA StrongIsKept ==
    ASSUME NEW k, NEW x, x.confidence \in Certainties,
           x.confidence \in {"Confirmed", "High"} \/ A!DefaultConfidence(x.rule) = "High"
    PROVE  A!Emitted(k, x).confidence \in {"Confirmed", "High"}
<1> DEFINE default == A!DefaultConfidence(x.rule)
<1>1. default \in {"Confirmed", "High", "Medium", "Potential"}
    BY DEF A!DefaultConfidence
<1>2. A!Emitted(k, x).confidence =
         IF A!Rank(x.confidence) < A!Rank(default) THEN x.confidence ELSE default
    BY DEF A!Emitted
<1> HIDE DEF default
<1>3. QED
    BY <1>1, <1>2 DEF A!Rank, Certainties, default

\* What can be seen of a call that gets request data itself first.
LEMMA DirectCallShows ==
    ASSUME NEW f, A!IsFile(f), f.tree = "intact", NEW i \in A!Exposed(f)
    PROVE  /\ \E h \in HitsOf(f) : h[2].rule = f.nodes[i].rule /\ h[2].line = f.nodes[i].line
           /\ \A h \in HitsOf(f) :
                 h[2].rule = f.nodes[i].rule /\ h[2].line = f.nodes[i].line =>
                    h[2].confidence \in {"Confirmed", "High"}
<1> DEFINE nodes == f.nodes
           n == nodes[i]
           rules == (A!Followed \ {"REDIR-001"}) \union {"MASS-001", "CMD-003", "PATH-001"}
<1>1. /\ i \in DOMAIN nodes /\ n.kind = "sink" /\ n.inside # {} /\ A!Direct(n.arg)
      /\ n.rule \in rules
      /\ \A j \in DOMAIN nodes : j # i /\ nodes[j].kind = "sink" =>
            nodes[j].line # n.line \/ nodes[j].rule # n.rule
      /\ n.slot = "first" \/ n.rule = "MASS-001"
    BY DEF A!Exposed, A!DirectCalls
<1>2. rules \subseteq A!Calls /\ rules \intersect {"LOG-002", "REDIR-001"} = {}
    BY DEF A!Followed, A!AnyArgument, A!Calls
<1>3. A!Dynamic(n.arg) /\ \A names : A!Tainted(names, n.arg)
    BY <1>1 DEF A!Direct, A!Dynamic, A!Tainted
<1>4. ASSUME NEW names, NEW guarded
      PROVE  \E c \in {"Confirmed", "High"} :
                /\ A!Hit(n.rule, n.line, c) \in A!CallHits(names, guarded, n)
                /\ \A x \in A!CallHits(names, guarded, n) : x.confidence = c
  <2>1. CASE n.rule = "MASS-001"
    <3>1. A!CallHits(names, guarded, n) = A!MassHits(names, n)
        BY <2>1 DEF A!CallHits, A!AnyArgument
    <3>2. /\ A!Hit(n.rule, n.line, "Confirmed") \in A!MassHits(names, n)
          /\ \A x \in A!MassHits(names, n) : x.confidence = "Confirmed"
        BY <1>3, <2>1 DEF A!MassHits, A!Hit
    <3>3. QED
        BY <3>1, <3>2
  <2>2. CASE n.rule # "MASS-001"
    <3>1. \E c \in {"Confirmed", "High"} :
              A!CallHits(names, guarded, n) = {A!Hit(n.rule, n.line, c)}
      <4>0. n.slot = "first" /\ A!Watched(n)
          BY <1>1, <2>2 DEF A!Watched
      <4>1. CASE n.rule = "CMD-003"
          BY <1>3, <4>0, <4>1 DEF A!CallHits, A!Claimed, A!AnyArgument
      <4>2. CASE n.rule = "PATH-001"
          BY <1>1, <1>3, <4>0, <4>2 DEF A!CallHits, A!Claimed, A!AnyArgument
      <4>3. CASE n.rule \in A!Followed \ {"REDIR-001"}
        <5>1. n.rule \notin {"CMD-003", "PATH-001", "MASS-001", "LOG-002", "REDIR-001"}
            BY <1>2, <4>3 DEF A!Followed, A!AnyArgument
        <5>2. A!Claimed(names, n) = "Confirmed"
            BY <1>1, <4>0, <4>3, <5>1 DEF A!Claimed
        <5>3. A!CallHits(names, guarded, n) = {A!Hit(n.rule, n.line, "Confirmed")}
            BY <1>3, <4>0, <5>1, <5>2 DEF A!CallHits
        <5>4. QED
            BY <5>3
      <4>4. QED
          BY <1>1, <2>2, <4>1, <4>2, <4>3
    <3>2. QED
        BY <3>1 DEF A!Hit
  <2>3. QED
      BY <2>1, <2>2
<1>5. PICK d \in DOMAIN nodes : IsDef(nodes, d, i)
    BY <1>1, InsideADef
<1>6. \E h \in HitsOf(f) : h[2].rule = n.rule /\ h[2].line = n.line
  <2>1. PICK c : A!Hit(n.rule, n.line, c) \in
                    A!CallHits(A!TaintOf(nodes, d), Guarded(nodes, d), n)
      BY <1>4
  <2> DEFINE x == A!Hit(n.rule, n.line, c)
  <2>2. x.rule = n.rule /\ x.line = n.line
      BY DEF A!Hit
  <2> HIDE DEF x
  <2>3. \E h \in HitsOf(f) : h[2] = x
      BY <1>1, <1>5, <2>1, CallIsShown DEF x
  <2>4. QED
      BY <2>2, <2>3
<1>7. ASSUME NEW h \in HitsOf(f), h[2].rule = n.rule, h[2].line = n.line
      PROVE  h[2].confidence \in {"Confirmed", "High"}
  <2>1. h \notin A!TextHits(f.text)
    <3>1. \A t \in f.text : t.rule \in A!Patterns
        BY DEF A!IsFile
    <3>2. ASSUME h \in A!TextHits(f.text) PROVE h[2].rule \in A!Patterns
      <4>1. PICK t \in f.text : h = <<<<0, 0, 0, 0>>, A!Hit(t.rule, t.line, "none")>>
          BY <3>2, TextHitsAre
      <4>2. h[2].rule = t.rule
          BY <4>1 DEF A!Hit
      <4>3. QED
          BY <3>1, <4>2
    <3>3. A!Patterns \intersect A!Calls = {}
        BY DEF A!Patterns, A!Calls
    <3>4. QED
        BY <1>1, <1>2, <1>7, <3>2, <3>3
  <2>2. PICK j \in DOMAIN nodes : \E e : From(nodes, e, j, h)
      BY <2>1, TreeHitsAre DEF HitsOf, From
  <2>3. PICK e : From(nodes, e, j, h)
      BY <2>2
  <2>4. nodes[j].kind = "mark" => nodes[j].rule \notin A!Calls
    <3>1. nodes[j].kind = "mark" => nodes[j].rule \in A!Literals \union A!Anywhere \union A!Sights
        BY NodesTyped DEF A!IsNode
    <3>2. (A!Literals \union A!Anywhere \union A!Sights) \intersect A!Calls = {}
        BY DEF A!Literals, A!Anywhere, A!Sights, A!Calls
    <3>3. QED
        BY <3>1, <3>2
  <2>5. ~FromStatement(nodes, j, h) /\ ~FromMark(nodes, e, j, h)
    <3>1. FromStatement(nodes, j, h) \/ FromMark(nodes, e, j, h) =>
             h[2].rule = nodes[j].rule /\ nodes[j].kind = "mark"
        BY DEF FromStatement, FromMark, A!Hit
    <3>2. QED
        BY <1>1, <1>2, <1>7, <2>4, <3>1
  <2>6. ~FromClass(nodes, j, h)
    <3>1. FromClass(nodes, j, h) => h[2] \in A!ClassHits(nodes[j])
        BY DEF FromClass
    <3>2. FromClass(nodes, j, h) => h[2].rule \notin A!Calls
        BY <3>1, OfAClass DEF A!Calls
    <3>3. QED
        BY <1>1, <1>2, <1>7, <3>2
  <2>7. /\ nodes[j].kind = "sink"
        /\ h[2] \in A!CallHits(A!TaintOf(nodes, e), Guarded(nodes, e), nodes[j])
      BY <2>3, <2>5, <2>6 DEF From, FromCall
  <2>8. j = i
    <3>1. nodes[j].rule \in A!Calls
        BY <2>7, NodesTyped DEF A!IsNode
    <3>2. h[2].line = nodes[j].line /\ (h[2].rule = nodes[j].rule \/ h[2].rule = "SER-001")
        BY <2>7, <3>1, OfACall
    <3>3. "SER-001" \notin A!Calls
        BY DEF A!Calls
    <3>4. QED
        BY <1>1, <1>2, <1>7, <2>7, <3>2, <3>3
  <2>9. QED
      BY <1>4, <2>7, <2>8
<1>8. QED
    BY <1>6, <1>7

\* A view that is open to everyone shows it, with a rule that is sure.
LEMMA OpenShows ==
    ASSUME NEW f, A!IsFile(f), f.tree = "intact", NEW i \in A!Open(f)
    PROVE  \E h \in HitsOf(f) : h[2].rule \in {"AUTHZ-001", "AUTHZ-002"}
<1>1. /\ i \in DOMAIN f.nodes /\ f.nodes[i].kind = "class"
      /\ f.nodes[i].permissions \in {"empty", "anyone"}
    BY DEF A!Open
<1>2. \E r \in {"AUTHZ-001", "AUTHZ-002"} :
          A!Hit(r, f.nodes[i].line, "none") \in A!ClassHits(f.nodes[i])
    BY <1>1 DEF A!ClassHits
<1>3. PICK r \in {"AUTHZ-001", "AUTHZ-002"} :
          A!Hit(r, f.nodes[i].line, "none") \in A!ClassHits(f.nodes[i])
    BY <1>2
<1> DEFINE hit == A!Hit(r, f.nodes[i].line, "none")
           h == <<A!Visit(f.nodes, i, i), hit>>
<1>4. hit.rule = r
    BY DEF A!Hit
<1>5. From(f.nodes, i, i, h)
  <2> HIDE DEF hit
  <2>1. h[1] = A!Visit(f.nodes, i, i) /\ h[2] = hit /\ h = <<h[1], h[2]>>
      OBVIOUS
  <2>2. QED
      BY <1>1, <1>3, <2>1 DEF From, FromClass, hit
<1>6. h \in HitsOf(f)
    BY <1>1, <1>5, NodeHitIsShown
<1> HIDE DEF hit
<1>7. QED
    BY <1>4, <1>6

LEMMA HitsAreTyped ==
    ASSUME NEW f, A!IsFile(f), NEW h \in HitsOf(f)
    PROVE  h[2].confidence \in Certainties
BY TextShowsOnce, TreeShowsOnce DEF HitsOf, IsHit

LEMMA WeakCodeIsHeld == ASSUME SastInv PROVE A!ShownIsHeld
<1> SUFFICES ASSUME status = "SUCCESS"
             PROVE  /\ \A k \in A!Scanned : \A s \in A!Shown(project[k]) :
                          /\ A!Cardinality({e \in evidence : /\ e.file = k /\ e.polarity = "vuln"
                                                             /\ <<e.rule, e.line>> = s}) = 1
                          /\ \A r \in A!RequirementsOf(s[1]) : A!Verdict(r) # "PASS"
                    /\ \A k \in A!Intact : \A i \in A!Exposed(project[k]) :
                          \A r \in A!RequirementsOf(project[k].nodes[i].rule) :
                             A!Verdict(r) = "FAIL"
                    /\ \A k \in A!Intact : A!Open(project[k]) # {} =>
                          A!Verdict("REQ-046") = "FAIL"
    BY DEF A!ShownIsHeld
<1>1. \A k \in A!Scanned : k \in DOMAIN project /\ A!IsFile(project[k])
    BY DEF A!Scanned, SastInv, SastTypes, A!IsProject
<1>2. A!Intact \in SUBSET A!Scanned /\ \A k \in A!Intact : project[k].tree = "intact"
    BY DEF A!Intact
<1>3. ASSUME NEW k \in A!Scanned, NEW s \in A!Shown(project[k])
      PROVE  /\ A!Cardinality({e \in evidence : /\ e.file = k /\ e.polarity = "vuln"
                                                /\ <<e.rule, e.line>> = s}) = 1
             /\ \A r \in A!RequirementsOf(s[1]) : A!Verdict(r) # "PASS"
  <2>1. PICK h \in HitsOf(project[k]) : s = <<h[2].rule, h[2].line>>
      BY <1>1, ShownAreHits
  <2>2. PICK e \in Found(evidence) : e.file = k /\ e.rule = h[2].rule /\ e.line = h[2].line
      BY HitIsFound
  <2> DEFINE those == {x \in evidence : /\ x.file = k /\ x.polarity = "vuln"
                                        /\ <<x.rule, x.line>> = s}
  <2>3. \A x \in Found(evidence), y \in Found(evidence) : Place(x) = Place(y) => x = y
      BY DEF SastInv, FindingsHeld
  <2>4. those = {e}
    <3>1. e \in those
        BY <2>1, <2>2 DEF Found
    <3>2. ASSUME NEW x \in those PROVE x = e
      <4>1. x \in Found(evidence) /\ x.file = k /\ x.rule = h[2].rule /\ x.line = h[2].line
          BY <2>1 DEF Found
      <4>2. Place(x) = Place(e)
          BY <2>2, <4>1 DEF Place
      <4>3. QED
          BY <2>2, <2>3, <4>1, <4>2
    <3> HIDE DEF those
    <3>3. QED
        BY <3>1, <3>2
  <2>5. A!Cardinality(those) = Cardinality(those)
      BY DEF A!Cardinality, Cardinality
  <2> HIDE DEF those
  <2>6. A!Cardinality(those) = 1
      BY <2>4, <2>5, FS_Singleton
  <2>7. \A r \in A!RequirementsOf(s[1]) : A!Verdict(r) # "PASS"
      BY <2>1, <2>2, FindingDecides
  <2>8. QED
      BY <2>6, <2>7 DEF those
<1>4. ASSUME NEW k \in A!Intact, NEW i \in A!Exposed(project[k]),
             NEW r \in A!RequirementsOf(project[k].nodes[i].rule)
      PROVE  A!Verdict(r) = "FAIL"
  <2> DEFINE n == project[k].nodes[i]
  <2>1. k \in A!Scanned /\ A!IsFile(project[k]) /\ project[k].tree = "intact"
      BY <1>1, <1>2
  <2>2. PICK h \in HitsOf(project[k]) : h[2].rule = n.rule /\ h[2].line = n.line
      BY <2>1, DirectCallShows
  <2>3. PICK e \in Found(evidence) :
            /\ e.rule = h[2].rule
            /\ \E g \in HitsOf(project[k]) : e = A!Emitted(k, g[2]) /\ SamePlace(g, h)
      BY <2>1, HitIsFound
  <2>4. PICK g \in HitsOf(project[k]) : e = A!Emitted(k, g[2]) /\ SamePlace(g, h)
      BY <2>3
  <2>5. g[2].confidence \in {"Confirmed", "High"}
      BY <2>1, <2>2, <2>4, DirectCallShows DEF SamePlace
  <2>6. e.confidence \in {"Confirmed", "High"}
      BY <2>4, <2>5, StrongIsKept DEF Certainties
  <2>7. QED
      BY <2>2, <2>3, <2>6, FindingDecides
<1>5. ASSUME NEW k \in A!Intact, A!Open(project[k]) # {}
      PROVE  A!Verdict("REQ-046") = "FAIL"
  <2>1. k \in A!Scanned /\ A!IsFile(project[k]) /\ project[k].tree = "intact"
      BY <1>1, <1>2
  <2>2. PICK h \in HitsOf(project[k]) : h[2].rule \in {"AUTHZ-001", "AUTHZ-002"}
      BY <1>5, <2>1, OpenShows
  <2>3. PICK e \in Found(evidence) :
            /\ e.rule = h[2].rule
            /\ \E g \in HitsOf(project[k]) : e = A!Emitted(k, g[2]) /\ SamePlace(g, h)
      BY <2>1, HitIsFound
  <2>4. PICK g \in HitsOf(project[k]) : e = A!Emitted(k, g[2]) /\ SamePlace(g, h)
      BY <2>3
  <2>5. g[2].confidence \in Certainties /\ A!DefaultConfidence(g[2].rule) = "High"
    <3>1. g[2].rule \in {"AUTHZ-001", "AUTHZ-002"}
        BY <2>2, <2>4 DEF SamePlace
    <3>2. QED
        BY <2>1, <3>1, HitsAreTyped DEF A!DefaultConfidence
  <2>6. e.confidence \in {"Confirmed", "High"}
      BY <2>4, <2>5, StrongIsKept
  <2>7. "REQ-046" \in A!RequirementsOf(e.rule)
      BY <2>2, <2>3 DEF A!RequirementsOf
  <2>8. QED
      BY <2>6, <2>7, FindingDecides
<1>6. QED
    BY <1>3, <1>4, <1>5

-----------------------------------------------------------------------------
(* The engines together *)

\* Whichever engine runs is in its invariant.
IInv ==
    /\ engine = "settings"     => SettingsInv
    /\ engine = "dependencies" => DependencyInv
    /\ engine = "endpoints"    => EndpointInv
    /\ engine = "network"      => NetworkInv
    /\ engine = "sast"         => SastInv
    /\ engine = "dast"         => ProbingInv
    /\ engine # "dast"         => at = 1 /\ shown = {}

LEMMA InitIInv == EnginesInit => IInv
BY SettingsInit, DependencyInit, EndpointInit, NetworkInit, SastInit, ProbingInit
   DEF EnginesInit, IInv, ProbingIdle

LEMMA NextIInv == IInv /\ [EnginesNext]_enginesVars => IInv'
<1> SUFFICES ASSUME IInv, [EnginesNext]_enginesVars PROVE IInv'
    OBVIOUS
<1>1. CASE SettingsStep
    BY <1>1, SettingsNext DEF SettingsStep, IInv, probingVars
<1>2. CASE DependencyStep
    BY <1>2, DependencyNext DEF DependencyStep, IInv, probingVars
<1>3. CASE NetworkStep
    BY <1>3, NetworkNext DEF NetworkStep, IInv, probingVars
<1>4. CASE ProbingStep \/ Exit
  <2>1. engine = "dast" /\ Next /\ UNCHANGED engine
      BY <1>4 DEF ProbingStep, Exit, OthersUnchanged, Next
  <2>2. QED
      BY <2>1, ProbingNext DEF IInv
<1>5. CASE EndpointStep
    BY <1>5, EndpointNext DEF EndpointStep, IInv, probingVars
<1>6. CASE SastStep
    BY <1>6, SastNext DEF SastStep, IInv, probingVars
<1>7. CASE UNCHANGED enginesVars
  <2>1. /\ UNCHANGED engine /\ UNCHANGED S!vars /\ UNCHANGED D!vars /\ UNCHANGED E!vars
        /\ UNCHANGED N!vars /\ UNCHANGED A!vars /\ UNCHANGED vars /\ UNCHANGED <<at, shown>>
      BY <1>7 DEF enginesVars, settingsVars, endpointVars, S!vars, D!vars, E!vars, N!vars, A!vars,
                  vars
  <2>2. QED
      BY <2>1, SettingsNext, DependencyNext, EndpointNext, NetworkNext, SastNext, ProbingNext
         DEF IInv
<1>8. QED
    BY <1>1, <1>2, <1>3, <1>4, <1>5, <1>6, <1>7 DEF EnginesNext, EngineStep

LEMMA Inductive == EnginesSpec => []IInv
BY InitIInv, NextIInv, PTL DEF EnginesSpec

\* The settings judged are those of production: whatever the modules assign, in
\* whatever order they lie on the disk, and whichever of them do not parse.
THEOREM ProductionSettings == EnginesSpec => []ProductionDecides
<1>1. IInv => ProductionDecides
    BY LatestDecides DEF IInv, ProductionDecides
<1>2. QED
    BY Inductive, <1>1, PTL

\* An insecure setting, also one of Django's own defaults, is reported by every
\* check that reports at all.
THEOREM InsecureReported == EnginesSpec => []InsecureIsReported
<1>1. IInv => InsecureIsReported
    BY InsecureAreReported DEF IInv, InsecureIsReported
<1>2. QED
    BY Inductive, <1>1, PTL

\* Each package is judged by its first declaration in the order of the walk, or
\* by the environment if no manifest declares anything.
THEOREM FirstDeclarations == EnginesSpec => []FirstDeclarationDecides
<1>1. IInv => FirstDeclarationDecides
    BY FirstDecides DEF IInv, FirstDeclarationDecides
<1>2. QED
    BY Inductive, <1>1, PTL

\* Of a plain project - routers at the root of their files, includes of names,
\* routes that are constants, each file included once - the endpoints are exactly
\* the routes Django serves, in whatever order the files are found and whichever of
\* them do not parse.
THEOREM RoutesServed == EnginesSpec => []PlainRoutesAreServed
<1>1. IInv => PlainRoutesAreServed
    BY EndpointsHeld DEF IInv, PlainRoutesAreServed
<1>2. QED
    BY Inductive, <1>1, PTL

\* Whatever the configuration file says or gets wrong, only listed and confirmed
\* hosts are scanned, and a scan that succeeds has scanned them all.
THEOREM AuthorizedScans == EnginesSpec => []ScansAreAuthorized
<1>1. IInv => ScansAreAuthorized
    BY ScansAreInScope DEF IInv, ScansAreAuthorized
<1>2. QED
    BY Inductive, <1>1, PTL

\* The taint of a function, of any length and nesting: no name beyond those that
\* assignments in any order lead to from request data and parameters after the
\* request, and all that they lead to down the text, without leaving a block, from
\* request data that is in sight or from the URL parameters of a function that takes
\* the request first.
THEOREM TaintFollows == EnginesSpec => []TaintFollowsFlow
<1>1. IInv => TaintFollowsFlow
    BY TaintIsFlow DEF IInv, TaintFollowsFlow
<1>2. QED
    BY Inductive, <1>1, PTL

\* What any scanned host exposes fails its requirement, and nothing else does; what
\* any file shows without any flow has one finding, which keeps its requirements
\* from PASS; and request data as the first argument of a dangerous call, redirects
\* and shared lines apart, fails them.
THEOREM WeaknessHeld == EnginesSpec => []WeaknessIsHeld
<1>1. IInv => WeaknessIsHeld
    BY ExposureIsDecided, WeakCodeIsHeld DEF IInv, WeaknessIsHeld
<1>2. QED
    BY Inductive, <1>1, PTL

\* A weakness that a probe has seen keeps its requirements from PASS, for any
\* plan of probes and whenever the application stops answering.
THEOREM ShownHeld == EnginesSpec => []ShownIsHeld
<1>1. IInv => ShownIsHeld
    BY ShownAreHeld DEF IInv, ShownIsHeld
<1>2. QED
    BY Inductive, <1>1, PTL

\* A scan of an application that never answers is FAILED and without evidence.
THEOREM SilenceFails == EnginesSpec => []SilentScanFails
<1>1. engine # "dast" /\ IInv => SilentScanFails
    BY PlanIs DEF IInv, SilentScanFails
<1>2. IInv => SilentScanFails
    BY <1>1, SilentScansFail DEF IInv
<1>3. QED
    BY Inductive, <1>2, PTL
=============================================================================
