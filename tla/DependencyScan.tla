--------------------------- MODULE DependencyScan ---------------------------
(***************************************************************************)
(* The dependency scanner (scanners/dependencies/scanner.py): collect the  *)
(* declarations of every manifest in the order of the walk, fall back to   *)
(* the installed environment if there is none, and judge each package      *)
(* once, by the first declaration of its name.  The totals of result.data  *)
(* are left out.                                                           *)
(***************************************************************************)
EXTENDS Naturals, Sequences, FiniteSets

\* What a specifier comes to (_parse_pinned and the advisory database): an
\* exact version that an advisory of the package covers, or none does, or that
\* is no valid version ("==None"); a range or nothing; or a version-control or
\* editable source.
Exact == {"affected", "clear", "invalid"}
Specs == Exact \union {"floating", "vcs"}

CONSTANTS Packages,     \* package names, in lower case
          Unnamed,      \* the name of an entry that has none
          Advised,      \* packages with advisories
          Dangerous,    \* DANGEROUS_PACKAGES that have a reason
          Hinted,       \* packages of CURRENT_HINTS
          Projects      \* projects considered, see IsProject

Declaration == [name: Packages \union {Unnamed}, spec: Specs]
\* A manifest can be read, cannot be, or makes its parser raise ("-r" without a
\* target, a dependency that is no string).  The entries are those of the files it
\* takes in with "-r" as well: they carry its name.
Manifest == [state: {"readable", "unreadable", "raises"}, entries: Seq(Declaration)]

\* The manifests in the order of the walk, and the installed packages, each with
\* a name and once.
IsProject(p) ==
    /\ p.manifests \in Seq(Manifest)
    /\ p.installed \in Seq([name: Packages, spec: Exact \union {"floating"}])
    /\ \A m, n \in DOMAIN p.installed :
          p.installed[m].name = p.installed[n].name => m = n

VARIABLES project,      \* what is scanned
          todo,         \* manifests not yet read
          deps,         \* the declarations, each with its manifest (0: none)
          seen,         \* names already judged
          evidence,     \* the evidence, with its manifest if a finding goes with it
          status        \* of the scan; "idle" before it

vars == <<project, todo, deps, seen, evidence, status>>

Init ==
    /\ project = [manifests |-> <<>>, installed |-> <<>>]
    /\ todo = <<>>
    /\ deps = <<>>
    /\ seen = {}
    /\ evidence = {}
    /\ status = "idle"

-----------------------------------------------------------------------------
Start ==
    /\ status = "idle"
    /\ \E p \in Projects :
          /\ project' = p
          /\ todo' = [i \in DOMAIN p.manifests |-> i]
          /\ status' = "collecting"
    /\ UNCHANGED <<deps, seen, evidence>>

\* The declarations of manifest i, an unreadable one has none; of the installed
\* environment for 0.
Declared(i) ==
    LET entries == IF i = 0 THEN project.installed
                   ELSE IF project.manifests[i].state = "readable"
                   THEN project.manifests[i].entries ELSE <<>>
    IN  [n \in DOMAIN entries |->
            [name |-> entries[n].name, spec |-> entries[n].spec, manifest |-> i]]

\* Bug: what the manifest declares goes before what was collected so far.
CollectFirst(i) == Declared(i) \o deps

Collect(i) == deps \o Declared(i)

ReadManifest ==
    /\ status = "collecting" /\ todo # <<>>
    /\ project.manifests[Head(todo)].state # "raises"
    /\ deps' = Collect(Head(todo))
    /\ todo' = Tail(todo)
    /\ UNCHANGED <<project, seen, evidence, status>>

\* No parser is in a handler: the scan fails (safe_run), what was collected is lost.
ParserRaises ==
    /\ status = "collecting" /\ todo # <<>>
    /\ project.manifests[Head(todo)].state = "raises"
    /\ status' = "FAILED"
    /\ UNCHANGED <<project, todo, deps, seen, evidence>>

\* Nothing declared: the installed packages, and SKIPPED without those.
FallBack ==
    /\ status = "collecting" /\ todo = <<>> /\ deps = <<>>
    /\ deps' = Declared(0)
    /\ status' = IF project.installed = <<>> THEN "SKIPPED" ELSE "judging"
    /\ UNCHANGED <<project, todo, seen, evidence>>

BeginJudging ==
    /\ status = "collecting" /\ todo = <<>> /\ deps # <<>>
    /\ status' = "judging"
    /\ UNCHANGED <<project, todo, deps, seen, evidence>>

-----------------------------------------------------------------------------
\* Evidence alone, and with a finding (_emit).
Noted(d, rule, polarity) ==
    [package |-> d.name, rule |-> rule, polarity |-> polarity, manifest |-> 0]
Emitted(d, rule, polarity) ==
    [package |-> d.name, rule |-> rule, polarity |-> polarity, manifest |-> d.manifest]

\* An unmaintained package, whatever its version.
DangerousItems(d) ==
    IF d.name \in Dangerous THEN {Emitted(d, "DEP-DANGEROUS-001", "vuln")} ELSE {}

\* A known vulnerability, or a note that a floating version may have one.
AdvisoryItems(d) ==
    IF d.name \notin Advised THEN {}
    ELSE IF d.spec = "affected" THEN {Emitted(d, "DEP-CVE-001", "vuln")}
    ELSE IF d.spec \notin Exact THEN {Noted(d, "DEP-CVE-001", "info")} ELSE {}

PinningItems(d) ==
    CASE d.spec \in Exact -> {Noted(d, "DEP-PIN-001", "ok")}
      [] d.spec = "vcs"   -> {}
      [] OTHER            -> {Emitted(d, "DEP-PIN-001", "vuln")}

\* A version older than the hint, if it is a version at all.
OutdatedItems(d) ==
    IF d.name \in Hinted /\ d.spec \in Exact \ {"invalid"}
    THEN {{}, {Emitted(d, "DEP-OLD-001", "info")}} ELSE {{}}

\* Bug: a name is remembered only once its version has been compared.
SeenExact(d) == IF d.spec \in Exact THEN seen \union {d.name} ELSE seen

Seen(d) == seen \union {d.name}

Judge ==
    /\ status = "judging" /\ deps # <<>>
    /\ LET d == Head(deps)
           judged == DangerousItems(d) \union AdvisoryItems(d) \union PinningItems(d)
       IN  IF d.name = Unnamed \/ d.name \in seen
           THEN UNCHANGED <<seen, evidence>>
           ELSE /\ seen' = Seen(d)
                /\ \E old \in OutdatedItems(d) : evidence' = evidence \union judged \union old
    /\ deps' = Tail(deps)
    /\ UNCHANGED <<project, todo, status>>

Finish ==
    /\ status = "judging" /\ deps = <<>>
    /\ status' = "SUCCESS"
    /\ UNCHANGED <<project, todo, deps, seen, evidence>>

Next == \/ Start \/ ReadManifest \/ ParserRaises \/ FallBack \/ BeginJudging \/ Judge \/ Finish

Spec == Init /\ [][Next]_vars

-----------------------------------------------------------------------------
(* Properties *)

\* The manifests that count: if none declares anything, the environment.
Sources ==
    LET manifests == {i \in DOMAIN project.manifests : Declared(i) # <<>>}
    IN  IF manifests = {} THEN {0} ELSE manifests

\* Where a package is declared, <<manifest, entry>>.
Places(name) ==
    UNION {{<<i, n>> : n \in {k \in DOMAIN Declared(i) : Declared(i)[k].name = name}} :
             i \in Sources}

Before(a, b) == a[1] < b[1] \/ (a[1] = b[1] /\ a[2] <= b[2])

First(places) == CHOOSE a \in places : \A b \in places : Before(a, b)

Deciding(name) ==
    LET a == First(Places(name)) IN [manifest |-> a[1], spec |-> Declared(a[1])[a[2]].spec]

About(name, rule, polarity) ==
    {e \in evidence : e.package = name /\ e.rule = rule /\ e.polarity = polarity}

\* Each declared package is judged, once, by its first declaration in the order
\* of the walk, and every finding names that manifest (test_dependencies.py,
\* test_findings_record_their_manifest): it is affected, pinned or unpinned
\* exactly as that declaration says, also when later ones say otherwise, and
\* when only the environment has any.  Nothing is SKIPPED that has packages.
FirstDeclarationDecides ==
    /\ status = "SUCCESS" =>
        \A name \in {p \in Packages : Places(p) # {}} :
            LET d == Deciding(name)
            IN  /\ About(name, "DEP-CVE-001", "vuln") # {} <=>
                      name \in Advised /\ d.spec = "affected"
                /\ About(name, "DEP-PIN-001", "ok") # {} <=> d.spec \in Exact
                /\ About(name, "DEP-PIN-001", "vuln") # {} <=> d.spec = "floating"
                /\ \A e \in evidence :
                      e.package = name /\ e.polarity = "vuln" => e.manifest = d.manifest
    /\ status = "SKIPPED" => \A name \in Packages : Places(name) = {}
=============================================================================
