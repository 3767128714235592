---------------------------- MODULE EndpointScan ----------------------------
(***************************************************************************)
(* Endpoint discovery (scanners/dast/endpoints.py, discover_endpoints):    *)
(* the urls.py files no other file includes are parsed, and every file     *)
(* they include, recursively, under the prefix of the include.             *)
(*                                                                         *)
(* A path is the sequence of its segments (a route is whole segments: that *)
(* _join puts a slash where Django puts none is left out); one endpoint    *)
(* stands for all methods of a route.  The entries of a file are what its  *)
(* URLs are made of, in the order of ast.walk:                             *)
(*   kind      "view" (a view or the admin site); "register" (a route of   *)
(*             the router of the file); "mount" (include(router.urls) in a *)
(*             path(), or router.urls in the urlpatterns); or "include"    *)
(*   route     its own segments                                            *)
(*   readable  the route is a constant and written in front of the view    *)
(*   inline    the segments of the include([...]) lists and i18n_patterns  *)
(*             it is written in                                            *)
(*   target    for "include", the file that is included                    *)
(*   named     for "include", by its name on its own, not in a tuple with  *)
(*             a namespace or as a module that was imported                *)
(***************************************************************************)
EXTENDS Naturals, Sequences, FiniteSets

CONSTANTS Files,        \* the urls.py files
          Routes,       \* the segments
          Projects      \* projects considered, see IsProject

Entries == [kind: {"view", "register", "mount", "include"}, route: Seq(Routes),
            readable: BOOLEAN, inline: Seq(Routes), target: Files, named: BOOLEAN]

\* order: the files as they are found; urlconf: the ROOT_URLCONF; nested: the
\* Django project is in a subdirectory, so that Python names and paths differ;
\* broken: files that do not parse; admins: files whose name ends in admin.urls.
IsProject(p) ==
    /\ p.order \in Seq(Files)
    /\ p.urlconf \in Files
    /\ p.nested \in BOOLEAN
    /\ p.broken \subseteq Files
    /\ p.admins \subseteq Files
    /\ DOMAIN p.entries = Files
    /\ \A f \in Files : p.entries[f] \in Seq(Entries)

VARIABLES project,      \* what is scanned
          roots,        \* places of the files still to be parsed with an empty prefix
          stack,        \* the open parse_file calls, the innermost last
          visited,      \* modules parse_file was called with
          endpoints,    \* the paths found
          status        \* "idle", "parsing" or "done"

vars == <<project, roots, stack, visited, endpoints, status>>

Init ==
    /\ project = [order |-> <<>>, urlconf |-> CHOOSE f \in Files : TRUE,
                  nested |-> FALSE, broken |-> {}, admins |-> {}, entries |-> [f \in Files |-> <<>>]]
    /\ roots = {}
    /\ stack = <<>>
    /\ visited = {}
    /\ endpoints = {}
    /\ status = "idle"

-----------------------------------------------------------------------------
EntriesOf(p, f) == {p.entries[f][n] : n \in DOMAIN p.entries[f]}

Named(e) == e.kind = "include" /\ e.named

\* Files the others include, by the names the code can resolve.
Included(p) ==
    IF p.nested THEN {}
    ELSE {e.target : e \in {x \in UNION {EntriesOf(p, f) : f \in Files \ p.broken} : Named(x)}}

\* All files that are not included; the first one if every file is.
Roots(p) ==
    LET rest == {n \in DOMAIN p.order : p.order[n] \notin Included(p)}
    IN  IF rest # {} THEN rest ELSE DOMAIN p.order \intersect {1}

Start ==
    /\ status = "idle"
    /\ \E p \in Projects :
          /\ project' = p
          /\ roots' = Roots(p)
          /\ status' = "parsing"
    /\ UNCHANGED <<stack, visited, endpoints>>

\* parse_file: a call that stays open, unless the module was visited or does not
\* parse.
Opened(calls, f, prefix) ==
    IF f \in visited \union project.broken THEN calls
    ELSE Append(calls, [file |-> f, prefix |-> prefix, next |-> 1])

ParseRoot ==
    /\ status = "parsing" /\ stack = <<>>
    /\ \E n \in roots :
          /\ \A m \in roots : n <= m
          /\ stack' = Opened(stack, project.order[n], <<>>)
          /\ visited' = visited \union {project.order[n]}
          /\ roots' = roots \ {n}
    /\ UNCHANGED <<project, endpoints, status>>

top == stack[Len(stack)]
entry == project.entries[top.file][top.next]

\* Bug: the prefix of the included file replaces the one it is included under.
FullOfEntry == entry.route

\* _join: the prefix of the file and the entry's own route.  What encloses the
\* entry, or mounts the router, adds nothing.
Full == top.prefix \o entry.route

Advanced == [stack EXCEPT ![Len(stack)].next = @ + 1]

\* An include of a name that ends in admin.urls is taken for Django's own.
Reports(e) ==
    e.readable /\ (e.kind \in {"view", "register"} \/ (Named(e) /\ e.target \in project.admins))

\* A name that can be resolved to a file.
Follows(e) ==
    e.readable /\ Named(e) /\ e.target \notin project.admins /\ ~project.nested

AddEndpoint ==
    /\ stack # <<>> /\ top.next <= Len(project.entries[top.file])
    /\ Reports(entry)
    /\ endpoints' = endpoints \union {Full}
    /\ stack' = Advanced
    /\ UNCHANGED <<project, roots, visited, status>>

Include ==
    /\ stack # <<>> /\ top.next <= Len(project.entries[top.file])
    /\ Follows(entry)
    /\ stack' = Opened(Advanced, entry.target, Full)
    /\ visited' = visited \union {entry.target}
    /\ UNCHANGED <<project, roots, endpoints, status>>

PassOver ==
    /\ stack # <<>> /\ top.next <= Len(project.entries[top.file])
    /\ ~Reports(entry) /\ ~Follows(entry)
    /\ stack' = Advanced
    /\ UNCHANGED <<project, roots, visited, endpoints, status>>

Return ==
    /\ stack # <<>> /\ top.next > Len(project.entries[top.file])
    /\ stack' = SubSeq(stack, 1, Len(stack) - 1)
    /\ UNCHANGED <<project, roots, visited, endpoints, status>>

Finish ==
    /\ status = "parsing" /\ stack = <<>> /\ roots = {}
    /\ status' = "done"
    /\ UNCHANGED <<project, roots, stack, visited, endpoints>>

Next == \/ Start \/ ParseRoot \/ AddEndpoint \/ Include \/ PassOver \/ Return \/ Finish

Spec == Init /\ [][Next]_vars

-----------------------------------------------------------------------------
(* Properties *)

\* These mounts, and those through one include more.
Deeper(p, mounts) ==
    mounts \union
        UNION {{<<e.target, m[2] \o e.inline \o e.route>> :
                  e \in {x \in EntriesOf(p, m[1]) : x.kind = "include"}} :
                m \in {m0 \in mounts : m0[1] \notin p.broken}}

\* Where Django mounts the files, through at most as many includes as there are files.
Mounts(p) ==
    LET At[n \in 0..Cardinality(Files)] ==
            IF n = 0 THEN {<<p.urlconf, <<>>>>} ELSE Deeper(p, At[n - 1])
    IN  At[Cardinality(Files)]

\* What lies between the mount of file f and the route of an entry: for the router
\* of f, wherever it is mounted in f.
Between(p, f, e) ==
    IF e.kind = "register"
    THEN {r.inline \o r.route : r \in {x \in EntriesOf(p, f) : x.kind = "mount"}}
    ELSE {e.inline}

Routed(p, f) == {e \in EntriesOf(p, f) : e.kind \in {"view", "register"}}

PathsUnder(p, m) ==
    UNION {{m[2] \o between \o e.route : between \in Between(p, m[1], e)} :
              e \in Routed(p, m[1])}

\* The paths Django serves, except those of files that do not parse.
Served(p) == UNION {PathsUnder(p, m) : m \in {m0 \in Mounts(p) : m0[1] \notin p.broken}}

\* How often file f is included.
TimesIncluded(p, f) ==
    Cardinality(UNION {{<<g, n>> : n \in {k \in DOMAIN p.entries[g] :
                            p.entries[g][k].kind = "include" /\ p.entries[g][k].target = f}} :
                         g \in Files \ p.broken})

\* A project at the top of the source tree whose routes can be read, without inline
\* lists, each file but the ROOT_URLCONF included by one entry.
Regular(p) ==
    /\ ~p.nested /\ p.admins = {}
    /\ \A f \in Files : \A e \in EntriesOf(p, f) : e.readable /\ e.inline = <<>>
    /\ {p.order[n] : n \in DOMAIN p.order} = Files
    /\ TimesIncluded(p, p.urlconf) = 0
    /\ \A f \in Files \ {p.urlconf} : TimesIncluded(p, f) = 1

IncludesAreNames(p) ==
    \A f \in Files : \A e \in EntriesOf(p, f) : e.kind = "include" => e.named

\* A router has no prefix of its own: its file adds router.urls to the urlpatterns,
\* or includes it under "".
RoutersAtRoot(p) ==
    \A f \in Files : \A e \in EntriesOf(p, f) :
        e.kind = "register" => Between(p, f, e) = {<<>>}

Plain(p) == Regular(p) /\ IncludesAreNames(p) /\ RoutersAtRoot(p)

\* Of a plain project exactly the paths Django serves are reported, whatever the
\* order the files are found in, and though some of them do not parse
\* (discover_endpoints).  "routes are reported with their full mounted path"
\* (endpoints.py:4-5) is not true of the others, and nothing is said of them:
\*   - routers mounted under a prefix: path("api/", include(router.urls)) is passed
\*     over, its routes lose "api/" (endpoints.py:125-136, 147-156): RoutersAtRoot;
\*   - includes of a tuple or a module, whose file is taken for a root
\*     (endpoints.py:85, 148): IncludesAreNames;
\*   - routes that are no constants, inline lists, apps called admin, projects in
\*     a subdirectory, files that are included twice or never: Regular.
PlainRoutesAreServed ==
    status = "done" /\ Plain(project) => endpoints = Served(project)
=============================================================================
