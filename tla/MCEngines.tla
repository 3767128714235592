----------------------------- MODULE MCEngines ------------------------------
(***************************************************************************)
(* Small projects for the engines; those of the dynamic ones are in        *)
(* MCProbing.                                                              *)
(***************************************************************************)
EXTENDS Engines, MCProbing, TLC

-----------------------------------------------------------------------------
(* Settings: two modules that assign some of two related settings, or two   *)
(* or three modules that assign one setting.                                *)

ModuleOf(state, weight, assigns) == [state |-> state, weight |-> weight, assigns |-> assigns]

\* The values considered of a setting.
Kinds(s) ==
    CASE s \in {"DEBUG", "SESSION_COOKIE_HTTPONLY", "CORS_ALLOW_ALL_ORIGINS"} ->
                {"true", "false", "env", "unknown"}
      [] s = "SESSION_COOKIE_SECURE" -> {"true", "false"}
      [] s = "SECURE_HSTS_SECONDS" -> {"safe", "low", "empty", "env"}
      [] s = "REST_FRAMEWORK" -> {"safe", "weak", "unknown"}
      [] OTHER -> {"safe", "weak", "empty"}

\* What a module assigns of one setting, and of two.
Assign(s) == {<<>>} \union {s :> v : v \in Kinds(s)}
AssignBoth(s, t) == {x @@ y : x \in Assign(s), y \in Assign(t)}

Modules(states, weights, assignments) ==
    {ModuleOf(st, w, a) : st \in states, w \in weights, a \in assignments}

\* Two modules, the first perhaps for production.
Two(states, assignments) ==
    {[modules |-> <<a, b>>, drf |-> FALSE] :
        a \in Modules(states, {1, 2}, assignments), b \in Modules(states, {1}, assignments)}

\* Three modules, in any order of their weights.
Three(assignments) ==
    {[modules |-> <<a, b, c>>, drf |-> TRUE] :
        a \in Modules({"intact", "syntax"}, {0, 2}, assignments),
        b \in Modules({"intact", "raises"}, {0, 1}, assignments),
        c \in Modules({"intact", "syntax"}, {1, 2}, assignments)}

MCSettingsProjects ==
    {[modules |-> <<>>, drf |-> FALSE]}
    \union Two({"intact"}, AssignBoth("DEBUG", "ALLOWED_HOSTS"))
    \union Two({"intact"}, AssignBoth("CORS_ALLOW_ALL_ORIGINS", "CORS_ALLOWED_ORIGINS"))
    \union Two({"intact"}, AssignBoth("X_FRAME_OPTIONS", "MIDDLEWARE"))
    \union UNION {Two({"intact", "syntax"}, Assign(s)) :
                     s \in {"SESSION_COOKIE_HTTPONLY", "SECURE_HSTS_SECONDS", "REST_FRAMEWORK"}}
    \union Three(Assign("SESSION_COOKIE_SECURE"))

-----------------------------------------------------------------------------
(* Dependencies: a manifest of up to two entries and one of up to one, of a *)
(* package with advisories, an unmaintained one and an entry without a name.*)

MCPackages == {"django", "pycrypto"}
MCUnnamed == ""

DeclarationOf(name, spec) == [name |-> name, spec |-> spec]
MCDeclarations ==
    {DeclarationOf("django", spec) : spec \in {"affected", "clear", "invalid", "floating", "vcs"}}
    \union {DeclarationOf("pycrypto", "clear"), DeclarationOf("", "floating")}
UpTo(n) == UNION {[1..k -> MCDeclarations] : k \in 0..n}

Environments ==
    {<<>>} \union UNION {{<<d>>, <<DeclarationOf("pycrypto", "clear"), d>>} :
                         d \in {DeclarationOf("django", "affected"),
                               DeclarationOf("django", "floating")}}

MCDependencyProjects ==
    {[manifests |-> ms, installed |-> <<>>] :
        ms \in {<<a, b>> : a \in [state: {"readable", "unreadable"}, entries: UpTo(2)],
                           b \in [state: {"readable", "raises"}, entries: UpTo(1)]}}
    \union {[manifests |-> ms, installed |-> env] :
        ms \in {<<>>, <<[state |-> "unreadable", entries |-> <<DeclarationOf("django", "clear")>>]>>,
                <<[state |-> "readable", entries |-> <<>>]>>},
        env \in Environments}

-----------------------------------------------------------------------------
(* Endpoints: three files, two of up to two entries, the other of one;      *)
(* routers, includes that are no names, routes that are no constants and    *)
(* inline lists, apps called admin and subdirectories with fewer entries.   *)

MCFiles == {"urls", "api", "app"}
MCRoutes == {"x", "y"}

EntryOf(kind, route) ==
    [kind |-> kind, route |-> route, readable |-> TRUE, inline |-> <<>>, target |-> "urls",
     named |-> FALSE]
IncludeOf(f) == [EntryOf("include", <<"y">>) EXCEPT !.target = f, !.named = TRUE]

Mounted == {EntryOf("view", <<"x">>)} \union {IncludeOf(f) : f \in MCFiles}
Router  == {EntryOf("register", <<"x">>), EntryOf("mount", <<>>), EntryOf("mount", <<"y">>)}
Other   == {[EntryOf("view", <<"x">>) EXCEPT !.inline = <<"y">>],
            [EntryOf("view", <<"x">>) EXCEPT !.readable = FALSE],
            [IncludeOf("app") EXCEPT !.route = <<>>],
            [IncludeOf("app") EXCEPT !.inline = <<"x">>],
            [IncludeOf("app") EXCEPT !.named = FALSE],
            [IncludeOf("app") EXCEPT !.readable = FALSE]}
UpToOf(n, entries) == UNION {[1..k -> entries] : k \in 0..n}

UrlTree(order, nested, unparsed, admins, urls, api, app) ==
    [order |-> order, urlconf |-> "urls", nested |-> nested, broken |-> unparsed,
     admins |-> admins,
     entries |-> [f \in MCFiles |-> CASE f = "urls" -> urls
                                      [] f = "api" -> api
                                      [] f = "app" -> app]]

MCEndpointProjects ==
    {UrlTree(<<>>, FALSE, {}, {}, <<>>, <<>>, <<>>)}
    \union {UrlTree(o, FALSE, b, {}, u, a, c) :
        o \in {<<"api", "app", "urls">>, <<"urls", "app", "api">>},
        b \in {{}, {"app"}}, u \in UpToOf(2, Mounted),
        a \in UpToOf(2, Mounted), c \in UpToOf(1, Mounted)}
    \union {UrlTree(<<"app", "api", "urls">>, n, {}, s, u, a, c) :
        n \in BOOLEAN, s \in {{}, {"app"}}, u \in UpToOf(1, Mounted \union Other),
        a \in UpToOf(1, Mounted \union Other), c \in UpToOf(1, Mounted)}
    \union {UrlTree(<<"api", "urls", "app">>, FALSE, {}, {}, <<IncludeOf("api"), i>>, a, c) :
        i \in {IncludeOf("app"), [IncludeOf("app") EXCEPT !.named = FALSE]},
        a \in UpToOf(2, Router \union Mounted), c \in UpToOf(2, Router)}

-----------------------------------------------------------------------------
(* Networks: what the configuration lists of four hosts, and three kinds of *)
(* hosts: one as expected, one with a cache and a development server, one   *)
(* with an outdated SSH server and telnet.                                  *)

MCLocalHosts  == {"10.0.0.5"}
MCPublicHosts == {"8.8.8.8"}

HostKinds == {(443 :> "current" @@ 80 :> "silent"),
              (6379 :> "current" @@ 8000 :> "outdated" @@ 21 :> "closed"),
              (22 :> "outdated" @@ 23 :> "current" @@ 8000 :> "silent" @@ 4444 :> "current")}
Networks ==
    {("127.0.0.1" :> a @@ "localhost" :> (22 :> "current") @@ "10.0.0.5" :> b @@ "8.8.8.8" :> c) :
        a \in HostKinds, b \in HostKinds, c \in {(5432 :> "silent"), (443 :> "current")}}

OptionOf(key, choices) == {<<>>} \union {key :> v : v \in choices}
Lists == {<<>>, <<"8.8.8.8">>, <<"127.0.0.1", "8.8.8.8">>, <<"10.0.0.5", "127.0.0.1", "10.0.0.5">>}
KeySets ==
    {a @@ b @@ c @@ d : a \in OptionOf("authorized_targets", Lists),
                        b \in OptionOf("allow_external_targets", BOOLEAN),
                        c \in OptionOf("expected_open_ports", {{22, 8000}}),
                        d \in OptionOf("scan_ports", {{22, 443, 6379, 4444}})}

NetworkOf(section, keys, invalid, confirmed, nmap, services) ==
    [section |-> section, keys |-> keys, invalid |-> invalid, confirmed |-> confirmed,
     nmap |-> nmap, services |-> services]

MCNetworkProjects ==
    {NetworkOf("keys", k, {}, TRUE, m, s) : k \in KeySets, m \in {"absent", "works"}, s \in Networks}
    \union {NetworkOf(x, <<>>, {}, c, m, s) :
                x \in {"absent", "null"}, c \in BOOLEAN, m \in {"fails", "works"}, s \in Networks}
    \union {NetworkOf("keys", k, i, c, "absent", CHOOSE s \in Networks : TRUE) :
                k \in OptionOf("authorized_targets", Lists), c \in BOOLEAN,
                i \in {{"expected_open_ports"}, {"scan_ports"}, {"port"}, {"allow_external_targets"}}}
    \union {NetworkOf("keys", <<>>, {"authorized_targets"}, c, "absent",
                      CHOOSE s \in Networks : TRUE) : c \in BOOLEAN}

-----------------------------------------------------------------------------
(* Python files: a view whose statements pass request data on, nested or    *)
(* not; a function in a function, with two calls on one line; a class; and  *)
(* pairs of files that show the same at the same line.                      *)

MCNames == {"a", "x", "y"}

Plain(atom)  == [op |-> "plain", atom |-> atom]
Built(atom)  == [op |-> "built", atom |-> atom]
Hidden(atom) == [op |-> "hidden", atom |-> atom]

DefOf(line, depth, inside, params, view) ==
    [kind |-> "def", line |-> line, depth |-> depth, inside |-> inside, params |-> params,
     view |-> view]
AssignOf(line, depth, inside, target, arg) ==
    [kind |-> "assign", line |-> line, depth |-> depth, inside |-> inside, target |-> target,
     arg |-> arg]
CallOf(line, depth, inside, rule, arg) ==
    [kind |-> "sink", line |-> line, depth |-> depth, inside |-> inside, rule |-> rule,
     arg |-> arg, slot |-> "first", stores |-> TRUE]
MarkOf(line, inside, rule) ==
    [kind |-> "mark", line |-> line, depth |-> 1, inside |-> inside, rule |-> rule]
CheckOf(inside) == [kind |-> "check", line |-> 9, depth |-> 3, inside |-> inside]
ControlOf(inside) ==
    [kind |-> "control", line |-> 9, depth |-> 3, inside |-> inside, key |-> "OK-SAFEYAML"]

FileOf(tree, text, ctrls, nodes) ==
    [scanned |-> TRUE, tree |-> tree, text |-> text, controls |-> ctrls, nodes |-> nodes]
Python(nodes) == <<FileOf("intact", {}, {}, nodes)>>

Assigns(line, args) ==
    {AssignOf(line, depth, {1}, target, arg) : depth \in {2, 3}, target \in {"x", "y"}, arg \in args}
MCArgs == {Plain("request"), Hidden("request"), Plain("constant"), Plain("x"), Built("y"), Plain("a")}

Flows ==
    {Python(<<DefOf(1, 1, {}, ps, FALSE), s, t, CallOf(5, 2, {1}, rule, arg)>>) :
        ps \in {<<"request", "a">>, <<"self", "request", "a">>},
        s \in Assigns(2, MCArgs), t \in Assigns(3, MCArgs),
        rule \in {"CMD-003", "MASS-001"}, arg \in {Plain("x")}}
    \union {Python(<<DefOf(1, 1, {}, <<"request">>, FALSE), s, t, u>>) :
        s \in Assigns(2, {Plain("request"), Plain("x"), Built("y")}),
        t \in Assigns(3, {Plain("request"), Plain("x"), Built("y")}),
        u \in Assigns(4, {Plain("x"), Built("y")})}

Nested ==
    {Python(<<DefOf(1, 1, {}, outer, view), DefOf(2, 2, {1}, inner, view),
              AssignOf(3, 3, {1, 2}, "x", Built("a")), CallOf(4, 3, {1, 2}, rule, arg),
              CallOf(4, 3, {1, 2}, rule, second)>> \o more) :
        outer \in {<<>>, <<"request", "a">>, <<"req", "a">>},
        inner \in {<<"request", "a">>, <<"req", "a">>, <<"self", "request", "a">>},
        view \in BOOLEAN, more \in {<<>>, <<CheckOf({1})>>, <<CheckOf({1, 2})>>},
        rule \in {"CMD-003", "MASS-001", "LOG-002", "PATH-001", "XSS-001", "REDIR-001", "DYN-001"},
        arg \in {Plain("x"), Hidden("a"), Plain("request"), Plain("constant")},
        second \in {Plain("request"), Plain("constant")}}

Classes ==
    {Python(<<[kind |-> "class", line |-> 1, depth |-> 1, inside |-> {}, permissions |-> p,
              authentication |-> a, serializer |-> s, exposes |-> s, detail |-> d, scoped |-> sc,
              everything |-> e, throttle |-> e]>>) :
        p \in {"absent", "empty", "anyone", "object", "others"}, a \in {"empty", "set"},
        s \in BOOLEAN, d \in BOOLEAN, sc \in BOOLEAN, e \in BOOLEAN}

\* Request data, or not, in other places of a call than the first.
Elsewhere ==
    {Python(<<DefOf(1, 1, {}, <<"request">>, FALSE),
              [CallOf(2, 2, {1}, rule, arg) EXCEPT !.slot = slot]>>) :
        rule \in {"DYN-001", "DESER-002", "CMD-002", "CMD-003", "SQLI-001", "SQLI-002", "XSS-001",
                  "PATH-001", "SSRF-001", "REDIR-001", "MASS-001", "LOG-002"}, slot \in {"second", "keyword"},
        arg \in {Plain("request"), Built("request"), Plain("constant"), Hidden("x")}}

View1(rule, arg) ==
    <<MarkOf(1, {}, "SECRET-002"), DefOf(2, 1, {}, <<"request">>, FALSE), CallOf(3, 2, {2}, rule, arg),
      MarkOf(4, {2}, "CRYPTO-001"), ControlOf({2})>>
PythonFiles ==
    {FileOf(tree, {}, ctrls, View1(rule, arg)) :
        tree \in {"intact", "syntax", "deep", "raises"}, ctrls \in {{}, {"OK-DEFUSEDXML", "OK-SFU"}},
        rule \in {"DESER-002", "SQLI-001", "SSRF-001"}, arg \in {Plain("request"), Built("x")}}
OtherFiles ==
    {FileOf("none", hits, {}, <<>>) :
        hits \in {{}, {[rule |-> "SECRET-002", line |-> 1], [rule |-> "SECRET-004", line |-> 1]}}}
Pairs ==
    {<<f, g>> : f \in PythonFiles, g \in PythonFiles \union OtherFiles}
    \union {<<[f EXCEPT !.scanned = FALSE], g>> : f \in PythonFiles, g \in OtherFiles}

MCSastProjects == Flows \union Nested \union Elsewhere \union Classes \union Pairs
=============================================================================
