------------------------------ MODULE SastScan ------------------------------
(***************************************************************************)
(* The SAST engine (scanners/sast/): file by file, the pattern layer and   *)
(* the AST layer with its taint tracking, merged so that a place has one   *)
(* finding of a rule, and the controls that are held against them.         *)
(*                                                                         *)
(* A file is what the layers see of it: the patterns that match, and the   *)
(* nodes of its tree in the order of the text.  A node has its depth in    *)
(* the tree and the function definitions around it ("inside"):             *)
(*   "def"     a function, its parameters, and whether it is decorated as  *)
(*             a view or lies in a views directory                         *)
(*   "class"   a class body, by what _analyze_class asks of it             *)
(*   "assign"  target := arg (also a for loop, an augmented assignment; a  *)
(*             with, a walrus or an async for is not looked at, nor here)  *)
(*   "sink"    a call by the rule that watches it, with arg in a slot: it  *)
(*             is the "first" positional argument; or a "second" one, after *)
(*             a constant; or a "keyword" argument of a call without       *)
(*             positional ones (url= of an HTTP call, where= of extra()).  *)
(*             "MASS-001" is a call with **arg, and stores if it is create *)
(*             or the like                                                 *)
(*   "mark"    what a rule sees without looking at data                    *)
(*   "check"   a call of url_has_allowed_host_and_scheme                   *)
(*   "control" a control, by its key                                       *)
(* An expression is an atom (request data, a constant or a name) on its    *)
(* own, built into a larger one, or hidden in one that expr_tainted does   *)
(* not look into (a boolean operation, a comprehension, an await).         *)
(***************************************************************************)
EXTENDS RequirementStatus, Sequences, FiniteSets, Functions

CONSTANTS Names,        \* of variables and parameters, without request and req
          Projects      \* sequences of files, in the order of their paths

Ops == {"plain", "built", "hidden"}
IsExpr(e) == e.op \in Ops /\ e.atom \in {"request", "constant"} \union Names

\* The rules of the text, of the statements of a module, of calls, and of what else
\* is seen in functions, two of them also outside.
Patterns == {"XSS-002", "XSS-003", "SECRET-002", "SECRET-003", "SECRET-004", "SECRET-005",
             "SECRET-006"}
Literals == {"SECRET-001", "SECRET-002", "SECRET-007"}
Calls == {"DYN-001", "DYN-002", "DESER-001", "DESER-002", "CMD-001", "CMD-002", "CMD-003",
          "SQLI-001", "SQLI-002", "SQLI-003", "XSS-001", "PATH-001", "PATH-002", "SSRF-001",
          "REDIR-001", "TPL-001", "MASS-001", "LOG-002"}
Anywhere == {"CSRF-001", "DOS-001"}
Sights == Anywhere \union {"DESER-003", "TMP-001", "CRYPTO-001", "CRYPTO-002", "CRYPTO-004",
                           "XXE-001", "LOG-001", "UPLOAD-001", "RACE-001"}

\* What a node is known by, and where it is: after the functions it is in.
IsNode(nodes, i) ==
    LET n == nodes[i]
    IN  /\ n.depth \in Nat /\ n.line \in Nat
        /\ n.inside \subseteq {d \in 1..i - 1 : nodes[d].kind = "def"}
        /\ n.kind = "def" => n.params \in Seq(Names \union {"request", "req", "self"})
        /\ n.kind \in {"assign", "sink"} => IsExpr(n.arg)
        /\ n.kind = "assign" => n.target \in Names
        /\ n.kind = "sink" => n.rule \in Calls /\ n.slot \in {"first", "second", "keyword"}
        /\ n.kind = "mark" => n.rule \in IF n.inside = {} THEN Literals \union Anywhere ELSE Sights

IsFile(f) ==
    /\ f.scanned \in BOOLEAN     \* should_scan, small enough, and readable
    /\ f.tree \in {"none", "intact", "syntax", "deep", "raises"}
    /\ \A h \in f.text : h.rule \in Patterns /\ h.line \in Nat
    /\ Len(f.nodes) \in Nat /\ DOMAIN f.nodes = 1..Len(f.nodes)
    /\ \A i \in DOMAIN f.nodes : IsNode(f.nodes, i)

IsProject(p) ==
    Len(p) \in Nat /\ DOMAIN p = 1..Len(p) /\ \A k \in DOMAIN p : IsFile(p[k])

VARIABLES project,      \* the files
          todo,         \* places of the files not yet scanned
          status,       \* of the scan; "idle" before it
          seen,         \* places that have a finding
          controls,     \* controls found
          evidence      \* the evidence recorded

vars == <<project, todo, status, seen, controls, evidence>>

Init ==
    /\ project = <<>>
    /\ todo = <<>>
    /\ status = "idle"
    /\ seen = {}
    /\ controls = {}
    /\ evidence = {}

-----------------------------------------------------------------------------
(* The rules *)

DefaultConfidence(rule) ==
    CASE rule \in {"SECRET-001", "SECRET-003", "SECRET-004", "SECRET-005", "SECRET-006"} ->
            "Confirmed"
      [] rule \in {"DYN-001", "SQLI-001", "SQLI-002", "SQLI-003", "TPL-001", "CMD-001",
                   "CMD-002", "DESER-001", "DESER-002", "XSS-003", "TMP-001", "CRYPTO-001",
                   "AUTHZ-001", "AUTHZ-002", "MASS-001"} -> "High"
      [] rule \in {"DOS-001", "UPLOAD-001", "AUTHZ-OBJECT-001", "LOG-002", "RACE-001"} ->
            "Potential"
      [] OTHER -> "Medium"

\* The requirements of a rule, and of a control.
RequirementsOf(rule) ==
    CASE rule \in {"DYN-001", "DYN-002"}              -> {"REQ-029"}
      [] rule \in {"SQLI-001", "SQLI-002", "SQLI-003"} -> {"REQ-008", "REQ-041"}
      [] rule = "TPL-001"                             -> {"REQ-078"}
      [] rule \in {"XXE-001", "OK-DEFUSEDXML"}        -> {"REQ-079"}
      [] rule = "DOS-001"                             -> {"REQ-077"}
      [] rule \in {"CMD-001", "CMD-002", "CMD-003"}   -> {"REQ-031"}
      [] rule \in {"DESER-001", "DESER-003"}          -> {"REQ-030"}
      [] rule = "DESER-002"                           -> {"REQ-030", "REQ-080"}
      [] rule = "OK-SAFEYAML"                         -> {"REQ-080"}
      [] rule = "XSS-001"                             -> {"REQ-028", "REQ-027"}
      [] rule \in {"XSS-002", "XSS-003"}              -> {"REQ-027"}
      [] rule = "PATH-001"                            -> {"REQ-032", "REQ-036"}
      [] rule = "PATH-002"                            -> {"REQ-032", "REQ-036", "REQ-087"}
      [] rule = "TMP-001"                             -> {"REQ-035"}
      [] rule = "UPLOAD-001"                          -> {"REQ-033"}
      [] rule = "SSRF-001"                            -> {"REQ-037"}
      [] rule = "REDIR-001"                           -> {"REQ-038", "REQ-081"}
      [] rule = "OK-REDIR"                            -> {"REQ-038"}
      [] rule \in {"SECRET-001", "SECRET-006"}        -> {"REQ-013"}
      [] rule = "SECRET-002"                          -> {"REQ-013", "REQ-042", "REQ-114"}
      [] rule = "SECRET-003"                          -> {"REQ-014"}
      [] rule \in {"SECRET-004", "SECRET-005"}        -> {"REQ-013", "REQ-014"}
      [] rule = "SECRET-007"                          -> {"REQ-013", "REQ-064"}
      [] rule = "CRYPTO-001"                          -> {"REQ-062"}
      [] rule = "CRYPTO-002"                          -> {"REQ-064"}
      [] rule = "CRYPTO-004"                          -> {"REQ-063"}
      [] rule = "AUTHZ-001"                           -> {"REQ-047", "REQ-046"}
      [] rule = "AUTHZ-002"                  -> {"REQ-046", "REQ-095", "REQ-003", "REQ-002"}
      [] rule = "AUTHZ-003"                           -> {"REQ-045", "REQ-001"}
      [] rule = "AUTHZ-OBJECT-001"           -> {"REQ-004", "REQ-048", "REQ-096", "REQ-002"}
      [] rule = "SER-001"                             -> {"REQ-051", "REQ-007", "REQ-073"}
      [] rule = "MASS-001"                            -> {"REQ-073", "REQ-051"}
      [] rule = "SENSITIVE-001"                       -> {"REQ-044", "REQ-100"}
      [] rule = "CSRF-001"                            -> {"REQ-009"}
      [] rule = "LOG-001"                             -> {"REQ-056"}
      [] rule = "LOG-002"                             -> {"REQ-057"}
      [] rule \in {"RACE-001", "OK-SFU"}              -> {"REQ-074"}
      [] rule = "OK-RATELIMIT"                        -> {"REQ-012", "REQ-049"}
      [] rule = "OK-THROTTLE"                         -> {"REQ-049"}

\* Rules that any call sets off, whatever its arguments (eval and exec: any first
\* argument).
AnyArgument == {"DYN-001", "DYN-002", "DESER-001", "DESER-002", "CMD-001", "CMD-002"}

\* Rules whose confidence rises to Confirmed with request data itself, as the first
\* argument.
Followed == AnyArgument \union {"SQLI-001", "SQLI-002", "SQLI-003", "XSS-001", "PATH-002",
                                "SSRF-001", "REDIR-001", "TPL-001"}

-----------------------------------------------------------------------------
(* Taint, within one function and by names (FunctionTaint) *)

Tainted(names, e) == e.op # "hidden" /\ (e.atom = "request" \/ e.atom \in names)
Direct(e)  == e.op = "plain" /\ e.atom = "request"
Dynamic(e) == ~(e.op = "plain" /\ e.atom = "constant")

\* The nodes ast.walk finds in a function, and the next of them: level by level.
NodesIn(nodes, root) == {i \in DOMAIN nodes : root \in nodes[i].inside}

Before(nodes, i, j) ==
    nodes[i].depth < nodes[j].depth \/ (nodes[i].depth = nodes[j].depth /\ i <= j)

FirstOf(nodes, rest) == CHOOSE i \in rest : \A j \in rest : Before(nodes, i, j)

IsView(def) == def.view \/ (def.params # <<>> /\ Head(def.params) = "request")

\* The captures of the URL, which a view gets after the request.
UrlArguments(def) ==
    IF def.params # <<>> /\ Head(def.params) \in {"request", "req"} /\ IsView(def)
    THEN Range(Tail(def.params)) ELSE {}

\* Bug: only what is request data itself taints the name it is assigned to.
SpreadDirect(names, n) ==
    IF n.kind = "assign" /\ Direct(n.arg) THEN {n.target} ELSE {}

\* What a node adds to the tainted names; an inner function, its request.
Spread(names, n) ==
    CASE n.kind = "assign" -> IF Tainted(names, n.arg) THEN {n.target} ELSE {}
      [] n.kind = "def"    -> Range(n.params) \intersect {"request", "req"}
      [] OTHER             -> {}

\* Names are only ever added: a clean assignment cleans nothing.
TaintOf(nodes, root) ==
    LET inside == NodesIn(nodes, root)
        after[n \in 0..Cardinality(inside)] ==
            IF n = 0 THEN [rest |-> inside, names |-> UrlArguments(nodes[root])]
            ELSE LET last == after[n - 1]
                     i    == FirstOf(nodes, last.rest)
                 IN  [rest  |-> last.rest \ {i},
                      names |-> last.names \union Spread(last.names, nodes[i])]
    IN  after[Cardinality(inside)].names

-----------------------------------------------------------------------------
(* The AST layer *)

Hit(rule, line, confidence) == [rule |-> rule, line |-> line, confidence |-> confidence]

\* A call with **request.data, whatever else it is.
MassHits(names, n) ==
    {Hit(rule, n.line, "Confirmed") : rule \in
        IF ~Tainted(names, n.arg) THEN {}
        ELSE IF n.stores THEN {"MASS-001", "SER-001"} ELSE {"MASS-001"}}

\* The logging rule looks at every name in the positional arguments, however hidden.
LogHits(names, n) ==
    IF n.slot # "keyword" /\ n.arg.atom \in names THEN {Hit("LOG-002", n.line, "none")} ELSE {}

\* Where a rule looks for data: at the first argument, that on outgoing requests
\* at the URL by its keyword, too, and that on SQL at the keywords of extra().
Watched(n) ==
    n.slot = "first" \/ (n.slot = "keyword" /\ n.rule \in {"SSRF-001", "SQLI-002"})

\* The confidence that a hit claims: it comes from the first argument.
Claimed(names, n) ==
    CASE n.rule = "CMD-003" -> IF Tainted(names, n.arg) THEN "Confirmed" ELSE "Potential"
      [] n.rule = "PATH-001" -> IF Direct(n.arg) THEN "High" ELSE "Low"
      [] n.rule \in Followed /\ n.slot = "first" /\ Direct(n.arg) -> "Confirmed"
      [] OTHER -> "none"

\* _check_call, of one function with these names tainted and redirects guarded
\* or not.
CallHits(names, guarded, n) ==
    CASE n.rule = "MASS-001" -> MassHits(names, n)
      [] n.rule = "LOG-002"  -> LogHits(names, n)
      [] n.rule \in AnyArgument ->
            IF n.rule = "DYN-001" /\ n.slot = "keyword" THEN {}
            ELSE {Hit(n.rule, n.line, Claimed(names, n))}
      [] OTHER ->
            IF Watched(n) /\ Dynamic(n.arg) /\ ~(n.rule = "REDIR-001" /\ guarded)
            THEN {Hit(n.rule, n.line, Claimed(names, n))} ELSE {}

\* _analyze_class: permission_classes is absent, empty, has AllowAny ("anyone"),
\* a permission on objects ("object") or others; detail is a DRF view of single
\* objects, everything an unscoped queryset.
ClassHits(c) ==
    LET If(condition, rule) == IF condition THEN {Hit(rule, c.line, "none")} ELSE {}
    IN  If(c.permissions = "empty", "AUTHZ-002")
          \union If(c.permissions = "anyone", "AUTHZ-001")
          \union If(c.authentication = "empty", "AUTHZ-003")
          \union If(c.serializer /\ c.exposes, "SENSITIVE-001")
          \union If(/\ c.detail /\ ~c.scoped
                    /\ c.everything \/ c.permissions = "absent"
                    /\ c.permissions # "object", "AUTHZ-OBJECT-001")

MarkHits(n) == {Hit(n.rule, n.line, "none")}

\* When node i is looked at: in the walk of function d, or as class d = i of the
\* module.  Its statements (d = 0) come before.
Visit(nodes, d, i) == <<IF d = 0 THEN 0 ELSE nodes[d].depth, d, nodes[i].depth, i>>

Earlier(u, v) == \E k \in 1..4 : u[k] < v[k] /\ \A l \in 1..k - 1 : u[l] = v[l]

\* A function is walked with the functions in it, and these again on their own.
FunctionHits(nodes, d) ==
    LET names   == TaintOf(nodes, d)
        guarded == \E i \in NodesIn(nodes, d) : nodes[i].kind = "check"
        HitsOf(n) == CASE n.kind = "sink" -> CallHits(names, guarded, n)
                       [] n.kind = "mark" -> MarkHits(n)
                       [] OTHER           -> {}
    IN  UNION {{Visit(nodes, d, i)} \X HitsOf(nodes[i]) : i \in NodesIn(nodes, d)}

Defs(nodes)    == {d \in DOMAIN nodes : nodes[d].kind = "def"}
Classes(nodes) == {i \in DOMAIN nodes : nodes[i].kind = "class"}

\* The literals of the statements of the module.
LiteralHits(nodes) ==
    UNION {{Visit(nodes, 0, i)} \X MarkHits(nodes[i]) :
        i \in {k \in DOMAIN nodes : nodes[k].kind = "mark" /\ nodes[k].inside = {}}}

\* analyze: the statements, then classes and functions, level by level.
TreeHits(nodes) ==
    LiteralHits(nodes)
      \union (UNION {{Visit(nodes, i, i)} \X ClassHits(nodes[i]) : i \in Classes(nodes)})
      \union (UNION {FunctionHits(nodes, d) : d \in Defs(nodes)})

\* scan_file_text, before the tree.
TextHits(text) == {<<0, 0, 0, 0>>} \X {Hit(h.rule, h.line, "none") : h \in text}

\* The controls of the tree: calls count inside functions only.
TreeControls(nodes) ==
    {nodes[i].key : i \in {k \in DOMAIN nodes : nodes[k].kind = "control" /\ nodes[k].inside # {}}}
      \union {"OK-THROTTLE" : i \in {k \in DOMAIN nodes :
                                        nodes[k].kind = "class" /\ nodes[k].throttle}}
      \union {"OK-REDIR" : i \in {k \in DOMAIN nodes :
                /\ nodes[k].kind = "sink" /\ nodes[k].rule = "REDIR-001" /\ Watched(nodes[k])
                /\ Dynamic(nodes[k].arg)
                /\ \E d \in nodes[k].inside : \E c \in DOMAIN nodes :
                      nodes[c].kind = "check" /\ d \in nodes[c].inside}}

-----------------------------------------------------------------------------
(* run *)

Rank(confidence) ==
    CASE confidence = "Confirmed" -> 0 [] confidence = "High"      -> 1
      [] confidence = "Medium"    -> 2 [] confidence = "Low"       -> 3
      [] confidence = "Potential" -> 4 [] confidence = "none"      -> 5

\* Bug: a place is its line.
KeyOfLine(file, hit) == <<hit.line, hit.rule>>

Key(file, hit) == <<file, hit.line, hit.rule>>

\* _emit: the confidence of a hit can only raise that of its rule.
Emitted(file, hit) ==
    LET default == DefaultConfidence(hit.rule)
    IN  [file |-> file, line |-> hit.line, rule |-> hit.rule, polarity |-> "vuln",
         confidence |-> IF Rank(hit.confidence) < Rank(default) THEN hit.confidence ELSE default]

\* The first hit at a place is the finding, later ones are dropped.
Merge(file, hits) ==
    LET fresh == {h \in hits : Key(file, h[2]) \notin seen}
        first == {h \in fresh : \A g \in fresh :
                    Earlier(g[1], h[1]) => Key(file, g[2]) # Key(file, h[2])}
    IN  [seen     |-> seen \union {Key(file, h[2]) : h \in hits},
         evidence |-> evidence \union {Emitted(file, h[2]) : h \in first}]

File == project[Head(todo)]

Start ==
    /\ status = "idle"
    /\ \E p \in Projects :
          /\ project' = p
          /\ todo' = [i \in DOMAIN p |-> i]
    /\ status' = "text"
    /\ UNCHANGED <<seen, controls, evidence>>

PassOver ==
    /\ status = "text" /\ todo # <<>> /\ ~File.scanned
    /\ todo' = Tail(todo)
    /\ UNCHANGED <<project, status, seen, controls, evidence>>

ScanText ==
    /\ status = "text" /\ todo # <<>> /\ File.scanned
    /\ LET merged == Merge(Head(todo), TextHits(File.text))
       IN  seen' = merged.seen /\ evidence' = merged.evidence
    /\ controls' = controls \union File.controls
    /\ status' = "tree"
    /\ UNCHANGED <<project, todo>>

\* A syntax error, or too deep a nesting, leaves a file to the patterns.
WalkTree ==
    /\ status = "tree" /\ File.tree # "raises"
    /\ IF File.tree = "intact"
       THEN /\ LET merged == Merge(Head(todo), TreeHits(File.nodes))
               IN  seen' = merged.seen /\ evidence' = merged.evidence
            /\ controls' = controls \union TreeControls(File.nodes)
       ELSE UNCHANGED <<seen, controls, evidence>>
    /\ todo' = Tail(todo)
    /\ status' = "text"
    /\ UNCHANGED project

\* A null byte raises ValueError (before Python 3.12): safe_run drops everything.
Raise ==
    /\ status = "tree" /\ File.tree = "raises"
    /\ status' = "FAILED"
    /\ evidence' = {}
    /\ UNCHANGED <<project, todo, seen, controls>>

Finish ==
    /\ status = "text" /\ todo = <<>>
    /\ evidence' = evidence \union
          {[file |-> 0, line |-> 0, rule |-> key, polarity |-> "ok", confidence |-> "High"] :
              key \in controls}
    /\ status' = "SUCCESS"
    /\ UNCHANGED <<project, todo, seen, controls>>

Next == Start \/ PassOver \/ ScanText \/ WalkTree \/ Raise \/ Finish

Spec == Init /\ [][Next]_vars

-----------------------------------------------------------------------------
(* Properties *)

Scanned == {k \in DOMAIN project : project[k].scanned}
Intact  == {k \in Scanned : project[k].tree = "intact"}

Assigns(nodes, root) == {i \in NodesIn(nodes, root) : nodes[i].kind = "assign"}

\* The parameters after the request, of a function or a method; and those a
\* function that takes the request first has to be a view for.
UrlParameters(def) ==
    {def.params[j] : j \in {n \in DOMAIN def.params :
        \E k \in 1..n - 1 : k <= 2 /\ def.params[k] \in {"request", "req"}}}
Captures(def) ==
    IF def.params # <<>> /\ def.params[1] = "request" THEN Range(Tail(def.params)) ELSE {}

\* Names that the assignments of a function, in whatever order they are executed,
\* do not lead out of: request data stays in them.
Confines(nodes, root, names) ==
    /\ UrlParameters(nodes[root]) \union {"request", "req"} \subseteq names
    /\ \A i \in Assigns(nodes, root) : nodes[i].arg.atom \in names => nodes[i].target \in names

\* Assignment i is of request data, in sight, or of what one of these assignments
\* further up the text has assigned, nested no deeper.
Carries(nodes, root, i, assigns) ==
    /\ nodes[i].arg.op # "hidden"
    /\ \/ nodes[i].arg.atom \in {"request"} \union Captures(nodes[root])
       \/ \E j \in assigns : /\ j < i /\ nodes[j].depth <= nodes[i].depth
                             /\ nodes[j].target = nodes[i].arg.atom

\* The assignments such chains lead to: the least set that is closed under them.
Flow(nodes, root) ==
    {i \in Assigns(nodes, root) : \A assigns \in SUBSET Assigns(nodes, root) :
        (\A k \in Assigns(nodes, root) : Carries(nodes, root, k, assigns) => k \in assigns)
            => i \in assigns}

\* The taint of a function against the flow of request data in it.  No name is
\* tainted that assignments do not lead to from request data or parameters after
\* the request.  None is missed that they lead to from request data, or from the
\* URL parameters of a function that takes the request first, down the text and
\* without leaving a block - except, though "A variable is tainted when it derives
\* from request-controlled sources", "view URL parameters" among them (taint.py:4-5):
\*   - data hidden in a boolean operation, a comparison, a comprehension or an
\*     await, as in x = request.GET.get("q") or "" (taint.py:95-124): Carries;
\*   - the URL parameters of a method, whose first parameter is self (taint.py:56):
\*     Captures, where Confines allows for them.
TaintFollowsFlow ==
    status = "tree" /\ File.tree = "intact" =>
        \A d \in Defs(File.nodes) :
            /\ \A names \in SUBSET (Names \union {"request", "req", "self"}) :
                  Confines(File.nodes, d, names) => TaintOf(File.nodes, d) \subseteq names
            /\ Captures(File.nodes[d]) \union {File.nodes[i].target : i \in Flow(File.nodes, d)}
                  \subseteq TaintOf(File.nodes, d)

\* What a file shows without any flow: patterns, literals, calls whose first
\* argument is dynamic, and redirects that no function of the file checks.
Shown(f) ==
    {<<h.rule, h.line>> : h \in f.text}
      \union IF f.tree # "intact" THEN {}
             ELSE {<<f.nodes[i].rule, f.nodes[i].line>> : i \in {k \in DOMAIN f.nodes :
                    \/ f.nodes[k].kind = "mark"
                    \/ /\ f.nodes[k].kind = "sink" /\ f.nodes[k].inside # {}
                       /\ \/ f.nodes[k].rule \in AnyArgument /\ f.nodes[k].slot # "keyword"
                          \/ /\ f.nodes[k].rule \notin {"MASS-001", "LOG-002"}
                             /\ f.nodes[k].slot = "first" /\ Dynamic(f.nodes[k].arg)
                             /\ f.nodes[k].rule = "REDIR-001" =>
                                   \A c \in DOMAIN f.nodes : f.nodes[c].kind # "check"}}

\* Calls that get request data itself, with no other call of their kind on the
\* line; redirects are not among them.
DirectCalls(f) ==
    {i \in DOMAIN f.nodes :
        /\ f.nodes[i].kind = "sink" /\ f.nodes[i].inside # {} /\ Direct(f.nodes[i].arg)
        /\ f.nodes[i].rule \in (Followed \ {"REDIR-001"}) \union {"MASS-001", "CMD-003", "PATH-001"}
        /\ \A j \in DOMAIN f.nodes : j # i /\ f.nodes[j].kind = "sink" =>
              f.nodes[j].line # f.nodes[i].line \/ f.nodes[j].rule # f.nodes[i].rule}

\* Those that get it as their first argument, or as **request.data.
Exposed(f) ==
    {i \in DirectCalls(f) : f.nodes[i].slot = "first" \/ f.nodes[i].rule = "MASS-001"}

Open(f) == {i \in DOMAIN f.nodes : f.nodes[i].kind = "class"
                                      /\ f.nodes[i].permissions \in {"empty", "anyone"}}

AutomationOf(r) ==
    IF r \in {"REQ-013", "REQ-014", "REQ-029", "REQ-030", "REQ-031", "REQ-035", "REQ-045",
              "REQ-046", "REQ-062", "REQ-079", "REQ-080"}
    THEN "FULLY_AUTOMATED" ELSE "PARTIALLY_AUTOMATED"

Verdict(r) ==
    ComputeStatus(AutomationOf(r),
        {[req |-> r, source |-> "sast", polarity |-> e.polarity,
          strong |-> e.confidence \in {"Confirmed", "High"}] :
            e \in {f \in evidence : r \in RequirementsOf(f.rule)}}, TRUE)

\* What the code shows is held against it: it has exactly one finding of its rule
\* at its place, whichever layers and functions have seen it and whatever other
\* files have on the same line, and its requirements do not PASS, however many
\* controls there are.  Request data itself as the first argument of a dangerous
\* call, and a view that is open to everyone, FAIL theirs.  "upgrades confidence when
\* request data demonstrably flows into a dangerous sink" (ast_analyzer.py:4-5) goes
\* further than the code, and nothing of the kind is said of
\*   - data in a keyword, as in requests.get(url=request.GET["u"]), which keeps the
\*     default confidence, or extra(where=...) (ast_analyzer.py:428-432, 460-467);
\*   - data in a further argument, as in requests.request("GET", request.GET["u"]),
\*     which is no hit (ast_analyzer.py:460-464);
\*   - data that is hidden, or built into a larger expression (Direct);
\*   - a redirect, which a check anywhere in its function excuses;
\*   - two calls of one rule on a line, of which the first decides.
ShownIsHeld ==
    status = "SUCCESS" =>
        /\ \A k \in Scanned : \A s \in Shown(project[k]) :
              /\ Cardinality({e \in evidence : /\ e.file = k /\ e.polarity = "vuln"
                                               /\ <<e.rule, e.line>> = s}) = 1
              /\ \A r \in RequirementsOf(s[1]) : Verdict(r) # "PASS"
        /\ \A k \in Intact : \A i \in Exposed(project[k]) :
              \A r \in RequirementsOf(project[k].nodes[i].rule) : Verdict(r) = "FAIL"
        /\ \A k \in Intact : Open(project[k]) # {} => Verdict("REQ-046") = "FAIL"
=============================================================================
