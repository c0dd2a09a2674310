------------------------------- MODULE Names -------------------------------
(***************************************************************************)
(* The names of a project in phase P1 (basic_analysis.py): the scopes of    *)
(* each unit, then, in the reverse order of the units, the public symbols   *)
(* and the import statements (import_hierarchy.py) and the classes          *)
(* (type_hierarchy.py), and then, in their own order, the ids of the names  *)
(* that each statement of a method defines and uses                         *)
(* (stmt_def_use_analysis.py, resolver.py).                                *)
(*                                                                         *)
(* A project is what the workspace has: a set of directories, each with a   *)
(* name and what it contains, and of units, each with a name, a language    *)
(* and its statements.                                                     *)
(***************************************************************************)
EXTENDS Scopes

CONSTANT Projects

VARIABLES
  modules,     \* the module table
  phase,       \* the loop of BasicAnalysis.run that is under way
  rest,        \* the units, or classes, it has still to do
  units,       \* unit_id -> its rows and scopes
  graph,       \* import_graph with its nodes, and the units whose imports are analysed
  types,       \* type_graph, class_to_methods, and the methods saved for each class
  symbols      \* the ids of the names that statements define and use, and external_symbols

vars == <<modules, phase, rest, units, graph, types, symbols>>

RECURSIVE Scans(_, _, _)
\* The module tables that scan_modules_by_scanning_workspace_dir may append to
\* table: the entries of a directory in any order, what one contains after it.
Scans(entries, parent, table) ==
  IF entries = {} THEN {table}
  ELSE UNION {LET added == Append(table, [name |-> e.name, dir |-> e.dir, parent |-> parent, lang |-> e.lang, stmts |-> e.stmts])
              IN  UNION {Scans(entries \ {e}, parent, t) : t \in Scans(e.inside, Len(added), added)} : e \in entries}

UnitIds == SelectSeq([i \in DOMAIN modules |-> i], LAMBDA i : ~modules[i].dir)
\* Numbers of statements follow those of modules, unit after unit.
Numbered(acc, i, rows) == [next |-> acc.next + Len(rows), rows |-> (i :> rows) @@ acc.rows]
RowsOf(mods) ==
  LET Step(acc, i) == IF mods[i].dir THEN acc ELSE Numbered(acc, i, UnitRows(mods[i].lang, mods[i].stmts, acc.next))
  IN  FoldLeft(Step, [next |-> Len(mods) + 1, rows |-> <<>>], [i \in DOMAIN mods |-> i]).rows

-----------------------------------------------------------------------------
\* The import graph: its nodes in the order they are added, and of two edges
\* between the same nodes the attributes of the later at the place of the first.
AddEdge(g, e) ==
  LET same == {k \in DOMAIN g.edges : g.edges[k].from = e.from /\ g.edges[k].to = e.to}
  IN  IF same = {} THEN [g EXCEPT !.edges = Append(@, e)]
      ELSE [g EXCEPT !.edges = [k \in DOMAIN @ |-> IF k \in same THEN e ELSE @[k]]]
IsNode(g, id) == \E k \in DOMAIN g.nodes : g.nodes[k].id = id
NodeOf(g, id) == g.nodes[CHOOSE k \in DOMAIN g.nodes : g.nodes[k].id = id]
AddNode(g, node) ==
  LET added == [g EXCEPT !.nodes = Append(@, node)]
  IN  IF IsNode(added, node.parent)
      THEN AddEdge(added, [from |-> node.parent, to |-> node.id, name |-> node.name, kind |-> "internal"])
      ELSE added
\* Mutant: the imports of a unit do not count among its names.
SuccessorsInternal(g, id) ==
  LET out == SelectSeq(g.edges, LAMBDA e : e.from = id /\ e.kind = "internal") IN [k \in DOMAIN out |-> NodeOf(g, out[k].to)]
Successors(g, id) ==
  LET out == SelectSeq(g.edges, LAMBDA e : e.from = id) IN [k \in DOMAIN out |-> NodeOf(g, out[k].to)]

\* initialize_import_graph
ModuleNodes(mods) ==
  FoldLeft(LAMBDA g, i : AddNode(g, [id |-> i, name |-> mods[i].name, kind |-> IF mods[i].dir THEN "module" ELSE "unit",
                                     parent |-> mods[i].parent, unit |-> i]),
           [nodes |-> <<>>, edges |-> <<>>, analyzed |-> {}, given |-> 0], [i \in DOMAIN mods |-> i])

\* A Scope gets its attributes from the statement, that of a variable from its
\* alias.
Attrs(x) == IF x.kind \in {"class", "method"} THEN x.row.attrs ELSE {}
RECURSIVE PublicFrom(_, _, _)
\* search_public_symbols_from_scope_hierarchy: all of the unit and its
\* namespaces but what is private, of classes the static methods and classes.
PublicFrom(unit, worklist, open) ==
  IF worklist = <<>> THEN <<>>
  ELSE LET scope == Head(worklist)
           here  == SelectSeq(unit.scopes, LAMBDA x :
                      /\ x.scope = scope /\ "private" \notin Attrs(x)
                      /\ \/ x.kind \in {"class", "namespace"}
                         \/ x.kind = "variable" /\ scope \in open
                         \/ x.kind = "method" /\ (scope \in open \/ "static" \in Attrs(x)))
           down  == SelectSeq(here, LAMBDA x : x.kind \in {"class", "namespace"})
       IN  here \o PublicFrom(unit, Tail(worklist) \o [k \in DOMAIN down |-> down[k].id],
                              open \union {here[k].id : k \in {j \in DOMAIN here : here[j].kind = "namespace"}})

\* analyze_unit_public_symbols
AddPublicSymbols(g, u, unit) ==
  LET Add(acc, x) ==
        IF x.row.name = "%unit_init" THEN acc
        ELSE AddNode(acc, [id |-> x.id, name |-> IF "default" \in Attrs(x) THEN "default" ELSE x.row.name, kind |-> x.kind,
                           parent |-> IF x.scope <= 0 THEN u ELSE x.scope, unit |-> u])
  IN  FoldLeft(Add, g, PublicFrom(unit, <<0>>, {0}))

-----------------------------------------------------------------------------
\* analyze_import_stmt.  The path is the source with a dot and the name, so a
\* statement without source, and "from . import", have a leading dot more than
\* they are written with.
LeadingDots(r) == IF r.from = <<>> THEN r.dots + 1 ELSE r.dots
RECURSIVE Upwards(_, _, _)
Upwards(g, dir, levels) ==
  IF levels <= 0 \/ ~IsNode(g, dir) THEN dir ELSE Upwards(g, NodeOf(g, dir).parent, levels - 1)
Alias(r) == IF r.alias # "" THEN r.alias ELSE IF r.name = "*" THEN "" ELSE r.name

RECURSIVE AnalyzeImports(_, _), Walk(_, _, _)
\* A unit on the way has its imports analysed before its successors are taken,
\* unless that has begun already.
Enter(g, matched) == FoldLeft(LAMBDA acc, n : AnalyzeImports(acc, n.id), g, SelectSeq(matched, LAMBDA n : n.kind = "unit"))
Beyond(g, path, matched) ==
  IF Len(path) = 1 THEN [g |-> g, found |-> matched]
  ELSE Walk(g, Tail(path), FoldLeft(LAMBDA acc, n : acc \o Successors(g, n.id), <<>>, matched))
WalkOn(g, path, matched) == Beyond(Enter(g, matched), path, matched)
\* parse_import_path_from_module_worklist: name after name among the nodes at
\* hand and then among their successors.
Walk(g, path, nodes) ==
  IF path = <<>> \/ nodes = <<>> THEN [g |-> g, found |-> <<>>]
  ELSE WalkOn(g, path, IF Head(path) = "*" THEN nodes ELSE SelectSeq(nodes, LAMBDA n : n.name = Head(path)))

\* assign_new_unique_negative_id; -1 is no id.
NewId(g) == -(g.given + 2)

\* A path is sought from the directory of the unit, or one above it, and then,
\* when it has no leading dot, from any node of its first name.
SearchFar(near, path, dots) ==
  IF near.found # <<>> \/ dots > 0 THEN near
  ELSE Walk(near.g, path, SelectSeq(near.g.nodes, LAMBDA n : n.name = Head(path)))
Search(g, u, path, dots) ==
  LET dir == Upwards(g, modules[u].parent, dots - 1)
  IN  SearchFar(Walk(g, path, SelectSeq(g.nodes, LAMBDA n : n.kind \in {"module", "unit"} /\ n.parent = dir)), path, dots)

\* What a statement is linked to: all that is found, or else a node unknown.
LinkFound(g, u, r, found) ==
  LET Link(acc, n) == AddEdge(acc, [from |-> u, to |-> n.id, name |-> IF Alias(r) = "" THEN n.name ELSE Alias(r), kind |-> "external"])
  IN  [g     |-> FoldLeft(Link, g, found),
       nodes |-> [k \in DOMAIN found |-> IF Alias(r) = "" THEN found[k] ELSE [found[k] EXCEPT !.name = Alias(r)]]]
LinkUnknown(g, u, r) ==
  LET fake == [id |-> NewId(g), name |-> Alias(r), kind |-> "unknown", parent |-> r.parent, unit |-> u]
  IN  [g     |-> [AddEdge(AddNode(g, fake), [from |-> u, to |-> fake.id, name |-> fake.name, kind |-> "unsolved"]) EXCEPT !.given = @ + 1],
       nodes |-> <<fake>>]
LinkTo(s, u, r) == IF s.found # <<>> THEN LinkFound(s.g, u, r, s.found) ELSE LinkUnknown(s.g, u, r)
AnalyzeImportStmt(g, u, r) == LinkTo(Search(g, u, Append(r.from, r.name), LeadingDots(r)), u, r)

\* analyze_unit_import_stmts: the import statements outside of all scopes.
AnalyzeImports(g, u) ==
  IF u \in g.analyzed THEN g
  ELSE FoldLeft(LAMBDA acc, x : AnalyzeImportStmt(acc, u, x.row).g, [g EXCEPT !.analyzed = @ \union {u}],
                SelectSeq(units[u].scopes, LAMBDA x : x.scope = 0 /\ x.kind = "import"))

\* ImportGraphLoader.get_import_node_with_name: the first edge of that name.
ImportNodeNamed(g, u, name) ==
  LET out == SelectSeq(g.edges, LAMBDA e : e.from = u /\ e.name = name)
  IN  IF out = <<>> THEN <<>> ELSE <<NodeOf(g, out[1].to)>>
IsForeign(node, u) == node.id > 0 /\ node.kind # "unknown" /\ node.unit \notin {-1, u}

\* resolve_symbol_source_decl with organize_return_value: the number of the
\* declaration, here or in another unit, of the import, or -1.
Resolve(g, u, id, name) ==
  LET decl == NearestDecl(units[u], id, name)
      node == ImportNodeNamed(g, u, name)
  IN  IF decl = <<>> THEN -1
      ELSE IF decl[1].kind # "import" THEN decl[1].id
      ELSE IF node = <<>> THEN -1
      ELSE IF IsForeign(node[1], u) THEN node[1].id
      ELSE decl[1].id

-----------------------------------------------------------------------------
UnitOfStmt(id) == CHOOSE u \in DOMAIN units : \E k \in DOMAIN units[u].rows : units[u].rows[k].id = id
IsClassDecl(id) == \E u \in DOMAIN units : \E k \in DOMAIN units[u].scopes : units[u].scopes[k].id = id /\ units[u].scopes[k].kind = "class"
\* resolve_class_name_to_ids: in each scope that is visible from the class.
ClassesNamed(u, class, name) ==
  LET unit    == units[u]
      targets == VisibleFrom(unit, class) \intersect ScopesNaming(unit, name)
      node    == ImportNodeNamed(graph, u, name)
      In(s)   == LET d == SymbolInfo(unit, s, name)
                 IN  IF d.kind = "class" THEN {d.id}
                     ELSE IF d.kind = "import" /\ node # <<>> /\ IsForeign(node[1], u) THEN {node[1].id} ELSE {}
  IN  UNION {In(s) : s \in targets}

\* analyze_class_decl_and_save_result and analyze_method_in_class.  A parent that
\* is not found gets a number of its own, which has no methods.
AddClass(t, u, x) ==
  LET AddNew(seq, id) == IF id \in ToSet(seq) THEN seq ELSE Append(seq, id)
      parents == FoldLeft(LAMBDA acc, name : FoldLeft(AddNew, acc, SetToSeq(ClassesNamed(u, x.id, name))), <<>>, x.row.supers)
      own == SelectSeq(units[u].scopes, LAMBDA m : m.scope = x.id /\ m.kind \in {"method", "class"})
  IN  [t EXCEPT !.nodes  = FoldLeft(AddNew, @, <<x.id>> \o parents),
                !.supers = (x.id :> parents) @@ @,
                !.own    = (x.id :> [k \in DOMAIN own |-> own[k].id]) @@ @]
AddClasses(t, u) ==
  FoldLeft(LAMBDA acc, x : AddClass(acc, u, x), t, SelectSeq(units[u].scopes, LAMBDA x : x.kind = "class"))

\* Mutant: the classes above are taken as they are saved so far.
AdjustShallow(t, c) ==
  LET Saved(p) == IF p \in DOMAIN t.members THEN t.members[p] ELSE <<>>
      all == FoldLeft(LAMBDA list, p : list \o SelectSeq(Saved(p), LAMBDA m : m \notin ToSet(list)),
                      IF c \in DOMAIN t.own THEN t.own[c] ELSE <<>>, IF c \in DOMAIN t.supers THEN t.supers[c] ELSE <<>>)
  IN  IF all = <<>> THEN t ELSE [t EXCEPT !.members = (c :> all) @@ @]
RECURSIVE AdjustMethods(_, _)
\* adjust_method_in_class_and_save: the methods of a class and then those saved
\* for its parents, each once.
AdjustMethods(t, c) ==
  IF c \in t.done THEN t
  ELSE LET Saved(s, p) == IF p \in DOMAIN s.members THEN s.members[p] ELSE <<>>
           Inherit(acc, p) ==
             LET above == AdjustMethods(acc.t, p)
             IN  [t |-> above, list |-> acc.list \o SelectSeq(Saved(above, p), LAMBDA m : m \notin ToSet(acc.list))]
           own == IF c \in DOMAIN t.own THEN t.own[c] ELSE <<>>
           all == FoldLeft(Inherit, [t |-> [t EXCEPT !.done = @ \union {c}], list |-> own],
                           IF c \in DOMAIN t.supers THEN t.supers[c] ELSE <<>>)
       IN  IF all.list = <<>> THEN all.t ELSE [all.t EXCEPT !.members = (c :> all.list) @@ @]

-----------------------------------------------------------------------------
RECURSIVE MethodAround(_, _, _)
MethodAround(above, methods, id) ==
  IF id = 0 \/ id \in methods THEN id ELSE MethodAround(above, methods, above[id])
\* The statements of each method, by its id.
MethodStmts(u) ==
  LET rows == units[u].rows
      methods == {r.id : r \in {s \in ToSet(rows) : s.op = "method_decl"}}
  IN  [m \in methods |-> SelectSeq(rows, LAMBDA r : r.op \in {"assign_stmt", "import_stmt"} /\ MethodAround(Above(rows), methods, r.parent) = m)]

\* add_status_with_symbol_id_sync for a statement that gives a name a value it
\* computes from it.  A use of a name that is nowhere gets an id that the unit
\* keeps for the name (external_symbol_id_collection), its definition gets -1.
WithId(acc, r, id) ==
  LET new == id < 0 /\ r.name \notin DOMAIN acc.external
      external == IF new THEN (r.name :> NewId(acc.g)) @@ acc.external ELSE acc.external
  IN  [acc EXCEPT !.g.given = IF new THEN @ + 1 ELSE @,
                  !.external = external,
                  !.defined = (r.id :> id) @@ @,
                  !.used = (r.id :> IF id < 0 THEN external[r.name] ELSE id) @@ @]
DefineAndUse(acc, u, r) == WithId(acc, r, Resolve(acc.g, u, r.id, r.name))
\* common_import_def_use.  The list of results is the default value of a parameter
\* and so the same in all calls: what earlier statements found comes first.
WithResults(acc, r, g, results) ==
  LET named == SelectSeq(results, LAMBDA n : n.name = r.name)
  IN  [acc EXCEPT !.g = IF named = <<>> THEN [g EXCEPT !.given = @ + 1] ELSE g,
                  !.results = results,
                  !.defined = (r.id :> IF named = <<>> THEN NewId(g) ELSE named[1].id) @@ @]
WithImport(acc, r, analyzed) == WithResults(acc, r, analyzed.g, acc.results \o analyzed.nodes)
DefineImport(acc, u, r) == WithImport(acc, r, AnalyzeImportStmt(acc.g, u, r))
DefUse(acc, u, r) == IF r.op = "import_stmt" THEN DefineImport(acc, u, r) ELSE DefineAndUse(acc, u, r)

-----------------------------------------------------------------------------
Init ==
  /\ \E project \in Projects : modules \in Scans(project, 0, <<>>)
  /\ phase = "scopes" /\ rest = UnitIds
  /\ units = <<>>
  /\ graph = ModuleNodes(modules)
  /\ types = [nodes |-> <<>>, supers |-> <<>>, own |-> <<>>, done |-> {}, members |-> <<>>]
  /\ symbols = [defined |-> <<>>, used |-> <<>>, results |-> <<>>]

\* One unit of a loop is done; after the last one the next loop begins.
Advance(to, order) ==
  IF Len(rest) > 1 THEN rest' = Tail(rest) /\ phase' = phase ELSE rest' = order /\ phase' = to

\* UnitScopeHierarchyAnalysis.analyze of the next unit.
ScopesFrom(u, rows) ==
  \E order \in SetToSeqs({r \in ToSet(rows) : r.op = "class_decl"}) : units' = (u :> UnitScopes(rows, order)) @@ units
AnalyzeScopes ==
  /\ phase = "scopes"
  /\ ScopesFrom(Head(rest), RowsOf(modules)[Head(rest)])
  /\ Advance("symbols", Reverse(UnitIds))
  /\ UNCHANGED <<modules, graph, types, symbols>>

\* ImportHierarchy.run, its two loops, over unit_list reversed.
AnalyzePublicSymbols ==
  /\ phase = "symbols"
  /\ graph' = AddPublicSymbols(graph, Head(rest), units[Head(rest)])
  /\ Advance("imports", Reverse(UnitIds))
  /\ UNCHANGED <<modules, units, types, symbols>>
AnalyzeUnitImports ==
  /\ phase = "imports"
  /\ graph' = AnalyzeImports(graph, Head(rest))
  /\ Advance("types", Reverse(UnitIds))
  /\ UNCHANGED <<modules, units, types, symbols>>

\* TypeHierarchy.run, its two loops.
AnalyzeTypes ==
  /\ phase = "types"
  /\ types' = AddClasses(types, Head(rest))
  /\ Advance("members", <<>>)
  /\ UNCHANGED <<modules, units, graph, symbols>>
AdjustClasses ==
  /\ phase = "members"
  /\ types' = FoldLeft(AdjustMethods, types, SelectSeq(types.nodes, IsClassDecl))
  /\ phase' = "methods" /\ rest' = UnitIds
  /\ UNCHANGED <<modules, units, graph, symbols>>

\* analyze_method for the methods of the next unit, which are in a set.
AnalyzeMethods ==
  /\ phase = "methods"
  /\ LET u == Head(rest)
         stmts == MethodStmts(u)
         start == [g |-> graph, external |-> <<>>] @@ symbols
     IN  \E order \in SetToSeqs({m \in DOMAIN stmts : stmts[m] # <<>>}) :
           LET end == FoldLeft(LAMBDA acc, m : FoldLeft(LAMBDA a, r : DefUse(a, u, r), acc, stmts[m]), start, order)
           IN  /\ graph' = end.g
               /\ symbols' = [defined |-> end.defined, used |-> end.used, results |-> end.results]
  /\ Advance("done", <<>>)
  /\ UNCHANGED <<modules, units, types>>

Next ==
  \/ AnalyzeScopes \/ AnalyzePublicSymbols \/ AnalyzeUnitImports \/ AnalyzeTypes \/ AdjustClasses
  \/ AnalyzeMethods

Spec == Init /\ [][Next]_vars

-----------------------------------------------------------------------------
\* What the languages say.  The statements of the source, before anything is
\* hoisted; a region is the path of the method, class or list a name belongs to.
RECURSIVE Statements(_)
Statements(stmts) ==
  UNION {{stmts[i]} \union UNION {Statements(stmts[i].blocks[b]) : b \in DOMAIN stmts[i].blocks} : i \in DOMAIN stmts}
Source(u) == Statements(modules[u].stmts)
Bound(n) == IF n.op = "import_stmt" /\ n.alias # "" THEN n.alias ELSE n.name
Region(lang, n) ==
  IF "global" \in n.attrs THEN <<>>
  ELSE IF lang = "python" \/ "var" \in n.attrs THEN n.fn ELSE n.blk

IsMember(u, n) == \E c \in Source(u) : c.op = "class_decl" /\ n.blk = c.at
\* A name that a Python function says is not its own; and of JavaScript an
\* assignment, which only declares what nothing around it does.
Elsewhere(u, n) ==
  \/ \E m \in Source(u) : m.op \in {"global_stmt", "nonlocal_stmt"} /\ m.fn = n.fn /\ m.name = n.name
  \/ "global" \in n.attrs /\ \E d \in Source(u) :
       /\ DeclaresName(KindOf(d)) /\ Bound(d) = n.name /\ "global" \notin d.attrs
       /\ IsPrefix(Region(modules[u].lang, d), n.at)
SaidGlobal(u, n) == \E m \in Source(u) : m.op = "global_stmt" /\ m.fn = n.fn /\ m.name = n.name
Declarations(u, name) == {n \in Source(u) : DeclaresName(KindOf(n)) /\ Bound(n) = name /\ ~Elsewhere(u, n)}
\* Of the regions around a use that declare the name the innermost; the members
\* of a class are names for its methods in Java only.
Candidates(u, use) ==
  {Region(modules[u].lang, n) : n \in {d \in Declarations(u, use.name) :
     /\ IsPrefix(Region(modules[u].lang, d), use.at)
     /\ IsMember(u, d) => modules[u].lang = "java"
     /\ SaidGlobal(u, use) => Region(modules[u].lang, d) = <<>>}}
Innermost(regions) == IF regions = {} THEN {} ELSE {CHOOSE r \in regions : \A q \in regions : Len(q) <= Len(r)}
Expected(u, use) == Innermost(Candidates(u, use))

\* What the code says: the region of the declaration whose id the use has.
UsesOf(u) == {units[u].rows[k] : k \in {j \in DOMAIN units[u].rows : units[u].rows[j].op = "assign_stmt"}}
Found(u, use) == {Region(modules[u].lang, r) : r \in {s \in ToSet(units[u].rows) : s.id = symbols.used[use.id]}}

\* Where the code departs from that.
\* A declaration that is not hoisted as far as its region, because it is no
\* variable, or in a catch_clause, or because JavaScript hoists to the block.
Hoisted(u, d) ==
  /\ d.op = "variable_decl" /\ modules[u].lang = "python"
  /\ ~\E c \in Source(u) : c.op = "catch_clause" /\ IsPrefix(c.at, d.at)
KeptInBlock(u, use) ==
  \E d \in Declarations(u, use.name) :
    ~Hoisted(u, d) /\ IsPrefix(Region(modules[u].lang, d), use.at) /\ ~IsPrefix(d.blk, use.at)
\* The blocks of the statements outside of all methods are visible everywhere,
\* and nearer than all that comes before them.
CapturedByRoot(u, use) ==
  \E d \in Declarations(u, use.name), c \in Source(u) :
    /\ c.op \in {"if_stmt", "try_stmt"} /\ Len(c.at) = 1 /\ Len(d.blk) = 2 /\ IsPrefix(c.at, d.blk)
    /\ ~Hoisted(u, d) /\ ~IsPrefix(d.blk, use.at)
\* A let inside the block of another one of that name is dropped.
LetDropped(u, use) ==
  /\ modules[u].lang = "javascript"
  /\ \E d, e \in Declarations(u, use.name) :
       "let" \in d.attrs \intersect e.attrs /\ d.fn = e.fn /\ d.blk # e.blk /\ IsPrefix(d.blk, e.blk)
\* An assignment declares the name where the declarations of its method are not
\* yet known, in a catch_clause as well.
Before(p, q) ==
  \E i \in DOMAIN p \intersect DOMAIN q : SubSeq(p, 1, i - 1) = SubSeq(q, 1, i - 1) /\ p[i] < q[i]
AssignmentDeclares(u, use) ==
  \E d, e \in Source(u) :
    /\ d.op = "variable_decl" /\ "global" \in d.attrs /\ d.name = use.name
    /\ \/ e.op = "variable_decl" /\ "global" \notin e.attrs /\ e.name = use.name /\ e.fn = d.fn /\ Before(d.at, e.at)
       \/ e.op = "catch_clause" /\ IsPrefix(e.at, d.at)
\* Members of a class are names for its methods, those of nested ones included
\* that have gone to the outer class.
MemberSeen(u, use) ==
  /\ modules[u].lang # "java"
  /\ \E d \in Declarations(u, use.name), c \in Source(u) :
       IsMember(u, d) /\ c.op = "class_decl" /\ IsPrefix(c.at, d.blk) /\ IsPrefix(c.at, use.at)
\* global is not minded where the name is used.
GlobalIgnored(u, use) == SaidGlobal(u, use)
ScopeDeparts(u, use) ==
  KeptInBlock(u, use) \/ CapturedByRoot(u, use) \/ LetDropped(u, use) \/ AssignmentDeclares(u, use) \/ MemberSeen(u, use) \/ GlobalIgnored(u, use)

-----------------------------------------------------------------------------
\* The modules a path leads to: from above with dots, otherwise in the
\* directory of the unit or else in that of the project.
RECURSIVE ModulesAt(_, _), Upper(_, _)
ModulesAt(places, path) ==
  IF path = <<>> THEN places
  ELSE ModulesAt({i \in DOMAIN modules : modules[i].parent \in places /\ modules[i].name = Head(path)}, Tail(path))
Upper(place, levels) == IF levels = 0 \/ place = 0 THEN place ELSE Upper(modules[place].parent, levels - 1)
ModulesNamed(u, path, dots) ==
  LET near == ModulesAt({Upper(modules[u].parent, dots - 1)}, path)
  IN  IF dots > 0 THEN near
      ELSE LET own == ModulesAt({modules[u].parent}, path) IN IF own # {} THEN own ELSE ModulesAt({0}, path)

\* What a name of a module stands for: <<unit, place>>, the place of a unit
\* itself being <<>>.  A name bound twice is what the last statement makes it.
Bindings(u, name) == {n \in Source(u) : n.fn = <<>> /\ DeclaresName(KindOf(n)) /\ Bound(n) = name}
LastOf(stmts) == CHOOSE n \in stmts : \A m \in stmts : m = n \/ Before(m.at, n.at)
IsUnit(m) == m \in DOMAIN modules /\ ~modules[m].dir
RECURSIVE Denotes(_, _, _), Brings(_, _, _)
Imports(u, b, name, seen) ==
  UNION {IF IsUnit(m) THEN Denotes(m, name, seen \union {u}) ELSE {<<k, <<>>>> : k \in ModulesAt({m}, <<name>>)} :
           m \in ModulesNamed(u, b.from, b.dots)}
Denotes(u, name, seen) ==
  IF u \in seen THEN {}
  ELSE IF Bindings(u, name) = {}
       THEN UNION {Imports(u, b, name, seen) : b \in {s \in ToSet(modules[u].stmts) : s.op = "import_stmt" /\ s.name = "*"}}
  ELSE LET b == LastOf(Bindings(u, name)) IN IF b.op = "import_stmt" THEN Brings(u, b, seen) ELSE {<<u, b.at>>}
Brings(u, b, seen) ==
  IF b.from = <<>> /\ b.dots = 0 THEN {<<m, <<>>>> : m \in ModulesNamed(u, <<b.name>>, 0)} ELSE Imports(u, b, b.name, seen)

ImportsOf(u) == {s \in Source(u) : s.op = "import_stmt"}
\* What a use stands for: an import in its own method comes first.
StandsFor(u, use) ==
  LET local == {b \in ImportsOf(u) : b.fn = use.fn /\ use.fn # <<>> /\ Bound(b) = use.name}
  IN  IF local = {} THEN Denotes(u, use.name, {}) ELSE Brings(u, LastOf(local), {})

\* What the code makes of it; the statement of the import itself is nothing.
Place(id) ==
  IF id \in DOMAIN modules THEN <<id, <<>>>>
  ELSE LET u == UnitOfStmt(id) IN <<u, (CHOOSE r \in ToSet(units[u].rows) : r.id = id).at>>
Reached(u, id) ==
  IF id < 0 \/ \E x \in ToSet(units[u].scopes) : x.id = id /\ x.kind = "import" THEN {} ELSE {Place(id)}

\* Where it departs.  The import statements on the way of a name, each with its
\* unit, and the units on that way after the first.
RECURSIVE Way(_, _, _)
Way(u, name, seen) ==
  IF u \in seen THEN {}
  ELSE UNION {{<<u, b>>} \union UNION {Way(m, IF b.name = "*" THEN name ELSE b.name, seen \union {u}) :
                                         m \in {k \in ModulesNamed(u, b.from, b.dots) : IsUnit(k)}} :
                b \in {s \in ImportsOf(u) : Bound(s) \in {name, "*"}}}
RECURSIVE ImportedBy(_)
ImportedBy(found) ==
  LET more == found \union UNION {{m \in ModulesNamed(u, b.from, b.dots) : IsUnit(m)} : <<u, b>> \in UNION {{v} \X ImportsOf(v) : v \in found}}
  IN  IF more = found THEN found ELSE ImportedBy(more)
Onwards(u) == UNION {{m \in ModulesNamed(u, b.from, b.dots) : IsUnit(m)} : b \in ImportsOf(u)}

\* One edge for two names of the same thing; one name for two things.
BoundTwice(u, name) ==
  \/ \E <<v, b>> \in Way(u, name, {}) : Cardinality({n \in Source(v) : DeclaresName(KindOf(n)) /\ Bound(n) = Bound(b)}) > 1
  \/ \E b, d \in ImportsOf(u) : b # d /\ Denotes(u, Bound(b), {}) \intersect Denotes(u, Bound(d), {}) # {}
\* A module is asked for the names its imports have elsewhere, and what comes of
\* that replaces another edge.
AliasIgnored(u, name) ==
  \E i \in ImportsOf(u) : \E <<v, b>> \in Way(u, Bound(i), {}) : \E m \in {k \in ModulesNamed(v, b.from, b.dots) : IsUnit(k)} :
    \E d \in ImportsOf(m) : d.alias # "" /\ b.name \in {d.name, d.alias}
\* What has no source, or only dots, is sought a directory off or not further.
SoughtElsewhere(u, name) ==
  \E <<v, b>> \in Way(u, name, {}) :
    b.from = <<>> /\ (b.dots > 0 \/ ModulesAt({modules[v].parent}, <<b.name>>) = {})
\* The names a wildcard brings are not among the declarations.
FromWildcard(u, name) == \E b \in ImportsOf(u) : b.name = "*"
\* A re-export in a circle of imports may be asked for before it is there.
InCircle(u, name) == \E <<v, b>> \in Way(u, name, {}) : v # u /\ v \in ImportedBy(Onwards(v))
\* An import in a block or a method is analysed with the statements of its
\* method only, which may come after those that use it.
NotAtTop(u, use) ==
  \E <<v, b>> \in Way(u, use.name, {}) : b.blk # <<>> /\ (v # u \/ (b.fn = <<>> /\ use.fn # <<>>))
ImportDeparts(u, use) ==
  \/ BoundTwice(u, use.name) \/ AliasIgnored(u, use.name) \/ SoughtElsewhere(u, use.name) \/ FromWildcard(u, use.name)
  \/ InCircle(u, use.name) \/ NotAtTop(u, use)
\* The results of other imports come before its own; and they have the alias.
FoundBefore(u, b) ==
  b.alias # "" \/ \E v \in DOMAIN units : \E o \in ImportsOf(v) : o.blk # <<>> /\ <<v, o.at>> # <<u, b.at>> /\ Bound(o) \in {b.name, "*"}

-----------------------------------------------------------------------------
\* The classes above a class and the members of all of them, by their places.
ClassAt(c) == CHOOSE n \in Source(c[1]) : n.at = c[2]
Classes(u) == {n \in Source(u) : n.op = "class_decl"}
Supers(c) ==
  UNION {{t \in Denotes(c[1], name, {}) : \E n \in Classes(t[1]) : n.at = t[2]} : name \in ToSet(ClassAt(c).supers)}
RECURSIVE Ancestry(_)
Ancestry(found) == LET more == found \union UNION {Supers(c) : c \in found} IN IF more = found THEN found ELSE Ancestry(more)
OwnMembers(c) == {<<c[1], n.at>> : n \in ToSet(ClassAt(c).blocks[1]) \union ToSet(ClassAt(c).blocks[3])}
Members(c) == UNION {OwnMembers(a) : a \in Ancestry({c})}
\* A super class is sought from inside the class, whose members may have its
\* name; and a class in a nested class may go to the class around that.
ClassDeparts(c) ==
  \E a \in Ancestry({c}) :
    \/ \E name \in ToSet(ClassAt(a).supers) : ImportDeparts(a[1], [name |-> name, fn |-> <<>>]) \/ \E n \in ToSet(ClassAt(a).blocks[3]) : n.name = name
    \/ \E n, o \in Classes(a[1]) : n.blk = o.at /\ IsMember(a[1], o) /\ IsPrefix(a[2], n.at)

-----------------------------------------------------------------------------
\* Every name that a statement uses has the id of the declaration that the
\* rules of the language give it, and so has the name it defines
\* (scope_hierarchy.py, resolver.py, stmt_def_use_analysis.py), where none of
\* the departures is met: whatever blocks, methods, classes and other
\* declarations of the name are around it, hoisted or not, and in whatever
\* order classes are corrected and methods analysed.
EveryUseFindsItsDeclaration ==
  phase = "done" =>
    \A u \in DOMAIN units : \A use \in UsesOf(u) :
      \/ Way(u, use.name, {}) # {} \/ ScopeDeparts(u, use)
      \/ /\ Found(u, use) = Expected(u, use)
         /\ Expected(u, use) # {} => symbols.defined[use.id] = symbols.used[use.id]

\* 4-2.basics.md:53: each variable of the program has one symbol id.  Two
\* statements of a method name the same variable when the same declaration is
\* theirs or when neither has one; then what one of them defines has the id of
\* what the other one uses.
OneIdForAVariable ==
  phase = "done" =>
    \A u \in DOMAIN units : \A d, use \in UsesOf(u) :
      (d.name = use.name /\ d.fn = use.fn /\ Expected(u, d) = Expected(u, use))
         => symbols.defined[d.id] = symbols.used[use.id]

\* The use of an imported name has the id of the definition itself, through all
\* re-exports and whatever the order in which the units are scanned and
\* analysed (import_hierarchy.py), and of nothing when there is none; and so
\* has what an import in a method defines.
ImportsLeadToTheDefinition ==
  phase = "done" =>
    \A u \in DOMAIN units :
      /\ \A use \in UsesOf(u) :
           Way(u, use.name, {}) = {} \/ ImportDeparts(u, use) \/ Reached(u, symbols.used[use.id]) = StandsFor(u, use)
      /\ \A b \in {r \in ToSet(units[u].rows) : r.op = "import_stmt" /\ r.id \in DOMAIN symbols.defined} :
           FoundBefore(u, b) \/ ImportDeparts(u, b) \/ Reached(u, symbols.defined[b.id]) = Brings(u, b, {})

\* The methods saved for a class are its own and those of all classes above
\* it, each once, although classes come in any order and units in any
\* (type_hierarchy.py).
InheritedMembersComplete ==
  phase = "done" =>
    \A u \in DOMAIN units : \A r \in {s \in ToSet(units[u].rows) : s.op = "class_decl"} :
      LET list == IF r.id \in DOMAIN types.members THEN types.members[r.id] ELSE <<>>
      IN  ClassDeparts(<<u, r.at>>)
            \/ /\ {Place(list[k]) : k \in DOMAIN list} = Members(<<u, r.at>>)
               /\ Cardinality(ToSet(list)) = Len(list)
=============================================================================
