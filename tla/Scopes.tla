------------------------------- MODULE Scopes -------------------------------
(***************************************************************************)
(* From the statements of one unit to the scopes of its names: the hoisting *)
(* of declarations (add_var_decl.py), the numbering of the statements       *)
(* (lang_analysis.py), the method that takes the code outside of all        *)
(* methods (add_main_func), and the scopes with what is visible from them   *)
(* (scope_hierarchy.py).                                                   *)
(*                                                                         *)
(* A statement has an operation, a name, attributes and lists of statements *)
(* (blocks).  at, fn and blk say where the source has it: the statement,    *)
(* the method or class around it, and its list.  The blocks are            *)
(*   method_decl: parameters, body     class_decl: methods, fields, nested *)
(*   for_stmt: init_body, body         with_stmt: init_body, update_body   *)
(*   try_stmt: body, catch_body        others: their bodies                *)
(***************************************************************************)
EXTENDS Integers, Sequences, SequencesExt, TLC

Compound == {"if_stmt", "for_stmt", "with_stmt", "try_stmt"}
\* LANG_PY and LANG_JS have the handler adjust_variable_decls, Java has not.
PythonLike(lang) == lang = "python"
Adjusts(lang) == lang \in {"python", "javascript"}

-----------------------------------------------------------------------------
\* add_var_decl.py.  The names a frame has declared (those of let apart), the
\* declarations to go to the top of a list, and those that go to the unit.
\* One declaration: kept where it is, dropped as a repetition, or hoisted.
DeclareOne(lang, acc, n) ==
  LET known == n.name \in acc.vars \union acc.lets
  IN  IF PythonLike(lang) \/ "var" \in n.attrs
      THEN IF known THEN acc
           ELSE [acc EXCEPT !.vars = @ \union {n.name}, !.hoist = Append(@, n)]
      ELSE IF "global" \in n.attrs
      THEN IF known THEN acc
           ELSE [acc EXCEPT !.vars = @ \union {n.name}, !.global = Append(@, n)]
      ELSE IF "let" \in n.attrs
      THEN IF n.name \in acc.lets THEN acc
           ELSE [acc EXCEPT !.lets = @ \union {n.name}, !.vars = @ \ {n.name}, !.out = Append(@, n)]
      ELSE [acc EXCEPT !.out = Append(@, n)]

\* finalize_frame: a block of Python hands its declarations on.
Finalize(lang, acc, inBlock) ==
  IF PythonLike(lang) THEN
    IF inBlock THEN acc ELSE [acc EXCEPT !.out = Reverse(acc.hoist) \o @, !.hoist = <<>>]
  ELSE [acc EXCEPT !.out = Reverse(acc.hoist) \o @, !.lets = IF inBlock THEN {} ELSE @]

RECURSIVE Adjust(_, _, _, _)
\* One frame of adjust_variable_decls.  The blocks of a statement share the
\* names of its frame, methods and the lists of a class have their own.  A
\* catch_clause is no statement, so its block is not visited.
Adjust(lang, stmts, frame, inBlock) ==
  LET Own(list, names, acc) ==
        Adjust(lang, list, [out |-> <<>>, vars |-> names, lets |-> {}, hoist |-> <<>>, global |-> acc.global], FALSE)
      InList(Sub(_, _), acc, n) ==
        LET Each(a, b) == LET r == Sub(a.acc, b) IN [acc |-> [r EXCEPT !.out = <<>>], lists |-> Append(a.lists, r.out)]
            end == FoldLeft(Each, [acc |-> acc, lists |-> <<>>], n.blocks)
        IN  [end.acc EXCEPT !.out = Append(acc.out, [n EXCEPT !.blocks = end.lists])]
      Member(acc, b) == [acc EXCEPT !.out = Own(b, {}, acc).out, !.global = Own(b, {}, acc).global]
      Nested(acc, b) ==
        LET r == Adjust(lang, b, [acc EXCEPT !.out = <<>>, !.hoist = IF PythonLike(lang) THEN @ ELSE <<>>], TRUE)
        IN  [r EXCEPT !.hoist = IF PythonLike(lang) THEN @ ELSE acc.hoist]
      Visit(acc, n) ==
        CASE n.op = "variable_decl" -> DeclareOne(lang, acc, n)
          [] n.op \in {"global_stmt", "nonlocal_stmt"} -> [acc EXCEPT !.vars = @ \union {n.name}, !.out = Append(@, n)]
          [] n.op = "class_decl" -> InList(Member, acc, n)
          [] n.op = "method_decl" ->
               LET r == Own(n.blocks[2], {n.blocks[1][i].name : i \in DOMAIN n.blocks[1]}, acc)
               IN  [acc EXCEPT !.out = Append(@, [n EXCEPT !.blocks[2] = r.out]), !.global = r.global]
          [] n.op \in Compound -> InList(Nested, acc, n)
          [] OTHER -> [acc EXCEPT !.out = Append(@, n)]
  IN  Finalize(lang, FoldLeft(Visit, frame, stmts), inBlock)

Adjusted(lang, stmts) ==
  IF ~Adjusts(lang) THEN stmts
  ELSE LET r == Adjust(lang, stmts, [out |-> <<>>, vars |-> {}, lets |-> {}, hoist |-> <<>>, global |-> <<>>], FALSE)
       IN  Reverse(r.global) \o r.out

-----------------------------------------------------------------------------
\* flatten_stmt and flatten_block: one row for each statement and block, in
\* the order of the text, and consecutive numbers.
Blank == [op |-> "", name |-> "", attrs |-> {}, blocks |-> <<>>, from |-> <<>>, dots |-> 0, alias |-> "", supers |-> <<>>,
          at |-> <<>>, fn |-> <<>>, blk |-> <<>>]
Row(n, id, parent, parts) == [id |-> id, parent |-> parent, parts |-> parts] @@ [n EXCEPT !.blocks = <<>>]
BlockRow(id, parent) == Row([Blank EXCEPT !.op = "block_start"], id, parent, <<>>)

RECURSIVE FlattenStmt(_, _, _)
FlattenBlock(block, id, parent) ==
  FoldLeft(LAMBDA rows, n : rows \o FlattenStmt(n, id + Len(rows), parent), <<>>, block)
\* An empty list has no block, but for the body of a method.
FlattenStmt(n, id, parent) ==
  LET Part(acc, i) ==
        IF n.blocks[i] = <<>> /\ ~(n.op = "method_decl" /\ i = 2) THEN [acc EXCEPT !.parts = Append(@, 0)]
        ELSE LET b == id + 1 + Len(acc.rows)
             IN  [parts |-> Append(acc.parts, b),
                  rows  |-> acc.rows \o <<BlockRow(b, id)>> \o FlattenBlock(n.blocks[i], b + 1, b)]
      all == FoldLeft(Part, [rows |-> <<>>, parts |-> <<>>], [i \in DOMAIN n.blocks |-> i])
  IN  <<Row(n, id, parent, all.parts)>> \o all.rows

\* add_main_func: what is neither a declaration nor an import goes, with all
\* it contains, to the body of %unit_init at the end.
StaysOutside(r) == r.op \in {"variable_decl", "method_decl", "class_decl", "namespace_decl", "import_stmt"}
AddMainFunc(rows) ==
  LET root[i \in DOMAIN rows] == IF rows[i].parent = 0 THEN i ELSE root[i - 1]
      moved(i) == ~StaysOutside(rows[root[i]])
      Those(Test(_)) == FoldLeft(LAMBDA s, i : IF Test(i) THEN Append(s, rows[i]) ELSE s, <<>>, [i \in DOMAIN rows |-> i])
      main == rows[Len(rows)].id + 1
      In(r) == IF r.parent = 0 THEN [r EXCEPT !.parent = main + 1] ELSE r
      top  == Those(moved)
  IN  IF top = <<>> THEN rows
      ELSE Those(LAMBDA i : ~moved(i))
             \o <<Row([Blank EXCEPT !.op = "method_decl", !.name = "%unit_init"], main, 0, <<0, main + 1>>), BlockRow(main + 1, main)>>
             \o [i \in DOMAIN top |-> In(top[i])]

-----------------------------------------------------------------------------
KindOfName(r) ==
  CASE r.op = "import_stmt" -> "import"        [] r.op = "variable_decl" -> "variable"
    [] r.op = "parameter_decl" -> "parameter"  [] OTHER -> "none"
\* A method, a class or a namespace is a name as well.
KindOfScope(r) ==
  CASE r.op = "method_decl" -> "method"        [] r.op = "class_decl" -> "class"
    [] r.op = "namespace_decl" -> "namespace"  [] r.op = "for_stmt" -> "for"
    [] r.op = "with_stmt" -> "with"            [] r.op = "block_start" -> "block"
    [] OTHER -> "none"
KindOf(r) == IF KindOfName(r) # "none" THEN KindOfName(r) ELSE KindOfScope(r)
OpensScope(kind) == kind \in {"method", "class", "namespace", "for", "with", "block"}
DeclaresName(kind) == kind \in {"import", "variable", "parameter", "class", "method", "namespace"}

RECURSIVE Determine(_, _, _)
\* determine_scope: the nearest scope known so far, kept for all statements it
\* passes on the way, 0 when none of those around is known as one yet.
Determine(st, parent, id) ==
  IF id = 0 THEN [scope |-> 0, cache |-> st.cache]
  ELSE IF id \in DOMAIN st.cache THEN [scope |-> st.cache[id], cache |-> st.cache]
  ELSE IF id \in st.all THEN [scope |-> id, cache |-> (id :> id) @@ st.cache]
  ELSE LET up == Determine(st, parent, parent[id])
       IN  [scope |-> up.scope, cache |-> (id :> up.scope) @@ up.cache]

\* parent_stmt_id, as a function of the number.
Above(rows) == [i \in {rows[k].id : k \in DOMAIN rows} |-> rows[CHOOSE k \in DOMAIN rows : rows[k].id = i].parent]

\* discover_scopes goes by the numbers, which the move of add_main_func has
\* left alone: %unit_init comes after the statements it contains.
DiscoverScopes(rows) ==
  LET Step(st, r) ==
        LET d    == Determine(st, Above(rows), r.parent)
            kind == KindOf(r)
        IN  IF kind = "none" THEN [st EXCEPT !.cache = (r.id :> d.scope) @@ d.cache]
            ELSE [scopes |-> Append(st.scopes, [id |-> r.id, scope |-> d.scope, kind |-> kind, row |-> r]),
                  all    |-> IF OpensScope(kind) THEN st.all \union {r.id} ELSE st.all,
                  cache  |-> d.cache]
  IN  FoldLeft(Step, [scopes |-> <<>>, all |-> {0}, cache |-> <<>>], SortSeq(rows, LAMBDA a, b : a.id < b.id))

RECURSIVE Inside(_, _, _)
Inside(above, id, block) == id # 0 /\ (above[id] = block \/ Inside(above, above[id], block))

\* correct_scopes: members belong to their class, parameters to their method,
\* the variables of an init_body to the loop.  Classes come in the order of a
\* Python set, so order is any.
CorrectScopes(rows, disc, order) ==
  LET above == Above(rows)
      Part(r, k) == IF k \in DOMAIN r.parts THEN r.parts[k] ELSE 0
      Of(op, b) == {rows[k].id : k \in {j \in DOMAIN rows : b # 0 /\ rows[j].op = op /\ Inside(above, rows[j].id, b)}}
      To(ids, s) == [i \in ids |-> s]
      Members(r) ==
        To(Of("variable_decl", Part(r, 2)), r.id)
          @@ To({i \in Of("method_decl", Part(r, 1)) : above[i] = Part(r, 1)}, r.id)
          @@ To(Of("class_decl", Part(r, 3)), r.id)
      classes == FoldLeft(LAMBDA f, r : Members(r) @@ f, <<>>, order)
      Others(f, r) ==
        CASE r.op = "method_decl" -> To(Of("parameter_decl", Part(r, 1)), r.id) @@ f
          [] r.op \in {"for_stmt", "with_stmt"} -> To(Of("variable_decl", Part(r, 1)), r.id) @@ f
          [] OTHER -> f
      moved == FoldLeft(Others, classes, rows)
  IN  [scopes |-> [k \in DOMAIN disc.scopes |->
                     IF disc.scopes[k].id \in DOMAIN moved THEN [disc.scopes[k] EXCEPT !.scope = moved[disc.scopes[k].id]] ELSE disc.scopes[k]],
       cache  |-> moved @@ disc.cache]

\* Mutant: only what is directly around a scope is visible from it.
SpreadNot(visible, s, wl, visited) == visible
RECURSIVE Spread(_, _, _, _)
\* The loop of summarize_symbol_decls for one scope: what is visible from
\* there is visible from here, and scopes done before are not entered again.
Spread(visible, s, wl, visited) ==
  IF wl = {} THEN visible
  ELSE LET t == Max(wl)
       IN  IF t <= 0 \/ t \notin DOMAIN visible THEN Spread(visible, s, wl \ {t}, visited)
           ELSE Spread([visible EXCEPT ![s] = @ \union visible[t]], s, (wl \ {t}) \union (visible[t] \ visited), visited)

\* scope_id_to_available_scope_ids
AvailableScopes(scopes) ==
  LET open == SelectSeq(scopes, LAMBDA x : OpensScope(x.kind))
      direct == [i \in {open[k].id : k \in DOMAIN open} |-> {open[k].scope : k \in {j \in DOMAIN open : open[j].id = i}}]
      Step(acc, x) == [visible |-> Spread(acc.visible, x.id, acc.visible[x.id], acc.visited), visited |-> acc.visited \union {x.id}]
      closed == FoldLeft(Step, [visible |-> direct, visited |-> {}], open).visible
  IN  (0 :> {0}) @@ [i \in DOMAIN closed |-> closed[i] \union {i}]

\* The rows of a unit, and what the scope analysis leaves of them.
UnitRows(lang, stmts, firstId) == AddMainFunc(FlattenBlock(Adjusted(lang, stmts), firstId, 0))
UnitScopes(rows, order) ==
  LET corrected == CorrectScopes(rows, DiscoverScopes(rows), order)
  IN  [rows |-> rows, scopes |-> corrected.scopes, cache |-> corrected.cache, visible |-> AvailableScopes(corrected.scopes)]

-----------------------------------------------------------------------------
\* summarize_symbol_decls: an import declares its alias, or its name.
SymbolName(x) == IF x.kind = "import" /\ x.row.alias # "" THEN x.row.alias ELSE x.row.name
Declaring(unit, name) == {k \in DOMAIN unit.scopes : DeclaresName(unit.scopes[k].kind) /\ SymbolName(unit.scopes[k]) = name}
ScopesNaming(unit, name) == {unit.scopes[k].scope : k \in Declaring(unit, name)}
\* scope_id_to_symbol_info: of several declarations in a scope the last one.
SymbolInfo(unit, scope, name) == unit.scopes[Max({k \in Declaring(unit, name) : unit.scopes[k].scope = scope})]

\* convert_stmt_id_to_scope_id
ScopeOfStmt(unit, id) ==
  IF id \in DOMAIN unit.cache THEN unit.cache[id]
  ELSE unit.scopes[CHOOSE k \in DOMAIN unit.scopes : unit.scopes[k].id = id].scope
\* resolve_implicit_root_scopes
ImplicitRootScopes(unit) == {unit.scopes[k].id : k \in {j \in DOMAIN unit.scopes : unit.scopes[j].kind = "block" /\ unit.scopes[j].scope = 0}}
VisibleFrom(unit, scope) == IF scope \in DOMAIN unit.visible THEN unit.visible[scope] ELSE {}

\* resolve_symbol_source_decl up to organize_return_value: the scopes that name
\* the symbol and are visible; the largest number counts as the nearest scope.
DeclScopes(unit, id, name) ==
  (ImplicitRootScopes(unit) \union VisibleFrom(unit, ScopeOfStmt(unit, id))) \intersect ScopesNaming(unit, name)
NearestDecl(unit, id, name) ==
  LET targets == DeclScopes(unit, id, name)
  IN  IF targets = {} THEN <<>> ELSE <<SymbolInfo(unit, Max(targets), name)>>
=============================================================================
