------------------------------- MODULE NamesMC -------------------------------
(***************************************************************************)
(* The projects Names is checked on.                                        *)
(***************************************************************************)
EXTENDS Names

RECURSIVE Located(_, _, _, _)
\* Statements with their places: prefix is the path of the list, fn and blk
\* the regions it belongs to.
Located(stmts, prefix, fn, blk) ==
  LET Put(n, i) ==
        LET at == Append(prefix, i)
            owns == n.op \in {"method_decl", "class_decl"}
            Blk(b) == IF owns \/ (n.op = "for_stmt" /\ b = 1) THEN at ELSE Append(at, b)
        IN  [n EXCEPT !.at = at, !.fn = fn, !.blk = blk,
                      !.blocks = [b \in DOMAIN @ |-> Located(@[b], Append(at, b), IF owns THEN at ELSE fn, Blk(b))]]
  IN  [i \in DOMAIN stmts |-> Put(stmts[i], i)]

Stmt(op, name, blocks) == [Blank EXCEPT !.op = op, !.name = name, !.blocks = blocks]
Decl(attr, name) == [Stmt("variable_decl", name, <<>>) EXCEPT !.attrs = IF attr = "" THEN {} ELSE {attr}]
Use(name) == Stmt("assign_stmt", name, <<>>)
Method(name, params, body) == Stmt("method_decl", name, <<[i \in DOMAIN params |-> Stmt("parameter_decl", params[i], <<>>)], body>>)
Class(name, supers, methods, fields, nested) == [Stmt("class_decl", name, <<methods, fields, nested>>) EXCEPT !.supers = supers]
IfDo(body) == Stmt("if_stmt", "", <<body>>)
ForDo(init, body) == Stmt("for_stmt", "", <<init, body>>)
TryDo(body, handler) == Stmt("try_stmt", "", <<body, <<Stmt("catch_clause", "", <<handler>>)>>>>)

\* Statements about the name x, alone and around others.
Own(lang) == {Decl(a, "x") : a \in IF lang = "javascript" THEN {"let", "var", "global"} ELSE {""}}
Leaves(lang) == Own(lang) \union {Use("x")}
Lists(lang) == {<<a>> : a \in Leaves(lang)} \union {<<d, Use("x")>> : d \in Own(lang)}
Functions(lang, b) ==
  {Method("f", <<>>, b)} \union (IF lang = "python" THEN {Method("f", <<>>, <<Stmt(op, "x", <<>>)>> \o b) : op \in {"global_stmt", "nonlocal_stmt"}} ELSE {})
Inner(lang) ==
  {IfDo(b) : b \in Lists(lang)} \union {IfDo(<<IfDo(b)>>) : b \in Lists(lang)}
    \union {TryDo(<<>>, <<d, Use("x")>>) : d \in Own(lang)} \union {ForDo(<<d>>, <<Use("x")>>) : d \in Own(lang)}
    \union {IfDo(<<Method("x", <<>>, <<>>), Use("x")>>), Method("f", <<"x">>, <<Use("x")>>)}
Nested(lang) ==
  UNION {Functions(lang, b) : b \in Lists(lang)}
    \union {Class("c", <<>>, <<Method("m", <<>>, <<Use("x")>>), Method("n", <<>>, <<Class("d", <<>>, <<Method("x", <<>>, <<>>)>>, <<>>, <<>>), Use("x")>>)>>, <<d>>, <<>>) : d \in Own(lang)}
    \union {Class("c", <<>>, <<Method("m", <<>>, <<Use("x")>>)>>, <<>>, <<Class("d", <<>>, <<Method("m", <<>>, <<Use("x")>>)>>, <<>>, <<Class("x", <<>>, <<>>, <<>>, <<>>)>>)>>)}
SaysNonlocal(n) == n.op = "method_decl" /\ n.blocks[2] # <<>> /\ n.blocks[2][1].op = "nonlocal_stmt"
AtTop(lang) == Leaves(lang) \union Inner(lang) \union {n \in Nested(lang) : ~SaysNonlocal(n)}
\* Outside of all methods, in a method, and in the method of a class; a nonlocal
\* name is one of the method around.
Scripts(lang) == {<<s, t>> : s \in Leaves(lang) \union Inner(lang), t \in AtTop(lang)}
    \union {<<s, t>> : s \in {n \in Nested(lang) : ~SaysNonlocal(n)}, t \in Leaves(lang)}
InMethod(lang) ==
  {<<Method("g", <<>>, <<s, t>>)>> : s \in Inner(lang), t \in {Use("x")} \union {n \in Nested(lang) : ~SaysNonlocal(n)}}
    \union {<<Method("g", <<>>, <<s, t>>)>> : s \in Own(lang), t \in Inner(lang) \union Nested(lang)}
JavaClasses ==
  {<<Class("c", <<>>, <<Method("m", ps, <<s, t>>)>>, fs, <<>>)>> :
     ps \in {<<>>, <<"x">>}, fs \in {<<>>, <<Decl("", "x")>>}, s \in Own("java") \union Inner("java"), t \in Leaves("java") \union Inner("java")}
Programs(lang) == IF lang = "java" THEN JavaClasses ELSE Scripts(lang) \union InMethod(lang)

Unit(name, lang, stmts) == [name |-> name, dir |-> FALSE, lang |-> lang, stmts |-> Located(stmts, <<>>, <<>>, <<>>), inside |-> {}]
Directory(name, entries) == [name |-> name, dir |-> TRUE, lang |-> "", stmts |-> <<>>, inside |-> entries]
ScopeProjects == UNION {{{Unit("a", lang, t)} : t \in Programs(lang)} : lang \in {"python", "javascript", "java"}}

\* Assignments to names that Ruby declares nowhere.
Undeclared ==
  {{Unit("a", "ruby", <<Method("f", <<>>, <<s, t>>), r>>)} : s, t, r \in {Use("x"), IfDo(<<Use("x")>>), IfDo(<<Use("x"), Use("y")>>)}}

\* Units a and b, and c in the directory p.
Units(a, b, c) == {Unit("a", "python", a), Unit("b", "python", b), Directory("p", {Unit("c", "python", c)})}
From(dots, path, name, alias) ==
  [Stmt("import_stmt", name, <<>>) EXCEPT !.dots = dots, !.from = path, !.alias = alias]
Import(name) == Stmt("import_stmt", name, <<>>)
Fn(name) == Method(name, <<>>, <<>>)

\* What c, b and a say: definitions, re-exports, circles, wildcards, aliases.
InC == {<<Fn("x")>>, <<From(2, <<"b">>, "y", ""), Fn("x"), Use("y")>>, <<From(0, <<"b">>, "y", ""), Use("y")>>,
        <<From(0, <<"a">>, "y", ""), Fn("x"), Use("y")>>, <<Import("b"), Use("b"), Fn("x"), Fn("y")>>, <<From(1, <<>>, "c", "y"), Use("y")>>}
FromC == {From(0, <<"p", "c">>, "x", ""), From(0, <<"p", "c">>, "x", "y"), From(0, <<"p">>, "c", "x"), From(1, <<"p", "c">>, "*", "")}
InB == {<<Fn("y")>>} \union {<<s>> : s \in FromC} \union {<<From(0, <<"p", "c">>, "x", a), Fn("y")>> : a \in {"", "y"}}
FromB == {From(0, <<"b">>, "x", ""), From(0, <<"b">>, "x", "y"), From(0, <<"b">>, "y", ""), From(1, <<"b">>, "y", "x"), From(0, <<"b">>, "*", ""),
          From(0, <<"p", "c">>, "y", ""), From(1, <<>>, "b", "x")}
InA == {<<s>> : s \in FromB} \union {<<From(0, <<"p", "c">>, "x", ""), s>> : s \in FromB \ {From(0, <<"b">>, "x", "")}}
         \union {<<From(0, <<"b">>, "x", "y"), s>> : s \in {Import("b"), From(0, <<"b">>, "x", "")}}
ImportProjects == {Units(a \o <<Use("x"), Method("f", <<>>, <<Use("y")>>), Use("b")>>, b, c) : a \in InA, b \in InB, c \in InC}

\* Classes above each other in three units, with what they nest.
Sub(name, supers, nested) == Class(name, supers, <<Fn("m")>>, <<>>, nested)
ClassesC == {<<Sub("x", <<>>, <<>>)>>, <<Sub("x", <<"z">>, <<>>), Sub("z", <<>>, <<Sub("x", <<>>, <<>>)>>)>>,
             <<From(2, <<"b">>, "w", ""), Sub("x", <<"w">>, <<>>)>>}
ClassesB == {<<From(0, <<"p", "c">>, "x", ""), Sub("y", <<"x">>, ns), Sub("w", <<>>, <<>>)>> : ns \in {<<>>, <<Sub("x", <<>>, <<>>)>>}}
             \union {<<Sub("y", <<"w", "w2">>, <<>>), Sub("w", <<>>, <<>>), Sub("w2", <<"w">>, <<>>)>>}
ClassesA == {<<From(0, <<"b">>, "y", ""), From(0, <<"p", "c">>, "x", ""), Sub("z", s, <<>>)>> : s \in {<<"y">>, <<"x", "y">>, <<"y", "x">>, <<"q">>}}
             \union {<<From(0, <<"b">>, "x", ""), Sub("x", <<"x">>, <<>>)>>, <<Sub("z", <<"y">>, <<>>), From(0, <<"b">>, "y", "")>>}
ClassProjects == {Units(a, b, c) : a \in ClassesA, b \in ClassesB, c \in ClassesC}

\* Imports in methods and in blocks, of two units that name the same or not.
ImportsWithin(s) == {<<Method("f", <<>>, <<s, Use("x")>>), Use("x")>>, <<IfDo(<<s>>), Use("x"), Method("f", <<>>, <<Use("x")>>)>>}
WithinProjects ==
  {Units(a, b, <<Fn("x"), Fn("y")>>) :
     a \in UNION {ImportsWithin(s) : s \in {From(0, <<"b">>, "x", ""), From(0, <<"b">>, "y", "x"), From(0, <<"p", "c">>, "x", "")}},
     b \in {<<Fn("x")>>, <<From(0, <<"p", "c">>, "x", "")>>} \union ImportsWithin(From(0, <<"p", "c">>, "x", "")) \union ImportsWithin(From(0, <<"p", "c">>, "y", "x"))}

AllProjects == ScopeProjects \union ImportProjects \union ClassProjects \union WithinProjects
=============================================================================
