---------------------------- MODULE FrontendsMC ----------------------------
(***************************************************************************)
(* The files Frontends is checked on: for each language the statements and *)
(* expressions that it has, and each of them in each other one.            *)
(***************************************************************************)
EXTENDS Frontends

Common == {"block", "none", "name", "literal", "call", "binary", "unary", "and", "assign", "update", "if", "while",
           "break", "continue", "return", "switch", "case", "default", "def", "init"}
\* The kinds of nodes that are in the grammar of a language, besides.
Kinds ==
  [python |-> {"methodcall", "field", "index", "slice", "parallel", "cond", "array", "record", "await", "lambda", "param", "each", "filter", "collect",
               "foreach", "try", "catch", "with", "throw", "nop", "class", "static"},
   java   |-> {"methodcall", "field", "index", "cond", "array", "new", "incr", "typetest", "cast", "lambda", "param", "for", "foreach", "do",
               "label", "try", "catch", "throw", "declare", "class", "member", "static"},
   javascript |-> {"methodcall", "field", "index", "cond", "array", "record", "new", "await", "incr", "lambda", "param", "parallel", "for", "foreach",
               "do", "label", "try", "catch", "throw", "with", "declare", "class", "member", "static"},
   c      |-> {"methodcall", "field", "index", "deref", "cond", "array", "incr", "cast", "for", "do", "goto", "label", "nop", "attributed", "declare"},
   go     |-> {"methodcall", "field", "index", "slice", "deref", "array", "record", "incr", "typetest", "cast", "lambda", "param",
               "parallel", "spawn", "defer", "for", "foreach", "forever", "goto", "label", "nop", "declare"},
   php    |-> {"methodcall", "field", "index", "cond", "coalesce", "array", "new", "await", "incr", "cast", "lambda", "param", "parallel",
               "for", "foreach", "do", "goto", "label", "nop", "echo", "exit", "try", "catch", "throw", "class", "member", "static"},
   csharp |-> {"methodcall", "field", "index", "cond", "array", "new", "await", "incr", "typetest", "cast", "lambda", "param", "for",
               "foreach", "do", "goto", "label", "nop", "try", "catch", "throw", "declare", "class", "member", "static"},
   typescript |-> {"methodcall", "field", "index", "cond", "array", "record", "new", "await", "incr", "cast", "lambda", "param", "parallel",
               "for", "foreach", "do", "label", "try", "catch", "throw", "with", "declare", "class", "member", "static"},
   ruby   |-> {"methodcall", "field", "index", "cond", "array", "record", "await", "lambda", "param", "parallel", "unless", "until", "do",
               "foreach", "try", "catch", "class", "member", "static"}]
Languages == DOMAIN Kinds
OnlyFor(l, langs, S) == IF l \in langs THEN S ELSE {}

Do == Call("f", <<>>)
X  == Name("x")

\* Expressions around one expression.
Assigns(l, e) ==
  LET targets == {X, Field(e), Index(X, Do)}
  IN  {Assign(X, e), Assign(Field(Do), e), Assign(Index(Do, X), e), Assign(Field(e), Literal),
       Assign(Deref(Do), e), Update(Deref(e), X), Incr(Deref(e)), Update(X, e), Parallel(<<X, Name("y")>>, <<e>>), Parallel(<<X, Index(X, e)>>, <<Do>>), Parallel(<<Field(X), X>>, <<e, Do>>), Update(Field(Do), X), Update(Index(X, Do), e), Incr(X), Incr(Field(e))}
    \union OnlyFor(l, {"python"}, {Assign(Slice(e, X, None), Do), Assign(Slice(X, None, e), X), Update(Slice(e, X, X), Literal)})
Exprs(l, e) ==
  {Call("f", <<e, Do>>), CallOn(e, <<Do>>), Binary(Do, e), Unary(e), TypeTest(e), Cast(e), Await(e), Field(e), Index(Do, e), Slice(X, Do, e), Deref(e),
   New(<<e>>), Array(<<e, Do>>), Record(<<Do, e>>), And(e, X), And(Do, e), Coalesce(e, X), Coalesce(X, e),
   Match(e, <<CaseOf(Literal, <<Do>>), DefaultDo(<<X>>)>>), Match(X, <<CaseOf(Literal, <<X>>), CaseOf(Literal, <<e>>), DefaultDo(<<e>>)>>), Cond(e, Do, Do), Cond(X, Binary(Literal, Literal), e),
   Lambda(<<Param(None)>>, e), Collect(e, <<Each("x", Do), Filter(Do)>>), Collect(X, <<Each("x", e), Each("y", Do)>>)}
    \union OnlyFor(l, {"python"}, {Slice(e, X, None), Slice(X, e, None)})
    \union OnlyFor(l, {"python", "javascript"}, {Lambda(<<Param(e)>>, X)})

\* Statements around an expression, and around a block.
Tests(l, e) ==
  {IfDo(e, <<Do>>, <<>>), WhileDo(e, <<Do>>, <<>>), ForDo(None, e, Do, <<Do>>), DoUntil(<<Do>>, e), ForEach(X, e, <<Do>>, <<>>),
   SwitchOn(e, <<CaseOf(Literal, <<Do>>)>>), ReturnOf(e), ThrowOf(e), Declare("x", e), WithDo(e, <<Do>>),
   ClassOf(<<Static("x", e), Static("y", X)>>), ClassOf(<<Member("x", e), Def(<<>>, <<Do>>)>>),
   Spawn(Call("f", <<e>>)), Spawn(CallOn(e, <<Do>>)), Defer(Call("f", <<e>>)), EchoOf(e), ExitWith(e), Attributed(e),
   Labelled("l", IfDo(e, <<GotoTo("l")>>, <<>>)), Block(<<IfDo(e, <<GotoTo("l")>>, <<Do>>), Do, Labelled("l", Nop), Do>>)}
    \union OnlyFor(l, {"javascript", "typescript", "c", "php"}, {SwitchOn(X, <<CaseOf(e, <<Do>>)>>)})
    \union OnlyFor(l, {"ruby"}, {IfModifier(<<Do>>, e), UnlessDo(e, <<Do>>, <<>>), UnlessModifier(<<Do>>, e), UntilDo(e, <<Do>>),
                                 WhileModifier(<<Do>>, e), UntilModifier(<<Do>>, e)})
    \union OnlyFor(l, {"go"}, {SwitchType(e, <<CaseOf(None, <<Do>>), DefaultDo(<<Do>>)>>)})
Around(l, b) ==
  {IfDo(Do, b, <<>>), IfDo(X, <<Do>>, b), WhileDo(Do, b, <<>>), DoUntil(b, Do), ForDo(Do, X, Do, b), ForDo(None, None, None, b),
   ForEach(X, Do, b, <<>>), SwitchOn(Do, <<CaseOf(Literal, b), CaseOf(Literal, <<Do>>), DefaultDo(<<Do>>)>>),
   SwitchOn(X, <<CaseOf(Literal, <<Do, BreakTo("")>>), DefaultDo(b)>>),
   TryDo(b, <<CatchDo(<<Do>>)>>, <<>>, <<Do>>), TryDo(<<Do>>, <<CatchDo(b)>>, <<>>, <<>>),
   WithDo(Do, b), RepeatDo(b), Labelled("l", WhileDo(X, b, <<>>))}
    \union OnlyFor(l, {"python"}, {ForEach(X, Do, <<Do>>, b), WhileDo(X, b, <<Do>>), Def(<<Param(Do), Param(None)>>, b),
                                   TryDo(<<Do>>, <<CatchDo(<<Do>>)>>, b, <<>>)})
    \union OnlyFor(l, {"java", "javascript", "go", "php", "csharp", "typescript", "ruby"}, {Assign(X, Lambda(<<>>, Block(b)))})
    \union OnlyFor(l, {"ruby"}, {IfModifier(b, X), UnlessDo(Do, b, <<>>), UnlessDo(Do, <<Do>>, b), UnlessModifier(b, X), UntilDo(X, b),
                                 WhileModifier(b, Do), UntilModifier(b, Do), RescueModifier(b, <<Do>>), RescueModifier(<<Do>>, b)})
    \union OnlyFor(l, {"java"}, {SwitchRules(Do, <<CaseOf(Literal, b), DefaultDo(<<Do>>)>>)})

Blocks == {<<Do>>, <<Do, BreakTo("")>>, <<IfDo(Do, <<ContinueTo("")>>, <<Do>>), Do>>, <<ReturnOf(Do)>>, <<Do, ContinueTo("l")>>,
           <<IfDo(Do, <<GotoTo("l")>>, <<>>), Do>>}
\* One expression for each way in which the handlers make up a value.
Values == {X, Do, CallOn(Do, <<>>), Field(Do), And(Do, X), Cond(X, Do, X), Coalesce(X, Do), Await(Do),
           Array(<<Do>>), Collect(X, <<Each("x", Do)>>), Lambda(<<Param(None)>>, Do), Match(X, <<CaseOf(Literal, <<Do>>), DefaultDo(<<X>>)>>),
           Assign(X, Do), Assign(Field(Do), Do), Update(Index(X, Do), X), Incr(X), Incr(Field(Do))}

\* A body is a program of the language: it has its kinds of nodes, its
\* statements are not operands, and no jump leaves a function.
StatementsOf(l) == CASE l = "python" -> {"assign", "update"} [] l = "go" -> {"assign", "update", "incr"} [] OTHER -> {}
RECURSIVE Loose(_)
\* The jumps that leave a node.
Loose(n) ==
  LET inner == UNION {Loose(n.kids[i]) : i \in DOMAIN n.kids}
  IN  CASE n.kind \in {"break", "continue", "goto"} -> {<<n.kind, n.name>>}
        [] n.kind \in {"while", "until", "do", "for", "foreach", "forever"} -> inner \ {<<"break", "">>, <<"continue", "">>}
        [] n.kind = "switch" -> inner \ {<<"break", "">>}
        [] n.kind = "label" -> {j \in inner : j[2] # n.name}
        [] n.kind = "block" -> inner \ {<<"goto", n.kids[i].name>> : i \in {j \in DOMAIN n.kids : n.kids[j].kind = "label"}}
        [] n.kind \in Functions -> IF inner = {} THEN {} ELSE {<<"function", "">>}
        [] OTHER -> inner
IsOf(l, n) ==
  /\ \A m \in NodesOf(n) :
       /\ m.kind \in Common \union Kinds[l]
       /\ ~(m.kind = "switch" /\ l = "csharp")
       /\ m.kind \notin {"block", "for"} => \A i \in DOMAIN m.kids : m.kids[i].kind \notin StatementsOf(l)
       /\ m.kind = "lambda" => CASE l = "python" -> m.kids[2].kind # "block" [] l = "go" -> m.kids[2].kind = "block" [] OTHER -> TRUE
       /\ m.kind = "label" => \A k \in NodesOf(m.kids[1]) : ~(k.kind = "label" /\ k.name = m.name)
       /\ m.kind \in {"break", "continue"} /\ l \in {"c", "php", "csharp", "ruby"} => m.name = ""
       /\ m.kind = "label" /\ l = "php" => m.kids[1] = Nop
       /\ m.kind = "switch" /\ l # "php" => m.name # "match"
       /\ m.kind = "try" /\ l = "ruby" => m.kids[2].kids # <<>>
       /\ m.kind = "parallel" /\ l \notin {"go", "ruby"} => Len(m.kids[2].kids) = 1
  /\ Loose(n) = {}
InFile(l, body) == Block(<<IF l \in {"java", "csharp"} THEN ClassOf(<<Def(<<>>, body)>>) ELSE Def(<<>>, body)>>)

Bodies(l) ==
  {<<e, Do>> : e \in UNION {Exprs(l, v) \union Assigns(l, v) : v \in Values}}
    \union {<<Do, s, Do>> : s \in UNION {Tests(l, v) : v \in Values}}
    \union {<<Do, s, Do>> : s \in UNION {Around(l, b) : b \in Blocks}}
    \union {<<s, Do>> : s \in UNION {Around(l, <<t, Do>>) : t \in UNION {Around(l, b) : b \in Blocks \ {<<Do>>}}}}
UnitsOf(l) == {UnitOf(l, InFile(l, b)) : b \in {c \in Bodies(l) : IsOf(l, Block(c))}}
AllUnits == UNION {UnitsOf(l) : l \in Languages}
=============================================================================
