----------------------------- MODULE SourceTree -----------------------------
(***************************************************************************)
(* Programs as the frontends get them: the named nodes of the syntax tree  *)
(* that tree-sitter builds, in the order of their fields.  The grammars of *)
(* the languages name the same thing differently; here one kind stands for *)
(* all of them, and the kinds of a program are those that its language     *)
(* has.  A node knows its place: the path to it from the root of the file. *)
(***************************************************************************)
EXTENDS Integers, Sequences, SequencesExt

Tree(kind, name, kids) == [kind |-> kind, name |-> name, kids |-> kids, at |-> <<>>]

RECURSIVE Placed(_, _)
Placed(n, at) ==
  LET place(kids, k) == Append(kids, Placed(k, Append(at, Len(kids) + 1)))
  IN  [n EXCEPT !.at = at, !.kids = FoldLeft(place, <<>>, @)]

None == Tree("none", "", <<>>)
Given(n) == n.kind # "none"
Block(stmts) == Tree("block", "", stmts)

(* Expressions *)
Name(x)        == Tree("name", x, <<>>)
Literal        == Tree("literal", "", <<>>)
Call(f, args)  == Tree("call", f, args)
CallOn(o, args) == Tree("methodcall", "m", <<o>> \o args)
Binary(a, b)   == Tree("binary", "", <<a, b>>)
Unary(a)       == Tree("unary", "", <<a>>)
TypeTest(a)    == Tree("typetest", "", <<a>>)    \* a is of some type
Cast(a)        == Tree("cast", "", <<a>>)
Await(a)       == Tree("await", "", <<a>>)       \* await a, yield a
Incr(l)        == Tree("incr", "", <<l>>)        \* l++
And(a, b)      == Tree("and", "", <<a, b>>)
Coalesce(a, b) == Tree("coalesce", "", <<a, b>>) \* b if there is no a
Cond(c, a, b)  == Tree("cond", "", <<c, a, b>>)
Field(o)       == Tree("field", "f", <<o>>)
Index(o, i)    == Tree("index", "", <<o, i>>)
Slice(o, i, j) == Tree("slice", "", <<o, i, j>>)
Deref(a)       == Tree("deref", "", <<a>>)       \* what a points to
New(args)      == Tree("new", "C", args)
Array(elems)   == Tree("array", "", elems)
Record(values) == Tree("record", "", values)
Assign(l, r)   == Tree("assign", "", <<l, r>>)
Update(l, r)   == Tree("update", "", <<l, r>>)   \* l += r
Lambda(params, body) == Tree("lambda", "", <<Block(params), body>>)
Each(x, e)     == Tree("each", x, <<e>>)         \* a clause of a comprehension
Filter(c)      == Tree("filter", "", <<c>>)
Collect(e, clauses) == Tree("collect", "", <<e>> \o clauses)

(* Statements *)
IfDo(c, t, e)        == Tree("if", "", <<c, Block(t), Block(e)>>)
\* What stands before its condition: b if c.
IfModifier(b, c)     == Tree("if", "modifier", <<c, Block(b), Block(<<>>)>>)
UnlessDo(c, b, e)    == Tree("unless", "", <<c, Block(b), Block(e)>>)
UnlessModifier(b, c) == Tree("unless", "modifier", <<c, Block(b), Block(<<>>)>>)
UntilDo(c, b)        == Tree("until", "", <<c, Block(b), Block(<<>>)>>)
WhileModifier(b, c)  == Tree("while", "modifier", <<c, Block(b), Block(<<>>)>>)
UntilModifier(b, c)  == Tree("until", "modifier", <<c, Block(b), Block(<<>>)>>)
RescueModifier(b, c) == Tree("try", "modifier", <<Block(b), Block(<<Tree("catch", "", <<Block(c)>>)>>), Block(<<>>), Block(<<>>)>>)
WhileDo(c, b, e)     == Tree("while", "", <<c, Block(b), Block(e)>>)
DoUntil(b, c)        == Tree("do", "", <<Block(b), c>>)
ForDo(i, c, u, b)    == Tree("for", "", <<i, c, u, Block(b)>>)
ForEach(x, e, b, else) == Tree("foreach", "", <<x, e, Block(b), Block(else)>>)
SwitchOn(e, cases)   == Tree("switch", "", <<e>> \o cases)
Match(e, cases)      == Tree("switch", "match", <<e>> \o cases) \* its value is that of a case
SwitchRules(e, cases) == Tree("switch", "rule", <<e>> \o cases) \* case v -> b
CaseOf(v, b)         == Tree("case", "", <<v, Block(b)>>)
DefaultDo(b)         == Tree("default", "", <<None, Block(b)>>)
BreakTo(l)           == Tree("break", l, <<>>)
ContinueTo(l)        == Tree("continue", l, <<>>)
ReturnOf(e)          == Tree("return", "", <<e>>)
ThrowOf(e)           == Tree("throw", "", <<e>>)
EchoOf(e)            == Tree("echo", "", <<e>>)
ExitWith(e)          == Tree("exit", "", <<e>>)   \* ends the program
TryDo(b, catches, e, f) == Tree("try", "", <<Block(b), Block(catches), Block(e), Block(f)>>)
CatchDo(b)           == Tree("catch", "e", <<Block(b)>>)
WithDo(e, b)         == Tree("with", "", <<e, Block(b)>>)
Parallel(ls, rs)     == Tree("parallel", "", <<Block(ls), Block(rs)>>) \* l, m = r, s
RepeatDo(b)          == Tree("forever", "", <<Block(b)>>)
Spawn(call)          == Tree("spawn", "", <<call>>) \* call in a new goroutine
Defer(call)          == Tree("defer", "", <<call>>) \* call at the end of the function
GotoTo(l)            == Tree("goto", l, <<>>)
Attributed(s)        == Tree("attributed", "", <<s>>) \* [[a]] s
SwitchType(e, cases) == Tree("switch", "type", <<e>> \o cases)
Labelled(l, s)       == Tree("label", l, <<s>>)
Nop                  == Tree("nop", "", <<>>)

(* Declarations *)
Param(default)       == Tree("param", "x", <<default>>)
Declare(x, e)        == Tree("declare", x, <<e>>)
Def(params, b)       == Tree("def", "g", <<Block(params), Block(b)>>)
Member(x, e)         == Tree("member", x, <<e>>)  \* a field of an instance
Static(x, e)         == Tree("static", x, <<e>>)  \* a field of the class
ClassOf(members)     == Tree("class", "C", members)

RECURSIVE Constant(_)
\* Literals and operators between them.
Constant(n) == \/ n.kind = "literal"
               \/ n.kind = "binary" /\ \A i \in DOMAIN n.kids : Constant(n.kids[i])

RECURSIVE NodesOf(_)
NodesOf(n) == {n} \union UNION {NodesOf(n.kids[i]) : i \in DOMAIN n.kids}

\* The body of a function and the fields of a class are no part of what is
\* executed around them.
Functions == {"def", "lambda"}
RECURSIVE NodesHere(_)
NodesHere(n) ==
  {n} \union UNION {NodesHere(n.kids[i]) : i \in
    CASE n.kind \in Functions -> {1}
      [] n.kind = "class" -> {j \in DOMAIN n.kids : n.kids[j].kind \in {"def", "class"}}
      [] OTHER -> DOMAIN n.kids}

\* The fields of an instance and those of the class get their values in two
\* functions of their own.
FieldsOf(c, kind) == SelectSeq(c.kids, LAMBDA m : m.kind = kind /\ Given(m.kids[1]))
InitOf(c, kind, i) == [Tree("init", kind, <<None, Block(FieldsOf(c, kind))>>) EXCEPT !.at = Append(c.at, -i)]
FunctionsOf(n) ==
  {m \in NodesOf(n) : m.kind \in Functions}
    \union {m \in UNION {{InitOf(c, "member", 1), InitOf(c, "static", 2)} : c \in {d \in NodesOf(n) : d.kind = "class"}} :
               m.kids[2].kids # <<>>}
=============================================================================
