------------------------------ MODULE Frontends ------------------------------
(***************************************************************************)
(* A file on its way through a frontend: its statements are parsed one     *)
(* after the other into the GIR of the unit, what stands outside of        *)
(* functions becomes the method %unit_init, and each method gets its       *)
(* control flow graph.                                                     *)
(***************************************************************************)
EXTENDS CfgBuilder, ProgramFlow, SourceRuns, PythonParser, JavaParser, JavascriptParser, CParser, GoParser,
  PhpParser, CsharpParser, TypescriptParser, RubyParser

CONSTANTS
  Units  \* the files, by UnitOf

Parse(lang, n) ==
  CASE lang = "python" -> ParsePython(n)
    [] lang = "java" -> ParseJava(n)
    [] lang = "javascript" -> ParseJavascript(n)
    [] lang = "c" -> ParseC(n)
    [] lang = "go" -> ParseGo(n)
    [] lang = "php" -> ParsePhp(n)
    [] lang = "csharp" -> ParseCsharp(n)
    [] lang = "typescript" -> ParseTypescript(n)
    [] lang = "ruby" -> ParseRuby(n)

\* The declarations stay at the top, the rest becomes a method of its own.
IsDecl(s) == s.op \in {"method_decl", "class_decl"}
UnitInit(stmts) == SelectSeq(stmts, LAMBDA s : ~IsDecl(s))
MethodsIn(stmts) == {s \in StmtsOf(stmts, Exit) : s.op = "method_decl"}

\* The methods by the places of their functions.  A method starts with its
\* parameter declarations.
MethodsOf(stmts) ==
  (<<>> :> <<Plain>> \o UnitInit(stmts))
    @@ [at \in {s.def.at : s \in MethodsIn(stmts)} |->
          <<Plain>> \o (CHOOSE s \in MethodsIn(stmts) : s.def.at = at).blocks[1]]

-----------------------------------------------------------------------------
(* The graph of a method as an automaton over what its statements evaluate *)

Entry == <<1>>
Start == <<0>>
Automaton(pairs, stmts) ==
  LET of     == [at \in {s.at : s \in {t \in stmts : t.of # <<>>}} |-> (CHOOSE s \in stmts : s.at = at).of]
      silent == {e \in pairs : e[1] \notin DOMAIN of}
      ahead  == [at \in DOMAIN of \union {Entry} |->
                   Closure({e[2] : e \in {d \in pairs : d[1] = at}}, silent) \intersect (DOMAIN of \union {Exit})]
  IN  [pairs |-> pairs, stmts |-> stmts, of |-> of, ahead |-> ahead]
GraphOf(body) == Automaton({<<e[1], e[2]>> : e \in Range(CfgOf(body))}, StmtsOf(body, Exit))

RECURSIVE AcceptsFrom(_, _, _, _)
AcceptsFrom(g, places, trace, i) ==
  IF i > Len(trace) THEN Exit \in places
  ELSE AcceptsFrom(g, UNION {g.ahead[at] : at \in {p \in places \ {Exit} : g.of[p] = trace[i]}}, trace, i + 1)
Accepts(g, trace) == AcceptsFrom(g, g.ahead[Entry], trace, 1)

\* What is evaluated directly after what, from the start to the end (<<>>).
GraphSteps(g) ==
  LET of(at) == IF at = Exit THEN <<>> ELSE IF at = Entry THEN Start ELSE g.of[at]
      live == {Entry} \union (Closure({Entry}, g.pairs) \intersect DOMAIN g.of)
  IN  UNION {{<<of(at), of(next)>> : next \in g.ahead[at]} : at \in live}
TraceSteps(trace) ==
  LET all == <<Start>> \o trace \o <<<<>>>> IN {<<all[i], all[i + 1]>> : i \in 1..(Len(trace) + 1)}

-----------------------------------------------------------------------------
(* Where the frontends depart from the meaning of their languages, node by *)
(* node.  Everything else is translated.                                   *)

Evaluates(n) == \E m \in NodesHere(n) : m.kind \in Evaluated \union {"assign", "update", "incr", "declare"} /\ ~Constant(m)
AnyEvaluates(nodes) == \E i \in DOMAIN nodes : Evaluates(nodes[i])
Has(n, kind) == \E m \in NodesHere(n) : m.kind = kind
Jumps(block) == block.kids # <<>> /\ Last(block.kids).kind \in {"break", "continue", "return", "throw", "goto"}

\* The value of an assignment is evaluated before the parts of its target.
ValueTooEarly(lang, n) ==
  \/ /\ n.kind \in {"assign", "update"} /\ n.kids[1].kind # "name" /\ Evaluates(n.kids[2])
     /\ lang # "c"
     /\ (n.kind = "update" \/ (lang \in TargetFirst /\ AnyEvaluates(n.kids[1].kids)))
  \/ n.kind = "parallel" /\ \E i \in DOMAIN n.kids[1].kids : AnyEvaluates(n.kids[1].kids[i].kids)
\* The right operand of && or ?? is evaluated whatever the left one is.
NoShortcut(lang, n) == n.kind \in {"and", "coalesce"} /\ Evaluates(n.kids[2])
\* A continue jumps over the code of the condition at the end of the body.
TestSkipped(lang, n) ==
  \/ n.kind \in {"while", "until"} /\ Evaluates(n.kids[1]) /\ Has(n.kids[2], "continue")
  \/ n.kind = "do" /\ Evaluates(n.kids[2]) /\ Has(n.kids[1], "continue")
ElseDropped(lang, n) == n.kind = "foreach" /\ Evaluates(n.kids[4])
\* Cases that do not fall through in the language do so in the graph.
FallsThrough(lang, n) ==
  /\ n.kind = "switch" /\ (lang \notin Falls \/ n.name = "rule")
  /\ \E i \in 2..(Len(n.kids) - 1) : ~Jumps(n.kids[i].kids[2])
\* The values of cases are evaluated all at once, or not at all (C).
ValuesLate(lang, n) == n.kind = "switch" /\ \E i \in 2..Len(n.kids) : n.kids[i].kids[1].kind \notin {"none", "name", "literal"}
\* The default value of a parameter is evaluated whether or not it is needed, or
\* twice (Python).
DefaultComputed(lang, n) == n.kind \in Functions /\ Evaluates(n.kids[1]) /\ (lang # "python" \/ n.kind = "lambda")
\* A class body makes field writes of all assignments of its initializers, those
\* of operators to their temporaries included, and in Python it keeps nothing else.
InitializerDropped(lang, n) ==
  /\ n.kind \in {"member", "static"}
  /\ lang \in {"python", "java"}
  /\ IF lang = "python" THEN n.kids[1].kind \notin {"name", "literal"}
     ELSE \E m \in NodesHere(n.kids[1]) : m.kind \in {"binary", "unary", "typetest", "and", "incr", "assign", "update"}
\* A jump takes the innermost loop for the one that it names.
FarJump(lang, n) ==
  /\ n.kind = "label"
  /\ \E k \in NodesHere(n.kids[1]) \ {n.kids[1]}, m \in NodesHere(n) :
       m.kind \in {"break", "continue"} /\ m.name = n.name /\ k.kind \in {"while", "do", "for", "foreach", "forever", "switch"} /\ m \in NodesHere(k)
\* Java: the receiver of a call comes after its arguments.
ReceiverLate(lang, n) == n.kind = "methodcall" /\ lang = "java" /\ Evaluates(n.kids[1]) /\ AnyEvaluates(Tail(n.kids))
\* Java, C# and TypeScript: ?: becomes an operation that has no handler.
\* Ruby: its branches get other names than those of an if.
ChoiceLost(lang, n) == n.kind = "cond" /\ lang \in {"java", "csharp", "typescript", "ruby"}
\* Java, C# and TypeScript: the body of a lambda is repeated for each of its statements, and what it
\* returns is not seen to be returned.
LambdaRepeated(lang, n) == n.kind = "lambda" /\ lang \in {"java", "csharp", "typescript"} /\ n.kids[2].kind = "block"
\* A loop without a condition has a way out.
EndlessLoop(lang, n) == n.kind \in {"for", "forever"} /\ (n.kind = "for" => ~Given(n.kids[2]))
\* C, Ruby: o->m(...) calls a temporary that nothing has written.
CalleeLost(lang, n) == (n.kind = "methodcall" /\ lang \in {"c", "ruby"}) \/ (n.kind = "field" /\ lang = "ruby")
\* C, C#, Go and TypeScript: what is not a variable is not written by ++ and --.
IncrementLost(lang, n) ==
  n.kind = "incr" /\ n.kids[1].kind \in (CASE lang \in {"csharp", "go", "typescript"} -> {"field", "index", "deref"} [] lang = "c" -> {"deref"} [] OTHER -> {})
\* C: a statement with an attribute is left out.
StatementDropped(lang, n) == n.kind = "attributed"
\* Go: a return is a statement like any other.
ReturnPassed(lang, n) == n.kind = "return" /\ lang = "go"
\* Go: a literal that is no array is given to a temporary that is not written.
LiteralLost(lang, n) == n.kind = "record" /\ lang = "go"
\* Go: a deferred call is made where it stands.
DeferredTooEarly(lang, n) == n.kind = "defer"
\* PHP: the fields of the class get the initializers of its instances.
StaticDropped(lang, n) == n.kind = "static" /\ lang = "php"
\* In [l, m] = r only variables are written.
TargetLost(lang, n) == n.kind = "parallel" /\ lang \in {"python", "php", "javascript", "typescript", "ruby"} /\ \E i \in DOMAIN n.kids[1].kids : n.kids[1].kids[i].kind # "name"
\* PHP: the program goes on after an exit.
ExitPassed(lang, n) == n.kind = "exit"
\* PHP: a continue in a switch continues the loop around it.
SwitchContinued(lang, n) == n.kind = "switch" /\ lang = "php" /\ Has(n, "continue")
\* C#: a target that is no variable is read before it is written.
TargetRead(lang, n) == n.kind = "assign" /\ lang = "csharp" /\ n.kids[1].kind # "name"
\* C#: no initializer is evaluated.
InitializerLost(lang, n) == n.kind \in {"declare", "member", "static"} /\ lang = "csharp"
\* C#: a condition is evaluated once, before the loop; the clauses of a for
\* never; and a foreach is no loop.
LoopBroken(lang, n) ==
  /\ lang = "csharp"
  /\ \/ n.kind = "while" /\ Evaluates(n.kids[1])
     \/ n.kind = "do" /\ Evaluates(n.kids[2])
     \/ n.kind = "for" /\ AnyEvaluates(SubSeq(n.kids, 1, 3))
     \/ n.kind = "foreach"
\* C#: the clauses of a try are unreachable, and in finally stands the body.
\* TypeScript, Ruby: the body is unreachable, too.  PHP: what is caught is.
ClausesLost(lang, n) == n.kind = "try" /\ lang \in {"csharp", "typescript", "php", "ruby"}
\* TypeScript: the right operand comes before the left one.
OperandsSwapped(lang, n) == n.kind \in {"binary", "and"} /\ lang = "typescript" /\ AnyEvaluates(n.kids)
\* TypeScript, Ruby: the initializers of a class are evaluated where the class
\* stands; at those of static fields of TypeScript the graph builder raises.
FieldsInline(lang, n) == n.kind = "class" /\ lang \in {"typescript", "ruby"} /\ \E i \in DOMAIN n.kids : n.kids[i].kind \in {"member", "static"}
\* TypeScript: the condition of a loop over elements is a temporary that nothing
\* has written; Ruby: its variable is assigned from one, before the loop.
ConditionLost(lang, n) == n.kind = "foreach" /\ lang \in {"typescript", "ruby"}
\* TypeScript: a case ends after its first statement.
CaseCut(lang, n) == n.kind \in {"case", "default"} /\ lang = "typescript" /\ Len(n.kids[2].kids) > 1
\* Ruby: the body of a loop is unreachable, but for that of a modifier, and so is an else.
BodyLost(lang, n) ==
  /\ lang = "ruby"
  /\ \/ n.kind \in {"while", "until", "do", "foreach"} /\ n.name # "modifier"
     \/ n.kind \in {"if", "unless"} /\ n.kids[3].kids # <<>>
\* Ruby: what computes the condition of a modifier is dropped; the if and the
\* unless read a temporary that nothing has written.
ModifierUntested(lang, n) == n.kind \in {"if", "unless"} /\ n.name = "modifier" /\ n.kids[1].kind \notin {"name", "literal"}
\* Python: the same for the bounds of a slice.
BoundsDropped(lang, n) ==
  n.kind = "slice" /\ lang = "python" /\ \E i \in 2..Len(n.kids) : n.kids[i].kind \notin {"none", "name", "literal"}
\* Ruby: an update writes what is no variable without reading it.
UpdateUnread(lang, n) == n.kind = "update" /\ lang = "ruby" /\ n.kids[1].kind # "name"
\* Ruby: a single value is not taken apart.
ValueWhole(lang, n) == n.kind = "parallel" /\ lang = "ruby" /\ Len(n.kids[2].kids) = 1
\* Ruby: the code of the value of a case stands among its clauses, too.
ValueRepeated(lang, n) == n.kind = "switch" /\ lang = "ruby" /\ Evaluates(n.kids[1])
\* Ruby: yield returns.
YieldLeaves(lang, n) == n.kind = "await" /\ lang = "ruby"

Departure(lang, n) ==
  \/ ValueTooEarly(lang, n) \/ NoShortcut(lang, n) \/ TestSkipped(lang, n) \/ ElseDropped(lang, n) \/ FallsThrough(lang, n)
  \/ ValuesLate(lang, n) \/ DefaultComputed(lang, n) \/ InitializerDropped(lang, n) \/ FarJump(lang, n) \/ EndlessLoop(lang, n)
  \/ ReceiverLate(lang, n) \/ ChoiceLost(lang, n) \/ LambdaRepeated(lang, n)
  \/ CalleeLost(lang, n) \/ IncrementLost(lang, n) \/ StatementDropped(lang, n)
  \/ ReturnPassed(lang, n) \/ LiteralLost(lang, n) \/ DeferredTooEarly(lang, n)
  \/ StaticDropped(lang, n) \/ TargetLost(lang, n) \/ ExitPassed(lang, n) \/ SwitchContinued(lang, n)
  \/ TargetRead(lang, n) \/ InitializerLost(lang, n) \/ LoopBroken(lang, n) \/ ClausesLost(lang, n)
  \/ OperandsSwapped(lang, n) \/ FieldsInline(lang, n) \/ ConditionLost(lang, n) \/ CaseCut(lang, n)
  \/ BodyLost(lang, n) \/ ModifierUntested(lang, n) \/ BoundsDropped(lang, n) \/ UpdateUnread(lang, n) \/ ValueWhole(lang, n) \/ ValueRepeated(lang, n) \/ YieldLeaves(lang, n)

-----------------------------------------------------------------------------
(* What becomes of a file, and what it means *)

BodyOf(file, m) == IF m = file THEN m ELSE m.kids[2]
RunsOf(lang, file, m) == IF m = file THEN Runs(m, lang) ELSE FunctionRuns(m, lang)

\* No departure in the body of a function, or around it.
Lowered(lang, file, m) ==
  /\ \A n \in NodesHere(BodyOf(file, m)) : ~Departure(lang, n)
  /\ \A n \in NodesOf(file) : IsPrefix(n.at, m.at) => ~Departure(lang, n)

\* The functions of a file that are translated, and each of them with its runs and
\* its graph, where the builder does not depart from the meaning of the GIR.
Understood(lang, file, bodies) ==
  LET translated == {m \in FunctionsOf(file) \union {file} : Lowered(lang, file, m)}
  IN  [translated |-> {m.at : m \in translated},
       meant |-> {[graph |-> GraphOf(bodies[m.at]), traces |-> Traces(RunsOf(lang, file, m))] :
                    m \in {k \in translated : k.at \in DOMAIN bodies /\ Regular(bodies[k.at])}}]

\* A tree in a language, each of its nodes with its place.
UnitOf(lang, tree) == [lang |-> lang, file |-> Placed(tree, <<>>)]

-----------------------------------------------------------------------------
(* The steps *)

VARIABLES
  unit,       \* the file
  parsed,     \* how many of its statements are parsed
  gir,        \* the statements of the unit so far
  methods,    \* the bodies of its methods
  understood  \* history: what the file and the graphs of its methods mean
vars == <<unit, parsed, gir, methods, understood>>

Init == unit \in Units /\ parsed = 0 /\ gir = <<>> /\ methods = <<>> /\ understood = <<>>

\* common_parser.parse on the root of the file: its children in order
ParseNext ==
  /\ parsed < Len(unit.file.kids)
  /\ parsed' = parsed + 1
  /\ gir' = gir \o Parse(unit.lang, unit.file.kids[parsed']).code
  /\ UNCHANGED <<unit, methods, understood>>

AddMainFunc ==
  /\ parsed = Len(unit.file.kids) /\ methods = <<>>
  /\ methods' = MethodsOf(gir)
  /\ understood' = Understood(unit.lang, unit.file, methods')
  /\ UNCHANGED <<unit, parsed, gir>>

Next == ParseNext \/ AddMainFunc
Spec == Init /\ [][Next]_vars

-----------------------------------------------------------------------------
(* Properties *)

Done == methods # <<>>

\* A function whose handlers are those of the language becomes one method and
\* only one: no handler that parses a node twice, as those of conditions and
\* defaults do, declares it again with another body (tmp_method, add_main_func).
EveryFunctionHasItsMethod ==
  Done => \A at \in understood.translated \ {<<>>} : Cardinality({s.blocks[1] : s \in {t \in MethodsIn(gir) : t.def.at = at}}) = 1

\* Where no node departs (Departure), no behaviour of the program is lost between
\* the parser and the graph: what a run of a function evaluates, in its order, is
\* read along some path through the graph of its method (the handlers of the nine
\* parsers that are modelled, control_flow.py).
EveryRunIsAPath ==
  Done => \A m \in understood.meant : \A t \in m.traces : Accepts(m.graph, t)

\* And none is added, there: what directly follows what on a path of the graph does so
\* in a run of the function.
NoOtherStep ==
  Done => \A m \in understood.meant : GraphSteps(m.graph) \subseteq UNION {TraceSteps(t) : t \in m.traces}

\* A temporary is written on every path to a statement that uses it: but for the
\* nodes of Departure, some of which do so (ModifierUntested, BoundsDropped,
\* CalleeLost, LiteralLost), no handler that is modelled returns the name of a
\* temporary (tmp_variable) whose code is in a branch that may not be taken, or
\* nowhere.
TemporariesWritten ==
  Done => \A m \in understood.meant :
    LET g == m.graph
        temps == {v \in UNION {s.use : s \in g.stmts} : v.name = "%vv"}
    IN  \A v \in temps :
          LET writers == {s.at : s \in {t \in g.stmts : t.def = v}}
              before == Closure({Entry}, {e \in g.pairs : e[1] \notin writers})
          IN  \A s \in g.stmts : v \in s.use => s.at \notin before
=============================================================================
