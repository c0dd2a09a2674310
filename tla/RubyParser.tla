----------------------------- MODULE RubyParser -----------------------------
(***************************************************************************)
(* The handlers of lang/ruby_parser.py.                                    *)
(***************************************************************************)
EXTENDS Lowering

RECURSIVE ParseRuby(_)

\* "block" has no handler in the graph builder.
LOCAL BlockStmt(code) == Stmt("plain", <<code>>)

(* Expressions *)
LOCAL array(n) == Gathered(ParseRuby, n, n.kids)
LOCAL hash(n) == Gathered(ParseRuby, n, n.kids)
LOCAL binary_expression(n) == IF n.kind = "and" THEN BothOperands(ParseRuby, n) ELSE Operation(ParseRuby, n)
LOCAL unary_expression(n) == Operation(ParseRuby, n)
\* The branches are called body and elsebody, which nothing reads.
LOCAL conditional_expression(n) ==
  LET to(e) == Append(e.code, AssignStmt(Move(Tmp(n), {e.val})))
      test == ParseRuby(n.kids[1])
  IN  Got(Append(test.code, Using(Stmt("if", <<<<>>, <<>>, to(ParseRuby(n.kids[2])), to(ParseRuby(n.kids[3]))>>), test.val)), Tmp(n))
\* An update is an assignment, and only then gets its operator.
LOCAL assignment_expression(n) == ValueFirst(ParseRuby, [n EXCEPT !.kind = "assign"])
\* l, m = r, s makes an array of r and s; l, m = r one variable "l, m".
LOCAL argument_list_expression(n) ==
  LET values == n.kids[2].kids
      array_of == Gathered(ParseRuby, n, values)
      targets == n.kids[1].kids
      read(i) == <<Move(Tmp2(n, i), {Tmp(n)}),
                   AssignStmt([Eval(n, Named(targets[i].name), {Tmp2(n, i)}) EXCEPT !.of = Append(n.at, -i)])>>
      value == ParseRuby(values[1])
  IN  IF Len(values) > 1 THEN Got(array_of.code \o FlattenSeq([i \in DOMAIN targets |-> read(i)]), array_of.val)
      ELSE Got(Append(value.code, AssignStmt(Move(Named("l, m"), {value.val}))), Named("l, m"))
\* The method of an object is called by a temporary.
LOCAL call_expression(n) ==
  LET got == InOrder(ParseRuby, n.kids)
      callee == IF n.kind = "call" THEN {} ELSE {Tmp2(n, 1)}
  IN  Got(Append(got.code, Eval(n, Tmp(n), Range(got.vals) \union callee)), Tmp(n))
LOCAL element_reference_expression(n) == Strict(ParseRuby, n)

(* Statements *)
\* An else is the default_stmt of no switch.
LOCAL else_statement(b) == IF b.kids = <<>> THEN <<>> ELSE <<Default(CodeOf(ParseRuby, b))>>
LOCAL if_statement(n) ==
  LET test == ParseRuby(n.kids[1])
  IN  Just(Append(test.code, Using(If(CodeOf(ParseRuby, n.kids[2]), else_statement(n.kids[3])), test.val)))
\* What is done unless is the else of an if.
LOCAL unless_statement(n) ==
  LET test == ParseRuby(n.kids[1])
  IN  Just(Append(test.code, Using(If(else_statement(n.kids[3]), CodeOf(ParseRuby, n.kids[2])), test.val)))
\* The code of the condition gets into a list that is nobody's.
LOCAL if_modifier_statement(n) ==
  Just(<<Using(If(CodeOf(ParseRuby, n.kids[2]), <<>>), ParseRuby(n.kids[1]).val)>>)
LOCAL unless_modifier_statement(n) ==
  Just(<<Using(If(<<>>, CodeOf(ParseRuby, n.kids[2])), ParseRuby(n.kids[1]).val)>>)
\* The elements are read before the loop, from the variable of the loop.
LOCAL for_statement(n) ==
  LET e == ParseRuby(n.kids[2])
  IN  Just(e.code \o <<Move(Tmp2(n, 1), {Tmp(n)}), AssignStmt(Move(Named(n.kids[1].name), {Tmp2(n, 1)})),
                       Using(While(<<>>, <<BlockStmt(CodeOf(ParseRuby, n.kids[3]))>>, <<>>), e.val)>>)
LOCAL break_statement(n) == Just(<<Break>>)
LOCAL next_statement(n) == Just(<<Continue>>)
LOCAL Looped(body, test) == Just(Append(test.code, Using(While(<<>>, body \o test.code, <<>>), test.val)))
\* The body of a loop is a do, that is a block, but for that of a modifier.
LOCAL do_statement(n) ==
  LET body == CodeOf(ParseRuby, n.kids[2]) IN IF n.name = "modifier" THEN body ELSE <<BlockStmt(body)>>
LOCAL while_statement(n) == Looped(do_statement(n), ParseRuby(n.kids[1]))
LOCAL until_statement(n) ==
  LET test == ParseRuby(n.kids[1])
  IN  Looped(do_statement(n), Got(Append(test.code, AssignStmt(Move(Tmp2(n, 1), {test.val}))), Tmp2(n, 1)))
\* begin ... end while c is a while, too.
LOCAL begin_while(n) == Looped(<<BlockStmt(CodeOf(ParseRuby, n.kids[1]))>>, ParseRuby(n.kids[2]))
\* In the else and ensure clauses stands the body of the last rescue, once for
\* each of their statements.
LOCAL begin_statement(n) ==
  LET catches == [i \in DOMAIN n.kids[2].kids |-> CatchStmt(CodeOf(ParseRuby, n.kids[2].kids[i].kids[1]))]
      last == CodeOf(ParseRuby, Last(n.kids[2].kids).kids[1])
      clause(b) == FlattenSeq([i \in DOMAIN b.kids |-> last])
  IN  Just(<<BlockStmt(<<Try(CodeOf(ParseRuby, n.kids[1]), catches, clause(n.kids[3]), clause(n.kids[4]))>>)>>)
LOCAL rescue_modifier_statement(n) == TriedInWith(ParseRuby, CatchStmt, n)
\* Among the cases stands the code of the value once more, and the values of the cases.
LOCAL case_statement(n) ==
  LET e == ParseRuby(n.kids[1])
      when_statement(c) ==
        IF c.kind = "default" THEN else_statement(c.kids[2])
        ELSE LET v == ParseRuby(c.kids[1]) IN Append(v.code, Using(Case(CodeOf(ParseRuby, c.kids[2])), v.val))
  IN  Just(Append(e.code, Using(Switch(e.code \o Clauses(when_statement, n)), e.val)))
\* What follows return and yield is a list of arguments.
LOCAL return_statement(n) ==
  LET e == Gathered(ParseRuby, n, n.kids)
  IN  IF Given(n.kids[1]) THEN Got(Append(e.code, Using(Return, e.val)), e.val) ELSE Just(<<Return>>)
LOCAL yield_statement(n) == return_statement(n)

(* Declarations *)
\* The default values are in the init of the method, which nothing reads.
LOCAL method_declaration(n) == Just(<<[Method(n, <<>>) EXCEPT !.blocks = <<CodeOf(ParseRuby, n.kids[2]), Params(ParseRuby, n)>>]>>)
\* The handler returns nothing.
LOCAL lambda_declaration(n) ==
  LET body == IF n.kids[2].kind = "block" THEN CodeOf(ParseRuby, n.kids[2]) ELSE ParseRuby(n.kids[2]).code
  IN  Just(<<[Method(n, <<>>) EXCEPT !.blocks = <<body, Params(ParseRuby, n)>>]>>)
\* The code of the initializers gets into a list that is nobody's.
LOCAL class_declaration(n) ==
  LET write(m) == LET v == ParseRuby(m.kids[1]).val
                  IN  IF m.kind = "member" THEN Eval(m, NoVar, {v}) ELSE AssignStmt(Eval(m, Named(m.name), {v}))
      fields(kind) == [i \in DOMAIN Members(n, {kind}) |-> write(Members(n, {kind})[i])]
  IN  Just(<<Stmt("class_decl", <<fields("static") \o fields("member"), <<>>, <<>>, Code(ParseRuby, Members(n, {"def"}))>>)>>)

ParseRuby(n) ==
  CASE n.kind = "name" -> Got(<<>>, Named(n.name))
    [] n.kind \in {"literal", "none"} -> Nothing
    [] n.kind = "array" -> array(n)
    [] n.kind = "record" -> hash(n)
    [] n.kind \in {"binary", "and"} -> binary_expression(n)
    [] n.kind = "unary" -> unary_expression(n)
    [] n.kind = "cond" -> conditional_expression(n)
    [] n.kind \in {"assign", "update"} -> assignment_expression(n)
    [] n.kind = "parallel" -> argument_list_expression(n)
    [] n.kind \in {"call", "methodcall", "field"} -> call_expression(n)
    [] n.kind = "index" -> element_reference_expression(n)
    [] n.kind = "if" -> IF n.name = "modifier" THEN if_modifier_statement(n) ELSE if_statement(n)
    [] n.kind = "unless" -> IF n.name = "modifier" THEN unless_modifier_statement(n) ELSE unless_statement(n)
    [] n.kind = "foreach" -> for_statement(n)
    [] n.kind = "break" -> break_statement(n)
    [] n.kind = "continue" -> next_statement(n)
    [] n.kind = "while" -> while_statement(n)
    [] n.kind = "until" -> until_statement(n)
    [] n.kind = "do" -> begin_while(n)
    [] n.kind = "try" -> IF n.name = "modifier" THEN rescue_modifier_statement(n) ELSE begin_statement(n)
    [] n.kind = "switch" -> case_statement(n)
    [] n.kind = "return" -> return_statement(n)
    [] n.kind = "await" -> yield_statement(n)
    [] n.kind = "def" -> method_declaration(n)
    [] n.kind = "lambda" -> lambda_declaration(n)
    [] n.kind = "class" -> class_declaration(n)
    [] n.kind = "block" -> Just(CodeOf(ParseRuby, n))
=============================================================================
