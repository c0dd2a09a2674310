----------------------------- MODULE PhpParser -----------------------------
(* The handlers of lang/php_parser.py. *)
EXTENDS Lowering

RECURSIVE ParsePhp(_)

(* Expressions *)
LOCAL throw_expression(n) == Thrown(ParsePhp, n)
LOCAL double_question_mark(n, operand1, operand2) ==
  Using(If(<<AssignStmt(Move(Tmp(n), {operand1}))>>, <<AssignStmt(Move(Tmp(n), {operand2}))>>), operand1)
LOCAL binary_expression(n) ==
  LET got == InOrder(ParsePhp, n.kids)
  IN  CASE n.kind = "coalesce" -> Got(Append(got.code, double_question_mark(n, got.vals[1], got.vals[2])), Tmp(n))
        [] n.kind = "and" -> BothOperands(ParsePhp, n)
        [] OTHER -> Operation(ParsePhp, n)
LOCAL unary_expression(n) == Operation(ParsePhp, n)
LOCAL cast_expression(n) == Converted(ParsePhp, n)
LOCAL update_expression(n) == CopiedFirst(ParsePhp, n)
LOCAL assignment_expression(n) == IF n.kind = "parallel" THEN TakenApart(ParsePhp, n) ELSE ValueFirst(ParsePhp, n)
LOCAL member_access_expression(n) == Strict(ParsePhp, n)
LOCAL subscript_expression(n) == Strict(ParsePhp, n)
LOCAL call_expression(n) == Strict(ParsePhp, n)
LOCAL new_array(n) == Gathered(ParsePhp, n, n.kids)
LOCAL new_expression(n) == Strict(ParsePhp, n)
LOCAL yield_expression(n) == Awaited(ParsePhp, n)
LOCAL conditional_expression(n) == Chosen(ParsePhp, n)

(* Statements *)
LOCAL switch_statement(n) == ValuesAfter(ParsePhp, LAMBDA c : ClauseIfAny(ParsePhp, c), n)
\* A switch whose clauses give the value to a temporary and leave.
LOCAL match_expression(n) ==
  LET arm(c) == LET e == ParsePhp(c.kids[2].kids[1]) IN e.code \o <<AssignStmt(Move(Tmp(n), {e.val})), Break>>
      clause(c) == IF c.kind = "default" THEN <<Default(arm(c))>> ELSE <<Using(Case(arm(c)), ParsePhp(c.kids[1]).val)>>
  IN  [ValuesAfter(ParsePhp, clause, n) EXCEPT !.val = Tmp(n)]
LOCAL if_statement(n) == Branched(ParsePhp, n)
LOCAL while_statement(n) == TestedTwice(ParsePhp, n, <<>>)
LOCAL dowhile_statement(n) == TestedInside(ParsePhp, n)
LOCAL for_statement(n) == Counted(ParsePhp, n)
LOCAL foreach_statement(n) == Iterated(ParsePhp, n)
LOCAL break_statement(n) == Just(<<Break>>)
LOCAL continue_statement(n) == Just(<<Continue>>)
LOCAL return_statement(n) == Returned(ParsePhp, n)
LOCAL echo_statement(n) == Awaited(ParsePhp, n)
\* What it is given is read as text.
LOCAL exit_statement(n) == Just(<<Plain>>)
LOCAL goto_statement(n) == Just(<<Goto(n.name)>>)
\* The clauses are called catch_stmt, which the graph builder does not know.
LOCAL try_statement(n) == TriedInWith(ParsePhp, CatchStmt, n)
LOCAL named_label_statement(n) == Just(<<Label(n.name)>>)

(* Declarations *)
LOCAL function_declaration(n) == IF n.kind = "lambda" THEN Anonymous(ParsePhp, n) ELSE Just(<<Function(ParsePhp, n)>>)
LOCAL member_property_decl(m) == Declared(ParsePhp, m)
\* The method for the fields of the class gets the body of the one for the
\* fields of its instances.
LOCAL class_body(n) ==
  LET class_init == Code(member_property_decl, Members(n, {"member"}))
      class_static_init == Code(member_property_decl, Members(n, {"static"}))
      static == [MethodDecl(class_init) EXCEPT !.def = Var("%mm", Append(n.at, -2))]
  IN  (IF class_static_init = <<>> THEN <<>> ELSE <<static>>)
        \o InitMethod(n, 1, class_init) \o Code(ParsePhp, Members(n, {"def"}))
LOCAL class_declaration(n) == Just(<<Class(class_body(n), <<>>)>>)

ParsePhp(n) ==
  CASE n.kind = "name" -> Got(<<>>, Named(n.name))
    [] n.kind \in {"literal", "none", "nop"} -> Nothing
    [] n.kind \in {"binary", "and", "coalesce"} -> binary_expression(n)
    [] n.kind = "unary" -> unary_expression(n)
    [] n.kind = "cast" -> cast_expression(n)
    [] n.kind = "incr" -> update_expression(n)
    [] n.kind \in {"assign", "update", "parallel"} -> assignment_expression(n)
    [] n.kind = "field" -> member_access_expression(n)
    [] n.kind = "index" -> subscript_expression(n)
    [] n.kind \in {"call", "methodcall"} -> call_expression(n)
    [] n.kind = "array" -> new_array(n)
    [] n.kind = "new" -> new_expression(n)
    [] n.kind = "await" -> yield_expression(n)
    [] n.kind = "cond" -> conditional_expression(n)
    [] n.kind = "switch" -> IF n.name = "match" THEN match_expression(n) ELSE switch_statement(n)
    [] n.kind = "throw" -> throw_expression(n)
    [] n.kind = "if" -> if_statement(n)
    [] n.kind = "while" -> while_statement(n)
    [] n.kind = "do" -> dowhile_statement(n)
    [] n.kind = "for" -> for_statement(n)
    [] n.kind = "foreach" -> foreach_statement(n)
    [] n.kind = "break" -> break_statement(n)
    [] n.kind = "continue" -> continue_statement(n)
    [] n.kind = "return" -> return_statement(n)
    [] n.kind = "echo" -> echo_statement(n)
    [] n.kind = "exit" -> exit_statement(n)
    [] n.kind = "goto" -> goto_statement(n)
    [] n.kind = "try" -> try_statement(n)
    [] n.kind = "label" -> named_label_statement(n)
    [] n.kind \in {"def", "lambda"} -> function_declaration(n)
    [] n.kind = "class" -> class_declaration(n)
    [] n.kind = "block" -> Just(CodeOf(ParsePhp, n))
=============================================================================
