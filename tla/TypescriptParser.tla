-------------------------- MODULE TypescriptParser --------------------------
(***************************************************************************)
(* The handlers of lang/typescript_parser.py.  The expression_stmt that    *)
(* follows the code of an expression only names its value and is left out. *)
(***************************************************************************)
EXTENDS Lowering

RECURSIVE ParseTypescript(_)

(* Expressions *)
LOCAL parse_subscript(n) == Strict(ParseTypescript, n)
LOCAL assignment_expression(n) == IF n.kind = "parallel" THEN TakenApart(ParseTypescript, n) ELSE ValueFirst(ParseTypescript, n)
\* The right operand comes first.
LOCAL binary_expression(n) ==
  LET got == InOrder(ParseTypescript, Reverse(n.kids))
      result == IF n.kind = "and" THEN Move(Tmp(n), Range(got.vals)) ELSE Eval(n, Tmp(n), Range(got.vals))
  IN  Got(Append(got.code, AssignStmt(result)), Tmp(n))
LOCAL call_expression(n) == Strict(ParseTypescript, n)
LOCAL unary_expression(n) == Operation(ParseTypescript, n)
LOCAL member_expression(n) == Strict(ParseTypescript, n)
\* The operation is "if" and not if_stmt.
LOCAL ternary_expression(n) ==
  LET test == ParseTypescript(n.kids[1])
      assign(got) == Append(got.code, AssignStmt(Move(Tmp(n), {got.val})))
  IN  Got(Append(test.code, Using(Stmt("ternary", <<assign(ParseTypescript(n.kids[2])), assign(ParseTypescript(n.kids[3]))>>), test.val)), Tmp(n))
LOCAL new_expression(n) == Strict(ParseTypescript, n)
LOCAL augmented_assignment_expression(n) == ValueFirst(ParseTypescript, n)
LOCAL array(n) == Gathered(ParseTypescript, n, n.kids)
LOCAL await_expression(n) == Awaited(ParseTypescript, n)
LOCAL as_expression(n) == Awaited(ParseTypescript, n)
\* field_access and array_access are no nodes of this grammar.
LOCAL update_expression(n) == CopyIncremented(ParseTypescript, n)
LOCAL parse_object(n) == Gathered(ParseTypescript, n, n.kids)
LOCAL arrow_function(n) == BodyRepeated(ParseTypescript, n)

(* Declarations *)

\* The default values are in init, which is no part of the control flow.
LOCAL method_declaration(n) ==
  LET body == CodeOf(ParseTypescript, n.kids[2])
  IN  Just(<<[Method(n, body) EXCEPT !.blocks = <<body, Params(ParseTypescript, n)>>]>>)
LOCAL variable_declaration(n) == Declared(ParseTypescript, n)
LOCAL public_field_definition(m) == Declared(ParseTypescript, m)
\* Of the initializers only the assignments are kept, as field writes; the
\* methods are in member_methods, where no one looks for them.  Those of static
\* fields are in a block of their own, at which the graph builder raises.
LOCAL class_body(n) ==
  LET kept(kind) == SelectSeq(FieldWrites(Code(public_field_definition, Members(n, {kind}))), LAMBDA s : s.name = "assign")
  IN  <<kept("static") \o kept("member"), <<>>, <<>>, Code(ParseTypescript, Members(n, {"def"}))>>
LOCAL class_declaration(n) == Just(<<Stmt("class_decl", class_body(n))>>)

(* Statements *)
LOCAL for_statement(n) == Counted(ParseTypescript, n)
\* The condition that is computed is not the one that the loop is given.
LOCAL for_in_statement(n) ==
  LET e == ParseTypescript(n.kids[2])
      target == Tmp2(n, 1)
      length == Tmp2(n, 2)
      element == Tmp2(n, 5)
      counted == <<Move(target, {}), Move(length, {e.val}), Move(Tmp2(n, 3), {target, length})>>
      taken == <<Move(element, {e.val, target}), Move(Named(n.name), {element}), Move(target, {target})>>
  IN  Just(e.code \o Append(counted, Using(While(<<>>, taken \o CodeOf(ParseTypescript, n.kids[3]), <<>>), Tmp2(n, 4))))
LOCAL if_statement(n) == Branched(ParseTypescript, n)
LOCAL while_statement(n) == TestedTwice(ParseTypescript, n, <<>>)
LOCAL do_statement(n) == TestedInside(ParseTypescript, n)
\* The case values come before the value that is compared to them, and only the
\* first statement of a case is the child called body.
LOCAL switch_statement(n) ==
  LET cut(c) == [c EXCEPT !.kids[2].kids = SubSeq(@, 1, 1)]
      e == ParseTypescript(n.kids[1])
  IN  Just(CaseValues(ParseTypescript, n) \o e.code \o <<Using(Switch(Clauses(LAMBDA c : Clause(ParseTypescript, cut(c)), n)), e.val)>>)
LOCAL break_statement(n) == Just(<<[Break EXCEPT !.name = n.name]>>)
LOCAL continue_statement(n) == Just(<<[Continue EXCEPT !.name = n.name]>>)
LOCAL return_statement(n) == Returned(ParseTypescript, n)
LOCAL throw_statement(n) == Thrown(ParseTypescript, n)
\* The blocks are called try_body and finally_body, and what they hold is called
\* catch_clause and finally_stmt: nothing of it is looked for.
LOCAL try_statement(n) ==
  LET part(block) == IF block.kids = <<>> THEN <<>> ELSE <<Stmt("plain", <<CodeOf(ParseTypescript, block)>>)>>
      catches == FlattenSeq([i \in DOMAIN n.kids[2].kids |-> part(n.kids[2].kids[i].kids[1])])
  IN  Just(<<Stmt("try", <<<<>>, <<>>, <<>>, <<>>, CodeOf(ParseTypescript, n.kids[1]), catches, part(n.kids[4])>>)>>)
LOCAL with_statement(n) == LET e == ParseTypescript(n.kids[1]) IN Just(<<Using(With(e.code, CodeOf(ParseTypescript, n.kids[2])), e.val)>>)
LOCAL labeled_statement(n) == LabelFirst(ParseTypescript, n)

ParseTypescript(n) ==
  CASE n.kind = "name" -> Got(<<>>, Named(n.name))
    [] n.kind \in {"literal", "none", "nop"} -> Nothing
    [] n.kind = "index" -> parse_subscript(n)
    [] n.kind \in {"assign", "parallel"} -> assignment_expression(n)
    [] n.kind \in {"binary", "and"} -> binary_expression(n)
    [] n.kind \in {"call", "methodcall"} -> call_expression(n)
    [] n.kind = "unary" -> unary_expression(n)
    [] n.kind = "field" -> member_expression(n)
    [] n.kind = "cond" -> ternary_expression(n)
    [] n.kind = "new" -> new_expression(n)
    [] n.kind = "update" -> augmented_assignment_expression(n)
    [] n.kind = "array" -> array(n)
    [] n.kind = "await" -> await_expression(n)
    [] n.kind = "cast" -> as_expression(n)
    [] n.kind = "incr" -> update_expression(n)
    [] n.kind = "record" -> parse_object(n)
    [] n.kind = "lambda" -> arrow_function(n)
    [] n.kind = "def" -> method_declaration(n)
    [] n.kind = "declare" -> variable_declaration(n)
    [] n.kind = "class" -> class_declaration(n)
    [] n.kind = "for" -> for_statement(n)
    [] n.kind = "foreach" -> for_in_statement(n)
    [] n.kind = "if" -> if_statement(n)
    [] n.kind = "while" -> while_statement(n)
    [] n.kind = "do" -> do_statement(n)
    [] n.kind = "switch" -> switch_statement(n)
    [] n.kind = "break" -> break_statement(n)
    [] n.kind = "continue" -> continue_statement(n)
    [] n.kind = "return" -> return_statement(n)
    [] n.kind = "throw" -> throw_statement(n)
    [] n.kind = "try" -> try_statement(n)
    [] n.kind = "with" -> with_statement(n)
    [] n.kind = "label" -> labeled_statement(n)
    [] n.kind = "block" -> Just(CodeOf(ParseTypescript, n))
=============================================================================
