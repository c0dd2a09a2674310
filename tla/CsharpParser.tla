---------------------------- MODULE CsharpParser ----------------------------
(***************************************************************************)
(* The handlers of lang/csharp_parser.py, for the trees of the grammar in  *)
(* lib/: it has neither the equals_value_clause nor the for_each_statement *)
(* that they look for.  switch, whose sections it has no labels for, is    *)
(* left out.                                                               *)
(***************************************************************************)
EXTENDS Lowering

RECURSIVE ParseCsharp(_)

(* Expressions *)
LOCAL binary_expression(n) == IF n.kind = "and" THEN BothOperands(ParseCsharp, n) ELSE Operation(ParseCsharp, n)
LOCAL as_expression(n) == Operation(ParseCsharp, n)
\* The operator is taken for the right side, which is never empty: every
\* assignment is compound.
LOCAL assignment_expression(n) == ValueFirst(ParseCsharp, [n EXCEPT !.kind = "update"])
LOCAL lambda_expression(n) == BodyRepeated(ParseCsharp, n)
LOCAL element_access_expression(n) == Strict(ParseCsharp, n)
LOCAL member_expression(n) == Strict(ParseCsharp, n)
LOCAL invocation_expression(n) == Strict(ParseCsharp, n)
LOCAL new_array(n) == Gathered(ParseCsharp, n, n.kids)
LOCAL conditional_expression(n) == ChosenInOneBranch(ParseCsharp, n)
LOCAL postfix_unary_expression(n) == CopyIncremented(ParseCsharp, n)
LOCAL prefix_unary_expression(n) == Operation(ParseCsharp, n)
\* The variable is assigned the type.
LOCAL cast_expression(n) == LET e == ParseCsharp(n.kids[1]) IN Got(Append(e.code, AssignStmt(Move(e.val, {}))), e.val)
LOCAL object_creation_expression(n) == Strict(ParseCsharp, n)

(* Statements *)
LOCAL label_statement(n) == LabelFirst(ParseCsharp, n)
LOCAL if_statement(n) == Branched(ParseCsharp, n)
LOCAL while_statement(n) ==
  LET test == ParseCsharp(n.kids[1]) IN Just(Append(test.code, Using(While(<<>>, CodeOf(ParseCsharp, n.kids[2]), <<>>), test.val)))
\* The clauses are in blocks of other names than those that are looked for.
LOCAL for_statement(n) ==
  LET test == ParseCsharp(n.kids[2])
      loop == Stmt("for", <<<<>>, <<>>, <<>>, CodeOf(ParseCsharp, n.kids[4]), ParseCsharp(n.kids[1]).code, test.code, ParseCsharp(n.kids[3]).code>>)
  IN  Just(<<Using(loop, test.val)>>)
\* foreach has no handler: its parts are parsed one after the other.
LOCAL foreach_statement(n) == Just(Code(ParseCsharp, <<n.kids[2], n.kids[3]>>))
LOCAL goto_statement(n) == Just(<<Goto(n.name)>>)
LOCAL yield_statement(n) == Awaited(ParseCsharp, n)
LOCAL dowhile_statement(n) ==
  LET test == ParseCsharp(n.kids[2]) IN Just(Append(test.code, Using(DoWhile(CodeOf(ParseCsharp, n.kids[1]), <<>>), test.val)))
LOCAL break_statement(n) == Just(<<Break>>)
\* The clauses are statements behind the try_stmt, and the first block of the
\* statement, the body, is the one of the finally clause.
LOCAL try_statement(n) ==
  LET body == CodeOf(ParseCsharp, n.kids[1])
      catch_clause(c) == Stmt("plain", <<CodeOf(ParseCsharp, c.kids[1])>>)
      finally == IF n.kids[4].kids = <<>> THEN <<>> ELSE <<Stmt("plain", <<body>>)>>
  IN  Just(<<Try(body, <<>>, <<>>, <<>>)>> \o [i \in DOMAIN n.kids[2].kids |-> catch_clause(n.kids[2].kids[i])] \o finally)
LOCAL return_statement(n) == Returned(ParseCsharp, n)
LOCAL continue_statement(n) == Just(<<Continue>>)
LOCAL throw_statement(n) == Thrown(ParseCsharp, n)

(* Declarations *)
LOCAL variable_declaration(n) == Nothing
LOCAL method_declaration(n) == Just(<<Method(n, CodeOf(ParseCsharp, n.kids[2]))>>)
\* The methods are in member_methods, where no one looks for them.
LOCAL class_body(n) == <<<<>>, <<>>, Code(ParseCsharp, Members(n, {"class"})), Code(ParseCsharp, Members(n, {"def"}))>>
LOCAL class_declaration(n) == Just(<<Stmt("class_decl", class_body(n))>>)

ParseCsharp(n) ==
  CASE n.kind = "name" -> Got(<<>>, Named(n.name))
    [] n.kind \in {"literal", "none", "nop"} -> Nothing
    [] n.kind \in {"binary", "and"} -> binary_expression(n)
    [] n.kind = "typetest" -> as_expression(n)
    [] n.kind \in {"assign", "update"} -> assignment_expression(n)
    [] n.kind = "lambda" -> lambda_expression(n)
    [] n.kind = "index" -> element_access_expression(n)
    [] n.kind = "field" -> member_expression(n)
    [] n.kind \in {"call", "methodcall"} -> invocation_expression(n)
    [] n.kind = "array" -> new_array(n)
    [] n.kind = "cond" -> conditional_expression(n)
    [] n.kind = "incr" -> postfix_unary_expression(n)
    [] n.kind = "unary" -> prefix_unary_expression(n)
    [] n.kind = "cast" -> cast_expression(n)
    [] n.kind = "new" -> object_creation_expression(n)
    [] n.kind = "label" -> label_statement(n)
    [] n.kind = "if" -> if_statement(n)
    [] n.kind = "while" -> while_statement(n)
    [] n.kind = "for" -> for_statement(n)
    [] n.kind = "foreach" -> foreach_statement(n)
    [] n.kind = "goto" -> goto_statement(n)
    [] n.kind = "await" -> yield_statement(n)
    [] n.kind = "do" -> dowhile_statement(n)
    [] n.kind = "break" -> break_statement(n)
    [] n.kind = "try" -> try_statement(n)
    [] n.kind = "return" -> return_statement(n)
    [] n.kind = "continue" -> continue_statement(n)
    [] n.kind = "throw" -> throw_statement(n)
    [] n.kind \in {"declare", "member", "static"} -> variable_declaration(n)
    [] n.kind = "def" -> method_declaration(n)
    [] n.kind = "class" -> class_declaration(n)
    [] n.kind = "block" -> Just(CodeOf(ParseCsharp, n))
=============================================================================
