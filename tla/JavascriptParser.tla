-------------------------- MODULE JavascriptParser --------------------------
(* The handlers of lang/javascript_parser.py. *)
EXTENDS Lowering

RECURSIVE ParseJavascript(_)

(* Expressions *)
LOCAL binary_expression(n) == IF n.kind = "and" THEN BothOperands(ParseJavascript, n) ELSE Operation(ParseJavascript, n)
LOCAL unary_expression(n) == Operation(ParseJavascript, n)
LOCAL ternary_expression(n) == Chosen(ParseJavascript, n)
LOCAL update_expression(n) == CopiedFirst(ParseJavascript, n)
LOCAL assignment_expression(n) == IF n.kind = "parallel" THEN TakenApart(ParseJavascript, n) ELSE ValueFirst(ParseJavascript, n)
LOCAL member_expression(n) == Strict(ParseJavascript, n)
LOCAL subscript_expression(n) == Strict(ParseJavascript, n)
LOCAL call_expression(n) == Strict(ParseJavascript, n)
LOCAL new_array(n) == Gathered(ParseJavascript, n, n.kids)
LOCAL new_object(n) == Gathered(ParseJavascript, n, n.kids)
LOCAL new_expression(n) == Strict(ParseJavascript, n)
LOCAL await_expression(n) == Awaited(ParseJavascript, n)

(* Statements *)
LOCAL return_statement(n) == Returned(ParseJavascript, n)
LOCAL if_statement(n) == Branched(ParseJavascript, n)
LOCAL while_statement(n) == TestedTwice(ParseJavascript, n, <<>>)
LOCAL dowhile_statement(n) == TestedInside(ParseJavascript, n)
LOCAL for_statement(n) == Counted(ParseJavascript, n)
LOCAL each_statement(n) == Iterated(ParseJavascript, n)
LOCAL break_statement(n) == Just(<<[Break EXCEPT !.name = n.name]>>)
LOCAL continue_statement(n) == Just(<<[Continue EXCEPT !.name = n.name]>>)
LOCAL try_statement(n) == TriedIn(ParseJavascript, n)
LOCAL throw_statement(n) == Thrown(ParseJavascript, n)
LOCAL labeled_statement(n) == LabelFirst(ParseJavascript, n)
LOCAL with_statement(n) ==
  LET e == ParseJavascript(n.kids[1]) IN Just(Append(e.code, Using(With(<<>>, CodeOf(ParseJavascript, n.kids[2])), e.val)))
LOCAL switch_statement(n) == ValuesBefore(ParseJavascript, LAMBDA c : ClauseIfAny(ParseJavascript, c), n)

(* Declarations *)
LOCAL variable_declaration(n) == Declared(ParseJavascript, n)
LOCAL function_declaration(n) == IF n.kind = "lambda" THEN Anonymous(ParseJavascript, n) ELSE Just(<<Function(ParseJavascript, n)>>)
LOCAL field_definition(m) == WrittenField(ParseJavascript, m)
LOCAL class_body(n) ==
  LET init(kind) == Code(field_definition, Members(n, {kind}))
  IN  InitMethod(n, 2, init("static")) \o InitMethod(n, 1, init("member")) \o Code(ParseJavascript, Members(n, {"def"}))
LOCAL class_declaration(n) == Just(<<Class(class_body(n), <<>>)>>)

ParseJavascript(n) ==
  CASE n.kind = "name" -> Got(<<>>, Named(n.name))
    [] n.kind \in {"literal", "none", "nop"} -> Nothing
    [] n.kind \in {"binary", "and"} -> binary_expression(n)
    [] n.kind = "unary" -> unary_expression(n)
    [] n.kind = "cond" -> ternary_expression(n)
    [] n.kind = "incr" -> update_expression(n)
    [] n.kind \in {"assign", "update", "parallel"} -> assignment_expression(n)
    [] n.kind = "field" -> member_expression(n)
    [] n.kind = "index" -> subscript_expression(n)
    [] n.kind \in {"call", "methodcall"} -> call_expression(n)
    [] n.kind = "array" -> new_array(n)
    [] n.kind = "record" -> new_object(n)
    [] n.kind = "new" -> new_expression(n)
    [] n.kind = "await" -> await_expression(n)
    [] n.kind = "return" -> return_statement(n)
    [] n.kind = "if" -> if_statement(n)
    [] n.kind = "while" -> while_statement(n)
    [] n.kind = "do" -> dowhile_statement(n)
    [] n.kind = "for" -> for_statement(n)
    [] n.kind = "foreach" -> each_statement(n)
    [] n.kind = "break" -> break_statement(n)
    [] n.kind = "continue" -> continue_statement(n)
    [] n.kind = "try" -> try_statement(n)
    [] n.kind = "throw" -> throw_statement(n)
    [] n.kind = "label" -> labeled_statement(n)
    [] n.kind = "with" -> with_statement(n)
    [] n.kind = "switch" -> switch_statement(n)
    [] n.kind = "declare" -> variable_declaration(n)
    [] n.kind \in {"def", "lambda"} -> function_declaration(n)
    [] n.kind = "class" -> class_declaration(n)
    [] n.kind = "block" -> Just(CodeOf(ParseJavascript, n))
=============================================================================
