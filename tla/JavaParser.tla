----------------------------- MODULE JavaParser -----------------------------
(* The handlers of lang/java_parser.py. *)
EXTENDS Lowering

RECURSIVE ParseJava(_)

(* Expressions *)
LOCAL binary_expression(n) == Folded(ParseJava, n)
LOCAL unary_expression(n) == Operation(ParseJava, n)
LOCAL instanceof_expression(n) == Operation(ParseJava, n)
LOCAL field(n) == Strict(ParseJava, n)
LOCAL array(n) == Strict(ParseJava, n)
LOCAL assignment_expression(n) == ValueFirst(ParseJava, n)
LOCAL update_expression(n) == Incremented(ParseJava, n)
LOCAL cast_expression(n) == Converted(ParseJava, n)
LOCAL call_expression(n) == IF n.kind = "methodcall" THEN ReceiverLast(ParseJava, n) ELSE Strict(ParseJava, n)
LOCAL new_array(n) == Gathered(ParseJava, n, n.kids)
LOCAL new_object(n) == Strict(ParseJava, n)
LOCAL ternary_expression(n) == ChosenInOneBranch(ParseJava, n)
LOCAL lambda_expression(n) == BodyRepeated(ParseJava, n)

(* Declarations *)
LOCAL variable_declaration(n) == Declared(ParseJava, n)
LOCAL method_declaration(n) == Just(<<Method(n, CodeOf(ParseJava, n.kids[2]))>>)
LOCAL class_body(n) ==
  LET init(kind) == FieldWrites(Code(LAMBDA m : Declared(ParseJava, m), Members(n, {kind})))
  IN  InitMethod(n, 2, init("static")) \o InitMethod(n, 1, init("member")) \o Code(ParseJava, Members(n, {"def"}))
LOCAL class_declaration(n) == Just(<<Class(class_body(n), Code(ParseJava, Members(n, {"class"})))>>)

(* Statements *)
LOCAL label_statement(n) == LabelFirst(ParseJava, n)
LOCAL if_statement(n) == Branched(ParseJava, n)
LOCAL while_statement(n) == TestedFirst(ParseJava, n)
LOCAL for_statement(n) == Counted(ParseJava, n)
LOCAL each_statement(n) == Iterated(ParseJava, n)
LOCAL dowhile_statement(n) == TestedLast(ParseJava, n)
LOCAL break_statement(n) == Just(<<[Break EXCEPT !.name = n.name]>>)
LOCAL continue_statement(n) == Just(<<[Continue EXCEPT !.name = n.name]>>)
LOCAL return_statement(n) == Returned(ParseJava, n)
LOCAL throw_statement(n) == Thrown(ParseJava, n)
LOCAL try_statement(n) == TriedIn(ParseJava, n)
\* A rule (case x -> ...) ends with a break, the default rule apart; a default
\* without statements is dropped.
LOCAL SwitchClause(n, c) ==
  LET yield == IF n.name = "rule" THEN <<Move(Tmp(n), {})>> ELSE <<>>
      body == CodeOf(ParseJava, c.kids[2]) \o yield
  IN  IF c.kind = "case"
      THEN <<Using(Case(IF n.name = "rule" THEN Append(body, Break) ELSE body), ParseJava(c.kids[1]).val)>>
      ELSE IF c.kids[2].kids = <<>> THEN <<>> ELSE <<Default(body)>>
LOCAL switch_expression(n) == [ValuesAfter(ParseJava, LAMBDA c : SwitchClause(n, c), n) EXCEPT !.val = Tmp(n)]

ParseJava(n) ==
  CASE n.kind = "name" -> Got(<<>>, Named(n.name))
    [] n.kind \in {"literal", "none"} -> Nothing
    [] n.kind = "binary" -> binary_expression(n)
    [] n.kind = "and" -> BothOperands(ParseJava, n)
    [] n.kind = "unary" -> unary_expression(n)
    [] n.kind = "typetest" -> instanceof_expression(n)
    [] n.kind = "field" -> field(n)
    [] n.kind = "index" -> array(n)
    [] n.kind \in {"assign", "update"} -> assignment_expression(n)
    [] n.kind = "incr" -> update_expression(n)
    [] n.kind = "cast" -> cast_expression(n)
    [] n.kind \in {"call", "methodcall"} -> call_expression(n)
    [] n.kind = "array" -> new_array(n)
    [] n.kind = "new" -> new_object(n)
    [] n.kind = "cond" -> ternary_expression(n)
    [] n.kind = "lambda" -> lambda_expression(n)
    [] n.kind = "declare" -> variable_declaration(n)
    [] n.kind = "def" -> method_declaration(n)
    [] n.kind = "class" -> class_declaration(n)
    [] n.kind = "label" -> label_statement(n)
    [] n.kind = "if" -> if_statement(n)
    [] n.kind = "while" -> while_statement(n)
    [] n.kind = "for" -> for_statement(n)
    [] n.kind = "foreach" -> each_statement(n)
    [] n.kind = "do" -> dowhile_statement(n)
    [] n.kind = "break" -> break_statement(n)
    [] n.kind = "continue" -> continue_statement(n)
    [] n.kind = "return" -> return_statement(n)
    [] n.kind = "throw" -> throw_statement(n)
    [] n.kind = "try" -> try_statement(n)
    [] n.kind = "switch" -> switch_expression(n)
    [] n.kind = "block" -> Just(CodeOf(ParseJava, n))
    [] n.kind = "nop" -> Nothing
=============================================================================
