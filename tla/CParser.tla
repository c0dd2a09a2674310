------------------------------ MODULE CParser ------------------------------
(* The handlers of lang/c_parser.py. *)
EXTENDS Lowering

RECURSIVE ParseC(_)

(* Expressions *)
LOCAL binary_expression(n) == IF n.kind = "and" THEN BothOperands(ParseC, n) ELSE Operation(ParseC, n)
LOCAL unary_expression(n) == Operation(ParseC, n)
LOCAL pointer_expression(n) == Strict(ParseC, n)
LOCAL field(n) == Strict(ParseC, n)
LOCAL array(n) == Strict(ParseC, n)
LOCAL assignment_expression(n) == ValueFirst(ParseC, n)
LOCAL cast_expression(n) == Converted(ParseC, n)
LOCAL conditional_expression(n) == Chosen(ParseC, n)
LOCAL initializer_list(n) == Gathered(ParseC, n, n.kids)
\* The callee is parsed into a list of its own, which is then forgotten: what
\* reads o->m is lost, and so is what evaluates o.
LOCAL call_expression(n) ==
  LET args == InOrder(ParseC, IF n.kind = "methodcall" THEN Tail(n.kids) ELSE n.kids)
      callee == IF n.kind = "methodcall" THEN {Tmp2(n, 1)} ELSE {}
  IN  Got(Append(args.code, Eval(n, Tmp(n), Range(args.vals) \union callee)), Tmp(n))
\* The value before is kept in a temporary, and what *p is incremented to goes
\* to a temporary too.
LOCAL update_expression(n) ==
  IF n.kids[1].kind \in {"field", "index"} THEN CopiedFirst(ParseC, n) ELSE CopyIncremented(ParseC, n)

(* Declarations *)
LOCAL variable_declaration(n) == Declared(ParseC, n)
LOCAL function_declaration(n) == Just(<<Method(n, CodeOf(ParseC, n.kids[2]))>>)

(* Statements *)
LOCAL return_statement(n) == Returned(ParseC, n)
LOCAL if_statement(n) == Branched(ParseC, n)
LOCAL while_statement(n) == TestedFirst(ParseC, n)
LOCAL for_statement(n) == Counted(ParseC, n)
LOCAL dowhile_statement(n) == TestedLast(ParseC, n)
LOCAL break_statement(n) == Just(<<Break>>)
LOCAL continue_statement(n) == Just(<<Continue>>)
LOCAL goto_statement(n) == Just(<<Goto(n.name)>>)
LOCAL label_statement(n) == LabelFirst(ParseC, n)
LOCAL attributed_statement(n) == Nothing
\* What evaluates a case value is a list within the list, which the flattener
\* refuses.
LOCAL switch_statement(n) ==
  LET e == ParseC(n.kids[1]) IN Just(Append(e.code, Using(Switch(Clauses(LAMBDA c : Clause(ParseC, c), n)), e.val)))

ParseC(n) ==
  CASE n.kind = "name" -> Got(<<>>, Named(n.name))
    [] n.kind \in {"literal", "none", "nop"} -> Nothing
    [] n.kind \in {"binary", "and"} -> binary_expression(n)
    [] n.kind = "unary" -> unary_expression(n)
    [] n.kind = "deref" -> pointer_expression(n)
    [] n.kind = "field" -> field(n)
    [] n.kind = "index" -> array(n)
    [] n.kind \in {"assign", "update"} -> assignment_expression(n)
    [] n.kind = "incr" -> update_expression(n)
    [] n.kind = "cast" -> cast_expression(n)
    [] n.kind = "cond" -> conditional_expression(n)
    [] n.kind = "array" -> initializer_list(n)
    [] n.kind \in {"call", "methodcall"} -> call_expression(n)
    [] n.kind = "declare" -> variable_declaration(n)
    [] n.kind = "def" -> function_declaration(n)
    [] n.kind = "return" -> return_statement(n)
    [] n.kind = "if" -> if_statement(n)
    [] n.kind = "while" -> while_statement(n)
    [] n.kind = "for" -> for_statement(n)
    [] n.kind = "do" -> dowhile_statement(n)
    [] n.kind = "break" -> break_statement(n)
    [] n.kind = "continue" -> continue_statement(n)
    [] n.kind = "goto" -> goto_statement(n)
    [] n.kind = "label" -> label_statement(n)
    [] n.kind = "attributed" -> attributed_statement(n)
    [] n.kind = "switch" -> switch_statement(n)
    [] n.kind = "block" -> Just(CodeOf(ParseC, n))
=============================================================================
