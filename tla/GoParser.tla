------------------------------ MODULE GoParser ------------------------------
(* The handlers of lang/go_parser.py. *)
EXTENDS Lowering

RECURSIVE ParseGo(_)

(* Expressions *)
LOCAL binary_expression(n) == IF n.kind = "and" THEN BothOperands(ParseGo, n) ELSE Operation(ParseGo, n)
LOCAL unary_expression(n) == IF n.kind = "deref" THEN Strict(ParseGo, n) ELSE Operation(ParseGo, n)
LOCAL selector_expression(n) == Strict(ParseGo, n)
LOCAL index_expression(n) == Strict(ParseGo, n)
LOCAL slice_expression(n) == Strict(ParseGo, n)
LOCAL call_expression(n) == Strict(ParseGo, n)
LOCAL type_assertion_expression(n) == Strict(ParseGo, n)
\* The value is returned as it was before the conversion.
LOCAL type_conversion_expression(n) == [Converted(ParseGo, n) EXCEPT !.val = ParseGo(n.kids[1]).val]
\* The elements come first.  A literal that is no array is given to nobody.
LOCAL composite_literal(n) ==
  LET elems == InOrder(ParseGo, n.kids)
  IN  IF n.kind = "array"
      THEN Got(elems.code \o <<Move(Tmp(n), {})>> \o [i \in DOMAIN n.kids |-> Move(NoVar, {Tmp(n), elems.vals[i]})], Tmp(n))
      ELSE Got(Append(elems.code, Move(NoVar, Range(elems.vals))), Tmp(n))
LOCAL func_literal(n) == Got(<<[Method(n, CodeOf(ParseGo, n.kids[2])) EXCEPT !.def = Tmp(n)]>>, Tmp(n))

(* Declarations *)
LOCAL var_declaration(n) == Declared(ParseGo, n)
LOCAL function_declaration(n) == Just(<<Method(n, CodeOf(ParseGo, n.kids[2]))>>)

(* Statements *)

\* What l++ writes is the variable that the value of l is in.
LOCAL inc_statement(n) ==
  LET l == ParseGo(n.kids[1])
      write == Move(l.val, {l.val})
  IN  Just(Append(l.code, IF n.kids[1].kind = "name" THEN [write EXCEPT !.of = n.at] ELSE write))
\* Several values are copied before the first target is looked at; one value for
\* several targets is taken apart.
LOCAL parallel_assignment(n) ==
  LET targets == n.kids[1].kids
      values == InOrder(ParseGo, n.kids[2].kids)
      one == Len(values.vals) = 1
      moved(i) == ~one /\ (values.vals[i] = NoVar \/ values.vals[i].name # "%vv")
      copies == SelectSeq([i \in DOMAIN values.vals |-> IF moved(i) THEN Move(Tmp2(n, i), {values.vals[i]}) ELSE Plain],
                          LAMBDA s : s # Plain)
      value(i) == IF one \/ moved(i) THEN Tmp2(n, i) ELSE values.vals[i]
      write(i) == LET access == InOrder(ParseGo, targets[i].kids)
                      take == IF one THEN <<Move(Tmp2(n, i), {values.vals[1]})>> ELSE <<>>
                      target == IF targets[i].kind = "name" THEN Named(targets[i].name) ELSE NoVar
                  IN  access.code \o take
                        \o <<[Eval(n, target, Range(access.vals) \union {value(i)}) EXCEPT !.of = Append(n.at, -i)]>>
  IN  Just(values.code \o copies \o FlattenSeq([i \in DOMAIN targets |-> write(i)]))
LOCAL assignment_statement(n) == IF n.kind = "parallel" THEN parallel_assignment(n) ELSE ValueFirst(ParseGo, n)
\* Called where they stand, in the goroutine that they stand in.
LOCAL go_statement(n) ==
  LET call == n.kids[1]
      got == InOrder(ParseGo, call.kids)
  IN  Just(Append(got.code, Eval(call, Tmp(call), Range(got.vals))))
LOCAL defer_statement(n) == go_statement(n)
\* The operation is "return" and not return_stmt.
LOCAL return_statement(n) == LET e == ParseGo(n.kids[1]) IN Just(Append(e.code, Move(NoVar, {e.val})))
LOCAL label_statement(n) == LabelFirst(ParseGo, n)
LOCAL goto_statement(n) == Just(<<Goto(n.name)>>)
LOCAL if_statement(n) == Branched(ParseGo, n)
\* A loop without a clause has its body for a condition, too.
LOCAL for_statement(n) ==
  CASE n.kind = "for" -> Counted(ParseGo, n)
    [] n.kind = "foreach" -> Iterated(ParseGo, n)
    [] n.kind = "while" -> LET test == ParseGo(n.kids[1])
                           IN  Just(<<Using(For(<<>>, test.code, <<>>, CodeOf(ParseGo, n.kids[2])), test.val)>>)
    [] n.kind = "forever" -> LET body == CodeOf(ParseGo, n.kids[1]) IN Just(<<For(<<>>, body, <<>>, body)>>)
LOCAL break_statement(n) == Just(<<[Break EXCEPT !.name = n.name]>>)
LOCAL continue_statement(n) == Just(<<[Continue EXCEPT !.name = n.name]>>)
\* The clauses are in switch_body, where no one looks for them.
LOCAL SwitchBody(clauses) == Stmt("switch", <<<<>>, clauses>>)
LOCAL expression_switch_statement(n) ==
  LET e == ParseGo(n.kids[1])
  IN  Just(e.code \o CaseValues(ParseGo, n) \o <<Using(SwitchBody(Clauses(LAMBDA c : Clause(ParseGo, c), n)), e.val)>>)
LOCAL type_switch_statement(n) ==
  LET e == ParseGo(n.kids[1])
  IN  Just(e.code \o <<Move(Tmp(n), {e.val}), Using(SwitchBody(Clauses(LAMBDA c : Clause(ParseGo, c), n)), Tmp(n))>>)

ParseGo(n) ==
  CASE n.kind = "name" -> Got(<<>>, Named(n.name))
    [] n.kind \in {"literal", "none", "nop"} -> Nothing
    [] n.kind \in {"binary", "and"} -> binary_expression(n)
    [] n.kind \in {"unary", "deref"} -> unary_expression(n)
    [] n.kind = "field" -> selector_expression(n)
    [] n.kind = "index" -> index_expression(n)
    [] n.kind = "slice" -> slice_expression(n)
    [] n.kind \in {"call", "methodcall"} -> call_expression(n)
    [] n.kind = "typetest" -> type_assertion_expression(n)
    [] n.kind = "cast" -> type_conversion_expression(n)
    [] n.kind \in {"array", "record"} -> composite_literal(n)
    [] n.kind = "lambda" -> func_literal(n)
    [] n.kind = "declare" -> var_declaration(n)
    [] n.kind = "def" -> function_declaration(n)
    [] n.kind = "incr" -> inc_statement(n)
    [] n.kind \in {"assign", "update", "parallel"} -> assignment_statement(n)
    [] n.kind = "spawn" -> go_statement(n)
    [] n.kind = "defer" -> defer_statement(n)
    [] n.kind = "return" -> return_statement(n)
    [] n.kind = "label" -> label_statement(n)
    [] n.kind = "goto" -> goto_statement(n)
    [] n.kind = "if" -> if_statement(n)
    [] n.kind \in {"for", "foreach", "while", "forever"} -> for_statement(n)
    [] n.kind = "break" -> break_statement(n)
    [] n.kind = "continue" -> continue_statement(n)
    [] n.kind = "switch" -> IF n.name = "type" THEN type_switch_statement(n) ELSE expression_switch_statement(n)
    [] n.kind = "block" -> Just(CodeOf(ParseGo, n))
=============================================================================
