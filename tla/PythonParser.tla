---------------------------- MODULE PythonParser ----------------------------
(* The handlers of lang/python_parser.py. *)
EXTENDS Lowering

RECURSIVE ParsePython(_)

(* Expressions *)
LOCAL await_expression(n) == Awaited(ParsePython, n)
LOCAL call_expression(n) == Strict(ParsePython, n)
LOCAL attribute(n) == Strict(ParsePython, n)
\* The bounds of a slice are parsed into a list that is nobody's.
LOCAL parse_slice(subscript, part) ==
  LET got == ParsePython(part)
  IN  IF subscript.kind = "slice" /\ part \in Range(Tail(subscript.kids)) THEN Got(<<>>, got.val) ELSE got
LOCAL subscript(n) == Strict(LAMBDA part : parse_slice(n, part), n)
\* Literals are not folded: the test is for a node type of other languages.
LOCAL binary_comparison_operator(n) == Operation(ParsePython, n)
LOCAL unary_operator(n) == Operation(ParsePython, n)
LOCAL boolean_operator(n) == BothOperands(ParsePython, n)
LOCAL list_expression(n) == Gathered(ParsePython, n, n.kids)
LOCAL dictionary(n) == Gathered(ParsePython, n, n.kids)
\* Mutant: both values are computed before the branch.
LOCAL ChosenAfterBoth(n) ==
  LET got == InOrder(ParsePython, n.kids)
      assign(i) == <<AssignStmt(Move(Tmp(n), {got.vals[i]}))>>
  IN  Got(Append(got.code, Using(If(assign(2), assign(3)), got.vals[1])), Tmp(n))
\* Mutant: the value of the else branch stays where it is.
LOCAL ChosenElseUnassigned(n) ==
  LET test == ParsePython(n.kids[1])
      assign(got) == Append(got.code, AssignStmt(Move(Tmp(n), {got.val})))
  IN  Got(Append(test.code, Using(If(assign(ParsePython(n.kids[2])), Append(ParsePython(n.kids[3]).code, Plain)), test.val)), Tmp(n))
LOCAL conditional_expression(n) == Chosen(ParsePython, n)
LOCAL assignment(n) == ValueFirst(LAMBDA part : parse_slice(n.kids[1], part), n)
\* l, m = r: an element is read before its target is, if that is no variable.
LOCAL pattern_list(n) ==
  LET value == ParsePython(n.kids[2].kids[1])
      targets == n.kids[1].kids
      write(i) == LET pattern == ParsePython(targets[i])
                  IN  <<Move(Tmp2(n, i), {value.val})>> \o pattern.code
                        \o <<AssignStmt([Eval(n, pattern.val, {Tmp2(n, i)}) EXCEPT !.of = Append(n.at, -i)])>>
  IN  Got(value.code \o FlattenSeq([i \in DOMAIN targets |-> write(i)]), value.val)
\* The same code a second time, for an assignment that is the whole statement.
LOCAL expression_statement(n) == assignment(n)

RECURSIVE parse_comprehension_clauses(_, _)
\* The clauses are nested in each other, around the element.
LOCAL parse_comprehension_clauses(n, clauses) ==
  IF clauses = <<>>
  THEN LET e == ParsePython(n.kids[1]) IN Append(e.code, Move(NoVar, {Tmp(n), e.val}))
  ELSE LET c == ParsePython(Head(clauses).kids[1])
           inner == parse_comprehension_clauses(n, Tail(clauses))
       IN  Append(c.code, Using(IF Head(clauses).kind = "each" THEN While(<<>>, inner, <<>>)
                                ELSE If(inner, <<>>), c.val))
LOCAL list_set_dictionary_comprehension(n) ==
  Got(<<Move(Tmp(n), {})>> \o parse_comprehension_clauses(n, Tail(n.kids)), Tmp(n))

(* Declarations *)

\* The default values are evaluated before the declaration, and those of a
\* lambda, the last of them, once more.
LOCAL Computed(params) == SelectSeq(params, LAMBDA p : p.kids[1].kind \notin {"none", "literal"})
LOCAL DefaultOf(p) == LET v == ParsePython(p.kids[1]) IN Append(v.code, AssignStmt(Move(Var("%pd", p.at), {v.val})))
LOCAL Defaults(params) == FlattenSeq([i \in DOMAIN Computed(params) |-> DefaultOf(Computed(params)[i])])
LOCAL function_definition(n) ==
  Got(Append(Defaults(n.kids[1].kids), Method(n, CodeOf(ParsePython, n.kids[2]))), Named(n.name))
LOCAL lambda_expression(n) ==
  LET body == ParsePython(n.kids[2])
      given == Computed(n.kids[1].kids)
      again == IF given = <<>> THEN <<>> ELSE ParsePython(Last(given).kids[1]).code
  IN  Got(Defaults(n.kids[1].kids) \o again \o <<Method(n, Append(body.code, Using(Return, body.val)))>>, MethodOf(n))
\* Of the statements of a class body, what is no assignment is dropped.
LOCAL class_definition(n) ==
  LET code == FlattenSeq([i \in DOMAIN Members(n, {"def"}) |-> function_definition(Members(n, {"def"})[i]).code])
      init == SelectSeq(Code(LAMBDA m : Declared(ParsePython, m), Members(n, {"static"})), LAMBDA s : s.name = "assign")
      methods == SelectSeq(code, LAMBDA s : s.op = "method_decl")
  IN  Just(SelectSeq(code, LAMBDA s : s.op # "method_decl")
             \o <<Class(InitMethod(n, 2, FieldWrites(init)) \o methods, Code(ParsePython, Members(n, {"class"})))>>)

(* Statements *)
LOCAL return_statement(n) == Returned(ParsePython, n)
LOCAL raise_statement(n) == Thrown(ParsePython, n)
LOCAL pass_statement(n) == Just(<<Plain>>)
LOCAL break_statement(n) == Just(<<Break>>)
LOCAL continue_statement(n) == Just(<<Continue>>)
LOCAL if_statement(n) == Branched(ParsePython, n)
\* The else clause is not read.
LOCAL for_statement(n) == Iterated(ParsePython, n)
\* Mutant: the condition is not computed again.
LOCAL TestedOnce(n) ==
  LET test == ParsePython(n.kids[1])
  IN  Just(Append(test.code, Using(While(<<>>, CodeOf(ParsePython, n.kids[2]), CodeOf(ParsePython, n.kids[3])), test.val)))
LOCAL while_statement(n) == TestedTwice(ParsePython, n, CodeOf(ParsePython, n.kids[3]))
LOCAL try_statement(n) == TriedIn(ParsePython, n)
LOCAL with_statement(n) == Just(<<With(ParsePython(n.kids[1]).code, CodeOf(ParsePython, n.kids[2]))>>)
\* The values of the cases are evaluated after the switch.
LOCAL match_statement(n) == ValuesAfter(ParsePython, LAMBDA c : Clause(ParsePython, c), n)

\* common_parser.parse: the handler of a node by its kind.
ParsePython(n) ==
  CASE n.kind = "name" -> Got(<<>>, Named(n.name))
    [] n.kind \in {"literal", "none"} -> Nothing
    [] n.kind = "await" -> await_expression(n)
    [] n.kind \in {"call", "methodcall"} -> call_expression(n)
    [] n.kind = "field" -> attribute(n)
    [] n.kind \in {"index", "slice"} -> subscript(n)
    [] n.kind = "binary" -> binary_comparison_operator(n)
    [] n.kind = "unary" -> unary_operator(n)
    [] n.kind = "and" -> boolean_operator(n)
    [] n.kind = "array" -> list_expression(n)
    [] n.kind = "record" -> dictionary(n)
    [] n.kind = "cond" -> conditional_expression(n)
    [] n.kind = "collect" -> list_set_dictionary_comprehension(n)
    [] n.kind \in {"assign", "update"} -> expression_statement(n)
    [] n.kind = "parallel" -> pattern_list(n)
    [] n.kind = "def" -> function_definition(n)
    [] n.kind = "lambda" -> lambda_expression(n)
    [] n.kind = "class" -> class_definition(n)
    [] n.kind = "return" -> return_statement(n)
    [] n.kind = "throw" -> raise_statement(n)
    [] n.kind = "nop" -> pass_statement(n)
    [] n.kind = "break" -> break_statement(n)
    [] n.kind = "continue" -> continue_statement(n)
    [] n.kind = "if" -> if_statement(n)
    [] n.kind = "foreach" -> for_statement(n)
    [] n.kind = "while" -> while_statement(n)
    [] n.kind = "try" -> try_statement(n)
    [] n.kind = "with" -> with_statement(n)
    [] n.kind = "switch" -> match_statement(n)
    [] n.kind = "block" -> Just(CodeOf(ParsePython, n))
=============================================================================
