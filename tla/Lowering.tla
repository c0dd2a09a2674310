------------------------------ MODULE Lowering ------------------------------
(***************************************************************************)
(* What the frontends have in common: a handler is given a node and        *)
(* appends to a list of statements, and returns the variable that holds    *)
(* the value of the node.  tmp_variable() never gives the same temporary   *)
(* twice; the temporary of a node is named after its place.                *)
(***************************************************************************)
EXTENDS SourceTree, Gir

\* What a handler appends, and what it returns.
Got(code, val) == [code |-> code, val |-> val]
Nothing == Got(<<>>, NoVar)
Just(code) == Got(code, NoVar)
Named(x) == Var(x, <<>>)
Tmp(n) == Var("%vv", n.at)
\* Further temporaries of a node, and the method made of one.
Tmp2(n, i) == Var("%vv", Append(n.at, -i))
MethodOf(n) == Var("%mm", n.at)

(* Statements *)
Uses(vals) == vals \ {NoVar}
\* A statement that evaluates a node, and one that only moves values around.
\* An assign_stmt is told apart: the bodies of classes make field writes of it.
Eval(n, def, uses)    == [Plain EXCEPT !.of = n.at, !.def = def, !.use = Uses(uses)]
Reading(n, def, uses) == [Eval(n, def, uses) EXCEPT !.of = Append(n.at, 0)]
Move(def, uses)       == [Plain EXCEPT !.def = def, !.use = Uses(uses)]
AssignStmt(s)         == [s EXCEPT !.name = "assign"]
Using(s, val)         == [s EXCEPT !.use = Uses({val})]
Method(n, body)       == [MethodDecl(body) EXCEPT !.def = MethodOf(n)]

(* Expressions; P parses a node *)

\* The nodes in order: their code, and the variables of their values.
InOrder(P(_), nodes) ==
  FoldLeft(LAMBDA r, n : LET got == P(n) IN [code |-> r.code \o got.code, vals |-> Append(r.vals, got.val)],
           [code |-> <<>>, vals |-> <<>>], nodes)
Code(P(_), nodes) == InOrder(P, nodes).code
\* The operands in order, then the node itself, whose value is a temporary.
Strict(P(_), n) ==
  LET got == InOrder(P, n.kids) IN Got(Append(got.code, Eval(n, Tmp(n), Range(got.vals))), Tmp(n))
\* The same by an assign_stmt with an operator.
Operation(P(_), n) ==
  LET got == InOrder(P, n.kids)
      all == Range(got.vals)
  IN  Got(Append(got.code, AssignStmt(IF Constant(n) THEN Move(Tmp(n), all) ELSE Eval(n, Tmp(n), all))), Tmp(n))
\* Operators between literals are computed by the parser.
Folded(P(_), n) == IF Constant(n) THEN Nothing ELSE Operation(P, n)
\* Both operands of && and || are evaluated.
BothOperands(P(_), n) ==
  LET got == InOrder(P, n.kids)
  IN  Got(Append(got.code, AssignStmt(Move(Tmp(n), Range(got.vals)))), Tmp(n))
\* The arguments come before the receiver.
ReceiverLast(P(_), n) ==
  LET got == InOrder(P, Append(Tail(n.kids), Head(n.kids)))
  IN  Got(Append(got.code, Eval(n, Tmp(n), Range(got.vals))), Tmp(n))
\* A new array or record, and each element evaluated before it is written.
Gathered(P(_), n, elems) ==
  Got(FoldLeft(LAMBDA code, e : LET got == P(e) IN Append(code \o got.code, Move(NoVar, {Tmp(n), got.val})),
               <<Move(Tmp(n), {})>>, elems), Tmp(n))
Converted(P(_), n) == LET e == P(n.kids[1]) IN Got(Append(e.code, Move(Tmp(n), {e.val})), Tmp(n))
Awaited(P(_), n) == LET e == P(n.kids[1]) IN Got(Append(e.code, Move(NoVar, {e.val})), e.val)
\* An if statement whose branches assign one temporary.
Chosen(P(_), n) ==
  LET test == P(n.kids[1])
      assign(got) == Append(got.code, AssignStmt(Move(Tmp(n), {got.val})))
  IN  Got(Append(test.code, Using(If(assign(P(n.kids[2])), assign(P(n.kids[3]))), test.val)), Tmp(n))
\* The operation is "if" and not if_stmt, and both assignments are in the
\* branch that is taken.
ChosenInOneBranch(P(_), n) ==
  LET test == P(n.kids[1])
      then == P(n.kids[2])
      else == P(n.kids[3])
      to(val) == AssignStmt(Move(Tmp(n), {val}))
  IN  Got(Append(test.code, Using(Stmt("ternary", <<then.code \o <<to(then.val), to(else.val)>>, else.code>>), test.val)),
          Tmp(n))

\* An assignment whose value comes first, then the target, which is read only
\* then.
ValueFirst(P(_), n) ==
  LET target == n.kids[1]
      value == P(n.kids[2])
      access == InOrder(P, target.kids)
      uses == Range(access.vals)
  IN  IF target.kind = "name"
      THEN Got(Append(value.code, AssignStmt(Eval(n, Named(target.name), {value.val}))), Named(target.name))
      ELSE IF n.kind = "assign"
      THEN Got(Append(value.code \o access.code, Eval(n, NoVar, uses \union {value.val})), value.val)
      ELSE Got(value.code \o access.code
                 \o <<Reading(n, Tmp2(n, 1), uses), AssignStmt(Move(Tmp2(n, 2), {Tmp2(n, 1), value.val})),
                      Eval(n, NoVar, uses \union {Tmp2(n, 2)})>>, Tmp2(n, 2))
\* ++ and --
Incremented(P(_), n) ==
  LET target == n.kids[1]
      access == InOrder(P, target.kids)
      uses == Range(access.vals)
  IN  IF target.kind = "name"
      THEN Got(<<AssignStmt(Eval(n, Named(target.name), {}))>>, Named(target.name))
      ELSE Got(access.code \o <<Reading(n, Tmp2(n, 1), uses), AssignStmt(Move(Tmp2(n, 2), {Tmp2(n, 1)})),
                                Eval(n, NoVar, uses \union {Tmp2(n, 2)})>>, Tmp2(n, 2))
\* l++ has the value before: a copy of a variable is made first.
CopiedFirst(P(_), n) ==
  LET target == n.kids[1]
  IN  IF target.kind # "name" THEN [Incremented(P, n) EXCEPT !.val = Tmp2(n, 1)]
      ELSE Got(<<Move(Tmp2(n, 1), {Named(target.name)}), Eval(n, Named(target.name), {})>>, Tmp2(n, 1))
\* What is incremented is the variable that the value is in.
CopyIncremented(P(_), n) ==
  LET value == P(n.kids[1])
      write == AssignStmt(Move(value.val, {value.val}))
  IN  Got(value.code \o <<AssignStmt(Move(Tmp2(n, 1), {value.val})),
                          IF n.kids[1].kind = "name" THEN [write EXCEPT !.of = n.at] ELSE write>>, Tmp2(n, 1))
\* [l, m] = r reads one element after the other into the variables.
TakenApart(P(_), n) ==
  LET value == P(n.kids[2])
      targets == n.kids[1].kids
      read(i) == LET pattern == P(targets[i])
                 IN  Append(pattern.code, [Eval(n, pattern.val, {value.val}) EXCEPT !.of = Append(n.at, -i)])
  IN  Got(value.code \o FlattenSeq([i \in DOMAIN targets |-> read(i)]), value.val)
Declared(P(_), n) ==
  LET value == P(n.kids[1])
  IN  IF Given(n.kids[1]) THEN Just(Append(value.code, AssignStmt(Eval(n, Named(n.name), {value.val})))) ELSE Nothing

(* Statements; a block is given by its node *)
CodeOf(P(_), b) == Code(P, b.kids)
Returned(P(_), n) == LET e == P(n.kids[1]) IN Got(Append(e.code, Using(Return, e.val)), e.val)
Thrown(P(_), n) == LET e == P(n.kids[1]) IN Just(Append(e.code, Using(Throw, e.val)))
Branched(P(_), n) ==
  LET test == P(n.kids[1])
  IN  Just(Append(test.code, Using(If(CodeOf(P, n.kids[2]), CodeOf(P, n.kids[3])), test.val)))
\* The code of the condition before the loop and again at the end of the body.
TestedTwice(P(_), n, else) ==
  LET test == P(n.kids[1])
  IN  Just(Append(test.code, Using(While(<<>>, CodeOf(P, n.kids[2]) \o test.code, else), test.val)))
\* The code of the condition in condition_prebody.
TestedFirst(P(_), n) ==
  LET test == P(n.kids[1]) IN Just(<<Using(While(test.code, CodeOf(P, n.kids[2]), <<>>), test.val)>>)
TestedLast(P(_), n) ==
  LET test == P(n.kids[2]) IN Just(<<Using(DoWhile(CodeOf(P, n.kids[1]), test.code), test.val)>>)
\* The condition at the end of the body.
TestedInside(P(_), n) ==
  LET test == P(n.kids[2]) IN Just(<<Using(DoWhile(CodeOf(P, n.kids[1]) \o test.code, <<>>), test.val)>>)
Counted(P(_), n) ==
  LET test == P(n.kids[2])
  IN  Just(<<Using(For(P(n.kids[1]).code, test.code, P(n.kids[3]).code, CodeOf(P, n.kids[4])), test.val)>>)
Iterated(P(_), n) ==
  LET e == P(n.kids[2]) IN Just(Append(e.code, Using(While(<<>>, CodeOf(P, n.kids[3]), <<>>), e.val)))
TriedInWith(P(_), catch(_), n) ==
  LET catches == [i \in DOMAIN n.kids[2].kids |-> catch(CodeOf(P, n.kids[2].kids[i].kids[1]))]
  IN  Just(<<Try(CodeOf(P, n.kids[1]), catches, CodeOf(P, n.kids[3]), CodeOf(P, n.kids[4]))>>)
TriedIn(P(_), n) == TriedInWith(P, Catch, n)
LabelFirst(P(_), n) == Just(<<Label(n.name)>> \o P(n.kids[1]).code)

\* A switch with the clauses C(clause), the code of the case values standing
\* before it or after it.
CaseValues(P(_), n) == Code(P, [i \in 1..(Len(n.kids) - 1) |-> n.kids[i + 1].kids[1]])
Clauses(C(_), n) == FlattenSeq([i \in 1..(Len(n.kids) - 1) |-> C(n.kids[i + 1])])
Clause(P(_), c) ==
  IF c.kind = "default" THEN <<Default(CodeOf(P, c.kids[2]))>>
  ELSE <<Using(Case(CodeOf(P, c.kids[2])), P(c.kids[1]).val)>>
\* A default without statements is dropped.
ClauseIfAny(P(_), c) == IF c.kind = "default" /\ c.kids[2].kids = <<>> THEN <<>> ELSE Clause(P, c)
ValuesAfter(P(_), C(_), n) ==
  LET e == P(n.kids[1]) IN Just(e.code \o <<Using(Switch(Clauses(C, n)), e.val)>> \o CaseValues(P, n))
ValuesBefore(P(_), C(_), n) ==
  LET e == P(n.kids[1]) IN Just(e.code \o CaseValues(P, n) \o <<Using(Switch(Clauses(C, n)), e.val)>>)

(* Classes *)

\* The default values of parameters stand in front of the body.
Params(P(_), n) == Code(LAMBDA p : P(p.kids[1]), n.kids[1].kids)
Function(P(_), n) == Method(n, Params(P, n) \o CodeOf(P, n.kids[2]))
\* The value of an expression is returned.
Anonymous(P(_), n) ==
  LET body == P(n.kids[2])
  IN  Got(<<IF n.kids[2].kind = "block" THEN Function(P, n)
            ELSE Method(n, Params(P, n) \o Append(body.code, Using(Return, body.val)))>>, MethodOf(n))
\* A block is parsed once for each of its statements.  "return" has no handler.
BodyRepeated(P(_), n) ==
  LET body == P(n.kids[2])
      all == IF n.kids[2].kind # "block" THEN body.code
             ELSE FlattenSeq([i \in DOMAIN n.kids[2].kids |-> body.code])
  IN  Got(<<Method(n, Append(all, Move(NoVar, {body.val})))>>, MethodOf(n))

\* The initializers of fields become the body of a method, in which each
\* assign_stmt is made a field_write of its target.
FieldWrite(s) == [s EXCEPT !.def = NoVar, !.of = IF s.def.name = "%vv" THEN <<>> ELSE @]
FieldWrites(code) == [i \in DOMAIN code |-> IF code[i].name = "assign" THEN FieldWrite(code[i]) ELSE code[i]]
WrittenField(P(_), m) ==
  LET value == P(m.kids[1]) IN IF Given(m.kids[1]) THEN Just(Append(value.code, Eval(m, NoVar, {value.val}))) ELSE Nothing
InitMethod(n, i, code) ==
  IF code = <<>> THEN <<>> ELSE <<[MethodDecl(code) EXCEPT !.def = Var("%mm", Append(n.at, -i))]>>
Members(n, kinds) == SelectSeq(n.kids, LAMBDA m : m.kind \in kinds)
\* Mutant: the methods of nested classes only.
ClassOfNested(methods, nested) == Stmt("class_decl", <<<<>>, <<>>, nested>>)
Class(methods, nested) == Stmt("class_decl", <<<<>>, methods, nested>>)
=============================================================================
