--------------------------------- MODULE Gir ---------------------------------
(***************************************************************************)
(* The statements of a method as trees.  A statement is a record of its    *)
(* operation and its blocks, in the order of the keys that the frontends   *)
(* give them; a block is a sequence of statements.  The flattener gives an *)
(* empty list no block (lang_analysis.py flatten_stmt), so an empty        *)
(* sequence is a missing block.  A place is the path to a statement or a   *)
(* block: the third statement of the second block of the first statement   *)
(* of the method is <<1, 2, 3>>.                                           *)
(***************************************************************************)
EXTENDS Integers, Sequences, FiniteSets

\* A variable of the source is its name; a temporary (%vv1, ...) is named after
\* the place in the source of what it holds.
Var(name, at) == [name |-> name, at |-> at]
NoVar == Var("", <<>>)

\* What a statement computes is kept where it matters (the frontends): the
\* place in the source of what it evaluates, the variable that it writes and
\* the variables that it reads.
Stmt(op, blocks) ==
  [op |-> op, name |-> "", of |-> <<>>, def |-> NoVar, use |-> {}, blocks |-> blocks]
Plain    == Stmt("plain", <<>>)      \* assign_stmt, call_stmt, parameter_decl, ...
Return   == Stmt("return", <<>>)
Break    == Stmt("break", <<>>)
Continue == Stmt("continue", <<>>)
Throw    == Stmt("throw", <<>>)
Goto(l)  == [Stmt("goto", <<>>) EXCEPT !.name = l]
Label(l) == [Stmt("label", <<>>) EXCEPT !.name = l]
If(then, else)                  == Stmt("if", <<then, else>>)
While(prebody, body, else)      == Stmt("while", <<prebody, body, else>>)
Forever(body)                   == Stmt("while_true", <<<<>>, body, <<>>>>)
DoWhile(body, prebody)          == Stmt("dowhile", <<body, prebody>>)
For(init, prebody, update, body) == Stmt("for", <<init, prebody, update, body>>)
Switch(cases)                   == Stmt("switch", <<cases>>)
Case(body)                      == Stmt("case", <<body>>)
Default(body)                   == Stmt("default", <<body>>)
Try(body, catches, else, final) == Stmt("try", <<body, catches, else, final>>)
Catch(body)                     == Stmt("catch", <<body>>)       \* catch_clause
CatchStmt(body)                 == Stmt("catch_stmt", <<body>>)
With(init, body)                == Stmt("with", <<init, body>>)
MethodDecl(body)                == Stmt("method_decl", <<body>>)
ClassDecl(init, methods)        == Stmt("class_decl", <<init, methods>>)

Loops == {"while", "while_true", "dowhile", "for"}

RECURSIVE StmtsOf(_, _)
\* All statements of the block at a place, each with its own place.
StmtsOf(block, place) ==
  UNION {LET at == Append(place, j)
             s  == block[j]
         IN  {[at |-> at, op |-> s.op, name |-> s.name, of |-> s.of, def |-> s.def, use |-> s.use, blocks |-> s.blocks]}
               \union UNION {StmtsOf(block[j].blocks[n], Append(at, n)) : n \in DOMAIN block[j].blocks}
         : j \in DOMAIN block}

\* The jumps that leave block n of a statement with this operation for the
\* statement itself.
CaughtBy(op, n) ==
  CASE op \in Loops /\ ~(op = "while" /\ n = 3) -> {"break", "continue"}
    [] op = "switch" -> {"break"}
    [] op = "method_decl" -> {"break", "continue", "return", "goto", "throw"}
    [] OTHER -> {}

RECURSIVE JumpsOut(_, _)
\* Does a jump with one of these operations leave the block?
JumpsOut(block, ops) ==
  \E j \in DOMAIN block :
    \/ block[j].op \in ops
    \/ \E n \in DOMAIN block[j].blocks :
         JumpsOut(block[j].blocks[n], ops \ CaughtBy(block[j].op, n))

\* The exit of a method, -1 in the graphs.
Exit == <<>>

LabelsOf(p, l) == {s \in StmtsOf(p, Exit) : s.op = "label" /\ s.name = l}

\* A method in which every jump has its target.
IsProgram(p) ==
  /\ p # <<>>
  /\ ~JumpsOut(p, {"break", "continue"})
  /\ \A s \in StmtsOf(p, Exit) : s.op = "goto" => LabelsOf(p, s.name) # {}
==============================================================================
