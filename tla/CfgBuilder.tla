----------------------------- MODULE CfgBuilder -----------------------------
(***************************************************************************)
(* The pass of ControlFlowAnalysis (basics/control_flow.py) over the       *)
(* blocks of a method.  What a block leaves behind is the list of its last *)
(* statements, each with the kind of the edge that leaves it (CFGNode),    *)
(* and the break and continue statements that wait for the loop around     *)
(* them.  The names of break and continue are ignored, as in the code.     *)
(***************************************************************************)
EXTENDS Gir, SequencesExt, TLC

\* The blocks whose end is the boundary of a statement, for the operations
\* that have a handler.  A statement all of whose own blocks are missing has
\* the boundary -1.
OwnBlocks ==
  ("if" :> {1, 2}) @@ ("while" :> {2, 3}) @@ ("while_true" :> {2, 3}) @@ ("dowhile" :> {1})
    @@ ("for" :> {4}) @@ ("switch" :> {1}) @@ ("try" :> {1, 2, 3, 4})
    @@ ("method_decl" :> {1}) @@ ("class_decl" :> {1, 2})
    @@ ("return" :> {}) @@ ("break" :> {}) @@ ("continue" :> {})
Handled(s) == s.op \in DOMAIN OwnBlocks
Present(s) == {n \in OwnBlocks[s.op] : s.blocks[n] # <<>>}
EndsBlock(s) == Handled(s) /\ Present(s) = {}

\* The number of blocks the walk over the positions jumps over.
Skipped(s) == IF ~Handled(s) \/ EndsBlock(s) THEN 0 ELSE Max(Present(s))

RECURSIVE View(_, _)
\* The statements that stand at the positions of a block and that no handler
\* jumps over: blocks beyond the boundary are entered, and their two markers,
\* which share one id, are visited as statements.
View(block, place) ==
  FlattenSeq([j \in DOMAIN block |->
    LET s == [at |-> Append(place, j), op |-> block[j].op, blocks |-> block[j].blocks]
        inside(n) == LET b == Append(s.at, n)
                         marker == [at |-> b, op |-> "block", blocks |-> <<>>]
                     IN  IF s.blocks[n] = <<>> THEN <<>>
                         ELSE <<marker>> \o View(s.blocks[n], b) \o <<marker>>
    IN  <<s>> \o FlattenSeq([i \in 1..(Len(s.blocks) - Skipped(s)) |-> inside(Skipped(s) + i)])])

Node(at, kind) == [at |-> at, kind |-> kind]
Ends(at) == <<Node(at, "EMPTY")>>
\* CFGNode around each of the nodes: an edge kind they have already stays.
Tagged(nodes, kind) ==
  [i \in DOMAIN nodes |-> IF nodes[i].kind = "EMPTY" THEN Node(nodes[i].at, kind) ELSE nodes[i]]
Link(nodes, at) == [i \in DOMAIN nodes |-> <<nodes[i].at, at, nodes[i].kind>>]

\* What a piece of a method leaves: its edges, its last statements, and the
\* pending break and continue statements.
Left(edges, last, special) == [edges |-> edges, last |-> last, special |-> special]
Then(a, b) == Left(a.edges \o b.edges, b.last, a.special \o b.special)
Ending(r, last) == [r EXCEPT !.last = last]

Linked(s, prev) == Left(Link(prev, s.at), Ends(s.at), <<>>)
AnalyzeReturn(s, prev) == Left(Append(Link(prev, s.at), <<s.at, Exit, "RETURN">>), <<>>, <<>>)
AnalyzeJump(s, prev) == Left(Link(prev, s.at), <<>>, <<s>>)

Pending(special, op) == SelectSeq(special, LAMBDA s : s.op = op)
AllEnds(stmts) == [i \in DOMAIN stmts |-> Node(stmts[i].at, "EMPTY")]
\* Mutant: a break is left for the loop around this one.
CloseLoopKeepingBreaks(s, body) ==
  LET conts == Pending(body.special, "continue")
  IN  Left(body.edges \o Link(Tagged(body.last, "LOOP_BACK"), s.at)
             \o [i \in DOMAIN conts |-> <<conts[i].at, s.at, "CONTINUE">>],
           <<Node(s.at, "LOOP_FALSE")>>, Pending(body.special, "break"))
\* Mutant: the breaks are taken off the list and forgotten.
CloseLoopDroppingBreaks(s, body) == [CloseLoopKeepingBreaks(s, body) EXCEPT !.special = <<>>]

\* deal_with_last_stmts_of_loop_body
CloseLoop(s, body) ==
  LET conts == Pending(body.special, "continue")
  IN  Left(body.edges \o Link(Tagged(body.last, "LOOP_BACK"), s.at)
             \o [i \in DOMAIN conts |-> <<conts[i].at, s.at, "CONTINUE">>],
           AllEnds(Pending(body.special, "break"))
             \o (IF s.op = "while_true" THEN <<>> ELSE <<Node(s.at, "LOOP_FALSE")>>),
           <<>>)

RECURSIVE AnalyzeBlock(_, _)
Body(s, n, prev) == AnalyzeBlock(View(s.blocks[n], Append(s.at, n)), prev)

AnalyzeIf(s, prev) ==
  LET then == Body(s, 1, <<Node(s.at, "IF_TRUE")>>)
      else == Body(s, 2, <<Node(s.at, "IF_FALSE")>>)
  IN  Ending(Then(Then(Linked(s, prev), then), else), then.last \o else.last)

\* Mutant: what comes before the loop is linked with the ends of its body, as
\* it is for a for loop.
AnalyzeWhilePooled(s, prev) ==
  LET body == Body(s, 2, <<Node(s.at, "LOOP_TRUE")>>)
  IN  CloseLoop(s, Ending(body, body.last \o prev))

\* The else body is entered by LOOP_TRUE, and its pending jumps go to a list
\* that was emptied before and is not read again.
AnalyzeWhile(s, prev) ==
  LET loop == CloseLoop(s, Body(s, 2, <<Node(s.at, "LOOP_TRUE")>>))
      else == Body(s, 3, <<Node(s.at, "LOOP_TRUE")>>)
  IN  IF s.blocks[3] = <<>> THEN Then(Linked(s, prev), loop)
      ELSE Left(Link(prev, s.at) \o loop.edges \o else.edges, Front(loop.last) \o else.last, <<>>)

AnalyzeDoWhile(s, prev) == CloseLoop(s, Body(s, 1, Append(prev, Node(s.at, "LOOP_TRUE"))))

AnalyzeFor(s, prev) ==
  LET init == Body(s, 1, prev)
      cond == Body(s, 2, init.last)
      body == Body(s, 4, <<Node(s.at, "LOOP_TRUE")>>)
      upd  == Body(s, 3, body.last)
      next == IF body.last = <<>> THEN body
              ELSE Then(Then(body, upd), Body(s, 2, upd.last))
  IN  Then(Then(init, cond), CloseLoop(s, Ending(next, next.last \o cond.last)))

\* Each case is linked to the switch and takes over what falls through; the
\* pending jumps of all cases, continue included, end the switch.
AnalyzeSwitch(s, prev) ==
  LET add(r, c) == Then(Left(Append(r.edges, <<s.at, c.at, "EMPTY">>), <<>>, r.special),
                        Body(c, 1, Append(r.last, Node(c.at, "EMPTY"))))
      cases == FoldLeft(add, Left(Link(prev, s.at), <<>>, <<>>),
                        [j \in DOMAIN s.blocks[1] |->
                           [at |-> s.at \o <<1, j>>, blocks |-> s.blocks[1][j].blocks]])
  IN  Left(cases.edges, cases.last \o AllEnds(cases.special), <<>>)

AnalyzeTry(s, prev) ==
  LET body  == Body(s, 1, Ends(s.at))
      catch(r, c) ==
        LET b == IF c.op = "catch" THEN Body(c, 1, <<Node(c.at, "CATCH_TRUE")>>) ELSE Left(<<>>, <<>>, <<>>)
        IN  Left(r.edges \o Link(body.last, c.at) \o b.edges, r.last \o b.last, r.special \o b.special)
      caught == FoldLeft(catch, Left(<<>>, <<>>, <<>>),
                         [j \in DOMAIN s.blocks[2] |->
                            [at |-> s.at \o <<2, j>>, op |-> s.blocks[2][j].op, blocks |-> s.blocks[2][j].blocks]])
      else  == Body(s, 3, IF s.blocks[3] = <<>> THEN body.last ELSE Tagged(body.last, "CATCH_FALSE"))
      ends  == caught.last \o else.last
      final == Body(s, 4, IF s.blocks[4] = <<>> THEN ends ELSE Tagged(ends, "CATCH_FINALLY"))
  IN  Then(Then(Then(Then(Left(Link(prev, s.at), <<>>, <<>>), body), caught), else), final)

\* The fields are not visited.  A class in a method that has a static_init is
\* left out: its first statement is linked with the values in the row of the class
\* instead of a list of statements, and comparing a string with 0 raises.
AnalyzeClass(s, prev) ==
  LET init == Body(s, 1, Ends(s.at))
  IN  Then(Then(Linked(s, prev), init), Body(s, 2, init.last))

Handle(s, prev) ==
  CASE s.op = "if" -> AnalyzeIf(s, prev)
    [] s.op \in {"while", "while_true"} -> AnalyzeWhile(s, prev)
    [] s.op = "dowhile" -> AnalyzeDoWhile(s, prev)
    [] s.op = "for" -> AnalyzeFor(s, prev)
    [] s.op = "switch" -> AnalyzeSwitch(s, prev)
    [] s.op = "try" -> AnalyzeTry(s, prev)
    [] s.op = "return" -> AnalyzeReturn(s, prev)
    [] s.op \in {"break", "continue"} -> AnalyzeJump(s, prev)
    [] s.op = "class_decl" -> AnalyzeClass(s, prev)
    [] OTHER -> Linked(s, prev)

AnalyzeBlock(stmts, prev) ==
  IF stmts = <<>> THEN Left(<<>>, prev, <<>>)
  ELSE LET r == Handle(Head(stmts), prev)
       IN  IF EndsBlock(Head(stmts)) THEN r ELSE Then(r, AnalyzeBlock(Tail(stmts), r.last))

\* BasicGraph._add_one_edge: the first edge between two statements stays, and
\* there is none from a statement to itself.
Added(edges) ==
  LET add(r, e) == IF e[1] = e[2] \/ \E i \in DOMAIN r : r[i][1] = e[1] /\ r[i][2] = e[2]
                   THEN r ELSE Append(r, e)
  IN  FoldLeft(add, <<>>, edges)

\* Every goto leads to the labels of its name, and nowhere else.
WithGotos(p, edges) ==
  LET gotos == {s \in StmtsOf(p, Exit) : s.op = "goto"}
      jumps == UNION {{<<g.at, l.at, "NONE">> : l \in LabelsOf(p, g.name)} : g \in gotos}
  IN  SelectSeq(edges, LAMBDA e : e[1] \notin {g.at : g \in gotos}) \o SetToSeq(jumps)

CfgOf(p) ==
  LET body == AnalyzeBlock(View(p, Exit), <<>>)
  IN  WithGotos(p, Added(body.edges \o Link(body.last, Exit)))

\* Where the builder departs from the meaning of the statements.
BodyMissing(s) == EndsBlock(s) /\ OwnBlocks[s.op] # {}
Departs(s) ==
  \/ BodyMissing(s)                                               \* the rest of the block is dropped
  \/ s.op \in {"while", "while_true"} /\ s.blocks[1] # <<>>       \* condition_prebody is never read
  \/ s.op = "dowhile" /\ s.blocks[2] # <<>>                       \* and here follows the loop
  \/ s.op = "while" /\ JumpsOut(s.blocks[3], {"break", "continue"}) \* pending jumps are lost
  \/ s.op = "for" /\ JumpsOut(s.blocks[4], {"continue"})          \* update_body is jumped over
  \/ s.op = "switch" /\ JumpsOut(s.blocks[1], {"continue"})       \* taken for a break
  \/ s.op = "switch" /\ \A j \in DOMAIN s.blocks[1] : s.blocks[1][j].op # "default"
  \/ s.op = "try" /\ s.blocks[4] # <<>>                           \* final_body is jumped over
       /\ \E n \in 1..3 : JumpsOut(s.blocks[n], {"return", "break", "continue"})
  \/ s.op \in {"throw", "with"}                                   \* no handler
Regular(p) == \A s \in StmtsOf(p, Exit) : ~Departs(s)
=============================================================================
