----------------------------- MODULE SourceRuns -----------------------------
(***************************************************************************)
(* What a program may do, by the meaning of its language and without       *)
(* regard to the frontends: the sequences in which it evaluates its calls, *)
(* operators, accesses and assignments, each named by its place.  A        *)
(* condition may go either way, a loop takes at most MaxIterations rounds. *)
(* Exceptions are those that the last evaluation of a try body may raise.  *)
(***************************************************************************)
EXTENDS SourceTree, FiniteSets

CONSTANT MaxIterations

Falls == {"c", "java", "javascript", "typescript", "arkts", "php"} \* a case falls through into the next one
TargetFirst == {"java", "javascript", "typescript", "arkts", "csharp", "go", "php"} \* o in o.f = e comes before e

\* A run ends normally or with a jump to a label.
End == <<"end", "">>
Run(trace, out) == [trace |-> trace, out |-> out]
Idle == {Run(<<>>, End)}
AndThen(R, S) ==
  {r \in R : r.out # End}
    \union {Run(r.trace \o s.trace, s.out) : r \in {q \in R : q.out = End}, s \in S}
Leave(R, out) == {[r EXCEPT !.out = IF @ = End THEN out ELSE @] : r \in R}
\* The runs that end in one of the given ways, as if they ended normally.
Resumed(R, outs) == {[r EXCEPT !.out = End] : r \in {q \in R : q.out \in outs}}

Evaluated == {"call", "methodcall", "binary", "unary", "typetest", "field", "index", "slice", "deref", "new"}

\* The body of a loop, with what comes after it but for a break.
Round(body, label, after) ==
  LET ends(jump) == {<<jump, "">>, <<jump, label>>}
      next == {End} \union ends("continue")
  IN  Resumed(body, ends("break"))
        \union {r \in body : r.out \notin next \union ends("break")}
        \union AndThen(Resumed(body, next), after)

\* From the test of a loop on, with at most k rounds to come.
RECURSIVE Rounds(_, _, _, _, _, _)
Rounds(test, body, step, else, label, k) ==
  AndThen(test, else)
    \union IF k = 0 THEN {}
           ELSE AndThen(test, Round(body, label, AndThen(step, Rounds(test, body, step, else, label, k - 1))))

RECURSIVE Runs(_, _)
\* The runs of nodes[i], nodes[i+1], ...
RECURSIVE RunsFrom(_, _, _)
RunsFrom(nodes, i, lang) ==
  IF i > Len(nodes) THEN Idle ELSE AndThen(Runs(nodes[i], lang), RunsFrom(nodes, i + 1, lang))

Event(n) == {Run(<<n.at>>, End)}
ReadEvent(n) == {Run(<<Append(n.at, 0)>>, End)}

\* The targets of an assignment are evaluated except for the last access.  C
\* leaves open what comes first.
Assigned(n, lang) ==
  LET target == RunsFrom(n.kids[1].kids, 1, lang)
      value  == Runs(n.kids[2], lang)
      read   == IF n.kind = "update" /\ n.kids[1].kind # "name" THEN ReadEvent(n) ELSE Idle
  IN  IF lang = "c" THEN AndThen(value, AndThen(target, AndThen(read, Event(n))))
      ELSE IF lang \in TargetFirst THEN AndThen(target, AndThen(read, AndThen(value, Event(n))))
      ELSE IF n.kind = "update" THEN AndThen(target, AndThen(read, AndThen(value, Event(n))))
      ELSE AndThen(value, AndThen(target, Event(n)))

\* What follows when case j of a switch is entered.
RECURSIVE Cases(_, _, _, _)
Cases(cases, j, falls, lang) ==
  IF j > Len(cases) THEN Idle
  ELSE LET body == Runs(cases[j].kids[2], lang)
       IN  IF falls THEN AndThen(body, Cases(cases, j + 1, falls, lang)) ELSE body
Switched(n, lang) ==
  LET cases == Tail(n.kids)
      falls == lang \in Falls /\ n.name \notin {"rule", "match"}
      left == {<<"break", "">>} \union IF lang = "php" THEN {<<"continue", "">>} ELSE {}
      tested(j) == RunsFrom([i \in 1..j |-> cases[i].kids[1]], 1, lang)
      defaults == {j \in DOMAIN cases : cases[j].kind = "default"}
      missed == IF defaults = {} THEN Idle ELSE Cases(cases, CHOOSE j \in defaults : TRUE, falls, lang)
      entered == UNION {AndThen(tested(j), Cases(cases, j, falls, lang)) : j \in DOMAIN cases \ defaults}
                   \union AndThen(tested(Len(cases)), missed)
      all == AndThen(Runs(n.kids[1], lang), entered)
  IN  {r \in all : r.out \notin left} \union Resumed(all, left)

\* A parallel assignment evaluates everything before it writes anything.
WrittenInParallel(n, lang) ==
  LET targets == n.kids[1].kids
      parts == FlattenSeq([i \in DOMAIN targets |-> targets[i].kids])
  IN  AndThen(RunsFrom(parts, 1, lang),
              AndThen(Runs(n.kids[2], lang), {Run([i \in DOMAIN targets |-> Append(n.at, -i)], End)}))

\* The runs R of a block go on after the label that they jump to, at most k times.
RECURSIVE WithJumps(_, _, _, _)
WithJumps(block, R, k, lang) ==
  LET labels == {i \in DOMAIN block.kids : block.kids[i].kind = "label"}
      to(i) == <<"goto", block.kids[i].name>>
  IN  {r \in R : \A i \in labels : r.out # to(i)}
        \union (IF k = 0 THEN {}
                ELSE UNION {AndThen(Resumed(R, {to(i)}), WithJumps(block, RunsFrom(block.kids, i, lang), k - 1, lang)) : i \in labels})

Tried(n, lang) ==
  LET body == Runs(n.kids[1], lang)
      raised == Resumed(body, {End, <<"throw", "">>})
      caught == UNION {AndThen(raised, Runs(c.kids[1], lang)) : c \in {n.kids[2].kids[i] : i \in DOMAIN n.kids[2].kids}}
      ended == AndThen({r \in body : r.out # <<"throw", "">>}, Runs(n.kids[3], lang)) \union caught
      final == Runs(n.kids[4], lang)
  IN  {Run(r.trace \o f.trace, IF f.out = End THEN r.out ELSE f.out) : r \in ended, f \in final}

\* The clauses of a comprehension from the i-th on, and its element last.
RECURSIVE Collected(_, _, _)
Collected(n, i, lang) ==
  IF i > Len(n.kids) THEN Runs(n.kids[1], lang)
  ELSE LET inner == Collected(n, i + 1, lang)
           clause == n.kids[i]
       IN  IF clause.kind = "each"
           THEN AndThen(Runs(clause.kids[1], lang), Rounds(Idle, inner, Idle, Idle, "", MaxIterations))
           ELSE AndThen(Runs(clause.kids[1], lang), Idle \union inner)

Runs(n, lang) ==
  LET of(i) == Runs(n.kids[i], lang)
      loop(test, body, step, else) == Rounds(test, body, step, else, n.name, MaxIterations)
  IN  CASE Constant(n) -> Idle
        [] n.kind \in Evaluated -> AndThen(RunsFrom(n.kids, 1, lang), Event(n))
        [] n.kind \in {"assign", "update"} -> Assigned(n, lang)
        [] n.kind = "incr" ->
             AndThen(RunsFrom(n.kids[1].kids, 1, lang), AndThen(IF n.kids[1].kind = "name" THEN Idle ELSE ReadEvent(n), Event(n)))
        [] n.kind \in {"declare", "member", "static"} -> IF Given(n.kids[1]) THEN AndThen(of(1), Event(n)) ELSE Idle
        [] n.kind \in {"and", "coalesce"} -> AndThen(of(1), Idle \union of(2))
        [] n.kind \in {"cond", "if", "unless"} -> AndThen(of(1), of(2) \union of(3))
        [] n.kind \in {"while", "until"} -> loop(of(1), of(2), Idle, of(3))
        [] n.kind = "do" -> Round(of(1), n.name, Rounds(of(2), of(1), Idle, Idle, n.name, MaxIterations - 1))
        [] n.kind = "for" ->
             AndThen(of(1), loop(of(2), of(4), of(3), IF Given(n.kids[2]) THEN Idle ELSE {}))
        [] n.kind = "foreach" -> AndThen(of(2), loop(Idle, of(3), Idle, of(4)))
        [] n.kind = "switch" -> Switched(n, lang)
        [] n.kind \in {"break", "continue"} -> {Run(<<>>, <<n.kind, n.name>>)}
        [] n.kind \in {"return", "throw", "exit"} -> Leave(of(1), <<n.kind, "">>)
        [] n.kind = "forever" -> loop(Idle, of(1), Idle, {})
        [] n.kind = "goto" -> {Run(<<>>, <<"goto", n.name>>)}
        [] n.kind = "block" -> WithJumps(n, RunsFrom(n.kids, 1, lang), MaxIterations, lang)
        [] n.kind = "parallel" -> WrittenInParallel(n, lang)
        [] n.kind = "defer" -> RunsFrom(n.kids[1].kids, 1, lang) \* the call itself comes at the end
        [] n.kind = "try" -> Tried(n, lang)
        [] n.kind = "label" ->
             LET inner == Runs([n.kids[1] EXCEPT !.name = n.name], lang)
             IN  {r \in inner : r.out # <<"break", n.name>>} \union Resumed(inner, {<<"break", n.name>>})
        [] n.kind = "collect" -> Collected(n, 2, lang)
        [] n.kind \in {"def", "lambda"} -> IF lang = "python" THEN of(1) ELSE Idle
        [] n.kind = "class" -> RunsFrom(SelectSeq(n.kids, LAMBDA m : m.kind \in {"def", "class"}), 1, lang)
        [] OTHER -> RunsFrom(n.kids, 1, lang)

\* A function begins with the default values of the arguments that it is not
\* given; those of Python are no part of it.
FunctionRuns(f, lang) ==
  LET param(R, p) == AndThen(R, Idle \union Runs(p.kids[1], lang))
      params == IF lang = "python" THEN Idle ELSE FoldLeft(param, Idle, f.kids[1].kids)
  IN  AndThen(params, Runs(f.kids[2], lang))

\* The runs that end, from the outside.
Traces(runs) == {r.trace : r \in {q \in runs : q.out \in {End, <<"return", "">>}}}
=============================================================================
