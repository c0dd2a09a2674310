---------------------------- MODULE ProgramFlow ----------------------------
(***************************************************************************)
(* What the statements of a method may do, from the meaning the GIR gives  *)
(* them (docs/en/03.frontend/3-2.gir.md) and without regard to how the     *)
(* graph is built: the transfers of control from one statement to another, *)
(* top down, each statement being told where control goes after it.        *)
(***************************************************************************)
EXTENDS Gir

RECURSIVE EnterStmt(_, _)
\* What is executed first of a block after which k follows.
Enter(block, place, k) ==
  IF block = <<>> THEN k ELSE EnterStmt(block[1], Append(place, 1))
EnterStmt(s, at) ==
  LET to(n, next) == Enter(s.blocks[n], Append(at, n), next)
  IN  CASE s.op \in {"while", "while_true"} -> to(1, at)
        [] s.op \in {"dowhile", "for"} -> to(1, to(2, at))
        [] OTHER -> at

RECURSIVE EnterCase(_, _, _, _)
\* What follows in a switch when control falls through into case j.
EnterCase(cases, place, j, k) ==
  IF j > Len(cases) THEN k
  ELSE Enter(cases[j].blocks[1], place \o <<j, 1>>, EnterCase(cases, place, j + 1, k))

RECURSIVE StmtTransfers(_, _, _, _)
\* The transfers within a block after which k follows; env holds the method
\* and where a break, a continue and a return lead.
Transfers(block, place, k, env) ==
  UNION {StmtTransfers(block[j], Append(place, j),
                       IF j = Len(block) THEN k ELSE EnterStmt(block[j + 1], Append(place, j + 1)), env)
         : j \in DOMAIN block}
StmtTransfers(s, at, k, env) ==
  LET to(n, next)    == Enter(s.blocks[n], Append(at, n), next)
      in(n, next, e) == Transfers(s.blocks[n], Append(at, n), next, e)
      loop(next)     == [env EXCEPT !.brk = k, !.cont = next]
      from(tos)      == {<<at, t>> : t \in tos}
  IN  CASE s.op = "return" -> from({env.ret})
        [] s.op = "break" -> from({env.brk})
        [] s.op = "continue" -> from({env.cont})
        [] s.op = "goto" -> from({l.at : l \in LabelsOf(env.method, s.name)})
        [] s.op = "throw" -> {}
        [] s.op = "if" -> from({to(1, k), to(2, k)}) \union in(1, k, env) \union in(2, k, env)
        [] s.op \in {"while", "while_true"} ->
             from({to(2, to(1, at))} \union IF s.op = "while" THEN {to(3, k)} ELSE {})
               \union in(1, at, env) \union in(2, to(1, at), loop(to(1, at))) \union in(3, k, env)
        [] s.op = "dowhile" ->
             from({to(1, to(2, at)), k})
               \union in(1, to(2, at), loop(to(2, at))) \union in(2, at, env)
        [] s.op = "for" ->
             LET test == to(2, at)
                 step == to(3, test)
             IN  from({to(4, step), k}) \union in(1, test, env) \union in(2, at, env)
                   \union in(3, test, env) \union in(4, step, loop(step))
        [] s.op = "switch" ->
             LET cases == s.blocks[1]
                 case(j) == at \o <<1, j>>
                 fall(j) == EnterCase(cases, Append(at, 1), j, k)
             IN  from({case(j) : j \in DOMAIN cases})
                   \union (IF \E j \in DOMAIN cases : cases[j].op = "default" THEN {} ELSE from({k}))
                   \union {<<case(j), fall(j)>> : j \in DOMAIN cases}
                   \union UNION {Transfers(cases[j].blocks[1], Append(case(j), 1), fall(j + 1),
                                           [env EXCEPT !.brk = k]) : j \in DOMAIN cases}
        [] s.op = "try" ->
             LET after == to(4, k)
                 leaves(op) == \E n \in 1..3 : JumpsOut(s.blocks[n], {op})
                 \* Jumps out of the other blocks run the final block first.
                 inner == [env EXCEPT !.brk = to(4, @), !.cont = to(4, @), !.ret = to(4, @)]
                 ends  == {k} \union (IF leaves("break") THEN {env.brk} ELSE {})
                              \union (IF leaves("continue") THEN {env.cont} ELSE {})
                              \union (IF leaves("return") THEN {env.ret} ELSE {})
             IN  from({to(1, to(3, after))}) \union in(1, to(3, after), inner)
                   \union in(3, after, inner) \union UNION {in(4, e, env) : e \in ends}
                   \union UNION {StmtTransfers(s.blocks[2][j], at \o <<2, j>>, after, inner)
                                : j \in DOMAIN s.blocks[2]}
        [] s.op = "catch" -> from({to(1, k)}) \union in(1, k, env)
        [] s.op \in {"with", "class_decl"} ->
             from({to(1, to(2, k))}) \union in(1, to(2, k), env) \union in(2, k, env)
        [] OTHER -> from({k})

\* All that is executed in a try body may raise an exception that is caught.
Raises(p) ==
  UNION {{<<e.at, t.at \o <<2, j>>>> : e \in {t} \union StmtsOf(t.blocks[1], Append(t.at, 1)),
                                      j \in DOMAIN t.blocks[2]}
         : t \in {s \in StmtsOf(p, Exit) : s.op = "try"}}

FlowOf(p) == {e \in Transfers(p, Exit, Exit, [method |-> p, brk |-> Exit, cont |-> Exit, ret |-> Exit]) : e[1] # e[2]}
EntryOf(p) == Enter(p, Exit, Exit)

RECURSIVE Closure(_, _)
Closure(nodes, edges) ==
  LET more == nodes \union {e[2] : e \in {d \in edges : d[1] \in nodes}}
  IN  IF more = nodes THEN nodes ELSE Closure(more, edges)
\* The statements that may be executed.
LiveIn(p) == Closure({EntryOf(p)}, FlowOf(p) \union Raises(p)) \ {Exit}
=============================================================================
