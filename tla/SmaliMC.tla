------------------------------ MODULE SmaliMC ------------------------------
(***************************************************************************)
(* Methods as baksmali writes them: instructions, then the handlers of     *)
(* exceptions, then the data of switches and arrays.                       *)
(***************************************************************************)
EXTENDS Smali

\* A part of a method: its instructions, and what comes at the end.  Labels are
\* numbered, k is the next number.
Part(code, handlers, data) == [code |-> code, handlers |-> handlers, data |-> data]
Only(code) == Part(code, <<>>, <<>>)
I(kind) == Item(kind, <<>>)
L(x, k) == Item("label", <<<<x, k>>>>)
Simple == {Only(<<I("move")>>), Only(<<I("invoke"), I("result")>>), Only(<<I("filled"), I("result")>>),
           Only(<<I("const"), I("nop"), I("binary")>>)}
IfSkip(p, k)  == Part(<<Item("if", <<<<"cond", k>>>>)>> \o p.code \o <<L("cond", k)>>, p.handlers, p.data)
IfElse(p, k) ==
  Part(<<Item("if", <<<<"cond", k>>>>), I("const"), Item("goto", <<<<"goto", k>>>>), L("cond", k)>>
         \o p.code \o <<L("goto", k)>>, p.handlers, p.data)
LoopBack(p, k) == Part(<<L("goto", k)>> \o p.code \o <<Item("if", <<<<"goto", k>>>>)>>, p.handlers, p.data)
Catch1(p, k, kind) ==
  Part(<<L("try_start", k)>> \o p.code \o <<L("try_end", k), Item(kind, <<<<"try_start", k>>, <<"try_end", k>>, <<"catch", k>>>>)>>
         \o <<I("move")>>,
       p.handlers \o <<L("catch", k), I("exception"), I("return")>>, p.data)
\* Two classes are caught in one range.
Catch2(p, k) ==
  Part(<<L("try_start", k)>> \o p.code \o <<L("try_end", k), Item("catch", <<<<"try_start", k>>, <<"try_end", k>>, <<"catch", k>>>>),
         Item("catch", <<<<"try_start", k>>, <<"try_end", k>>, <<"catch", k>>>>)>>,
       p.handlers \o <<L("catch", k), I("exception"), I("throw")>>, p.data)
SwitchTo(p, k) ==
  Part(<<Item("switch", <<<<"pswitch_data", k>>>>)>> \o p.code \o <<L("pswitch", k), I("move")>>, p.handlers,
       p.data \o <<L("pswitch_data", k), Item("cases", <<<<"pswitch", k>>>>)>>)
Fill(k) == Part(<<I("move"), Item("fill", <<<<"array", k>>>>)>>, <<>>, <<L("array", k), I("data")>>)

Wrapped(P, k) ==
  {IfSkip(p, k) : p \in P} \union {IfElse(p, k) : p \in P}
    \union {LoopBack(p, k) : p \in P} \union {Catch1(p, k, "catch") : p \in P}
    \union {Catch1(p, k, "catchall") : p \in P} \union {SwitchTo(p, k) : p \in P}
Parts(k) == Simple \union {Fill(k)} \union Wrapped(Simple \union {Fill(k)}, k) \union {Catch2(p, k) : p \in Simple}
Deep(k) == Wrapped(Wrapped({Only(<<I("move")>>), Only(<<I("invoke"), I("result")>>), Fill(k + 2)}, k + 1), k)

Body(ps) ==
  FlattenSeq([i \in DOMAIN ps |-> ps[i].code]) \o <<I("return")>>
    \o FlattenSeq([i \in DOMAIN ps |-> ps[i].handlers]) \o FlattenSeq([i \in DOMAIN ps |-> ps[i].data])

Backwards(ps) ==
  FlattenSeq([i \in DOMAIN ps |-> ps[i].code]) \o <<I("return")>> \o ps[2].data \o ps[1].data

First == {Only(<<I("invoke"), I("result")>>), Catch1(Only(<<I("move")>>), 1, "catch"), SwitchTo(Fill(2), 1)}
\* All other instructions.
Others ==
  Only([i \in 1..19 |-> I(<<"cast", "instanceof", "length", "newinstance", "newarray", "filled", "cmp", "aget", "aput", "rsub",
                          "unary", "addr2", "iput", "iget", "sput", "sget", "local", "endlocal", "restart">>[i])])
\* What stands before the instructions.
Annotated(body) == <<I("param"), I("annotation"), I("param"), I("nop"), I("annotation")>> \o body
AllClasses ==
  {<<Annotated(Body(<<p>>)), Annotated(Body(<<q>>))>> : p \in First, q \in {Fill(3), SwitchTo(Fill(4), 3), Catch1(Fill(4), 3, "catch")}} \union
  {<<Body(<<f>>)>> : f \in {Others, LoopBack(Others, 1), Catch1(Others, 1, "catch")}} \union
  {<<Body(<<p, q>>)>> : p \in Parts(1), q \in Parts(2)} \union {<<Body(<<p>>)>> : p \in Deep(1)}
    \union {<<Backwards(<<p, q>>)>> : p \in {Fill(1), SwitchTo(Fill(3), 1)}, q \in {Fill(2), SwitchTo(Fill(4), 2)}}
    \union {<<Body(<<p>>), Body(<<q>>)>> : p \in First, q \in Parts(3)}
\* Two methods, each with a switch; that of the second has a case more.
TwoCases ==
  Part(<<Item("switch", <<<<"pswitch_data", 1>>>>), L("pswitch", 1), I("move"), L("pswitch", 2), I("move")>>, <<>>,
       <<L("pswitch_data", 1), Item("cases", <<<<"pswitch", 1>>, <<"pswitch", 2>>>>)>>)
TwoSwitches ==
  {<<Body(<<SwitchTo(p, 1)>>), Body(<<q>>)>> : p \in Simple, q \in {SwitchTo(r, 1) : r \in Simple} \union {TwoCases}}
=============================================================================
