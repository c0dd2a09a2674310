--------------------------- MODULE ControlFlowMC ---------------------------
(***************************************************************************)
(* The methods ControlFlow is checked on: every statement with each choice *)
(* of small blocks, every such statement inside each other one, and jumps  *)
(* three statements deep.                                                  *)
(***************************************************************************)
EXTENDS ControlFlow

Simple == {<<Plain>>, <<Plain, Return, Plain>>, <<Break>>, <<Plain, Continue>>}
Opt(blocks) == blocks \union {<<>>}
OptPlain == {<<>>, <<Plain>>}

Flat ==
  {If(t, e) : t, e \in Opt(Simple)}
    \union {While(c, b, e) : c \in OptPlain, b \in Opt(Simple), e \in {<<>>, <<Plain>>, <<Break>>}}
    \union {Forever(b) : b \in Simple}
    \union {DoWhile(b, c) : b \in Opt(Simple), c \in OptPlain}
    \union {For(i, c, u, b) : i, c, u \in OptPlain, b \in Opt(Simple)}
    \union {Switch(<<Case(b), Default(d)>>) : b, d \in Opt(Simple)}
    \union {Switch(<<>>), Switch(<<Case(<<>>), Case(<<Break>>)>>), Switch(<<Default(<<Plain>>), Case(<<Plain>>)>>)}
    \union {Try(b, cs, e, f) : b \in Simple, cs \in {<<Catch(c)>> : c \in Simple} \union {<<Catch(<<>>), Catch(<<Plain>>)>>},
                               e, f \in OptPlain}
    \union {With(<<Plain>>, b) : b \in Simple}
    \union {ClassDecl(<<Plain>>, <<MethodDecl(<<Return>>)>>), ClassDecl(<<>>, <<>>), MethodDecl(<<Return>>), Throw}

\* Statements around a block.
Around(b) ==
  {If(b, <<>>), If(<<Return>>, b), While(<<>>, b, <<>>), DoWhile(b, <<>>), For(<<>>, <<Plain>>, <<Plain>>, b),
   Switch(<<Case(b), Default(<<Plain>>)>>), Switch(<<Case(<<Break>>), Default(b)>>),
   Try(b, <<Catch(<<Plain>>)>>, <<>>, <<>>), Try(<<Plain>>, <<Catch(b)>>, <<>>, <<Plain>>)}
Nested == UNION {Around(<<s>>) \union Around(<<s, Plain>>) : s \in Flat}

\* Jumps out of two statements, inside a third one.
Jumps == UNION {Around(b) : b \in {<<Break>>, <<Continue>>, <<Return>>}}
Deep  == UNION {Around(<<t, Plain>>) : t \in UNION {Around(<<s>>) : s \in Jumps}}

Gotos == {<<Label("a"), Plain, s>> : s \in {If(<<Goto("a")>>, <<>>), While(<<>>, <<Plain, Goto("a"), Plain>>, <<>>)}}
           \union {<<If(<<Goto("a"), Plain>>, <<Plain>>), Plain, Label("a")>>}

AllPrograms ==
  {p \in {<<Plain, s, Plain>> : s \in Flat \union Nested \union Deep}
           \union {<<s>> : s \in Flat} \union Gotos : IsProgram(p)}
=============================================================================
