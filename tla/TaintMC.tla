------------------------------ MODULE TaintMC ------------------------------
(***************************************************************************)
(* Bodies of two source rows between the parameters a and b and two sinks, *)
(* in a line, in a loop and as the arms of a branch.  A row is lowered as  *)
(* the frontends do: what it computes goes to a temporary of its own.      *)
(***************************************************************************)
EXTENDS Taint

Names == {"a", "b"}
T(k) == <<"%1", "%2", "%3", "%4">>[k]

Param(v) == Stmt("parameter_decl", "parameter " \o v, v, <<>>)
Assign(v, uses) == Stmt("assign_stmt", "", v, uses)
Call(f, t, args) == Stmt("call_stmt", f, t, <<"">> \o args)
Method(f, t, r, args) == Stmt("object_call_stmt", f, t, <<r, "">> \o args)

Rows(k) ==
  {<<Assign(v[1], <<v[2]>>)>> : v \in {x \in Names \X Names : x[1] # x[2]}}
  \union {<<Call("f", T(k), <<v[2]>>), Assign(v[1], <<T(k)>>)>> : v \in Names \X Names}
  \union {<<Call("fresh", T(k), <<>>), Assign(v, <<T(k)>>)>> : v \in Names}
  \union {<<Method("b.read", T(k), "b", <<>>), Assign("b", <<T(k)>>)>>}
  \union {<<Assign(T(k), <<"a", "b">>), Assign("a", <<T(k)>>)>>}
  \union {<<Stmt("type_cast_stmt", "", T(k), <<v[2]>>), Assign(v[1], <<T(k)>>)>> : v \in Names \X Names}
  \union {<<Method("add", T(k), v[1], <<v[2]>>)>> : v \in Names \X Names}
  \union {<<Stmt("field_read", "", T(k), <<v[2], "">>), Assign(v[1], <<T(k)>>)>> : v \in Names \X Names}

Finals ==
  {<<Call("sink", T(3), <<"b">>), Method("exec", T(4), "a", <<"b">>)>>,
   <<Call("sink", T(3), <<"a">>), Method("run", T(4), "b", <<>>)>>}

Shapes == {"line", "loop", "branch"}

\* The state of the parameter a may have the number of the symbol b, or of the target
\* of a cast in the second row.
Twin(state, v) == [state |-> state, symbol |-> SymbolId(v)]
OfParameter == <<"", 1, 0>>
Twins == {Twin(NoId, "a"), Twin(OfParameter, "b"), Twin(OfParameter, "%2")}

Body(first, second, final, shape, twin) ==
  LET stmts == <<Param("a"), Param("b")>> \o first \o second \o final
      mid == 2 + Len(first)
      last == mid + Len(second)
      line == {<<i, i + 1>> : i \in 1..(Len(stmts) - 1)}
  IN [stmts |-> stmts,
      twin |-> twin,
      flow |-> CASE shape = "line" -> line
                 [] shape = "loop" -> line \union {<<last, 3>>, <<2, last + 1>>}
                 [] shape = "branch" -> (line \ {<<mid, mid + 1>>})
                                          \union {<<2, mid + 1>>, <<mid, last + 1>>}]

Reads(rows) == \E st \in ToSet(rows) : st.op = "field_read"

Casts(rows) == \E st \in ToSet(rows) : st.op = "type_cast_stmt"

\* The number matters only where a state is read as part of another; a line shows it.
Matters(first, second, twin) ==
  /\ Reads(first) \/ Reads(second)
  /\ twin.symbol = SymbolId("%2") => Casts(second)
MCBodies ==
  {b \in {Body(x[1], x[2], x[3], x[4], x[5]) :
             x \in {y \in Rows(1) \X Rows(2) \X Finals \X Shapes \X Twins :
                      y[5].state = NoId \/ (y[4] = "line" /\ Matters(y[1], y[2], y[5]))}} : Settles(b)}
=============================================================================
