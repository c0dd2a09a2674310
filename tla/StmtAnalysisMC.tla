--------------------------- MODULE StmtAnalysisMC ---------------------------
(***************************************************************************)
(* The graphs CfgBuilder builds for small methods, for StmtAnalysis.       *)
(***************************************************************************)
EXTENDS StmtAnalysis, SequencesExt

CONSTANTS x, y, m1, m2

TwoMethods == {m1, m2}

\* The numbering SimpleWorkList takes from networkx: the position of a node in
\* the reversed depth-first postorder of the graph, the children of a node in
\* the order their edges were added.
RECURSIVE VisitAll(_, _, _)
\* nx.dfs_postorder_nodes from each of the nodes in turn: what has been seen
\* and the nodes finished so far.
VisitAll(succ, nodes, acc) ==
  IF nodes = <<>> THEN acc
  ELSE LET n    == Head(nodes)
           kids == IF n \in DOMAIN succ THEN succ[n] ELSE <<>>
           sub  == VisitAll(succ, kids, [acc EXCEPT !.seen = @ \union {n}])
       IN  VisitAll(succ, Tail(nodes),
             IF n \in acc.seen THEN acc ELSE [sub EXCEPT !.post = Append(@, n)])

\* The statements without predecessor, util.find_cfg_first_nodes.
FirstNodes(succ) ==
  SetToSortSeq({s \in DOMAIN succ : \A p \in DOMAIN succ : s \notin Range(succ[p])}, <)

\* SimpleWorkList.__init__: an empty numbering when no node is an entry.
PriorityDict(succ) ==
  IF FirstNodes(succ) = <<>> THEN <<>>
  ELSE LET post == VisitAll(succ, <<FirstNodes(succ)[1]>>, [seen |-> {}, post |-> <<>>]).post
       IN  [n \in Range(post) |->
              Len(post) - (CHOOSE i \in DOMAIN post : post[i] = n)]

G == INSTANCE Gir
B == INSTANCE CfgBuilder

\* The order of the flattened statements, which is that of their ids.
Precedes(a, b) ==
  \/ B!IsStrictPrefix(a, b)
  \/ \E i \in DOMAIN a \intersect DOMAIN b : a[i] < b[i] /\ SubSeq(a, 1, i - 1) = SubSeq(b, 1, i - 1)

\* A method: its statements, the symbol each defines in their order, and
\* those that call f or create an object.
Method(p, def, calls) == [body |-> p, def |-> def, calls |-> calls, creates |-> {}]

\* The graph of a method, with its statements numbered in their order.
Numbered(m, edges) ==
  LET nodes == {e[1] : e \in Range(edges)} \union ({e[2] : e \in Range(edges)} \ {G!Exit})
      id(n) == IF n = G!Exit THEN Exit ELSE 1 + Cardinality({k \in nodes : Precedes(k, n)})
      seq   == [i \in 1..Cardinality(nodes) |-> CHOOSE n \in nodes : id(n) = i]
      succ  == [i \in DOMAIN seq |->
                  LET out == SelectSeq(edges, LAMBDA e : e[1] = seq[i])
                  IN  [j \in DOMAIN out |-> id(out[j][2])]]
  IN  [stmts |-> DOMAIN succ, succ |-> succ, def |-> m.def, calls |-> m.calls, creates |-> m.creates,
       effect |-> [s \in DOMAIN succ |-> IF s \in m.calls THEN {y} ELSE {}],
       loops |-> {id(s.at) : s \in {t \in G!StmtsOf(m.body, G!Exit) : t.op \in G!Loops /\ t.at \in nodes}},
       back |-> {<<id(e[1]), id(e[2])>> : e \in {d \in Range(edges) : d[3] = "LOOP_BACK"}},
       first |-> FirstNodes(succ), prio |-> PriorityDict(succ)]
GraphsOf(methods) ==
  LET built == {<<m, B!CfgOf(m.body)>> : m \in methods}
  IN  {Numbered(b[1], b[2]) : b \in built}

P == G!Plain
N == NoSymbol
Loop(block) == G!While(<<>>, block, <<>>)
\* 1 y = ..; 2 x = f(); 3 return g()
Straight == Method(<<P, P, G!Return>>, <<y, x, N>>, {2, 3})
\* 1 if: 2 x = .. else: 3 ..; 4 x = f();; 5 ..
Branch == Method(<<G!If(<<P>>, <<P, P>>), P>>, <<N, x, y, x, N>>, {4})
\* 1 if: 2 if: 3 x = .. else: 4 ..; 5 x = ..;; else 6 f();; 7 x = ..; 8 y = ..
Nested == Method(<<G!If(<<G!If(<<P>>, <<P, P>>)>>, <<P>>), P, P>>, <<N, N, x, N, x, N, y, y>>, {6})
\* 1 x = ..; 2 while: 3 f(x); 4 x = ..;; 5 use x
While == Method(<<P, G!While(<<>>, <<P, P>>, <<>>), P>>, <<x, N, N, x, N>>, {3})
\* 1 x = ..; 2 while: 3 new f(x); 4 x = ..;; 5 use x
WhileNew == [While EXCEPT !.creates = {3}]
\* 1 x = ..; 2 while: 3 if: 4 x = ..;; 5 y = f();; 6 use x
WhileIf == Method(<<P, G!While(<<>>, <<G!If(<<P>>, <<>>), P>>, <<>>), P>>, <<x, N, N, x, y, N>>, {5})
\* 1 x = ..; 2 do: 3 y = f();; 4 use x
DoWhile == Method(<<P, G!DoWhile(<<P>>, <<>>), P>>, <<x, N, y, N>>, {3})
\* 1 x = ..; 2 while: 3 if: 4 x = ..;; 5 use x: the edge from 3 that closes the
\* loop is weighted IF_FALSE, only that from 4 LOOP_BACK
IfTail == Method(<<P, G!While(<<>>, <<G!If(<<P>>, <<>>)>>, <<>>), P>>, <<x, N, N, x, N>>, {})
\* 1 for (2 x = ..; 3 c = f(); 4 x = ..) 5 ..; 6 use x: the only edge into 1,
\* from 3, enters the loop and is weighted LOOP_BACK
For == Method(<<G!For(<<P>>, <<P>>, <<P>>, <<P>>), P>>, <<N, x, N, x, N, N>>, {3})
\* 1 x = ..; 2 while: 3 while: 4 x = f();; 5 y = ..;; 6 use x
NestedWhile == Method(<<P, G!While(<<>>, <<G!While(<<>>, <<P>>, <<>>), P>>, <<>>), P>>, <<x, N, N, x, y, N>>, {4})
\* 1 x = ..; 2 while: 3 if: 4 x = ..; 5 continue;; 6 y = ..; 7 break;; 8 use x
Jumps == Method(<<P, G!While(<<>>, <<G!If(<<P, G!Continue>>, <<>>), P, G!Break>>, <<>>), P>>,
                <<x, N, N, x, N, y, N, N>>, {})
\* 1 x = ..; 2 label; 3 if: 4 x = ..; 5 goto 2;; 6 use x
Goto == Method(<<P, G!Label("a"), G!If(<<P, G!Goto("a")>>, <<>>), P>>, <<x, N, N, x, N, N>>, {})
\* 1 if: 2 y = ..; 3 if: 4 y = ..;;; 5 use y
LateBranch == Method(<<G!If(<<P, G!If(<<P>>, <<>>)>>, <<>>), P>>, <<N, y, N, y, N>>, {})
\* 1 try: 2 x = f(); 3 return; 4 catch: 5 ..;; 6 use x: 4 has no predecessor
TryReturn == Method(<<G!Try(<<P, G!Return>>, <<G!Catch(<<P>>)>>, <<>>, <<>>), P>>, <<N, x, N, N, y, N>>, {2})

\* 1 try: 2 return; 3 catch: for (4 ..; 5 x = ..; ..) ..: the first entry does not
\* reach 3, the statements from there on have priority 0, and the header of the loop
\* overtakes the code before it
TryFor == Method(<<G!Try(<<G!Return>>, <<G!Catch(<<G!For(<<P>>, <<P>>, <<P>>, <<P>>)>>)>>, <<>>, <<>>), P>>,
                 [i \in 1..9 |-> IF i = 5 THEN x ELSE N], {})
\* 1 x = ..; 2 while: 3 if: 4 x = f();; 5 while: 6 g();;; 7 use x: with 5 used up the
\* flag of 6 comes to 4
LostStep == Method(<<P, G!While(<<>>, <<G!If(<<P>>, <<>>), G!While(<<>>, <<P>>, <<>>)>>, <<>>), P>>,
                   <<x, N, N, x, N, N, N>>, {4, 6})
\* 1 x = ..; 2 while: 3 while: 4 while: 5 if: 6 x = .. else: 7 x = ..;;;; 8 x = ..;; 9 if: 10 ..:
\* pop() leaves 4 in the list, so 6 and 7 are analysed again with both definitions and
\* kill neither
DeepBranch == Method(<<P, Loop(<<Loop(<<Loop(<<G!If(<<P>>, <<P>>)>>)>>), P>>), G!If(<<P>>, <<>>)>>,
                     <<x, N, N, N, N, x, x, x, N, N>>, {})
\* 1 x = ..; 2 while: 3 while: 4 while: 5 y = ..; 6 f(): the header 4 reads what the
\* interrupted call 6 has not killed yet
DeepCall == Method(<<P, Loop(<<Loop(<<Loop(<<P, P>>)>>)>>)>>, <<x, N, N, N, y, N>>, {6})

\* Every choice of the statements that define x, in every one of the methods.
WithAnyDefs(methods) ==
  UNION {{[m EXCEPT !.def = d] : d \in [DOMAIN m.def -> {x, NoSymbol}]} : m \in methods}

AllGraphs ==
  GraphsOf({Straight, Branch, Nested, WhileNew, WhileIf, IfTail, For, NestedWhile, Jumps, Goto, LateBranch, TryReturn, TryFor, LostStep, DeepBranch,
            DeepCall}
             \union WithAnyDefs({While, DoWhile}))
OnlyWhile == GraphsOf({While})

Prelim == [phase |-> "prelim", max_round |-> 2]
Global == [phase |-> "global", max_round |-> 3]
AllModes == {Prelim, Global}
OnlyPrelim == {Prelim}
=============================================================================
