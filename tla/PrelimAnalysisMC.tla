-------------------------- MODULE PrelimAnalysisMC --------------------------
(***************************************************************************)
(* Programs for PrelimAnalysis.                                            *)
(***************************************************************************)
EXTENDS PrelimAnalysis

CONSTANTS a, b, c, d

AllMethods == {a, b, c, d}

\* A program in which call(m) = the calls of m as <<number, kind, callees>> or, with
\* other callees from the second round on, <<number, kind, callees, later callees>>.
Program(call, bodies) ==
  LET all == UNION {call[m] : m \in AllMethods}
      of(s) == CHOOSE t \in all : t[1] = s
  IN  [stmts   |-> [m \in AllMethods |-> {t[1] : t \in call[m]}],
       kind    |-> [s \in {t[1] : t \in all} |-> of(s)[2]],
       callees |-> [s \in {t[1] : t \in all} |-> [n \in 1..Rounds |->
                 IF n > 1 /\ Len(of(s)) > 3 THEN of(s)[4] ELSE of(s)[3]]],
       has_cfg |-> bodies]

Calls(ca, cb, cc, cd) == (a :> ca) @@ (b :> cb) @@ (c :> cc) @@ (d :> cd)

\* a calls x.f(), which may be b or c; c calls its super method b, and b a
\* function it was given, d.
Siblings == Program(Calls({<<1, "dynamic", {b, c}>>}, {<<2, "dynamic", {d}>>},
                          {<<3, "dynamic", {b}>>}, {}), AllMethods)
\* a calls b directly.
Ordered == Program(Calls({<<1, "direct", {b}>>}, {}, {}, {}), AllMethods)
\* b and c call each other, a calls both, and d itself.
Recursive == Program(Calls({<<1, "direct", {b}>>, <<2, "direct", {c}>>}, {<<3, "direct", {c}>>},
                           {<<4, "dynamic", {b, d}>>}, {<<5, "direct", {d}>>}), AllMethods)
\* a has direct and dynamic callees, one of them a class without a body; the call
\* in c resolves to nothing, that in d only in P2.
Mixed == Program(Calls({<<1, "direct", {b}>>, <<2, "dynamic", {c, d}>>}, {},
                       {<<3, "error", {}>>}, {<<4, "error", {b}>>}), AllMethods \ {b})
\* The call of a in a loop finds c too in its second round, which may be analysed by
\* then or not; that of b finds c, which calls b in its first round and a in its second.
Growing == Program(Calls({<<1, "dynamic", {b}, {b, c}>>}, {<<2, "direct", {d}>>},
                         {<<3, "dynamic", {d}>>}, {}), AllMethods)
GrowingBack == Program(Calls({<<1, "direct", {b}>>}, {<<2, "dynamic", {}, {c, d}>>},
                             {<<3, "dynamic", {b}, {a, d}>>}, {}), AllMethods)
\* Every way in which three of the methods may call each other once.
Small ==
  {Program(Calls({<<1, "dynamic", s>>}, {<<2, "direct", t>>}, {<<3, "dynamic", u>>}, {}), AllMethods) :
     s \in {{b}, {b, c}}, t \in {{a}, {c}, {d}}, u \in {{a, b}, {b, d}, {}}}

AllPrograms == {Siblings, Ordered, Recursive, Mixed, Growing, GrowingBack} \union Small
OnlySiblings == {Siblings}
=============================================================================
