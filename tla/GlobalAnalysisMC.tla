-------------------------- MODULE GlobalAnalysisMC --------------------------
(***************************************************************************)
(* Programs for GlobalAnalysis.                                            *)
(***************************************************************************)
EXTENDS GlobalAnalysis, TLC

CONSTANTS a, b, c

ThreeMethods == {a, b, c}

\* A program in which call(m) = the calls of m as <<number, callees>>.
Program(ca, cb, cc, bodies, entries) ==
  LET all == ca \union cb \union cc
  IN  [stmts   |-> (a :> {t[1] : t \in ca}) @@ (b :> {t[1] : t \in cb}) @@ (c :> {t[1] : t \in cc}),
       callees |-> [s \in {t[1] : t \in all} |-> (CHOOSE t \in all : t[1] = s)[2]],
       has_body |-> bodies, entry_points |-> entries]

\* a calls b twice, b calls c.
Twice == Program({<<1, {b}>>, <<2, {b}>>}, {<<3, {c}>>}, {}, ThreeMethods, {a})
\* a calls x.f(), which may be b or c; two entry points.
Candidates == Program({<<1, {b, c}>>}, {<<2, {c}>>}, {}, ThreeMethods, {a, b})
\* b and c call each other and a calls both.
Mutual == Program({<<1, {b}>>}, {<<2, {c}>>}, {<<3, {b}>>}, ThreeMethods, {a})
\* a calls itself and b, b calls a.
SelfCall == Program({<<1, {a, b}>>}, {<<2, {a}>>}, {}, ThreeMethods, {a})
\* a call of a may be a or b: three frames of a can wait for b.
SelfOrOther == Program({<<1, {a, b}>>}, {}, {}, ThreeMethods, {a})
\* a calls b and c, and c calls b, which has no body; two entry points share the
\* call in c.
Shared == Program({<<1, {b}>>, <<2, {c}>>}, {}, {<<3, {b}>>}, {a, c}, {a, c})

AllPrograms == {Twice, Candidates, Mutual, SelfCall, SelfOrOther, Shared}
=============================================================================
