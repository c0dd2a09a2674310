----------------------------- MODULE ControlFlow -----------------------------
(***************************************************************************)
(* ControlFlowAnalysis.analyze: the control flow graph of a method is      *)
(* built once and saved.                                                   *)
(***************************************************************************)
EXTENDS CfgBuilder, ProgramFlow

CONSTANTS
  Programs,  \* the bodies of the methods, their parameter declarations in front
  NoCfg      \* the value of a graph that was not saved yet

ASSUME ProgramsAssumption == \A p \in Programs : IsProgram(p)

VARIABLES
  program,
  cfg        \* the saved graph: edges <<src, dst, kind>> in the order they were added
vars == <<program, cfg>>

Init == program \in Programs /\ cfg = NoCfg

\* ControlFlowAnalysis.analyze
Analyze ==
  /\ cfg = NoCfg
  /\ cfg' = CfgOf(program)
  /\ UNCHANGED program

Next == Analyze
Spec == Init /\ [][Next]_vars

-----------------------------------------------------------------------------
(* Properties *)

Built == cfg # NoCfg
Edges == Range(cfg)
Pairs == {<<e[1], e[2]>> : e \in Edges}
Nodes == {e[1] : e \in Edges} \union {e[2] : e \in Edges}
Catches == {s.at : s \in {t \in StmtsOf(program, Exit) : t.op = "catch"}}

\* The graph of a method is its flow: between the statements that may be
\* executed there is an edge exactly where control may pass, exceptions apart,
\* however loops, switches, branches and jumps are nested; an edge to a catch
\* clause comes from a statement that is in the try body.
GraphIsFlow ==
  Built /\ Regular(program) =>
    LET live == LiveIn(program)
        built == {e \in Pairs : e[1] \in live}
    IN  /\ {e \in built : e[2] \notin Catches} = {e \in FlowOf(program) : e[1] \in live}
        /\ {e \in built : e[2] \in Catches} \subseteq Raises(program)

\* The LOOP_BACK edges, which P2 and P3 leave out in the first round of a loop,
\* and the CONTINUE edges lead from inside the loop to its header, so what is
\* defined before the loop is not left out.  A for loop is the exception: the
\* edges that enter it are LOOP_BACK edges as well.
BackEdgesComeFromInside ==
  Built /\ Regular(program) =>
    \A e \in Edges : e[3] \in {"LOOP_BACK", "CONTINUE"} =>
      \E s \in StmtsOf(program, Exit) :
        s.at = e[2] /\ s.op \in Loops /\ (s.op = "for" \/ IsStrictPrefix(s.at, e[1]))

\* No statement that may be executed is left with no way on: pending breaks,
\* continues and last statements all find their target.
EveryStatementLeadsOn ==
  Built /\ (\A s \in StmtsOf(program, Exit) :
              /\ ~(s.op = "switch" /\ s.blocks[1] = <<>>)
              /\ ~(s.op = "while" /\ JumpsOut(s.blocks[3], {"break", "continue"})))
    => \A n \in Nodes \ {Exit} : \E e \in Edges : e[1] = n
==============================================================================
