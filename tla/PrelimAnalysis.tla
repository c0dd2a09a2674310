--------------------------- MODULE PrelimAnalysis ---------------------------
(***************************************************************************)
(* P2PrelimSemanticAnalysis.run and analyze_method: the bottom-up phase.   *)
(* Methods are analysed on a stack of frames; a call of methods that have  *)
(* not been analysed interrupts its frame and pushes a frame for each of   *)
(* them; a method that is finished leaves a summary its callers apply.     *)
(*                                                                         *)
(* Inside a frame only the call statements matter here.  They are visited  *)
(* in any order, each at least once and at most Rounds times, which is     *)
(* what StmtAnalysis shows of the statements the entry of a method leads   *)
(* to.  What a call resolves to follows from the states of the called      *)
(* name, which may grow from one round to the next, so a program says it   *)
(* for each round.  The content of a summary is the set of the methods     *)
(* whose effects are in it.                                                *)
(***************************************************************************)
EXTENDS Naturals, FiniteSets, Sequences, SequencesExt

(* BasicSemanticAnalysis.group_methods_by_callee_types: the order in which P2 takes *)
(* the methods, computed from the basic call graph.                                 *)

\* BASIC_CALL_GRAPH_NODE_KIND: what an edge leads to when the callee is not known.
DYNAMIC_METHOD == "DYNAMIC_METHOD"
ERROR_METHOD == "ERROR_METHOD"

NodesOf(edges) == {e[1] : e \in edges} \union {e[2] : e \in edges}
SuccessorsIn(edges, m) == {e[2] : e \in {f \in edges : f[1] = m}}

\* search_impacted_parent_nodes: the node and everything that leads to it, which is
\* the least set that holds the node and, with a target, the source of an edge.
Impacted(edges, node) ==
  {m \in NodesOf(edges) :
     \A closed \in SUBSET NodesOf(edges) :
       (node \in closed \/ node \notin NodesOf(edges))
         /\ (\A e \in edges : e[2] \in closed => e[1] \in closed)
       => m \in closed}

GroupMethods(edges, methods) ==
  LET dynamic       == Impacted(edges, DYNAMIC_METHOD)
      error         == Impacted(edges, ERROR_METHOD)
      dynamic_error == dynamic \union error
      leaves        == {m \in NodesOf(edges) : SuccessorsIn(edges, m) = {}}
      direct        == (UNION {SuccessorsIn(edges, m) : m \in dynamic_error}) \ dynamic_error
      mixed         == {m \in dynamic_error : SuccessorsIn(edges, m) \intersect direct # {}}
      has_calls     == (direct \ leaves) \union dynamic_error
  IN  [no_callees                 |-> methods \ has_calls,
       only_direct_callees        |-> direct \ leaves,
       mixed_direct_callees       |-> mixed,
       only_dynamic_callees       |-> (dynamic \ mixed) \ {DYNAMIC_METHOD},
       containing_dynamic_callees |-> dynamic \ {DYNAMIC_METHOD},
       containing_error_callees   |-> error \ {ERROR_METHOD}]

\* SimplyGroupedMethodTypes.get_methods_with_direct_call
MethodsWithDirectCall(groups) == groups.no_callees \union groups.only_direct_callees

\* Mutant: the methods that have both kinds of callees are commented out here too.
WithoutMixed(groups) == groups.only_dynamic_callees \union groups.containing_error_callees

\* SimplyGroupedMethodTypes.get_methods_with_dynamic_call
MethodsWithDynamicCall(groups) ==
  groups.mixed_direct_callees \union groups.only_dynamic_callees
    \union groups.containing_error_callees

-----------------------------------------------------------------------------
CONSTANTS
  Methods,     \* the method ids, and the class ids that calls resolve to
  Programs,    \* the programs a run may be given (see IsProgram)
  Rounds       \* MAX_ANALYSIS_ROUND_FOR_PRELIM_ANALYSIS

\* stmts[m] = the call statements of m, callees[s][n] = what P2 resolves the call
\* s to in its n-th round, kind[s] = how P1 classified it, has_cfg = the methods with
\* a control flow graph and a symbol state space.
IsProgram(p) ==
  /\ IsFiniteSet(DOMAIN p.callees)
  /\ p.stmts \in [Methods -> SUBSET DOMAIN p.callees]
  /\ \A m, n \in Methods : m # n => p.stmts[m] \intersect p.stmts[n] = {}
  /\ \A s \in DOMAIN p.callees : p.callees[s] \in [1..Rounds -> SUBSET Methods]
  /\ p.kind \in [DOMAIN p.callees -> {"direct", "dynamic", "error"}]
  /\ \A s \in DOMAIN p.callees : p.kind[s] = "direct" =>
       \E c \in Methods : \A n \in 1..Rounds : p.callees[s][n] = {c}
  /\ p.has_cfg \subseteq Methods
  /\ \A m \in Methods \ p.has_cfg : p.stmts[m] = {}

ASSUME MethodsAssumption ==
  IsFiniteSet(Methods) /\ DYNAMIC_METHOD \notin Methods /\ ERROR_METHOD \notin Methods
ASSUME RoundsAssumption == Rounds \in Nat \ {0}
ASSUME ProgramAssumption == \A p \in Programs : IsProgram(p)

VARIABLES
  program,      \* the program of this run
  groups,       \* the method groups P1 saved in the loader
  phase,        \* the list run() goes through: "direct", "dynamic", then "done"
  todo,         \* the methods of that list it has not come to
  frame_stack,  \* the ComputeFrameStack of analyze_method, bottom first
  analyzed,     \* analyzed_method_list
  summaries     \* the summary templates saved in the loader

input == <<program, groups>>
vars == <<input, phase, todo, frame_stack, analyzed, summaries>>

\* The edges call_stmt_def_use adds to the basic call graph; a method that
\* calls itself gets none.
CallsOfKind(p, m, kind) == {s \in p.stmts[m] : p.kind[s] = kind}

\* Everything a call resolves to, in one round or another.
FoundBy(p, s) == UNION {p.callees[s][n] : n \in 1..Rounds}

BasicCallGraph(p) ==
  UNION {{<<m, c>> : c \in (UNION {FoundBy(p, s) : s \in CallsOfKind(p, m, "direct")}) \ {m}}
           \union {<<m, DYNAMIC_METHOD>> : s \in CallsOfKind(p, m, "dynamic")}
           \union {<<m, ERROR_METHOD>> : s \in CallsOfKind(p, m, "error")} : m \in Methods}

OnStack == {frame_stack[i].method_id : i \in DOMAIN frame_stack}
Top == Last(frame_stack)
Below == Front(frame_stack)

\* Mutant: the new frame shares what the frame below it has collected.
NewFrameShared(m) ==
  [method_id       |-> m,
   has_been_inited |-> FALSE,
   stmt_counters   |-> [s \in program.stmts[m] |-> 0],
   passed_over     |-> [s \in program.stmts[m] |-> {}],
   effects         |-> {m} \union (IF frame_stack = <<>> THEN {} ELSE Top.effects)]

NewFrame(m) ==
  [method_id       |-> m,
   has_been_inited |-> FALSE,
   stmt_counters   |-> [s \in program.stmts[m] |-> 0],
   passed_over     |-> [s \in program.stmts[m] |-> {}],   \* history: the rounds passed over
   effects         |-> {m}]        \* the methods whose effects the frame has seen

Init ==
  /\ program \in Programs
  /\ groups = GroupMethods(BasicCallGraph(program), Methods)
  /\ phase = "direct"
  /\ todo = MethodsWithDirectCall(groups)
  /\ frame_stack = <<>>
  /\ analyzed = {}
  /\ summaries = <<>>

\* run() takes the next method of the list, in the order of a Python set.
TakeMethod(m) ==
  /\ frame_stack = <<>> /\ m \in todo
  /\ todo' = todo \ {m}
  /\ frame_stack' = IF m \in analyzed THEN <<>> ELSE <<NewFrame(m)>>
  /\ UNCHANGED <<input, phase, analyzed, summaries>>

TakeGroup ==
  /\ frame_stack = <<>> /\ todo = {} /\ phase # "done"
  /\ phase' = IF phase = "direct" THEN "dynamic" ELSE "done"
  /\ todo' = IF phase = "direct" THEN MethodsWithDynamicCall(groups) ELSE {}
  /\ UNCHANGED <<input, frame_stack, analyzed, summaries>>

-----------------------------------------------------------------------------
\* init_compute_frame
InitFrame ==
  /\ frame_stack # <<>> /\ ~Top.has_been_inited
  /\ Top.method_id \in program.has_cfg
  /\ frame_stack' = Append(Below, [Top EXCEPT !.has_been_inited = TRUE])
  /\ UNCHANGED <<input, phase, todo, analyzed, summaries>>

\* Mutant: a method without a control flow graph is not recorded.
InitFailsUnrecorded ==
  /\ frame_stack # <<>> /\ ~Top.has_been_inited
  /\ Top.method_id \notin program.has_cfg
  /\ frame_stack' = Below
  /\ UNCHANGED <<input, phase, todo, analyzed, summaries>>

\* init_compute_frame returns None: the method counts as analysed, without summary.
InitFails ==
  /\ frame_stack # <<>> /\ ~Top.has_been_inited
  /\ Top.method_id \notin program.has_cfg
  /\ analyzed' = analyzed \union {Top.method_id}
  /\ frame_stack' = Below
  /\ UNCHANGED <<input, phase, todo, summaries>>

Visitable(s) ==
  /\ frame_stack # <<>> /\ Top.has_been_inited
  /\ s \in program.stmts[Top.method_id]
  /\ Top.stmt_counters[s] < Rounds

\* What the call that is visited next resolves to.
CalleesNow(s) == program.callees[s][Top.stmt_counters[s] + 1]

\* Mutant: frame_stack.has_method_id is not asked.
UnsolvedAlsoOnStack(s) == CalleesNow(s) \ analyzed

\* callee_ids_to_be_analyzed
Unsolved(s) == {c \in CalleesNow(s) : c \notin analyzed /\ c \notin OnStack}

\* Mutant: only the first callee's summary is applied.
FirstApplied(s) ==
  LET applicable == CalleesNow(s) \intersect DOMAIN summaries
  IN  IF applicable = {} THEN {} ELSE summaries[CHOOSE c \in applicable : TRUE]

\* What the summaries of the callees bring in; a callee without summary is passed
\* over in silence.
Applied(s) == UNION {summaries[c] : c \in CalleesNow(s) \intersect DOMAIN summaries}

\* compute_target_method_states, all callees being analysed or under analysis.
VisitCall(s) ==
  /\ Visitable(s) /\ Unsolved(s) = {}
  /\ frame_stack' = Append(Below, [Top EXCEPT !.stmt_counters[s] = @ + 1,
                                              !.effects = @ \union Applied(s)])
  /\ UNCHANGED <<input, phase, todo, analyzed, summaries>>

\* compute_target_method_states, some callee being neither: analyze_method pushes
\* a frame for each of them, in the order of a Python set.
Interrupt(s) ==
  /\ Visitable(s) /\ Unsolved(s) # {}
  /\ \E order \in SetToSeqs(Unsolved(s)) :
       frame_stack' = frame_stack \o [i \in DOMAIN order |-> NewFrame(order[i])]
  /\ UNCHANGED <<input, phase, todo, analyzed, summaries>>

\* Mutant: the limit of rounds is not asked before a call is passed over.
PassOverUncapped(s) ==
  /\ frame_stack # <<>> /\ Top.has_been_inited
  /\ s \in program.stmts[Top.method_id] /\ Top.stmt_counters[s] > 0
  /\ frame_stack' = Append(Below, [Top EXCEPT !.stmt_counters[s] = @ + 1,
                                    !.passed_over[s] = @ \union {Top.stmt_counters[s] + 1}])
  /\ UNCHANGED <<input, phase, todo, analyzed, summaries>>

\* complete_in_states_and_check_continue_flag: after the first round the call is
\* handled only when the states of the names it uses are not those of the last time,
\* and an interrupted run of the handler counts as such.  The states are left out, so
\* any later round may be passed over, whether the call has been interrupted in it or
\* not: its callees are not asked for and no summary is applied.
PassOver(s) ==
  /\ Visitable(s) /\ Top.stmt_counters[s] > 0
  /\ frame_stack' = Append(Below, [Top EXCEPT !.stmt_counters[s] = @ + 1,
                                    !.passed_over[s] = @ \union {Top.stmt_counters[s] + 1}])
  /\ UNCHANGED <<input, phase, todo, analyzed, summaries>>

WithSummary(m, effects) ==
  [n \in DOMAIN summaries \union {m} |-> IF n = m THEN effects ELSE summaries[n]]

\* Mutant: a finished method is not recorded in analyzed_method_list.
FinishUnrecorded ==
  /\ frame_stack # <<>> /\ Top.has_been_inited
  /\ \A s \in program.stmts[Top.method_id] : Top.stmt_counters[s] > 0
  /\ summaries' = WithSummary(Top.method_id, Top.effects)
  /\ frame_stack' = Below
  /\ UNCHANGED <<input, phase, todo, analyzed>>

\* The work list is empty: generate_and_save_analysis_summary, then pop.
FinishMethod ==
  /\ frame_stack # <<>> /\ Top.has_been_inited
  /\ \A s \in program.stmts[Top.method_id] : Top.stmt_counters[s] > 0
  /\ analyzed' = analyzed \union {Top.method_id}
  /\ summaries' = WithSummary(Top.method_id, Top.effects)
  /\ frame_stack' = Below
  /\ UNCHANGED <<input, phase, todo>>

Next ==
  \/ \E m \in Methods : TakeMethod(m)
  \/ TakeGroup
  \/ InitFrame \/ InitFails
  \/ \E s \in DOMAIN program.callees : VisitCall(s) \/ Interrupt(s) \/ PassOver(s)
  \/ FinishMethod

\* The phase is one sequential loop that nothing blocks.
Spec == Init /\ [][Next]_vars /\ WF_vars(Next)

-----------------------------------------------------------------------------
Callees(p) == [m \in Methods |-> UNION {FoundBy(p, s) : s \in p.stmts[m]}]

\* What the calls of a method resolve to in their first round.
FirstCallees(p) == [m \in Methods |-> UNION {p.callees[s][1] : s \in p.stmts[m]}]

\* The methods the calls of m lead to, m included.
CallReach(p, m) ==
  {n \in Methods :
     \A closed \in SUBSET Methods :
       m \in closed /\ (\A k \in closed : Callees(p)[k] \subseteq closed) => n \in closed}

Acyclical(p) ==
  \A m \in Methods : \A c \in Callees(p)[m] : m \notin CallReach(p, c)

-----------------------------------------------------------------------------
Frames ==
  UNION {[method_id : {m}, has_been_inited : BOOLEAN,
          stmt_counters : [program.stmts[m] -> 0..Rounds],
          passed_over : [program.stmts[m] -> SUBSET (1..Rounds)], effects : SUBSET Methods] : m \in Methods}

\* Type invariant: no frame visits a call more often than Rounds.
TypeOK ==
  /\ IsProgram(program)
  /\ phase \in {"direct", "dynamic", "done"}
  /\ groups = GroupMethods(BasicCallGraph(program), Methods)
  /\ todo \subseteq Methods
  /\ frame_stack \in Seq(Frames)
  /\ analyzed \subseteq Methods
  /\ DOMAIN summaries \subseteq Methods
  /\ \A m \in DOMAIN summaries : summaries[m] \subseteq Methods

\* Recursion, calls with several candidates and frames waiting on the stack never
\* make a second frame for a method, nor one for a method already analysed
\* (analyzed_method_list, ComputeFrameStack.has_method_id).
OneFramePerMethod ==
  /\ \A i, j \in DOMAIN frame_stack :
       frame_stack[i].method_id = frame_stack[j].method_id => i = j
  /\ OnStack \intersect analyzed = {}

\* A summary holds effects of methods its method really calls, directly or not.
NoForeignEffect ==
  \A m \in DOMAIN summaries : m \in summaries[m] /\ summaries[m] \subseteq CallReach(program, m)

\* The rounds of the call s in which its handler ran to its end; the first one has to
\* be among them.
Handled(frame, s) == {1} \union ((1..frame.stmt_counters[s]) \ frame.passed_over[s])

\* What callees leave is in the summary of a method that ends in this step, for the
\* rounds that were handled.
FoldedInNow ==
  \A m \in DOMAIN summaries' \ DOMAIN summaries :
    \A s \in program.stmts[m] : \A n \in Handled(Top, s) :
      \A c \in program.callees[s][n] \intersect program.has_cfg :
        c \in OnStack \/ (c \in DOMAIN summaries /\ summaries[c] \subseteq summaries'[m])

\* A method leaves the stack only when the effects of every callee that a call found
\* in its first round, or in a later one that was not passed over, are in its summary,
\* unless the callee has no body or still waits for its turn below on the stack: the
\* frames that an interruption puts in between lose none of them (analyze_method,
\* compute_stmt_states, compute_target_method_states).  A callee found later whose
\* interrupted call is passed over when it is resumed is not in the summary.
CalleesAreFoldedIn == [][FoldedInNow]_vars

\* Bottom-up: the phase starts and summarises every method once, and summarises
\* none before all the callees that its calls find in their first round have at least
\* been put on the stack.
Bottom == INSTANCE BottomUp WITH
  callees <- FirstCallees(program),
  started <- analyzed \union OnStack,
  summarised <- analyzed
BottomUpSpec == Bottom!Spec

\* All functions are analysed, whatever the call graph says of them: the groups
\* run() goes through leave no method out, and each one that has a body ends with
\* a summary.
EveryMethodAnalysed ==
  phase = "done" => analyzed = Methods /\ DOMAIN summaries = program.has_cfg

\* Interruptions, recursion and the rounds of a call do not keep the phase going
\* for ever.
RunEnds == <>(phase = "done")

-----------------------------------------------------------------------------
\* The chapter on this phase: the summary of the callee is introduced into the
\* analysis of the caller.  So without recursion the summary of a method holds the
\* effects of everything it calls.
SummaryCoversCallees ==
  phase = "done" /\ Acyclical(program) =>
    \A m \in DOMAIN summaries : CallReach(program, m) \intersect program.has_cfg \subseteq summaries[m]
=============================================================================
