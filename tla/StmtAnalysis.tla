---------------------------- MODULE StmtAnalysis ----------------------------
(***************************************************************************)
(* P2PrelimSemanticAnalysis.analyze_stmts: the worklist loop that visits   *)
(* the statements of one method, with the reaching definitions it computes *)
(* (analyze_reachable_symbols, rerun_analyze_reachable_symbols) and its    *)
(* interruption by a call whose callee has no summary yet.  Phase P3 runs  *)
(* the same loop.  A definition is a triple <<symbol, statement, round>>:   *)
(* round 0 for the symbol the statement itself defines, the number of the  *)
(* round for one that the summary of a callee defines, as every round      *)
(* appends those to the symbol space again, under new indexes.             *)
(*                                                                         *)
(* frame.stmts_with_symbol_update is left out: the code fills it and never *)
(* reads it, so it decides nothing.                                        *)
(***************************************************************************)
EXTENDS Integers, Sequences, FiniteSets, Functions

-----------------------------------------------------------------------------
\* SimpleWorkList (common_structs.py): the statements a frame still has to visit.
\* The list is filled by heapq.heappush with pairs of a priority, which is the
\* reverse postorder number of the statement in the control flow graph, and the
\* statement, and emptied by list.pop(0), which removes the first element and,
\* unlike heappop, does not repair the heap.
EmptyWorkList == [work_list |-> <<>>, all_data |-> {}]

\* Python compares the pairs lexicographically.
Before(a, b) == a[1] < b[1] \/ (a[1] = b[1] /\ a[2] < b[2])

\* The positions on the way from the leaf n of a binary heap up to its root.
PathToRoot(n) ==
  LET above[k \in 0..n] == IF k = 0 THEN n ELSE above[k - 1] \div 2
  IN  {above[k] : k \in 0..n} \ {0}

\* heapq.heappush: x is appended and sifted up past the larger parents.
HeapPush(heap, x) ==
  LET n    == Len(heap) + 1
      path == PathToRoot(n)
      stop == CHOOSE p \in path :
                /\ p = 1 \/ ~Before(x, heap[p \div 2])
                /\ \A i \in path : i > p => Before(x, heap[i \div 2])
  IN  [i \in 1..n |-> IF i = stop THEN x
                      ELSE IF i \in path /\ i > stop THEN heap[i \div 2]
                      ELSE heap[i]]

\* What the list keeps of a statement: one that the numbering did not reach has
\* priority 0.
Entry(prio, item) == <<IF item \in DOMAIN prio THEN prio[item] ELSE 0, item>>

\* SimpleWorkList._add_with_priority.  An empty priority_dict (a graph without
\* an entry node) makes the list a plain queue.
AddOne(list, item, prio) ==
  IF item \in list.all_data THEN list
  ELSE [work_list |-> IF prio = <<>> THEN Append(list.work_list, Entry(prio, item))
                      ELSE HeapPush(list.work_list, Entry(prio, item)),
        all_data  |-> list.all_data \union {item}]

\* SimpleWorkList.add of an iterable.
Add(list, items, prio) ==
  LET added[n \in 0..Len(items)] ==
        IF n = 0 THEN list ELSE AddOne(added[n - 1], items[n], prio)
  IN  added[Len(items)]

Peek(list) == list.work_list[1][2]

\* SimpleWorkList.pop
Pop(list) == [work_list |-> Tail(list.work_list), all_data |-> list.all_data \ {Peek(list)}]

IsAvailable(list) == list.work_list # <<>>

-----------------------------------------------------------------------------
CONSTANTS
  Methods,     \* the callees that have no summary when the run begins
  Graphs,      \* the control flow graphs a run may be given (see IsGraph)
  Modes,       \* the configurations a run may have (see IsMode)
  NoSymbol     \* what a statement defines that defines nothing

Exit == -1

\* What ControlFlowAnalysis saves for a method: succ[s] in insertion order,
\* back = the edges weighted LOOP_BACK, loops = the LOOP_OPERATIONS, def[s] =
\* the symbol s defines, effect[s] = the external symbols that callees of the
\* call s define, creates = the calls that are neither a call_stmt nor an
\* object_call_stmt, prio = the numbering of the worklist, first = the statements
\* without predecessor.
IsGraph(g) ==
  /\ g.stmts \subseteq Nat \ {0} /\ IsFiniteSet(g.stmts)
  /\ DOMAIN g.succ = g.stmts /\ DOMAIN g.def = g.stmts /\ DOMAIN g.effect = g.stmts
  /\ \A s \in g.stmts : g.succ[s] \in Seq(g.stmts \union {Exit})
  /\ g.back \subseteq g.stmts \X g.stmts
  /\ g.calls \subseteq g.stmts /\ g.creates \subseteq g.calls /\ g.loops \subseteq g.stmts
  /\ \A s \in g.calls : s \notin Range(g.succ[s])
  /\ g.first \in Seq(g.stmts)
  /\ \A i \in DOMAIN g.prio : i \in Int /\ g.prio[i] \in Nat

\* analysis_phase_id and max_analysis_round.
IsMode(m) ==
  /\ m.phase \in {"prelim", "global"}
  /\ m.max_round \in Nat \ {0}

ASSUME MethodsAssumption == IsFiniteSet(Methods)
ASSUME GraphAssumption == \A g \in Graphs : IsGraph(g)
ASSUME ModeAssumption == \A m \in Modes : IsMode(m)

VARIABLES
  cfg, mode,         \* the graph and the configuration of this run
  wl,                \* frame.stmt_worklist
  stmt_counters,     \* frame.stmt_counters
  is_first_round,    \* frame.is_first_round
  in_symbol_bits, out_symbol_bits,         \* of stmt_id_to_status
  implicitly_defined_symbols,              \* of stmt_id_to_status
  interruption_flag, \* frame.interruption_flag
  unsolved,          \* the callees without a summary
  pc                 \* "running", "interrupted" (frames above run) or "done"

input == <<cfg, mode>>
bits == <<in_symbol_bits, out_symbol_bits, implicitly_defined_symbols>>
vars == <<input, wl, stmt_counters, is_first_round, bits, interruption_flag, unsolved, pc>>

Stmts == cfg.stmts
SuccOf(g, s) == Range(g.succ[s])
PredOf(g, s) == {p \in g.stmts : s \in SuccOf(g, p)}
ExplicitDef(g, s) == {g.def[s]} \ {NoSymbol}

Init ==
  /\ cfg \in Graphs /\ mode \in Modes
  /\ wl = Add(EmptyWorkList, cfg.first, cfg.prio)
  /\ stmt_counters = [s \in Stmts |-> 0]
  /\ is_first_round = [s \in Stmts |-> TRUE]
  /\ in_symbol_bits = [s \in Stmts |-> {}]
  /\ out_symbol_bits = [s \in Stmts |-> {}]
  /\ implicitly_defined_symbols = [s \in Stmts |-> {}]
  /\ interruption_flag = FALSE
  /\ unsolved = Methods
  /\ pc = "running"

-----------------------------------------------------------------------------
\* The predecessors whose out bits flow into s.  The header of a loop listens
\* to the code before the loop in its first round, to the back edges later.
Parents(s) ==
  {p \in PredOf(cfg, s) :
     s \in cfg.loops => (<<p, s>> \in cfg.back) = (stmt_counters[s] # 0)}

InBits(s) == UNION {out_symbol_bits[p] : p \in Parents(s)}

\* What s defines itself, and what the callees applied in its next round define
\* (symbol_id, stmt_id and, for the index, the round).  Of several callees that define
\* one symbol only the definition of the last, which kills the others, is kept.
ExplicitKeys(s) == {<<v, s, 0>> : v \in ExplicitDef(cfg, s)}
ImplicitKeys(s, symbols) == {<<v, s, stmt_counters[s] + 1>> : v \in symbols}

\* Mutant: the definitions are generated and none is killed.
DefineWithoutKill(current_bits, keys) == current_bits \union keys

\* update_current_symbol_bit for each of the keys that is not in the bits yet: the
\* other definitions of its symbol are killed and it is generated.
Define(current_bits, keys) ==
  LET fresh == keys \ current_bits
  IN  {d \in current_bits : \A k \in fresh : k[1] # d[1]} \union fresh

\* Mutant: the symbols a callee defines are forgotten in later rounds.
OutBitsExplicitOnly(s) == Define(InBits(s), ExplicitKeys(s))

\* The out bits analyze_reachable_symbols leaves; P2 returns early when the
\* in bits did not change since the previous round.
OutBits(s) ==
  IF mode.phase = "prelim" /\ ~is_first_round[s] /\ InBits(s) = in_symbol_bits[s]
  THEN out_symbol_bits[s]
  ELSE Define(Define(InBits(s), ExplicitKeys(s)), implicitly_defined_symbols[s])

\* The in and out bits after the symbol step, which the iteration that resumes
\* after an interruption skips.
ReachedIn(s)  == IF interruption_flag THEN in_symbol_bits[s] ELSE InBits(s)
ReachedOut(s) == IF interruption_flag THEN out_symbol_bits[s] ELSE OutBits(s)

Current == Peek(wl)
Analysable(s) == s \in Stmts /\ stmt_counters[s] < mode.max_round
\* Mutant: only the first of the successors is added.
WithFirstSuccessor(s) == Add(wl, SubSeq(cfg.succ[s], 1, 1), cfg.prio)
WithSuccessors(s) == Add(wl, cfg.succ[s], cfg.prio)

\* The head is the exit, or has used up its rounds: it is popped.
Drop ==
  /\ pc = "running" /\ IsAvailable(wl)
  /\ ~Analysable(Current)
  /\ wl' = Pop(wl)
  /\ UNCHANGED <<input, stmt_counters, is_first_round, bits, interruption_flag, unsolved, pc>>

\* complete_in_states_and_check_continue_flag: the handler of the statement runs in
\* the first round, and P3 runs that of a call_stmt or object_call_stmt in every
\* one.  Otherwise it depends on the states of the used symbols, which are left
\* out, and any later round may pass the handler over.
MustRun(s) == is_first_round[s] \/ (mode.phase = "global" /\ s \in cfg.calls \ cfg.creates)

\* Mutant: the counter of the statement is not advanced.
StepUncounted ==
  /\ pc = "running" /\ IsAvailable(wl)
  /\ Analysable(Current)
  /\ in_symbol_bits' = [in_symbol_bits EXCEPT ![Current] = ReachedIn(Current)]
  /\ wl' = Pop(WithSuccessors(Current))
  /\ interruption_flag' = FALSE
  /\ UNCHANGED <<input, stmt_counters, is_first_round, unsolved, pc>>

\* What every iteration that runs to its end does.  The successors are added before
\* the statement is analysed and pop() takes whatever is first by then.
Step ==
  /\ pc = "running" /\ IsAvailable(wl)
  /\ Analysable(Current)
  /\ in_symbol_bits' = [in_symbol_bits EXCEPT ![Current] = ReachedIn(Current)]
  /\ wl' = Pop(WithSuccessors(Current))
  /\ stmt_counters' = [stmt_counters EXCEPT ![Current] = @ + 1]
  /\ is_first_round' = [is_first_round EXCEPT ![Current] = FALSE]
  /\ interruption_flag' = FALSE
  /\ UNCHANGED <<input, unsolved, pc>>

\* The handler runs and applies the summaries of the callees found this time.
\* implicitly_defined_symbols is emptied before and holds what these define after,
\* which rerun_analyze_reachable_symbols then adds to the out bits.
Analyse ==
  /\ Step
  /\ \E applied \in SUBSET cfg.effect[Current] :
       /\ implicitly_defined_symbols' =
            [implicitly_defined_symbols EXCEPT ![Current] = ImplicitKeys(Current, applied)]
       /\ out_symbol_bits' =
            [out_symbol_bits EXCEPT ![Current] = Define(ReachedOut(Current), ImplicitKeys(Current, applied))]

\* continue_flag is False: compute_stmt_states returns before the handler, with what
\* it found in implicitly_defined_symbols.
PassOver ==
  /\ Step
  /\ ~MustRun(Current)
  /\ out_symbol_bits' = [out_symbol_bits EXCEPT ![Current] = ReachedOut(Current)]
  /\ UNCHANGED implicitly_defined_symbols

\* Mutant: the interrupted call is popped as if it had been analysed.
InterruptAndPop ==
  /\ pc = "running" /\ IsAvailable(wl)
  /\ Analysable(Current) /\ Current \in cfg.calls
  /\ \E rest \in SUBSET unsolved : rest # unsolved /\ unsolved' = rest
  /\ implicitly_defined_symbols' = [implicitly_defined_symbols EXCEPT ![Current] = {}]
  /\ wl' = Pop(WithSuccessors(Current))
  /\ interruption_flag' = TRUE
  /\ pc' = "interrupted"
  /\ UNCHANGED <<input, stmt_counters, is_first_round, in_symbol_bits, out_symbol_bits>>

\* One iteration whose handler runs and ends at a call of methods without a summary:
\* the frame is left with the call still in the worklist and frames for the callees,
\* and for the callees of those, run above it.  implicitly_defined_symbols has been
\* emptied for the handler and stays so.
Interrupt ==
  /\ pc = "running" /\ IsAvailable(wl)
  /\ Analysable(Current) /\ Current \in cfg.calls
  /\ \E rest \in SUBSET unsolved : rest # unsolved /\ unsolved' = rest
  /\ implicitly_defined_symbols' = [implicitly_defined_symbols EXCEPT ![Current] = {}]
  /\ in_symbol_bits' = [in_symbol_bits EXCEPT ![Current] = ReachedIn(Current)]
  /\ out_symbol_bits' = [out_symbol_bits EXCEPT ![Current] = ReachedOut(Current)]
  /\ wl' = WithSuccessors(Current)
  /\ interruption_flag' = TRUE
  /\ pc' = "interrupted"
  /\ UNCHANGED <<input, stmt_counters, is_first_round>>

\* The frames above are finished and analyze_method comes back to this one.
Resume ==
  /\ pc = "interrupted"
  /\ pc' = "running"
  /\ UNCHANGED <<input, wl, stmt_counters, is_first_round, bits, interruption_flag, unsolved>>

Finish ==
  /\ pc = "running" /\ ~IsAvailable(wl)
  /\ pc' = "done"
  /\ UNCHANGED <<input, wl, stmt_counters, is_first_round, bits, interruption_flag, unsolved>>

Next == Drop \/ Analyse \/ PassOver \/ Interrupt \/ Resume \/ Finish

\* The loop is sequential code that nothing blocks.
Spec == Init /\ [][Next]_vars /\ WF_vars(Next)

-----------------------------------------------------------------------------
\* The statements the edges lead to from a set, and not past those to avoid.
Walk(g, from, avoided) ==
  LET on[seen \in SUBSET g.stmts] ==
        seen \union ((UNION {SuccOf(g, s) : s \in seen}) \ (avoided \union {Exit}))
      step[n \in 0..Cardinality(g.stmts)] == IF n = 0 THEN from ELSE on[step[n - 1]]
  IN  step[Cardinality(g.stmts)]

Reachable(g) == Walk(g, Range(g.first), {})

\* The statements that control which never passes t does not leave.
Bypasses(g, t) ==
  {A \in SUBSET (g.stmts \ {t}) :
     Range(g.first) \ {t} \subseteq A /\ \A s \in A : SuccOf(g, s) \subseteq A \union {t, Exit}}

\* Every walk from an entry to s passes t first.
Dominates(g, t, s) == \E A \in Bypasses(g, t) : s \notin A

\* pop() removes a successor in place of the statement just analysed when it comes
\* before that statement in the list.
Overtakes(g, t, s) == t # s /\ Before(Entry(g.prio, t), Entry(g.prio, s))

\* Only headers of the loops around a statement overtake it.  It is not so where
\* the numbering does not reach: a statement there has priority 0, so its id decides.
WellNumbered(g) ==
  \A s \in g.stmts : \A t \in SuccOf(g, s) :
    Overtakes(g, t, s) => t # Exit /\ Dominates(g, t, s)

-----------------------------------------------------------------------------
\* Reference: the definitions that reach the end of a statement.
Makes(g, d) == d[1] \in IF d[3] = 0 THEN ExplicitDef(g, d[2]) ELSE g.effect[d[2]]

\* The statements that kill other definitions of v.  A callee defines it in some
\* rounds of the call and not in others.
Redefining(g, v) == {t \in g.stmts : v \in ExplicitDef(g, t)}

\* Those whose own definition comes back around a loop: found in the in bits it is
\* taken for made, and others that come with it are not killed.
Passing(g, v) ==
  LET all == Redefining(g, v)
      more[passed \in SUBSET all] ==
        passed \union {t \in all : \E s \in Walk(g, {t}, all \ passed) : t \in SuccOf(g, s)}
      step[n \in 0..Cardinality(all)] == IF n = 0 THEN {} ELSE more[step[n - 1]]
  IN  step[Cardinality(all)]

Reaches(g, d, s) ==
  /\ d[2] \in Reachable(g) /\ Makes(g, d)
  /\ s \in Walk(g, {d[2]}, Redefining(g, d[1]) \ Passing(g, d[1]))

-----------------------------------------------------------------------------
\* Although pop() may remove another statement than the one just analysed, no
\* statement the entry leads to is left out when analyze_stmts ends, if the graph is
\* well numbered.
EveryReachableStatementAnalysed ==
  pc = "done" /\ WellNumbered(cfg) => \A s \in Reachable(cfg) : ~is_first_round[s]

\* What is in the out bits of an analysed statement really reaches it: a walk leads
\* from the definition to it past no other one of the symbol, but those that find
\* themselves in their in bits (analyze_reachable_symbols).
NoSpuriousDefinition ==
  \A s \in Stmts : ~is_first_round[s] => \A d \in out_symbol_bits[s] : Reaches(cfg, d, s)

\* A header that a call leads back to, and that overtakes it, has used up its
\* rounds: an interruption at the call may drop it with the flag still set.
HeaderUsedUp ==
  /\ unsolved # Methods
  /\ \E c \in cfg.calls : \E h \in SuccOf(cfg, c) : Overtakes(cfg, h, c) /\ ~Analysable(h)

\* Once a statement has been analysed, each symbol that it defines itself, or that its
\* status lists as defined by its callees, has a definition made there in its out bits:
\* neither the early return of analyze_reachable_symbols, nor a round that passes the
\* handler over, nor one that an interruption cuts short makes the two differ.
OwnDefinitionsAvailable ==
  WellNumbered(cfg) /\ ~HeaderUsedUp =>
    \A s \in Stmts : ~is_first_round[s] =>
      \A v \in ExplicitDef(cfg, s) \union {k[1] : k \in implicitly_defined_symbols[s]} :
        \E d \in out_symbol_bits[s] : d[1] = v /\ d[2] = s

\* The iteration after an interruption skips the symbol step.  Whatever is at
\* the head of the work list by then has made that step, on the bits its
\* predecessors have now or in an earlier round.
SkippedStepWasDone ==
  /\ pc = "running" /\ interruption_flag /\ IsAvailable(wl) /\ Analysable(Current)
  /\ WellNumbered(cfg) /\ ~HeaderUsedUp
  => \/ ~is_first_round[Current]
     \/ Current \in cfg.calls /\ in_symbol_bits[Current] = InBits(Current)

\* Loops, re-added statements and interruptions do not keep analyze_stmts going
\* for ever.
RunEnds == <>(pc = "done")
=============================================================================
