# Lian in TLA+

Lian is a static analyser for programs in many languages. It translates source
files to one intermediate form (GIR), finds out what the names in them mean (P1),
and runs two semantic phases: P2 analyses every method bottom-up and leaves a
summary for its callers, P3 walks the calls top-down from the entry points. On
the graph that P3 leaves, the taint analysis looks for flows from sources to sinks.
What the phases compute is kept by loaders that write it to disk in bundles.

This directory models the control of these parts. Paths below are relative to
`src/src/lian/`, those of documents to `src/`.

## 1. The system

| Component | State it keeps | Operations | Used by |
|---|---|---|---|
| Preparation (`preparation.py`) | module table | scan the workspace | main, first |
| Frontends (`lang/*_parser.py`, `lang/common_parser.py`) | counter of temporaries, GIR of the unit; Smali: tables of the Python module | one handler for each kind of node | main |
| Events (`events/`) | handler lists | hoist declarations, add `%unit_init`, ... | frontends, P2, P3 |
| Statement ids (`lang/lang_analysis.py`) | counter | flatten a unit into rows | main |
| Scopes, imports, types (`basics/scope_hierarchy.py`, `import_hierarchy.py`, `type_hierarchy.py`) | scopes of a unit, import graph, type graph | one pass over the units each | P1 |
| Resolver (`core/resolver.py`) | nothing | find the declaration of a name, the classes of a name | P1 to P3 |
| Definitions and uses (`basics/stmt_def_use_analysis.py`) | ids of undeclared names, status of each statement | one case for each GIR operation | P1 |
| Control flow graphs (`basics/control_flow.py`) | graph, pending break/continue/goto | one handler for each kind of statement | P1 |
| Statement worklist, reaching definitions (`common_structs.py` SimpleWorkList, `core/prelim_semantics.py` analyze_stmts) | heap and set of the list, rounds of each statement, in and out bits, interruption flag | visit, drop, interrupt, resume | P2 and P3, one per frame |
| P2 (`core/prelim_semantics.py`, `basics/basic_analysis.py`, `core/stmt_states.py`) | method groups, frame stack, analysed methods, summaries | take a method, start a frame, visit a call, interrupt, finish | main |
| P3 (`core/global_semantics.py`, `core/global_stmt_states.py`) | frame stack, call site counter, call paths, summary instances | the same along call paths | main |
| Call paths (`common_structs.py` PathTrie, PathManager) | trie, terminal marks, two sets of paths | add_path | P3, taint analysis |
| Taint analysis (`taint/`) | tags of symbols and of states, worklist | propagation over the state flow graph | main, last |
| Storage (`util/loader.py` GeneralLoader, `util/util.py` LRUCache) | active bundle, index, two caches, files | get, save, remove, export, restore | every phase, incremental runs |
| Statement states (`core/stmt_states.py`), entry points, externs, dumps, incremental checker | abstract states, sets of methods | | P1 to P3 |

The program is sequential. What is hard in it is the order things happen in:

- frontends emit code where they stand: a condition before the loop and at the end
  of its body, a temporary in two branches, a try around statements that are out
  already;
- names are resolved by passes that depend on each other's tables while these
  are filled, in the order of a directory scan and of Python sets;
- frames interrupt each other: a frame is left in the middle of a call, others
  run above it, and it goes on with what it knew before;
- the order of a heap that is popped as a list decides what is analysed first;
- limits (rounds of a statement, cycles in a path, visits of a call site, tags
  that are there already) are all that ends a phase, and they cut things off that
  nobody meant;
- caches keep what has been saved again, default values and module variables
  outlive the call, and a run may die between a bundle and the index that leads
  to it.

`PROJECT.json` lists these hazards at their lines, with the properties that
watch them.

What makes each component correct:

- *Frontends*: the paths of the graph are the runs of the program; a function
  becomes one method; a temporary is written before it is read.
- *Smali*: the flow, the protected ranges and the values of the instructions are
  those of the source, though directives come late.
- *Scopes, imports, types*: a use has the id of the declaration that the rules of
  its language give it, an import that of the definition itself, and a class all
  the members above it.
- *Control flow graphs*: an edge exactly where control may pass; each statement leads
  on; the kinds of edges tell loops' entries from their back edges.
- *Worklist*: nothing reachable is left out, nothing is computed that cannot
  reach, it ends.
- *P2*: each method once, no nesting under recursion, callees before callers,
  no effect from a method that is not called.
- *P3*: the stack is a chain of calls, recursion is bounded, no call is passed
  over without a reason, all walked paths are in the result.
- *Call paths*: exactly the maximal ones are kept.
- *Taint*: what depends on a source is reported, nothing else is, and it ends.
- *Storage*: what was saved is read, now and after a restart.

## 2. The modules

| Module | What it is | Code |
|---|---|---|
| `SourceTree` | syntax trees as the frontends get them, one kind of node for what the grammars name differently | tree-sitter |
| `SourceRuns` | reference: what a program evaluates, in which order, by the meaning of its language (RECURSIVE) | |
| `Lowering` | what the handlers share: emitting statements, temporaries named by their node, forms that many languages lower alike | `lang/common_parser.py` and the parsers |
| `PythonParser`, `JavaParser`, `JavascriptParser`, `CParser`, `GoParser`, `PhpParser`, `CsharpParser`, `TypescriptParser`, `RubyParser` | one operator for each handler (RECURSIVE) | `lang/<language>_parser.py` |
| `Frontends` | a file on its way: its statements are parsed one by one, the rest becomes `%unit_init`, each method gets its graph | `lang/common_parser.py`, `events/default_event_handlers/basic.py` |
| `Smali` | a class of Smali: one action for each kind of instruction or directive, with the tables of the module | `lang/smali_parser.py` |
| `Scopes` | from the statements of a unit to its scopes: hoisting, numbering, `%unit_init`, discovery, correction, visibility, the nearest declaration | `add_var_decl.py`, `lang_analysis.py`, `scope_hierarchy.py`, `resolver.py` |
| `Names` | a project: scan, scopes, public symbols, imports, classes, and the ids that statements define and use | `preparation.py`, `basic_analysis.py`, `import_hierarchy.py`, `type_hierarchy.py`, `stmt_def_use_analysis.py` |
| `Gir` | statements of a method as trees, their places as paths | `lang/lang_analysis.py` 113-182 |
| `CfgBuilder` | the handlers of ControlFlowAnalysis, as operators from a block and what precedes it to edges, last statements and pending jumps (RECURSIVE) | `basics/control_flow.py`, `util/gir_block.py` |
| `ProgramFlow` | reference: where control passes, read top-down from the trees, with no list of pending jumps | |
| `ControlFlow` | builds and saves the graph of a method | `basics/control_flow.py` 52-95 |
| `StmtAnalysis` | SimpleWorkList with its heap (`heappush` as heapq does it, `pop(0)` as the code does it); analyze_stmts over it, with analyze_reachable_symbols and the interruption of a call. The numbering of the list by a depth first search (RECURSIVE) is in `StmtAnalysisMC` | `common_structs.py` 260-343, `core/prelim_semantics.py` |
| `PrelimAnalysis` | the method groups P1 makes of the basic call graph; run and analyze_method of P2 over them | `basics/basic_analysis.py` 127-182, `core/prelim_semantics.py`, `core/stmt_states.py` 1988-2105 |
| `BottomUp` | abstract: a bottom-up walk of a call graph | |
| `CallPaths` | call sites, call paths and the rules for adding one | `common_structs.py` 2062-2230 |
| `PathManager` | the trie and its three records of the paths | `common_structs.py` 2153-2278 |
| `MaximalPaths` | abstract: the set of the maximal paths | |
| `GlobalAnalysis` | run and analyze_frame_stack of P3, over `CallPaths` | `core/global_semantics.py`, `core/global_stmt_states.py` |
| `Taint` | the state flow graph of a body, sources, sinks, propagation, check of a sink | `taint/taint_analysis.py`, `core/stmt_states.py`, `core/prelim_semantics.py` |
| `GeneralLoader` | LRUCache, and a loader with two of them, bundles and index | `util/util.py`, `util/loader.py` |
| `DurableStore` | abstract: a store that is exported and opened again | |
| `<module>_proofs` | the theorems about a module (section 4) | |
| `SequenceLemmas` | lemmas about sequences, finite sets and numbers that several of them need | |

`Frontends` composes all parsers with `CfgBuilder`; `StmtAnalysis` runs on graphs
that `CfgBuilder` builds; `Names` composes `Scopes` with the later passes of P1;
`GlobalAnalysis` uses the rules of `CallPaths` that `PathManager` implements.

State variables have the names of the fields they stand for; one action is one
turn of a loop, one branch of a handler or one public operation. The exceptions:

- `walked` (GlobalAnalysis), `resaved` (GeneralLoader) and `understood` (Frontends) are
  history variables.
- `unsolved` (StmtAnalysis) stands for the frames above: an interruption leaves
  some callees with a summary that had none.
- A symbol definition is `<<symbol, statement, round>>`: round 0 for what the statement
  defines itself, else the round in which a callee's summary defined it, as each
  round appends those anew to the symbol space; a summary of P2 is the set of the
  methods whose effects it holds; an item of a loader is the set of its rows.
- In `PrelimAnalysis` and `GlobalAnalysis` a frame visits its call statements in
  any order, each at least once and at most Rounds times. `StmtAnalysis` shows that
  for the statements the entry leads to (EveryReachableStatementAnalysed), unless
  the numbering of the worklist does not reach them (Departures).
- Whether a handler runs again after the first round depends on the states of the
  names its statement uses (`complete_in_states_and_check_continue_flag`,
  `prelim_semantics.py:725-824`), which are not in the models: `PassOver` of
  `StmtAnalysis` and `PrelimAnalysis` may pass over any later round, so the runs and
  the theorems cover whatever the states are. What a call resolves to depends on them
  too, so a program of `PrelimAnalysis` gives each call its callees round by round.
  `passed_over` is a history variable of the frame. P3 handles its calls in every round
  (`prelim_semantics.py:822`); the creations of objects, which it may pass over, are
  calls of `StmtAnalysis` (`creates`) and not of `GlobalAnalysis`.
- In `Names` a variable that a statement both reads and writes is one statement
  (`assign_stmt`), which shows the id of its definition and that of its use; every
  statement of a method counts as reachable.
- In `Frontends` the parse of one top-level statement is one step; nothing
  can come between the handlers of a statement.
- `stmts_with_symbol_update` is filled and never read, `loop_total_rounds` is read
  and never filled; both are left out.

## 3. What the runs check

| Run | Properties | Instance |
|---|---|---|
| `Frontends` | each function is one method; every run is a path; every step of a path is one of a run; temporaries written first | nine languages; each statement, expression and declaration of a language around small ones, in and around each other; loops of at most two rounds (MaxIterations) |
| `Smali` | flow kept; ranges caught; own values read | 1762 classes: instructions, annotations and parameters, ifs, gotos, loops, tries, switches and arrays after and inside each other to depth two, handlers and data at the end, and two methods in a class |
| `Names` | uses find their declaration; imports lead to the definition; inherited members complete | 2768 units around the name x in three languages (blocks, methods, classes, loops, tries, global, nonlocal, let, var), 636 projects of three units in two directories, in each order of a scan |
| `ControlFlow` | the graph is the flow; LOOP_BACK and CONTINUE edges come from inside; every statement leads on | 5278 methods: every statement with each choice of small blocks, each inside every other one, jumps out of three statements, gotos, and the methods of two tests |
| `StmtAnalysis` | all reachable statements analysed; no spurious definition, at any time; own definitions kept; the step skipped after an interruption was done before; it ends | the 64 graphs CfgBuilder builds for eighteen methods (branches, while, do-while, for, nested loops, break and continue, goto, try, calls and creations of objects that are interrupted or passed over; two of the methods with each choice of definitions), in the modes of P2 and P3. 63 of the graphs are WellNumbered |
| `PrelimAnalysis` | one frame for a method; no foreign effect; all methods analysed; callees folded in; implements BottomUp; it ends | four methods: several candidates, mutual and self recursion, a method without body, calls that do not resolve, calls that find other callees in their second round, and every way in which three methods may call each other once |
| `PathManager` | no prefix kept; implements MaximalPaths | all paths of up to three calls over two sites, and one with a negative id |
| `GlobalAnalysis` | the stack is a chain; recursion bounded; walked paths kept; summaries there when applied; it ends | three methods: shared callees, several candidates, mutual and self recursion and both at one call, two entry points, a method without body |
| `Taint` | no flow missed; reports are tied; a path where there is one; it ends | 3132 bodies: two parameters, two groups of statements out of assignments, calls, fields and casts over two names, and one of two pairs of sinks; in a line, a loop and two branches. In 352 a state has the number of a symbol, in 32 of them that of the target of a cast |
| `GeneralLoader` | stale only after a save; implements DurableStore | two items of up to two rows, both caches of size one, up to two bundles before the last save, both classes of loaders |

TypeOK is checked where it says more than types: in PrelimAnalysis, in PathManager
(the three records of the paths agree) and in GeneralLoader (caches within their
capacity). The constants of the code are used where they matter: two and three
rounds, MAX_ANALYSIS_ROUND_FOR_CALL_SITE = 2. Caches of size one evict at each second
item, and MAX_ROWS = 2 makes save export by itself. MaxBundles
and MaxIterations are bounds the code does not have. Two names, two levels
of nesting and three units are enough for each departure below: each of them
was found, or confirmed, by the run that fails when its clause is taken out.

Deadlock is not checked where the phase or the loader may stop (all but
PathManager).

**Fairness.** Specifications with a liveness property assume weak fairness of Next
and nothing else: the phases are sequential loops that nothing blocks. The others
state only what holds when a phase is done, or at all times, and assume none;
PathManager and GeneralLoader are called from outside.

### Departures

A reference that says what the source means, and a list of the places where
the code does something else: GraphIsFlow, the four properties of Frontends, those of
Smali and those of Names hold everywhere but there.

**Control flow graphs** (Departs in `ProgramFlow`):

- a statement all of whose blocks are empty ends its block (516-517);
- `condition_prebody` of a while is never read, that of a do-while is visited
  after the loop;
- break and continue in the else block of a loop are lost (196);
- continue in a for goes to the header and jumps over `update_body` (162);
- continue in a switch is taken for a break, and a switch without default has no
  edge past its cases (303);
- return, break and continue in a try jump over `final_body`;
- throw_stmt and with_stmt have no handler: a throw leads to the next statement
  (`docs/en/04.analysis/4-2.basics.md:43` says it is connected later);
- of a `catch_body` only clauses named catch_clause are built (322); PHP, Ruby and
  Smali emit catch_stmt;
- a class in a method that has a `static_init` (C#, TypeScript) is left out: the row of the
  class is passed where a list of statements is expected (394), its values are linked as
  if they were statements, and comparing a string with 0 raises (`common_structs.py:162`).

Within a regular method a catch clause hangs on the last statements of the try
body only, so one whose body ends by return has no predecessor.

**Frontends** (Departure, each clause with its comment): 38 of them. In many languages: the
right operand of `&&` is evaluated always; values come before the parts of their
targets; a continue skips the code of the condition; cases fall through; a jump
to a label takes the innermost loop; `?:` of Java, C# and TypeScript becomes an
operation without a handler. In single ones: the clauses of a try, the
conditions of loops and all initializers are lost in C#; bodies of loops (but
for those that stand before their while or until) and else branches are unreachable in Ruby;
return is a plain statement in Go. Some handlers parse a child without the list of
statements, so what computes it is in no list and its temporary is read unwritten: the
condition of an if or unless that stands behind a statement in Ruby (`ruby_parser.py:463`,
`491`; ModifierUntested), and the bounds of a slice in Python
(`python_parser.py:957-959`; BoundsDropped).

**Smali** (Regular): the range of a second catch over the same labels, or around a
switch or an array that still waits, is cut at moved indexes; an array directive
before a switch's shifts what waits behind it; a label used for a directive in an
earlier method of the run brings the cases of that one; the result of
filled-new-array is that of the call before; four instructions mix up their
registers (MixedUp).

**Scopes** (ScopeDeparts in `Names`): what is declared in a block and not hoisted is
unknown around it (a JavaScript `var` goes to the top of its block only, and the
block of a catch_clause is not visited); blocks outside of all methods
are visible everywhere and, because the largest number counts as the nearest,
hide what comes before them; a `let` inside the block of another one is
dropped; an assignment before its declaration makes a global one; members of
a class are names in its methods in Python and JavaScript as well; `global`
is not minded where the name is used.

**Imports** (ImportDeparts): one edge for a pair of nodes, so a second alias replaces the
first; aliases of re-exports are not seen; a wildcard's names are never resolved in
the importing unit (`4-2.basics.md` section 3 says they are expanded); `import m` is
sought in the unit's own directory only and `from . import x` a
directory too high (`tests/import/python/test3/__init__.py:13` has the latter),
because of the dot that the path begins with; in a circle a re-export may be
asked for before it is there; an import in a block or a method is
analysed with the statements of its method, perhaps after its uses, and finds
what other such imports have found before (FoundBefore: the list of results is a
default value, `import_hierarchy.py:329`).

**Types** (ClassDeparts): a super class is sought from inside the class, so a nested class
of its name is taken for it; a class in a nested class may go to the class around
that, depending on the order of a set.

**Worklist** (WellNumbered and HeaderUsedUp in `StmtAnalysis`): the successors of a
statement are added before pop() takes the head (1207, 1242), which need not be that
statement any more.

- The list numbers the nodes from its first entry only; what that does not reach has
  priority 0 (`common_structs.py:288`) and is taken in the order of the ids. Where a try
  body ends by return, the catch clause is an entry of its own, and the header of a for
  loop in it has a smaller id than the code before the loop. Analysing that code adds
  the header and pops it: the header and the body of the loop are never
  analysed (`4-3.preliminary.md:115` says every statement in the graph is).
  EveryReachableStatementAnalysed asks for a numbering in which only headers of
  the loops around a statement come before it; `TryFor` is the graph without.
- After an interruption the symbol step is skipped for the statement at the head
  (1216). The header of a loop that the call leads back to comes before the call; if it
  has used up its rounds it is dropped with the flag still set, and the next
  head, perhaps a statement of its first round, skips the step that the pseudo
  code of `4-3.preliminary.md:119` makes for each statement: its own definition is
  then missing in its bits. OwnDefinitionsAvailable and SkippedStepWasDone exclude it by
  HeaderUsedUp; `LostStep` is a method where it happens.

**Reaching definitions** (Passing and Redefining in `StmtAnalysis`): the symbol step is
not the classic Gen/Kill that `4-3.preliminary.md:142` names, so more definitions
reach a statement than walks past no other definition carry:

- A definition found in the in bits already is passed over
  (`prelim_semantics.py:302`) and kills nothing. Where a statement's own one comes back
  around a loop, the others that come with it stay (`DeepBranch`: two branches of
  a loop define x, and each lets that of the other one pass).
- What the callees of a call define is known after them only, and may be another thing in
  each round, so it is counted as made and never as killing. A header that overtakes an
  interrupted call reads bits in which nothing of it has been killed yet (`DeepCall`).

What the model counts as reaching is what the graph and these two rules give,
nothing of the run; NoSpuriousDefinition says there is never more than that.

**Calls in later rounds** (PassOver in `StmtAnalysis` and `PrelimAnalysis`): after its
first round a call is handled again only when the states of the names it uses are not
those stored for them (`prelim_semantics.py:964-969`), and they are stored before the
handler runs (758). A callee that turns up in the second round interrupts the call; when
the call is resumed nothing has changed, so it is passed over and the callee, by then
analysed, is never applied. The interrupted run has also emptied
`implicitly_defined_symbols` (841), so the call no longer lists what its callees defined
in the first round, though earlier out bits may still have it. `Growing` and
`GrowingBack` have such calls. CalleesAreFoldedIn therefore speaks of the rounds that
were handled (Handled; the first is always one of them), BottomUpSpec of the callees
found in the first round, and OwnDefinitionsAvailable of what the list still names.

**Taint** (in the definitions of what depends on what): a cast keeps the states that
have its type already and drops the others (`stmt_states.py:2149-2187`); an argument that
is the receiver too keeps the receiver's position (`prelim_semantics.py:468`); rules
for sources at plain calls never match (`taint_analysis.py:349` asks for a position
that no edge has); a state whose number is that of a symbol passes its tag
on to it (90-127: both are looked up in the tables by their number). The
other way round this loses a flow: the target of a cast that has the number of a
tagged state is found tagged, so it is not queued, and what is computed from it is
not followed (CastHidden, which NoFlowMissed excludes). For other statements
this is harmless, as their operands lead to the target as well. Parameters are
modelled without default values.

### Where code and documentation differ

Two runs check one sentence of a document each and end with a
counterexample; `PROJECT.json` quotes them under "findings".

- `PrelimAnalysis_SummaryCoversCallees`: of two callees of one call, the one that
  runs first does not get the summary of the one that waits below it.
- `Names_OneIdForAVariable`: a variable that nothing declares (every local one of Ruby)
  is defined under the id -1 and used under another one.

Other differences met while modelling, which are not runs: after P2 a
definition may be missing in the bits of a statement that it reaches around a loop
(`docs/en/02.background/2-2.dataflow.md:90` takes all predecessors); after an if, a loop
or a switch without any statement in it the rest of the block is not in the
graph; the body of a catch_stmt, as `docs/en/03.frontend/3-2.gir.md:47` names it, is not
in the graph; GeneralLoader.save leaves the item cache as it is, so what is saved
again is read back old; the comment at `resolver.py:185` says that the larger
scope is the nearer one.

## 4. What is proved

For every value of the constants, `PathManager_proofs`, `PrelimAnalysis_proofs`,
`GlobalAnalysis_proofs`, `GeneralLoader_proofs`, `StmtAnalysis_proofs` and `Taint_proofs`
prove all the safety properties and refinements of their runs. They rest on the assumptions of the modules, which TLC evaluates on the instances:

- paths are non-empty sequences of sites (CallPaths);
- the methods are finitely many and are not the two special nodes, and a program
  is as IsProgram says: finitely many call statements, callees that are methods;
- a statement has at least one round, a call site of P3 at least two visits (the code
  has two, `config/config.py`);
- a graph is as IsGraph says: finitely many statements with positive ids, priorities that
  are natural numbers, and no call with an edge to itself;
- the capacities of a loader are positive, items have finitely many rows;
- a body is as IsBody says: statements with at most three operands, a parameter
  without any and a cast with one, the target of a cast a temporary of its own, and no
  assignment after a loop, as the edge of one is made in its first round only
  (`stmt_states.py:840`) and which definitions a header passes on in that round depends on the
  rounds of the loop. Settles
  asks that as many rounds as there are statements find all the states.

*PathManager.* TypeOK says that terminal marks and both sets of paths agree and
that the nodes are exactly the prefixes of the paths. It is inductive together
with NoPrefixKept: a new path that is not Known is in no branch of the trie as a
prefix, so unmarking its terminal prefixes leaves an antichain. That Known and
Replaced are what the rules of MaximalPaths ask then gives the refinement; a step that
turns a path down is a stutter. Two action properties are proved and not run:
RejectionJustified and NothingLost follow from the same invariant.

*PrelimAnalysis.* OneFramePerMethod is not inductive alone. IInv adds: a call
that has been visited has all the callees of its first round analysed or on the stack
(VisitedCallsSolved), methods with a summary are the analysed ones that have a body
(SummariesOK), and a list of run() is always split into what waits, what is
on the stack and what is analysed (NoneForgotten). The step that decides is
Interrupt: Unsolved excludes what is on the stack, so the new frames are new.
That the two lists cover all methods follows from the set differences of
GroupMethods alone (a method is in one of the groups or in no_callees). The
refinement of BottomUp maps started to analysed and stacked methods; FinishMethod
is Summarise because of VisitedCallsSolved, and because the first round cannot be passed
over. On top of IInv, EffectsInv says that frames and summaries hold effects of called
methods only, and that a visited call has, for each round that was handled, the summary of
each callee unless the callee waits below (VisitedCallsFolded). PassOver keeps it because
the round it ends is entered in `passed_over`; an interruption ends no round.

*GeneralLoader.* The inductive invariant says where an item is: the index leads to the
active bundle or to a file that has it, the cached bundles are copies of the files,
and an entry of the item cache that differs is of an item that was saved again. A
lemma each says what get and put do to a cache, in terms of Lookup, with the oldest entry
dropped when the cache is full. The refinement of DurableStore reads an item along the
index and past the item cache: a hit, an eviction and the writing of a bundle change
nothing for a reader, and what a later run finds is what the index file leads to in
the bundle files.

*GlobalAnalysis.* StackInv ties each frame to the one below: its call site is a call of
that method, it is pending no more, and its path extends the path below. A path
on the stack has at most one cycle because Skips turns the others down, which bounds
the depth by the methods (DepthBounded) and gives the finite sets of the
measure. SummaryThereWhenApplied needs most. A callee is passed over without a walk
if it is known, on a second cycle or used up. SummaryInv adds that at most two
frames below the top wait for a callee of the method of the top, since its path comes
back to that method in one place only; and that a call site counted more often than
frames wait for it is settled or being walked (CountedOnceAFrame), so one that is used up
is settled. This is where MaxCallSite is at least 2: with 1, TLC finds the property violated by the
program SelfOrOther, where one call has the method itself and another one as candidates.

*StmtAnalysis.* pop(0) does not repair the heap, so the list is no heap after the first
pop, and the proof may not use that it is one. HeapPushFacts says what remains:
heappush rearranges the list with the new element in it, and either the head stays or the
new element, less than the head, replaces it (PathFacts: the positions it is sifted along
are the way from the leaf to the root). So after the successors of s have been
added, the head is s or overtakes s (SuccessorFacts). NothingLost then says of the
statements in the list or analysed (Seen): they hold the entries, the
successors of each analysed one, and nothing is in them that control passing no unseen
statement cannot come to (Covers). A head h that overtakes s dominates it in a well
numbered graph; were h unseen, s could not have been seen; so h was in Seen and not in the
list, hence analysed before, and popping it loses nothing. At the end the list is
empty, the analysed statements are closed under the edges, and Reachable, whose recursion
is unfolded by Recursion and UpTo of SequenceLemmas, is within them. Reached adds to it
that the head after an interruption may skip the symbol step and that own
definitions stay; it holds as long as no header is used up (TrustStays: one that is stays
so). What a status lists as defined by callees stays within the bits: Interrupt empties
the list, PassOver leaves that of an earlier round, which the symbol step generates
again, and a handled round defines what it lists (IterationReaches, InterruptReaches).

NoSpuriousDefinition needs neither: it is proved for every graph, well numbered or
not, and for all states. A walk and Passing are recursions over numbers, so
each is a saturation: Saturation of SequenceLemmas says that it ends in the least
closed set, and from there only the closure is used (WalkFacts, PassingFacts,
ReachableFacts). The invariant Faithful has two parts. Places: what is in the list
is reachable. Sound: a definition in the out bits of any statement, analysed or not, has
been made and is carried to it by a walk past no statement that kills it. The step that
decides is the symbol step (ReachedArrives): a definition in the bits of a
predecessor passes the statement unless that kills it, and a killing statement lets it pass
only where its own definition is in the in bits already, which by Sound came back around a
loop, so the statement is Passing. What callees define is made at its call
(Contributed), whatever an interruption or a round passed over does to the list of it.

*Taint.* The references (Depending, Tied) and the search for a path are
reachability over pairs (Reach), again by Saturation the least closed set. Graph lemmas
say which nodes an edge leads to, those on Enqueued and Moved that what a
step adds to the list is what it touches and nothing that is there already.
For ReportsAreTied the invariant is TagsTied: each tagged id and each touched
node is tied to the source by the variables of the statements (TiedSet is closed
under what an edge can lead to, also where a state and a symbol share a number).
NoFlowMissed cannot speak of queued nodes alone, since definitions of a
variable share their tag and the second one is found tagged and never
queued. HandledInv therefore says of the *ids*: a tagged state waits or has passed its tag
on, a processed symbol or statement has done so, and the target of a tagged
cast has been touched itself. With an empty list that is Settled, a closed set for
Depending, so every dependent argument is tagged when the sinks are checked
(FoundInv). PathsFound: the search over all edges comes to a sink just where a chain of
definitions and uses does (ChainsFound). OnceInv says that the list has no node twice and no symbol
comes back to it.

*Termination.* RunEnds is a liveness property and stays with TLC. In P2, P3, the
worklist and the taint analysis EveryStepUsesUp proves what it rests on: each step takes something from one of a
few finite sets and leaves those before it in a fixed order.

*Only model-checked*: liveness (RunEnds; the proof system has no ENABLED reasoning).
ControlFlow, Frontends, Smali, Scopes and Names, whose operators and references
recurse over trees: what a recursion over data computes for every input is an induction
with an operator as parameter, which none of the installed provers can use. What
`Impacted` computes over the call graph is used in the proofs only as a set that is
split into groups.

## 5. Not modelled

- *Statement states* (`core/stmt_states.py`): what the operations do to abstract
  states. Their control is in PrelimAnalysis and GlobalAnalysis, the flow through
  assignments, casts and fields in Taint; the rest is data far too wide for TLC.
- *External functions, entry points, rule files*: match names with rules; they keep
  sets that only grow.
- *Frontends of LLVM, ArkTS, MIR*: the first translates instruction by instruction,
  the others are in no table of languages.
- *Incremental runs*: `lang_analysis.py:398-427` and the checker. The backup that a
  restart opens is in GeneralLoader; ids of cached units beside new ones are not
  modelled.
- *Map loaders and the front of Loader*: dictionaries and their files; the front
  delegates.
- *strict_parse_mode, Java packages, mock files*: other ways through the import and
  name analysis. `ImportGraphLoader.restore` (`loader.py:1678`) reads edges
  without their names and statements; nothing asks for them after a restart.
- *Dumps, data frames, options, file copying*: pure input and output.
- *Contents of summary instances* in P3: only for which sites there is one.
- *P3 after P2*: P2 is off by default (`args_parser.py:82`). Where it is on, P3 starts a
  method that P2 has analysed in the second round and with the bits that P2 left, all their
  indexes shifted (`global_semantics.py:73-165`, `216`). A run of `StmtAnalysis` starts with
  empty bits in the first one.
- *Callees of a call in P3* are the same in all rounds of `GlobalAnalysis`; each round asks for
  them again, so one that turns up later is walked then.
- *Several callees that define one symbol*: the later one kills the definition of the earlier;
  `StmtAnalysis` keeps one definition for both.
- *The states that decide whether a handler runs again*: any later round may be passed over.
- *Python*: splat patterns and augmented assignments to tuples.
- `remove_path` is called by nothing.
