------------------------------- MODULE Taint -------------------------------
(***************************************************************************)
(* Taint analysis over the state flow graph (SFG) of one entry point:      *)
(* for every pair of a source and a sink a fresh TaintEnv, a worklist that *)
(* spreads the tag of the source, and a check of the sink's argument.      *)
(*                                                                         *)
(* A tag is kept per symbol id and per state id while the worklist holds   *)
(* nodes of the graph, and two definitions of one variable are two nodes   *)
(* of one id.  Whether everything that depends on the source is reached    *)
(* hangs on what is queued when an id is tagged already.                   *)
(*                                                                         *)
(* The graph is built from a body as P3 builds it: one node per            *)
(* definition, statement and state, one edge per pair of nodes.  A body is *)
(* [stmts, flow, twin]: GIR statements, the control flow between them, and *)
(* a state and a symbol that have the same number, for states are numbered *)
(* apart from symbols and from the same start.                             *)
(***************************************************************************)
EXTENDS Naturals, Sequences, FiniteSets, SequencesExt

CONSTANT Bodies          \* the bodies to analyse

VARIABLES
  body,
  sfg,                   \* the edges of the graph
  pairs,                 \* the <<source, sink>> pairs that are left, the current one first
  active,                \* propagation for the first of them has begun
  symbols, states,       \* TaintEnv: the ids that carry the tag
  worklist,
  processed,             \* _processed_nodes
  flows                  \* flow_list

vars == <<body, sfg, pairs, active, symbols, states, worklist, processed, flows>>

-----------------------------------------------------------------------------
\* What the links lead to from a set, in any number of steps.
Reach(start, links) ==
  LET ends == {l[2] : l \in links}
      next[seen \in SUBSET (start \union ends)] == seen \union {l[2] : l \in {m \in links : m[1] \in seen}}
      within[n \in 0..Cardinality(ends)] == IF n = 0 THEN start ELSE next[within[n - 1]]
  IN within[Cardinality(ends)]

-----------------------------------------------------------------------------
(* Statements.  uses is the list of used symbols by position, "" where a   *)
(* position holds no local symbol (the callee's name, a field's name).     *)

Stmt(op, name, target, uses) == [op |-> op, name |-> name, target |-> target, uses |-> uses]
Operations ==
  {"parameter_decl", "assign_stmt", "call_stmt", "object_call_stmt", "type_cast_stmt", "field_read"}
Positions == 1..3
Lines(b) == DOMAIN b.stmts

\* The statements that a definition of v made at i reaches.
ReachedBy(b, i, v) ==
  Reach({n \in Lines(b) : <<i, n>> \in b.flow}, {e \in b.flow : b.stmts[e[1]].target # v})

\* check_reachable_symbol_defs: definition d is available at position p of statement j.
UsedAt(b, d) ==
  {y \in ReachedBy(b, d, b.stmts[d].target) \X Positions :
     /\ y[2] \in DOMAIN b.stmts[y[1]].uses
     /\ b.stmts[y[1]].uses[y[2]] = b.stmts[d].target}
UsesOf(b) == UNION {{<<d, y[1], y[2]>> : y \in UsedAt(b, d)} : d \in Lines(b)}

UsedDefs(known, j, p) == {x[1] : x \in {y \in known : y[2] = j /\ y[3] = p}}

-----------------------------------------------------------------------------
(* The states of the defined symbols, as pairs of a definition and a state *)
(* [at, depth, typed]: the statement that made it, how many fields were    *)
(* read on the way from that one, and whether a cast gave it its type.     *)

NewState(i, typed) == [at |-> i, depth |-> 0, typed |-> typed]
FieldOf(s) == [at |-> s.at, depth |-> s.depth + 1, typed |-> FALSE]
Made(held, i) == {x[2] : x \in {y \in held : y[1] = i}}

\* A call of an unknown callee makes a state, and so do a parameter and an operator.
Parameter(st, i) == {s \in {NewState(i, FALSE)} : st.op = "parameter_decl"}
Called(st, i) == {s \in {NewState(i, FALSE)} : st.op \in {"call_stmt", "object_call_stmt"}}
Assigned(st, i, read) ==
  IF st.op # "assign_stmt" THEN {} ELSE IF Len(st.uses) = 1 THEN read ELSE {NewState(i, FALSE)}

\* A cast takes the states that have its type already, or makes one.
Cast(st, i, read) ==
  LET typed == {s \in read : s.typed}
  IN IF st.op # "type_cast_stmt" THEN {} ELSE IF typed # {} THEN typed ELSE {NewState(i, TRUE)}

FieldRead(st, read) == IF st.op = "field_read" THEN {FieldOf(s) : s \in read} ELSE {}

StatesMade(b, known, held, i) ==
  LET st == b.stmts[i]
      read == UNION {Made(held, d) : d \in UsedDefs(known, i, 1)}
  IN Parameter(st, i) \union Called(st, i) \union Assigned(st, i, read)
       \union Cast(st, i, read) \union FieldRead(st, read)

StatesOf(b, known, rounds) ==
  LET after[n \in 0..rounds] ==
        IF n = 0 THEN {}
        ELSE LET held == after[n - 1]
             IN UNION {{<<i, s>> : s \in StatesMade(b, known, held, i)} : i \in Lines(b)}
  IN after[rounds]

\* a = a.f in a loop makes new states until the rounds are over: left out.
Settles(b) ==
  LET known == UsesOf(b)
  IN StatesOf(b, known, Len(b.stmts)) = StatesOf(b, known, Len(b.stmts) + 1)

-----------------------------------------------------------------------------
(* The graph.                                                              *)

NoId == <<"", 0, 0>>
SymbolId(v) == <<v, 0, 0>>
StateId(s) == <<"", s.at, s.depth>>

SymbolNode(b, i) == [kind |-> "symbol", at |-> i, id |-> SymbolId(b.stmts[i].target)]
StateNode(s) == [kind |-> "state", at |-> s.at, id |-> StateId(s)]
StmtNode(i) == [kind |-> "stmt", at |-> i, id |-> NoId]
Edge(u, v, kind, pos) == [from |-> u, to |-> v, kind |-> kind, pos |-> pos]

DefinedEdges(b) ==
  {Edge(StmtNode(i), SymbolNode(b, i), "SYMBOL_IS_DEFINED", 0) : i \in Lines(b)}

\* A definition that a statement uses twice keeps the edge of its first position.
UsedEdges(b, known) ==
  {Edge(SymbolNode(b, x[1]), StmtNode(x[2]), "SYMBOL_IS_USED", x[3] - 1) :
     x \in {y \in known : \A p \in 1..(y[3] - 1) : <<y[1], y[2], p>> \notin known}}

StateEdges(b, held) ==
  {Edge(SymbolNode(b, x[1]), StateNode(x[2]), "SYMBOL_STATE", 0) : x \in held}

InclusionEdges(held) ==
  LET all == {x[2] : x \in held}
  IN UNION {{Edge(StateNode(s), StateNode(part), "STATE_INCLUSION", 0) :
               part \in {t \in all : t.at = s.at /\ t.depth = s.depth + 1}} : s \in all}

\* A use adds the edge from the definition to its states, where it is missing.
UsedStateEdges(b, known, held) ==
  StateEdges(b, {x \in held : \E y \in known : y[1] = x[1]})

\* In its first round a statement has the definitions that come without a step back.
Onward(b) == [b EXCEPT !.flow = {e \in @ : e[1] < e[2]}]

\* The first operand of an assignment, as it is in the first round, flows to the target.
AssignFlow(b, known) ==
  {Edge(SymbolNode(b, x[1]), SymbolNode(b, x[2]), "SYMBOL_FLOW", 0) :
     x \in {y \in known \intersect UsesOf(Onward(b)) : y[3] = 1 /\ b.stmts[y[2]].op = "assign_stmt"}}

\* What is cast flows to the target when no state has the type.
CastFlow(b, known, held) ==
  {Edge(SymbolNode(b, x[1]), SymbolNode(b, x[2]), "SYMBOL_FLOW", 0) :
     x \in {y \in known : /\ y[3] = 1
                         /\ b.stmts[y[2]].op = "type_cast_stmt"
                         /\ NewState(y[2], TRUE) \in Made(held, y[2])}}

Graph(b) ==
  LET known == UsesOf(b)
      held == StatesOf(b, known, Len(b.stmts))
  IN DefinedEdges(b) \union UsedEdges(b, known)
       \union StateEdges(b, held) \union UsedStateEdges(b, known, held)
       \union InclusionEdges(held) \union AssignFlow(b, known) \union CastFlow(b, known, held)

\* Parameters without default values; the frontends give what is cast to a temporary of
\* its own; no assignment comes after a loop; twin is NoId and any symbol where no state has the number of a symbol.
IsBody(b) ==
  /\ b.stmts \in Seq([op : Operations, name : STRING, target : STRING, uses : Seq(STRING)])
  /\ \A i \in Lines(b) : b.stmts[i].target # "" /\ Len(b.stmts[i].uses) \in 0..3
  /\ \A i \in Lines(b) : b.stmts[i].op = "parameter_decl" => b.stmts[i].uses = <<>>
  /\ \A i \in Lines(b) : b.stmts[i].op = "type_cast_stmt" =>
       /\ Len(b.stmts[i].uses) = 1
       /\ \A k \in Lines(b) \ {i} : b.stmts[k].target # b.stmts[i].target
  /\ b.flow \subseteq Lines(b) \X Lines(b)
  /\ \A e \in b.flow, i \in Lines(b) : e[2] <= e[1] /\ e[1] < i => b.stmts[i].op # "assign_stmt"
  /\ b.twin.state \in ({""} \X Lines(b) \X Nat) \union {NoId}
  /\ b.twin.symbol \in {SymbolId(b.stmts[i].target) : i \in Lines(b)}
  /\ Settles(b)

ASSUME BodyAssumption == \A b \in Bodies : IsBody(b)

-----------------------------------------------------------------------------
(* Rules: a parameter named by a rule and a call of b.read are sources;    *)
(* sink and exec name their first argument, run its receiver.              *)

ParameterSource(st) == st.op = "parameter_decl" /\ st.name = "parameter a"
CallSource(st) == st.op = "object_call_stmt" /\ st.name = "b.read"
Sources(b) ==
  {SymbolNode(b, i) : i \in {k \in Lines(b) : ParameterSource(b.stmts[k]) \/ CallSource(b.stmts[k])}}

CallSink(st) == st.op = "call_stmt" /\ st.name = "sink"
MethodSink(st) == st.op = "object_call_stmt" /\ st.name \in {"exec", "run"}
Sinks(b) == {i \in Lines(b) : CallSink(b.stmts[i]) \/ MethodSink(b.stmts[i])}

\* The position of the argument that the rule names; a method's field holds position 1.
TargetPos(st) ==
  CASE st.name = "run" -> 0
    [] st.name = "exec" -> 2
    [] OTHER -> 1

Propagates(st) == st.op \in {"assign_stmt", "call_stmt", "object_call_stmt", "field_read"}

-----------------------------------------------------------------------------
(* Propagation.                                                            *)

After(u, kinds) == {e.to : e \in {x \in sfg : x.from = u /\ x.kind \in kinds}}
Before(u, kinds) == {e.from : e \in {x \in sfg : x.to = u /\ x.kind \in kinds}}

\* The order in which P3 adds what a node leads to.
Rank(n) ==
  CASE n.kind = "state" -> n.at
    [] n.kind = "stmt" -> 100 * n.at
    [] OTHER -> 100 * n.at + 1

Queue(nodes) ==
  LET first(rest) == CHOOSE n \in rest : \A m \in rest : Rank(n) <= Rank(m)
      next[rest \in SUBSET nodes] == rest \ {first(rest)}
      left[k \in 0..Cardinality(nodes)] == IF k = 0 THEN nodes ELSE next[left[k - 1]]
  IN [k \in 1..Cardinality(nodes) |-> first(left[k - 1])]

\* _enqueue, for nodes in the order they are met.
Enqueued(list, nodes) == list \o Queue(nodes \ ToSet(list))

\* Of the nodes of one id only the first that is met finds the id untagged.
Untagged(nodes, tagged) ==
  {n \in nodes : /\ n.id \notin tagged
                 /\ \A m \in nodes : m.id = n.id => Rank(n) <= Rank(m)}

Ids(nodes) == {n.id : n \in nodes}

\* The id that set_symbol_tag is called with, of a symbol or of a state that holds one.
TagId(n) == IF n.kind = "state" /\ n.id = body.twin.state THEN body.twin.symbol ELSE n.id
Popped == Head(worklist)

\* Mutant: the tags of the pair before are kept.
BeginKept ==
  /\ ~active /\ pairs # <<>>
  /\ LET source == Head(pairs)[1]
         held == After(source, {"SYMBOL_STATE"})
     IN /\ symbols' = symbols \union {source.id}
        /\ states' = states \union Ids(held)
        /\ worklist' = Enqueued(<<source>>, held)
  /\ processed' = {}
  /\ active' = TRUE
  /\ UNCHANGED <<body, sfg, pairs, flows>>

Begin ==
  /\ ~active /\ pairs # <<>>
  /\ LET source == Head(pairs)[1]
         held == After(source, {"SYMBOL_STATE"})
     IN /\ symbols' = {source.id}
        /\ states' = Ids(held)
        /\ worklist' = Enqueued(<<source>>, held)
  /\ processed' = {}
  /\ active' = TRUE
  /\ UNCHANGED <<body, sfg, pairs, flows>>

\* Mutant: the symbol is looked at and not taken from the list.
FromSymbolPeeked ==
  /\ worklist # <<>> /\ Popped.kind = "symbol"
  /\ LET held == Untagged(After(Popped, {"SYMBOL_STATE"}), states)
         using == After(Popped, {"SYMBOL_IS_USED"})
         into == Untagged(After(Popped, {"SYMBOL_FLOW"}), symbols)
     IN /\ states' = states \union Ids(held)
        /\ symbols' = symbols \union Ids(into)
        /\ worklist' = Enqueued(worklist, held \union using \union into)
  /\ processed' = processed \union {Popped}
  /\ UNCHANGED <<body, sfg, pairs, active, flows>>

FromSymbol ==
  /\ worklist # <<>> /\ Popped.kind = "symbol"
  /\ LET held == Untagged(After(Popped, {"SYMBOL_STATE"}), states)
         using == After(Popped, {"SYMBOL_IS_USED"})
         into == Untagged(After(Popped, {"SYMBOL_FLOW"}), symbols)
     IN /\ states' = states \union Ids(held)
        /\ symbols' = symbols \union Ids(into)
        /\ worklist' = Enqueued(Tail(worklist), held \union using \union into)
  /\ processed' = processed \union {Popped}
  /\ UNCHANGED <<body, sfg, pairs, active, flows>>

Holders(nodes) ==
  {n \in nodes : /\ TagId(n) \notin symbols
                 /\ \A m \in nodes : TagId(m) = TagId(n) => Rank(n) <= Rank(m)}

\* A state that holds this one is tagged as if its id were a symbol's.
FromState ==
  /\ worklist # <<>> /\ Popped.kind = "state"
  /\ LET tagged == Popped.id \in states
         holders == IF tagged
                    THEN Holders(Before(Popped, {"SYMBOL_STATE", "STATE_INCLUSION"}))
                    ELSE {}
         parts == IF tagged THEN Untagged(After(Popped, {"STATE_INCLUSION"}), states) ELSE {}
     IN /\ symbols' = symbols \union {TagId(n) : n \in holders}
        /\ states' = states \union Ids(parts)
        /\ worklist' = Enqueued(Enqueued(Tail(worklist), holders), parts)
  /\ processed' = processed \union {Popped}
  /\ UNCHANGED <<body, sfg, pairs, active, flows>>

\* Mutant: only what is newly tagged is queued.
PendingNew(nodes, done) == {n \in nodes : n.id \notin symbols}

\* What a statement taints is queued when it was tagged before but not yet processed.
Pending(nodes, done) == {n \in nodes : n.id \notin symbols \/ n \notin done}

Receivers(i) ==
  IF body.stmts[i].op = "object_call_stmt"
  THEN {e.from : e \in {x \in sfg : /\ x.to = StmtNode(i)
                                    /\ x.kind = "SYMBOL_IS_USED" /\ x.pos = 0}}
  ELSE {}

FromStmt ==
  /\ worklist # <<>> /\ Popped.kind = "stmt"
  /\ LET i == Popped.at
         tagged == \E n \in Before(Popped, {"SYMBOL_IS_USED"}) : n.id \in symbols
         done == processed \union {Popped}
         more == IF tagged /\ Propagates(body.stmts[i])
                 THEN Pending(After(Popped, {"SYMBOL_IS_DEFINED"}), done)
                 ELSE {}
         back == IF tagged /\ Propagates(body.stmts[i]) THEN Pending(Receivers(i), done) ELSE {}
     IN /\ symbols' = symbols \union Ids(more \union back)
        /\ worklist' = Enqueued(Enqueued(Tail(worklist), more), back)
        /\ processed' = done
  /\ UNCHANGED <<body, sfg, pairs, active, states, flows>>

-----------------------------------------------------------------------------
(* The sink.                                                               *)

\* get_state_with_inclusion_tag: a state and what it holds.
WithParts(nodes) ==
  Reach(nodes, {<<e.from, e.to>> : e \in {x \in sfg : x.kind = "STATE_INCLUSION"}})

SymbolTagged(n) ==
  n.id \in symbols \/ Ids(WithParts(After(n, {"SYMBOL_STATE"}))) \intersect states # {}

SinkTagged(i) ==
  \E e \in sfg : /\ e.to = StmtNode(i)
                 /\ e.kind = "SYMBOL_IS_USED"
                 /\ e.pos = TargetPos(body.stmts[i])
                 /\ SymbolTagged(e.from)

\* Mutant: the search stops at the first statements.
ForwardUsed(source) == {source} \union {e.to : e \in {x \in sfg : x.from = source}}

\* The search for a path follows every edge of the graph.
Forward(source) == Reach({source}, {<<e.from, e.to>> : e \in sfg})

\* A flow whose sink is out of reach gets the longest path found and the sink at its end.
FlowTo(source, i) ==
  [source |-> source, sink |-> i, traced |-> StmtNode(i) \in Forward(source)]

Check ==
  /\ active /\ worklist = <<>>
  /\ LET source == Head(pairs)[1]
         i == Head(pairs)[2].at
     IN flows' = IF SinkTagged(i) THEN flows \union {FlowTo(source, i)} ELSE flows
  /\ pairs' = Tail(pairs)
  /\ active' = FALSE
  /\ UNCHANGED <<body, sfg, symbols, states, worklist, processed>>

-----------------------------------------------------------------------------
\* find_flows takes the sinks in turn for each source.
Pairs(from, to) ==
  LET of(source) == [k \in 1..Len(to) |-> <<source, to[k]>>]
      upto[n \in 0..Len(from)] == IF n = 0 THEN <<>> ELSE upto[n - 1] \o of(from[n])
  IN upto[Len(from)]

Init ==
  /\ body \in Bodies
  /\ sfg = Graph(body)
  /\ pairs = Pairs(Queue(Sources(body)), Queue({StmtNode(i) : i \in Sinks(body)}))
  /\ active = FALSE
  /\ symbols = {} /\ states = {}
  /\ worklist = <<>> /\ processed = {} /\ flows = {}

Next == Begin \/ FromSymbol \/ FromState \/ FromStmt \/ Check

Spec == Init /\ [][Next]_vars /\ WF_vars(Next)

-----------------------------------------------------------------------------
(* What depends on what, read from the body and not from the graph.        *)

KnownUses == UsesOf(body)
HeldStates == StatesOf(body, KnownUses, Len(body.stmts))

\* A cast of several definitions takes its states from those that have its type.
Passes(known, held, d, j) ==
  LET typed(i) == \E s \in Made(held, i) : s.typed
  IN body.stmts[j].op = "type_cast_stmt"
       => typed(d) \/ \A i \in UsedDefs(known, j, 1) : ~typed(i)

\* What is computed from a definition, and the receiver of a call that is given it.
Computed(known, held) ==
  {<<x[1], x[2]>> : x \in {y \in known : Passes(known, held, y[1], y[2])}}
GivenTo(known, links) ==
  UNION {{l[1]} \X UsedDefs(known, l[2], 1) :
           l \in {m \in links : body.stmts[m[2]].op = "object_call_stmt"}}
Depending(known, held, i) ==
  LET links == Computed(known, held) IN Reach({i}, links \union GivenTo(known, links))

\* The definitions that the rule of a sink is about, where they are used there first.
Argument(known, i) ==
  LET p == TargetPos(body.stmts[i]) + 1
  IN {d \in UsedDefs(known, i, p) : \A q \in 1..(p - 1) : d \notin UsedDefs(known, i, q)}

Done == ~active /\ pairs = <<>>
Reported(source, i) == \E f \in flows : f.source = source /\ f.sink = i

\* The target of a cast has the number of a state: tagged with that one, it is not queued.
CastHidden ==
  \E i \in Lines(body) : /\ body.stmts[i].op = "type_cast_stmt"
                         /\ body.twin.state # NoId
                         /\ body.twin.symbol = SymbolId(body.stmts[i].target)

(* Whatever depends on a source and is given to a sink is reported, though *)
(* definitions of one variable share their tag and a node that finds its   *)
(* id tagged may never be queued (TaintAnalysis.find_flows).               *)
NoFlowMissed ==
  Done /\ ~CastHidden =>
    LET known == KnownUses
        held == HeldStates
    IN \A source \in Sources(body), i \in Sinks(body) :
         Depending(known, held, source.at) \intersect Argument(known, i) # {}
           => Reported(source, i)

\* Statements that hand states on unchanged: of copies, casts and fields read.
Shares(st) ==
  st.op \in {"type_cast_stmt", "field_read"} \/ (st.op = "assign_stmt" /\ Len(st.uses) = 1)
Statements == ToSet(body.stmts)

\* The variables tied to v: what is computed from it, the receiver of a call that is
\* given it, what it shares states with, and the twin of a state that it got.
VariableLinks ==
  LET given == {x \in Statements : x.op = "object_call_stmt"}
      shared == {x \in Statements : Shares(x)}
      computed == UNION {ToSet(st.uses) \X {st.target} : st \in Statements}
      received == UNION {ToSet(st.uses) \X {st.uses[1]} : st \in given}
      shares == {<<st.target, st.uses[1]>> : st \in shared}
      numbered == {<<body.stmts[i].target, body.twin.symbol[1]>> :
                     i \in {k \in Lines(body) : body.twin.state[2] = k}}
  IN computed \union received \union shares \union numbered
Tied(v) == Reach({v}, {l \in VariableLinks : l[1] # "" /\ l[2] # ""})

SinkVariable(f) == body.stmts[f.sink].uses[TargetPos(body.stmts[f.sink]) + 1]

(* A report is never out of the blue: the variable that the sink is given  *)
(* is tied to the source's by the statements of the body or by the states  *)
(* that copies, casts and fields share, or by a state of its number.  No   *)
(* tag outlives the TaintEnv of its pair (TaintAnalysis.find_flows).       *)
ReportsAreTied == \A f \in flows : SinkVariable(f) \in Tied(f.source.id[1])

(* The path of a flow is a chain of definitions and uses whenever there is *)
(* one, and is made up only where there is none                            *)
(* (PathFinder.reconstruct_define_use_path).                               *)
PathWhereThereIsOne ==
  Done => LET links == {<<x[1], x[2]>> : x \in KnownUses}
          IN \A f \in flows :
               f.traced <=> \E d \in Reach({f.source.at}, links) : <<d, f.sink>> \in links

(* Propagation ends: a node is queued again only for a tag it had not, or  *)
(* as long as it was not processed (PathFinder.propagate_taint).           *)
RunEnds == <>Done
=============================================================================
