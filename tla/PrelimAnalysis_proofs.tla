------------------------ MODULE PrelimAnalysis_proofs ------------------------
(***************************************************************************)
(* For every program, phase P2 keeps one frame per method, implements      *)
(* BottomUp, leaves no method out, and its summaries hold the effects of   *)
(* the callees that had a summary and of no method out of reach.           *)
(***************************************************************************)
EXTENDS PrelimAnalysis, SequenceLemmas, FiniteSetTheorems

\* The orders in which a finite set is gone through.
LEMMA OrderProperties ==
  ASSUME NEW set, IsFiniteSet(set), set # {}, NEW order \in SetToSeqs(set)
  PROVE  /\ order \in Seq(set)
         /\ Len(order) \in Nat \ {0}
         /\ DOMAIN order = 1..Len(order)
         /\ \A i, j \in 1..Len(order) : order[i] = order[j] => i = j
<1>1. Cardinality(set) \in Nat \ {0}
  BY FS_CardinalityType, FS_EmptySet
<1>2. /\ order \in [1..Cardinality(set) -> set]
      /\ \A i, j \in 1..Cardinality(set) : i # j => order[i] # order[j]
  BY DEF SetToSeqs
<1> QED BY <1>1, <1>2

-----------------------------------------------------------------------------

\* The part of TypeOK that is about the program and its groups.
InputOK ==
  /\ IsProgram(program)
  /\ groups = GroupMethods(BasicCallGraph(program), Methods)

\* The inductive part of the type invariant.
StackOK ==
  /\ frame_stack \in Seq(Frames)
  /\ analyzed \subseteq Methods
  /\ todo \subseteq Methods
  /\ phase \in {"direct", "dynamic", "done"}

\* A call that has been visited has all it found in its first round under way.
VisitedCallsSolved ==
  \A i \in DOMAIN frame_stack : \A s \in program.stmts[frame_stack[i].method_id] :
    frame_stack[i].stmt_counters[s] > 0 => program.callees[s][1] \subseteq analyzed \union OnStack

\* A summary belongs to a method that has a body and is analysed; only such methods
\* have a frame that goes on.
SummariesOK ==
  /\ DOMAIN summaries = analyzed \intersect program.has_cfg
  /\ \A m \in DOMAIN summaries : summaries[m] \subseteq Methods
  /\ \A i \in DOMAIN frame_stack :
       frame_stack[i].has_been_inited => frame_stack[i].method_id \in program.has_cfg

\* The methods of a list are waiting, under way or analysed, from when run() comes
\* to the list.
NoneForgotten ==
  /\ phase = "direct" => MethodsWithDirectCall(groups) \subseteq todo \union analyzed \union OnStack
  /\ phase # "direct" => MethodsWithDirectCall(groups) \subseteq analyzed
  /\ phase = "dynamic" => MethodsWithDynamicCall(groups) \subseteq todo \union analyzed \union OnStack
  /\ phase = "done" => MethodsWithDynamicCall(groups) \subseteq analyzed /\ frame_stack = <<>> /\ todo = {}

\* The inductive invariant.
IInv ==
  /\ program \in Programs /\ InputOK
  /\ StackOK /\ OneFramePerMethod /\ VisitedCallsSolved
  /\ SummariesOK /\ NoneForgotten

-----------------------------------------------------------------------------
\* The lists P1 makes hold methods only.
LEMMA GroupsAreMethods ==
  ASSUME NEW p \in Programs, NEW g, g = GroupMethods(BasicCallGraph(p), Methods)
  PROVE  MethodsWithDirectCall(g) \subseteq Methods /\ MethodsWithDynamicCall(g) \subseteq Methods
<1> DEFINE E == BasicCallGraph(p)
<1>1. ASSUME NEW e \in E
      PROVE  e[1] \in Methods /\ e[2] \in Methods \union {DYNAMIC_METHOD, ERROR_METHOD}
  <2>1. IsProgram(p)
    BY ProgramAssumption
  <2>2. \A m \in Methods : \A s \in p.stmts[m] : FoundBy(p, s) \subseteq Methods
    <3>1. \A m \in Methods : \A s \in p.stmts[m] : s \in DOMAIN p.callees
      BY <2>1 DEF IsProgram
    <3>2. \A s \in DOMAIN p.callees : \A n \in 1..Rounds : p.callees[s][n] \subseteq Methods
      BY <2>1 DEF IsProgram
    <3> QED BY <3>1, <3>2 DEF FoundBy
  <2> QED BY <2>2 DEF BasicCallGraph, CallsOfKind
<1> HIDE DEF E
<1>2. NodesOf(E) \subseteq Methods \union {DYNAMIC_METHOD, ERROR_METHOD}
  BY <1>1 DEF NodesOf
<1>3. \A m : SuccessorsIn(E, m) # {} => m \in Methods
  BY <1>1 DEF SuccessorsIn
<1>4. \A m : SuccessorsIn(E, m) \subseteq Methods \union {DYNAMIC_METHOD, ERROR_METHOD}
  BY <1>1 DEF SuccessorsIn
<1>5. ERROR_METHOD # DYNAMIC_METHOD
  BY DEF ERROR_METHOD, DYNAMIC_METHOD
<1>6. ASSUME NEW n \in {DYNAMIC_METHOD, ERROR_METHOD}, NEW k \in {DYNAMIC_METHOD, ERROR_METHOD} \ {n}
      PROVE  k \notin Impacted(E, n)
  <2> DEFINE others == NodesOf(E) \ {k}
  <2>1. n \in others \/ n \notin NodesOf(E)
    OBVIOUS
  <2>2. \A e \in E : e[1] \in others
    BY <1>1, MethodsAssumption DEF NodesOf
  <2> QED BY <2>1, <2>2 DEF Impacted
<1>7. ASSUME NEW n \in {DYNAMIC_METHOD, ERROR_METHOD} PROVE Impacted(E, n) \ {n} \subseteq Methods
  BY <1>2, <1>5, <1>6 DEF Impacted
<1> DEFINE dynamic == Impacted(E, DYNAMIC_METHOD)
           error == Impacted(E, ERROR_METHOD)
           leaves == {m \in NodesOf(E) : SuccessorsIn(E, m) = {}}
           direct == (UNION {SuccessorsIn(E, m) : m \in dynamic \union error}) \ (dynamic \union error)
           mixed == {m \in dynamic \union error : SuccessorsIn(E, m) \intersect direct # {}}
<1>8. direct \ leaves \subseteq Methods
  <2>1. direct \subseteq NodesOf(E)
    BY DEF SuccessorsIn, NodesOf
  <2> QED BY <1>3, <2>1
<1>9. mixed \subseteq Methods
  BY <1>3
<1>10. /\ g.no_callees \subseteq Methods
       /\ g.only_direct_callees = direct \ leaves
       /\ g.mixed_direct_callees = mixed
       /\ g.only_dynamic_callees = (dynamic \ mixed) \ {DYNAMIC_METHOD}
       /\ g.containing_error_callees = error \ {ERROR_METHOD}
  BY DEF GroupMethods, E
<1> QED BY <1>7, <1>8, <1>9, <1>10 DEF MethodsWithDirectCall, MethodsWithDynamicCall

\* No method is in none of the lists.
LEMMA GroupsCoverMethods ==
  ASSUME NEW p, NEW g, g = GroupMethods(BasicCallGraph(p), Methods)
  PROVE  Methods \subseteq MethodsWithDirectCall(g) \union MethodsWithDynamicCall(g)
BY MethodsAssumption DEF GroupMethods, MethodsWithDirectCall, MethodsWithDynamicCall

-----------------------------------------------------------------------------
\* The frames of a stack, in terms of the methods they are for.
LEMMA FrameProperties ==
  ASSUME StackOK, NEW i \in DOMAIN frame_stack
  PROVE  /\ frame_stack[i] \in Frames
         /\ frame_stack[i].method_id \in Methods
         /\ frame_stack[i].has_been_inited \in BOOLEAN
         /\ frame_stack[i].stmt_counters \in [program.stmts[frame_stack[i].method_id] -> 0..Rounds]
         /\ frame_stack[i].passed_over \in [program.stmts[frame_stack[i].method_id] -> SUBSET (1..Rounds)]
         /\ frame_stack[i].effects \subseteq Methods
<1>1. frame_stack[i] \in Frames
  BY LenProperties, ElementOfSeq DEF StackOK
<1> QED BY <1>1 DEF Frames

\* A new frame has visited nothing.
LEMMA NewFrameProperties ==
  ASSUME NEW m \in Methods
  PROVE  /\ NewFrame(m) \in Frames
         /\ NewFrame(m).method_id = m
         /\ \A s \in program.stmts[m] : NewFrame(m).stmt_counters[s] = 0
<1>1. [s \in program.stmts[m] |-> 0] \in [program.stmts[m] -> 0..Rounds]
  BY RoundsAssumption
<1>2. NewFrame(m) \in [method_id : {m}, has_been_inited : BOOLEAN,
                       stmt_counters : [program.stmts[m] -> 0..Rounds],
                       passed_over : [program.stmts[m] -> SUBSET (1..Rounds)], effects : SUBSET Methods]
  BY <1>1 DEF NewFrame
<1> QED BY <1>2 DEF Frames, NewFrame

\* The frame at the top.
LEMMA TopProperties ==
  ASSUME StackOK, frame_stack # <<>>
  PROVE  /\ Len(frame_stack) \in Nat \ {0}
         /\ Len(frame_stack) \in DOMAIN frame_stack
         /\ DOMAIN frame_stack = 1..Len(frame_stack)
         /\ Top = frame_stack[Len(frame_stack)]
         /\ Top \in Frames
         /\ Top.method_id \in OnStack
         /\ Top.method_id \in Methods
<1>1. Len(frame_stack) \in Nat \ {0} /\ DOMAIN frame_stack = 1..Len(frame_stack)
  BY EmptySeq, LenProperties DEF StackOK
<1>2. Top = frame_stack[Len(frame_stack)]
  BY DEF Top, Last
<1> QED BY <1>1, <1>2, FrameProperties DEF OnStack

\* A frame popped from a stack with one frame per method takes its method away.
LEMMA PopFrame ==
  ASSUME StackOK, OneFramePerMethod, frame_stack # <<>>, frame_stack' = Below
  PROVE  /\ frame_stack' \in Seq(Frames)
         /\ DOMAIN frame_stack' = 1..(Len(frame_stack) - 1)
         /\ DOMAIN frame_stack' \subseteq DOMAIN frame_stack
         /\ \A i \in DOMAIN frame_stack' : frame_stack'[i] = frame_stack[i]
         /\ OnStack' = OnStack \ {Top.method_id}
<1>1. /\ frame_stack' \in Seq(Frames)
      /\ Len(frame_stack) \in Nat \ {0}
      /\ Len(frame_stack') = Len(frame_stack) - 1
      /\ \A i \in 1..(Len(frame_stack) - 1) : frame_stack'[i] = frame_stack[i]
  BY PopTop DEF Below, StackOK
<1>2. DOMAIN frame_stack' = 1..(Len(frame_stack) - 1)
  BY <1>1, LenProperties
<1>3. OnStack' = {frame_stack[i].method_id : i \in 1..(Len(frame_stack) - 1)}
  BY <1>1, <1>2 DEF OnStack
<1>4. /\ DOMAIN frame_stack = 1..Len(frame_stack)
      /\ Top = frame_stack[Len(frame_stack)]
      /\ \A i, j \in 1..Len(frame_stack) :
           frame_stack[i].method_id = frame_stack[j].method_id => i = j
  BY TopProperties DEF OneFramePerMethod
<1>5. OnStack' = OnStack \ {Top.method_id}
  <2>1. 1..Len(frame_stack) = (1..(Len(frame_stack) - 1)) \union {Len(frame_stack)}
    BY <1>1
  <2>2. Len(frame_stack) \notin 1..(Len(frame_stack) - 1)
    BY <1>1
  <2> DEFINE l == Len(frame_stack)
  <2> HIDE DEF l
  <2>3. OnStack = OnStack' \union {Top.method_id}
    <3>1. OnStack = {frame_stack[i].method_id : i \in (1..(l - 1)) \union {l}}
      BY <1>4, <2>1 DEF OnStack, l
    <3> QED BY <1>3, <1>4, <3>1 DEF l
  <2>4. Top.method_id \notin OnStack'
    <3> SUFFICES ASSUME NEW i \in 1..(l - 1), frame_stack[i].method_id = Top.method_id
                 PROVE  FALSE
      BY <1>3 DEF l
    <3>1. i \in 1..l /\ l \in 1..l
      BY <2>1 DEF l
    <3> QED BY <1>4, <2>2, <3>1 DEF l
  <2> QED BY <2>3, <2>4
<1> QED BY <1>1, <1>2, <1>4, <1>5

\* The frame at the top changes and stays that of its method.
LEMMA ChangeTop ==
  ASSUME StackOK, frame_stack # <<>>, NEW f \in Frames, f.method_id = Top.method_id,
         frame_stack' = Append(Below, f)
  PROVE  /\ frame_stack' \in Seq(Frames)
         /\ DOMAIN frame_stack' = DOMAIN frame_stack
         /\ frame_stack'[Len(frame_stack)] = f
         /\ \A i \in DOMAIN frame_stack : i # Len(frame_stack) => frame_stack'[i] = frame_stack[i]
         /\ \A i \in DOMAIN frame_stack : frame_stack'[i].method_id = frame_stack[i].method_id
         /\ OnStack' = OnStack
<1>1. /\ frame_stack' \in Seq(Frames)
      /\ Len(frame_stack') = Len(frame_stack)
      /\ frame_stack'[Len(frame_stack)] = f
      /\ \A i \in 1..(Len(frame_stack) - 1) : frame_stack'[i] = frame_stack[i]
  BY ReplaceTop DEF Below, StackOK
<1>2. DOMAIN frame_stack' = DOMAIN frame_stack /\ DOMAIN frame_stack = 1..Len(frame_stack)
  BY <1>1, LenProperties, TopProperties
<1>3. \A i \in DOMAIN frame_stack : i # Len(frame_stack) => frame_stack'[i] = frame_stack[i]
  BY <1>1, <1>2, TopProperties
<1>4. \A i \in DOMAIN frame_stack : frame_stack'[i].method_id = frame_stack[i].method_id
  BY <1>1, <1>3, TopProperties
<1> QED BY <1>1, <1>2, <1>3, <1>4 DEF OnStack

\* Frames are pushed for methods that had none.
LEMMA PushFrames ==
  ASSUME StackOK, NEW set \in SUBSET (Methods \ OnStack), set # {}, NEW order \in SetToSeqs(set),
         frame_stack' = frame_stack \o [i \in DOMAIN order |-> NewFrame(order[i])],
         OneFramePerMethod, UNCHANGED program
  PROVE  /\ frame_stack' \in Seq(Frames)
         /\ DOMAIN frame_stack \subseteq DOMAIN frame_stack'
         /\ \A i \in DOMAIN frame_stack : frame_stack'[i] = frame_stack[i]
         /\ \A i \in DOMAIN frame_stack' \ DOMAIN frame_stack :
              \E m \in set : frame_stack'[i] = NewFrame(m)
         /\ \A i, j \in DOMAIN frame_stack' :
              frame_stack'[i].method_id = frame_stack'[j].method_id => i = j
         /\ OnStack \subseteq OnStack' /\ OnStack' \subseteq OnStack \union set
         /\ OnStack' \intersect set # {}
<1> DEFINE n == Len(frame_stack)
           k == Len(order)
           pushed == [i \in DOMAIN order |-> NewFrame(order[i])]
<1>1. IsFiniteSet(set)
  BY MethodsAssumption, FS_Subset
<1>2. /\ k \in Nat \ {0} /\ DOMAIN order = 1..k
      /\ \A i \in 1..k : order[i] \in set
      /\ \A i, j \in 1..k : order[i] = order[j] => i = j
  BY <1>1, OrderProperties, ElementOfSeq
<1>3. pushed \in Seq(Frames) /\ Len(pushed) = k /\ \A i \in 1..k : pushed[i] = NewFrame(order[i])
  BY <1>2, NewFrameProperties
<1>4. n \in Nat /\ DOMAIN frame_stack = 1..n
  BY LenProperties DEF StackOK
<1>5. /\ frame_stack' \in Seq(Frames)
      /\ Len(frame_stack') = n + k
      /\ \A i \in 1..(n + k) : frame_stack'[i] = IF i <= n THEN frame_stack[i] ELSE pushed[i - n]
  BY <1>3, ConcatProperties DEF StackOK
<1>6. DOMAIN frame_stack' = 1..(n + k)
  BY <1>5, LenProperties
<1>7. \A i \in 1..n : frame_stack'[i] = frame_stack[i]
  BY <1>2, <1>4, <1>5
<1>8. \A i \in (1..(n + k)) \ (1..n) :
        /\ i - n \in 1..k
        /\ frame_stack'[i] = NewFrame(order[i - n])
        /\ frame_stack'[i].method_id = order[i - n]
  <2> SUFFICES ASSUME NEW i \in (1..(n + k)) \ (1..n)
               PROVE  /\ i - n \in 1..k
                      /\ frame_stack'[i] = NewFrame(order[i - n])
                      /\ frame_stack'[i].method_id = order[i - n]
    OBVIOUS
  <2>1. i - n \in 1..k /\ ~(i <= n)
    BY <1>2, <1>4
  <2>2. frame_stack'[i] = NewFrame(order[i - n])
    BY <1>3, <1>5, <2>1
  <2> QED BY <1>2, <2>1, <2>2, NewFrameProperties
<1>9. \A i \in 1..n : frame_stack'[i].method_id \in OnStack
  BY <1>4, <1>7 DEF OnStack
<1>10. \A i \in (1..(n + k)) \ (1..n) : frame_stack'[i].method_id \in set
  BY <1>2, <1>8
<1>11. ASSUME NEW i \in 1..(n + k), NEW j \in 1..(n + k),
              frame_stack'[i].method_id = frame_stack'[j].method_id
       PROVE  i = j
  <2>1. CASE i \in 1..n /\ j \in 1..n
    BY <1>4, <1>7, <1>11, <2>1 DEF OneFramePerMethod
  <2>2. CASE i \notin 1..n /\ j \notin 1..n
    <3>1. i - n = j - n
      BY <1>2, <1>8, <1>11, <2>2
    <3> QED BY <3>1, <1>4
  <2>3. CASE (i \in 1..n) # (j \in 1..n)
    BY <1>9, <1>10, <1>11, <2>3
  <2> QED BY <2>1, <2>2, <2>3
<1>12. OnStack \subseteq OnStack' /\ OnStack' \subseteq OnStack \union set
  <2>1. 1..n \subseteq 1..(n + k)
    BY <1>2, <1>4
  <2>2. OnStack \subseteq OnStack'
    BY <1>4, <1>6, <1>7, <2>1 DEF OnStack
  <2>3. OnStack' \subseteq OnStack \union set
    BY <1>6, <1>9, <1>10 DEF OnStack
  <2> QED BY <2>2, <2>3
<1>13. OnStack' \intersect set # {}
  <2>1. n + 1 \in (1..(n + k)) \ (1..n)
    BY <1>2, <1>4
  <2> QED BY <1>6, <1>10, <2>1 DEF OnStack
<1>14. 1..n \subseteq 1..(n + k)
  BY <1>2, <1>4
<1>15. \A i \in (1..(n + k)) \ (1..n) : \E m \in set : frame_stack'[i] = NewFrame(m)
  BY <1>2, <1>8
<1> HIDE DEF n, k, pushed
<1> QED BY <1>4, <1>5, <1>6, <1>7, <1>11, <1>12, <1>13, <1>14, <1>15

-----------------------------------------------------------------------------
\* The state run() starts from.
LEMMA InvInit == Init => IInv
<1> SUFFICES ASSUME Init PROVE IInv
  OBVIOUS
<1>1. program \in Programs /\ InputOK
  BY ProgramAssumption DEF Init, InputOK
<1>2. frame_stack = <<>> /\ DOMAIN frame_stack = {} /\ OnStack = {} /\ frame_stack \in Seq(Frames)
  BY EmptySeq, LenProperties DEF Init, OnStack
<1>3. DOMAIN summaries = {}
  BY EmptySeq, LenProperties DEF Init
<1>4. StackOK
  BY <1>1, <1>2, GroupsAreMethods DEF Init, StackOK, InputOK
<1>5. OneFramePerMethod /\ VisitedCallsSolved /\ SummariesOK
  BY <1>2, <1>3 DEF Init, OneFramePerMethod, VisitedCallsSolved, SummariesOK
<1>6. NoneForgotten
  BY DEF Init, NoneForgotten
<1> QED BY <1>1, <1>4, <1>5, <1>6 DEF IInv

\* Steps that add frames keep the invariant.
LEMMA InvPush ==
  ASSUME IInv, NEW set \in SUBSET (Methods \ (OnStack \union analyzed)), set # {},
         NEW order \in SetToSeqs(set),
         frame_stack' = frame_stack \o [i \in DOMAIN order |-> NewFrame(order[i])],
         phase # "done", UNCHANGED <<input, phase, analyzed, summaries>>,
         todo' \subseteq todo, todo \ todo' \subseteq OnStack'
  PROVE  IInv'
<1> USE DEF IInv, input
<1>1. /\ frame_stack' \in Seq(Frames)
      /\ DOMAIN frame_stack \subseteq DOMAIN frame_stack'
      /\ \A i \in DOMAIN frame_stack : frame_stack'[i] = frame_stack[i]
      /\ \A i \in DOMAIN frame_stack' \ DOMAIN frame_stack :
           \E m \in set : frame_stack'[i] = NewFrame(m)
      /\ \A i, j \in DOMAIN frame_stack' :
           frame_stack'[i].method_id = frame_stack'[j].method_id => i = j
      /\ OnStack \subseteq OnStack' /\ OnStack' \subseteq OnStack \union set
  BY PushFrames
<1>2. program' \in Programs /\ InputOK'
  BY DEF InputOK
<1>3. StackOK'
  BY <1>1 DEF StackOK, Frames
<1>4. OneFramePerMethod'
  BY <1>1 DEF OneFramePerMethod
<1>5. VisitedCallsSolved'
  <2> SUFFICES ASSUME NEW i \in DOMAIN frame_stack',
                      NEW s \in program.stmts[frame_stack'[i].method_id],
                      frame_stack'[i].stmt_counters[s] > 0
               PROVE  program.callees[s][1] \subseteq analyzed \union OnStack'
    BY DEF VisitedCallsSolved
  <2>1. CASE i \in DOMAIN frame_stack
    BY <1>1, <2>1 DEF VisitedCallsSolved
  <2>2. CASE i \notin DOMAIN frame_stack
    <3>1. PICK m \in set : frame_stack'[i] = NewFrame(m)
      BY <1>1, <2>2
    <3> QED BY <3>1, NewFrameProperties
  <2> QED BY <2>1, <2>2
<1>6. SummariesOK'
  <2> SUFFICES ASSUME NEW i \in DOMAIN frame_stack', frame_stack'[i].has_been_inited
               PROVE  frame_stack'[i].method_id \in program.has_cfg
    BY DEF SummariesOK
  <2>1. CASE i \in DOMAIN frame_stack
    BY <1>1, <2>1 DEF SummariesOK
  <2>2. CASE i \notin DOMAIN frame_stack
    BY <1>1, <2>2 DEF NewFrame
  <2> QED BY <2>1, <2>2
<1>7. NoneForgotten'
  BY <1>1 DEF NoneForgotten
<1> QED BY <1>2, <1>3, <1>4, <1>5, <1>6, <1>7

\* Steps that change the frame at the top keep the invariant.
LEMMA InvChange ==
  ASSUME IInv, frame_stack # <<>>, NEW f \in Frames, f.method_id = Top.method_id,
         frame_stack' = Append(Below, f),
         UNCHANGED <<input, phase, todo, analyzed, summaries>>,
         f.has_been_inited => Top.method_id \in program.has_cfg,
         \A s \in program.stmts[Top.method_id] :
           f.stmt_counters[s] > 0 => program.callees[s][1] \subseteq analyzed \union OnStack
  PROVE  IInv'
<1> USE DEF IInv, input
<1>1. /\ frame_stack' \in Seq(Frames)
      /\ DOMAIN frame_stack' = DOMAIN frame_stack
      /\ frame_stack'[Len(frame_stack)] = f
      /\ \A i \in DOMAIN frame_stack : i # Len(frame_stack) => frame_stack'[i] = frame_stack[i]
      /\ \A i \in DOMAIN frame_stack : frame_stack'[i].method_id = frame_stack[i].method_id
      /\ OnStack' = OnStack
  BY ChangeTop
<1>2. program' \in Programs /\ InputOK'
  BY DEF InputOK
<1>3. StackOK'
  BY <1>1 DEF StackOK, Frames
<1>4. OneFramePerMethod'
  BY <1>1 DEF OneFramePerMethod
<1>5. VisitedCallsSolved'
  BY <1>1 DEF VisitedCallsSolved
<1>6. SummariesOK'
  BY <1>1 DEF SummariesOK
<1>7. NoneForgotten'
  <2>1. phase # "done"
    BY DEF NoneForgotten
  <2> QED BY <1>1, <2>1 DEF NoneForgotten
<1> QED BY <1>2, <1>3, <1>4, <1>5, <1>6, <1>7

\* Steps that end the frame at the top keep the invariant.
LEMMA InvPop ==
  ASSUME IInv, frame_stack # <<>>, frame_stack' = Below,
         analyzed' = analyzed \union {Top.method_id},
         UNCHANGED <<input, phase, todo>>, SummariesOK'
  PROVE  IInv'
<1> USE DEF IInv, input
<1>1. /\ frame_stack' \in Seq(Frames)
      /\ DOMAIN frame_stack' \subseteq DOMAIN frame_stack
      /\ \A i \in DOMAIN frame_stack' : frame_stack'[i] = frame_stack[i]
      /\ OnStack' = OnStack \ {Top.method_id}
  BY PopFrame
<1>2. program' \in Programs /\ InputOK'
  BY DEF InputOK
<1>3. StackOK'
  BY <1>1, TopProperties DEF StackOK, Frames
<1>4. OneFramePerMethod'
  BY <1>1 DEF OneFramePerMethod
<1>5. VisitedCallsSolved'
  <2>1. analyzed \union OnStack \subseteq analyzed' \union OnStack'
    BY <1>1
  <2> QED BY <1>1, <2>1 DEF VisitedCallsSolved
<1>6. NoneForgotten'
  <2>1. phase # "done"
    BY DEF NoneForgotten
  <2> QED BY <1>1, <2>1 DEF NoneForgotten
<1> QED BY <1>2, <1>3, <1>4, <1>5, <1>6

-----------------------------------------------------------------------------
\* What the call visited next resolves to, and in which round.
LEMMA CalleesAreMethods ==
  ASSUME IInv, frame_stack # <<>>, NEW s \in program.stmts[Top.method_id],
         Top.stmt_counters[s] < Rounds
  PROVE  /\ Top.stmt_counters[s] \in Nat
         /\ Top.stmt_counters[s] + 1 \in 1..Rounds
         /\ CalleesNow(s) = program.callees[s][Top.stmt_counters[s] + 1]
         /\ CalleesNow(s) \subseteq Methods
         /\ Unsolved(s) \in SUBSET (Methods \ (OnStack \union analyzed))
<1>1. /\ Top.method_id \in Methods
      /\ Top.stmt_counters \in [program.stmts[Top.method_id] -> 0..Rounds]
  BY TopProperties, FrameProperties DEF IInv
<1>2. Top.stmt_counters[s] \in 0..Rounds
  BY <1>1
<1>3. Top.stmt_counters[s] \in Nat /\ Top.stmt_counters[s] + 1 \in 1..Rounds
  BY <1>2, RoundsAssumption
<1>4. program.callees[s] \in [1..Rounds -> SUBSET Methods]
  BY <1>1 DEF IInv, InputOK, IsProgram
<1>5. CalleesNow(s) \subseteq Methods
  BY <1>3, <1>4 DEF CalleesNow
<1> QED BY <1>3, <1>5 DEF CalleesNow, Unsolved

\* The frame at the top once init_compute_frame has run.
LEMMA InitedFrame ==
  ASSUME NEW t \in Frames
  PROVE  LET f == [t EXCEPT !.has_been_inited = TRUE]
         IN  f \in Frames /\ f.method_id = t.method_id /\ f.stmt_counters = t.stmt_counters
             /\ f.passed_over = t.passed_over /\ f.effects = t.effects /\ f.has_been_inited = TRUE
<1> DEFINE f == [t EXCEPT !.has_been_inited = TRUE]
<1>1. PICK m \in Methods :
        t \in [method_id : {m}, has_been_inited : BOOLEAN,
              stmt_counters : [program.stmts[m] -> 0..Rounds],
              passed_over : [program.stmts[m] -> SUBSET (1..Rounds)], effects : SUBSET Methods]
  BY DEF Frames
<1>2. f \in [method_id : {m}, has_been_inited : BOOLEAN,
             stmt_counters : [program.stmts[m] -> 0..Rounds],
             passed_over : [program.stmts[m] -> SUBSET (1..Rounds)], effects : SUBSET Methods]
      /\ f.method_id = t.method_id /\ f.stmt_counters = t.stmt_counters
      /\ f.passed_over = t.passed_over /\ f.effects = t.effects /\ f.has_been_inited = TRUE
  BY <1>1
<1> QED BY <1>2 DEF Frames

\* The frame at the top after a visit of the call s.
Visited(s) == [Top EXCEPT !.stmt_counters[s] = @ + 1, !.effects = @ \union Applied(s)]

\* A visit of a call leaves a frame of the same method, with one round more.
LEMMA VisitedFrame ==
  ASSUME IInv, frame_stack # <<>>, NEW s \in program.stmts[Top.method_id],
         Top.stmt_counters[s] < Rounds
  PROVE  /\ Visited(s) \in Frames /\ Visited(s).method_id = Top.method_id
         /\ Visited(s).has_been_inited = Top.has_been_inited
         /\ Visited(s).stmt_counters = [Top.stmt_counters EXCEPT ![s] = @ + 1]
         /\ Visited(s).passed_over = Top.passed_over
         /\ Visited(s).effects = Top.effects \union Applied(s)
<1>1. Top \in Frames
  BY TopProperties DEF IInv
<1>2. PICK m \in Methods :
        Top \in [method_id : {m}, has_been_inited : BOOLEAN,
                 stmt_counters : [program.stmts[m] -> 0..Rounds],
                 passed_over : [program.stmts[m] -> SUBSET (1..Rounds)], effects : SUBSET Methods]
  BY <1>1 DEF Frames
<1>3. Applied(s) \subseteq Methods
  BY DEF Applied, IInv, SummariesOK
<1> DEFINE counters == [Top.stmt_counters EXCEPT ![s] = @ + 1]
           effects == Top.effects \union Applied(s)
           g == [Top EXCEPT !.stmt_counters = counters, !.effects = effects]
<1>4. Visited(s) = g
  BY DEF Visited
<1>5. counters \in [program.stmts[m] -> 0..Rounds] /\ effects \in SUBSET Methods
  BY <1>2, <1>3, RoundsAssumption
<1> HIDE DEF counters, effects
<1>6. g \in [method_id : {m}, has_been_inited : BOOLEAN,
             stmt_counters : [program.stmts[m] -> 0..Rounds],
             passed_over : [program.stmts[m] -> SUBSET (1..Rounds)], effects : SUBSET Methods]
      /\ g.method_id = Top.method_id /\ g.has_been_inited = Top.has_been_inited
      /\ g.stmt_counters = counters /\ g.passed_over = Top.passed_over /\ g.effects = effects
  BY <1>2, <1>5
<1>7. Visited(s) \in Frames
  BY <1>4, <1>6 DEF Frames
<1> QED BY <1>4, <1>6, <1>7 DEF counters, effects

\* The frame at the top after the call s has been passed over.
Passed(s) ==
  [Top EXCEPT !.stmt_counters[s] = @ + 1,
              !.passed_over[s] = @ \union {Top.stmt_counters[s] + 1}]

\* A call passed over leaves a frame of the same method, with one round more, and
\* remembers which.
LEMMA PassedFrame ==
  ASSUME IInv, frame_stack # <<>>, NEW s \in program.stmts[Top.method_id],
         Top.stmt_counters[s] < Rounds
  PROVE  /\ Passed(s) \in Frames /\ Passed(s).method_id = Top.method_id
         /\ Passed(s).has_been_inited = Top.has_been_inited
         /\ Passed(s).stmt_counters = [Top.stmt_counters EXCEPT ![s] = @ + 1]
         /\ Passed(s).passed_over =
              [Top.passed_over EXCEPT ![s] = @ \union {Top.stmt_counters[s] + 1}]
         /\ Passed(s).effects = Top.effects
<1>1. Top \in Frames /\ Top.stmt_counters[s] + 1 \in 1..Rounds
  BY TopProperties, CalleesAreMethods DEF IInv
<1>2. PICK m \in Methods :
        Top \in [method_id : {m}, has_been_inited : BOOLEAN,
                 stmt_counters : [program.stmts[m] -> 0..Rounds],
                 passed_over : [program.stmts[m] -> SUBSET (1..Rounds)], effects : SUBSET Methods]
  BY <1>1 DEF Frames
<1> DEFINE counters == [Top.stmt_counters EXCEPT ![s] = @ + 1]
           passed == [Top.passed_over EXCEPT ![s] = @ \union {Top.stmt_counters[s] + 1}]
           g == [Top EXCEPT !.stmt_counters = counters, !.passed_over = passed]
<1>3. Passed(s) = g
  BY DEF Passed
<1>4. counters \in [program.stmts[m] -> 0..Rounds]
  BY <1>2, RoundsAssumption
<1>5. passed \in [program.stmts[m] -> SUBSET (1..Rounds)]
  BY <1>1, <1>2
<1> HIDE DEF counters, passed
<1>6. g \in [method_id : {m}, has_been_inited : BOOLEAN,
             stmt_counters : [program.stmts[m] -> 0..Rounds],
             passed_over : [program.stmts[m] -> SUBSET (1..Rounds)], effects : SUBSET Methods]
      /\ g.method_id = Top.method_id /\ g.has_been_inited = Top.has_been_inited
      /\ g.stmt_counters = counters /\ g.passed_over = passed /\ g.effects = Top.effects
  BY <1>2, <1>4, <1>5
<1>7. Passed(s) \in Frames
  BY <1>3, <1>6 DEF Frames
<1> QED BY <1>3, <1>6, <1>7 DEF counters, passed

\* One frame is pushed on an empty stack.
LEMMA PushOne ==
  ASSUME NEW m, frame_stack = <<>>, frame_stack' = <<NewFrame(m)>>
  PROVE  \E order \in SetToSeqs({m}) :
           frame_stack' = frame_stack \o [i \in DOMAIN order |-> NewFrame(order[i])]
<1>1. Cardinality({m}) = 1
  BY FS_Singleton
<1> DEFINE order == [i \in 1..1 |-> m]
<1>2. order \in SetToSeqs({m})
  <2>1. order \in [1..Cardinality({m}) -> {m}]
    BY <1>1
  <2>2. \A i, j \in DOMAIN order : i # j => order[i] # order[j]
    OBVIOUS
  <2>3. SetToSeqs({m}) =
          {f \in [1..Cardinality({m}) -> {m}] : \A i, j \in DOMAIN f : i # j => f[i] # f[j]}
    BY Zenon DEF SetToSeqs, IsInjective
  <2> QED BY <2>1, <2>2, <2>3
<1>3. <<NewFrame(m)>> = [i \in DOMAIN order |-> NewFrame(order[i])]
  OBVIOUS
<1>4. <<NewFrame(m)>> \in Seq({NewFrame(m)})
  OBVIOUS
<1>5. frame_stack \o <<NewFrame(m)>> = <<NewFrame(m)>>
  BY <1>4, ConcatEmptySeq
<1> QED BY <1>2, <1>3, <1>5

\* Every step of the phase keeps the invariant.
LEMMA InvStep == IInv /\ [Next]_vars => IInv'
<1> SUFFICES ASSUME IInv, [Next]_vars PROVE IInv'
  OBVIOUS
<1>0. StackOK /\ OneFramePerMethod
  BY DEF IInv
<1>1. ASSUME NEW m \in Methods, TakeMethod(m) PROVE IInv'
  <2>1. phase # "done"
    BY <1>1 DEF TakeMethod, IInv, NoneForgotten
  <2>2. CASE m \in analyzed
    BY <1>1, <2>1, <2>2 DEF TakeMethod, IInv, input, InputOK, StackOK, Frames, OneFramePerMethod,
       VisitedCallsSolved, SummariesOK, NoneForgotten, OnStack
  <2>3. CASE m \notin analyzed
    <3>1. frame_stack = <<>> /\ frame_stack' = <<NewFrame(m)>>
      BY <1>1, <2>3 DEF TakeMethod
    <3>2. OnStack = {}
      BY <3>1, EmptySeq, LenProperties DEF OnStack
    <3>3. PICK order \in SetToSeqs({m}) :
            frame_stack' = frame_stack \o [i \in DOMAIN order |-> NewFrame(order[i])]
      BY <3>1, PushOne
    <3>4. UNCHANGED <<input, phase, analyzed, summaries>> /\ todo' = todo \ {m}
      BY <1>1 DEF TakeMethod
    <3>5. {m} \in SUBSET (Methods \ (OnStack \union analyzed)) /\ {m} # {}
      BY <2>3, <3>2
    <3>6. OnStack' \intersect {m} # {}
      BY <1>0, <3>3, <3>4, <3>5, PushFrames DEF input
    <3> QED BY <2>1, <3>3, <3>4, <3>5, <3>6, InvPush
  <2> QED BY <2>2, <2>3
<1>2. CASE TakeGroup
  <2>1. /\ frame_stack = <<>> /\ frame_stack' = <<>> /\ todo = {} /\ OnStack = {} /\ OnStack' = {}
        /\ DOMAIN frame_stack = {}
    BY <1>2, EmptySeq, LenProperties DEF TakeGroup, OnStack
  <2>2. MethodsWithDynamicCall(groups) \subseteq Methods
    BY GroupsAreMethods DEF IInv, InputOK
  <2>3. StackOK' /\ InputOK' /\ program' \in Programs
    BY <1>2, <2>1, <2>2 DEF TakeGroup, IInv, input, StackOK, InputOK, Frames
  <2>4. OneFramePerMethod' /\ VisitedCallsSolved' /\ SummariesOK'
    BY <1>2, <2>1 DEF TakeGroup, IInv, input, OneFramePerMethod, VisitedCallsSolved, SummariesOK
  <2>5. NoneForgotten'
    BY <1>2, <2>1 DEF TakeGroup, IInv, input, NoneForgotten, StackOK
  <2> QED BY <2>3, <2>4, <2>5 DEF IInv
<1>3. CASE InitFrame
  <2> DEFINE f == [Top EXCEPT !.has_been_inited = TRUE]
  <2>1. frame_stack # <<>> /\ Top.method_id \in program.has_cfg
        /\ frame_stack' = Append(Below, f)
        /\ UNCHANGED <<input, phase, todo, analyzed, summaries>>
    BY <1>3 DEF InitFrame
  <2>2. Top \in Frames /\ Top = frame_stack[Len(frame_stack)] /\ Len(frame_stack) \in DOMAIN frame_stack
    BY <1>0, <2>1, TopProperties
  <2>3. f \in Frames /\ f.method_id = Top.method_id /\ f.stmt_counters = Top.stmt_counters
    BY <2>2, InitedFrame
  <2>4. \A s \in program.stmts[Top.method_id] :
          f.stmt_counters[s] > 0 => program.callees[s][1] \subseteq analyzed \union OnStack
    BY <2>2, <2>3 DEF IInv, VisitedCallsSolved
  <2> HIDE DEF f
  <2> QED BY <2>1, <2>3, <2>4, InvChange
<1>4. CASE InitFails
  <2>1. frame_stack # <<>> /\ frame_stack' = Below /\ Top.method_id \notin program.has_cfg
        /\ analyzed' = analyzed \union {Top.method_id}
        /\ UNCHANGED <<input, phase, todo, summaries>>
    BY <1>4 DEF InitFails
  <2>2. /\ DOMAIN frame_stack' \subseteq DOMAIN frame_stack
        /\ \A i \in DOMAIN frame_stack' : frame_stack'[i] = frame_stack[i]
    BY <1>0, <2>1, PopFrame
  <2>3. SummariesOK'
    BY <2>1, <2>2 DEF IInv, SummariesOK, input
  <2> QED BY <2>1, <2>3, InvPop
<1>5. ASSUME NEW s \in DOMAIN program.callees, VisitCall(s) PROVE IInv'
  <2> DEFINE f == Visited(s)
  <2>1. /\ frame_stack # <<>> /\ Top.has_been_inited /\ s \in program.stmts[Top.method_id]
        /\ Top.stmt_counters[s] < Rounds /\ Unsolved(s) = {}
        /\ frame_stack' = Append(Below, f)
        /\ UNCHANGED <<input, phase, todo, analyzed, summaries>>
    BY <1>5 DEF VisitCall, Visitable, Visited
  <2>2. /\ Top = frame_stack[Len(frame_stack)]
        /\ Len(frame_stack) \in DOMAIN frame_stack /\ Top.method_id \in Methods
        /\ Top.stmt_counters \in [program.stmts[Top.method_id] -> 0..Rounds]
    BY <1>0, <2>1, TopProperties, FrameProperties
  <2>3. /\ f \in Frames /\ f.method_id = Top.method_id
        /\ f.has_been_inited = Top.has_been_inited
        /\ f.stmt_counters = [Top.stmt_counters EXCEPT ![s] = @ + 1]
    BY <2>1, VisitedFrame
  <2>4. f.has_been_inited => Top.method_id \in program.has_cfg
    BY <2>2, <2>3 DEF IInv, SummariesOK
  <2>5. ASSUME NEW t \in program.stmts[Top.method_id], f.stmt_counters[t] > 0
        PROVE  program.callees[t][1] \subseteq analyzed \union OnStack
    <3>1. CASE t = s /\ Top.stmt_counters[s] = 0
      <4>1. CalleesNow(s) = program.callees[s][1]
        BY <3>1 DEF CalleesNow
      <4> QED BY <2>1, <3>1, <4>1 DEF Unsolved
    <3>2. CASE t # s \/ Top.stmt_counters[s] # 0
      <4>1. Top.stmt_counters[t] > 0
        BY <2>1, <2>2, <2>3, <2>5, <3>2
      <4> QED BY <2>2, <2>3, <4>1 DEF IInv, VisitedCallsSolved
    <3> QED BY <3>1, <3>2
  <2> HIDE DEF f
  <2> QED BY <2>1, <2>3, <2>4, <2>5, InvChange
<1>6. ASSUME NEW s \in DOMAIN program.callees, Interrupt(s) PROVE IInv'
  <2>1. /\ frame_stack # <<>> /\ s \in program.stmts[Top.method_id]
        /\ Top.stmt_counters[s] < Rounds /\ Unsolved(s) # {}
        /\ UNCHANGED <<input, phase, todo, analyzed, summaries>>
    BY <1>6 DEF Interrupt, Visitable
  <2>2. PICK order \in SetToSeqs(Unsolved(s)) :
          frame_stack' = frame_stack \o [i \in DOMAIN order |-> NewFrame(order[i])]
    BY <1>6 DEF Interrupt
  <2>3. Unsolved(s) \in SUBSET (Methods \ (OnStack \union analyzed))
    BY <2>1, CalleesAreMethods
  <2>4. phase # "done"
    BY <2>1 DEF IInv, NoneForgotten
  <2> QED BY <2>1, <2>2, <2>3, <2>4, InvPush
<1>7. CASE FinishMethod
  <2>1. /\ frame_stack # <<>> /\ frame_stack' = Below /\ Top.has_been_inited
        /\ analyzed' = analyzed \union {Top.method_id}
        /\ summaries' = WithSummary(Top.method_id, Top.effects)
        /\ UNCHANGED <<input, phase, todo>>
    BY <1>7 DEF FinishMethod
  <2>2. /\ DOMAIN frame_stack' \subseteq DOMAIN frame_stack
        /\ \A i \in DOMAIN frame_stack' : frame_stack'[i] = frame_stack[i]
    BY <1>0, <2>1, PopFrame
  <2>3. Top.method_id \in program.has_cfg /\ Top.effects \subseteq Methods
    BY <1>0, <2>1, TopProperties, FrameProperties DEF IInv, SummariesOK
  <2>4. DOMAIN summaries' = DOMAIN summaries \union {Top.method_id}
        /\ \A m \in DOMAIN summaries' :
             summaries'[m] = IF m = Top.method_id THEN Top.effects ELSE summaries[m]
    BY <2>1 DEF WithSummary
  <2>5. SummariesOK'
    BY <2>1, <2>2, <2>3, <2>4 DEF IInv, SummariesOK, input
  <2> QED BY <2>1, <2>5, InvPop
<1>8. ASSUME NEW s \in DOMAIN program.callees, PassOver(s) PROVE IInv'
  <2> DEFINE f == Passed(s)
  <2>1. /\ frame_stack # <<>> /\ Top.has_been_inited /\ s \in program.stmts[Top.method_id]
        /\ Top.stmt_counters[s] < Rounds /\ Top.stmt_counters[s] > 0
        /\ frame_stack' = Append(Below, f)
        /\ UNCHANGED <<input, phase, todo, analyzed, summaries>>
    BY <1>8 DEF PassOver, Visitable, Passed
  <2>2. /\ Top = frame_stack[Len(frame_stack)]
        /\ Len(frame_stack) \in DOMAIN frame_stack /\ Top.method_id \in Methods
        /\ Top.stmt_counters \in [program.stmts[Top.method_id] -> 0..Rounds]
    BY <1>0, <2>1, TopProperties, FrameProperties
  <2>3. /\ f \in Frames /\ f.method_id = Top.method_id
        /\ f.has_been_inited = Top.has_been_inited
        /\ f.stmt_counters = [Top.stmt_counters EXCEPT ![s] = @ + 1]
    BY <2>1, PassedFrame
  <2>4. f.has_been_inited => Top.method_id \in program.has_cfg
    BY <2>2, <2>3 DEF IInv, SummariesOK
  <2>5. ASSUME NEW t \in program.stmts[Top.method_id], f.stmt_counters[t] > 0
        PROVE  program.callees[t][1] \subseteq analyzed \union OnStack
    <3>1. Top.stmt_counters[t] > 0
      BY <2>1, <2>2, <2>3, <2>5
    <3> QED BY <2>2, <3>1 DEF IInv, VisitedCallsSolved
  <2> HIDE DEF f
  <2> QED BY <2>1, <2>3, <2>4, <2>5, InvChange
<1>9. CASE UNCHANGED vars
  BY <1>9 DEF vars, input, IInv, InputOK, StackOK, Frames, OneFramePerMethod, VisitedCallsSolved,
     SummariesOK, NoneForgotten, OnStack
<1> QED BY <1>1, <1>2, <1>3, <1>4, <1>5, <1>6, <1>7, <1>8, <1>9 DEF Next

\* The inductive invariant holds of every program.
THEOREM InductiveInvariant == Spec => []IInv
<1>1. Init => IInv
  BY InvInit
<1>2. IInv /\ [Next]_vars => IInv'
  BY InvStep
<1> QED BY <1>1, <1>2, PTL DEF Spec

\* Type correctness: no frame visits a call more often than the rounds allow.
THEOREM TypeCorrect == Spec => []TypeOK
<1>1. IInv => TypeOK
  BY DEF IInv, InputOK, StackOK, SummariesOK, TypeOK
<1> QED BY <1>1, InductiveInvariant, PTL

\* Whatever the call graph is, recursive or not, no method has two frames.
THEOREM OneFrame == Spec => []OneFramePerMethod
<1>1. IInv => OneFramePerMethod
  BY DEF IInv
<1> QED BY <1>1, InductiveInvariant, PTL

\* No method is left out by the groups, and each one with a body has a summary.
THEOREM AllAnalysed == Spec => []EveryMethodAnalysed
<1>1. IInv => EveryMethodAnalysed
  <2> SUFFICES ASSUME IInv, phase = "done"
               PROVE  analyzed = Methods /\ DOMAIN summaries = program.has_cfg
    BY DEF EveryMethodAnalysed
  <2>1. Methods \subseteq analyzed
    BY GroupsCoverMethods DEF IInv, InputOK, NoneForgotten
  <2>2. program.has_cfg \subseteq Methods
    BY DEF IInv, InputOK, IsProgram
  <2> QED BY <2>1, <2>2 DEF IInv, StackOK, SummariesOK
<1> QED BY <1>1, InductiveInvariant, PTL

-----------------------------------------------------------------------------
\* A step that only ends the frame at the top summarises its method.
LEMMA PopSummarises ==
  ASSUME IInv, frame_stack # <<>>, frame_stack' = Below,
         analyzed' = analyzed \union {Top.method_id}, UNCHANGED input,
         FirstCallees(program)[Top.method_id] \subseteq analyzed \union OnStack
  PROVE  \E m \in Methods : Bottom!Summarise(m)
<1>1. OnStack' = OnStack \ {Top.method_id}
  BY PopFrame DEF IInv
<1>2. Top.method_id \in Methods /\ Top.method_id \in OnStack
  BY TopProperties DEF IInv
<1>3. Top.method_id \notin analyzed
  BY <1>2 DEF IInv, OneFramePerMethod
<1>4. analyzed' \union OnStack' = analyzed \union OnStack
  BY <1>1, <1>2
<1>5. FirstCallees(program)' = FirstCallees(program)
  BY DEF FirstCallees, input
<1>6. Bottom!Summarise(Top.method_id)
  BY <1>2, <1>3, <1>4, <1>5 DEF Bottom!Summarise
<1> QED BY <1>2, <1>6

\* A step that pushes frames for methods starts some of them.
LEMMA PushStarts ==
  ASSUME IInv, NEW set \in SUBSET (Methods \ (OnStack \union analyzed)), set # {},
         NEW order \in SetToSeqs(set),
         frame_stack' = frame_stack \o [i \in DOMAIN order |-> NewFrame(order[i])],
         UNCHANGED <<input, analyzed>>
  PROVE  Bottom!Start
<1>1. /\ OnStack \subseteq OnStack' /\ OnStack' \subseteq OnStack \union set
      /\ OnStack' \intersect set # {}
  BY PushFrames DEF IInv, input
<1> DEFINE new == OnStack' \intersect set
<1>2. new \in SUBSET (Methods \ (analyzed \union OnStack)) /\ new # {}
  BY <1>1
<1>3. analyzed' \union OnStack' = (analyzed \union OnStack) \union new
  BY <1>1
<1>4. FirstCallees(program)' = FirstCallees(program)
  BY DEF FirstCallees, input
<1> HIDE DEF new
<1> QED BY <1>2, <1>3, <1>4 DEF Bottom!Start

\* Every step is a step of BottomUp or leaves its state alone.
LEMMA StepIsBottomUp ==
  IInv /\ [Next]_vars => [Bottom!Next]_<<FirstCallees(program), analyzed \union OnStack, analyzed>>
<1> DEFINE Stutter == UNCHANGED <<FirstCallees(program), analyzed \union OnStack, analyzed>>
<1> SUFFICES ASSUME IInv, [Next]_vars PROVE Bottom!Next \/ Stutter
  OBVIOUS
<1>0. StackOK /\ OneFramePerMethod
  BY DEF IInv
<1>1. ASSUME NEW m \in Methods, TakeMethod(m) PROVE Bottom!Next \/ Stutter
  <2>1. CASE m \in analyzed
    <3>1. frame_stack' = frame_stack /\ program' = program /\ analyzed' = analyzed
      BY <1>1, <2>1 DEF TakeMethod, input
    <3> QED BY <3>1 DEF FirstCallees, OnStack
  <2>2. CASE m \notin analyzed
    <3>1. frame_stack = <<>> /\ frame_stack' = <<NewFrame(m)>> /\ UNCHANGED <<input, analyzed>>
      BY <1>1, <2>2 DEF TakeMethod
    <3>2. OnStack = {}
      BY <3>1, EmptySeq, LenProperties DEF OnStack
    <3>3. PICK order \in SetToSeqs({m}) :
            frame_stack' = frame_stack \o [i \in DOMAIN order |-> NewFrame(order[i])]
      BY <3>1, PushOne
    <3>4. {m} \in SUBSET (Methods \ (OnStack \union analyzed)) /\ {m} # {}
      BY <2>2, <3>2
    <3>5. Bottom!Start
      BY <3>1, <3>3, <3>4, PushStarts
    <3> QED BY <3>5 DEF Bottom!Next
  <2> QED BY <2>1, <2>2
<1>2. CASE TakeGroup
  BY <1>2 DEF TakeGroup, input, FirstCallees, OnStack
<1>3. CASE InitFrame
  <2>1. frame_stack # <<>> /\ frame_stack' = Append(Below, [Top EXCEPT !.has_been_inited = TRUE])
        /\ UNCHANGED <<input, analyzed>>
    BY <1>3 DEF InitFrame
  <2>2. Top \in Frames
    BY <1>0, <2>1, TopProperties
  <2>3. OnStack' = OnStack
    BY <1>0, <2>1, <2>2, InitedFrame, ChangeTop
  <2> QED BY <2>1, <2>3 DEF input, FirstCallees
<1>4. CASE InitFails
  <2>1. /\ frame_stack # <<>> /\ frame_stack' = Below /\ Top.method_id \notin program.has_cfg
        /\ analyzed' = analyzed \union {Top.method_id} /\ UNCHANGED input
    BY <1>4 DEF InitFails
  <2>2. Top.method_id \in Methods
    BY <1>0, <2>1, TopProperties
  <2>3. program.stmts[Top.method_id] = {}
    BY <2>1, <2>2 DEF IInv, InputOK, IsProgram
  <2>4. FirstCallees(program)[Top.method_id] = {}
    BY <2>2, <2>3 DEF FirstCallees
  <2> QED BY <2>1, <2>4, PopSummarises DEF Bottom!Next
<1>5. ASSUME NEW s \in DOMAIN program.callees, VisitCall(s) PROVE Bottom!Next \/ Stutter
  <2>1. /\ frame_stack # <<>> /\ s \in program.stmts[Top.method_id]
        /\ Top.stmt_counters[s] < Rounds
        /\ frame_stack' = Append(Below, Visited(s)) /\ UNCHANGED <<input, analyzed>>
    BY <1>5 DEF VisitCall, Visitable, Visited
  <2>2. OnStack' = OnStack
    BY <1>0, <2>1, VisitedFrame, ChangeTop
  <2> QED BY <2>1, <2>2 DEF input, FirstCallees
<1>6. ASSUME NEW s \in DOMAIN program.callees, Interrupt(s) PROVE Bottom!Next \/ Stutter
  <2>1. /\ frame_stack # <<>> /\ s \in program.stmts[Top.method_id]
        /\ Top.stmt_counters[s] < Rounds /\ Unsolved(s) # {}
        /\ UNCHANGED <<input, analyzed>>
    BY <1>6 DEF Interrupt, Visitable
  <2>2. PICK order \in SetToSeqs(Unsolved(s)) :
          frame_stack' = frame_stack \o [i \in DOMAIN order |-> NewFrame(order[i])]
    BY <1>6 DEF Interrupt
  <2>3. Unsolved(s) \in SUBSET (Methods \ (OnStack \union analyzed))
    BY <2>1, CalleesAreMethods
  <2>4. Bottom!Start
    BY <2>1, <2>2, <2>3, PushStarts
  <2> QED BY <2>4 DEF Bottom!Next
<1>7. CASE FinishMethod
  <2>1. /\ frame_stack # <<>> /\ frame_stack' = Below
        /\ \A s \in program.stmts[Top.method_id] : Top.stmt_counters[s] > 0
        /\ analyzed' = analyzed \union {Top.method_id} /\ UNCHANGED input
    BY <1>7 DEF FinishMethod
  <2>2. /\ Top = frame_stack[Len(frame_stack)] /\ Len(frame_stack) \in DOMAIN frame_stack
        /\ Top.method_id \in Methods
    BY <1>0, <2>1, TopProperties
  <2>3. \A s \in program.stmts[Top.method_id] : program.callees[s][1] \subseteq analyzed \union OnStack
    BY <2>1, <2>2 DEF IInv, VisitedCallsSolved
  <2>4. FirstCallees(program)[Top.method_id] \subseteq analyzed \union OnStack
    BY <2>2, <2>3 DEF FirstCallees
  <2> QED BY <2>1, <2>4, PopSummarises DEF Bottom!Next
<1>8. ASSUME NEW s \in DOMAIN program.callees, PassOver(s) PROVE Bottom!Next \/ Stutter
  <2>1. /\ frame_stack # <<>> /\ s \in program.stmts[Top.method_id]
        /\ Top.stmt_counters[s] < Rounds
        /\ frame_stack' = Append(Below, Passed(s)) /\ UNCHANGED <<input, analyzed>>
    BY <1>8 DEF PassOver, Visitable, Passed
  <2>2. OnStack' = OnStack
    BY <1>0, <2>1, PassedFrame, ChangeTop
  <2> QED BY <2>1, <2>2 DEF input, FirstCallees
<1>9. CASE UNCHANGED vars
  BY <1>9 DEF vars, input, FirstCallees, OnStack
<1> QED BY <1>1, <1>2, <1>3, <1>4, <1>5, <1>6, <1>7, <1>8, <1>9 DEF Next

\* The phase works bottom-up on every program: a method is summarised once, and not
\* before the callees its calls find first are under way.
THEOREM ImplementsBottomUp == Spec => BottomUpSpec
<1>1. Init => Bottom!Init
  <2> SUFFICES ASSUME Init PROVE Bottom!Init
    OBVIOUS
  <2>1. OnStack = {} /\ analyzed = {}
    BY EmptySeq, LenProperties DEF Init, OnStack
  <2>2. IsProgram(program)
    BY ProgramAssumption DEF Init
  <2>3. \A m \in Methods : UNION {program.callees[s][1] : s \in program.stmts[m]} \subseteq Methods
    BY <2>2, RoundsAssumption DEF IsProgram
  <2>4. FirstCallees(program) \in [Methods -> SUBSET Methods]
    BY <2>3 DEF FirstCallees
  <2> QED BY <2>1, <2>4 DEF Bottom!Init
<1>2. IInv /\ [Next]_vars => [Bottom!Next]_<<FirstCallees(program), analyzed \union OnStack, analyzed>>
  BY StepIsBottomUp
<1> QED BY <1>1, <1>2, InductiveInvariant, PTL DEF Spec, BottomUpSpec, Bottom!Spec

-----------------------------------------------------------------------------
\* The frame at position i holds its own effect and none its calls do not lead to.
OwnEffects ==
  \A i \in DOMAIN frame_stack :
    /\ frame_stack[i].method_id \in frame_stack[i].effects
    /\ frame_stack[i].effects \subseteq CallReach(program, frame_stack[i].method_id)

\* c has a frame at position i or below it.
WaitsBelow(c, i) == \E j \in DOMAIN frame_stack : j <= i /\ frame_stack[j].method_id = c

\* A visited call has brought in the summaries of the callees of every round in which
\* it was handled, those excepted that wait below.
VisitedCallsFolded ==
  \A i \in DOMAIN frame_stack : \A s \in program.stmts[frame_stack[i].method_id] :
    frame_stack[i].stmt_counters[s] > 0 =>
      \A r \in Handled(frame_stack[i], s) : \A c \in program.callees[s][r] \intersect program.has_cfg :
        WaitsBelow(c, i) \/ (c \in DOMAIN summaries /\ summaries[c] \subseteq frame_stack[i].effects)

\* The inductive invariant of what the summaries hold, on top of IInv.
EffectsInv == NoForeignEffect /\ OwnEffects /\ VisitedCallsFolded

\* A method is among those its calls lead to.
LEMMA ReachSelf == ASSUME NEW p, NEW m \in Methods PROVE m \in CallReach(p, m)
BY DEF CallReach

\* What a callee leads to, its caller leads to.
LEMMA ReachStep ==
  ASSUME NEW p, NEW m \in Methods, NEW c \in Callees(p)[m]
  PROVE  CallReach(p, c) \subseteq CallReach(p, m)
BY DEF CallReach

\* What a visit brings in is within the reach of the caller.
LEMMA AppliedReached ==
  ASSUME IInv, EffectsInv, frame_stack # <<>>, NEW s \in program.stmts[Top.method_id],
         Top.stmt_counters[s] < Rounds
  PROVE  Applied(s) \subseteq CallReach(program, Top.method_id)
<1> DEFINE m == Top.method_id
<1> SUFFICES ASSUME NEW c \in CalleesNow(s) \intersect DOMAIN summaries
             PROVE  summaries[c] \subseteq CallReach(program, m)
  BY DEF Applied
<1>0. m \in Methods /\ c \in FoundBy(program, s)
  BY TopProperties, CalleesAreMethods DEF FoundBy, IInv
<1>1. c \in Callees(program)[m]
  BY <1>0 DEF Callees
<1> HIDE DEF m
<1>2. summaries[c] \subseteq CallReach(program, c)
  BY DEF EffectsInv, NoForeignEffect
<1> QED BY <1>0, <1>1, <1>2, ReachStep

\* VisitedCallsFolded in the next state, when nothing else changes than the stack.
LEMMA FoldedAfter ==
  ASSUME program' = program, summaries' = summaries,
         \A i \in DOMAIN frame_stack' : \A s \in program.stmts[frame_stack'[i].method_id] :
           frame_stack'[i].stmt_counters[s] > 0 =>
             \A r \in Handled(frame_stack'[i], s) : \A c \in program.callees[s][r] \intersect program.has_cfg :
               \/ \E j \in DOMAIN frame_stack' : j <= i /\ frame_stack'[j].method_id = c
               \/ c \in DOMAIN summaries /\ summaries[c] \subseteq frame_stack'[i].effects
  PROVE  VisitedCallsFolded'
BY DEF VisitedCallsFolded, WaitsBelow

\* Steps that push frames, and steps that leave the stack alone.
LEMMA EffectsPush ==
  ASSUME IInv, EffectsInv, NEW set \in SUBSET (Methods \ (OnStack \union analyzed)), set # {},
         NEW order \in SetToSeqs(set),
         frame_stack' = frame_stack \o [i \in DOMAIN order |-> NewFrame(order[i])],
         UNCHANGED <<input, analyzed, summaries>>
  PROVE  EffectsInv'
<1>1. /\ DOMAIN frame_stack \subseteq DOMAIN frame_stack'
      /\ \A i \in DOMAIN frame_stack : frame_stack'[i] = frame_stack[i]
      /\ \A i \in DOMAIN frame_stack' \ DOMAIN frame_stack :
           \E m \in set : frame_stack'[i] = NewFrame(m)
  BY PushFrames DEF IInv, input
<1>2. program' = program /\ summaries' = summaries
  BY DEF input
<1>3. NoForeignEffect'
  BY <1>2 DEF EffectsInv, NoForeignEffect
<1>4. ASSUME NEW m \in set
      PROVE  /\ NewFrame(m).method_id = m /\ NewFrame(m).effects = {m}
             /\ \A s \in program.stmts[m] : NewFrame(m).stmt_counters[s] = 0
  BY DEF NewFrame
<1>5. OwnEffects'
  <2> SUFFICES ASSUME NEW i \in DOMAIN frame_stack'
               PROVE  /\ frame_stack'[i].method_id \in frame_stack'[i].effects
                      /\ frame_stack'[i].effects \subseteq CallReach(program, frame_stack'[i].method_id)
    BY <1>2 DEF OwnEffects
  <2>1. CASE i \in DOMAIN frame_stack
    BY <1>1, <2>1 DEF EffectsInv, OwnEffects
  <2>2. CASE i \notin DOMAIN frame_stack
    <3>1. PICK m \in set : frame_stack'[i] = NewFrame(m)
      BY <1>1, <2>2
    <3> QED BY <1>4, <3>1, ReachSelf
  <2> QED BY <2>1, <2>2
<1>6. \A i \in DOMAIN frame_stack' \ DOMAIN frame_stack :
        \A s \in program.stmts[frame_stack'[i].method_id] : ~(frame_stack'[i].stmt_counters[s] > 0)
  BY <1>1, <1>4
<1>7. VisitedCallsFolded'
  <2> SUFFICES ASSUME NEW i \in DOMAIN frame_stack, NEW s \in program.stmts[frame_stack[i].method_id],
                      frame_stack[i].stmt_counters[s] > 0, NEW r \in Handled(frame_stack[i], s),
                      NEW c \in program.callees[s][r] \intersect program.has_cfg
               PROVE  \/ \E j \in DOMAIN frame_stack' : j <= i /\ frame_stack'[j].method_id = c
                      \/ c \in DOMAIN summaries /\ summaries[c] \subseteq frame_stack[i].effects
    <3> SUFFICES ASSUME NEW i \in DOMAIN frame_stack',
                        NEW s \in program.stmts[frame_stack'[i].method_id],
                        frame_stack'[i].stmt_counters[s] > 0, NEW r \in Handled(frame_stack'[i], s),
                        NEW c \in program.callees[s][r] \intersect program.has_cfg
                 PROVE  \/ \E j \in DOMAIN frame_stack' : j <= i /\ frame_stack'[j].method_id = c
                        \/ c \in DOMAIN summaries /\ summaries[c] \subseteq frame_stack'[i].effects
      BY <1>2, FoldedAfter
    <3>1. i \in DOMAIN frame_stack
      BY <1>6
    <3> QED BY <1>1, <3>1
  <2>1. WaitsBelow(c, i) \/ (c \in DOMAIN summaries /\ summaries[c] \subseteq frame_stack[i].effects)
    BY DEF EffectsInv, VisitedCallsFolded
  <2> QED BY <1>1, <2>1 DEF WaitsBelow
<1> QED BY <1>3, <1>5, <1>7 DEF EffectsInv

\* Steps that change the frame at the top: the new frame keeps what its calls need.
LEMMA EffectsChange ==
  ASSUME IInv, EffectsInv, frame_stack # <<>>, NEW f \in Frames, f.method_id = Top.method_id,
         frame_stack' = Append(Below, f), UNCHANGED <<input, analyzed, summaries>>,
         f.method_id \in f.effects, f.effects \subseteq CallReach(program, f.method_id),
         \A s \in program.stmts[f.method_id] : f.stmt_counters[s] > 0 =>
           \A r \in Handled(f, s) : \A c \in program.callees[s][r] \intersect program.has_cfg :
             c \in OnStack \/ (c \in DOMAIN summaries /\ summaries[c] \subseteq f.effects)
  PROVE  EffectsInv'
<1> DEFINE n == Len(frame_stack)
<1>1. /\ DOMAIN frame_stack' = DOMAIN frame_stack
      /\ frame_stack'[n] = f
      /\ \A i \in DOMAIN frame_stack : i # n => frame_stack'[i] = frame_stack[i]
      /\ \A i \in DOMAIN frame_stack : frame_stack'[i].method_id = frame_stack[i].method_id
  BY ChangeTop DEF IInv
<1>2. program' = program /\ summaries' = summaries
  BY DEF input
<1>3. n \in Nat /\ DOMAIN frame_stack = 1..n
  BY LenProperties DEF IInv, StackOK
<1> HIDE DEF n
<1>4. NoForeignEffect'
  BY <1>2 DEF EffectsInv, NoForeignEffect
<1>5. OwnEffects'
  BY <1>1, <1>2 DEF EffectsInv, OwnEffects
<1>6. VisitedCallsFolded'
  <2> SUFFICES ASSUME NEW i \in DOMAIN frame_stack, NEW s \in program.stmts[frame_stack[i].method_id],
                      frame_stack'[i].stmt_counters[s] > 0, NEW r \in Handled(frame_stack'[i], s),
                      NEW c \in program.callees[s][r] \intersect program.has_cfg
               PROVE  \/ \E j \in DOMAIN frame_stack : j <= i /\ frame_stack[j].method_id = c
                      \/ c \in DOMAIN summaries /\ summaries[c] \subseteq frame_stack'[i].effects
    BY <1>1, <1>2 DEF VisitedCallsFolded, WaitsBelow
  <2>1. CASE i = n
    <3>1. frame_stack[i].method_id = f.method_id
      BY <1>1, <2>1
    <3>2. c \in OnStack => \E j \in DOMAIN frame_stack : j <= i /\ frame_stack[j].method_id = c
      BY <1>3, <2>1 DEF OnStack
    <3> QED BY <1>1, <2>1, <3>1, <3>2
  <2>2. CASE i # n
    BY <1>1, <2>2 DEF EffectsInv, VisitedCallsFolded, WaitsBelow
  <2> QED BY <2>1, <2>2
<1> QED BY <1>4, <1>5, <1>6 DEF EffectsInv

\* Steps that end the frame at the top; the summary of its method, if it leaves one,
\* is what the frame has collected.
LEMMA EffectsPop ==
  ASSUME IInv, EffectsInv, frame_stack # <<>>, frame_stack' = Below, UNCHANGED input,
         summaries' = summaries \/ summaries' = WithSummary(Top.method_id, Top.effects)
  PROVE  EffectsInv'
<1> DEFINE n == Len(frame_stack)
<1>1. /\ DOMAIN frame_stack' = 1..(n - 1)
      /\ DOMAIN frame_stack' \subseteq DOMAIN frame_stack
      /\ \A i \in DOMAIN frame_stack' : frame_stack'[i] = frame_stack[i]
  BY PopFrame DEF IInv
<1>2. /\ Top = frame_stack[n] /\ n \in DOMAIN frame_stack /\ Top.method_id \in Methods
      /\ Top.method_id \in OnStack
  BY TopProperties DEF IInv
<1>3. n \in Nat /\ DOMAIN frame_stack = 1..n
  BY LenProperties DEF IInv, StackOK
<1>4. Top.method_id \notin DOMAIN summaries
  BY <1>2 DEF IInv, OneFramePerMethod, SummariesOK
<1>5. program' = program
  BY DEF input
<1>6. /\ DOMAIN summaries \subseteq DOMAIN summaries'
      /\ \A m \in DOMAIN summaries : summaries'[m] = summaries[m]
      /\ \A m \in DOMAIN summaries' \ DOMAIN summaries :
           m = Top.method_id /\ summaries'[m] = Top.effects
  BY <1>4 DEF WithSummary
<1> HIDE DEF n
<1>7. NoForeignEffect'
  <2>1. Top.method_id \in Top.effects /\ Top.effects \subseteq CallReach(program, Top.method_id)
    BY <1>2 DEF EffectsInv, OwnEffects
  <2> QED BY <1>5, <1>6, <2>1 DEF EffectsInv, NoForeignEffect
<1>8. OwnEffects'
  BY <1>1, <1>5 DEF EffectsInv, OwnEffects
<1>9. VisitedCallsFolded'
  <2> SUFFICES ASSUME NEW i \in DOMAIN frame_stack', NEW s \in program.stmts[frame_stack[i].method_id],
                      frame_stack[i].stmt_counters[s] > 0, NEW r \in Handled(frame_stack[i], s),
                      NEW c \in program.callees[s][r] \intersect program.has_cfg
               PROVE  \/ \E j \in DOMAIN frame_stack' : j <= i /\ frame_stack[j].method_id = c
                      \/ c \in DOMAIN summaries' /\ summaries'[c] \subseteq frame_stack[i].effects
    BY <1>1, <1>5 DEF VisitedCallsFolded, WaitsBelow
  <2>1. \/ \E j \in DOMAIN frame_stack : j <= i /\ frame_stack[j].method_id = c
        \/ c \in DOMAIN summaries /\ summaries[c] \subseteq frame_stack[i].effects
    BY <1>1 DEF EffectsInv, VisitedCallsFolded, WaitsBelow
  <2> QED BY <1>1, <1>3, <1>6, <2>1
<1> QED BY <1>7, <1>8, <1>9 DEF EffectsInv

\* EffectsInv is inductive relative to IInv.
LEMMA EffectsStep == IInv /\ EffectsInv /\ [Next]_vars => EffectsInv'
<1> SUFFICES ASSUME IInv, EffectsInv, [Next]_vars PROVE EffectsInv'
  OBVIOUS
<1>0. StackOK /\ OneFramePerMethod
  BY DEF IInv
<1>9. ASSUME UNCHANGED <<program, frame_stack, summaries>> PROVE EffectsInv'
  BY <1>9 DEF EffectsInv, NoForeignEffect, OwnEffects, VisitedCallsFolded, WaitsBelow, Handled
<1>1. ASSUME NEW m \in Methods, TakeMethod(m) PROVE EffectsInv'
  <2>1. CASE m \in analyzed
    BY <1>1, <1>9, <2>1 DEF TakeMethod, input
  <2>2. CASE m \notin analyzed
    <3>1. /\ frame_stack = <<>> /\ frame_stack' = <<NewFrame(m)>>
          /\ UNCHANGED <<input, analyzed, summaries>>
      BY <1>1, <2>2 DEF TakeMethod
    <3>2. OnStack = {}
      BY <3>1, EmptySeq, LenProperties DEF OnStack
    <3>3. PICK order \in SetToSeqs({m}) :
            frame_stack' = frame_stack \o [i \in DOMAIN order |-> NewFrame(order[i])]
      BY <3>1, PushOne
    <3>4. {m} \in SUBSET (Methods \ (OnStack \union analyzed)) /\ {m} # {}
      BY <2>2, <3>2
    <3> QED BY <3>1, <3>3, <3>4, EffectsPush
  <2> QED BY <2>1, <2>2
<1>2. CASE TakeGroup
  BY <1>2, <1>9 DEF TakeGroup, input
<1>3. CASE InitFrame
  <2> DEFINE f == [Top EXCEPT !.has_been_inited = TRUE]
  <2>1. frame_stack # <<>> /\ frame_stack' = Append(Below, f)
        /\ UNCHANGED <<input, analyzed, summaries>>
    BY <1>3 DEF InitFrame
  <2>2. Top \in Frames /\ Top = frame_stack[Len(frame_stack)] /\ Len(frame_stack) \in DOMAIN frame_stack
    BY <1>0, <2>1, TopProperties
  <2>3. /\ f \in Frames /\ f.method_id = Top.method_id /\ f.stmt_counters = Top.stmt_counters
        /\ f.passed_over = Top.passed_over /\ f.effects = Top.effects
    BY <2>2, InitedFrame
  <2>4. f.method_id \in f.effects /\ f.effects \subseteq CallReach(program, f.method_id)
    BY <2>2, <2>3 DEF EffectsInv, OwnEffects
  <2>5. \A s \in program.stmts[f.method_id] : f.stmt_counters[s] > 0 =>
          \A r \in Handled(f, s) : \A c \in program.callees[s][r] \intersect program.has_cfg :
            c \in OnStack \/ (c \in DOMAIN summaries /\ summaries[c] \subseteq f.effects)
    BY <2>2, <2>3 DEF EffectsInv, VisitedCallsFolded, WaitsBelow, OnStack, Handled
  <2> HIDE DEF f
  <2> QED BY <2>1, <2>3, <2>4, <2>5, EffectsChange
<1>4. CASE InitFails
  BY <1>4, EffectsPop DEF InitFails
<1>5. ASSUME NEW s \in DOMAIN program.callees, VisitCall(s) PROVE EffectsInv'
  <2> DEFINE f == Visited(s)
  <2>1. /\ frame_stack # <<>> /\ s \in program.stmts[Top.method_id]
        /\ Top.stmt_counters[s] < Rounds /\ Unsolved(s) = {}
        /\ frame_stack' = Append(Below, f)
        /\ UNCHANGED <<input, analyzed, summaries>>
    BY <1>5 DEF VisitCall, Visitable, Visited
  <2>2. /\ Top = frame_stack[Len(frame_stack)]
        /\ Len(frame_stack) \in DOMAIN frame_stack /\ Top.method_id \in Methods
        /\ Top.stmt_counters \in [program.stmts[Top.method_id] -> 0..Rounds]
    BY <1>0, <2>1, TopProperties, FrameProperties
  <2>3. /\ f \in Frames /\ f.method_id = Top.method_id
        /\ f.stmt_counters = [Top.stmt_counters EXCEPT ![s] = @ + 1]
        /\ f.passed_over = Top.passed_over
        /\ f.effects = Top.effects \union Applied(s)
    BY <2>1, VisitedFrame
  <2>4. f.method_id \in f.effects /\ f.effects \subseteq CallReach(program, f.method_id)
    BY <2>1, <2>2, <2>3, AppliedReached DEF EffectsInv, OwnEffects
  <2>5. ASSUME NEW t \in program.stmts[f.method_id], f.stmt_counters[t] > 0,
               NEW r \in Handled(f, t), NEW c \in program.callees[t][r] \intersect program.has_cfg
        PROVE  c \in OnStack \/ (c \in DOMAIN summaries /\ summaries[c] \subseteq f.effects)
    <3>1. CASE t = s /\ r = Top.stmt_counters[s] + 1
      <4>1. c \in CalleesNow(s) /\ c \in Methods
        BY <2>1, <3>1, CalleesAreMethods
      <4>2. c \in analyzed \union OnStack
        BY <2>1, <4>1 DEF Unsolved
      <4>3. CASE c \in analyzed
        <5>1. c \in DOMAIN summaries
          BY <4>3 DEF IInv, SummariesOK
        <5>2. summaries[c] \subseteq Applied(s)
          BY <4>1, <5>1 DEF Applied
        <5> QED BY <2>3, <5>1, <5>2
      <4> QED BY <4>2, <4>3
    <3>2. CASE ~(t = s /\ r = Top.stmt_counters[s] + 1)
      <4>1. Top.stmt_counters[t] \in Nat /\ Top.stmt_counters[t] > 0 /\ r \in Handled(Top, t)
        <5>1. Top.stmt_counters[t] \in Nat
          BY <2>2, <2>3
        <5>2. CASE t # s
          BY <2>2, <2>3, <2>5, <5>1, <5>2 DEF Handled
        <5>3. CASE t = s
          <6>1. f.stmt_counters[t] = Top.stmt_counters[t] + 1
            BY <2>1, <2>2, <2>3, <5>3
          <6>2. Top.stmt_counters[t] # 0
            BY <2>5, <3>2, <5>1, <5>3, <6>1 DEF Handled
          <6> QED BY <2>3, <2>5, <3>2, <5>1, <5>3, <6>1, <6>2 DEF Handled
        <5> QED BY <5>2, <5>3
      <4>2. c \in OnStack \/ (c \in DOMAIN summaries /\ summaries[c] \subseteq Top.effects)
        BY <2>2, <2>3, <4>1 DEF EffectsInv, VisitedCallsFolded, WaitsBelow, OnStack
      <4> QED BY <2>3, <4>2
    <3> QED BY <3>1, <3>2
  <2> HIDE DEF f
  <2> QED BY <2>1, <2>3, <2>4, <2>5, EffectsChange
<1>6. ASSUME NEW s \in DOMAIN program.callees, Interrupt(s) PROVE EffectsInv'
  <2>1. /\ frame_stack # <<>> /\ s \in program.stmts[Top.method_id]
        /\ Top.stmt_counters[s] < Rounds /\ Unsolved(s) # {}
        /\ UNCHANGED <<input, analyzed, summaries>>
    BY <1>6 DEF Interrupt, Visitable
  <2>2. PICK order \in SetToSeqs(Unsolved(s)) :
          frame_stack' = frame_stack \o [i \in DOMAIN order |-> NewFrame(order[i])]
    BY <1>6 DEF Interrupt
  <2>3. Unsolved(s) \in SUBSET (Methods \ (OnStack \union analyzed))
    BY <2>1, CalleesAreMethods
  <2> QED BY <2>1, <2>2, <2>3, EffectsPush
<1>7. CASE FinishMethod
  BY <1>7, EffectsPop DEF FinishMethod
<1>8. ASSUME NEW s \in DOMAIN program.callees, PassOver(s) PROVE EffectsInv'
  <2> DEFINE f == Passed(s)
  <2>1. /\ frame_stack # <<>> /\ s \in program.stmts[Top.method_id]
        /\ Top.stmt_counters[s] < Rounds /\ Top.stmt_counters[s] > 0
        /\ frame_stack' = Append(Below, f)
        /\ UNCHANGED <<input, analyzed, summaries>>
    BY <1>8 DEF PassOver, Visitable, Passed
  <2>2. /\ Top = frame_stack[Len(frame_stack)]
        /\ Len(frame_stack) \in DOMAIN frame_stack /\ Top.method_id \in Methods
        /\ Top.stmt_counters \in [program.stmts[Top.method_id] -> 0..Rounds]
        /\ Top.passed_over \in [program.stmts[Top.method_id] -> SUBSET (1..Rounds)]
    BY <1>0, <2>1, TopProperties, FrameProperties
  <2>3. /\ f \in Frames /\ f.method_id = Top.method_id
        /\ f.stmt_counters = [Top.stmt_counters EXCEPT ![s] = @ + 1]
        /\ f.passed_over = [Top.passed_over EXCEPT ![s] = @ \union {Top.stmt_counters[s] + 1}]
        /\ f.effects = Top.effects
    BY <2>1, PassedFrame
  <2>4. f.method_id \in f.effects /\ f.effects \subseteq CallReach(program, f.method_id)
    BY <2>2, <2>3 DEF EffectsInv, OwnEffects
  <2>5. ASSUME NEW t \in program.stmts[f.method_id], f.stmt_counters[t] > 0,
               NEW r \in Handled(f, t), NEW c \in program.callees[t][r] \intersect program.has_cfg
        PROVE  c \in OnStack \/ (c \in DOMAIN summaries /\ summaries[c] \subseteq f.effects)
    <3>1. Top.stmt_counters[t] \in Nat /\ Top.stmt_counters[t] > 0
      BY <2>1, <2>2, <2>3, <2>5
    <3>2. r \in Handled(Top, t)
      <4>1. CASE t # s
        BY <2>2, <2>3, <2>5, <4>1 DEF Handled
      <4>2. CASE t = s
        <5>1. /\ f.stmt_counters[t] = Top.stmt_counters[t] + 1
              /\ f.passed_over[t] = Top.passed_over[t] \union {Top.stmt_counters[t] + 1}
          BY <2>1, <2>2, <2>3, <4>2
        <5> QED BY <2>5, <3>1, <5>1 DEF Handled
      <4> QED BY <4>1, <4>2
    <3>3. c \in OnStack \/ (c \in DOMAIN summaries /\ summaries[c] \subseteq Top.effects)
      BY <2>2, <2>3, <3>1, <3>2 DEF EffectsInv, VisitedCallsFolded, WaitsBelow, OnStack
    <3> QED BY <2>3, <3>3
  <2> HIDE DEF f
  <2> QED BY <2>1, <2>3, <2>4, <2>5, EffectsChange
<1>10. CASE UNCHANGED vars
  BY <1>9, <1>10 DEF vars, input
<1> QED BY <1>1, <1>2, <1>3, <1>4, <1>5, <1>6, <1>7, <1>8, <1>10 DEF Next

\* EffectsInv holds in every reachable state.
LEMMA EffectsInvariant == Spec => []EffectsInv
<1>1. Init => EffectsInv
  <2> SUFFICES ASSUME Init PROVE EffectsInv
    OBVIOUS
  <2>1. DOMAIN frame_stack = {} /\ DOMAIN summaries = {}
    BY EmptySeq, LenProperties DEF Init
  <2> QED BY <2>1 DEF EffectsInv, NoForeignEffect, OwnEffects, VisitedCallsFolded
<1>2. IInv /\ EffectsInv /\ [Next]_vars => EffectsInv'
  BY EffectsStep
<1> QED BY <1>1, <1>2, InductiveInvariant, PTL DEF Spec

\* A summary never holds an effect of a method its method does not lead to.
THEOREM NoForeignEffects == Spec => []NoForeignEffect
<1>1. EffectsInv => NoForeignEffect
  BY DEF EffectsInv
<1> QED BY <1>1, EffectsInvariant, PTL

\* Every summary holds those of the callees that its calls found in their first round
\* or in a later one in which they were handled, unless they were waiting below it.
THEOREM CalleesFolded == Spec => CalleesAreFoldedIn
<1>1. IInv /\ EffectsInv /\ [Next]_vars => [FoldedInNow]_vars
  <2> SUFFICES ASSUME IInv, EffectsInv, Next,
                      NEW m \in DOMAIN summaries' \ DOMAIN summaries,
                      NEW s \in program.stmts[m], NEW n \in Handled(Top, s),
                      NEW c \in program.callees[s][n] \intersect program.has_cfg
               PROVE  c \in OnStack \/ (c \in DOMAIN summaries /\ summaries[c] \subseteq summaries'[m])
    BY DEF FoldedInNow
  <2>1. FinishMethod
    BY DEF Next, TakeMethod, TakeGroup, InitFrame, InitFails, VisitCall, Interrupt, PassOver
  <2>2. /\ frame_stack # <<>>
        /\ \A t \in program.stmts[Top.method_id] : Top.stmt_counters[t] > 0
        /\ summaries' = WithSummary(Top.method_id, Top.effects)
    BY <2>1 DEF FinishMethod
  <2>3. m = Top.method_id /\ summaries'[m] = Top.effects
    BY <2>2 DEF WithSummary
  <2>4. Top = frame_stack[Len(frame_stack)] /\ Len(frame_stack) \in DOMAIN frame_stack
    BY <2>2, TopProperties DEF IInv
  <2> QED BY <2>2, <2>3, <2>4 DEF EffectsInv, VisitedCallsFolded, WaitsBelow, OnStack
<1> QED BY <1>1, InductiveInvariant, EffectsInvariant, PTL DEF Spec, CalleesAreFoldedIn

-----------------------------------------------------------------------------
(* The phase uses up what it has to do.                                    *)

\* The lists run() has not come to.
ListsLeft ==
  CASE phase = "direct" -> {"dynamic", "done"} [] phase = "dynamic" -> {"done"} [] OTHER -> {}

\* The methods that have had no frame.
Unstarted == Methods \ (analyzed \union OnStack)

NewFrames == {i \in DOMAIN frame_stack : ~frame_stack[i].has_been_inited}

\* The visits that the calls of the frames have left.
VisitsLeft ==
  {v \in (DOMAIN frame_stack) \X (DOMAIN program.callees) \X (0..Rounds) :
     /\ v[2] \in program.stmts[frame_stack[v[1]].method_id]
     /\ frame_stack[v[1]].stmt_counters[v[2]] <= v[3]}

\* What the frames on the stack have left.
FramesUsedUp ==
  /\ NewFrames' \subseteq NewFrames /\ VisitsLeft' \subseteq VisitsLeft
  /\ DOMAIN frame_stack' \subseteq DOMAIN frame_stack
  /\ \/ NewFrames' # NewFrames \/ VisitsLeft' # VisitsLeft
     \/ DOMAIN frame_stack' # DOMAIN frame_stack

Shrinks(new, old) == new \subseteq old /\ new # old

\* Lists, methods of a list, methods without a frame and what the frames have left,
\* in this order: a step takes from one of them and leaves those before it.
UsesUp ==
  \/ Shrinks(ListsLeft', ListsLeft)
  \/ ListsLeft' = ListsLeft /\ Shrinks(todo', todo)
  \/ ListsLeft' = ListsLeft /\ todo' = todo /\ Shrinks(Unstarted', Unstarted)
  \/ ListsLeft' = ListsLeft /\ todo' = todo /\ Unstarted' = Unstarted /\ FramesUsedUp

AllFinite ==
  /\ IsFiniteSet(ListsLeft) /\ IsFiniteSet(todo) /\ IsFiniteSet(Unstarted)
  /\ IsFiniteSet(NewFrames) /\ IsFiniteSet(VisitsLeft) /\ IsFiniteSet(DOMAIN frame_stack)

\* What is left is finite.
LEMMA LeftIsFinite ==
  ASSUME IInv
  PROVE  AllFinite
<1>1. /\ IsProgram(program) /\ IsFiniteSet(Methods) /\ frame_stack \in Seq(Frames)
      /\ todo \subseteq Methods
  BY MethodsAssumption DEF IInv, InputOK, StackOK
<1>2. Len(frame_stack) \in Nat /\ DOMAIN frame_stack = 1..Len(frame_stack)
  BY <1>1, LenProperties
<1>3. IsFiniteSet(DOMAIN frame_stack)
  BY <1>2, FS_Interval
<1>4. IsFiniteSet(0..Rounds)
  BY RoundsAssumption, FS_Interval
<1>5. IsFiniteSet(DOMAIN program.callees)
  BY <1>1 DEF IsProgram
<1>6. IsFiniteSet((DOMAIN frame_stack) \X (DOMAIN program.callees) \X (0..Rounds))
  BY <1>3, <1>4, <1>5, FiniteTriples
<1>7. IsFiniteSet(VisitsLeft)
  BY <1>6, FS_Subset DEF VisitsLeft
<1>8. IsFiniteSet(NewFrames)
  BY <1>3, FS_Subset DEF NewFrames
<1>9. IsFiniteSet(todo) /\ IsFiniteSet(Unstarted)
  BY <1>1, FS_Subset DEF Unstarted
<1>10. IsFiniteSet(ListsLeft)
  <2>1. IsFiniteSet({}) /\ IsFiniteSet({"done"}) /\ IsFiniteSet({"dynamic", "done"})
    <3>1. IsFiniteSet({}) /\ IsFiniteSet({"done"})
      BY FS_EmptySet, FS_Singleton
    <3>2. {"dynamic", "done"} = {"done"} \union {"dynamic"}
      OBVIOUS
    <3> QED BY <3>1, <3>2, FS_AddElement
  <2> QED BY <2>1 DEF ListsLeft
<1> QED BY <1>3, <1>7, <1>8, <1>9, <1>10 DEF AllFinite

\* The top changes and no method starts.
LEMMA ChangeUses ==
  ASSUME IInv, frame_stack # <<>>, NEW f \in Frames, f.method_id = Top.method_id,
         frame_stack' = Append(Below, f), Top.has_been_inited => f.has_been_inited,
         UNCHANGED <<input, phase, todo, analyzed>>
  PROVE  /\ ListsLeft' = ListsLeft /\ todo' = todo /\ Unstarted' = Unstarted
         /\ DOMAIN frame_stack' = DOMAIN frame_stack
         /\ NewFrames' \subseteq NewFrames
         /\ Len(frame_stack) \in DOMAIN frame_stack /\ Top = frame_stack[Len(frame_stack)]
         /\ frame_stack'[Len(frame_stack)] = f
         /\ \A i \in DOMAIN frame_stack : i # Len(frame_stack) => frame_stack'[i] = frame_stack[i]
<1>1. /\ Len(frame_stack) \in DOMAIN frame_stack /\ Top = frame_stack[Len(frame_stack)]
  BY TopProperties DEF IInv
<1>2. /\ DOMAIN frame_stack' = DOMAIN frame_stack /\ OnStack' = OnStack
      /\ frame_stack'[Len(frame_stack)] = f
      /\ \A i \in DOMAIN frame_stack : i # Len(frame_stack) => frame_stack'[i] = frame_stack[i]
  BY ChangeTop DEF IInv
<1>3. NewFrames' \subseteq NewFrames
  BY <1>1, <1>2 DEF NewFrames
<1>4. ListsLeft' = ListsLeft /\ Unstarted' = Unstarted
  BY <1>2 DEF ListsLeft, Unstarted
<1> QED BY <1>1, <1>2, <1>3, <1>4

\* A frame is new once.
LEMMA InitFrameUses ==
  ASSUME IInv, InitFrame
  PROVE  UsesUp
<1> DEFINE f == [Top EXCEPT !.has_been_inited = TRUE]
           n == Len(frame_stack)
<1>1. /\ frame_stack # <<>> /\ ~Top.has_been_inited /\ frame_stack' = Append(Below, f)
      /\ UNCHANGED <<input, phase, todo, analyzed>>
  BY DEF InitFrame
<1>2. /\ f \in Frames /\ f.method_id = Top.method_id /\ f.stmt_counters = Top.stmt_counters
      /\ f.has_been_inited = TRUE
  BY <1>1, TopProperties, InitedFrame DEF IInv
<1> HIDE DEF f
<1>3. /\ ListsLeft' = ListsLeft /\ todo' = todo /\ Unstarted' = Unstarted
      /\ DOMAIN frame_stack' = DOMAIN frame_stack
      /\ NewFrames' \subseteq NewFrames
      /\ n \in DOMAIN frame_stack /\ Top = frame_stack[n] /\ frame_stack'[n] = f
      /\ \A i \in DOMAIN frame_stack : i # n => frame_stack'[i] = frame_stack[i]
  BY <1>1, <1>2, ChangeUses
<1>4. n \in NewFrames /\ n \notin NewFrames'
  BY <1>1, <1>2, <1>3 DEF NewFrames
<1>5. VisitsLeft' = VisitsLeft
  <2>1. \A i \in DOMAIN frame_stack :
          /\ frame_stack'[i].method_id = frame_stack[i].method_id
          /\ frame_stack'[i].stmt_counters = frame_stack[i].stmt_counters
    BY <1>2, <1>3
  <2>2. program' = program
    BY <1>1 DEF input
  <2> QED BY <1>3, <2>1, <2>2 DEF VisitsLeft
<1> QED BY <1>3, <1>4, <1>5 DEF UsesUp, FramesUsedUp

\* A call that is visited or passed over has one visit less.
LEMMA VisitUses ==
  ASSUME IInv, frame_stack # <<>>, NEW s \in program.stmts[Top.method_id],
         Top.stmt_counters[s] < Rounds, NEW f \in Frames, f.method_id = Top.method_id,
         f.has_been_inited = Top.has_been_inited,
         f.stmt_counters = [Top.stmt_counters EXCEPT ![s] = @ + 1],
         frame_stack' = Append(Below, f), UNCHANGED <<input, phase, todo, analyzed>>
  PROVE  UsesUp
<1> DEFINE n == Len(frame_stack)
<1>1. /\ ListsLeft' = ListsLeft /\ todo' = todo /\ Unstarted' = Unstarted
      /\ DOMAIN frame_stack' = DOMAIN frame_stack
      /\ NewFrames' \subseteq NewFrames
      /\ n \in DOMAIN frame_stack /\ Top = frame_stack[n] /\ frame_stack'[n] = f
      /\ \A i \in DOMAIN frame_stack : i # n => frame_stack'[i] = frame_stack[i]
  BY ChangeUses
<1>2. /\ Top.stmt_counters \in [program.stmts[Top.method_id] -> 0..Rounds]
      /\ Top.method_id \in Methods
  BY <1>1, FrameProperties DEF IInv
<1>3. PICK c \in 0..Rounds : c = Top.stmt_counters[s] /\ f.stmt_counters[s] = c + 1 /\ ~(c + 1 <= c)
  <2>1. Top.stmt_counters[s] \in 0..Rounds /\ f.stmt_counters[s] = Top.stmt_counters[s] + 1
    BY <1>2
  <2> QED BY <2>1, RoundsAssumption
<1>4. program' = program
  BY DEF input
<1>5. VisitsLeft' \subseteq VisitsLeft
  <2> SUFFICES ASSUME NEW v \in VisitsLeft' PROVE v \in VisitsLeft
    OBVIOUS
  <2>1. /\ v \in (DOMAIN frame_stack) \X (DOMAIN program.callees) \X (0..Rounds)
        /\ v[2] \in program.stmts[frame_stack'[v[1]].method_id]
        /\ frame_stack'[v[1]].stmt_counters[v[2]] <= v[3]
    BY <1>1, <1>4 DEF VisitsLeft
  <2>2. frame_stack'[v[1]].method_id = frame_stack[v[1]].method_id
    BY <1>1, <2>1
  <2>3. CASE v[1] = n /\ v[2] = s
    <3>1. c + 1 <= v[3] /\ v[3] \in Int
      BY <1>1, <1>3, <2>1, <2>3
    <3>2. c <= v[3]
      BY <3>1
    <3> QED BY <1>1, <1>3, <2>1, <2>2, <2>3, <3>2 DEF VisitsLeft
  <2>4. CASE ~(v[1] = n /\ v[2] = s)
    <3>1. frame_stack'[v[1]].stmt_counters[v[2]] = frame_stack[v[1]].stmt_counters[v[2]]
      <4>1. CASE v[1] = n
        <5>1. v[2] \in program.stmts[Top.method_id] /\ v[2] # s
          BY <1>1, <2>1, <2>2, <2>4, <4>1
        <5>2. [Top.stmt_counters EXCEPT ![s] = @ + 1][v[2]] = Top.stmt_counters[v[2]]
          BY <1>2, <5>1
        <5>3. frame_stack'[v[1]] = f /\ frame_stack[v[1]] = Top
          BY <1>1, <4>1
        <5> QED BY <5>2, <5>3
      <4>2. CASE v[1] # n
        BY <1>1, <2>1, <4>2
      <4> QED BY <4>1, <4>2
    <3> QED BY <2>1, <2>2, <3>1 DEF VisitsLeft
  <2> QED BY <2>3, <2>4
<1>6. VisitsLeft' # VisitsLeft
  <2>1. s \in DOMAIN program.callees
    BY <1>2 DEF IInv, InputOK, IsProgram
  <2>2. <<n, s, c>> \in VisitsLeft
    BY <1>1, <1>3, <2>1 DEF VisitsLeft
  <2>3. <<n, s, c>> \notin VisitsLeft'
    BY <1>1, <1>3 DEF VisitsLeft
  <2> QED BY <2>2, <2>3
<1> QED BY <1>1, <1>5, <1>6 DEF UsesUp, FramesUsedUp

\* A call that is visited, and one that is passed over.
LEMMA VisitCallUses ==
  ASSUME IInv, NEW s, VisitCall(s) \/ PassOver(s)
  PROVE  UsesUp
<1>1. /\ frame_stack # <<>> /\ s \in program.stmts[Top.method_id] /\ Top.stmt_counters[s] < Rounds
      /\ frame_stack' = Append(Below, Visited(s)) \/ frame_stack' = Append(Below, Passed(s))
      /\ UNCHANGED <<input, phase, todo, analyzed>>
  BY DEF VisitCall, PassOver, Visitable, Visited, Passed
<1> QED BY <1>1, VisitedFrame, PassedFrame, VisitUses

\* A frame that goes away takes what it had left with it; its method stays started.
LEMMA PopUses ==
  ASSUME IInv, InitFails \/ FinishMethod
  PROVE  UsesUp
<1>1. /\ frame_stack # <<>> /\ frame_stack' = Below
      /\ analyzed' = analyzed \union {Top.method_id} /\ UNCHANGED <<input, phase, todo>>
  BY DEF InitFails, FinishMethod
<1>2. /\ DOMAIN frame_stack' = 1..(Len(frame_stack) - 1)
      /\ DOMAIN frame_stack' \subseteq DOMAIN frame_stack
      /\ \A i \in DOMAIN frame_stack' : frame_stack'[i] = frame_stack[i]
      /\ OnStack' = OnStack \ {Top.method_id}
  BY <1>1, PopFrame DEF IInv
<1>3. /\ Len(frame_stack) \in Nat \ {0} /\ Len(frame_stack) \in DOMAIN frame_stack
      /\ Top.method_id \in OnStack
  BY <1>1, TopProperties DEF IInv
<1>4. DOMAIN frame_stack' # DOMAIN frame_stack
  <2>1. Len(frame_stack) \notin 1..(Len(frame_stack) - 1)
    BY <1>3
  <2> QED BY <1>2, <1>3, <2>1
<1>5. program' = program
  BY <1>1 DEF input
<1>6. NewFrames' \subseteq NewFrames /\ VisitsLeft' \subseteq VisitsLeft
  BY <1>2, <1>5 DEF NewFrames, VisitsLeft
<1>7. ListsLeft' = ListsLeft /\ Unstarted' = Unstarted /\ todo' = todo
  BY <1>1, <1>2, <1>3 DEF ListsLeft, Unstarted
<1> QED BY <1>2, <1>4, <1>6, <1>7 DEF UsesUp, FramesUsedUp

\* A method that an interruption gives a frame had none before.
LEMMA InterruptUses ==
  ASSUME IInv, NEW s, Interrupt(s)
  PROVE  UsesUp
<1>1. /\ frame_stack # <<>> /\ s \in program.stmts[Top.method_id]
      /\ Top.stmt_counters[s] < Rounds /\ Unsolved(s) # {}
      /\ UNCHANGED <<input, phase, todo, analyzed>>
  BY DEF Interrupt, Visitable
<1>2. PICK order \in SetToSeqs(Unsolved(s)) :
        frame_stack' = frame_stack \o [i \in DOMAIN order |-> NewFrame(order[i])]
  BY DEF Interrupt
<1>3. Unsolved(s) \in SUBSET (Methods \ (OnStack \union analyzed))
  BY <1>1, CalleesAreMethods
<1>4. OnStack \subseteq OnStack' /\ OnStack' \intersect Unsolved(s) # {}
  BY <1>1, <1>2, <1>3, PushFrames DEF IInv, input
<1>5. Unstarted' \subseteq Unstarted /\ Unstarted' # Unstarted
  BY <1>1, <1>3, <1>4 DEF Unstarted
<1>6. ListsLeft' = ListsLeft /\ todo' = todo
  BY <1>1 DEF ListsLeft
<1> QED BY <1>5, <1>6 DEF UsesUp, Shrinks

\* Every step of the phase uses something up of a finite amount, in a fixed order:
\* interruptions, recursion and the rounds of a call cannot keep run() and
\* analyze_method going for ever.
THEOREM EveryStepUsesUp == Spec => []AllFinite /\ [][UsesUp]_vars
<1>1. IInv => AllFinite
  BY LeftIsFinite
<1>2. IInv /\ [Next]_vars => [UsesUp]_vars
  <2> SUFFICES ASSUME IInv, Next PROVE UsesUp
    OBVIOUS
  <2>1. CASE \E m \in Methods : TakeMethod(m)
    BY <2>1 DEF TakeMethod, UsesUp, Shrinks, ListsLeft
  <2>2. CASE TakeGroup
    <3>1. phase \in {"direct", "dynamic"} /\ phase' = IF phase = "direct" THEN "dynamic" ELSE "done"
      BY <2>2 DEF TakeGroup, IInv, StackOK
    <3>2. Shrinks(ListsLeft', ListsLeft)
      BY <3>1 DEF Shrinks, ListsLeft
    <3> QED BY <3>2 DEF UsesUp
  <2>3. CASE InitFrame
    BY <2>3, InitFrameUses
  <2>4. CASE InitFails \/ FinishMethod
    BY <2>4, PopUses
  <2>5. CASE \E s \in DOMAIN program.callees : VisitCall(s) \/ Interrupt(s) \/ PassOver(s)
    BY <2>5, VisitCallUses, InterruptUses
  <2> QED BY <2>1, <2>2, <2>3, <2>4, <2>5 DEF Next
<1> QED BY <1>1, <1>2, InductiveInvariant, PTL DEF Spec
=============================================================================
