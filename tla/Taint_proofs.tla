---------------------------- MODULE Taint_proofs ----------------------------
(***************************************************************************)
(* Proofs about Taint: what the graph of a body relates, and from it that  *)
(* propagation misses no flow, reports none out of the blue and ends.      *)
(***************************************************************************)
EXTENDS Taint, SequenceLemmas

-----------------------------------------------------------------------------
\* Reach is the least set with the start that the links do not leave.

Ends(links) == {l[2] : l \in links}
Onwards(links, seen) == {l[2] : l \in {m \in links : m[1] \in seen}}
ReachStep(start, links) ==
  [seen \in SUBSET (start \union Ends(links)) |-> seen \union Onwards(links, seen)]
Closed(links, seen) == \A l \in links : l[1] \in seen => l[2] \in seen

LEMMA ReachIs ==
  ASSUME NEW start, NEW links
  PROVE  Reach(start, links)
           = Iterated(Cardinality(Ends(links)), start, ReachStep(start, links))[Cardinality(Ends(links))]
BY DEF Reach, Iterated, ReachStep, Onwards, Ends

LEMMA EndsFinite ==
  ASSUME NEW links, IsFiniteSet(links)
  PROVE  IsFiniteSet(Ends(links)) /\ Cardinality(Ends(links)) \in Nat
<1>1. [l \in links |-> l[2]] \in Surjection(links, Ends(links))
  BY DEF Surjection, Ends
<1> QED BY <1>1, FS_Surjection, FS_CardinalityType

\* The stages of Reach, each one with what the links lead to from the one before.
Staged(start, links, N, f) ==
  /\ Reach(start, links) = f[N] /\ f[0] = start
  /\ \A n \in 0..N : f[n] \subseteq start \union Ends(links)
  /\ \A n \in 1..N : f[n] = f[n - 1] \union Onwards(links, f[n - 1])

LEMMA Stages ==
  ASSUME NEW start, NEW links, IsFiniteSet(links)
  PROVE  \E N \in Nat : N = Cardinality(Ends(links)) /\ \E f : Staged(start, links, N, f)
<1>1. PICK N \in Nat : N = Cardinality(Ends(links))
  BY EndsFinite
<1> DEFINE S == SUBSET (start \union Ends(links))
           next == ReachStep(start, links)
<1>2. next \in [S -> S]
  BY DEF ReachStep, Onwards, Ends
<1>3. start \in S
  OBVIOUS
<1>4. PICK f : f = Iterated(N, start, next)
  OBVIOUS
<1>5. /\ f \in [0..N -> S] /\ f[0] = start
      /\ \A n \in 1..N : f[n] = next[f[n - 1]]
  <2> HIDE DEF S, next
  <2> QED BY <1>1, <1>2, <1>3, <1>4, Iteration
<1>6. \A n \in 1..N : f[n] = f[n - 1] \union Onwards(links, f[n - 1])
  <2> TAKE n \in 1..N
  <2>1. n - 1 \in 0..N
    BY <1>1
  <2>2. f[n - 1] \in S
    BY <1>5, <2>1
  <2> QED BY <1>5, <2>2 DEF ReachStep
<1>7. Reach(start, links) = f[N]
  BY <1>1, <1>4, ReachIs
<1>8. Staged(start, links, N, f)
  BY <1>5, <1>6, <1>7 DEF Staged
<1> HIDE DEF S, next
<1> QED BY <1>1, <1>8

LEMMA ReachFacts ==
  ASSUME NEW start, NEW links, IsFiniteSet(links)
  PROVE  /\ start \subseteq Reach(start, links)
         /\ Reach(start, links) \subseteq start \union Ends(links)
         /\ Closed(links, Reach(start, links))
<1>0. PICK N \in Nat : N = Cardinality(Ends(links)) /\ \E f : Staged(start, links, N, f)
  BY Stages
<1>1. PICK f : /\ Reach(start, links) = f[N] /\ f[0] = start
               /\ \A n \in 0..N : f[n] \subseteq start \union Ends(links)
               /\ \A n \in 1..N : f[n] = f[n - 1] \union Onwards(links, f[n - 1])
  BY <1>0 DEF Staged
<1> DEFINE T == {n \in 0..N : /\ start \subseteq f[n]
                              /\ Closed(links, f[n]) \/ Cardinality(f[n] \ start) >= n}
<1>2. IsFiniteSet(Ends(links))
  BY EndsFinite
<1>3. \A n \in 0..N : f[n] \ start \subseteq Ends(links) /\ IsFiniteSet(f[n] \ start)
  BY <1>1, <1>2, FS_Subset
<1>4. 0 \in T
  <2>1. f[0] \ start = {} /\ 0 \in 0..N
    BY <1>1
  <2>2. Cardinality(f[0] \ start) = 0
    BY <2>1, FS_EmptySet
  <2> QED BY <1>1, <2>1, <2>2
<1>5. ASSUME NEW n \in 0..N, n # N, n \in T PROVE n + 1 \in T
  <2>1. n + 1 \in 1..N /\ n + 1 - 1 = n /\ n + 1 \in 0..N
    BY <1>1, <1>5
  <2>2. f[n + 1] = f[n] \union Onwards(links, f[n])
    BY <1>1, <2>1
  <2>3. CASE Closed(links, f[n])
    <3>1. f[n + 1] = f[n]
      BY <2>2, <2>3 DEF Closed, Onwards
    <3> QED BY <1>5, <2>1, <2>3, <3>1
  <2>4. CASE ~Closed(links, f[n])
    <3>1. PICK x : x \in Onwards(links, f[n]) /\ x \notin f[n]
      BY <2>4 DEF Closed, Onwards
    <3>2. Cardinality((f[n] \ start) \union {x}) = Cardinality(f[n] \ start) + 1
      BY <1>3, <3>1, FS_AddElement
    <3>3. (f[n] \ start) \union {x} \subseteq f[n + 1] \ start
      BY <1>5, <2>2, <3>1
    <3>4. Cardinality((f[n] \ start) \union {x}) <= Cardinality(f[n + 1] \ start)
      BY <1>3, <2>1, <3>3, FS_Subset
    <3>5. Cardinality(f[n] \ start) \in Nat /\ Cardinality(f[n + 1] \ start) \in Nat
      BY <1>3, <2>1, FS_CardinalityType
    <3>6. start \subseteq f[n + 1]
      BY <1>5, <2>2
    <3> QED BY <1>5, <2>1, <2>4, <3>2, <3>4, <3>5, <3>6
  <2> QED BY <2>3, <2>4
<1>6. N \in T
  <2> HIDE DEF T
  <2> QED BY <1>1, <1>4, <1>5, UpTo
<1>7. CASE Cardinality(f[N] \ start) >= N
  <2>1. f[N] \ start = Ends(links)
    <3>1. f[N] \ start \subseteq Ends(links) /\ N \in 0..N
      BY <1>1, <1>3
    <3>2. Cardinality(f[N] \ start) \in Nat /\ Cardinality(f[N] \ start) <= N
      BY <1>1, <1>2, <1>3, <3>1, FS_Subset, FS_CardinalityType, <1>0
    <3>3. Cardinality(f[N] \ start) = Cardinality(Ends(links))
      BY <1>1, <1>7, <3>2, <1>0
    <3> QED BY <1>2, <3>1, <3>3, FS_Subset
  <2>2. Closed(links, f[N])
    BY <2>1 DEF Closed, Ends
  <2> QED BY <1>1, <1>6, <2>2
<1> QED BY <1>1, <1>6, <1>7

LEMMA ReachLeast ==
  ASSUME NEW start, NEW links, IsFiniteSet(links), NEW T, start \subseteq T, Closed(links, T)
  PROVE  Reach(start, links) \subseteq T
<1>0. PICK N \in Nat : \E f : Staged(start, links, N, f)
  BY Stages
<1>1. PICK f : /\ Reach(start, links) = f[N] /\ f[0] = start
               /\ \A n \in 1..N : f[n] = f[n - 1] \union Onwards(links, f[n - 1])
  BY <1>0 DEF Staged
<1> DEFINE U == {n \in 0..N : f[n] \subseteq T}
<1>2. 0 \in U
  BY <1>1
<1>3. ASSUME NEW n \in 0..N, n # N, n \in U PROVE n + 1 \in U
  <2>1. n + 1 \in 1..N /\ n + 1 - 1 = n /\ n + 1 \in 0..N
    BY <1>1, <1>3
  <2>2. f[n + 1] = f[n] \union Onwards(links, f[n])
    BY <1>1, <2>1
  <2> QED BY <1>3, <2>1, <2>2 DEF Closed, Onwards
<1>4. N \in U
  <2> HIDE DEF U
  <2> QED BY <1>1, <1>2, <1>3, UpTo
<1> QED BY <1>1, <1>4

-----------------------------------------------------------------------------
\* The worklist: a queue of a set of nodes holds them, in some order.

NodeIds == (STRING \union {""}) \X Nat \X Nat
Nodes == [kind : {"symbol", "state", "stmt"}, at : Nat, id : NodeIds]
First(rest) == CHOOSE n \in rest : \A m \in rest : Rank(n) <= Rank(m)
Rests(nodes) == [rest \in SUBSET nodes |-> rest \ {First(rest)}]

LEMMA RankIsNat == ASSUME NEW n \in Nodes PROVE Rank(n) \in Nat
BY DEF Nodes, Rank

LEMMA FirstIn == ASSUME NEW rest \in SUBSET Nodes, rest # {} PROVE First(rest) \in rest
<1>1. {Rank(n) : n \in rest} \in SUBSET Nat /\ {Rank(n) : n \in rest} # {}
  BY RankIsNat
<1>2. PICK x \in {Rank(n) : n \in rest} : \A y \in {Rank(n) : n \in rest} : x <= y
  BY <1>1, LeastElement
<1>3. PICK n \in rest : Rank(n) = x
  BY <1>2
<1>4. \A m \in rest : Rank(n) <= Rank(m)
  BY <1>2, <1>3
<1> QED BY <1>3, <1>4, Zenon DEF First

LEMMA QueueIs ==
  ASSUME NEW nodes
  PROVE  Queue(nodes) = [k \in 1..Cardinality(nodes) |->
                           First(Iterated(Cardinality(nodes), nodes, Rests(nodes))[k - 1])]
BY DEF Queue, Iterated, First, Rests

LEMMA QueueFacts ==
  ASSUME NEW nodes \in SUBSET Nodes, IsFiniteSet(nodes)
  PROVE  Queue(nodes) \in Seq(nodes) /\ ToSet(Queue(nodes)) = nodes
<1>1. PICK N \in Nat : N = Cardinality(nodes)
  BY FS_CardinalityType
<1> DEFINE S == SUBSET nodes
           next == Rests(nodes)
<1>2. PICK left : left = Iterated(N, nodes, next)
  OBVIOUS
<1>3. /\ left \in [0..N -> S] /\ left[0] = nodes
      /\ \A n \in 1..N : left[n] = next[left[n - 1]]
  <2>1. next \in [S -> S] /\ nodes \in S
    BY DEF Rests
  <2> HIDE DEF S, next
  <2> QED BY <1>1, <1>2, <2>1, Iteration
<1>4. Queue(nodes) = [k \in 1..N |-> First(left[k - 1])]
  BY <1>1, <1>2, QueueIs
<1>5. \A n \in 1..N : left[n] = left[n - 1] \ {First(left[n - 1])}
  <2> TAKE n \in 1..N
  <2>1. left[n - 1] \in S
    BY <1>3
  <2> QED BY <1>3, <2>1 DEF Rests
<1> HIDE DEF next
<1>6. \A n \in 0..N : n \in {k \in 0..N : Cardinality(left[k]) = N - k}
  <2> DEFINE T == {k \in 0..N : Cardinality(left[k]) = N - k}
  <2>1. 0 \in T
    BY <1>1, <1>3
  <2>2. ASSUME NEW n \in 0..N, n # N, n \in T PROVE n + 1 \in T
    <3>1. n + 1 \in 1..N /\ n + 1 - 1 = n /\ n + 1 \in 0..N
      BY <2>2
    <3>2. left[n] \in SUBSET Nodes /\ IsFiniteSet(left[n])
      BY <1>3, FS_Subset
    <3>3. left[n] # {}
      BY <2>2, FS_EmptySet
    <3>4. First(left[n]) \in left[n]
      BY <3>2, <3>3, FirstIn
    <3>5. left[n + 1] = left[n] \ {First(left[n])}
      BY <1>5, <3>1
    <3>6. Cardinality(left[n + 1]) = Cardinality(left[n]) - 1
      BY <3>2, <3>4, <3>5, FS_RemoveElement
    <3> QED BY <2>2, <3>1, <3>6
  <2> HIDE DEF T
  <2>3. \A n \in 0..N : n \in T
    BY <2>1, <2>2, UpTo
  <2> QED BY <2>3 DEF T
<1>7. ASSUME NEW k \in 1..N PROVE First(left[k - 1]) \in left[k - 1]
  <2>1. k - 1 \in 0..N /\ N - (k - 1) # 0
    OBVIOUS
  <2>2. Cardinality(left[k - 1]) = N - (k - 1)
    BY <1>6, <2>1
  <2>3. left[k - 1] # {}
    BY <2>1, <2>2, FS_EmptySet
  <2>4. left[k - 1] \in SUBSET Nodes
    BY <1>3, <2>1
  <2> QED BY <2>3, <2>4, FirstIn
<1>8. left[N] = {}
  <2>1. Cardinality(left[N]) = 0 /\ IsFiniteSet(left[N])
    BY <1>3, <1>6, FS_Subset
  <2> QED BY <2>1, FS_EmptySet
<1>9. \A n \in 0..N : n \in {k \in 0..N : \A v \in nodes : v \in left[k] \/ \E j \in 1..k : v = First(left[j - 1])}
  <2> DEFINE T == {k \in 0..N : \A v \in nodes : v \in left[k] \/ \E j \in 1..k : v = First(left[j - 1])}
  <2>1. 0 \in T
    BY <1>3
  <2>2. ASSUME NEW n \in 0..N, n # N, n \in T PROVE n + 1 \in T
    <3>1. n + 1 \in 1..N /\ n + 1 - 1 = n /\ n + 1 \in 0..N
      BY <2>2
    <3>2. left[n + 1] = left[n] \ {First(left[n])}
      BY <1>5, <3>1
    <3>3. ASSUME NEW v \in nodes PROVE v \in left[n + 1] \/ \E j \in 1..(n + 1) : v = First(left[j - 1])
      <4>1. CASE v \in left[n]
        <5>1. n + 1 \in 1..(n + 1)
          OBVIOUS
        <5> QED BY <3>1, <3>2, <4>1, <5>1
      <4>2. CASE v \notin left[n]
        <5>1. PICK j \in 1..n : v = First(left[j - 1])
          BY <2>2, <4>2
        <5>2. j \in 1..(n + 1)
          OBVIOUS
        <5> QED BY <5>1, <5>2
      <4> QED BY <4>1, <4>2
    <3> QED BY <3>1, <3>3
  <2> HIDE DEF T
  <2>3. \A n \in 0..N : n \in T
    BY <2>1, <2>2, UpTo
  <2> QED BY <2>3 DEF T
<1>10. \A v \in nodes : \E j \in 1..N : v = First(left[j - 1])
  BY <1>8, <1>9
<1>11. \A k \in 1..N : First(left[k - 1]) \in nodes
  BY <1>3, <1>7
<1>12. Queue(nodes) \in Seq(nodes) /\ DOMAIN Queue(nodes) = 1..N
  BY <1>4, <1>11
<1>13. ToSet(Queue(nodes)) = {First(left[k - 1]) : k \in 1..N}
  BY <1>4, <1>12 DEF ToSet
<1> QED BY <1>10, <1>11, <1>12, <1>13

LEMMA EnqueuedFacts ==
  ASSUME NEW S \in SUBSET Nodes, NEW list \in Seq(S), NEW nodes \in SUBSET S, IsFiniteSet(nodes)
  PROVE  /\ Enqueued(list, nodes) \in Seq(S)
         /\ ToSet(Enqueued(list, nodes)) = ToSet(list) \union nodes
<1> DEFINE new == nodes \ ToSet(list)
<1>1. PICK q : q = Queue(new) /\ q \in Seq(new) /\ ToSet(q) = new
  <2>1. new \in SUBSET Nodes /\ IsFiniteSet(new)
    BY FS_Subset
  <2> QED BY <2>1, QueueFacts
<1>2. q \in Seq(S)
  <2>1. new \subseteq S
    OBVIOUS
  <2> HIDE DEF new
  <2> QED BY <1>1, <2>1
<1>3. list \o q \in Seq(S) /\ ToSet(list \o q) = ToSet(list) \union new
  <2> HIDE DEF new
  <2> QED BY <1>1, <1>2, Joined
<1> QED BY <1>1, <1>3 DEF Enqueued

-----------------------------------------------------------------------------
\* Bodies: what uses what, and the states that the definitions hold.

LEMMA BodyLines ==
  ASSUME NEW b, IsBody(b)
  PROVE  /\ Len(b.stmts) \in Nat /\ Lines(b) = 1..Len(b.stmts) /\ IsFiniteSet(Lines(b))
         /\ \A i \in Lines(b) : /\ b.stmts[i].op \in Operations /\ b.stmts[i].target \in STRING
                               /\ b.stmts[i].uses \in Seq(STRING)
                               /\ DOMAIN b.stmts[i].uses = 1..Len(b.stmts[i].uses)
<1> DEFINE R == [op : Operations, name : STRING, target : STRING, uses : Seq(STRING)]
<1>1. b.stmts \in Seq(R)
  BY DEF IsBody
<1>2. Len(b.stmts) \in Nat /\ Lines(b) = 1..Len(b.stmts) /\ \A i \in 1..Len(b.stmts) : b.stmts[i] \in R
  BY <1>1, LenProperties, ElementOfSeq DEF Lines
<1>3. IsFiniteSet(1..Len(b.stmts))
  BY <1>2, FS_Interval
<1>4. \A r \in R : r.op \in Operations /\ r.target \in STRING /\ r.uses \in Seq(STRING)
  OBVIOUS
<1> HIDE DEF R
<1>5. \A i \in Lines(b) : DOMAIN b.stmts[i].uses = 1..Len(b.stmts[i].uses)
  BY <1>2, <1>4, LenProperties
<1> QED BY <1>2, <1>3, <1>4, <1>5

LEMMA FlowFinite ==
  ASSUME NEW b, IsBody(b)
  PROVE  b.flow \subseteq Lines(b) \X Lines(b) /\ IsFiniteSet(b.flow)
<1>1. IsFiniteSet(Lines(b) \X Lines(b))
  BY BodyLines, FS_Product
<1> QED BY <1>1, FS_Subset DEF IsBody

LEMMA KnownFacts ==
  ASSUME NEW b, IsBody(b)
  PROVE  /\ IsFiniteSet(UsesOf(b)) /\ UsesOf(b) \subseteq Lines(b) \X Lines(b) \X Positions
         /\ \A x \in UsesOf(b) : /\ x[3] \in DOMAIN b.stmts[x[2]].uses
                                /\ b.stmts[x[2]].uses[x[3]] = b.stmts[x[1]].target
<1>1. ASSUME NEW d \in Lines(b) PROVE ReachedBy(b, d, b.stmts[d].target) \subseteq Lines(b)
  <2> DEFINE start == {n \in Lines(b) : <<d, n>> \in b.flow}
             links == {e \in b.flow : b.stmts[e[1]].target # b.stmts[d].target}
  <2>1. IsFiniteSet(links) /\ links \subseteq Lines(b) \X Lines(b)
    BY FlowFinite, FS_Subset
  <2>2. Ends(links) \subseteq Lines(b)
    BY <2>1 DEF Ends
  <2>3. start \subseteq Lines(b)
    OBVIOUS
  <2>4. ReachedBy(b, d, b.stmts[d].target) = Reach(start, links)
    BY DEF ReachedBy
  <2> HIDE DEF start, links
  <2> QED BY <2>1, <2>2, <2>3, <2>4, ReachFacts
<1>2. ASSUME NEW x \in UsesOf(b)
      PROVE  /\ x \in Lines(b) \X Lines(b) \X Positions
             /\ x[3] \in DOMAIN b.stmts[x[2]].uses
             /\ b.stmts[x[2]].uses[x[3]] = b.stmts[x[1]].target
  <2>1. PICK d \in Lines(b) : x \in {<<d, y[1], y[2]>> : y \in UsedAt(b, d)}
    BY <1>2 DEF UsesOf
  <2>2. PICK y \in UsedAt(b, d) : x = <<d, y[1], y[2]>>
    BY <2>1
  <2>3. /\ y \in ReachedBy(b, d, b.stmts[d].target) \X Positions
        /\ y[2] \in DOMAIN b.stmts[y[1]].uses
        /\ b.stmts[y[1]].uses[y[2]] = b.stmts[d].target
    BY DEF UsedAt
  <2>4. y[1] \in Lines(b) /\ y[2] \in Positions
    BY <1>1, <2>3
  <2>5. x[1] = d /\ x[2] = y[1] /\ x[3] = y[2]
    BY <2>2
  <2> QED BY <2>2, <2>3, <2>4, <2>5
<1>3. IsFiniteSet(Lines(b) \X Lines(b) \X Positions)
  <2>1. IsFiniteSet(Positions)
    <3>1. Positions \in SUBSET Nat /\ 3 \in Nat /\ \A p \in Positions : p <= 3
      BY DEF Positions
    <3> QED BY <3>1, FS_BoundedSetOfNaturals
  <2> QED BY <2>1, BodyLines, FiniteTriples
<1> QED BY <1>2, <1>3, FS_Subset

States(b, depths) == [at : Lines(b), depth : depths, typed : BOOLEAN]
Round(b, known, held) == UNION {{<<i, s>> : s \in StatesMade(b, known, held, i)} : i \in Lines(b)}
StatesAfter(b, known, rounds) ==
  CHOOSE after : after = [n \in 0..rounds |-> IF n = 0 THEN {} ELSE Round(b, known, after[n - 1])]

LEMMA StatesOfIs ==
  ASSUME NEW b, NEW known, NEW rounds
  PROVE  StatesOf(b, known, rounds) = StatesAfter(b, known, rounds)[rounds]
BY DEF StatesOf, StatesAfter, Round

\* What one statement makes of the states that it reads.
LEMMA StateMadeIs ==
  ASSUME NEW b, NEW known, NEW held, NEW i, NEW s \in StatesMade(b, known, held, i)
  PROVE  \/ s = NewState(i, FALSE) /\ b.stmts[i].op # "type_cast_stmt"
         \/ s = NewState(i, TRUE) /\ b.stmts[i].op = "type_cast_stmt"
         \/ \E d \in UsedDefs(known, i, 1) : \E r \in Made(held, d) :
              \/ s = r /\ b.stmts[i].op = "assign_stmt" /\ Len(b.stmts[i].uses) = 1
              \/ s = r /\ b.stmts[i].op = "type_cast_stmt"
              \/ s = FieldOf(r) /\ b.stmts[i].op = "field_read"
<1> DEFINE st == b.stmts[i]
           read == UNION {Made(held, d) : d \in UsedDefs(known, i, 1)}
<1>1. \/ s \in Parameter(st, i) \/ s \in Called(st, i) \/ s \in Assigned(st, i, read)
      \/ s \in Cast(st, i, read) \/ s \in FieldRead(st, read)
  BY DEF StatesMade
<1>2. \A r \in read : \E d \in UsedDefs(known, i, 1) : r \in Made(held, d)
  OBVIOUS
<1> HIDE DEF read
<1>3. CASE s \in Parameter(st, i) \/ s \in Called(st, i)
  BY <1>3 DEF Parameter, Called
<1>4. CASE s \in Assigned(st, i, read)
  BY <1>2, <1>4 DEF Assigned
<1>5. CASE s \in Cast(st, i, read)
  BY <1>2, <1>5 DEF Cast
<1>6. CASE s \in FieldRead(st, read)
  BY <1>2, <1>6 DEF FieldRead
<1> QED BY <1>1, <1>3, <1>4, <1>5, <1>6

LEMMA RoundWithin ==
  ASSUME NEW b, IsBody(b), NEW known, NEW depths \in SUBSET Nat, NEW more \in SUBSET Nat,
         0 \in more, \A n \in depths : n \in more /\ n + 1 \in more,
         NEW held \in SUBSET (Lines(b) \X States(b, depths))
  PROVE  Round(b, known, held) \in SUBSET (Lines(b) \X States(b, more))
<1> SUFFICES ASSUME NEW i \in Lines(b), NEW s \in StatesMade(b, known, held, i)
             PROVE  s \in States(b, more)
  BY DEF Round
<1>1. \A typed \in BOOLEAN : NewState(i, typed) \in States(b, more)
  BY DEF NewState, States
<1>2. ASSUME NEW d, NEW r \in Made(held, d)
      PROVE  r \in States(b, more) /\ FieldOf(r) \in States(b, more)
  <2>1. PICK x \in held : x[2] = r
    BY DEF Made
  <2>2. r \in States(b, depths)
    BY <2>1
  <2>3. r.at \in Lines(b) /\ r.depth \in depths /\ r.typed \in BOOLEAN
    BY <2>2 DEF States
  <2>4. r = [at |-> r.at, depth |-> r.depth, typed |-> r.typed]
    BY <2>2 DEF States
  <2> QED BY <2>3, <2>4 DEF States, FieldOf
<1>3. \/ s = NewState(i, FALSE)
      \/ s = NewState(i, TRUE)
      \/ \E d \in UsedDefs(known, i, 1) : \E r \in Made(held, d) : s = r \/ s = FieldOf(r)
  BY StateMadeIs DEF NewState
<1> QED BY <1>1, <1>2, <1>3

LEMMA StagesOfStates ==
  ASSUME NEW b, IsBody(b), NEW known, NEW N \in Nat, NEW f, f = StatesAfter(b, known, N)
  PROVE  /\ \A n \in 0..N : f[n] \in SUBSET (Lines(b) \X States(b, Nat))
         /\ f[0] = {} /\ \A n \in 1..N : f[n] = Round(b, known, f[n - 1])
<1> DEFINE S == SUBSET (Lines(b) \X States(b, Nat))
           step == [v \in (1..N) \X S |-> Round(b, known, v[2])]
<1>1. \A held \in S : Round(b, known, held) \in S
  <2>1. Nat \in SUBSET Nat /\ 0 \in Nat /\ \A n \in Nat : n \in Nat /\ n + 1 \in Nat
    OBVIOUS
  <2> QED BY <2>1, RoundWithin, Zenon
<1>2. PICK h : Iterates(h, N, S, {}, step)
  <2>1. step \in Steps(N, S)
    <3> HIDE DEF S
    <3> QED BY <1>1 DEF Steps
  <2>2. {} \in S
    OBVIOUS
  <2> HIDE DEF step, S
  <2> QED BY <2>1, <2>2, Recursion
<1>3. /\ h \in [0..N -> S] /\ h[0] = {}
      /\ \A n \in 1..N : h[n] = step[<<n, h[n - 1]>>]
  BY <1>2 DEF Iterates
<1>4. \A n \in 1..N : h[n] = Round(b, known, h[n - 1])
  <2> HIDE DEF S
  <2> TAKE n \in 1..N
  <2>1. n - 1 \in 0..N
    OBVIOUS
  <2>2. <<n, h[n - 1]>> \in (1..N) \X S
    BY <1>3, <2>1
  <2>3. step[<<n, h[n - 1]>>] = Round(b, known, h[n - 1])
    BY <2>2
  <2> HIDE DEF step
  <2> QED BY <1>3, <2>3
<1> HIDE DEF S, step
<1>5. h = [n \in 0..N |-> IF n = 0 THEN {} ELSE Round(b, known, h[n - 1])]
  <2>1. \A n \in 0..N : h[n] = IF n = 0 THEN {} ELSE Round(b, known, h[n - 1])
    BY <1>3, <1>4
  <2> QED BY <1>3, <2>1
<1>6. f = [n \in 0..N |-> IF n = 0 THEN {} ELSE Round(b, known, f[n - 1])]
  BY <1>5, Zenon DEF StatesAfter
<1>7. f[0] = {} /\ \A n \in 1..N : f[n] = Round(b, known, f[n - 1])
  <2>1. \A k \in 0..N : f[k] = IF k = 0 THEN {} ELSE Round(b, known, f[k - 1])
    BY <1>6, Zenon
  <2>2. 0 \in 0..N /\ \A n \in 1..N : n \in 0..N /\ n # 0
    OBVIOUS
  <2> QED BY <2>1, <2>2
<1>8. \A n \in 0..N : n \in {k \in 0..N : f[k] \in S}
  <2> DEFINE T == {k \in 0..N : f[k] \in S}
  <2>1. 0 \in T
    BY <1>7 DEF S
  <2>2. ASSUME NEW n \in 0..N, n # N, n \in T PROVE n + 1 \in T
    <3>1. n + 1 \in 1..N /\ n + 1 - 1 = n /\ n + 1 \in 0..N
      BY <2>2
    <3>2. f[n + 1] = Round(b, known, f[n])
      BY <1>7, <3>1
    <3> QED BY <1>1, <2>2, <3>1, <3>2
  <2> HIDE DEF T
  <2>3. \A n \in 0..N : n \in T
    BY <2>1, <2>2, UpTo
  <2> QED BY <2>3 DEF T
<1> QED BY <1>7, <1>8 DEF S

LEMMA StatesOfFacts ==
  ASSUME NEW b, IsBody(b), NEW known, NEW N \in Nat
  PROVE  /\ StatesOf(b, known, N) \in SUBSET (Lines(b) \X States(b, 0..N))
         /\ StatesOf(b, known, N + 1) = Round(b, known, StatesOf(b, known, N))
<1>1. PICK f : f = StatesAfter(b, known, N)
  OBVIOUS
<1>2. PICK g : g = StatesAfter(b, known, N + 1)
  OBVIOUS
<1>3. /\ \A n \in 0..N : f[n] \in SUBSET (Lines(b) \X States(b, Nat))
      /\ f[0] = {} /\ \A n \in 1..N : f[n] = Round(b, known, f[n - 1])
  BY <1>1, StagesOfStates
<1>4. g[0] = {} /\ \A n \in 1..(N + 1) : g[n] = Round(b, known, g[n - 1])
  <2>1. N + 1 \in Nat
    OBVIOUS
  <2> QED BY <1>2, <2>1, StagesOfStates
<1>5. \A n \in 0..N : n \in {k \in 0..N : f[k] = g[k] /\ f[k] \in SUBSET (Lines(b) \X States(b, 0..k))}
  <2> DEFINE T == {k \in 0..N : f[k] = g[k] /\ f[k] \in SUBSET (Lines(b) \X States(b, 0..k))}
  <2>1. 0 \in T
    <3>1. {} \in SUBSET (Lines(b) \X States(b, 0..0)) /\ 0 \in 0..N
      OBVIOUS
    <3> QED BY <1>3, <1>4, <3>1, Zenon
  <2>2. ASSUME NEW n \in 0..N, n # N, n \in T PROVE n + 1 \in T
    <3>1. n + 1 \in 1..N /\ n + 1 - 1 = n /\ n + 1 \in 0..N /\ n + 1 \in 1..(N + 1)
      BY <2>2
    <3>2. f[n + 1] = Round(b, known, f[n]) /\ g[n + 1] = Round(b, known, g[n])
      BY <1>3, <1>4, <3>1
    <3>3. f[n] \in SUBSET (Lines(b) \X States(b, 0..n)) /\ f[n] = g[n]
      BY <2>2
    <3>4. \A k \in 0..n : k \in 0..(n + 1) /\ k + 1 \in 0..(n + 1)
      BY <3>1
    <3>5. 0..n \in SUBSET Nat /\ 0..(n + 1) \in SUBSET Nat /\ 0 \in 0..(n + 1)
      BY <3>1
    <3>6. Round(b, known, f[n]) \in SUBSET (Lines(b) \X States(b, 0..(n + 1)))
      <4>1. PICK lower, upper : lower = 0..n /\ upper = 0..(n + 1)
        OBVIOUS
      <4>2. /\ lower \in SUBSET Nat /\ upper \in SUBSET Nat /\ 0 \in upper
            /\ f[n] \in SUBSET (Lines(b) \X States(b, lower))
            /\ \A k \in lower : k \in upper /\ k + 1 \in upper
        BY <3>3, <3>4, <3>5, <4>1
      <4>3. Round(b, known, f[n]) \in SUBSET (Lines(b) \X States(b, upper))
        BY <4>2, RoundWithin
      <4> QED BY <4>1, <4>3
    <3> QED BY <3>1, <3>2, <3>3, <3>6
  <2> HIDE DEF T
  <2>3. \A n \in 0..N : n \in T
    BY <2>1, <2>2, UpTo
  <2> QED BY <2>3 DEF T
<1>6. f[N] = g[N] /\ f[N] \in SUBSET (Lines(b) \X States(b, 0..N))
  <2>1. N \in 0..N
    OBVIOUS
  <2> QED BY <1>5, <2>1
<1>7. N + 1 \in 1..(N + 1) /\ N + 1 - 1 = N
  OBVIOUS
<1>8. g[N + 1] = Round(b, known, f[N])
  BY <1>4, <1>6, <1>7
<1>9. StatesOf(b, known, N) = f[N] /\ StatesOf(b, known, N + 1) = g[N + 1]
  BY <1>1, <1>2, StatesOfIs
<1> QED BY <1>6, <1>8, <1>9

Known(b) == UsesOf(b)
Held(b) == StatesOf(b, UsesOf(b), Len(b.stmts))

LEMMA HeldFacts ==
  ASSUME NEW b, IsBody(b)
  PROVE  /\ IsFiniteSet(Held(b)) /\ Held(b) \in SUBSET (Lines(b) \X States(b, Nat))
         /\ \A i \in Lines(b) : Made(Held(b), i) = StatesMade(b, Known(b), Held(b), i)
<1>1. PICK N \in Nat : N = Len(b.stmts)
  BY BodyLines
<1>2. Held(b) \in SUBSET (Lines(b) \X States(b, 0..N)) /\ Held(b) = Round(b, Known(b), Held(b))
  <2>1. StatesOf(b, UsesOf(b), N + 1) = StatesOf(b, UsesOf(b), N)
    BY <1>1 DEF IsBody, Settles
  <2> QED BY <1>1, <2>1, StatesOfFacts DEF Held, Known
<1>3. IsFiniteSet(Lines(b) \X States(b, 0..N))
  <2> DEFINE flat == [v \in Lines(b) \X (0..N) \X BOOLEAN |-> [at |-> v[1], depth |-> v[2], typed |-> v[3]]]
  <2>1. IsFiniteSet(BOOLEAN)
    <3>1. IsFiniteSet({TRUE}) /\ IsFiniteSet({FALSE})
      BY FS_Singleton
    <3>2. IsFiniteSet({TRUE} \union {FALSE})
      BY <3>1, FS_Union
    <3> QED BY <3>2
  <2>2. IsFiniteSet(Lines(b) \X (0..N) \X BOOLEAN)
    <3>1. IsFiniteSet(0..N)
      BY FS_Interval
    <3> QED BY <2>1, <3>1, BodyLines, FiniteTriples
  <2>3. flat \in [Lines(b) \X (0..N) \X BOOLEAN -> States(b, 0..N)]
    BY DEF States
  <2>4. ASSUME NEW s \in States(b, 0..N) PROVE \E v \in Lines(b) \X (0..N) \X BOOLEAN : flat[v] = s
    <3>1. <<s.at, s.depth, s.typed>> \in Lines(b) \X (0..N) \X BOOLEAN
      BY <2>4 DEF States
    <3>2. flat[<<s.at, s.depth, s.typed>>] = s
      BY <2>4, <3>1 DEF States
    <3> QED BY <3>1, <3>2
  <2>5. flat \in Surjection(Lines(b) \X (0..N) \X BOOLEAN, States(b, 0..N))
    <3> HIDE DEF flat
    <3> QED BY <2>3, <2>4 DEF Surjection
  <2>6. IsFiniteSet(States(b, 0..N))
    BY <2>2, <2>5, FS_Surjection
  <2> QED BY <2>6, BodyLines, FS_Product
<1>4. IsFiniteSet(Held(b))
  BY <1>2, <1>3, FS_Subset
<1>5. Held(b) \in SUBSET (Lines(b) \X States(b, Nat))
  <2>1. States(b, 0..N) \subseteq States(b, Nat)
    BY DEF States
  <2> QED BY <1>2, <2>1
<1>6. ASSUME NEW i \in Lines(b) PROVE Made(Held(b), i) = StatesMade(b, Known(b), Held(b), i)
  <2>1. \A s : s \in Made(Held(b), i) <=> <<i, s>> \in Held(b)
    <3>1. \A x \in Held(b) : x = <<x[1], x[2]>>
      BY <1>2
    <3> QED BY <3>1 DEF Made
  <2>2. \A s : <<i, s>> \in Round(b, Known(b), Held(b)) <=> s \in StatesMade(b, Known(b), Held(b), i)
    BY DEF Round
  <2> QED BY <1>2, <2>1, <2>2
<1> QED BY <1>4, <1>5, <1>6

\* What every round keeps, the states of a body have.
LEMMA HeldWithin ==
  ASSUME NEW b, IsBody(b), NEW P, \A held \in SUBSET P : Round(b, Known(b), held) \in SUBSET P
  PROVE  Held(b) \subseteq P
<1>1. PICK N \in Nat : N = Len(b.stmts)
  BY BodyLines
<1>2. PICK f : f = StatesAfter(b, Known(b), N)
  OBVIOUS
<1>3. f[0] = {} /\ \A n \in 1..N : f[n] = Round(b, Known(b), f[n - 1])
  BY <1>2, StagesOfStates
<1> DEFINE T == {n \in 0..N : f[n] \subseteq P}
<1>4. 0 \in T
  BY <1>3
<1>5. ASSUME NEW n \in 0..N, n # N, n \in T PROVE n + 1 \in T
  <2>1. n + 1 \in 1..N /\ n + 1 - 1 = n /\ n + 1 \in 0..N
    BY <1>5
  <2>2. f[n + 1] = Round(b, Known(b), f[n])
    BY <1>3, <2>1
  <2> QED BY <1>5, <2>1, <2>2
<1>6. N \in T
  <2> HIDE DEF T
  <2> QED BY <1>4, <1>5, UpTo
<1>7. Held(b) = f[N]
  BY <1>1, <1>2, StatesOfIs DEF Held, Known
<1> QED BY <1>6, <1>7

-----------------------------------------------------------------------------
\* The graph: the edges that a body gives, and the nodes between them.

IsDefined(b, e) ==
  \E i \in Lines(b) : e = Edge(StmtNode(i), SymbolNode(b, i), "SYMBOL_IS_DEFINED", 0)
IsUsed(b, e) ==
  \E x \in Known(b) : e = Edge(SymbolNode(b, x[1]), StmtNode(x[2]), "SYMBOL_IS_USED", x[3] - 1)
HasState(b, e) ==
  \E x \in Held(b) : e = Edge(SymbolNode(b, x[1]), StateNode(x[2]), "SYMBOL_STATE", 0)
Includes(b, e) ==
  \E x, y \in Held(b) : /\ y[2].at = x[2].at
                       /\ e = Edge(StateNode(x[2]), StateNode(y[2]), "STATE_INCLUSION", 0)
FlowsTo(b, e) ==
  \E x \in Known(b) : /\ x[3] = 1
                     /\ e = Edge(SymbolNode(b, x[1]), SymbolNode(b, x[2]), "SYMBOL_FLOW", 0)

LEMMA GraphEdges ==
  ASSUME NEW b, NEW e \in Graph(b)
  PROVE  IsDefined(b, e) \/ IsUsed(b, e) \/ HasState(b, e) \/ Includes(b, e) \/ FlowsTo(b, e)
<1>1. \/ e \in DefinedEdges(b) \/ e \in UsedEdges(b, Known(b))
      \/ e \in StateEdges(b, Held(b)) \/ e \in UsedStateEdges(b, Known(b), Held(b))
      \/ e \in InclusionEdges(Held(b)) \/ e \in AssignFlow(b, Known(b))
      \/ e \in CastFlow(b, Known(b), Held(b))
  BY DEF Graph, Known, Held
<1>2. CASE e \in DefinedEdges(b)
  BY <1>2 DEF DefinedEdges, IsDefined
<1>3. CASE e \in UsedEdges(b, Known(b))
  BY <1>3 DEF UsedEdges, IsUsed
<1>4. CASE e \in StateEdges(b, Held(b)) \/ e \in UsedStateEdges(b, Known(b), Held(b))
  BY <1>4 DEF StateEdges, UsedStateEdges, HasState
<1>5. CASE e \in InclusionEdges(Held(b))
  <2> DEFINE all == {x[2] : x \in Held(b)}
  <2>1. PICK s \in all : \E part \in {t \in all : t.at = s.at /\ t.depth = s.depth + 1} :
                            e = Edge(StateNode(s), StateNode(part), "STATE_INCLUSION", 0)
    BY <1>5 DEF InclusionEdges
  <2>2. PICK part \in {t \in all : t.at = s.at /\ t.depth = s.depth + 1} :
               e = Edge(StateNode(s), StateNode(part), "STATE_INCLUSION", 0)
    BY <2>1
  <2>3. PICK x \in Held(b) : x[2] = s
    OBVIOUS
  <2>4. PICK y \in Held(b) : y[2] = part
    OBVIOUS
  <2> HIDE DEF all
  <2> QED BY <2>2, <2>3, <2>4 DEF Includes
<1>6. CASE e \in AssignFlow(b, Known(b)) \/ e \in CastFlow(b, Known(b), Held(b))
  BY <1>6 DEF AssignFlow, CastFlow, FlowsTo
<1> QED BY <1>1, <1>2, <1>3, <1>4, <1>5, <1>6

LEMMA GraphHas ==
  ASSUME NEW b
  PROVE  /\ \A i \in Lines(b) : Edge(StmtNode(i), SymbolNode(b, i), "SYMBOL_IS_DEFINED", 0) \in Graph(b)
         /\ \A x \in Known(b) :
              (\A p \in 1..(x[3] - 1) : <<x[1], x[2], p>> \notin Known(b))
                => Edge(SymbolNode(b, x[1]), StmtNode(x[2]), "SYMBOL_IS_USED", x[3] - 1) \in Graph(b)
         /\ \A x \in Held(b) : Edge(SymbolNode(b, x[1]), StateNode(x[2]), "SYMBOL_STATE", 0) \in Graph(b)
         /\ \A x \in Known(b) :
              x[3] = 1 /\ b.stmts[x[2]].op = "type_cast_stmt" /\ NewState(x[2], TRUE) \in Made(Held(b), x[2])
                => Edge(SymbolNode(b, x[1]), SymbolNode(b, x[2]), "SYMBOL_FLOW", 0) \in Graph(b)
<1>1. /\ DefinedEdges(b) \subseteq Graph(b) /\ UsedEdges(b, Known(b)) \subseteq Graph(b)
      /\ StateEdges(b, Held(b)) \subseteq Graph(b) /\ CastFlow(b, Known(b), Held(b)) \subseteq Graph(b)
  BY DEF Graph, Known, Held
<1>2. \A i \in Lines(b) : Edge(StmtNode(i), SymbolNode(b, i), "SYMBOL_IS_DEFINED", 0) \in DefinedEdges(b)
  BY DEF DefinedEdges
<1>3. \A x \in Known(b) :
        (\A p \in 1..(x[3] - 1) : <<x[1], x[2], p>> \notin Known(b))
          => Edge(SymbolNode(b, x[1]), StmtNode(x[2]), "SYMBOL_IS_USED", x[3] - 1) \in UsedEdges(b, Known(b))
  BY DEF UsedEdges
<1>4. \A x \in Held(b) : Edge(SymbolNode(b, x[1]), StateNode(x[2]), "SYMBOL_STATE", 0) \in StateEdges(b, Held(b))
  BY DEF StateEdges
<1>5. \A x \in Known(b) :
        x[3] = 1 /\ b.stmts[x[2]].op = "type_cast_stmt" /\ NewState(x[2], TRUE) \in Made(Held(b), x[2])
          => Edge(SymbolNode(b, x[1]), SymbolNode(b, x[2]), "SYMBOL_FLOW", 0) \in CastFlow(b, Known(b), Held(b))
  BY DEF CastFlow, NewState
<1> HIDE DEF Edge, NewState
<1> QED BY <1>1, <1>2, <1>3, <1>4, <1>5 DEF NewState

SymbolNodes(b) == {SymbolNode(b, i) : i \in Lines(b)}
StateNodes(b) == {StateNode(x[2]) : x \in Held(b)}
StmtNodes(b) == {StmtNode(i) : i \in Lines(b)}
GraphNodes(b) == SymbolNodes(b) \union StateNodes(b) \union StmtNodes(b)

\* The node tells what it is of.
LEMMA NodeFacts ==
  ASSUME NEW b, IsBody(b)
  PROVE  /\ GraphNodes(b) \subseteq Nodes
         /\ \A i \in Lines(b) : /\ SymbolNode(b, i).kind = "symbol" /\ SymbolNode(b, i).at = i
                               /\ SymbolNode(b, i).id = SymbolId(b.stmts[i].target)
                               /\ StmtNode(i).kind = "stmt" /\ StmtNode(i).at = i
         /\ \A x \in Held(b) : /\ StateNode(x[2]).kind = "state" /\ StateNode(x[2]).at = x[2].at
                              /\ StateNode(x[2]).id = StateId(x[2])
                              /\ x[1] \in Lines(b) /\ x[2].at \in Lines(b) /\ x[2].depth \in Nat
<1>1. Lines(b) \subseteq Nat
  BY BodyLines
<1>2. ASSUME NEW i \in Lines(b)
      PROVE  /\ SymbolNode(b, i).kind = "symbol" /\ SymbolNode(b, i).at = i
             /\ SymbolNode(b, i).id = SymbolId(b.stmts[i].target)
             /\ StmtNode(i).kind = "stmt" /\ StmtNode(i).at = i
             /\ SymbolNode(b, i) \in Nodes /\ StmtNode(i) \in Nodes
  <2>1. b.stmts[i].target \in STRING
    BY BodyLines
  <2>2. SymbolId(b.stmts[i].target) \in NodeIds /\ NoId \in NodeIds
    BY <2>1 DEF SymbolId, NoId, NodeIds
  <2> QED BY <1>1, <2>2 DEF SymbolNode, StmtNode, Nodes
<1>3. ASSUME NEW x \in Held(b)
      PROVE  /\ StateNode(x[2]).kind = "state" /\ StateNode(x[2]).at = x[2].at
             /\ StateNode(x[2]).id = StateId(x[2])
             /\ x[1] \in Lines(b) /\ x[2].at \in Lines(b) /\ x[2].depth \in Nat
             /\ StateNode(x[2]) \in Nodes
  <2>1. x[1] \in Lines(b) /\ x[2] \in States(b, Nat)
    BY HeldFacts
  <2>2. x[2].at \in Lines(b) /\ x[2].depth \in Nat
    BY <2>1 DEF States
  <2>3. StateId(x[2]) \in NodeIds
    BY <1>1, <2>2 DEF StateId, NodeIds
  <2> QED BY <1>1, <2>1, <2>2, <2>3 DEF StateNode, Nodes
<1> QED BY <1>2, <1>3 DEF GraphNodes, SymbolNodes, StateNodes, StmtNodes

LEMMA NodesFinite ==
  ASSUME NEW b, IsBody(b)
  PROVE  IsFiniteSet(GraphNodes(b))
<1>1. IsFiniteSet(SymbolNodes(b))
  <2>1. [i \in Lines(b) |-> SymbolNode(b, i)] \in Surjection(Lines(b), SymbolNodes(b))
    BY DEF Surjection, SymbolNodes
  <2> QED BY <2>1, BodyLines, FS_Surjection
<1>2. IsFiniteSet(StmtNodes(b))
  <2>1. [i \in Lines(b) |-> StmtNode(i)] \in Surjection(Lines(b), StmtNodes(b))
    BY DEF Surjection, StmtNodes
  <2> QED BY <2>1, BodyLines, FS_Surjection
<1>3. IsFiniteSet(StateNodes(b))
  <2>1. [x \in Held(b) |-> StateNode(x[2])] \in Surjection(Held(b), StateNodes(b))
    BY DEF Surjection, StateNodes
  <2> QED BY <2>1, HeldFacts, FS_Surjection
<1>4. IsFiniteSet(SymbolNodes(b) \union StateNodes(b))
  BY <1>1, <1>3, FS_Union
<1> QED BY <1>2, <1>4, FS_Union DEF GraphNodes

LEMMA EdgeEnds ==
  ASSUME NEW b, IsBody(b), NEW e \in Graph(b)
  PROVE  \E u, v \in GraphNodes(b), kind \in {"SYMBOL_IS_DEFINED", "SYMBOL_IS_USED", "SYMBOL_STATE",
                                             "STATE_INCLUSION", "SYMBOL_FLOW"}, pos \in 0..2 :
           e = Edge(u, v, kind, pos)
<1>1. /\ \A i \in Lines(b) : SymbolNode(b, i) \in GraphNodes(b) /\ StmtNode(i) \in GraphNodes(b)
      /\ \A x \in Held(b) : StateNode(x[2]) \in GraphNodes(b) /\ SymbolNode(b, x[1]) \in GraphNodes(b)
  BY NodeFacts DEF GraphNodes, SymbolNodes, StateNodes, StmtNodes
<1>2. \A x \in Known(b) : x[1] \in Lines(b) /\ x[2] \in Lines(b) /\ x[3] - 1 \in 0..2
  BY KnownFacts DEF Known, Positions
<1>3. 0 \in 0..2
  OBVIOUS
<1> HIDE DEF Edge
<1>4. CASE IsDefined(b, e)
  BY <1>1, <1>3, <1>4 DEF IsDefined
<1>5. CASE IsUsed(b, e)
  BY <1>1, <1>2, <1>5 DEF IsUsed
<1>6. CASE HasState(b, e)
  BY <1>1, <1>3, <1>6 DEF HasState
<1>7. CASE Includes(b, e)
  BY <1>1, <1>3, <1>7 DEF Includes
<1>8. CASE FlowsTo(b, e)
  BY <1>1, <1>2, <1>3, <1>8 DEF FlowsTo
<1> QED BY <1>4, <1>5, <1>6, <1>7, <1>8, GraphEdges

LEMMA GraphFinite ==
  ASSUME NEW b, IsBody(b)
  PROVE  IsFiniteSet(Graph(b))
<1> DEFINE Kinds == {"SYMBOL_IS_DEFINED", "SYMBOL_IS_USED", "SYMBOL_STATE", "STATE_INCLUSION", "SYMBOL_FLOW"}
           Ways == Kinds \X (0..2)
           All == GraphNodes(b) \X GraphNodes(b) \X Ways
           edges == {Edge(x[1], x[2], x[3][1], x[3][2]) : x \in All}
<1>1. IsFiniteSet(Ways)
  <2>1. IsFiniteSet(0..2)
    <3>1. 0..2 \in SUBSET Nat /\ 2 \in Nat /\ \A p \in 0..2 : p <= 2
      OBVIOUS
    <3> QED BY <3>1, FS_BoundedSetOfNaturals
  <2>2. IsFiniteSet(Kinds)
    <3>1. IsFiniteSet({"SYMBOL_IS_DEFINED"}) /\ IsFiniteSet({"SYMBOL_IS_USED"}) /\ IsFiniteSet({"SYMBOL_STATE"})
      BY FS_Singleton
    <3>2. IsFiniteSet({"STATE_INCLUSION"}) /\ IsFiniteSet({"SYMBOL_FLOW"})
      BY FS_Singleton
    <3>3. IsFiniteSet({"SYMBOL_IS_DEFINED"} \union {"SYMBOL_IS_USED"})
      BY <3>1, FS_Union
    <3>4. IsFiniteSet(({"SYMBOL_IS_DEFINED"} \union {"SYMBOL_IS_USED"}) \union {"SYMBOL_STATE"})
      BY <3>1, <3>3, FS_Union
    <3>5. IsFiniteSet({"STATE_INCLUSION"} \union {"SYMBOL_FLOW"})
      BY <3>2, FS_Union
    <3>6. Kinds = (({"SYMBOL_IS_DEFINED"} \union {"SYMBOL_IS_USED"}) \union {"SYMBOL_STATE"})
                     \union ({"STATE_INCLUSION"} \union {"SYMBOL_FLOW"})
      OBVIOUS
    <3> HIDE DEF Kinds
    <3> QED BY <3>4, <3>5, <3>6, FS_Union
  <2> HIDE DEF Kinds
  <2> QED BY <2>1, <2>2, FS_Product
<1> HIDE DEF Ways
<1>2. IsFiniteSet(All)
  BY <1>1, NodesFinite, FiniteTriples
<1>3. IsFiniteSet(edges)
  <2> DEFINE f == [x \in All |-> Edge(x[1], x[2], x[3][1], x[3][2])]
  <2>1. f \in Surjection(All, edges)
    BY DEF Surjection
  <2> QED BY <1>2, <2>1, FS_Surjection
<1>4. ASSUME NEW e \in Graph(b) PROVE e \in edges
  <2>1. PICK u, v \in GraphNodes(b), kind \in Kinds, pos \in 0..2 : e = Edge(u, v, kind, pos)
    BY EdgeEnds
  <2>2. <<u, v, <<kind, pos>>>> \in All
    BY <2>1 DEF Ways
  <2> HIDE DEF All
  <2> QED BY <2>1, <2>2
<1> HIDE DEF edges
<1> QED BY <1>3, <1>4, FS_Subset

LEMMA DefinedEdge ==
  ASSUME NEW b, NEW e \in Graph(b), e.kind = "SYMBOL_IS_DEFINED"
  PROVE  \E i \in Lines(b) : e.from = StmtNode(i) /\ e.to = SymbolNode(b, i)
BY GraphEdges DEF Edge, IsDefined, IsUsed, HasState, Includes, FlowsTo

LEMMA UsedEdge ==
  ASSUME NEW b, NEW e \in Graph(b), e.kind = "SYMBOL_IS_USED"
  PROVE  \E x \in Known(b) : e.from = SymbolNode(b, x[1]) /\ e.to = StmtNode(x[2]) /\ e.pos = x[3] - 1
BY GraphEdges DEF Edge, IsDefined, IsUsed, HasState, Includes, FlowsTo

LEMMA StateEdge ==
  ASSUME NEW b, NEW e \in Graph(b), e.kind = "SYMBOL_STATE"
  PROVE  \E x \in Held(b) : e.from = SymbolNode(b, x[1]) /\ e.to = StateNode(x[2])
BY GraphEdges DEF Edge, IsDefined, IsUsed, HasState, Includes, FlowsTo

LEMMA InclusionEdge ==
  ASSUME NEW b, NEW e \in Graph(b), e.kind = "STATE_INCLUSION"
  PROVE  \E x, y \in Held(b) : y[2].at = x[2].at /\ e.from = StateNode(x[2]) /\ e.to = StateNode(y[2])
BY GraphEdges DEF Edge, IsDefined, IsUsed, HasState, Includes, FlowsTo

LEMMA FlowEdge ==
  ASSUME NEW b, NEW e \in Graph(b), e.kind = "SYMBOL_FLOW"
  PROVE  \E x \in Known(b) : x[3] = 1 /\ e.from = SymbolNode(b, x[1]) /\ e.to = SymbolNode(b, x[2])
BY GraphEdges DEF Edge, IsDefined, IsUsed, HasState, Includes, FlowsTo

\* A definition that a statement uses has an edge to it, of the first position.
LEMMA FirstUse ==
  ASSUME NEW b, IsBody(b), NEW x \in Known(b)
  PROVE  \E p \in 1..x[3] :
           /\ <<x[1], x[2], p>> \in Known(b)
           /\ Edge(SymbolNode(b, x[1]), StmtNode(x[2]), "SYMBOL_IS_USED", p - 1) \in Graph(b)
<1> DEFINE at == {p \in Nat : <<x[1], x[2], p>> \in Known(b)}
<1>1. x = <<x[1], x[2], x[3]>> /\ x[3] \in at
  BY KnownFacts DEF Known, Positions
<1>2. PICK p \in at : \A q \in at : p <= q
  BY <1>1, LeastElement
<1>3. <<x[1], x[2], p>> \in Known(b) /\ p <= x[3] /\ p \in Nat /\ x[3] \in Nat
  BY <1>1, <1>2
<1>4. p \in 1..3
  BY <1>3, KnownFacts DEF Known, Positions
<1>5. \A q \in 1..(p - 1) : <<x[1], x[2], q>> \notin Known(b)
  BY <1>2, <1>4
<1>6. PICK y \in Known(b) : y = <<x[1], x[2], p>>
  BY <1>3
<1>7. y[1] = x[1] /\ y[2] = x[2] /\ y[3] = p
  BY <1>6
<1>8. Edge(SymbolNode(b, y[1]), StmtNode(y[2]), "SYMBOL_IS_USED", y[3] - 1) \in Graph(b)
  BY <1>5, <1>7, GraphHas
<1> QED BY <1>3, <1>4, <1>7, <1>8

GraphInv == body \in Bodies /\ sfg = Graph(body)

LEMMA BodyIs == ASSUME GraphInv PROVE IsBody(body)
BY BodyAssumption DEF GraphInv

\* What the edges from a node and to it lead to.
LEMMA LeadTo ==
  ASSUME GraphInv, NEW n, NEW m
  PROVE  /\ m \in After(n, {"SYMBOL_STATE"}) =>
              \E x \in Held(body) : n = SymbolNode(body, x[1]) /\ m = StateNode(x[2])
         /\ m \in After(n, {"SYMBOL_IS_USED"}) =>
              \E x \in Known(body) : n = SymbolNode(body, x[1]) /\ m = StmtNode(x[2])
         /\ m \in After(n, {"SYMBOL_FLOW"}) =>
              \E x \in Known(body) : x[3] = 1 /\ n = SymbolNode(body, x[1]) /\ m = SymbolNode(body, x[2])
         /\ m \in After(n, {"STATE_INCLUSION"}) =>
              \E x, y \in Held(body) : y[2].at = x[2].at /\ n = StateNode(x[2]) /\ m = StateNode(y[2])
         /\ m \in After(n, {"SYMBOL_IS_DEFINED"}) =>
              \E i \in Lines(body) : n = StmtNode(i) /\ m = SymbolNode(body, i)
<1>1. ASSUME NEW kind, m \in After(n, {kind})
      PROVE  \E e \in Graph(body) : e.kind = kind /\ e.from = n /\ e.to = m
  BY <1>1 DEF After, GraphInv
<1>2. ASSUME m \in After(n, {"SYMBOL_STATE"})
      PROVE  \E x \in Held(body) : n = SymbolNode(body, x[1]) /\ m = StateNode(x[2])
  <2>1. PICK e \in Graph(body) : e.kind = "SYMBOL_STATE" /\ e.from = n /\ e.to = m
    BY <1>1, <1>2
  <2> QED BY <2>1, StateEdge
<1>3. ASSUME m \in After(n, {"SYMBOL_IS_USED"})
      PROVE  \E x \in Known(body) : n = SymbolNode(body, x[1]) /\ m = StmtNode(x[2])
  <2>1. PICK e \in Graph(body) : e.kind = "SYMBOL_IS_USED" /\ e.from = n /\ e.to = m
    BY <1>1, <1>3
  <2> QED BY <2>1, UsedEdge
<1>4. ASSUME m \in After(n, {"SYMBOL_FLOW"})
      PROVE  \E x \in Known(body) : x[3] = 1 /\ n = SymbolNode(body, x[1]) /\ m = SymbolNode(body, x[2])
  <2>1. PICK e \in Graph(body) : e.kind = "SYMBOL_FLOW" /\ e.from = n /\ e.to = m
    BY <1>1, <1>4
  <2> QED BY <2>1, FlowEdge
<1>5. ASSUME m \in After(n, {"STATE_INCLUSION"})
      PROVE  \E x, y \in Held(body) : y[2].at = x[2].at /\ n = StateNode(x[2]) /\ m = StateNode(y[2])
  <2>1. PICK e \in Graph(body) : e.kind = "STATE_INCLUSION" /\ e.from = n /\ e.to = m
    BY <1>1, <1>5
  <2> QED BY <2>1, InclusionEdge
<1>6. ASSUME m \in After(n, {"SYMBOL_IS_DEFINED"})
      PROVE  \E i \in Lines(body) : n = StmtNode(i) /\ m = SymbolNode(body, i)
  <2>1. PICK e \in Graph(body) : e.kind = "SYMBOL_IS_DEFINED" /\ e.from = n /\ e.to = m
    BY <1>1, <1>6
  <2> QED BY <2>1, DefinedEdge
<1> QED BY <1>2, <1>3, <1>4, <1>5, <1>6

LEMMA LeadFrom ==
  ASSUME GraphInv, NEW n, NEW m
  PROVE  /\ m \in Before(n, {"SYMBOL_IS_USED"}) =>
              \E x \in Known(body) : m = SymbolNode(body, x[1]) /\ n = StmtNode(x[2])
         /\ m \in Before(n, {"SYMBOL_STATE", "STATE_INCLUSION"}) =>
              \/ \E x \in Held(body) : m = SymbolNode(body, x[1]) /\ n = StateNode(x[2])
              \/ \E x, y \in Held(body) : y[2].at = x[2].at /\ m = StateNode(x[2]) /\ n = StateNode(y[2])
         /\ \A i \in Lines(body) : m \in Receivers(i) =>
              /\ body.stmts[i].op = "object_call_stmt"
              /\ \E x \in Known(body) : x[2] = i /\ x[3] = 1 /\ m = SymbolNode(body, x[1])
<1>1. ASSUME m \in Before(n, {"SYMBOL_IS_USED"})
      PROVE  \E x \in Known(body) : m = SymbolNode(body, x[1]) /\ n = StmtNode(x[2])
  <2>1. PICK e \in Graph(body) : e.kind = "SYMBOL_IS_USED" /\ e.from = m /\ e.to = n
    BY <1>1 DEF Before, GraphInv
  <2> QED BY <2>1, UsedEdge
<1>2. ASSUME m \in Before(n, {"SYMBOL_STATE", "STATE_INCLUSION"})
      PROVE  \/ \E x \in Held(body) : m = SymbolNode(body, x[1]) /\ n = StateNode(x[2])
             \/ \E x, y \in Held(body) : y[2].at = x[2].at /\ m = StateNode(x[2]) /\ n = StateNode(y[2])
  <2>1. PICK e \in Graph(body) : e.kind \in {"SYMBOL_STATE", "STATE_INCLUSION"} /\ e.from = m /\ e.to = n
    BY <1>2 DEF Before, GraphInv
  <2> QED BY <2>1, StateEdge, InclusionEdge
<1>3. ASSUME NEW i \in Lines(body), m \in Receivers(i)
      PROVE  /\ body.stmts[i].op = "object_call_stmt"
             /\ \E x \in Known(body) : x[2] = i /\ x[3] = 1 /\ m = SymbolNode(body, x[1])
  <2>1. body.stmts[i].op = "object_call_stmt"
    BY <1>3 DEF Receivers
  <2>2. PICK e \in Graph(body) : e.kind = "SYMBOL_IS_USED" /\ e.from = m /\ e.to = StmtNode(i) /\ e.pos = 0
    BY <1>3, <2>1 DEF Receivers, GraphInv
  <2>3. PICK x \in Known(body) : m = SymbolNode(body, x[1]) /\ StmtNode(i) = StmtNode(x[2]) /\ x[3] - 1 = 0
    BY <2>2, UsedEdge
  <2>4. x[2] \in Lines(body) /\ x[3] \in Nat
    BY BodyIs, KnownFacts DEF Known, Positions
  <2>5. x[2] = i
    BY <2>3, <2>4, BodyIs, NodeFacts
  <2> QED BY <2>1, <2>3, <2>4, <2>5
<1> QED BY <1>1, <1>2, <1>3

LEMMA EdgesThere ==
  ASSUME GraphInv
  PROVE  /\ \A x \in Held(body) : /\ StateNode(x[2]) \in After(SymbolNode(body, x[1]), {"SYMBOL_STATE"})
                                 /\ SymbolNode(body, x[1])
                                       \in Before(StateNode(x[2]), {"SYMBOL_STATE", "STATE_INCLUSION"})
         /\ \A x \in Known(body) : /\ StmtNode(x[2]) \in After(SymbolNode(body, x[1]), {"SYMBOL_IS_USED"})
                                  /\ SymbolNode(body, x[1]) \in Before(StmtNode(x[2]), {"SYMBOL_IS_USED"})
         /\ \A x \in Known(body) :
              /\ x[3] = 1 /\ body.stmts[x[2]].op = "type_cast_stmt"
              /\ NewState(x[2], TRUE) \in Made(Held(body), x[2])
              => SymbolNode(body, x[2]) \in After(SymbolNode(body, x[1]), {"SYMBOL_FLOW"})
         /\ \A i \in Lines(body) : SymbolNode(body, i) \in After(StmtNode(i), {"SYMBOL_IS_DEFINED"})
         /\ \A x \in Known(body) : x[3] = 1 /\ body.stmts[x[2]].op = "object_call_stmt"
                                   => SymbolNode(body, x[1]) \in Receivers(x[2])
<1>1. \A n, m, kind, pos, kinds : Edge(n, m, kind, pos) \in Graph(body) /\ kind \in kinds
                                   => m \in After(n, kinds) /\ n \in Before(m, kinds)
  <2> TAKE n, m, kind, pos, kinds
  <2>1. /\ Edge(n, m, kind, pos).from = n /\ Edge(n, m, kind, pos).to = m
        /\ Edge(n, m, kind, pos).kind = kind
    BY DEF Edge
  <2> QED BY <2>1 DEF After, Before, GraphInv
<1>2. ASSUME NEW x \in Held(body)
      PROVE  /\ StateNode(x[2]) \in After(SymbolNode(body, x[1]), {"SYMBOL_STATE"})
             /\ SymbolNode(body, x[1]) \in Before(StateNode(x[2]), {"SYMBOL_STATE", "STATE_INCLUSION"})
  BY <1>1, GraphHas
<1>3. ASSUME NEW x \in Known(body)
      PROVE  /\ StmtNode(x[2]) \in After(SymbolNode(body, x[1]), {"SYMBOL_IS_USED"})
             /\ SymbolNode(body, x[1]) \in Before(StmtNode(x[2]), {"SYMBOL_IS_USED"})
  BY <1>1, BodyIs, FirstUse
<1>4. ASSUME NEW x \in Known(body), x[3] = 1, body.stmts[x[2]].op = "type_cast_stmt",
             NewState(x[2], TRUE) \in Made(Held(body), x[2])
      PROVE  SymbolNode(body, x[2]) \in After(SymbolNode(body, x[1]), {"SYMBOL_FLOW"})
  <2>1. Edge(SymbolNode(body, x[1]), SymbolNode(body, x[2]), "SYMBOL_FLOW", 0) \in Graph(body)
    BY <1>4, GraphHas DEF NewState
  <2> QED BY <1>1, <2>1
<1>5. ASSUME NEW i \in Lines(body)
      PROVE  SymbolNode(body, i) \in After(StmtNode(i), {"SYMBOL_IS_DEFINED"})
  BY <1>1, GraphHas
<1>6. ASSUME NEW x \in Known(body), x[3] = 1, body.stmts[x[2]].op = "object_call_stmt"
      PROVE  SymbolNode(body, x[1]) \in Receivers(x[2])
  <2>1. PICK p \in 1..1 : Edge(SymbolNode(body, x[1]), StmtNode(x[2]), "SYMBOL_IS_USED", p - 1) \in Graph(body)
    BY <1>6, BodyIs, FirstUse
  <2>2. PICK e \in sfg : e = Edge(SymbolNode(body, x[1]), StmtNode(x[2]), "SYMBOL_IS_USED", 0)
    BY <2>1 DEF GraphInv
  <2>3. e.from = SymbolNode(body, x[1]) /\ e.to = StmtNode(x[2]) /\ e.kind = "SYMBOL_IS_USED" /\ e.pos = 0
    BY <2>2 DEF Edge
  <2> QED BY <1>6, <2>3 DEF Receivers
<1> QED BY <1>2, <1>3, <1>4, <1>5, <1>6 DEF NewState

LEMMA Neighbours ==
  ASSUME GraphInv
  PROVE  /\ IsFiniteSet(GraphNodes(body)) /\ GraphNodes(body) \subseteq Nodes
         /\ \A n, kinds : /\ After(n, kinds) \subseteq GraphNodes(body)
                         /\ Before(n, kinds) \subseteq GraphNodes(body)
         /\ \A i : Receivers(i) \subseteq GraphNodes(body)
<1>1. ASSUME NEW e \in sfg PROVE e.from \in GraphNodes(body) /\ e.to \in GraphNodes(body)
  <2>1. \E u, v \in GraphNodes(body), kind \in {"SYMBOL_IS_DEFINED", "SYMBOL_IS_USED", "SYMBOL_STATE",
                                                "STATE_INCLUSION", "SYMBOL_FLOW"}, pos \in 0..2 :
          e = Edge(u, v, kind, pos)
    BY <1>1, BodyIs, EdgeEnds DEF GraphInv
  <2> QED BY <2>1 DEF Edge
<1> QED BY <1>1, BodyIs, NodesFinite, NodeFacts DEF After, Before, Receivers

-----------------------------------------------------------------------------
\* The pairs: every source with every sink.

PairsWith(from, to) ==
  CHOOSE upto : upto = [n \in 0..Len(from) |->
                          IF n = 0 THEN <<>> ELSE upto[n - 1] \o [k \in 1..Len(to) |-> <<from[n], to[k]>>]]

LEMMA PairsIs ==
  ASSUME NEW from, NEW to
  PROVE  Pairs(from, to) = PairsWith(from, to)[Len(from)]
BY DEF Pairs, PairsWith

LEMMA PairsFacts ==
  ASSUME NEW A, NEW B, NEW from \in Seq(A), NEW to \in Seq(B)
  PROVE  /\ Pairs(from, to) \in Seq(A \X B)
         /\ \A x \in ToSet(from), y \in ToSet(to) : <<x, y>> \in ToSet(Pairs(from, to))
<1>1. PICK N \in Nat : N = Len(from)
  BY LenProperties
<1>2. /\ Len(to) \in Nat /\ \A k \in 1..Len(to) : to[k] \in B
      /\ \A n \in 1..N : from[n] \in A
  BY <1>1, LenProperties, ElementOfSeq
<1> DEFINE S == Seq(A \X B)
           With(n) == [k \in 1..Len(to) |-> <<from[n], to[k]>>]
           step == [v \in (1..N) \X S |-> v[2] \o With(v[1])]
<1>3. \A n \in 1..N : /\ With(n) \in S /\ \A y \in ToSet(to) : <<from[n], y>> \in ToSet(With(n))
  <2> TAKE n \in 1..N
  <2>1. With(n) \in Seq(A \X B)
    BY <1>2
  <2>2. DOMAIN With(n) = 1..Len(to) /\ \A k \in 1..Len(to) : With(n)[k] = <<from[n], to[k]>>
    OBVIOUS
  <2>3. \A y : y \in ToSet(to) <=> \E k \in 1..Len(to) : to[k] = y
    BY ToSetFacts
  <2> HIDE DEF With
  <2>4. \A y \in ToSet(to) : <<from[n], y>> \in ToSet(With(n))
    BY <2>2, <2>3 DEF ToSet
  <2> QED BY <2>1, <2>4
<1> HIDE DEF With
<1>4. PICK h : Iterates(h, N, S, <<>>, step)
  <2>1. step \in Steps(N, S)
    <3>1. \A v \in (1..N) \X S : v[2] \o With(v[1]) \in S
      <4> TAKE v \in (1..N) \X S
      <4>1. v[2] \in Seq(A \X B) /\ With(v[1]) \in Seq(A \X B)
        BY <1>3
      <4> QED BY <4>1, Joined
    <3> HIDE DEF S
    <3> QED BY <3>1 DEF Steps
  <2>2. <<>> \in S
    OBVIOUS
  <2> HIDE DEF step, S
  <2> QED BY <2>1, <2>2, Recursion
<1>5. /\ h \in [0..N -> S] /\ h[0] = <<>>
      /\ \A n \in 1..N : h[n] = step[<<n, h[n - 1]>>]
  BY <1>4 DEF Iterates
<1>6. \A n \in 1..N : h[n] = h[n - 1] \o With(n)
  <2> HIDE DEF S
  <2> TAKE n \in 1..N
  <2>1. n - 1 \in 0..N
    OBVIOUS
  <2>2. <<n, h[n - 1]>> \in (1..N) \X S
    BY <1>5, <2>1
  <2>3. step[<<n, h[n - 1]>>] = h[n - 1] \o With(n)
    BY <2>2
  <2> HIDE DEF step
  <2> QED BY <1>5, <2>3
<1> HIDE DEF S, step
<1>7. h = [n \in 0..N |-> IF n = 0 THEN <<>> ELSE h[n - 1] \o With(n)]
  <2>1. \A n \in 0..N : h[n] = IF n = 0 THEN <<>> ELSE h[n - 1] \o With(n)
    BY <1>5, <1>6
  <2> QED BY <1>5, <2>1
<1>8. PICK f : f = PairsWith(from, to)
  OBVIOUS
<1>9. f = [n \in 0..N |-> IF n = 0 THEN <<>> ELSE f[n - 1] \o With(n)]
  BY <1>1, <1>7, <1>8, Zenon DEF PairsWith, With
<1>10. f[0] = <<>> /\ \A n \in 1..N : f[n] = f[n - 1] \o With(n)
  <2>1. \A k \in 0..N : f[k] = IF k = 0 THEN <<>> ELSE f[k - 1] \o With(k)
    BY <1>9, Zenon
  <2>2. 0 \in 0..N /\ \A n \in 1..N : n \in 0..N /\ n # 0
    OBVIOUS
  <2> QED BY <2>1, <2>2
<1> DEFINE Has(n) == /\ f[n] \in Seq(A \X B)
                     /\ \A i \in 1..n, y \in ToSet(to) : <<from[i], y>> \in ToSet(f[n])
           T == {n \in 0..N : Has(n)}
<1>11. 0 \in T
  <2>1. 0 \in 0..N /\ 1..0 = {} /\ f[0] \in Seq(A \X B)
    BY <1>1, <1>10
  <2> QED BY <2>1
<1>12. ASSUME NEW n \in 0..N, n # N, n \in T PROVE n + 1 \in T
  <2>1. n + 1 \in 1..N /\ n + 1 - 1 = n /\ n + 1 \in 0..N
    BY <1>12
  <2>2. f[n + 1] = f[n] \o With(n + 1)
    <3>1. PICK m \in 1..N : m = n + 1 /\ m - 1 = n
      BY <2>1
    <3>2. f[m] = f[m - 1] \o With(m)
      BY <1>10
    <3> QED BY <3>1, <3>2
  <2>3. f[n] \in Seq(A \X B) /\ With(n + 1) \in Seq(A \X B)
    BY <1>3, <1>12, <2>1 DEF S
  <2>4. f[n + 1] \in Seq(A \X B) /\ ToSet(f[n + 1]) = ToSet(f[n]) \union ToSet(With(n + 1))
    BY <2>2, <2>3, Joined
  <2>5. ASSUME NEW i \in 1..(n + 1), NEW y \in ToSet(to) PROVE <<from[i], y>> \in ToSet(f[n + 1])
    <3>1. CASE i = n + 1
      BY <1>3, <2>1, <2>4, <3>1
    <3>2. CASE i # n + 1
      <4>1. i \in 1..n
        BY <3>2
      <4> QED BY <1>12, <2>4, <4>1
    <3> QED BY <3>1, <3>2
  <2> QED BY <2>1, <2>4, <2>5
<1>13. N \in T
  <2> HIDE DEF T
  <2>1. \A n \in 0..N : n # N /\ n \in T => n + 1 \in T
    BY <1>12
  <2>2. \A n \in 0..N : n \in T
    BY <1>1, <1>11, <2>1, UpTo
  <2> QED BY <1>1, <2>2
<1>14. \A x \in ToSet(from) : \E i \in 1..N : from[i] = x
  BY <1>1, ToSetFacts
<1>15. Pairs(from, to) = f[N]
  BY <1>1, <1>8, PairsIs
<1> QED BY <1>13, <1>14, <1>15

-----------------------------------------------------------------------------
\* Types, and what a step does to the worklist.

SinkNodes == {StmtNode(i) : i \in Sinks(body)}

TypeInv ==
  /\ GraphInv
  /\ pairs \in Seq(Sources(body) \X SinkNodes)
  /\ active \in BOOLEAN /\ (active => pairs # <<>>) /\ (~active => worklist = <<>>)
  /\ worklist \in Seq(GraphNodes(body)) /\ processed \subseteq GraphNodes(body)
  /\ symbols \subseteq Ids(GraphNodes(body)) \union {body.twin.symbol}
  /\ states \subseteq Ids(GraphNodes(body))
  /\ \A f \in flows : f.source \in Sources(body) /\ f.sink \in Sinks(body)

\* The nodes that the propagation has come to.
Touched == ToSet(worklist) \union processed

\* n is taken from the list, new is put to its end.
Moved(n, new) ==
  /\ active /\ n = Popped /\ n \in ToSet(worklist) /\ n \in GraphNodes(body) /\ new \subseteq GraphNodes(body)
  /\ ToSet(worklist) = {n} \union ToSet(Tail(worklist))
  /\ worklist' \in Seq(GraphNodes(body))
  /\ ToSet(worklist') = ToSet(Tail(worklist)) \union new
  /\ processed' = processed \union {n}
  /\ Touched' = Touched \union new
  /\ UNCHANGED <<body, sfg, pairs, active, flows>>

LEMMA PoppedFacts ==
  ASSUME TypeInv, worklist # <<>>
  PROVE  /\ active /\ Popped \in GraphNodes(body) /\ Popped \in ToSet(worklist)
         /\ Tail(worklist) \in Seq(GraphNodes(body))
         /\ ToSet(worklist) = {Popped} \union ToSet(Tail(worklist))
<1>1. worklist \in Seq(GraphNodes(body)) /\ active
  BY DEF TypeInv
<1> QED BY <1>1, ToSetFacts DEF Popped

LEMMA MovedOnce ==
  ASSUME TypeInv, worklist # <<>>, NEW new \in SUBSET GraphNodes(body),
         worklist' = Enqueued(Tail(worklist), new), processed' = processed \union {Popped},
         UNCHANGED <<body, sfg, pairs, active, flows>>
  PROVE  Moved(Popped, new)
<1>1. GraphNodes(body) \in SUBSET Nodes /\ IsFiniteSet(new)
  BY Neighbours, FS_Subset DEF TypeInv
<1>2. worklist' \in Seq(GraphNodes(body)) /\ ToSet(worklist') = ToSet(Tail(worklist)) \union new
  <2>1. PICK S, rest : S = GraphNodes(body) /\ rest = Tail(worklist)
    OBVIOUS
  <2>2. S \in SUBSET Nodes /\ rest \in Seq(S) /\ new \in SUBSET S /\ worklist' = Enqueued(rest, new)
    BY <1>1, <2>1, PoppedFacts
  <2>3. Enqueued(rest, new) \in Seq(S) /\ ToSet(Enqueued(rest, new)) = ToSet(rest) \union new
    BY <1>1, <2>2, EnqueuedFacts
  <2> QED BY <2>1, <2>2, <2>3
<1> QED BY <1>2, PoppedFacts DEF Moved, Touched

LEMMA MovedTwice ==
  ASSUME TypeInv, worklist # <<>>, NEW one \in SUBSET GraphNodes(body), NEW two \in SUBSET GraphNodes(body),
         worklist' = Enqueued(Enqueued(Tail(worklist), one), two), processed' = processed \union {Popped},
         UNCHANGED <<body, sfg, pairs, active, flows>>
  PROVE  Moved(Popped, one \union two)
<1>1. GraphNodes(body) \in SUBSET Nodes /\ IsFiniteSet(one) /\ IsFiniteSet(two)
  BY Neighbours, FS_Subset DEF TypeInv
<1>2. PICK list : /\ list = Enqueued(Tail(worklist), one) /\ list \in Seq(GraphNodes(body))
                  /\ ToSet(list) = ToSet(Tail(worklist)) \union one
  <2>1. PICK S, rest : S = GraphNodes(body) /\ rest = Tail(worklist)
    OBVIOUS
  <2>2. S \in SUBSET Nodes /\ rest \in Seq(S) /\ one \in SUBSET S
    BY <1>1, <2>1, PoppedFacts
  <2>3. Enqueued(rest, one) \in Seq(S) /\ ToSet(Enqueued(rest, one)) = ToSet(rest) \union one
    BY <1>1, <2>2, EnqueuedFacts
  <2> QED BY <2>1, <2>2, <2>3
<1>3. worklist' \in Seq(GraphNodes(body)) /\ ToSet(worklist') = ToSet(list) \union two
  BY <1>1, <1>2, EnqueuedFacts
<1> QED BY <1>2, <1>3, PoppedFacts DEF Moved, Touched

LEMMA BeginStep ==
  ASSUME TypeInv, Begin
  PROVE  \E source \in Sources(body), held \in SUBSET GraphNodes(body) :
           /\ ~active /\ pairs # <<>> /\ source = Head(pairs)[1] /\ source \in GraphNodes(body)
           /\ held = After(source, {"SYMBOL_STATE"})
           /\ symbols' = {source.id} /\ states' = Ids(held)
           /\ worklist' \in Seq(GraphNodes(body)) /\ ToSet(worklist') = {source} \union held
           /\ processed' = {} /\ active' = TRUE
           /\ UNCHANGED <<body, sfg, pairs, flows>>
<1>1. PICK source, held : /\ source = Head(pairs)[1] /\ held = After(source, {"SYMBOL_STATE"})
                          /\ symbols' = {source.id} /\ states' = Ids(held)
                          /\ worklist' = Enqueued(<<source>>, held)
  BY DEF Begin
<1>2. ~active /\ pairs # <<>> /\ processed' = {} /\ active' = TRUE /\ UNCHANGED <<body, sfg, pairs, flows>>
  BY DEF Begin
<1>3. source \in Sources(body)
  BY <1>1, <1>2, ToSetFacts DEF TypeInv
<1>4. source \in GraphNodes(body)
  BY <1>3 DEF Sources, GraphNodes, SymbolNodes
<1>5. held \in SUBSET GraphNodes(body) /\ IsFiniteSet(held) /\ GraphNodes(body) \in SUBSET Nodes
  BY <1>1, Neighbours, FS_Subset DEF TypeInv
<1>6. <<source>> \in Seq(GraphNodes(body)) /\ ToSet(<<source>>) = {source}
  BY <1>4 DEF ToSet
<1>7. worklist' \in Seq(GraphNodes(body)) /\ ToSet(worklist') = {source} \union held
  <2>1. PICK S, list : S = GraphNodes(body) /\ list = <<source>>
    OBVIOUS
  <2>2. S \in SUBSET Nodes /\ list \in Seq(S) /\ held \in SUBSET S
    BY <1>5, <1>6, <2>1
  <2>3. Enqueued(list, held) \in Seq(S) /\ ToSet(Enqueued(list, held)) = ToSet(list) \union held
    BY <1>5, <2>2, EnqueuedFacts
  <2> QED BY <1>1, <1>6, <2>1, <2>3
<1> QED BY <1>1, <1>2, <1>3, <1>4, <1>5, <1>7

LEMMA SymbolStep ==
  ASSUME TypeInv, FromSymbol
  PROVE  \E held, using, into \in SUBSET GraphNodes(body) :
           /\ Popped.kind = "symbol"
           /\ held = Untagged(After(Popped, {"SYMBOL_STATE"}), states)
           /\ using = After(Popped, {"SYMBOL_IS_USED"})
           /\ into = Untagged(After(Popped, {"SYMBOL_FLOW"}), symbols)
           /\ states' = states \union Ids(held) /\ symbols' = symbols \union Ids(into)
           /\ Moved(Popped, held \union using \union into)
<1>1. PICK held, using, into :
        /\ held = Untagged(After(Popped, {"SYMBOL_STATE"}), states)
        /\ using = After(Popped, {"SYMBOL_IS_USED"})
        /\ into = Untagged(After(Popped, {"SYMBOL_FLOW"}), symbols)
        /\ states' = states \union Ids(held) /\ symbols' = symbols \union Ids(into)
        /\ worklist' = Enqueued(Tail(worklist), held \union using \union into)
  BY DEF FromSymbol
<1>2. held \in SUBSET GraphNodes(body) /\ using \in SUBSET GraphNodes(body) /\ into \in SUBSET GraphNodes(body)
  BY <1>1, Neighbours DEF TypeInv, Untagged
<1>3. PICK new \in SUBSET GraphNodes(body) : new = held \union using \union into
  BY <1>2
<1>4. /\ worklist # <<>> /\ processed' = processed \union {Popped} /\ Popped.kind = "symbol"
      /\ UNCHANGED <<body, sfg, pairs, active, flows>>
  BY DEF FromSymbol
<1>5. Moved(Popped, new)
  BY <1>1, <1>3, <1>4, MovedOnce
<1> QED BY <1>1, <1>2, <1>3, <1>4, <1>5

LEMMA StateStep ==
  ASSUME TypeInv, FromState
  PROVE  \E holders, parts \in SUBSET GraphNodes(body) :
           /\ Popped.kind = "state"
           /\ holders = IF Popped.id \in states
                        THEN Holders(Before(Popped, {"SYMBOL_STATE", "STATE_INCLUSION"})) ELSE {}
           /\ parts = IF Popped.id \in states THEN Untagged(After(Popped, {"STATE_INCLUSION"}), states) ELSE {}
           /\ symbols' = symbols \union {TagId(n) : n \in holders} /\ states' = states \union Ids(parts)
           /\ Moved(Popped, holders \union parts)
<1>1. PICK holders, parts :
        /\ holders = IF Popped.id \in states
                     THEN Holders(Before(Popped, {"SYMBOL_STATE", "STATE_INCLUSION"})) ELSE {}
        /\ parts = IF Popped.id \in states THEN Untagged(After(Popped, {"STATE_INCLUSION"}), states) ELSE {}
        /\ symbols' = symbols \union {TagId(n) : n \in holders} /\ states' = states \union Ids(parts)
        /\ worklist' = Enqueued(Enqueued(Tail(worklist), holders), parts)
  BY DEF FromState
<1>2. holders \in SUBSET GraphNodes(body) /\ parts \in SUBSET GraphNodes(body)
  BY <1>1, Neighbours DEF TypeInv, Untagged, Holders
<1>3. /\ worklist # <<>> /\ processed' = processed \union {Popped} /\ Popped.kind = "state"
      /\ UNCHANGED <<body, sfg, pairs, active, flows>>
  BY DEF FromState
<1>4. Moved(Popped, holders \union parts)
  BY <1>1, <1>2, <1>3, MovedTwice
<1> QED BY <1>1, <1>2, <1>3, <1>4

\* Whether a statement passes the tag on.
Passing(n) == /\ \E m \in Before(n, {"SYMBOL_IS_USED"}) : m.id \in symbols
              /\ Propagates(body.stmts[n.at])

LEMMA StmtStep ==
  ASSUME TypeInv, FromStmt
  PROVE  \E more, back \in SUBSET GraphNodes(body) :
           /\ Popped.kind = "stmt"
           /\ more = IF Passing(Popped) THEN Pending(After(Popped, {"SYMBOL_IS_DEFINED"}), processed \union {Popped})
                                        ELSE {}
           /\ back = IF Passing(Popped) THEN Pending(Receivers(Popped.at), processed \union {Popped}) ELSE {}
           /\ symbols' = symbols \union Ids(more \union back) /\ states' = states
           /\ Moved(Popped, more \union back)
<1>1. PICK more, back :
        /\ more = IF Passing(Popped) THEN Pending(After(Popped, {"SYMBOL_IS_DEFINED"}), processed \union {Popped})
                                     ELSE {}
        /\ back = IF Passing(Popped) THEN Pending(Receivers(Popped.at), processed \union {Popped}) ELSE {}
        /\ symbols' = symbols \union Ids(more \union back)
        /\ worklist' = Enqueued(Enqueued(Tail(worklist), more), back)
        /\ processed' = processed \union {Popped}
  BY DEF FromStmt, Passing
<1>2. more \in SUBSET GraphNodes(body) /\ back \in SUBSET GraphNodes(body)
  BY <1>1, Neighbours DEF TypeInv, Pending
<1>3. worklist # <<>> /\ Popped.kind = "stmt" /\ UNCHANGED <<body, sfg, pairs, active, states, flows>>
  BY DEF FromStmt
<1>4. Moved(Popped, more \union back)
  BY <1>1, <1>2, <1>3, MovedTwice
<1> QED BY <1>1, <1>2, <1>3, <1>4

LEMMA CheckStep ==
  ASSUME TypeInv, Check
  PROVE  \E source \in Sources(body), i \in Sinks(body) :
           /\ active /\ worklist = <<>> /\ pairs # <<>>
           /\ source = Head(pairs)[1] /\ Head(pairs) = <<source, StmtNode(i)>>
           /\ ToSet(pairs) = {<<source, StmtNode(i)>>} \union ToSet(pairs')
           /\ flows' = IF SinkTagged(i) THEN flows \union {FlowTo(source, i)} ELSE flows
           /\ pairs' \in Seq(Sources(body) \X SinkNodes) /\ active' = FALSE
           /\ UNCHANGED <<body, sfg, symbols, states, worklist, processed>>
<1>1. /\ active /\ worklist = <<>> /\ pairs' = Tail(pairs) /\ active' = FALSE
      /\ UNCHANGED <<body, sfg, symbols, states, worklist, processed>>
  BY DEF Check
<1>2. pairs # <<>> /\ pairs \in Seq(Sources(body) \X SinkNodes)
  BY <1>1 DEF TypeInv
<1>3. PICK h : h = Head(pairs)
  OBVIOUS
<1>4. /\ h \in Sources(body) \X SinkNodes /\ Tail(pairs) \in Seq(Sources(body) \X SinkNodes)
      /\ ToSet(pairs) = {h} \union ToSet(Tail(pairs))
  BY <1>2, <1>3, ToSetFacts
<1>5. PICK i \in Sinks(body) : h[2] = StmtNode(i)
  BY <1>4 DEF SinkNodes
<1>6. h[2].at = i /\ h = <<h[1], StmtNode(i)>> /\ h[1] \in Sources(body)
  BY <1>4, <1>5 DEF StmtNode
<1>7. flows' = IF SinkTagged(i) THEN flows \union {FlowTo(h[1], i)} ELSE flows
  BY <1>3, <1>6 DEF Check
<1> QED BY <1>1, <1>2, <1>3, <1>4, <1>6, <1>7

LEMMA TypeAtStart == Init => TypeInv
<1> SUFFICES ASSUME Init PROVE TypeInv
  OBVIOUS
<1>1. GraphInv
  BY DEF Init, GraphInv
<1>2. IsBody(body)
  BY <1>1, BodyIs
<1>3. Sources(body) \in SUBSET Nodes /\ SinkNodes \in SUBSET Nodes
  BY <1>2, NodeFacts DEF Sources, SinkNodes, Sinks, GraphNodes, SymbolNodes, StmtNodes
<1>4. IsFiniteSet(Sources(body)) /\ IsFiniteSet(SinkNodes)
  <2>1. Sources(body) \subseteq GraphNodes(body) /\ SinkNodes \subseteq GraphNodes(body)
    BY DEF Sources, SinkNodes, Sinks, GraphNodes, SymbolNodes, StmtNodes
  <2> QED BY <1>2, <2>1, NodesFinite, FS_Subset
<1>5. Queue(Sources(body)) \in Seq(Sources(body)) /\ Queue(SinkNodes) \in Seq(SinkNodes)
  BY <1>3, <1>4, QueueFacts
<1>6. pairs = Pairs(Queue(Sources(body)), Queue(SinkNodes))
  BY DEF Init, SinkNodes
<1>7. pairs \in Seq(Sources(body) \X SinkNodes)
  BY <1>5, <1>6, PairsFacts
<1>8. <<>> \in Seq(GraphNodes(body))
  OBVIOUS
<1> QED BY <1>1, <1>7, <1>8 DEF Init, TypeInv

LEMMA TypeOfMoved ==
  ASSUME TypeInv, NEW n, NEW new, Moved(n, new),
         symbols' \subseteq Ids(GraphNodes(body)) \union {body.twin.symbol},
         states' \subseteq Ids(GraphNodes(body))
  PROVE  TypeInv'
BY DEF TypeInv, Moved, GraphInv, SinkNodes

LEMMA TypeKept == TypeInv /\ [Next]_vars => TypeInv'
<1> SUFFICES ASSUME TypeInv, [Next]_vars PROVE TypeInv'
  OBVIOUS
<1> DEFINE ids == Ids(GraphNodes(body)) \union {body.twin.symbol}
<1>0. symbols \subseteq ids /\ states \subseteq Ids(GraphNodes(body))
  BY DEF TypeInv
<1>1. CASE Begin
  <2>1. PICK source \in Sources(body), held \in SUBSET GraphNodes(body) :
           /\ ~active /\ pairs # <<>> /\ source = Head(pairs)[1] /\ source \in GraphNodes(body)
           /\ held = After(source, {"SYMBOL_STATE"})
           /\ symbols' = {source.id} /\ states' = Ids(held)
           /\ worklist' \in Seq(GraphNodes(body)) /\ ToSet(worklist') = {source} \union held
           /\ processed' = {} /\ active' = TRUE
           /\ UNCHANGED <<body, sfg, pairs, flows>>
    BY <1>1, BeginStep
  <2>2. symbols' \subseteq ids /\ states' \subseteq Ids(GraphNodes(body))
    BY <2>1 DEF Ids
  <2> QED BY <2>1, <2>2 DEF TypeInv, GraphInv, SinkNodes
<1>2. CASE FromSymbol
  <2>1. PICK held, using, into \in SUBSET GraphNodes(body) :
           /\ states' = states \union Ids(held) /\ symbols' = symbols \union Ids(into)
           /\ Moved(Popped, held \union using \union into)
    BY <1>2, SymbolStep
  <2>2. symbols' \subseteq ids /\ states' \subseteq Ids(GraphNodes(body))
    BY <1>0, <2>1 DEF Ids
  <2> QED BY <2>1, <2>2, TypeOfMoved
<1>3. CASE FromState
  <2>1. PICK holders, parts \in SUBSET GraphNodes(body) :
           /\ symbols' = symbols \union {TagId(n) : n \in holders} /\ states' = states \union Ids(parts)
           /\ Moved(Popped, holders \union parts)
    BY <1>3, StateStep
  <2>2. \A n \in holders : TagId(n) \in ids
    BY DEF TagId, Ids
  <2>3. symbols' \subseteq ids /\ states' \subseteq Ids(GraphNodes(body))
    <3> HIDE DEF ids
    <3>1. Ids(parts) \subseteq Ids(GraphNodes(body))
      BY DEF Ids
    <3> QED BY <1>0, <2>1, <2>2, <3>1
  <2> QED BY <2>1, <2>3, TypeOfMoved
<1>4. CASE FromStmt
  <2>1. PICK more, back \in SUBSET GraphNodes(body) :
           /\ symbols' = symbols \union Ids(more \union back) /\ states' = states
           /\ Moved(Popped, more \union back)
    BY <1>4, StmtStep
  <2>2. symbols' \subseteq ids /\ states' \subseteq Ids(GraphNodes(body))
    BY <1>0, <2>1 DEF Ids
  <2> QED BY <2>1, <2>2, TypeOfMoved
<1>5. CASE Check
  <2>1. PICK source \in Sources(body), i \in Sinks(body) :
           /\ worklist = <<>>
           /\ flows' = IF SinkTagged(i) THEN flows \union {FlowTo(source, i)} ELSE flows
           /\ pairs' \in Seq(Sources(body) \X SinkNodes) /\ active' = FALSE
           /\ UNCHANGED <<body, sfg, symbols, states, worklist, processed>>
    BY <1>5, CheckStep
  <2>2. \A f \in flows' : f.source \in Sources(body) /\ f.sink \in Sinks(body)
    <3>1. FlowTo(source, i).source = source /\ FlowTo(source, i).sink = i
      BY DEF FlowTo
    <3> QED BY <2>1, <3>1 DEF TypeInv
  <2> QED BY <2>1, <2>2 DEF TypeInv, GraphInv, SinkNodes
<1>6. CASE UNCHANGED vars
  BY <1>6 DEF vars, TypeInv, GraphInv, SinkNodes
<1> QED BY <1>1, <1>2, <1>3, <1>4, <1>5, <1>6 DEF Next

\* The worklist, the tags and the flows are of nodes of the body's graph, pair by pair
\* (TaintAnalysis.find_flows, PathFinder.propagate_taint).
THEOREM Typed == Spec => []TypeInv
<1>1. TypeInv /\ [Next]_vars => TypeInv'
  BY TypeKept
<1> QED BY <1>1, TypeAtStart, PTL DEF Spec

-----------------------------------------------------------------------------
\* Paths: what the search reaches are the chains of definitions and uses.

Chains(b) == {<<x[1], x[2]>> : x \in Known(b)}

LEMMA ChainsFinite ==
  ASSUME NEW b, IsBody(b)
  PROVE  IsFiniteSet(Chains(b)) /\ Chains(b) \subseteq Lines(b) \X Lines(b)
<1>1. Chains(b) \subseteq Lines(b) \X Lines(b)
  BY KnownFacts DEF Chains, Known
<1>2. IsFiniteSet(Lines(b) \X Lines(b))
  BY BodyLines, FS_Product
<1> QED BY <1>1, <1>2, FS_Subset

LEMMA SearchFinite ==
  ASSUME GraphInv
  PROVE  IsFiniteSet({<<e.from, e.to>> : e \in sfg})
<1>1. IsFiniteSet(sfg)
  BY BodyIs, GraphFinite DEF GraphInv
<1>2. [e \in sfg |-> <<e.from, e.to>>] \in Surjection(sfg, {<<e.from, e.to>> : e \in sfg})
  BY DEF Surjection
<1> QED BY <1>1, <1>2, FS_Surjection

LEMMA ChainsFound ==
  ASSUME GraphInv, NEW s \in Lines(body), NEW i \in Lines(body)
  PROVE  StmtNode(i) \in Forward(SymbolNode(body, s))
           <=> \E d \in Reach({s}, Chains(body)) : <<d, i>> \in Chains(body)
<1> DEFINE all == {<<e.from, e.to>> : e \in sfg}
           there == Reach({SymbolNode(body, s)}, all)
           chained == Reach({s}, Chains(body))
<1>1. Forward(SymbolNode(body, s)) = there
  BY DEF Forward
<1>2. SymbolNode(body, s) \in there /\ Closed(all, there)
  <2>1. IsFiniteSet(all)
    BY SearchFinite
  <2> HIDE DEF all
  <2> QED BY <2>1, ReachFacts
<1>3. s \in chained /\ chained \subseteq Lines(body) /\ Closed(Chains(body), chained)
  <2>1. Ends(Chains(body)) \subseteq Lines(body)
    BY BodyIs, ChainsFinite DEF Ends
  <2> QED BY <2>1, BodyIs, ChainsFinite, ReachFacts
<1>4. \A e \in sfg : e.from \in there => e.to \in there
  <2> TAKE e \in sfg
  <2>1. <<e.from, e.to>> \in all
    OBVIOUS
  <2> HIDE DEF all, there
  <2> QED BY <1>2, <2>1 DEF Closed
<1> HIDE DEF all, there, chained
<1>5. ASSUME NEW d \in Lines(body), NEW j \in Lines(body), <<d, j>> \in Chains(body), SymbolNode(body, d) \in there
      PROVE  StmtNode(j) \in there /\ SymbolNode(body, j) \in there
  <2>1. PICK x \in Known(body) : <<d, j>> = <<x[1], x[2]>>
    BY <1>5 DEF Chains
  <2>2. x[1] = d /\ x[2] = j
    BY <2>1
  <2>3. StmtNode(j) \in After(SymbolNode(body, d), {"SYMBOL_IS_USED"})
    BY <2>2, EdgesThere
  <2>4. StmtNode(j) \in there
    BY <1>4, <1>5, <2>3 DEF After
  <2>5. SymbolNode(body, j) \in After(StmtNode(j), {"SYMBOL_IS_DEFINED"})
    BY EdgesThere
  <2> QED BY <1>4, <2>4, <2>5 DEF After
<1>6. chained \subseteq {d \in Lines(body) : SymbolNode(body, d) \in there}
  <2> DEFINE T == {d \in Lines(body) : SymbolNode(body, d) \in there}
  <2>1. Closed(Chains(body), T)
    <3> SUFFICES ASSUME NEW l \in Chains(body), l[1] \in T PROVE l[2] \in T
      BY DEF Closed
    <3>1. l[1] \in Lines(body) /\ l[2] \in Lines(body) /\ l = <<l[1], l[2]>>
      BY BodyIs, ChainsFinite
    <3> QED BY <1>5, <3>1
  <2>2. {s} \subseteq T
    BY <1>2
  <2> HIDE DEF T
  <2>3. Reach({s}, Chains(body)) \subseteq T
    BY <2>1, <2>2, BodyIs, ChainsFinite, ReachLeast
  <2> QED BY <2>3 DEF T, chained
<1>7. ASSUME NEW d \in chained, <<d, i>> \in Chains(body) PROVE StmtNode(i) \in there
  BY <1>3, <1>5, <1>6, <1>7
<1> DEFINE Led(n) == \/ n.kind = "state"
                     \/ n.kind = "symbol" /\ n.at \in chained
                     \/ n.kind = "stmt" /\ \E d \in chained : <<d, n.at>> \in Chains(body)
           U == {n \in GraphNodes(body) : Led(n)}
<1>8. \A x \in Known(body) : x[1] \in chained => x[2] \in chained /\ <<x[1], x[2]>> \in Chains(body)
  <2> TAKE x \in Known(body)
  <2>1. <<x[1], x[2]>> \in Chains(body)
    BY DEF Chains
  <2>2. PICK l : l = <<x[1], x[2]>>
    OBVIOUS
  <2>3. l[1] = x[1] /\ l[2] = x[2] /\ l \in Chains(body)
    BY <2>1, <2>2
  <2> QED BY <1>3, <2>1, <2>3 DEF Closed
<1>9. ASSUME NEW e \in sfg, e.from \in U PROVE e.to \in U
  <2>0. e \in Graph(body) /\ IsBody(body)
    BY BodyIs DEF GraphInv
  <2>1. e.to \in GraphNodes(body)
    <3>1. e.to \in After(e.from, {e.kind})
      BY DEF After
    <3> QED BY <3>1, Neighbours
  <2>2. /\ \A k \in Lines(body) : /\ SymbolNode(body, k).kind = "symbol" /\ SymbolNode(body, k).at = k
                                 /\ StmtNode(k).kind = "stmt" /\ StmtNode(k).at = k
        /\ \A x \in Held(body) : StateNode(x[2]).kind = "state"
    BY <2>0, NodeFacts
  <2>3. \A x \in Known(body) : x[1] \in Lines(body) /\ x[2] \in Lines(body)
    BY <2>0, KnownFacts DEF Known
  <2>4. Led(e.from)
    BY <1>9
  <2> HIDE DEF Led
  <2>5. Led(e.to)
    <3>1. CASE IsDefined(body, e)
      <4>1. PICK k \in Lines(body) : e.from = StmtNode(k) /\ e.to = SymbolNode(body, k)
        BY <3>1 DEF IsDefined, Edge
      <4>2. PICK d \in chained : <<d, k>> \in Chains(body)
        BY <2>2, <2>4, <4>1 DEF Led
      <4>3. k \in chained
        <5>1. PICK l : l = <<d, k>>
          OBVIOUS
        <5>2. l[1] = d /\ l[2] = k /\ l \in Chains(body)
          BY <4>2, <5>1
        <5> QED BY <1>3, <5>2 DEF Closed
      <4> QED BY <2>2, <4>1, <4>3 DEF Led
    <3>2. CASE IsUsed(body, e)
      <4>1. PICK x \in Known(body) : e.from = SymbolNode(body, x[1]) /\ e.to = StmtNode(x[2])
        BY <3>2 DEF IsUsed, Edge
      <4>2. x[1] \in chained
        BY <2>2, <2>3, <2>4, <4>1 DEF Led
      <4>3. e.to.kind = "stmt" /\ e.to.at = x[2]
        BY <2>2, <2>3, <4>1
      <4>4. <<x[1], e.to.at>> \in Chains(body)
        BY <1>8, <4>2, <4>3
      <4> QED BY <4>2, <4>3, <4>4 DEF Led
    <3>3. CASE HasState(body, e)
      BY <2>2, <3>3 DEF HasState, Edge, Led
    <3>4. CASE Includes(body, e)
      BY <2>2, <3>4 DEF Includes, Edge, Led
    <3>5. CASE FlowsTo(body, e)
      <4>1. PICK x \in Known(body) : e.from = SymbolNode(body, x[1]) /\ e.to = SymbolNode(body, x[2])
        BY <3>5 DEF FlowsTo, Edge
      <4>2. x[1] \in chained
        BY <2>2, <2>3, <2>4, <4>1 DEF Led
      <4>3. e.to.kind = "symbol" /\ e.to.at = x[2]
        BY <2>2, <2>3, <4>1
      <4> QED BY <1>8, <4>2, <4>3 DEF Led
    <3> QED BY <2>0, <3>1, <3>2, <3>3, <3>4, <3>5, GraphEdges
  <2> QED BY <2>1, <2>5
<1>10. there \subseteq U
  <2>1. Closed(all, U)
    <3> HIDE DEF U
    <3>1. \A l \in all : \E e \in sfg : l = <<e.from, e.to>>
      BY DEF all
    <3> QED BY <1>9, <3>1 DEF Closed
  <2>2. {SymbolNode(body, s)} \subseteq U
    <3>1. SymbolNode(body, s) \in GraphNodes(body)
      BY DEF GraphNodes, SymbolNodes
    <3>2. SymbolNode(body, s).kind = "symbol" /\ SymbolNode(body, s).at = s
      BY BodyIs, NodeFacts
    <3> QED BY <1>3, <3>1, <3>2
  <2>3. IsFiniteSet(all)
    BY SearchFinite DEF all
  <2> HIDE DEF U
  <2> QED BY <2>1, <2>2, <2>3, ReachLeast DEF there
<1>11. ASSUME StmtNode(i) \in there PROVE \E d \in chained : <<d, i>> \in Chains(body)
  <2>1. StmtNode(i).kind = "stmt" /\ StmtNode(i).at = i
    BY BodyIs, NodeFacts
  <2>2. Led(StmtNode(i))
    BY <1>10, <1>11
  <2> QED BY <2>1, <2>2
<1>12. StmtNode(i) \in there <=> \E d \in chained : <<d, i>> \in Chains(body)
  BY <1>7, <1>11
<1> QED BY <1>1, <1>12 DEF chained

TracedInv == \A f \in flows : f.traced <=> StmtNode(f.sink) \in Forward(f.source)

LEMMA TracedKept == TypeInv /\ TracedInv /\ [Next]_vars => TracedInv'
<1> SUFFICES ASSUME TypeInv, TracedInv, [Next]_vars PROVE TracedInv'
  OBVIOUS
<1>1. CASE UNCHANGED <<sfg, flows>>
  BY <1>1 DEF TracedInv, Forward
<1>2. CASE Check
  <2>1. PICK source \in Sources(body), i \in Sinks(body) :
           /\ flows' = IF SinkTagged(i) THEN flows \union {FlowTo(source, i)} ELSE flows
           /\ sfg' = sfg
    BY <1>2, CheckStep
  <2>2. PICK f : f = FlowTo(source, i)
    OBVIOUS
  <2>3. f.source = source /\ f.sink = i /\ (f.traced <=> StmtNode(i) \in Forward(source))
    BY <2>2 DEF FlowTo
  <2>4. \A g \in flows' : g.traced <=> StmtNode(g.sink) \in Forward(g.source)
    BY <2>1, <2>2, <2>3 DEF TracedInv
  <2> QED BY <2>1, <2>4 DEF TracedInv, Forward
<1>3. Next => Check \/ UNCHANGED <<sfg, flows>>
  BY DEF Next, Begin, FromSymbol, FromState, FromStmt
<1> QED BY <1>1, <1>2, <1>3 DEF vars

LEMMA PathsAreChains == TypeInv /\ TracedInv => PathWhereThereIsOne
<1> SUFFICES ASSUME TypeInv, TracedInv, NEW f \in flows
             PROVE  f.traced <=> \E d \in Reach({f.source.at}, Chains(body)) : <<d, f.sink>> \in Chains(body)
  BY DEF PathWhereThereIsOne, KnownUses, Chains, Known
<1>1. PICK s \in Lines(body) : f.source = SymbolNode(body, s)
  BY DEF TypeInv, Sources
<1>2. f.source.at = s
  BY <1>1 DEF SymbolNode
<1>3. f.sink \in Lines(body) /\ GraphInv
  BY DEF TypeInv, Sinks
<1>4. StmtNode(f.sink) \in Forward(f.source)
        <=> \E d \in Reach({s}, Chains(body)) : <<d, f.sink>> \in Chains(body)
  BY <1>1, <1>3, ChainsFound
<1> QED BY <1>2, <1>4 DEF TracedInv

\* The path of a flow is a chain of definitions and uses just where there is one
\* (PathFinder.reconstruct_define_use_path).
THEOREM PathsFound == Spec => []PathWhereThereIsOne
<1>1. Init => TypeInv /\ TracedInv
  BY TypeAtStart DEF Init, TracedInv
<1>2. TypeInv /\ TracedInv /\ [Next]_vars => (TypeInv /\ TracedInv)'
  BY TypeKept, TracedKept
<1> QED BY <1>1, <1>2, PathsAreChains, PTL DEF Spec

-----------------------------------------------------------------------------
\* Ties: a set of variables that the links do not leave.

Target(i) == body.stmts[i].target
Uses(i) == body.stmts[i].uses
TieLinks == {l \in VariableLinks : l[1] # "" /\ l[2] # ""}

LEMMA LinksFinite ==
  ASSUME GraphInv
  PROVE  IsFiniteSet(TieLinks)
<1> DEFINE used == {ToSet(st.uses) : st \in Statements}
           first == {st.uses[1] : st \in Statements}
           targets == {st.target : st \in Statements}
           names == (UNION used) \union first \union targets \union {body.twin.symbol[1]}
           R == [op : Operations, name : STRING, target : STRING, uses : Seq(STRING)]
<1>1. body.stmts \in Seq(R)
  BY BodyIs DEF IsBody
<1>2. IsFiniteSet(Statements) /\ Statements \subseteq R
  <2> HIDE DEF R
  <2> QED BY <1>1, ToSetFacts DEF Statements
<1>3. \A st \in Statements : IsFiniteSet(ToSet(st.uses))
  <2>1. \A st \in Statements : st.uses \in Seq(STRING)
    BY <1>2
  <2> QED BY <2>1, ToSetFacts
<1>4. IsFiniteSet(UNION used)
  <2>1. [st \in Statements |-> ToSet(st.uses)] \in Surjection(Statements, used)
    BY DEF Surjection
  <2>2. IsFiniteSet(used)
    BY <1>2, <2>1, FS_Surjection
  <2>3. \A s \in used : IsFiniteSet(s)
    BY <1>3
  <2> HIDE DEF used
  <2> QED BY <2>2, <2>3, FS_UNION
<1>5. IsFiniteSet(first)
  <2>1. [st \in Statements |-> st.uses[1]] \in Surjection(Statements, first)
    BY DEF Surjection
  <2> QED BY <1>2, <2>1, FS_Surjection
<1>6. IsFiniteSet(targets)
  <2>1. [st \in Statements |-> st.target] \in Surjection(Statements, targets)
    BY DEF Surjection
  <2> QED BY <1>2, <2>1, FS_Surjection
<1>7. IsFiniteSet(names)
  <2>1. IsFiniteSet((UNION used) \union first)
    BY <1>4, <1>5, FS_Union
  <2>2. IsFiniteSet((UNION used) \union first \union targets)
    BY <1>6, <2>1, FS_Union
  <2>3. IsFiniteSet({body.twin.symbol[1]})
    BY FS_Singleton
  <2> HIDE DEF used, first, targets
  <2> QED BY <2>2, <2>3, FS_Union
<1>8. ASSUME NEW l \in VariableLinks PROVE l \in names \X names
  <2>1. \A st \in Statements : /\ ToSet(st.uses) \subseteq names
                              /\ st.uses[1] \in names /\ st.target \in names
    OBVIOUS
  <2>2. body.twin.symbol[1] \in names
    OBVIOUS
  <2>3. \A i \in Lines(body) : body.stmts[i] \in Statements
    BY DEF Lines, Statements, ToSet
  <2> HIDE DEF names
  <2> QED BY <1>8, <2>1, <2>2, <2>3 DEF VariableLinks
<1>9. IsFiniteSet(names \X names)
  <2> HIDE DEF names
  <2> QED BY <1>7, FS_Product
<1> HIDE DEF names
<1> QED BY <1>8, <1>9, FS_Subset DEF TieLinks

\* What the statements tie to a variable of T is in T.
TiedSet(T) ==
  /\ \A i \in Lines(body) : \A p \in DOMAIN Uses(i) : Uses(i)[p] # "" /\ Uses(i)[p] \in T =>
       /\ Target(i) \in T
       /\ body.stmts[i].op = "object_call_stmt" /\ Uses(i)[1] # "" => Uses(i)[1] \in T
  /\ \A i \in Lines(body) : Shares(body.stmts[i]) /\ Target(i) \in T /\ Uses(i)[1] # "" => Uses(i)[1] \in T
  /\ \A i \in Lines(body) : body.twin.state[2] = i /\ Target(i) \in T => body.twin.symbol[1] \in T

LEMMA TargetsNamed ==
  ASSUME GraphInv
  PROVE  /\ \A i \in Lines(body) : Target(i) # ""
         /\ \E i \in Lines(body) : body.twin.symbol = SymbolId(Target(i)) /\ body.twin.symbol[1] = Target(i)
<1>1. \A i \in Lines(body) : Target(i) # ""
  BY BodyIs DEF IsBody, Target
<1>2. PICK i \in Lines(body) : body.twin.symbol = SymbolId(Target(i))
  BY BodyIs DEF IsBody, Target
<1>3. body.twin.symbol[1] = Target(i)
  BY <1>2 DEF SymbolId
<1> QED BY <1>1, <1>2, <1>3

LEMMA TiedFacts ==
  ASSUME GraphInv, NEW v
  PROVE  v \in Tied(v) /\ TiedSet(Tied(v))
<1>1. PICK T : T = Tied(v)
  OBVIOUS
<1>2. v \in T /\ Closed(TieLinks, T)
  BY <1>1, LinksFinite, ReachFacts DEF Tied, TieLinks
<1>3. \A x, y : <<x, y>> \in VariableLinks /\ x # "" /\ y # "" /\ x \in T => y \in T
  <2> SUFFICES ASSUME NEW x, NEW y, <<x, y>> \in VariableLinks, x # "", y # "", x \in T PROVE y \in T
    OBVIOUS
  <2>1. PICK l : l = <<x, y>>
    OBVIOUS
  <2>2. l[1] = x /\ l[2] = y
    BY <2>1
  <2>3. l \in TieLinks
    BY <2>1, <2>2 DEF TieLinks
  <2> QED BY <1>2, <2>2, <2>3 DEF Closed
<1>4. \A i \in Lines(body) : body.stmts[i] \in Statements
  BY DEF Lines, Statements, ToSet
<1>5. ASSUME NEW i \in Lines(body), NEW p \in DOMAIN Uses(i)
      PROVE  /\ <<Uses(i)[p], Target(i)>> \in VariableLinks
             /\ body.stmts[i].op = "object_call_stmt" => <<Uses(i)[p], Uses(i)[1]>> \in VariableLinks
  <2>1. Uses(i)[p] \in ToSet(body.stmts[i].uses)
    BY DEF Uses, ToSet
  <2> QED BY <1>4, <2>1 DEF VariableLinks, Uses, Target
<1>6. ASSUME NEW i \in Lines(body), Shares(body.stmts[i])
      PROVE  <<Target(i), Uses(i)[1]>> \in VariableLinks
  BY <1>4, <1>6 DEF VariableLinks, Uses, Target
<1>7. ASSUME NEW i \in Lines(body), body.twin.state[2] = i
      PROVE  <<Target(i), body.twin.symbol[1]>> \in VariableLinks
  BY <1>7 DEF VariableLinks, Target
<1>8. TiedSet(T)
  BY <1>3, <1>5, <1>6, <1>7, TargetsNamed DEF TiedSet
<1> QED BY <1>1, <1>2, <1>8

\* A definition is tied just when the one that made a state of it is.
LEMMA HeldTied ==
  ASSUME GraphInv, NEW T, TiedSet(T)
  PROVE  \A x \in Held(body) : Target(x[1]) \in T <=> Target(x[2].at) \in T
<1> DEFINE P == {x \in Lines(body) \X States(body, Nat) : Target(x[1]) \in T <=> Target(x[2].at) \in T}
<1>1. ASSUME NEW held \in SUBSET P PROVE Round(body, Known(body), held) \in SUBSET P
  <2> SUFFICES ASSUME NEW i \in Lines(body), NEW s \in StatesMade(body, Known(body), held, i)
               PROVE  <<i, s>> \in P
    BY DEF Round
  <2>1. s \in States(body, Nat)
    <3>1. Nat \in SUBSET Nat /\ 0 \in Nat /\ \A n \in Nat : n \in Nat /\ n + 1 \in Nat
      OBVIOUS
    <3>2. held \in SUBSET (Lines(body) \X States(body, Nat))
      OBVIOUS
    <3>3. Round(body, Known(body), held) \in SUBSET (Lines(body) \X States(body, Nat))
      BY <3>1, <3>2, BodyIs, RoundWithin, Zenon
    <3>4. <<i, s>> \in Round(body, Known(body), held)
      BY DEF Round
    <3> QED BY <3>3, <3>4
  <2>2. Target(i) \in T <=> Target(s.at) \in T
    <3>1. CASE s = NewState(i, FALSE) \/ s = NewState(i, TRUE)
      BY <3>1 DEF NewState
    <3>2. ASSUME NEW d \in UsedDefs(Known(body), i, 1), NEW r \in Made(held, d),
                 Shares(body.stmts[i]), s.at = r.at
          PROVE  Target(i) \in T <=> Target(s.at) \in T
      <4>1. PICK x \in Known(body) : x[1] = d /\ x[2] = i /\ x[3] = 1
        BY DEF UsedDefs
      <4>2. d \in Lines(body) /\ 1 \in DOMAIN Uses(i) /\ Uses(i)[1] = Target(d)
        BY <4>1, BodyIs, KnownFacts DEF Known, Uses, Target
      <4>3. Uses(i)[1] # ""
        BY <4>2, TargetsNamed
      <4>4. Target(d) \in T <=> Target(i) \in T
        BY <3>2, <4>2, <4>3 DEF TiedSet
      <4>5. PICK y \in held : y[1] = d /\ y[2] = r
        BY DEF Made
      <4>6. Target(d) \in T <=> Target(r.at) \in T
        BY <4>5
      <4> QED BY <3>2, <4>4, <4>6
    <3>3. ASSUME NEW d \in UsedDefs(Known(body), i, 1), NEW r \in Made(held, d),
                 \/ s = r /\ body.stmts[i].op = "assign_stmt" /\ Len(body.stmts[i].uses) = 1
                 \/ s = r /\ body.stmts[i].op = "type_cast_stmt"
                 \/ s = FieldOf(r) /\ body.stmts[i].op = "field_read"
          PROVE  Shares(body.stmts[i]) /\ s.at = r.at
      BY <3>3 DEF Shares, FieldOf
    <3>4. \/ s = NewState(i, FALSE)
          \/ s = NewState(i, TRUE)
          \/ \E d \in UsedDefs(Known(body), i, 1) : \E r \in Made(held, d) :
               \/ s = r /\ body.stmts[i].op = "assign_stmt" /\ Len(body.stmts[i].uses) = 1
               \/ s = r /\ body.stmts[i].op = "type_cast_stmt"
               \/ s = FieldOf(r) /\ body.stmts[i].op = "field_read"
      BY StateMadeIs DEF NewState
    <3> QED BY <3>1, <3>2, <3>3, <3>4 DEF NewState
  <2> QED BY <2>1, <2>2
<1>2. Held(body) \subseteq P
  <2> HIDE DEF P
  <2> QED BY <1>1, BodyIs, HeldWithin
<1> QED BY <1>2

\* The id of a definition is tied by its variable, that of a state by the one that made it.
IdTied(T, id) == (id[1] # "" /\ id[1] \in T) \/ (id[1] = "" /\ Target(id[2]) \in T)
NodeTied(T, n) == n.kind # "stmt" => Target(n.at) \in T
Ties == Tied(Head(pairs)[1].id[1])

TagsTied ==
  active => /\ \A id \in symbols \union states : IdTied(Ties, id)
            /\ \A n \in Touched : NodeTied(Ties, n)

LEMMA IdsTied ==
  ASSUME GraphInv, NEW T, TiedSet(T), NEW n \in GraphNodes(body), n.kind # "stmt"
  PROVE  /\ IdTied(T, n.id) <=> NodeTied(T, n)
         /\ NodeTied(T, n) => IdTied(T, TagId(n))
<1>1. CASE n \in SymbolNodes(body)
  <2>1. PICK i \in Lines(body) : n = SymbolNode(body, i)
    BY <1>1 DEF SymbolNodes
  <2>2. n.kind = "symbol" /\ n.at = i /\ n.id = SymbolId(Target(i))
    BY <2>1 DEF SymbolNode, Target
  <2>3. n.id[1] = Target(i) /\ Target(i) # ""
    <3>1. n.id = <<Target(i), 0, 0>>
      BY <2>2 DEF SymbolId
    <3>2. PICK t : t = n.id /\ t = <<Target(i), 0, 0>>
      BY <3>1
    <3>3. t[1] = Target(i)
      BY <3>2
    <3> QED BY <3>2, <3>3, TargetsNamed
  <2>4. TagId(n) = n.id
    BY <2>2 DEF TagId
  <2> QED BY <2>2, <2>3, <2>4 DEF IdTied, NodeTied
<1>2. CASE n \in StateNodes(body)
  <2>1. PICK x \in Held(body) : n = StateNode(x[2])
    BY <1>2 DEF StateNodes
  <2>2. n.kind = "state" /\ n.at = x[2].at /\ n.id = <<"", n.at, x[2].depth>> /\ n.at \in Lines(body)
    BY <2>1, BodyIs, NodeFacts DEF StateId
  <2>3. n.id[1] = "" /\ n.id[2] = n.at
    <3>1. PICK none, i, d : none = "" /\ i = n.at /\ d = x[2].depth
      OBVIOUS
    <3>2. PICK t : t = <<none, i, d>>
      OBVIOUS
    <3>3. t[1] = none /\ t[2] = i
      BY <3>2
    <3> QED BY <2>2, <3>1, <3>2, <3>3
  <2>4. IdTied(T, n.id) <=> NodeTied(T, n)
    BY <2>2, <2>3 DEF IdTied, NodeTied
  <2>5. ASSUME n.id = body.twin.state, NodeTied(T, n) PROVE IdTied(T, body.twin.symbol)
    <3>1. body.twin.state[2] = n.at
      BY <2>3, <2>5
    <3>2. body.twin.symbol[1] \in T
      BY <2>2, <2>5, <3>1 DEF NodeTied, TiedSet
    <3> QED BY <3>2, TargetsNamed DEF IdTied
  <2> QED BY <2>4, <2>5 DEF TagId
<1>3. CASE n \in StmtNodes(body)
  BY <1>3 DEF StmtNodes, StmtNode
<1> QED BY <1>1, <1>2, <1>3 DEF GraphNodes

\* What an edge of the propagation leads to from a node that is tied, is tied.
LEMMA StepsTied ==
  ASSUME GraphInv, NEW T, TiedSet(T), NEW n, n.kind # "stmt", NodeTied(T, n), NEW m,
         \/ m \in After(n, {"SYMBOL_STATE"}) \/ m \in After(n, {"SYMBOL_IS_USED"})
         \/ m \in After(n, {"SYMBOL_FLOW"}) \/ m \in After(n, {"STATE_INCLUSION"})
         \/ m \in Before(n, {"SYMBOL_STATE", "STATE_INCLUSION"})
  PROVE  NodeTied(T, m)
<1>1. /\ \A i \in Lines(body) : SymbolNode(body, i).at = i /\ SymbolNode(body, i).kind = "symbol"
                             /\ StmtNode(i).kind = "stmt"
      /\ \A x \in Held(body) : StateNode(x[2]).at = x[2].at /\ x[1] \in Lines(body)
                            /\ StateNode(x[2]).kind = "state"
  BY BodyIs, NodeFacts
<1>2. \A x \in Known(body) : x[1] \in Lines(body) /\ x[2] \in Lines(body)
  BY BodyIs, KnownFacts DEF Known
<1>3. CASE m \in After(n, {"SYMBOL_STATE"})
  <2>1. PICK x \in Held(body) : n = SymbolNode(body, x[1]) /\ m = StateNode(x[2])
    BY <1>3, LeadTo
  <2> QED BY <1>1, <2>1, HeldTied DEF NodeTied
<1>4. CASE m \in After(n, {"SYMBOL_IS_USED"})
  <2>1. PICK x \in Known(body) : m = StmtNode(x[2])
    BY <1>4, LeadTo
  <2> QED BY <1>1, <1>2, <2>1 DEF NodeTied
<1>5. CASE m \in After(n, {"SYMBOL_FLOW"})
  <2>1. PICK x \in Known(body) : x[3] = 1 /\ n = SymbolNode(body, x[1]) /\ m = SymbolNode(body, x[2])
    BY <1>5, LeadTo
  <2>2. 1 \in DOMAIN Uses(x[2]) /\ Uses(x[2])[1] = Target(x[1])
    BY <2>1, BodyIs, KnownFacts DEF Known, Uses, Target
  <2>3. Target(x[1]) \in T /\ Target(x[1]) # ""
    BY <1>1, <1>2, <2>1, TargetsNamed DEF NodeTied
  <2>4. Target(x[2]) \in T
    BY <1>2, <2>2, <2>3 DEF TiedSet
  <2> QED BY <1>1, <1>2, <2>1, <2>4 DEF NodeTied
<1>6. CASE m \in After(n, {"STATE_INCLUSION"})
  <2>1. PICK x, y \in Held(body) : y[2].at = x[2].at /\ n = StateNode(x[2]) /\ m = StateNode(y[2])
    BY <1>6, LeadTo
  <2> QED BY <1>1, <2>1 DEF NodeTied
<1>7. CASE m \in Before(n, {"SYMBOL_STATE", "STATE_INCLUSION"})
  <2>1. CASE \E x \in Held(body) : m = SymbolNode(body, x[1]) /\ n = StateNode(x[2])
    BY <1>1, <2>1, HeldTied DEF NodeTied
  <2>2. CASE \E x, y \in Held(body) : y[2].at = x[2].at /\ m = StateNode(x[2]) /\ n = StateNode(y[2])
    BY <1>1, <2>2 DEF NodeTied
  <2> QED BY <1>7, <2>1, <2>2, LeadFrom
<1> QED BY <1>3, <1>4, <1>5, <1>6, <1>7

\* A statement that uses a tagged definition defines one that is tied, and so is its receiver.
LEMMA StmtsTied ==
  ASSUME GraphInv, NEW T, TiedSet(T), NEW n \in GraphNodes(body), n.kind = "stmt", Passing(n),
         \A id \in symbols : IdTied(T, id), NEW m,
         m \in After(n, {"SYMBOL_IS_DEFINED"}) \/ m \in Receivers(n.at)
  PROVE  NodeTied(T, m)
<1>1. \A i \in Lines(body) : /\ SymbolNode(body, i).at = i /\ SymbolNode(body, i).kind = "symbol"
                           /\ StmtNode(i).at = i /\ SymbolNode(body, i) \in GraphNodes(body)
  BY BodyIs, NodeFacts DEF GraphNodes, SymbolNodes
<1>2. PICK u \in Before(n, {"SYMBOL_IS_USED"}) : u.id \in symbols
  BY DEF Passing
<1>3. PICK x \in Known(body) : u = SymbolNode(body, x[1]) /\ n = StmtNode(x[2])
  BY <1>2, LeadFrom
<1>4. x[1] \in Lines(body) /\ x[2] \in Lines(body) /\ x[3] \in DOMAIN Uses(x[2]) /\ Uses(x[2])[x[3]] = Target(x[1])
  BY BodyIs, KnownFacts DEF Known, Uses, Target
<1>5. Target(x[1]) \in T /\ Target(x[1]) # ""
  <2>1. NodeTied(T, u)
    BY <1>1, <1>2, <1>3, <1>4, IdsTied
  <2> QED BY <1>1, <1>3, <1>4, <2>1, TargetsNamed DEF NodeTied
<1>6. n.at = x[2]
  BY <1>1, <1>3, <1>4
<1>7. CASE m \in After(n, {"SYMBOL_IS_DEFINED"})
  <2>1. PICK i \in Lines(body) : n = StmtNode(i) /\ m = SymbolNode(body, i)
    BY <1>7, LeadTo
  <2>2. i = x[2]
    BY <1>1, <1>6, <2>1
  <2>3. Target(x[2]) \in T
    BY <1>4, <1>5 DEF TiedSet
  <2> QED BY <1>1, <2>1, <2>2, <2>3 DEF NodeTied
<1>8. CASE m \in Receivers(n.at)
  <2>1. PICK y \in Known(body) : y[2] = x[2] /\ y[3] = 1 /\ m = SymbolNode(body, y[1])
    BY <1>4, <1>6, <1>8, LeadFrom
  <2>2. body.stmts[x[2]].op = "object_call_stmt"
    BY <1>4, <1>6, <1>8, LeadFrom
  <2>3. y[1] \in Lines(body) /\ Uses(x[2])[1] = Target(y[1])
    BY <2>1, BodyIs, KnownFacts DEF Known, Uses, Target
  <2>4. Target(y[1]) \in T
    BY <1>4, <1>5, <2>2, <2>3, TargetsNamed DEF TiedSet
  <2> QED BY <1>1, <2>1, <2>3, <2>4 DEF NodeTied
<1> QED BY <1>7, <1>8

LEMMA TiesAreTied == GraphInv => TiedSet(Ties) /\ Head(pairs)[1].id[1] \in Ties
<1> SUFFICES ASSUME GraphInv PROVE TiedSet(Ties) /\ Head(pairs)[1].id[1] \in Ties
  OBVIOUS
<1>1. PICK v : v = Head(pairs)[1].id[1]
  OBVIOUS
<1>2. Ties = Tied(v)
  BY <1>1 DEF Ties
<1> QED BY <1>1, <1>2, TiedFacts

LEMMA TagsMoved ==
  ASSUME TypeInv, TagsTied, NEW n, NEW new, Moved(n, new),
         \A id \in symbols' \union states' : IdTied(Ties, id),
         \A m \in new : NodeTied(Ties, m)
  PROVE  TagsTied'
<1>1. UNCHANGED <<body, pairs>> /\ active /\ Touched' = Touched \union new
  BY DEF Moved
<1>2. Ties' = Ties
  BY <1>1 DEF Ties, Tied, VariableLinks, Statements, Lines
<1>3. \A m \in Touched' : NodeTied(Ties, m)
  BY <1>1 DEF TagsTied
<1>4. /\ \A id \in symbols' \union states' : IdTied(Ties, id)'
      /\ \A m \in Touched' : NodeTied(Ties, m)'
  BY <1>1, <1>2, <1>3 DEF IdTied, NodeTied, Target
<1> QED BY <1>2, <1>4 DEF TagsTied, IdTied, NodeTied

LEMMA TagsKept == TypeInv /\ TagsTied /\ [Next]_vars => TagsTied'
<1> SUFFICES ASSUME TypeInv, TagsTied, [Next]_vars PROVE TagsTied'
  OBVIOUS
<1>0. GraphInv /\ TiedSet(Ties)
  BY TiesAreTied DEF TypeInv
<1>1. CASE Begin
  <2>1. PICK source \in Sources(body), held \in SUBSET GraphNodes(body) :
           /\ source = Head(pairs)[1] /\ held = After(source, {"SYMBOL_STATE"})
           /\ symbols' = {source.id} /\ states' = Ids(held)
           /\ ToSet(worklist') = {source} \union held
           /\ processed' = {} /\ active' = TRUE
           /\ UNCHANGED <<body, sfg, pairs, flows>>
    BY <1>1, BeginStep
  <2>2. PICK i \in Lines(body) : source = SymbolNode(body, i)
    BY DEF Sources
  <2>3. /\ source.kind = "symbol" /\ source.at = i /\ source.id = SymbolId(Target(i))
        /\ source \in GraphNodes(body)
    BY <1>0, <2>2, BodyIs, NodeFacts DEF Target, GraphNodes, SymbolNodes
  <2>4. source.id[1] = Target(i)
    BY <2>3 DEF SymbolId
  <2>5. NodeTied(Ties, source)
    BY <1>0, <2>1, <2>3, <2>4, TiesAreTied DEF NodeTied
  <2>6. \A m \in held : NodeTied(Ties, m) /\ m.kind # "stmt" /\ m \in GraphNodes(body)
    <3> TAKE m \in held
    <3>1. NodeTied(Ties, m)
      BY <1>0, <2>1, <2>3, <2>5, StepsTied
    <3>2. PICK x \in Held(body) : m = StateNode(x[2])
      BY <1>0, <2>1, LeadTo
    <3>3. m.kind # "stmt"
      BY <1>0, <3>2, BodyIs, NodeFacts
    <3> QED BY <3>1, <3>3
  <2>7. \A id \in symbols' \union states' : IdTied(Ties, id)
    <3>1. IdTied(Ties, source.id)
      BY <1>0, <2>3, <2>5, IdsTied
    <3>2. \A m \in held : IdTied(Ties, m.id)
      BY <1>0, <2>6, IdsTied
    <3> QED BY <2>1, <3>1, <3>2 DEF Ids
  <2>8. Ties' = Ties
    BY <2>1 DEF Ties, Tied, VariableLinks, Statements, Lines
  <2>9. Touched' = {source} \union held
    BY <2>1 DEF Touched
  <2>10. /\ \A id \in symbols' \union states' : IdTied(Ties, id)'
         /\ \A m \in Touched' : NodeTied(Ties, m)'
    BY <2>1, <2>5, <2>6, <2>7, <2>8, <2>9 DEF IdTied, NodeTied, Target
  <2> QED BY <2>8, <2>10 DEF TagsTied, IdTied, NodeTied
<1>2. ASSUME active, \A id \in symbols \union states : IdTied(Ties, id), \A n \in Touched : NodeTied(Ties, n),
             FromSymbol
      PROVE  TagsTied'
  <2>1. PICK held, using, into \in SUBSET GraphNodes(body) :
           /\ Popped.kind = "symbol"
           /\ held = Untagged(After(Popped, {"SYMBOL_STATE"}), states)
           /\ using = After(Popped, {"SYMBOL_IS_USED"})
           /\ into = Untagged(After(Popped, {"SYMBOL_FLOW"}), symbols)
           /\ states' = states \union Ids(held) /\ symbols' = symbols \union Ids(into)
           /\ Moved(Popped, held \union using \union into)
    BY <1>2, SymbolStep
  <2>2. NodeTied(Ties, Popped) /\ Popped.kind # "stmt"
    BY <1>2, <2>1 DEF Moved, Touched
  <2>3. ASSUME NEW m \in held \union using \union into PROVE NodeTied(Ties, m)
    <3>1. \/ m \in After(Popped, {"SYMBOL_STATE"}) \/ m \in After(Popped, {"SYMBOL_IS_USED"})
          \/ m \in After(Popped, {"SYMBOL_FLOW"})
      BY <2>1 DEF Untagged
    <3> QED BY <1>0, <2>2, <3>1, StepsTied
  <2>4. \A m \in held \union into : m.kind # "stmt" /\ m \in GraphNodes(body)
    <3> TAKE m \in held \union into
    <3>1. m \in After(Popped, {"SYMBOL_STATE"}) \/ m \in After(Popped, {"SYMBOL_FLOW"})
      BY <2>1 DEF Untagged
    <3>2. \/ \E x \in Held(body) : m = StateNode(x[2])
          \/ \E x \in Known(body) : m = SymbolNode(body, x[2])
      BY <1>0, <3>1, LeadTo
    <3>3. \A x \in Known(body) : x[2] \in Lines(body)
      BY <1>0, BodyIs, KnownFacts DEF Known
    <3> QED BY <1>0, <3>2, <3>3, BodyIs, NodeFacts
  <2>5. \A m \in held \union into : IdTied(Ties, m.id)
    BY <1>0, <2>3, <2>4, IdsTied
  <2>6. \A id \in symbols' \union states' : IdTied(Ties, id)
    BY <1>2, <2>1, <2>5 DEF Ids
  <2> QED BY <2>1, <2>3, <2>6, TagsMoved
<1>3. ASSUME active, \A id \in symbols \union states : IdTied(Ties, id), \A n \in Touched : NodeTied(Ties, n),
             FromState
      PROVE  TagsTied'
  <2>1. PICK holders, parts \in SUBSET GraphNodes(body) :
           /\ Popped.kind = "state"
           /\ holders = IF Popped.id \in states
                        THEN Holders(Before(Popped, {"SYMBOL_STATE", "STATE_INCLUSION"})) ELSE {}
           /\ parts = IF Popped.id \in states THEN Untagged(After(Popped, {"STATE_INCLUSION"}), states) ELSE {}
           /\ symbols' = symbols \union {TagId(n) : n \in holders} /\ states' = states \union Ids(parts)
           /\ Moved(Popped, holders \union parts)
    BY <1>3, StateStep
  <2>2. NodeTied(Ties, Popped) /\ Popped.kind # "stmt"
    BY <1>3, <2>1 DEF Moved, Touched
  <2>3. /\ holders \subseteq Before(Popped, {"SYMBOL_STATE", "STATE_INCLUSION"})
        /\ parts \subseteq After(Popped, {"STATE_INCLUSION"})
    BY <2>1 DEF Untagged, Holders
  <2>4. ASSUME NEW m \in holders \union parts PROVE NodeTied(Ties, m)
    BY <1>0, <2>2, <2>3, StepsTied
  <2>5. \A m \in holders \union parts : m.kind # "stmt" /\ m \in GraphNodes(body)
    <3> TAKE m \in holders \union parts
    <3>1. \/ \E x \in Held(body) : m = StateNode(x[2]) \/ m = SymbolNode(body, x[1])
      BY <1>0, <2>3, LeadTo, LeadFrom
    <3> QED BY <1>0, <3>1, BodyIs, NodeFacts
  <2>6. \A m \in holders \union parts : IdTied(Ties, m.id) /\ IdTied(Ties, TagId(m))
    BY <1>0, <2>4, <2>5, IdsTied
  <2>7. \A id \in symbols' \union states' : IdTied(Ties, id)
    BY <1>3, <2>1, <2>6 DEF Ids
  <2> QED BY <2>1, <2>4, <2>7, TagsMoved
<1>4. ASSUME active, \A id \in symbols \union states : IdTied(Ties, id), \A n \in Touched : NodeTied(Ties, n),
             FromStmt
      PROVE  TagsTied'
  <2>1. PICK more, back \in SUBSET GraphNodes(body) :
           /\ Popped.kind = "stmt"
           /\ more = IF Passing(Popped) THEN Pending(After(Popped, {"SYMBOL_IS_DEFINED"}), processed \union {Popped})
                                        ELSE {}
           /\ back = IF Passing(Popped) THEN Pending(Receivers(Popped.at), processed \union {Popped}) ELSE {}
           /\ symbols' = symbols \union Ids(more \union back) /\ states' = states
           /\ Moved(Popped, more \union back)
    BY <1>4, StmtStep
  <2>2. Popped \in GraphNodes(body)
    BY <2>1 DEF Moved
  <2>3. ASSUME NEW m \in more \union back
        PROVE  /\ Passing(Popped)
               /\ m \in After(Popped, {"SYMBOL_IS_DEFINED"}) \/ m \in Receivers(Popped.at)
    BY <2>1 DEF Pending
  <2>4. ASSUME NEW m \in more \union back PROVE NodeTied(Ties, m)
    BY <1>0, <1>4, <2>1, <2>2, <2>3, StmtsTied
  <2>5. \A m \in more \union back : m.kind # "stmt" /\ m \in GraphNodes(body)
    <3> TAKE m \in more \union back
    <3>1. PICK k \in Lines(body) : Popped = StmtNode(k)
      <4>1. Popped \in StmtNodes(body)
        <5>1. Popped \notin SymbolNodes(body) /\ Popped \notin StateNodes(body)
          BY <2>1 DEF SymbolNodes, StateNodes, SymbolNode, StateNode
        <5> QED BY <2>2, <5>1 DEF GraphNodes
      <4> QED BY <4>1 DEF StmtNodes
    <3>2. Popped.at = k
      BY <3>1 DEF StmtNode
    <3>3. \/ \E i \in Lines(body) : m = SymbolNode(body, i)
          \/ \E x \in Known(body) : m = SymbolNode(body, x[1])
      BY <1>0, <2>3, <3>2, LeadTo, LeadFrom
    <3>4. \A x \in Known(body) : x[1] \in Lines(body)
      BY <1>0, BodyIs, KnownFacts DEF Known
    <3> QED BY <1>0, <3>3, <3>4, BodyIs, NodeFacts
  <2>6. \A m \in more \union back : IdTied(Ties, m.id)
    BY <1>0, <2>4, <2>5, IdsTied
  <2>7. \A id \in symbols' \union states' : IdTied(Ties, id)
    BY <1>4, <2>1, <2>6 DEF Ids
  <2> QED BY <2>1, <2>4, <2>7, TagsMoved
<1>5. CASE Check
  BY <1>5 DEF Check, TagsTied
<1>6. CASE UNCHANGED vars
  <2>1. UNCHANGED <<body, pairs, active, symbols, states, worklist, processed>>
    BY <1>6 DEF vars
  <2>2. Ties' = Ties
    BY <2>1 DEF Ties, Tied, VariableLinks, Statements, Lines
  <2> QED BY <2>1, <2>2 DEF TagsTied, IdTied, NodeTied, Target, Touched
<1>7. FromSymbol \/ FromState \/ FromStmt => active
  BY PoppedFacts DEF FromSymbol, FromState, FromStmt
<1> QED BY <1>1, <1>2, <1>3, <1>4, <1>5, <1>6, <1>7 DEF Next, TagsTied

\* The argument of a sink that is found tagged is tied.
LEMMA SinkTied ==
  ASSUME GraphInv, NEW T, TiedSet(T), NEW i \in Lines(body), SinkTagged(i),
         \A id \in symbols \union states : IdTied(T, id)
  PROVE  body.stmts[i].uses[TargetPos(body.stmts[i]) + 1] \in T
<1>1. /\ \A k \in Lines(body) : /\ SymbolNode(body, k).at = k /\ SymbolNode(body, k).kind = "symbol"
                               /\ StmtNode(k).at = k /\ SymbolNode(body, k) \in GraphNodes(body)
      /\ \A x \in Held(body) : /\ StateNode(x[2]).at = x[2].at /\ StateNode(x[2]).kind = "state"
                              /\ StateNode(x[2]) \in GraphNodes(body)
  BY BodyIs, NodeFacts DEF GraphNodes, SymbolNodes, StateNodes
<1>2. PICK e \in sfg : /\ e.to = StmtNode(i) /\ e.kind = "SYMBOL_IS_USED"
                      /\ e.pos = TargetPos(body.stmts[i]) /\ SymbolTagged(e.from)
  BY DEF SinkTagged
<1>3. PICK x \in Known(body) : e.from = SymbolNode(body, x[1]) /\ e.to = StmtNode(x[2]) /\ e.pos = x[3] - 1
  BY <1>2, UsedEdge DEF GraphInv
<1>4. /\ x[1] \in Lines(body) /\ x[2] \in Lines(body) /\ x[3] \in Positions
      /\ body.stmts[x[2]].uses[x[3]] = Target(x[1])
  BY BodyIs, KnownFacts DEF Known, Target
<1>5. x[2] = i /\ x[3] = TargetPos(body.stmts[i]) + 1
  <2>1. x[2] = i
    BY <1>1, <1>2, <1>3, <1>4
  <2>2. TargetPos(body.stmts[i]) = x[3] - 1 /\ x[3] \in Nat
    BY <1>2, <1>3, <1>4 DEF Positions
  <2> QED BY <2>1, <2>2
<1>6. Target(x[1]) \in T
  <2>1. CASE e.from.id \in symbols
    <3>1. NodeTied(T, e.from)
      BY <1>1, <1>3, <1>4, <2>1, IdsTied
    <3> QED BY <1>1, <1>3, <1>4, <3>1 DEF NodeTied
  <2>2. CASE Ids(WithParts(After(e.from, {"SYMBOL_STATE"}))) \intersect states # {}
    <3> DEFINE links == {<<l.from, l.to>> : l \in {k \in sfg : k.kind = "STATE_INCLUSION"}}
               U == {n \in StateNodes(body) : Target(n.at) \in T <=> Target(x[1]) \in T}
               start == After(e.from, {"SYMBOL_STATE"})
    <3>1. start \subseteq U
      <4> SUFFICES ASSUME NEW n \in start PROVE n \in U
        OBVIOUS
      <4>1. PICK y \in Held(body) : e.from = SymbolNode(body, y[1]) /\ n = StateNode(y[2])
        BY LeadTo
      <4>2. y[1] = x[1]
        <5>1. y[1] \in Lines(body)
          BY BodyIs, HeldFacts
        <5>2. SymbolNode(body, y[1]) = SymbolNode(body, x[1])
          BY <1>3, <4>1
        <5>3. SymbolNode(body, y[1]).at = y[1] /\ SymbolNode(body, x[1]).at = x[1]
          BY <1>1, <1>4, <5>1
        <5> QED BY <5>2, <5>3
      <4>3. Target(x[1]) \in T <=> Target(y[2].at) \in T
        BY <4>2, HeldTied
      <4> QED BY <1>1, <4>1, <4>3 DEF StateNodes
    <3>2. Closed(links, U)
      <4> SUFFICES ASSUME NEW k \in sfg, k.kind = "STATE_INCLUSION", k.from \in U PROVE k.to \in U
        BY DEF Closed
      <4>1. PICK y, z \in Held(body) : z[2].at = y[2].at /\ k.from = StateNode(y[2]) /\ k.to = StateNode(z[2])
        BY InclusionEdge DEF GraphInv
      <4> QED BY <1>1, <4>1 DEF StateNodes
    <3>3. IsFiniteSet(links)
      <4>1. links \subseteq {<<k.from, k.to>> : k \in sfg}
        OBVIOUS
      <4> QED BY <4>1, SearchFinite, FS_Subset
    <3>4. WithParts(start) \subseteq U
      <4>1. WithParts(start) = Reach(start, links)
        BY DEF WithParts
      <4> HIDE DEF start, links, U
      <4> QED BY <3>1, <3>2, <3>3, <4>1, ReachLeast
    <3>5. PICK n \in WithParts(start) : n.id \in states
      BY <2>2 DEF Ids
    <3>6. n \in StateNodes(body) /\ (Target(n.at) \in T <=> Target(x[1]) \in T)
      BY <3>4
    <3>7. n.kind = "state" /\ n \in GraphNodes(body)
      BY <1>1, <3>6 DEF StateNodes
    <3>8. NodeTied(T, n)
      BY <3>5, <3>7, IdsTied
    <3> QED BY <3>6, <3>7, <3>8 DEF NodeTied
  <2> QED BY <1>2, <2>1, <2>2 DEF SymbolTagged
<1> QED BY <1>4, <1>5, <1>6

LEMMA TiesKept == TypeInv /\ TagsTied /\ ReportsAreTied /\ [Next]_vars => ReportsAreTied'
<1> SUFFICES ASSUME TypeInv, TagsTied, ReportsAreTied, [Next]_vars PROVE ReportsAreTied'
  OBVIOUS
<1>1. CASE UNCHANGED <<body, flows>>
  BY <1>1 DEF ReportsAreTied, SinkVariable, Tied, VariableLinks, Statements, Lines
<1>2. CASE Check
  <2>1. PICK source \in Sources(body), i \in Sinks(body) :
           /\ active /\ source = Head(pairs)[1]
           /\ flows' = IF SinkTagged(i) THEN flows \union {FlowTo(source, i)} ELSE flows
           /\ body' = body
    BY <1>2, CheckStep
  <2>2. PICK f : f = FlowTo(source, i)
    OBVIOUS
  <2>3. f.source = source /\ f.sink = i
    BY <2>2 DEF FlowTo
  <2>4. SinkTagged(i) => SinkVariable(f) \in Tied(f.source.id[1])
    <3>1. i \in Lines(body) /\ GraphInv
      BY DEF Sinks, TypeInv
    <3>2. \A id \in symbols \union states : IdTied(Ties, id)
      BY <2>1 DEF TagsTied
    <3>3. PICK T : T = Ties
      OBVIOUS
    <3>4. SinkTagged(i) => body.stmts[i].uses[TargetPos(body.stmts[i]) + 1] \in T
      BY <3>1, <3>2, <3>3, SinkTied, TiesAreTied
    <3> QED BY <2>1, <2>3, <3>3, <3>4 DEF SinkVariable, Ties
  <2>5. \A g \in flows' : SinkVariable(g) \in Tied(g.source.id[1])
    BY <2>1, <2>2, <2>4 DEF ReportsAreTied
  <2> QED BY <2>1, <2>5 DEF ReportsAreTied, SinkVariable, Tied, VariableLinks, Statements, Lines
<1>3. Next => Check \/ UNCHANGED <<body, flows>>
  BY DEF Next, Begin, FromSymbol, FromState, FromStmt
<1> QED BY <1>1, <1>2, <1>3 DEF vars

\* A flow is reported only where the sink's argument is tied to the source, and by the tags of
\* the pair itself (TaintAnalysis.find_flows, PathFinder.propagate_taint).
THEOREM OnlyTiedReported == Spec => []ReportsAreTied
<1> DEFINE Inv == TypeInv /\ TagsTied /\ ReportsAreTied
<1>1. Init => Inv
  BY TypeAtStart DEF Init, TagsTied, ReportsAreTied
<1>2. Inv /\ [Next]_vars => Inv'
  BY TypeKept, TagsKept, TiesKept
<1>3. Inv => ReportsAreTied
  OBVIOUS
<1> QED BY <1>1, <1>2, <1>3, PTL DEF Spec

-----------------------------------------------------------------------------
\* Flows: what a node that was processed leads to is tagged, or waits in the list.

SymbolHandled(n) == /\ After(n, {"SYMBOL_IS_USED"}) \subseteq Touched
                    /\ \A m \in After(n, {"SYMBOL_STATE"}) : m.id \in states
                    /\ \A m \in After(n, {"SYMBOL_FLOW"}) : m.id \in symbols
StateHandled(n) == \A m \in Before(n, {"SYMBOL_STATE", "STATE_INCLUSION"}) : TagId(m) \in symbols
StmtHandled(n) ==
  Propagates(body.stmts[n.at])
    => After(n, {"SYMBOL_IS_DEFINED"}) \subseteq Touched /\ Receivers(n.at) \subseteq Touched
IsCast(i) == body.stmts[i].op = "type_cast_stmt"

\* A definition whose id is tagged may be left out, but not the target of a cast: its
\* statement passes nothing on.
Handled ==
  /\ Head(pairs)[1] \in Touched
  /\ \A n \in Touched : n.kind = "symbol" => n.id \in symbols
  /\ \A n \in Touched : n.kind = "stmt" => \E m \in Before(n, {"SYMBOL_IS_USED"}) : m.id \in symbols
  /\ \A n \in processed : n.kind = "symbol" => SymbolHandled(n)
  /\ \A n \in StateNodes(body) : n.id \in states => n \in ToSet(worklist) \/ StateHandled(n)
  /\ \A n \in processed : n.kind = "stmt" => StmtHandled(n)
  /\ \A i \in Lines(body) : IsCast(i) /\ SymbolId(Target(i)) \in symbols => SymbolNode(body, i) \in Touched

HandledInv == active /\ ~CastHidden => Handled

LEMMA NodeKinds ==
  ASSUME GraphInv, NEW n \in GraphNodes(body)
  PROVE  /\ n.kind = "symbol" => \E i \in Lines(body) : /\ n = SymbolNode(body, i) /\ n.at = i
                                                       /\ n.id = SymbolId(Target(i))
         /\ n.kind = "state" => n \in StateNodes(body)
         /\ n.kind = "stmt" => \E i \in Lines(body) : n = StmtNode(i) /\ n.at = i
<1>1. CASE n \in SymbolNodes(body)
  BY <1>1, BodyIs, NodeFacts DEF SymbolNodes, Target
<1>2. CASE n \in StateNodes(body)
  BY <1>2, BodyIs, NodeFacts DEF StateNodes
<1>3. CASE n \in StmtNodes(body)
  BY <1>3, BodyIs, NodeFacts DEF StmtNodes
<1> QED BY <1>1, <1>2, <1>3 DEF GraphNodes

LEMMA NeighbourKinds ==
  ASSUME GraphInv, NEW n, NEW m
  PROVE  /\ m \in After(n, {"SYMBOL_STATE"}) => m.kind = "state"
         /\ m \in After(n, {"SYMBOL_IS_USED"}) => m.kind = "stmt" /\ n \in Before(m, {"SYMBOL_IS_USED"})
         /\ m \in After(n, {"SYMBOL_FLOW"}) => m.kind = "symbol"
         /\ m \in After(n, {"STATE_INCLUSION"}) => m.kind = "state"
         /\ m \in After(n, {"SYMBOL_IS_DEFINED"}) => m.kind = "symbol"
         /\ m \in Before(n, {"SYMBOL_STATE", "STATE_INCLUSION"}) => m.kind # "stmt"
         /\ \A i \in Lines(body) : m \in Receivers(i) => m.kind = "symbol"
<1>1. /\ \A i \in Lines(body) : SymbolNode(body, i).kind = "symbol" /\ StmtNode(i).kind = "stmt"
      /\ \A x \in Held(body) : StateNode(x[2]).kind = "state" /\ x[1] \in Lines(body)
      /\ \A x \in Known(body) : x[1] \in Lines(body) /\ x[2] \in Lines(body)
  BY BodyIs, NodeFacts, KnownFacts DEF Known
<1>2. ASSUME m \in After(n, {"SYMBOL_IS_USED"}) PROVE n \in Before(m, {"SYMBOL_IS_USED"})
  BY <1>2 DEF After, Before
<1>3. /\ m \in After(n, {"SYMBOL_STATE"}) => m.kind = "state"
      /\ m \in After(n, {"SYMBOL_IS_USED"}) => m.kind = "stmt"
      /\ m \in After(n, {"SYMBOL_FLOW"}) => m.kind = "symbol"
  BY <1>1, LeadTo
<1>4. /\ m \in After(n, {"STATE_INCLUSION"}) => m.kind = "state"
      /\ m \in After(n, {"SYMBOL_IS_DEFINED"}) => m.kind = "symbol"
  BY <1>1, LeadTo
<1>5. ASSUME m \in Before(n, {"SYMBOL_STATE", "STATE_INCLUSION"}) PROVE m.kind # "stmt"
  <2>1. \/ \E x \in Held(body) : m = SymbolNode(body, x[1])
        \/ \E x \in Held(body) : m = StateNode(x[2])
    BY <1>5, LeadFrom
  <2> QED BY <1>1, <2>1
<1>6. ASSUME NEW i \in Lines(body), m \in Receivers(i) PROVE m.kind = "symbol"
  <2>1. PICK x \in Known(body) : m = SymbolNode(body, x[1])
    BY <1>6, LeadFrom
  <2> QED BY <1>1, <2>1
<1> QED BY <1>2, <1>3, <1>4, <1>5, <1>6

\* Of the nodes of one id the first is there, so that every id gets its tag.
LEMMA UntaggedFacts ==
  ASSUME GraphInv, NEW nodes \in SUBSET GraphNodes(body), NEW tagged
  PROVE  \A n \in nodes : n.id \in tagged \union Ids(Untagged(nodes, tagged))
<1> SUFFICES ASSUME NEW n \in nodes, n.id \notin tagged PROVE n.id \in Ids(Untagged(nodes, tagged))
  OBVIOUS
<1> DEFINE same == {m \in nodes : m.id = n.id}
           ranks == {Rank(m) : m \in same}
<1>1. \A m \in nodes : Rank(m) \in Nat
  BY BodyIs, NodeFacts, RankIsNat
<1>2. ranks \in SUBSET Nat /\ Rank(n) \in ranks
  BY <1>1
<1>3. PICK r \in ranks : \A q \in ranks : r <= q
  BY <1>2, LeastElement
<1>4. PICK f \in same : Rank(f) = r
  OBVIOUS
<1>5. f \in Untagged(nodes, tagged)
  BY <1>3, <1>4 DEF Untagged
<1> QED BY <1>4, <1>5 DEF Ids

LEMMA HoldersFacts ==
  ASSUME GraphInv, NEW nodes \in SUBSET GraphNodes(body)
  PROVE  \A n \in nodes : TagId(n) \in symbols \union {TagId(h) : h \in Holders(nodes)}
<1> SUFFICES ASSUME NEW n \in nodes, TagId(n) \notin symbols PROVE \E h \in Holders(nodes) : TagId(n) = TagId(h)
  OBVIOUS
<1> DEFINE same == {m \in nodes : TagId(m) = TagId(n)}
           ranks == {Rank(m) : m \in same}
<1>1. \A m \in nodes : Rank(m) \in Nat
  BY BodyIs, NodeFacts, RankIsNat
<1>2. ranks \in SUBSET Nat /\ Rank(n) \in ranks
  BY <1>1
<1>3. PICK r \in ranks : \A q \in ranks : r <= q
  BY <1>2, LeastElement
<1>4. PICK f \in same : Rank(f) = r
  OBVIOUS
<1>5. f \in Holders(nodes)
  BY <1>3, <1>4 DEF Holders
<1> QED BY <1>4, <1>5

LEMMA SameTriple ==
  ASSUME NEW a, NEW b, NEW c, NEW d, NEW e, NEW f, <<a, b, c>> = <<d, e, f>>
  PROVE  a = d /\ b = e /\ c = f
OBVIOUS

\* A state is one node, and so is the target of a cast.
LEMMA StateById ==
  ASSUME GraphInv, NEW n \in StateNodes(body), NEW m \in GraphNodes(body), m.kind = "state", n.id = m.id
  PROVE  n = m
<1>1. PICK x \in Held(body) : n = StateNode(x[2])
  BY DEF StateNodes
<1>2. PICK y \in Held(body) : m = StateNode(y[2])
  BY NodeKinds DEF StateNodes
<1>3. PICK s, t : s = x[2] /\ t = y[2]
  OBVIOUS
<1>4. StateId(s) = StateId(t)
  BY <1>1, <1>2, <1>3 DEF StateNode
<1>5. s.at = t.at
  BY <1>4, SameTriple DEF StateId
<1> QED BY <1>1, <1>2, <1>3, <1>4, <1>5 DEF StateNode

LEMMA CastById ==
  ASSUME GraphInv, NEW i \in Lines(body), IsCast(i), NEW n \in GraphNodes(body), n.kind = "symbol",
         n.id = SymbolId(Target(i))
  PROVE  n = SymbolNode(body, i)
<1>1. PICK k \in Lines(body) : n = SymbolNode(body, k) /\ n.id = SymbolId(Target(k))
  BY NodeKinds
<1>2. Target(k) = Target(i)
  BY <1>1, SameTriple DEF SymbolId
<1>3. k = i
  BY <1>2, BodyIs DEF IsBody, IsCast, Target
<1> QED BY <1>1, <1>3

LEMMA CastByTagId ==
  ASSUME GraphInv, ~CastHidden, NEW i \in Lines(body), IsCast(i), NEW n \in GraphNodes(body), n.kind # "stmt",
         TagId(n) = SymbolId(Target(i))
  PROVE  n = SymbolNode(body, i)
<1>1. CASE n.kind = "symbol"
  BY <1>1, CastById DEF TagId
<1>2. CASE n.kind = "state"
  <2>1. PICK x \in Held(body) : n = StateNode(x[2])
    BY <1>2, NodeKinds DEF StateNodes
  <2>2. x[2].at \in Lines(body) /\ n.id = <<"", x[2].at, x[2].depth>>
    BY <2>1, BodyIs, NodeFacts DEF StateId
  <2>3. PICK none, k, d : none = "" /\ k = x[2].at /\ d = x[2].depth
    OBVIOUS
  <2>4. k # 0
    <3>1. Len(body.stmts) \in Nat /\ Lines(body) = 1..Len(body.stmts)
      BY BodyIs, BodyLines
    <3>2. k \in Lines(body)
      BY <2>2, <2>3
    <3> QED BY <3>1, <3>2
  <2>5. n.id # NoId /\ n.id # SymbolId(Target(i))
    <3>1. PICK zero : zero = 0
      OBVIOUS
    <3>2. n.id = <<none, k, d>> /\ NoId = <<none, zero, zero>> /\ SymbolId(Target(i)) = <<Target(i), zero, zero>>
      BY <2>2, <2>3, <3>1 DEF NoId, SymbolId
    <3> QED BY <2>4, <3>1, <3>2, SameTriple
  <2>6. body.twin.state # NoId /\ body.twin.symbol = SymbolId(Target(i))
    BY <2>5 DEF TagId
  <2> QED BY <2>6 DEF CastHidden, IsCast, Target
<1>3. n.kind \in {"symbol", "state", "stmt"}
  <2>1. n \in Nodes
    BY BodyIs, NodeFacts
  <2> QED BY <2>1 DEF Nodes
<1> QED BY <1>1, <1>2, <1>3

\* n is handled and what is newly tagged is in new.
Leaves(n, new) ==
  /\ symbols \subseteq symbols' /\ states \subseteq states'
  /\ \A m \in new : m.kind = "symbol" => m.id \in symbols'
  /\ \A m \in new : m.kind = "stmt" => \E u \in Before(m, {"SYMBOL_IS_USED"}) : u.id \in symbols'
  /\ n.kind = "symbol" => /\ After(n, {"SYMBOL_IS_USED"}) \subseteq new
                          /\ \A m \in After(n, {"SYMBOL_STATE"}) : m.id \in states'
                          /\ \A m \in After(n, {"SYMBOL_FLOW"}) : m.id \in symbols'
  /\ n.kind = "state" /\ n.id \in states =>
       \A m \in Before(n, {"SYMBOL_STATE", "STATE_INCLUSION"}) : TagId(m) \in symbols'
  /\ n.kind = "stmt" /\ Propagates(body.stmts[n.at]) =>
       After(n, {"SYMBOL_IS_DEFINED"}) \subseteq Touched' /\ Receivers(n.at) \subseteq Touched'
  /\ \A m \in StateNodes(body) : m.id \in states' /\ m.id \notin states => m \in new
  /\ \A i \in Lines(body) :
       IsCast(i) /\ SymbolId(Target(i)) \in symbols' /\ SymbolId(Target(i)) \notin symbols
         => SymbolNode(body, i) \in new

LEMMA HandledMoved ==
  ASSUME TypeInv, Handled, NEW n, NEW new, Moved(n, new), Leaves(n, new)
  PROVE  Handled'
<1>1. /\ UNCHANGED <<body, sfg, pairs>> /\ Touched' = Touched \union new /\ processed' = processed \union {n}
      /\ n \in ToSet(worklist) /\ n \in GraphNodes(body) /\ ToSet(worklist') = ToSet(Tail(worklist)) \union new
      /\ ToSet(worklist) = {n} \union ToSet(Tail(worklist))
  BY DEF Moved
<1>2. /\ \A m, kinds : After(m, kinds)' = After(m, kinds) /\ Before(m, kinds)' = Before(m, kinds)
      /\ \A i : Receivers(i)' = Receivers(i)
      /\ \A m : TagId(m)' = TagId(m)
  BY <1>1 DEF After, Before, Receivers, TagId
<1>3. n \in Touched
  BY <1>1 DEF Touched
<1>4. Head(pairs)[1]' \in Touched'
  BY <1>1 DEF Handled, Leaves
<1>5. \A m \in Touched' : m.kind = "symbol" => m.id \in symbols'
  BY <1>1 DEF Handled, Leaves
<1>6. ASSUME NEW m \in Touched', m.kind = "stmt"
      PROVE  \E u \in Before(m, {"SYMBOL_IS_USED"}) : u.id \in symbols'
  BY <1>1, <1>6 DEF Handled, Leaves
<1>7. ASSUME NEW m \in processed', m.kind = "symbol"
      PROVE  /\ After(m, {"SYMBOL_IS_USED"}) \subseteq Touched'
             /\ \A k \in After(m, {"SYMBOL_STATE"}) : k.id \in states'
             /\ \A k \in After(m, {"SYMBOL_FLOW"}) : k.id \in symbols'
  <2>1. CASE m \in processed
    BY <1>1, <1>7, <2>1 DEF Handled, SymbolHandled, Leaves
  <2>2. CASE m = n
    BY <1>1, <1>7, <2>2 DEF Leaves
  <2> QED BY <1>1, <2>1, <2>2
<1>8. ASSUME NEW m \in StateNodes(body), m.id \in states', m \notin ToSet(worklist')
      PROVE  \A k \in Before(m, {"SYMBOL_STATE", "STATE_INCLUSION"}) : TagId(k) \in symbols'
  <2>1. m.id \in states
    BY <1>1, <1>8 DEF Leaves
  <2>2. CASE m = n
    <3>1. m.kind = "state"
      BY BodyIs, NodeFacts DEF StateNodes, TypeInv
    <3> QED BY <2>1, <2>2, <3>1 DEF Leaves
  <2>3. CASE m # n
    <3>1. m \notin ToSet(worklist)
      BY <1>1, <1>8, <2>3
    <3> QED BY <2>1, <3>1 DEF Handled, StateHandled, Leaves
  <2> QED BY <2>2, <2>3
<1>9. ASSUME NEW m \in processed', m.kind = "stmt", Propagates(body.stmts[m.at])
      PROVE  After(m, {"SYMBOL_IS_DEFINED"}) \subseteq Touched' /\ Receivers(m.at) \subseteq Touched'
  <2>1. CASE m \in processed
    <3>1. After(m, {"SYMBOL_IS_DEFINED"}) \subseteq Touched /\ Receivers(m.at) \subseteq Touched
      BY <1>9, <2>1 DEF Handled, StmtHandled
    <3> QED BY <1>1, <3>1
  <2>2. CASE m = n
    BY <1>9, <2>2 DEF Leaves
  <2> QED BY <1>1, <2>1, <2>2
<1>10. \A i \in Lines(body) : IsCast(i) /\ SymbolId(Target(i)) \in symbols' => SymbolNode(body, i) \in Touched'
  BY <1>1 DEF Handled, Leaves
<1>11. /\ StateNodes(body)' = StateNodes(body) /\ Lines(body)' = Lines(body)
       /\ \A i : /\ IsCast(i)' <=> IsCast(i)
                 /\ Target(i)' = Target(i) /\ SymbolNode(body, i)' = SymbolNode(body, i)
       /\ \A i : Propagates(body.stmts[i])' <=> Propagates(body.stmts[i])
  BY <1>1 DEF IsCast, Target
<1>12. \A m \in processed' : m.kind = "symbol" => SymbolHandled(m)'
  BY <1>2, <1>7 DEF SymbolHandled
<1>13. \A m \in StateNodes(body) : m.id \in states' => m \in ToSet(worklist') \/ StateHandled(m)'
  BY <1>2, <1>8 DEF StateHandled
<1>14. \A m \in processed' : m.kind = "stmt" => StmtHandled(m)'
  BY <1>2, <1>9, <1>11 DEF StmtHandled
<1> QED BY <1>1, <1>2, <1>4, <1>5, <1>6, <1>10, <1>11, <1>12, <1>13, <1>14 DEF Handled

LEMMA HandledAtBegin == TypeInv /\ ~CastHidden /\ Begin => Handled'
<1> SUFFICES ASSUME TypeInv, ~CastHidden, Begin PROVE Handled'
  OBVIOUS
<1>0. GraphInv
  BY DEF TypeInv
<1>1. PICK source \in Sources(body), held \in SUBSET GraphNodes(body) :
         /\ source = Head(pairs)[1] /\ source \in GraphNodes(body)
         /\ held = After(source, {"SYMBOL_STATE"})
         /\ symbols' = {source.id} /\ states' = Ids(held)
         /\ ToSet(worklist') = {source} \union held /\ processed' = {}
         /\ UNCHANGED <<body, sfg, pairs, flows>>
  BY BeginStep
<1>2. source.kind = "symbol"
  BY <1>0, BodyIs, NodeFacts DEF Sources
<1>3. \A m \in held : m.kind = "state"
  BY <1>0, <1>1, NeighbourKinds
<1>4. Touched' = {source} \union held
  BY <1>1 DEF Touched
<1>5. ASSUME NEW m \in StateNodes(body), m.id \in states' PROVE m \in ToSet(worklist')
  <2>1. PICK k \in held : k.id = m.id
    BY <1>1, <1>5 DEF Ids
  <2>2. m = k
    BY <1>0, <1>3, <2>1, StateById
  <2> QED BY <1>1, <2>2
<1>6. ASSUME NEW i \in Lines(body), IsCast(i), SymbolId(Target(i)) \in symbols'
      PROVE  SymbolNode(body, i) \in Touched'
  BY <1>0, <1>1, <1>2, <1>4, <1>6, CastById
<1>7. /\ StateNodes(body)' = StateNodes(body) /\ Lines(body)' = Lines(body)
      /\ \A i : /\ IsCast(i)' <=> IsCast(i)
                /\ Target(i)' = Target(i) /\ SymbolNode(body, i)' = SymbolNode(body, i)
  BY <1>1 DEF IsCast, Target
<1>8. /\ Head(pairs)[1]' \in Touched'
      /\ \A n \in Touched' : n.kind = "symbol" => n.id \in symbols'
      /\ \A n \in Touched' : n.kind # "stmt"
  BY <1>1, <1>2, <1>3, <1>4
<1> QED BY <1>1, <1>5, <1>6, <1>7, <1>8 DEF Handled

LEMMA HandledByStep ==
  ASSUME TypeInv, ~CastHidden, Handled, FromSymbol \/ FromState \/ FromStmt
  PROVE  Handled'
<1>0. GraphInv
  BY DEF TypeInv
<1>1. CASE FromSymbol
  <2>1. PICK held, using, into \in SUBSET GraphNodes(body) :
           /\ Popped.kind = "symbol"
           /\ held = Untagged(After(Popped, {"SYMBOL_STATE"}), states)
           /\ using = After(Popped, {"SYMBOL_IS_USED"})
           /\ into = Untagged(After(Popped, {"SYMBOL_FLOW"}), symbols)
           /\ states' = states \union Ids(held) /\ symbols' = symbols \union Ids(into)
           /\ Moved(Popped, held \union using \union into)
    BY <1>1, SymbolStep
  <2>2. PICK n, new : n = Popped /\ new = held \union using \union into
    OBVIOUS
  <2>3. Moved(n, new) /\ n \in Touched /\ n.kind = "symbol"
    BY <2>1, <2>2 DEF Moved, Touched
  <2>4. n.id \in symbols'
    BY <2>1, <2>3 DEF Handled
  <2>5. /\ \A m \in held : m.kind = "state" /\ m.id \in states'
        /\ \A m \in using : m.kind = "stmt" /\ n \in Before(m, {"SYMBOL_IS_USED"})
        /\ \A m \in into : m.kind = "symbol" /\ m.id \in symbols'
    <3>1. held \subseteq After(n, {"SYMBOL_STATE"}) /\ into \subseteq After(n, {"SYMBOL_FLOW"})
      BY <2>1, <2>2 DEF Untagged
    <3>2. (\A m \in held : m.id \in states') /\ (\A m \in into : m.id \in symbols')
      BY <2>1 DEF Ids
    <3> QED BY <1>0, <2>1, <2>2, <3>1, <3>2, NeighbourKinds
  <2>6. \A m \in After(n, {"SYMBOL_STATE"}) : m.id \in states'
    BY <1>0, <2>1, <2>2, Neighbours, UntaggedFacts
  <2>7. \A m \in After(n, {"SYMBOL_FLOW"}) : m.id \in symbols'
    BY <1>0, <2>1, <2>2, Neighbours, UntaggedFacts
  <2>8. ASSUME NEW m \in StateNodes(body), m.id \in states', m.id \notin states PROVE m \in new
    <3>1. PICK k \in held : k.id = m.id
      BY <2>1, <2>8 DEF Ids
    <3>2. m = k
      BY <1>0, <2>5, <3>1, StateById
    <3> QED BY <2>2, <3>2
  <2>9. ASSUME NEW i \in Lines(body), IsCast(i), SymbolId(Target(i)) \in symbols', SymbolId(Target(i)) \notin symbols
        PROVE  SymbolNode(body, i) \in new
    <3>1. PICK k \in into : k.id = SymbolId(Target(i))
      BY <2>1, <2>9 DEF Ids
    <3>2. SymbolNode(body, i) = k
      BY <1>0, <2>5, <2>9, <3>1, CastById
    <3> QED BY <2>2, <3>2
  <2>10. /\ \A m \in new : m.kind = "symbol" => m.id \in symbols'
         /\ \A m \in new : m.kind = "stmt" => \E u \in Before(m, {"SYMBOL_IS_USED"}) : u.id \in symbols'
         /\ After(n, {"SYMBOL_IS_USED"}) \subseteq new
    BY <2>1, <2>2, <2>4, <2>5
  <2>11. symbols \subseteq symbols' /\ states \subseteq states'
    BY <2>1
  <2>12. Leaves(n, new)
    BY <2>3, <2>6, <2>7, <2>8, <2>9, <2>10, <2>11 DEF Leaves
  <2> QED BY <2>3, <2>12, HandledMoved
<1>2. CASE FromState
  <2>1. PICK holders, parts \in SUBSET GraphNodes(body) :
           /\ Popped.kind = "state"
           /\ holders = IF Popped.id \in states
                        THEN Holders(Before(Popped, {"SYMBOL_STATE", "STATE_INCLUSION"})) ELSE {}
           /\ parts = IF Popped.id \in states THEN Untagged(After(Popped, {"STATE_INCLUSION"}), states) ELSE {}
           /\ symbols' = symbols \union {TagId(n) : n \in holders} /\ states' = states \union Ids(parts)
           /\ Moved(Popped, holders \union parts)
    BY <1>2, StateStep
  <2>2. PICK n, new : n = Popped /\ new = holders \union parts
    OBVIOUS
  <2>3. Moved(n, new) /\ n.kind = "state"
    BY <2>1, <2>2
  <2>4. /\ \A m \in holders : m.kind # "stmt"
        /\ \A m \in parts : m.kind = "state"
    <3>1. /\ holders \subseteq Before(n, {"SYMBOL_STATE", "STATE_INCLUSION"})
          /\ parts \subseteq After(n, {"STATE_INCLUSION"})
      BY <2>1, <2>2 DEF Untagged, Holders
    <3> QED BY <1>0, <3>1, NeighbourKinds
  <2>5. \A m \in holders : m.kind = "symbol" => m.id \in symbols'
    BY <2>1 DEF TagId
  <2>6. ASSUME n.id \in states, NEW m \in Before(n, {"SYMBOL_STATE", "STATE_INCLUSION"})
        PROVE  TagId(m) \in symbols'
    <3>1. holders = Holders(Before(n, {"SYMBOL_STATE", "STATE_INCLUSION"}))
      BY <2>1, <2>2, <2>6
    <3>2. TagId(m) \in symbols \union {TagId(h) : h \in holders}
      BY <1>0, <3>1, Neighbours, HoldersFacts
    <3> QED BY <2>1, <3>2
  <2>7. ASSUME NEW m \in StateNodes(body), m.id \in states', m.id \notin states PROVE m \in new
    <3>1. PICK k \in parts : k.id = m.id
      BY <2>1, <2>7 DEF Ids
    <3>2. m = k
      BY <1>0, <2>4, <3>1, StateById
    <3> QED BY <2>2, <3>2
  <2>8. ASSUME NEW i \in Lines(body), IsCast(i), SymbolId(Target(i)) \in symbols', SymbolId(Target(i)) \notin symbols
        PROVE  SymbolNode(body, i) \in new
    <3>1. PICK k \in holders : TagId(k) = SymbolId(Target(i))
      BY <2>1, <2>8
    <3>2. SymbolNode(body, i) = k
      BY <1>0, <2>4, <2>8, <3>1, CastByTagId
    <3> QED BY <2>2, <3>2
  <2>9. /\ \A m \in new : m.kind = "symbol" => m.id \in symbols'
        /\ \A m \in new : m.kind # "stmt"
    BY <2>2, <2>4, <2>5
  <2>10. symbols \subseteq symbols' /\ states \subseteq states'
    BY <2>1
  <2>11. Leaves(n, new)
    BY <2>3, <2>6, <2>7, <2>8, <2>9, <2>10 DEF Leaves
  <2> QED BY <2>3, <2>11, HandledMoved
<1>3. CASE FromStmt
  <2>1. PICK more, back \in SUBSET GraphNodes(body) :
           /\ Popped.kind = "stmt"
           /\ more = IF Passing(Popped) THEN Pending(After(Popped, {"SYMBOL_IS_DEFINED"}), processed \union {Popped})
                                        ELSE {}
           /\ back = IF Passing(Popped) THEN Pending(Receivers(Popped.at), processed \union {Popped}) ELSE {}
           /\ symbols' = symbols \union Ids(more \union back) /\ states' = states
           /\ Moved(Popped, more \union back)
    BY <1>3, StmtStep
  <2>2. PICK n, new : n = Popped /\ new = more \union back
    OBVIOUS
  <2>3. Moved(n, new) /\ n \in Touched /\ n.kind = "stmt" /\ n \in GraphNodes(body)
    BY <2>1, <2>2 DEF Moved, Touched
  <2>4. \A m \in new : m.kind = "symbol" /\ m.id \in symbols' /\ m \in GraphNodes(body)
    <3>1. n.at \in Lines(body)
      BY <1>0, <2>3, NodeKinds
    <3>2. \A m \in new : m \in After(n, {"SYMBOL_IS_DEFINED"}) \/ m \in Receivers(n.at)
      BY <2>1, <2>2 DEF Pending
    <3>3. \A m \in new : m.kind = "symbol"
      BY <1>0, <3>1, <3>2, NeighbourKinds
    <3> QED BY <2>1, <2>2, <3>3 DEF Ids
  <2>5. ASSUME Propagates(body.stmts[n.at])
        PROVE  After(n, {"SYMBOL_IS_DEFINED"}) \subseteq Touched' /\ Receivers(n.at) \subseteq Touched'
    <3>1. \E m \in Before(n, {"SYMBOL_IS_USED"}) : m.id \in symbols
      BY <2>3 DEF Handled
    <3>2. Passing(n)
      BY <2>5, <3>1 DEF Passing
    <3>3. \A m \in After(n, {"SYMBOL_IS_DEFINED"}) \union Receivers(n.at) : m \in new \/ m \in processed \union {n}
      BY <2>1, <2>2, <3>2 DEF Pending
    <3>4. new \subseteq Touched' /\ processed \union {n} \subseteq Touched'
      BY <2>3 DEF Moved, Touched
    <3> QED BY <3>3, <3>4
  <2>6. ASSUME NEW i \in Lines(body), IsCast(i), SymbolId(Target(i)) \in symbols', SymbolId(Target(i)) \notin symbols
        PROVE  SymbolNode(body, i) \in new
    <3>1. PICK k \in new : k.id = SymbolId(Target(i))
      BY <2>1, <2>2, <2>6 DEF Ids
    <3>2. SymbolNode(body, i) = k
      BY <1>0, <2>4, <2>6, <3>1, CastById
    <3> QED BY <3>1, <3>2
  <2>7. symbols \subseteq symbols' /\ states \subseteq states' /\ \A m \in StateNodes(body) : m.id \in states' => m.id \in states
    BY <2>1
  <2>8. Leaves(n, new)
    BY <2>3, <2>4, <2>5, <2>6, <2>7 DEF Leaves
  <2> QED BY <2>3, <2>8, HandledMoved
<1> QED BY <1>1, <1>2, <1>3

LEMMA HandledKept == TypeInv /\ HandledInv /\ [Next]_vars => HandledInv'
<1> SUFFICES ASSUME TypeInv, HandledInv, [Next]_vars, active', ~CastHidden' PROVE Handled'
  BY DEF HandledInv
<1>1. body' = body
  BY DEF Next, Begin, FromSymbol, FromState, FromStmt, Check, vars
<1>2. ~CastHidden
  BY <1>1 DEF CastHidden
<1>3. CASE Begin
  BY <1>2, <1>3, HandledAtBegin
<1>4. CASE FromSymbol \/ FromState \/ FromStmt
  <2>1. active
    BY <1>4, PoppedFacts DEF FromSymbol, FromState, FromStmt
  <2> QED BY <1>2, <1>4, <2>1, HandledByStep DEF HandledInv
<1>5. CASE Check
  BY <1>5 DEF Check
<1>6. CASE UNCHANGED vars
  <2>1. UNCHANGED <<body, sfg, pairs, active, symbols, states, worklist, processed>>
    BY <1>6 DEF vars
  <2>2. Handled
    BY <1>2, <2>1 DEF HandledInv
  <2> QED BY <2>1, <2>2 DEF Handled, Touched, SymbolHandled, StateHandled, StmtHandled, IsCast, Target,
                            After, Before, Receivers, TagId
<1> QED BY <1>3, <1>4, <1>5, <1>6 DEF Next

\* When the list is empty, the definitions that were processed are handled.
Settled(D) ==
  /\ \A d \in D : SymbolNode(body, d).id \in symbols
  /\ \A x \in Known(body) : x[1] \in D /\ Propagates(body.stmts[x[2]]) =>
       x[2] \in D /\ \A y \in Known(body) : y[2] = x[2] /\ y[3] = 1 /\ body.stmts[x[2]].op = "object_call_stmt"
                                              => y[1] \in D
  /\ \A x \in Held(body) : x[1] \in D =>
       \A i \in Lines(body) : IsCast(i) /\ <<i, x[2]>> \in Held(body) => i \in D
  /\ \A x \in Known(body) :
       x[1] \in D /\ x[3] = 1 /\ IsCast(x[2]) /\ NewState(x[2], TRUE) \in Made(Held(body), x[2]) => x[2] \in D

LEMMA ProcessedSettled ==
  ASSUME TypeInv, Handled, worklist = <<>>
  PROVE  Settled({d \in Lines(body) : SymbolNode(body, d) \in processed})
<1> DEFINE D == {d \in Lines(body) : SymbolNode(body, d) \in processed}
<1>0. GraphInv
  BY DEF TypeInv
<1>1. Touched = processed /\ ToSet(worklist) = {}
  BY DEF Touched, ToSet
<1>2. \A i \in Lines(body) : SymbolNode(body, i).kind = "symbol" /\ StmtNode(i).kind = "stmt" /\ StmtNode(i).at = i
  BY <1>0, BodyIs, NodeFacts
<1>3. /\ \A x \in Known(body) : x[1] \in Lines(body) /\ x[2] \in Lines(body)
      /\ \A x \in Held(body) : x[1] \in Lines(body)
  BY <1>0, BodyIs, KnownFacts, NodeFacts DEF Known
<1>4. \A d \in D : SymbolHandled(SymbolNode(body, d)) /\ SymbolNode(body, d).id \in symbols
  BY <1>1, <1>2 DEF Handled
<1>5. \A i \in Lines(body) : IsCast(i) /\ SymbolNode(body, i).id \in symbols => i \in D
  <2>1. \A i \in Lines(body) : SymbolNode(body, i).id = SymbolId(Target(i))
    BY <1>0, BodyIs, NodeFacts DEF Target
  <2> QED BY <1>1, <2>1 DEF Handled
<1>6. ASSUME NEW x \in Known(body), x[1] \in D, Propagates(body.stmts[x[2]])
      PROVE  /\ x[2] \in D
             /\ \A y \in Known(body) : y[2] = x[2] /\ y[3] = 1 /\ body.stmts[x[2]].op = "object_call_stmt"
                                         => y[1] \in D
  <2>1. StmtNode(x[2]) \in After(SymbolNode(body, x[1]), {"SYMBOL_IS_USED"})
    BY <1>0, EdgesThere
  <2>2. StmtNode(x[2]) \in processed
    BY <1>1, <1>4, <1>6, <2>1 DEF SymbolHandled
  <2>3. StmtHandled(StmtNode(x[2]))
    BY <1>2, <1>3, <2>2 DEF Handled
  <2>4. After(StmtNode(x[2]), {"SYMBOL_IS_DEFINED"}) \subseteq processed /\ Receivers(x[2]) \subseteq processed
    BY <1>1, <1>2, <1>3, <1>6, <2>3 DEF StmtHandled
  <2>5. SymbolNode(body, x[2]) \in After(StmtNode(x[2]), {"SYMBOL_IS_DEFINED"})
    BY <1>0, <1>3, EdgesThere
  <2>6. ASSUME NEW y \in Known(body), y[2] = x[2], y[3] = 1, body.stmts[x[2]].op = "object_call_stmt"
        PROVE  y[1] \in D
    <3>1. SymbolNode(body, y[1]) \in Receivers(y[2])
      BY <1>0, <2>6, EdgesThere
    <3> QED BY <1>3, <2>4, <2>6, <3>1
  <2> QED BY <1>3, <2>4, <2>5, <2>6
<1>7. ASSUME NEW x \in Held(body), x[1] \in D, NEW i \in Lines(body), IsCast(i), <<i, x[2]>> \in Held(body)
      PROVE  i \in D
  <2>1. StateNode(x[2]) \in After(SymbolNode(body, x[1]), {"SYMBOL_STATE"})
    BY <1>0, EdgesThere
  <2>2. StateNode(x[2]).id \in states
    BY <1>4, <1>7, <2>1 DEF SymbolHandled
  <2>3. StateHandled(StateNode(x[2]))
    BY <1>1, <2>2 DEF Handled, StateNodes
  <2>4. PICK y \in Held(body) : y = <<i, x[2]>> /\ y[1] = i /\ y[2] = x[2]
    BY <1>7
  <2>5. SymbolNode(body, i) \in Before(StateNode(x[2]), {"SYMBOL_STATE", "STATE_INCLUSION"})
    BY <1>0, <2>4, EdgesThere
  <2>6. TagId(SymbolNode(body, i)) = SymbolNode(body, i).id
    BY <1>2 DEF TagId
  <2> QED BY <1>5, <1>7, <2>3, <2>5, <2>6 DEF StateHandled
<1>8. ASSUME NEW x \in Known(body), x[1] \in D, x[3] = 1, IsCast(x[2]),
             NewState(x[2], TRUE) \in Made(Held(body), x[2])
      PROVE  x[2] \in D
  <2>1. SymbolNode(body, x[2]) \in After(SymbolNode(body, x[1]), {"SYMBOL_FLOW"})
    BY <1>0, <1>8, EdgesThere DEF IsCast
  <2>2. SymbolNode(body, x[2]).id \in symbols
    BY <1>4, <1>8, <2>1 DEF SymbolHandled
  <2> QED BY <1>3, <1>5, <1>8, <2>2
<1> HIDE DEF D
<1>9. Settled(D)
  BY <1>4, <1>6, <1>7, <1>8 DEF Settled
<1> QED BY <1>9 DEF D

\* What is computed from a definition in a settled set is in the set.
LEMMA ComputedSettled ==
  ASSUME GraphInv, NEW D \in SUBSET Lines(body), Settled(D), NEW x \in Known(body), x[1] \in D,
         Passes(Known(body), Held(body), x[1], x[2])
  PROVE  x[2] \in D
<1> DEFINE j == x[2]
           st == body.stmts[j]
           read == UNION {Made(Held(body), d) : d \in UsedDefs(Known(body), j, 1)}
<1>1. /\ x[1] \in Lines(body) /\ j \in Lines(body) /\ x[3] \in DOMAIN st.uses /\ x[3] \in Nat
  BY BodyIs, KnownFacts DEF Known, Positions
<1>2. st.op \in Operations /\ DOMAIN st.uses = 1..Len(st.uses)
  BY <1>1, BodyIs, BodyLines
<1>3. st.op # "parameter_decl"
  <2> SUFFICES ASSUME st.op = "parameter_decl" PROVE FALSE
    OBVIOUS
  <2>1. st.uses = <<>>
    BY <1>1, BodyIs DEF IsBody
  <2> QED BY <1>1, <2>1
<1>4. CASE st.op # "type_cast_stmt"
  <2>1. Propagates(st)
    BY <1>2, <1>3, <1>4 DEF Operations, Propagates
  <2> QED BY <2>1 DEF Settled
<1>5. CASE st.op = "type_cast_stmt"
  <2>1. x[3] = 1
    <3>1. Len(st.uses) = 1
      BY <1>1, <1>5, BodyIs DEF IsBody
    <3> QED BY <1>1, <1>2, <3>1
  <2>2. x[1] \in UsedDefs(Known(body), j, 1)
    BY <2>1 DEF UsedDefs
  <2>3. Cast(st, j, read) \subseteq Made(Held(body), j)
    <3>1. Made(Held(body), j) = StatesMade(body, Known(body), Held(body), j)
      BY <1>1, BodyIs, HeldFacts
    <3> QED BY <3>1 DEF StatesMade
  <2>4. CASE \E s \in Made(Held(body), x[1]) : s.typed
    <3>1. PICK s \in Made(Held(body), x[1]) : s.typed
      BY <2>4
    <3>2. s \in read
      BY <2>2
    <3>3. s \in Made(Held(body), j)
      <4> HIDE DEF read
      <4> QED BY <1>5, <2>3, <3>1, <3>2 DEF Cast
    <3>4. PICK y \in Held(body) : y[1] = x[1] /\ y[2] = s
      BY DEF Made
    <3>5. PICK z \in Held(body) : z[1] = j /\ z[2] = s
      BY <3>3 DEF Made
    <3>6. z = <<j, y[2]>>
      <4>1. z = <<z[1], z[2]>>
        BY BodyIs, HeldFacts
      <4> QED BY <3>4, <3>5, <4>1
    <3> QED BY <1>1, <1>5, <3>4, <3>6 DEF Settled, IsCast
  <2>5. CASE \A d \in UsedDefs(Known(body), j, 1) : \A s \in Made(Held(body), d) : ~s.typed
    <3>1. {s \in read : s.typed} = {}
      BY <2>5
    <3>2. NewState(j, TRUE) \in Cast(st, j, read)
      <4> HIDE DEF read
      <4> QED BY <1>5, <3>1 DEF Cast
    <3> QED BY <1>5, <2>1, <2>3, <3>2 DEF Settled, IsCast
  <2> QED BY <1>5, <2>4, <2>5 DEF Passes
<1> QED BY <1>4, <1>5

LEMMA DependingSettled ==
  ASSUME GraphInv, NEW D \in SUBSET Lines(body), Settled(D), NEW s \in D
  PROVE  Depending(Known(body), Held(body), s) \subseteq D
<1> DEFINE links == Computed(Known(body), Held(body))
           given == GivenTo(Known(body), links)
<1>1. \A x \in Known(body) : x[1] \in Lines(body) /\ x[2] \in Lines(body)
  BY BodyIs, KnownFacts DEF Known
<1>2. ASSUME NEW l \in links
      PROVE  /\ l \in Lines(body) \X Lines(body) /\ (l[1] \in D => l[2] \in D)
             /\ \E x \in Known(body) : l[1] = x[1] /\ l[2] = x[2]
  <2>1. PICK x \in Known(body) : Passes(Known(body), Held(body), x[1], x[2]) /\ l = <<x[1], x[2]>>
    BY DEF Computed
  <2>2. l[1] = x[1] /\ l[2] = x[2]
    BY <2>1
  <2> QED BY <1>1, <2>1, <2>2, ComputedSettled
<1>3. ASSUME NEW g \in given
      PROVE  g \in Lines(body) \X Lines(body) /\ (g[1] \in D => g[2] \in D)
  <2>1. PICK l \in links : body.stmts[l[2]].op = "object_call_stmt" /\ g \in {l[1]} \X UsedDefs(Known(body), l[2], 1)
    BY DEF GivenTo
  <2>2. PICK y \in Known(body) : y[1] = g[2] /\ y[2] = l[2] /\ y[3] = 1
    BY <2>1 DEF UsedDefs
  <2>3. PICK x \in Known(body) : l[1] = x[1] /\ l[2] = x[2]
    BY <1>2
  <2>4. g[1] = x[1] /\ g = <<g[1], g[2]>>
    BY <2>1, <2>3
  <2>5. Propagates(body.stmts[x[2]])
    BY <2>1, <2>3 DEF Propagates
  <2>6. x[1] \in D => y[1] \in D
    BY <2>1, <2>2, <2>3, <2>5 DEF Settled
  <2> QED BY <1>1, <2>2, <2>4, <2>6
<1>4. IsFiniteSet(links \union given)
  <2>1. IsFiniteSet(Lines(body) \X Lines(body))
    BY BodyIs, BodyLines, FS_Product
  <2>2. links \union given \subseteq Lines(body) \X Lines(body)
    BY <1>2, <1>3
  <2> HIDE DEF links, given
  <2> QED BY <2>1, <2>2, FS_Subset
<1>5. Closed(links \union given, D)
  BY <1>2, <1>3 DEF Closed
<1>6. Depending(Known(body), Held(body), s) = Reach({s}, links \union given)
  BY DEF Depending
<1> HIDE DEF links, given
<1> QED BY <1>4, <1>5, <1>6, ReachLeast

\* Every pair that was checked has its report.
FoundInv ==
  ~CastHidden =>
    \A source \in Sources(body), i \in Sinks(body) :
      \/ <<source, StmtNode(i)>> \in ToSet(pairs)
      \/ Depending(Known(body), Held(body), source.at) \intersect Argument(Known(body), i) # {}
           => Reported(source, i)

\* A sink's argument among the tagged definitions is seen.
LEMMA ArgumentSeen ==
  ASSUME GraphInv, NEW i \in Lines(body), NEW d \in Argument(Known(body), i), SymbolNode(body, d).id \in symbols
  PROVE  SinkTagged(i)
<1> DEFINE p == TargetPos(body.stmts[i]) + 1
<1>1. d \in UsedDefs(Known(body), i, p) /\ \A q \in 1..(p - 1) : d \notin UsedDefs(Known(body), i, q)
  BY DEF Argument
<1>2. PICK x \in Known(body) : x[1] = d /\ x[2] = i /\ x[3] = p
  BY <1>1 DEF UsedDefs
<1>3. \A q \in 1..(x[3] - 1) : <<x[1], x[2], q>> \notin Known(body)
  <2> SUFFICES ASSUME NEW q \in 1..(x[3] - 1), <<x[1], x[2], q>> \in Known(body) PROVE FALSE
    OBVIOUS
  <2>1. PICK y \in Known(body) : y = <<x[1], x[2], q>> /\ y[1] = x[1] /\ y[2] = x[2] /\ y[3] = q
    OBVIOUS
  <2>2. d \in UsedDefs(Known(body), i, q)
    BY <1>2, <2>1 DEF UsedDefs
  <2>3. q \in 1..(p - 1)
    BY <1>2
  <2> QED BY <1>1, <2>2, <2>3
<1>4. PICK e : e = Edge(SymbolNode(body, x[1]), StmtNode(x[2]), "SYMBOL_IS_USED", x[3] - 1)
  OBVIOUS
<1>5. e \in sfg
  BY <1>3, <1>4, GraphHas DEF GraphInv
<1>6. e.from = SymbolNode(body, d) /\ e.to = StmtNode(i) /\ e.kind = "SYMBOL_IS_USED" /\ e.pos = p - 1
  BY <1>2, <1>4 DEF Edge
<1>7. TargetPos(body.stmts[i]) \in Nat
  BY DEF TargetPos
<1> QED BY <1>5, <1>6, <1>7 DEF SinkTagged, SymbolTagged

LEMMA FoundAtCheck ==
  ASSUME TypeInv, HandledInv, ~CastHidden, Check
  PROVE  \E source \in Sources(body), i \in Sinks(body) :
           /\ ToSet(pairs) = {<<source, StmtNode(i)>>} \union ToSet(pairs')
           /\ flows \subseteq flows' /\ body' = body
           /\ Depending(Known(body), Held(body), source.at) \intersect Argument(Known(body), i) # {}
                => Reported(source, i)'
<1>1. PICK source \in Sources(body), i \in Sinks(body) :
           /\ active /\ worklist = <<>> /\ source = Head(pairs)[1]
           /\ ToSet(pairs) = {<<source, StmtNode(i)>>} \union ToSet(pairs')
           /\ flows' = IF SinkTagged(i) THEN flows \union {FlowTo(source, i)} ELSE flows
           /\ body' = body
  BY CheckStep
<1>2. PICK D : D = {d \in Lines(body) : SymbolNode(body, d) \in processed}
  OBVIOUS
<1>3. Handled /\ GraphInv
  BY <1>1 DEF HandledInv, TypeInv
<1>4. D \in SUBSET Lines(body) /\ Settled(D)
  BY <1>1, <1>2, <1>3, ProcessedSettled
<1>5. PICK s \in Lines(body) : source = SymbolNode(body, s)
  BY DEF Sources
<1>6. source.at = s /\ s \in D
  <2>1. source.at = s
    BY <1>5 DEF SymbolNode
  <2>2. source \in processed
    BY <1>1, <1>3 DEF Handled, Touched, ToSet
  <2> QED BY <1>2, <1>5, <2>1, <2>2
<1>7. ASSUME Depending(Known(body), Held(body), source.at) \intersect Argument(Known(body), i) # {}
      PROVE  SinkTagged(i)
  <2>1. PICK d \in Argument(Known(body), i) : d \in Depending(Known(body), Held(body), s)
    BY <1>6, <1>7
  <2>2. d \in D
    BY <1>3, <1>4, <1>6, <2>1, DependingSettled
  <2>3. SymbolNode(body, d).id \in symbols
    BY <1>4, <2>2 DEF Settled
  <2> QED BY <1>3, <2>1, <2>3, ArgumentSeen DEF Sinks
<1>8. FlowTo(source, i).source = source /\ FlowTo(source, i).sink = i
  BY DEF FlowTo
<1>9. SinkTagged(i) => Reported(source, i)'
  BY <1>1, <1>8 DEF Reported
<1> QED BY <1>1, <1>7, <1>9

LEMMA FoundKept == TypeInv /\ HandledInv /\ FoundInv /\ [Next]_vars => FoundInv'
<1> SUFFICES ASSUME TypeInv, HandledInv, FoundInv, [Next]_vars PROVE FoundInv'
  OBVIOUS
<1>0. body' = body
  BY DEF Next, Begin, FromSymbol, FromState, FromStmt, Check, vars
<1> SUFFICES ASSUME ~CastHidden PROVE FoundInv'
  BY <1>0 DEF CastHidden, FoundInv
<1> DEFINE Missing(source, i) ==
             Depending(Known(body), Held(body), source.at) \intersect Argument(Known(body), i) # {}
<1>1. ASSUME body' = body,
             \A source \in Sources(body), i \in Sinks(body) :
               <<source, StmtNode(i)>> \in ToSet(pairs') \/ (Missing(source, i) => Reported(source, i)')
      PROVE  FoundInv'
  <2>1. /\ Sources(body)' = Sources(body) /\ Sinks(body)' = Sinks(body)
        /\ \A source, i : Missing(source, i)' <=> Missing(source, i)
    BY <1>1 DEF Depending, Computed, GivenTo, Passes, Argument
  <2> HIDE DEF Missing
  <2>2. \A source \in Sources(body)', i \in Sinks(body)' :
          <<source, StmtNode(i)>> \in ToSet(pairs') \/ (Missing(source, i)' => Reported(source, i)')
    BY <1>1, <2>1
  <2> QED BY <2>2 DEF FoundInv, Missing
<1> HIDE DEF Missing
<1>2. \A source \in Sources(body), i \in Sinks(body) :
        <<source, StmtNode(i)>> \in ToSet(pairs) \/ (Missing(source, i) => Reported(source, i))
  BY DEF FoundInv, Missing
<1>3. CASE Check
  <2>1. PICK source \in Sources(body), i \in Sinks(body) :
           /\ ToSet(pairs) = {<<source, StmtNode(i)>>} \union ToSet(pairs')
           /\ flows \subseteq flows' /\ body' = body
           /\ Missing(source, i) => Reported(source, i)'
    BY <1>3, FoundAtCheck DEF Missing
  <2>2. \A r, k : Reported(r, k) => Reported(r, k)'
    BY <2>1 DEF Reported
  <2>3. ASSUME NEW r \in Sources(body), NEW k \in Sinks(body)
        PROVE  <<r, StmtNode(k)>> \in ToSet(pairs') \/ (Missing(r, k) => Reported(r, k)')
    <3>1. CASE <<r, StmtNode(k)>> = <<source, StmtNode(i)>>
      <4>1. r = source /\ StmtNode(k) = StmtNode(i)
        BY <3>1
      <4>2. k = i
        BY <4>1 DEF StmtNode
      <4> QED BY <2>1, <4>1, <4>2
    <3>2. CASE <<r, StmtNode(k)>> # <<source, StmtNode(i)>>
      BY <1>2, <2>1, <2>2, <3>2
    <3> QED BY <3>1, <3>2
  <2> QED BY <1>1, <2>1, <2>3
<1>4. CASE UNCHANGED <<body, pairs, flows>>
  <2>1. \A r, k : Reported(r, k)' <=> Reported(r, k)
    BY <1>4 DEF Reported
  <2> QED BY <1>1, <1>2, <1>4, <2>1
<1>5. Next => Check \/ UNCHANGED <<body, pairs, flows>>
  BY DEF Next, Begin, FromSymbol, FromState, FromStmt
<1> QED BY <1>3, <1>4, <1>5 DEF vars

LEMMA FoundAtStart == Init => FoundInv
<1> SUFFICES ASSUME Init PROVE \A source \in Sources(body), i \in Sinks(body) :
                                 <<source, StmtNode(i)>> \in ToSet(pairs)
  BY DEF FoundInv
<1>1. GraphInv
  BY DEF Init, GraphInv
<1>2. Sources(body) \in SUBSET Nodes /\ SinkNodes \in SUBSET Nodes
  BY <1>1, BodyIs, NodeFacts DEF Sources, SinkNodes, Sinks, GraphNodes, SymbolNodes, StmtNodes
<1>3. IsFiniteSet(Sources(body)) /\ IsFiniteSet(SinkNodes)
  <2>1. Sources(body) \subseteq GraphNodes(body) /\ SinkNodes \subseteq GraphNodes(body)
    BY DEF Sources, SinkNodes, Sinks, GraphNodes, SymbolNodes, StmtNodes
  <2> QED BY <1>1, <2>1, BodyIs, NodesFinite, FS_Subset
<1>4. PICK from, to : /\ from = Queue(Sources(body)) /\ to = Queue(SinkNodes)
                      /\ from \in Seq(Sources(body)) /\ ToSet(from) = Sources(body)
                      /\ to \in Seq(SinkNodes) /\ ToSet(to) = SinkNodes
  BY <1>2, <1>3, QueueFacts
<1>5. pairs = Pairs(from, to)
  BY <1>4 DEF Init, SinkNodes
<1>6. \A x \in ToSet(from), y \in ToSet(to) : <<x, y>> \in ToSet(pairs)
  BY <1>4, <1>5, PairsFacts
<1> QED BY <1>4, <1>6 DEF SinkNodes

\* Whatever depends on a source and is given to a sink is reported, of every body whose states
\* are numbered apart from its casts' targets (TaintAnalysis.find_flows).
THEOREM FlowsFound == Spec => []NoFlowMissed
<1> DEFINE Inv == TypeInv /\ HandledInv /\ FoundInv
<1>1. Init => Inv
  BY TypeAtStart, FoundAtStart DEF Init, HandledInv
<1>2. Inv /\ [Next]_vars => Inv'
  BY TypeKept, HandledKept, FoundKept
<1>3. Inv => NoFlowMissed
  <2> SUFFICES ASSUME FoundInv, Done, ~CastHidden, NEW source \in Sources(body), NEW i \in Sinks(body),
                      Depending(Known(body), Held(body), source.at) \intersect Argument(Known(body), i) # {}
               PROVE  Reported(source, i)
    BY DEF NoFlowMissed, KnownUses, HeldStates, Known, Held
  <2>1. ToSet(pairs) = {}
    BY DEF Done, ToSet
  <2> QED BY <2>1 DEF FoundInv
<1> QED BY <1>1, <1>2, <1>3, PTL DEF Spec

-----------------------------------------------------------------------------
\* Termination: no node waits twice, and a symbol that was processed never again.

LEMMA QueueOnce ==
  ASSUME NEW nodes \in SUBSET Nodes, IsFiniteSet(nodes)
  PROVE  Once(Queue(nodes))
<1>1. PICK N \in Nat : N = Cardinality(nodes)
  BY FS_CardinalityType
<1>2. PICK q : q = Queue(nodes) /\ q \in Seq(nodes) /\ ToSet(q) = nodes
  BY QueueFacts
<1>3. DOMAIN q = 1..N
  BY <1>1, <1>2, QueueIs
<1>4. Len(q) = N /\ q \in [1..N -> nodes]
  BY <1>2, <1>3, LenProperties
<1>5. q \in Surjection(1..N, nodes)
  BY <1>2, <1>3, <1>4 DEF Surjection, ToSet
<1>6. IsFiniteSet(1..N) /\ Cardinality(1..N) = N
  BY FS_Interval
<1>7. q \in Injection(1..N, nodes)
  BY <1>1, <1>5, <1>6, FS_SurjSameCardinalityImpliesInj
<1> QED BY <1>2, <1>4, <1>7 DEF Once, Injection, IsInjective

LEMMA EnqueuedOnce ==
  ASSUME NEW S \in SUBSET Nodes, NEW list \in Seq(S), NEW nodes \in SUBSET S, IsFiniteSet(nodes), Once(list)
  PROVE  Once(Enqueued(list, nodes))
<1>1. PICK new : new = nodes \ ToSet(list) /\ new \in SUBSET Nodes /\ new \subseteq S /\ IsFiniteSet(new)
  <2>1. nodes \ ToSet(list) \subseteq nodes
    OBVIOUS
  <2>2. IsFiniteSet(nodes \ ToSet(list))
    BY <2>1, FS_Subset
  <2> QED BY <2>1, <2>2
<1>2. PICK q : q = Queue(new) /\ q \in Seq(new) /\ ToSet(q) = new /\ Once(q)
  BY <1>1, QueueFacts, QueueOnce
<1>3. q \in Seq(S)
  BY <1>1, <1>2
<1>4. ToSet(list) \intersect ToSet(q) = {}
  BY <1>1, <1>2
<1> QED BY <1>1, <1>2, <1>3, <1>4, OnceJoined DEF Enqueued

LEMMA EnqueuedNothing ==
  ASSUME NEW S, NEW list \in Seq(S), NEW nodes \in SUBSET ToSet(list)
  PROVE  Enqueued(list, nodes) = list
<1>1. nodes \ ToSet(list) = {}
  OBVIOUS
<1>2. Queue({}) = <<>>
  <2>1. Cardinality({}) = 0
    BY FS_EmptySet
  <2>2. Queue({}) = [k \in 1..0 |-> First(Iterated(0, {}, Rests({}))[k - 1])]
    BY <2>1, QueueIs
  <2>3. PICK q : q = Queue({}) /\ DOMAIN q = 1..0 /\ q = [k \in 1..0 |-> q[k]]
    BY <2>2
  <2> QED BY <2>3
<1>3. Enqueued(list, nodes) = list \o <<>>
  BY <1>1, <1>2, Zenon DEF Enqueued
<1> QED BY <1>3, ConcatEmptySeq

OnceInv ==
  /\ Once(worklist)
  /\ \A n \in Touched : n.kind = "symbol" => n.id \in symbols
  /\ \A n \in ToSet(worklist) : n.kind = "symbol" => n \notin processed

LEMMA OnceOfMoved ==
  ASSUME TypeInv, OnceInv, worklist # <<>>, NEW new, Moved(Popped, new), Once(worklist'),
         symbols \subseteq symbols',
         \A n \in new : n.kind = "symbol" =>
            /\ n.id \in symbols'
            /\ n.id \notin symbols \/ n \notin processed \union {Popped}
  PROVE  OnceInv'
<1>1. worklist \in Seq(GraphNodes(body))
  BY DEF TypeInv
<1>2. Popped \notin ToSet(Tail(worklist))
  BY <1>1, OnceFacts DEF OnceInv, Popped
<1>3. \A n \in Touched' : n.kind = "symbol" => n.id \in symbols'
  BY DEF OnceInv, Moved
<1>4. ASSUME NEW n \in ToSet(worklist'), n.kind = "symbol" PROVE n \notin processed'
  <2>1. CASE n \in ToSet(Tail(worklist))
    BY <1>2, <1>4, <2>1 DEF OnceInv, Moved
  <2>2. CASE n \in new
    BY <1>4, <2>2 DEF OnceInv, Moved, Touched
  <2> QED BY <2>1, <2>2 DEF Moved
<1> QED BY <1>3, <1>4 DEF OnceInv

LEMMA OnceByOne ==
  ASSUME TypeInv, OnceInv, worklist # <<>>, NEW new \in SUBSET GraphNodes(body),
         worklist' = Enqueued(Tail(worklist), new)
  PROVE  Once(worklist')
<1>1. PICK S, rest : S = GraphNodes(body) /\ rest = Tail(worklist)
  OBVIOUS
<1>2. S \in SUBSET Nodes /\ IsFiniteSet(new) /\ rest \in Seq(S) /\ Once(rest) /\ new \in SUBSET S
  BY <1>1, Neighbours, FS_Subset, OnceFacts, PoppedFacts DEF TypeInv, OnceInv
<1> QED BY <1>1, <1>2, EnqueuedOnce

LEMMA OnceByTwo ==
  ASSUME TypeInv, OnceInv, worklist # <<>>,
         NEW one \in SUBSET GraphNodes(body), NEW two \in SUBSET GraphNodes(body),
         worklist' = Enqueued(Enqueued(Tail(worklist), one), two)
  PROVE  Once(worklist')
<1>1. PICK S, rest : S = GraphNodes(body) /\ rest = Tail(worklist)
  OBVIOUS
<1>2. /\ S \in SUBSET Nodes /\ IsFiniteSet(one) /\ IsFiniteSet(two) /\ rest \in Seq(S) /\ Once(rest)
      /\ one \in SUBSET S /\ two \in SUBSET S
  BY <1>1, Neighbours, FS_Subset, OnceFacts, PoppedFacts DEF TypeInv, OnceInv
<1>3. PICK list : list = Enqueued(rest, one) /\ list \in Seq(S) /\ Once(list)
  BY <1>2, EnqueuedFacts, EnqueuedOnce
<1> QED BY <1>1, <1>2, <1>3, EnqueuedOnce

LEMMA OnceBySymbol == ASSUME TypeInv, OnceInv, FromSymbol PROVE OnceInv'
<1>1. PICK held, using, into \in SUBSET GraphNodes(body) :
        /\ Popped.kind = "symbol"
        /\ held = Untagged(After(Popped, {"SYMBOL_STATE"}), states)
        /\ using = After(Popped, {"SYMBOL_IS_USED"})
        /\ into = Untagged(After(Popped, {"SYMBOL_FLOW"}), symbols)
        /\ symbols' = symbols \union Ids(into)
        /\ Moved(Popped, held \union using \union into)
  BY SymbolStep
<1>2. worklist # <<>> /\ worklist' = Enqueued(Tail(worklist), held \union using \union into)
  BY <1>1 DEF FromSymbol
<1>3. Once(worklist')
  <2>1. PICK new \in SUBSET GraphNodes(body) : new = held \union using \union into
    OBVIOUS
  <2> QED BY <1>2, <2>1, OnceByOne
<1>4. ASSUME NEW n \in held \union using \union into, n.kind = "symbol"
      PROVE  n.id \in symbols' /\ n.id \notin symbols
  <2>1. n \notin held /\ n \notin using
    BY <1>1, <1>4, NeighbourKinds DEF TypeInv, Untagged
  <2> QED BY <1>1, <1>4, <2>1 DEF Untagged, Ids
<1> QED BY <1>1, <1>2, <1>3, <1>4, OnceOfMoved

LEMMA OnceByState == ASSUME TypeInv, OnceInv, FromState PROVE OnceInv'
<1>1. PICK holders, parts \in SUBSET GraphNodes(body) :
        /\ holders = IF Popped.id \in states
                     THEN Holders(Before(Popped, {"SYMBOL_STATE", "STATE_INCLUSION"})) ELSE {}
        /\ parts = IF Popped.id \in states THEN Untagged(After(Popped, {"STATE_INCLUSION"}), states) ELSE {}
        /\ symbols' = symbols \union {TagId(n) : n \in holders}
        /\ Moved(Popped, holders \union parts)
  BY StateStep
<1>2. worklist # <<>> /\ worklist' = Enqueued(Enqueued(Tail(worklist), holders), parts)
  BY <1>1 DEF FromState
<1>3. Once(worklist')
  BY <1>2, OnceByTwo
<1>4. ASSUME NEW n \in holders \union parts, n.kind = "symbol"
      PROVE  n.id \in symbols' /\ n.id \notin symbols
  <2>1. n \in holders
    BY <1>1, <1>4, NeighbourKinds DEF TypeInv, Untagged
  <2>2. TagId(n) \notin symbols /\ TagId(n) = n.id
    BY <1>1, <1>4, <2>1 DEF Holders, TagId
  <2> QED BY <1>1, <2>1, <2>2
<1> QED BY <1>1, <1>2, <1>3, <1>4, OnceOfMoved

LEMMA OnceByStmt == ASSUME TypeInv, OnceInv, FromStmt PROVE OnceInv'
<1>1. PICK more, back \in SUBSET GraphNodes(body) :
        /\ more = IF Passing(Popped) THEN Pending(After(Popped, {"SYMBOL_IS_DEFINED"}), processed \union {Popped})
                                     ELSE {}
        /\ back = IF Passing(Popped) THEN Pending(Receivers(Popped.at), processed \union {Popped}) ELSE {}
        /\ symbols' = symbols \union Ids(more \union back)
        /\ Moved(Popped, more \union back)
  BY StmtStep
<1>2. worklist # <<>> /\ worklist' = Enqueued(Enqueued(Tail(worklist), more), back)
  BY <1>1 DEF FromStmt, Passing
<1>3. Once(worklist')
  BY <1>2, OnceByTwo
<1>4. ASSUME NEW n \in more \union back
      PROVE  n.id \in symbols' /\ (n.id \notin symbols \/ n \notin processed \union {Popped})
  BY <1>1, <1>4 DEF Pending, Ids
<1> QED BY <1>1, <1>2, <1>3, <1>4, OnceOfMoved

LEMMA OnceKept == TypeInv /\ OnceInv /\ [Next]_vars => OnceInv'
<1> SUFFICES ASSUME TypeInv, OnceInv, [Next]_vars PROVE OnceInv'
  OBVIOUS
<1>1. CASE Begin
  <2>1. PICK source \in Sources(body), held \in SUBSET GraphNodes(body) :
          /\ source \in GraphNodes(body) /\ source = Head(pairs)[1]
          /\ held = After(source, {"SYMBOL_STATE"}) /\ symbols' = {source.id}
          /\ ToSet(worklist') = {source} \union held /\ processed' = {}
    BY <1>1, BeginStep
  <2>2. worklist' = Enqueued(<<source>>, held)
    BY <1>1, <2>1 DEF Begin
  <2>3. Once(worklist')
    <3>1. PICK S, list : S = GraphNodes(body) /\ list = <<source>>
      OBVIOUS
    <3>2. S \in SUBSET Nodes /\ IsFiniteSet(held) /\ held \in SUBSET S /\ list \in Seq(S) /\ Once(list)
      BY <2>1, <3>1, Neighbours, FS_Subset DEF TypeInv, Once
    <3> QED BY <2>2, <3>1, <3>2, EnqueuedOnce
  <2>4. \A n \in held : n.kind # "symbol"
    BY <2>1, NeighbourKinds DEF TypeInv
  <2> QED BY <2>1, <2>3, <2>4 DEF OnceInv, Touched
<1>2. CASE FromSymbol
  BY <1>2, OnceBySymbol
<1>3. CASE FromState
  BY <1>3, OnceByState
<1>4. CASE FromStmt
  BY <1>4, OnceByStmt
<1>5. CASE Check \/ UNCHANGED vars
  BY <1>5 DEF Check, vars, OnceInv, Touched
<1> QED BY <1>1, <1>2, <1>3, <1>4, <1>5 DEF Next

LEMMA OnceAtStart == Init => OnceInv
<1> SUFFICES ASSUME Init PROVE OnceInv
  OBVIOUS
<1>1. worklist = <<>> /\ processed = {} /\ Len(<<>>) = 0 /\ ToSet(<<>>) = {}
  BY DEF Init, ToSet
<1> QED BY <1>1 DEF OnceInv, Once, Touched

-----------------------------------------------------------------------------
\* What the propagation uses up.

TagIds == Ids(GraphNodes(body)) \union {body.twin.symbol}
PairsLeft == 1..Len(pairs)
StagesLeft == IF active THEN {} ELSE {"propagation"}
TagsLeft == {x \in {"symbol", "state"} \X TagIds : x[2] \notin IF x[1] = "symbol" THEN symbols ELSE states}
SymbolsLeft == {n \in GraphNodes(body) : n.kind = "symbol" /\ n \notin processed}
NodesLeft == GraphNodes(body) \ Touched
ListLeft == 1..Len(worklist)

Shrinks(new, old) == new \subseteq old /\ new # old

\* Tags not given yet, symbols not processed, nodes not come to, and the list, in this
\* order: propagation takes from one of them and leaves those before it.
PropagationUsesUp ==
  \/ Shrinks(TagsLeft', TagsLeft)
  \/ TagsLeft' = TagsLeft /\ Shrinks(SymbolsLeft', SymbolsLeft)
  \/ TagsLeft' = TagsLeft /\ SymbolsLeft' = SymbolsLeft /\ Shrinks(NodesLeft', NodesLeft)
  \/ /\ TagsLeft' = TagsLeft /\ SymbolsLeft' = SymbolsLeft /\ NodesLeft' = NodesLeft
     /\ Shrinks(ListLeft', ListLeft)

UsesUp ==
  \/ Shrinks(PairsLeft', PairsLeft)
  \/ PairsLeft' = PairsLeft /\ Shrinks(StagesLeft', StagesLeft)
  \/ PairsLeft' = PairsLeft /\ StagesLeft' = StagesLeft /\ PropagationUsesUp

AllFinite ==
  /\ IsFiniteSet(PairsLeft) /\ IsFiniteSet(StagesLeft) /\ IsFiniteSet(TagsLeft)
  /\ IsFiniteSet(SymbolsLeft) /\ IsFiniteSet(NodesLeft) /\ IsFiniteSet(ListLeft)

LEMMA LeftIsFinite == ASSUME TypeInv PROVE AllFinite
<1>1. IsFiniteSet(GraphNodes(body))
  BY Neighbours DEF TypeInv
<1>2. IsFiniteSet(TagIds)
  <2>1. [n \in GraphNodes(body) |-> n.id] \in Surjection(GraphNodes(body), Ids(GraphNodes(body)))
    BY DEF Surjection, Ids
  <2>2. IsFiniteSet(Ids(GraphNodes(body)))
    BY <1>1, <2>1, FS_Surjection
  <2> QED BY <2>2, FS_AddElement DEF TagIds
<1>3. IsFiniteSet({}) /\ IsFiniteSet({"propagation"}) /\ IsFiniteSet({"symbol", "state"})
  <2>1. IsFiniteSet({}) /\ IsFiniteSet({"propagation"}) /\ IsFiniteSet({"symbol"})
    BY FS_EmptySet, FS_Singleton
  <2>2. IsFiniteSet({"symbol"} \union {"state"})
    BY <2>1, FS_AddElement
  <2>3. {"symbol"} \union {"state"} = {"symbol", "state"}
    OBVIOUS
  <2> QED BY <2>1, <2>2, <2>3
<1>4. IsFiniteSet(StagesLeft)
  <2>1. StagesLeft = {} \/ StagesLeft = {"propagation"}
    BY DEF StagesLeft
  <2> QED BY <1>3, <2>1
<1>5. IsFiniteSet(TagsLeft)
  <2>1. IsFiniteSet({"symbol", "state"} \X TagIds)
    BY <1>2, <1>3, FS_Product
  <2>2. TagsLeft \subseteq {"symbol", "state"} \X TagIds
    BY DEF TagsLeft
  <2> QED BY <2>1, <2>2, FS_Subset
<1>6. IsFiniteSet(SymbolsLeft) /\ IsFiniteSet(NodesLeft)
  <2>1. SymbolsLeft \subseteq GraphNodes(body) /\ NodesLeft \subseteq GraphNodes(body)
    BY DEF SymbolsLeft, NodesLeft
  <2> QED BY <1>1, <2>1, FS_Subset
<1>7. IsFiniteSet(PairsLeft) /\ IsFiniteSet(ListLeft)
  <2>1. Len(pairs) \in Nat /\ Len(worklist) \in Nat
    BY LenProperties DEF TypeInv
  <2> QED BY <2>1, FS_Interval DEF PairsLeft, ListLeft
<1> QED BY <1>4, <1>5, <1>6, <1>7 DEF AllFinite

\* A tag that is new is one less to give.
LEMMA TagsUsed ==
  ASSUME TypeInv, TypeInv', NEW n, NEW new, Moved(n, new), symbols \subseteq symbols', states \subseteq states',
         symbols' # symbols \/ states' # states
  PROVE  UsesUp
<1>1. /\ PairsLeft' = PairsLeft /\ StagesLeft' = StagesLeft /\ TagIds' = TagIds
      /\ symbols' \subseteq TagIds /\ states' \subseteq TagIds
  BY DEF Moved, PairsLeft, StagesLeft, TagIds, TypeInv
<1>2. TagsLeft' \subseteq TagsLeft
  BY <1>1 DEF TagsLeft
<1>3. \E x \in TagsLeft : x \notin TagsLeft'
  <2>1. CASE symbols' # symbols
    <3>1. PICK id \in symbols' : id \notin symbols
      BY <2>1
    <3>2. <<"symbol", id>> \in TagsLeft /\ <<"symbol", id>> \notin TagsLeft'
      BY <1>1, <3>1 DEF TagsLeft
    <3> QED BY <3>2
  <2>2. CASE states' # states
    <3>1. PICK id \in states' : id \notin states
      BY <2>2
    <3>2. <<"state", id>> \in TagsLeft /\ <<"state", id>> \notin TagsLeft'
      BY <1>1, <3>1 DEF TagsLeft
    <3> QED BY <3>2
  <2> QED BY <2>1, <2>2
<1> QED BY <1>1, <1>2, <1>3 DEF UsesUp, PropagationUsesUp, Shrinks

\* A symbol is processed at most once with the same tags.
LEMMA SymbolUsed ==
  ASSUME TypeInv, OnceInv, NEW new, Moved(Popped, new), Popped.kind = "symbol", symbols' = symbols, states' = states
  PROVE  UsesUp
<1>1. PairsLeft' = PairsLeft /\ StagesLeft' = StagesLeft /\ TagsLeft' = TagsLeft
  BY DEF Moved, PairsLeft, StagesLeft, TagIds, TagsLeft
<1>2. SymbolsLeft' \subseteq SymbolsLeft /\ Popped \in SymbolsLeft /\ Popped \notin SymbolsLeft'
  BY DEF Moved, SymbolsLeft, OnceInv
<1> QED BY <1>1, <1>2 DEF UsesUp, PropagationUsesUp, Shrinks

\* Any other node that gives no tag makes the list shorter, or comes to a node.
LEMMA ListUsed ==
  ASSUME TypeInv, NEW new, Moved(Popped, new), Popped.kind # "symbol", symbols' = symbols, states' = states,
         worklist # <<>>, new \subseteq Touched => worklist' = Tail(worklist)
  PROVE  UsesUp
<1>1. /\ PairsLeft' = PairsLeft /\ StagesLeft' = StagesLeft /\ TagsLeft' = TagsLeft
      /\ SymbolsLeft' = SymbolsLeft /\ NodesLeft' \subseteq NodesLeft
  BY DEF Moved, PairsLeft, StagesLeft, TagIds, TagsLeft, SymbolsLeft, NodesLeft
<1>2. CASE new \subseteq Touched
  <2>1. Len(worklist) \in Nat /\ Len(worklist) # 0 /\ Len(worklist') = Len(worklist) - 1
    BY <1>2, HeadTailProperties, EmptySeq, LenProperties DEF TypeInv
  <2>2. Shrinks(ListLeft', ListLeft)
    <3>1. PICK m \in Nat : m = Len(worklist) /\ m # 0 /\ Len(worklist') = m - 1
      BY <2>1
    <3>2. 1..(m - 1) \subseteq 1..m /\ m \in 1..m /\ m \notin 1..(m - 1)
      BY <3>1
    <3> QED BY <3>1, <3>2 DEF Shrinks, ListLeft
  <2>3. NodesLeft' = NodesLeft
    BY <1>2 DEF Moved, NodesLeft
  <2> QED BY <1>1, <2>2, <2>3 DEF UsesUp, PropagationUsesUp
<1>3. CASE ~(new \subseteq Touched)
  <2>1. PICK m \in new : m \notin Touched
    BY <1>3
  <2>2. m \in NodesLeft /\ m \notin NodesLeft'
    BY <2>1 DEF Moved, NodesLeft
  <2> QED BY <1>1, <2>2 DEF UsesUp, PropagationUsesUp, Shrinks
<1> QED BY <1>2, <1>3

LEMMA SymbolUses == ASSUME TypeInv, OnceInv, FromSymbol PROVE UsesUp
<1>1. PICK held, using, into \in SUBSET GraphNodes(body) :
        /\ Popped.kind = "symbol"
        /\ states' = states \union Ids(held) /\ symbols' = symbols \union Ids(into)
        /\ Moved(Popped, held \union using \union into)
  BY SymbolStep
<1>2. TypeInv'
  BY TypeKept DEF Next
<1>3. CASE symbols' = symbols /\ states' = states
  BY <1>1, <1>3, SymbolUsed
<1>4. CASE symbols' # symbols \/ states' # states
  BY <1>1, <1>2, <1>4, TagsUsed
<1> QED BY <1>3, <1>4

LEMMA StateUses == ASSUME TypeInv, OnceInv, FromState PROVE UsesUp
<1>1. PICK holders, parts \in SUBSET GraphNodes(body) :
        /\ Popped.kind = "state"
        /\ holders = IF Popped.id \in states
                     THEN Holders(Before(Popped, {"SYMBOL_STATE", "STATE_INCLUSION"})) ELSE {}
        /\ parts = IF Popped.id \in states THEN Untagged(After(Popped, {"STATE_INCLUSION"}), states) ELSE {}
        /\ symbols' = symbols \union {TagId(n) : n \in holders} /\ states' = states \union Ids(parts)
        /\ Moved(Popped, holders \union parts)
  BY StateStep
<1>2. TypeInv'
  BY TypeKept DEF Next
<1>3. CASE symbols' = symbols /\ states' = states
  <2>1. holders = {} /\ parts = {}
    BY <1>1, <1>3 DEF Holders, Untagged, Ids
  <2>2. worklist # <<>> /\ worklist' = Enqueued(Enqueued(Tail(worklist), {}), {})
    BY <1>1, <2>1 DEF FromState
  <2>3. worklist' = Tail(worklist)
    <3>1. PICK rest : rest = Tail(worklist) /\ rest \in Seq(GraphNodes(body))
      BY <2>2, PoppedFacts
    <3>2. Enqueued(rest, {}) = rest
      BY <3>1, EnqueuedNothing
    <3> QED BY <2>2, <3>1, <3>2
  <2>4. Moved(Popped, {})
    BY <1>1, <2>1
  <2> QED BY <1>1, <1>3, <2>2, <2>3, <2>4, ListUsed
<1>4. CASE symbols' # symbols \/ states' # states
  BY <1>1, <1>2, <1>4, TagsUsed
<1> QED BY <1>3, <1>4

\* Without a new tag only nodes that were not come to are added to the list.
LEMMA StmtUses == ASSUME TypeInv, OnceInv, FromStmt PROVE UsesUp
<1>1. PICK more, back \in SUBSET GraphNodes(body) :
        /\ Popped.kind = "stmt"
        /\ more = IF Passing(Popped) THEN Pending(After(Popped, {"SYMBOL_IS_DEFINED"}), processed \union {Popped})
                                     ELSE {}
        /\ back = IF Passing(Popped) THEN Pending(Receivers(Popped.at), processed \union {Popped}) ELSE {}
        /\ symbols' = symbols \union Ids(more \union back) /\ states' = states
        /\ Moved(Popped, more \union back)
  BY StmtStep
<1>2. TypeInv'
  BY TypeKept DEF Next
<1>3. CASE symbols' = symbols
  <2>1. \A n \in more \union back : n.id \in symbols /\ n \notin processed \union {Popped}
    BY <1>1, <1>3 DEF Pending, Ids
  <2>2. worklist # <<>> /\ worklist' = Enqueued(Enqueued(Tail(worklist), more), back)
    BY <1>1 DEF FromStmt, Passing
  <2>3. ASSUME more \union back \subseteq Touched PROVE worklist' = Tail(worklist)
    <3>1. more \subseteq ToSet(Tail(worklist)) /\ back \subseteq ToSet(Tail(worklist))
      BY <2>1, <2>2, <2>3, PoppedFacts DEF Touched
    <3> QED BY <2>2, <3>1, PoppedFacts, EnqueuedNothing
  <2> QED BY <1>1, <1>3, <2>2, <2>3, ListUsed
<1>4. CASE symbols' # symbols
  BY <1>1, <1>2, <1>4, TagsUsed
<1> QED BY <1>3, <1>4

\* Every step uses something up of a finite amount, in a fixed order: nodes that are
\* queued again, in loops of the graph too, cannot keep propagate_taint going for ever
\* (PathFinder.propagate_taint, TaintAnalysis.find_flows).
THEOREM EveryStepUsesUp == Spec => []AllFinite /\ [][UsesUp]_vars
<1>1. TypeInv => AllFinite
  BY LeftIsFinite
<1>2. TypeInv /\ OnceInv /\ [Next]_vars => [UsesUp]_vars
  <2> SUFFICES ASSUME TypeInv, OnceInv, Next PROVE UsesUp
    OBVIOUS
  <2>1. CASE Begin
    BY <2>1 DEF Begin, UsesUp, PairsLeft, StagesLeft, Shrinks
  <2>2. CASE Check
    <3>1. Len(pairs) \in Nat /\ Len(pairs) # 0 /\ Len(pairs') = Len(pairs) - 1
      BY <2>2, HeadTailProperties, EmptySeq, LenProperties DEF Check, TypeInv
    <3>2. PICK m \in Nat : m = Len(pairs) /\ m # 0 /\ Len(pairs') = m - 1
      BY <3>1
    <3>3. 1..(m - 1) \subseteq 1..m /\ m \in 1..m /\ m \notin 1..(m - 1)
      BY <3>2
    <3> QED BY <3>2, <3>3 DEF UsesUp, Shrinks, PairsLeft
  <2> QED BY <2>1, <2>2, SymbolUses, StateUses, StmtUses DEF Next
<1>3. TypeInv /\ [Next]_vars => TypeInv'
  BY TypeKept
<1>4. TypeInv /\ OnceInv /\ [Next]_vars => OnceInv'
  BY OnceKept
<1> QED BY <1>1, <1>2, <1>3, <1>4, TypeAtStart, OnceAtStart, PTL DEF Spec
=============================================================================
