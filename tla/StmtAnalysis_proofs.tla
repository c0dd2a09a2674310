------------------------ MODULE StmtAnalysis_proofs ------------------------
(***************************************************************************)
(* Proofs about StmtAnalysis: what heapq.heappush and SimpleWorkList.add    *)
(* leave of a list that pop() has not repaired, and from it that the loop  *)
(* of analyze_stmts leaves nothing out.                                    *)
(***************************************************************************)
EXTENDS StmtAnalysis, SequenceLemmas

-----------------------------------------------------------------------------
\* The way from a leaf of the heap up to the root.

Halvings(n) == CHOOSE f : f = [k \in 0..n |-> IF k = 0 THEN n ELSE f[k - 1] \div 2]

LEMMA HalvingsAre ==
  ASSUME NEW n \in Nat
  PROVE  /\ Halvings(n) \in [0..n -> Nat]
         /\ Halvings(n)[0] = n
         /\ \A k \in 1..n : Halvings(n)[k] = Halvings(n)[k - 1] \div 2
<1> DEFINE step == [v \in (1..n) \X Nat |-> v[2] \div 2]
<1>1. PICK f : Iterates(f, n, Nat, n, step)
  <2>1. step \in Steps(n, Nat)
    BY DEF Steps
  <2> HIDE DEF step
  <2> QED BY <2>1, Recursion
<1>2. /\ f \in [0..n -> Nat] /\ f[0] = n
      /\ \A k \in 1..n : f[k] = step[<<k, f[k - 1]>>]
  BY <1>1 DEF Iterates
<1>3. \A k \in 1..n : f[k] = f[k - 1] \div 2
  <2> TAKE k \in 1..n
  <2>1. k - 1 \in 0..n
    OBVIOUS
  <2>2. <<k, f[k - 1]>> \in (1..n) \X Nat
    BY <1>2, <2>1
  <2> QED BY <1>2, <2>2
<1>4. f = [k \in 0..n |-> IF k = 0 THEN n ELSE f[k - 1] \div 2]
  <2>1. \A k \in 0..n : f[k] = IF k = 0 THEN n ELSE f[k - 1] \div 2
    BY <1>2, <1>3
  <2> QED BY <1>2, <2>1
<1>5. Halvings(n) = [k \in 0..n |-> IF k = 0 THEN n ELSE Halvings(n)[k - 1] \div 2]
  BY <1>4 DEF Halvings
<1> HIDE DEF step
<1>6. /\ Halvings(n)[0] = n
      /\ \A k \in 1..n : Halvings(n)[k] = Halvings(n)[k - 1] \div 2
  BY <1>5
<1>7. \A k \in 0..n : k \in {j \in 0..n : Halvings(n)[j] \in Nat}
  <2> DEFINE T == {j \in 0..n : Halvings(n)[j] \in Nat}
  <2>1. 0 \in T
    BY <1>6
  <2>2. ASSUME NEW k \in 0..n, k # n, k \in T PROVE k + 1 \in T
    <3>1. k + 1 \in 1..n /\ k + 1 - 1 = k
      BY <2>2
    <3>2. Halvings(n)[k + 1] = Halvings(n)[k] \div 2
      BY <1>6, <3>1
    <3> QED BY <2>2, <3>1, <3>2
  <2> HIDE DEF T
  <2>3. \A k \in 0..n : k \in T
    BY <2>1, <2>2, UpTo
  <2> QED BY <2>3 DEF T
<1> QED BY <1>5, <1>6, <1>7

LEMMA PathIs == ASSUME NEW n \in Nat
                PROVE PathToRoot(n) = {Halvings(n)[k] : k \in 0..n} \ {0}
BY DEF PathToRoot, Halvings


\* The way goes from n to the root, from each position to its parent.
LEMMA PathFacts ==
  ASSUME NEW n \in Nat, n # 0, NEW path, path = PathToRoot(n)
  PROVE  /\ path \subseteq 1..n /\ n \in path
         /\ \A i \in path : i # 1 => i \div 2 \in path
         /\ \A i, p \in path : i < p => i <= p \div 2
         /\ \A i \in path : i # n => \E p \in path : i < p /\ p \div 2 = i
<1>1. PICK up : up = Halvings(n)
  OBVIOUS
<1>2. /\ up \in [0..n -> Nat] /\ up[0] = n
      /\ \A k \in 1..n : up[k] = up[k - 1] \div 2
  BY <1>1, HalvingsAre
<1>3. path = {up[k] : k \in 0..n} \ {0}
  BY <1>1, PathIs
<1>4. \A k \in 0..n : up[k] = 0 \/ up[k] + k <= n
  <2> DEFINE T == {k \in 0..n : up[k] = 0 \/ up[k] + k <= n}
  <2>1. 0 \in T
    BY <1>2
  <2>2. ASSUME NEW k \in 0..n, k # n, k \in T PROVE k + 1 \in T
    <3>1. k + 1 \in 1..n /\ k + 1 - 1 = k /\ up[k] \in Nat
      BY <1>2, <2>2
    <3>2. up[k + 1] = up[k] \div 2
      BY <1>2, <3>1
    <3> QED BY <2>2, <3>1, <3>2
  <2> HIDE DEF T
  <2>3. \A k \in 0..n : k \in T
    BY <2>1, <2>2, UpTo
  <2> QED BY <2>3 DEF T
<1>5. \A k \in 0..n : \A j \in 0..k : up[k] <= up[j] /\ (j # k => up[k] <= up[j] \div 2)
  <2> DEFINE T == {k \in 0..n : \A j \in 0..k : up[k] <= up[j] /\ (j # k => up[k] <= up[j] \div 2)}
  <2>1. 0 \in T
    BY <1>2
  <2>2. ASSUME NEW k \in 0..n, k # n, k \in T PROVE k + 1 \in T
    <3>1. k + 1 \in 1..n /\ k + 1 - 1 = k /\ up[k] \in Nat /\ k \in 0..k
      BY <1>2, <2>2
    <3>2. up[k + 1] = up[k] \div 2
      BY <1>2, <3>1
    <3>3. ASSUME NEW j \in 0..(k + 1)
          PROVE  up[k + 1] <= up[j] /\ (j # k + 1 => up[k + 1] <= up[j] \div 2)
      <4>1. CASE j = k + 1
        BY <1>2, <3>1, <4>1
      <4>2. CASE j # k + 1
        <5>1. j \in 0..k /\ up[j] \in Nat
          BY <1>2, <3>1, <4>2
        <5>2. up[k] <= up[j]
          BY <2>2, <5>1
        <5> QED BY <3>1, <3>2, <5>1, <5>2
      <4> QED BY <4>1, <4>2
    <3> QED BY <3>1, <3>3
  <2> HIDE DEF T
  <2>3. \A k \in 0..n : k \in T
    BY <2>1, <2>2, UpTo
  <2> QED BY <2>3 DEF T
<1>6. path \subseteq 1..n
  BY <1>2, <1>3, <1>4
<1>7. n \in path
  BY <1>2, <1>3
<1>8. ASSUME NEW i \in path, i # 1 PROVE i \div 2 \in path
  <2>1. PICK k \in 0..n : i = up[k]
    BY <1>3
  <2>2. i \in 1..n
    BY <1>6
  <2>3. k + 1 \in 1..n /\ k + 1 - 1 = k
    BY <1>4, <1>8, <2>1, <2>2
  <2>4. up[k + 1] = i \div 2
    <3>1. up[k + 1] = up[k + 1 - 1] \div 2
      BY <1>2, <2>3
    <3> QED BY <2>1, <2>3, <3>1
  <2>5. i \div 2 # 0
    BY <1>8, <2>2
  <2> QED BY <1>3, <2>3, <2>4, <2>5
<1>9. ASSUME NEW i \in path, NEW p \in path, i < p PROVE i <= p \div 2
  <2>1. PICK k \in 0..n : i = up[k]
    BY <1>3
  <2>2. PICK l \in 0..n : p = up[l]
    BY <1>3
  <2>3. i \in Nat /\ p \in Nat
    BY <1>6
  <2>4. ~(k <= l)
    BY <1>5, <1>9, <2>1, <2>2, <2>3
  <2>5. l \in 0..k /\ l # k
    BY <2>4
  <2> QED BY <1>5, <2>1, <2>2, <2>5
<1>10. ASSUME NEW i \in path, i # n PROVE \E p \in path : i < p /\ p \div 2 = i
  <2>1. PICK k \in 0..n : i = up[k]
    BY <1>3
  <2>2. i \in 1..n
    BY <1>6
  <2>3. k \in 1..n /\ k - 1 \in 0..n
    BY <1>2, <1>10, <2>1
  <2>4. up[k] = up[k - 1] \div 2 /\ up[k - 1] \in Nat
    BY <1>2, <2>3
  <2>5. up[k - 1] # 0 /\ i < up[k - 1]
    BY <2>1, <2>2, <2>4
  <2> QED BY <1>3, <2>1, <2>3, <2>4, <2>5
<1> QED BY <1>6, <1>7, <1>8, <1>9, <1>10

-----------------------------------------------------------------------------
\* What heappush leaves.

Entries == Int \X Int

\* a and b have the same n elements in some order.
Rearranged(n, a, b) ==
  /\ Len(a) = n /\ Len(b) = n
  /\ \E from \in [1..n -> 1..n] :
       /\ \A i, j \in 1..n : from[i] = from[j] => i = j
       /\ \A j \in 1..n : \E i \in 1..n : from[i] = j
       /\ \A i \in 1..n : b[i] = a[from[i]]

\* The place where the new element comes to rest.
StopsAt(heap, x, path, stop) ==
  /\ stop = 1 \/ ~Before(x, heap[stop \div 2])
  /\ \A i \in path : i > stop => Before(x, heap[i \div 2])

LEMMA StopExists ==
  ASSUME NEW n \in Nat, n # 0, NEW heap, NEW x, NEW path, path = PathToRoot(n)
  PROVE  \E stop \in path : StopsAt(heap, x, path, stop)
<1>1. /\ path \subseteq 1..n /\ n \in path
      /\ \A i \in path : i # 1 => i \div 2 \in path
      /\ \A i, p \in path : i < p => i <= p \div 2
  BY PathFacts
<1> DEFINE passes(i) == Before(x, heap[i \div 2])
           T == {p \in path : \A i \in path : i > p => passes(i)}
<1> HIDE DEF passes
<1>2. n \in T
  BY <1>1
<1>3. PICK p \in T : \A q \in T : p <= q
  <2>1. T \in SUBSET Nat
    BY <1>1
  <2> HIDE DEF T
  <2> QED BY <1>2, <2>1, LeastElement
<1>4. ASSUME p # 1, passes(p) PROVE FALSE
  <2>1. p \div 2 \in path /\ p \in 1..n /\ p \div 2 < p
    BY <1>1, <1>4
  <2>2. ASSUME NEW i \in path, i > p \div 2 PROVE passes(i)
    <3>1. ~(i < p)
      BY <1>1, <2>1, <2>2
    <3>2. i = p \/ i > p
      BY <1>1, <2>1, <3>1
    <3> QED BY <1>3, <1>4, <3>2
  <2>3. p \div 2 \in T
    BY <2>1, <2>2
  <2> QED BY <1>3, <2>1, <2>3
<1>5. StopsAt(heap, x, path, p)
  BY <1>3, <1>4 DEF StopsAt, passes
<1> QED BY <1>3, <1>5

\* heappush rearranges, and the new element comes to the head only if it is less
\* than what was there.
LEMMA HeapPushFacts ==
  ASSUME NEW heap \in Seq(Entries), NEW x \in Entries
  PROVE  /\ HeapPush(heap, x) \in Seq(Entries)
         /\ Rearranged(Len(heap) + 1, Append(heap, x), HeapPush(heap, x))
         /\ \/ heap = <<>>
            \/ HeapPush(heap, x)[1] = heap[1]
            \/ HeapPush(heap, x)[1] = x /\ Before(x, heap[1])
<1>1. PICK n \in Nat : n = Len(heap) + 1 /\ n # 0
  <2>1. Len(heap) \in Nat
    BY LenProperties
  <2> QED BY <2>1
<1>2. PICK path : path = PathToRoot(n)
  OBVIOUS
<1>3. /\ path \subseteq 1..n /\ n \in path
      /\ \A i \in path : i # 1 => i \div 2 \in path
      /\ \A i, p \in path : i < p => i <= p \div 2
      /\ \A i \in path : i # n => \E p \in path : i < p /\ p \div 2 = i
  BY <1>1, <1>2, PathFacts
<1>4. PICK stop : stop = CHOOSE p \in path : StopsAt(heap, x, path, p)
  OBVIOUS
<1>5. stop \in path /\ StopsAt(heap, x, path, stop)
  <2>1. \E p \in path : StopsAt(heap, x, path, p)
    BY <1>1, <1>2, StopExists
  <2> QED BY <1>4, <2>1, Zenon
<1>6. PICK h : h = HeapPush(heap, x)
  OBVIOUS
<1>7. h = [i \in 1..n |-> IF i = stop THEN x
                          ELSE IF i \in path /\ i > stop THEN heap[i \div 2]
                          ELSE heap[i]]
  BY <1>1, <1>2, <1>4, <1>6 DEF HeapPush, StopsAt
<1> DEFINE a == Append(heap, x)
           from == [i \in 1..n |-> IF i = stop THEN n
                                   ELSE IF i \in path /\ i > stop THEN i \div 2
                                   ELSE i]
<1>8. /\ a \in Seq(Entries) /\ Len(a) = n /\ a[n] = x
      /\ \A i \in 1..n : i # n => a[i] = heap[i]
  BY <1>1
<1> HIDE DEF a
<1>9. stop \in 1..n
  BY <1>3, <1>5
<1>10. ASSUME NEW i \in path, i > stop
       PROVE  i \div 2 \in 1..n /\ i \div 2 # n /\ stop <= i \div 2 /\ i \div 2 < i /\ i \div 2 \in path
  BY <1>3, <1>5, <1>9, <1>10
<1>11. ASSUME NEW i \in 1..n, i # stop, ~(i \in path /\ i > stop)
       PROVE  i # n /\ (i \in path => i < stop)
  BY <1>3, <1>9, <1>11
<1>12. from \in [1..n -> 1..n]
  BY <1>1, <1>9, <1>10
<1>13. ASSUME NEW i \in 1..n, NEW j \in 1..n, from[i] = from[j], i < j PROVE FALSE
  <2>1. CASE i = stop
    BY <1>10, <1>11, <1>13, <2>1
  <2>2. CASE i # stop /\ ~(i \in path /\ i > stop)
    <3>1. from[i] = i /\ i # n /\ (i \in path => i < stop)
      BY <1>11, <2>2
    <3>2. CASE j = stop
      BY <1>13, <3>1, <3>2
    <3>3. CASE j # stop /\ j \in path /\ j > stop
      <4>1. from[j] = j \div 2
        BY <3>3
      <4> QED BY <1>9, <1>10, <1>13, <3>1, <3>3, <4>1
    <3>4. CASE j # stop /\ ~(j \in path /\ j > stop)
      <4>1. from[j] = j
        BY <3>4
      <4> QED BY <1>13, <3>1, <4>1
    <3> QED BY <3>2, <3>3, <3>4
  <2>3. CASE i \in path /\ i > stop
    <3>1. j # stop
      BY <1>9, <1>13, <2>3
    <3>2. CASE j \in path /\ j > stop
      <4>1. i <= j \div 2 /\ i \div 2 < i /\ i \div 2 \in 1..n /\ j \div 2 \in 1..n
        BY <1>3, <1>10, <1>13, <2>3, <3>2
      <4>2. from[i] = i \div 2 /\ from[j] = j \div 2
        BY <1>9, <2>3, <3>1, <3>2
      <4> QED BY <1>13, <4>1, <4>2
    <3>3. CASE ~(j \in path /\ j > stop)
      <4>1. from[i] = i \div 2 /\ from[j] = j
        BY <1>9, <2>3, <3>1, <3>3
      <4> QED BY <1>10, <1>13, <2>3, <4>1
    <3> QED BY <3>2, <3>3
  <2> QED BY <2>1, <2>2, <2>3
<1>14. \A i, j \in 1..n : from[i] = from[j] => i = j
  <2> HIDE DEF from
  <2> QED BY <1>13
<1>15. ASSUME NEW j \in 1..n PROVE \E i \in 1..n : from[i] = j
  <2>1. CASE j = n
    BY <1>9, <2>1
  <2>2. CASE j # n /\ j \in path /\ j >= stop
    <3>1. PICK p \in path : j < p /\ p \div 2 = j
      BY <1>3, <2>2
    <3>2. p \in 1..n /\ p > stop /\ p # stop
      BY <1>3, <1>9, <2>2, <3>1
    <3>3. from[p] = j
      BY <3>1, <3>2
    <3> QED BY <3>2, <3>3
  <2>3. CASE j # n /\ ~(j \in path /\ j >= stop)
    <3>1. j # stop /\ from[j] = j
      BY <1>5, <1>9, <2>3
    <3> QED BY <3>1
  <2> QED BY <2>1, <2>2, <2>3
<1>16. \A i \in 1..n : h[i] = a[from[i]]
  BY <1>7, <1>8, <1>10, <1>11
<1>17. Len(h) = n /\ h \in Seq(Entries)
  <2>1. \A i \in 1..n : a[i] \in Entries
    BY <1>8
  <2>2. \A i \in 1..n : h[i] \in Entries
    <3> HIDE DEF from
    <3> QED BY <1>12, <1>16, <2>1
  <2> QED BY <1>7, <2>2
<1>18. Rearranged(n, a, h)
  <2> HIDE DEF from
  <2>1. \E p \in [1..n -> 1..n] :
          /\ \A i, j \in 1..n : p[i] = p[j] => i = j
          /\ \A j \in 1..n : \E i \in 1..n : p[i] = j
          /\ \A i \in 1..n : h[i] = a[p[i]]
    BY <1>12, <1>14, <1>15, <1>16, Zenon
  <2> QED BY <1>8, <1>17, <2>1, Zenon DEF Rearranged
<1>19. \/ heap = <<>>
       \/ h[1] = heap[1]
       \/ h[1] = x /\ Before(x, heap[1])
  <2>1. CASE n = 1
    BY <1>1, <2>1, EmptySeq
  <2>2. CASE n # 1 /\ stop # 1
    <3>1. 1 \in 1..n /\ ~(1 > stop)
      BY <1>9, <2>2
    <3> QED BY <1>7, <2>2, <3>1
  <2>3. CASE n # 1 /\ stop = 1
    <3>1. PICK p \in path : 1 < p /\ p \div 2 = 1
      BY <1>3, <1>5, <2>3
    <3>2. Before(x, heap[1])
      BY <1>5, <2>3, <3>1 DEF StopsAt
    <3>3. h[1] = x
      BY <1>7, <1>9, <2>3
    <3> QED BY <3>2, <3>3
  <2> QED BY <2>1, <2>2, <2>3
<1> QED BY <1>1, <1>6, <1>17, <1>18, <1>19 DEF a

-----------------------------------------------------------------------------
\* What add and pop leave.

Lists == [work_list : Seq(Entries), all_data : SUBSET Int]

Numbering(prio) == \A item \in DOMAIN prio : prio[item] \in Nat

\* The set data has what the first n of the heap are, and each is there once.
OnceEach(n, heap, data, prio) ==
  /\ data = {heap[i][2] : i \in 1..n}
  /\ \A i, j \in 1..n : heap[i][2] = heap[j][2] => i = j
  /\ \A i \in 1..n : heap[i] = Entry(prio, heap[i][2])

\* The set beside the list has what the list has.
WellFormed(list, prio) ==
  list \in Lists /\ OnceEach(Len(list.work_list), list.work_list, list.all_data, prio)

LEMMA EntryFacts ==
  ASSUME NEW prio, Numbering(prio), NEW item \in Int
  PROVE  Entry(prio, item) \in Entries /\ Entry(prio, item)[2] = item
BY DEF Entry, Entries, Numbering

\* heappush, or append to a list without a numbering.
Pushed(heap, x, prio) == IF prio = <<>> THEN Append(heap, x) ELSE HeapPush(heap, x)

LEMMA PushedFacts ==
  ASSUME NEW heap \in Seq(Entries), NEW x \in Entries, NEW prio
  PROVE  /\ Pushed(heap, x, prio) \in Seq(Entries)
         /\ Rearranged(Len(heap) + 1, Append(heap, x), Pushed(heap, x, prio))
         /\ \/ heap = <<>>
            \/ Pushed(heap, x, prio)[1] = heap[1]
            \/ Pushed(heap, x, prio)[1] = x /\ Before(x, heap[1])
<1>1. CASE prio # <<>>
  BY <1>1, HeapPushFacts DEF Pushed
<1>2. CASE prio = <<>>
  <2>1. PICK n \in Nat : n = Len(heap) + 1
    BY LenProperties
  <2>2. PICK a : a = Append(heap, x)
    OBVIOUS
  <2>3. a \in Seq(Entries) /\ Len(a) = n /\ \A i \in 1..Len(heap) : a[i] = heap[i]
    BY <2>1, <2>2, AppendProperties
  <2>4. \E from \in [1..n -> 1..n] :
          /\ \A i, j \in 1..n : from[i] = from[j] => i = j
          /\ \A j \in 1..n : \E i \in 1..n : from[i] = j
          /\ \A i \in 1..n : a[i] = a[from[i]]
    <3>1. [i \in 1..n |-> i] \in [1..n -> 1..n]
      OBVIOUS
    <3> QED BY <3>1
  <2>5. Rearranged(n, a, a)
    BY <2>3, <2>4 DEF Rearranged
  <2>6. heap = <<>> \/ a[1] = heap[1]
    <3>1. Len(heap) \in Nat /\ (heap # <<>> => Len(heap) # 0)
      BY LenProperties, EmptySeq
    <3> QED BY <2>3, <3>1
  <2> QED BY <1>2, <2>1, <2>2, <2>3, <2>5, <2>6 DEF Pushed
<1> QED BY <1>1, <1>2

LEMMA AddOneIs ==
  ASSUME NEW list, NEW item, NEW prio
  PROVE  AddOne(list, item, prio) =
           IF item \in list.all_data THEN list
           ELSE [work_list |-> Pushed(list.work_list, Entry(prio, item), prio),
                 all_data  |-> list.all_data \union {item}]
BY DEF AddOne, Pushed

LEMMA AddOneInLists ==
  ASSUME NEW prio, Numbering(prio), NEW list \in Lists, NEW item \in Int
  PROVE  AddOne(list, item, prio) \in Lists
<1>1. Pushed(list.work_list, Entry(prio, item), prio) \in Seq(Entries)
  BY EntryFacts, PushedFacts DEF Lists
<1> QED BY <1>1, AddOneIs DEF Lists

\* One statement is added: the list has it, and it is at the head only if it comes
\* before what was there.
HasGot(added, item, list, prio) ==
  /\ WellFormed(added, prio)
  /\ added.all_data = list.all_data \union {item}
  /\ IsAvailable(list) =>
       /\ IsAvailable(added)
       /\ \/ Peek(added) = Peek(list)
          \/ /\ Peek(added) = item /\ item \notin list.all_data
             /\ Before(Entry(prio, item), Entry(prio, Peek(list)))

LEMMA AddOneFacts ==
  ASSUME NEW prio, Numbering(prio), NEW list, WellFormed(list, prio), NEW item \in Int,
         NEW added, added = AddOne(list, item, prio)
  PROVE  HasGot(added, item, list, prio)
<1>1. CASE item \in list.all_data
  BY <1>1, AddOneIs DEF HasGot
<1>2. CASE item \notin list.all_data
  <2>a. PICK heap \in Seq(Entries) : heap = list.work_list
    BY DEF WellFormed, Lists
  <2>b. PICK x \in Entries : x = Entry(prio, item)
    BY EntryFacts
  <2>c. PICK h : h = Pushed(heap, x, prio)
    OBVIOUS
  <2>1. heap = list.work_list /\ x = Entry(prio, item) /\ h = Pushed(heap, x, prio)
    BY <2>a, <2>b, <2>c
  <2>2. added = [work_list |-> h, all_data |-> list.all_data \union {item}]
    BY <1>2, <2>1, AddOneIs
  <2>3. added.work_list = h /\ added.all_data = list.all_data \union {item}
    BY <2>2
  <2>4. PICK n \in Nat : n = Len(heap) + 1 /\ n # 0
    BY LenProperties
  <2>5. PICK a : a = Append(heap, x)
    OBVIOUS
  <2>6. /\ a \in Seq(Entries) /\ Len(a) = n /\ a[n] = x
        /\ \A i \in 1..n : i # n => a[i] = heap[i] /\ i \in 1..Len(heap)
    BY <2>4, <2>5
  <2>7. /\ h \in Seq(Entries) /\ Rearranged(n, a, h)
        /\ \/ heap = <<>>
           \/ h[1] = heap[1]
           \/ h[1] = x /\ Before(x, heap[1])
    BY <2>1, <2>4, <2>5, PushedFacts
  <2>8. /\ list.all_data = {heap[i][2] : i \in 1..Len(heap)}
        /\ \A i, j \in 1..Len(heap) : heap[i][2] = heap[j][2] => i = j
        /\ \A i \in 1..Len(heap) : heap[i] = Entry(prio, heap[i][2])
        /\ list.all_data \in SUBSET Int
    BY <2>1 DEF WellFormed, OnceEach, Lists
  <2>9. x[2] = item
    BY <2>1, EntryFacts
  <2>10. \A i \in 1..Len(heap) : i \in 1..n /\ i # n
    BY <2>4
  <2>11. /\ list.all_data \union {item} = {a[i][2] : i \in 1..n}
         /\ \A i, j \in 1..n : a[i][2] = a[j][2] => i = j
         /\ \A i \in 1..n : a[i] = Entry(prio, a[i][2])
    <3>1. \A i \in 1..n : i # n => a[i][2] \in list.all_data /\ a[i] = Entry(prio, a[i][2])
      BY <2>6, <2>8
    <3>2. n \in 1..n /\ a[n][2] = item /\ a[n] = Entry(prio, a[n][2])
      BY <2>1, <2>4, <2>6, <2>9
    <3>3. \A d \in list.all_data : \E i \in 1..n : d = a[i][2]
      BY <2>6, <2>8, <2>10
    <3>4. \A i, j \in 1..n : a[i][2] = a[j][2] => i = j
      <4> TAKE i, j \in 1..n
      <4> HAVE a[i][2] = a[j][2]
      <4>1. CASE i # n /\ j # n
        BY <2>6, <2>8, <4>1
      <4>2. CASE i = n /\ j # n
        BY <1>2, <3>1, <3>2, <4>2
      <4>3. CASE i # n /\ j = n
        BY <1>2, <3>1, <3>2, <4>3
      <4> QED BY <4>1, <4>2, <4>3
    <3> QED BY <3>1, <3>2, <3>3, <3>4
  <2>12. PICK from \in [1..n -> 1..n] :
           /\ \A i, j \in 1..n : from[i] = from[j] => i = j
           /\ \A j \in 1..n : \E i \in 1..n : from[i] = j
           /\ \A i \in 1..n : h[i] = a[from[i]]
    BY <2>7 DEF Rearranged
  <2>13. Len(h) = n
    BY <2>7 DEF Rearranged
  <2>14. /\ list.all_data \union {item} = {h[i][2] : i \in 1..n}
         /\ \A i, j \in 1..n : h[i][2] = h[j][2] => i = j
         /\ \A i \in 1..n : h[i] = Entry(prio, h[i][2])
    <3>1. \A i \in 1..n : from[i] \in 1..n
      BY <2>12
    <3>2. \A d \in list.all_data \union {item} : \E i \in 1..n : d = h[i][2]
      <4> TAKE d \in list.all_data \union {item}
      <4>1. PICK j \in 1..n : d = a[j][2]
        BY <2>11
      <4>2. PICK i \in 1..n : from[i] = j
        BY <2>12
      <4> QED BY <2>12, <4>1, <4>2
    <3>3. \A i \in 1..n : h[i][2] \in list.all_data \union {item} /\ h[i] = Entry(prio, h[i][2])
      <4> TAKE i \in 1..n
      <4>1. PICK k \in 1..n : k = from[i] /\ h[i] = a[k]
        BY <2>12, <3>1
      <4> QED BY <2>11, <4>1
    <3>4. \A i, j \in 1..n : h[i][2] = h[j][2] => i = j
      <4> TAKE i, j \in 1..n
      <4>1. PICK k \in 1..n : k = from[i] /\ h[i] = a[k]
        BY <2>12, <3>1
      <4>2. PICK l \in 1..n : l = from[j] /\ h[j] = a[l]
        BY <2>12, <3>1
      <4> QED BY <2>11, <2>12, <4>1, <4>2
    <3> QED BY <3>2, <3>3, <3>4
  <2>15. WellFormed(added, prio)
    <3>1. added \in Lists
      BY <2>2, <2>7, <2>8 DEF Lists
    <3>2. OnceEach(n, h, list.all_data \union {item}, prio)
      BY <2>14 DEF OnceEach
    <3> QED BY <2>3, <2>13, <3>1, <3>2 DEF WellFormed
  <2>16. h # <<>>
    BY <2>4, <2>7, <2>13, EmptySeq
  <2>17. ASSUME heap # <<>>
         PROVE  \/ Peek(added) = Peek(list)
                \/ /\ Peek(added) = item
                   /\ Before(Entry(prio, item), Entry(prio, Peek(list)))
    <3>1. heap[1] = Entry(prio, heap[1][2])
      <4>1. 1 \in 1..Len(heap)
        BY <2>17, LenProperties, EmptySeq
      <4> QED BY <2>8, <4>1
    <3>2. Peek(added) = h[1][2] /\ Peek(list) = heap[1][2]
      BY <2>1, <2>3 DEF Peek
    <3> QED BY <2>1, <2>7, <2>9, <2>17, <3>1, <3>2
  <2> QED BY <1>2, <2>1, <2>3, <2>15, <2>16, <2>17 DEF IsAvailable, HasGot
<1> QED BY <1>1, <1>2

\* What is at the head is in the list.
LEMMA PeekInList ==
  ASSUME NEW prio, NEW list, WellFormed(list, prio), IsAvailable(list)
  PROVE  Peek(list) \in list.all_data /\ Peek(list) \in Int
<1>1. 1 \in 1..Len(list.work_list) /\ list.all_data \in SUBSET Int
  BY LenProperties, EmptySeq DEF WellFormed, Lists, IsAvailable
<1> QED BY <1>1 DEF WellFormed, OnceEach, Peek

\* pop takes the head out of the list and of the set.
LEMMA PopFacts ==
  ASSUME NEW prio, NEW list, WellFormed(list, prio), IsAvailable(list)
  PROVE  WellFormed(Pop(list), prio) /\ Pop(list).all_data = list.all_data \ {Peek(list)}
<1>1. PICK heap \in Seq(Entries), data \in SUBSET Int :
        list.work_list = heap /\ list.all_data = data
  BY DEF WellFormed, Lists
<1>2. PICK n \in Nat : n + 1 = Len(heap)
  <2>1. Len(heap) \in Nat /\ Len(heap) # 0
    BY <1>1, LenProperties, EmptySeq DEF IsAvailable
  <2>2. Len(heap) - 1 \in Nat
    BY <2>1
  <2> QED BY <2>1, <2>2
<1>3. OnceEach(n + 1, heap, data, prio)
  BY <1>1, <1>2 DEF WellFormed
<1>4. PICK t : t = Tail(heap)
  OBVIOUS
<1>5. /\ t \in Seq(Entries) /\ Len(t) = n
      /\ \A i \in 1..n : t[i] = heap[i + 1] /\ i + 1 \in 1..(n + 1) /\ i + 1 # 1
  <2>1. heap # <<>>
    BY <1>1 DEF IsAvailable
  <2> QED BY <1>2, <1>4, <2>1, HeadTailProperties
<1>6. OnceEach(n, t, data \ {heap[1][2]}, prio)
  <2>1. 1 \in 1..(n + 1) /\ \A i \in 1..(n + 1) : i # 1 => i - 1 \in 1..n /\ i - 1 + 1 = i
    OBVIOUS
  <2>2. \A i, j \in 1..n : t[i][2] = t[j][2] => i = j
    <3> TAKE i, j \in 1..n
    <3>1. t[i] = heap[i + 1] /\ i + 1 \in 1..(n + 1) /\ t[j] = heap[j + 1] /\ j + 1 \in 1..(n + 1)
      BY <1>5
    <3> QED BY <1>3, <3>1 DEF OnceEach
  <2>3. \A i \in 1..n : t[i] = Entry(prio, t[i][2]) /\ t[i][2] \in data \ {heap[1][2]}
    <3> TAKE i \in 1..n
    <3>1. t[i] = heap[i + 1] /\ i + 1 \in 1..(n + 1) /\ i + 1 # 1
      BY <1>5
    <3> QED BY <1>3, <2>1, <3>1 DEF OnceEach
  <2>4. \A d \in data \ {heap[1][2]} : \E i \in 1..n : d = t[i][2]
    <3> TAKE d \in data \ {heap[1][2]}
    <3>1. PICK k \in 1..(n + 1) : d = heap[k][2]
      BY <1>3 DEF OnceEach
    <3>2. k - 1 \in 1..n /\ t[k - 1] = heap[k]
      BY <1>5, <2>1, <3>1
    <3> QED BY <3>1, <3>2
  <2>5. PICK rest : rest = data \ {heap[1][2]}
    OBVIOUS
  <2>6. rest = {t[i][2] : i \in 1..n}
    <3>1. \A i \in 1..n : t[i][2] \in rest
      BY <2>3, <2>5
    <3>2. \A d \in rest : \E i \in 1..n : d = t[i][2]
      BY <2>4, <2>5
    <3> QED BY <3>1, <3>2
  <2>7. \A i \in 1..n : t[i] = Entry(prio, t[i][2])
    BY <2>3
  <2>8. OnceEach(n, t, rest, prio)
    BY <2>2, <2>6, <2>7 DEF OnceEach
  <2> QED BY <2>5, <2>8
<1>7. Pop(list) = [work_list |-> t, all_data |-> data \ {heap[1][2]}] /\ Peek(list) = heap[1][2]
  BY <1>1, <1>4 DEF Pop, Peek
<1> QED BY <1>1, <1>5, <1>6, <1>7 DEF WellFormed, Lists

Additions(list, items, prio) ==
  CHOOSE f : f = [n \in 0..Len(items) |->
                    IF n = 0 THEN list ELSE AddOne(f[n - 1], items[n], prio)]

LEMMA AddIs == ASSUME NEW list, NEW items, NEW prio
               PROVE Add(list, items, prio) = Additions(list, items, prio)[Len(items)]
BY DEF Add, Additions

LEMMA AdditionsAre ==
  ASSUME NEW prio, Numbering(prio), NEW list \in Lists, NEW items \in Seq(Int)
  PROVE  /\ Additions(list, items, prio)[0] = list
         /\ \A n \in 1..Len(items) :
              Additions(list, items, prio)[n]
                = AddOne(Additions(list, items, prio)[n - 1], items[n], prio)
<1>1. PICK N \in Nat : N = Len(items)
  BY LenProperties
<1>2. \A n \in 1..N : items[n] \in Int
  BY <1>1, ElementOfSeq
<1> DEFINE step == [v \in (1..N) \X Lists |-> AddOne(v[2], items[v[1]], prio)]
<1>3. PICK f : Iterates(f, N, Lists, list, step)
  <2>1. \A v \in (1..N) \X Lists : AddOne(v[2], items[v[1]], prio) \in Lists
    <3> TAKE v \in (1..N) \X Lists
    <3>1. v[2] \in Lists /\ items[v[1]] \in Int
      BY <1>2
    <3> QED BY <3>1, AddOneInLists
  <2>2. step \in Steps(N, Lists)
    BY <2>1 DEF Steps
  <2> HIDE DEF step
  <2> QED BY <2>2, Recursion
<1>4. /\ f \in [0..N -> Lists] /\ f[0] = list
      /\ \A n \in 1..N : f[n] = step[<<n, f[n - 1]>>]
  BY <1>3 DEF Iterates
<1>5. \A n \in 1..N : f[n] = AddOne(f[n - 1], items[n], prio)
  <2> TAKE n \in 1..N
  <2>1. n - 1 \in 0..N
    OBVIOUS
  <2>2. <<n, f[n - 1]>> \in (1..N) \X Lists
    BY <1>4, <2>1
  <2>3. step[<<n, f[n - 1]>>] = AddOne(f[n - 1], items[n], prio)
    BY <2>2
  <2> HIDE DEF step
  <2> QED BY <1>4, <2>3
<1>6. f = [n \in 0..N |-> IF n = 0 THEN list ELSE AddOne(f[n - 1], items[n], prio)]
  <2>1. \A n \in 0..N : f[n] = IF n = 0 THEN list ELSE AddOne(f[n - 1], items[n], prio)
    BY <1>4, <1>5
  <2> QED BY <1>4, <2>1
<1>7. PICK g : g = Additions(list, items, prio)
  OBVIOUS
<1>8. g = [n \in 0..N |-> IF n = 0 THEN list ELSE AddOne(g[n - 1], items[n], prio)]
  BY <1>1, <1>6, <1>7 DEF Additions
<1>9. g[0] = list /\ \A n \in 1..N : g[n] = AddOne(g[n - 1], items[n], prio)
  BY <1>8
<1> QED BY <1>1, <1>7, <1>9

LEMMA BeforeIsAnOrder ==
  ASSUME NEW a \in Entries, NEW b \in Entries, NEW c \in Entries, Before(a, b), Before(b, c)
  PROVE  Before(a, c)
BY DEF Entries, Before

\* The list gets what was not in it; what is at the head then was there before, or
\* is new and comes before what was there.
LEMMA AddFacts ==
  ASSUME NEW prio, Numbering(prio), NEW list, WellFormed(list, prio),
         NEW items \in Seq(Int), NEW added, added = Add(list, items, prio)
  PROVE  /\ WellFormed(added, prio)
         /\ added.all_data = list.all_data \union Range(items)
         /\ IsAvailable(list) =>
              /\ IsAvailable(added)
              /\ \/ Peek(added) = Peek(list)
                 \/ /\ Peek(added) \in Range(items) \ list.all_data
                    /\ Before(Entry(prio, Peek(added)), Entry(prio, Peek(list)))
<1>1. PICK N \in Nat : N = Len(items)
  BY LenProperties
<1>2. PICK g : g = Additions(list, items, prio)
  OBVIOUS
<1>3. list \in Lists
  BY DEF WellFormed
<1>4. /\ g[0] = list /\ added = g[N]
      /\ \A n \in 1..N : g[n] = AddOne(g[n - 1], items[n], prio)
  BY <1>1, <1>2, <1>3, AddIs, AdditionsAre
<1>5. \A n \in 1..N : items[n] \in Int
  BY <1>1, ElementOfSeq
<1> DEFINE Overtakers(n) == {items[i] : i \in 1..n}
           Leads(n) == \/ Peek(g[n]) = Peek(list)
                      \/ /\ Peek(g[n]) \in Overtakers(n) \ list.all_data
                         /\ Before(Entry(prio, Peek(g[n])), Entry(prio, Peek(list)))
           Good(n) == /\ WellFormed(g[n], prio)
                      /\ g[n].all_data = list.all_data \union Overtakers(n)
                      /\ IsAvailable(list) => IsAvailable(g[n]) /\ Leads(n)
           T == {n \in 0..N : Good(n)}
<1>6. 0 \in T
  <2>1. Overtakers(0) = {}
    OBVIOUS
  <2> HIDE DEF Overtakers
  <2> QED BY <1>4, <2>1
<1>7. ASSUME NEW n \in 0..N, n # N, n \in T PROVE n + 1 \in T
  <2>1. n + 1 \in 1..N /\ n + 1 - 1 = n
    BY <1>7
  <2>2. PICK item \in Int : item = items[n + 1]
    BY <1>5, <2>1
  <2>3. PICK before : before = g[n]
    OBVIOUS
  <2>4. PICK after : after = g[n + 1]
    OBVIOUS
  <2>5. after = AddOne(before, item, prio)
    BY <1>4, <2>1, <2>2, <2>3, <2>4
  <2>6. Overtakers(n + 1) = Overtakers(n) \union {item}
    <3>1. \A i \in 1..(n + 1) : i \in 1..n \/ i = n + 1
      OBVIOUS
    <3>2. \A i \in 1..n : i \in 1..(n + 1)
      OBVIOUS
    <3>3. n + 1 \in 1..(n + 1)
      OBVIOUS
    <3> QED BY <2>2, <3>1, <3>2, <3>3
  <2> HIDE DEF Overtakers
  <2>7. /\ WellFormed(before, prio)
        /\ before.all_data = list.all_data \union Overtakers(n)
        /\ IsAvailable(list) => IsAvailable(before)
    BY <1>7, <2>3
  <2>8. HasGot(after, item, before, prio)
    <3> HIDE DEF Leads, Good, T
    <3> QED BY <2>5, <2>7, AddOneFacts
  <2>9. ASSUME IsAvailable(list) PROVE Leads(n + 1)
    <3>1. Leads(n)
      BY <1>7, <2>9
    <3>2. PICK p : p = Peek(before)
      OBVIOUS
    <3>3. \/ p = Peek(list)
          \/ p \in Overtakers(n) \ list.all_data /\ Before(Entry(prio, p), Entry(prio, Peek(list)))
      BY <2>3, <3>1, <3>2
    <3>4. CASE Peek(after) = p
      BY <2>4, <2>6, <3>3, <3>4
    <3>5. CASE Peek(after) = item /\ item \notin before.all_data
               /\ Before(Entry(prio, item), Entry(prio, p))
      <4>1. item \in Overtakers(n + 1) \ list.all_data
        BY <2>6, <2>7, <3>5
      <4>2. Before(Entry(prio, item), Entry(prio, Peek(list)))
        <5>1. CASE p = Peek(list)
          BY <3>5, <5>1
        <5>2. CASE p \in Overtakers(n) \ list.all_data /\ Before(Entry(prio, p), Entry(prio, Peek(list)))
          <6>1. p \in Int
            <7>1. before.all_data \in SUBSET Int
              BY <2>7 DEF WellFormed, Lists
            <7> QED BY <2>7, <5>2, <7>1
          <6>2. Peek(list) \in Int
            BY <2>9, PeekInList
          <6>3. /\ Entry(prio, item) \in Entries /\ Entry(prio, p) \in Entries
                /\ Entry(prio, Peek(list)) \in Entries
            BY <6>1, <6>2, EntryFacts
          <6> QED BY <3>5, <5>2, <6>3, BeforeIsAnOrder
        <5> QED BY <3>3, <5>1, <5>2
      <4> QED BY <2>4, <3>5, <4>1, <4>2
    <3> QED BY <2>7, <2>8, <2>9, <3>2, <3>4, <3>5 DEF HasGot
  <2>10. Good(n + 1)
    <3> HIDE DEF Leads
    <3> QED BY <2>4, <2>6, <2>7, <2>8, <2>9 DEF HasGot
  <2> HIDE DEF Good
  <2> QED BY <2>1, <2>10
<1>8. Good(N)
  <2>1. \A n \in 0..N : n \in T
    <3> HIDE DEF T
    <3> QED BY <1>6, <1>7, UpTo
  <2> HIDE DEF Good
  <2> QED BY <2>1
<1>9. Overtakers(N) = Range(items)
  BY <1>1 DEF Range
<1> HIDE DEF Overtakers
<1> QED BY <1>4, <1>8, <1>9

-----------------------------------------------------------------------------
\* A walk stops at what it is to avoid and nowhere else.

WalkStep(g, avoided) ==
  [seen \in SUBSET g.stmts |->
     seen \union ((UNION {SuccOf(g, s) : s \in seen}) \ (avoided \union {Exit}))]

LEMMA WalkIs ==
  ASSUME NEW g, NEW from, NEW avoided
  PROVE  Walk(g, from, avoided)
           = Iterated(Cardinality(g.stmts), from, WalkStep(g, avoided))[Cardinality(g.stmts)]
BY DEF Walk, Iterated, WalkStep

\* walk is the least set with the statements of from that edges leave only to avoided ones.
IsWalk(walk, g, from, avoided) ==
  /\ from \subseteq walk /\ walk \subseteq g.stmts
  /\ \A s \in walk : SuccOf(g, s) \subseteq walk \union avoided \union {Exit}
  /\ \A A \in SUBSET g.stmts :
       from \subseteq A /\ (\A s \in A : SuccOf(g, s) \subseteq A \union avoided \union {Exit})
         => walk \subseteq A

LEMMA WalkFacts ==
  ASSUME NEW g, IsGraph(g), NEW from \in SUBSET g.stmts, NEW avoided
  PROVE  IsWalk(Walk(g, from, avoided), g, from, avoided)
<1>0. PICK walk : walk = Walk(g, from, avoided)
  OBVIOUS
<1>1. PICK next, U : next = WalkStep(g, avoided) /\ U = g.stmts
  OBVIOUS
<1>2. \A s \in U : SuccOf(g, s) \subseteq U \union {Exit}
  <2> TAKE s \in U
  <2>1. g.succ[s] \in Seq(U \union {Exit})
    BY <1>1 DEF IsGraph
  <2>2. \A i \in 1..Len(g.succ[s]) : g.succ[s][i] \in U \union {Exit}
    BY <2>1, ElementOfSeq
  <2> QED BY <2>1, <2>2 DEF SuccOf, Range
<1>3. \A v \in SUBSET U : next[v] = v \union ((UNION {SuccOf(g, s) : s \in v}) \ (avoided \union {Exit}))
  BY <1>1 DEF WalkStep
<1>4. ASSUME NEW v \in SUBSET U PROVE next[v] \in SUBSET U /\ v \subseteq next[v]
  <2>1. ASSUME NEW t \in (UNION {SuccOf(g, s) : s \in v}) \ (avoided \union {Exit}) PROVE t \in U
    <3>1. PICK s \in v : t \in SuccOf(g, s)
      BY <2>1
    <3> QED BY <1>2, <2>1, <3>1
  <2> QED BY <1>3, <2>1
<1>5. next \in [SUBSET U -> SUBSET U]
  <2>1. next = [v \in SUBSET U |-> next[v]]
    BY <1>1, Zenon DEF WalkStep
  <2> QED BY <1>4, <2>1
<1>6. PICK N : N = Cardinality(U) /\ IsFiniteSet(U) /\ from \in SUBSET U
  BY <1>1 DEF IsGraph
<1>7. walk = Iterated(N, from, next)[N]
  BY <1>0, <1>1, <1>6, WalkIs
<1>8. Saturated(walk, U, from, next)
  <2>1. Inflates(next, U)
    BY <1>4, <1>5 DEF Inflates
  <2> QED BY <1>6, <1>7, <2>1, Saturation
<1>9. ASSUME NEW s \in walk PROVE SuccOf(g, s) \subseteq walk \union avoided \union {Exit}
  <2>1. walk = walk \union ((UNION {SuccOf(g, t) : t \in walk}) \ (avoided \union {Exit}))
    BY <1>3, <1>8 DEF Saturated
  <2>2. SuccOf(g, s) \subseteq UNION {SuccOf(g, t) : t \in walk}
    OBVIOUS
  <2> QED BY <2>1, <2>2, Zenon
<1>10. ASSUME NEW A \in SUBSET U, from \subseteq A,
              \A s \in A : SuccOf(g, s) \subseteq A \union avoided \union {Exit}
       PROVE  walk \subseteq A
  <2>1. ASSUME NEW v \in SUBSET A PROVE next[v] \subseteq A
    <3>1. next[v] = v \union ((UNION {SuccOf(g, s) : s \in v}) \ (avoided \union {Exit}))
      BY <1>3
    <3>2. ASSUME NEW t \in (UNION {SuccOf(g, s) : s \in v}) \ (avoided \union {Exit}) PROVE t \in A
      <4>1. PICK s \in v : t \in SuccOf(g, s)
        BY <3>2
      <4> QED BY <1>10, <3>2, <4>1
    <3> QED BY <3>1, <3>2
  <2> QED BY <1>8, <1>10, <2>1 DEF Saturated
<1>11. IsWalk(walk, g, from, avoided)
  BY <1>1, <1>8, <1>9, <1>10 DEF Saturated, IsWalk
<1> QED BY <1>0, <1>11

\* What the entries lead to is the least set with them that no edge leaves.
LEMMA ReachableFacts ==
  ASSUME NEW g \in Graphs
  PROVE  /\ Range(g.first) \subseteq Reachable(g) /\ Reachable(g) \subseteq g.stmts
         /\ \A s \in Reachable(g) : SuccOf(g, s) \subseteq Reachable(g) \union {Exit}
         /\ \A A \in SUBSET g.stmts :
              Range(g.first) \subseteq A /\ (\A s \in A : SuccOf(g, s) \subseteq A \union {Exit})
                => Reachable(g) \subseteq A
<1>1. IsGraph(g) /\ Range(g.first) \in SUBSET g.stmts
  <2>1. IsGraph(g)
    BY GraphAssumption
  <2>2. \A i \in 1..Len(g.first) : g.first[i] \in g.stmts
    <3>1. PICK first : first = g.first /\ first \in Seq(g.stmts)
      BY <2>1 DEF IsGraph
    <3> QED BY <3>1, ElementOfSeq
  <2> QED BY <2>1, <2>2 DEF Range, IsGraph
<1>2. PICK from, none, walk : from = Range(g.first) /\ none = {} /\ walk = Walk(g, from, none)
  OBVIOUS
<1>3. IsWalk(walk, g, from, none)
  BY <1>1, <1>2, WalkFacts
<1>4. walk = Reachable(g)
  BY <1>2 DEF Reachable
<1> QED BY <1>2, <1>3, <1>4 DEF IsWalk

-----------------------------------------------------------------------------
\* What no step changes: the input, and the shape of what the frame keeps.

PlacesOf(g) == g.stmts \union {Exit}

Shape ==
  /\ cfg \in Graphs /\ mode \in Modes
  /\ is_first_round \in [Stmts -> BOOLEAN]
  /\ stmt_counters \in [Stmts -> Nat]
  /\ DOMAIN in_symbol_bits = Stmts /\ DOMAIN out_symbol_bits = Stmts
  /\ DOMAIN implicitly_defined_symbols = Stmts
  /\ interruption_flag \in BOOLEAN
  /\ unsolved \subseteq Methods
  /\ WellFormed(wl, cfg.prio) /\ wl.all_data \subseteq PlacesOf(cfg)

\* A statement that has not been analysed has not used up its rounds.
CountersFit == \A s \in Stmts : is_first_round[s] => stmt_counters[s] = 0

LEMMA GraphFacts ==
  ASSUME NEW g \in Graphs
  PROVE  /\ Numbering(g.prio) /\ g.first \in Seq(Int) /\ Range(g.first) \subseteq g.stmts
         /\ g.stmts \subseteq Nat \ {0} /\ Exit \notin g.stmts /\ PlacesOf(g) \subseteq Int
         /\ g.calls \subseteq g.stmts
         /\ \A s \in g.stmts : /\ g.succ[s] \in Seq(Int)
                               /\ SuccOf(g, s) = Range(g.succ[s])
                               /\ SuccOf(g, s) \subseteq PlacesOf(g)
         /\ \A s \in g.calls : s \notin SuccOf(g, s)
<1>1. IsGraph(g)
  BY GraphAssumption
<1>2. g.stmts \subseteq Nat \ {0} /\ Exit \notin g.stmts /\ PlacesOf(g) \subseteq Int
  BY <1>1 DEF IsGraph, Exit, PlacesOf
<1>3. ASSUME NEW items \in Seq(PlacesOf(g))
      PROVE  items \in Seq(Int) /\ Range(items) \subseteq PlacesOf(g)
  <2>1. \A i \in 1..Len(items) : items[i] \in PlacesOf(g)
    BY ElementOfSeq
  <2> QED BY <1>2, <2>1 DEF Range
<1>4. g.first \in Seq(Int) /\ Range(g.first) \subseteq g.stmts
  <2>1. PICK first : first = g.first /\ first \in Seq(g.stmts)
    BY <1>1 DEF IsGraph
  <2>2. \A i \in 1..Len(first) : first[i] \in g.stmts
    BY <2>1, ElementOfSeq
  <2> QED BY <1>2, <2>1, <2>2 DEF Range
<1>5. \A s \in g.stmts : g.succ[s] \in Seq(PlacesOf(g))
  BY <1>1 DEF IsGraph, PlacesOf
<1>6. \A s \in g.stmts : SuccOf(g, s) = Range(g.succ[s])
  BY DEF SuccOf
<1>7. Numbering(g.prio)
  BY <1>1 DEF IsGraph, Numbering
<1>8. g.calls \subseteq g.stmts /\ \A s \in g.calls : s \notin Range(g.succ[s])
  BY <1>1 DEF IsGraph
<1> QED BY <1>2, <1>3, <1>4, <1>5, <1>6, <1>7, <1>8

\* The head of the list, and the list with the successors of a statement in it.
LEMMA CurrentFacts ==
  ASSUME Shape, IsAvailable(wl)
  PROVE  /\ Current \in wl.all_data /\ Current \in PlacesOf(cfg)
         /\ WellFormed(Pop(wl), cfg.prio) /\ Pop(wl).all_data = wl.all_data \ {Current}
BY PeekInList, PopFacts DEF Shape, Current

LEMMA SuccessorFacts ==
  ASSUME Shape, IsAvailable(wl), Current \in Stmts, NEW added, added = WithSuccessors(Current)
  PROVE  /\ WellFormed(added, cfg.prio) /\ IsAvailable(added)
         /\ added.all_data = wl.all_data \union SuccOf(cfg, Current)
         /\ added.all_data \subseteq PlacesOf(cfg)
         /\ Peek(added) \in added.all_data
         /\ \/ Peek(added) = Current
            \/ /\ Peek(added) \in SuccOf(cfg, Current) \ wl.all_data
               /\ Overtakes(cfg, Peek(added), Current)
         /\ WellFormed(Pop(added), cfg.prio)
         /\ Pop(added).all_data = added.all_data \ {Peek(added)}
<1>1. PICK g \in Graphs : g = cfg
  BY DEF Shape
<1>2. PICK s \in g.stmts : s = Current
  BY <1>1 DEF Stmts
<1>3. Numbering(g.prio) /\ g.succ[s] \in Seq(Int) /\ SuccOf(g, s) = Range(g.succ[s])
      /\ SuccOf(g, s) \subseteq PlacesOf(g)
  BY GraphFacts
<1>4. WellFormed(wl, g.prio) /\ wl.all_data \subseteq PlacesOf(g) /\ added = Add(wl, g.succ[s], g.prio)
  BY <1>1, <1>2 DEF Shape, WithSuccessors
<1>5. /\ WellFormed(added, g.prio)
      /\ added.all_data = wl.all_data \union SuccOf(g, s)
      /\ IsAvailable(added)
      /\ \/ Peek(added) = Peek(wl)
         \/ /\ Peek(added) \in Range(g.succ[s]) \ wl.all_data
            /\ Before(Entry(g.prio, Peek(added)), Entry(g.prio, Peek(wl)))
  BY <1>3, <1>4, AddFacts
<1>6. s \in wl.all_data /\ s = Peek(wl)
  BY <1>2, CurrentFacts DEF Current
<1>7. /\ Peek(added) \in added.all_data /\ WellFormed(Pop(added), g.prio)
      /\ Pop(added).all_data = added.all_data \ {Peek(added)}
  BY <1>5, PeekInList, PopFacts
<1>8. \/ Peek(added) = s
      \/ Peek(added) \in SuccOf(g, s) \ wl.all_data /\ Overtakes(g, Peek(added), s)
  BY <1>3, <1>5, <1>6 DEF Overtakes
<1> QED BY <1>1, <1>2, <1>3, <1>4, <1>5, <1>7, <1>8

LEMMA InitShape == ASSUME Init
                   PROVE  /\ Shape /\ CountersFit
                          /\ wl.all_data = Range(cfg.first)
<1>1. PICK g \in Graphs, m \in Modes : g = cfg /\ m = mode
  BY DEF Init
<1>3. Numbering(g.prio) /\ g.first \in Seq(Int) /\ Range(g.first) \subseteq g.stmts
  BY GraphFacts
<1>4. WellFormed(EmptyWorkList, g.prio) /\ EmptyWorkList.all_data = {}
  <2>1. <<>> \in Seq(Entries) /\ Len(<<>>) = 0
    BY EmptySeq
  <2>2. EmptyWorkList \in Lists
    BY <2>1 DEF EmptyWorkList, Lists
  <2>3. OnceEach(0, <<>>, {}, g.prio)
    BY DEF OnceEach
  <2> QED BY <2>1, <2>2, <2>3 DEF WellFormed, EmptyWorkList
<1>5. wl = Add(EmptyWorkList, g.first, g.prio)
  BY <1>1 DEF Init
<1>6. WellFormed(wl, g.prio) /\ wl.all_data = Range(g.first)
  <2>1. PICK list, items, prio, added :
          list = EmptyWorkList /\ items = g.first /\ prio = g.prio /\ added = wl
    OBVIOUS
  <2>2. WellFormed(added, prio) /\ added.all_data = list.all_data \union Range(items)
    BY <1>3, <1>4, <1>5, <2>1, AddFacts
  <2> QED BY <1>4, <2>1, <2>2
<1>7. Shape
  BY <1>1, <1>3, <1>6 DEF Init, Shape, Stmts, PlacesOf
<1>8. CountersFit
  BY <1>1 DEF Init, CountersFit, Stmts
<1> QED BY <1>1, <1>6, <1>7, <1>8

\* What the iterations do to the list and to the statement at its head, in terms of
\* values that no step changes.
LEMMA DropFacts ==
  ASSUME Shape, CountersFit, Drop
  PROVE  /\ Shape' /\ CountersFit'
         /\ wl'.all_data = wl.all_data \ {Current}
         /\ Current \in Stmts => ~is_first_round[Current]
<1>1. PICK g \in Graphs, m \in Modes : g = cfg /\ m = mode /\ cfg' = g /\ mode' = m
  BY DEF Shape, Drop, input
<1>2. WellFormed(wl', g.prio) /\ wl'.all_data = wl.all_data \ {Current}
  BY <1>1, CurrentFacts DEF Drop
<1>3. Shape'
  BY <1>1, <1>2 DEF Shape, Drop, Stmts, bits
<1>4. CountersFit'
  BY <1>1 DEF CountersFit, Drop, Stmts
<1>5. ASSUME Current \in Stmts, is_first_round[Current] PROVE FALSE
  <2>1. PICK s \in g.stmts : s = Current
    BY <1>1, <1>5 DEF Stmts
  <2>2. stmt_counters[s] = 0 /\ m.max_round \in Nat \ {0}
    BY <1>1, <1>5, <2>1, ModeAssumption DEF CountersFit, Stmts, IsMode
  <2> QED BY <1>1, <1>5, <2>1, <2>2 DEF Drop, Analysable
<1>6. is_first_round \in [Stmts -> BOOLEAN]
  BY DEF Shape
<1> QED BY <1>2, <1>3, <1>4, <1>5, <1>6

\* An iteration that runs to its end, whether the handler runs or is passed over.
Turn == Analyse \/ PassOver

LEMMA IterationFacts ==
  ASSUME Shape, CountersFit, Turn, NEW s, s = Current, NEW added, added = WithSuccessors(s)
  PROVE  /\ Step /\ Shape' /\ CountersFit' /\ s \in Stmts
         /\ wl'.all_data = added.all_data \ {Peek(added)}
         /\ is_first_round' = [is_first_round EXCEPT ![s] = FALSE]
<1>0. Step
  BY DEF Turn, Analyse, PassOver
<1>1. PICK g \in Graphs, m \in Modes : g = cfg /\ m = mode /\ cfg' = g /\ mode' = m
  BY <1>0 DEF Shape, Step, input
<1>2. s \in g.stmts /\ s \in Stmts /\ wl' = Pop(added)
      /\ is_first_round' = [is_first_round EXCEPT ![s] = FALSE]
      /\ stmt_counters' = [stmt_counters EXCEPT ![s] = @ + 1]
  BY <1>0, <1>1 DEF Step, Analysable, Stmts
<1>3. IsAvailable(wl)
  BY <1>0 DEF Step
<1>4. /\ WellFormed(wl', g.prio) /\ wl'.all_data = added.all_data \ {Peek(added)}
      /\ wl'.all_data \subseteq PlacesOf(g)
  BY <1>1, <1>2, <1>3, SuccessorFacts
<1>5. Shape'
  <2>1. is_first_round' \in [g.stmts -> BOOLEAN] /\ stmt_counters' \in [g.stmts -> Nat]
    BY <1>1, <1>2 DEF Shape, Stmts
  <2>2. DOMAIN in_symbol_bits' = g.stmts /\ DOMAIN out_symbol_bits' = g.stmts
        /\ DOMAIN implicitly_defined_symbols' = g.stmts
    BY <1>0, <1>1, <1>2 DEF Shape, Stmts, Turn, Step, Analyse, PassOver
  <2>3. unsolved' \subseteq Methods /\ interruption_flag' \in BOOLEAN
    BY <1>0 DEF Shape, Step
  <2> QED BY <1>1, <1>4, <2>1, <2>2, <2>3 DEF Shape, Stmts
<1>6. CountersFit'
  BY <1>1, <1>2 DEF CountersFit, Stmts, Shape
<1> QED BY <1>0, <1>2, <1>4, <1>5, <1>6

LEMMA InterruptFacts ==
  ASSUME Shape, CountersFit, Interrupt
  PROVE  /\ Shape' /\ CountersFit' /\ Current \in Stmts
         /\ wl' = WithSuccessors(Current)
<1>1. PICK g \in Graphs, m \in Modes : g = cfg /\ m = mode /\ cfg' = g /\ mode' = m
  BY DEF Shape, Interrupt, input
<1>2. PICK s \in g.stmts : s = Current /\ s \in Stmts
  BY <1>1 DEF Interrupt, Analysable, Stmts
<1>3. IsAvailable(wl) /\ wl' = WithSuccessors(s)
  BY <1>2 DEF Interrupt
<1>4. WellFormed(wl', g.prio) /\ wl'.all_data \subseteq PlacesOf(g)
  BY <1>1, <1>2, <1>3, SuccessorFacts
<1>5. Shape'
  <2>1. is_first_round' \in [g.stmts -> BOOLEAN] /\ stmt_counters' \in [g.stmts -> Nat]
    BY <1>1, <1>2 DEF Shape, Stmts, Interrupt
  <2>2. DOMAIN in_symbol_bits' = g.stmts /\ DOMAIN out_symbol_bits' = g.stmts
        /\ DOMAIN implicitly_defined_symbols' = g.stmts
    BY <1>1, <1>2 DEF Shape, Stmts, Interrupt
  <2>3. unsolved' \subseteq Methods /\ interruption_flag' \in BOOLEAN
    BY DEF Shape, Interrupt
  <2> QED BY <1>1, <1>4, <2>1, <2>2, <2>3 DEF Shape, Stmts
<1>6. CountersFit'
  BY <1>1, <1>2 DEF CountersFit, Stmts, Interrupt
<1> QED BY <1>2, <1>3, <1>5, <1>6

-----------------------------------------------------------------------------
\* No statement is lost.

\* The set holds the entries, and control that bypasses a statement outside of it
\* does not leave it.
Covers(g, seen) ==
  /\ Range(g.first) \subseteq seen
  /\ \A t \in g.stmts \ seen : \A A \in Bypasses(g, t) : seen \subseteq A

LEMMA EntriesCover ==
  ASSUME NEW g \in Graphs PROVE Covers(g, Range(g.first))
BY DEF Covers, Bypasses

LEMMA CoversGrows ==
  ASSUME NEW g \in Graphs, NEW seen \in SUBSET g.stmts, Covers(g, seen), NEW s \in seen,
         NEW more, more = seen \union (SuccOf(g, s) \ {Exit})
  PROVE  Covers(g, more)
<1>1. ASSUME NEW t \in g.stmts \ more, NEW A \in Bypasses(g, t) PROVE more \subseteq A
  <2>1. seen \subseteq A
    BY <1>1 DEF Covers
  <2>2. SuccOf(g, s) \subseteq A \union {t, Exit}
    BY <2>1 DEF Bypasses
  <2> QED BY <1>1, <2>1, <2>2
<1> QED BY <1>1 DEF Covers

\* A header that overtakes a statement which has been seen has been seen itself.
LEMMA OvertakerSeen ==
  ASSUME NEW g \in Graphs, WellNumbered(g), NEW seen \in SUBSET g.stmts, Covers(g, seen),
         NEW s \in seen, NEW h \in SuccOf(g, s), Overtakes(g, h, s)
  PROVE  h \in seen
<1>1. h # Exit /\ h \in g.stmts
  BY GraphFacts DEF WellNumbered, PlacesOf
<1>2. PICK A \in Bypasses(g, h) : s \notin A
  BY DEF WellNumbered, Dominates
<1> QED BY <1>1, <1>2 DEF Covers

Analysed == {s \in Stmts : ~is_first_round[s]}
Seen == (wl.all_data \union Analysed) \ {Exit}

NothingLost ==
  WellNumbered(cfg) =>
    /\ Covers(cfg, Seen)
    /\ \A s \in Analysed : SuccOf(cfg, s) \ {Exit} \subseteq Seen

LEMMA SeenFacts ==
  ASSUME Shape
  PROVE  /\ Analysed \subseteq Stmts /\ Seen \subseteq Stmts /\ Analysed \subseteq Seen
         /\ wl.all_data \ {Exit} \subseteq Seen
         /\ \A s \in Stmts : is_first_round[s] <=> s \notin Analysed
<1>1. PICK g \in Graphs : g = cfg
  BY DEF Shape
<1>2. Exit \notin g.stmts
  BY GraphFacts
<1> QED BY <1>1, <1>2 DEF Shape, Analysed, Seen, Stmts, PlacesOf

\* The head after the successors of a statement have been added has been analysed or
\* is that statement.
LEMMA HeadFacts ==
  ASSUME Shape, NothingLost, WellNumbered(cfg), IsAvailable(wl), Current \in Stmts,
         NEW added, added = WithSuccessors(Current)
  PROVE  \/ Peek(added) = Current
         \/ /\ Peek(added) \in Analysed /\ Peek(added) \in SuccOf(cfg, Current)
            /\ Overtakes(cfg, Peek(added), Current)
<1>1. PICK g, s, seen, h :
        g \in Graphs /\ g = cfg /\ s = Current /\ seen = Seen /\ h = Peek(added)
  BY DEF Shape
<1>2. s \in g.stmts /\ s \in wl.all_data /\ s # Exit
  BY <1>1, CurrentFacts, GraphFacts DEF Stmts
<1>3. s \in seen /\ seen \in SUBSET g.stmts
  BY <1>1, <1>2, SeenFacts DEF Stmts
<1>4. ASSUME h # s PROVE h \in SuccOf(g, s) \ wl.all_data /\ Overtakes(g, h, s)
  BY <1>1, <1>4, SuccessorFacts
<1>5. Covers(g, seen)
  BY <1>1 DEF NothingLost
<1>6. ASSUME h # s PROVE h \in seen
  BY <1>1, <1>3, <1>4, <1>5, <1>6, OvertakerSeen
<1>7. ASSUME h # s PROVE h \in Analysed
  BY <1>1, <1>4, <1>6, <1>7 DEF Seen
<1> QED BY <1>1, <1>4, <1>7

LEMMA DropLosesNothing ==
  ASSUME Shape, CountersFit, NothingLost, Drop PROVE NothingLost'
<1>1. PICK g, seen, analysed : g = cfg /\ seen = Seen /\ analysed = Analysed
  OBVIOUS
<1>2. cfg' = g /\ analysed = Analysed'
  BY <1>1 DEF Drop, input, Analysed, Stmts
<1>3. /\ wl'.all_data = wl.all_data \ {Current}
      /\ Current = Exit \/ Current \in analysed
  BY <1>1, DropFacts, CurrentFacts DEF Analysed, Drop, PlacesOf, Stmts
<1>4. seen = Seen'
  BY <1>1, <1>2, <1>3 DEF Seen
<1> QED BY <1>1, <1>2, <1>4 DEF NothingLost

LEMMA IterationLosesNothing ==
  ASSUME Shape, CountersFit, NothingLost, Turn PROVE NothingLost'
<1> SUFFICES ASSUME WellNumbered(cfg) PROVE NothingLost'
  BY DEF NothingLost, Turn, Analyse, PassOver, Step, input
<1>1. PICK g, seen, analysed, s, added, h :
        /\ g \in Graphs /\ g = cfg /\ seen = Seen /\ analysed = Analysed /\ s = Current
        /\ added = WithSuccessors(s) /\ h = Peek(added)
  BY DEF Shape
<1>2. cfg' = g /\ IsAvailable(wl)
  BY <1>1 DEF Turn, Analyse, PassOver, Step, input
<1>3. /\ Shape' /\ s \in g.stmts /\ s \in Stmts
      /\ wl'.all_data = added.all_data \ {h}
      /\ is_first_round' = [is_first_round EXCEPT ![s] = FALSE]
  BY <1>1, IterationFacts DEF Stmts
<1>4. added.all_data = wl.all_data \union SuccOf(g, s) /\ s \in wl.all_data
  BY <1>1, <1>2, <1>3, SuccessorFacts, CurrentFacts
<1>5. analysed \union {s} = Analysed'
  BY <1>1, <1>2, <1>3 DEF Analysed, Stmts, Shape
<1>6. h = s \/ h \in analysed
  BY <1>1, <1>2, <1>3, HeadFacts
<1>7. PICK more : more = seen \union (SuccOf(g, s) \ {Exit})
  OBVIOUS
<1>8. s # Exit
  BY <1>1, <1>3, GraphFacts
<1>9. more = Seen'
  BY <1>1, <1>3, <1>4, <1>5, <1>6, <1>7, <1>8 DEF Seen
<1>10. seen \in SUBSET g.stmts /\ s \in seen
  BY <1>1, <1>4, <1>8, SeenFacts DEF Stmts
<1>11. Covers(g, seen) /\ \A t \in analysed : SuccOf(g, t) \ {Exit} \subseteq seen
  BY <1>1 DEF NothingLost
<1>12. Covers(g, more)
  BY <1>1, <1>7, <1>10, <1>11, CoversGrows
<1>13. \A t \in analysed \union {s} : SuccOf(g, t) \ {Exit} \subseteq more
  BY <1>7, <1>11
<1> QED BY <1>2, <1>5, <1>9, <1>12, <1>13 DEF NothingLost

LEMMA InterruptLosesNothing ==
  ASSUME Shape, CountersFit, NothingLost, Interrupt PROVE NothingLost'
<1> SUFFICES ASSUME WellNumbered(cfg) PROVE NothingLost'
  BY DEF NothingLost, Interrupt, input
<1>1. PICK g, seen, analysed, s :
        g \in Graphs /\ g = cfg /\ seen = Seen /\ analysed = Analysed /\ s = Current
  BY DEF Shape
<1>2. cfg' = g /\ IsAvailable(wl) /\ analysed = Analysed'
  BY <1>1 DEF Interrupt, input, Analysed, Stmts
<1>3. s \in g.stmts /\ s \in Stmts /\ wl' = WithSuccessors(s)
  BY <1>1, InterruptFacts DEF Stmts
<1>4. wl'.all_data = wl.all_data \union SuccOf(g, s) /\ s \in wl.all_data
  BY <1>1, <1>2, <1>3, SuccessorFacts, CurrentFacts
<1>5. PICK more : more = seen \union (SuccOf(g, s) \ {Exit})
  OBVIOUS
<1>6. more = Seen'
  BY <1>1, <1>2, <1>4, <1>5 DEF Seen
<1>7. seen \in SUBSET g.stmts /\ s \in seen
  BY <1>1, <1>3, <1>4, SeenFacts, GraphFacts DEF Stmts
<1>8. Covers(g, seen) /\ \A t \in analysed : SuccOf(g, t) \ {Exit} \subseteq seen
  BY <1>1 DEF NothingLost
<1>9. Covers(g, more)
  BY <1>1, <1>5, <1>7, <1>8, CoversGrows
<1> QED BY <1>2, <1>5, <1>6, <1>8, <1>9 DEF NothingLost

\* A step that leaves the list and the rounds alone.
LEMMA SameLosesNothing ==
  ASSUME Shape, CountersFit, NothingLost,
         UNCHANGED <<input, wl, stmt_counters, is_first_round, bits, interruption_flag, unsolved>>
  PROVE  Shape' /\ CountersFit' /\ NothingLost'
<1> USE DEF input, bits
<1>1. Shape'
  BY DEF Shape, Stmts
<1>2. CountersFit'
  BY DEF CountersFit, Stmts
<1>3. NothingLost'
  BY DEF NothingLost, Seen, Analysed, Stmts
<1> QED BY <1>1, <1>2, <1>3

\* The loop ends with the list empty.
Complete == pc = "done" => ~IsAvailable(wl)

Visited == Shape /\ CountersFit /\ NothingLost /\ Complete

LEMMA InitVisited == Init => Visited
<1> SUFFICES ASSUME Init PROVE Visited
  OBVIOUS
<1>1. Shape /\ CountersFit /\ wl.all_data = Range(cfg.first)
  BY InitShape
<1>2. Complete
  BY DEF Init, Complete
<1>3. PICK g \in Graphs : g = cfg
  BY DEF Init
<1>4. Analysed = {}
  BY DEF Init, Analysed
<1>5. Seen = Range(g.first)
  BY <1>1, <1>3, <1>4, GraphFacts DEF Seen
<1>6. NothingLost
  BY <1>3, <1>4, <1>5, EntriesCover DEF NothingLost
<1> QED BY <1>1, <1>2, <1>6 DEF Visited

LEMMA NextVisited == Visited /\ [Next]_vars => Visited'
<1> SUFFICES ASSUME Shape, CountersFit, NothingLost, Complete, [Next]_vars PROVE Visited'
  BY DEF Visited
<1>1. CASE Drop
  <2>1. Complete'
    BY <1>1 DEF Drop, Complete
  <2> QED BY <1>1, <2>1, DropFacts, DropLosesNothing DEF Visited
<1>2. CASE Turn
  <2>1. Complete'
    BY <1>2 DEF Turn, Analyse, PassOver, Step, Complete
  <2>2. PICK s, added : s = Current /\ added = WithSuccessors(s)
    OBVIOUS
  <2>3. Shape' /\ CountersFit'
    BY <1>2, <2>2, IterationFacts
  <2> QED BY <1>2, <2>1, <2>3, IterationLosesNothing DEF Visited
<1>3. CASE Interrupt
  <2>1. Complete'
    BY <1>3 DEF Interrupt, Complete
  <2> QED BY <1>3, <2>1, InterruptFacts, InterruptLosesNothing DEF Visited
<1>4. CASE Resume
  <2>1. Complete'
    BY <1>4 DEF Resume, Complete
  <2>2. Shape' /\ CountersFit' /\ NothingLost'
    BY <1>4, SameLosesNothing DEF Resume
  <2> QED BY <2>1, <2>2 DEF Visited
<1>5. CASE Finish
  <2>1. Complete'
    BY <1>5 DEF Finish, Complete, IsAvailable
  <2>2. Shape' /\ CountersFit' /\ NothingLost'
    BY <1>5, SameLosesNothing DEF Finish
  <2> QED BY <2>1, <2>2 DEF Visited
<1>6. CASE UNCHANGED vars
  <2>1. Complete'
    BY <1>6 DEF vars, Complete, IsAvailable
  <2>2. Shape' /\ CountersFit' /\ NothingLost'
    BY <1>6, SameLosesNothing DEF vars
  <2> QED BY <2>1, <2>2 DEF Visited
<1> QED BY <1>1, <1>2, <1>3, <1>4, <1>5, <1>6 DEF Next, Turn

\* When the loop ends every statement that the entries lead to has been analysed,
\* whatever the well numbered graph, the rounds and the interruptions: analyze_stmts
\* adds the successors before pop(), and pop() takes either the statement just
\* analysed or the header of a loop around it, which has been analysed before.
THEOREM VisitsAll == Spec => []EveryReachableStatementAnalysed
<1>1. Visited => EveryReachableStatementAnalysed
  <2> SUFFICES ASSUME Visited, pc = "done", WellNumbered(cfg)
               PROVE  \A s \in Reachable(cfg) : ~is_first_round[s]
    BY DEF EveryReachableStatementAnalysed
  <2>1. PICK g, analysed : g \in Graphs /\ g = cfg /\ analysed = Analysed
    BY DEF Visited, Shape
  <2>2. wl.all_data = {}
    <3>1. wl.work_list = <<>> /\ Len(wl.work_list) = 0
      BY EmptySeq DEF Visited, Complete, IsAvailable
    <3>2. OnceEach(0, wl.work_list, wl.all_data, g.prio)
      BY <2>1, <3>1 DEF Visited, Shape, WellFormed
    <3> QED BY <3>2 DEF OnceEach
  <2>3. analysed \subseteq g.stmts /\ Exit \notin g.stmts
    BY <2>1, GraphFacts DEF Analysed, Stmts
  <2>4. Seen = analysed
    BY <2>1, <2>2, <2>3 DEF Seen
  <2>5. Range(g.first) \subseteq analysed /\ \A s \in analysed : SuccOf(g, s) \subseteq analysed \union {Exit}
    BY <2>1, <2>4 DEF Visited, NothingLost, Covers
  <2>6. Reachable(g) \subseteq analysed
    BY <2>1, <2>3, <2>5, ReachableFacts
  <2> QED BY <2>1, <2>6 DEF Analysed
<1> QED BY <1>1, InitVisited, NextVisited, PTL DEF Spec

-----------------------------------------------------------------------------
\* What a statement defines stays in its out bits, and the iteration after an
\* interruption skips nothing that was not done.

\* The definitions of s are among the definitions, for each of the symbols.
HasOf(defs, symbols, s) == \A v \in symbols : \E d \in defs : d[1] = v /\ d[2] = s

\* What s defines by itself and, as its status says, through its callees.
OwnSymbols(s) == ExplicitDef(cfg, s) \union {k[1] : k \in implicitly_defined_symbols[s]}
HasOwn(s) == HasOf(out_symbol_bits[s], OwnSymbols(s), s)

\* The two defects of the loop are out of the way.
Trusted == WellNumbered(cfg) /\ ~HeaderUsedUp

\* What the status of a statement lists is made there by callees.
MadeByCallees(keys, s) == \A k \in keys : k[1] \in cfg.effect[s] /\ k[2] = s /\ k[3] # 0
Contributed == \A s \in Stmts : MadeByCallees(implicitly_defined_symbols[s], s)

OwnKept == Trusted => \A s \in Analysed : HasOwn(s)
HeadHasReached ==
  Trusted /\ interruption_flag =>
    /\ IsAvailable(wl) /\ Analysable(Current)
    /\ \/ Current \in Analysed
       \/ /\ Current \in cfg.calls /\ in_symbol_bits[Current] = InBits(Current)
          /\ HasOwn(Current)

\* The keys of a statement are generated, and kill none of its definitions without
\* putting another one in its place.
LEMMA DefineFacts ==
  ASSUME NEW current, NEW keys, NEW s, \A k \in keys : k[2] = s,
         NEW symbols, HasOf(current, symbols, s)
  PROVE  HasOf(Define(current, keys), symbols \union {k[1] : k \in keys}, s)
<1>1. ASSUME NEW d \in current, d[2] = s
      PROVE  \E e \in Define(current, keys) : e[1] = d[1] /\ e[2] = s
  <2>1. CASE \E k \in keys \ current : k[1] = d[1]
    BY <2>1 DEF Define
  <2>2. CASE \A k \in keys \ current : k[1] # d[1]
    BY <1>1, <2>2 DEF Define
  <2> QED BY <2>1, <2>2
<1>2. ASSUME NEW k \in keys PROVE \E e \in Define(current, keys) : e[1] = k[1] /\ e[2] = s
  <2>1. CASE k \in current
    BY <1>1, <2>1
  <2>2. CASE k \notin current
    BY <2>2 DEF Define
  <2> QED BY <2>1, <2>2
<1> QED BY <1>1, <1>2 DEF HasOf

LEMMA KeyFacts ==
  ASSUME Shape, NEW s \in Stmts, NEW applied \in SUBSET cfg.effect[s]
  PROVE  /\ \A k \in ExplicitKeys(s) : k[2] = s
         /\ ExplicitDef(cfg, s) = {k[1] : k \in ExplicitKeys(s)}
         /\ MadeByCallees(ImplicitKeys(s, applied), s)
<1>1. stmt_counters[s] \in Nat
  BY DEF Shape
<1>2. \A k \in ExplicitKeys(s) : k[2] = s
  BY DEF ExplicitKeys
<1>3. ExplicitDef(cfg, s) = {k[1] : k \in ExplicitKeys(s)}
  <2>1. ASSUME NEW v \in ExplicitDef(cfg, s) PROVE v \in {k[1] : k \in ExplicitKeys(s)}
    <3>1. PICK k \in ExplicitKeys(s) : k = <<v, s, 0>>
      BY DEF ExplicitKeys
    <3> QED BY <3>1
  <2>2. ASSUME NEW k \in ExplicitKeys(s) PROVE k[1] \in ExplicitDef(cfg, s)
    BY DEF ExplicitKeys
  <2> QED BY <2>1, <2>2
<1>4. MadeByCallees(ImplicitKeys(s, applied), s)
  BY <1>1 DEF ImplicitKeys, MadeByCallees
<1> QED BY <1>2, <1>3, <1>4

\* The symbol step, made now or in the iteration that was interrupted, leaves the
\* statement with its own definitions.
LEMMA ReachedHasOwn ==
  ASSUME Visited, Contributed, OwnKept, HeadHasReached, Trusted, NEW s \in Stmts, s = Current
  PROVE  HasOf(ReachedOut(s), OwnSymbols(s), s)
<1>1. CASE interruption_flag
  BY <1>1 DEF OwnKept, HeadHasReached, HasOwn, ReachedOut
<1>2. CASE ~interruption_flag /\ ~is_first_round[s] /\ OutBits(s) = out_symbol_bits[s]
  BY <1>2 DEF OwnKept, HasOwn, ReachedOut, Analysed
<1>3. CASE /\ ~interruption_flag
           /\ OutBits(s) = Define(Define(InBits(s), ExplicitKeys(s)), implicitly_defined_symbols[s])
  <2>1. PICK before, explicit, implicit, between, after :
          /\ before = InBits(s) /\ explicit = ExplicitKeys(s) /\ implicit = implicitly_defined_symbols[s]
          /\ between = Define(before, explicit) /\ after = Define(between, implicit)
    OBVIOUS
  <2>2. /\ \A k \in explicit : k[2] = s
        /\ ExplicitDef(cfg, s) = {k[1] : k \in explicit}
    BY <2>1, KeyFacts DEF Visited
  <2>3. \A k \in implicit : k[2] = s
    BY <2>1 DEF Contributed, MadeByCallees
  <2>4. PICK none : none = {} /\ HasOf(before, none, s)
    <3>1. HasOf(before, {}, s)
      BY DEF HasOf
    <3> QED BY <3>1
  <2>5. HasOf(between, none \union {k[1] : k \in explicit}, s)
    BY <2>1, <2>2, <2>4, DefineFacts
  <2>6. PICK symbols : symbols = none \union {k[1] : k \in explicit} /\ HasOf(between, symbols, s)
    BY <2>5
  <2>7. HasOf(after, symbols \union {k[1] : k \in implicit}, s)
    BY <2>1, <2>3, <2>6, DefineFacts
  <2>8. symbols \union {k[1] : k \in implicit} = OwnSymbols(s)
    BY <2>1, <2>2, <2>4, <2>6 DEF OwnSymbols
  <2> QED BY <1>3, <2>1, <2>7, <2>8 DEF ReachedOut
<1> QED BY <1>1, <1>2, <1>3 DEF OutBits

\* What an iteration that runs to its end leaves in the status of its statement.
LEMMA IterationBits ==
  ASSUME Shape, Turn, NEW s, s = Current
  PROVE  /\ s \in Stmts
         /\ \E implicit, out :
              /\ \A t \in Stmts :
                   /\ implicitly_defined_symbols'[t] = IF t = s THEN implicit ELSE implicitly_defined_symbols[t]
                   /\ out_symbol_bits'[t] = IF t = s THEN out ELSE out_symbol_bits[t]
              /\ \/ implicit = implicitly_defined_symbols[s] /\ out = ReachedOut(s)
                 \/ /\ \E applied \in SUBSET cfg.effect[s] : implicit = ImplicitKeys(s, applied)
                    /\ out = Define(ReachedOut(s), implicit)
<1>1. s \in Stmts
  BY DEF Turn, Analyse, PassOver, Step, Analysable
<1>2. DOMAIN implicitly_defined_symbols = Stmts /\ DOMAIN out_symbol_bits = Stmts
  BY DEF Shape
<1>3. CASE Analyse
  <2>1. PICK applied \in SUBSET cfg.effect[s] :
          /\ implicitly_defined_symbols' = [implicitly_defined_symbols EXCEPT ![s] = ImplicitKeys(s, applied)]
          /\ out_symbol_bits' = [out_symbol_bits EXCEPT ![s] = Define(ReachedOut(s), ImplicitKeys(s, applied))]
    BY <1>3 DEF Analyse
  <2>2. PICK implicit, out : implicit = ImplicitKeys(s, applied) /\ out = Define(ReachedOut(s), implicit)
    OBVIOUS
  <2>3. \A t \in Stmts :
          /\ implicitly_defined_symbols'[t] = IF t = s THEN implicit ELSE implicitly_defined_symbols[t]
          /\ out_symbol_bits'[t] = IF t = s THEN out ELSE out_symbol_bits[t]
    BY <1>2, <2>1, <2>2
  <2> QED BY <1>1, <2>2, <2>3
<1>4. CASE PassOver
  <2>1. PICK implicit, out : implicit = implicitly_defined_symbols[s] /\ out = ReachedOut(s)
    OBVIOUS
  <2>2. \A t \in Stmts :
          /\ implicitly_defined_symbols'[t] = IF t = s THEN implicit ELSE implicitly_defined_symbols[t]
          /\ out_symbol_bits'[t] = IF t = s THEN out ELSE out_symbol_bits[t]
    BY <1>2, <1>4, <2>1 DEF PassOver
  <2> QED BY <1>1, <2>1, <2>2
<1> QED BY <1>3, <1>4 DEF Turn

\* A header that has used up its rounds stays used up.
LEMMA TrustStays == ASSUME Shape, [Next]_vars, Trusted' PROVE Trusted
<1> USE DEF input, bits
<1>1. PICK g, m : g = cfg /\ m = mode /\ cfg' = g /\ mode' = m
  BY DEF Next, Drop, Analyse, PassOver, Step, Interrupt, Resume, Finish, vars
<1>2. WellNumbered(g)
  BY <1>1 DEF Trusted
<1>3. SUFFICES ASSUME HeaderUsedUp PROVE FALSE
  BY <1>1, <1>2 DEF Trusted
<1>4. unsolved' # Methods
  <2>1. unsolved' = unsolved \/ unsolved' \subseteq unsolved
    BY DEF Next, Drop, Analyse, PassOver, Step, Interrupt, Resume, Finish, vars
  <2> QED BY <1>3, <2>1 DEF HeaderUsedUp, Shape
<1>5. PICK c, h : c \in g.calls /\ h \in SuccOf(g, c) /\ Overtakes(g, h, c) /\ ~Analysable(h)
  BY <1>1, <1>3 DEF HeaderUsedUp
<1>6. ~(h \in g.stmts /\ stmt_counters'[h] < m.max_round)
  <2>1. stmt_counters' = stmt_counters \/ Step
    BY DEF Next, Drop, Analyse, PassOver, Interrupt, Resume, Finish, vars
  <2>2. ~(h \in g.stmts /\ stmt_counters[h] < m.max_round)
    BY <1>1, <1>5 DEF Analysable, Stmts
  <2>3. CASE Step
    <3>1. PICK s : s = Current /\ s \in g.stmts /\ stmt_counters' = [stmt_counters EXCEPT ![s] = @ + 1]
                   /\ stmt_counters[s] < m.max_round
      BY <1>1, <2>3 DEF Step, Analysable, Stmts
    <3>2. h # s => stmt_counters'[h] = stmt_counters[h]
      BY <3>1 DEF Shape
    <3> QED BY <2>2, <3>1, <3>2
  <2> QED BY <2>1, <2>2, <2>3
<1>7. ~Analysable(h)'
  BY <1>1, <1>6 DEF Analysable, Stmts
<1> QED BY <1>1, <1>4, <1>5, <1>7 DEF Trusted, HeaderUsedUp

Reached == Contributed /\ OwnKept /\ HeadHasReached

LEMMA IterationReaches ==
  ASSUME Visited, Reached, Turn, Shape' PROVE Reached'
<1>0. Step
  BY DEF Turn, Analyse, PassOver
<1>1. PICK g, s : g = cfg /\ cfg' = g /\ s = Current /\ s \in g.stmts /\ s \in Stmts
  BY <1>0 DEF Step, input, Analysable, Stmts
<1>2. PICK analysed : analysed = Analysed /\ analysed \subseteq g.stmts
  BY <1>1 DEF Analysed, Stmts
<1>3. analysed \union {s} = Analysed'
  <2>1. is_first_round' = [is_first_round EXCEPT ![s] = FALSE] /\ is_first_round \in [g.stmts -> BOOLEAN]
    BY <1>0, <1>1 DEF Step, Visited, Shape, Stmts
  <2> QED BY <1>1, <1>2, <2>1 DEF Analysed, Stmts
<1>4. PICK implicit, out :
        /\ \A t \in g.stmts :
             /\ implicitly_defined_symbols'[t] = IF t = s THEN implicit ELSE implicitly_defined_symbols[t]
             /\ out_symbol_bits'[t] = IF t = s THEN out ELSE out_symbol_bits[t]
        /\ \/ implicit = implicitly_defined_symbols[s] /\ out = ReachedOut(s)
           \/ /\ \E applied \in SUBSET g.effect[s] : implicit = ImplicitKeys(s, applied)
              /\ out = Define(ReachedOut(s), implicit)
  BY <1>1, IterationBits DEF Visited, Stmts
<1>5. MadeByCallees(implicit, s)
  <2>1. CASE implicit = implicitly_defined_symbols[s]
    BY <1>1, <2>1 DEF Reached, Contributed
  <2>2. CASE \E applied \in SUBSET g.effect[s] : implicit = ImplicitKeys(s, applied)
    BY <1>1, <2>2, KeyFacts DEF Visited
  <2> QED BY <1>4, <2>1, <2>2
<1>6. Contributed'
  <2>1. ASSUME NEW t \in g.stmts PROVE MadeByCallees(implicitly_defined_symbols[t], t)'
    <3>1. CASE t = s
      BY <1>1, <1>4, <1>5, <3>1 DEF MadeByCallees
    <3>2. CASE t # s
      BY <1>1, <1>4, <3>2 DEF Reached, Contributed, MadeByCallees, Stmts
    <3> QED BY <3>1, <3>2
  <2> QED BY <1>1, <2>1 DEF Contributed, Stmts
<1>7. ASSUME Trusted' PROVE \A t \in analysed \union {s} : HasOwn(t)'
  <2>1. Trusted
    BY <1>7, TrustStays DEF Visited, Next, Turn
  <2>2. PICK reached, own : /\ reached = ReachedOut(s) /\ own = OwnSymbols(s)
                            /\ HasOf(reached, own, s)
    BY <1>1, <2>1, ReachedHasOwn DEF Reached
  <2>3. HasOf(out, ExplicitDef(g, s) \union {k[1] : k \in implicit}, s)
    <3>1. CASE implicit = implicitly_defined_symbols[s] /\ out = reached
      BY <1>1, <2>2, <3>1 DEF OwnSymbols
    <3>2. CASE out = Define(reached, implicit)
      <4>1. \A k \in implicit : k[2] = s
        BY <1>5 DEF MadeByCallees
      <4>2. HasOf(out, own \union {k[1] : k \in implicit}, s)
        BY <2>2, <3>2, <4>1, DefineFacts
      <4>3. ExplicitDef(g, s) \subseteq own
        BY <1>1, <2>2 DEF OwnSymbols
      <4> QED BY <4>2, <4>3 DEF HasOf
    <3> QED BY <1>4, <2>2, <3>1, <3>2
  <2>4. HasOwn(s)'
    BY <1>1, <1>4, <2>3 DEF HasOwn, OwnSymbols
  <2>5. ASSUME NEW t \in analysed, t # s PROVE HasOwn(t)'
    <3>1. HasOwn(t)
      BY <1>2, <2>1 DEF Reached, OwnKept
    <3> QED BY <1>1, <1>2, <1>4, <2>5, <3>1 DEF HasOwn, OwnSymbols
  <2> QED BY <2>4, <2>5
<1>8. OwnKept'
  BY <1>3, <1>7 DEF OwnKept
<1>9. HeadHasReached'
  BY <1>0 DEF Step, HeadHasReached
<1> QED BY <1>6, <1>8, <1>9 DEF Reached

\* The interrupted call, or the header that comes before it, is next.
LEMMA InterruptReaches ==
  ASSUME Visited, Reached, Interrupt, Shape' PROVE Reached'
<1>1. PICK g, m, c, analysed :
        /\ g \in Graphs /\ g = cfg /\ cfg' = g /\ m = mode /\ mode' = m /\ c = Current /\ analysed = Analysed
        /\ c \in g.calls /\ c \in g.stmts /\ c \in Stmts /\ stmt_counters[c] < m.max_round
  BY DEF Interrupt, input, Analysable, Stmts, Visited, Shape
<1>2. /\ analysed = Analysed' /\ analysed \subseteq g.stmts
      /\ stmt_counters' = stmt_counters
  BY <1>1 DEF Analysed, Stmts, Interrupt, bits
<1>3. /\ DOMAIN in_symbol_bits = g.stmts /\ DOMAIN out_symbol_bits = g.stmts
      /\ DOMAIN implicitly_defined_symbols = g.stmts
      /\ implicitly_defined_symbols' = [implicitly_defined_symbols EXCEPT ![c] = {}]
      /\ in_symbol_bits' = [in_symbol_bits EXCEPT ![c] = ReachedIn(c)]
      /\ out_symbol_bits' = [out_symbol_bits EXCEPT ![c] = ReachedOut(c)]
  BY <1>1 DEF Interrupt, Visited, Shape, Stmts
<1>4. /\ in_symbol_bits'[c] = ReachedIn(c)
      /\ \A t \in g.stmts : out_symbol_bits'[t] = IF t = c THEN ReachedOut(c) ELSE out_symbol_bits[t]
      /\ \A t \in g.stmts : implicitly_defined_symbols'[t] = IF t = c THEN {} ELSE implicitly_defined_symbols[t]
  BY <1>1, <1>3
<1>5. Contributed'
  <2>1. ASSUME NEW t \in g.stmts PROVE MadeByCallees(implicitly_defined_symbols[t], t)'
    BY <1>1, <1>4 DEF Reached, Contributed, MadeByCallees, Stmts
  <2> QED BY <1>1, <2>1 DEF Contributed, Stmts
<1> SUFFICES ASSUME Trusted' PROVE OwnKept' /\ HeadHasReached'
  BY <1>5 DEF Reached, OwnKept, HeadHasReached
<1>6. Trusted
  BY TrustStays DEF Visited, Next
<1>7. HasOwn(c)'
  <2>1. HasOf(ReachedOut(c), OwnSymbols(c), c)
    BY <1>1, <1>6, ReachedHasOwn DEF Reached
  <2>2. HasOf(ReachedOut(c), ExplicitDef(g, c), c)
    BY <1>1, <2>1 DEF OwnSymbols, HasOf
  <2>3. OwnSymbols(c)' = ExplicitDef(g, c)
    BY <1>1, <1>4 DEF OwnSymbols
  <2> QED BY <1>1, <1>4, <2>2, <2>3 DEF HasOwn
<1>8. OwnKept'
  <2>1. ASSUME NEW t \in analysed, t # c PROVE HasOwn(t)'
    <3>1. HasOwn(t)
      BY <1>1, <1>6 DEF Reached, OwnKept
    <3> QED BY <1>1, <1>2, <1>4, <2>1, <3>1 DEF HasOwn, OwnSymbols
  <2> QED BY <1>2, <1>7, <2>1 DEF OwnKept
<1>9. InBits(c)' = InBits(c)
  <2>1. PICK parents : parents = Parents(c)
    OBVIOUS
  <2>2. parents = Parents(c)'
    BY <1>1, <1>2, <2>1 DEF Parents
  <2>3. \A p \in parents : out_symbol_bits'[p] = out_symbol_bits[p]
    <3>1. c \notin SuccOf(g, c)
      BY <1>1, GraphFacts
    <3>2. \A p \in parents : p \in g.stmts /\ p # c
      BY <1>1, <2>1, <3>1 DEF Parents, PredOf
    <3> QED BY <1>4, <3>2
  <2>4. {out_symbol_bits'[p] : p \in parents} = {out_symbol_bits[p] : p \in parents}
    BY <2>3
  <2> QED BY <2>1, <2>2, <2>4 DEF InBits
<1>10. c \in analysed \/ in_symbol_bits'[c] = InBits(c)'
  BY <1>1, <1>4, <1>6, <1>9 DEF ReachedIn, Reached, HeadHasReached
<1>11. PICK added, h : added = wl' /\ added = WithSuccessors(c) /\ h = Peek(added)
  BY <1>1, InterruptFacts DEF Visited
<1>12. IsAvailable(wl)
  BY DEF Interrupt
<1>13. IsAvailable(added) /\ h = Current'
  BY <1>1, <1>11, <1>12, SuccessorFacts DEF Visited, Current
<1>14. h = c \/ (h \in analysed /\ h \in SuccOf(g, c) /\ Overtakes(g, h, c))
  <2>1. WellNumbered(cfg)
    BY <1>6 DEF Trusted
  <2> QED BY <1>1, <1>11, <1>12, <2>1, HeadFacts DEF Visited
<1>15. unsolved' # Methods
  <2>1. unsolved \subseteq Methods
    BY DEF Visited, Shape
  <2>2. PICK rest \in SUBSET unsolved : rest # unsolved /\ unsolved' = rest
    BY DEF Interrupt
  <2> QED BY <2>1, <2>2
<1>16. Analysable(h)'
  <2>1. CASE h = c
    BY <1>1, <1>2, <2>1 DEF Analysable, Stmts
  <2>2. CASE h \in SuccOf(g, c) /\ Overtakes(g, h, c)
    BY <1>1, <1>15, <2>2 DEF Trusted, HeaderUsedUp
  <2> QED BY <1>14, <2>1, <2>2
<1>17. h \in analysed \/ h = c
  BY <1>14
<1>18. HeadHasReached'
  <2>1. CASE h \in analysed
    BY <1>2, <1>11, <1>13, <1>16, <2>1 DEF HeadHasReached
  <2>2. CASE h = c /\ c \notin analysed
    <3>1. h \in g.calls /\ in_symbol_bits'[h] = InBits(h)' /\ HasOwn(h)'
      BY <1>1, <1>7, <1>10, <2>2
    <3> QED BY <1>1, <1>11, <1>13, <1>16, <3>1 DEF HeadHasReached
  <2> QED BY <1>17, <2>1, <2>2
<1> QED BY <1>8, <1>18

\* The head that has used up its rounds is not the one the interruption left.
LEMMA DropReaches ==
  ASSUME Visited, Reached, Drop PROVE Reached'
<1>1. PICK g, analysed : g = cfg /\ cfg' = g /\ analysed = Analysed /\ analysed = Analysed'
  BY DEF Drop, input, Analysed, Stmts
<1>2. /\ implicitly_defined_symbols' = implicitly_defined_symbols
      /\ out_symbol_bits' = out_symbol_bits /\ interruption_flag' = interruption_flag
  BY DEF Drop, bits
<1>3. Contributed'
  BY <1>1, <1>2 DEF Reached, Contributed, MadeByCallees, Stmts
<1>4. ASSUME Trusted' PROVE OwnKept' /\ HeadHasReached'
  <2>1. Trusted
    BY <1>4, TrustStays DEF Visited, Next
  <2>2. OwnKept'
    BY <1>1, <1>2, <2>1 DEF Reached, OwnKept, HasOwn, OwnSymbols
  <2>3. ~interruption_flag
    BY <2>1 DEF Reached, HeadHasReached, Drop
  <2> QED BY <1>2, <2>2, <2>3 DEF HeadHasReached
<1> QED BY <1>3, <1>4 DEF Reached, OwnKept, HeadHasReached

LEMMA SameReaches ==
  ASSUME Visited, Reached, [Next]_vars,
         UNCHANGED <<input, wl, stmt_counters, is_first_round, bits, interruption_flag, unsolved>>
  PROVE  Reached'
<1> USE DEF input, bits
<1>1. Contributed'
  BY DEF Reached, Contributed, MadeByCallees, Stmts
<1>2. ASSUME Trusted' PROVE OwnKept' /\ HeadHasReached'
  <2>1. Trusted
    BY <1>2, TrustStays DEF Visited
  <2>2. OwnKept'
    BY <2>1 DEF Reached, OwnKept, HasOwn, OwnSymbols, Analysed, Stmts
  <2>3. ASSUME interruption_flag PROVE HeadHasReached'
    <3>1. PICK h : h = Current /\ h = Current'
      BY DEF Current, Peek
    <3>2. InBits(h)' = InBits(h) /\ HasOwn(h)' = HasOwn(h) /\ Analysable(h)' = Analysable(h)
      BY DEF InBits, Parents, HasOwn, OwnSymbols, Analysable, Stmts
    <3>3. IsAvailable(wl') = IsAvailable(wl) /\ Analysed' = Analysed
      BY DEF Analysed, Stmts, IsAvailable
    <3> QED BY <2>1, <2>3, <3>1, <3>2, <3>3 DEF Reached, HeadHasReached
  <2> QED BY <2>2, <2>3 DEF HeadHasReached
<1> QED BY <1>1, <1>2 DEF Reached, OwnKept, HeadHasReached

LEMMA InitReached == Init => Reached
<1> SUFFICES ASSUME Init PROVE Reached
  OBVIOUS
<1>1. Analysed = {} /\ interruption_flag = FALSE
  BY DEF Init, Analysed
<1>2. \A s \in Stmts : implicitly_defined_symbols[s] = {}
  BY DEF Init
<1> QED BY <1>1, <1>2 DEF Reached, Contributed, MadeByCallees, OwnKept, HeadHasReached

LEMMA NextReached == Visited /\ Reached /\ [Next]_vars => Reached'
<1> SUFFICES ASSUME Visited, Reached, [Next]_vars PROVE Reached'
  OBVIOUS
<1>1. Shape'
  BY NextVisited DEF Visited
<1>2. CASE Drop
  BY <1>2, DropReaches
<1>3. CASE Turn
  BY <1>1, <1>3, IterationReaches
<1>4. CASE Interrupt
  BY <1>1, <1>4, InterruptReaches
<1>5. CASE Resume
  BY <1>5, SameReaches DEF Resume
<1>6. CASE Finish
  BY <1>6, SameReaches DEF Finish
<1>7. CASE UNCHANGED vars
  BY <1>7, SameReaches DEF vars
<1> QED BY <1>2, <1>3, <1>4, <1>5, <1>6, <1>7 DEF Next, Turn

\* Visited and Reached are an inductive invariant of the loop.
THEOREM Inductive == Spec => [](Visited /\ Reached)
<1>1. Init => Visited /\ Reached
  BY InitVisited, InitReached
<1>2. Visited /\ Reached /\ [Next]_vars => Visited' /\ Reached'
  BY NextVisited, NextReached
<1> QED BY <1>1, <1>2, PTL DEF Spec

\* However often a statement is analysed again, passed over and interrupted, its out
\* bits have a definition made there of each symbol that it defines itself or that its
\* status lists as defined by its callees (analyze_reachable_symbols,
\* rerun_analyze_reachable_symbols, unset_states_of_defined_symbol).
THEOREM OwnDefinitionsStay == Spec => []OwnDefinitionsAvailable
<1>1. Visited /\ Reached => OwnDefinitionsAvailable
  <2> SUFFICES ASSUME Reached, Trusted, NEW s \in Analysed
               PROVE  HasOf(out_symbol_bits[s], OwnSymbols(s), s)
    BY DEF OwnDefinitionsAvailable, Trusted, Analysed, HasOf, OwnSymbols
  <2> QED BY DEF Reached, OwnKept, HasOwn
<1> QED BY <1>1, Inductive, PTL

\* The iteration after an interruption, whose symbol step is skipped, finds at the
\* head the interrupted call with the bits its predecessors have, or a statement
\* analysed before.
THEOREM NothingSkipped == Spec => []SkippedStepWasDone
<1>1. Visited /\ Reached => SkippedStepWasDone
  <2> SUFFICES ASSUME Reached, Trusted, interruption_flag
               PROVE  \/ ~is_first_round[Current]
                      \/ Current \in cfg.calls /\ in_symbol_bits[Current] = InBits(Current)
    BY DEF SkippedStepWasDone, Trusted
  <2> QED BY DEF Reached, HeadHasReached, Analysed
<1> QED BY <1>1, Inductive, PTL

-----------------------------------------------------------------------------
\* The out bits hold nothing that does not reach the statement.

\* The statements past which the definitions of v made elsewhere do not come.
Killing(g, v) == Redefining(g, v) \ Passing(g, v)

IsMade(g, d) == d[2] \in Reachable(g) /\ Makes(g, d)
Carried(g, d) == Walk(g, {d[2]}, Killing(g, d[1]))

PassingStep(g, v) ==
  [passed \in SUBSET Redefining(g, v) |->
     passed \union {t \in Redefining(g, v) :
                      \E s \in Walk(g, {t}, Redefining(g, v) \ passed) : t \in SuccOf(g, s)}]

LEMMA PassingIs ==
  ASSUME NEW g, NEW v
  PROVE  Passing(g, v) = Iterated(Cardinality(Redefining(g, v)), {}, PassingStep(g, v))
                           [Cardinality(Redefining(g, v))]
BY DEF Passing, Iterated, PassingStep

\* A statement whose own definition comes back to it kills no other one.
LEMMA PassingFacts ==
  ASSUME NEW g \in Graphs, NEW v, NEW t \in Redefining(g, v), NEW s \in Walk(g, {t}, Killing(g, v)),
         t \in SuccOf(g, s)
  PROVE  t \notin Killing(g, v)
<1>1. PICK all, next, N, passed :
        /\ all = Redefining(g, v) /\ next = PassingStep(g, v) /\ N = Cardinality(all)
        /\ passed = Passing(g, v)
  OBVIOUS
<1>2. all \subseteq g.stmts /\ IsFiniteSet(all)
  <2>1. all \subseteq g.stmts
    BY <1>1 DEF Redefining
  <2>2. IsFiniteSet(g.stmts)
    BY GraphAssumption DEF IsGraph
  <2> QED BY <2>1, <2>2, FS_Subset
<1>3. \A u \in SUBSET all :
        next[u] = u \union {r \in all : \E q \in Walk(g, {r}, all \ u) : r \in SuccOf(g, q)}
  BY <1>1 DEF PassingStep
<1>4. Inflates(next, all)
  <2>1. next = [u \in SUBSET all |-> next[u]]
    BY <1>1, Zenon DEF PassingStep
  <2>2. \A u \in SUBSET all : next[u] \in SUBSET all /\ u \subseteq next[u]
    BY <1>3
  <2> QED BY <2>1, <2>2 DEF Inflates
<1>5. Saturated(passed, all, {}, next)
  <2>1. passed = Iterated(N, {}, next)[N]
    BY <1>1, PassingIs
  <2>2. {} \in SUBSET all
    OBVIOUS
  <2> QED BY <1>1, <1>2, <1>4, <2>1, <2>2, Saturation
<1>6. passed = passed \union {r \in all : \E q \in Walk(g, {r}, all \ passed) : r \in SuccOf(g, q)}
  BY <1>3, <1>5 DEF Saturated
<1>7. t \in passed
  BY <1>1, <1>6 DEF Killing
<1> QED BY <1>1, <1>7 DEF Killing

\* A definition is carried from where it is made, and on past what does not kill it.
LEMMA CarriedFacts ==
  ASSUME NEW g \in Graphs, NEW d, IsMade(g, d)
  PROVE  /\ d[2] \in Carried(g, d)
         /\ \A p \in Carried(g, d) : \A s \in SuccOf(g, p) \intersect g.stmts :
              s \in Carried(g, d) \/ s \in Killing(g, d[1])
         /\ \A p \in Carried(g, d) : d[2] \in SuccOf(g, p) => d[2] \notin Killing(g, d[1])
<1>1. PICK from, killing, walk :
        from = {d[2]} /\ killing = Killing(g, d[1]) /\ walk = Walk(g, from, killing)
  OBVIOUS
<1>2. walk = Carried(g, d)
  BY <1>1 DEF Carried
<1>3. IsGraph(g) /\ from \in SUBSET g.stmts /\ Exit \notin g.stmts
  BY <1>1, ReachableFacts, GraphAssumption, GraphFacts DEF IsMade
<1>4. IsWalk(walk, g, from, killing)
  BY <1>1, <1>3, WalkFacts
<1>5. ASSUME NEW p \in walk, d[2] \in SuccOf(g, p) PROVE d[2] \notin killing
  <2>1. CASE d[2] \in Redefining(g, d[1])
    BY <1>1, <1>5, <2>1, PassingFacts
  <2>2. CASE d[2] \notin Redefining(g, d[1])
    BY <1>1, <2>2 DEF Killing
  <2> QED BY <2>1, <2>2
<1> QED BY <1>1, <1>2, <1>3, <1>4, <1>5 DEF IsWalk

\* Only what the entries lead to is added to the list.
Places == wl.all_data \subseteq Reachable(cfg) \union {Exit}

\* What is in the out bits of a statement, analysed or not, reaches it.
Sound == \A s \in Stmts : \A d \in out_symbol_bits[s] : Reaches(cfg, d, s)

Faithful == Places /\ Sound

LEMMA ReachesIs ==
  ASSUME NEW g, NEW d, NEW s
  PROVE  Reaches(g, d, s) <=> IsMade(g, d) /\ s \in Carried(g, d)
BY DEF Reaches, IsMade, Carried, Killing

\* What a statement makes reaches it.
LEMMA OwnReach ==
  ASSUME NEW g \in Graphs, NEW s \in Reachable(g), NEW d, d[2] = s, Makes(g, d)
  PROVE  Reaches(g, d, s)
BY CarriedFacts, ReachesIs DEF IsMade

\* What comes in reaches a predecessor.
LEMMA InBitsCome ==
  ASSUME Faithful, NEW s \in Stmts, NEW d \in InBits(s)
  PROVE  IsMade(cfg, d) /\ \E p \in Carried(cfg, d) : s \in SuccOf(cfg, p)
<1>1. PICK p \in Parents(s) : d \in out_symbol_bits[p]
  BY DEF InBits
<1>2. p \in Stmts /\ s \in SuccOf(cfg, p)
  BY <1>1 DEF Parents, PredOf, Stmts
<1>3. IsMade(cfg, d) /\ p \in Carried(cfg, d)
  BY <1>1, <1>2, ReachesIs DEF Faithful, Sound
<1> QED BY <1>2, <1>3

LEMMA CurrentReachable ==
  ASSUME Shape, Faithful, IsAvailable(wl), Current \in Stmts PROVE Current \in Reachable(cfg)
<1>1. PICK g \in Graphs : g = cfg
  BY DEF Shape
<1>2. Current \in wl.all_data /\ Current # Exit
  BY <1>1, CurrentFacts, GraphFacts DEF Stmts
<1> QED BY <1>2 DEF Faithful, Places

\* The symbol step lets nothing pass that the statement kills.
LEMMA ReachedArrives ==
  ASSUME Shape, Contributed, Faithful, IsAvailable(wl), NEW s \in Stmts, s = Current,
         NEW d \in ReachedOut(s)
  PROVE  Reaches(cfg, d, s)
<1>1. PICK g, explicit, implicit, before :
        /\ g \in Graphs /\ g = cfg /\ s \in g.stmts /\ s \in Reachable(g)
        /\ explicit = ExplicitKeys(s) /\ implicit = implicitly_defined_symbols[s] /\ before = InBits(s)
  BY CurrentReachable DEF Shape, Stmts
<1>2. CASE d \in out_symbol_bits[s]
  BY <1>2 DEF Faithful, Sound
<1>3. CASE d \in implicit
  <2>1. d[2] = s /\ Makes(g, d)
    BY <1>1, <1>3 DEF Contributed, MadeByCallees, Makes
  <2> QED BY <1>1, <2>1, OwnReach
<1>4. CASE d \in explicit
  <2>1. d[2] = s /\ Makes(g, d)
    BY <1>1, <1>4 DEF ExplicitKeys, Makes
  <2> QED BY <1>1, <2>1, OwnReach
<1>5. CASE d \in before /\ \A k \in explicit \ before : k[1] # d[1]
  <2>1. \A e \in before : IsMade(g, e) /\ \E p \in Carried(g, e) : s \in SuccOf(g, p)
    BY <1>1, InBitsCome
  <2>2. IsMade(g, d) /\ (s \in Carried(g, d) \/ s \in Killing(g, d[1]))
    BY <1>1, <1>5, <2>1, CarriedFacts
  <2>3. ASSUME s \in Killing(g, d[1]) PROVE FALSE
    <3>1. d[1] \in ExplicitDef(g, s)
      BY <2>3 DEF Killing, Redefining
    <3>2. PICK e \in explicit : e = <<d[1], s, 0>>
      BY <1>1, <3>1 DEF ExplicitKeys
    <3>3. e[1] = d[1] /\ e[2] = s
      BY <3>2
    <3>4. e \in before
      BY <1>5, <3>2, <3>3
    <3>5. IsMade(g, e) /\ \E p \in Carried(g, e) : e[2] \in SuccOf(g, p)
      BY <2>1, <3>3, <3>4
    <3>6. e[2] \notin Killing(g, e[1])
      BY <1>1, <3>5, CarriedFacts
    <3> QED BY <2>3, <3>3, <3>6
  <2> QED BY <1>1, <2>2, <2>3, ReachesIs
<1>6. \/ d \in out_symbol_bits[s]
      \/ d \in Define(Define(before, explicit), implicit)
  BY <1>1 DEF ReachedOut, OutBits
<1>7. d \in Define(Define(before, explicit), implicit) =>
        d \in implicit \/ d \in explicit \/ (d \in before /\ \A k \in explicit \ before : k[1] # d[1])
  BY DEF Define
<1> QED BY <1>2, <1>3, <1>4, <1>5, <1>6, <1>7

LEMMA InitFaithful == ASSUME Init PROVE Faithful
<1>1. PICK g \in Graphs : g = cfg
  BY DEF Init
<1>2. wl.all_data \subseteq Reachable(g)
  BY <1>1, InitShape, ReachableFacts
<1>3. \A s \in Stmts : out_symbol_bits[s] = {}
  BY DEF Init
<1> QED BY <1>1, <1>2, <1>3 DEF Faithful, Places, Sound

\* Nothing but successors of the head is added.
LEMMA MorePlaces ==
  ASSUME Shape, Faithful, IsAvailable(wl), Current \in Stmts, cfg' = cfg,
         wl'.all_data \subseteq WithSuccessors(Current).all_data
  PROVE  Places'
<1>1. PICK g, s, added : g \in Graphs /\ g = cfg /\ s = Current /\ added = WithSuccessors(s)
  BY DEF Shape
<1>2. added.all_data = wl.all_data \union SuccOf(g, s)
  BY <1>1, SuccessorFacts
<1>3. s \in Reachable(g)
  BY <1>1, CurrentReachable
<1>4. SuccOf(g, s) \subseteq Reachable(g) \union {Exit}
  BY <1>1, <1>3, ReachableFacts
<1> QED BY <1>1, <1>2, <1>4 DEF Faithful, Places

LEMMA IterationFaithful ==
  ASSUME Visited, Reached, Faithful, Turn PROVE Faithful'
<1>1. PICK g, s, added :
        g \in Graphs /\ g = cfg /\ s = Current /\ added = WithSuccessors(s)
  BY DEF Visited, Shape
<1>2. /\ Shape /\ CountersFit /\ Contributed
      /\ cfg' = g /\ IsAvailable(wl) /\ s \in Stmts /\ s \in g.stmts
  BY <1>1 DEF Visited, Reached, Turn, Analyse, PassOver, Step, Analysable, Stmts, input
<1>3. Places'
  <2>1. wl'.all_data = added.all_data \ {Peek(added)}
    BY <1>1, <1>2, IterationFacts
  <2> QED BY <1>1, <1>2, <2>1, MorePlaces
<1>4. PICK implicit, out :
        /\ \A t \in g.stmts : out_symbol_bits'[t] = IF t = s THEN out ELSE out_symbol_bits[t]
        /\ \/ out = ReachedOut(s)
           \/ /\ \E applied \in SUBSET g.effect[s] : implicit = ImplicitKeys(s, applied)
              /\ out = Define(ReachedOut(s), implicit)
  BY <1>1, <1>2, IterationBits DEF Stmts
<1>5. \A d \in ReachedOut(s) : Reaches(g, d, s)
  BY <1>1, <1>2, ReachedArrives
<1>6. ASSUME NEW d \in out PROVE Reaches(g, d, s)
  <2>1. CASE d \in ReachedOut(s)
    BY <1>5, <2>1
  <2>2. CASE /\ \E applied \in SUBSET g.effect[s] : implicit = ImplicitKeys(s, applied)
             /\ d \in implicit
    <3>1. MadeByCallees(implicit, s)
      BY <1>1, <1>2, <2>2, KeyFacts
    <3>2. d[2] = s /\ Makes(g, d)
      BY <1>1, <2>2, <3>1 DEF MadeByCallees, Makes
    <3>3. s \in Reachable(g)
      BY <1>1, <1>2, CurrentReachable
    <3> QED BY <1>1, <3>2, <3>3, OwnReach
  <2> QED BY <1>4, <1>6, <2>1, <2>2 DEF Define
<1>7. Sound'
  <2>1. ASSUME NEW t \in g.stmts, NEW d \in out_symbol_bits'[t] PROVE Reaches(g, d, t)
    <3>1. CASE t = s
      BY <1>4, <1>6, <2>1, <3>1
    <3>2. CASE t # s
      BY <1>1, <1>4, <2>1, <3>2 DEF Faithful, Sound, Stmts
    <3> QED BY <3>1, <3>2
  <2> QED BY <1>2, <2>1 DEF Sound, Stmts
<1> QED BY <1>3, <1>7 DEF Faithful

LEMMA InterruptFaithful ==
  ASSUME Visited, Reached, Faithful, Interrupt PROVE Faithful'
<1>1. PICK g, c : g \in Graphs /\ g = cfg /\ c = Current
  BY DEF Visited, Shape
<1>2. /\ Shape /\ CountersFit /\ Contributed
      /\ cfg' = g /\ IsAvailable(wl) /\ c \in Stmts /\ c \in g.stmts
      /\ wl' = WithSuccessors(c)
  BY <1>1 DEF Visited, Reached, Interrupt, Analysable, Stmts, input
<1>3. Places'
  BY <1>1, <1>2, MorePlaces
<1>4. \A t \in g.stmts : out_symbol_bits'[t] = IF t = c THEN ReachedOut(c) ELSE out_symbol_bits[t]
  <2>1. /\ DOMAIN out_symbol_bits = g.stmts
        /\ out_symbol_bits' = [out_symbol_bits EXCEPT ![c] = ReachedOut(c)]
    BY <1>1, <1>2 DEF Interrupt, Shape, Stmts
  <2> QED BY <2>1
<1>5. \A d \in ReachedOut(c) : Reaches(g, d, c)
  BY <1>1, <1>2, ReachedArrives
<1>6. \A t \in g.stmts : \A d \in out_symbol_bits'[t] : Reaches(g, d, t)
  BY <1>1, <1>4, <1>5 DEF Faithful, Sound, Stmts
<1> QED BY <1>2, <1>3, <1>6 DEF Faithful, Sound, Stmts

LEMMA QuietFaithful ==
  ASSUME Faithful, cfg' = cfg, out_symbol_bits' = out_symbol_bits,
         wl'.all_data \subseteq wl.all_data
  PROVE  Faithful'
BY DEF Faithful, Places, Sound, Stmts

LEMMA NextFaithful == Visited /\ Reached /\ Faithful /\ [Next]_vars => Faithful'
<1> SUFFICES ASSUME Visited, Reached, Faithful, [Next]_vars PROVE Faithful'
  OBVIOUS
<1>1. CASE Drop
  <2>1. wl'.all_data \subseteq wl.all_data
    BY <1>1, DropFacts DEF Visited
  <2>2. cfg' = cfg /\ out_symbol_bits' = out_symbol_bits
    BY <1>1 DEF Drop, input, bits
  <2> QED BY <2>1, <2>2, QuietFaithful
<1>2. CASE Turn
  BY <1>2, IterationFaithful
<1>3. CASE Interrupt
  BY <1>3, InterruptFaithful
<1>4. CASE Resume
  BY <1>4, QuietFaithful DEF Resume, input, bits
<1>5. CASE Finish
  BY <1>5, QuietFaithful DEF Finish, input, bits
<1>6. CASE UNCHANGED vars
  BY <1>6, QuietFaithful DEF vars, input, bits
<1> QED BY <1>1, <1>2, <1>3, <1>4, <1>5, <1>6 DEF Next, Turn

\* However the graph is numbered, and whatever overtakes what, the out bits of an analysed
\* statement hold only definitions from which a walk leads to it past no other one of
\* the symbol, but those that find themselves in their in bits (analyze_reachable_symbols).
THEOREM NothingSpurious == Spec => []NoSpuriousDefinition
<1>1. Faithful => NoSpuriousDefinition
  BY DEF Faithful, Sound, NoSpuriousDefinition
<1>2. Init => Faithful
  BY InitFaithful
<1> QED BY <1>1, <1>2, InitVisited, NextVisited, InitReached, NextReached, NextFaithful, PTL DEF Spec

-----------------------------------------------------------------------------
\* The loop uses up what it has to do.

\* The analyses that the statements have left.
RoundsLeft ==
  {v \in Stmts \X (0..mode.max_round) : stmt_counters[v[1]] <= v[2] /\ v[2] < mode.max_round}

StagesLeft ==
  CASE pc = "interrupted" -> {"running", "done"} [] pc = "running" -> {"done"} [] OTHER -> {}

Shrinks(new, old) == new \subseteq old /\ new # old

\* Callees without a summary, rounds, statements in the list and stages, in this order:
\* a step takes from one of them and leaves those before it.
UsesUp ==
  \/ Shrinks(unsolved', unsolved)
  \/ unsolved' = unsolved /\ Shrinks(RoundsLeft', RoundsLeft)
  \/ unsolved' = unsolved /\ RoundsLeft' = RoundsLeft /\ Shrinks(wl.all_data', wl.all_data)
  \/ /\ unsolved' = unsolved /\ RoundsLeft' = RoundsLeft /\ wl.all_data' = wl.all_data
     /\ Shrinks(StagesLeft', StagesLeft)

AllFinite ==
  IsFiniteSet(unsolved) /\ IsFiniteSet(RoundsLeft) /\ IsFiniteSet(wl.all_data) /\ IsFiniteSet(StagesLeft)

LEMMA LeftIsFinite == ASSUME Shape PROVE AllFinite
<1>1. PICK g \in Graphs, m \in Modes : g = cfg /\ m = mode
  BY DEF Shape
<1>2. IsFiniteSet(g.stmts) /\ m.max_round \in Nat
  BY GraphAssumption, ModeAssumption DEF IsGraph, IsMode
<1>3. IsFiniteSet(unsolved)
  BY MethodsAssumption, FS_Subset DEF Shape
<1>4. IsFiniteSet(RoundsLeft)
  <2>1. IsFiniteSet(0..m.max_round)
    BY <1>2, FS_Interval
  <2>2. IsFiniteSet(g.stmts \X (0..m.max_round))
    BY <1>2, <2>1, FS_Product
  <2>3. RoundsLeft \subseteq g.stmts \X (0..m.max_round)
    BY <1>1 DEF RoundsLeft, Stmts
  <2> QED BY <2>2, <2>3, FS_Subset
<1>5. IsFiniteSet(wl.all_data)
  <2>1. IsFiniteSet(PlacesOf(g))
    BY <1>2, FS_AddElement DEF PlacesOf
  <2>2. wl.all_data \subseteq PlacesOf(g)
    BY <1>1 DEF Shape
  <2> QED BY <2>1, <2>2, FS_Subset
<1>6. IsFiniteSet(StagesLeft)
  <2>1. IsFiniteSet({}) /\ IsFiniteSet({"done"}) /\ IsFiniteSet({"running", "done"})
    <3>1. IsFiniteSet({}) /\ IsFiniteSet({"done"})
      BY FS_EmptySet, FS_Singleton
    <3>2. IsFiniteSet({"done"} \union {"running"})
      BY <3>1, FS_AddElement
    <3>3. {"done"} \union {"running"} = {"running", "done"}
      OBVIOUS
    <3> QED BY <3>1, <3>2, <3>3
  <2>2. StagesLeft = {} \/ StagesLeft = {"done"} \/ StagesLeft = {"running", "done"}
    BY DEF StagesLeft
  <2> QED BY <2>1, <2>2
<1> QED BY <1>3, <1>4, <1>5, <1>6 DEF AllFinite

\* An analysis takes one of the rounds of its statement.
LEMMA StepUses == ASSUME Shape, Step PROVE UsesUp
<1>1. PICK g, m, s : g = cfg /\ m = mode /\ cfg' = g /\ mode' = m /\ s = Current /\ m \in Modes
  BY DEF Step, input, Shape
<1>2. /\ s \in g.stmts /\ stmt_counters \in [g.stmts -> Nat] /\ stmt_counters[s] < m.max_round
      /\ stmt_counters' = [stmt_counters EXCEPT ![s] = @ + 1] /\ m.max_round \in Nat
  BY <1>1, ModeAssumption DEF Step, Analysable, Stmts, Shape, IsMode
<1>3. PICK k : k = stmt_counters[s] /\ k \in 0..m.max_round
  BY <1>2
<1>4. RoundsLeft' \subseteq RoundsLeft
  BY <1>1, <1>2 DEF RoundsLeft, Stmts
<1>5. <<s, k>> \in RoundsLeft /\ <<s, k>> \notin RoundsLeft'
  BY <1>1, <1>2, <1>3 DEF RoundsLeft, Stmts
<1>6. unsolved' = unsolved
  BY DEF Step
<1> QED BY <1>4, <1>5, <1>6 DEF UsesUp, Shrinks

\* Every step uses something up of a finite amount, in a fixed order: loops, statements
\* added again and interruptions cannot keep analyze_stmts going for ever.
THEOREM EveryStepUsesUp == Spec => []AllFinite /\ [][UsesUp]_vars
<1>1. Visited => AllFinite
  BY LeftIsFinite DEF Visited
<1>2. Visited /\ [Next]_vars => [UsesUp]_vars
  <2> SUFFICES ASSUME Shape, CountersFit, Next PROVE UsesUp
    BY DEF Visited
  <2>1. ASSUME UNCHANGED <<input, stmt_counters>> PROVE RoundsLeft' = RoundsLeft
    BY <2>1 DEF input, RoundsLeft, Stmts
  <2>2. CASE Drop
    <3>1. wl'.all_data = wl.all_data \ {Current} /\ Current \in wl.all_data
      BY <2>2, DropFacts, CurrentFacts DEF Drop
    <3> QED BY <2>1, <2>2, <3>1 DEF Drop, UsesUp, Shrinks
  <2>3. CASE Analyse \/ PassOver
    BY <2>3, StepUses DEF Analyse, PassOver
  <2>4. CASE Interrupt
    BY <2>4 DEF Interrupt, UsesUp, Shrinks
  <2>5. CASE Resume \/ Finish
    <3>1. /\ UNCHANGED <<input, stmt_counters>> /\ wl' = wl /\ unsolved' = unsolved
          /\ \/ pc = "interrupted" /\ pc' = "running"
             \/ pc = "running" /\ pc' = "done"
      BY <2>5 DEF Resume, Finish
    <3>2. Shrinks(StagesLeft', StagesLeft)
      BY <3>1 DEF StagesLeft, Shrinks
    <3> QED BY <2>1, <3>1, <3>2 DEF UsesUp
  <2> QED BY <2>2, <2>3, <2>4, <2>5 DEF Next
<1> QED BY <1>1, <1>2, InitVisited, NextVisited, PTL DEF Spec

=============================================================================
