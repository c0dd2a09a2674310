---------------------------- MODULE SequenceLemmas ----------------------------
(***************************************************************************)
(* What the proofs need of sequences beyond SequenceTheorems, the top of a *)
(* stack and prefixes, of finite sets beyond FiniteSetTheorems, and of the *)
(* natural numbers: induction and recursion over the numbers up to one.    *)
(***************************************************************************)
EXTENDS SequencesExt, SequenceTheorems, FiniteSetTheorems, WellFoundedInduction, TLAPS

\* The element at the top of a stack is popped.
LEMMA PopTop ==
  ASSUME NEW S, NEW stack \in Seq(S), stack # <<>>
  PROVE  /\ Front(stack) \in Seq(S)
         /\ Len(stack) \in Nat \ {0}
         /\ Len(Front(stack)) = Len(stack) - 1
         /\ \A i \in 1..(Len(stack) - 1) : Front(stack)[i] = stack[i]
<1>1. Len(stack) \in Nat \ {0} /\ \A i \in 1..(Len(stack) - 1) : stack[i] \in S
  BY EmptySeq, LenProperties, ElementOfSeq
<1>2. Len(stack) - 1 \in Nat
  BY <1>1
<1>3. PICK m \in Nat : m = Len(stack) - 1
  BY <1>2, Zenon
<1>4. /\ SubSeq(stack, 1, m) \in Seq(S)
      /\ Len(SubSeq(stack, 1, m)) = IF 1 <= m THEN m - 1 + 1 ELSE 0
      /\ \A i \in 1..(m - 1 + 1) : SubSeq(stack, 1, m)[i] = stack[1 + i - 1]
  BY <1>1, <1>3, SubSeqProperties
<1>5. Len(SubSeq(stack, 1, m)) = m
  BY <1>3, <1>4
<1>6. ASSUME NEW i \in 1..m PROVE SubSeq(stack, 1, m)[i] = stack[i]
  <2>1. i \in 1..(m - 1 + 1) /\ 1 + i - 1 = i
    BY <1>3
  <2> QED BY <1>4, <2>1, Zenon
<1> QED BY <1>1, <1>3, <1>4, <1>5, <1>6 DEF Front

\* The element at the top of a stack is replaced by another one.
LEMMA ReplaceTop ==
  ASSUME NEW S, NEW stack \in Seq(S), stack # <<>>, NEW f \in S
  PROVE  /\ Append(Front(stack), f) \in Seq(S)
         /\ Len(Append(Front(stack), f)) = Len(stack)
         /\ Len(stack) \in Nat \ {0}
         /\ Append(Front(stack), f)[Len(stack)] = f
         /\ \A i \in 1..(Len(stack) - 1) : Append(Front(stack), f)[i] = stack[i]
BY PopTop

\* Being a prefix is a partial order.
LEMMA PrefixOrder ==
  ASSUME NEW S, NEW p \in Seq(S), NEW q \in Seq(S), NEW r \in Seq(S)
  PROVE  /\ IsPrefix(p, p)
         /\ IsPrefix(p, q) /\ IsPrefix(q, p) => p = q
         /\ IsPrefix(p, q) /\ IsPrefix(q, r) => IsPrefix(p, r)
<1>1. /\ SubSeq(p, 1, Len(p)) = p /\ SubSeq(q, 1, Len(q)) = q
      /\ Len(p) \in Nat /\ Len(q) \in Nat /\ Len(r) \in Nat
  BY SubSeqFull, LenProperties
<1>2. IsPrefix(p, p)
  BY <1>1 DEF IsPrefix
<1>3. ASSUME IsPrefix(p, q), IsPrefix(q, p) PROVE p = q
  BY <1>1, <1>3 DEF IsPrefix
<1>4. ASSUME IsPrefix(p, q), IsPrefix(q, r) PROVE IsPrefix(p, r)
  <2>1. CASE p = <<>>
    BY <2>1, <1>1, SubSeqEmpty, EmptySeq DEF IsPrefix
  <2>2. CASE p # <<>>
    <3>1. Len(p) \in 1..Len(q) /\ Len(q) \in 1..Len(r) /\ Len(p) \in 1..Len(r)
      BY <1>1, <1>4, <2>2, EmptySeq DEF IsPrefix
    <3>2. SubSeq(SubSeq(r, 1, Len(q)), 1, Len(p)) = SubSeq(r, 1 + 1 - 1, 1 + Len(p) - 1)
      BY <3>1, <1>1, SubSeqOfSubSeq, 1 \in 1..Len(r), Len(p) \in 1..(Len(q) - 1 + 1),
         1 \in 1..(Len(q) - 1 + 1)
    <3>3. SubSeq(r, 1, Len(q)) = q
      BY <1>1, <1>4 DEF IsPrefix
    <3>4. SubSeq(q, 1, Len(p)) = SubSeq(r, 1, Len(p))
      <4>1. 1 + 1 - 1 = 1 /\ 1 + Len(p) - 1 = Len(p)
        BY <1>1
      <4> QED BY <3>2, <3>3, <4>1, Zenon
    <3> QED BY <3>4, <1>4, <1>1 DEF IsPrefix
  <2> QED BY <2>1, <2>2
<1> QED BY <1>2, <1>3, <1>4

\* Of sequences of one length none is a prefix of another one.
LEMMA PrefixOfSameLength ==
  ASSUME NEW S, NEW p \in Seq(S), NEW q \in Seq(S), Len(p) = Len(q), IsPrefix(p, q)
  PROVE  p = q
<1>1. SubSeq(p, 1, Len(p)) = p /\ SubSeq(q, 1, Len(q)) = q
  BY SubSeqFull
<1> QED BY <1>1 DEF IsPrefix

\* Triples over finite sets are finitely many.
LEMMA FiniteTriples ==
  ASSUME NEW A, NEW B, NEW C, IsFiniteSet(A), IsFiniteSet(B), IsFiniteSet(C)
  PROVE  IsFiniteSet(A \X B \X C)
<1> DEFINE flat == [v \in (A \X B) \X C |-> <<v[1][1], v[1][2], v[2]>>]
<1>1. IsFiniteSet((A \X B) \X C)
  <2>1. IsFiniteSet(A \X B)
    BY FS_Product
  <2> QED BY <2>1, FS_Product
<1>2. \A t \in A \X B \X C : \E v \in (A \X B) \X C : flat[v] = t
  <2> TAKE t \in A \X B \X C
  <2>1. <<<<t[1], t[2]>>, t[3]>> \in (A \X B) \X C
    OBVIOUS
  <2>2. flat[<<<<t[1], t[2]>>, t[3]>>] = t
    BY <2>1
  <2> QED BY <2>1, <2>2
<1>3. flat \in [(A \X B) \X C -> A \X B \X C]
  OBVIOUS
<1>4. flat \in Surjection((A \X B) \X C, A \X B \X C)
  BY <1>2, <1>3 DEF Surjection
<1> QED BY <1>1, <1>4, FS_Surjection

\* A set of natural numbers has a least element.
LEMMA LeastElement ==
  ASSUME NEW T \in SUBSET Nat, T # {}
  PROVE  \E x \in T : \A y \in T : x <= y
<1>1. \A x, y \in Nat : <<y, x>> \in OpToRel(<, Nat) <=> y < x
  BY Zenon DEF OpToRel
<1>2. PICK x \in T : \A y \in T : ~(<<y, x>> \in OpToRel(<, Nat))
  BY NatLessThanWellFounded, WFMin, Zenon
<1>3. \A y \in T : ~(y < x)
  BY <1>1, <1>2, Zenon
<1> QED BY <1>3

\* Induction over the numbers up to N.
LEMMA UpTo ==
  ASSUME NEW N \in Nat, NEW T, 0 \in T,
         \A n \in 0..N : n # N /\ n \in T => n + 1 \in T
  PROVE  \A n \in 0..N : n \in T
<1> SUFFICES ASSUME (0..N) \ T # {} PROVE FALSE
  OBVIOUS
<1>1. PICK m \in (0..N) \ T : \A y \in (0..N) \ T : m <= y
  <2>1. (0..N) \ T \in SUBSET Nat
    OBVIOUS
  <2> QED BY <2>1, LeastElement
<1>2. m # 0 /\ m - 1 \in 0..N /\ m - 1 # N /\ m - 1 < m
  BY <1>1
<1>3. m - 1 \in T
  BY <1>1, <1>2
<1> QED BY <1>1, <1>2, <1>3

\* f is what a recursion from base makes of the numbers up to N.
Iterates(f, N, S, base, step) ==
  f \in [0..N -> S] /\ f[0] = base /\ \A n \in 1..N : f[n] = step[<<n, f[n - 1]>>]
Steps(N, S) == [(1..N) \X S -> S]

\* A recursion over the numbers up to N that stays in a set defines a function.
LEMMA Recursion ==
  ASSUME NEW N \in Nat, NEW S, NEW base \in S, NEW step \in Steps(N, S)
  PROVE  \E f : Iterates(f, N, S, base, step)
<1> USE DEF Steps
<1> DEFINE Fits(n, f) == f[0] = base /\ \A k \in 1..n : f[k] = step[<<k, f[k - 1]>>]
           T == {n \in 0..N : \E f \in [0..n -> S] : Fits(n, f)}
<1>1. 0 \in T
  <2>1. [n \in 0..0 |-> base] \in [0..0 -> S] /\ Fits(0, [n \in 0..0 |-> base])
    OBVIOUS
  <2>2. \E f \in [0..0 -> S] : Fits(0, f)
    <3> HIDE DEF Fits
    <3> QED BY <2>1
  <2> QED BY <2>2
<1>2. ASSUME NEW n \in 0..N, n # N, n \in T PROVE n + 1 \in T
  <2>1. PICK f \in [0..n -> S] : Fits(n, f)
    BY <1>2
  <2>2. n + 1 \in 1..N /\ n \in 0..n
    BY <1>2
  <2>3. step[<<n + 1, f[n]>>] \in S
    <3>1. f[n] \in S
      BY <2>2
    <3>2. <<n + 1, f[n]>> \in (1..N) \X S
      BY <2>2, <3>1
    <3> QED BY <3>2
  <2> DEFINE g == [k \in 0..(n + 1) |-> IF k = n + 1 THEN step[<<n + 1, f[n]>>] ELSE f[k]]
  <2>4. g \in [0..(n + 1) -> S]
    BY <2>3
  <2>5. g[0] = base
    BY <2>1
  <2>6. ASSUME NEW k \in 1..(n + 1) PROVE g[k] = step[<<k, g[k - 1]>>]
    <3>1. k - 1 \in 0..(n + 1) /\ k - 1 # n + 1
      OBVIOUS
    <3>2. g[k - 1] = f[k - 1]
      BY <3>1
    <3>3. CASE k = n + 1
      <4>1. k - 1 = n /\ g[n + 1] = step[<<n + 1, f[n]>>]
        BY <3>3
      <4> QED BY <3>2, <3>3, <4>1, Zenon
    <3>4. CASE k # n + 1
      <4>1. k \in 1..n
        BY <3>4
      <4> QED BY <2>1, <3>2, <3>4, <4>1
    <3> QED BY <3>3, <3>4
  <2>7. Fits(n + 1, g)
    BY <2>5, <2>6
  <2>8. \E h \in [0..(n + 1) -> S] : Fits(n + 1, h)
    <3> HIDE DEF Fits, g
    <3> QED BY <2>4, <2>7
  <2> QED BY <2>2, <2>8
<1>3. N \in T
  <2> HIDE DEF T
  <2> QED BY <1>1, <1>2, UpTo
<1> QED BY <1>3 DEF Iterates

\* So does one that does not look at the number.
Iterated(N, base, next) ==
  CHOOSE f : f = [n \in 0..N |-> IF n = 0 THEN base ELSE next[f[n - 1]]]
LEMMA Iteration ==
  ASSUME NEW N \in Nat, NEW S, NEW base \in S, NEW next \in [S -> S], NEW f, f = Iterated(N, base, next)
  PROVE  /\ f \in [0..N -> S] /\ f[0] = base
         /\ \A n \in 1..N : f[n] = next[f[n - 1]]
<1> DEFINE step == [v \in (1..N) \X S |-> next[v[2]]]
<1>1. PICK h : Iterates(h, N, S, base, step)
  <2>1. step \in Steps(N, S)
    BY DEF Steps
  <2> HIDE DEF step
  <2> QED BY <2>1, Recursion
<1>2. /\ h \in [0..N -> S] /\ h[0] = base
      /\ \A n \in 1..N : h[n] = step[<<n, h[n - 1]>>]
  BY <1>1 DEF Iterates
<1>3. \A n \in 1..N : h[n] = next[h[n - 1]]
  <2> TAKE n \in 1..N
  <2>1. n - 1 \in 0..N
    OBVIOUS
  <2>2. <<n, h[n - 1]>> \in (1..N) \X S
    BY <1>2, <2>1
  <2>3. step[<<n, h[n - 1]>>] = next[h[n - 1]]
    BY <2>2
  <2> HIDE DEF step
  <2> QED BY <1>2, <2>3
<1>4. h = [n \in 0..N |-> IF n = 0 THEN base ELSE next[h[n - 1]]]
  <2>1. \A n \in 0..N : h[n] = IF n = 0 THEN base ELSE next[h[n - 1]]
    BY <1>2, <1>3
  <2> QED BY <1>2, <2>1
<1>5. f = [n \in 0..N |-> IF n = 0 THEN base ELSE next[f[n - 1]]]
  BY <1>4, Zenon DEF Iterated
<1>6. f[0] = base /\ \A n \in 1..N : f[n] = next[f[n - 1]]
  <2>1. \A k \in 0..N : f[k] = IF k = 0 THEN base ELSE next[f[k - 1]]
    BY <1>5, Zenon
  <2>2. 0 \in 0..N /\ \A n \in 1..N : n \in 0..N /\ n # 0
    OBVIOUS
  <2> QED BY <2>1, <2>2
<1>7. \A n \in 0..N : n \in {k \in 0..N : f[k] \in S}
  <2> DEFINE T == {k \in 0..N : f[k] \in S}
  <2>1. 0 \in T
    BY <1>6
  <2>2. ASSUME NEW n \in 0..N, n # N, n \in T PROVE n + 1 \in T
    <3>1. n + 1 \in 1..N /\ n + 1 - 1 = n
      BY <2>2
    <3>2. f[n + 1] = next[f[n]]
      BY <1>6, <3>1
    <3> QED BY <2>2, <3>1, <3>2
  <2> HIDE DEF T
  <2>3. \A n \in 0..N : n \in T
    BY <2>1, <2>2, UpTo
  <2> QED BY <2>3 DEF T
<1> QED BY <1>5, <1>6, <1>7

\* A step on the subsets of U that only adds elements.
Inflates(next, U) == next \in [SUBSET U -> SUBSET U] /\ \A v \in SUBSET U : v \subseteq next[v]

\* It adds nothing to this set, which has base and is within every set with base that
\* the step does not leave.
Saturated(result, U, base, next) ==
  /\ result \in SUBSET U /\ base \subseteq result /\ next[result] = result
  /\ \A T \in SUBSET U : base \subseteq T /\ (\A v \in SUBSET T : next[v] \subseteq T) => result \subseteq T

\* It is what the step comes to, repeated as often as U has elements.
LEMMA Saturation ==
  ASSUME NEW U, IsFiniteSet(U), NEW base \in SUBSET U, NEW next, Inflates(next, U),
         NEW N, N = Cardinality(U), NEW result, result = Iterated(N, base, next)[N]
  PROVE  Saturated(result, U, base, next)
<1> USE DEF Inflates
<1>1. N \in Nat
  BY FS_CardinalityType
<1>2. PICK f : f = Iterated(N, base, next)
  OBVIOUS
<1>3. /\ f \in [0..N -> SUBSET U] /\ f[0] = base
      /\ \A n \in 1..N : f[n] = next[f[n - 1]]
  <2>1. PICK S : S = SUBSET U
    OBVIOUS
  <2>2. base \in S /\ next \in [S -> S]
    BY <2>1
  <2>3. /\ f \in [0..N -> S] /\ f[0] = base
        /\ \A n \in 1..N : f[n] = next[f[n - 1]]
    BY <1>1, <1>2, <2>2, Iteration
  <2> QED BY <2>1, <2>3
<1>4. \A v \in SUBSET U : IsFiniteSet(v) /\ Cardinality(v) \in Nat
  BY FS_Subset, FS_CardinalityType
<1> DEFINE T == {n \in 0..N : base \subseteq f[n] /\ (next[f[n]] = f[n] \/ Cardinality(f[n]) >= n)}
<1>5. 0 \in T
  BY <1>1, <1>3, <1>4
<1>6. ASSUME NEW n \in 0..N, n # N, n \in T PROVE n + 1 \in T
  <2>1. n + 1 \in 1..N /\ n + 1 - 1 = n /\ n + 1 \in 0..N
    BY <1>1, <1>6
  <2>2. f[n] \in SUBSET U /\ f[n + 1] \in SUBSET U /\ f[n + 1] = next[f[n]] /\ f[n] \subseteq f[n + 1]
    BY <1>3, <2>1
  <2>3. CASE next[f[n]] = f[n]
    BY <1>6, <2>1, <2>2, <2>3
  <2>4. CASE next[f[n]] # f[n]
    <3>1. PICK x \in f[n + 1] : x \notin f[n]
      BY <2>2, <2>4
    <3>2. Cardinality(f[n] \union {x}) = Cardinality(f[n]) + 1
      BY <1>4, <2>2, <3>1, FS_AddElement
    <3>3. Cardinality(f[n] \union {x}) <= Cardinality(f[n + 1])
      <4>1. f[n] \union {x} \subseteq f[n + 1] /\ IsFiniteSet(f[n + 1])
        BY <1>4, <2>2, <3>1
      <4> QED BY <4>1, FS_Subset
    <3>4. Cardinality(f[n]) \in Nat /\ Cardinality(f[n + 1]) \in Nat
      BY <1>4, <2>2
    <3>5. Cardinality(f[n + 1]) >= n + 1
      BY <1>6, <2>4, <3>2, <3>3, <3>4
    <3>6. base \subseteq f[n + 1]
      BY <1>6, <2>2
    <3> QED BY <2>1, <3>5, <3>6
  <2> QED BY <2>3, <2>4
<1>7. N \in T
  <2>1. \A n \in 0..N : n \in T
    <3> HIDE DEF T
    <3> QED BY <1>1, <1>5, <1>6, UpTo
  <2> QED BY <1>1, <2>1
<1>8. f[N] \in SUBSET U /\ result = f[N]
  BY <1>1, <1>2, <1>3
<1>9. next[f[N]] = f[N]
  <2>1. CASE Cardinality(f[N]) >= N
    <3>1. Cardinality(f[N]) = Cardinality(U)
      <4>1. Cardinality(f[N]) <= N /\ Cardinality(f[N]) \in Nat
        BY <1>4, <1>8, FS_Subset
      <4> QED BY <1>1, <2>1, <4>1
    <3>2. f[N] = U
      BY <1>8, <3>1, FS_Subset
    <3>3. U \subseteq next[U] /\ next[U] \in SUBSET U
      OBVIOUS
    <3> QED BY <3>2, <3>3
  <2> QED BY <1>7, <2>1
<1>10. ASSUME NEW A \in SUBSET U, base \subseteq A, \A v \in SUBSET A : next[v] \subseteq A
       PROVE  f[N] \subseteq A
  <2> DEFINE B == {n \in 0..N : f[n] \subseteq A}
  <2>1. 0 \in B
    BY <1>1, <1>3, <1>10
  <2>2. ASSUME NEW n \in 0..N, n # N, n \in B PROVE n + 1 \in B
    <3>1. n + 1 \in 1..N /\ n + 1 - 1 = n /\ n + 1 \in 0..N
      BY <1>1, <2>2
    <3> QED BY <1>3, <1>10, <2>2, <3>1
  <2>3. \A n \in 0..N : n \in B
    <3> HIDE DEF B
    <3> QED BY <1>1, <2>1, <2>2, UpTo
  <2> QED BY <1>1, <2>3
<1>11. base \subseteq f[N]
  BY <1>7
<1> QED BY <1>8, <1>9, <1>10, <1>11 DEF Saturated

\* Being in the set of a sequence's elements.
LEMMA ToSetFacts ==
  ASSUME NEW S, NEW list \in Seq(S)
  PROVE  /\ ToSet(list) \subseteq S /\ IsFiniteSet(ToSet(list))
         /\ \A x : x \in ToSet(list) <=> \E i \in 1..Len(list) : list[i] = x
         /\ list # <<>> => /\ Head(list) \in S /\ Tail(list) \in Seq(S)
                           /\ ToSet(list) = {Head(list)} \union ToSet(Tail(list))
<1>1. Len(list) \in Nat /\ DOMAIN list = 1..Len(list) /\ \A i \in 1..Len(list) : list[i] \in S
  BY LenProperties, ElementOfSeq
<1>2. \A x : x \in ToSet(list) <=> \E i \in 1..Len(list) : list[i] = x
  BY <1>1 DEF ToSet
<1>3. IsFiniteSet(ToSet(list))
  <2>1. IsFiniteSet(1..Len(list))
    BY <1>1, FS_Interval
  <2>2. ToSet(list) = {list[i] : i \in 1..Len(list)}
    BY <1>1 DEF ToSet
  <2>3. [i \in 1..Len(list) |-> list[i]] \in Surjection(1..Len(list), ToSet(list))
    BY <2>2 DEF Surjection
  <2> QED BY <2>1, <2>3, FS_Surjection
<1>4. ASSUME list # <<>>
      PROVE  /\ Head(list) \in S /\ Tail(list) \in Seq(S)
             /\ ToSet(list) = {Head(list)} \union ToSet(Tail(list))
  <2>1. /\ Head(list) = list[1] /\ Tail(list) \in Seq(S) /\ Len(Tail(list)) = Len(list) - 1
        /\ \A i \in 1..(Len(list) - 1) : Tail(list)[i] = list[i + 1] /\ Len(list) # 0
    BY <1>4, HeadTailProperties, EmptySeq
  <2>2. DOMAIN Tail(list) = 1..(Len(list) - 1)
    BY <2>1, LenProperties
  <2>3. ToSet(Tail(list)) = {list[i + 1] : i \in 1..(Len(list) - 1)}
    BY <2>1, <2>2 DEF ToSet
  <2>4. \A i \in 1..Len(list) : i = 1 \/ (i - 1 \in 1..(Len(list) - 1) /\ i - 1 + 1 = i)
    BY <1>1
  <2>5. \A i \in 1..(Len(list) - 1) : i + 1 \in 1..Len(list)
    BY <1>1
  <2>6. 1 \in 1..Len(list)
    BY <1>1, <2>1, EmptySeq
  <2>7. ASSUME NEW x \in ToSet(list) PROVE x = Head(list) \/ x \in ToSet(Tail(list))
    <3>1. PICK i \in 1..Len(list) : list[i] = x
      BY <1>2, <2>7
    <3>2. CASE i = 1
      BY <2>1, <3>1, <3>2
    <3>3. CASE i # 1
      <4>1. i - 1 \in 1..(Len(list) - 1) /\ list[i - 1 + 1] = x
        BY <2>4, <3>1, <3>3
      <4> QED BY <2>3, <4>1
    <3> QED BY <3>2, <3>3
  <2>8. Head(list) \in ToSet(list)
    BY <1>2, <2>1, <2>6
  <2>9. ToSet(Tail(list)) \subseteq ToSet(list)
    BY <1>2, <2>3, <2>5
  <2>10. Head(list) \in S
    BY <1>1, <2>1, <2>6
  <2> QED BY <2>1, <2>7, <2>8, <2>9, <2>10
<1> QED BY <1>1, <1>2, <1>3, <1>4

LEMMA Joined ==
  ASSUME NEW S, NEW a \in Seq(S), NEW c \in Seq(S)
  PROVE  a \o c \in Seq(S) /\ ToSet(a \o c) = ToSet(a) \union ToSet(c)
<1>1. PICK j : j = a \o c
  OBVIOUS
<1>2. /\ j \in Seq(S) /\ Len(j) = Len(a) + Len(c)
      /\ \A i \in 1..(Len(a) + Len(c)) : j[i] = IF i <= Len(a) THEN a[i] ELSE c[i - Len(a)]
  BY <1>1, ConcatProperties
<1>3. Len(a) \in Nat /\ Len(c) \in Nat
  BY LenProperties
<1>4. \A x : x \in ToSet(a) <=> \E i \in 1..Len(a) : a[i] = x
  BY ToSetFacts
<1>5. \A x : x \in ToSet(c) <=> \E i \in 1..Len(c) : c[i] = x
  BY ToSetFacts
<1>6. \A x : x \in ToSet(j) <=> \E i \in 1..(Len(a) + Len(c)) : j[i] = x
  BY <1>2, ToSetFacts
<1>7. ASSUME NEW x \in ToSet(j) PROVE x \in ToSet(a) \/ x \in ToSet(c)
  <2>1. PICK i \in 1..(Len(a) + Len(c)) : j[i] = x
    BY <1>6, <1>7
  <2>2. CASE i <= Len(a)
    BY <1>2, <1>3, <1>4, <2>1, <2>2
  <2>3. CASE ~(i <= Len(a))
    <3>1. i - Len(a) \in 1..Len(c)
      BY <1>3, <2>3
    <3> QED BY <1>2, <1>5, <2>1, <2>3, <3>1
  <2> QED BY <2>2, <2>3
<1>8. ASSUME NEW x \in ToSet(a) PROVE x \in ToSet(j)
  <2>1. PICK i \in 1..Len(a) : a[i] = x
    BY <1>4, <1>8
  <2>2. i \in 1..(Len(a) + Len(c)) /\ i <= Len(a)
    BY <1>3
  <2> QED BY <1>2, <1>6, <2>1, <2>2
<1>9. ASSUME NEW x \in ToSet(c) PROVE x \in ToSet(j)
  <2>1. PICK i \in 1..Len(c) : c[i] = x
    BY <1>5, <1>9
  <2>2. i + Len(a) \in 1..(Len(a) + Len(c)) /\ ~(i + Len(a) <= Len(a)) /\ i + Len(a) - Len(a) = i
    BY <1>3
  <2> QED BY <1>2, <1>6, <2>1, <2>2
<1> QED BY <1>1, <1>2, <1>7, <1>8, <1>9

\* Nothing comes twice in list.
Once(list) == \A j, k \in 1..Len(list) : list[j] = list[k] => j = k

LEMMA OnceFacts ==
  ASSUME NEW S, NEW list \in Seq(S), Once(list), list # <<>>
  PROVE  Once(Tail(list)) /\ Head(list) \notin ToSet(Tail(list))
<1>1. PICK n, t : n \in Nat /\ n = Len(list) /\ t = Tail(list)
  BY LenProperties
<1>2. /\ Head(list) = list[1] /\ t \in Seq(S) /\ Len(t) = n - 1 /\ n # 0
      /\ \A i \in 1..(n - 1) : t[i] = list[i + 1]
  BY <1>1, HeadTailProperties, EmptySeq
<1>3. \A i \in 1..(n - 1) : i + 1 \in 1..n /\ i + 1 # 1
  BY <1>1
<1>4. 1 \in 1..n
  BY <1>1, <1>2
<1>5. \A j, k \in 1..(n - 1) : t[j] = t[k] => j = k
  <2> TAKE j, k \in 1..(n - 1)
  <2> HAVE t[j] = t[k]
  <2>1. list[j + 1] = list[k + 1] /\ j + 1 \in 1..n /\ k + 1 \in 1..n
    BY <1>2, <1>3
  <2>2. j + 1 = k + 1
    BY <1>1, <2>1 DEF Once
  <2> QED BY <2>2
<1>6. ASSUME Head(list) \in ToSet(t) PROVE FALSE
  <2>1. PICK i \in 1..(n - 1) : t[i] = Head(list)
    BY <1>2, <1>6, ToSetFacts
  <2>2. list[i + 1] = list[1] /\ i + 1 \in 1..n
    BY <1>2, <1>3, <2>1
  <2>3. i + 1 = 1
    BY <1>1, <1>4, <2>2 DEF Once
  <2> QED BY <2>3
<1> QED BY <1>1, <1>2, <1>5, <1>6 DEF Once

LEMMA OnceJoined ==
  ASSUME NEW S, NEW a \in Seq(S), NEW c \in Seq(S), Once(a), Once(c), ToSet(a) \intersect ToSet(c) = {}
  PROVE  Once(a \o c)
<1>1. PICK d : d = a \o c
  OBVIOUS
<1>2. PICK m \in Nat, n \in Nat : m = Len(a) /\ n = Len(c)
  BY LenProperties
<1>3. /\ d \in Seq(S) /\ Len(d) = m + n
      /\ \A i \in 1..(m + n) : d[i] = IF i <= m THEN a[i] ELSE c[i - m]
  BY <1>1, <1>2, ConcatProperties
<1>4. \A i \in 1..m : a[i] \in ToSet(a)
  BY <1>2, ToSetFacts
<1>5. \A i \in 1..n : c[i] \in ToSet(c)
  BY <1>2, ToSetFacts
<1>6. \A i \in 1..(m + n) : (i <= m /\ i \in 1..m) \/ (~(i <= m) /\ i - m \in 1..n)
  OBVIOUS
<1>7. \A j, k \in 1..(m + n) : j <= m /\ ~(k <= m) => d[j] # d[k]
  BY <1>3, <1>4, <1>5, <1>6
<1>8. \A j, k \in 1..(m + n) : d[j] = d[k] => j = k
  <2> TAKE j, k \in 1..(m + n)
  <2> HAVE d[j] = d[k]
  <2>1. CASE j <= m /\ k <= m
    BY <1>2, <1>3, <1>6, <2>1 DEF Once
  <2>2. CASE ~(j <= m) /\ ~(k <= m)
    <3>1. c[j - m] = c[k - m] /\ j - m \in 1..n /\ k - m \in 1..n
      BY <1>3, <1>6, <2>2
    <3>2. j - m = k - m
      BY <1>2, <3>1 DEF Once
    <3> QED BY <3>2
  <2> QED BY <1>7, <2>1, <2>2
<1> QED BY <1>1, <1>2, <1>3, <1>8 DEF Once
=============================================================================
