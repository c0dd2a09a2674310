-------------------------- MODULE PathManager_proofs --------------------------
(***************************************************************************)
(* PathManager keeps an antichain of call paths and implements             *)
(* MaximalPaths, for every set of call paths.                              *)
(***************************************************************************)
EXTENDS PathManager, SequenceLemmas

\* The nodes on the way to a path are its non-empty prefixes.
LEMMA PrefixesAreIsPrefix ==
  ASSUME NEW S, NEW p \in Seq(S) \ {<<>>}, NEW q \in Seq(S)
  PROVE  p \in PrefixesOf(q) <=> IsPrefix(p, q)
<1>1. SubSeq(p, 1, Len(p)) = p
  BY SubSeqFull
<1>2. /\ Len(p) \in Nat \ {0} /\ Len(q) \in Nat
      /\ \A i \in 1..Len(q) : q[i] \in S
  BY EmptySeq, LenProperties, ElementOfSeq
<1>3. ASSUME p \in PrefixesOf(q) PROVE IsPrefix(p, q)
  <2>1. PICK n \in 1..Len(q) : p = SubSeq(q, 1, n)
    BY <1>3 DEF PrefixesOf
  <2>2. n \in Int /\ \A i \in 1..n : q[i] \in S
    BY <1>2
  <2>3. Len(SubSeq(q, 1, n)) = IF 1 <= n THEN n - 1 + 1 ELSE 0
    BY <2>2, SubSeqProperties
  <2>4. Len(p) = n
    BY <2>1, <2>3
  <2> QED BY <1>1, <1>2, <2>1, <2>4 DEF IsPrefix
<1>4. ASSUME IsPrefix(p, q) PROVE p \in PrefixesOf(q)
  <2>1. Len(p) \in 1..Len(q)
    BY <1>2, <1>4 DEF IsPrefix
  <2>2. p = SubSeq(q, 1, Len(p))
    BY <1>1, <1>4 DEF IsPrefix
  <2> QED BY <2>1, <2>2 DEF PrefixesOf
<1> QED BY <1>3, <1>4

\* The paths are non-empty sequences of call sites, those of any subset too.
LEMMA PathsAreSeqs == \A p \in Paths : p \in Seq(Sites) \ {<<>>} /\ p \in Seq(Sites)
BY PathsAssumption

\* Every path is one of its own prefixes.
LEMMA PathInOwnPrefixes == \A p \in Paths : p \in PrefixesOf(p)
BY PathsAreSeqs, PrefixesAreIsPrefix, PrefixOrder

-----------------------------------------------------------------------------
\* The test of the trie is the rule: a path is known when it is a prefix of one
\* that is kept.
LEMMA KnownMeansPrefix ==
  ASSUME TypeOK, NEW p \in Paths
  PROVE  Known(p) <=> \E q \in paths : IsPrefix(p, q)
<1>1. ASSUME Known(p) PROVE \E q \in paths : IsPrefix(p, q)
  <2>1. PICK q \in paths : p \in PrefixesOf(q)
    BY <1>1 DEF Known, TypeOK
  <2> QED BY <2>1, PathsAreSeqs, PrefixesAreIsPrefix DEF TypeOK
<1>2. ASSUME NEW q \in paths, IsPrefix(p, q) PROVE Known(p)
  <2>1. p \in PrefixesOf(q) /\ p \in nodes /\ q \in Paths
    BY <1>2, PathsAreSeqs, PrefixesAreIsPrefix DEF TypeOK
  <2>2. CASE p = q
    BY <2>1, <2>2, <1>2 DEF Known, TypeOK
  <2>3. CASE p # q
    <3>1. /\ Len(p) \in Nat \ {0} /\ Len(q) \in Nat
          /\ \A i \in 1..Len(q) : q[i] \in Sites
          /\ SubSeq(p, 1, Len(p)) = p /\ SubSeq(q, 1, Len(q)) = q
      BY <2>1, PathsAreSeqs, EmptySeq, LenProperties, ElementOfSeq, SubSeqFull
    <3>2. Len(p) + 1 \in 1..Len(q)
      BY <3>1, <1>2, <2>3 DEF IsPrefix
    <3> DEFINE c == SubSeq(q, 1, Len(p) + 1)
    <3>3. c \in nodes
      BY <3>2 DEF PrefixesOf, TypeOK
    <3>4. Len(c) = Len(p) + 1
      <4>1. \A i \in 1..(Len(p) + 1) : q[i] \in Sites
        BY <3>1, <3>2
      <4>2. Len(c) = IF 1 <= Len(p) + 1 THEN Len(p) + 1 - 1 + 1 ELSE 0
        BY <4>1, <3>1, SubSeqProperties
      <4> QED BY <4>2, <3>1
    <3>5. SubSeq(c, 1, Len(p)) = SubSeq(q, 1, Len(p))
      <4>1. SubSeq(c, 1, Len(p)) = SubSeq(q, 1 + 1 - 1, 1 + Len(p) - 1)
        BY <2>1, <3>1, <3>2, PathsAreSeqs, SubSeqOfSubSeq, 1 \in 1..Len(q),
           1 \in 1..(Len(p) + 1 - 1 + 1), Len(p) \in 1..(Len(p) + 1 - 1 + 1)
      <4> QED BY <4>1, <3>1
    <3>6. IsPrefix(p, c)
      BY <3>1, <3>4, <3>5, <1>2 DEF IsPrefix
    <3> QED BY <2>1, <3>3, <3>4, <3>6 DEF Known, HasChildren
  <2> QED BY <2>2, <2>3
<1> QED BY <1>1, <1>2

\* What is replaced by a path are the kept paths that are its proper prefixes.
LEMMA ReplacedArePrefixes ==
  ASSUME TypeOK, NEW p \in Paths
  PROVE  Replaced(p) = {q \in paths : IsPrefix(q, p) /\ q # p}
BY PathsAreSeqs, PrefixesAreIsPrefix DEF Replaced, TypeOK

\* Adding a path that is not known is the rule.
LEMMA AddIsWithPath ==
  ASSUME TypeOK, NEW p \in Paths, AddPath(p)
  PROVE  paths' = WithPath(paths, p)
<1>1. ~ \E q \in paths : IsPrefix(p, q)
  BY KnownMeansPrefix DEF AddPath
<1>2. paths' = (paths \ Replaced(p)) \union {p} /\ p \notin paths
  BY DEF AddPath, TypeOK
<1> QED BY <1>1, <1>2, ReplacedArePrefixes DEF WithPath

-----------------------------------------------------------------------------
\* The trie and the two sets of paths stay in step, whatever paths are added.
THEOREM TypeCorrect == Spec => []TypeOK
<1>1. Init => TypeOK
  BY DEF Init, TypeOK
<1>2. TypeOK /\ [Next]_vars => TypeOK'
  <2> SUFFICES ASSUME TypeOK, [Next]_vars PROVE TypeOK'
    OBVIOUS
  <2>1. ASSUME NEW p \in Paths, AddPath(p) PROVE TypeOK'
    <3>1. paths' = (paths \ Replaced(p)) \union {p}
      BY <2>1 DEF AddPath, TypeOK
    <3>2. paths' \subseteq Paths
      BY <3>1 DEF TypeOK
    <3>3. terminal' = paths' /\ trie_paths' = paths'
      BY <2>1 DEF AddPath, TypeOK
    <3>4. nodes' = nodes \union PrefixesOf(p)
      BY <2>1 DEF AddPath
    <3>5. \A q \in Replaced(p) : PrefixesOf(q) \subseteq PrefixesOf(p)
      <4> SUFFICES ASSUME NEW q \in Replaced(p), NEW r \in PrefixesOf(q)
                   PROVE  r \in PrefixesOf(p)
        OBVIOUS
      <4>1. q \in Paths /\ IsPrefix(q, p)
        BY ReplacedArePrefixes DEF TypeOK
      <4>2. PICK n \in 1..Len(q) : r = SubSeq(q, 1, n)
        BY DEF PrefixesOf
      <4>3. /\ Len(q) \in Nat /\ \A i \in 1..n : q[i] \in Sites
        BY <4>1, PathsAreSeqs, LenProperties, ElementOfSeq
      <4>4. r \in Seq(Sites) /\ Len(r) = IF 1 <= n THEN n - 1 + 1 ELSE 0
        BY <4>2, <4>3, SubSeqProperties
      <4>5. r \in Seq(Sites) \ {<<>>}
        BY <4>4, EmptySeq
      <4>6. IsPrefix(r, q)
        BY <4>1, <4>2, <4>5, PathsAreSeqs, PrefixesAreIsPrefix DEF PrefixesOf
      <4>7. IsPrefix(r, p)
        BY <4>1, <4>5, <4>6, PathsAreSeqs, PrefixOrder
      <4> QED BY <4>5, <4>7, PathsAreSeqs, PrefixesAreIsPrefix
    <3>6. nodes' = UNION {PrefixesOf(q) : q \in paths'}
      BY <3>1, <3>4, <3>5 DEF TypeOK, Replaced
    <3> QED BY <3>2, <3>3, <3>6 DEF TypeOK
  <2>2. ASSUME NEW p \in Paths, RejectPath(p) PROVE TypeOK'
    BY <2>2 DEF RejectPath, vars, trie, TypeOK
  <2>3. CASE UNCHANGED vars
    BY <2>3 DEF vars, trie, TypeOK
  <2> QED BY <2>1, <2>2, <2>3 DEF Next
<1> QED BY <1>1, <1>2, PTL DEF Spec

-----------------------------------------------------------------------------
\* No kept path is a prefix of another one.
THEOREM AntichainKept == Spec => []NoPrefixKept
<1>1. Init => NoPrefixKept
  BY DEF Init, NoPrefixKept, NoPrefixAmong
<1>2. TypeOK /\ NoPrefixKept /\ [Next]_vars => NoPrefixKept'
  <2> SUFFICES ASSUME TypeOK, NoPrefixKept, [Next]_vars PROVE NoPrefixKept'
    OBVIOUS
  <2>1. ASSUME NEW p \in Paths, AddPath(p) PROVE NoPrefixKept'
    <3>1. ~ \E q \in paths : IsPrefix(p, q)
      BY <2>1, KnownMeansPrefix DEF AddPath
    <3>2. paths' = {q \in paths : ~IsPrefix(q, p)} \union {p}
      BY <2>1, <3>1, AddIsWithPath DEF WithPath
    <3> QED BY <3>1, <3>2 DEF NoPrefixKept, NoPrefixAmong
  <2>2. ASSUME NEW p \in Paths, RejectPath(p) PROVE NoPrefixKept'
    BY <2>2 DEF RejectPath, vars, NoPrefixKept, NoPrefixAmong
  <2>3. CASE UNCHANGED vars
    BY <2>3 DEF vars, NoPrefixKept, NoPrefixAmong
  <2> QED BY <2>1, <2>2, <2>3 DEF Next
<1> QED BY <1>1, <1>2, TypeCorrect, PTL DEF Spec

\* A path is turned down only when the rules say so.
THEOREM RejectionsJustified == Spec => []RejectionJustified
<1>1. TypeOK => RejectionJustified
  BY KnownMeansPrefix DEF RejectionJustified
<1> QED BY <1>1, TypeCorrect, PTL

\* Each path that is kept stays, or gives way to a longer one.
THEOREM NothingIsLost == Spec => NothingLost
<1>1. TypeOK /\ [Next]_vars => [\A p \in paths : \E q \in paths' : IsPrefix(p, q)]_vars
  <2> SUFFICES ASSUME TypeOK, Next, NEW p \in paths
               PROVE  \E q \in paths' : IsPrefix(p, q)
    OBVIOUS
  <2>1. p \in Paths /\ IsPrefix(p, p)
    BY PathsAreSeqs, PrefixOrder DEF TypeOK
  <2>2. ASSUME NEW r \in Paths, AddPath(r) PROVE \E q \in paths' : IsPrefix(p, q)
    <3>1. paths' = (paths \ Replaced(r)) \union {r}
      BY <2>2 DEF AddPath, TypeOK
    <3> QED BY <2>1, <3>1, ReplacedArePrefixes
  <2>3. ASSUME NEW r \in Paths, RejectPath(r) PROVE \E q \in paths' : IsPrefix(p, q)
    BY <2>1, <2>3 DEF RejectPath, vars
  <2> QED BY <2>2, <2>3 DEF Next
<1> QED BY <1>1, TypeCorrect, PTL DEF Spec, NothingLost

\* The trie implements the rules on the paths without a negative id: what is kept
\* is the maximal ones of the paths that were added.
THEOREM ImplementsRules == Spec => RulesSpec
<1>1. Init => Rules!Init
  BY DEF Init, Rules!Init
<1>2. TypeOK /\ [Next]_vars => [Rules!Next]_paths
  <2> SUFFICES ASSUME TypeOK, [Next]_vars, paths' # paths PROVE Rules!Next
    OBVIOUS
  <2>1. PICK p \in Paths : AddPath(p)
    BY DEF Next, RejectPath, vars
  <2>2. p \in Paths \ Negative
    BY <2>1 DEF AddPath
  <2>3. paths' = WithPath(paths, p)
    BY <2>1, AddIsWithPath
  <2>4. Rules!Add(p)
    BY <2>3 DEF Rules!Add, Rules!WithPath, WithPath, Rules!IsPrefix, IsPrefix
  <2> QED BY <2>2, <2>4 DEF Rules!Next
<1> QED BY <1>1, <1>2, TypeCorrect, PTL DEF Spec, RulesSpec, Rules!Spec
=============================================================================
