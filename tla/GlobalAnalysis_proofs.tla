------------------------ MODULE GlobalAnalysis_proofs ------------------------
(***************************************************************************)
(* For every program, the stack of phase P3 is a chain of calls that the   *)
(* methods bound, every call path that is walked is kept, and a call is    *)
(* passed over only when the summaries of its callees are there or the     *)
(* call lies on a cycle.                                                   *)
(***************************************************************************)
EXTENDS GlobalAnalysis, SequenceLemmas, FiniteSetTheorems

(* Call paths: how often they come back, and how a set of them grows. *)

\* The cycles of a path are finitely many.
LEMMA CyclesFinite ==
  ASSUME NEW S, NEW p \in Seq(S)
  PROVE  /\ IsFiniteSet(DOMAIN p) /\ Cardinality(DOMAIN p) = Len(p)
         /\ CyclesAt(p) \subseteq DOMAIN p
         /\ IsFiniteSet(CyclesAt(p)) /\ CountCycles(p) \in Nat
<1>1. Len(p) \in Nat /\ DOMAIN p = 1..Len(p)
  BY LenProperties
<1>2. IsFiniteSet(1..Len(p)) /\ Cardinality(1..Len(p)) = Len(p)
  BY <1>1, FS_Interval
<1>3. CyclesAt(p) \subseteq DOMAIN p
  BY DEF CyclesAt
<1>4. IsFiniteSet(CyclesAt(p))
  BY <1>1, <1>2, <1>3, FS_Subset
<1> QED BY <1>1, <1>2, <1>3, <1>4, FS_CardinalityType DEF CountCycles

\* A path with at most one cycle comes back in one place.
LEMMA OneCycle ==
  ASSUME NEW S, NEW p \in Seq(S), CountCycles(p) <= 1,
         NEW i \in CyclesAt(p), NEW j \in CyclesAt(p)
  PROVE  i = j
<1>1. IsFiniteSet(CyclesAt(p)) /\ CountCycles(p) \in Nat
  BY CyclesFinite
<1>2. CountCycles(p) = 1
  <2>1. CountCycles(p) # 0
    BY <1>1, FS_EmptySet DEF CountCycles
  <2> QED BY <1>1, <2>1
<1>3. \E x : CyclesAt(p) = {x}
  BY <1>1, <1>2, FS_Singleton DEF CountCycles
<1> QED BY <1>3

\* A path with at most one cycle is at most one longer than there are methods: the
\* callees in all other places differ.
LEMMA CyclesBoundLength ==
  ASSUME NEW S, NEW p \in Seq(S), CountCycles(p) <= 1,
         \A site \in S : Callee(site) \in Methods
  PROVE  Len(p) <= Cardinality(Methods) + 1
<1> DEFINE N == DOMAIN p \ CyclesAt(p)
           f == [i \in N |-> Callee(p[i])]
<1>1. /\ IsFiniteSet(DOMAIN p) /\ Cardinality(DOMAIN p) = Len(p) /\ Len(p) \in Nat
      /\ DOMAIN p = 1..Len(p)
      /\ CyclesAt(p) \subseteq DOMAIN p /\ CountCycles(p) \in Nat
  BY CyclesFinite, LenProperties
<1>2. Cardinality(N) = Len(p) - CountCycles(p)
  <2>1. DOMAIN p \cap CyclesAt(p) = CyclesAt(p)
    BY <1>1
  <2> QED BY <1>1, <2>1, FS_Difference DEF CountCycles
<1>3. f \in [N -> Methods]
  BY <1>1, ElementOfSeq
<1>4. ASSUME NEW i \in N, NEW j \in N, f[i] = f[j] PROVE i = j
  <2>1. i \in Nat /\ j \in Nat
    BY <1>1
  <2>2. ~(i < j) /\ ~(j < i)
    BY <1>4, <2>1, <1>1 DEF CyclesAt
  <2> QED BY <2>1, <2>2
<1>5. f \in Injection(N, Methods)
  BY <1>3, <1>4 DEF Injection, IsInjective
<1>6. Cardinality(N) <= Cardinality(Methods)
  BY <1>5, MethodsAssumption, FS_Injection
<1> QED BY <1>1, <1>2, <1>6, MethodsAssumption, FS_CardinalityType

\* Only the last call can add a cycle to a path.
LEMMA CycleAtEnd ==
  ASSUME NEW S, NEW p \in Seq(S), NEW x \in S,
         CountCycles(p) <= 1, CountCycles(Append(p, x)) > 1
  PROVE  \E j \in 1..Len(p) : Callee(x) \in {Caller(p[j]), Callee(p[j])}
<1> DEFINE q == Append(p, x)
<1>1. /\ Len(p) \in Nat /\ DOMAIN p = 1..Len(p) /\ DOMAIN q = 1..(Len(p) + 1)
      /\ q[Len(p) + 1] = x /\ \A i \in 1..Len(p) : q[i] = p[i]
  BY AppendProperties, LenProperties
<1>2. CyclesAt(q) # CyclesAt(p)
  <2>1. CountCycles(p) \in Nat /\ CountCycles(q) = CountCycles(Append(p, x))
    BY CyclesFinite
  <2> QED BY <2>1 DEF CountCycles
<1>3. \A i \in 1..Len(p) : i \in CyclesAt(q) <=> i \in CyclesAt(p)
  BY <1>1 DEF CyclesAt
<1>4. Len(p) + 1 \in CyclesAt(q)
  BY <1>1, <1>2, <1>3 DEF CyclesAt
<1> QED BY <1>1, <1>4 DEF CyclesAt

\* Paths that are added to kept ones are not lost, and no kept path becomes a
\* prefix of another one.
LEMMA WithPathsProperties ==
  ASSUME NEW S, NEW kept \in SUBSET Seq(S), NEW ps \in SUBSET Seq(S),
         NoPrefixAmong(kept), NoPrefixAmong(ps)
  PROVE  /\ WithPaths(kept, ps) \subseteq kept \union ps
         /\ \A q \in kept \union ps : \E r \in WithPaths(kept, ps) : IsPrefix(q, r)
         /\ NoPrefixAmong(WithPaths(kept, ps))
<1> DEFINE new == {p \in ps : ~ \E q \in kept : IsPrefix(p, q)}
           old == {q \in kept : ~ \E p \in new : IsPrefix(q, p)}
<1>1. WithPaths(kept, ps) = old \union new
  BY DEF WithPaths
<1>2. /\ \A p \in kept \union ps : IsPrefix(p, p)
      /\ \A p, q, r \in kept \union ps : IsPrefix(p, q) /\ IsPrefix(q, r) => IsPrefix(p, r)
  BY PrefixOrder
<1>3. \A q \in kept : \E r \in old \union new : IsPrefix(q, r)
  BY <1>2
<1>4. \A p \in ps : \E r \in old \union new : IsPrefix(p, r)
  <2> SUFFICES ASSUME NEW p \in ps, p \notin new PROVE \E r \in old \union new : IsPrefix(p, r)
    BY <1>2
  <2>1. PICK q \in kept : IsPrefix(p, q)
    OBVIOUS
  <2>2. PICK r \in old \union new : IsPrefix(q, r)
    BY <1>3
  <2> QED BY <2>1, <2>2, <1>2
<1>5. NoPrefixAmong(old \union new)
  BY DEF NoPrefixAmong
<1> QED BY <1>1, <1>3, <1>4, <1>5

\* Adding one path is adding a set of one.
LEMMA WithPathIsOne ==
  ASSUME NEW S, NEW kept, NEW p \in Seq(S)
  PROVE  WithPath(kept, p) = WithPaths(kept, {p})
<1>1. IsPrefix(p, p)
  BY PrefixOrder
<1> QED BY <1>1 DEF WithPath, WithPaths

-----------------------------------------------------------------------------
(* The inductive invariant. *)

CallSites == SitesOf(program) \union {EntrySite(m) : m \in Methods}

\* What a frame may know of the callees it waits for.
Contents == UNION {[sites -> BOOLEAN] : sites \in SUBSET SitesOf(program)}

FramesOf(m) ==
  [call_site       : {site \in CallSites : Callee(site) = m},
   has_been_inited : BOOLEAN,
   call_path       : Seq(SitesOf(program)),
   content_already_analyzed : Contents,
   stmt_counters   : [program.stmts[m] -> 0..Rounds]]

Frames == UNION {FramesOf(m) : m \in Methods}

\* Type invariant.
TypeOK ==
  /\ program \in Programs
  /\ todo \subseteq Methods
  /\ frame_stack \in Seq(Frames)
  /\ call_site_analyze_counter \in [SitesOf(program) -> Nat]
  /\ paths \subseteq Seq(SitesOf(program))
  /\ summaries \subseteq CallSites
  /\ walked \subseteq Seq(SitesOf(program))

\* Only the frame at the top may be new, and a new one waits for nothing; a frame
\* waits for callees of its own method.
InOrder(stack, i) ==
  /\ i < Len(stack) => stack[i].has_been_inited
  /\ ~stack[i].has_been_inited => DOMAIN stack[i].content_already_analyzed = {}
  /\ \A site \in DOMAIN stack[i].content_already_analyzed : Caller(site) = MethodOf(stack[i])

\* StackIsCallChain, for one frame.
CalledFromBelow(stack, i) ==
  /\ i = 1 => stack[i].call_path = <<>>
  /\ i > 1 =>
       /\ Caller(stack[i].call_site) = MethodOf(stack[i - 1])
       /\ stack[i].call_site \in DOMAIN stack[i - 1].content_already_analyzed
       /\ stack[i - 1].content_already_analyzed[stack[i].call_site]
       /\ stack[i].has_been_inited =>
            stack[i].call_path = Append(stack[i - 1].call_path, stack[i].call_site)

\* The call path of a frame is made of the call sites of the frames up to it.
PathIsOnStack(stack, i) ==
  stack[i].has_been_inited =>
    /\ Len(stack[i].call_path) = i - 1
    /\ \A k \in 1..(i - 1) : stack[i].call_path[k] = stack[k + 1].call_site

\* No frame is on a call path, or waits for a callee on one, with two cycles.
CyclesCut(stack, i) ==
  stack[i].has_been_inited =>
    /\ CountCycles(stack[i].call_path) <= 1
    /\ \A site \in DOMAIN stack[i].content_already_analyzed :
         CountCycles(Append(stack[i].call_path, site)) <= 1

SoundAt(stack, i) ==
  InOrder(stack, i) /\ CalledFromBelow(stack, i) /\ PathIsOnStack(stack, i) /\ CyclesCut(stack, i)

StackInv == \A i \in DOMAIN frame_stack : SoundAt(frame_stack, i)

\* The methods of the frames above are called from those below.
ReachedFromBelow ==
  \A i, j \in DOMAIN frame_stack :
    j <= i => MethodOf(frame_stack[i]) \in CallReach(program, MethodOf(frame_stack[j]))

\* What SummaryThereWhenApplied says of a call site.
Settled(site) ==
  \/ site \in summaries
  \/ Callee(site) \notin program.has_body
  \/ Caller(site) \in CallReach(program, Callee(site))

\* A path that is kept ends in a settled call site or is being walked.
KeptPathsSettled ==
  \A p \in paths :
    \/ Settled(Last(p))
    \/ \E i \in DOMAIN frame_stack :
         i > 1 /\ frame_stack[i].has_been_inited /\ frame_stack[i].call_path = p

\* A callee that got its frame is settled or still has it.
HandedOnSettled ==
  \A i \in DOMAIN frame_stack :
    \A site \in DOMAIN frame_stack[i].content_already_analyzed :
      frame_stack[i].content_already_analyzed[site] =>
        \/ Settled(site)
        \/ i < Len(frame_stack) /\ frame_stack[i + 1].call_site = site

WaitingFor(site) == {i \in DOMAIN frame_stack : site \in PendingOf(frame_stack[i])}

\* As long as a call site is neither settled nor walked, it was counted at most once
\* for each frame that waits for it.
CountedOnceAFrame ==
  \A site \in SitesOf(program) :
    \/ Settled(site)
    \/ \E i \in DOMAIN frame_stack : i > 1 /\ frame_stack[i].call_site = site
    \/ call_site_analyze_counter[site] <= Cardinality(WaitingFor(site))

SummaryInv == ReachedFromBelow /\ KeptPathsSettled /\ HandedOnSettled /\ CountedOnceAFrame

IInv == TypeOK /\ StackInv /\ WalkedPathsKept /\ SummaryInv

-----------------------------------------------------------------------------
(* Programs and their calls. *)

\* The ends of a call site are methods.
LEMMA SitesAreCalls ==
  ASSUME NEW p \in Programs, NEW site \in SitesOf(p)
  PROVE  Caller(site) \in Methods /\ Callee(site) \in Methods
<1>1. IsProgram(p)
  BY ProgramAssumption
<1>2. PICK m \in Methods : \E s \in p.stmts[m] : \E c \in p.callees[s] : site = CallSite(m, s, c)
  BY DEF SitesOf
<1>3. PICK s \in p.stmts[m] : \E c \in p.callees[s] : site = CallSite(m, s, c)
  BY <1>2
<1>4. PICK c \in p.callees[s] : site = CallSite(m, s, c)
  BY <1>3
<1>5. c \in Methods
  BY <1>1 DEF IsProgram
<1> QED BY <1>4, <1>5 DEF CallSite, Caller, Callee

\* The call sites of a call of the method are call sites of the program.
LEMMA SitesAtProperties ==
  ASSUME NEW m \in Methods, NEW s \in program.stmts[m], NEW site \in SitesAt(m, s)
  PROVE  site \in SitesOf(program) /\ Caller(site) = m
<1>1. PICK c \in program.callees[s] : site = CallSite(m, s, c)
  BY DEF SitesAt
<1> QED BY <1>1 DEF SitesOf, CallSite, Caller

\* CallReach holds the method and is closed under calls.
LEMMA CallReachProperties ==
  ASSUME program \in Programs, NEW m \in Methods
  PROVE  /\ m \in CallReach(program, m)
         /\ \A site \in SitesOf(program) :
              Caller(site) \in CallReach(program, m) => Callee(site) \in CallReach(program, m)
<1>1. m \in CallReach(program, m)
  BY DEF CallReach
<1>2. ASSUME NEW site \in SitesOf(program), Caller(site) \in CallReach(program, m)
      PROVE  Callee(site) \in CallReach(program, m)
  <2>1. Callee(site) \in Methods
    BY SitesAreCalls
  <2> QED BY <1>2, <2>1 DEF CallReach
<1> QED BY <1>1, <1>2

-----------------------------------------------------------------------------
(* Frames and the stack of them. *)

\* A frame is one of its method.
LEMMA FrameOfItsMethod ==
  ASSUME NEW f
  PROVE  f \in Frames <=> MethodOf(f) \in Methods /\ f \in FramesOf(MethodOf(f))
<1>1. ASSUME NEW m \in Methods, f \in FramesOf(m) PROVE MethodOf(f) = m
  BY <1>1 DEF FramesOf, MethodOf
<1> QED BY <1>1 DEF Frames

\* The fields of a frame.
LEMMA FrameFields ==
  ASSUME NEW f \in Frames
  PROVE  /\ f.call_site \in CallSites /\ MethodOf(f) \in Methods
         /\ f.has_been_inited \in BOOLEAN
         /\ f.call_path \in Seq(SitesOf(program))
         /\ DOMAIN f.content_already_analyzed \subseteq SitesOf(program)
         /\ f.content_already_analyzed \in [DOMAIN f.content_already_analyzed -> BOOLEAN]
         /\ f.stmt_counters \in [program.stmts[MethodOf(f)] -> 0..Rounds]
<1>1. MethodOf(f) \in Methods /\ f \in FramesOf(MethodOf(f))
  BY FrameOfItsMethod
<1>2. /\ f.call_site \in CallSites /\ f.has_been_inited \in BOOLEAN
      /\ f.call_path \in Seq(SitesOf(program)) /\ f.content_already_analyzed \in Contents
      /\ f.stmt_counters \in [program.stmts[MethodOf(f)] -> 0..Rounds]
  BY <1>1 DEF FramesOf
<1>3. \A content \in Contents :
        DOMAIN content \subseteq SitesOf(program) /\ content \in [DOMAIN content -> BOOLEAN]
  BY DEF Contents
<1> QED BY <1>1, <1>2, <1>3

\* A new frame is one that waits for nothing.
LEMMA NewFrameFields ==
  ASSUME NEW site \in CallSites, Callee(site) \in Methods
  PROVE  /\ NewFrame(site) \in Frames
         /\ NewFrame(site).call_site = site /\ MethodOf(NewFrame(site)) = Callee(site)
         /\ NewFrame(site).has_been_inited = FALSE
         /\ NewFrame(site).call_path = <<>>
         /\ DOMAIN NewFrame(site).content_already_analyzed = {}
<1>1. [s \in program.stmts[Callee(site)] |-> 0] \in [program.stmts[Callee(site)] -> 0..Rounds]
  BY BoundsAssumption
<1>2. <<>> \in Seq(SitesOf(program)) /\ DOMAIN <<>> = {} /\ <<>> \in [{} -> BOOLEAN]
  BY EmptySeq
<1>3. <<>> \in Contents
  BY <1>2 DEF Contents
<1>4. MethodOf(NewFrame(site)) = Callee(site)
  BY DEF NewFrame, MethodOf
<1>5. NewFrame(site) \in FramesOf(Callee(site))
  BY <1>1, <1>2, <1>3 DEF NewFrame, FramesOf
<1>6. NewFrame(site) \in Frames
  BY <1>4, <1>5, FrameOfItsMethod
<1> QED BY <1>2, <1>4, <1>6 DEF NewFrame

\* The frame at the top.
LEMMA TopFrame ==
  ASSUME TypeOK, frame_stack # <<>>
  PROVE  /\ Len(frame_stack) \in Nat \ {0}
         /\ DOMAIN frame_stack = 1..Len(frame_stack)
         /\ Top = frame_stack[Len(frame_stack)]
         /\ Top \in Frames
         /\ \A i \in DOMAIN frame_stack : frame_stack[i] \in Frames
<1>1. Len(frame_stack) \in Nat \ {0} /\ DOMAIN frame_stack = 1..Len(frame_stack)
  BY EmptySeq, LenProperties DEF TypeOK
<1>2. Top = frame_stack[Len(frame_stack)]
  BY DEF Top, Last
<1> QED BY <1>1, <1>2, ElementOfSeq DEF TypeOK

\* What is sound of a frame hangs on the frames up to it.
LEMMA SoundBelow ==
  ASSUME NEW old, NEW new, NEW i \in Nat \ {0}, \A k \in 1..i : new[k] = old[k],
         SoundAt(old, i), i < Len(new) => old[i].has_been_inited
  PROVE  SoundAt(new, i)
<1>1. /\ new[i] = old[i]
      /\ i > 1 => new[i - 1] = old[i - 1]
      /\ \A k \in 1..(i - 1) : new[k + 1] = old[k + 1]
  BY SMT
<1>2. InOrder(new, i)
  BY <1>1 DEF SoundAt, InOrder
<1>3. CalledFromBelow(new, i)
  BY <1>1 DEF SoundAt, CalledFromBelow
<1>4. PathIsOnStack(new, i)
  BY <1>1 DEF SoundAt, PathIsOnStack
<1>5. CyclesCut(new, i)
  BY <1>1 DEF SoundAt, CyclesCut
<1> QED BY <1>2, <1>3, <1>4, <1>5 DEF SoundAt

\* The empty path has no cycle.
LEMMA EmptyPath == CountCycles(<<>>) = 0
BY FS_EmptySet DEF CountCycles, CyclesAt

\* The call path of the frame at the top is what PathIsOnStack and CyclesCut ask for.
LEMMA PathOfTopProperties ==
  ASSUME TypeOK, StackInv, frame_stack # <<>>
  PROVE  /\ PathOfTop \in Seq(SitesOf(program))
         /\ Len(PathOfTop) = Len(frame_stack) - 1
         /\ \A k \in 1..(Len(frame_stack) - 1) : PathOfTop[k] = frame_stack[k + 1].call_site
         /\ CountCycles(PathOfTop) <= 1
         /\ Len(frame_stack) = 1 => PathOfTop = <<>>
         /\ Len(frame_stack) > 1 =>
              /\ PathOfTop = Append(frame_stack[Len(frame_stack) - 1].call_path, Top.call_site)
              /\ Top.call_site \in SitesOf(program)
              /\ Last(PathOfTop) = Top.call_site
<1> DEFINE n == Len(frame_stack)
<1>1. /\ n \in Nat \ {0} /\ DOMAIN frame_stack = 1..n /\ Top = frame_stack[n] /\ Top \in Frames
      /\ \A i \in 1..n : frame_stack[i] \in Frames
  BY TopFrame
<1>2. CASE n = 1
  <2>1. PathOfTop = <<>>
    BY <1>2 DEF PathOfTop
  <2>2. Len(<<>>) = 0 /\ <<>> \in Seq(SitesOf(program))
    OBVIOUS
  <2> QED BY <1>2, <2>1, <2>2, EmptyPath
<1>3. CASE n > 1
  <2>1. PICK k \in Nat \ {0} : n = k + 1
    <3>1. n - 1 \in Nat \ {0} /\ n = (n - 1) + 1
      BY <1>1, <1>3
    <3> QED BY <3>1
  <2> DEFINE below == frame_stack[k]
             path == below.call_path
             site == Top.call_site
  <2>2. k \in 1..n /\ k < n /\ n - 1 = k /\ n > 1 /\ n \in 1..n
    BY <2>1
  <2>3. SoundAt(frame_stack, k) /\ SoundAt(frame_stack, n) /\ below \in Frames
    BY <1>1, <2>2 DEF StackInv
  <2>4. Last(Below) = below
    <3>1. Len(Front(frame_stack)) = n - 1 /\ \A i \in 1..(n - 1) : Front(frame_stack)[i] = frame_stack[i]
      BY <1>1, PopTop DEF TypeOK
    <3>2. Len(Front(frame_stack)) = k /\ Front(frame_stack)[k] = frame_stack[k]
      BY <3>1, <2>1, <2>2
    <3> QED BY <3>2 DEF Last, Below
  <2>5. PathOfTop = Append(path, site)
    BY <2>2, <2>4 DEF PathOfTop
  <2>6. below.has_been_inited
    BY <2>2, <2>3 DEF SoundAt, InOrder
  <2>7. site \in DOMAIN below.content_already_analyzed
    BY <1>1, <2>2, <2>3 DEF SoundAt, CalledFromBelow
  <2>8. CountCycles(Append(path, site)) <= 1
    BY <2>3, <2>6, <2>7 DEF SoundAt, CyclesCut
  <2>9. Len(path) = k - 1 /\ \A j \in 1..(k - 1) : path[j] = frame_stack[j + 1].call_site
    BY <2>3, <2>6 DEF SoundAt, PathIsOnStack
  <2>10. site \in SitesOf(program) /\ path \in Seq(SitesOf(program))
    BY <2>3, <2>7, FrameFields
  <2> HIDE DEF below, path, site
  <2>11. Len(path) + 1 = k
    BY <2>1, <2>9
  <2>12. /\ Append(path, site) \in Seq(SitesOf(program)) /\ Len(Append(path, site)) = k
         /\ Append(path, site)[k] = site
         /\ \A j \in 1..(k - 1) : Append(path, site)[j] = path[j]
    BY <2>9, <2>10, <2>11, AppendProperties
  <2>13. \A j \in 1..k : Append(path, site)[j] = frame_stack[j + 1].call_site
    <3> SUFFICES ASSUME NEW j \in 1..k PROVE Append(path, site)[j] = frame_stack[j + 1].call_site
      OBVIOUS
    <3>1. CASE j = k
      BY <1>1, <2>1, <2>12, <3>1 DEF site
    <3>2. CASE j # k
      <4>1. j \in 1..(k - 1)
        BY <2>1, <3>2
      <4> QED BY <2>9, <2>12, <4>1, Zenon
    <3> QED BY <3>1, <3>2
  <2>14. PathOfTop = Append(frame_stack[k].call_path, Top.call_site)
    BY <2>5 DEF path, site, below
  <2>15. Last(PathOfTop) = Top.call_site
    BY <2>5, <2>12 DEF Last, site
  <2>16. PathOfTop \in Seq(SitesOf(program)) /\ Len(PathOfTop) = k /\ CountCycles(PathOfTop) <= 1
    BY <2>5, <2>8, <2>12
  <2>17. \A j \in 1..k : PathOfTop[j] = frame_stack[j + 1].call_site
    BY <2>5, <2>13
  <2>18. Top.call_site \in SitesOf(program) /\ Len(frame_stack) - 1 = k /\ Len(frame_stack) # 1
    BY <2>2, <2>10 DEF site
  <2> QED BY <2>14, <2>15, <2>16, <2>17, <2>18
<1>4. n = 1 \/ n > 1
  BY <1>1
<1> QED BY <1>2, <1>3, <1>4, Zenon

\* The changes that the actions make to the frame at the top.
Inited(f, path) == [f EXCEPT !.has_been_inited = TRUE, !.call_path = path]
Knowing(f, content) == [f EXCEPT !.content_already_analyzed = content]
Visited(f, counters) == [f EXCEPT !.stmt_counters = counters]

LEMMA FrameInited ==
  ASSUME NEW f \in Frames, NEW path \in Seq(SitesOf(program))
  PROVE  /\ Inited(f, path) \in Frames /\ Inited(f, path).call_site = f.call_site
         /\ MethodOf(Inited(f, path)) = MethodOf(f)
         /\ Inited(f, path).has_been_inited = TRUE /\ Inited(f, path).call_path = path
         /\ Inited(f, path).content_already_analyzed = f.content_already_analyzed
         /\ Inited(f, path).stmt_counters = f.stmt_counters
<1>1. MethodOf(f) \in Methods /\ f \in FramesOf(MethodOf(f))
  BY FrameOfItsMethod
<1>2. Inited(f, path) \in FramesOf(MethodOf(f))
  BY <1>1 DEF FramesOf, Inited
<1>3. /\ Inited(f, path).call_site = f.call_site /\ Inited(f, path).has_been_inited = TRUE
      /\ Inited(f, path).call_path = path
      /\ Inited(f, path).content_already_analyzed = f.content_already_analyzed
      /\ Inited(f, path).stmt_counters = f.stmt_counters
  BY <1>1 DEF FramesOf, Inited
<1>4. MethodOf(Inited(f, path)) = MethodOf(f)
  BY <1>3 DEF MethodOf
<1> QED BY <1>1, <1>2, <1>3, <1>4, FrameOfItsMethod

LEMMA FrameContent ==
  ASSUME NEW f \in Frames, NEW sites \in SUBSET SitesOf(program),
         NEW content \in [sites -> BOOLEAN]
  PROVE  /\ Knowing(f, content) \in Frames /\ Knowing(f, content).call_site = f.call_site
         /\ MethodOf(Knowing(f, content)) = MethodOf(f)
         /\ Knowing(f, content).has_been_inited = f.has_been_inited
         /\ Knowing(f, content).call_path = f.call_path
         /\ Knowing(f, content).content_already_analyzed = content
<1>1. MethodOf(f) \in Methods /\ f \in FramesOf(MethodOf(f))
  BY FrameOfItsMethod
<1>2. content \in Contents
  BY DEF Contents
<1>3. Knowing(f, content) \in FramesOf(MethodOf(f))
  BY <1>1, <1>2 DEF FramesOf, Knowing
<1>4. /\ Knowing(f, content).call_site = f.call_site
      /\ Knowing(f, content).has_been_inited = f.has_been_inited
      /\ Knowing(f, content).call_path = f.call_path
      /\ Knowing(f, content).content_already_analyzed = content
  BY <1>1 DEF FramesOf, Knowing
<1>5. MethodOf(Knowing(f, content)) = MethodOf(f)
  BY <1>4 DEF MethodOf
<1> QED BY <1>1, <1>3, <1>4, <1>5, FrameOfItsMethod

LEMMA FrameCounted ==
  ASSUME NEW f \in Frames, NEW counters \in [program.stmts[MethodOf(f)] -> 0..Rounds]
  PROVE  /\ Visited(f, counters) \in Frames /\ Visited(f, counters).call_site = f.call_site
         /\ MethodOf(Visited(f, counters)) = MethodOf(f)
         /\ Visited(f, counters).has_been_inited = f.has_been_inited
         /\ Visited(f, counters).call_path = f.call_path
         /\ Visited(f, counters).content_already_analyzed = f.content_already_analyzed
         /\ Visited(f, counters).stmt_counters = counters
<1>1. MethodOf(f) \in Methods /\ f \in FramesOf(MethodOf(f))
  BY FrameOfItsMethod
<1>2. Visited(f, counters) \in FramesOf(MethodOf(f))
  BY <1>1 DEF FramesOf, Visited
<1>3. /\ Visited(f, counters).call_site = f.call_site
      /\ Visited(f, counters).has_been_inited = f.has_been_inited
      /\ Visited(f, counters).call_path = f.call_path
      /\ Visited(f, counters).content_already_analyzed = f.content_already_analyzed
      /\ Visited(f, counters).stmt_counters = counters
  BY <1>1 DEF FramesOf, Visited
<1>4. MethodOf(Visited(f, counters)) = MethodOf(f)
  BY <1>3 DEF MethodOf
<1> QED BY <1>1, <1>2, <1>3, <1>4, FrameOfItsMethod

-----------------------------------------------------------------------------
(* How the actions change the stack. *)

\* The type invariant, from what a step leaves in the variables.
LEMMA Retype ==
  ASSUME TypeOK, program' = program, todo' \subseteq Methods, frame_stack' \in Seq(Frames),
         call_site_analyze_counter' \in [SitesOf(program) -> Nat],
         paths' \subseteq Seq(SitesOf(program)), walked' \subseteq Seq(SitesOf(program)),
         summaries' \subseteq CallSites
  PROVE  TypeOK'
<1>1. Frames' = Frames /\ CallSites' = CallSites
  BY DEF Frames, FramesOf, Contents, CallSites
<1> QED BY <1>1 DEF TypeOK

\* The frames below the top stay sound whatever the top becomes.
LEMMA BelowStaysSound ==
  ASSUME TypeOK, StackInv, frame_stack # <<>>, NEW stack,
         \A k \in 1..(Len(frame_stack) - 1) : stack[k] = frame_stack[k]
  PROVE  \A i \in 1..(Len(frame_stack) - 1) : SoundAt(stack, i)
<1> SUFFICES ASSUME NEW i \in 1..(Len(frame_stack) - 1) PROVE SoundAt(stack, i)
  OBVIOUS
<1>1. /\ i \in Nat \ {0} /\ i \in DOMAIN frame_stack /\ i < Len(frame_stack)
      /\ \A k \in 1..i : stack[k] = frame_stack[k]
  BY TopFrame
<1>2. SoundAt(frame_stack, i) /\ frame_stack[i].has_been_inited
  BY <1>1 DEF StackInv, SoundAt, InOrder
<1> QED BY <1>1, <1>2, SoundBelow

\* The top is replaced by a frame for the same call site: it is sound when its path
\* is the one of its place and it waits for no callee on a path with two cycles.
LEMMA TopReplaced ==
  ASSUME TypeOK, StackInv, frame_stack # <<>>, NEW f \in Frames, Replace(f),
         f.call_site = Top.call_site, f.call_path = PathOfTop, f.has_been_inited,
         \A site \in DOMAIN f.content_already_analyzed :
           Caller(site) = MethodOf(Top) /\ CountCycles(Append(f.call_path, site)) <= 1
  PROVE  /\ frame_stack' \in Seq(Frames) /\ StackInv'
         /\ Len(frame_stack') = Len(frame_stack)
         /\ DOMAIN frame_stack' = DOMAIN frame_stack
         /\ frame_stack'[Len(frame_stack)] = f
         /\ \A i \in 1..(Len(frame_stack) - 1) : frame_stack'[i] = frame_stack[i]
<1> DEFINE n == Len(frame_stack)
<1>1. n \in Nat \ {0} /\ DOMAIN frame_stack = 1..n /\ Top = frame_stack[n]
  BY TopFrame
<1>2. /\ frame_stack' \in Seq(Frames) /\ Len(frame_stack') = n
      /\ frame_stack'[n] = f
      /\ \A i \in 1..(n - 1) : frame_stack'[i] = frame_stack[i]
  BY ReplaceTop DEF TypeOK, Replace, Below
<1>3. DOMAIN frame_stack' = 1..n
  BY <1>2, LenProperties
<1>4. SoundAt(frame_stack', n)
  <2>1. SoundAt(frame_stack, n)
    BY <1>1 DEF StackInv
  <2>2. MethodOf(f) = MethodOf(Top)
    BY DEF MethodOf
  <2>3. InOrder(frame_stack', n)
    BY <1>1, <1>2, <2>2 DEF InOrder
  <2>4. CalledFromBelow(frame_stack', n)
    <3>1. CASE n = 1
      BY <1>2, <3>1, PathOfTopProperties DEF CalledFromBelow
    <3>2. CASE n > 1
      <4>1. frame_stack'[n - 1] = frame_stack[n - 1]
        BY <1>1, <1>2, <3>2
      <4>2. PathOfTop = Append(frame_stack[n - 1].call_path, Top.call_site)
        BY <3>2, PathOfTopProperties
      <4> QED BY <1>1, <1>2, <2>1, <3>2, <4>1, <4>2 DEF SoundAt, CalledFromBelow
    <3> QED BY <1>1, <3>1, <3>2
  <2>5. PathIsOnStack(frame_stack', n)
    <3>1. Len(f.call_path) = n - 1 /\ \A k \in 1..(n - 1) : f.call_path[k] = frame_stack[k + 1].call_site
      BY PathOfTopProperties
    <3>2. ASSUME NEW k \in 1..(n - 1) PROVE frame_stack'[k + 1].call_site = frame_stack[k + 1].call_site
      <4>1. CASE k + 1 = n
        BY <1>1, <1>2, <4>1
      <4>2. CASE k + 1 # n
        <5>1. k \in Int /\ 1 <= k /\ k <= n - 1
          BY <1>1
        <5>2. k + 1 \in 1..(n - 1)
          <6> HIDE DEF n
          <6> QED BY <1>1, <4>2, <5>1
        <5> QED BY <1>2, <5>2
      <4> QED BY <4>1, <4>2
    <3> QED BY <1>2, <3>1, <3>2 DEF PathIsOnStack
  <2>6. CyclesCut(frame_stack', n)
    BY <1>2, PathOfTopProperties DEF CyclesCut
  <2> QED BY <2>3, <2>4, <2>5, <2>6 DEF SoundAt
<1>5. \A i \in 1..(n - 1) : SoundAt(frame_stack', i)
  BY <1>2, BelowStaysSound
<1>6. StackInv'
  <2>1. \A i \in 1..n : SoundAt(frame_stack', i)
    BY <1>1, <1>4, <1>5
  <2> QED BY <1>3, <2>1 DEF StackInv
<1> QED BY <1>1, <1>2, <1>3, <1>6

\* The top is popped.
LEMMA TopPopped ==
  ASSUME TypeOK, StackInv, frame_stack # <<>>, frame_stack' = Below
  PROVE  /\ frame_stack' \in Seq(Frames) /\ StackInv'
         /\ Len(frame_stack') = Len(frame_stack) - 1
         /\ DOMAIN frame_stack' = 1..(Len(frame_stack) - 1)
         /\ \A i \in 1..(Len(frame_stack) - 1) : frame_stack'[i] = frame_stack[i]
<1> DEFINE n == Len(frame_stack)
<1>1. /\ frame_stack' \in Seq(Frames) /\ Len(frame_stack') = n - 1
      /\ \A i \in 1..(n - 1) : frame_stack'[i] = frame_stack[i]
  BY PopTop DEF TypeOK, Below
<1>2. DOMAIN frame_stack' = 1..(n - 1)
  BY <1>1, LenProperties
<1>3. \A i \in 1..(n - 1) : SoundAt(frame_stack', i)
  BY <1>1, BelowStaysSound
<1> QED BY <1>1, <1>2, <1>3 DEF StackInv

\* The entry point has an empty stack to itself.
LEMMA TakeEntryStack ==
  ASSUME TypeOK, NEW m \in Methods, TakeEntry(m)
  PROVE  /\ TypeOK' /\ StackInv'
         /\ Len(frame_stack') = 1 /\ DOMAIN frame_stack' = {1}
         /\ MethodOf(frame_stack'[1]) = m
         /\ DOMAIN frame_stack'[1].content_already_analyzed = {}
<1> DEFINE site == EntrySite(m)
<1>1. site \in CallSites /\ Callee(site) = m
  BY DEF CallSites, EntrySite, CallSite, Callee
<1> HIDE DEF site
<1>2. frame_stack' = <<NewFrame(site)>>
  BY DEF TakeEntry, site
<1>3. /\ NewFrame(site) \in Frames /\ MethodOf(NewFrame(site)) = m
      /\ NewFrame(site).has_been_inited = FALSE /\ NewFrame(site).call_path = <<>>
      /\ DOMAIN NewFrame(site).content_already_analyzed = {}
  BY <1>1, NewFrameFields
<1>4. /\ frame_stack' \in Seq(Frames) /\ Len(frame_stack') = 1 /\ DOMAIN frame_stack' = {1}
      /\ frame_stack'[1] = NewFrame(site)
  BY <1>2, <1>3
<1>5. SoundAt(frame_stack', 1)
  BY <1>3, <1>4 DEF SoundAt, InOrder, CalledFromBelow, PathIsOnStack, CyclesCut
<1>6. StackInv'
  BY <1>4, <1>5 DEF StackInv
<1>7. TypeOK'
  <2>1. /\ todo' \subseteq Methods /\ program' = program /\ paths' = paths /\ walked' = walked
        /\ summaries' = summaries
        /\ call_site_analyze_counter' \in [SitesOf(program) -> Nat]
    BY DEF TakeEntry, TypeOK
  <2> QED BY <1>4, <2>1, Retype DEF TypeOK
<1> QED BY <1>3, <1>4, <1>6, <1>7

\* The frame at the top gets its call path.
LEMMA InitFrameStack ==
  ASSUME TypeOK, StackInv, InitFrame
  PROVE  /\ TypeOK' /\ StackInv'
         /\ Len(frame_stack') = Len(frame_stack)
         /\ DOMAIN frame_stack' = DOMAIN frame_stack
         /\ frame_stack'[Len(frame_stack)].call_site = Top.call_site
         /\ frame_stack'[Len(frame_stack)].has_been_inited
         /\ frame_stack'[Len(frame_stack)].call_path = PathOfTop
         /\ frame_stack'[Len(frame_stack)].stmt_counters = Top.stmt_counters
         /\ DOMAIN Top.content_already_analyzed = {}
         /\ DOMAIN frame_stack'[Len(frame_stack)].content_already_analyzed = {}
         /\ \A i \in 1..(Len(frame_stack) - 1) : frame_stack'[i] = frame_stack[i]
<1>1. frame_stack # <<>> /\ ~Top.has_been_inited
  BY DEF InitFrame
<1>2. PICK f : f = Inited(Top, PathOfTop)
  OBVIOUS
<1>3. PathOfTop \in Seq(SitesOf(program)) /\ Top \in Frames
  BY <1>1, PathOfTopProperties, TopFrame
<1>4. /\ f \in Frames /\ f.call_site = Top.call_site
      /\ f.has_been_inited = TRUE /\ f.call_path = PathOfTop
      /\ f.content_already_analyzed = Top.content_already_analyzed
      /\ f.stmt_counters = Top.stmt_counters
  BY <1>2, <1>3, FrameInited
<1>5. DOMAIN Top.content_already_analyzed = {}
  <2>1. SoundAt(frame_stack, Len(frame_stack)) /\ Top = frame_stack[Len(frame_stack)]
    BY <1>1, TopFrame DEF StackInv
  <2> QED BY <1>1, <2>1 DEF SoundAt, InOrder
<1>6. Replace(f)
  BY <1>2 DEF InitFrame, Inited
<1>7. /\ frame_stack' \in Seq(Frames) /\ StackInv'
      /\ Len(frame_stack') = Len(frame_stack) /\ DOMAIN frame_stack' = DOMAIN frame_stack
      /\ frame_stack'[Len(frame_stack)] = f
      /\ \A i \in 1..(Len(frame_stack) - 1) : frame_stack'[i] = frame_stack[i]
  BY <1>1, <1>4, <1>5, <1>6, TopReplaced
<1>8. TypeOK'
  <2>1. /\ program' = program /\ todo' = todo /\ summaries' = summaries
        /\ call_site_analyze_counter' = call_site_analyze_counter
        /\ walked' = walked \union {PathOfTop}
        /\ paths' \in {WithPath(paths, PathOfTop), paths}
    BY DEF InitFrame
  <2>2. WithPath(paths, PathOfTop) \subseteq paths \union {PathOfTop}
    BY DEF WithPath
  <2>3. paths' \subseteq Seq(SitesOf(program)) /\ walked' \subseteq Seq(SitesOf(program))
    BY <1>3, <2>1, <2>2 DEF TypeOK
  <2> QED BY <1>7, <2>1, <2>3, Retype DEF TypeOK
<1> QED BY <1>4, <1>5, <1>7, <1>8

\* The frame at the top goes away.
LEMMA PopStack ==
  ASSUME TypeOK, StackInv, InitFails \/ FinishFrame
  PROVE  /\ TypeOK' /\ StackInv'
         /\ Len(frame_stack') = Len(frame_stack) - 1
         /\ DOMAIN frame_stack' = 1..(Len(frame_stack) - 1)
         /\ \A i \in 1..(Len(frame_stack) - 1) : frame_stack'[i] = frame_stack[i]
<1>1. frame_stack # <<>> /\ frame_stack' = Below
  BY DEF InitFails, FinishFrame, Ready
<1>2. /\ frame_stack' \in Seq(Frames) /\ StackInv'
      /\ Len(frame_stack') = Len(frame_stack) - 1
      /\ DOMAIN frame_stack' = 1..(Len(frame_stack) - 1)
      /\ \A i \in 1..(Len(frame_stack) - 1) : frame_stack'[i] = frame_stack[i]
  BY <1>1, TopPopped
<1>3. TypeOK'
  <2>1. /\ program' = program /\ todo' = todo /\ paths' = paths /\ walked' = walked
        /\ call_site_analyze_counter' = call_site_analyze_counter
        /\ summaries' \subseteq summaries \union {Top.call_site}
    BY DEF InitFails, FinishFrame
  <2>2. Top.call_site \in CallSites
    BY <1>1, TopFrame, FrameFields
  <2> QED BY <1>2, <2>1, <2>2, Retype DEF TypeOK
<1> QED BY <1>2, <1>3

\* The frame of a callee that waits is pushed.
LEMMA EnterCalleeStack ==
  ASSUME TypeOK, StackInv, EnterCallee
  PROVE  /\ TypeOK' /\ StackInv'
         /\ \E site \in PendingOf(Top) :
              /\ site \in SitesOf(program) /\ Caller(site) = MethodOf(Top)
              /\ Len(frame_stack') = Len(frame_stack) + 1
              /\ DOMAIN frame_stack' = 1..(Len(frame_stack) + 1)
              /\ \A i \in 1..(Len(frame_stack) - 1) : frame_stack'[i] = frame_stack[i]
              /\ frame_stack'[Len(frame_stack)].call_site = Top.call_site
              /\ frame_stack'[Len(frame_stack)].call_path = Top.call_path
              /\ frame_stack'[Len(frame_stack)].has_been_inited
              /\ frame_stack'[Len(frame_stack)].content_already_analyzed =
                   [Top.content_already_analyzed EXCEPT ![site] = TRUE]
              /\ frame_stack'[Len(frame_stack) + 1].call_site = site
              /\ frame_stack'[Len(frame_stack) + 1].has_been_inited = FALSE
              /\ DOMAIN frame_stack'[Len(frame_stack) + 1].content_already_analyzed = {}
<1> DEFINE n == Len(frame_stack)
<1>1. frame_stack # <<>> /\ Top.has_been_inited
  BY DEF EnterCallee, Ready
<1>2. /\ n \in Nat \ {0} /\ DOMAIN frame_stack = 1..n /\ Top = frame_stack[n] /\ Top \in Frames
  BY <1>1, TopFrame
<1>3. SoundAt(frame_stack, n)
  BY <1>2 DEF StackInv
<1>4. PICK site \in PendingOf(Top) :
        frame_stack' = Append(Append(Below, [Top EXCEPT !.content_already_analyzed[site] = TRUE]),
                              NewFrame(site))
  BY DEF EnterCallee
<1>5. PICK content : content = [Top.content_already_analyzed EXCEPT ![site] = TRUE]
  OBVIOUS
<1>6. PICK f : f = Knowing(Top, content)
  OBVIOUS
<1>7. [Top EXCEPT !.content_already_analyzed[site] = TRUE] = f
  BY <1>5, <1>6 DEF Knowing
<1>8. /\ site \in DOMAIN Top.content_already_analyzed /\ site \in SitesOf(program)
      /\ DOMAIN Top.content_already_analyzed \subseteq SitesOf(program)
      /\ Top.content_already_analyzed \in [DOMAIN Top.content_already_analyzed -> BOOLEAN]
  BY <1>2, FrameFields DEF PendingOf
<1>9. /\ content \in [DOMAIN Top.content_already_analyzed -> BOOLEAN]
      /\ DOMAIN content = DOMAIN Top.content_already_analyzed /\ content[site] = TRUE
  BY <1>5, <1>8
<1>10. /\ f \in Frames /\ f.call_site = Top.call_site /\ MethodOf(f) = MethodOf(Top)
       /\ f.has_been_inited = Top.has_been_inited /\ f.call_path = Top.call_path
       /\ f.content_already_analyzed = content
  BY <1>2, <1>6, <1>8, <1>9, FrameContent
<1>11. Callee(site) \in Methods /\ site \in CallSites
  BY <1>8, SitesAreCalls DEF TypeOK, CallSites
<1>12. PICK new : new = NewFrame(site)
  OBVIOUS
<1>13. /\ new \in Frames /\ new.call_site = site /\ MethodOf(new) = Callee(site)
       /\ new.has_been_inited = FALSE /\ new.call_path = <<>>
       /\ DOMAIN new.content_already_analyzed = {}
  BY <1>11, <1>12, NewFrameFields
<1>14. frame_stack' = Append(Append(Below, f), new)
  BY <1>4, <1>7, <1>12
<1>15. PICK middle : middle = Append(Below, f)
  OBVIOUS
<1>16. /\ middle \in Seq(Frames) /\ Len(middle) = n /\ middle[n] = f
       /\ \A i \in 1..(n - 1) : middle[i] = frame_stack[i]
  BY <1>1, <1>10, <1>15, ReplaceTop DEF TypeOK, Below
<1>17. /\ frame_stack' \in Seq(Frames) /\ Len(frame_stack') = n + 1
       /\ frame_stack'[n + 1] = new /\ \A i \in 1..n : frame_stack'[i] = middle[i]
  BY <1>13, <1>14, <1>15, <1>16, AppendProperties
<1>18. /\ frame_stack'[n] = f /\ DOMAIN frame_stack' = 1..(n + 1)
       /\ \A i \in 1..(n - 1) : frame_stack'[i] = frame_stack[i]
  BY <1>2, <1>16, <1>17, LenProperties
<1>19. Caller(site) = MethodOf(Top)
  BY <1>2, <1>3, <1>8 DEF SoundAt, InOrder
<1>20. SoundAt(frame_stack', n)
  <2>1. \A k \in 1..(n - 1) : frame_stack'[k + 1].call_site = frame_stack[k + 1].call_site
    <3> SUFFICES ASSUME NEW k \in 1..(n - 1)
                 PROVE  frame_stack'[k + 1].call_site = frame_stack[k + 1].call_site
      OBVIOUS
    <3>1. CASE k + 1 = n
      BY <1>2, <1>10, <1>18, <3>1
    <3>2. CASE k + 1 # n
      <4>1. k \in Int /\ 1 <= k /\ k <= n - 1
        BY <1>2
      <4>2. k + 1 \in 1..(n - 1)
        <5> HIDE DEF n
        <5> QED BY <1>2, <3>2, <4>1
      <4> QED BY <1>18, <4>2
    <3> QED BY <3>1, <3>2
  <2>2. InOrder(frame_stack', n)
    BY <1>1, <1>2, <1>3, <1>9, <1>10, <1>18 DEF SoundAt, InOrder
  <2>3. CalledFromBelow(frame_stack', n)
    <3>1. n > 1 => frame_stack'[n - 1] = frame_stack[n - 1]
      BY <1>2, <1>18
    <3> QED BY <1>2, <1>3, <1>10, <1>18, <3>1 DEF SoundAt, CalledFromBelow
  <2>4. PathIsOnStack(frame_stack', n)
    BY <1>1, <1>2, <1>3, <1>10, <1>18, <2>1 DEF SoundAt, PathIsOnStack
  <2>5. CyclesCut(frame_stack', n)
    BY <1>1, <1>2, <1>3, <1>9, <1>10, <1>18 DEF SoundAt, CyclesCut
  <2> QED BY <2>2, <2>3, <2>4, <2>5 DEF SoundAt
<1>21. SoundAt(frame_stack', n + 1)
  <2>1. n + 1 # 1 /\ n + 1 > 1 /\ (n + 1) - 1 = n
    BY <1>2
  <2>2. CalledFromBelow(frame_stack', n + 1)
    BY <1>8, <1>9, <1>10, <1>13, <1>17, <1>18, <1>19, <2>1 DEF CalledFromBelow
  <2>3. InOrder(frame_stack', n + 1)
    BY <1>2, <1>13, <1>17 DEF InOrder
  <2>4. PathIsOnStack(frame_stack', n + 1) /\ CyclesCut(frame_stack', n + 1)
    BY <1>13, <1>17 DEF PathIsOnStack, CyclesCut
  <2> QED BY <2>2, <2>3, <2>4 DEF SoundAt
<1>22. StackInv'
  <2>1. \A i \in 1..(n - 1) : SoundAt(frame_stack', i)
    BY <1>1, <1>18, BelowStaysSound
  <2>2. \A i \in 1..(n + 1) : i \in 1..(n - 1) \/ i = n \/ i = n + 1
    <3> HIDE DEF n
    <3> QED BY <1>2
  <2>3. \A i \in 1..(n + 1) : SoundAt(frame_stack', i)
    BY <1>20, <1>21, <2>1, <2>2
  <2> QED BY <1>18, <2>3 DEF StackInv
<1>23. TypeOK'
  <2>1. /\ program' = program /\ todo' = todo /\ paths' = paths /\ walked' = walked
        /\ call_site_analyze_counter' = call_site_analyze_counter /\ summaries' = summaries
    BY DEF EnterCallee
  <2> QED BY <1>17, <2>1, Retype DEF TypeOK
<1> QED BY <1>1, <1>5, <1>8, <1>10, <1>13, <1>17, <1>18, <1>19, <1>22, <1>23

\* A frame that goes on has the call path of its place.
LEMMA TopPath ==
  ASSUME TypeOK, StackInv, Ready
  PROVE  /\ Top.call_path = PathOfTop
         /\ \A site \in DOMAIN Top.content_already_analyzed :
              Caller(site) = MethodOf(Top) /\ CountCycles(Append(Top.call_path, site)) <= 1
<1> DEFINE n == Len(frame_stack)
<1>1. /\ frame_stack # <<>> /\ Top.has_been_inited
      /\ n \in Nat \ {0} /\ DOMAIN frame_stack = 1..n /\ Top = frame_stack[n]
  BY TopFrame DEF Ready
<1>2. SoundAt(frame_stack, n)
  BY <1>1 DEF StackInv
<1>3. CASE n = 1
  <2>1. Top.call_path = <<>>
    BY <1>1, <1>2, <1>3 DEF SoundAt, CalledFromBelow
  <2>2. PathOfTop = <<>>
    BY <1>1, <1>3, PathOfTopProperties
  <2> QED BY <1>1, <1>2, <2>1, <2>2 DEF SoundAt, InOrder, CyclesCut
<1>4. CASE n > 1
  <2>1. Top.call_path = Append(frame_stack[n - 1].call_path, Top.call_site)
    BY <1>1, <1>2, <1>4 DEF SoundAt, CalledFromBelow
  <2>2. PathOfTop = Append(frame_stack[n - 1].call_path, Top.call_site)
    BY <1>1, <1>4, PathOfTopProperties
  <2> QED BY <1>1, <1>2, <2>1, <2>2 DEF SoundAt, InOrder, CyclesCut
<1>5. n = 1 \/ n > 1
  BY <1>1
<1> QED BY <1>3, <1>4, <1>5

\* A call is visited that is one of the method at the top.
LEMMA VisitableProperties ==
  ASSUME TypeOK, NEW s, Visitable(s)
  PROVE  /\ frame_stack # <<>> /\ Top.has_been_inited /\ PendingOf(Top) = {}
         /\ Top \in Frames /\ MethodOf(Top) \in Methods /\ s \in program.stmts[MethodOf(Top)]
         /\ \A site \in SitesAt(MethodOf(Top), s) :
              site \in SitesOf(program) /\ Caller(site) = MethodOf(Top)
<1>1. /\ frame_stack # <<>> /\ Top.has_been_inited /\ PendingOf(Top) = {}
      /\ s \in program.stmts[MethodOf(Top)]
  BY DEF Visitable, Ready
<1>2. Top \in Frames /\ MethodOf(Top) \in Methods
  BY <1>1, TopFrame, FrameFields
<1> QED BY <1>1, <1>2, SitesAtProperties

\* The paths of the callees of one call have one length.
LEMMA PathsOfCalleesProperties ==
  ASSUME TypeOK, NEW s, Visitable(s)
  PROVE  PathsOfCallees(s) \subseteq Seq(SitesOf(program)) /\ NoPrefixAmong(PathsOfCallees(s))
<1>1. ASSUME NEW p \in PathsOfCallees(s)
      PROVE  p \in Seq(SitesOf(program)) /\ Len(p) = Len(Top.call_path) + 1
  <2>1. PICK site \in SitesAt(MethodOf(Top), s) : p = Append(Top.call_path, site)
    BY DEF PathsOfCallees
  <2>2. site \in SitesOf(program) /\ Top.call_path \in Seq(SitesOf(program))
    BY VisitableProperties, FrameFields
  <2> QED BY <2>1, <2>2, AppendProperties
<1>2. ASSUME NEW p \in PathsOfCallees(s), NEW q \in PathsOfCallees(s), IsPrefix(p, q) PROVE p = q
  <2>1. p \in Seq(SitesOf(program)) /\ q \in Seq(SitesOf(program)) /\ Len(p) = Len(q)
    BY <1>1
  <2> QED BY <1>2, <2>1, PrefixOfSameLength
<1> QED BY <1>1, <1>2 DEF NoPrefixAmong

\* The counter stays one of the call sites of the program.
LEMMA CountedType ==
  ASSUME TypeOK, NEW sites
  PROVE  /\ Counted(sites) \in [SitesOf(program) -> Nat]
         /\ \A site \in SitesOf(program) :
              Counted(sites)[site] = call_site_analyze_counter[site] + IF site \in sites THEN 1 ELSE 0
BY DEF TypeOK, Counted

\* The frame at the top waits for the callees of a call.
LEMMA InterruptStack ==
  ASSUME TypeOK, StackInv, NEW s, Interrupt(s)
  PROVE  /\ TypeOK' /\ StackInv'
         /\ Len(frame_stack') = Len(frame_stack)
         /\ DOMAIN frame_stack' = DOMAIN frame_stack
         /\ \A i \in 1..(Len(frame_stack) - 1) : frame_stack'[i] = frame_stack[i]
         /\ frame_stack'[Len(frame_stack)].call_site = Top.call_site
         /\ frame_stack'[Len(frame_stack)].call_path = Top.call_path
         /\ frame_stack'[Len(frame_stack)].has_been_inited
         /\ frame_stack'[Len(frame_stack)].content_already_analyzed =
              [site \in ToBeAnalyzed(s) |-> FALSE]
<1>1. Visitable(s)
  BY DEF Interrupt
<1>2. /\ frame_stack # <<>> /\ Top.has_been_inited /\ Top \in Frames
      /\ \A site \in SitesAt(MethodOf(Top), s) :
           site \in SitesOf(program) /\ Caller(site) = MethodOf(Top)
  BY <1>1, VisitableProperties
<1>3. Top.call_path = PathOfTop
  BY <1>1, TopPath DEF Visitable
<1>4. PICK content : content = [site \in ToBeAnalyzed(s) |-> FALSE]
  OBVIOUS
<1>5. PICK f : f = Knowing(Top, content)
  OBVIOUS
<1>6. ToBeAnalyzed(s) \in SUBSET SitesOf(program) /\ content \in [ToBeAnalyzed(s) -> BOOLEAN]
  BY <1>2, <1>4 DEF ToBeAnalyzed
<1>7. /\ f \in Frames /\ f.call_site = Top.call_site
      /\ f.has_been_inited = Top.has_been_inited /\ f.call_path = Top.call_path
      /\ f.content_already_analyzed = content
  BY <1>2, <1>5, <1>6, FrameContent
<1>8. ASSUME NEW site \in DOMAIN f.content_already_analyzed
      PROVE  Caller(site) = MethodOf(Top) /\ CountCycles(Append(f.call_path, site)) <= 1
  <2>1. site \in SitesAt(MethodOf(Top), s) /\ ~Skips(site)
    BY <1>4, <1>7 DEF ToBeAnalyzed
  <2>2. ~(CountCycles(Append(Top.call_path, site)) > 1)
    BY <2>1 DEF Skips
  <2>3. Append(Top.call_path, site) \in Seq(SitesOf(program))
    BY <1>2, <2>1, FrameFields, AppendProperties
  <2>4. CountCycles(Append(Top.call_path, site)) \in Nat
    BY <2>3, CyclesFinite
  <2> QED BY <1>2, <1>7, <2>1, <2>2, <2>4
<1>9. Replace(f)
  BY <1>4, <1>5 DEF Interrupt, Knowing
<1>10. /\ frame_stack' \in Seq(Frames) /\ StackInv'
       /\ Len(frame_stack') = Len(frame_stack) /\ DOMAIN frame_stack' = DOMAIN frame_stack
       /\ frame_stack'[Len(frame_stack)] = f
       /\ \A i \in 1..(Len(frame_stack) - 1) : frame_stack'[i] = frame_stack[i]
  BY <1>2, <1>3, <1>7, <1>8, <1>9, TopReplaced
<1>11. TypeOK'
  <2>1. /\ program' = program /\ todo' = todo /\ paths' = paths /\ walked' = walked
        /\ summaries' = summaries /\ call_site_analyze_counter' = Counted(ToBeAnalyzed(s))
    BY DEF Interrupt
  <2> QED BY <1>10, <2>1, CountedType, Retype DEF TypeOK
<1> QED BY <1>2, <1>4, <1>7, <1>10, <1>11

\* The frame at the top goes on to its next call.
LEMMA VisitCallStack ==
  ASSUME TypeOK, StackInv, NEW s, VisitCall(s)
  PROVE  /\ TypeOK' /\ StackInv'
         /\ Len(frame_stack') = Len(frame_stack)
         /\ DOMAIN frame_stack' = DOMAIN frame_stack
         /\ \A i \in 1..(Len(frame_stack) - 1) : frame_stack'[i] = frame_stack[i]
         /\ frame_stack'[Len(frame_stack)].call_site = Top.call_site
         /\ frame_stack'[Len(frame_stack)].call_path = Top.call_path
         /\ frame_stack'[Len(frame_stack)].has_been_inited
         /\ frame_stack'[Len(frame_stack)].content_already_analyzed = Top.content_already_analyzed
         /\ frame_stack'[Len(frame_stack)].stmt_counters = [Top.stmt_counters EXCEPT ![s] = @ + 1]
<1>1. Visitable(s)
  BY DEF VisitCall
<1>2. /\ frame_stack # <<>> /\ Top.has_been_inited /\ Top \in Frames
      /\ MethodOf(Top) \in Methods /\ s \in program.stmts[MethodOf(Top)]
      /\ \A site \in SitesAt(MethodOf(Top), s) :
           site \in SitesOf(program) /\ Caller(site) = MethodOf(Top)
  BY <1>1, VisitableProperties
<1>3. /\ Top.call_path = PathOfTop
      /\ \A site \in DOMAIN Top.content_already_analyzed :
           Caller(site) = MethodOf(Top) /\ CountCycles(Append(Top.call_path, site)) <= 1
  BY <1>1, TopPath DEF Visitable
<1>4. PICK counters : counters = [Top.stmt_counters EXCEPT ![s] = @ + 1]
  OBVIOUS
<1>5. PICK f : f = Visited(Top, counters)
  OBVIOUS
<1>6. counters \in [program.stmts[MethodOf(Top)] -> 0..Rounds]
  <2>1. Top.stmt_counters \in [program.stmts[MethodOf(Top)] -> 0..Rounds]
    BY <1>2, FrameFields
  <2>2. Top.stmt_counters[s] + 1 \in 0..Rounds
    BY <1>1, <1>2, <2>1, BoundsAssumption DEF Visitable
  <2> QED BY <1>4, <2>1, <2>2
<1>7. /\ f \in Frames /\ f.call_site = Top.call_site
      /\ f.has_been_inited = Top.has_been_inited /\ f.call_path = Top.call_path
      /\ f.content_already_analyzed = Top.content_already_analyzed
      /\ f.stmt_counters = counters
  BY <1>2, <1>5, <1>6, FrameCounted
<1>8. Replace(f)
  BY <1>4, <1>5 DEF VisitCall, Visited
<1>9. /\ frame_stack' \in Seq(Frames) /\ StackInv'
      /\ Len(frame_stack') = Len(frame_stack) /\ DOMAIN frame_stack' = DOMAIN frame_stack
      /\ frame_stack'[Len(frame_stack)] = f
      /\ \A i \in 1..(Len(frame_stack) - 1) : frame_stack'[i] = frame_stack[i]
  BY <1>2, <1>3, <1>7, <1>8, TopReplaced
<1>10. TypeOK'
  <2>1. /\ program' = program /\ todo' = todo /\ walked' = walked /\ summaries' = summaries
        /\ call_site_analyze_counter' = Counted(SitesAt(MethodOf(Top), s))
        /\ paths' = WithPaths(paths, PathsOfCallees(s))
    BY DEF VisitCall
  <2>2. WithPaths(paths, PathsOfCallees(s)) \subseteq paths \union PathsOfCallees(s)
    BY DEF WithPaths
  <2>3. PathsOfCallees(s) \subseteq Seq(SitesOf(program))
    BY <1>1, PathsOfCalleesProperties
  <2>4. paths' \subseteq Seq(SitesOf(program))
    BY <2>1, <2>2, <2>3 DEF TypeOK
  <2> QED BY <1>9, <2>1, <2>4, CountedType, Retype DEF TypeOK
<1> QED BY <1>2, <1>4, <1>7, <1>9, <1>10

-----------------------------------------------------------------------------
(* The stack. *)

LEMMA StackInit == Init => TypeOK /\ StackInv
<1> SUFFICES ASSUME Init PROVE TypeOK /\ StackInv
  OBVIOUS
<1>1. todo \subseteq Methods
  BY ProgramAssumption DEF Init, IsProgram
<1>2. frame_stack = <<>> /\ frame_stack \in Seq(Frames) /\ DOMAIN frame_stack = {}
  BY DEF Init
<1>3. call_site_analyze_counter \in [SitesOf(program) -> Nat]
  BY DEF Init
<1> QED BY <1>1, <1>2, <1>3 DEF Init, TypeOK, StackInv

LEMMA StackStep == TypeOK /\ StackInv /\ [Next]_vars => TypeOK' /\ StackInv'
<1> SUFFICES ASSUME TypeOK, StackInv, [Next]_vars PROVE TypeOK' /\ StackInv'
  OBVIOUS
<1>1. CASE \E m \in Methods : TakeEntry(m)
  BY <1>1, TakeEntryStack
<1>2. CASE InitFrame
  BY <1>2, InitFrameStack
<1>3. CASE InitFails \/ FinishFrame
  BY <1>3, PopStack
<1>4. CASE EnterCallee
  BY <1>4, EnterCalleeStack
<1>5. CASE \E s \in DOMAIN program.callees : Interrupt(s)
  BY <1>5, InterruptStack
<1>6. CASE \E s \in DOMAIN program.callees : VisitCall(s)
  BY <1>6, VisitCallStack
<1>7. CASE UNCHANGED vars
  <2>1. TypeOK'
    BY <1>7, Retype DEF vars, TypeOK
  <2> QED BY <1>7, <2>1 DEF vars, StackInv
<1> QED BY <1>1, <1>2, <1>3, <1>4, <1>5, <1>6, <1>7 DEF Next

\* The variables have their types and the frames of the stack fit together, whatever
\* the program.
THEOREM TypeCorrect == Spec => [](TypeOK /\ StackInv)
BY StackInit, StackStep, PTL DEF Spec

\* The frames of the stack are a chain of calls (analyze_frame_stack,
\* init_compute_frame).
THEOREM ChainOfCalls == Spec => []StackIsCallChain
<1>1. TypeOK /\ StackInv => StackIsCallChain
  BY DEF StackInv, SoundAt, CalledFromBelow, StackIsCallChain
<1> QED BY <1>1, TypeCorrect, PTL

\* The cut of the cycles bounds the depth of the stack by the number of methods
\* (compute_target_method_states, count_cycles).
THEOREM DepthBounded == Spec => []RecursionBounded
<1>1. TypeOK /\ StackInv => RecursionBounded
  <2> SUFFICES ASSUME TypeOK, StackInv PROVE RecursionBounded
    OBVIOUS
  <2>1. Cardinality(Methods) \in Nat
    BY MethodsAssumption, FS_CardinalityType
  <2>2. CASE frame_stack = <<>>
    <3>1. Len(frame_stack) = 0
      BY <2>2
    <3> QED BY <2>1, <3>1 DEF RecursionBounded
  <2>3. CASE frame_stack # <<>>
    <3>1. /\ PathOfTop \in Seq(SitesOf(program)) /\ Len(PathOfTop) = Len(frame_stack) - 1
          /\ CountCycles(PathOfTop) <= 1
      BY <2>3, PathOfTopProperties
    <3>2. \A site \in SitesOf(program) : Callee(site) \in Methods
      BY SitesAreCalls DEF TypeOK
    <3>3. Len(PathOfTop) <= Cardinality(Methods) + 1
      BY <3>1, <3>2, CyclesBoundLength
    <3>4. Len(frame_stack) \in Nat
      BY <2>3, TopFrame
    <3> QED BY <2>1, <3>1, <3>3, <3>4 DEF RecursionBounded
  <2> QED BY <2>2, <2>3
<1> QED BY <1>1, TypeCorrect, PTL

-----------------------------------------------------------------------------
(* The call paths that are kept. *)

\* What is walked stays among the kept paths when more are added.
LEMMA KeptWhenAdded ==
  ASSUME TypeOK, WalkedPathsKept, NEW ps \in SUBSET Seq(SitesOf(program)), NoPrefixAmong(ps),
         paths' = WithPaths(paths, ps), walked' \subseteq walked \union ps
  PROVE  WalkedPathsKept'
<1>1. /\ \A q \in paths \union ps : \E r \in paths' : IsPrefix(q, r)
      /\ NoPrefixAmong(paths') /\ paths' \subseteq paths \union ps
  <2>1. paths \in SUBSET Seq(SitesOf(program)) /\ NoPrefixAmong(paths)
    BY DEF TypeOK, WalkedPathsKept
  <2> QED BY <2>1, WithPathsProperties
<1>2. ASSUME NEW p \in walked' \ {<<>>} PROVE \E r \in paths' : IsPrefix(p, r)
  <2>1. CASE p \in ps
    BY <1>1, <2>1
  <2>2. CASE p \in walked
    <3>1. PICK q \in paths : IsPrefix(p, q)
      BY <2>2, <1>2 DEF WalkedPathsKept
    <3>2. PICK r \in paths' : IsPrefix(q, r)
      BY <1>1
    <3>3. p \in Seq(SitesOf(program)) /\ q \in Seq(SitesOf(program)) /\ r \in Seq(SitesOf(program))
      BY <1>1, <2>2 DEF TypeOK
    <3> QED BY <3>1, <3>2, <3>3, PrefixOrder
  <2> QED BY <2>1, <2>2
<1> QED BY <1>1, <1>2 DEF WalkedPathsKept

LEMMA WalkedStep == TypeOK /\ StackInv /\ WalkedPathsKept /\ [Next]_vars => WalkedPathsKept'
<1> SUFFICES ASSUME TypeOK, StackInv, WalkedPathsKept, [Next]_vars PROVE WalkedPathsKept'
  OBVIOUS
<1>1. CASE InitFrame
  <2>1. frame_stack # <<>> /\ walked' = walked \union {PathOfTop}
    BY <1>1 DEF InitFrame
  <2>2. PathOfTop \in Seq(SitesOf(program)) /\ Len(frame_stack) \in Nat \ {0}
    BY <2>1, PathOfTopProperties, TopFrame
  <2>3. CASE Len(frame_stack) > 1
    <3>1. paths' = WithPaths(paths, {PathOfTop})
      BY <1>1, <2>2, <2>3, WithPathIsOne DEF InitFrame
    <3>2. {PathOfTop} \in SUBSET Seq(SitesOf(program)) /\ NoPrefixAmong({PathOfTop})
      BY <2>2 DEF NoPrefixAmong
    <3> QED BY <2>1, <3>1, <3>2, KeptWhenAdded
  <2>4. CASE Len(frame_stack) = 1
    <3>1. paths' = paths /\ PathOfTop = <<>>
      BY <1>1, <2>1, <2>4, PathOfTopProperties DEF InitFrame
    <3> QED BY <2>1, <3>1 DEF WalkedPathsKept
  <2>5. Len(frame_stack) > 1 \/ Len(frame_stack) = 1
    <3>1. \A n \in Nat \ {0} : n > 1 \/ n = 1
      OBVIOUS
    <3> QED BY <2>2, <3>1
  <2> QED BY <2>3, <2>4, <2>5
<1>2. CASE \E s \in DOMAIN program.callees : VisitCall(s)
  <2>1. PICK s : VisitCall(s)
    BY <1>2
  <2>2. Visitable(s) /\ paths' = WithPaths(paths, PathsOfCallees(s)) /\ walked' = walked
    BY <2>1 DEF VisitCall
  <2> QED BY <2>2, PathsOfCalleesProperties, KeptWhenAdded
<1>3. CASE paths' = paths /\ walked' = walked
  BY <1>3 DEF WalkedPathsKept
<1> QED BY <1>1, <1>2, <1>3
        DEF Next, TakeEntry, InitFails, EnterCallee, Interrupt, FinishFrame, vars

\* Every call path that was walked is in the saved ones (PathManager.add_path), and
\* no saved path is a prefix of another.
THEOREM PathsKept == Spec => []WalkedPathsKept
<1>1. Init => WalkedPathsKept
  BY DEF Init, WalkedPathsKept, NoPrefixAmong
<1> QED BY <1>1, WalkedStep, TypeCorrect, PTL DEF Spec

-----------------------------------------------------------------------------
(* Why a call is passed over. *)

\* The methods that call each other in turn up to the top are on its path.
LEMMA PathMethods ==
  ASSUME TypeOK, StackInv, frame_stack # <<>>, NEW k \in 1..(Len(frame_stack) - 1)
  PROVE  /\ Callee(PathOfTop[k]) = MethodOf(frame_stack[k + 1])
         /\ Caller(PathOfTop[k]) = MethodOf(frame_stack[k])
         /\ k \in DOMAIN frame_stack /\ k + 1 \in DOMAIN frame_stack
<1> DEFINE n == Len(frame_stack)
<1>1. n \in Nat \ {0} /\ DOMAIN frame_stack = 1..n
  BY TopFrame
<1>2. /\ k \in 1..n /\ k + 1 \in 1..n /\ k + 1 > 1 /\ (k + 1) - 1 = k
  <2> HIDE DEF n
  <2>1. k \in 1..(n - 1)
    BY DEF n
  <2> QED BY <1>1, <2>1
<1>3. PathOfTop[k] = frame_stack[k + 1].call_site
  BY PathOfTopProperties
<1>4. SoundAt(frame_stack, k + 1)
  BY <1>1, <1>2 DEF StackInv
<1>5. Caller(frame_stack[k + 1].call_site) = MethodOf(frame_stack[k])
  BY <1>2, <1>4 DEF SoundAt, CalledFromBelow
<1> QED BY <1>1, <1>2, <1>3, <1>5 DEF MethodOf

\* A call whose callee is on the stack is on a cycle.
LEMMA OnStackSettled ==
  ASSUME TypeOK, StackInv, ReachedFromBelow, frame_stack # <<>>,
         NEW site, Caller(site) = MethodOf(Top),
         NEW j \in DOMAIN frame_stack, Callee(site) = MethodOf(frame_stack[j])
  PROVE  Settled(site)
<1>1. /\ Len(frame_stack) \in DOMAIN frame_stack /\ j <= Len(frame_stack)
      /\ Top = frame_stack[Len(frame_stack)]
  BY TopFrame
<1>2. MethodOf(Top) \in CallReach(program, MethodOf(frame_stack[j]))
  BY <1>1 DEF ReachedFromBelow
<1> QED BY <1>2 DEF Settled

\* At most two frames below the top wait for a callee of its method: the path of the
\* top comes back to the method in one place only.
LEMMA FewWait ==
  ASSUME TypeOK, StackInv, frame_stack # <<>>, PendingOf(Top) = {},
         NEW site \in SitesOf(program), Caller(site) = MethodOf(Top)
  PROVE  Cardinality(WaitingFor(site)) \in 0..2
<1> DEFINE n == Len(frame_stack)
           W == WaitingFor(site)
<1>1. n \in Nat \ {0} /\ DOMAIN frame_stack = 1..n /\ Top = frame_stack[n]
  BY TopFrame
<1>2. ASSUME NEW i \in W PROVE i \in 1..n /\ i < n /\ MethodOf(frame_stack[i]) = MethodOf(Top)
  <2>1. i \in 1..n /\ site \in PendingOf(frame_stack[i])
    BY <1>1 DEF WaitingFor
  <2>2. i # n
    BY <1>1, <2>1
  <2>3. SoundAt(frame_stack, i) /\ site \in DOMAIN frame_stack[i].content_already_analyzed
    BY <1>1, <2>1 DEF StackInv, PendingOf
  <2>4. Caller(site) = MethodOf(frame_stack[i])
    BY <2>3 DEF SoundAt, InOrder
  <2>5. i < n
    <3> HIDE DEF n
    <3> QED BY <1>1, <2>1, <2>2
  <2> QED BY <2>1, <2>4, <2>5
<1>3. IsFiniteSet(W) /\ Cardinality(W) \in Nat
  <2>1. W \subseteq 1..n
    BY <1>1 DEF WaitingFor
  <2>2. IsFiniteSet(1..n)
    BY <1>1, FS_Interval
  <2>3. IsFiniteSet(W)
    BY <2>1, <2>2, FS_Subset
  <2> QED BY <2>3, FS_CardinalityType
<1>4. ASSUME NEW j \in W, NEW k \in W, j > 1, j < k PROVE FALSE
  <2>1. /\ j \in 1..n /\ k \in 1..n /\ j < n /\ k < n
        /\ MethodOf(frame_stack[j]) = MethodOf(Top) /\ MethodOf(frame_stack[k]) = MethodOf(Top)
    BY <1>2
  <2>2. PICK a \in Nat, b \in Nat, c \in Nat : j = a + 1 /\ k = b + 1 /\ n = c + 1
    <3>1. /\ j - 1 \in Nat /\ k - 1 \in Nat /\ n - 1 \in Nat
          /\ j = (j - 1) + 1 /\ k = (k - 1) + 1 /\ n = (n - 1) + 1
      BY <1>1, <2>1
    <3> QED BY <3>1
  <2>3. 1 <= a /\ a < b /\ b < c /\ c = n - 1
    BY <1>4, <2>1, <2>2
  <2>4. a \in 1..(n - 1) /\ b \in 1..(n - 1) /\ c \in 1..(n - 1)
    BY <2>2, <2>3
  <2>5. /\ Callee(PathOfTop[a]) = MethodOf(Top) /\ Callee(PathOfTop[b]) = MethodOf(Top)
        /\ Callee(PathOfTop[c]) = MethodOf(Top)
    BY <1>1, <2>1, <2>2, <2>4, PathMethods
  <2>6. /\ PathOfTop \in Seq(SitesOf(program)) /\ CountCycles(PathOfTop) <= 1
        /\ DOMAIN PathOfTop = 1..(n - 1)
    BY PathOfTopProperties, LenProperties
  <2>7. b \in CyclesAt(PathOfTop) /\ c \in CyclesAt(PathOfTop)
    <3>1. a \in 1..(b - 1) /\ a \in 1..(c - 1)
      BY <2>2, <2>3
    <3> QED BY <2>4, <2>5, <2>6, <3>1 DEF CyclesAt
  <2>8. b = c
    BY <2>6, <2>7, OneCycle
  <2> QED BY <2>2, <2>3, <2>8
<1>5. Cardinality(W) <= 2
  <2> SUFFICES ASSUME Cardinality(W) > 2 PROVE FALSE
    BY <1>3
  <2>1. IsFiniteSet(W \ {1}) /\ Cardinality(W \ {1}) \in {Cardinality(W) - 1, Cardinality(W)}
    BY <1>3, FS_RemoveElement
  <2>2. Cardinality(W \ {1}) # 0 /\ Cardinality(W \ {1}) # 1
    BY <1>3, <2>1
  <2>3. PICK j \in W \ {1} : TRUE
    BY <2>1, <2>2, FS_EmptySet
  <2>4. PICK k \in W \ {1} : k # j
    <3>1. W \ {1} # {j}
      BY <2>2, FS_Singleton
    <3> QED BY <2>3, <3>1
  <2>5. j \in Nat /\ k \in Nat /\ j > 1 /\ k > 1 /\ (j < k \/ k < j)
    BY <1>1, <1>2, <2>4
  <2> QED BY <1>4, <2>5
<1> QED BY <1>3, <1>5

\* A callee that is passed over is settled.
LEMMA SkippedSettled ==
  ASSUME TypeOK, StackInv, SummaryInv, NEW s, Visitable(s),
         NEW site \in SitesAt(MethodOf(Top), s), Skips(site)
  PROVE  Settled(site)
<1> DEFINE n == Len(frame_stack)
           path == Top.call_path
<1>1. /\ frame_stack # <<>> /\ Top.has_been_inited /\ PendingOf(Top) = {} /\ Top \in Frames
      /\ site \in SitesOf(program) /\ Caller(site) = MethodOf(Top)
  BY VisitableProperties
<1>2. n \in Nat \ {0} /\ DOMAIN frame_stack = 1..n /\ Top = frame_stack[n] /\ n \in 1..n
  BY <1>1, TopFrame
<1>3. path = PathOfTop
  BY TopPath DEF Visitable
<1>4. path \in Seq(SitesOf(program)) /\ Len(path) = n - 1 /\ CountCycles(path) <= 1
  BY <1>1, <1>3, PathOfTopProperties
<1>5. CASE Append(path, site) \in paths
  <2>1. /\ Len(Append(path, site)) = Len(path) + 1 /\ Append(path, site)[Len(path) + 1] = site
    BY <1>1, <1>4, AppendProperties
  <2>2. Last(Append(path, site)) = site
    BY <2>1 DEF Last
  <2>3. ASSUME NEW i \in DOMAIN frame_stack, frame_stack[i].has_been_inited,
               frame_stack[i].call_path = Append(path, site)
        PROVE  FALSE
    <3>1. Len(frame_stack[i].call_path) = i - 1
      BY <2>3 DEF StackInv, SoundAt, PathIsOnStack
    <3>2. Len(Append(path, site)) = n
      <4> HIDE DEF n, path
      <4> QED BY <1>2, <1>4, <2>1
    <3>3. i \in 1..n /\ i - 1 = n
      BY <1>2, <2>3, <3>1, <3>2
    <3>4. \A j \in 1..n : j - 1 # n
      <4> HIDE DEF n
      <4> QED BY <1>2
    <3> QED BY <3>3, <3>4
  <2> QED BY <1>5, <2>2, <2>3 DEF SummaryInv, KeptPathsSettled
<1>6. CASE CountCycles(Append(path, site)) > 1
  <2>1. PICK j \in 1..Len(path) : Callee(site) \in {Caller(path[j]), Callee(path[j])}
    BY <1>1, <1>4, <1>6, CycleAtEnd
  <2>2. PICK i \in DOMAIN frame_stack : Callee(site) = MethodOf(frame_stack[i])
    BY <1>1, <1>3, <1>4, <2>1, PathMethods
  <2> QED BY <1>1, <2>2, OnStackSettled DEF SummaryInv
<1>7. CASE site \in DOMAIN Top.content_already_analyzed /\ Top.content_already_analyzed[site]
  BY <1>2, <1>7 DEF SummaryInv, HandedOnSettled
<1>8. CASE call_site_analyze_counter[site] > MaxCallSite
  <2>1. CASE \E i \in DOMAIN frame_stack : i > 1 /\ frame_stack[i].call_site = site
    BY <1>1, <2>1, OnStackSettled DEF SummaryInv, MethodOf
  <2>2. CASE call_site_analyze_counter[site] <= Cardinality(WaitingFor(site))
    <3>1. Cardinality(WaitingFor(site)) \in 0..2
      BY <1>1, FewWait
    <3>2. call_site_analyze_counter[site] \in Nat
      BY <1>1 DEF TypeOK
    <3> QED BY <1>8, <2>2, <3>1, <3>2, BoundsAssumption
  <2> QED BY <1>1, <2>1, <2>2 DEF SummaryInv, CountedOnceAFrame
<1> QED BY <1>5, <1>6, <1>7, <1>8 DEF Skips

-----------------------------------------------------------------------------
(* What the steps do to the summaries. *)

\* What is settled stays so.
LEMMA SettledStays ==
  ASSUME program' = program, summaries \subseteq summaries'
  PROVE  \A site : Settled(site) => Settled(site)'
BY DEF Settled

\* No action but TakeEntry changes the program or loses a summary.
LEMMA SummariesGrow ==
  ASSUME TypeOK, [Next]_vars
  PROVE  program' = program /\ summaries \subseteq summaries'
BY DEF Next, TakeEntry, InitFrame, InitFails, EnterCallee, Interrupt, VisitCall, FinishFrame, vars

\* The frames that stay are for the same call sites.
LEMMA ReachedStays ==
  ASSUME ReachedFromBelow, program' = program, DOMAIN frame_stack' \subseteq DOMAIN frame_stack,
         \A i \in DOMAIN frame_stack' : frame_stack'[i].call_site = frame_stack[i].call_site
  PROVE  ReachedFromBelow'
<1>1. \A i \in DOMAIN frame_stack' : MethodOf(frame_stack'[i]) = MethodOf(frame_stack[i])
  BY DEF MethodOf
<1> QED BY <1>1 DEF ReachedFromBelow

\* The entry point starts with an empty counter.
LEMMA TakeEntrySummary ==
  ASSUME TypeOK, SummaryInv, NEW m \in Methods, TakeEntry(m)
  PROVE  SummaryInv'
<1>1. /\ program' = program /\ paths' = paths /\ summaries' = summaries /\ frame_stack = <<>>
      /\ call_site_analyze_counter' = [site \in SitesOf(program) |-> 0]
  BY DEF TakeEntry
<1>2. /\ DOMAIN frame_stack' = {1} /\ MethodOf(frame_stack'[1]) = m
      /\ DOMAIN frame_stack'[1].content_already_analyzed = {}
  BY TakeEntryStack
<1>3. \A site : Settled(site) => Settled(site)'
  BY <1>1, SettledStays
<1>4. ReachedFromBelow'
  <2>1. m \in CallReach(program, m)
    BY CallReachProperties DEF TypeOK
  <2> QED BY <1>1, <1>2, <2>1 DEF ReachedFromBelow
<1>5. KeptPathsSettled'
  <2>1. \A p \in paths : Settled(Last(p))
    BY <1>1 DEF SummaryInv, KeptPathsSettled
  <2> QED BY <1>1, <1>3, <2>1 DEF KeptPathsSettled
<1>6. HandedOnSettled'
  BY <1>2 DEF HandedOnSettled
<1>7. CountedOnceAFrame'
  <2> SUFFICES ASSUME NEW site \in SitesOf(program)
               PROVE  call_site_analyze_counter'[site] <= Cardinality(WaitingFor(site)')
    BY <1>1 DEF CountedOnceAFrame
  <2>1. WaitingFor(site)' = {}
    BY <1>2 DEF WaitingFor, PendingOf
  <2>2. Cardinality(WaitingFor(site)') = 0
    BY <2>1, FS_EmptySet
  <2> QED BY <1>1, <2>2
<1> QED BY <1>4, <1>5, <1>6, <1>7 DEF SummaryInv

\* A step that leaves the frames with their call sites and what they wait for.
LEMMA SameWait ==
  ASSUME TypeOK, SummaryInv, program' = program, summaries \subseteq summaries',
         DOMAIN frame_stack' = DOMAIN frame_stack,
         \A i \in DOMAIN frame_stack :
           /\ frame_stack'[i].call_site = frame_stack[i].call_site
           /\ PendingOf(frame_stack'[i]) = PendingOf(frame_stack[i]),
         \A site \in SitesOf(program) :
           Settled(site) \/ call_site_analyze_counter'[site] = call_site_analyze_counter[site]
  PROVE  ReachedFromBelow' /\ CountedOnceAFrame'
<1>1. ReachedFromBelow'
  BY ReachedStays DEF SummaryInv
<1>2. \A site : WaitingFor(site)' = WaitingFor(site)
  BY DEF WaitingFor
<1>3. \A site : Settled(site) => Settled(site)'
  BY SettledStays
<1>4. CountedOnceAFrame'
  <2> SUFFICES ASSUME NEW site \in SitesOf(program), ~Settled(site)
               PROVE  \/ \E i \in DOMAIN frame_stack' : i > 1 /\ frame_stack'[i].call_site = site
                      \/ call_site_analyze_counter'[site] <= Cardinality(WaitingFor(site)')
    BY <1>3 DEF CountedOnceAFrame
  <2>1. \/ \E i \in DOMAIN frame_stack : i > 1 /\ frame_stack[i].call_site = site
        \/ call_site_analyze_counter[site] <= Cardinality(WaitingFor(site))
    BY DEF SummaryInv, CountedOnceAFrame
  <2> QED BY <1>2, <2>1
<1> QED BY <1>1, <1>4

\* The path of the frame that starts is being walked.
LEMMA InitFrameSummary ==
  ASSUME TypeOK, StackInv, SummaryInv, InitFrame
  PROVE  SummaryInv'
<1> DEFINE n == Len(frame_stack)
<1>1. /\ frame_stack # <<>> /\ ~Top.has_been_inited
      /\ program' = program /\ summaries' = summaries
      /\ call_site_analyze_counter' = call_site_analyze_counter
      /\ paths' = IF n > 1 THEN WithPath(paths, PathOfTop) ELSE paths
  BY DEF InitFrame
<1>2. /\ n \in Nat \ {0} /\ n \in 1..n /\ DOMAIN frame_stack = 1..n /\ Top = frame_stack[n]
  BY <1>1, TopFrame
<1>3. /\ Len(frame_stack') = n /\ DOMAIN frame_stack' = 1..n
      /\ frame_stack'[n].call_site = Top.call_site
      /\ frame_stack'[n].has_been_inited /\ frame_stack'[n].call_path = PathOfTop
      /\ DOMAIN Top.content_already_analyzed = {}
      /\ DOMAIN frame_stack'[n].content_already_analyzed = {}
      /\ \A i \in 1..(n - 1) : frame_stack'[i] = frame_stack[i]
  BY <1>2, InitFrameStack
<1>4. \A i \in 1..n : i # n => frame_stack'[i] = frame_stack[i] /\ i < n
  <2>1. \A i \in 1..n : i # n => i \in 1..(n - 1) /\ i < n
    <3> HIDE DEF n
    <3> QED BY <1>2
  <2> QED BY <1>3, <2>1
<1>5. \A site : Settled(site) => Settled(site)'
  BY <1>1, SettledStays
<1>6. ReachedFromBelow' /\ CountedOnceAFrame'
  <2>1. ASSUME NEW i \in DOMAIN frame_stack
        PROVE  /\ frame_stack'[i].call_site = frame_stack[i].call_site
               /\ PendingOf(frame_stack'[i]) = PendingOf(frame_stack[i])
    BY <1>2, <1>3, <1>4 DEF PendingOf
  <2> QED BY <1>1, <1>2, <1>3, <2>1, SameWait
<1>7. KeptPathsSettled'
  <2> SUFFICES ASSUME NEW p \in paths'
               PROVE  \/ Settled(Last(p))'
                      \/ \E i \in 1..n : /\ i > 1 /\ frame_stack'[i].has_been_inited
                                         /\ frame_stack'[i].call_path = p
    BY <1>3 DEF KeptPathsSettled
  <2>1. CASE p \in paths
    <3>1. CASE Settled(Last(p))
      BY <1>5, <3>1
    <3>2. ASSUME NEW i \in 1..n, i > 1, frame_stack[i].has_been_inited, frame_stack[i].call_path = p
          PROVE  frame_stack'[i].has_been_inited /\ frame_stack'[i].call_path = p
      BY <1>1, <1>2, <1>4, <3>2
    <3> QED BY <1>2, <2>1, <3>1, <3>2 DEF SummaryInv, KeptPathsSettled
  <2>2. CASE p \notin paths
    <3>1. n > 1 /\ p = PathOfTop
      BY <1>1, <2>2 DEF WithPath
    <3> QED BY <1>2, <1>3, <3>1
  <2> QED BY <2>1, <2>2
<1>8. HandedOnSettled'
  <2> SUFFICES ASSUME NEW i \in 1..n, NEW site \in DOMAIN frame_stack'[i].content_already_analyzed,
                      frame_stack'[i].content_already_analyzed[site]
               PROVE  Settled(site)' \/ (i < n /\ frame_stack'[i + 1].call_site = site)
    BY <1>3 DEF HandedOnSettled
  <2>1. i # n
    BY <1>3
  <2>2. frame_stack'[i] = frame_stack[i] /\ i < n /\ i + 1 \in 1..n
    <3>1. \A j \in 1..n : j < n => j + 1 \in 1..n
      <4> HIDE DEF n
      <4> QED BY <1>2
    <3> QED BY <1>4, <2>1, <3>1
  <2>3. Settled(site) \/ frame_stack[i + 1].call_site = site
    BY <1>2, <2>2 DEF SummaryInv, HandedOnSettled
  <2>4. frame_stack'[i + 1].call_site = frame_stack[i + 1].call_site
    BY <1>2, <1>3, <1>4, <2>2
  <2> QED BY <1>5, <2>2, <2>3, <2>4
<1> QED BY <1>6, <1>7, <1>8 DEF SummaryInv

\* A callee whose frame goes away is settled: it has a summary or no body.
LEMMA PopSummary ==
  ASSUME TypeOK, StackInv, SummaryInv, InitFails \/ FinishFrame
  PROVE  SummaryInv'
<1> DEFINE n == Len(frame_stack)
<1>1. /\ frame_stack # <<>> /\ program' = program /\ paths' = paths
      /\ summaries \subseteq summaries'
      /\ call_site_analyze_counter' = call_site_analyze_counter
  BY DEF InitFails, FinishFrame, Ready
<1>2. /\ n \in Nat \ {0} /\ n \in 1..n /\ DOMAIN frame_stack = 1..n /\ Top = frame_stack[n]
  BY <1>1, TopFrame
<1>3. /\ Len(frame_stack') = n - 1 /\ DOMAIN frame_stack' = 1..(n - 1)
      /\ \A i \in 1..(n - 1) : frame_stack'[i] = frame_stack[i]
  BY PopStack
<1>4. /\ \A i \in 1..n : i \in 1..(n - 1) \/ i = n
      /\ \A i \in 1..(n - 1) : i \in 1..n /\ i < n /\ i + 1 \in 1..n /\ (i < n - 1 \/ i + 1 = n)
      /\ \A i \in 1..(n - 1) : i < n - 1 => i + 1 \in 1..(n - 1)
  <2> HIDE DEF n
  <2> QED BY <1>2
<1>5. \A site : Settled(site) => Settled(site)'
  BY <1>1, SettledStays
<1>6. PICK gone : gone = Top.call_site
  OBVIOUS
<1>7. SoundAt(frame_stack, n) /\ Settled(gone)'
  <2>1. SoundAt(frame_stack, n)
    BY <1>2 DEF StackInv
  <2>2. CASE FinishFrame
    BY <1>6, <2>1, <2>2 DEF FinishFrame, Settled
  <2>3. CASE InitFails
    BY <1>1, <1>6, <2>1, <2>3 DEF InitFails, Settled, MethodOf
  <2> QED BY <2>1, <2>2, <2>3
<1>8. PendingOf(Top) = {}
  <2>1. CASE FinishFrame
    BY <2>1 DEF FinishFrame
  <2>2. CASE InitFails
    BY <1>2, <1>7, <2>2 DEF InitFails, SoundAt, InOrder, PendingOf
  <2> QED BY <2>1, <2>2
<1>9. ReachedFromBelow'
  BY <1>1, <1>2, <1>3, <1>4, ReachedStays DEF SummaryInv
<1>10. KeptPathsSettled'
  <2> SUFFICES ASSUME NEW p \in paths, ~Settled(Last(p))'
               PROVE  \E i \in 1..(n - 1) : /\ i > 1 /\ frame_stack'[i].has_been_inited
                                            /\ frame_stack'[i].call_path = p
    BY <1>1, <1>3 DEF KeptPathsSettled
  <2>1. PICK i \in 1..n : i > 1 /\ frame_stack[i].has_been_inited /\ frame_stack[i].call_path = p
    BY <1>2, <1>5 DEF SummaryInv, KeptPathsSettled
  <2>2. i # n
    <3> SUFFICES ASSUME i = n PROVE FALSE
      OBVIOUS
    <3>1. Top.has_been_inited /\ Top.call_path = p /\ n > 1
      BY <1>2, <2>1
    <3>2. p = PathOfTop /\ Len(p) = n - 1 /\ p[n - 1] = Top.call_site
      <4>1. p = PathOfTop
        BY <1>1, <3>1, TopPath DEF Ready
      <4>2. n - 1 \in 1..(n - 1) /\ (n - 1) + 1 = n
        <5> HIDE DEF n
        <5> QED BY <1>2, <3>1
      <4> QED BY <1>1, <1>2, <4>1, <4>2, PathOfTopProperties
    <3>3. Last(p) = gone
      BY <1>6, <3>2 DEF Last
    <3> QED BY <1>7, <3>3
  <2> QED BY <1>3, <1>4, <2>1, <2>2
<1>11. HandedOnSettled'
  <2> SUFFICES ASSUME NEW i \in 1..(n - 1),
                      NEW site \in DOMAIN frame_stack'[i].content_already_analyzed,
                      frame_stack'[i].content_already_analyzed[site], ~Settled(site)'
               PROVE  i < n - 1 /\ frame_stack'[i + 1].call_site = site
    BY <1>3 DEF HandedOnSettled
  <2>1. frame_stack[i + 1].call_site = site
    BY <1>2, <1>3, <1>4, <1>5 DEF SummaryInv, HandedOnSettled
  <2>2. i + 1 # n
    BY <1>2, <1>6, <1>7, <2>1
  <2> QED BY <1>3, <1>4, <2>1, <2>2
<1>12. CountedOnceAFrame'
  <2> SUFFICES ASSUME NEW site \in SitesOf(program), ~Settled(site)'
               PROVE  \/ \E i \in 1..(n - 1) : i > 1 /\ frame_stack'[i].call_site = site
                      \/ call_site_analyze_counter'[site] <= Cardinality(WaitingFor(site)')
    BY <1>1, <1>3 DEF CountedOnceAFrame
  <2>1. WaitingFor(site)' = WaitingFor(site)
    BY <1>2, <1>3, <1>4, <1>8 DEF WaitingFor
  <2>2. CASE call_site_analyze_counter[site] <= Cardinality(WaitingFor(site))
    BY <1>1, <2>1, <2>2
  <2>3. ASSUME NEW i \in 1..n, i > 1, frame_stack[i].call_site = site
        PROVE  i \in 1..(n - 1) /\ frame_stack'[i].call_site = site
    BY <1>2, <1>3, <1>4, <1>6, <1>7, <2>3
  <2> QED BY <1>2, <1>5, <2>2, <2>3 DEF SummaryInv, CountedOnceAFrame
<1> QED BY <1>9, <1>10, <1>11, <1>12 DEF SummaryInv

\* The callee that gets its frame is on the stack.
LEMMA EnterCalleeSummary ==
  ASSUME TypeOK, StackInv, SummaryInv, EnterCallee
  PROVE  SummaryInv'
<1> DEFINE n == Len(frame_stack)
<1>1. /\ frame_stack # <<>> /\ program' = program /\ paths' = paths /\ summaries' = summaries
      /\ call_site_analyze_counter' = call_site_analyze_counter
  BY DEF EnterCallee, Ready
<1>2. /\ n \in Nat \ {0} /\ n \in 1..n /\ DOMAIN frame_stack = 1..n /\ Top = frame_stack[n]
      /\ \A i \in 1..n : MethodOf(frame_stack[i]) \in Methods
  BY <1>1, TopFrame, ElementOfSeq, FrameFields DEF TypeOK
<1>3. PICK site \in PendingOf(Top) :
        /\ site \in SitesOf(program) /\ Caller(site) = MethodOf(Top)
        /\ DOMAIN frame_stack' = 1..(n + 1) /\ Len(frame_stack') = n + 1
        /\ \A i \in 1..(n - 1) : frame_stack'[i] = frame_stack[i]
        /\ frame_stack'[n].call_site = Top.call_site
        /\ frame_stack'[n].call_path = Top.call_path
        /\ frame_stack'[n].has_been_inited
        /\ frame_stack'[n].content_already_analyzed =
             [Top.content_already_analyzed EXCEPT ![site] = TRUE]
        /\ frame_stack'[n + 1].call_site = site
        /\ DOMAIN frame_stack'[n + 1].content_already_analyzed = {}
  BY EnterCalleeStack
<1>4. /\ \A i \in 1..(n + 1) : i \in 1..n \/ i = n + 1
      /\ \A i \in 1..n : i \in 1..(n - 1) \/ i = n
      /\ \A i \in 1..n : i \in 1..(n + 1) /\ i + 1 \in 1..(n + 1) /\ i < n + 1
      /\ \A i \in 1..n : i < n => i + 1 \in 1..n
      /\ n + 1 \in 1..(n + 1) /\ n + 1 > 1 /\ \A i \in 1..n : ~(n + 1 <= i) /\ i <= n
  <2> HIDE DEF n
  <2> QED BY <1>2
<1>5. \A x : Settled(x) => Settled(x)'
  BY <1>1, SettledStays
<1>6. \A i \in 1..n :
        /\ frame_stack'[i].call_site = frame_stack[i].call_site
        /\ frame_stack'[i].call_path = frame_stack[i].call_path
        /\ frame_stack[i].has_been_inited => frame_stack'[i].has_been_inited
  BY <1>2, <1>3, <1>4
<1>7. ReachedFromBelow'
  <2>1. MethodOf(frame_stack'[n + 1]) = Callee(site)
    BY <1>3 DEF MethodOf
  <2>2. \A i \in 1..n : MethodOf(frame_stack'[i]) = MethodOf(frame_stack[i])
    BY <1>6 DEF MethodOf
  <2>3. \A j \in 1..n : MethodOf(Top) \in CallReach(program, MethodOf(frame_stack[j]))
    BY <1>2, <1>4 DEF SummaryInv, ReachedFromBelow
  <2>4. \A j \in 1..n : Callee(site) \in CallReach(program, MethodOf(frame_stack[j]))
    <3>1. program \in Programs
      BY DEF TypeOK
    <3> QED BY <1>2, <1>3, <2>3, <3>1, CallReachProperties
  <2>5. Callee(site) \in CallReach(program, Callee(site))
    <3>1. program \in Programs
      BY DEF TypeOK
    <3>2. Callee(site) \in Methods
      BY <1>3, <3>1, SitesAreCalls
    <3> QED BY <3>1, <3>2, CallReachProperties
  <2>6. ASSUME NEW i \in 1..(n + 1), NEW j \in 1..(n + 1), j <= i
        PROVE  MethodOf(frame_stack'[i]) \in CallReach(program, MethodOf(frame_stack'[j]))
    <3>1. CASE i = n + 1 /\ j = n + 1
      BY <2>1, <2>5, <3>1
    <3>2. CASE i = n + 1 /\ j \in 1..n
      BY <2>1, <2>2, <2>4, <3>2
    <3>3. CASE i \in 1..n /\ j \in 1..n
      BY <1>2, <2>2, <2>6, <3>3 DEF SummaryInv, ReachedFromBelow
    <3> QED BY <1>4, <2>6, <3>1, <3>2, <3>3
  <2> QED BY <1>1, <1>3, <2>6 DEF ReachedFromBelow
<1>8. KeptPathsSettled'
  <2> SUFFICES ASSUME NEW p \in paths
               PROVE  \/ Settled(Last(p))'
                      \/ \E i \in 1..(n + 1) : /\ i > 1 /\ frame_stack'[i].has_been_inited
                                               /\ frame_stack'[i].call_path = p
    BY <1>1, <1>3 DEF KeptPathsSettled
  <2> QED BY <1>2, <1>4, <1>5, <1>6 DEF SummaryInv, KeptPathsSettled
<1>9. HandedOnSettled'
  <2> SUFFICES ASSUME NEW i \in 1..(n + 1),
                      NEW x \in DOMAIN frame_stack'[i].content_already_analyzed,
                      frame_stack'[i].content_already_analyzed[x]
               PROVE  Settled(x)' \/ (i < n + 1 /\ frame_stack'[i + 1].call_site = x)
    BY <1>3 DEF HandedOnSettled
  <2>1. CASE i \in 1..(n - 1)
    <3>1. i \in 1..n /\ i < n
      <4> HIDE DEF n
      <4> QED BY <1>2, <2>1
    <3>2. Settled(x) \/ frame_stack[i + 1].call_site = x
      BY <1>2, <1>3, <2>1, <3>1 DEF SummaryInv, HandedOnSettled
    <3> QED BY <1>4, <1>5, <1>6, <3>1, <3>2
  <2>2. CASE i = n /\ x = site
    BY <1>2, <1>3, <1>4, <2>2
  <2>3. CASE i = n /\ x # site
    <3>1. x \in DOMAIN Top.content_already_analyzed /\ Top.content_already_analyzed[x]
      BY <1>3, <2>3
    <3> QED BY <1>2, <1>5, <3>1 DEF SummaryInv, HandedOnSettled
  <2> QED BY <1>3, <1>4, <2>1, <2>2, <2>3
<1>10. CountedOnceAFrame'
  <2> SUFFICES ASSUME NEW x \in SitesOf(program), ~Settled(x)'
               PROVE  \/ \E i \in 1..(n + 1) : i > 1 /\ frame_stack'[i].call_site = x
                      \/ call_site_analyze_counter'[x] <= Cardinality(WaitingFor(x)')
    BY <1>1, <1>3 DEF CountedOnceAFrame
  <2>1. CASE x = site
    BY <1>3, <1>4, <2>1
  <2>2. CASE x # site
    <3>1. \A i \in 1..n : x \in PendingOf(frame_stack'[i]) <=> x \in PendingOf(frame_stack[i])
      <4>1. x \in PendingOf(frame_stack'[n]) <=> x \in PendingOf(Top)
        BY <1>3, <2>2 DEF PendingOf
      <4> QED BY <1>2, <1>3, <1>4, <4>1
    <3>2. x \notin PendingOf(frame_stack'[n + 1])
      BY <1>3 DEF PendingOf
    <3>3. WaitingFor(x)' = WaitingFor(x)
      BY <1>2, <1>3, <1>4, <3>1, <3>2 DEF WaitingFor
    <3>4. CASE call_site_analyze_counter[x] <= Cardinality(WaitingFor(x))
      BY <1>1, <3>3, <3>4
    <3>5. ASSUME NEW i \in 1..n, i > 1, frame_stack[i].call_site = x
          PROVE  i \in 1..(n + 1) /\ frame_stack'[i].call_site = x
      BY <1>4, <1>6, <3>5
    <3> QED BY <1>2, <1>5, <3>4, <3>5 DEF SummaryInv, CountedOnceAFrame
  <2> QED BY <2>1, <2>2
<1> QED BY <1>7, <1>8, <1>9, <1>10 DEF SummaryInv

\* A frame that is interrupted waits for the callees that were counted.
LEMMA InterruptSummary ==
  ASSUME TypeOK, StackInv, SummaryInv, NEW s, Interrupt(s)
  PROVE  SummaryInv'
<1> DEFINE n == Len(frame_stack)
<1>1. /\ Visitable(s) /\ program' = program /\ paths' = paths /\ summaries' = summaries
      /\ call_site_analyze_counter' = Counted(ToBeAnalyzed(s))
  BY DEF Interrupt
<1>2. frame_stack # <<>> /\ Top.has_been_inited /\ PendingOf(Top) = {}
  BY <1>1, VisitableProperties
<1>3. /\ n \in Nat \ {0} /\ n \in 1..n /\ DOMAIN frame_stack = 1..n /\ Top = frame_stack[n]
  BY <1>2, TopFrame
<1>4. /\ Len(frame_stack') = n /\ DOMAIN frame_stack' = 1..n
      /\ \A i \in 1..(n - 1) : frame_stack'[i] = frame_stack[i]
      /\ frame_stack'[n].call_site = Top.call_site /\ frame_stack'[n].call_path = Top.call_path
      /\ frame_stack'[n].has_been_inited
      /\ frame_stack'[n].content_already_analyzed = [site \in ToBeAnalyzed(s) |-> FALSE]
  BY <1>3, InterruptStack
<1>5. /\ \A i \in 1..n : i \in 1..(n - 1) \/ i = n
      /\ \A i \in 1..(n - 1) : i \in 1..n /\ i < n /\ i + 1 \in 1..n
  <2> HIDE DEF n
  <2> QED BY <1>3
<1>6. \A x : Settled(x) => Settled(x)'
  BY <1>1, SettledStays
<1>7. \A i \in 1..n :
        /\ frame_stack'[i].call_site = frame_stack[i].call_site
        /\ frame_stack'[i].call_path = frame_stack[i].call_path
        /\ frame_stack[i].has_been_inited => frame_stack'[i].has_been_inited
  BY <1>3, <1>4, <1>5
<1>8. ReachedFromBelow'
  BY <1>1, <1>3, <1>4, <1>7, ReachedStays DEF SummaryInv
<1>9. KeptPathsSettled'
  <2> SUFFICES ASSUME NEW p \in paths
               PROVE  \/ Settled(Last(p))'
                      \/ \E i \in 1..n : /\ i > 1 /\ frame_stack'[i].has_been_inited
                                         /\ frame_stack'[i].call_path = p
    BY <1>1, <1>4 DEF KeptPathsSettled
  <2> QED BY <1>3, <1>6, <1>7 DEF SummaryInv, KeptPathsSettled
<1>10. HandedOnSettled'
  <2> SUFFICES ASSUME NEW i \in 1..n, NEW x \in DOMAIN frame_stack'[i].content_already_analyzed,
                      frame_stack'[i].content_already_analyzed[x]
               PROVE  Settled(x)' \/ (i < n /\ frame_stack'[i + 1].call_site = x)
    BY <1>4 DEF HandedOnSettled
  <2>1. i # n
    BY <1>4
  <2>2. i \in 1..(n - 1) /\ frame_stack'[i] = frame_stack[i]
    BY <1>4, <1>5, <2>1
  <2>3. Settled(x) \/ frame_stack[i + 1].call_site = x
    BY <1>3, <1>5, <2>2 DEF SummaryInv, HandedOnSettled
  <2> QED BY <1>5, <1>6, <1>7, <2>2, <2>3
<1>11. CountedOnceAFrame'
  <2> SUFFICES ASSUME NEW x \in SitesOf(program), ~Settled(x)'
               PROVE  \/ \E i \in 1..n : i > 1 /\ frame_stack'[i].call_site = x
                      \/ call_site_analyze_counter'[x] <= Cardinality(WaitingFor(x)')
    BY <1>1, <1>4 DEF CountedOnceAFrame
  <2>1. ASSUME NEW i \in 1..n, i > 1, frame_stack[i].call_site = x
        PROVE  frame_stack'[i].call_site = x
    BY <1>7, <2>1
  <2>2. CASE call_site_analyze_counter[x] <= Cardinality(WaitingFor(x))
    <3>1. /\ call_site_analyze_counter'[x] =
               call_site_analyze_counter[x] + IF x \in ToBeAnalyzed(s) THEN 1 ELSE 0
          /\ call_site_analyze_counter[x] \in Nat
      BY <1>1, CountedType DEF TypeOK
    <3>2. n \notin WaitingFor(x)
      BY <1>2, <1>3 DEF WaitingFor
    <3>3. IsFiniteSet(WaitingFor(x)) /\ Cardinality(WaitingFor(x)) \in Nat
      <4>1. WaitingFor(x) \subseteq 1..n
        BY <1>3 DEF WaitingFor
      <4>2. IsFiniteSet(1..n)
        BY <1>3, FS_Interval
      <4>3. IsFiniteSet(WaitingFor(x))
        BY <4>1, <4>2, FS_Subset
      <4> QED BY <4>3, FS_CardinalityType
    <3>4. CASE x \in ToBeAnalyzed(s)
      <4>1. x \in PendingOf(frame_stack'[n])
        BY <1>4, <3>4 DEF PendingOf
      <4>2. WaitingFor(x)' = WaitingFor(x) \union {n}
        BY <1>3, <1>4, <1>5, <4>1 DEF WaitingFor
      <4>3. Cardinality(WaitingFor(x)') = Cardinality(WaitingFor(x)) + 1
        BY <3>2, <3>3, <4>2, FS_AddElement
      <4> QED BY <2>2, <3>1, <3>3, <3>4, <4>3
    <3>5. CASE x \notin ToBeAnalyzed(s)
      <4>1. x \notin PendingOf(frame_stack'[n])
        BY <1>4, <3>5 DEF PendingOf
      <4>2. WaitingFor(x)' = WaitingFor(x)
        BY <1>3, <1>4, <1>5, <3>2, <4>1 DEF WaitingFor
      <4> QED BY <2>2, <3>1, <3>5, <4>2
    <3> QED BY <3>4, <3>5
  <2> QED BY <1>3, <1>6, <2>1, <2>2 DEF SummaryInv, CountedOnceAFrame
<1> QED BY <1>8, <1>9, <1>10, <1>11 DEF SummaryInv

\* The callees of a call that is passed over are settled.
LEMMA VisitCallSettled ==
  ASSUME TypeOK, StackInv, SummaryInv, NEW s, VisitCall(s)
  PROVE  \A site \in SitesAt(MethodOf(Top), s) : Settled(site)
<1>1. Visitable(s) /\ ToBeAnalyzed(s) = {}
  BY DEF VisitCall
<1>2. \A site \in SitesAt(MethodOf(Top), s) : Skips(site)
  BY <1>1 DEF ToBeAnalyzed
<1> QED BY <1>1, <1>2, SkippedSettled

\* So are the call sites at the end of the paths it adds.
LEMMA VisitCallSummary ==
  ASSUME TypeOK, StackInv, SummaryInv, NEW s, VisitCall(s)
  PROVE  SummaryInv'
<1> DEFINE n == Len(frame_stack)
<1>1. /\ Visitable(s) /\ program' = program /\ summaries' = summaries
      /\ paths' = WithPaths(paths, PathsOfCallees(s))
      /\ call_site_analyze_counter' = Counted(SitesAt(MethodOf(Top), s))
  BY DEF VisitCall
<1>2. frame_stack # <<>> /\ Top.has_been_inited /\ Top \in Frames
  BY <1>1, VisitableProperties
<1>3. /\ n \in Nat \ {0} /\ n \in 1..n /\ DOMAIN frame_stack = 1..n /\ Top = frame_stack[n]
  BY <1>2, TopFrame
<1>4. /\ Len(frame_stack') = n /\ DOMAIN frame_stack' = 1..n
      /\ \A i \in 1..(n - 1) : frame_stack'[i] = frame_stack[i]
      /\ frame_stack'[n].call_site = Top.call_site /\ frame_stack'[n].call_path = Top.call_path
      /\ frame_stack'[n].has_been_inited
      /\ frame_stack'[n].content_already_analyzed = Top.content_already_analyzed
  BY <1>3, VisitCallStack
<1>5. \A i \in 1..n : i \in 1..(n - 1) \/ i = n
  <2> HIDE DEF n
  <2> QED BY <1>3
<1>6. \A x : Settled(x) => Settled(x)'
  BY <1>1, SettledStays
<1>7. \A i \in 1..n :
        /\ frame_stack'[i].call_site = frame_stack[i].call_site
        /\ frame_stack'[i].call_path = frame_stack[i].call_path
        /\ frame_stack'[i].content_already_analyzed = frame_stack[i].content_already_analyzed
        /\ frame_stack[i].has_been_inited => frame_stack'[i].has_been_inited
  BY <1>3, <1>4, <1>5
<1>8. ReachedFromBelow' /\ CountedOnceAFrame'
  <2>1. \A i \in DOMAIN frame_stack : PendingOf(frame_stack'[i]) = PendingOf(frame_stack[i])
    BY <1>3, <1>7 DEF PendingOf
  <2>2. ASSUME NEW site \in SitesOf(program), ~Settled(site)
        PROVE  call_site_analyze_counter'[site] = call_site_analyze_counter[site]
    <3>1. site \notin SitesAt(MethodOf(Top), s)
      BY <2>2, VisitCallSettled
    <3>2. call_site_analyze_counter[site] \in Nat
      BY DEF TypeOK
    <3> QED BY <1>1, <3>1, <3>2, CountedType
  <2> QED BY <1>1, <1>3, <1>4, <1>7, <2>1, <2>2, SameWait
<1>9. KeptPathsSettled'
  <2> SUFFICES ASSUME NEW p \in paths'
               PROVE  \/ Settled(Last(p))'
                      \/ \E i \in 1..n : /\ i > 1 /\ frame_stack'[i].has_been_inited
                                         /\ frame_stack'[i].call_path = p
    BY <1>4 DEF KeptPathsSettled
  <2>1. CASE p \in paths
    BY <1>3, <1>6, <1>7, <2>1 DEF SummaryInv, KeptPathsSettled
  <2>2. CASE p \notin paths
    <3>1. p \in PathsOfCallees(s)
      BY <1>1, <2>2 DEF WithPaths
    <3>2. PICK site \in SitesAt(MethodOf(Top), s) : p = Append(Top.call_path, site)
      BY <3>1 DEF PathsOfCallees
    <3>3. Top.call_path \in Seq(SitesOf(program)) /\ site \in SitesOf(program)
      BY <1>1, <1>2, FrameFields, VisitableProperties
    <3>4. Last(p) = site
      BY <3>2, <3>3, AppendProperties DEF Last
    <3> QED BY <1>6, <3>4, VisitCallSettled
  <2> QED BY <2>1, <2>2
<1>10. HandedOnSettled'
  <2> SUFFICES ASSUME NEW i \in 1..n, NEW x \in DOMAIN frame_stack'[i].content_already_analyzed,
                      frame_stack'[i].content_already_analyzed[x]
               PROVE  Settled(x)' \/ (i < n /\ frame_stack'[i + 1].call_site = x)
    BY <1>4 DEF HandedOnSettled
  <2>1. Settled(x) \/ (i < n /\ frame_stack[i + 1].call_site = x)
    BY <1>3, <1>7 DEF SummaryInv, HandedOnSettled
  <2>2. i < n => i + 1 \in 1..n
    <3> HIDE DEF n
    <3> QED BY <1>3
  <2> QED BY <1>6, <1>7, <2>1, <2>2
<1> QED BY <1>8, <1>9, <1>10 DEF SummaryInv

-----------------------------------------------------------------------------
(* The summaries are there. *)

LEMMA SummaryInit == Init => SummaryInv
<1> SUFFICES ASSUME Init PROVE SummaryInv
  OBVIOUS
<1>1. /\ program \in Programs /\ frame_stack = <<>> /\ paths = {}
      /\ call_site_analyze_counter = [site \in SitesOf(program) |-> 0]
  BY DEF Init
<1>2. DOMAIN frame_stack = {}
  BY <1>1, EmptySeq
<1>3. \A site : Cardinality(WaitingFor(site)) = 0
  <2>1. \A site : WaitingFor(site) = {}
    BY <1>2 DEF WaitingFor
  <2> QED BY <2>1, FS_EmptySet
<1> QED BY <1>1, <1>2, <1>3
        DEF SummaryInv, ReachedFromBelow, KeptPathsSettled, HandedOnSettled, CountedOnceAFrame

LEMMA SummaryStep == TypeOK /\ StackInv /\ SummaryInv /\ [Next]_vars => SummaryInv'
<1> SUFFICES ASSUME TypeOK, StackInv, SummaryInv, [Next]_vars PROVE SummaryInv'
  OBVIOUS
<1>1. CASE \E m \in Methods : TakeEntry(m)
  BY <1>1, TakeEntrySummary
<1>2. CASE InitFrame
  BY <1>2, InitFrameSummary
<1>3. CASE InitFails \/ FinishFrame
  BY <1>3, PopSummary
<1>4. CASE EnterCallee
  BY <1>4, EnterCalleeSummary
<1>5. CASE \E s \in DOMAIN program.callees : Interrupt(s) \/ VisitCall(s)
  BY <1>5, InterruptSummary, VisitCallSummary
<1>6. CASE UNCHANGED vars
  <2>1. /\ program' = program /\ frame_stack' = frame_stack /\ paths' = paths
        /\ summaries' = summaries /\ call_site_analyze_counter' = call_site_analyze_counter
    BY <1>6 DEF vars
  <2>2. ReachedFromBelow' /\ HandedOnSettled' /\ KeptPathsSettled'
    BY <2>1 DEF SummaryInv, ReachedFromBelow, HandedOnSettled, KeptPathsSettled, Settled
  <2>3. CountedOnceAFrame'
    BY <2>1 DEF SummaryInv, CountedOnceAFrame, Settled, WaitingFor
  <2> QED BY <2>2, <2>3 DEF SummaryInv
<1> QED BY <1>1, <1>2, <1>3, <1>4, <1>5, <1>6 DEF Next

\* The whole inductive invariant holds in every reachable state.
THEOREM Inductive == Spec => []IInv
<1>1. Init => IInv
  <2>1. Init => WalkedPathsKept
    BY DEF Init, WalkedPathsKept, NoPrefixAmong
  <2> QED BY <2>1, StackInit, SummaryInit DEF IInv
<1>2. IInv /\ [Next]_vars => IInv'
  BY StackStep, WalkedStep, SummaryStep DEF IInv
<1> QED BY <1>1, <1>2, PTL DEF Spec

\* A call is passed over only when the summary of each callee with a body is there,
\* or the call is on a cycle: the cuts of compute_target_method_states for cycles and
\* for the visits of a call site cost no other call its summary.
THEOREM SummariesThere == Spec => SummaryThereWhenApplied
<1> DEFINE A == \A s \in DOMAIN program.callees :
                  VisitCall(s) =>
                    \A site \in SitesAt(MethodOf(Top), s) :
                      \/ site \in summaries
                      \/ Callee(site) \notin program.has_body
                      \/ Caller(site) \in CallReach(program, Callee(site))
<1>1. IInv => A
  BY VisitCallSettled DEF IInv, Settled
<1>2. IInv /\ [Next]_vars => [A]_vars
  BY <1>1
<1>3. Spec => [][A]_vars
  BY <1>2, Inductive, PTL DEF Spec
<1> QED BY <1>3 DEF SummaryThereWhenApplied

-----------------------------------------------------------------------------
(* The phase uses up what it has to do.                                    *)

\* The visits that call sites have left before they are passed over.
CountsLeft ==
  {v \in SitesOf(program) \X (0..MaxCallSite) : call_site_analyze_counter[v[1]] <= v[2]}

\* The callees that wait for a frame.
CalleesLeft ==
  {v \in (DOMAIN frame_stack) \X SitesOf(program) : v[2] \in PendingOf(frame_stack[v[1]])}

NewFrames == {i \in DOMAIN frame_stack : ~frame_stack[i].has_been_inited}

\* The visits that the calls of the frames have left.
VisitsLeft ==
  {v \in (DOMAIN frame_stack) \X (DOMAIN program.callees) \X (0..Rounds) :
     /\ v[2] \in program.stmts[MethodOf(frame_stack[v[1]])]
     /\ frame_stack[v[1]].stmt_counters[v[2]] <= v[3]}

\* What the frames on the stack have left, once nobody waits.
FramesUsedUp ==
  /\ NewFrames' \subseteq NewFrames /\ VisitsLeft' \subseteq VisitsLeft
  /\ DOMAIN frame_stack' \subseteq DOMAIN frame_stack
  /\ \/ NewFrames' # NewFrames \/ VisitsLeft' # VisitsLeft
     \/ DOMAIN frame_stack' # DOMAIN frame_stack

Shrinks(new, old) == new \subseteq old /\ new # old

\* Entry points, visits of call sites, callees that wait and what the frames have
\* left, in this order: a step takes from one of them and leaves those before it.
UsesUp ==
  \/ Shrinks(todo', todo)
  \/ todo' = todo /\ Shrinks(CountsLeft', CountsLeft)
  \/ todo' = todo /\ CountsLeft' = CountsLeft /\ Shrinks(CalleesLeft', CalleesLeft)
  \/ todo' = todo /\ CountsLeft' = CountsLeft /\ CalleesLeft' = CalleesLeft /\ FramesUsedUp

AllFinite ==
  /\ IsFiniteSet(todo) /\ IsFiniteSet(CountsLeft) /\ IsFiniteSet(CalleesLeft)
  /\ IsFiniteSet(NewFrames) /\ IsFiniteSet(VisitsLeft) /\ IsFiniteSet(DOMAIN frame_stack)

\* There are finitely many call sites, and a stack has finitely many frames.
LEMMA FinitelyManySites ==
  ASSUME TypeOK
  PROVE  /\ IsFiniteSet(DOMAIN program.callees) /\ IsFiniteSet(SitesOf(program))
         /\ IsFiniteSet(DOMAIN frame_stack)
         /\ IsFiniteSet(0..MaxCallSite) /\ IsFiniteSet(0..Rounds)
<1>1. IsProgram(program) /\ IsFiniteSet(Methods)
  BY ProgramAssumption, MethodsAssumption DEF TypeOK
<1>2. IsFiniteSet(DOMAIN program.callees)
  BY <1>1 DEF IsProgram
<1>3. SitesOf(program) \subseteq Methods \X (DOMAIN program.callees) \X Methods
  <2> SUFFICES ASSUME NEW site \in SitesOf(program)
               PROVE  site \in Methods \X (DOMAIN program.callees) \X Methods
    OBVIOUS
  <2>1. PICK m \in Methods : \E s \in program.stmts[m] : \E c \in program.callees[s] :
                               site = CallSite(m, s, c)
    BY DEF SitesOf
  <2>2. PICK s \in program.stmts[m] : \E c \in program.callees[s] : site = CallSite(m, s, c)
    BY <2>1
  <2>3. PICK c \in program.callees[s] : site = CallSite(m, s, c)
    BY <2>2
  <2>4. s \in DOMAIN program.callees /\ c \in Methods
    BY <1>1 DEF IsProgram
  <2> QED BY <2>3, <2>4 DEF CallSite
<1>4. IsFiniteSet(SitesOf(program))
  BY <1>1, <1>2, <1>3, FiniteTriples, FS_Subset
<1>5. Len(frame_stack) \in Nat /\ DOMAIN frame_stack = 1..Len(frame_stack)
  BY LenProperties DEF TypeOK
<1>6. IsFiniteSet(DOMAIN frame_stack)
  BY <1>5, FS_Interval
<1>7. IsFiniteSet(0..MaxCallSite) /\ IsFiniteSet(0..Rounds)
  BY BoundsAssumption, FS_Interval
<1> QED BY <1>2, <1>4, <1>6, <1>7

\* What is left is finite.
LEMMA LeftIsFinite ==
  ASSUME TypeOK
  PROVE  AllFinite
<1>1. IsFiniteSet(todo)
  BY MethodsAssumption, FS_Subset DEF TypeOK
<1>2. IsFiniteSet(CountsLeft)
  <2>1. IsFiniteSet(SitesOf(program) \X (0..MaxCallSite))
    BY FinitelyManySites, FS_Product
  <2> QED BY <2>1, FS_Subset DEF CountsLeft
<1>3. IsFiniteSet(CalleesLeft)
  <2>1. IsFiniteSet((DOMAIN frame_stack) \X SitesOf(program))
    BY FinitelyManySites, FS_Product
  <2> QED BY <2>1, FS_Subset DEF CalleesLeft
<1>4. IsFiniteSet(NewFrames)
  BY FinitelyManySites, FS_Subset DEF NewFrames
<1>5. IsFiniteSet(VisitsLeft)
  <2>1. IsFiniteSet((DOMAIN frame_stack) \X (DOMAIN program.callees) \X (0..Rounds))
    BY FinitelyManySites, FiniteTriples
  <2> QED BY <2>1, FS_Subset DEF VisitsLeft
<1> QED BY <1>1, <1>2, <1>3, <1>4, <1>5, FinitelyManySites DEF AllFinite

\* The counts of call sites only grow, and a call site that is counted before its
\* limit uses one of its visits up.
LEMMA CountsUsedUp ==
  ASSUME TypeOK, NEW sites, program' = program, call_site_analyze_counter' = Counted(sites)
  PROVE  /\ CountsLeft' \subseteq CountsLeft
         /\ \A site \in sites \cap SitesOf(program) :
              call_site_analyze_counter[site] <= MaxCallSite => CountsLeft' # CountsLeft
<1>1. \A site \in SitesOf(program) :
        /\ call_site_analyze_counter[site] \in Nat
        /\ call_site_analyze_counter'[site] =
             call_site_analyze_counter[site] + IF site \in sites THEN 1 ELSE 0
  BY CountedType DEF TypeOK
<1>2. CountsLeft' \subseteq CountsLeft
  <2> SUFFICES ASSUME NEW v \in CountsLeft' PROVE v \in CountsLeft
    OBVIOUS
  <2>1. /\ v \in SitesOf(program) \X (0..MaxCallSite) /\ call_site_analyze_counter'[v[1]] <= v[2]
    BY DEF CountsLeft
  <2>2. v[1] \in SitesOf(program) /\ v[2] \in Int
    BY <2>1, BoundsAssumption
  <2>3. call_site_analyze_counter[v[1]] <= v[2]
    <3>1. PICK c \in Nat : c = call_site_analyze_counter[v[1]]
      BY <1>1, <2>2
    <3>2. call_site_analyze_counter'[v[1]] \in {c, c + 1}
      BY <1>1, <2>2, <3>1
    <3> QED BY <2>1, <2>2, <3>1, <3>2
  <2> QED BY <2>1, <2>3 DEF CountsLeft
<1>3. ASSUME NEW site \in sites \cap SitesOf(program), call_site_analyze_counter[site] <= MaxCallSite
      PROVE  CountsLeft' # CountsLeft
  <2>1. PICK c \in Nat : c = call_site_analyze_counter[site]
    BY <1>1, <1>3
  <2>2. c \in 0..MaxCallSite /\ call_site_analyze_counter'[site] = c + 1 /\ ~(c + 1 <= c)
    BY <1>1, <1>3, <2>1, BoundsAssumption
  <2>3. <<site, c>> \in CountsLeft
    BY <1>3, <2>1, <2>2 DEF CountsLeft
  <2>4. <<site, c>> \notin CountsLeft'
    BY <2>2 DEF CountsLeft
  <2> QED BY <2>3, <2>4
<1> QED BY <1>2, <1>3

\* Nothing is counted.
LEMMA SameCounts ==
  ASSUME program' = program, call_site_analyze_counter' = call_site_analyze_counter
  PROVE  CountsLeft' = CountsLeft
BY DEF CountsLeft

\* An entry point is taken from those to come.
LEMMA TakeEntryUses ==
  ASSUME NEW m \in Methods, TakeEntry(m)
  PROVE  UsesUp
BY DEF TakeEntry, UsesUp, Shrinks

\* A call site that is to be walked has visits left, and uses one up.
LEMMA InterruptUses ==
  ASSUME TypeOK, NEW s, Interrupt(s)
  PROVE  UsesUp
<1>1. /\ Visitable(s) /\ ToBeAnalyzed(s) # {} /\ program' = program /\ todo' = todo
      /\ call_site_analyze_counter' = Counted(ToBeAnalyzed(s))
  BY DEF Interrupt
<1>2. PICK site \in ToBeAnalyzed(s) : TRUE
  BY <1>1
<1>3. site \in SitesAt(MethodOf(Top), s) /\ ~(call_site_analyze_counter[site] > MaxCallSite)
  BY <1>2 DEF ToBeAnalyzed, Skips
<1>4. site \in SitesOf(program)
  BY <1>1, <1>3, VisitableProperties
<1>5. call_site_analyze_counter[site] \in Nat
  BY <1>4 DEF TypeOK
<1>6. call_site_analyze_counter[site] <= MaxCallSite
  BY <1>3, <1>5, BoundsAssumption
<1>7. CountsLeft' \subseteq CountsLeft /\ CountsLeft' # CountsLeft
  BY <1>1, <1>2, <1>4, <1>6, CountsUsedUp
<1> QED BY <1>1, <1>7 DEF UsesUp, Shrinks

\* A callee that gets its frame no longer waits.
LEMMA EnterCalleeUses ==
  ASSUME TypeOK, StackInv, EnterCallee
  PROVE  UsesUp
<1> DEFINE n == Len(frame_stack)
<1>1. /\ frame_stack # <<>> /\ todo' = todo /\ program' = program
      /\ call_site_analyze_counter' = call_site_analyze_counter
  BY DEF EnterCallee, Ready
<1>2. n \in Nat \ {0} /\ n \in 1..n /\ DOMAIN frame_stack = 1..n /\ Top = frame_stack[n]
  BY <1>1, TopFrame
<1>3. PICK site \in PendingOf(Top) :
        /\ site \in SitesOf(program)
        /\ DOMAIN frame_stack' = 1..(n + 1)
        /\ \A i \in 1..(n - 1) : frame_stack'[i] = frame_stack[i]
        /\ frame_stack'[n].content_already_analyzed =
             [Top.content_already_analyzed EXCEPT ![site] = TRUE]
        /\ DOMAIN frame_stack'[n + 1].content_already_analyzed = {}
  BY EnterCalleeStack
<1>4. PendingOf(frame_stack'[n]) = PendingOf(Top) \ {site}
  <2>1. Top.content_already_analyzed \in [DOMAIN Top.content_already_analyzed -> BOOLEAN]
    BY <1>1, TopFrame, FrameFields
  <2> QED BY <1>3, <2>1 DEF PendingOf
<1>5. PendingOf(frame_stack'[n + 1]) = {}
  BY <1>3 DEF PendingOf
<1>6. \A i \in 1..(n + 1) : i \in 1..(n - 1) \/ i = n \/ i = n + 1
  <2> HIDE DEF n
  <2> QED BY <1>2
<1>7. \A i \in 1..(n + 1) : PendingOf(frame_stack'[i]) # {} =>
        i \in 1..n /\ PendingOf(frame_stack'[i]) \subseteq PendingOf(frame_stack[i])
  <2> SUFFICES ASSUME NEW i \in 1..(n + 1), PendingOf(frame_stack'[i]) # {}
               PROVE  i \in 1..n /\ PendingOf(frame_stack'[i]) \subseteq PendingOf(frame_stack[i])
    OBVIOUS
  <2>1. CASE i \in 1..(n - 1)
    <3>1. i \in 1..n
      BY <1>2, <2>1
    <3> QED BY <1>3, <2>1, <3>1
  <2>2. CASE i = n
    BY <1>2, <1>4, <2>2
  <2>3. CASE i = n + 1
    BY <1>5, <2>3
  <2> QED BY <1>6, <2>1, <2>2, <2>3
<1>8. CalleesLeft' \subseteq CalleesLeft
  <2> SUFFICES ASSUME NEW v \in CalleesLeft' PROVE v \in CalleesLeft
    OBVIOUS
  <2>1. /\ v \in (1..(n + 1)) \X SitesOf(program) /\ v[2] \in PendingOf(frame_stack'[v[1]])
    BY <1>1, <1>3 DEF CalleesLeft, PendingOf
  <2>2. v[1] \in 1..n /\ v[2] \in PendingOf(frame_stack[v[1]])
    BY <1>7, <2>1
  <2> QED BY <1>2, <2>1, <2>2 DEF CalleesLeft
<1>9. <<n, site>> \in CalleesLeft /\ <<n, site>> \notin CalleesLeft'
  <2>1. <<n, site>> \in CalleesLeft
    BY <1>2, <1>3 DEF CalleesLeft
  <2>2. site \notin PendingOf(frame_stack'[n])
    BY <1>4
  <2>3. <<n, site>> \notin CalleesLeft'
    BY <2>2 DEF CalleesLeft, PendingOf
  <2> QED BY <2>1, <2>3
<1>10. CountsLeft' = CountsLeft
  BY <1>1, SameCounts
<1> QED BY <1>1, <1>8, <1>9, <1>10 DEF UsesUp, Shrinks

\* As many callees wait when each frame waits for the same.
LEMMA SameCallees ==
  ASSUME program' = program, DOMAIN frame_stack' = DOMAIN frame_stack,
         \A i \in DOMAIN frame_stack :
           frame_stack'[i].content_already_analyzed = frame_stack[i].content_already_analyzed
  PROVE  CalleesLeft' = CalleesLeft
<1>1. \A i \in DOMAIN frame_stack : PendingOf(frame_stack'[i]) = PendingOf(frame_stack[i])
  BY DEF PendingOf
<1>2. CalleesLeft' =
        {v \in (DOMAIN frame_stack) \X SitesOf(program) : v[2] \in PendingOf(frame_stack'[v[1]])}
  BY DEF CalleesLeft, PendingOf
<1> QED BY <1>1, <1>2 DEF CalleesLeft

\* A frame is new once.
LEMMA InitFrameUses ==
  ASSUME TypeOK, StackInv, InitFrame
  PROVE  UsesUp
<1> DEFINE n == Len(frame_stack)
<1>1. /\ frame_stack # <<>> /\ ~Top.has_been_inited /\ todo' = todo /\ program' = program
      /\ call_site_analyze_counter' = call_site_analyze_counter
  BY DEF InitFrame
<1>2. n \in Nat \ {0} /\ n \in 1..n /\ DOMAIN frame_stack = 1..n /\ Top = frame_stack[n]
  BY <1>1, TopFrame
<1>3. /\ DOMAIN frame_stack' = 1..n
      /\ \A i \in 1..(n - 1) : frame_stack'[i] = frame_stack[i]
      /\ frame_stack'[n].call_site = Top.call_site /\ frame_stack'[n].has_been_inited
      /\ frame_stack'[n].stmt_counters = Top.stmt_counters
      /\ DOMAIN Top.content_already_analyzed = {}
      /\ DOMAIN frame_stack'[n].content_already_analyzed = {}
  BY <1>2, InitFrameStack
<1>4. \A i \in 1..n : i \in 1..(n - 1) \/ i = n
  <2> HIDE DEF n
  <2> QED BY <1>2
<1>5. \A i \in 1..n : PendingOf(frame_stack'[i]) = PendingOf(frame_stack[i])
  <2>1. PendingOf(frame_stack'[n]) = {} /\ PendingOf(frame_stack[n]) = {}
    BY <1>2, <1>3 DEF PendingOf
  <2> QED BY <1>3, <1>4, <2>1
<1>6. CalleesLeft' = CalleesLeft
  <2>1. CalleesLeft' = {v \in (1..n) \X SitesOf(program) : v[2] \in PendingOf(frame_stack'[v[1]])}
    BY <1>1, <1>3 DEF CalleesLeft, PendingOf
  <2> QED BY <1>2, <1>5, <2>1 DEF CalleesLeft
<1>7. VisitsLeft' = VisitsLeft
  <2>1. \A i \in 1..n : /\ MethodOf(frame_stack'[i]) = MethodOf(frame_stack[i])
                        /\ frame_stack'[i].stmt_counters = frame_stack[i].stmt_counters
    BY <1>2, <1>3, <1>4 DEF MethodOf
  <2>2. VisitsLeft' = {v \in (1..n) \X (DOMAIN program.callees) \X (0..Rounds) :
                         /\ v[2] \in program.stmts[MethodOf(frame_stack'[v[1]])]
                         /\ frame_stack'[v[1]].stmt_counters[v[2]] <= v[3]}
    BY <1>1, <1>3 DEF VisitsLeft, MethodOf
  <2> QED BY <1>2, <2>1, <2>2 DEF VisitsLeft
<1>8. NewFrames' \subseteq NewFrames /\ NewFrames' # NewFrames
  <2>1. NewFrames' \subseteq NewFrames
    BY <1>1, <1>2, <1>3, <1>4 DEF NewFrames
  <2>2. n \in NewFrames /\ n \notin NewFrames'
    BY <1>1, <1>2, <1>3 DEF NewFrames
  <2> QED BY <2>1, <2>2
<1>9. CountsLeft' = CountsLeft
  BY <1>1, SameCounts
<1> QED BY <1>1, <1>2, <1>3, <1>6, <1>7, <1>8, <1>9 DEF UsesUp, FramesUsedUp

\* A frame that goes away takes what it had left with it: it waits for nobody.
LEMMA PopUses ==
  ASSUME TypeOK, StackInv, InitFails \/ FinishFrame
  PROVE  UsesUp
<1> DEFINE n == Len(frame_stack)
<1>1. /\ frame_stack # <<>> /\ todo' = todo /\ program' = program
      /\ call_site_analyze_counter' = call_site_analyze_counter
  BY DEF InitFails, FinishFrame, Ready
<1>2. n \in Nat \ {0} /\ n \in 1..n /\ DOMAIN frame_stack = 1..n /\ Top = frame_stack[n]
  BY <1>1, TopFrame
<1>3. /\ DOMAIN frame_stack' = 1..(n - 1)
      /\ \A i \in 1..(n - 1) : frame_stack'[i] = frame_stack[i]
  BY PopStack
<1>4. PendingOf(Top) = {}
  <2>1. CASE InitFails
    <3>1. SoundAt(frame_stack, n)
      BY <1>2 DEF StackInv
    <3> QED BY <1>2, <2>1, <3>1 DEF InitFails, SoundAt, InOrder, PendingOf
  <2>2. CASE FinishFrame
    BY <2>2 DEF FinishFrame
  <2> QED BY <2>1, <2>2
<1>5. /\ \A i \in 1..n : i \in 1..(n - 1) \/ i = n
      /\ 1..(n - 1) \subseteq 1..n /\ n \notin 1..(n - 1)
  <2> HIDE DEF n
  <2> QED BY <1>2
<1>6. CalleesLeft' = CalleesLeft
  <2>1. CalleesLeft' =
          {v \in (1..(n - 1)) \X SitesOf(program) : v[2] \in PendingOf(frame_stack'[v[1]])}
    BY <1>1, <1>3 DEF CalleesLeft, PendingOf
  <2>2. CalleesLeft' =
          {v \in (1..(n - 1)) \X SitesOf(program) : v[2] \in PendingOf(frame_stack[v[1]])}
    BY <1>3, <2>1
  <2>3. \A v \in (1..n) \X SitesOf(program) :
          v[2] \in PendingOf(frame_stack[v[1]]) => v[1] \in 1..(n - 1)
    BY <1>2, <1>4, <1>5
  <2> QED BY <1>2, <1>5, <2>2, <2>3 DEF CalleesLeft
<1>7. VisitsLeft' \subseteq VisitsLeft
  <2>1. VisitsLeft' = {v \in (1..(n - 1)) \X (DOMAIN program.callees) \X (0..Rounds) :
                         /\ v[2] \in program.stmts[MethodOf(frame_stack'[v[1]])]
                         /\ frame_stack'[v[1]].stmt_counters[v[2]] <= v[3]}
    BY <1>1, <1>3 DEF VisitsLeft, MethodOf
  <2> QED BY <1>2, <1>3, <1>5, <2>1 DEF VisitsLeft
<1>8. NewFrames' \subseteq NewFrames
  BY <1>2, <1>3, <1>5 DEF NewFrames
<1>9. CountsLeft' = CountsLeft
  BY <1>1, SameCounts
<1>10. DOMAIN frame_stack' \subseteq DOMAIN frame_stack /\ DOMAIN frame_stack' # DOMAIN frame_stack
  BY <1>2, <1>3, <1>5
<1> QED BY <1>1, <1>6, <1>7, <1>8, <1>9, <1>10 DEF UsesUp, FramesUsedUp

\* A call that is visited has one visit less, in its frame if nowhere else.
LEMMA VisitCallUses ==
  ASSUME TypeOK, StackInv, NEW s, VisitCall(s)
  PROVE  UsesUp
<1> DEFINE n == Len(frame_stack)
<1>1. /\ Visitable(s) /\ todo' = todo /\ program' = program
      /\ call_site_analyze_counter' = Counted(SitesAt(MethodOf(Top), s))
  BY DEF VisitCall
<1>2. /\ frame_stack # <<>> /\ Top.has_been_inited /\ Top \in Frames
      /\ MethodOf(Top) \in Methods /\ s \in program.stmts[MethodOf(Top)]
  BY <1>1, VisitableProperties
<1>3. n \in Nat \ {0} /\ n \in 1..n /\ DOMAIN frame_stack = 1..n /\ Top = frame_stack[n]
  BY <1>2, TopFrame
<1>4. /\ DOMAIN frame_stack' = 1..n
      /\ \A i \in 1..(n - 1) : frame_stack'[i] = frame_stack[i]
      /\ frame_stack'[n].call_site = Top.call_site /\ frame_stack'[n].has_been_inited
      /\ frame_stack'[n].content_already_analyzed = Top.content_already_analyzed
      /\ frame_stack'[n].stmt_counters = [Top.stmt_counters EXCEPT ![s] = @ + 1]
  BY <1>3, VisitCallStack
<1>5. \A i \in 1..n : i \in 1..(n - 1) \/ i = n
  <2> HIDE DEF n
  <2> QED BY <1>3
<1>6. CountsLeft' \subseteq CountsLeft
  BY <1>1, CountsUsedUp
<1>7. CalleesLeft' = CalleesLeft
  BY <1>1, <1>3, <1>4, <1>5, SameCallees
<1>8. NewFrames' = NewFrames
  BY <1>2, <1>3, <1>4, <1>5 DEF NewFrames
<1>9. PICK c \in 0..Rounds : /\ c = Top.stmt_counters[s] /\ ~(c + 1 <= c)
                             /\ frame_stack'[n].stmt_counters[s] = c + 1
  <2>1. Top.stmt_counters \in [program.stmts[MethodOf(Top)] -> 0..Rounds]
    BY <1>2, FrameFields
  <2>2. Top.stmt_counters[s] \in 0..Rounds
    BY <1>2, <2>1
  <2>3. frame_stack'[n].stmt_counters[s] = Top.stmt_counters[s] + 1
    BY <1>2, <1>4, <2>1
  <2> QED BY <2>2, <2>3, BoundsAssumption
<1>10. VisitsLeft' = {v \in (1..n) \X (DOMAIN program.callees) \X (0..Rounds) :
                        /\ v[2] \in program.stmts[MethodOf(frame_stack'[v[1]])]
                        /\ frame_stack'[v[1]].stmt_counters[v[2]] <= v[3]}
  BY <1>1, <1>4 DEF VisitsLeft, MethodOf
<1>11. VisitsLeft' \subseteq VisitsLeft
  <2> SUFFICES ASSUME NEW v \in VisitsLeft' PROVE v \in VisitsLeft
    OBVIOUS
  <2>1. /\ v \in (1..n) \X (DOMAIN program.callees) \X (0..Rounds)
        /\ v[2] \in program.stmts[MethodOf(frame_stack'[v[1]])]
        /\ frame_stack'[v[1]].stmt_counters[v[2]] <= v[3]
    BY <1>10
  <2>2. MethodOf(frame_stack'[v[1]]) = MethodOf(frame_stack[v[1]])
    BY <1>3, <1>4, <1>5, <2>1 DEF MethodOf
  <2>3. CASE v[1] = n /\ v[2] = s
    <3>1. c + 1 <= v[3] /\ v[3] \in Int
      BY <1>9, <2>1, <2>3
    <3>2. c <= v[3]
      BY <3>1
    <3> QED BY <1>3, <1>9, <2>1, <2>2, <2>3, <3>2 DEF VisitsLeft
  <2>4. CASE ~(v[1] = n /\ v[2] = s)
    <3>1. frame_stack'[v[1]].stmt_counters[v[2]] = frame_stack[v[1]].stmt_counters[v[2]]
      <4>1. CASE v[1] = n
        <5>1. Top.stmt_counters \in [program.stmts[MethodOf(Top)] -> 0..Rounds]
          BY <1>2, FrameFields
        <5>2. v[2] \in program.stmts[MethodOf(Top)] /\ v[2] # s
          BY <1>3, <2>1, <2>2, <2>4, <4>1
        <5>3. [Top.stmt_counters EXCEPT ![s] = @ + 1][v[2]] = Top.stmt_counters[v[2]]
          BY <5>1, <5>2
        <5> QED BY <1>3, <1>4, <4>1, <5>3
      <4>2. CASE v[1] # n
        BY <1>4, <1>5, <2>1, <4>2
      <4> QED BY <4>1, <4>2
    <3> QED BY <1>3, <2>1, <2>2, <3>1 DEF VisitsLeft
  <2> QED BY <2>3, <2>4
<1>12. VisitsLeft' # VisitsLeft
  <2>1. s \in DOMAIN program.callees
    BY <1>2, ProgramAssumption DEF TypeOK, IsProgram
  <2>2. <<n, s, c>> \in VisitsLeft
    BY <1>2, <1>3, <1>9, <2>1 DEF VisitsLeft
  <2>3. <<n, s, c>> \notin VisitsLeft'
    BY <1>9, <1>10
  <2> QED BY <2>2, <2>3
<1> QED BY <1>1, <1>3, <1>4, <1>6, <1>7, <1>8, <1>11, <1>12 DEF UsesUp, Shrinks, FramesUsedUp

\* Every step of the phase uses something up of a finite amount, in a fixed order:
\* recursion, calls with several candidates and interruptions cannot keep the loop of
\* analyze_frame_stack going for ever.
THEOREM EveryStepUsesUp == Spec => []AllFinite /\ [][UsesUp]_vars
<1>1. TypeOK => AllFinite
  BY LeftIsFinite
<1>2. TypeOK /\ StackInv /\ [Next]_vars => [UsesUp]_vars
  <2> SUFFICES ASSUME TypeOK, StackInv, Next PROVE UsesUp
    OBVIOUS
  <2>1. CASE \E m \in Methods : TakeEntry(m)
    BY <2>1, TakeEntryUses
  <2>2. CASE InitFrame
    BY <2>2, InitFrameUses
  <2>3. CASE InitFails \/ FinishFrame
    BY <2>3, PopUses
  <2>4. CASE EnterCallee
    BY <2>4, EnterCalleeUses
  <2>5. CASE \E s \in DOMAIN program.callees : Interrupt(s) \/ VisitCall(s)
    BY <2>5, InterruptUses, VisitCallUses
  <2> QED BY <2>1, <2>2, <2>3, <2>4, <2>5 DEF Next
<1> QED BY <1>1, <1>2, TypeCorrect, PTL DEF Spec
=============================================================================
