--------------------------- MODULE GlobalAnalysis ---------------------------
(***************************************************************************)
(* P3GlobalSemanticAnalysis: the top-down phase.  From every entry point   *)
(* the calls are walked depth first on a stack of frames, one frame for    *)
(* each call path.  A call whose callees have to be walked first           *)
(* interrupts its frame, which comes back to it when they are done.        *)
(*                                                                         *)
(* As in PrelimAnalysis the call statements of a frame are visited in any  *)
(* order, each at least once and at most Rounds times.  The kept call      *)
(* paths follow the rules PathManager is shown to implement.  The meta     *)
(* frame at the bottom of the stack holds nothing and is left out.         *)
(***************************************************************************)
EXTENDS CallPaths, Integers, Functions

CONSTANTS
  Methods,      \* the method ids
  Programs,     \* the programs a run may be given (see IsProgram)
  Rounds,       \* MAX_ANALYSIS_ROUND_FOR_GLOBAL_ANALYSIS
  MaxCallSite   \* MAX_ANALYSIS_ROUND_FOR_CALL_SITE

\* stmts[m] = the call statements of m, callees[s] = what the call s resolves to,
\* has_body = the methods with a control flow graph and a symbol state space.
IsProgram(p) ==
  /\ IsFiniteSet(DOMAIN p.callees)
  /\ p.stmts \in [Methods -> SUBSET DOMAIN p.callees]
  /\ \A s \in DOMAIN p.callees : p.callees[s] \subseteq Methods
  /\ p.has_body \subseteq Methods
  /\ p.entry_points \subseteq Methods

ASSUME MethodsAssumption == IsFiniteSet(Methods)
\* Three frames of one method can wait for one callee (see GlobalAnalysis_proofs), so
\* the limit of the code, 2, is the least that no such frame meets.
ASSUME BoundsAssumption == Rounds \in Nat \ {0} /\ MaxCallSite \in Nat /\ MaxCallSite >= 2
ASSUME ProgramAssumption == \A p \in Programs : IsProgram(p)

VARIABLES
  program,      \* the program of this run
  todo,         \* the entry points run() has not come to
  frame_stack,  \* the ComputeFrameStack, the frame of the entry point first
  call_site_analyze_counter,   \* shared by the frames of an entry point
  paths,        \* the call paths of path_manager
  summaries,    \* the call sites with a summary instance in the loader
  walked        \* history: the call paths that got an initialised frame

vars == <<program, todo, frame_stack, call_site_analyze_counter, paths, summaries, walked>>

SitesOf(p) ==
  UNION {UNION {{CallSite(m, s, c) : c \in p.callees[s]} : s \in p.stmts[m]} : m \in Methods}
EntrySite(m) == CallSite(-1, -1, m)
SitesAt(m, s) == {CallSite(m, s, c) : c \in program.callees[s]}

NewFrame(site) ==
  [call_site       |-> site,
   has_been_inited |-> FALSE,
   call_path       |-> <<>>,
   content_already_analyzed |-> <<>>,
   stmt_counters   |-> [s \in program.stmts[Callee(site)] |-> 0]]

Top == Last(frame_stack)
Below == Front(frame_stack)
MethodOf(frame) == Callee(frame.call_site)
Ready == frame_stack # <<>> /\ Top.has_been_inited
Replace(frame) == frame_stack' = Append(Below, frame)

Init ==
  /\ program \in Programs
  /\ todo = program.entry_points
  /\ frame_stack = <<>>
  /\ call_site_analyze_counter = [site \in SitesOf(program) |-> 0]
  /\ paths = {} /\ summaries = {} /\ walked = {}

\* run() takes the next entry point and starts with a fresh counter.
TakeEntry(m) ==
  /\ frame_stack = <<>> /\ m \in todo
  /\ todo' = todo \ {m}
  /\ frame_stack' = <<NewFrame(EntrySite(m))>>
  /\ call_site_analyze_counter' = [site \in SitesOf(program) |-> 0]
  /\ UNCHANGED <<program, paths, summaries, walked>>

-----------------------------------------------------------------------------
\* The call path of the frame at the top, the entry point having the empty one.
PathOfTop ==
  IF Len(frame_stack) > 1 THEN Append(Last(Below).call_path, Top.call_site) ELSE <<>>

\* init_compute_frame, which records the call path.
InitFrame ==
  /\ frame_stack # <<>> /\ ~Top.has_been_inited
  /\ MethodOf(Top) \in program.has_body
  /\ Replace([Top EXCEPT !.has_been_inited = TRUE, !.call_path = PathOfTop])
  /\ paths' = IF Len(frame_stack) > 1 THEN WithPath(paths, PathOfTop) ELSE paths
  /\ walked' = walked \union {PathOfTop}
  /\ UNCHANGED <<program, todo, call_site_analyze_counter, summaries>>

\* init_compute_frame returns None: the frame is dropped.
InitFails ==
  /\ frame_stack # <<>> /\ ~Top.has_been_inited
  /\ MethodOf(Top) \notin program.has_body
  /\ frame_stack' = Below
  /\ UNCHANGED <<program, todo, call_site_analyze_counter, paths, summaries, walked>>

\* The call sites of the last interruption whose callee has not had its frame.
PendingOf(frame) ==
  {site \in DOMAIN frame.content_already_analyzed : ~frame.content_already_analyzed[site]}

\* Mutant: the call site is not marked when its frame is pushed.
EnterCalleeUnmarked ==
  /\ Ready
  /\ \E site \in PendingOf(Top) : frame_stack' = Append(frame_stack, NewFrame(site))
  /\ UNCHANGED <<program, todo, call_site_analyze_counter, paths, summaries, walked>>

\* Mutant: all call sites are marked when the frame of one is pushed.
EnterOneCallee ==
  /\ Ready
  /\ \E site \in PendingOf(Top) :
       frame_stack' = Append(Append(Below, [Top EXCEPT !.content_already_analyzed =
                                              [x \in DOMAIN @ |-> TRUE]]),
                             NewFrame(site))
  /\ UNCHANGED <<program, todo, call_site_analyze_counter, paths, summaries, walked>>

\* analyze_frame_stack pushes the frame of a callee that waits, one at a time, in
\* the order of a Python set.
EnterCallee ==
  /\ Ready
  /\ \E site \in PendingOf(Top) :
       frame_stack' = Append(Append(Below, [Top EXCEPT !.content_already_analyzed[site] = TRUE]),
                             NewFrame(site))
  /\ UNCHANGED <<program, todo, call_site_analyze_counter, paths, summaries, walked>>

-----------------------------------------------------------------------------

Visitable(s) ==
  /\ Ready /\ PendingOf(Top) = {}
  /\ s \in program.stmts[MethodOf(Top)]
  /\ Top.stmt_counters[s] < Rounds

\* Mutant: recursion is not asked for, only what has been walked.
SkipsKnownOnly(site) ==
  \/ Append(Top.call_path, site) \in paths
  \/ site \in DOMAIN Top.content_already_analyzed

\* compute_target_method_states passes a callee over.  (Its test whether the
\* callee is in the call path compares a method id with call sites and is false.)
Skips(site) ==
  \/ Append(Top.call_path, site) \in paths
  \/ CountCycles(Append(Top.call_path, site)) > 1
  \/ site \in DOMAIN Top.content_already_analyzed /\ Top.content_already_analyzed[site]
  \/ call_site_analyze_counter[site] > MaxCallSite

ToBeAnalyzed(s) == {site \in SitesAt(MethodOf(Top), s) : ~Skips(site)}

\* Each visit of a call counts, for the callees it is about.
Counted(sites) ==
  [site \in DOMAIN call_site_analyze_counter |->
     call_site_analyze_counter[site] + (IF site \in sites THEN 1 ELSE 0)]

\* Some callee has to be walked first: the frame is interrupted, and what it knew
\* of the callees of other calls is forgotten.
Interrupt(s) ==
  /\ Visitable(s) /\ ToBeAnalyzed(s) # {}
  /\ call_site_analyze_counter' = Counted(ToBeAnalyzed(s))
  /\ Replace([Top EXCEPT !.content_already_analyzed = [site \in ToBeAnalyzed(s) |-> FALSE]])
  /\ UNCHANGED <<program, todo, paths, summaries, walked>>

\* The paths of the callees that are not the caller itself.
PathsOfCallees(s) ==
  {Append(Top.call_path, site) : site \in {x \in SitesAt(MethodOf(Top), s) : Callee(x) # Caller(x)}}

\* No callee has to be walked: the summaries that exist are applied.
VisitCall(s) ==
  /\ Visitable(s) /\ ToBeAnalyzed(s) = {}
  /\ call_site_analyze_counter' = Counted(SitesAt(MethodOf(Top), s))
  /\ paths' = WithPaths(paths, PathsOfCallees(s))
  /\ Replace([Top EXCEPT !.stmt_counters[s] = @ + 1])
  /\ UNCHANGED <<program, todo, summaries, walked>>

\* The frame is done: its summary is saved for its call site.
FinishFrame ==
  /\ Ready /\ PendingOf(Top) = {}
  /\ \A s \in program.stmts[MethodOf(Top)] : Top.stmt_counters[s] > 0
  /\ summaries' = summaries \union {Top.call_site}
  /\ frame_stack' = Below
  /\ UNCHANGED <<program, todo, call_site_analyze_counter, paths, walked>>

Next ==
  \/ \E m \in Methods : TakeEntry(m)
  \/ InitFrame \/ InitFails \/ EnterCallee
  \/ \E s \in DOMAIN program.callees : Interrupt(s) \/ VisitCall(s)
  \/ FinishFrame

\* The phase is one sequential loop that nothing blocks.
Spec == Init /\ [][Next]_vars /\ WF_vars(Next)

Done == todo = {} /\ frame_stack = <<>>

-----------------------------------------------------------------------------
\* The methods that the calls of m lead to, m included.
CallReach(p, m) ==
  {n \in Methods :
     \A closed \in SUBSET Methods :
       m \in closed /\ (\A site \in SitesOf(p) : Caller(site) \in closed => Callee(site) \in closed)
         => n \in closed}

\* The stack is one chain of calls: every frame was pushed for a call site of the
\* frame below, which has handed it on and does not go on before it is done.
StackIsCallChain ==
  \A i \in DOMAIN frame_stack :
    /\ i = 1 => frame_stack[i].call_path = <<>>
    /\ i > 1 =>
         LET caller == frame_stack[i - 1]
             site   == frame_stack[i].call_site
         IN  /\ Caller(site) = MethodOf(caller)
             /\ site \in DOMAIN caller.content_already_analyzed
             /\ caller.content_already_analyzed[site]
             /\ frame_stack[i].has_been_inited =>
                  frame_stack[i].call_path = Append(caller.call_path, site)

\* Recursion is followed once: no stack is deeper than the methods allow.
RecursionBounded == Len(frame_stack) <= Cardinality(Methods) + 2

\* The call paths saved in the end show every call path that was walked, as one
\* of them or as a prefix of one, and no path twice.
WalkedPathsKept ==
  /\ \A p \in walked \ {<<>>} : \E q \in paths : IsPrefix(p, q)
  /\ NoPrefixAmong(paths)

\* When a call is passed over, the summary of each callee with a body is there,
\* unless the call lies on a cycle of the call graph: the limits on cycles and on
\* the visits of a call site cost no other call its summary.
SummaryThereWhenApplied ==
  [][\A s \in DOMAIN program.callees :
       VisitCall(s) =>
         \A site \in SitesAt(MethodOf(Top), s) :
           \/ site \in summaries
           \/ Callee(site) \notin program.has_body
           \/ Caller(site) \in CallReach(program, Callee(site))]_vars

\* Recursion, calls with several candidates and the rounds of a call do not keep
\* the phase going for ever.
RunEnds == <>Done

=============================================================================
