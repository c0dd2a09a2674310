------------------------------ MODULE CallPaths ------------------------------
(***************************************************************************)
(* Call sites <<caller_id, call_stmt_id, callee_id>> and call paths, the   *)
(* sequences of call sites that lead from an entry method to a frame.      *)
(***************************************************************************)
EXTENDS Naturals, Sequences, FiniteSets, SequencesExt

CallSite(caller, stmt, callee) == <<caller, stmt, callee>>
Caller(site) == site[1]
Callee(site) == site[3]

\* The places where a path comes back to a method: the callee is a caller or a
\* callee of an earlier call site.
CyclesAt(path) ==
  {i \in DOMAIN path :
     \E j \in 1..(i - 1) : Callee(path[i]) \in {Caller(path[j]), Callee(path[j])}}

\* CallPath.count_cycles
CountCycles(path) == Cardinality(CyclesAt(path))

\* Mutant: the shorter path stays beside its extension.
WithPathBesidePrefixes(kept, p) ==
  IF \E q \in kept : IsPrefix(p, q) THEN kept ELSE kept \union {p}

\* The rules of PathTrie.add_path, which PathManager implements: of two paths one
\* of which is a prefix of the other only the longer one is kept.
WithPath(kept, p) ==
  IF \E q \in kept : IsPrefix(p, q) THEN kept
  ELSE {q \in kept : ~IsPrefix(q, p)} \union {p}

\* Several paths of one length are added one after the other: as none of them is a
\* prefix of another one, their order does not matter.
WithPaths(kept, ps) ==
  LET new == {p \in ps : ~ \E q \in kept : IsPrefix(p, q)}
  IN  {q \in kept : ~ \E p \in new : IsPrefix(q, p)} \union new

\* No kept path is a prefix of another one.
NoPrefixAmong(kept) == \A p, q \in kept : IsPrefix(p, q) => p = q
=============================================================================
