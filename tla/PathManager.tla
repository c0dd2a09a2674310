----------------------------- MODULE PathManager ----------------------------
(***************************************************************************)
(* PathTrie and PathManager (common_structs.py): the call paths phase P3   *)
(* has walked.  A node of the trie is the path that leads to it; a call    *)
(* path is a non-empty sequence of call sites.                             *)
(***************************************************************************)
EXTENDS CallPaths

CONSTANTS
  Sites,       \* the call sites
  Paths,       \* the call paths a run may add
  Negative     \* those with a negative id in one of their call sites

ASSUME PathsAssumption ==
  /\ Paths \subseteq Seq(Sites) \ {<<>>}
  /\ Negative \subseteq Paths

VARIABLES
  nodes,       \* the nodes below root
  terminal,    \* those whose is_terminal is set
  trie_paths,  \* PathTrie.paths
  paths        \* PathManager.paths, the view the results are saved from

trie == <<nodes, terminal, trie_paths>>
vars == <<trie, paths>>

\* The nodes on the way to p, p included.
PrefixesOf(p) == {SubSeq(p, 1, n) : n \in 1..Len(p)}

HasChildren(p) == \E q \in nodes : Len(q) = Len(p) + 1 /\ IsPrefix(p, q)

\* Mutant: a path that has longer ones in the trie is not recognised.
KnownOnlyExactly(p) == p \in terminal

\* The first step of PathTrie.add_path: the path is there, or has extensions.
Known(p) == p \in nodes /\ (p \in terminal \/ HasChildren(p))

\* Mutant: the terminal prefixes stay.
NothingReplaced(p) == {}

\* The second step: the terminal nodes strictly above p.
Replaced(p) == (terminal \intersect PrefixesOf(p)) \ {p}

Init == nodes = {} /\ terminal = {} /\ trie_paths = {} /\ paths = {}

\* Mutant: the view is updated by the new path alone.
AddToView(p) ==
  /\ p \notin Negative /\ p \notin paths /\ ~Known(p)
  /\ nodes' = nodes \union PrefixesOf(p)
  /\ terminal' = (terminal \ Replaced(p)) \union {p}
  /\ trie_paths' = (trie_paths \ Replaced(p)) \union {p}
  /\ paths' = paths \union {p}

\* PathManager.add_path, the path being new.
AddPath(p) ==
  /\ p \notin Negative /\ p \notin paths /\ ~Known(p)
  /\ nodes' = nodes \union PrefixesOf(p)
  /\ terminal' = (terminal \ Replaced(p)) \union {p}
  /\ trie_paths' = (trie_paths \ Replaced(p)) \union {p}
  /\ paths' = trie_paths'

\* PathManager.add_path returns False.
RejectPath(p) ==
  /\ p \in Negative \/ p \in paths \/ Known(p)
  /\ UNCHANGED vars

Next == \E p \in Paths : AddPath(p) \/ RejectPath(p)
Spec == Init /\ [][Next]_vars

-----------------------------------------------------------------------------
\* Type invariant, with what relates the trie to the two sets of paths: the
\* terminal nodes are the paths, and no branch of the trie ends above one.
TypeOK ==
  /\ paths \subseteq Paths
  /\ terminal = paths /\ trie_paths = paths
  /\ nodes = UNION {PrefixesOf(p) : p \in paths}

\* No path that is kept is a prefix of another one that is kept (the rules in
\* the comment of PathTrie.add_path).
NoPrefixKept == NoPrefixAmong(paths)

\* Whatever is added is accounted for ever after: it is kept, or a longer path is.
NothingLost ==
  [][\A p \in paths : \E q \in paths' : IsPrefix(p, q)]_vars

\* The trie decides as the rules say, on the paths that have no negative id.
Rules == INSTANCE MaximalPaths WITH Paths <- Paths \ Negative
RulesSpec == Rules!Spec

\* A path is turned down only when it cannot be added or the rules reject it: it
\* is kept already or it is a prefix of a path that is kept.
RejectionJustified ==
  \A p \in Paths \ Negative : Known(p) => \E q \in paths : IsPrefix(p, q)
=============================================================================
