---------------------------- MODULE MaximalPaths ----------------------------
(***************************************************************************)
(* What a path manager promises: it keeps the maximal ones of the paths    *)
(* that were added.                                                        *)
(***************************************************************************)
EXTENDS CallPaths

CONSTANT Paths
VARIABLE paths

Init == paths = {}
Add(p) == paths' = WithPath(paths, p)
Next == \E p \in Paths : Add(p)
Spec == Init /\ [][Next]_paths
=============================================================================
