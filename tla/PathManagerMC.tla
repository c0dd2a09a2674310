---------------------------- MODULE PathManagerMC ----------------------------
(***************************************************************************)
(* All call paths of up to three calls over two call sites, and one with a *)
(* negative id.                                                            *)
(***************************************************************************)
EXTENDS PathManager

CONSTANTS s1, s2

NegativeSite == CallSite(0 - 1, 0, 0)
AllSites == {s1, s2, NegativeSite}
Negatives == {<<NegativeSite>>}
AllPaths == UNION {[1..n -> {s1, s2}] : n \in 1..3} \union Negatives
=============================================================================
