---------------------------- MODULE DurableStore ----------------------------
(***************************************************************************)
(* What a loader promises, its item cache aside: a store of items, and the *)
(* part of it that a later run finds in the workspace.  An item that was   *)
(* never saved reads as {}, like one without rows.                         *)
(***************************************************************************)
CONSTANTS Ids, Contents
VARIABLES store, exported

Init == store = [i \in Ids |-> {}] /\ exported = [i \in Ids |-> {}]

Save(i, content) == store' = [store EXCEPT ![i] = content] /\ UNCHANGED exported

\* The item is gone, from what was exported too if it had not been saved since.
Remove(i) ==
  /\ store' = [store EXCEPT ![i] = {}]
  /\ exported' \in {exported, [exported EXCEPT ![i] = {}]}

Export == exported' = store /\ UNCHANGED store

\* A later run starts from what was exported.
Reopen == store' = exported /\ UNCHANGED exported

Next ==
  \/ \E i \in Ids : Remove(i) \/ \E content \in Contents : Save(i, content)
  \/ Export \/ Reopen

Spec == Init /\ [][Next]_<<store, exported>>
=============================================================================
