------------------------------ MODULE BottomUp ------------------------------
(***************************************************************************)
(* What a bottom-up analysis of a call graph promises: every method is     *)
(* started once and summarised once, and it is summarised only when each   *)
(* of its callees has at least been started.                               *)
(***************************************************************************)
CONSTANT Methods
VARIABLES
  callees,     \* the call graph, fixed: the methods each method calls
  started,     \* the methods whose analysis has begun or is waiting for its turn
  summarised   \* the methods whose analysis is over

Init ==
  /\ callees \in [Methods -> SUBSET Methods]
  /\ started = {} /\ summarised = {}

Start ==
  /\ \E new \in SUBSET (Methods \ started) : new # {} /\ started' = started \union new
  /\ UNCHANGED <<callees, summarised>>

Summarise(m) ==
  /\ m \in started \ summarised
  /\ callees[m] \subseteq started
  /\ summarised' = summarised \union {m}
  /\ UNCHANGED <<callees, started>>

Next == Start \/ \E m \in Methods : Summarise(m)

Spec == Init /\ [][Next]_<<callees, started, summarised>>
=============================================================================
