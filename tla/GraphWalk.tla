----------------------------- MODULE GraphWalk -----------------------------
(***************************************************************************)
(* What a checkpointed run promises, whatever crashes, cancellations,      *)
(* failed saves and resumes do to it: the durable position is a walk of    *)
(* the graph. It starts at the entry, moves along one edge at a time, and  *)
(* every node it leaves has contributed its effect to the state exactly    *)
(* once. It leaves an interrupt-gated node only after it was held there.   *)
(***************************************************************************)
EXTENDS GraphTopology, Sequences

CONSTANTS R,          \* the compiled Runnable
          RouterOut,  \* what the router of each node may return
          Retired     \* nodes an earlier version of the graph had

VARIABLES pos,        \* [node, trace], or Nowhere before the first checkpoint
          held        \* the run was held at pos.node

walk == <<pos, held>>

Nowhere == [trace |-> << >>]

At(n, t) == [node |-> n, trace |-> t]

(* Arriving at n, the run may be held there at once. *)
HoldsAt(n) == held' \in BOOLEAN /\ (held' => n \in R.gated)

Init ==
  /\ pos = Nowhere \/ \E n \in Retired : pos = At(n, << >>)
  /\ held = FALSE

(* A new run under the same id starts over. *)
Begin ==
  /\ pos' = At(R.entry, << >>)
  /\ HoldsAt(R.entry)

Advance ==
  /\ pos # Nowhere
  /\ pos.node \in R.nodes
  /\ pos.node \in R.gated => held
  /\ \E m \in Succ(R, RouterOut, pos.node) :
       /\ pos' = At(m, Append(pos.trace, pos.node))
       /\ HoldsAt(m)

Next == Begin \/ Advance

Spec == Init /\ [][Next]_walk

=============================================================================
