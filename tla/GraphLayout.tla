----------------------------- MODULE GraphLayout -----------------------------
(***************************************************************************)
(* Inspect of pkg/graph, the description of a compiled graph, and the      *)
(* layers RenderSVG draws it in: longest paths over the static edges,      *)
(* relaxed through a queue and clamped because static edges may go round.  *)
(* Nothing of the drawing but the column of each node is kept.             *)
(***************************************************************************)
EXTENDS GraphTopology, Integers, Sequences, FiniteSets

LOCAL G == INSTANCE Graphs

VARIABLE layout    \* NotLaid, or the layout of one Spec in the making

NotLaid == [phase |-> "none"]

(* A Spec: what Inspect says of a Runnable, in sets for its sorted slices. *)
Inspect(r) ==
  [nodes       |-> r.nodes,
   interrupt   |-> r.gated,
   static      |-> {<<from, r.static[from]>> : from \in DOMAIN r.static},
   conditional |-> [from \in r.routers |->
                      IF from \in DOMAIN r.branch
                      THEN {<<l, r.branch[from][l]>> : l \in DOMAIN r.branch[from]}
                      ELSE {}]]

Adjacent(spec, from) == {e[2] : e \in {f \in spec.static : f[1] = from}}

MaxDepth(spec) == Cardinality(spec.nodes) + 2

StartLayout(spec) ==
  [phase |-> "relaxing", spec |-> spec, depth |-> [n \in {START} |-> 0],
   queue |-> <<START>>, from |-> START, nexts |-> {}]

(* The next node of the queue, and its static edges one after the other.   *)
Dequeue ==
  /\ layout.phase = "relaxing" /\ layout.nexts = {} /\ layout.queue # << >>
  /\ LET cur == Head(layout.queue) IN
     layout' = [layout EXCEPT !.queue = Tail(@), !.from = cur,
                              !.nexts = Adjacent(layout.spec, cur)]

(* Slip: a node stays in the first layer it is found in. *)
DeepensOnce(d, next) == d <= MaxDepth(layout.spec) /\ next \notin DOMAIN layout.depth

Deepens(d, next) ==
  d <= MaxDepth(layout.spec) /\ (next \notin DOMAIN layout.depth \/ d > layout.depth[next])

Relax ==
  /\ layout.phase = "relaxing"
  /\ \E next \in layout.nexts :
       LET d == layout.depth[layout.from] + 1 IN
       layout' = IF Deepens(d, next)
                 THEN [layout EXCEPT !.nexts = @ \ {next}, !.queue = Append(@, next),
                                     !.depth = Put(@, next, d)]
                 ELSE [layout EXCEPT !.nexts = @ \ {next}]

(* What no static edge reaches goes into layer 1; END is put last.         *)
Layers(spec, depth) ==
  LET All == spec.nodes \cup {START, END}
      Placed == [n \in All |-> IF n \in DOMAIN depth THEN depth[n] ELSE 1]
      Deepest == CHOOSE d \in {Placed[n] : n \in All \ {END}} :
                   \A n \in All \ {END} : Placed[n] <= d
  IN [Placed EXCEPT ![END] = IF @ <= Deepest THEN Deepest + 1 ELSE @]

Bucket ==
  /\ layout.phase = "relaxing" /\ layout.nexts = {} /\ layout.queue = << >>
  /\ layout' = [phase |-> "laid", spec |-> layout.spec,
                layer |-> Layers(layout.spec, layout.depth)]

LayoutNext == Dequeue \/ Relax \/ Bucket

-----------------------------------------------------------------------------
(***************************************************************************)
(* Every rendering ends, cycle or not, and draws a flow: START first and   *)
(* END last, each in a column of its own; and if what START reaches has no *)
(* cycle, every edge there goes to the right and every node but END stands *)
(* next to one of its predecessors.                                        *)
(***************************************************************************)
Laid ==
  LET spec == layout.spec
      layer == layout.layer
      All == spec.nodes \cup {START, END}
      Joined == G!ConnectionsIn([node |-> All, edge |-> spec.static])
      Reached == {n \in All : Joined[START, n]}
      Inside == {e \in spec.static : e[1] \in Reached}
  IN /\ layout.phase = "laid"
     /\ layer[START] = 0 /\ \A n \in All \ {START} : layer[n] \in 1 .. layer[END]
     /\ \A n \in All \ {END} : layer[n] < layer[END]
     /\ (\A e \in Inside : ~Joined[e[2], e[1]]) =>
          /\ \A e \in Inside : layer[e[1]] < layer[e[2]]
          /\ \A n \in Reached \ {START, END} :
               \E e \in Inside : e[2] = n /\ layer[n] = layer[e[1]] + 1

LayoutIsAFlow == layout.phase = "relaxing" ~> Laid

=============================================================================
