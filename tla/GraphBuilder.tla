---------------------------- MODULE GraphBuilder ----------------------------
(***************************************************************************)
(* The builder of pkg/graph as its callers drive it: any sequence of       *)
(* chained calls with good and bad arguments, and Compile at any time.     *)
(***************************************************************************)
EXTENDS GraphTopology

CONSTANT BranchMap    \* the branch maps callers pass, a set of label -> name

VARIABLES g,          \* the builder
          runnable    \* what Compile returned, NotCompiled before it succeeds

vars == <<g, runnable>>

NotCompiled == [nodes |-> {}]

AnyName == Name \cup {START, END, Empty}

(* One builder call: the operation and its arguments. *)
Call ==
       [op : {"AddNode"}, name : AnyName, isNil : BOOLEAN]
  \cup [op : {"AddEdge"}, name : AnyName, to : AnyName]
  \cup [op : {"AddConditionalEdge"}, name : AnyName, isNil : BOOLEAN]
  \cup [op : {"AddConditionalEdges"}, name : AnyName, isNil : BOOLEAN,
        branchMap : BranchMap]
  \cup [op : {"InterruptBefore"}, name : AnyName]

Apply(h, c) ==
  CASE c.op = "AddNode"             -> AddNode(h, c.name, c.isNil)
    [] c.op = "AddEdge"             -> AddEdge(h, c.name, c.to)
    [] c.op = "AddConditionalEdge"  -> AddConditionalEdge(h, c.name, c.isNil)
    [] c.op = "AddConditionalEdges" ->
         AddConditionalEdges(h, c.name, c.isNil, c.branchMap)
    [] c.op = "InterruptBefore"     -> InterruptBefore(h, c.name)

Init == g = NewGraph /\ runnable = NotCompiled

Build ==
  /\ runnable = NotCompiled
  /\ \E c \in Call : g' = Apply(g, c)
  /\ UNCHANGED runnable

(* Compile reports every problem and returns nothing, or returns a copy.   *)
Compile ==
  /\ runnable = NotCompiled
  /\ Accepted(g)
  /\ runnable' = Runnable(g)
  /\ UNCHANGED g

Next == Build \/ Compile

Spec == Init /\ [][Next]_vars

-----------------------------------------------------------------------------
TypeOK ==
  /\ g.nodes \subseteq Name
  /\ g.static \in Maps(Name \cup {START}, Name \cup {END})
  /\ g.routers \subseteq Name \cup {START}
  /\ g.branch \in Maps(Name \cup {START}, BranchMap)
  /\ g.gated \subseteq Name
  /\ g.errs \in BOOLEAN
  /\ DOMAIN g.branch \subseteq g.routers

(***************************************************************************)
(* What a run relies on: whatever the router of a node returns, resolving  *)
(* the edge out of any node of a compiled graph either reaches a node that *)
(* exists (or END) or fails for a reason only a router can cause. The two  *)
(* errors resolveNext and runLoop keep for broken graphs cannot occur.     *)
(***************************************************************************)
CompiledGraphIsClosed ==
  runnable # NotCompiled =>
    /\ runnable.entry \in runnable.nodes \cup {END}
    /\ \A n \in runnable.nodes, out \in AnyName \cup Label \cup {RouterPanics} :
         LET res == ResolveNext(runnable, n, out) IN
           IF res.ok
           THEN res.next \in runnable.nodes \cup {END}
           ELSE /\ n \in runnable.routers
                /\ res.err # "NoOutgoingEdge"
                /\ res.err = "UnknownNode" => n \notin DOMAIN runnable.branch

(***************************************************************************)
(* The builder is chainable and its calls may come in any order: an edge   *)
(* may be added before its nodes, a gate before its node. Two calls in     *)
(* either order compile to the same Runnable, or both fail to compile.     *)
(***************************************************************************)
CallsCommute ==
  runnable = NotCompiled /\ ~g.errs =>
    \A c \in Call : \A d \in Call :
      LET cd == Apply(Apply(g, c), d)
          dc == Apply(Apply(g, d), c)
      IN /\ Accepted(cd) <=> Accepted(dc)
         /\ Accepted(cd) => Runnable(cd) = Runnable(dc)

=============================================================================
