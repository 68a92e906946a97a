---------------------------- MODULE AgentsProofs ----------------------------
(***************************************************************************)
(* Proofs about the agents and councils for all texts, plans, workers,     *)
(* peers and caps: the guards see what the model reads, plans are executed *)
(* as they were given, calls are answered where they were made, and every  *)
(* end of a run is told for what it is.                                    *)
(***************************************************************************)
EXTENDS Agents, SequenceTheorems, WellFoundedInduction, TLAPS

(***************************************************************************)
(* The runtime: the edges of the graphs that the constructors build, what  *)
(* following one does, and what every agent's loop may do besides.         *)
(***************************************************************************)
RouteErrors ==
  {"NoOutgoingEdge", "RouterPanic", "EmptyRouterResult", "UnknownNode",
   "UnknownBranchLabel"}

GoesTo(n) == pc' = "top" /\ next' = n /\ step' = step + 1 /\ ret' = ret

Breaks == pc' = "idle" /\ ret' \in RouteErrors /\ next' = next /\ step' = step

vars == <<agentVars, reactVars, adopted, locals>>

LEMMA ConfigIsFixed == [Next]_vars => cfg' = cfg
<1>1. ReActNext => cfg' = cfg
  BY DEF ReActNext, Edit, Invoke, Begin, ModelNode, StartTools, ToolsNode
<1>2. PlanNext => cfg' = cfg
  BY DEF PlanNext, PlanStart, Begin, PlanNode, ExecuteNode, ReplanNode
<1>3. SupervisorNext => cfg' = cfg
  BY DEF SupervisorNext, SupervisorStart, Begin, SupervisorNode, TrapNode, WorkerNode
<1>4. SwarmNext => cfg' = cfg
  BY DEF SwarmNext, SwarmStart, Begin, AskAgent, AgentTools, AgentExhausted, TrapNode,
     Activate
<1>5. Loop => cfg' = cfg
  BY DEF Loop, ReachEnd, Stopped, CallReturns
<1> QED
  BY <1>1, <1>2, <1>3, <1>4, <1>5 DEF Next, vars, agentVars

LEMMA FollowRoutes ==
  ASSUME NEW node, NEW to,
         node \notin DOMAIN cfg.graph.static, DOMAIN cfg.graph.branch = {},
         Follow(node, to)
  PROVE  GoesTo(to) \/ Breaks
BY DEF Follow, ResolveNext, To, Failed, GoesTo, Breaks, Return, RouteErrors

LEMMA FollowEdges ==
  ASSUME NEW node, NEW to, node \in DOMAIN cfg.graph.static, Follow(node, to)
  PROVE  GoesTo(cfg.graph.static[node])
BY DEF Follow, ResolveNext, To, Failed, GoesTo, Breaks, Return, RouteErrors

(* A graph under construction, without branch maps and gates.              *)
Sketch(nodes, static, routers) ==
  [nodes |-> nodes, static |-> static, routers |-> routers, branch |-> NoMap,
   gated |-> {}, errs |-> FALSE]

LEMMA ReActGraph ==
  ASSUME NEW t \in BOOLEAN
  PROVE  /\ Runnable(Built(t)).entry = "model"
         /\ "model" \notin DOMAIN Runnable(Built(t)).static
         /\ t => /\ "tools" \in DOMAIN Runnable(Built(t)).static
                 /\ Runnable(Built(t)).static["tools"] = "model"
         /\ ~t => "tools" \notin Runnable(Built(t)).nodes
         /\ DOMAIN Runnable(Built(t)).branch = {}
<1> DEFINE Fixed == Put(NoMap, START, "model")
           Bare == Sketch({"model"}, Fixed, {"model"})
           Full == Sketch({"model", "tools"}, Put(Fixed, "tools", "model"), {"model"})
<1>0. /\ {"model", "tools"} \cap {Empty, START, END} = {}
      /\ START \notin {Empty, END}
  BY NamesDistinct, ReActConstants
<1>1. DOMAIN Fixed = {START}
  BY DEF NoMap, Put
<1>2. AddNode(NewGraph, "model", FALSE) = Sketch({"model"}, NoMap, {})
  BY <1>0 DEF AddNode, Sketch, NewGraph
<1>3. AddEdge(Sketch({"model"}, NoMap, {}), START, "model") = Sketch({"model"}, Fixed, {})
  BY <1>0 DEF AddEdge, HasEdge, Sketch, NoMap, Put
<1>4. AddConditionalEdge(Sketch({"model"}, Fixed, {}), "model", FALSE) = Bare
  BY <1>0, <1>1 DEF AddConditionalEdge, HasEdge, Sketch, NoMap, Put
<1>5. AddNode(Bare, "tools", FALSE) = Sketch({"model", "tools"}, Fixed, {"model"})
  BY <1>0 DEF AddNode, Sketch, NewGraph
<1>6. AddEdge(Sketch({"model", "tools"}, Fixed, {"model"}), "tools", "model") = Full
  BY <1>0, <1>1 DEF AddEdge, HasEdge, Sketch, NoMap, Put
<1>7. Built(t) = IF t THEN Full ELSE Bare
  BY <1>2, <1>3, <1>4, <1>5, <1>6 DEF Built
<1>8. /\ DOMAIN Put(Fixed, "tools", "model") = {START, "tools"}
      /\ Put(Fixed, "tools", "model")["tools"] = "model"
      /\ Put(Fixed, "tools", "model")[START] = "model"
      /\ Fixed[START] = "model"
  BY <1>0, <1>1 DEF NoMap, Put
<1>9. CASE t
  <2>1. Runnable(Built(t)) = Runnable(Full)
    BY <1>7, <1>9
  <2>2. /\ Runnable(Full).entry = Put(Fixed, "tools", "model")[START]
        /\ Runnable(Full).static = Put(Fixed, "tools", "model")
        /\ Runnable(Full).branch = NoMap
    BY DEF Runnable, Sketch
  <2> QED BY <1>0, <1>8, <1>9, <2>1, <2>2 DEF NoMap
<1>10. CASE ~t
  <2>1. Runnable(Built(t)) = Runnable(Bare)
    BY <1>7, <1>10
  <2>2. /\ Runnable(Bare).entry = Fixed[START]
        /\ Runnable(Bare).static = Fixed
        /\ Runnable(Bare).branch = NoMap
        /\ Runnable(Bare).nodes = {"model"}
    BY DEF Runnable, Sketch
  <2> QED BY <1>0, <1>1, <1>8, <1>10, <2>1, <2>2 DEF NoMap
<1> QED
  BY <1>9, <1>10

LEMMA PlanEdges ==
  /\ PlanGraph.entry = "plan"
  /\ {"plan", "execute"} \subseteq DOMAIN PlanGraph.static
  /\ PlanGraph.static["plan"] = "execute"
  /\ PlanGraph.static["execute"] = "replan"
  /\ "replan" \notin DOMAIN PlanGraph.static
  /\ DOMAIN PlanGraph.branch = {}
<1> DEFINE N == {"plan", "execute", "replan"}
           E1 == Put(NoMap, START, "plan")
           E2 == Put(E1, "plan", "execute")
           E3 == Put(E2, "execute", "replan")
<1>0. /\ N \cap {Empty, START, END} = {}
      /\ START \notin {Empty, END}
  BY NamesDistinct, PlanConstants
<1>1. DOMAIN E1 = {START} /\ DOMAIN E2 = {START, "plan"} /\ DOMAIN E3 = {START, "plan", "execute"}
  BY DEF NoMap, Put
<1>2. E3[START] = "plan" /\ E3["plan"] = "execute" /\ E3["execute"] = "replan"
  <2>1. E1[START] = "plan" /\ E2[START] = "plan" /\ E2["plan"] = "execute"
    BY <1>0, <1>1 DEF NoMap, Put
  <2> QED BY <1>0, <1>1, <2>1 DEF NoMap, Put
<1>3. AddNode(AddNode(AddNode(NewGraph, "plan", FALSE), "execute", FALSE), "replan", FALSE)
        = Sketch(N, NoMap, {})
  <2>1. AddNode(NewGraph, "plan", FALSE) = Sketch({"plan"}, NoMap, {})
    BY <1>0 DEF AddNode, Sketch, NewGraph
  <2>2. AddNode(Sketch({"plan"}, NoMap, {}), "execute", FALSE)
          = Sketch({"plan", "execute"}, NoMap, {})
    BY <1>0 DEF AddNode, Sketch, NewGraph
  <2>3. AddNode(Sketch({"plan", "execute"}, NoMap, {}), "replan", FALSE) = Sketch(N, NoMap, {})
    BY <1>0 DEF AddNode, Sketch, NewGraph
  <2> QED BY <2>1, <2>2, <2>3
<1>4. AddEdge(Sketch(N, NoMap, {}), START, "plan") = Sketch(N, E1, {})
  BY <1>0 DEF AddEdge, HasEdge, Sketch, NoMap, Put
<1>5. AddEdge(Sketch(N, E1, {}), "plan", "execute") = Sketch(N, E2, {})
  BY <1>0, <1>1 DEF AddEdge, HasEdge, Sketch, NoMap, Put
<1>6. AddEdge(Sketch(N, E2, {}), "execute", "replan") = Sketch(N, E3, {})
  BY <1>0, <1>1 DEF AddEdge, HasEdge, Sketch, NoMap, Put
<1>7. AddConditionalEdge(Sketch(N, E3, {}), "replan", FALSE) = Sketch(N, E3, {"replan"})
  BY <1>0, <1>1 DEF AddConditionalEdge, HasEdge, Sketch, NoMap, Put
<1>8. PlanGraph = Runnable(Sketch(N, E3, {"replan"}))
  BY <1>3, <1>4, <1>5, <1>6, <1>7 DEF PlanGraph
<1> QED
  BY <1>0, <1>1, <1>2, <1>8 DEF Runnable, Sketch, NoMap, Put

LEMMA SupervisorEdges ==
  ASSUME ValidWorkers
  PROVE  /\ SupervisorGraph.entry = "supervisor"
         /\ Worker \subseteq DOMAIN SupervisorGraph.static
         /\ \A worker \in Worker : SupervisorGraph.static[worker] = "supervisor"
         /\ "supervisor" \notin DOMAIN SupervisorGraph.static
         /\ DOMAIN SupervisorGraph.branch = {}
<1> DEFINE N == {"supervisor", "trap"}
           E1 == Put(NoMap, "trap", END)
           E2 == Put(E1, START, "supervisor")
           E3 == [n \in DOMAIN E2 \cup Worker |-> IF n \in Worker THEN "supervisor" ELSE E2[n]]
<1>0. /\ N \cap {Empty, START, END} = {}
      /\ START \notin {Empty, END} /\ END # Empty
      /\ Worker \cap {Empty, START, END, "supervisor", "trap"} = {}
  BY NamesDistinct, HopsConstant DEF ValidWorkers
<1>1. DOMAIN E1 = {"trap"} /\ DOMAIN E2 = {"trap", START} /\ E2[START] = "supervisor"
  BY DEF NoMap, Put
<1>2. AddNode(AddNode(NewGraph, "supervisor", FALSE), "trap", FALSE) = Sketch(N, NoMap, {})
  <2>1. AddNode(NewGraph, "supervisor", FALSE) = Sketch({"supervisor"}, NoMap, {})
    BY <1>0 DEF AddNode, Sketch, NewGraph
  <2>2. AddNode(Sketch({"supervisor"}, NoMap, {}), "trap", FALSE) = Sketch(N, NoMap, {})
    BY <1>0 DEF AddNode, Sketch, NewGraph
  <2> QED BY <2>1, <2>2
<1>3. AddEdge(Sketch(N, NoMap, {}), "trap", END) = Sketch(N, E1, {})
  BY <1>0 DEF AddEdge, HasEdge, Sketch, NoMap, Put
<1>4. AddEdge(Sketch(N, E1, {}), START, "supervisor") = Sketch(N, E2, {})
  BY <1>0, <1>1 DEF AddEdge, HasEdge, Sketch, NoMap, Put
<1>5. AddConditionalEdge(Sketch(N, E2, {}), "supervisor", FALSE) = Sketch(N, E2, {"supervisor"})
  BY <1>0, <1>1 DEF AddConditionalEdge, HasEdge, Sketch, NoMap, Put
<1>6. /\ SupervisorGraph.entry = E3[START]
      /\ SupervisorGraph.static = E3
      /\ SupervisorGraph.branch = NoMap
  <2>1. SupervisorGraph =
          LET g == Sketch(N, E2, {"supervisor"}) IN
          Runnable([g EXCEPT !.nodes = @ \cup Worker,
                             !.static = [n \in DOMAIN @ \cup Worker |->
                                           IF n \in Worker THEN "supervisor" ELSE @[n]]])
    BY <1>2, <1>3, <1>4, <1>5 DEF SupervisorGraph
  <2>2. \A S : LET h == [Sketch(N, E2, {"supervisor"}) EXCEPT !.nodes = @ \cup Worker,
                                                             !.static = S]
               IN Runnable(h).entry = S[START] /\ Runnable(h).static = S
                  /\ Runnable(h).branch = NoMap
    BY DEF Sketch, Runnable
  <2>3. Sketch(N, E2, {"supervisor"}).static = E2
    BY DEF Sketch
  <2> QED BY <2>1, <2>2, <2>3
<1>7. E3[START] = "supervisor" /\ \A worker \in Worker : E3[worker] = "supervisor"
  BY <1>0, <1>1
<1> QED
  BY <1>0, <1>1, <1>6, <1>7 DEF NoMap

LEMMA SwarmEdges ==
  ASSUME ValidSwarm
  PROVE  /\ SwarmGraph.entry = First
         /\ DOMAIN Agents \subseteq SwarmGraph.nodes
         /\ DOMAIN Agents \cap DOMAIN SwarmGraph.static = {}
         /\ DOMAIN SwarmGraph.branch = {}
<1> DEFINE E1 == Put(NoMap, "trap", END)
           E2 == Put(E1, START, First)
<1>0. /\ "trap" \notin {Empty, START, END}
      /\ START \notin {Empty, END} /\ END # Empty
      /\ First \in DOMAIN Agents
      /\ DOMAIN Agents \cap {Empty, START, END, "trap"} = {}
  BY NamesDistinct, HopsConstant DEF ValidSwarm
<1>1. DOMAIN E1 = {"trap"} /\ DOMAIN E2 = {"trap", START} /\ E2[START] = First
  BY DEF NoMap, Put
<1>2. AddNode(NewGraph, "trap", FALSE) = Sketch({"trap"}, NoMap, {})
  BY <1>0 DEF AddNode, Sketch, NewGraph
<1>3. AddEdge(Sketch({"trap"}, NoMap, {}), "trap", END) = Sketch({"trap"}, E1, {})
  BY <1>0 DEF AddEdge, HasEdge, Sketch, NoMap, Put
<1>4. AddEdge(Sketch({"trap"}, E1, {}), START, First) = Sketch({"trap"}, E2, {})
  BY <1>0, <1>1 DEF AddEdge, HasEdge, Sketch, NoMap, Put
<1>5. SwarmGraph = Runnable([Sketch({"trap"}, E2, {}) EXCEPT !.nodes = @ \cup DOMAIN Agents,
                                                            !.routers = DOMAIN Agents])
  BY <1>2, <1>3, <1>4 DEF SwarmGraph
<1> QED
  BY <1>0, <1>1, <1>5 DEF Runnable, Sketch, NoMap, Put

(***************************************************************************)
(* What Kept keeps.                                                        *)
(***************************************************************************)
LEMMA UpTo ==
  ASSUME NEW N \in Nat, NEW T, 0 \in T, \A n \in 0 .. N : n < N /\ n \in T => n + 1 \in T
  PROVE  \A n \in 0 .. N : n \in T
<1>1. SUFFICES ASSUME NEW m \in 0 .. N, m \notin T PROVE FALSE
  OBVIOUS
<1> DEFINE B == {n \in Nat : n <= N /\ n \notin T}
<1>2. PICK n \in B : \A k \in B : ~ (k < n)
  <2>1. m \in B
    BY <1>1
  <2>2. B \subseteq Nat
    OBVIOUS
  <2> HIDE DEF B
  <2>3. PICK n \in B : \A k \in B : ~ (<<k, n>> \in OpToRel(<, Nat))
    BY <2>1, <2>2, NatLessThanWellFounded, WFMin
  <2> QED BY <2>2, <2>3 DEF OpToRel
<1>3. n \in Nat /\ n <= N /\ n \notin T /\ n # 0
  BY <1>2
<1>4. n - 1 \in 0 .. N /\ n - 1 < N /\ (n - 1) + 1 = n
  BY <1>3
<1>5. n - 1 \in B
  BY <1>3, <1>4
<1> QED
  BY <1>2, <1>3, <1>4, <1>5

KeptStep(list, I, f, n) ==
  f[n] = IF n = 0 THEN << >>
         ELSE IF n \in I THEN Append(f[n - 1], list[n]) ELSE f[n - 1]

LEMMA KeptExists ==
  ASSUME NEW S, NEW list \in Seq(S), NEW I
  PROVE  \E f \in [0 .. Len(list) -> Seq(S)] :
           \A n \in 0 .. Len(list) : KeptStep(list, I, f, n)
<1> DEFINE Good == {k \in 0 .. Len(list) : \E f \in [0 .. k -> Seq(S)] :
                      \A n \in 0 .. k : KeptStep(list, I, f, n)}
<1>1. 0 \in Good
  <2>1. [n \in 0 .. 0 |-> << >>] \in [0 .. 0 -> Seq(S)]
    OBVIOUS
  <2>2. \A n \in 0 .. 0 : KeptStep(list, I, [k \in 0 .. 0 |-> << >>], n)
    BY DEF KeptStep
  <2>3. Len(list) \in Nat
    OBVIOUS
  <2>4. \E f \in [0 .. 0 -> Seq(S)] : \A n \in 0 .. 0 : KeptStep(list, I, f, n)
    BY <2>1, <2>2
  <2> QED BY <2>3, <2>4
<1>2. ASSUME NEW k \in 0 .. Len(list), k < Len(list), k \in Good
      PROVE  k + 1 \in Good
  <2>1. PICK f \in [0 .. k -> Seq(S)] : \A n \in 0 .. k : KeptStep(list, I, f, n)
    BY <1>2
  <2> DEFINE v == IF k + 1 \in I THEN Append(f[k], list[k + 1]) ELSE f[k]
             g == [n \in 0 .. (k + 1) |-> IF n = k + 1 THEN v ELSE f[n]]
  <2>2. v \in Seq(S)
    <3>1. k + 1 \in 1 .. Len(list) /\ k \in 0 .. k
      BY <1>2
    <3>2. list[k + 1] \in S /\ f[k] \in Seq(S)
      BY <2>1, <3>1
    <3>3. Append(f[k], list[k + 1]) \in Seq(S)
      BY <3>2
    <3> QED BY <3>2, <3>3
  <2>3. g \in [0 .. (k + 1) -> Seq(S)]
    BY <2>1, <2>2
  <2>4. \A n \in 0 .. (k + 1) : KeptStep(list, I, g, n)
    <3>1. TAKE n \in 0 .. (k + 1)
    <3>2. CASE n = k + 1
      BY <3>2 DEF KeptStep
    <3>3. CASE n \in 0 .. k
      <4>1. g[n] = f[n] /\ (n # 0 => g[n - 1] = f[n - 1])
        BY <3>3
      <4> QED BY <2>1, <3>3, <4>1 DEF KeptStep
    <3> QED BY <3>2, <3>3
  <2>5. k + 1 \in 0 .. Len(list)
    BY <1>2
  <2>6. \E h \in [0 .. (k + 1) -> Seq(S)] : \A n \in 0 .. (k + 1) : KeptStep(list, I, h, n)
    <3> HIDE DEF g
    <3> QED BY <2>3, <2>4
  <2> QED BY <2>5, <2>6
<1>3. Len(list) \in Good
  <2> HIDE DEF Good
  <2>1. Len(list) \in Nat
    OBVIOUS
  <2>2. \A n \in 0 .. Len(list) : n \in Good
    BY <1>1, <1>2, <2>1, UpTo
  <2> QED BY <2>1, <2>2
<1> QED
  BY <1>3

LEMMA KeptBy ==
  ASSUME NEW S, NEW list \in Seq(S), NEW I
  PROVE  \E f \in [0 .. Len(list) -> Seq(S)] :
           /\ \A n \in 0 .. Len(list) : KeptStep(list, I, f, n)
           /\ Kept(list, I) = f[Len(list)]
<1> DEFINE Kind(f) == f = [n \in 0 .. Len(list) |->
                             IF n = 0 THEN << >>
                             ELSE IF n \in I THEN Append(f[n - 1], list[n]) ELSE f[n - 1]]
           k == CHOOSE f : Kind(f)
<1>1. PICK f \in [0 .. Len(list) -> Seq(S)] :
        \A n \in 0 .. Len(list) : KeptStep(list, I, f, n)
  BY KeptExists
<1>2. Kind(f)
  BY <1>1 DEF KeptStep
<1>3. Kind(k)
  BY <1>2
<1>4. Kept(list, I) = k[Len(list)]
  BY DEF Kept
<1>5. \A n \in 0 .. Len(list) : KeptStep(list, I, k, n)
  BY <1>3 DEF KeptStep
<1>6. \A n \in 0 .. Len(list) : k[n] = f[n]
  <2> DEFINE Same == {n \in 0 .. Len(list) : k[n] = f[n]}
  <2>0. Len(list) \in Nat
    OBVIOUS
  <2>1. 0 \in Same
    <3>0. 0 \in 0 .. Len(list)
      BY <2>0
    <3>1. KeptStep(list, I, f, 0) /\ KeptStep(list, I, k, 0)
      <4> HIDE DEF k
      <4> QED BY <1>1, <1>5, <3>0
    <3> QED BY <2>0, <3>1 DEF KeptStep
  <2>2. ASSUME NEW n \in 0 .. Len(list), n < Len(list), n \in Same PROVE n + 1 \in Same
    <3>1. n + 1 \in 0 .. Len(list) /\ n + 1 # 0 /\ (n + 1) - 1 = n
      BY <2>0, <2>2
    <3>2. KeptStep(list, I, f, n + 1) /\ KeptStep(list, I, k, n + 1)
      BY <1>1, <1>5, <3>1
    <3>3. f[n + 1] = k[n + 1]
      BY <2>2, <3>1, <3>2 DEF KeptStep
    <3> QED BY <3>1, <3>3
  <2> HIDE DEF Same
  <2>3. \A n \in 0 .. Len(list) : n \in Same
    BY <2>0, <2>1, <2>2, UpTo
  <2> QED BY <2>3 DEF Same
<1>7. Kept(list, I) = f[Len(list)]
  <2>1. Len(list) \in 0 .. Len(list)
    OBVIOUS
  <2> HIDE DEF k
  <2> QED BY <1>4, <1>6, <2>1
<1> QED
  BY <1>1, <1>7

LEMMA KeptElements ==
  ASSUME NEW S, NEW list \in Seq(S), NEW I
  PROVE  /\ Kept(list, I) \in Seq(S)
         /\ \A k \in DOMAIN Kept(list, I) :
              \E i \in I \cap (1 .. Len(list)) : Kept(list, I)[k] = list[i]
         /\ \A i \in I \cap (1 .. Len(list)) :
              \E k \in DOMAIN Kept(list, I) : Kept(list, I)[k] = list[i]
<1>1. PICK f \in [0 .. Len(list) -> Seq(S)] :
           /\ \A n \in 0 .. Len(list) : KeptStep(list, I, f, n)
           /\ Kept(list, I) = f[Len(list)]
  BY KeptBy
<1> DEFINE Here(n) ==
      /\ \A k \in 1 .. Len(f[n]) : \E i \in I \cap (1 .. n) : f[n][k] = list[i]
      /\ \A i \in I \cap (1 .. n) : \E k \in 1 .. Len(f[n]) : f[n][k] = list[i]
    T == {n \in 0 .. Len(list) : Here(n)}
<1>2. 0 \in T
  <2>1. f[0] = << >>
    BY <1>1 DEF KeptStep
  <2> QED BY <2>1
<1>3. ASSUME NEW n \in 0 .. Len(list), n < Len(list), n \in T PROVE n + 1 \in T
  <2>0. n + 1 \in 1 .. Len(list) /\ f[n] \in Seq(S) /\ list[n + 1] \in S
    <3>1. n + 1 \in 1 .. Len(list) /\ n \in 0 .. Len(list)
      BY <1>3
    <3> QED BY <1>1, <3>1
  <2>1. CASE n + 1 \in I
    <3>1. f[n + 1] = Append(f[n], list[n + 1])
      BY <1>1, <2>0, <2>1 DEF KeptStep
    <3>2. /\ Len(f[n + 1]) = Len(f[n]) + 1
          /\ f[n + 1][Len(f[n]) + 1] = list[n + 1]
          /\ \A k \in 1 .. Len(f[n]) : f[n + 1][k] = f[n][k]
      BY <2>0, <3>1
    <3>3. \A k \in 1 .. Len(f[n + 1]) : \E i \in I \cap (1 .. (n + 1)) : f[n + 1][k] = list[i]
      BY <1>3, <2>0, <2>1, <3>2
    <3>4. \A i \in I \cap (1 .. (n + 1)) : \E k \in 1 .. Len(f[n + 1]) : f[n + 1][k] = list[i]
      <4>1. TAKE i \in I \cap (1 .. (n + 1))
      <4>2. CASE i = n + 1
        BY <2>0, <3>2, <4>2
      <4>3. CASE i \in 1 .. n
        BY <1>3, <2>0, <3>2, <4>3
      <4> QED BY <4>2, <4>3
    <3> QED BY <2>0, <3>3, <3>4
  <2>2. CASE n + 1 \notin I
    <3>1. f[n + 1] = f[n]
      BY <1>1, <2>0, <2>2 DEF KeptStep
    <3>2. \A i : i \in I \cap (1 .. (n + 1)) <=> i \in I \cap (1 .. n)
      BY <2>2
    <3>3. Here(n)
      BY <1>3
    <3>4. Here(n + 1)
      <4>1. \A k \in 1 .. Len(f[n]) : \E i \in I \cap (1 .. (n + 1)) : f[n][k] = list[i]
        BY <3>2, <3>3
      <4>2. \A i \in I \cap (1 .. (n + 1)) : \E k \in 1 .. Len(f[n]) : f[n][k] = list[i]
        BY <3>2, <3>3
      <4> QED BY <3>1, <4>1, <4>2
    <3> QED BY <2>0, <3>4
  <2> QED BY <2>1, <2>2
<1>4. Len(list) \in T
  <2> HIDE DEF T
  <2>1. Len(list) \in Nat
    OBVIOUS
  <2>2. \A n \in 0 .. Len(list) : n \in T
    BY <1>2, <1>3, <2>1, UpTo
  <2> QED BY <2>1, <2>2
<1>5. f[Len(list)] \in Seq(S)
  <2>1. Len(list) \in 0 .. Len(list)
    OBVIOUS
  <2> QED BY <1>1, <2>1
<1>6. Here(Len(list))
  BY <1>4
<1> QED
  BY <1>1, <1>5, <1>6

(***************************************************************************)
(* The ReAct agent. Its part of the inductive invariant: the digest is of  *)
(* as many messages as the watermark says, all of them vetted; and the     *)
(* node about to run tells what the model turns have made of the State.    *)
(***************************************************************************)
Call == [id : Nat \X Nat]

Message ==
  [role : {"user"}, text : Text] \cup [role : {"assistant"}, calls : Seq(Call)]
    \cup [role : {"tool"}, answers : Nat \X Nat]

ReActState ==
  [messages : Seq(Message) \ {<< >>}, iterations : Nat, guarded : Nat,
   digest : Seq(Message), capped : BOOLEAN]

Slot == {NoResult} \cup (Nat \X Nat)

ReActTyped ==
  /\ cfg \in ReActConfigs
  /\ s \in ReActState /\ started \in ReActState
  /\ asked \in Seq(Message)
  /\ ran \in Nat /\ turns \in Nat /\ step \in Nat
  /\ pending \in Seq(Call) /\ out \in [DOMAIN pending -> Slot]
  /\ pc \in {"idle", "top", "calling"}

Passed(messages) ==
  \A i \in DOMAIN messages : messages[i].role = "user" => messages[i].text \in vetted

Guarded ==
  cfg.guards => /\ Passed(asked) /\ Passed(s.digest)
                /\ s.guarded = Len(s.digest)

(* What holds wherever the next turn of the model may be the last.         *)
Counted ==
  /\ s.iterations = started.iterations + ran
  /\ started.iterations < MaxIterations => s.iterations <= MaxIterations
  /\ ran > 1 => s.iterations <= MaxIterations

Told ==
  ~started.capped =>
    (s.capped <=> s.iterations >= MaxIterations /\ CallsOf(LastOf(s.messages)) # << >>)

Uncapped == ~started.capped => ~s.capped

AtModel ==
  pc # "idle" /\ next = "model" =>
    (ran = 0 \/ s.iterations < MaxIterations) /\ Uncapped /\ step = 2 * ran

AtTools ==
  pc # "idle" /\ next = "tools" =>
    /\ "tools" \in cfg.graph.nodes
    /\ ran >= 1 /\ s.iterations < MaxIterations
    /\ Uncapped /\ step = 2 * ran - 1

AtEnd ==
  /\ pc # "idle" /\ next = END => Told
  /\ pc = "idle" /\ ret = "nil" => Told

Placed ==
  /\ pc = "calling" => next = "tools"
  /\ pc # "idle" => next \in {"model", "tools", END}
  /\ AtModel /\ AtTools /\ AtEnd
  /\ ret # "max steps"

ReActInv == cfg.kind = "react" => ReActTyped /\ Guarded /\ Counted /\ Placed

LEMMA ReActCfg ==
  ASSUME cfg \in ReActConfigs
  PROVE  /\ cfg.guards \in BOOLEAN /\ cfg.maxSteps = MaxIterations * 3 + 4
         /\ cfg.graph.entry = "model"
         /\ "model" \notin DOMAIN cfg.graph.static
         /\ "tools" \in cfg.graph.nodes =>
              "tools" \in DOMAIN cfg.graph.static /\ cfg.graph.static["tools"] = "model"
         /\ DOMAIN cfg.graph.branch = {}
<1>1. PICK t \in BOOLEAN, g \in BOOLEAN :
        cfg = [kind |-> "react", graph |-> Runnable(Built(t)), guards |-> g,
               maxSteps |-> MaxIterations * 3 + 4, maxRuns |-> MaxRuns]
  BY DEF ReActConfigs
<1> HIDE DEF Runnable, Built
<1>2. cfg.graph = Runnable(Built(t))
  BY <1>1
<1> QED
  BY <1>1, <1>2, ReActGraph

(* Following the router of the model, and the edge out of the tools.       *)
LEMMA ReActRoutes ==
  ASSUME cfg \in ReActConfigs
  PROVE  /\ \A to : Follow("model", to) =>
              (GoesTo(to) /\ (to = "tools" => "tools" \in cfg.graph.nodes)) \/ Breaks
         /\ "tools" \in cfg.graph.nodes /\ Follow("tools", Empty) => GoesTo("model")
<1>1. ASSUME NEW to, Follow("model", to)
      PROVE  (GoesTo(to) /\ (to = "tools" => "tools" \in cfg.graph.nodes)) \/ Breaks
  <2>1. GoesTo(to) \/ Breaks
    BY <1>1, ReActCfg, FollowRoutes
  <2>2. CASE to = "tools" /\ "tools" \notin cfg.graph.nodes /\ GoesTo(to)
    <3>1. "tools" # END
      BY NamesDistinct, ReActConstants
    <3>2. ~ResolveNext(cfg.graph, "model", "tools").ok
      BY <2>2, <3>1, ReActCfg DEF ResolveNext, To, Failed
    <3>3. pc' = "idle"
      BY <1>1, <2>2, <3>2 DEF Follow, Return
    <3> QED BY <2>2, <3>3 DEF GoesTo
  <2> QED BY <2>1, <2>2
<1>2. ASSUME "tools" \in cfg.graph.nodes, Follow("tools", Empty) PROVE GoesTo("model")
  BY <1>2, ReActCfg, FollowEdges
<1> QED
  BY <1>1, <1>2

LEMMA ReActEdit ==
  ASSUME ReActTyped, Guarded, Counted, Placed, Edit, UNCHANGED <<adopted, locals>>
  PROVE  ReActTyped' /\ Guarded' /\ Counted' /\ Placed'
<1> USE DEF agentVars, graphVars, executor, history
<1>1. /\ UNCHANGED <<cfg, pc, next, step, pending, out, asked, turns, started, vetted, ran>>
      /\ pc = "idle" /\ ret' = "edited"
  BY DEF Edit
<1>2. s \in ReActState
  BY DEF ReActTyped
<1>3. PICK t \in Text :
        \/ \E k \in 0 .. Len(s.messages) :
             s' = [s EXCEPT !.messages = Append(Newest(k), User(t))]
        \/ \E i \in DOMAIN s.messages : s' = [s EXCEPT !.messages[i] = User(t)]
  BY DEF Edit
<1>4. User(t) \in Message
  BY DEF User, Message
<1>5. \E m \in Seq(Message) \ {<< >>} : s' = [s EXCEPT !.messages = m]
  <2>1. ASSUME NEW k \in 0 .. Len(s.messages),
               s' = [s EXCEPT !.messages = Append(Newest(k), User(t))]
        PROVE  \E m \in Seq(Message) \ {<< >>} : s' = [s EXCEPT !.messages = m]
    <3>1. s.messages \in Seq(Message)
      BY <1>2 DEF ReActState
    <3>2. Newest(k) \in Seq(Message)
      BY <3>1, SubSeqProperties DEF Newest
    <3>3. Append(Newest(k), User(t)) \in Seq(Message) \ {<< >>}
      BY <1>4, <3>2, AppendProperties
    <3> QED BY <2>1, <3>3
  <2>2. ASSUME NEW i \in DOMAIN s.messages, s' = [s EXCEPT !.messages[i] = User(t)]
        PROVE  \E m \in Seq(Message) \ {<< >>} : s' = [s EXCEPT !.messages = m]
    <3>1. s.messages \in Seq(Message) \ {<< >>}
      BY <1>2 DEF ReActState
    <3>2. [s.messages EXCEPT ![i] = User(t)] \in Seq(Message) \ {<< >>}
      BY <1>4, <3>1
    <3>3. s' = [s EXCEPT !.messages = [s.messages EXCEPT ![i] = User(t)]]
      BY <2>2
    <3> QED BY <3>2, <3>3
  <2> QED BY <1>3, <2>1, <2>2
<1>6. PICK m \in Seq(Message) \ {<< >>} : s' = [s EXCEPT !.messages = m]
  BY <1>5
<1>7. /\ s' \in ReActState
      /\ s'.iterations = s.iterations /\ s'.guarded = s.guarded /\ s'.digest = s.digest
  BY <1>2, <1>6 DEF ReActState
<1>8. ReActTyped'
  BY <1>1, <1>7 DEF ReActTyped
<1>9. Guarded'
  BY <1>1, <1>7 DEF Guarded, Passed
<1>10. Counted'
  BY <1>1, <1>7 DEF Counted
<1>11. Placed'
  BY <1>1 DEF Placed, AtModel, AtTools, AtEnd
<1> QED
  BY <1>8, <1>9, <1>10, <1>11

LEMMA ReActInvoke ==
  ASSUME ReActTyped, Guarded, Counted, Placed, Invoke
  PROVE  ReActTyped' /\ Guarded' /\ Counted' /\ Placed'
<1> USE DEF executor
<1>1. /\ UNCHANGED <<cfg, s, pending, out, ret, asked, turns, vetted>>
      /\ started' = s /\ ran' = 0
      /\ pc' = "top" /\ next' = cfg.graph.entry /\ step' = 0
  BY DEF Invoke, Begin
<1>2. cfg.graph.entry = "model"
  BY ReActCfg DEF ReActTyped
<1>3. s.iterations \in Nat /\ s.capped \in BOOLEAN
  BY DEF ReActTyped, ReActState
<1>4. ReActTyped'
  BY <1>1 DEF ReActTyped
<1>5. Guarded'
  BY <1>1 DEF Guarded, Passed
<1>6. Counted'
  BY <1>1, <1>3, ReActConstants DEF Counted
<1>7. Placed'
  <2>1. "model" # "tools" /\ "model" # END
    BY NamesDistinct, ReActConstants
  <2>2. Uncapped'
    BY <1>1, Zenon DEF Uncapped
  <2>3. AtModel'
    BY <1>1, <2>2 DEF AtModel
  <2>4. AtTools' /\ AtEnd'
    BY <1>1, <1>2, <2>1 DEF AtTools, AtEnd
  <2> QED BY <1>1, <1>2, <2>3, <2>4 DEF Placed
<1> QED
  BY <1>4, <1>5, <1>6, <1>7

(* Every user message below the watermark is in the digest, or the guards  *)
(* look at all of them.                                                    *)
LEMMA VetPasses ==
  ASSUME ReActTyped, Guarded, cfg.guards, Vet
  PROVE  /\ vetted \subseteq vetted'
         /\ \A i \in DOMAIN s.messages :
              s.messages[i].role = "user" => s.messages[i].text \in vetted'
<1>0. vetted \subseteq vetted'
  BY DEF Vet
<1>1. SUFFICES ASSUME NEW i \in DOMAIN s.messages, s.messages[i].role = "user"
               PROVE  s.messages[i].text \in vetted'
  BY <1>0
<1>2. /\ s.messages \in Seq(Message) /\ s.digest \in Seq(Message)
      /\ s.guarded = Len(s.digest) /\ s.guarded \in Nat
  BY DEF ReActTyped, ReActState, Guarded
<1>3. vetted' = vetted \cup TextsAt(Unvetted)
  BY DEF Vet
<1> DEFINE min == IF s.guarded > Len(s.messages) THEN Len(s.messages) ELSE s.guarded
<1>4. CASE i \in Unvetted
  BY <1>3, <1>4 DEF TextsAt
<1>5. CASE i \notin Unvetted
  <2>1. /\ s.digest = NoDigest \/ s.digest = SubSeq(s.messages, 1, min)
        /\ i <= min
    BY <1>1, <1>2, <1>5 DEF Unvetted
  <2>2. s.digest # NoDigest
    BY <1>2, <2>1 DEF NoDigest
  <2>3. i \in DOMAIN s.digest /\ s.digest[i] = s.messages[i]
    BY <1>2, <2>1, <2>2
  <2>4. s.digest[i].text \in vetted
    BY <1>1, <2>3 DEF Guarded, Passed
  <2> QED BY <1>3, <2>3, <2>4
<1> QED
  BY <1>4, <1>5

(* A step that leaves the State alone, and sends it to the model or not.   *)
LEMMA GuardedWhenKept ==
  ASSUME ReActTyped, Guarded, UNCHANGED <<cfg, s>>, vetted \subseteq vetted',
         \/ asked' = asked
         \/ asked' = s.messages /\ Vet
  PROVE  Guarded'
<1> SUFFICES ASSUME cfg.guards PROVE Guarded'
  BY DEF Guarded
<1>1. Passed(s.digest)' /\ (s.guarded = Len(s.digest))'
  BY DEF Guarded, Passed
<1>2. Passed(asked)'
  <2>1. CASE asked' = asked
    BY <2>1 DEF Guarded, Passed
  <2>2. CASE asked' = s.messages /\ Vet
    BY <2>2, VetPasses DEF Passed
  <2> QED BY <2>1, <2>2
<1> QED
  BY <1>1, <1>2 DEF Guarded

(* A run that breaks off leaves the State as it was.                       *)
LEMMA ReActBreaksOff ==
  ASSUME ReActTyped, Guarded, Counted, Placed,
         UNCHANGED <<cfg, s, next, step, pending, out, turns, ran, started>>,
         pc' = "idle", ret' \notin {"nil", "max steps"},
         vetted \subseteq vetted',
         \/ asked' = asked
         \/ asked' = s.messages /\ Vet
  PROVE  ReActTyped' /\ Guarded' /\ Counted' /\ Placed'
<1>1. asked' \in Seq(Message)
  BY DEF ReActTyped, ReActState
<1>2. ReActTyped'
  BY <1>1 DEF ReActTyped
<1>3. Guarded'
  BY GuardedWhenKept
<1>4. Counted'
  BY DEF Counted
<1>5. Placed'
  BY DEF Placed, AtModel, AtTools, AtEnd
<1> QED
  BY <1>2, <1>3, <1>4, <1>5

LEMMA ReActModelFails ==
  ASSUME ReActTyped, Guarded, Counted, Placed,
         ModelNode, InputBlocked \/ ModelFails
  PROVE  ReActTyped' /\ Guarded' /\ Counted' /\ Placed'
<1>1. UNCHANGED <<cfg, s, next, step, pending, out, turns, ran, started>> /\ pc' = "idle"
  BY DEF ModelNode, InputBlocked, ModelFails, NodeFails, Return, executor
<1>2. ret' \notin {"nil", "max steps"}
  BY DEF InputBlocked, ModelFails, NodeFails, Return
<1>3. vetted \subseteq vetted'
  BY DEF InputBlocked, ModelFails, Vet
<1>4. asked' = asked \/ (asked' = s.messages /\ Vet)
  BY DEF InputBlocked, ModelFails
<1> QED
  BY <1>1, <1>2, <1>3, <1>4, ReActBreaksOff

LEMMA ReActAnswers ==
  ASSUME ReActTyped, Guarded, Counted, Placed, ModelNode, ModelAnswers
  PROVE  ReActTyped' /\ Guarded' /\ Counted' /\ Placed'
<1> DEFINE m == s.messages
<1>1. /\ UNCHANGED <<cfg, pending, out, started>> /\ Vet
      /\ asked' = m /\ turns' = turns + 1 /\ ran' = ran + 1
      /\ pc = "top" /\ next = "model" /\ step < cfg.maxSteps
  BY DEF ModelNode, ModelAnswers, At, executor
<1>2. PICK n \in 0 .. MaxCalls :
        /\ s' = [messages   |-> Append(m, Assistant(ToolCalls(n))),
                 iterations |-> s.iterations + 1,
                 guarded    |-> Len(m),
                 digest     |-> IF cfg.guards THEN m ELSE s.digest,
                 capped     |-> s.capped \/ (n > 0 /\ s.iterations + 1 >= MaxIterations)]
        /\ Follow("model", Router(s'))
  BY DEF ModelAnswers
<1>3. /\ s \in ReActState /\ m \in Seq(Message) /\ s.digest \in Seq(Message)
      /\ s.iterations \in Nat /\ s.capped \in BOOLEAN
      /\ started.iterations \in Nat /\ started.capped \in BOOLEAN
      /\ ran \in Nat /\ turns \in Nat /\ step \in Nat
      /\ cfg \in ReActConfigs
  BY DEF ReActTyped, ReActState
<1>4. ToolCalls(n) \in Seq(Call) /\ Len(ToolCalls(n)) = n
  <2>1. n \in Nat
    BY <1>2, ReActConstants
  <2>2. \A i \in 1 .. n : CallIds(n)[i] \in Nat \X Nat
    BY <1>3, <2>1 DEF CallIds
  <2>3. \A i \in 1 .. n : [id |-> CallIds(n)[i]] \in Call
    BY <2>2 DEF Call
  <2> HIDE DEF Call
  <2> QED BY <2>1, <2>3 DEF ToolCalls
<1>5. Assistant(ToolCalls(n)) \in Message
  BY <1>4 DEF Assistant, Message
<1>6. /\ s'.messages \in Seq(Message) \ {<< >>}
      /\ LastOf(s'.messages) = Assistant(ToolCalls(n))
  <2>1. s'.messages = Append(m, Assistant(ToolCalls(n)))
    BY <1>2
  <2> HIDE DEF m
  <2> QED BY <1>3, <1>5, <2>1, AppendProperties DEF LastOf
<1>7. CallsOf(LastOf(s'.messages)) = ToolCalls(n)
  BY <1>6 DEF CallsOf, Assistant
<1>8. ToolCalls(n) # << >> <=> n > 0
  BY <1>4, <1>2
<1>9. Router(s') = IF s.iterations + 1 >= MaxIterations \/ n = 0 THEN END ELSE "tools"
  BY <1>2, <1>7, <1>8, ReActConstants DEF Router
<1>10. /\ s'.iterations = s.iterations + 1 /\ s'.guarded = Len(m)
       /\ s'.digest = IF cfg.guards THEN m ELSE s.digest
       /\ s'.capped = (s.capped \/ (n > 0 /\ s.iterations + 1 >= MaxIterations))
  BY <1>2
<1>11. s' \in ReActState
  BY <1>2, <1>3, <1>6 DEF ReActState
<1>12. (GoesTo(Router(s')) /\ (Router(s') = "tools" => "tools" \in cfg.graph.nodes)) \/ Breaks
  BY <1>2, <1>3, ReActRoutes
<1>13. step' \in Nat /\ pc' \in {"top", "idle"}
  BY <1>3, <1>12 DEF GoesTo, Breaks
<1>14. ReActTyped'
  BY <1>1, <1>3, <1>11, <1>13 DEF ReActTyped
<1>15. Guarded'
  <2>1. CASE cfg.guards
    <3>1. \A i \in DOMAIN m : m[i].role = "user" => m[i].text \in vetted'
      BY <1>1, <2>1, VetPasses
    <3> QED BY <1>1, <1>10, <2>1, <3>1 DEF Guarded, Passed
  <2> QED BY <1>1, <2>1 DEF Guarded
<1>16. /\ s.iterations = started.iterations + ran
       /\ ran = 0 \/ s.iterations < MaxIterations
       /\ Uncapped /\ step = 2 * ran
  BY <1>1 DEF Counted, Placed, AtModel
<1>17. Counted'
  BY <1>1, <1>3, <1>10, <1>16, ReActConstants DEF Counted
<1>18. Told'
  <2>1. ~started.capped => ~s.capped
    BY <1>16 DEF Uncapped
  <2>2. s'.iterations >= MaxIterations /\ CallsOf(LastOf(s'.messages)) # << >>
          <=> n > 0 /\ s.iterations + 1 >= MaxIterations
    BY <1>7, <1>8, <1>10
  <2>3. ~started'.capped => (s'.capped <=> n > 0 /\ s.iterations + 1 >= MaxIterations)
    BY <1>1, <1>10, <2>1, Zenon
  <2> QED BY <2>2, <2>3, Zenon DEF Told
<1>19. Placed'
  <2>1. CASE Breaks
    BY <1>18, <2>1 DEF Placed, AtModel, AtTools, AtEnd, Breaks, RouteErrors
  <2>2. CASE GoesTo(Router(s')) /\ (Router(s') = "tools" => "tools" \in cfg.graph.nodes)
    <3>0. END # "model" /\ END # "tools"
      BY NamesDistinct, ReActConstants
    <3>1. CASE Router(s') = END
      BY <1>18, <2>2, <3>0, <3>1 DEF Placed, AtModel, AtTools, AtEnd, GoesTo
    <3>2. CASE Router(s') = "tools" /\ n > 0 /\ s.iterations + 1 < MaxIterations
      <4>1. ~s'.capped \/ s.capped
        <5>1. ~(n > 0 /\ s.iterations + 1 >= MaxIterations)
          BY <1>3, <3>2, ReActConstants
        <5> QED BY <1>10, <5>1, Zenon
      <4>2. Uncapped'
        BY <1>1, <1>16, <4>1, Zenon DEF Uncapped
      <4>3. /\ step' = 2 * ran' - 1 /\ ran' >= 1 /\ s'.iterations < MaxIterations
            /\ "tools" \in cfg'.graph.nodes
        <5>1. step' = step + 1 /\ ran' = ran + 1
          BY <1>1, <2>2 DEF GoesTo
        <5>2. step' = 2 * ran' - 1 /\ ran' >= 1
          BY <1>3, <1>16, <5>1
        <5>3. s'.iterations < MaxIterations
          BY <1>10, <3>2
        <5>4. "tools" \in cfg'.graph.nodes
          BY <1>1, <2>2, <3>2
        <5> QED BY <5>2, <5>3, <5>4
      <4>4. AtTools'
        BY <4>2, <4>3 DEF AtTools
      <4> QED BY <2>2, <3>0, <3>2, <4>4 DEF Placed, AtModel, AtEnd, GoesTo
    <3> QED BY <1>2, <1>3, <1>9, <3>1, <3>2, ReActConstants
  <2> QED BY <1>12, <2>1, <2>2
<1> QED
  BY <1>14, <1>15, <1>17, <1>19

LEMMA ReActStartsTools ==
  ASSUME ReActTyped, Guarded, Counted, Placed, StartTools
  PROVE  ReActTyped' /\ Guarded' /\ Counted' /\ Placed'
<1>1. /\ UNCHANGED <<cfg, s, next, step, ret, asked, turns, started, vetted, ran>>
      /\ pc = "top" /\ next = "tools" /\ pc' = "calling"
      /\ pending' = CallsOf(LastOf(s.messages))
      /\ out' = [i \in DOMAIN pending' |-> NoResult]
  BY DEF StartTools, At, StartCalls, history, reactVars
<1>2. pending' \in Seq(Call)
  <2>1. s.messages \in Seq(Message) /\ s.messages # << >>
    BY DEF ReActTyped, ReActState
  <2>2. LastOf(s.messages) \in Message
    BY <2>1 DEF LastOf
  <2>3. CallsOf(LastOf(s.messages)) \in Seq(Call)
    BY <2>2 DEF Message, CallsOf
  <2> QED BY <1>1, <2>3
<1>3. ReActTyped'
  BY <1>1, <1>2 DEF ReActTyped, Slot
<1>4. Guarded'
  BY <1>1 DEF Guarded, Passed
<1>5. Counted'
  BY <1>1 DEF Counted
<1>6. Placed'
  <2>1. Uncapped' = Uncapped /\ Told' = Told
    BY <1>1 DEF Uncapped, Told
  <2> QED BY <1>1, <2>1 DEF Placed, AtModel, AtTools, AtEnd
<1> QED
  BY <1>3, <1>4, <1>5, <1>6

LEMMA ReActCollects ==
  ASSUME ReActTyped, Guarded, Counted, Placed, ToolsNode
  PROVE  ReActTyped' /\ Guarded' /\ Counted' /\ Placed'
<1>1. /\ UNCHANGED <<cfg, asked, turns, runs, started, vetted, ran, edits>>
      /\ pc = "calling" /\ \A i \in DOMAIN out : out[i] # NoResult
      /\ s' = [s EXCEPT !.messages = @ \o Results]
      /\ pending' = << >> /\ out' = << >>
      /\ Follow("tools", Empty)
  BY DEF ToolsNode, AllReturned, Collected, history, reactVars
<1>2. /\ next = "tools" /\ "tools" \in cfg.graph.nodes
      /\ ran >= 1 /\ s.iterations < MaxIterations /\ Uncapped /\ step = 2 * ran - 1
  BY <1>1 DEF Placed, AtTools
<1>3. /\ s \in ReActState /\ s.messages \in Seq(Message) \ {<< >>}
      /\ cfg \in ReActConfigs /\ ran \in Nat /\ step \in Nat
  BY DEF ReActTyped, ReActState
<1>4. Results \in Seq(Message)
  <2>1. PICK k \in Nat : DOMAIN out = 1 .. k
    BY DEF ReActTyped
  <2>2. \A i \in 1 .. k : ToolResult(out[i]) \in Message
    <3>1. TAKE i \in 1 .. k
    <3>2. out[i] \in Nat \X Nat
      BY <1>1, <2>1 DEF ReActTyped, Slot
    <3> QED BY <3>2 DEF ToolResult, Message
  <2> HIDE DEF Message
  <2> QED BY <2>1, <2>2 DEF Results
<1>5. s.messages \o Results \in Seq(Message) \ {<< >>}
  BY <1>3, <1>4, ConcatProperties
<1>6. /\ s' \in ReActState
      /\ s'.iterations = s.iterations /\ s'.guarded = s.guarded /\ s'.digest = s.digest
      /\ s'.capped = s.capped
  BY <1>1, <1>3, <1>5 DEF ReActState
<1>7. GoesTo("model")
  BY <1>1, <1>2, <1>3, ReActRoutes
<1>8. ReActTyped'
  <2>1. pending' \in Seq(Call) /\ out' \in [DOMAIN pending' -> Slot]
    BY <1>1
  <2>2. step' \in Nat /\ pc' = "top"
    BY <1>3, <1>7 DEF GoesTo
  <2> QED BY <1>1, <1>6, <2>1, <2>2 DEF ReActTyped
<1>9. Guarded'
  BY <1>1, <1>6 DEF Guarded, Passed
<1>10. Counted'
  BY <1>1, <1>6 DEF Counted
<1>11. Placed'
  <2>1. Uncapped'
    BY <1>1, <1>2, <1>6, Zenon DEF Uncapped
  <2>2. "model" # END /\ "model" # "tools"
    BY NamesDistinct, ReActConstants
  <2>3. step' = 2 * ran'
    BY <1>1, <1>2, <1>3, <1>7 DEF GoesTo
  <2>4. pc' = "top" /\ next' = "model" /\ ret' = ret
    BY <1>7 DEF GoesTo
  <2>5. AtModel'
    BY <1>2, <1>6, <2>1, <2>3 DEF AtModel
  <2>6. AtTools' /\ AtEnd'
    BY <2>2, <2>4 DEF AtTools, AtEnd
  <2> QED BY <2>4, <2>5, <2>6 DEF Placed
<1> QED
  BY <1>8, <1>9, <1>10, <1>11

(* What the runtime does on its own to any agent.                          *)
LEMMA LoopSteps ==
  ASSUME Loop
  PROVE  /\ UNCHANGED <<cfg, s, next, step, pending, asked, turns, runs>>
         /\ \/ /\ pc = "top" /\ pc' = "idle" /\ out' = out
               /\ \/ next = END /\ ret' = "nil"
                  \/ ret' = "cancelled"
                  \/ next # END /\ step >= cfg.maxSteps /\ ret' = "max steps"
            \/ /\ pc = "calling" /\ pc' = "calling" /\ ret' = ret
               /\ \E i \in DOMAIN out : out' = [out EXCEPT ![i] = pending[i].id]
<1>1. CASE ReachEnd
  BY <1>1 DEF ReachEnd, Return, executor
<1>2. CASE Stopped
  BY <1>2 DEF Stopped, Return, executor
<1>3. CASE \E i \in DOMAIN out : CallReturns(i)
  BY <1>3 DEF CallReturns, graphVars
<1> QED
  BY <1>1, <1>2, <1>3 DEF Loop

LEMMA ReActLoops ==
  ASSUME ReActTyped, Guarded, Counted, Placed, Loop, UNCHANGED reactVars
  PROVE  ReActTyped' /\ Guarded' /\ Counted' /\ Placed'
<1>1. UNCHANGED <<started, vetted, ran, edits>>
  BY DEF reactVars
<1>2. /\ UNCHANGED <<cfg, s, next, step, pending, asked, turns, runs>>
      /\ \/ /\ pc = "top" /\ pc' = "idle" /\ out' = out
            /\ \/ next = END /\ ret' = "nil"
               \/ ret' = "cancelled"
               \/ next # END /\ step >= cfg.maxSteps /\ ret' = "max steps"
         \/ /\ pc = "calling" /\ pc' = "calling" /\ ret' = ret
            /\ \E i \in DOMAIN out : out' = [out EXCEPT ![i] = pending[i].id]
  BY LoopSteps
<1>3. out' \in [DOMAIN pending' -> Slot]
  <2>1. CASE out' = out
    BY <1>2, <2>1 DEF ReActTyped
  <2>2. ASSUME NEW i \in DOMAIN out, out' = [out EXCEPT ![i] = pending[i].id]
        PROVE  out' \in [DOMAIN pending' -> Slot]
    <3>1. pending[i] \in Call
      BY DEF ReActTyped
    <3>2. pending[i].id \in Slot
      BY <3>1 DEF Call, Slot
    <3> QED BY <1>2, <2>2, <3>2 DEF ReActTyped
  <2> QED BY <1>2, <2>1, <2>2
<1>4. ReActTyped'
  BY <1>1, <1>2, <1>3 DEF ReActTyped
<1>5. Guarded'
  BY <1>1, <1>2 DEF Guarded, Passed
<1>6. Counted'
  BY <1>1, <1>2 DEF Counted
<1>7. ~(next # END /\ pc = "top" /\ step >= cfg.maxSteps)
  <2>1. /\ s.iterations = started.iterations + ran
        /\ started.iterations \in Nat /\ ran \in Nat /\ step \in Nat
        /\ cfg.maxSteps = MaxIterations * 3 + 4
    BY ReActCfg DEF ReActTyped, ReActState, Counted
  <2>2. CASE next = "model" /\ pc = "top"
    <3>1. (ran = 0 \/ s.iterations < MaxIterations) /\ step = 2 * ran
      BY <2>2 DEF Placed, AtModel
    <3>2. step < cfg.maxSteps
      BY <2>1, <3>1, ReActConstants
    <3> QED BY <2>1, <3>2, ReActConstants
  <2>3. CASE next = "tools" /\ pc = "top"
    <3>1. s.iterations < MaxIterations /\ step = 2 * ran - 1
      BY <2>3 DEF Placed, AtTools
    <3>2. step < cfg.maxSteps
      BY <2>1, <3>1, ReActConstants
    <3> QED BY <2>1, <3>2, ReActConstants
  <2> QED BY <2>2, <2>3 DEF Placed
<1>8. Placed'
  <2>1. Uncapped' = Uncapped /\ Told' = Told
    BY <1>1, <1>2 DEF Uncapped, Told
  <2> QED BY <1>1, <1>2, <1>7, <2>1 DEF Placed, AtModel, AtTools, AtEnd
<1> QED
  BY <1>4, <1>5, <1>6, <1>8

LEMMA ReActInvHolds == Init => ReActInv
<1> SUFFICES ASSUME Init, cfg.kind = "react" PROVE ReActTyped /\ Guarded /\ Counted /\ Placed
  BY DEF ReActInv
<1>1. cfg \in ReActConfigs
  BY DEF Init, PlanConfigs, SupervisorConfigs, SwarmConfigs
<1>2. /\ s = SeedState /\ started = SeedState
      /\ pc = "idle" /\ step = 0 /\ ret = "edited"
      /\ pending = << >> /\ out = << >> /\ asked = << >> /\ turns = 0 /\ ran = 0
  BY DEF Init, Seeds
<1>3. <<User(Seed)>> \in Seq(Message) \ {<< >>}
  <2>1. User(Seed) \in Message
    BY ReActConstants DEF User, Message
  <2> QED BY <2>1
<1>4. SeedState \in ReActState
  BY <1>3 DEF SeedState, ReActState, NoDigest
<1>5. ReActTyped
  BY <1>1, <1>2, <1>4 DEF ReActTyped
<1>6. Guarded
  BY <1>2 DEF Guarded, Passed, SeedState, NoDigest
<1>7. Counted
  BY <1>2, ReActConstants DEF Counted, SeedState
<1>8. Placed
  BY <1>2 DEF Placed, AtModel, AtTools, AtEnd
<1> QED
  BY <1>5, <1>6, <1>7, <1>8

LEMMA ReActInvKept == ReActInv /\ [Next]_vars => ReActInv'
<1> SUFFICES ASSUME ReActInv, [Next]_vars, cfg'.kind = "react"
             PROVE  ReActTyped' /\ Guarded' /\ Counted' /\ Placed'
  BY DEF ReActInv
<1>0. cfg' = cfg
  BY ConfigIsFixed
<1>1. ReActTyped /\ Guarded /\ Counted /\ Placed
  BY <1>0 DEF ReActInv
<1>2. CASE UNCHANGED vars
  BY <1>1, <1>2 DEF vars, agentVars, graphVars, executor, history, reactVars, ReActTyped,
     Guarded, Passed, Counted, Placed, AtModel, AtTools, AtEnd, Uncapped, Told
<1>3. CASE Loop /\ UNCHANGED reactVars
  BY <1>1, <1>3, ReActLoops
<1>4. CASE Edit /\ UNCHANGED <<adopted, locals>>
  BY <1>1, <1>4, ReActEdit
<1>5. CASE Invoke
  BY <1>1, <1>5, ReActInvoke
<1>6. CASE ModelNode
  BY <1>1, <1>6, ReActModelFails, ReActAnswers DEF ModelNode
<1>7. CASE StartTools
  BY <1>1, <1>7, ReActStartsTools
<1>8. CASE ToolsNode
  BY <1>1, <1>8, ReActCollects
<1> QED
  BY <1>0, <1>2, <1>3, <1>4, <1>5, <1>6, <1>7, <1>8 DEF Next, ReActNext

(***************************************************************************)
(* The Plan-and-Execute agent: iter plans were executed for one step each, *)
(* and the plan in force is the last one adopted, or what is left of it.   *)
(***************************************************************************)
PlanShape ==
  [input : {Empty, Answer}, plan : Seq(PlanStep), past : Seq(PlanStep),
   final : {Empty, Answer}, iter : Nat]

PlanTyped ==
  /\ cfg \in PlanConfigs
  /\ s \in PlanShape
  /\ adopted \in Seq(Seq(PlanStep))
  /\ step \in Nat /\ runs \in Nat
  /\ pc \in {"idle", "top"} /\ out = << >>

Followed ==
  /\ Len(s.past) \in {s.iter, s.iter + 1}
  /\ Len(s.past) <= MaxPlanIterations
  /\ Len(s.past) <= Len(adopted)
  /\ \A i \in DOMAIN s.past : adopted[i] # << >> /\ s.past[i] = Head(adopted[i])

ShownToReplanner ==
  asked # << >> =>
    /\ asked \in [past : Seq(PlanStep), plan : Seq(PlanStep)]
    /\ Len(asked.past) \in 1 .. Len(adopted)
    /\ <<LastOf(asked.past)>> \o asked.plan = adopted[Len(asked.past)]

Planless ==
  runs = 0 => pc = "idle" /\ s.past = << >> /\ s.iter = 0 /\ adopted = << >>

AtPlan ==
  pc = "top" /\ next = "plan" =>
    s.past = << >> /\ s.iter = 0 /\ adopted = << >> /\ step = 0

AtExecute ==
  pc = "top" /\ next = "execute" =>
    /\ Len(adopted) = s.iter + 1 /\ Len(s.past) = s.iter
    /\ s.plan = adopted[s.iter + 1]
    /\ s.iter < MaxPlanIterations /\ step = 1 + 2 * s.iter

AtReplan ==
  pc = "top" /\ next = "replan" =>
    /\ Len(adopted) = s.iter + 1 /\ Len(s.past) = s.iter + 1
    /\ s.plan = Tail(adopted[s.iter + 1])
    /\ s.iter < MaxPlanIterations /\ step = 2 + 2 * s.iter

AtPlanEnd ==
  (pc = "top" /\ next = END) \/ (pc = "idle" /\ ret = "nil") => CutAtTheCap

PlanPlaced ==
  /\ pc = "top" => next \in {"plan", "execute", "replan", END}
  /\ Planless /\ AtPlan /\ AtExecute /\ AtReplan /\ AtPlanEnd
  /\ ret # "max steps"

PlanInv == cfg.kind = "plan" => PlanTyped /\ Followed /\ ShownToReplanner /\ PlanPlaced

LEMMA PlanCfg ==
  ASSUME PlanTyped
  PROVE  /\ cfg.graph = PlanGraph /\ cfg.maxSteps = MaxPlanIterations * 4 + 6
         /\ cfg.maxRuns = 1
<1> HIDE DEF PlanGraph
<1> QED
  BY DEF PlanTyped, PlanConfigs

LEMMA PlanNames ==
  /\ {"plan", "execute", "replan"} \cap {Empty, START, END} = {}
  /\ "plan" # "execute" /\ "plan" # "replan" /\ "execute" # "replan"
BY NamesDistinct, PlanConstants

LEMMA PlansAreLists == Plans \subseteq Seq(PlanStep)
BY DEF Plans, BoundedSeq, SeqOf

LEMMA Splits ==
  ASSUME NEW S, NEW q \in Seq(S), q # << >>
  PROVE  /\ Head(q) \in S /\ Tail(q) \in Seq(S) /\ <<Head(q)>> \o Tail(q) = q
<1>1. Head(q) = q[1] /\ Head(q) \in S /\ Tail(q) \in Seq(S)
  OBVIOUS
<1>2. <<Head(q)>> \o Tail(q) = q
  OBVIOUS
<1> QED
  BY <1>1, <1>2

(* A plan is adopted: what was adopted before stays where it was.          *)
LEMMA Adopts ==
  ASSUME PlanTyped, NEW p \in Seq(PlanStep)
  PROVE  /\ Append(adopted, p) \in Seq(Seq(PlanStep))
         /\ Len(Append(adopted, p)) = Len(adopted) + 1
         /\ Append(adopted, p)[Len(adopted) + 1] = p
         /\ \A i \in 1 .. Len(adopted) : Append(adopted, p)[i] = adopted[i]
<1>1. adopted \in Seq(Seq(PlanStep))
  BY DEF PlanTyped
<1> QED
  BY <1>1

PlanParts == PlanTyped /\ Followed /\ ShownToReplanner /\ PlanPlaced

(* The run breaks off or ends; what the replanner is shown is checked by   *)
(* the caller of this lemma.                                               *)
LEMMA PlanBreaksOff ==
  ASSUME PlanParts, runs' # 0,
         UNCHANGED <<cfg, s, adopted, step, runs, out>>,
         pc' = "idle", ret' # "max steps", ret' = "nil" => CutAtTheCap, ShownToReplanner'
  PROVE  PlanParts'
<1>1. PlanTyped'
  BY DEF PlanParts, PlanTyped, PlanShape
<1>2. Followed'
  BY DEF PlanParts, Followed
<1>3. PlanPlaced'
  BY DEF PlanPlaced, Planless, AtPlan, AtExecute, AtReplan, AtPlanEnd, CutAtTheCap
<1> QED
  BY <1>1, <1>2, <1>3 DEF PlanParts

LEMMA PlanStarts ==
  ASSUME PlanParts, PlanStart
  PROVE  PlanParts'
<1>1. /\ UNCHANGED <<cfg, s, out, ret, asked, adopted>>
      /\ pc = "idle" /\ runs < cfg.maxRuns /\ runs' = runs + 1
      /\ pc' = "top" /\ next' = cfg.graph.entry /\ step' = 0
  BY DEF PlanStart, Begin, executor
<1>2. runs \in Nat /\ runs = 0 /\ next' = "plan"
  BY <1>1, PlanCfg, PlanEdges DEF PlanParts, PlanTyped, PlanShape
<1>3. s.past = << >> /\ s.iter = 0 /\ adopted = << >> /\ ret # "max steps"
  BY <1>2 DEF PlanParts, PlanPlaced, Planless
<1>4. PlanTyped'
  BY <1>1, <1>2 DEF PlanParts, PlanTyped, PlanShape
<1>5. Followed' /\ ShownToReplanner'
  BY <1>1 DEF PlanParts, Followed, ShownToReplanner
<1>6. PlanPlaced'
  <2>1. Planless'
    BY <1>1, <1>2 DEF Planless
  <2>2. AtPlan'
    BY <1>1, <1>3 DEF AtPlan
  <2>3. AtExecute' /\ AtReplan' /\ AtPlanEnd'
    BY <1>1, <1>2, PlanNames DEF AtExecute, AtReplan, AtPlanEnd
  <2> QED BY <1>1, <1>2, <1>3, <2>1, <2>2, <2>3 DEF PlanPlaced
<1> QED
  BY <1>4, <1>5, <1>6 DEF PlanParts

LEMMA PlanNodeKeeps ==
  ASSUME PlanParts, PlanNode
  PROVE  PlanParts'
<1>1. /\ UNCHANGED <<cfg, out, asked, runs>>
      /\ pc = "top" /\ next = "plan"
  BY DEF PlanNode, At, executor
<1>2. runs # 0 /\ s.past = << >> /\ s.iter = 0 /\ adopted = << >> /\ step = 0
  BY <1>1 DEF PlanParts, PlanPlaced, Planless, AtPlan
<1>3. CASE UNCHANGED <<s, adopted, step>> /\ pc' = "idle" /\ ret' \notin {"nil", "max steps"}
  <2>1. ShownToReplanner'
    BY <1>1, <1>3 DEF PlanParts, ShownToReplanner
  <2> QED BY <1>1, <1>2, <1>3, <2>1, PlanBreaksOff
<1>4. ASSUME NEW plan \in Plans,
             s' = [s EXCEPT !.plan = plan], adopted' = Append(adopted, plan),
             Follow("plan", Empty)
      PROVE  PlanParts'
  <2>1. plan \in Seq(PlanStep)
    BY PlansAreLists
  <2>2. /\ adopted' \in Seq(Seq(PlanStep)) /\ Len(adopted') = 1 /\ adopted'[1] = plan
    BY <1>2, <1>4, <2>1, Adopts DEF PlanParts
  <2>3. GoesTo("execute")
    BY <1>4, PlanCfg, PlanEdges, FollowEdges DEF PlanParts
  <2>4. s'.past = << >> /\ s'.iter = 0 /\ s'.plan = plan
    BY <1>2, <1>4 DEF PlanParts, PlanTyped, PlanShape
  <2>5. PlanTyped'
    BY <1>1, <1>2, <1>4, <2>1, <2>2, <2>3 DEF PlanParts, PlanTyped, PlanShape, GoesTo
  <2>6. Followed'
    BY <1>2, <2>2, <2>4, PlanConstants DEF Followed
  <2>7. ShownToReplanner'
    <3>1. asked = << >>
      BY <1>2 DEF PlanParts, ShownToReplanner
    <3> QED BY <1>1, <3>1 DEF ShownToReplanner
  <2>8. PlanPlaced'
    <3>0. ret # "max steps"
      BY DEF PlanParts, PlanPlaced
    <3>1. pc' = "top" /\ next' = "execute" /\ step' = 1 /\ ret' # "max steps"
      <4>1. pc' = "top" /\ next' = "execute" /\ step' = step + 1 /\ ret' = ret
        BY <2>3 DEF GoesTo
      <4>2. step' = 1
        BY <1>2, <4>1
      <4> QED BY <3>0, <4>1, <4>2
    <3>2. AtExecute'
      <4>1. s'.iter + 1 = 1 /\ 1 + 2 * s'.iter = 1 /\ s'.iter < MaxPlanIterations
        BY <2>4, PlanConstants
      <4>2. Len(s'.past) = s'.iter
        BY <2>4
      <4>3. s'.plan = adopted'[1] /\ Len(adopted') = 1
        BY <2>2, <2>4
      <4> QED BY <3>1, <4>1, <4>2, <4>3 DEF AtExecute
    <3>3. Planless' /\ AtPlan' /\ AtReplan' /\ AtPlanEnd'
      BY <1>1, <1>2, <3>1, PlanNames DEF Planless, AtPlan, AtReplan, AtPlanEnd
    <3> QED BY <3>1, <3>2, <3>3 DEF PlanPlaced
  <2> QED BY <2>5, <2>6, <2>7, <2>8 DEF PlanParts
<1> QED
  BY <1>3, <1>4 DEF PlanNode, NodeFails, Return

LEMMA PlanExecutes ==
  ASSUME PlanParts, ExecuteNode
  PROVE  PlanParts'
<1>1. /\ UNCHANGED <<cfg, out, asked, runs, adopted>>
      /\ pc = "top" /\ next = "execute"
  BY DEF ExecuteNode, At, executor
<1>2. /\ runs # 0 /\ Len(adopted) = s.iter + 1 /\ Len(s.past) = s.iter
      /\ s.plan = adopted[s.iter + 1]
      /\ s.iter < MaxPlanIterations /\ step = 1 + 2 * s.iter
  BY <1>1 DEF PlanParts, PlanPlaced, Planless, AtExecute
<1>3. ShownToReplanner'
  BY <1>1 DEF PlanParts, ShownToReplanner
<1>4. CASE UNCHANGED <<s, step>> /\ pc' = "idle" /\ ret' \notin {"nil", "max steps"}
  BY <1>1, <1>2, <1>3, <1>4, PlanBreaksOff
<1>5. ASSUME s.plan # << >>,
             s' = [s EXCEPT !.plan = Tail(@), !.past = Append(@, Head(s.plan))],
             Follow("execute", Empty)
      PROVE  PlanParts'
  <2>1. /\ s \in PlanShape
        /\ s.plan \in Seq(PlanStep) /\ s.past \in Seq(PlanStep) /\ s.iter \in Nat
        /\ step \in Nat
    BY DEF PlanParts, PlanTyped, PlanShape
  <2>2. /\ s'.plan = Tail(s.plan) /\ s'.past = Append(s.past, Head(s.plan))
        /\ s'.iter = s.iter
    BY <1>5, <2>1
  <2>3. Head(s.plan) \in PlanStep /\ Tail(s.plan) \in Seq(PlanStep)
    BY <1>5, <2>1, Splits
  <2>4. Append(s.past, Head(s.plan)) \in Seq(PlanStep)
    BY <2>1, <2>3
  <2>5. s' \in PlanShape
    BY <1>5, <2>1, <2>3, <2>4 DEF PlanShape
  <2>6. /\ Len(s'.past) = s.iter + 1 /\ s'.past[s.iter + 1] = Head(s.plan)
        /\ \A i \in 1 .. s.iter : s'.past[i] = s.past[i]
    BY <1>2, <2>1, <2>2, <2>3
  <2>7. GoesTo("replan")
    BY <1>5, PlanCfg, PlanEdges, FollowEdges DEF PlanParts
  <2>8. PlanTyped'
    BY <1>1, <2>1, <2>5, <2>7 DEF PlanParts, PlanTyped, PlanShape, GoesTo
  <2>9. Followed'
    <3>1. ASSUME NEW i \in 1 .. s.iter + 1
          PROVE  adopted[i] # << >> /\ s'.past[i] = Head(adopted[i])
      <4>1. CASE i = s.iter + 1
        BY <1>2, <1>5, <2>6, <4>1
      <4>2. CASE i \in 1 .. s.iter
        <5>1. i \in DOMAIN s.past
          BY <1>2, <2>1, <4>2
        <5> QED BY <2>6, <4>2, <5>1 DEF PlanParts, Followed
      <4> QED BY <2>1, <4>1, <4>2
    <3>2. DOMAIN s'.past = 1 .. s.iter + 1
      BY <2>2, <2>4, <2>6
    <3>3. Len(s'.past) = s'.iter + 1 /\ Len(s'.past) = s.iter + 1
      BY <2>2, <2>6
    <3>4. Len(s'.past) <= MaxPlanIterations /\ Len(s'.past) <= Len(adopted')
      BY <1>1, <1>2, <2>1, <3>3, PlanConstants
    <3>5. \A i \in DOMAIN s'.past : adopted'[i] # << >> /\ s'.past[i] = Head(adopted'[i])
      BY <1>1, <3>1, <3>2
    <3> QED BY <3>3, <3>4, <3>5 DEF Followed
  <2>10. PlanPlaced'
    <3>0. ret # "max steps"
      BY DEF PlanParts, PlanPlaced
    <3>1. pc' = "top" /\ next' = "replan" /\ step' = 2 + 2 * s.iter /\ ret' # "max steps"
      <4>1. pc' = "top" /\ next' = "replan" /\ step' = step + 1 /\ ret' = ret
        BY <2>7 DEF GoesTo
      <4>2. step' = 2 + 2 * s.iter
        BY <1>2, <2>1, <4>1
      <4> QED BY <3>0, <4>1, <4>2
    <3> QED BY <1>1, <1>2, <2>1, <2>2, <2>6, <3>1, PlanNames
            DEF PlanPlaced, Planless, AtPlan, AtExecute, AtReplan, AtPlanEnd
  <2> QED BY <1>3, <2>8, <2>9, <2>10 DEF PlanParts
<1> QED
  BY <1>4, <1>5 DEF ExecuteNode, NodeFails, Return

(* The replanner is shown the plan in force, and plans are only added.      *)
LEMMA PlanIsShown ==
  ASSUME PlanParts, pc = "top", next = "replan", asked' = Payload(s),
         Len(adopted') \in Nat, Len(adopted') >= Len(adopted),
         \A i \in 1 .. Len(adopted) : adopted'[i] = adopted[i]
  PROVE  ShownToReplanner'
<1>1. /\ Len(adopted) = s.iter + 1 /\ Len(s.past) = s.iter + 1
      /\ s.plan = Tail(adopted[s.iter + 1])
  BY DEF PlanParts, PlanPlaced, AtReplan
<1>2. /\ s.past \in Seq(PlanStep) /\ s.plan \in Seq(PlanStep) /\ s.iter \in Nat
      /\ adopted \in Seq(Seq(PlanStep))
  BY DEF PlanParts, PlanTyped, PlanShape
<1>3. /\ adopted[s.iter + 1] # << >> /\ adopted[s.iter + 1] \in Seq(PlanStep)
      /\ s.past[s.iter + 1] = Head(adopted[s.iter + 1])
  <2>1. s.iter + 1 \in DOMAIN s.past /\ s.iter + 1 \in DOMAIN adopted
    BY <1>1, <1>2
  <2> QED BY <1>2, <2>1 DEF PlanParts, Followed
<1>4. asked'.past = s.past /\ asked'.plan = s.plan
      /\ asked' \in [past : Seq(PlanStep), plan : Seq(PlanStep)]
  BY <1>2 DEF Payload
<1>5. <<LastOf(s.past)>> \o s.plan = adopted[s.iter + 1]
  <2>1. LastOf(s.past) = Head(adopted[s.iter + 1])
    BY <1>1, <1>3 DEF LastOf
  <2> QED BY <1>1, <1>3, <2>1, Splits
<1>6. Len(s.past) \in 1 .. Len(adopted) /\ Len(s.past) \in 1 .. Len(adopted')
  BY <1>1, <1>2
<1>7. adopted'[Len(s.past)] = adopted[s.iter + 1]
  BY <1>1, <1>6
<1> QED
  BY <1>4, <1>5, <1>6, <1>7 DEF ShownToReplanner

LEMMA PlanReplans ==
  ASSUME PlanParts, ReplanNode
  PROVE  PlanParts'
<1>1. /\ UNCHANGED <<cfg, out, runs>>
      /\ pc = "top" /\ next = "replan" /\ asked' = Payload(s)
  BY DEF ReplanNode, At, executor
<1>2. /\ runs # 0 /\ Len(adopted) = s.iter + 1 /\ Len(s.past) = s.iter + 1
      /\ s.iter < MaxPlanIterations /\ step = 2 + 2 * s.iter
  BY <1>1 DEF PlanParts, PlanPlaced, Planless, AtReplan
<1>3. CASE UNCHANGED <<s, adopted, step>> /\ pc' = "idle" /\ ret' \notin {"nil", "max steps"}
  <2>1. Len(adopted') \in Nat /\ Len(adopted') >= Len(adopted)
    <3>1. adopted \in Seq(Seq(PlanStep))
      BY DEF PlanParts, PlanTyped, PlanShape
    <3>2. Len(adopted) \in Nat
      BY <3>1
    <3>3. Len(adopted') = Len(adopted)
      BY <1>3
    <3> QED BY <3>2, <3>3
  <2>2. ShownToReplanner'
    BY <1>1, <1>3, <2>1, PlanIsShown
  <2> QED BY <1>1, <1>2, <1>3, <2>2, PlanBreaksOff
<1>4. ASSUME NEW plan \in Plans, NEW final \in {Empty, Answer},
             s' = [s EXCEPT !.iter = @ + 1, !.final = final,
                            !.plan = IF final = Empty THEN plan ELSE << >>],
             adopted' = IF final = Empty THEN Append(adopted, plan) ELSE adopted,
             Follow("replan", PlanRouter(s'))
      PROVE  PlanParts'
  <2>0. plan \in Seq(PlanStep)
    BY PlansAreLists
  <2>1. /\ s \in PlanShape
        /\ s.past \in Seq(PlanStep) /\ s.iter \in Nat /\ step \in Nat
        /\ adopted \in Seq(Seq(PlanStep))
    BY DEF PlanParts, PlanTyped, PlanShape
  <2>2. /\ s'.past = s.past /\ s'.iter = s.iter + 1 /\ s'.final = final
        /\ s'.plan = IF final = Empty THEN plan ELSE << >>
    BY <1>4, <2>1
  <2>3. s' \in PlanShape
    <3>1. s'.plan \in Seq(PlanStep)
      BY <2>0, <2>2
    <3>2. s' = [input |-> s.input, plan |-> s'.plan, past |-> s.past, final |-> final,
                iter |-> s.iter + 1]
      BY <1>4, <2>1, <2>2 DEF PlanShape
    <3>3. s.input \in {Empty, Answer} /\ s.iter + 1 \in Nat
      BY <2>1 DEF PlanShape
    <3> QED BY <2>1, <3>1, <3>2, <3>3 DEF PlanShape
  <2>4. /\ adopted' \in Seq(Seq(PlanStep)) /\ Len(adopted') >= Len(adopted)
        /\ \A i \in 1 .. Len(adopted) : adopted'[i] = adopted[i]
        /\ final = Empty => Len(adopted') = s.iter + 2 /\ adopted'[s.iter + 2] = plan
    <3>1. CASE final = Empty
      BY <1>2, <1>4, <2>0, <2>1, <3>1, Adopts DEF PlanParts
    <3>2. CASE final # Empty
      BY <1>4, <2>1, <3>2
    <3> QED BY <3>1, <3>2
  <2>5. GoesTo(PlanRouter(s')) \/ Breaks
    BY <1>4, PlanCfg, PlanEdges, FollowRoutes DEF PlanParts
  <2>6. PlanTyped'
    BY <1>1, <2>1, <2>3, <2>4, <2>5 DEF PlanParts, PlanTyped, PlanShape, GoesTo, Breaks
  <2>7. Followed'
    <3>1. ASSUME NEW i \in DOMAIN s.past
          PROVE  adopted'[i] # << >> /\ s.past[i] = Head(adopted'[i])
      <4>1. i \in 1 .. Len(adopted)
        <5>1. DOMAIN s.past = 1 .. Len(s.past)
          BY <2>1
        <5> QED BY <1>2, <5>1
      <4> QED BY <2>4, <4>1 DEF PlanParts, Followed
    <3>2. s'.past = s.past /\ Len(s.past) = s'.iter
      BY <1>2, <2>1, <2>2
    <3>3. Len(s.past) <= MaxPlanIterations /\ Len(s.past) <= Len(adopted')
      BY <1>2, <2>1, <2>4, PlanConstants
    <3> QED BY <3>1, <3>2, <3>3 DEF Followed
  <2>8. ShownToReplanner'
    <3>1. Len(adopted') \in Nat
      BY <2>4
    <3> QED BY <1>1, <2>4, <3>1, PlanIsShown
  <2>9. PlanPlaced'
    <3>0. ret # "max steps"
      BY DEF PlanParts, PlanPlaced
    <3>1. CASE Breaks
      BY <1>1, <1>2, <3>1
         DEF PlanPlaced, Planless, AtPlan, AtExecute, AtReplan, AtPlanEnd, Breaks, RouteErrors
    <3>2. CASE GoesTo(END) /\ CutAtTheCap'
      BY <1>1, <1>2, <3>0, <3>2, PlanNames
         DEF PlanPlaced, Planless, AtPlan, AtExecute, AtReplan, AtPlanEnd, GoesTo
    <3>3. CASE GoesTo("execute") /\ final = Empty /\ s'.iter < MaxPlanIterations
      <4>1. pc' = "top" /\ next' = "execute" /\ step' = 1 + 2 * s'.iter /\ ret' # "max steps"
        <5>1. pc' = "top" /\ next' = "execute" /\ step' = step + 1 /\ ret' = ret
          BY <3>3 DEF GoesTo
        <5>2. step' = 1 + 2 * s'.iter
          BY <1>2, <2>1, <2>2, <5>1
        <5> QED BY <3>0, <5>1, <5>2
      <4>2. /\ Len(adopted') = s'.iter + 1 /\ Len(s'.past) = s'.iter
            /\ s'.plan = adopted'[s'.iter + 1]
        <5>1. s'.iter = s.iter + 1 /\ (s.iter + 1) + 1 = s.iter + 2
          BY <2>1, <2>2
        <5>2. Len(adopted') = s.iter + 2 /\ adopted'[s.iter + 2] = s'.plan
          BY <2>2, <2>4, <3>3
        <5>3. Len(s'.past) = s.iter + 1
          BY <1>2, <2>2
        <5> QED BY <5>1, <5>2, <5>3
      <4> QED BY <1>1, <1>2, <3>3, <4>1, <4>2, PlanNames
              DEF PlanPlaced, Planless, AtPlan, AtExecute, AtReplan, AtPlanEnd
    <3> QED BY <1>2, <2>1, <2>2, <2>5, <3>1, <3>2, <3>3, PlanConstants
            DEF PlanRouter, CutAtTheCap
  <2> QED BY <2>6, <2>7, <2>8, <2>9 DEF PlanParts
<1> QED
  BY <1>3, <1>4 DEF ReplanNode, NodeFails, Return

LEMMA PlanLoops ==
  ASSUME PlanParts, Loop, UNCHANGED adopted
  PROVE  PlanParts'
<1>1. /\ UNCHANGED <<cfg, s, next, step, pending, asked, turns, runs, out>>
      /\ pc = "top" /\ pc' = "idle"
      /\ \/ next = END /\ ret' = "nil"
         \/ ret' = "cancelled"
         \/ next # END /\ step >= cfg.maxSteps /\ ret' = "max steps"
  BY LoopSteps DEF PlanParts, PlanTyped, PlanShape
<1>2. ~(next # END /\ step >= cfg.maxSteps)
  <2>1. /\ s.iter \in Nat /\ step \in Nat /\ cfg.maxSteps = MaxPlanIterations * 4 + 6
        /\ MaxPlanIterations \in Nat
    BY PlanCfg, PlanConstants DEF PlanParts, PlanTyped, PlanShape
  <2>2. next # END =>
          step = 0 \/ (s.iter < MaxPlanIterations /\ step \in {1 + 2 * s.iter, 2 + 2 * s.iter})
    BY <1>1 DEF PlanParts, PlanPlaced, AtPlan, AtExecute, AtReplan
  <2> QED BY <2>1, <2>2
<1>3. runs' # 0 /\ ret' # "max steps" /\ (ret' = "nil" => CutAtTheCap)
  BY <1>1, <1>2 DEF PlanParts, PlanPlaced, Planless, AtPlanEnd
<1>4. ShownToReplanner'
  BY <1>1 DEF PlanParts, ShownToReplanner
<1> QED
  BY <1>1, <1>3, <1>4, PlanBreaksOff

LEMMA PlanInvHolds == Init => PlanInv
<1> SUFFICES ASSUME Init, cfg.kind = "plan" PROVE PlanParts
  BY DEF PlanInv, PlanParts
<1>1. cfg \in PlanConfigs
  BY DEF Init, ReActConfigs, SupervisorConfigs, SwarmConfigs
<1>2. /\ s \in PlanSeeds /\ pc = "idle" /\ step = 0 /\ ret = "edited"
      /\ out = << >> /\ asked = << >> /\ runs = 0 /\ adopted = << >>
  BY DEF Init, Seeds
<1>3. PlanTyped
  <2>1. << >> \in Seq(PlanStep) /\ << >> \in Seq(Seq(PlanStep))
    OBVIOUS
  <2>2. s \in PlanShape
    <3>1. PICK i \in {Empty, Answer} :
            s = [input |-> i, plan |-> << >>, past |-> << >>, final |-> Empty, iter |-> 0]
      BY <1>2 DEF PlanSeeds
    <3> QED BY <2>1, <3>1 DEF PlanShape
  <2> QED BY <1>1, <1>2, <2>1, <2>2 DEF PlanTyped
<1>4. Followed
  BY <1>2, PlanConstants DEF Followed, PlanSeeds
<1>5. ShownToReplanner
  BY <1>2 DEF ShownToReplanner
<1>6. PlanPlaced
  BY <1>2 DEF PlanPlaced, Planless, AtPlan, AtExecute, AtReplan, AtPlanEnd, PlanSeeds
<1> QED
  BY <1>3, <1>4, <1>5, <1>6 DEF PlanParts

LEMMA PlanInvKept == PlanInv /\ [Next]_vars => PlanInv'
<1> SUFFICES ASSUME PlanInv, [Next]_vars, cfg'.kind = "plan" PROVE PlanParts'
  BY DEF PlanInv, PlanParts
<1>0. cfg' = cfg
  BY ConfigIsFixed
<1>1. PlanParts
  BY <1>0 DEF PlanInv, PlanParts
<1>2. CASE UNCHANGED vars
  BY <1>1, <1>2 DEF vars, agentVars, graphVars, executor, history, PlanParts, PlanTyped,
     Followed, ShownToReplanner, PlanPlaced, Planless, AtPlan, AtExecute, AtReplan, AtPlanEnd,
     CutAtTheCap
<1>3. CASE Loop /\ UNCHANGED adopted
  BY <1>1, <1>3, PlanLoops
<1>4. CASE PlanNext
  BY <1>1, <1>4, PlanStarts, PlanNodeKeeps, PlanExecutes, PlanReplans DEF PlanNext
<1> QED
  BY <1>0, <1>2, <1>3, <1>4 DEF Next

(***************************************************************************)
(* The supervisor: hops and history advance in turn.                       *)
(***************************************************************************)
SupervisorShape ==
  [history : Seq([worker : Worker, task : Nat]), final : {Empty, Final},
   hops : Nat, next : Worker \cup {Empty}, task : Nat]

SupervisorTyped ==
  /\ ValidWorkers /\ cfg \in SupervisorConfigs
  /\ s \in SupervisorShape
  /\ step \in Nat /\ runs \in Nat
  /\ pc \in {"idle", "top"} /\ out = << >>

Trapped == s.hops = MaxHops /\ s.final = Empty /\ Len(s.history) = MaxHops - 1

AnsweredAt == s.final # Empty /\ s.hops = Len(s.history) + 1

SupervisorFresh ==
  runs = 0 => /\ pc = "idle" /\ ret = "edited"
              /\ s.history = << >> /\ s.final = Empty /\ s.hops = 0

AtSupervisor ==
  pc = "top" /\ next = "supervisor" =>
    /\ s.hops = Len(s.history) /\ s.hops < MaxHops /\ s.final = Empty
    /\ step = 2 * s.hops

AtWorker ==
  pc = "top" /\ next \in Worker =>
    /\ s.hops = Len(s.history) + 1 /\ s.hops < MaxHops /\ s.final = Empty
    /\ s.task = s.hops
    /\ step = 2 * s.hops - 1

SupervisorEnds ==
  /\ pc = "top" /\ next = "trap" => Trapped /\ step <= 2 * MaxHops
  /\ pc = "top" /\ next = END => AnsweredAt
  /\ pc = "idle" /\ ret = "nil" => AnsweredAt
  /\ ret = "max hops" => Trapped

SupervisorPlaced ==
  /\ pc = "top" => ret = "edited" /\ next \in {"supervisor", "trap", END} \cup Worker
  /\ SupervisorFresh /\ AtSupervisor /\ AtWorker /\ SupervisorEnds
  /\ ret # "max steps"

SupervisorCounted ==
  /\ s.hops <= MaxHops /\ Len(s.history) <= MaxHops - 1
  /\ \A i \in DOMAIN s.history : s.history[i].task = i

SupervisorInv ==
  cfg.kind = "supervisor" => SupervisorTyped /\ SupervisorPlaced /\ SupervisorCounted

SupervisorParts == SupervisorTyped /\ SupervisorPlaced /\ SupervisorCounted

LEMMA SupervisorCfg ==
  ASSUME SupervisorTyped
  PROVE  /\ cfg.kind = "supervisor"
         /\ cfg.graph = SupervisorGraph /\ cfg.maxSteps = MaxHops * 3 + 4
         /\ cfg.maxRuns = 1
<1> HIDE DEF SupervisorGraph
<1> QED
  BY DEF SupervisorTyped, SupervisorConfigs

LEMMA SupervisorNames ==
  ASSUME ValidWorkers
  PROVE  /\ "supervisor" \notin Worker \cup {START, END, Empty, "trap"}
         /\ "trap" \notin Worker \cup {START, END, Empty}
         /\ END \notin Worker /\ Empty \notin Worker
BY NamesDistinct, HopsConstant DEF ValidWorkers

(* The run breaks off or ends, and says how.                               *)
LEMMA SupervisorBreaksOff ==
  ASSUME SupervisorParts, runs' # 0, UNCHANGED <<cfg, s, step, runs, out>>,
         pc' = "idle", ret' # "max steps",
         ret' = "nil" => AnsweredAt, ret' = "max hops" => Trapped
  PROVE  SupervisorParts'
<1>1. SupervisorTyped'
  BY DEF SupervisorParts, SupervisorTyped
<1>2. SupervisorCounted'
  BY DEF SupervisorParts, SupervisorCounted
<1>3. SupervisorPlaced'
  <2>1. AnsweredAt' = AnsweredAt /\ Trapped' = Trapped
    BY DEF AnsweredAt, Trapped
  <2> QED
    BY <2>1 DEF SupervisorPlaced, SupervisorFresh, AtSupervisor, AtWorker, SupervisorEnds
<1> QED
  BY <1>1, <1>2, <1>3 DEF SupervisorParts

LEMMA SupervisorStarts ==
  ASSUME SupervisorParts, SupervisorStart
  PROVE  SupervisorParts'
<1>1. /\ UNCHANGED <<cfg, s, out, ret>>
      /\ pc = "idle" /\ runs < cfg.maxRuns /\ runs' = runs + 1
      /\ pc' = "top" /\ next' = cfg.graph.entry /\ step' = 0
  BY DEF SupervisorStart, Begin, executor
<1>2. ValidWorkers /\ runs \in Nat
  BY DEF SupervisorParts, SupervisorTyped
<1>3. runs = 0 /\ next' = "supervisor" /\ runs' # 0 /\ runs' \in Nat
  BY <1>1, <1>2, SupervisorCfg, SupervisorEdges DEF SupervisorParts
<1>4. ret = "edited" /\ s.history = << >> /\ s.final = Empty /\ s.hops = 0
  BY <1>3 DEF SupervisorParts, SupervisorPlaced, SupervisorFresh
<1>5. SupervisorTyped'
  BY <1>1, <1>3 DEF SupervisorParts, SupervisorTyped
<1>6. SupervisorCounted'
  BY <1>1 DEF SupervisorParts, SupervisorCounted
<1>7. SupervisorPlaced'
  <2>1. Len(s.history) = 0 /\ 0 < MaxHops /\ 2 * s.hops = 0
    BY <1>4, HopsConstant
  <2>2. AtSupervisor'
    BY <1>1, <1>4, <2>1 DEF AtSupervisor
  <2>3. AtWorker' /\ SupervisorEnds' /\ SupervisorFresh'
    BY <1>1, <1>2, <1>3, <1>4, SupervisorNames
       DEF AtWorker, SupervisorEnds, SupervisorFresh
  <2> QED BY <1>1, <1>3, <1>4, <2>2, <2>3 DEF SupervisorPlaced
<1> QED
  BY <1>5, <1>6, <1>7 DEF SupervisorParts

LEMMA SupervisorDecides ==
  ASSUME SupervisorParts, SupervisorNode
  PROVE  SupervisorParts'
<1>1. UNCHANGED <<cfg, out, runs>> /\ pc = "top" /\ next = "supervisor"
  BY DEF SupervisorNode, At, executor, history
<1>2. /\ runs # 0 /\ ret = "edited"
      /\ s.hops = Len(s.history) /\ s.hops < MaxHops /\ s.final = Empty
      /\ step = 2 * s.hops
  BY <1>1 DEF SupervisorParts, SupervisorPlaced, SupervisorFresh, AtSupervisor
<1>3. ValidWorkers /\ s \in SupervisorShape /\ step \in Nat /\ s.hops \in Nat
      /\ s.history \in Seq([worker : Worker, task : Nat])
  BY DEF SupervisorParts, SupervisorTyped, SupervisorShape
<1>4. CASE /\ UNCHANGED <<s, step>> /\ pc' = "idle"
           /\ ret' \in {"model", "malformed", "unknown worker"}
  BY <1>1, <1>2, <1>4, SupervisorBreaksOff
<1>5. ASSUME NEW worker \in Worker \cup {Empty},
             s' = IF worker = Empty
                  THEN [s EXCEPT !.hops = @ + 1, !.final = Final,
                                 !.next = Empty, !.task = 0]
                  ELSE [s EXCEPT !.hops = @ + 1,
                                 !.next = worker, !.task = s.hops + 1],
             Follow("supervisor", SupervisorRouter(s'))
      PROVE  SupervisorParts'
  <2>1. /\ s'.history = s.history /\ s'.hops = s.hops + 1
        /\ s'.final = IF worker = Empty THEN Final ELSE Empty
        /\ s'.next = worker
        /\ worker # Empty => s'.task = s.hops + 1
        /\ s' \in SupervisorShape
    <3>1. CASE worker = Empty
      <4>1. s' = [history |-> s.history, final |-> Final, hops |-> s.hops + 1,
                  next |-> Empty, task |-> 0]
        BY <1>3, <1>5, <3>1 DEF SupervisorShape
      <4> QED BY <1>2, <1>3, <3>1, <4>1 DEF SupervisorShape
    <3>2. CASE worker # Empty
      <4>1. s' = [history |-> s.history, final |-> Empty, hops |-> s.hops + 1,
                  next |-> worker, task |-> s.hops + 1]
        BY <1>2, <1>3, <1>5, <3>2 DEF SupervisorShape
      <4> QED BY <1>2, <1>3, <3>2, <4>1 DEF SupervisorShape
    <3> QED BY <3>1, <3>2
  <2>2. GoesTo(SupervisorRouter(s')) \/ Breaks
    BY <1>3, <1>5, SupervisorCfg, SupervisorEdges, FollowRoutes DEF SupervisorParts
  <2>3. SupervisorTyped'
    BY <1>1, <1>3, <2>1, <2>2
       DEF SupervisorParts, SupervisorTyped, SupervisorShape, GoesTo, Breaks
  <2>4. SupervisorCounted'
    BY <1>2, <1>3, <2>1, HopsConstant DEF SupervisorParts, SupervisorCounted
  <2>5. SupervisorFresh'
    BY <1>1, <1>2 DEF SupervisorFresh
  <2>6. CASE Breaks
    <3>1. pc' = "idle" /\ ret' \in RouteErrors
      BY <2>6 DEF Breaks
    <3>2. SupervisorPlaced'
      BY <2>5, <3>1 DEF SupervisorPlaced, AtSupervisor, AtWorker, SupervisorEnds, RouteErrors
    <3> QED BY <2>3, <2>4, <3>2 DEF SupervisorParts
  <2>7. CASE GoesTo(SupervisorRouter(s'))
    <3>1. /\ pc' = "top" /\ next' = SupervisorRouter(s') /\ step' = step + 1
          /\ ret' = "edited"
      BY <1>2, <2>7 DEF GoesTo
    <3>2. CASE worker = Empty
      <4>1. s'.final # Empty /\ next' = END
        BY <2>1, <3>1, <3>2, HopsConstant DEF SupervisorRouter
      <4>2. AnsweredAt'
        BY <1>2, <2>1, <4>1 DEF AnsweredAt
      <4>3. AtSupervisor' /\ AtWorker' /\ SupervisorEnds'
        BY <1>3, <3>1, <4>1, <4>2, SupervisorNames
           DEF AtSupervisor, AtWorker, SupervisorEnds
      <4> QED BY <2>3, <2>4, <2>5, <3>1, <4>1, <4>3 DEF SupervisorPlaced, SupervisorParts
    <3>3. CASE worker # Empty /\ s'.hops >= MaxHops
      <4>1. next' = "trap"
        BY <2>1, <3>1, <3>3 DEF SupervisorRouter
      <4>2. Trapped'
        BY <1>2, <1>3, <2>1, <3>3, HopsConstant DEF Trapped
      <4>3. step' <= 2 * MaxHops
        BY <1>2, <1>3, <3>1, HopsConstant
      <4>4. AtSupervisor' /\ AtWorker' /\ SupervisorEnds'
        BY <1>3, <3>1, <4>1, <4>2, <4>3, SupervisorNames
           DEF AtSupervisor, AtWorker, SupervisorEnds
      <4> QED BY <2>3, <2>4, <2>5, <3>1, <4>1, <4>4 DEF SupervisorPlaced, SupervisorParts
    <3>4. CASE worker # Empty /\ s'.hops < MaxHops
      <4>1. next' = worker /\ worker \in Worker
        <5>1. ~(s'.hops >= MaxHops)
          BY <1>3, <2>1, <3>4, HopsConstant
        <5> QED BY <2>1, <3>1, <3>4, <5>1 DEF SupervisorRouter
      <4>2. step' = 2 * s'.hops - 1
        BY <1>2, <1>3, <2>1, <3>1
      <4>3. AtWorker'
        BY <1>2, <1>3, <2>1, <3>4, <4>2 DEF AtWorker
      <4>4. AtSupervisor' /\ SupervisorEnds'
        BY <1>3, <3>1, <4>1, SupervisorNames DEF AtSupervisor, SupervisorEnds
      <4> QED BY <2>3, <2>4, <2>5, <3>1, <4>1, <4>3, <4>4 DEF SupervisorPlaced, SupervisorParts
    <3> QED BY <1>3, <2>1, <3>2, <3>3, <3>4, HopsConstant
  <2> QED BY <2>2, <2>6, <2>7
<1> QED
  BY <1>4, <1>5 DEF SupervisorNode, NodeFails, Return

LEMMA SupervisorWorks ==
  ASSUME SupervisorParts, NEW worker \in Worker, WorkerNode(worker)
  PROVE  SupervisorParts'
<1>1. UNCHANGED <<cfg, out, runs>> /\ pc = "top" /\ next = worker
  BY DEF WorkerNode, At, executor, history
<1>2. /\ runs # 0 /\ ret = "edited"
      /\ s.hops = Len(s.history) + 1 /\ s.hops < MaxHops /\ s.final = Empty
      /\ s.task = s.hops
      /\ step = 2 * s.hops - 1
  BY <1>1 DEF SupervisorParts, SupervisorPlaced, SupervisorFresh, AtWorker
<1>3. /\ ValidWorkers /\ s \in SupervisorShape /\ step \in Nat /\ s.hops \in Nat
      /\ s.history \in Seq([worker : Worker, task : Nat]) /\ s.task \in Nat
  BY DEF SupervisorParts, SupervisorTyped, SupervisorShape
<1>4. CASE UNCHANGED <<s, step>> /\ pc' = "idle" /\ ret' = "worker"
  BY <1>1, <1>2, <1>4, SupervisorBreaksOff
<1>5. ASSUME s' = [s EXCEPT !.history = Append(@, [worker |-> worker, task |-> s.task]),
                            !.next = Empty, !.task = 0],
             Follow(worker, Empty)
      PROVE  SupervisorParts'
  <2> DEFINE e == [worker |-> worker, task |-> s.task]
  <2>1. e \in [worker : Worker, task : Nat]
    BY <1>3
  <2>2. /\ Append(s.history, e) \in Seq([worker : Worker, task : Nat])
        /\ Len(Append(s.history, e)) = Len(s.history) + 1
        /\ Append(s.history, e)[Len(s.history) + 1] = e
        /\ \A i \in 1 .. Len(s.history) : Append(s.history, e)[i] = s.history[i]
    <3> HIDE DEF e
    <3> QED BY <1>3, <2>1
  <2>3. /\ s'.history = Append(s.history, e) /\ s'.hops = s.hops /\ s'.final = Empty
        /\ s'.next = Empty /\ s'.task = 0
    BY <1>2, <1>3, <1>5 DEF SupervisorShape
  <2>4. s' \in SupervisorShape
    <3>1. s' = [history |-> Append(s.history, e), final |-> s.final, hops |-> s.hops,
                next |-> Empty, task |-> 0]
      BY <1>3, <1>5 DEF SupervisorShape
    <3> HIDE DEF e
    <3> QED BY <1>2, <1>3, <2>2, <3>1 DEF SupervisorShape
  <2>5. GoesTo("supervisor")
    BY <1>3, <1>5, SupervisorCfg, SupervisorEdges, FollowEdges DEF SupervisorParts
  <2>6. /\ pc' = "top" /\ next' = "supervisor" /\ step' = step + 1 /\ ret' = "edited"
    BY <1>2, <2>5 DEF GoesTo
  <2>7. SupervisorTyped'
    BY <1>1, <1>3, <2>4, <2>6 DEF SupervisorParts, SupervisorTyped, SupervisorShape
  <2>8. SupervisorCounted'
    <3>1. ASSUME NEW i \in 1 .. Len(s.history) + 1
          PROVE  s'.history[i].task = i
      <4>1. CASE i = Len(s.history) + 1
        BY <1>2, <2>2, <2>3, <4>1
      <4>2. CASE i \in 1 .. Len(s.history)
        BY <1>3, <2>2, <2>3, <4>2 DEF SupervisorParts, SupervisorCounted
      <4> QED BY <1>3, <4>1, <4>2
    <3>2. DOMAIN s'.history = 1 .. Len(s.history) + 1
      BY <2>2, <2>3
    <3>3. s'.hops <= MaxHops /\ Len(s'.history) <= MaxHops - 1
      BY <1>2, <1>3, <2>2, <2>3, HopsConstant
    <3> QED BY <3>1, <3>2, <3>3 DEF SupervisorCounted
  <2>9. SupervisorPlaced'
    <3>1. step' = 2 * s'.hops
      BY <1>2, <1>3, <2>3, <2>6
    <3>2. s'.hops = Len(s'.history) /\ s'.hops < MaxHops
      BY <1>2, <1>3, <2>2, <2>3
    <3>3. AtSupervisor'
      BY <2>3, <3>1, <3>2 DEF AtSupervisor
    <3>4. AtWorker' /\ SupervisorEnds' /\ SupervisorFresh'
      BY <1>1, <1>2, <1>3, <2>6, SupervisorNames DEF AtWorker, SupervisorEnds, SupervisorFresh
    <3> QED BY <2>6, <3>3, <3>4 DEF SupervisorPlaced
  <2> QED BY <2>7, <2>8, <2>9 DEF SupervisorParts
<1> QED
  BY <1>4, <1>5 DEF WorkerNode, NodeFails, Return

LEMMA SupervisorTraps ==
  ASSUME SupervisorParts, TrapNode
  PROVE  SupervisorParts'
<1>1. /\ UNCHANGED <<cfg, out, runs, s, step>> /\ pc = "top" /\ next = "trap"
      /\ pc' = "idle" /\ ret' = "max hops"
  BY SupervisorCfg DEF SupervisorParts, TrapNode, At, NodeFails, Return, executor, history
<1>2. runs # 0 /\ Trapped
  BY <1>1 DEF SupervisorParts, SupervisorPlaced, SupervisorFresh, SupervisorEnds
<1> QED
  BY <1>1, <1>2, SupervisorBreaksOff

LEMMA SupervisorLoops ==
  ASSUME SupervisorParts, Loop
  PROVE  SupervisorParts'
<1>1. /\ UNCHANGED <<cfg, s, next, step, pending, asked, turns, runs, out>>
      /\ pc = "top" /\ pc' = "idle"
      /\ \/ next = END /\ ret' = "nil"
         \/ ret' = "cancelled"
         \/ next # END /\ step >= cfg.maxSteps /\ ret' = "max steps"
  BY LoopSteps DEF SupervisorParts, SupervisorTyped
<1>2. ~(next # END /\ step >= cfg.maxSteps)
  <2>1. /\ s.hops \in Nat /\ step \in Nat /\ cfg.maxSteps = MaxHops * 3 + 4
        /\ MaxHops \in Nat
    BY SupervisorCfg, HopsConstant DEF SupervisorParts, SupervisorTyped, SupervisorShape
  <2>2. next # END =>
          \/ s.hops < MaxHops /\ step \in {2 * s.hops, 2 * s.hops - 1}
          \/ step <= 2 * MaxHops
    BY <1>1
       DEF SupervisorParts, SupervisorPlaced, AtSupervisor, AtWorker, SupervisorEnds
  <2> QED BY <2>1, <2>2
<1>3. runs' # 0 /\ ret' # "max steps" /\ (ret' = "nil" => AnsweredAt)
  BY <1>1, <1>2 DEF SupervisorParts, SupervisorPlaced, SupervisorFresh, SupervisorEnds
<1> QED
  BY <1>1, <1>3, SupervisorBreaksOff

LEMMA SupervisorInvHolds == Init => SupervisorInv
<1> SUFFICES ASSUME Init, cfg.kind = "supervisor" PROVE SupervisorParts
  BY DEF SupervisorInv, SupervisorParts
<1>1. cfg \in SupervisorConfigs
  BY DEF Init, ReActConfigs, PlanConfigs, SwarmConfigs
<1>2. /\ s = SupervisorSeed /\ pc = "idle" /\ step = 0 /\ ret = "edited"
      /\ out = << >> /\ runs = 0
  BY DEF Init, Seeds
<1>3. SupervisorTyped
  <2>1. ValidWorkers
    BY <1>1 DEF SupervisorConfigs
  <2>2. << >> \in Seq([worker : Worker, task : Nat])
    OBVIOUS
  <2> QED BY <1>1, <1>2, <2>1, <2>2 DEF SupervisorTyped, SupervisorShape, SupervisorSeed
<1>4. SupervisorPlaced
  BY <1>2 DEF SupervisorPlaced, SupervisorFresh, AtSupervisor, AtWorker, SupervisorEnds,
     SupervisorSeed
<1>5. SupervisorCounted
  BY <1>2, HopsConstant DEF SupervisorCounted, SupervisorSeed
<1> QED
  BY <1>3, <1>4, <1>5 DEF SupervisorParts

LEMMA SupervisorInvKept == SupervisorInv /\ [Next]_vars => SupervisorInv'
<1> SUFFICES ASSUME SupervisorInv, [Next]_vars, cfg'.kind = "supervisor"
             PROVE  SupervisorParts'
  BY DEF SupervisorInv, SupervisorParts
<1>0. cfg' = cfg
  BY ConfigIsFixed
<1>1. SupervisorParts
  BY <1>0 DEF SupervisorInv, SupervisorParts
<1>2. CASE UNCHANGED vars
  BY <1>1, <1>2 DEF vars, agentVars, graphVars, executor, history, SupervisorParts,
     SupervisorTyped, SupervisorPlaced, SupervisorFresh, AtSupervisor, AtWorker,
     SupervisorEnds, SupervisorCounted, Trapped, AnsweredAt
<1>3. CASE Loop
  BY <1>1, <1>3, SupervisorLoops
<1>4. CASE SupervisorNext
  BY <1>1, <1>4, SupervisorStarts, SupervisorDecides, SupervisorWorks, SupervisorTraps
     DEF SupervisorNext
<1> QED
  BY <1>0, <1>2, <1>3, <1>4 DEF Next

(***************************************************************************)
(* The swarm: the state of a run changes where an agent's node returns,    *)
(* and until then the agent works on its copy, one hop ahead.              *)
(***************************************************************************)
PeerCall == [id : Nat \X Nat, to : {Tool} \cup DOMAIN Agents]

PeerMessage ==
  [role : {"system"}] \cup [role : {"user"}, text : {"hello"}]
    \cup [role : {"assistant"}, calls : Seq(PeerCall)]
    \cup [role : {"tool"}, answers : Nat \X Nat]

SwarmState ==
  [messages : Seq(PeerMessage), active : DOMAIN Agents \cup {Empty}, hops : Nat,
   final : {Empty, Final}]

SwarmTyped ==
  /\ ValidSwarm /\ cfg \in SwarmConfigs
  /\ s \in SwarmState /\ w \in SwarmState
  /\ turns \in Nat /\ step \in Nat /\ runs \in Nat
  /\ pc \in {"idle", "top", "agent", "calling"}
  /\ pending \in Seq(PeerCall) /\ out \in [DOMAIN pending -> Slot]

(* A handoff to the active agent is the last turn of a model.              *)
HandedOver ==
  /\ s.hops = MaxHops /\ s.final = Empty /\ s.active \in DOMAIN Agents
  /\ \E i \in DOMAIN s.messages : \E c \in ToSet(CallsOf(s.messages[i])) :
       /\ i + Len(CallsOf(s.messages[i])) = Len(s.messages)
       /\ c.to = s.active

SwarmAnswered == LastOf(s.messages) = Assistant(<< >>) /\ s.active = Empty

SwarmFresh ==
  runs = 0 => /\ pc = "idle" /\ ret = "edited"
              /\ s.active = First /\ s.final = Empty /\ s.hops = 0

AtAgent ==
  pc # "idle" /\ next \in DOMAIN Agents =>
    s.active = next /\ s.final = Empty /\ s.hops < MaxHops /\ step = s.hops

InAgent ==
  /\ pc \in {"agent", "calling"} =>
       next \in DOMAIN Agents /\ w.hops = s.hops + 1 /\ w.final = Empty
  /\ pc = "calling" => w.messages # << >>

SwarmEnds ==
  /\ pc = "top" /\ next = "trap" => HandedOver /\ step <= MaxHops
  /\ pc = "top" /\ next = END => SwarmAnswered
  /\ pc = "idle" /\ ret = "nil" => SwarmAnswered
  /\ ret = "max hops" => HandedOver

SwarmPlaced ==
  /\ pc # "idle" => ret = "edited"
  /\ pc = "top" => next \in {"trap", END} \cup DOMAIN Agents
  /\ SwarmFresh /\ AtAgent /\ InAgent /\ SwarmEnds
  /\ ret \notin {"max steps", "unknown target"}
  /\ s.hops <= MaxHops

SwarmInv == cfg.kind = "swarm" => SwarmTyped /\ SwarmPlaced

SwarmParts == SwarmTyped /\ SwarmPlaced

LEMMA SwarmCfg ==
  ASSUME SwarmTyped
  PROVE  /\ cfg.kind = "swarm"
         /\ cfg.graph = SwarmGraph /\ cfg.maxSteps = MaxHops * 4 + 4
         /\ cfg.maxRuns = 1
<1> HIDE DEF SwarmGraph
<1> QED
  BY DEF SwarmTyped, SwarmConfigs

LEMMA SwarmNames ==
  ASSUME ValidSwarm
  PROVE  /\ "trap" \notin DOMAIN Agents \cup {START, END, Empty}
         /\ END \notin DOMAIN Agents /\ Empty \notin DOMAIN Agents
         /\ First \in DOMAIN Agents
         /\ \A a \in DOMAIN Agents : Agents[a].handoffs \subseteq DOMAIN Agents
BY NamesDistinct, HopsConstant DEF ValidSwarm

LEMMA TurnsAreLists ==
  ASSUME turns \in Nat, NEW calls \in Turns
  PROVE  calls \in Seq(PeerCall)
<1>1. PICK f \in [1 .. MaxCalls -> {Tool} \cup DOMAIN Agents], n \in 0 .. MaxCalls :
        calls = [i \in 1 .. n |-> [id |-> CallIds(n)[i], to |-> f[i]]]
  BY DEF Turns
<1>2. n \in Nat /\ MaxCalls \in Nat
  BY ReActConstants
<1>3. \A i \in 1 .. n : CallIds(n)[i] \in Nat \X Nat /\ f[i] \in {Tool} \cup DOMAIN Agents
  BY <1>2 DEF CallIds
<1>4. \A i \in 1 .. n : [id |-> CallIds(n)[i], to |-> f[i]] \in PeerCall
  BY <1>3 DEF PeerCall
<1> HIDE DEF PeerCall
<1> QED
  BY <1>1, <1>2, <1>4

(* Acknowledgements and rejections are tool messages.                      *)
LEMMA RepliesAreMessages ==
  ASSUME NEW calls \in Seq(PeerCall)
  PROVE  /\ [i \in DOMAIN calls |-> ToolResult(calls[i].id)] \in Seq(PeerMessage)
         /\ Len([i \in DOMAIN calls |-> ToolResult(calls[i].id)]) = Len(calls)
<1>1. DOMAIN calls = 1 .. Len(calls) /\ Len(calls) \in Nat
  OBVIOUS
<1>2. \A i \in 1 .. Len(calls) : ToolResult(calls[i].id) \in PeerMessage
  <2>1. TAKE i \in 1 .. Len(calls)
  <2>2. calls[i] \in PeerCall
    OBVIOUS
  <2>3. calls[i].id \in Nat \X Nat
    BY <2>2 DEF PeerCall
  <2> QED BY <2>3 DEF ToolResult, PeerMessage
<1> HIDE DEF PeerMessage
<1> QED
  BY <1>1, <1>2

(* Until the node returns, the state of the run and its place stay.        *)
LEMMA SwarmBreaksOff ==
  ASSUME SwarmParts, runs' # 0,
         UNCHANGED <<cfg, s, step, runs, pending, out, w>>, turns' \in Nat,
         pc' = "idle", ret' \notin {"max steps", "unknown target"},
         ret' = "nil" => SwarmAnswered, ret' = "max hops" => HandedOver
  PROVE  SwarmParts'
<1>1. SwarmTyped'
  BY DEF SwarmParts, SwarmTyped
<1>2. SwarmPlaced'
  <2>1. SwarmAnswered' = SwarmAnswered /\ HandedOver' = HandedOver
    BY DEF SwarmAnswered, HandedOver
  <2>2. s.hops <= MaxHops
    BY DEF SwarmParts, SwarmPlaced
  <2> QED
    BY <2>1, <2>2 DEF SwarmPlaced, SwarmFresh, AtAgent, InAgent, SwarmEnds
<1> QED
  BY <1>1, <1>2 DEF SwarmParts

LEMMA SwarmStarts ==
  ASSUME SwarmParts, SwarmStart
  PROVE  SwarmParts'
<1>1. /\ UNCHANGED <<cfg, s, pending, out, ret, turns, w>>
      /\ pc = "idle" /\ runs < cfg.maxRuns /\ runs' = runs + 1
      /\ pc' = "top" /\ next' = cfg.graph.entry /\ step' = 0
  BY DEF SwarmStart, Begin, executor, locals
<1>2. ValidSwarm /\ runs \in Nat
  BY DEF SwarmParts, SwarmTyped
<1>3. runs = 0 /\ next' = First /\ runs' # 0 /\ runs' \in Nat /\ First \in DOMAIN Agents
  BY <1>1, <1>2, SwarmCfg, SwarmEdges, SwarmNames DEF SwarmParts
<1>4. ret = "edited" /\ s.active = First /\ s.final = Empty /\ s.hops = 0
  BY <1>3 DEF SwarmParts, SwarmPlaced, SwarmFresh
<1>5. SwarmTyped'
  BY <1>1, <1>3 DEF SwarmParts, SwarmTyped
<1>6. SwarmPlaced'
  <2>1. AtAgent'
    BY <1>1, <1>3, <1>4, HopsConstant DEF AtAgent
  <2>2. InAgent' /\ SwarmEnds' /\ SwarmFresh'
    BY <1>1, <1>2, <1>3, <1>4, SwarmNames DEF InAgent, SwarmEnds, SwarmFresh
  <2>3. s'.hops <= MaxHops
    BY <1>1, <1>4, HopsConstant
  <2> QED BY <1>1, <1>3, <1>4, <2>1, <2>2, <2>3 DEF SwarmPlaced
<1> QED
  BY <1>5, <1>6 DEF SwarmParts

LEMMA SwarmActivates ==
  ASSUME SwarmParts, NEW a \in DOMAIN Agents, Activate(a)
  PROVE  SwarmParts'
<1>1. /\ UNCHANGED <<cfg, s, next, step, ret, pending, out, turns, runs>>
      /\ pc = "top" /\ next = a /\ pc' = "agent"
      /\ w' = [s EXCEPT !.hops = @ + 1]
  BY DEF Activate, At, executor, history
<1>2. /\ runs # 0 /\ ret = "edited" /\ s.hops <= MaxHops
      /\ s.active = next /\ s.final = Empty /\ s.hops < MaxHops /\ step = s.hops
  BY <1>1 DEF SwarmParts, SwarmPlaced, SwarmFresh, AtAgent
<1>3. s \in SwarmState
  BY DEF SwarmParts, SwarmTyped
<1>4. w' \in SwarmState /\ w'.hops = s.hops + 1 /\ w'.final = Empty
  BY <1>1, <1>2, <1>3 DEF SwarmState
<1>5. SwarmTyped'
  BY <1>1, <1>4 DEF SwarmParts, SwarmTyped
<1>6. SwarmPlaced'
  BY <1>1, <1>2, <1>4 DEF SwarmPlaced, SwarmFresh, AtAgent, InAgent, SwarmEnds
<1> QED
  BY <1>5, <1>6 DEF SwarmParts

(* What an agent hands back: an answer, or control to a peer it declared.  *)
LEMMA AgentReturned ==
  ASSUME SwarmParts, pc = "agent", NEW z \in SwarmState, AgentReturns(z),
         UNCHANGED <<cfg, runs>>, turns' \in Nat,
         z.hops = w.hops,
         \/ LastOf(z.messages) = Assistant(<< >>) /\ z.active = Empty
         \/ /\ z.final = Empty /\ z.active \in DOMAIN Agents
            /\ \E i \in DOMAIN z.messages : \E c \in ToSet(CallsOf(z.messages[i])) :
                 /\ i + Len(CallsOf(z.messages[i])) = Len(z.messages)
                 /\ c.to = z.active
  PROVE  SwarmParts'
<1>1. s' = z /\ UNCHANGED <<pending, out, w>> /\ Follow(next, SwarmRouter(z))
  BY DEF AgentReturns, executor, locals
<1>2. /\ runs # 0 /\ ret = "edited" /\ next \in DOMAIN Agents
      /\ z.hops = s.hops + 1 /\ s.hops < MaxHops /\ step = s.hops
  BY DEF SwarmParts, SwarmPlaced, SwarmFresh, AtAgent, InAgent
<1>3. ValidSwarm /\ s.hops \in Nat /\ step \in Nat /\ z.hops \in Nat
  BY DEF SwarmParts, SwarmTyped, SwarmState
<1>4. GoesTo(SwarmRouter(z)) \/ Breaks
  <2>1. next \notin DOMAIN cfg.graph.static /\ DOMAIN cfg.graph.branch = {}
    BY <1>2, <1>3, SwarmCfg, SwarmEdges DEF SwarmParts
  <2> QED BY <1>1, <2>1, FollowRoutes
<1>5. SwarmTyped'
  BY <1>1, <1>3, <1>4 DEF SwarmParts, SwarmTyped, GoesTo, Breaks
<1>6. s'.hops <= MaxHops
  BY <1>1, <1>2, <1>3, HopsConstant
<1>7. SwarmFresh'
  BY <1>2 DEF SwarmFresh
<1>8. CASE Breaks
  <2>1. pc' = "idle" /\ ret' \in RouteErrors
    BY <1>8 DEF Breaks
  <2>2. SwarmPlaced'
    BY <1>6, <1>7, <2>1 DEF SwarmPlaced, AtAgent, InAgent, SwarmEnds, RouteErrors
  <2> QED BY <1>5, <2>2 DEF SwarmParts
<1>9. CASE GoesTo(SwarmRouter(z))
  <2>1. /\ pc' = "top" /\ next' = SwarmRouter(z) /\ step' = s'.hops /\ ret' = "edited"
    <3>1. pc' = "top" /\ next' = SwarmRouter(z) /\ step' = step + 1 /\ ret' = ret
      BY <1>9 DEF GoesTo
    <3>2. step' = s'.hops
      BY <1>1, <1>2, <1>3, <3>1
    <3> QED BY <1>2, <3>1, <3>2
  <2>2. InAgent'
    BY <2>1 DEF InAgent
  <2>3. CASE LastOf(z.messages) = Assistant(<< >>) /\ z.active = Empty
    <3>1. next' = END
      BY <2>1, <2>3 DEF SwarmRouter
    <3>2. SwarmAnswered'
      BY <1>1, <2>3 DEF SwarmAnswered
    <3>3. AtAgent' /\ SwarmEnds'
      BY <1>3, <2>1, <3>1, <3>2, SwarmNames DEF AtAgent, SwarmEnds
    <3> QED BY <1>5, <1>6, <1>7, <2>1, <2>2, <3>1, <3>3 DEF SwarmPlaced, SwarmParts
  <2>4. CASE /\ z.final = Empty /\ z.active \in DOMAIN Agents
             /\ \E i \in DOMAIN z.messages : \E c \in ToSet(CallsOf(z.messages[i])) :
                  /\ i + Len(CallsOf(z.messages[i])) = Len(z.messages)
                  /\ c.to = z.active
    <3>1. z.active # Empty
      BY <1>3, <2>4, SwarmNames
    <3>2. CASE z.hops >= MaxHops
      <4>1. next' = "trap"
        BY <2>1, <2>4, <3>1, <3>2 DEF SwarmRouter
      <4>2. s'.hops = MaxHops
        BY <1>1, <1>3, <1>6, <3>2, HopsConstant
      <4>3. HandedOver'
        BY <1>1, <1>5, <2>4, <4>2 DEF HandedOver
      <4>4. step' <= MaxHops
        BY <1>6, <2>1
      <4>5. AtAgent' /\ SwarmEnds'
        BY <1>3, <2>1, <4>1, <4>3, <4>4, SwarmNames DEF AtAgent, SwarmEnds
      <4> QED BY <1>5, <1>6, <1>7, <2>1, <2>2, <4>1, <4>5 DEF SwarmPlaced, SwarmParts
    <3>3. CASE ~(z.hops >= MaxHops)
      <4>1. next' = z.active
        BY <2>1, <2>4, <3>1, <3>3 DEF SwarmRouter
      <4>2. s'.hops < MaxHops
        BY <1>1, <1>3, <3>3, HopsConstant
      <4>3. AtAgent'
        BY <1>1, <2>1, <2>4, <4>1, <4>2 DEF AtAgent
      <4>4. SwarmEnds'
        BY <1>3, <2>1, <2>4, <4>1, SwarmNames DEF SwarmEnds
      <4> QED BY <1>5, <1>6, <1>7, <2>1, <2>2, <2>4, <4>1, <4>3, <4>4
              DEF SwarmPlaced, SwarmParts
    <3> QED BY <3>2, <3>3
  <2> QED BY <2>3, <2>4
<1> QED
  BY <1>4, <1>8, <1>9

LEMMA AnswerWritten ==
  ASSUME NEW x \in SwarmState, NEW m, NEW f, NEW a,
         NEW y, y = [x EXCEPT !.messages = m, !.final = f, !.active = a]
  PROVE  y = [messages |-> m, active |-> a, hops |-> x.hops, final |-> f]
BY DEF SwarmState

LEMMA HandoffWritten ==
  ASSUME NEW x \in SwarmState, NEW m, NEW a,
         NEW y, y = [x EXCEPT !.messages = m, !.active = a]
  PROVE  y = [messages |-> m, active |-> a, hops |-> x.hops, final |-> x.final]
BY DEF SwarmState

LEMMA SwarmAsks ==
  ASSUME SwarmParts, AskAgent
  PROVE  SwarmParts'
<1>1. UNCHANGED <<cfg, runs>> /\ pc = "agent"
  BY DEF AskAgent
<1>2. /\ runs # 0 /\ ret = "edited" /\ next \in DOMAIN Agents
      /\ w.hops = s.hops + 1 /\ w.final = Empty
  BY <1>1 DEF SwarmParts, SwarmPlaced, SwarmFresh, InAgent
<1>3. /\ ValidSwarm /\ w \in SwarmState /\ w.messages \in Seq(PeerMessage)
      /\ turns \in Nat
  BY DEF SwarmParts, SwarmTyped, SwarmState
<1>4. CASE NodeFails({"model"}) /\ UNCHANGED <<turns, executor, locals>>
  <2>1. /\ UNCHANGED <<s, step, pending, out, w>> /\ turns' \in Nat
        /\ pc' = "idle" /\ ret' = "model"
    BY <1>3, <1>4 DEF NodeFails, Return, executor, locals
  <2> QED BY <1>1, <1>2, <2>1, SwarmBreaksOff
<1>5. ASSUME turns' = turns + 1, NEW calls \in Turns,
             LET messages == Append(w.messages, Assistant(calls)) IN
             IF calls = << >> THEN AgentAnswers(messages)
             ELSE IF Handoffs(calls) # << >> THEN AgentHandsOff(messages, calls)
             ELSE AgentCalls(messages, calls)
      PROVE  SwarmParts'
  <2> DEFINE m == Append(w.messages, Assistant(calls))
  <2>1. calls \in Seq(PeerCall)
    BY <1>3, TurnsAreLists
  <2>2. Assistant(calls) \in PeerMessage /\ CallsOf(Assistant(calls)) = calls
    BY <2>1 DEF Assistant, PeerMessage, CallsOf
  <2>3. /\ m \in Seq(PeerMessage) /\ m # << >> /\ Len(m) = Len(w.messages) + 1
        /\ m[Len(m)] = Assistant(calls)
    <3> HIDE DEF PeerMessage
    <3> QED BY <1>3, <2>2
  <2>4. turns' \in Nat
    BY <1>3, <1>5
  <2>5. CASE calls = << >>
    <3>1. PICK final \in {Empty, Final} :
            AgentReturns([w EXCEPT !.messages = m, !.final = final, !.active = Empty])
      BY <1>5, <2>5 DEF AgentAnswers
    <3> DEFINE z == [w EXCEPT !.messages = m, !.final = final, !.active = Empty]
    <3>2. /\ z = [messages |-> m, active |-> Empty, hops |-> w.hops, final |-> final]
          /\ w.hops \in Nat
      <4>1. w.hops \in Nat
        BY <1>3 DEF SwarmState
      <4>2. w \in SwarmState
        BY <1>3
      <4>3. ASSUME NEW n, NEW y, y = [w EXCEPT !.messages = n, !.final = final,
                                               !.active = Empty]
            PROVE  y = [messages |-> n, active |-> Empty, hops |-> w.hops,
                        final |-> final]
        BY <4>2, <4>3 DEF SwarmState
      <4> HIDE DEF m
      <4>4. z = [w EXCEPT !.messages = m, !.final = final, !.active = Empty]
        OBVIOUS
      <4> HIDE DEF z
      <4>5. z = [messages |-> m, active |-> Empty, hops |-> w.hops, final |-> final]
        BY <4>3, <4>4
      <4> QED BY <4>1, <4>5
    <3>3. z \in SwarmState /\ z.hops = w.hops /\ z.messages = m /\ z.active = Empty
      <4> HIDE DEF m
      <4> QED BY <2>3, <3>2 DEF SwarmState
    <3>4. LastOf(z.messages) = Assistant(<< >>)
      BY <2>3, <2>5, <3>3 DEF LastOf
    <3> HIDE DEF z, m
    <3>5. AgentReturns(z)
      BY <3>1 DEF z
    <3> QED BY <1>1, <2>4, <3>3, <3>4, <3>5, AgentReturned
  <2>6. CASE calls # << >> /\ Handoffs(calls) # << >>
    <3> DEFINE I == {i \in DOMAIN calls : calls[i].to \in Agents[next].handoffs}
    <3>1. /\ Handoffs(calls) \in Seq(PeerCall)
          /\ \A k \in DOMAIN Handoffs(calls) :
               \E i \in I \cap (1 .. Len(calls)) : Handoffs(calls)[k] = calls[i]
      <4>1. Handoffs(calls) = Kept(calls, I)
        BY DEF Handoffs
      <4> HIDE DEF PeerCall, I
      <4> QED BY <2>1, <4>1, KeptElements
    <3>2. 1 \in DOMAIN Handoffs(calls)
      <4> HIDE DEF PeerCall
      <4> QED BY <2>6, <3>1
    <3>3. PICK i \in I : Handoffs(calls)[1] = calls[i]
      BY <3>1, <3>2
    <3>4. calls[i].to \in DOMAIN Agents /\ calls[i] \in ToSet(calls)
      BY <1>2, <1>3, <3>3, SwarmNames DEF ToSet
    <3> DEFINE ack == Acknowledge(calls)
               z == [w EXCEPT !.messages = m \o ack, !.active = Handoffs(calls)[1].to]
    <3>5. ack \in Seq(PeerMessage) /\ Len(ack) = Len(calls)
      BY <2>1, RepliesAreMessages DEF Acknowledge
    <3>6. /\ m \o ack \in Seq(PeerMessage) /\ Len(m \o ack) = Len(m) + Len(calls)
          /\ (m \o ack)[Len(m)] = Assistant(calls)
          /\ Len(m) \in DOMAIN (m \o ack)
      <4> HIDE DEF m, ack, PeerMessage
      <4>1. Len(m) \in 1 .. Len(m) /\ Len(calls) \in Nat /\ Len(m) \in Nat
        BY <2>1, <2>3
      <4> QED BY <2>3, <3>5, <4>1
    <3>7. /\ z = [messages |-> m \o ack, active |-> calls[i].to, hops |-> w.hops,
                  final |-> Empty]
          /\ w.hops \in Nat
      <4>1. w.hops \in Nat
        BY <1>3 DEF SwarmState
      <4>2. z = [w EXCEPT !.messages = m \o ack, !.active = calls[i].to]
        BY <3>3
      <4> HIDE DEF m, ack, z
      <4>3. z = [messages |-> m \o ack, active |-> calls[i].to, hops |-> w.hops,
                 final |-> w.final]
        BY ONLY <1>3, <4>2, HandoffWritten
      <4> QED BY <1>2, <4>1, <4>3
    <3>8. /\ z \in SwarmState /\ z.hops = w.hops /\ z.messages = m \o ack
          /\ z.active = calls[i].to /\ z.final = Empty
      <4> HIDE DEF m, ack
      <4> QED BY <3>4, <3>6, <3>7 DEF SwarmState
    <3>9. \E j \in DOMAIN z.messages : \E c \in ToSet(CallsOf(z.messages[j])) :
            /\ j + Len(CallsOf(z.messages[j])) = Len(z.messages)
            /\ c.to = z.active
      <4>1. CallsOf(z.messages[Len(m)]) = calls
        BY <2>2, <3>6, <3>8
      <4> HIDE DEF m, ack, z
      <4> QED BY <3>4, <3>6, <3>8, <4>1
    <3>10. AgentReturns(z)
      BY <1>5, <2>6 DEF AgentHandsOff
    <3> HIDE DEF z, m, ack
    <3> QED BY <1>1, <2>4, <3>4, <3>8, <3>9, <3>10, AgentReturned
  <2>7. CASE calls # << >> /\ Handoffs(calls) = << >>
    <3>0. AgentCalls(m, calls)
      BY <1>5, <2>7
    <3>1. CASE NodeFails({"no tools"}) /\ UNCHANGED <<executor, locals>>
      <4>1. /\ UNCHANGED <<s, step, pending, out, w>>
            /\ pc' = "idle" /\ ret' = "no tools"
        BY <3>1 DEF NodeFails, Return, executor, locals
      <4> QED BY <1>1, <1>2, <2>4, <4>1, SwarmBreaksOff
    <3>2. CASE /\ w' = [w EXCEPT !.messages = m]
               /\ StartCalls(RealCalls(calls))
               /\ UNCHANGED <<s, next, step, ret, turn>>
      <4>1. pending' \in Seq(PeerCall) /\ out' \in [DOMAIN pending' -> Slot] /\ pc' = "calling"
        <5>1. RealCalls(calls) \in Seq(PeerCall)
          <6> HIDE DEF PeerCall
          <6> QED BY <2>1, KeptElements DEF RealCalls
        <5> QED BY <3>2, <5>1 DEF StartCalls, Slot
      <4>2. w' \in SwarmState /\ w'.hops = w.hops /\ w'.final = w.final /\ w'.messages = m
        <5> HIDE DEF m
        <5> QED BY <1>3, <2>3, <3>2 DEF SwarmState
      <4>3. SwarmTyped'
        BY <1>1, <2>4, <3>2, <4>1, <4>2 DEF SwarmParts, SwarmTyped
      <4>4. SwarmPlaced'
        <5>1. InAgent'
          BY <1>2, <2>3, <3>2, <4>2 DEF InAgent
        <5>2. AtAgent'
          BY <1>1, <3>2 DEF SwarmParts, SwarmPlaced, AtAgent
        <5>3. SwarmFresh' /\ SwarmEnds'
          BY <1>1, <1>2, <3>2, <4>1 DEF SwarmFresh, SwarmEnds
        <5>4. s.hops <= MaxHops
          BY DEF SwarmParts, SwarmPlaced
        <5> QED BY <1>2, <3>2, <4>1, <5>1, <5>2, <5>3, <5>4 DEF SwarmPlaced
      <4> QED BY <4>3, <4>4 DEF SwarmParts
    <3> QED BY <3>0, <3>1, <3>2 DEF AgentCalls
  <2> QED BY <2>5, <2>6, <2>7
<1> QED
  BY <1>4, <1>5 DEF AskAgent

LEMMA SwarmCollects ==
  ASSUME SwarmParts, AgentTools
  PROVE  SwarmParts'
<1> DEFINE rejected == Rejected(CallsOf(LastOf(w.messages)))
<1>1. /\ UNCHANGED <<cfg, s, next, step, ret, turns, runs>>
      /\ pc = "calling" /\ \A i \in DOMAIN out : out[i] # NoResult
      /\ pc' = "agent" /\ pending' = << >> /\ out' = << >>
      /\ w' = [w EXCEPT !.messages = @ \o Results \o rejected]
  BY DEF AgentTools, AllReturned, Collected, history
<1>2. /\ runs # 0 /\ ret = "edited" /\ next \in DOMAIN Agents /\ s.hops <= MaxHops
      /\ w.hops = s.hops + 1 /\ w.final = Empty /\ w.messages # << >>
  BY <1>1 DEF SwarmParts, SwarmPlaced, SwarmFresh, InAgent
<1>3. w \in SwarmState /\ w.messages \in Seq(PeerMessage)
  BY DEF SwarmParts, SwarmTyped, SwarmState
<1>4. Results \in Seq(PeerMessage)
  <2>1. PICK k \in Nat : DOMAIN out = 1 .. k
    BY DEF SwarmParts, SwarmTyped
  <2>2. \A i \in 1 .. k : ToolResult(out[i]) \in PeerMessage
    <3>1. TAKE i \in 1 .. k
    <3>2. out[i] \in Nat \X Nat
      BY <1>1, <2>1 DEF SwarmParts, SwarmTyped, Slot
    <3> QED BY <3>2 DEF ToolResult, PeerMessage
  <2> HIDE DEF PeerMessage
  <2> QED BY <2>1, <2>2 DEF Results
<1>5. rejected \in Seq(PeerMessage)
  <2>1. LastOf(w.messages) \in PeerMessage
    <3> HIDE DEF PeerMessage
    <3> QED BY <1>2, <1>3 DEF LastOf
  <2>2. CallsOf(LastOf(w.messages)) \in Seq(PeerCall)
    BY <2>1 DEF CallsOf, PeerMessage
  <2> DEFINE calls == CallsOf(LastOf(w.messages))
             kept == Kept(calls, {i \in DOMAIN calls : calls[i].to # Tool})
  <2>3. kept \in Seq(PeerCall)
    <3> HIDE DEF PeerCall
    <3> QED BY <2>2, KeptElements
  <2>4. rejected = [i \in DOMAIN kept |-> ToolResult(kept[i].id)]
    BY DEF Rejected
  <2> HIDE DEF kept, rejected
  <2> QED BY <2>3, <2>4, RepliesAreMessages
<1>6. w.messages \o Results \o rejected \in Seq(PeerMessage)
  <2> HIDE DEF rejected, PeerMessage
  <2> QED BY <1>3, <1>4, <1>5
<1>7. w' \in SwarmState /\ w'.hops = w.hops /\ w'.final = w.final
  <2> HIDE DEF rejected
  <2> QED BY <1>1, <1>3, <1>6 DEF SwarmState
<1>8. SwarmTyped'
  <2>1. pending' \in Seq(PeerCall) /\ out' \in [DOMAIN pending' -> Slot]
    BY <1>1
  <2> QED BY <1>1, <1>7, <2>1 DEF SwarmParts, SwarmTyped
<1>9. SwarmPlaced'
  <2>1. InAgent'
    BY <1>1, <1>2, <1>7 DEF InAgent
  <2>2. AtAgent'
    BY <1>1 DEF SwarmParts, SwarmPlaced, AtAgent
  <2>3. SwarmFresh' /\ SwarmEnds'
    BY <1>1, <1>2 DEF SwarmFresh, SwarmEnds
  <2> QED BY <1>1, <1>2, <2>1, <2>2, <2>3 DEF SwarmPlaced
<1> QED
  BY <1>8, <1>9 DEF SwarmParts

LEMMA SwarmStops ==
  ASSUME SwarmParts, AgentExhausted \/ (TrapNode /\ UNCHANGED locals)
  PROVE  SwarmParts'
<1>1. CASE AgentExhausted
  <2>1. /\ UNCHANGED <<cfg, s, step, runs, pending, out, w, turns>> /\ pc = "agent"
        /\ pc' = "idle" /\ ret' = "exhausted"
    BY <1>1 DEF AgentExhausted, NodeFails, Return, executor, locals, history
  <2>2. runs # 0 /\ turns \in Nat
    BY <2>1 DEF SwarmParts, SwarmTyped, SwarmPlaced, SwarmFresh
  <2> QED BY <2>1, <2>2, SwarmBreaksOff
<1>2. CASE TrapNode /\ UNCHANGED locals
  <2>1. /\ UNCHANGED <<cfg, s, step, runs, pending, out, w, turns>>
        /\ pc = "top" /\ next = "trap" /\ pc' = "idle"
        /\ ret' = IF cfg.kind = "swarm" /\ s.active \notin {Empty} \cup cfg.graph.nodes
                  THEN "unknown target" ELSE "max hops"
    BY <1>2 DEF TrapNode, At, NodeFails, Return, executor, locals, history
  <2>2. runs # 0 /\ HandedOver /\ turns \in Nat /\ ValidSwarm
    BY <2>1 DEF SwarmParts, SwarmTyped, SwarmPlaced, SwarmFresh, SwarmEnds
  <2>3. s.active \in cfg.graph.nodes
    BY <2>2, SwarmCfg, SwarmEdges DEF SwarmParts, HandedOver
  <2>4. ret' = "max hops"
    BY <2>1, <2>3
  <2> QED BY <2>1, <2>2, <2>4, SwarmBreaksOff
<1> QED
  BY <1>1, <1>2

LEMMA SwarmLoops ==
  ASSUME SwarmParts, Loop, UNCHANGED locals
  PROVE  SwarmParts'
<1>1. /\ UNCHANGED <<cfg, s, next, step, pending, turns, runs, w>>
      /\ \/ /\ pc = "top" /\ pc' = "idle" /\ out' = out
            /\ \/ next = END /\ ret' = "nil"
               \/ ret' = "cancelled"
               \/ next # END /\ step >= cfg.maxSteps /\ ret' = "max steps"
         \/ /\ pc = "calling" /\ pc' = "calling" /\ ret' = ret
            /\ \E i \in DOMAIN out : out' = [out EXCEPT ![i] = pending[i].id]
  BY LoopSteps DEF locals
<1>2. CASE pc = "top"
  <2>1. ~(next # END /\ step >= cfg.maxSteps)
    <3>1. /\ s.hops \in Nat /\ step \in Nat /\ cfg.maxSteps = MaxHops * 4 + 4
          /\ MaxHops \in Nat
      BY SwarmCfg, HopsConstant DEF SwarmParts, SwarmTyped, SwarmState
    <3>2. next # END => step <= MaxHops \/ (s.hops < MaxHops /\ step = s.hops)
      BY <1>2 DEF SwarmParts, SwarmPlaced, AtAgent, SwarmEnds
    <3> QED BY <3>1, <3>2
  <2>2. runs # 0 /\ turns \in Nat /\ (next = END => SwarmAnswered)
    BY <1>2 DEF SwarmParts, SwarmTyped, SwarmPlaced, SwarmFresh, SwarmEnds
  <2>3. /\ pc' = "idle" /\ out' = out /\ ret' \notin {"max steps", "unknown target"}
        /\ ret' = "nil" => SwarmAnswered
        /\ ret' = "max hops" => HandedOver
    BY <1>1, <1>2, <2>1, <2>2
  <2> QED BY <1>1, <2>2, <2>3, SwarmBreaksOff
<1>3. ASSUME pc = "calling", pc' = "calling", ret' = ret,
             NEW i \in DOMAIN out, out' = [out EXCEPT ![i] = pending[i].id]
      PROVE  SwarmParts'
  <2>1. out' \in [DOMAIN pending' -> Slot]
    <3>1. pending[i] \in PeerCall
      BY DEF SwarmParts, SwarmTyped
    <3>2. pending[i].id \in Slot
      BY <3>1 DEF PeerCall, Slot
    <3> QED BY <1>1, <1>3, <3>2 DEF SwarmParts, SwarmTyped
  <2>2. SwarmTyped'
    BY <1>1, <1>3, <2>1 DEF SwarmParts, SwarmTyped
  <2>3. SwarmPlaced'
    <3>1. SwarmAnswered' = SwarmAnswered /\ HandedOver' = HandedOver
      BY <1>1 DEF SwarmAnswered, HandedOver
    <3> QED BY <1>1, <1>3, <3>1
            DEF SwarmParts, SwarmPlaced, SwarmFresh, AtAgent, InAgent, SwarmEnds
  <2> QED BY <2>2, <2>3 DEF SwarmParts
<1> QED
  BY <1>1, <1>2, <1>3

LEMMA SwarmInvHolds == Init => SwarmInv
<1> SUFFICES ASSUME Init, cfg.kind = "swarm" PROVE SwarmParts
  BY DEF SwarmInv, SwarmParts
<1>1. cfg \in SwarmConfigs
  BY DEF Init, ReActConfigs, PlanConfigs, SupervisorConfigs
<1>2. /\ s \in SwarmSeeds /\ w = s /\ pc = "idle" /\ step = 0 /\ ret = "edited"
      /\ pending = << >> /\ out = << >> /\ turns = 0 /\ runs = 0
  BY DEF Init, Seeds
<1>3. ValidSwarm
  BY <1>1 DEF SwarmConfigs
<1>4. PICK m \in {<<User("hello")>>, <<System, User("hello")>>} :
        s = [messages |-> m, active |-> First, hops |-> 0, final |-> Empty]
  BY <1>2 DEF SwarmSeeds
<1>5. m \in Seq(PeerMessage)
  <2>1. User("hello") \in PeerMessage /\ System \in PeerMessage
    BY DEF User, System, PeerMessage
  <2> DEFINE M == PeerMessage
  <2>2. \A x, y \in M : <<x>> \in Seq(M) /\ <<y, x>> \in Seq(M)
    <3> HIDE DEF M
    <3> QED OBVIOUS
  <2> QED BY <1>4, <2>1, <2>2
<1>6. SwarmTyped
  <2>1. s \in SwarmState
    BY <1>3, <1>4, <1>5, SwarmNames DEF SwarmState
  <2> QED BY <1>1, <1>2, <1>3, <2>1 DEF SwarmTyped
<1>7. SwarmPlaced
  BY <1>2, <1>4, HopsConstant DEF SwarmPlaced, SwarmFresh, AtAgent, InAgent, SwarmEnds
<1> QED
  BY <1>6, <1>7 DEF SwarmParts

LEMMA SwarmInvKept == SwarmInv /\ [Next]_vars => SwarmInv'
<1> SUFFICES ASSUME SwarmInv, [Next]_vars, cfg'.kind = "swarm"
             PROVE  SwarmParts'
  BY DEF SwarmInv, SwarmParts
<1>0. cfg' = cfg
  BY ConfigIsFixed
<1>1. SwarmParts
  BY <1>0 DEF SwarmInv, SwarmParts
<1>2. CASE UNCHANGED vars
  <2>1. UNCHANGED <<cfg, s, pc, next, step, ret, pending, out, turns, runs, w>>
    BY <1>2 DEF vars, agentVars, graphVars, executor, history, locals
  <2>2. SwarmTyped'
    BY <1>1, <2>1 DEF SwarmParts, SwarmTyped
  <2>3. SwarmPlaced'
    BY <1>1, <2>1 DEF SwarmParts, SwarmPlaced, SwarmFresh, AtAgent, InAgent, SwarmEnds,
       HandedOver, SwarmAnswered
  <2> QED BY <2>2, <2>3 DEF SwarmParts
<1>3. CASE Loop /\ UNCHANGED locals
  BY <1>1, <1>3, SwarmLoops
<1>4. CASE SwarmNext
  BY <1>1, <1>4, SwarmStarts, SwarmAsks, SwarmCollects, SwarmStops, SwarmActivates
     DEF SwarmNext
<1> QED
  BY <1>0, <1>2, <1>3, <1>4 DEF Next

-----------------------------------------------------------------------------
AgentsInv ==
  /\ cfg.kind \in {"react", "plan", "supervisor", "swarm"}
  /\ ReActInv /\ PlanInv /\ SupervisorInv /\ SwarmInv

(* The inductive invariant, of whichever agent was configured.             *)
THEOREM Inductive == Spec => []AgentsInv
<1>1. Init => AgentsInv
  <2>1. Init => cfg.kind \in {"react", "plan", "supervisor", "swarm"}
    BY DEF Init, ReActConfigs, PlanConfigs, SupervisorConfigs, SwarmConfigs
  <2> QED
    BY <2>1, ReActInvHolds, PlanInvHolds, SupervisorInvHolds, SwarmInvHolds DEF AgentsInv
<1>2. AgentsInv /\ [Next]_vars => AgentsInv'
  BY ConfigIsFixed, ReActInvKept, PlanInvKept, SupervisorInvKept, SwarmInvKept
     DEF AgentsInv
<1> QED
  BY <1>1, <1>2, PTL DEF Spec, vars

(* No user message reaches the model of a ReAct agent before the input     *)
(* guards let it pass, however the history is edited between runs.         *)
THEOREM GuardsSeeFirst == Spec => []UserMessagesAreVetted
<1>1. AgentsInv => UserMessagesAreVetted
  BY DEF AgentsInv, ReActInv, Guarded, Passed, UserMessagesAreVetted
<1> QED
  BY <1>1, Inductive, PTL

(* Plans of any length are executed as they were given, and replanners are *)
(* shown all of the plan in force, for every MaxPlanIterations.            *)
THEOREM PlansAreExecuted == Spec => []PlanIsFollowed
<1>1. AgentsInv => PlanIsFollowed
  BY DEF AgentsInv, PlanInv, Followed, ShownToReplanner, PlanIsFollowed
<1> QED
  BY <1>1, Inductive, PTL

(* The soft caps end every run before the derived step limits do, and the  *)
(* end of a run says which it was, for all caps, workers and peers, but    *)
(* for Plan-and-Execute, which ends with an empty text and no error.       *)
THEOREM EndsAreTold == Spec => []TruncationIsTold
<1>1. AgentsInv => ret # "max steps"
  BY DEF AgentsInv, ReActInv, Placed, PlanInv, PlanPlaced, SupervisorInv, SupervisorPlaced,
     SwarmInv, SwarmPlaced
<1>2. AgentsInv => CapEndsTheRun
  <2> SUFFICES ASSUME ReActTyped, Counted, AtEnd PROVE CapEndsTheRun
    BY DEF AgentsInv, ReActInv, Placed, CapEndsTheRun
  <2>1. /\ s.iterations = started.iterations + ran
        /\ started.iterations \in Nat /\ ran \in Nat
    BY DEF ReActTyped, ReActState, Counted
  <2>2. pc = "idle" /\ ret = "nil" => Told
    BY DEF AtEnd
  <2>3. ran + started.iterations = s.iterations
    BY <2>1
  <2>4. pc = "idle" /\ ret = "nil" /\ ~started.capped =>
          (s.capped <=> ran + started.iterations >= MaxIterations
                        /\ CallsOf(LastOf(s.messages)) # << >>)
    BY <2>2, <2>3, Zenon DEF Told
  <2>5. /\ started.iterations < MaxIterations => started.iterations + ran <= MaxIterations
        /\ ran > 1 => started.iterations + ran <= MaxIterations
    BY <2>1 DEF Counted
  <2> QED BY <2>4, <2>5, Zenon DEF CapEndsTheRun
<1>3. AgentsInv => SwarmEndIsTold
  BY DEF AgentsInv, SwarmInv, SwarmPlaced, SwarmEnds, SwarmAnswered, HandedOver,
     SwarmEndIsTold
<1>4. AgentsInv => HopsAreAccounted
  BY DEF AgentsInv, SupervisorInv, SupervisorPlaced, SupervisorEnds, SupervisorCounted,
     AnsweredAt, Trapped, HopsAreAccounted
<1>5. AgentsInv => PlanEndIsAccounted
  BY DEF AgentsInv, PlanInv, PlanPlaced, AtPlanEnd, PlanEndIsAccounted
<1>6. AgentsInv => TruncationIsTold
  BY <1>1, <1>2, <1>3, <1>4, <1>5 DEF TruncationIsTold
<1> QED
  BY <1>6, Inductive, PTL

-----------------------------------------------------------------------------
(***************************************************************************)
(* Conversations. Block says of one message that its calls are answered    *)
(* right behind it, in their order for a ReAct agent; Talk says it of all  *)
(* of them, but for the last one when open.                                *)
(***************************************************************************)
Block(m, i, ordered) ==
  LET c == CallsOf(m[i]) IN
  /\ i + Len(c) <= Len(m)
  /\ \A j \in 1 .. Len(c) : \E k \in 1 .. Len(c) : m[i + k] = ToolResult(c[j].id)
  /\ \A k \in 1 .. Len(c) : \E j \in 1 .. Len(c) : m[i + k] = ToolResult(c[j].id)
  /\ ordered => \A j \in 1 .. Len(c) : m[i + j] = ToolResult(c[j].id)

Talk(m, open, ordered) ==
  \A i \in 1 .. Len(m) : (open /\ i = Len(m)) \/ Block(m, i, ordered)

LEMMA Inside ==
  ASSUME NEW i \in Nat, NEW l \in Nat, NEW n \in Nat, i + l <= n
  PROVE  \A k \in 1 .. l : i + k \in 1 .. n
OBVIOUS

LEMMA AnsweredIsTalk ==
  ASSUME NEW S, NEW C, \A x \in S : CallsOf(x) \in Seq(C),
         NEW m \in Seq(S), NEW open
  PROVE  Answered(m, open) <=> Talk(m, open, cfg.kind = "react")
<1> DEFINE At_(i) ==
      LET calls   == CallsOf(m[i])
          answers == SubSeq(m, i + 1, i + Len(calls))
      IN /\ i + Len(calls) <= Len(m)
         /\ {ToolResult(calls[j].id) : j \in DOMAIN calls} = ToSet(answers)
         /\ cfg.kind = "react" =>
              answers = [j \in DOMAIN calls |-> ToolResult(calls[j].id)]
<1>1. ASSUME NEW i \in 1 .. Len(m)
      PROVE  At_(i) <=> Block(m, i, cfg.kind = "react")
  <2> DEFINE c == CallsOf(m[i])
             a == SubSeq(m, i + 1, i + Len(c))
  <2>0. SUFFICES ASSUME i + Len(c) <= Len(m) PROVE At_(i) <=> Block(m, i, cfg.kind = "react")
    BY DEF Block
  <2>1. c \in Seq(C) /\ Len(c) \in Nat /\ DOMAIN c = 1 .. Len(c) /\ i \in Nat /\ Len(m) \in Nat
    BY <1>1
  <2>2. a \in Seq(S) /\ DOMAIN a = 1 .. Len(c) /\ \A k \in 1 .. Len(c) : a[k] = m[i + k]
    <3> HIDE DEF c
    <3>1. i + 1 \in 1 .. Len(m) + 1 /\ i + Len(c) \in (i + 1) - 1 .. Len(m)
      BY <1>1, <2>0, <2>1
    <3>2. /\ a \in Seq(S)
          /\ Len(a) = IF i + 1 <= i + Len(c) THEN i + Len(c) - (i + 1) + 1 ELSE 0
          /\ \A k \in 1 .. i + Len(c) - (i + 1) + 1 : a[k] = m[i + 1 + k - 1]
      BY <3>1, SubSeqProperties
    <3> HIDE DEF a
    <3>3. Len(a) = Len(c) /\ i + Len(c) - (i + 1) + 1 = Len(c)
      BY <2>1, <3>2
    <3>4. \A k \in 1 .. Len(c) : i + 1 + k - 1 = i + k
      BY <2>1
    <3>5. \A k \in 1 .. Len(c) : a[k] = m[i + k]
      BY <3>2, <3>3, <3>4
    <3> QED BY <3>2, <3>3, <3>5
  <2> DEFINE T == {ToolResult(c[j].id) : j \in 1 .. Len(c)}
  <2>3. DOMAIN a = 1 .. Len(c) /\ \A k \in 1 .. Len(c) : a[k] = m[i + k]
    BY <2>2
  <2>4. T = ToSet(a) <=>
          /\ \A j \in 1 .. Len(c) : \E k \in 1 .. Len(c) : m[i + k] = ToolResult(c[j].id)
          /\ \A k \in 1 .. Len(c) : \E j \in 1 .. Len(c) : m[i + k] = ToolResult(c[j].id)
    <3> HIDE DEF a, c
    <3>1. ToSet(a) = {a[k] : k \in 1 .. Len(c)}
      BY <2>3 DEF ToSet
    <3>2. ToSet(a) = {m[i + k] : k \in 1 .. Len(c)}
      BY <2>3, <3>1
    <3>3. ASSUME T = ToSet(a)
          PROVE  /\ \A j \in 1 .. Len(c) : \E k \in 1 .. Len(c) : m[i + k] = ToolResult(c[j].id)
                 /\ \A k \in 1 .. Len(c) : \E j \in 1 .. Len(c) : m[i + k] = ToolResult(c[j].id)
      <4>1. \A j \in 1 .. Len(c) : ToolResult(c[j].id) \in ToSet(a)
        BY <3>3
      <4>2. \A k \in 1 .. Len(c) : m[i + k] \in T
        BY <3>2, <3>3
      <4> QED BY <3>2, <4>1, <4>2
    <3>4. ASSUME \A j \in 1 .. Len(c) : \E k \in 1 .. Len(c) : m[i + k] = ToolResult(c[j].id),
                 \A k \in 1 .. Len(c) : \E j \in 1 .. Len(c) : m[i + k] = ToolResult(c[j].id)
          PROVE  T = ToSet(a)
      <4>1. \A x \in T : x \in ToSet(a)
        BY <3>2, <3>4
      <4>2. \A x \in ToSet(a) : x \in T
        <5>1. TAKE x \in ToSet(a)
        <5>2. PICK k \in 1 .. Len(c) : x = m[i + k]
          BY <3>2
        <5>3. PICK j \in 1 .. Len(c) : m[i + k] = ToolResult(c[j].id)
          BY <3>4
        <5> QED BY <5>2, <5>3
      <4> QED BY <4>1, <4>2
    <3> HIDE DEF T
    <3> QED BY <3>3, <3>4
  <2>5. a = [j \in 1 .. Len(c) |-> ToolResult(c[j].id)] <=>
          \A j \in 1 .. Len(c) : m[i + j] = ToolResult(c[j].id)
    <3> HIDE DEF a, c
    <3>1. a = [k \in 1 .. Len(c) |-> m[i + k]]
      BY <2>1, <2>2
    <3> HIDE DEF ToolResult
    <3> QED BY <2>3, <3>1
  <2>6. At_(i) <=> /\ i + Len(c) <= Len(m)
                   /\ T = ToSet(a)
                   /\ cfg.kind = "react" =>
                        a = [j \in 1 .. Len(c) |-> ToolResult(c[j].id)]
    BY <2>1
  <2>7. Block(m, i, cfg.kind = "react") <=>
          /\ i + Len(c) <= Len(m)
          /\ \A j \in 1 .. Len(c) : \E k \in 1 .. Len(c) : m[i + k] = ToolResult(c[j].id)
          /\ \A k \in 1 .. Len(c) : \E j \in 1 .. Len(c) : m[i + k] = ToolResult(c[j].id)
          /\ cfg.kind = "react" => \A j \in 1 .. Len(c) : m[i + j] = ToolResult(c[j].id)
    BY DEF Block
  <2> HIDE DEF At_, T, a, c
  <2> QED BY <2>4, <2>5, <2>6, <2>7
<1>2. Answered(m, open) <=> \A i \in 1 .. Len(m) : (open /\ i = Len(m)) \/ At_(i)
  <2>1. DOMAIN m = 1 .. Len(m)
    OBVIOUS
  <2> QED BY <2>1 DEF Answered
<1> HIDE DEF At_
<1> QED
  BY <1>1, <1>2 DEF Talk

(* What was asked is a part of a conversation up to a turn of the model.   *)
LEMMA TalkUpTo ==
  ASSUME NEW S, NEW C, \A x \in S : CallsOf(x) \in Seq(C),
         NEW m \in Seq(S), NEW p \in Seq(S), NEW ordered,
         Talk(m, FALSE, ordered), Len(p) <= Len(m),
         \A i \in 1 .. Len(p) : p[i] = m[i],
         Len(p) < Len(m) => m[Len(p) + 1].role = "assistant"
  PROVE  Talk(p, FALSE, ordered)
<1> SUFFICES ASSUME NEW i \in 1 .. Len(p) PROVE Block(p, i, ordered)
  BY DEF Talk
<1> DEFINE c == CallsOf(p[i])
<1>1. /\ Len(p) \in Nat /\ Len(m) \in Nat /\ i \in Nat /\ i \in 1 .. Len(m) /\ i <= Len(p)
      /\ c = CallsOf(m[i]) /\ c \in Seq(C) /\ Len(c) \in Nat
  OBVIOUS
<1>2. /\ i + Len(c) <= Len(m)
      /\ \A j \in 1 .. Len(c) : \E k \in 1 .. Len(c) : m[i + k] = ToolResult(c[j].id)
      /\ \A k \in 1 .. Len(c) : \E j \in 1 .. Len(c) : m[i + k] = ToolResult(c[j].id)
      /\ ordered => \A j \in 1 .. Len(c) : m[i + j] = ToolResult(c[j].id)
  <2>1. Block(m, i, ordered)
    BY <1>1 DEF Talk
  <2> QED BY <1>1, <2>1 DEF Block
<1> HIDE DEF c
<1>3. i + Len(c) <= Len(p)
  <2>1. SUFFICES ASSUME i + Len(c) > Len(p) PROVE FALSE
    BY <1>1
  <2>2. /\ Len(p) + 1 - i \in 1 .. Len(c) /\ i + (Len(p) + 1 - i) = Len(p) + 1
        /\ Len(p) < Len(m)
    <3>1. i + Len(c) <= Len(m) /\ i + Len(c) > Len(p) /\ i <= Len(p)
      BY <1>1, <1>2, <2>1
    <3> QED BY <1>1, <3>1
  <2>3. PICK j \in 1 .. Len(c) : m[Len(p) + 1] = ToolResult(c[j].id)
    <3> DEFINE k == Len(p) + 1 - i
    <3>1. k \in 1 .. Len(c) /\ m[i + k] = m[Len(p) + 1]
      BY <2>2
    <3> HIDE DEF k
    <3>2. \E j \in 1 .. Len(c) : m[i + k] = ToolResult(c[j].id)
      BY <1>2, <3>1
    <3> QED BY <3>1, <3>2
  <2>4. m[Len(p) + 1].role = "tool"
    BY <2>3 DEF ToolResult
  <2> QED BY <2>2, <2>4
<1>4. \A k \in 1 .. Len(c) : p[i + k] = m[i + k]
  <2>1. \A k \in 1 .. Len(c) : i + k \in 1 .. Len(p)
    BY <1>1, <1>3, Inside
  <2> QED BY <2>1
<1>5. \A j \in 1 .. Len(c) : \E k \in 1 .. Len(c) : p[i + k] = ToolResult(c[j].id)
  <2>1. TAKE j \in 1 .. Len(c)
  <2>2. PICK k \in 1 .. Len(c) : m[i + k] = ToolResult(c[j].id)
    BY <1>2
  <2>3. p[i + k] = m[i + k]
    BY <1>4
  <2> QED BY <2>2, <2>3
<1>6. \A k \in 1 .. Len(c) : \E j \in 1 .. Len(c) : p[i + k] = ToolResult(c[j].id)
  <2>1. TAKE k \in 1 .. Len(c)
  <2>2. PICK j \in 1 .. Len(c) : m[i + k] = ToolResult(c[j].id)
    BY <1>2
  <2>3. p[i + k] = m[i + k]
    BY <1>4
  <2> QED BY <2>2, <2>3
<1>7. ordered => \A j \in 1 .. Len(c) : p[i + j] = ToolResult(c[j].id)
  BY <1>2, <1>4
<1> QED
  BY <1>3, <1>5, <1>6, <1>7 DEF Block, c

(* A turn of the model leaves its own calls open.                          *)
LEMMA TalkAsks ==
  ASSUME NEW S, NEW C, \A x \in S : CallsOf(x) \in Seq(C),
         NEW m \in Seq(S), NEW x \in S, NEW ordered, Talk(m, FALSE, ordered)
  PROVE  /\ Talk(Append(m, x), TRUE, ordered)
         /\ CallsOf(x) = << >> => Talk(Append(m, x), FALSE, ordered)
<1> DEFINE n == Append(m, x)
<1>1. /\ n \in Seq(S) /\ Len(n) = Len(m) + 1 /\ n[Len(n)] = x /\ Len(m) \in Nat
      /\ \A i \in 1 .. Len(m) : n[i] = m[i]
  OBVIOUS
<1> HIDE DEF n
<1>2. ASSUME NEW i \in 1 .. Len(m) PROVE Block(n, i, ordered)
  <2> DEFINE c == CallsOf(m[i])
  <2>1. Block(m, i, ordered)
    BY DEF Talk
  <2>2. i \in Nat /\ c \in Seq(C) /\ Len(c) \in Nat /\ c = CallsOf(n[i])
    BY <1>1
  <2>3. i + Len(c) <= Len(m)
    BY <2>1 DEF Block
  <2> HIDE DEF c
  <2>4. i + Len(c) <= Len(n) /\ \A k \in 1 .. Len(c) : n[i + k] = m[i + k]
    <3>1. \A k \in 1 .. Len(c) : i + k \in 1 .. Len(m)
      BY <1>1, <2>2, <2>3, Inside
    <3>2. i + Len(c) <= Len(n)
      BY <1>1, <2>2, <2>3
    <3>3. \A k \in 1 .. Len(c) : n[i + k] = m[i + k]
      BY <1>1, <3>1
    <3> QED BY <3>2, <3>3
  <2> QED BY <2>1, <2>2, <2>4 DEF Block, c
<1>3. ASSUME CallsOf(x) = << >> PROVE Block(n, Len(n), ordered)
  <2>1. Len(CallsOf(n[Len(n)])) = 0
    BY <1>1, <1>3
  <2> QED BY <1>1, <2>1 DEF Block
<1> QED
  BY <1>1, <1>2, <1>3 DEF Talk, n

LEMMA JoinedSeq ==
  ASSUME NEW S, NEW a \in Seq(S), NEW b \in Seq(S)
  PROVE  /\ a \o b \in Seq(S) /\ Len(a \o b) = Len(a) + Len(b)
         /\ Len(a) \in Nat /\ Len(b) \in Nat
         /\ \A i \in 1 .. Len(a) : (a \o b)[i] = a[i]
         /\ \A k \in 1 .. Len(b) : (a \o b)[Len(a) + k] = b[k]
<1>1. /\ a \o b \in Seq(S) /\ Len(a \o b) = Len(a) + Len(b)
      /\ \A i \in 1 .. Len(a) + Len(b) :
           (a \o b)[i] = IF i <= Len(a) THEN a[i] ELSE b[i - Len(a)]
  BY ConcatProperties
<1>2. Len(a) \in Nat /\ Len(b) \in Nat
  BY LenProperties
<1>3. \A k \in 1 .. Len(b) : /\ Len(a) + k \in 1 .. Len(a) + Len(b)
                             /\ ~(Len(a) + k <= Len(a)) /\ (Len(a) + k) - Len(a) = k
  BY <1>2
<1>4. \A i \in 1 .. Len(a) : i \in 1 .. Len(a) + Len(b) /\ i <= Len(a)
  BY <1>2
<1> DEFINE n == a \o b
<1> HIDE DEF n
<1>5. \A i \in 1 .. Len(a) : n[i] = a[i]
  BY <1>1, <1>4 DEF n
<1>6. \A k \in 1 .. Len(b) : n[Len(a) + k] = b[k]
  BY <1>1, <1>3 DEF n
<1> QED
  BY <1>1, <1>2, <1>5, <1>6 DEF n

(* The answers close it again.                                             *)
LEMMA TalkCloses ==
  ASSUME NEW S, NEW C, \A x \in S : CallsOf(x) \in Seq(C),
         NEW m \in Seq(S), m # << >>, NEW r \in Seq(S), NEW c, c = CallsOf(LastOf(m)),
         NEW ordered, Talk(m, TRUE, ordered), Len(r) = Len(c),
         \A j \in 1 .. Len(c) : \E k \in 1 .. Len(c) : r[k] = ToolResult(c[j].id),
         \A k \in 1 .. Len(c) : \E j \in 1 .. Len(c) : r[k] = ToolResult(c[j].id),
         ordered => \A j \in 1 .. Len(c) : r[j] = ToolResult(c[j].id)
  PROVE  Talk(m \o r, FALSE, ordered)
<1> DEFINE n == m \o r
<1>1. /\ n \in Seq(S) /\ Len(n) = Len(m) + Len(r) /\ Len(m) \in Nat /\ Len(m) # 0 /\ Len(r) \in Nat
      /\ \A i \in 1 .. Len(m) : n[i] = m[i]
      /\ \A k \in 1 .. Len(r) : n[Len(m) + k] = r[k]
  <2>1. Len(m) # 0
    OBVIOUS
  <2>2. /\ n \in Seq(S) /\ Len(n) = Len(m) + Len(r) /\ Len(m) \in Nat /\ Len(r) \in Nat
        /\ \A i \in 1 .. Len(m) : n[i] = m[i]
        /\ \A k \in 1 .. Len(r) : n[Len(m) + k] = r[k]
    BY ONLY m \in Seq(S), r \in Seq(S), JoinedSeq
  <2> HIDE DEF n
  <2> QED BY <2>1, <2>2
<1> HIDE DEF n
<1>2. ASSUME NEW i \in 1 .. Len(m), i # Len(m) PROVE Block(n, i, ordered)
  <2> DEFINE d == CallsOf(m[i])
  <2>1. Block(m, i, ordered)
    BY <1>2 DEF Talk
  <2>2. i \in Nat /\ d \in Seq(C) /\ Len(d) \in Nat /\ d = CallsOf(n[i])
    BY <1>1
  <2>3. i + Len(d) <= Len(m)
    BY <2>1 DEF Block
  <2> HIDE DEF d
  <2>4. i + Len(d) <= Len(n) /\ \A k \in 1 .. Len(d) : n[i + k] = m[i + k]
    <3>1. \A k \in 1 .. Len(d) : i + k \in 1 .. Len(m)
      BY <1>1, <2>2, <2>3, Inside
    <3>2. i + Len(d) <= Len(n)
      BY <1>1, <2>2, <2>3
    <3>3. \A k \in 1 .. Len(d) : n[i + k] = m[i + k]
      BY <1>1, <3>1
    <3> QED BY <3>2, <3>3
  <2> QED BY <2>1, <2>2, <2>4 DEF Block, d
<1>3. Block(n, Len(m), ordered)
  <2>0. Len(m) \in 1 .. Len(m)
    BY <1>1
  <2>1. CallsOf(n[Len(m)]) = c
    BY <1>1, <2>0 DEF LastOf
  <2>2. Len(m) + Len(c) <= Len(n) /\ \A k \in 1 .. Len(c) : n[Len(m) + k] = r[k]
    BY <1>1
  <2> QED BY <2>1, <2>2 DEF Block
<1>4. ASSUME NEW k \in 1 .. Len(r) PROVE Block(n, Len(m) + k, ordered)
  <2>1. PICK j \in 1 .. Len(c) : n[Len(m) + k] = ToolResult(c[j].id)
    BY <1>1
  <2>2. CallsOf(n[Len(m) + k]) = << >>
    BY <2>1 DEF CallsOf, ToolResult
  <2>3. Len(CallsOf(n[Len(m) + k])) = 0
    BY <2>2
  <2> QED BY <1>1, <2>3 DEF Block
<1>5. \A i \in 1 .. Len(n) :
        i \in 1 .. Len(m) \/ (i - Len(m) \in 1 .. Len(r) /\ Len(m) + (i - Len(m)) = i)
  <2> DEFINE a == Len(m)
             b == Len(r)
  <2>1. a \in Nat /\ b \in Nat /\ Len(n) = a + b
    BY <1>1
  <2> HIDE DEF a, b
  <2>2. \A i \in 1 .. a + b : i \in 1 .. a \/ (i - a \in 1 .. b /\ a + (i - a) = i)
    BY <2>1
  <2> QED BY <2>1, <2>2 DEF a, b
<1>6. \A i \in 1 .. Len(n) : Block(n, i, ordered)
  BY <1>2, <1>3, <1>4, <1>5
<1> QED
  BY <1>6 DEF Talk, n

(* A message without calls may come before it.                             *)
LEMMA TalkBehind ==
  ASSUME NEW S, NEW C, \A x \in S : CallsOf(x) \in Seq(C),
         NEW m \in Seq(S), NEW x \in S, CallsOf(x) = << >>, NEW ordered,
         Talk(m, FALSE, ordered)
  PROVE  Talk(<<x>> \o m, FALSE, ordered)
<1> DEFINE n == <<x>> \o m
<1>1. /\ n \in Seq(S) /\ Len(n) = Len(m) + 1 /\ Len(m) \in Nat /\ n[1] = x
      /\ \A i \in 1 .. Len(m) : n[i + 1] = m[i]
  OBVIOUS
<1> HIDE DEF n
<1>2. Block(n, 1, ordered)
  <2>1. Len(CallsOf(n[1])) = 0
    BY <1>1
  <2> QED BY <1>1, <2>1 DEF Block
<1>3. ASSUME NEW i \in 1 .. Len(m) PROVE Block(n, i + 1, ordered)
  <2> DEFINE d == CallsOf(m[i])
  <2>1. Block(m, i, ordered)
    BY DEF Talk
  <2>2. i \in Nat /\ d \in Seq(C) /\ Len(d) \in Nat /\ d = CallsOf(n[i + 1])
    BY <1>1
  <2>3. i + Len(d) <= Len(m)
    BY <2>1 DEF Block
  <2> HIDE DEF d
  <2>4. (i + 1) + Len(d) <= Len(n) /\ \A k \in 1 .. Len(d) : n[(i + 1) + k] = m[i + k]
    <3>0. \A k \in 1 .. Len(d) : i + k \in 1 .. Len(m)
      BY <1>1, <2>2, <2>3, Inside
    <3>1. \A k \in 1 .. Len(d) : (i + 1) + k = (i + k) + 1
      BY <2>2
    <3>2. \A k \in 1 .. Len(d) : n[(i + 1) + k] = m[i + k]
      BY <1>1, <3>0, <3>1
    <3>3. (i + 1) + Len(d) <= Len(n)
      BY <1>1, <2>2, <2>3
    <3> QED BY <3>2, <3>3
  <2>5. /\ \A j \in 1 .. Len(d) : \E k \in 1 .. Len(d) : n[(i + 1) + k] = ToolResult(d[j].id)
        /\ \A k \in 1 .. Len(d) : \E j \in 1 .. Len(d) : n[(i + 1) + k] = ToolResult(d[j].id)
        /\ ordered => \A j \in 1 .. Len(d) : n[(i + 1) + j] = ToolResult(d[j].id)
    <3> HIDE DEF ToolResult
    <3> QED BY <2>1, <2>4 DEF Block, d
  <2> QED BY <2>2, <2>4, <2>5 DEF Block
<1>4. \A i \in 1 .. Len(n) : i = 1 \/ (i - 1 \in 1 .. Len(m) /\ (i - 1) + 1 = i)
  BY <1>1
<1>5. \A i \in 1 .. Len(n) : Block(n, i, ordered)
  BY <1>2, <1>3, <1>4
<1> QED
  BY <1>5 DEF Talk, n

(* What is kept and what is not is all there is.                           *)
LEMMA KeptSplits ==
  ASSUME NEW S, NEW list \in Seq(S), NEW I, NEW J,
         \A i \in 1 .. Len(list) : i \in I <=> i \notin J
  PROVE  Len(Kept(list, I)) + Len(Kept(list, J)) = Len(list)
<1>1. PICK f \in [0 .. Len(list) -> Seq(S)] :
           /\ \A n \in 0 .. Len(list) : KeptStep(list, I, f, n)
           /\ Kept(list, I) = f[Len(list)]
  BY KeptBy
<1>2. PICK g \in [0 .. Len(list) -> Seq(S)] :
           /\ \A n \in 0 .. Len(list) : KeptStep(list, J, g, n)
           /\ Kept(list, J) = g[Len(list)]
  BY KeptBy
<1>3. Len(list) \in Nat
  OBVIOUS
<1> DEFINE T == {n \in 0 .. Len(list) : Len(f[n]) + Len(g[n]) = n}
<1>4. 0 \in T
  <2>1. f[0] = << >> /\ g[0] = << >>
    BY <1>1, <1>2, <1>3 DEF KeptStep
  <2> QED BY <1>3, <2>1
<1>5. ASSUME NEW n \in 0 .. Len(list), n < Len(list), n \in T PROVE n + 1 \in T
  <2>1. /\ n + 1 \in 0 .. Len(list) /\ n + 1 \in 1 .. Len(list) /\ n + 1 # 0
        /\ (n + 1) - 1 = n /\ n \in 0 .. Len(list)
    BY <1>3, <1>5
  <2>2. /\ KeptStep(list, I, f, n + 1) /\ KeptStep(list, J, g, n + 1)
        /\ f[n] \in Seq(S) /\ g[n] \in Seq(S) /\ list[n + 1] \in S
    BY <1>1, <1>2, <2>1
  <2> DEFINE x == list[n + 1]
             a == f[n]
             b == g[n]
  <2>3. Len(Append(a, x)) = Len(a) + 1 /\ Len(Append(b, x)) = Len(b) + 1
        /\ Len(a) \in Nat /\ Len(b) \in Nat
    BY <2>2
  <2>4. Len(a) + Len(b) = n /\ n \in Nat
    BY <1>3, <1>5
  <2>5. CASE n + 1 \in I
    <3>1. f[n + 1] = Append(a, x) /\ g[n + 1] = b
      BY <2>1, <2>2, <2>5 DEF KeptStep
    <3> HIDE DEF a, b, x
    <3>2. Len(f[n + 1]) + Len(g[n + 1]) = n + 1
      BY <2>3, <2>4, <3>1
    <3> QED BY <2>1, <3>2
  <2>6. CASE n + 1 \notin I
    <3>1. f[n + 1] = a /\ g[n + 1] = Append(b, x)
      BY <2>1, <2>2, <2>6 DEF KeptStep
    <3> HIDE DEF a, b, x
    <3>2. Len(f[n + 1]) + Len(g[n + 1]) = n + 1
      BY <2>3, <2>4, <3>1
    <3> QED BY <2>1, <3>2
  <2> QED BY <2>5, <2>6
<1> HIDE DEF T
<1>6. Len(list) \in T
  <2>1. \A n \in 0 .. Len(list) : n \in T
    BY <1>3, <1>4, <1>5, UpTo
  <2> QED BY <1>3, <2>1
<1> QED
  BY <1>1, <1>2, <1>6 DEF T

(* All of a list but its first d elements.                                 *)
LEMMA KeptRest ==
  ASSUME NEW S, NEW list \in Seq(S), NEW I, NEW d \in Nat, d <= Len(list),
         \A i \in 1 .. Len(list) : i \in I <=> i > d
  PROVE  /\ Kept(list, I) \in Seq(S)
         /\ Len(Kept(list, I)) = Len(list) - d
         /\ \A k \in 1 .. Len(list) - d : Kept(list, I)[k] = list[k + d]
<1>1. PICK f \in [0 .. Len(list) -> Seq(S)] :
           /\ \A n \in 0 .. Len(list) : KeptStep(list, I, f, n)
           /\ Kept(list, I) = f[Len(list)]
  BY KeptBy
<1>2. Len(list) \in Nat
  OBVIOUS
<1> DEFINE Here(n) == /\ n <= d => f[n] = << >>
                      /\ n >= d => Len(f[n]) = n - d /\ \A k \in 1 .. n - d : f[n][k] = list[k + d]
           T == {n \in 0 .. Len(list) : Here(n)}
<1>3. 0 \in T
  <2>1. f[0] = << >>
    BY <1>1, <1>2 DEF KeptStep
  <2>2. d <= 0 => d = 0
    OBVIOUS
  <2> QED BY <1>2, <2>1, <2>2
<1>4. ASSUME NEW n \in 0 .. Len(list), n < Len(list), n \in T PROVE n + 1 \in T
  <2>1. /\ n + 1 \in 0 .. Len(list) /\ n + 1 \in 1 .. Len(list) /\ n + 1 # 0
        /\ (n + 1) - 1 = n /\ n \in 0 .. Len(list) /\ n \in Nat
    BY <1>2, <1>4
  <2>2. /\ KeptStep(list, I, f, n + 1) /\ f[n] \in Seq(S) /\ list[n + 1] \in S
    BY <1>1, <2>1
  <2> DEFINE x == list[n + 1]
             a == f[n]
  <2>3. /\ Len(Append(a, x)) = Len(a) + 1 /\ Len(a) \in Nat
        /\ Append(a, x)[Len(a) + 1] = x
        /\ \A k \in 1 .. Len(a) : Append(a, x)[k] = a[k]
    BY <2>2
  <2>4. CASE n + 1 <= d
    <3>1. n + 1 \notin I
      BY <2>1, <2>4
    <3>2. f[n + 1] = a
      BY <2>1, <2>2, <3>1 DEF KeptStep
    <3>3. a = << >>
      BY <1>4, <2>1, <2>4
    <3>4. Here(n + 1)
      <4>1. n + 1 >= d => n + 1 = d
        BY <2>1, <2>4
      <4>2. f[n + 1] = << >>
        BY <3>2, <3>3
      <4>3. n + 1 >= d => Len(f[n + 1]) = (n + 1) - d /\ 1 .. (n + 1) - d = {}
        BY <2>1, <4>1, <4>2
      <4> QED BY <4>2, <4>3
    <3> QED BY <2>1, <3>4
  <2>5. CASE ~(n + 1 <= d)
    <3>1. n + 1 \in I /\ n >= d
      BY <2>1, <2>5
    <3>2. f[n + 1] = Append(a, x)
      BY <2>1, <2>2, <3>1 DEF KeptStep
    <3>3. Len(a) = n - d /\ \A k \in 1 .. n - d : a[k] = list[k + d]
      BY <1>4, <3>1
    <3> HIDE DEF a
    <3>4. Len(f[n + 1]) = (n + 1) - d
      BY <2>1, <2>3, <3>2, <3>3
    <3>5. \A k \in 1 .. (n + 1) - d : f[n + 1][k] = list[k + d]
      <4>1. TAKE k \in 1 .. (n + 1) - d
      <4>2. CASE k \in 1 .. n - d
        BY <2>3, <3>2, <3>3, <4>2
      <4>3. CASE k = (n + 1) - d
        <5>1. k = Len(a) + 1 /\ k + d = n + 1
          BY <2>1, <3>3, <4>3
        <5> QED BY <2>3, <3>2, <5>1
      <4> QED BY <2>1, <3>1, <4>2, <4>3
    <3> QED BY <2>1, <2>5, <3>4, <3>5
  <2> QED BY <2>4, <2>5
<1>5. Len(list) \in T
  <2> HIDE DEF T
  <2>1. \A n \in 0 .. Len(list) : n \in T
    BY <1>2, <1>3, <1>4, UpTo
  <2> QED BY <1>2, <2>1
<1>6. f[Len(list)] \in Seq(S)
  BY <1>1, <1>2
<1> QED
  BY <1>1, <1>2, <1>5, <1>6

(* What is answered stays answered when the end may be open.               *)
LEMMA TalkOpens ==
  ASSUME NEW m, NEW open, NEW ordered
  PROVE  /\ Talk(m, FALSE, ordered) => Talk(m, open, ordered)
         /\ open /\ Talk(m, TRUE, ordered) => Talk(m, open, ordered)
BY Zenon DEF Talk

(***************************************************************************)
(* The conversation of a ReAct agent. Behind what the model was last asked *)
(* comes its turn; and the node about to run tells whether the calls of    *)
(* that turn are answered.                                                 *)
(***************************************************************************)
UpToATurn(p, m) ==
  \/ p = << >>
  \/ /\ Len(p) <= Len(m)
     /\ \A i \in 1 .. Len(p) : p[i] = m[i]
     /\ Len(p) < Len(m) => m[Len(p) + 1].role = "assistant"

(* The slots of the executor are empty or hold the ids of their calls.     *)
Executes(calls) ==
  /\ pending = calls
  /\ \A i \in DOMAIN out : out[i] \in {NoResult, pending[i].id}

Turned ==
  edits = 0 => /\ UpToATurn(asked, s.messages)
               /\ pc # "idle" /\ next = "tools" => Len(asked) < Len(s.messages)

Conversed ==
  edits = 0 /\ Talk(started.messages, FALSE, TRUE) =>
    /\ Talk(asked, FALSE, TRUE)
    /\ pc # "idle" /\ next = "model" => Talk(s.messages, FALSE, TRUE)
    /\ pc # "idle" /\ next = "tools" => Talk(s.messages, TRUE, TRUE)
    /\ pc # "idle" /\ next = END => Talk(s.messages, s.capped, TRUE)
    /\ pc = "idle" /\ ret = "nil" => Talk(s.messages, s.capped, TRUE)

ReActTalks ==
  /\ edits \in Nat /\ Turned /\ Conversed
  /\ pc = "calling" => Executes(CallsOf(LastOf(s.messages)))

ReActParts == cfg.kind = "react" /\ ReActTyped /\ Guarded /\ Counted /\ Placed /\ ReActTalks

LEMMA MessagesCall ==
  /\ \A x \in Message : CallsOf(x) \in Seq(Call)
  /\ \A x \in PeerMessage : CallsOf(x) \in Seq(PeerCall)
<1>1. \A x \in Message : CallsOf(x) \in Seq(Call)
  BY DEF CallsOf, Message
<1>2. \A x \in PeerMessage : CallsOf(x) \in Seq(PeerCall)
  BY DEF CallsOf, PeerMessage
<1> QED
  BY <1>1, <1>2

LEMMA TalkOfNone == ASSUME NEW ordered PROVE Talk(<< >>, FALSE, ordered)
BY DEF Talk

(* The run ends where it stands.                                           *)
LEMMA ReActTalksStand ==
  ASSUME ReActParts, UNCHANGED <<cfg, s, started, edits, next>>, pc # "idle", pc' = "idle",
         ret' = "nil" => next = END,
         asked' = asked \/ (asked' = s.messages /\ next = "model")
  PROVE  ReActTalks'
<1>1. /\ edits \in Nat /\ Turned /\ Conversed
      /\ s.messages \in Seq(Message)
  BY DEF ReActParts, ReActTalks, ReActTyped, ReActState
<1>2. Turned'
  <2>1. edits = 0 => UpToATurn(asked', s.messages)
    <3>1. CASE asked' = asked
      BY <1>1, <3>1 DEF Turned
    <3>2. CASE asked' = s.messages
      BY <1>1, <3>2 DEF UpToATurn
    <3> QED BY <3>1, <3>2
  <2> QED BY <2>1 DEF Turned
<1>3. Conversed'
  <2>1. SUFFICES ASSUME edits = 0, Talk(started.messages, FALSE, TRUE)
                 PROVE  /\ Talk(asked', FALSE, TRUE)
                        /\ ret' = "nil" => Talk(s.messages, s.capped, TRUE)
    BY DEF Conversed
  <2>2. /\ Talk(asked, FALSE, TRUE)
        /\ next = "model" => Talk(s.messages, FALSE, TRUE)
        /\ next = END => Talk(s.messages, s.capped, TRUE)
    BY <1>1, <2>1 DEF Conversed
  <2> QED BY <2>2
<1> QED
  BY <1>1, <1>2, <1>3 DEF ReActTalks

LEMMA ReActTalksInvoke ==
  ASSUME ReActParts, Invoke PROVE ReActTalks'
<1>1. /\ UNCHANGED <<cfg, s, asked, edits>> /\ started' = s
      /\ pc' = "top" /\ next' = cfg.graph.entry
  BY DEF Invoke, Begin, executor
<1>2. next' = "model" /\ "model" # "tools" /\ "model" # END
  BY <1>1, ReActCfg, NamesDistinct, ReActConstants DEF ReActParts, ReActTyped
<1>3. /\ edits \in Nat /\ Turned /\ s.messages \in Seq(Message) /\ asked \in Seq(Message)
  BY DEF ReActParts, ReActTalks, ReActTyped, ReActState
<1>4. Turned'
  BY <1>1, <1>2, <1>3 DEF Turned
<1>5. Conversed'
  <2>1. SUFFICES ASSUME edits = 0, Talk(s.messages, FALSE, TRUE) PROVE Talk(asked, FALSE, TRUE)
    BY <1>1, <1>2 DEF Conversed
  <2>2. CASE asked = << >>
    BY <2>2, TalkOfNone
  <2>3. CASE asked # << >>
    <3> HIDE DEF Message, Call
    <3>1. /\ Len(asked) <= Len(s.messages)
          /\ \A i \in 1 .. Len(asked) : asked[i] = s.messages[i]
          /\ Len(asked) < Len(s.messages) => s.messages[Len(asked) + 1].role = "assistant"
      BY <1>3, <2>1, <2>3 DEF Turned, UpToATurn
    <3> QED BY <1>3, <2>1, <3>1, TalkUpTo, MessagesCall
  <2> QED BY <2>2, <2>3
<1> QED
  BY <1>1, <1>3, <1>4, <1>5 DEF ReActTalks

LEMMA ReActTalksAnswers ==
  ASSUME ReActParts, ReActTyped', ModelNode, ModelAnswers PROVE ReActTalks'
<1> DEFINE m == s.messages
<1>1. /\ UNCHANGED <<cfg, started, edits>> /\ asked' = m
      /\ pc = "top" /\ next = "model"
  BY DEF ModelNode, ModelAnswers, At
<1>2. PICK n \in 0 .. MaxCalls :
        /\ s' = [messages   |-> Append(m, Assistant(ToolCalls(n))),
                 iterations |-> s.iterations + 1,
                 guarded    |-> Len(m),
                 digest     |-> IF cfg.guards THEN m ELSE s.digest,
                 capped     |-> s.capped \/ (n > 0 /\ s.iterations + 1 >= MaxIterations)]
        /\ Follow("model", Router(s'))
  BY DEF ModelAnswers
<1> DEFINE x == Assistant(ToolCalls(n))
           z == s'.messages
<1>3. /\ z = Append(m, x) /\ s'.iterations = s.iterations + 1
      /\ s'.capped = (s.capped \/ (n > 0 /\ s.iterations + 1 >= MaxIterations))
  BY <1>2
<1>4. /\ m \in Seq(Message) /\ z \in Seq(Message) /\ edits \in Nat /\ edits' = edits
      /\ s.iterations \in Nat /\ cfg \in ReActConfigs
  BY <1>1 DEF ReActParts, ReActTalks, ReActTyped, ReActState
<1>5. n \in Nat /\ x.role = "assistant" /\ CallsOf(x) = ToolCalls(n)
      /\ (CallsOf(x) = << >> <=> n = 0) /\ x \in Message
  <2>1. n \in Nat
    BY ReActConstants
  <2>2. x.role = "assistant" /\ CallsOf(x) = ToolCalls(n)
    BY DEF CallsOf, Assistant
  <2>3. Len(ToolCalls(n)) = n /\ DOMAIN ToolCalls(n) = 1 .. n
    BY <2>1 DEF ToolCalls
  <2>4. ToolCalls(n) = << >> <=> n = 0
    BY <2>1, <2>3 DEF ToolCalls
  <2>5. Len(m) + 1 \in DOMAIN z /\ z[Len(m) + 1] = x
    <3> HIDE DEF x, m
    <3> QED BY <1>3, <1>4, AppendProperties
  <2>6. x \in Message
    <3> HIDE DEF x, z, Message
    <3> QED BY <1>4, <2>5
  <2> QED BY <2>1, <2>2, <2>4, <2>6
<1> HIDE DEF x, m, z
<1>6. /\ Len(z) = Len(m) + 1 /\ Len(m) \in Nat /\ z[Len(m) + 1] = x
      /\ \A i \in 1 .. Len(m) : z[i] = m[i]
      /\ LastOf(z) = x
  <2> HIDE DEF Message
  <2>1. /\ Len(z) = Len(m) + 1 /\ Len(m) \in Nat /\ z[Len(m) + 1] = x
        /\ \A i \in 1 .. Len(m) : z[i] = m[i]
    BY <1>3, <1>4, <1>5, AppendProperties
  <2> QED BY <2>1 DEF LastOf
<1>7. (GoesTo(Router(s')) /\ (Router(s') = "tools" => "tools" \in cfg.graph.nodes)) \/ Breaks
  BY <1>2, <1>4, ReActRoutes
<1>8. Router(s') = IF s.iterations + 1 >= MaxIterations \/ n = 0 THEN END ELSE "tools"
  BY <1>3, <1>5, <1>6 DEF Router, z
<1>9. /\ pc' = "idle" /\ ret' # "nil"
      \/ /\ pc' = "top"
         /\ \/ next' = "tools"
            \/ next' = END /\ n = 0
            \/ next' = END /\ n > 0 /\ s.iterations + 1 >= MaxIterations
  BY <1>4, <1>5, <1>7, <1>8, ReActConstants DEF GoesTo, Breaks, RouteErrors
<1>10. Turned'
  <2>1. UpToATurn(m, z)
    <3>1. Len(m) <= Len(z) /\ Len(m) < Len(z)
      BY <1>6
    <3> QED BY <1>5, <1>6, <3>1 DEF UpToATurn
  <2>2. Len(m) < Len(z)
    BY <1>6
  <2> QED BY <1>1, <2>1, <2>2 DEF Turned, z
<1>11. Conversed'
  <2>0. END # "tools" /\ END # "model" /\ "model" # "tools"
    BY NamesDistinct, ReActConstants
  <2>1. SUFFICES ASSUME edits = 0, Talk(started.messages, FALSE, TRUE)
                 PROVE  /\ Talk(m, FALSE, TRUE)
                        /\ pc' # "idle" /\ next' = "tools" => Talk(z, TRUE, TRUE)
                        /\ pc' # "idle" /\ next' = END => Talk(z, s'.capped, TRUE)
    BY <1>1, <1>9, <2>0 DEF Conversed, z
  <2>2. Talk(m, FALSE, TRUE)
    BY <1>1, <2>1 DEF ReActParts, ReActTalks, Conversed, m
  <2>3. Talk(z, TRUE, TRUE) /\ (n = 0 => Talk(z, FALSE, TRUE))
    <3> HIDE DEF Message, Call
    <3> QED BY <1>3, <1>4, <1>5, <2>2, MessagesCall, TalkAsks
  <2>4. n = 0 => Talk(z, s'.capped, TRUE)
    BY <2>3, TalkOpens
  <2>5. n > 0 /\ s.iterations + 1 >= MaxIterations => Talk(z, s'.capped, TRUE)
    <3>1. SUFFICES ASSUME n > 0 /\ s.iterations + 1 >= MaxIterations PROVE Talk(z, s'.capped, TRUE)
      OBVIOUS
    <3>2. s'.capped
      BY <1>3, <3>1, Zenon
    <3> QED BY <2>3, <3>2, TalkOpens
  <2> QED BY <1>9, <2>0, <2>2, <2>3, <2>4, <2>5
<1> QED
  BY <1>4, <1>9, <1>10, <1>11 DEF ReActTalks

LEMMA ReActTalksStartTools ==
  ASSUME ReActParts, StartTools PROVE ReActTalks'
<1>1. /\ UNCHANGED <<cfg, s, next, ret, asked, started, edits>>
      /\ pc = "top" /\ next = "tools" /\ pc' = "calling"
      /\ pending' = CallsOf(LastOf(s.messages))
      /\ out' = [i \in DOMAIN pending' |-> NoResult]
  BY DEF StartTools, At, StartCalls, history, reactVars
<1>2. edits \in Nat /\ Turned /\ Conversed
  BY DEF ReActParts, ReActTalks
<1>3. Turned' /\ Conversed'
  BY <1>1, <1>2 DEF Turned, Conversed
<1>4. Executes(CallsOf(LastOf(s.messages)))'
  BY <1>1 DEF Executes
<1> QED
  BY <1>1, <1>2, <1>3, <1>4 DEF ReActTalks

(* What the executor collected answers its calls, in their order.          *)
LEMMA ResultsAnswer ==
  ASSUME NEW C, NEW c \in Seq(C), Executes(c), out \in [DOMAIN c -> Slot],
         \A i \in DOMAIN out : out[i] # NoResult
  PROVE  /\ Len(Results) = Len(c) /\ DOMAIN Results = 1 .. Len(c)
         /\ \A j \in 1 .. Len(c) : Results[j] = ToolResult(c[j].id)
<1>1. DOMAIN out = 1 .. Len(c) /\ Len(c) \in Nat
  OBVIOUS
<1>2. \A j \in 1 .. Len(c) : out[j] = c[j].id
  BY <1>1 DEF Executes
<1>3. Results = [j \in 1 .. Len(c) |-> ToolResult(out[j])]
  BY <1>1 DEF Results
<1> QED
  BY <1>1, <1>2, <1>3

LEMMA ReActTalksCollects ==
  ASSUME ReActParts, ReActTyped', ToolsNode PROVE ReActTalks'
<1> DEFINE m == s.messages
           c == CallsOf(LastOf(m))
           z == s'.messages
<1>1. /\ UNCHANGED <<cfg, asked, started, edits>>
      /\ pc = "calling" /\ \A i \in DOMAIN out : out[i] # NoResult
      /\ s' = [s EXCEPT !.messages = @ \o Results]
      /\ Follow("tools", Empty)
  BY DEF ToolsNode, AllReturned, Collected, history, reactVars
<1>2. next = "tools" /\ "tools" \in cfg.graph.nodes
  BY <1>1 DEF ReActParts, Placed, AtTools
<1>3. GoesTo("model")
  BY <1>1, <1>2, ReActRoutes DEF ReActParts, ReActTyped
<1>4. /\ m \in Seq(Message) /\ m # << >> /\ edits \in Nat /\ edits' = edits
      /\ LastOf(m) \in Message /\ c \in Seq(Call) /\ Executes(c)
      /\ out \in [DOMAIN c -> Slot]
  <2>1. m \in Seq(Message) /\ m # << >> /\ edits \in Nat /\ edits' = edits /\ Executes(c)
    BY <1>1 DEF ReActParts, ReActTyped, ReActState, ReActTalks
  <2>2. LastOf(m) \in Message
    <3> HIDE DEF Message, m
    <3> QED BY <2>1 DEF LastOf
  <2>3. c \in Seq(Call)
    BY <2>2, MessagesCall
  <2>4. out \in [DOMAIN c -> Slot]
    BY <2>1 DEF ReActParts, ReActTyped, Executes
  <2> QED BY <2>1, <2>2, <2>3, <2>4
<1>5. z = m \o Results
  BY DEF ReActParts, ReActTyped, ReActState, ToolsNode
<1> HIDE DEF c, m, z, Message, Call
<1>6. /\ Len(Results) = Len(c) /\ DOMAIN Results = 1 .. Len(c)
      /\ \A j \in 1 .. Len(c) : Results[j] = ToolResult(c[j].id)
  BY <1>1, <1>4, ResultsAnswer
<1>7. Results \in Seq(Message)
  <2>1. \A j \in 1 .. Len(c) : Results[j] \in Message
    <3>1. TAKE j \in 1 .. Len(c)
    <3>2. c[j] \in Call
      BY <1>4
    <3>3. c[j].id \in Nat \X Nat
      BY <3>2 DEF Call
    <3> QED BY <1>6, <3>3 DEF Message, ToolResult
  <2>2. Results = [j \in 1 .. Len(c) |-> Results[j]] /\ Len(c) \in Nat
    BY <1>4, <1>6 DEF Results
  <2> QED BY <2>1, <2>2
<1>8. /\ Len(m) \in Nat /\ Len(z) >= Len(m)
      /\ \A i \in 1 .. Len(m) : z[i] = m[i]
  BY <1>4, <1>5, <1>7, JoinedSeq
<1>9. "model" # "tools" /\ "model" # END /\ pc' = "top" /\ next' = "model"
  BY <1>3, NamesDistinct, ReActConstants DEF GoesTo
<1>10. Turned'
  <2>1. SUFFICES ASSUME edits = 0 PROVE UpToATurn(asked, z)
    BY <1>1, <1>9 DEF Turned, z
  <2>2. /\ UpToATurn(asked, m) /\ Len(asked) < Len(m) /\ Len(asked) \in Nat
    BY <1>1, <1>2, <2>1 DEF ReActParts, ReActTalks, ReActTyped, Turned, m
  <2>3. CASE asked # << >>
    <3>1. /\ \A i \in 1 .. Len(asked) : asked[i] = m[i] /\ i \in 1 .. Len(m)
          /\ m[Len(asked) + 1].role = "assistant"
          /\ Len(asked) + 1 \in 1 .. Len(m)
      BY <1>8, <2>2, <2>3 DEF UpToATurn
    <3>2. \A i \in 1 .. Len(asked) : asked[i] = z[i]
      BY <1>8, <3>1
    <3>3. z[Len(asked) + 1].role = "assistant" /\ Len(asked) <= Len(z)
      BY <1>5, <1>7, <1>4, JoinedSeq, <1>8, <2>2, <3>1
    <3> QED BY <3>2, <3>3 DEF UpToATurn
  <2> QED BY <2>3 DEF UpToATurn
<1>11. Conversed'
  <2>1. SUFFICES ASSUME edits = 0, Talk(started.messages, FALSE, TRUE)
                 PROVE  Talk(asked, FALSE, TRUE) /\ Talk(z, FALSE, TRUE)
    BY <1>1, <1>9 DEF Conversed, z
  <2>2. Talk(asked, FALSE, TRUE) /\ Talk(m, TRUE, TRUE)
    BY <1>1, <1>2, <2>1 DEF ReActParts, ReActTalks, Conversed, m
  <2>3. Talk(z, FALSE, TRUE)
    BY <1>4, <1>5, <1>6, <1>7, <2>2, MessagesCall, TalkCloses DEF c
  <2> QED BY <2>2, <2>3
<1> QED
  BY <1>4, <1>9, <1>10, <1>11 DEF ReActTalks

LEMMA ReActTalksLoops ==
  ASSUME ReActParts, Loop, UNCHANGED reactVars PROVE ReActTalks'
<1>1. UNCHANGED <<started, edits>>
  BY DEF reactVars
<1>2. /\ UNCHANGED <<cfg, s, next, step, pending, asked, turns, runs>>
      /\ \/ /\ pc = "top" /\ pc' = "idle" /\ out' = out
            /\ \/ next = END /\ ret' = "nil"
               \/ ret' = "cancelled"
               \/ next # END /\ step >= cfg.maxSteps /\ ret' = "max steps"
         \/ /\ pc = "calling" /\ pc' = "calling" /\ ret' = ret
            /\ \E i \in DOMAIN out : out' = [out EXCEPT ![i] = pending[i].id]
  BY LoopSteps
<1>3. CASE pc = "top"
  <2>1. pc' = "idle" /\ (ret' = "nil" => next = END)
    BY <1>2, <1>3
  <2> QED BY <1>1, <1>2, <1>3, <2>1, ReActTalksStand
<1>4. ASSUME pc = "calling", pc' = "calling", ret' = ret,
             NEW i \in DOMAIN out, out' = [out EXCEPT ![i] = pending[i].id]
      PROVE  ReActTalks'
  <2>1. edits \in Nat /\ Turned /\ Conversed /\ Executes(CallsOf(LastOf(s.messages)))
    BY <1>4 DEF ReActParts, ReActTalks
  <2>2. Turned' /\ Conversed'
    BY <1>1, <1>2, <1>4, <2>1 DEF Turned, Conversed
  <2>3. Executes(CallsOf(LastOf(s.messages)))'
    BY <1>2, <1>4, <2>1 DEF Executes
  <2> QED BY <1>1, <2>1, <2>2, <2>3 DEF ReActTalks
<1> QED
  BY <1>2, <1>3, <1>4

LEMMA ReActTalksHold == Init /\ cfg.kind = "react" => ReActTalks
<1> SUFFICES ASSUME Init, cfg.kind = "react" PROVE ReActTalks
  OBVIOUS
<1>1. asked = << >> /\ edits = 0 /\ pc = "idle" /\ ret = "edited"
  BY DEF Init
<1>2. Turned /\ Conversed
  BY <1>1, TalkOfNone DEF Turned, Conversed, UpToATurn
<1> QED
  BY <1>1, <1>2 DEF ReActTalks

LEMMA ReActTalksKept ==
  ASSUME ReActParts, ReActTyped', [Next]_vars PROVE ReActTalks'
<1>0. cfg' = cfg /\ cfg.kind = "react"
  BY ConfigIsFixed DEF ReActParts
<1>1. CASE UNCHANGED vars
  BY <1>1 DEF vars, agentVars, graphVars, executor, history, reactVars, ReActParts, ReActTalks,
     Turned, Conversed, Executes
<1>2. CASE Loop /\ UNCHANGED reactVars
  BY <1>2, ReActTalksLoops
<1>3. CASE Edit
  <2>1. edits' = edits + 1 /\ edits \in Nat /\ pc = "idle" /\ pc' = pc
    BY <1>3 DEF Edit, ReActParts, ReActTalks
  <2>2. edits' \in Nat /\ edits' # 0
    BY <2>1
  <2> QED BY <2>1, <2>2 DEF ReActTalks, Turned, Conversed
<1>4. CASE Invoke
  BY <1>4, ReActTalksInvoke
<1>5. CASE ModelNode /\ (InputBlocked \/ ModelFails)
  <2>1. UNCHANGED <<cfg, s, next, started, edits>> /\ pc' = "idle" /\ pc = "top" /\ next = "model"
    BY <1>5 DEF ModelNode, At, InputBlocked, ModelFails, NodeFails, Return
  <2>2. ret' # "nil" /\ (asked' = asked \/ asked' = s.messages)
    BY <1>5 DEF InputBlocked, ModelFails, NodeFails, Return
  <2> QED BY <2>1, <2>2, ReActTalksStand
<1>6. CASE ModelNode /\ ModelAnswers
  BY <1>6, ReActTalksAnswers
<1>7. CASE StartTools
  BY <1>7, ReActTalksStartTools
<1>8. CASE ToolsNode
  BY <1>8, ReActTalksCollects
<1> QED
  BY <1>0, <1>1, <1>2, <1>3, <1>4, <1>5, <1>6, <1>7, <1>8 DEF Next, ReActNext, ModelNode

(***************************************************************************)
(* The conversation of a swarm: every agent works on one whose calls are   *)
(* answered, but for those it just made.                                   *)
(***************************************************************************)
OneSystem(m) == \A i \in 1 .. Len(m) : m[i].role = "system" => i = 1

SwarmTalks ==
  /\ asked \in Seq(PeerMessage) /\ Talk(asked, FALSE, FALSE)
  /\ Talk(s.messages, FALSE, FALSE) /\ OneSystem(s.messages)
  /\ pc \in {"agent", "calling"} => OneSystem(w.messages)
  /\ pc = "agent" => Talk(w.messages, FALSE, FALSE)
  /\ pc = "calling" =>
       /\ Talk(w.messages, TRUE, FALSE)
       /\ Executes(RealCalls(CallsOf(LastOf(w.messages))))

(* An agent is shown its own instructions before the conversation, and in  *)
(* the place of those that stand there.                                    *)
LEMMA ShownTalks ==
  ASSUME NEW m \in Seq(PeerMessage), OneSystem(m), Talk(m, FALSE, FALSE)
  PROVE  Shown(m) \in Seq(PeerMessage) /\ Talk(Shown(m), FALSE, FALSE)
<1> DEFINE I == {i \in DOMAIN m : m[i].role # "system"}
           k == Kept(m, I)
<1>1. /\ System \in PeerMessage /\ CallsOf(System) = << >>
      /\ \A x \in PeerMessage : x.role = "system" => x = System
  BY DEF System, PeerMessage, CallsOf
<1>2. Len(m) \in Nat /\ DOMAIN m = 1 .. Len(m)
  OBVIOUS
<1>3. Shown(m) = <<System>> \o k
  BY DEF Shown
<1> HIDE DEF PeerMessage, System, k
<1>4. CASE \A i \in 1 .. Len(m) : m[i].role # "system"
  <2>1. \A i \in 1 .. Len(m) : i \in I <=> i > 0
    BY <1>2, <1>4
  <2>2. k \in Seq(PeerMessage) /\ Len(k) = Len(m) - 0 /\ \A i \in 1 .. Len(m) - 0 : k[i] = m[i + 0]
    <3> HIDE DEF I
    <3>1. 0 \in Nat /\ 0 <= Len(m)
      BY <1>2
    <3> QED BY <2>1, <3>1, KeptRest DEF k
  <2>3. k = m
    <3>1. Len(k) = Len(m) /\ \A i \in 1 .. Len(m) : k[i] = m[i]
      BY <1>2, <2>2
    <3> QED BY <2>2, <3>1
  <2>4. Talk(<<System>> \o m, FALSE, FALSE)
    BY <1>1, MessagesCall, TalkBehind
  <2>5. <<System>> \o m \in Seq(PeerMessage)
    BY <1>1
  <2> QED BY <1>3, <2>3, <2>4, <2>5
<1>5. CASE \E i \in 1 .. Len(m) : m[i].role = "system"
  <2>1. /\ 1 \in 1 .. Len(m) /\ m[1].role = "system"
        /\ \A i \in 1 .. Len(m) : m[i].role = "system" <=> i = 1
    BY <1>5 DEF OneSystem
  <2>2. m[1] = System
    BY <1>1, <2>1
  <2>3. \A i \in 1 .. Len(m) : i \in I <=> i > 1
    BY <1>2, <2>1
  <2>4. k \in Seq(PeerMessage) /\ Len(k) = Len(m) - 1 /\ \A i \in 1 .. Len(m) - 1 : k[i] = m[i + 1]
    <3> HIDE DEF I
    <3>1. 1 \in Nat /\ 1 <= Len(m)
      BY <1>2, <2>1
    <3> QED BY <2>3, <3>1, KeptRest DEF k
  <2>5. <<System>> \o k = m
    <3> DEFINE n == <<System>> \o k
    <3>1. /\ n \in Seq(PeerMessage) /\ Len(n) = 1 + Len(k) /\ n[1] = System
          /\ \A i \in 1 .. Len(k) : n[1 + i] = k[i]
      <4>1. <<System>> \in Seq(PeerMessage) /\ Len(<<System>>) = 1 /\ <<System>>[1] = System
        BY <1>1
      <4>2. 1 \in 1 .. Len(<<System>>)
        BY <4>1
      <4> QED BY <2>4, <4>1, <4>2, JoinedSeq
    <3> HIDE DEF n
    <3>2. Len(n) = Len(m)
      BY <1>2, <2>4, <3>1
    <3>3. \A i \in 1 .. Len(m) : n[i] = m[i]
      <4>1. TAKE i \in 1 .. Len(m)
      <4>2. CASE i = 1
        BY <2>2, <3>1, <4>2
      <4>3. CASE i # 1
        <5>1. i - 1 \in 1 .. Len(m) - 1 /\ (i - 1) + 1 = i /\ 1 + (i - 1) = i
          BY <1>2, <4>3
        <5>2. n[1 + (i - 1)] = k[i - 1] /\ k[i - 1] = m[(i - 1) + 1]
          BY <2>4, <3>1, <5>1
        <5> QED BY <5>1, <5>2
      <4> QED BY <4>2, <4>3
    <3>4. n = m
      BY <3>1, <3>2, <3>3
    <3> QED BY <3>4 DEF n
  <2> QED BY <1>3, <2>5
<1> QED
  BY <1>4, <1>5

LEMMA OneSystemGrows ==
  ASSUME NEW S, NEW m \in Seq(S), OneSystem(m)
  PROVE  /\ \A x \in S : x.role # "system" => OneSystem(Append(m, x))
         /\ \A r \in Seq(S) :
              (\A i \in 1 .. Len(r) : r[i].role # "system") => OneSystem(m \o r)
<1>1. ASSUME NEW x \in S, x.role # "system" PROVE OneSystem(Append(m, x))
  <2> DEFINE n == Append(m, x)
  <2>1. /\ Len(n) = Len(m) + 1 /\ n[Len(m) + 1] = x /\ Len(m) \in Nat
        /\ \A i \in 1 .. Len(m) : n[i] = m[i]
    BY AppendProperties
  <2> HIDE DEF n
  <2>2. \A i \in 1 .. Len(n) : i \in 1 .. Len(m) \/ i = Len(m) + 1
    BY <2>1
  <2>3. OneSystem(n)
    BY <1>1, <2>1, <2>2 DEF OneSystem
  <2> QED BY <2>3 DEF n
<1>2. ASSUME NEW r \in Seq(S), \A i \in 1 .. Len(r) : r[i].role # "system"
      PROVE  OneSystem(m \o r)
  <2> DEFINE n == m \o r
  <2>1. /\ Len(n) = Len(m) + Len(r) /\ Len(m) \in Nat /\ Len(r) \in Nat
        /\ \A i \in 1 .. Len(m) : n[i] = m[i]
        /\ \A k \in 1 .. Len(r) : n[Len(m) + k] = r[k]
    BY ONLY m \in Seq(S), r \in Seq(S), JoinedSeq
  <2> HIDE DEF n
  <2>2. \A i \in 1 .. Len(n) :
          i \in 1 .. Len(m) \/ (i - Len(m) \in 1 .. Len(r) /\ Len(m) + (i - Len(m)) = i)
    BY <2>1
  <2>3. \A i \in 1 .. Len(n) : i \notin 1 .. Len(m) => n[i].role # "system"
    <3>1. TAKE i \in 1 .. Len(n)
    <3>2. CASE i \notin 1 .. Len(m)
      <4>1. i - Len(m) \in 1 .. Len(r) /\ Len(m) + (i - Len(m)) = i
        BY <2>2, <3>2
      <4>2. n[Len(m) + (i - Len(m))] = r[i - Len(m)] /\ r[i - Len(m)].role # "system"
        BY <1>2, <2>1, <4>1
      <4> QED BY <4>1, <4>2
    <3> QED BY <3>2
  <2>4. OneSystem(n)
    BY <2>1, <2>3 DEF OneSystem
  <2> QED BY <2>4 DEF n
<1> QED
  BY <1>1, <1>2

(* The run ends where it stands, or goes on with the same conversation.    *)
LEMMA SwarmTalksStand ==
  ASSUME SwarmParts, SwarmTalks, UNCHANGED s, pc' \in {"idle", "top"},
         asked' = asked \/ (asked' = Shown(w.messages) /\ pc = "agent")
  PROVE  SwarmTalks'
<1>1. Talk(s.messages, FALSE, FALSE) /\ OneSystem(s.messages)
  BY DEF SwarmTalks
<1>2. asked' \in Seq(PeerMessage) /\ Talk(asked', FALSE, FALSE)
  <2>1. CASE asked' = asked
    BY <2>1 DEF SwarmTalks
  <2>2. CASE asked' = Shown(w.messages) /\ pc = "agent"
    <3>1. /\ w.messages \in Seq(PeerMessage) /\ OneSystem(w.messages)
          /\ Talk(w.messages, FALSE, FALSE)
      BY <2>2 DEF SwarmTalks, SwarmParts, SwarmTyped, SwarmState
    <3> QED BY <2>2, <3>1, ShownTalks
  <2> QED BY <2>1, <2>2
<1> QED
  BY <1>1, <1>2 DEF SwarmTalks

LEMMA SwarmTalksActivates ==
  ASSUME SwarmParts, SwarmTalks, NEW a \in DOMAIN Agents, Activate(a)
  PROVE  SwarmTalks'
<1>1. UNCHANGED <<s, asked>> /\ pc' = "agent" /\ w' = [s EXCEPT !.hops = @ + 1]
  BY DEF Activate, history
<1>2. w'.messages = s.messages
  BY <1>1 DEF SwarmParts, SwarmTyped, SwarmState
<1> QED
  BY <1>1, <1>2 DEF SwarmTalks

(* The turn of an agent's model.                                           *)
LEMMA TurnTalks ==
  ASSUME SwarmParts, SwarmTalks, pc = "agent", NEW calls \in Turns
  PROVE  LET m == Append(w.messages, Assistant(calls)) IN
         /\ m \in Seq(PeerMessage) /\ m # << >> /\ LastOf(m) = Assistant(calls)
         /\ CallsOf(Assistant(calls)) = calls /\ calls \in Seq(PeerCall)
         /\ OneSystem(m) /\ Talk(m, TRUE, FALSE)
         /\ calls = << >> => Talk(m, FALSE, FALSE)
<1> DEFINE x == Assistant(calls)
           m == Append(w.messages, x)
<1>1. /\ w.messages \in Seq(PeerMessage) /\ turns \in Nat
      /\ OneSystem(w.messages) /\ Talk(w.messages, FALSE, FALSE)
  BY DEF SwarmTalks, SwarmParts, SwarmTyped, SwarmState
<1>2. calls \in Seq(PeerCall)
  BY <1>1, TurnsAreLists
<1>3. x \in PeerMessage /\ CallsOf(x) = calls /\ x.role # "system"
  BY <1>2 DEF Assistant, PeerMessage, CallsOf
<1> HIDE DEF x, PeerMessage, PeerCall
<1>4. m \in Seq(PeerMessage) /\ m # << >> /\ LastOf(m) = x
  BY <1>1, <1>3, AppendProperties DEF LastOf
<1>5. OneSystem(m)
  BY <1>1, <1>3, OneSystemGrows
<1>6. Talk(m, TRUE, FALSE) /\ (calls = << >> => Talk(m, FALSE, FALSE))
  BY <1>1, <1>3, MessagesCall, TalkAsks
<1> QED
  BY <1>2, <1>3, <1>4, <1>5, <1>6 DEF x

LEMMA AgentTalked ==
  ASSUME SwarmParts, SwarmTalks, pc = "agent", NEW z, AgentReturns(z),
         asked' = Shown(w.messages),
         Talk(z.messages, FALSE, FALSE), OneSystem(z.messages)
  PROVE  SwarmTalks'
<1>1. s' = z /\ Follow(next, SwarmRouter(z))
  BY DEF AgentReturns
<1>2. pc' \in {"idle", "top"}
  BY <1>1 DEF Follow, Return
<1>3. asked' \in Seq(PeerMessage) /\ Talk(asked', FALSE, FALSE)
  <2>1. /\ w.messages \in Seq(PeerMessage) /\ OneSystem(w.messages)
        /\ Talk(w.messages, FALSE, FALSE)
    BY DEF SwarmTalks, SwarmParts, SwarmTyped, SwarmState
  <2> QED BY <2>1, ShownTalks
<1> QED
  BY <1>1, <1>2, <1>3 DEF SwarmTalks

(* A handoff closes the turn: every call of it is acknowledged.            *)
LEMMA HandoffTalks ==
  ASSUME NEW calls \in Seq(PeerCall), NEW m \in Seq(PeerMessage), m # << >>,
         calls = CallsOf(LastOf(m)), OneSystem(m), Talk(m, TRUE, FALSE)
  PROVE  /\ Talk(m \o Acknowledge(calls), FALSE, FALSE)
         /\ OneSystem(m \o Acknowledge(calls))
<1> DEFINE r == Acknowledge(calls)
<1>1. r \in Seq(PeerMessage) /\ Len(r) = Len(calls)
  BY RepliesAreMessages DEF Acknowledge
<1>2. \A k \in 1 .. Len(calls) : r[k] = ToolResult(calls[k].id)
  BY DEF Acknowledge
<1> HIDE DEF r, PeerMessage, PeerCall
<1>3. \A k \in 1 .. Len(calls) : r[k].role # "system"
  <2>1. \A id : ToolResult(id).role # "system"
    BY DEF ToolResult
  <2> QED BY <1>2, <2>1
<1>4. Talk(m \o r, FALSE, FALSE)
  BY <1>1, <1>2, MessagesCall, TalkCloses
<1>5. OneSystem(m \o r)
  BY <1>1, <1>3, OneSystemGrows
<1> QED
  BY <1>4, <1>5 DEF r

LEMMA SwarmTalksAsks ==
  ASSUME SwarmParts, SwarmTalks, AskAgent
  PROVE  SwarmTalks'
<1>1. pc = "agent" /\ asked' = Shown(w.messages)
  BY DEF AskAgent
<1>2. CASE NodeFails({"model"}) /\ UNCHANGED <<turns, executor, locals>>
  BY <1>1, <1>2, SwarmTalksStand DEF NodeFails, Return
<1>3. ASSUME NEW calls \in Turns,
             LET messages == Append(w.messages, Assistant(calls)) IN
             IF calls = << >> THEN AgentAnswers(messages)
             ELSE IF Handoffs(calls) # << >> THEN AgentHandsOff(messages, calls)
             ELSE AgentCalls(messages, calls)
      PROVE  SwarmTalks'
  <2> DEFINE m == Append(w.messages, Assistant(calls))
  <2>1. /\ m \in Seq(PeerMessage) /\ m # << >> /\ LastOf(m) = Assistant(calls)
        /\ CallsOf(Assistant(calls)) = calls /\ calls \in Seq(PeerCall)
        /\ OneSystem(m) /\ Talk(m, TRUE, FALSE)
        /\ calls = << >> => Talk(m, FALSE, FALSE)
    BY <1>1, TurnTalks
  <2>2. w \in SwarmState
    BY DEF SwarmParts, SwarmTyped
  <2>3. \/ AgentAnswers(m) /\ calls = << >>
        \/ AgentHandsOff(m, calls)
        \/ AgentCalls(m, calls)
    BY <1>3
  <2> HIDE DEF m
  <2>4. CASE AgentAnswers(m) /\ calls = << >>
    <3>1. PICK final \in {Empty, Final} :
            AgentReturns([w EXCEPT !.messages = m, !.final = final, !.active = Empty])
      BY <2>4 DEF AgentAnswers
    <3> DEFINE z == [w EXCEPT !.messages = m, !.final = final, !.active = Empty]
    <3>2. z.messages = m
      <4>1. ASSUME NEW y, y = [w EXCEPT !.messages = m, !.final = final, !.active = Empty]
            PROVE  y.messages = m
        BY <2>2, <4>1 DEF SwarmState
      <4>2. z = [w EXCEPT !.messages = m, !.final = final, !.active = Empty]
        OBVIOUS
      <4> HIDE DEF z
      <4> QED BY <4>1, <4>2
    <3>3. AgentReturns(z)
      BY <3>1
    <3> HIDE DEF z
    <3> QED BY <1>1, <2>1, <2>4, <3>2, <3>3, AgentTalked
  <2>5. CASE AgentHandsOff(m, calls)
    <3> DEFINE n == m \o Acknowledge(calls)
               a == Handoffs(calls)[1].to
               z == [w EXCEPT !.messages = n, !.active = a]
    <3>1. AgentReturns(z)
      BY <2>5 DEF AgentHandsOff
    <3>2. Talk(n, FALSE, FALSE) /\ OneSystem(n)
      BY <2>1, HandoffTalks
    <3>3. z.messages = n
      <4>1. z = [w EXCEPT !.messages = n, !.active = a]
        OBVIOUS
      <4> HIDE DEF n, a, z
      <4>2. z = [messages |-> n, active |-> a, hops |-> w.hops, final |-> w.final]
        BY <2>2, <4>1, HandoffWritten
      <4> QED BY <4>2
    <3> HIDE DEF z, n
    <3> QED BY <1>1, <3>1, <3>2, <3>3, AgentTalked
  <2>6. CASE AgentCalls(m, calls)
    <3>1. CASE NodeFails({"no tools"})
      BY <1>1, <3>1, SwarmTalksStand DEF NodeFails, Return
    <3>2. CASE w' = [w EXCEPT !.messages = m] /\ StartCalls(RealCalls(calls))
               /\ UNCHANGED <<s, next>>
      <4>1. w'.messages = m
        BY <2>2, <3>2 DEF SwarmState
      <4>2. asked' \in Seq(PeerMessage) /\ Talk(asked', FALSE, FALSE)
        <5>1. /\ w.messages \in Seq(PeerMessage) /\ OneSystem(w.messages)
              /\ Talk(w.messages, FALSE, FALSE)
          BY <1>1 DEF SwarmTalks, SwarmParts, SwarmTyped, SwarmState
        <5> QED BY <1>1, <5>1, ShownTalks
      <4>3. Executes(RealCalls(calls))'
        BY <3>2 DEF StartCalls, Executes
      <4>4. Executes(RealCalls(CallsOf(LastOf(w.messages))))'
        <5>1. next' = next /\ CallsOf(LastOf(w'.messages)) = calls
          BY <2>1, <3>2, <4>1
        <5> QED BY <4>3, <5>1 DEF Executes, RealCalls
      <4>5. pc' = "calling"
        BY <3>2 DEF StartCalls
      <4>6. Talk(s'.messages, FALSE, FALSE) /\ OneSystem(s'.messages)
        BY <3>2 DEF SwarmTalks
      <4> QED BY <2>1, <4>1, <4>2, <4>4, <4>5, <4>6 DEF SwarmTalks
    <3> QED BY <2>6, <3>1, <3>2 DEF AgentCalls
  <2> QED BY <2>3, <2>4, <2>5, <2>6
<1> QED
  BY <1>2, <1>3 DEF AskAgent

(* The results of the tools, and behind them the refusals of the other     *)
(* calls.                                                                  *)
LEMMA RepliesCover ==
  ASSUME NEW c \in Seq(PeerCall), Executes(RealCalls(c)),
         out \in [DOMAIN pending -> Slot], \A i \in DOMAIN out : out[i] # NoResult
  PROVE  LET r == Results \o Rejected(c) IN
         /\ Results \in Seq(PeerMessage) /\ Rejected(c) \in Seq(PeerMessage)
         /\ Len(r) = Len(c)
         /\ \A j \in 1 .. Len(c) : \E k \in 1 .. Len(c) : r[k] = ToolResult(c[j].id)
         /\ \A k \in 1 .. Len(c) : \E j \in 1 .. Len(c) : r[k] = ToolResult(c[j].id)
<1> DEFINE I == {i \in DOMAIN c : c[i].to = Tool}
           J == {i \in DOMAIN c : c[i].to # Tool}
           a == RealCalls(c)
           b == Kept(c, J)
           q == Rejected(c)
           r == Results \o q
<1>1. DOMAIN c = 1 .. Len(c) /\ Len(c) \in Nat /\ a = Kept(c, I)
  BY DEF RealCalls
<1>2. /\ \A i \in 1 .. Len(c) : i \in I \/ i \in J
      /\ \A i \in 1 .. Len(c) : i \in I <=> i \notin J
  BY <1>1
<1>3. b = Kept(c, J) /\ q = [i \in DOMAIN b |-> ToolResult(b[i].id)]
  BY DEF Rejected
<1> HIDE DEF I, J, a, b, q, PeerCall, PeerMessage
<1>4. /\ a \in Seq(PeerCall) /\ b \in Seq(PeerCall)
      /\ \A k \in 1 .. Len(a) : \E i \in 1 .. Len(c) : a[k] = c[i]
      /\ \A i \in I \cap (1 .. Len(c)) : \E k \in 1 .. Len(a) : a[k] = c[i]
      /\ \A k \in 1 .. Len(b) : \E i \in 1 .. Len(c) : b[k] = c[i]
      /\ \A i \in J \cap (1 .. Len(c)) : \E k \in 1 .. Len(b) : b[k] = c[i]
  <2>1. /\ a \in Seq(PeerCall)
        /\ \A k \in DOMAIN a : \E i \in I \cap (1 .. Len(c)) : a[k] = c[i]
        /\ \A i \in I \cap (1 .. Len(c)) : \E k \in DOMAIN a : a[k] = c[i]
    BY <1>1, KeptElements
  <2>2. /\ b \in Seq(PeerCall)
        /\ \A k \in DOMAIN b : \E i \in J \cap (1 .. Len(c)) : b[k] = c[i]
        /\ \A i \in J \cap (1 .. Len(c)) : \E k \in DOMAIN b : b[k] = c[i]
    <3>1. DOMAIN c = 1 .. Len(c) /\ Len(c) \in Nat /\ b = Kept(c, J)
      BY <1>1, <1>3
    <3> QED BY <3>1, KeptElements
  <2>3. DOMAIN a = 1 .. Len(a) /\ DOMAIN b = 1 .. Len(b)
    BY <2>1, <2>2
  <2> QED BY <2>1, <2>2, <2>3
<1>5. Len(a) + Len(b) = Len(c) /\ Len(a) \in Nat /\ Len(b) \in Nat
  <2>1. Len(a) + Len(b) = Len(c)
    BY <1>1, <1>2, <1>3, KeptSplits
  <2> QED BY <1>4, <2>1
<1>6. /\ Len(Results) = Len(a) /\ DOMAIN Results = 1 .. Len(a)
      /\ \A j \in 1 .. Len(a) : Results[j] = ToolResult(a[j].id)
  <2>1. Executes(a) /\ pending = a
    BY DEF Executes, a
  <2> QED BY <1>4, <2>1, ResultsAnswer
<1>7. \A x \in PeerCall : ToolResult(x.id) \in PeerMessage
  BY DEF PeerCall, PeerMessage, ToolResult
<1>8. Results \in Seq(PeerMessage)
  <2>1. \A j \in 1 .. Len(a) : Results[j] \in PeerMessage
    BY <1>4, <1>6, <1>7
  <2>2. Results = [j \in 1 .. Len(a) |-> Results[j]]
    BY <1>6 DEF Results
  <2> QED BY <1>5, <2>1, <2>2
<1>9. /\ q \in Seq(PeerMessage) /\ Len(q) = Len(b)
      /\ \A j \in 1 .. Len(b) : q[j] = ToolResult(b[j].id)
  <2>1. q \in Seq(PeerMessage) /\ Len(q) = Len(b)
    BY <1>3, <1>4, RepliesAreMessages
  <2>2. \A j \in 1 .. Len(b) : q[j] = ToolResult(b[j].id)
    BY <1>3, <1>4
  <2> QED BY <2>1, <2>2
<1>10. /\ Len(r) = Len(c)
       /\ \A k \in 1 .. Len(a) : r[k] = ToolResult(a[k].id)
       /\ \A k \in 1 .. Len(b) : r[Len(a) + k] = ToolResult(b[k].id)
  <2>1. /\ Len(r) = Len(Results) + Len(q)
        /\ \A k \in 1 .. Len(Results) : r[k] = Results[k]
        /\ \A k \in 1 .. Len(q) : r[Len(Results) + k] = q[k]
    <3>1. q \in Seq(PeerMessage)
      BY <1>9
    <3> QED BY ONLY <1>8, <3>1, JoinedSeq
  <2> HIDE DEF r
  <2> QED BY <1>5, <1>6, <1>9, <2>1
<1> HIDE DEF r
<1>11. ASSUME NEW j \in 1 .. Len(c)
       PROVE  \E k \in 1 .. Len(c) : r[k] = ToolResult(c[j].id)
  <2>1. CASE j \in I
    <3>1. PICK k \in 1 .. Len(a) : a[k] = c[j]
      BY <1>4, <2>1
    <3>2. k \in 1 .. Len(c)
      BY <1>5
    <3> QED BY <1>10, <3>1, <3>2
  <2>2. CASE j \in J
    <3>1. PICK k \in 1 .. Len(b) : b[k] = c[j]
      BY <1>4, <2>2
    <3>2. Len(a) + k \in 1 .. Len(c)
      BY <1>5
    <3> QED BY <1>10, <3>1, <3>2
  <2> QED BY <1>2, <2>1, <2>2
<1>12. ASSUME NEW k \in 1 .. Len(c)
       PROVE  \E j \in 1 .. Len(c) : r[k] = ToolResult(c[j].id)
  <2>1. CASE k \in 1 .. Len(a)
    <3>1. PICK i \in 1 .. Len(c) : a[k] = c[i]
      BY <1>4, <2>1
    <3> QED BY <1>10, <2>1, <3>1
  <2>2. CASE k \notin 1 .. Len(a)
    <3>1. k - Len(a) \in 1 .. Len(b) /\ Len(a) + (k - Len(a)) = k
      BY <1>5, <2>2
    <3>2. r[Len(a) + (k - Len(a))] = ToolResult(b[k - Len(a)].id)
      BY <1>10, <3>1
    <3> QED BY <1>4, <3>1, <3>2
  <2> QED BY <2>1, <2>2
<1> QED
  BY <1>8, <1>9, <1>10, <1>11, <1>12 DEF r, q

LEMMA SwarmTalksCollects ==
  ASSUME SwarmParts, SwarmTalks, AgentTools
  PROVE  SwarmTalks'
<1> DEFINE m == w.messages
           c == CallsOf(LastOf(m))
           r == Results \o Rejected(c)
<1>1. /\ UNCHANGED <<s, asked>>
      /\ pc = "calling" /\ \A i \in DOMAIN out : out[i] # NoResult
      /\ pc' = "agent"
      /\ w' = [w EXCEPT !.messages = @ \o Results \o Rejected(c)]
  BY DEF AgentTools, AllReturned, history
<1>2. /\ m \in Seq(PeerMessage) /\ m # << >> /\ OneSystem(m) /\ Talk(m, TRUE, FALSE)
      /\ Executes(RealCalls(c)) /\ out \in [DOMAIN pending -> Slot]
      /\ w'.messages = m \o Results \o Rejected(c)
  BY <1>1 DEF SwarmTalks, SwarmParts, SwarmTyped, SwarmPlaced, InAgent, SwarmState
<1>3. LastOf(m) \in PeerMessage /\ c \in Seq(PeerCall)
  <2> HIDE DEF m, PeerMessage
  <2>1. LastOf(m) \in PeerMessage
    BY <1>2 DEF LastOf
  <2> QED BY <2>1, MessagesCall
<1> HIDE DEF m, c, PeerMessage, PeerCall
<1>4. /\ Results \in Seq(PeerMessage) /\ Rejected(c) \in Seq(PeerMessage)
      /\ Len(r) = Len(c)
      /\ \A j \in 1 .. Len(c) : \E k \in 1 .. Len(c) : r[k] = ToolResult(c[j].id)
      /\ \A k \in 1 .. Len(c) : \E j \in 1 .. Len(c) : r[k] = ToolResult(c[j].id)
  BY <1>1, <1>2, <1>3, RepliesCover
<1>5. r \in Seq(PeerMessage) /\ m \o Results \o Rejected(c) = m \o r
  BY <1>2, <1>4, ConcatAssociative, ConcatProperties
<1> HIDE DEF r
<1>6. Talk(m \o r, FALSE, FALSE)
  BY <1>2, <1>4, <1>5, MessagesCall, TalkCloses DEF c
<1>7. OneSystem(m \o r)
  <2>1. \A id : ToolResult(id).role # "system"
    BY DEF ToolResult
  <2>2. \A k \in 1 .. Len(r) : r[k].role # "system"
    <3>1. TAKE k \in 1 .. Len(r)
    <3>2. PICK j \in 1 .. Len(c) : r[k] = ToolResult(c[j].id)
      BY <1>4
    <3> QED BY <2>1, <3>2
  <2> QED BY <1>2, <1>5, <2>2, OneSystemGrows
<1>8. Talk(w'.messages, FALSE, FALSE) /\ OneSystem(w'.messages)
  BY <1>2, <1>5, <1>6, <1>7
<1> QED
  BY <1>1, <1>8 DEF SwarmTalks

LEMMA SwarmTalksLoops ==
  ASSUME SwarmParts, SwarmTalks, Loop, UNCHANGED locals
  PROVE  SwarmTalks'
<1>1. /\ UNCHANGED <<cfg, s, next, step, pending, asked, turns, runs, w>>
      /\ \/ /\ pc = "top" /\ pc' = "idle" /\ out' = out
         \/ /\ pc = "calling" /\ pc' = "calling"
            /\ \E i \in DOMAIN out : out' = [out EXCEPT ![i] = pending[i].id]
  BY LoopSteps DEF locals
<1>2. CASE pc = "top" /\ pc' = "idle"
  BY <1>1, <1>2, SwarmTalksStand
<1>3. ASSUME pc = "calling", pc' = "calling",
             NEW i \in DOMAIN out, out' = [out EXCEPT ![i] = pending[i].id]
      PROVE  SwarmTalks'
  <2>1. Executes(RealCalls(CallsOf(LastOf(w.messages))))
    BY <1>3 DEF SwarmTalks
  <2>2. Executes(RealCalls(CallsOf(LastOf(w.messages))))'
    BY <1>1, <1>3, <2>1 DEF Executes, RealCalls
  <2> QED BY <1>1, <1>3, <2>2 DEF SwarmTalks
<1> QED
  BY <1>1, <1>2, <1>3

LEMMA SwarmTalksHold == Init /\ cfg.kind = "swarm" => SwarmTalks
<1> SUFFICES ASSUME Init, cfg.kind = "swarm" PROVE SwarmTalks
  OBVIOUS
<1>1. asked = << >> /\ pc = "idle" /\ s \in SwarmSeeds
  BY DEF Init, Seeds
<1>2. PICK m \in {<<User("hello")>>, <<System, User("hello")>>} : s.messages = m
  BY <1>1 DEF SwarmSeeds
<1>3. /\ \A i \in 1 .. Len(m) : CallsOf(m[i]) = << >> /\ (m[i].role = "system" => i = 1)
      /\ Len(m) \in Nat
  BY DEF User, System, CallsOf
<1>4. Talk(m, FALSE, FALSE)
  <2>1. \A i \in 1 .. Len(m) : Len(CallsOf(m[i])) = 0 /\ i + 0 <= Len(m)
    BY <1>3
  <2> QED BY <1>3, <2>1 DEF Talk, Block
<1>5. << >> \in Seq(PeerMessage) /\ Talk(<< >>, FALSE, FALSE)
  <2>1. << >> \in Seq(PeerMessage)
    OBVIOUS
  <2> QED BY <2>1, TalkOfNone
<1>6. OneSystem(m)
  BY <1>3 DEF OneSystem
<1> HIDE DEF PeerMessage
<1> QED
  BY <1>1, <1>2, <1>4, <1>5, <1>6 DEF SwarmTalks

LEMMA SwarmTalksKept ==
  ASSUME SwarmParts, SwarmTalks, [Next]_vars PROVE SwarmTalks'
<1>0. cfg' = cfg /\ cfg.kind = "swarm"
  BY ConfigIsFixed, SwarmCfg DEF SwarmParts
<1>1. CASE UNCHANGED vars
  <2>1. UNCHANGED <<s, pc, next, pending, out, asked, w>>
    BY <1>1 DEF vars, agentVars, graphVars, executor, history, locals
  <2> QED BY <2>1 DEF SwarmTalks, Executes, RealCalls
<1>2. CASE Loop /\ UNCHANGED locals
  BY <1>2, SwarmTalksLoops
<1>3. CASE SwarmStart
  BY <1>3, SwarmTalksStand DEF SwarmStart, Begin
<1>4. CASE AskAgent
  BY <1>4, SwarmTalksAsks
<1>5. CASE AgentTools
  BY <1>5, SwarmTalksCollects
<1>6. CASE AgentExhausted
  BY <1>6, SwarmTalksStand DEF AgentExhausted, NodeFails, Return, history
<1>7. CASE TrapNode
  BY <1>7, SwarmTalksStand DEF TrapNode, NodeFails, Return, history
<1>8. CASE \E a \in DOMAIN Agents : Activate(a)
  BY <1>8, SwarmTalksActivates
<1> QED
  BY <1>0, <1>1, <1>2, <1>3, <1>4, <1>5, <1>6, <1>7, <1>8 DEF Next, SwarmNext

-----------------------------------------------------------------------------
TalksInv ==
  /\ cfg.kind = "react" => ReActTalks
  /\ cfg.kind = "swarm" => SwarmTalks

(* The conversations that a model is asked to continue and that a run      *)
(* returns have their calls answered, in any order that the tools finish   *)
(* in and whatever a handoff drops, for all configurations and any number  *)
(* of turns and calls.                                                     *)
THEOREM CallsGetAnswers == Spec => []CallsAreAnswered
<1>1. Init => TalksInv
  BY ReActTalksHold, SwarmTalksHold DEF TalksInv
<1>2. AgentsInv /\ AgentsInv' /\ TalksInv /\ [Next]_vars => TalksInv'
  <2> SUFFICES ASSUME AgentsInv, AgentsInv', TalksInv, [Next]_vars PROVE TalksInv'
    OBVIOUS
  <2>0. cfg' = cfg
    BY ConfigIsFixed
  <2>1. CASE cfg.kind = "react"
    <3>1. ReActParts
      BY <2>1 DEF AgentsInv, ReActInv, TalksInv, ReActParts
    <3>2. ReActTyped'
      BY <2>0, <2>1 DEF AgentsInv, ReActInv
    <3> QED BY <2>0, <2>1, <3>1, <3>2, ReActTalksKept DEF TalksInv
  <2>2. CASE cfg.kind = "swarm"
    <3>1. SwarmParts /\ SwarmTalks
      BY <2>2 DEF AgentsInv, SwarmInv, TalksInv, SwarmParts
    <3> QED BY <2>0, <2>2, <3>1, SwarmTalksKept DEF TalksInv
  <2> QED BY <2>0, <2>1, <2>2 DEF TalksInv
<1>3. AgentsInv /\ TalksInv => CallsAreAnswered
  <2> SUFFICES ASSUME AgentsInv, TalksInv PROVE CallsAreAnswered
    OBVIOUS
  <2>1. ASSUME cfg.kind = "react", edits = 0, Answered(started.messages, FALSE)
        PROVE  /\ Answered(asked, FALSE)
               /\ pc = "idle" /\ ret = "nil" => Answered(s.messages, s.capped)
    <3>1. /\ started.messages \in Seq(Message) /\ asked \in Seq(Message)
          /\ s.messages \in Seq(Message)
      BY <2>1 DEF AgentsInv, ReActInv, ReActTyped, ReActState
    <3>2. \A m, open : Talk(m, open, cfg.kind = "react") <=> Talk(m, open, TRUE)
      <4>1. \A m, i : Block(m, i, cfg.kind = "react") <=> Block(m, i, TRUE)
        BY <2>1, Zenon DEF Block
      <4> QED BY <4>1, Zenon DEF Talk
    <3> HIDE DEF Message, Call
    <3>3. \A m \in Seq(Message) : \A open : Answered(m, open) <=> Talk(m, open, TRUE)
      BY <3>2, MessagesCall, AnsweredIsTalk
    <3>4. Talk(started.messages, FALSE, TRUE)
      BY <2>1, <3>1, <3>3
    <3>5. /\ Talk(asked, FALSE, TRUE)
          /\ pc = "idle" /\ ret = "nil" => Talk(s.messages, s.capped, TRUE)
      BY <2>1, <3>4 DEF TalksInv, ReActTalks, Conversed
    <3> QED BY <3>1, <3>3, <3>5
  <2>2. ASSUME cfg.kind = "swarm"
        PROVE  Answered(asked, FALSE) /\ Answered(s.messages, FALSE)
    <3>1. /\ asked \in Seq(PeerMessage) /\ s.messages \in Seq(PeerMessage)
          /\ Talk(asked, FALSE, FALSE) /\ Talk(s.messages, FALSE, FALSE)
      BY <2>2 DEF AgentsInv, SwarmInv, SwarmTyped, SwarmState, TalksInv, SwarmTalks
    <3>2. cfg.kind # "react"
      BY <2>2
    <3>3. \A m : Talk(m, FALSE, cfg.kind = "react") <=> Talk(m, FALSE, FALSE)
      BY <3>2, Zenon DEF Talk, Block
    <3> HIDE DEF PeerMessage, PeerCall
    <3> QED BY <3>1, <3>3, MessagesCall, AnsweredIsTalk
  <2> QED BY <2>1, <2>2 DEF CallsAreAnswered
<1> QED
  BY <1>1, <1>2, <1>3, Inductive, PTL DEF Spec, vars

=============================================================================
