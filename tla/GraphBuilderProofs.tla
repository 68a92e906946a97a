------------------------- MODULE GraphBuilderProofs -------------------------
(***************************************************************************)
(* Proofs about what is set up before a run. GraphBuilder, for every set   *)
(* of names, labels and branch maps: what Compile lets through is closed,  *)
(* which is what the proofs about runs and streams assume of their graph,  *)
(* and the builder's calls commute. GraphOptions: in the in-memory         *)
(* checkpointer, for any number of goroutines, runs and saves and any      *)
(* limit on the history, what is stored stays what it was; and of the      *)
(* merged hooks, in chains of any length, broken ones do no harm.          *)
(***************************************************************************)
EXTENDS GraphBuilder, GraphOptions, FiniteSetTheorems, WellFoundedInduction, TLAPS

Graph ==
  [nodes   : SUBSET Name,
   static  : Maps(Name \cup {START}, Name \cup {END}),
   routers : SUBSET (Name \cup {START}),
   branch  : Maps(Name \cup {START}, BranchMap),
   gated   : SUBSET Name,
   errs    : BOOLEAN]

LEMMA MapsDomain ==
  ASSUME NEW S, NEW T, NEW m
  PROVE  m \in Maps(S, T) <=> DOMAIN m \in SUBSET S /\ m \in [DOMAIN m -> T]
<1>1. ASSUME m \in Maps(S, T) PROVE DOMAIN m \in SUBSET S /\ m \in [DOMAIN m -> T]
  <2>1. PICK D \in SUBSET S : m \in [D -> T]
    BY <1>1 DEF Maps
  <2>2. DOMAIN m = D
    BY <2>1
  <2>3. QED
    BY <2>1, <2>2
<1>2. ASSUME DOMAIN m \in SUBSET S, m \in [DOMAIN m -> T] PROVE m \in Maps(S, T)
  BY <1>2 DEF Maps
<1>3. QED
  BY <1>1, <1>2

(* A map with one more key is a map, and two keys may be set in any order. *)
LEMMA PutMaps ==
  ASSUME NEW S, NEW T, NEW m \in Maps(S, T), NEW k \in S, NEW v \in T
  PROVE  Put(m, k, v) \in Maps(S, T) /\ DOMAIN Put(m, k, v) = DOMAIN m \cup {k}
<1>1. DOMAIN m \in SUBSET S /\ m \in [DOMAIN m -> T]
  BY MapsDomain
<1>2. Put(m, k, v) \in [DOMAIN m \cup {k} -> T]
  BY <1>1 DEF Put
<1>3. DOMAIN Put(m, k, v) = DOMAIN m \cup {k}
  BY DEF Put
<1>4. QED
  BY <1>1, <1>2, <1>3, MapsDomain

LEMMA PutsCommute ==
  ASSUME NEW m, NEW k, NEW v, NEW l, NEW w, k # l
  PROVE  Put(Put(m, k, v), l, w) = Put(Put(m, l, w), k, v)
  BY DEF Put

-----------------------------------------------------------------------------
(***************************************************************************)
(* What a call asks for: the node it registers and the source it gives an  *)
(* edge to. A call that is Fit by itself goes through when what it asks    *)
(* for is not taken yet; then it only adds to the graph.                   *)
(***************************************************************************)
Registers(c) == IF c.op = "AddNode" THEN {c.name} ELSE {}

Sources(c) == IF c.op \in {"AddNode", "InterruptBefore"} THEN {} ELSE {c.name}

Fit(c) ==
  CASE c.op = "AddNode" -> c.name \in Name /\ ~c.isNil
    [] c.op = "AddEdge" -> c.name \in Name \cup {START} /\ c.to \in Name \cup {END}
    [] c.op = "AddConditionalEdge" -> c.name \in Name \cup {START} /\ ~c.isNil
    [] c.op = "AddConditionalEdges" ->
         c.name \in Name \cup {START} /\ ~c.isNil /\ DOMAIN c.branchMap # {}
    [] c.op = "InterruptBefore" -> c.name \in Name

Goes(h, c) ==
  /\ Fit(c)
  /\ Registers(c) \cap h.nodes = {}
  /\ Sources(c) \cap (DOMAIN h.static \cup h.routers) = {}

Added(h, c) ==
  [nodes   |-> h.nodes \cup Registers(c),
   static  |-> IF c.op = "AddEdge" THEN Put(h.static, c.name, c.to) ELSE h.static,
   routers |-> IF c.op = "AddEdge" THEN h.routers ELSE h.routers \cup Sources(c),
   branch  |-> IF c.op = "AddConditionalEdges" THEN Put(h.branch, c.name, c.branchMap)
               ELSE h.branch,
   gated   |-> IF c.op = "InterruptBefore" THEN h.gated \cup {c.name} ELSE h.gated,
   errs    |-> h.errs]

Ops == {"AddNode", "AddEdge", "AddConditionalEdge", "AddConditionalEdges", "InterruptBefore"}

LEMMA CallTyped ==
  ASSUME NEW c \in Call
  PROVE  /\ c.op \in Ops /\ c.name \in AnyName
         /\ c.op = "AddEdge" => c.to \in AnyName
         /\ c.op = "AddConditionalEdges" => c.branchMap \in BranchMap
  BY DEF Call, Ops

LEMMA RoutersAndBranch ==
  ASSUME NEW h \in Graph, NEW routers, NEW branch
  PROVE  [h EXCEPT !.routers = routers, !.branch = branch] =
           [nodes |-> h.nodes, static |-> h.static, routers |-> routers,
            branch |-> branch, gated |-> h.gated, errs |-> h.errs]
<1>1. [h EXCEPT !.routers = routers] \in
        [nodes : {h.nodes}, static : {h.static}, routers : {routers},
         branch : {h.branch}, gated : {h.gated}, errs : {h.errs}]
  BY DEF Graph
<1>2. [h EXCEPT !.routers = routers, !.branch = branch]
      = [[h EXCEPT !.routers = routers] EXCEPT !.branch = branch]
  OBVIOUS
<1>3. ASSUME NEW k \in [nodes : {h.nodes}, static : {h.static}, routers : {routers},
                        branch : {h.branch}, gated : {h.gated}, errs : {h.errs}]
      PROVE  [k EXCEPT !.branch = branch] =
               [nodes |-> h.nodes, static |-> h.static, routers |-> routers,
                branch |-> branch, gated |-> h.gated, errs |-> h.errs]
  OBVIOUS
<1>4. QED
  BY <1>1, <1>2, <1>3

(* Every builder call either records a problem, or adds what it asks for.  *)
LEMMA ApplyAdds ==
  ASSUME NEW h \in Graph, NEW c \in Call
  PROVE  Apply(h, c) = IF Goes(h, c) THEN Added(h, c) ELSE Problem(h)
<1> USE NamesDistinct
<1>1. c.op \in Ops /\ c.name \in AnyName /\ (c.op = "AddEdge" => c.to \in AnyName)
  BY CallTyped
<1>2. CASE c.op = "AddNode"
  BY <1>1, <1>2 DEF Apply, AddNode, Goes, Fit, Registers, Sources, Added, AnyName, Graph
<1>3. CASE c.op = "AddEdge"
  BY <1>1, <1>3 DEF Apply, AddEdge, HasEdge, Goes, Fit, Registers, Sources, Added, AnyName, Graph
<1>4. CASE c.op = "AddConditionalEdge"
  BY <1>1, <1>4 DEF Apply, AddConditionalEdge, HasEdge, Goes, Fit, Registers, Sources, Added,
                    AnyName, Graph
<1>5. CASE c.op = "AddConditionalEdges"
  <2>1. Apply(h, c) = AddConditionalEdges(h, c.name, c.isNil, c.branchMap)
    BY <1>5 DEF Apply
  <2>2. Goes(h, c) <=> ~(c.name \in {Empty, END} \/ c.isNil \/ DOMAIN c.branchMap = {}
                         \/ HasEdge(h, c.name))
    BY <1>1, <1>5 DEF Goes, Fit, Registers, Sources, HasEdge, AnyName
  <2>3. [h EXCEPT !.routers = @ \cup {c.name}, !.branch = Put(@, c.name, c.branchMap)]
        = Added(h, c)
    BY <1>5, RoutersAndBranch DEF Added, Registers, Sources
  <2>4. QED
    BY <2>1, <2>2, <2>3 DEF AddConditionalEdges
<1>6. CASE c.op = "InterruptBefore"
  BY <1>1, <1>6 DEF Apply, InterruptBefore, Goes, Fit, Registers, Sources, Added, AnyName, Graph
<1>7. QED
  BY <1>1, <1>2, <1>3, <1>4, <1>5, <1>6 DEF Ops

LEMMA AddedTyped ==
  ASSUME NEW h \in Graph, NEW c \in Call, Goes(h, c)
  PROVE  Added(h, c) \in Graph
<1> USE NamesDistinct
<1>1. /\ h.nodes \in SUBSET Name /\ h.static \in Maps(Name \cup {START}, Name \cup {END})
      /\ h.routers \in SUBSET (Name \cup {START})
      /\ h.branch \in Maps(Name \cup {START}, BranchMap)
      /\ h.gated \in SUBSET Name /\ h.errs \in BOOLEAN
  BY DEF Graph
<1>2. /\ c.op \in Ops /\ Fit(c)
      /\ c.op = "AddConditionalEdges" => c.branchMap \in BranchMap
  BY CallTyped DEF Goes
<1>3. Added(h, c).static \in Maps(Name \cup {START}, Name \cup {END})
  BY <1>1, <1>2, PutMaps DEF Added, Fit
<1>4. Added(h, c).branch \in Maps(Name \cup {START}, BranchMap)
  BY <1>1, <1>2, PutMaps DEF Added, Fit
<1>5. /\ Added(h, c).nodes \in SUBSET Name /\ Added(h, c).routers \in SUBSET (Name \cup {START})
      /\ Added(h, c).gated \in SUBSET Name
  BY <1>1, <1>2 DEF Added, Fit, Registers, Sources, Ops
<1>6. QED
  BY <1>1, <1>3, <1>4, <1>5 DEF Added, Graph

-----------------------------------------------------------------------------
(***************************************************************************)
(* Commutation. What two calls ask of a graph is symmetric, and so is what *)
(* they add to it.                                                         *)
(***************************************************************************)
LEMMA ProblemStays ==
  ASSUME NEW h \in Graph, NEW c \in Call, h.errs
  PROVE  Apply(h, c).errs
  BY ApplyAdds DEF Added, Problem, Graph

LEMMA ApplyTyped ==
  ASSUME NEW h \in Graph, NEW c \in Call
  PROVE  Apply(h, c) \in Graph
<1>1. Problem(h) \in Graph
  BY DEF Problem, Graph
<1>2. QED
  BY <1>1, ApplyAdds, AddedTyped

LEMMA Swap ==
  ASSUME NEW h \in Graph, ~h.errs, NEW c \in Call, NEW d \in Call,
         ~Apply(Apply(h, c), d).errs
  PROVE  Apply(Apply(h, c), d) = Apply(Apply(h, d), c)
<1>1. Apply(h, c) \in Graph /\ ~Apply(h, c).errs
  BY ApplyTyped, ProblemStays
<1>2. Goes(h, c) /\ Apply(h, c) = Added(h, c)
  BY <1>1, ApplyAdds DEF Problem, Graph
<1>3. Goes(Added(h, c), d) /\ Apply(Apply(h, c), d) = Added(Added(h, c), d)
  BY <1>1, <1>2, ApplyAdds DEF Problem, Graph
<1>4. /\ Fit(c) /\ Fit(d)
      /\ Registers(c) \cap Registers(d) = {} /\ Sources(c) \cap Sources(d) = {}
      /\ Registers(d) \cap h.nodes = {}
      /\ Sources(d) \cap (DOMAIN h.static \cup h.routers) = {}
  <2>1. Added(h, c).nodes = h.nodes \cup Registers(c)
    BY DEF Added
  <2>2. DOMAIN Added(h, c).static \cup Added(h, c).routers
        = DOMAIN h.static \cup h.routers \cup Sources(c)
    BY CallTyped DEF Added, Put, Sources, Ops
  <2>3. QED
    BY <1>2, <1>3, <2>1, <2>2 DEF Goes
<1>5. Goes(h, d)
  BY <1>4 DEF Goes
<1>6. Apply(h, d) = Added(h, d) /\ Added(h, d) \in Graph
  BY <1>5, ApplyAdds, AddedTyped
<1>7. Goes(Added(h, d), c)
  <2>1. Added(h, d).nodes = h.nodes \cup Registers(d)
    BY DEF Added
  <2>2. DOMAIN Added(h, d).static \cup Added(h, d).routers
        = DOMAIN h.static \cup h.routers \cup Sources(d)
    BY CallTyped DEF Added, Put, Sources, Ops
  <2>3. QED
    BY <1>2, <1>4, <2>1, <2>2 DEF Goes
<1>8. Apply(Apply(h, d), c) = Added(Added(h, d), c)
  BY <1>6, <1>7, ApplyAdds
<1>9. Added(Added(h, c), d) = Added(Added(h, d), c)
  <2>1. Added(Added(h, c), d).static = Added(Added(h, d), c).static
    BY <1>4, PutsCommute DEF Added, Sources
  <2>2. Added(Added(h, c), d).branch = Added(Added(h, d), c).branch
    BY <1>4, PutsCommute DEF Added, Sources
  <2>3. /\ Added(Added(h, c), d).nodes = Added(Added(h, d), c).nodes
        /\ Added(Added(h, c), d).routers = Added(Added(h, d), c).routers
        /\ Added(Added(h, c), d).gated = Added(Added(h, d), c).gated
        /\ Added(Added(h, c), d).errs = Added(Added(h, d), c).errs
    BY DEF Added
  <2>4. QED
    BY <2>1, <2>2, <2>3 DEF Added
<1>10. QED
  BY <1>3, <1>8, <1>9

LEMMA Commute == g \in Graph => CallsCommute
<1> SUFFICES ASSUME g \in Graph, ~g.errs, NEW c \in Call, NEW d \in Call
             PROVE  /\ Accepted(Apply(Apply(g, c), d)) <=> Accepted(Apply(Apply(g, d), c))
                    /\ Accepted(Apply(Apply(g, c), d)) =>
                         Runnable(Apply(Apply(g, c), d)) = Runnable(Apply(Apply(g, d), c))
  BY DEF CallsCommute
<1>1. CASE ~Apply(Apply(g, c), d).errs \/ ~Apply(Apply(g, d), c).errs
  BY <1>1, Swap
<1>2. CASE Apply(Apply(g, c), d).errs /\ Apply(Apply(g, d), c).errs
  BY <1>2 DEF Accepted
<1>3. QED
  BY <1>1, <1>2

-----------------------------------------------------------------------------
(***************************************************************************)
(* The inductive invariant: the builder holds a graph, only from-names     *)
(* with a router have a branch map, and a compiled graph is closed, with   *)
(* an edge out of every node.                                              *)
(***************************************************************************)
Finished(r) ==
  /\ Closed(r)
  /\ \A n \in r.nodes : n \in DOMAIN r.static \cup r.routers

IInv ==
  /\ g \in Graph
  /\ DOMAIN g.branch \subseteq g.routers
  /\ runnable # NotCompiled => Finished(runnable)

LEMMA InitInv == Init => IInv
<1> SUFFICES ASSUME Init PROVE IInv
  OBVIOUS
<1>1. NoMap \in Maps(Name \cup {START}, Name \cup {END}) /\ NoMap \in Maps(Name \cup {START}, BranchMap)
  BY MapsDomain DEF NoMap
<1>2. QED
  BY <1>1 DEF Init, IInv, NewGraph, Graph, NoMap

LEMMA BuildInv == IInv /\ Build => IInv'
<1> SUFFICES ASSUME IInv, NEW c \in Call, g' = Apply(g, c), UNCHANGED runnable
             PROVE  IInv'
  BY DEF Build
<1>1. g' \in Graph
  BY ApplyTyped DEF IInv
<1>2. DOMAIN g'.branch \subseteq g'.routers
  <2>1. DOMAIN Added(g, c).branch \subseteq Added(g, c).routers
    BY DEF IInv, Added, Put, Sources
  <2>2. DOMAIN Problem(g).branch \subseteq Problem(g).routers
    BY DEF IInv, Problem, Graph
  <2>3. QED
    BY <2>1, <2>2, ApplyAdds DEF IInv
<1>3. QED
  BY <1>1, <1>2 DEF IInv

LEMMA CompileInv == IInv /\ Compile => IInv'
<1> SUFFICES ASSUME IInv, Compile PROVE IInv'
  OBVIOUS
<1>1. Accepted(g) /\ runnable' = Runnable(g) /\ g' = g
  BY DEF Compile
<1>2. g.nodes \subseteq Name /\ DOMAIN g.branch \subseteq g.routers
  BY DEF IInv, Graph
<1>3. Closed(Runnable(g))
  BY <1>1, <1>2, NamesDistinct DEF Accepted, Runnable, Closed
<1>4. \A n \in Runnable(g).nodes : n \in DOMAIN Runnable(g).static \cup Runnable(g).routers
  BY <1>1 DEF Accepted, Runnable
<1>5. QED
  BY <1>1, <1>3, <1>4 DEF IInv, Finished

THEOREM Inductive == Spec => []IInv
<1>1. IInv /\ [Next]_vars => IInv'
  BY BuildInv, CompileInv DEF Next, vars, IInv
<1>2. QED
  BY <1>1, InitInv, PTL DEF Spec

-----------------------------------------------------------------------------
(* Whatever is called with whatever arguments, the builder's maps keep     *)
(* their types.                                                            *)
THEOREM TypeCorrect == Spec => []TypeOK
<1>1. IInv => TypeOK
  BY DEF IInv, Graph, TypeOK
<1>2. QED
  BY <1>1, Inductive, PTL

(* Compile returns closed graphs only: what GraphRun and GraphStream       *)
(* assume of the Runnable they are given.                                  *)
THEOREM CompileCloses == Spec => [](runnable # NotCompiled => Closed(runnable))
<1>1. IInv => (runnable # NotCompiled => Closed(runnable))
  BY DEF IInv, Finished
<1>2. QED
  BY <1>1, Inductive, PTL

(* A run of a compiled graph resolves every edge, or fails for a reason    *)
(* only a router can cause.                                                *)
THEOREM EdgesResolve == Spec => []CompiledGraphIsClosed
<1>1. IInv => CompiledGraphIsClosed
  <2> SUFFICES ASSUME IInv, runnable # NotCompiled PROVE CompiledGraphIsClosed
    BY DEF CompiledGraphIsClosed
  <2>1. Finished(runnable)
    BY DEF IInv
  <2>2. ASSUME NEW n \in runnable.nodes, NEW out
        PROVE  LET res == ResolveNext(runnable, n, out) IN
                 IF res.ok
                 THEN res.next \in runnable.nodes \cup {END}
                 ELSE /\ n \in runnable.routers
                      /\ res.err # "NoOutgoingEdge"
                      /\ res.err = "UnknownNode" => n \notin DOMAIN runnable.branch
    BY <2>1 DEF Finished, Closed, ResolveNext, To, Failed
  <2>3. QED
    BY <2>1, <2>2 DEF Finished, Closed, CompiledGraphIsClosed
<1>2. QED
  BY <1>1, Inductive, PTL

(* Two builder calls in either order compile to the same Runnable, or both *)
(* fail to compile.                                                        *)
THEOREM OrderIsFree == Spec => []CallsCommute
<1>1. IInv => CallsCommute
  BY Commute DEF IInv
<1>2. QED
  BY <1>1, Inductive, PTL

-----------------------------------------------------------------------------
Value == [plain : Nat, nested : Nat]
Checkpoint == [step : Nat, cell : Cell]
Given == [step : Nat, writes : Value]
Copy == [run : RunID, step : Nat, cell : Cell, writes : Value]

(***************************************************************************)
(* The types of the checkpointer's state, of which copies needs no mention.*)
(***************************************************************************)
CkTypeOK ==
  /\ heap \in [Cell -> Value]
  /\ history \in [RunID -> Seq(Checkpoint)]
  /\ holds \in [Proc -> Cell]
  /\ saving \in [Proc -> Copy \cup {Idle}]
  /\ saved \in [RunID -> Seq(Given)]
  /\ lent \subseteq Cell
  /\ calls \in Nat

(* A goroutine that holds a stored state was given it by Load or History.  *)
HeldAreLent ==
  \A p \in Proc, r \in RunID : \A i \in 1 .. Len(history[r]) :
    holds[p] = history[r][i].cell => holds[p] \in lent

(* A copy on its way to the store is nobody else's, and still what cloning *)
(* made of what Save was given.                                            *)
CopyIsOwned(p) ==
  /\ \A q \in Proc : holds[q] # saving[p].cell
  /\ \A r \in RunID : \A i \in 1 .. Len(history[r]) : history[r][i].cell # saving[p].cell
  /\ \A q \in Proc : saving[q] # Idle /\ saving[q].cell = saving[p].cell => q = p
  /\ Faithful(heap[saving[p].cell], saving[p].writes)

CopiesAreOwned == \A p \in Proc : saving[p] # Idle => CopyIsOwned(p)

(* The cells in use are at most one per goroutine and one per call.        *)
CellsSuffice ==
  IsFiniteSet(InUse) /\ Cardinality(InUse) <= Cardinality(Proc) + calls

CkInv == CkTypeOK /\ HeldAreLent /\ CopiesAreOwned /\ CellsSuffice /\ CheckpointsAreKept

-----------------------------------------------------------------------------
(* A free cell: the calls left are fewer than the cells not in use.        *)
LEMMA CellIsFree ==
  ASSUME NEW p \in Proc, CkTypeOK, CellsSuffice, calls < MaxSaves
  PROVE  CloneState(p) \in Cell /\ CloneState(p) \notin InUse
<1>1. /\ Cardinality(Proc) \in Nat /\ Cardinality(Cell) \in Nat
      /\ Cardinality(InUse) \in Nat /\ MaxSaves \in Nat /\ calls \in Nat
  BY CellAssumption, LimitAssumption, FS_CardinalityType DEF CellsSuffice, CkTypeOK
<1>2. Cardinality(InUse) < Cardinality(Cell)
  BY <1>1, CellAssumption DEF CellsSuffice
<1>3. ~ (Cell \subseteq InUse)
  <2>1. SUFFICES ASSUME Cell \subseteq InUse PROVE FALSE
    OBVIOUS
  <2>2. Cardinality(Cell) <= Cardinality(InUse)
    BY <2>1, FS_Subset DEF CellsSuffice
  <2> QED BY <1>1, <1>2, <2>2
<1> HIDE DEF InUse
<1> QED
  BY <1>3 DEF CloneState

(* A copy is as faithful as its type allows.                               *)
LEMMA CopiesAreFaithful ==
  ASSUME NEW v \in Value
  PROVE  Copied(v) \in Value /\ Faithful(Copied(v), v)
BY DEF Copied, Faithful, Value

LEMMA CopyIsNoIdle == \A x \in Copy : x # Idle
<1> SUFFICES ASSUME NEW x \in Copy, x = Idle PROVE FALSE
  OBVIOUS
<1>1. DOMAIN x = {"run", "step", "cell", "writes"}
  BY DEF Copy
<1>2. DOMAIN Idle = {"run"}
  BY DEF Idle
<1>3. "step" \in DOMAIN x /\ "step" \notin DOMAIN Idle
  BY <1>1, <1>2
<1> QED BY <1>3

(* InUse, cell by cell.                                                    *)
LEMMA Used ==
  \A c : c \in InUse <=>
    \/ \E r \in RunID : \E i \in DOMAIN history[r] : c = history[r][i].cell
    \/ \E p \in Proc : c = holds[p]
    \/ \E p \in Proc : saving[p] # Idle /\ c = saving[p].cell
<1> DEFINE Of(r) == {history[r][i].cell : i \in DOMAIN history[r]}
<1>1. \A c : c \in UNION {Of(r) : r \in RunID}
            <=> \E r \in RunID : \E i \in DOMAIN history[r] : c = history[r][i].cell
  <2>1. \A c : c \in UNION {Of(r) : r \in RunID} <=> \E r \in RunID : c \in Of(r)
    <3> HIDE DEF Of
    <3> QED OBVIOUS
  <2> QED BY <2>1
<1>2. \A c : c \in {saving[p].cell : p \in {q \in Proc : saving[q] # Idle}}
            <=> \E p \in Proc : saving[p] # Idle /\ c = saving[p].cell
  OBVIOUS
<1> QED BY <1>1, <1>2, Zenon DEF InUse

(* What grows by one cell at a call, or by none, stays small enough.       *)
LEMMA CellsKept ==
  ASSUME CkTypeOK, CellsSuffice,
         \/ InUse' \subseteq InUse /\ calls' \in {calls, calls + 1}
         \/ calls' = calls + 1 /\ \E c : InUse' \subseteq InUse \cup {c}
  PROVE  CellsSuffice'
<1>1. /\ IsFiniteSet(InUse) /\ Cardinality(InUse) <= Cardinality(Proc) + calls
      /\ Cardinality(InUse) \in Nat /\ Cardinality(Proc) \in Nat /\ calls \in Nat
  BY CellAssumption, FS_CardinalityType DEF CellsSuffice, CkTypeOK
<1> HIDE DEF InUse
<1>2. CASE InUse' \subseteq InUse /\ calls' \in {calls, calls + 1}
  <2>1. IsFiniteSet(InUse') /\ Cardinality(InUse') <= Cardinality(InUse)
    BY <1>1, <1>2, FS_Subset
  <2>2. Cardinality(InUse') \in Nat
    BY <2>1, FS_CardinalityType
  <2> QED BY <1>1, <1>2, <2>1, <2>2 DEF CellsSuffice
<1>3. ASSUME NEW c, calls' = calls + 1, InUse' \subseteq InUse \cup {c} PROVE CellsSuffice'
  <2>1. /\ IsFiniteSet(InUse \cup {c})
        /\ Cardinality(InUse \cup {c}) <= Cardinality(InUse) + 1
    BY <1>1, FS_AddElement
  <2>2. /\ IsFiniteSet(InUse') /\ Cardinality(InUse') <= Cardinality(InUse \cup {c})
        /\ Cardinality(InUse') \in Nat /\ Cardinality(InUse \cup {c}) \in Nat
    BY <1>3, <2>1, FS_Subset, FS_CardinalityType
  <2> QED BY <1>1, <1>3, <2>1, <2>2 DEF CellsSuffice
<1> QED BY <1>2, <1>3

-----------------------------------------------------------------------------
LEMMA InitHolds == CheckpointerInit => CkInv
<1> SUFFICES ASSUME CheckpointerInit PROVE CkInv
  OBVIOUS
<1>1. holds \in [Proc -> Cell]
  <2>1. \E h \in [Proc -> Cell] : IsInjective(h)
    <3>1. /\ Cardinality(Proc) \in Nat /\ Cardinality(Cell) \in Nat /\ MaxSaves \in Nat
          /\ ExistsBijection(1 .. Cardinality(Proc), Proc)
          /\ ExistsBijection(1 .. Cardinality(Cell), Cell)
      BY CellAssumption, LimitAssumption, FS_CardinalityType
    <3>2. PICK f : f \in Bijection(1 .. Cardinality(Proc), Proc)
      BY <3>1 DEF ExistsBijection
    <3>3. PICK pick : pick \in Bijection(1 .. Cardinality(Cell), Cell)
      BY <3>1 DEF ExistsBijection
    <3>4. Cardinality(Proc) <= Cardinality(Cell)
      BY <3>1, CellAssumption
    <3>5. \A p \in Proc : \E i \in 1 .. Cardinality(Proc) : f[i] = p
      BY <3>2 DEF Bijection, Surjection
    <3> DEFINE At(p) == CHOOSE i \in 1 .. Cardinality(Proc) : f[i] = p
               h == [p \in Proc |-> pick[At(p)]]
    <3>6. \A p \in Proc : At(p) \in 1 .. Cardinality(Proc) /\ f[At(p)] = p
      BY <3>5
    <3>7. \A p \in Proc : At(p) \in 1 .. Cardinality(Cell)
      BY <3>1, <3>4, <3>6
    <3>8. pick \in [1 .. Cardinality(Cell) -> Cell]
          /\ \A i, j \in 1 .. Cardinality(Cell) : pick[i] = pick[j] => i = j
      BY <3>3 DEF Bijection, Injection, IsInjective
    <3> HIDE DEF At
    <3>9. h \in [Proc -> Cell] /\ IsInjective(h)
      BY <3>6, <3>7, <3>8 DEF IsInjective
    <3> QED BY <3>9
  <2> QED BY <2>1 DEF CheckpointerInit
<1>2. \A r \in RunID : history[r] = << >> /\ saved[r] = << >>
  BY DEF CheckpointerInit
<1>3. \A p \in Proc : saving[p] = Idle
  BY DEF CheckpointerInit
<1>4. CkTypeOK
  <2>1. heap \in [Cell -> Value] /\ lent \subseteq Cell /\ calls \in Nat
    BY DEF CheckpointerInit, Untouched, Value
  <2>2. history \in [RunID -> Seq(Checkpoint)] /\ saved \in [RunID -> Seq(Given)]
    BY DEF CheckpointerInit
  <2>3. saving \in [Proc -> Copy \cup {Idle}]
    BY DEF CheckpointerInit
  <2> QED BY <1>1, <2>1, <2>2, <2>3 DEF CkTypeOK
<1>5. HeldAreLent /\ CopiesAreOwned
  BY <1>2, <1>3 DEF HeldAreLent, CopiesAreOwned
<1>6. CellsSuffice
  <2> DEFINE H == {holds[p] : p \in Proc}
  <2>1. holds \in Surjection(Proc, H)
    BY <1>1 DEF Surjection
  <2>2. IsFiniteSet(H) /\ Cardinality(H) <= Cardinality(Proc)
    BY <2>1, CellAssumption, FS_Surjection
  <2>3. InUse = H
    <3>1. \A c : c \in InUse <=> c \in H
      BY <1>2, <1>3, Used
    <3> HIDE DEF InUse, H
    <3> QED BY <3>1
  <2>4. calls = 0 /\ Cardinality(Proc) \in Nat
    BY CellAssumption, FS_CardinalityType DEF CheckpointerInit
  <2> QED BY <2>2, <2>3, <2>4 DEF CellsSuffice
<1>7. CheckpointsAreKept
  BY <1>2, LimitAssumption DEF CheckpointsAreKept, Kept
<1> QED
  BY <1>4, <1>5, <1>6, <1>7 DEF CkInv

(* A node that writes reaches its own state and what was lent.             *)
LEMMA WritesKeep ==
  ASSUME CkInv, NEW p \in Proc, NodeWrites(p)
  PROVE  CkInv'
<1>1. /\ UNCHANGED <<copies, history, holds, saving, saved, lent, calls>>
      /\ \/ heap' = [heap EXCEPT ![holds[p]].plain = @ + 1]
         \/ heap' = [heap EXCEPT ![holds[p]].nested = @ + 1]
  BY DEF NodeWrites
<1>2. CkTypeOK /\ HeldAreLent /\ CopiesAreOwned /\ CellsSuffice /\ CheckpointsAreKept
  BY DEF CkInv
<1>3. heap' \in [Cell -> Value] /\ \A c \in Cell : c # holds[p] => heap'[c] = heap[c]
  <2>1. heap \in [Cell -> Value] /\ holds[p] \in Cell /\ heap[holds[p]] \in Value
    BY <1>2 DEF CkTypeOK
  <2>2. /\ [heap[holds[p]] EXCEPT !.plain = @ + 1] \in Value
        /\ [heap[holds[p]] EXCEPT !.nested = @ + 1] \in Value
    BY <2>1 DEF Value
  <2> QED BY <1>1, <2>1, <2>2
<1>4. CkTypeOK'
  BY <1>1, <1>2, <1>3 DEF CkTypeOK
<1>5. HeldAreLent' /\ CellsSuffice'
  BY <1>1, <1>2 DEF HeldAreLent, CellsSuffice, InUse
<1>6. CopiesAreOwned'
  <2> SUFFICES ASSUME NEW q \in Proc, saving[q] # Idle PROVE CopyIsOwned(q)'
    BY <1>1 DEF CopiesAreOwned
  <2>1. CopyIsOwned(q) /\ saving[q].cell \in Cell
    BY <1>2 DEF CopiesAreOwned, CkTypeOK, Copy
  <2>2. heap'[saving[q].cell] = heap[saving[q].cell]
    BY <1>3, <2>1 DEF CopyIsOwned
  <2> QED BY <1>1, <2>1, <2>2 DEF CopyIsOwned, Faithful
<1>7. CheckpointsAreKept'
  <2> SUFFICES ASSUME NEW r \in RunID PROVE Kept(r, lent)'
    BY DEF CheckpointsAreKept
  <2>1. Kept(r, lent)
    BY <1>2 DEF CheckpointsAreKept
  <2>2. ASSUME NEW i \in 1 .. Len(history[r])
        PROVE  history[r][i].cell \in lent \/ heap'[history[r][i].cell] = heap[history[r][i].cell]
    <3>1. history[r] \in Seq(Checkpoint)
      BY <1>2 DEF CkTypeOK
    <3>2. history[r][i] \in Checkpoint
      BY <3>1
    <3>3. history[r][i].cell \in Cell
      BY <3>2 DEF Checkpoint
    <3> QED BY <1>2, <1>3, <3>3 DEF HeldAreLent
  <2>3. DOMAIN history[r] = 1 .. Len(history[r])
    BY <1>2 DEF CkTypeOK
  <2> QED BY <1>1, <2>1, <2>2, <2>3 DEF Kept, Faithful
<1> QED
  BY <1>4, <1>5, <1>6, <1>7 DEF CkInv

(* A copy is made in a cell that nobody has.                               *)
LEMMA CopyKeeps ==
  ASSUME CkInv, NEW p \in Proc, NEW r \in RunID, SaveCopies(p, r)
  PROVE  CkInv'
<1> DEFINE c == CloneState(p)
           copy == [run |-> r, step |-> calls, cell |-> c, writes |-> heap[holds[p]]]
<1>1. /\ UNCHANGED <<copies, history, holds, saved>> /\ saving[p] = Idle
      /\ calls < MaxSaves /\ calls' = calls + 1
      /\ heap' = [heap EXCEPT ![c] = Copied(heap[holds[p]])]
      /\ saving' = [saving EXCEPT ![p] = copy]
      /\ lent' = lent \ {c}
  BY DEF SaveCopies, Called
<1>2. CkTypeOK /\ HeldAreLent /\ CopiesAreOwned /\ CellsSuffice /\ CheckpointsAreKept
  BY DEF CkInv
<1>3. c \in Cell /\ c \notin InUse
  BY <1>1, <1>2, CellIsFree
<1> HIDE DEF c
<1>4. /\ \A s \in RunID : \A i \in DOMAIN history[s] : history[s][i].cell # c
      /\ \A q \in Proc : holds[q] # c
      /\ \A q \in Proc : saving[q] # Idle => saving[q].cell # c
  BY <1>3, Used
<1>5. /\ \A s \in RunID : DOMAIN history[s] = 1 .. Len(history[s])
      /\ \A s \in RunID : \A i \in DOMAIN history[s] : history[s][i].cell \in Cell
      /\ \A q \in Proc : saving[q] # Idle => saving[q].cell \in Cell
      /\ \A q \in Proc : holds[q] \in Cell
  <2>1. \A s \in RunID : history[s] \in Seq(Checkpoint)
    BY <1>2 DEF CkTypeOK
  <2>2. /\ \A s \in RunID : DOMAIN history[s] = 1 .. Len(history[s])
        /\ \A s \in RunID : \A i \in DOMAIN history[s] : history[s][i] \in Checkpoint
    BY <2>1
  <2>3. \A q \in Proc : saving[q] # Idle => saving[q] \in Copy
    BY <1>2 DEF CkTypeOK
  <2>4. \A q \in Proc : holds[q] \in Cell
    BY <1>2 DEF CkTypeOK
  <2> QED BY <2>2, <2>3, <2>4 DEF Checkpoint, Copy
<1>6. /\ heap' \in [Cell -> Value] /\ Faithful(heap'[c], heap[holds[p]])
      /\ \A d \in Cell : d # c => heap'[d] = heap[d]
  <2>1. Copied(heap[holds[p]]) \in Value /\ Faithful(Copied(heap[holds[p]]), heap[holds[p]])
    BY <1>2, <1>5, CopiesAreFaithful DEF CkTypeOK
  <2> QED BY <1>1, <1>2, <1>3, <2>1 DEF CkTypeOK
<1>7. copy \in Copy /\ copy # Idle /\ copy.cell = c /\ copy.writes = heap[holds[p]]
  <2>1. copy \in Copy
    BY <1>2, <1>3, <1>5 DEF CkTypeOK, Copy
  <2> QED BY <2>1, CopyIsNoIdle
<1> HIDE DEF copy
<1>8. /\ saving' \in [Proc -> Copy \cup {Idle}] /\ saving'[p] = copy
      /\ \A q \in Proc : q # p => saving'[q] = saving[q]
  BY <1>1, <1>2, <1>7 DEF CkTypeOK
<1>9. CkTypeOK'
  BY <1>1, <1>2, <1>6, <1>8 DEF CkTypeOK
<1>10. HeldAreLent'
  BY <1>1, <1>2, <1>4 DEF HeldAreLent
<1>11. CopiesAreOwned'
  <2> SUFFICES ASSUME NEW q \in Proc, saving'[q] # Idle PROVE CopyIsOwned(q)'
    BY DEF CopiesAreOwned
  <2>1. CASE q = p
    BY <1>1, <1>4, <1>5, <1>6, <1>7, <1>8, <2>1 DEF CopyIsOwned, Faithful
  <2>2. CASE q # p
    <3>1. saving'[q] = saving[q] /\ CopyIsOwned(q) /\ saving[q].cell \in Cell /\ saving[q].cell # c
      BY <1>2, <1>4, <1>5, <1>8, <2>2 DEF CopiesAreOwned
    <3>2. heap'[saving[q].cell] = heap[saving[q].cell]
      BY <1>6, <3>1
    <3>3. \A x \in Proc : saving'[x] # Idle /\ saving'[x].cell = saving[q].cell => x = q
      BY <1>7, <1>8, <3>1 DEF CopyIsOwned
    <3> QED BY <1>1, <3>1, <3>2, <3>3 DEF CopyIsOwned, Faithful
  <2> QED BY <2>1, <2>2
<1>12. CellsSuffice'
  <2>1. ASSUME NEW d \in InUse' PROVE d \in InUse \cup {c}
    <3>1. \/ \E s \in RunID : \E i \in DOMAIN history'[s] : d = history'[s][i].cell
          \/ \E q \in Proc : d = holds'[q]
          \/ \E q \in Proc : saving'[q] # Idle /\ d = saving'[q].cell
      BY <2>1 DEF InUse
    <3> HIDE DEF InUse
    <3> QED BY <1>1, <1>7, <1>8, <3>1, Used
  <2> HIDE DEF InUse
  <2> QED BY <1>1, <1>2, <2>1, CellsKept
<1>13. CheckpointsAreKept'
  <2> SUFFICES ASSUME NEW s \in RunID PROVE Kept(s, lent)'
    BY DEF CheckpointsAreKept
  <2>1. Kept(s, lent)
    BY <1>2 DEF CheckpointsAreKept
  <2>2. \A i \in DOMAIN history[s] :
          heap'[history[s][i].cell] = heap[history[s][i].cell] /\ history[s][i].cell # c
    BY <1>4, <1>5, <1>6
  <2> QED BY <1>1, <2>1, <2>2 DEF Kept, Faithful
<1> QED
  BY <1>9, <1>10, <1>11, <1>12, <1>13 DEF CkInv

(* The most recent of a history, in their order.                           *)
LEMMA TrimmedIsRecent ==
  ASSUME NEW S, NEW h \in Seq(S)
  PROVE  /\ Trimmed(h) \in Seq(S)
         /\ Len(Trimmed(h)) = IF Limit > 0 /\ Len(h) > Limit THEN Limit ELSE Len(h)
         /\ \A i \in 1 .. Len(Trimmed(h)) : Trimmed(h)[i] = h[Len(h) - Len(Trimmed(h)) + i]
<1>1. Len(h) \in Nat /\ Limit \in Nat
  BY LimitAssumption
<1>2. CASE Limit > 0 /\ Len(h) > Limit
  <2> DEFINE from == Len(h) - Limit + 1
  <2>1. from \in 1 .. Len(h) + 1 /\ Len(h) - from + 1 = Limit /\ from \in Nat
    BY <1>1, <1>2
  <2>2. Trimmed(h) = SubSeq(h, from, Len(h))
    BY <1>2 DEF Trimmed
  <2>3. /\ SubSeq(h, from, Len(h)) \in Seq(S)
        /\ Len(SubSeq(h, from, Len(h))) = Limit
        /\ \A i \in 1 .. Limit : SubSeq(h, from, Len(h))[i] = h[from + i - 1]
    <3> HIDE DEF from
    <3> QED BY <1>1, <2>1
  <2>4. \A i \in 1 .. Limit : from + i - 1 = Len(h) - Limit + i
    BY <1>1
  <2> HIDE DEF from
  <2> QED BY <1>2, <2>2, <2>3, <2>4
<1>3. CASE ~ (Limit > 0 /\ Len(h) > Limit)
  <2>1. Trimmed(h) = h
    BY <1>3 DEF Trimmed
  <2> QED BY <1>1, <1>3, <2>1
<1> QED BY <1>2, <1>3

LEMMA Offset ==
  ASSUME NEW n \in Nat, NEW m \in 0 .. n, NEW i \in 1 .. m
  PROVE  n - m + i \in 1 .. n
OBVIOUS

LEMMA Shift ==
  ASSUME NEW a \in Nat, NEW b \in Nat, NEW m \in Nat, NEW i \in Nat
  PROVE  (b + 1) - m + i = (b - a) + ((a + 1) - m + i)
OBVIOUS

(***************************************************************************)
(* t is what is left of h and, behind it, x: each of its elements is the   *)
(* last one or stood in h.                                                 *)
(***************************************************************************)
Left(t, h, x) ==
  /\ Len(t) \in 0 .. Len(h) + 1
  /\ Len(t) = IF Limit > 0 /\ Len(h) + 1 > Limit THEN Limit ELSE Len(h) + 1
  /\ \A i \in 1 .. Len(t) :
       \/ (Len(h) + 1) - Len(t) + i = Len(h) + 1 /\ t[i] = x
       \/ /\ (Len(h) + 1) - Len(t) + i \in 1 .. Len(h)
          /\ t[i] = h[(Len(h) + 1) - Len(t) + i]

LEMMA TrimmedAppend ==
  ASSUME NEW S, NEW h \in Seq(S), NEW x \in S
  PROVE  Trimmed(Append(h, x)) \in Seq(S) /\ Left(Trimmed(Append(h, x)), h, x)
<1> DEFINE a == Append(h, x)
           t == Trimmed(a)
           n == Len(h) + 1
<1>1. /\ a \in Seq(S) /\ Len(a) = n /\ n \in Nat /\ a[n] = x
      /\ Len(h) \in Nat /\ n = Len(h) + 1
      /\ \A i \in 1 .. Len(h) : a[i] = h[i]
  OBVIOUS
<1> HIDE DEF a
<1>2. /\ t \in Seq(S)
      /\ Len(t) = IF Limit > 0 /\ Len(a) > Limit THEN Limit ELSE Len(a)
      /\ \A i \in 1 .. Len(t) : t[i] = a[Len(a) - Len(t) + i]
  BY ONLY <1>1, TrimmedIsRecent
<1> HIDE DEF t, n
<1>3. Len(t) \in 0 .. n
  BY <1>1, <1>2, LimitAssumption
<1>4. ASSUME NEW i \in 1 .. Len(t)
      PROVE  \/ n - Len(t) + i = n /\ t[i] = x
             \/ n - Len(t) + i \in 1 .. Len(h) /\ t[i] = h[n - Len(t) + i]
  <2>1. n - Len(t) + i \in 1 .. n
    BY <1>1, <1>3, Offset
  <2>2. PICK j : j = n - Len(t) + i
    OBVIOUS
  <2>3. j = n \/ j \in 1 .. Len(h)
    BY <1>1, <2>1, <2>2
  <2>4. t[i] = a[j]
    BY <1>1, <1>2, <2>2
  <2> QED BY <1>1, <2>2, <2>3, <2>4
<1>5. Left(t, h, x)
  BY <1>1, <1>2, <1>3, <1>4 DEF Left, n
<1> QED BY <1>2, <1>5 DEF t, a

(***************************************************************************)
(* A history h that agrees with the end of all that was saved agrees with  *)
(* it still when both have grown by one and h was trimmed. Agree compares  *)
(* a checkpoint with what Save was given.                                  *)
(***************************************************************************)
Agree(c, given) ==
  c.step = given.step /\ (c.cell \in lent \/ Faithful(heap[c.cell], given.writes))

Recent(h, all) ==
  /\ Len(h) = IF Limit > 0 /\ Len(all) > Limit THEN Limit ELSE Len(all)
  /\ \A i \in 1 .. Len(h) : Agree(h[i], all[Len(all) - Len(h) + i])

LEMMA RecentGrows ==
  ASSUME NEW h, NEW G, NEW all \in Seq(G), NEW x, NEW y \in G, Len(h) \in Nat,
         Recent(h, all), Agree(x, y), NEW t, Left(t, h, x)
  PROVE  Recent(t, Append(all, y))
<1> DEFINE z == Append(all, y)
<1>1. /\ Len(h) \in Nat /\ Len(all) \in Nat /\ Len(h) <= Len(all)
      /\ Len(h) = IF Limit > 0 /\ Len(all) > Limit THEN Limit ELSE Len(all)
  BY LimitAssumption DEF Recent
<1>2. /\ Len(z) = Len(all) + 1 /\ z[Len(all) + 1] = y
      /\ \A i \in 1 .. Len(all) : z[i] = all[i]
  OBVIOUS
<1> HIDE DEF z
<1>3. Len(t) = IF Limit > 0 /\ Len(z) > Limit THEN Limit ELSE Len(z)
  BY <1>1, <1>2, LimitAssumption DEF Left
<1>4. ASSUME NEW i \in 1 .. Len(t) PROVE Agree(t[i], z[Len(z) - Len(t) + i])
  <2>1. PICK j : j = (Len(h) + 1) - Len(t) + i
    OBVIOUS
  <2>2. \/ j = Len(h) + 1 /\ t[i] = x
        \/ j \in 1 .. Len(h) /\ t[i] = h[j]
    BY <2>1 DEF Left
  <2>3. Len(t) \in Nat /\ i \in Nat
    BY <1>1 DEF Left
  <2>4. Len(z) - Len(t) + i = (Len(all) - Len(h)) + j
    BY <1>1, <1>2, <2>1, <2>3, Shift
  <2>5. CASE j = Len(h) + 1 /\ t[i] = x
    <3>1. (Len(all) - Len(h)) + j = Len(all) + 1
      BY <1>1, <2>5
    <3> QED BY <1>2, <2>4, <2>5, <3>1
  <2>6. CASE j \in 1 .. Len(h) /\ t[i] = h[j]
    <3>1. (Len(all) - Len(h)) + j \in 1 .. Len(all)
      BY <1>1, <2>6
    <3>2. z[Len(z) - Len(t) + i] = all[(Len(all) - Len(h)) + j]
      BY <1>2, <2>4, <3>1
    <3>3. Agree(h[j], all[Len(all) - Len(h) + j])
      BY <2>6 DEF Recent
    <3> QED BY <2>6, <3>2, <3>3
  <2> QED BY <2>2, <2>5, <2>6
<1> QED BY <1>3, <1>4 DEF Recent, z

LEMMA KeptIsRecent ==
  ASSUME CkTypeOK, NEW r \in RunID
  PROVE  Kept(r, lent) <=> Recent(history[r], saved[r])
<1>1. DOMAIN history[r] = 1 .. Len(history[r])
  BY DEF CkTypeOK
<1> QED BY <1>1 DEF Kept, Recent, Agree

(* A copy that was made is stored, and older ones may go.                  *)
LEMMA AppendKeeps ==
  ASSUME CkInv, NEW p \in Proc, SaveAppends(p)
  PROVE  CkInv'
<1> DEFINE x == saving[p]
           new == [step |-> x.step, cell |-> x.cell]
           given == [step |-> x.step, writes |-> x.writes]
           h == history[x.run]
           t == Trimmed(Append(h, new))
<1>1. /\ UNCHANGED <<copies, heap, holds, lent, calls>> /\ x # Idle
      /\ history' = [history EXCEPT ![x.run] = t]
      /\ saved' = [saved EXCEPT ![x.run] = Append(@, given)]
      /\ saving' = [saving EXCEPT ![p] = Idle]
  BY DEF SaveAppends
<1>2. CkTypeOK /\ HeldAreLent /\ CopiesAreOwned /\ CellsSuffice /\ CheckpointsAreKept
  BY DEF CkInv
<1>3. x \in Copy /\ CopyIsOwned(p)
  BY <1>1, <1>2 DEF CkTypeOK, CopiesAreOwned
<1>4. /\ x.run \in RunID /\ x.cell \in Cell /\ new \in Checkpoint /\ given \in Given
      /\ new.cell = x.cell /\ new.step = x.step /\ given.step = x.step /\ given.writes = x.writes
  BY <1>3 DEF Copy, Checkpoint, Given
<1>5. /\ h \in Seq(Checkpoint) /\ saved[x.run] \in Seq(Given)
      /\ Len(h) \in Nat /\ Len(saved[x.run]) \in Nat
  BY <1>2, <1>4 DEF CkTypeOK
<1> HIDE DEF new, given, h, x
<1>7. t \in Seq(Checkpoint) /\ Left(t, h, new)
  BY <1>4, <1>5, TrimmedAppend
<1> HIDE DEF t
<1>9. \A i \in 1 .. Len(t) : t[i] = new \/ \E j \in 1 .. Len(h) : t[i] = h[j]
  BY <1>7 DEF Left
<1>10. /\ history'[x.run] = t /\ \A r \in RunID : r # x.run => history'[r] = history[r]
       /\ saved'[x.run] = Append(saved[x.run], given)
       /\ \A r \in RunID : r # x.run => saved'[r] = saved[r]
       /\ saving'[p] = Idle /\ \A q \in Proc : q # p => saving'[q] = saving[q]
  BY <1>1, <1>2, <1>4 DEF CkTypeOK
<1>11. \A r \in RunID : \A i \in 1 .. Len(history'[r]) :
         history'[r][i].cell = x.cell \/ \E j \in 1 .. Len(history[r]) : history'[r][i].cell = history[r][j].cell
  <2> TAKE r \in RunID
  <2>1. CASE r = x.run
    BY <1>4, <1>9, <1>10, <2>1 DEF h
  <2>2. CASE r # x.run
    BY <1>10, <2>2
  <2> QED BY <2>1, <2>2
<1>12. CkTypeOK'
  <2>1. history' \in [RunID -> Seq(Checkpoint)]
    BY <1>1, <1>2, <1>7 DEF CkTypeOK
  <2>2. saved' \in [RunID -> Seq(Given)]
    <3>1. Append(saved[x.run], given) \in Seq(Given)
      BY <1>4, <1>5
    <3> QED BY <1>1, <1>2, <3>1 DEF CkTypeOK
  <2>3. saving' \in [Proc -> Copy \cup {Idle}]
    BY <1>1, <1>2 DEF CkTypeOK
  <2> QED BY <1>1, <1>2, <2>1, <2>2, <2>3 DEF CkTypeOK
<1>13. HeldAreLent'
  <2> SUFFICES ASSUME NEW q \in Proc, NEW r \in RunID, NEW i \in 1 .. Len(history'[r]),
                      holds[q] = history'[r][i].cell
               PROVE  holds[q] \in lent
    BY <1>1 DEF HeldAreLent
  <2>1. holds[q] # x.cell
    BY <1>3 DEF CopyIsOwned, x
  <2>2. PICK j \in 1 .. Len(history[r]) : history'[r][i].cell = history[r][j].cell
    BY <1>11, <2>1
  <2> QED BY <1>2, <2>2 DEF HeldAreLent
<1>14. CopiesAreOwned'
  <2> SUFFICES ASSUME NEW q \in Proc, saving'[q] # Idle PROVE CopyIsOwned(q)'
    BY DEF CopiesAreOwned
  <2>1. q # p /\ saving'[q] = saving[q] /\ CopyIsOwned(q)
    BY <1>2, <1>10 DEF CopiesAreOwned
  <2>2. x.cell # saving[q].cell
    BY <1>1, <2>1 DEF CopyIsOwned, x
  <2>3. \A r \in RunID : \A i \in 1 .. Len(history'[r]) : history'[r][i].cell # saving[q].cell
    BY <1>11, <2>1, <2>2 DEF CopyIsOwned
  <2>4. \A z \in Proc : saving'[z] # Idle /\ saving'[z].cell = saving[q].cell => z = q
    BY <1>10, <2>1 DEF CopyIsOwned
  <2> QED BY <1>1, <2>1, <2>3, <2>4 DEF CopyIsOwned, Faithful
<1>15. CellsSuffice'
  <2>1. /\ \A r \in RunID : DOMAIN history'[r] = 1 .. Len(history'[r])
        /\ \A r \in RunID : DOMAIN history[r] = 1 .. Len(history[r])
    BY <1>2, <1>12 DEF CkTypeOK
  <2>2. ASSUME NEW d \in InUse' PROVE d \in InUse
    <3>1. \/ \E s \in RunID : \E i \in DOMAIN history'[s] : d = history'[s][i].cell
          \/ \E q \in Proc : d = holds'[q]
          \/ \E q \in Proc : saving'[q] # Idle /\ d = saving'[q].cell
      BY <2>2 DEF InUse
    <3> HIDE DEF InUse
    <3>2. CASE \E s \in RunID : \E i \in DOMAIN history'[s] : d = history'[s][i].cell
      <4>1. d = x.cell \/ \E s \in RunID : \E j \in DOMAIN history[s] : d = history[s][j].cell
        BY <1>11, <2>1, <3>2
      <4> QED BY <1>1, <4>1, Used DEF x
    <3>3. CASE \E q \in Proc : d = holds'[q]
      BY <1>1, <3>3, Used
    <3>4. CASE \E q \in Proc : saving'[q] # Idle /\ d = saving'[q].cell
      BY <1>10, <3>4, Used
    <3> QED BY <3>1, <3>2, <3>3, <3>4
  <2> HIDE DEF InUse
  <2> QED BY <1>1, <1>2, <2>2, CellsKept
<1>16. CheckpointsAreKept'
  <2> SUFFICES ASSUME NEW r \in RunID PROVE Kept(r, lent)'
    BY DEF CheckpointsAreKept
  <2>1. Kept(r, lent)
    BY <1>2 DEF CheckpointsAreKept
  <2>2. CASE r # x.run
    <3>1. /\ history'[r] = history[r] /\ saved'[r] = saved[r]
          /\ copies' = copies /\ heap' = heap /\ lent' = lent
      BY <1>1, <1>10, <2>2
    <3> QED BY ONLY <2>1, <3>1 DEF Kept, Faithful
  <2>3. CASE r = x.run
    <3>1. Recent(h, saved[x.run])
      BY <1>2, <1>4, <2>1, <2>3, KeptIsRecent DEF h
    <3>2. Agree(new, given)
      BY <1>3, <1>4 DEF Agree, CopyIsOwned, x
    <3>3. Recent(history'[r], saved'[r])
      <4>1. Recent(t, Append(saved[x.run], given))
        BY <1>4, <1>5, <1>7, <3>1, <3>2, RecentGrows
      <4> QED BY <1>10, <2>3, <4>1
    <3>4. DOMAIN history'[r] = 1 .. Len(history'[r])
      BY <1>12 DEF CkTypeOK
    <3> QED BY <1>1, <3>3, <3>4 DEF Kept, Recent, Agree, Faithful
  <2> QED BY <2>2, <2>3
<1> QED
  BY <1>12, <1>13, <1>14, <1>15, <1>16 DEF CkInv

(* Where the states of a history are, to compare them with other cells.    *)
LEMMA StoredCells ==
  ASSUME CkTypeOK, NEW r \in RunID
  PROVE  /\ DOMAIN history[r] = 1 .. Len(history[r])
         /\ \A i \in 1 .. Len(history[r]) : history[r][i].cell \in Cell
<1>1. history[r] \in Seq(Checkpoint)
  BY DEF CkTypeOK
<1>2. \A i \in 1 .. Len(history[r]) : history[r][i] \in Checkpoint
  BY <1>1
<1> QED BY <1>1, <1>2 DEF Checkpoint

(* Load and History: a goroutine goes on with a stored state.              *)
LEMMA GivesKeep ==
  ASSUME CkInv, NEW p \in Proc, NEW r \in RunID, NEW i \in 1 .. Len(history[r]), Gives(p, r, i),
         calls' = calls + 1, UNCHANGED <<copies, heap, history, saving, saved>>
  PROVE  CkInv'
<1> DEFINE c == history[r][i].cell
<1>1. /\ UNCHANGED <<copies, heap, history, saving, saved>> /\ calls' = calls + 1
      /\ holds' = [holds EXCEPT ![p] = c] /\ lent' = lent \cup {c}
  BY DEF Gives
<1>2. CkTypeOK /\ HeldAreLent /\ CopiesAreOwned /\ CellsSuffice /\ CheckpointsAreKept
  BY DEF CkInv
<1>3. c \in Cell /\ i \in DOMAIN history[r]
  BY <1>2, StoredCells
<1>4. \E s \in RunID : \E j \in DOMAIN history[s] : c = history[s][j].cell
  BY <1>3
<1>5. \A q \in Proc : saving[q] # Idle => saving[q].cell # c
  BY <1>2 DEF CopiesAreOwned, CopyIsOwned
<1> HIDE DEF c
<1>6. holds'[p] = c /\ \A q \in Proc : q # p => holds'[q] = holds[q]
  BY <1>1, <1>2 DEF CkTypeOK
<1>7. CkTypeOK'
  BY <1>1, <1>2, <1>3 DEF CkTypeOK
<1>8. HeldAreLent'
  BY <1>1, <1>2, <1>6 DEF HeldAreLent
<1>9. CopiesAreOwned'
  <2> SUFFICES ASSUME NEW q \in Proc, saving[q] # Idle PROVE CopyIsOwned(q)'
    BY <1>1 DEF CopiesAreOwned
  <2>1. CopyIsOwned(q) /\ saving[q].cell # c
    BY <1>2, <1>5 DEF CopiesAreOwned
  <2>2. \A x \in Proc : holds'[x] # saving[q].cell
    BY <1>6, <2>1 DEF CopyIsOwned
  <2> QED BY <1>1, <2>1, <2>2 DEF CopyIsOwned, Faithful
<1>10. CellsSuffice'
  <2>1. ASSUME NEW d \in InUse' PROVE d \in InUse
    <3>1. \/ \E s \in RunID : \E j \in DOMAIN history'[s] : d = history'[s][j].cell
          \/ \E q \in Proc : d = holds'[q]
          \/ \E q \in Proc : saving'[q] # Idle /\ d = saving'[q].cell
      BY <2>1 DEF InUse
    <3> HIDE DEF InUse
    <3>2. CASE \E q \in Proc : d = holds'[q]
      <4>1. d = c \/ \E q \in Proc : d = holds[q]
        BY <1>6, <3>2
      <4> QED BY <1>4, <4>1, Used
    <3> QED BY <1>1, <3>1, <3>2, Used
  <2> HIDE DEF InUse
  <2> QED BY <1>1, <1>2, <2>1, CellsKept
<1>11. CheckpointsAreKept'
  BY <1>1, <1>2 DEF CheckpointsAreKept, Kept, Faithful
<1> QED
  BY <1>7, <1>8, <1>9, <1>10, <1>11 DEF CkInv

(* Reset forgets a run: what Load gave away of it is only its holder's.    *)
LEMMA ResetKeeps ==
  ASSUME CkInv, NEW r \in RunID, Reset(r)
  PROVE  CkInv'
<1>1. /\ UNCHANGED <<copies, heap, holds, saving, lent>> /\ calls' = calls + 1
      /\ history' = [history EXCEPT ![r] = << >>]
      /\ saved' = [saved EXCEPT ![r] = << >>]
  BY DEF Reset, Called
<1>2. CkTypeOK /\ HeldAreLent /\ CopiesAreOwned /\ CellsSuffice /\ CheckpointsAreKept
  BY DEF CkInv
<1>3. /\ history'[r] = << >> /\ saved'[r] = << >>
      /\ \A s \in RunID : s # r => history'[s] = history[s] /\ saved'[s] = saved[s]
  BY <1>1, <1>2 DEF CkTypeOK
<1>4. \A s \in RunID : history'[s] = << >> \/ history'[s] = history[s]
  BY <1>3
<1>5. CkTypeOK'
  <2>1. history' \in [RunID -> Seq(Checkpoint)]
    BY <1>1, <1>2 DEF CkTypeOK
  <2>2. saved' \in [RunID -> Seq(Given)]
    BY <1>1, <1>2 DEF CkTypeOK
  <2> QED BY <1>1, <1>2, <2>1, <2>2 DEF CkTypeOK
<1>6. HeldAreLent'
  BY <1>1, <1>2, <1>4 DEF HeldAreLent
<1>7. CopiesAreOwned'
  BY <1>1, <1>2, <1>4 DEF CopiesAreOwned, CopyIsOwned, Faithful
<1>8. CellsSuffice'
  <2>1. ASSUME NEW d \in InUse' PROVE d \in InUse
    <3>1. \/ \E s \in RunID : \E j \in DOMAIN history'[s] : d = history'[s][j].cell
          \/ \E q \in Proc : d = holds'[q]
          \/ \E q \in Proc : saving'[q] # Idle /\ d = saving'[q].cell
      BY <2>1 DEF InUse
    <3> HIDE DEF InUse
    <3> QED BY <1>1, <1>4, <3>1, Used
  <2> HIDE DEF InUse
  <2> QED BY <1>1, <1>2, <2>1, CellsKept
<1>9. CheckpointsAreKept'
  <2> SUFFICES ASSUME NEW s \in RunID PROVE Kept(s, lent)'
    BY DEF CheckpointsAreKept
  <2>1. CASE s = r
    BY <1>3, <2>1, LimitAssumption DEF Kept
  <2>2. CASE s # r
    BY <1>1, <1>2, <1>3, <2>2 DEF CheckpointsAreKept, Kept, Faithful
  <2> QED BY <2>1, <2>2
<1> QED
  BY <1>5, <1>6, <1>7, <1>8, <1>9 DEF CkInv

(* What changes nothing but the number of calls.                           *)
LEMMA IdleKeeps ==
  ASSUME CkInv, UNCHANGED <<copies, heap, history, holds, saving, saved, lent>>,
         calls' \in {calls, calls + 1}
  PROVE  CkInv'
<1>1. CkTypeOK /\ HeldAreLent /\ CopiesAreOwned /\ CellsSuffice /\ CheckpointsAreKept
  BY DEF CkInv
<1>2. CkTypeOK'
  BY <1>1 DEF CkTypeOK
<1>3. HeldAreLent' /\ CopiesAreOwned' /\ CheckpointsAreKept'
  BY <1>1 DEF HeldAreLent, CopiesAreOwned, CopyIsOwned, CheckpointsAreKept, Kept, Faithful
<1>4. CellsSuffice'
  <2>1. InUse' = InUse
    BY DEF InUse
  <2> QED BY <1>1, <2>1, CellsKept
<1> QED BY <1>1, <1>2, <1>3, <1>4 DEF CkInv

-----------------------------------------------------------------------------
(* The invariant of the checkpointer, of any interleaving of its callers.  *)
THEOREM CheckpointerInductive == CheckpointerSpec => []CkInv
<1>1. CheckpointerInit => CkInv
  BY InitHolds
<1>2. CkInv /\ [CheckpointerNext]_ckVars => CkInv'
  <2> SUFFICES ASSUME CkInv, [CheckpointerNext]_ckVars PROVE CkInv'
    OBVIOUS
  <2>1. ASSUME NEW p \in Proc, NodeWrites(p) PROVE CkInv'
    BY <2>1, WritesKeep
  <2>2. ASSUME NEW p \in Proc, SaveRefused(p) PROVE CkInv'
    BY <2>2, IdleKeeps DEF SaveRefused, Called
  <2>3. ASSUME NEW p \in Proc, SaveAppends(p) PROVE CkInv'
    BY <2>3, AppendKeeps
  <2>4. ASSUME NEW p \in Proc, NEW r \in RunID, SaveCopies(p, r) PROVE CkInv'
    BY <2>4, CopyKeeps
  <2>5. ASSUME NEW p \in Proc, NEW r \in RunID, Load(p, r) PROVE CkInv'
    <3>1. history[r] \in Seq(Checkpoint) /\ history[r] # << >>
      BY <2>5 DEF Load, CkInv, CkTypeOK
    <3>2. Len(history[r]) \in 1 .. Len(history[r])
      BY <3>1
    <3> QED BY <2>5, <3>2, GivesKeep DEF Load, Called
  <2>6. ASSUME NEW p \in Proc, NEW r \in RunID, History(p, r) PROVE CkInv'
    <3>1. PICK i \in DOMAIN history[r] : Gives(p, r, i)
      BY <2>6 DEF History
    <3>2. i \in 1 .. Len(history[r])
      BY <3>1, StoredCells DEF CkInv
    <3> QED BY <2>6, <3>1, <3>2, GivesKeep DEF History, Called
  <2>7. ASSUME NEW r \in RunID, Reset(r) PROVE CkInv'
    BY <2>7, ResetKeeps
  <2>8. CASE UNCHANGED ckVars
    BY <2>8, IdleKeeps DEF ckVars
  <2> QED
    BY <2>1, <2>2, <2>3, <2>4, <2>5, <2>6, <2>7, <2>8 DEF CheckpointerNext
<1> QED BY <1>1, <1>2, PTL DEF CheckpointerSpec

(***************************************************************************)
(* What MemoryCheckpointer stores of a run, its most recent part if a      *)
(* limit is set, is what Save was given when it was called, in the order   *)
(* of the saves, however goroutines write, save, load and reset at once:   *)
(* all of it, or, of a type with fields gob cannot see in nested values,   *)
(* all but those, which are empty.                                         *)
(***************************************************************************)
THEOREM SavesAreKept == CheckpointerSpec => []CheckpointsAreKept
<1>1. CkInv => CheckpointsAreKept
  BY DEF CkInv
<1> QED BY <1>1, CheckpointerInductive, PTL
-----------------------------------------------------------------------------
(***************************************************************************)
(* Hooks. A context of a run or of a node is a sequence of marks; neither  *)
(* nil nor what a panic leaves is one.                                     *)
(***************************************************************************)
Scope == {"run", "node"}
Mark == (Nat \ {0}) \X Scope
Ctx == Seq(Mark)

LEMMA NoContext == NoCtx \notin Ctx /\ Panicked \notin Ctx /\ NoCtx # Panicked
<1>1. /\ NoCtx[1] = <<0, "nil">> /\ Panicked[1] = <<0, "panic">>
      /\ Len(NoCtx) = 1 /\ Len(Panicked) = 1
  BY DEF NoCtx, Panicked
<1>2. <<0, "nil">> \notin Mark /\ <<0, "panic">> \notin Mark
  BY DEF Mark
<1>3. <<0, "nil">> # <<0, "panic">>
  OBVIOUS
<1>4. \A s \in Seq(Mark) : Len(s) = 1 => s[1] \in Mark
  OBVIOUS
<1> QED BY <1>1, <1>2, <1>3, <1>4 DEF Ctx

LEMMA PrefixAppend ==
  ASSUME NEW S, NEW s \in Seq(S), NEW t \in Seq(S), NEW x \in S, IsPrefix(s, t)
  PROVE  IsPrefix(s, Append(t, x))
<1>1. /\ Append(t, x) \in Seq(S) /\ Len(Append(t, x)) = Len(t) + 1
      /\ Len(s) <= Len(t) /\ Len(s) \in Nat /\ Len(t) \in Nat
      /\ SubSeq(s, 1, Len(s)) = SubSeq(t, 1, Len(s))
  BY DEF IsPrefix
<1>2. SubSeq(Append(t, x), 1, Len(s)) = SubSeq(t, 1, Len(s))
  BY <1>1
<1> QED BY <1>1, <1>2 DEF IsPrefix

LEMMA PrefixOfItself ==
  ASSUME NEW S, NEW s \in Seq(S)
  PROVE  IsPrefix(s, s)
BY DEF IsPrefix

(* Induction over the positions of a chain.                                *)
LEMMA UpTo ==
  ASSUME NEW N \in Nat, NEW T, 0 \in T, \A n \in 0 .. N : n < N /\ n \in T => n + 1 \in T
  PROVE  \A n \in 0 .. N : n \in T
<1> SUFFICES ASSUME NEW m \in 0 .. N, m \notin T PROVE FALSE
  OBVIOUS
<1> DEFINE Missed == {n \in 0 .. N : n \notin T}
<1>1. PICK n \in Missed : \A k \in Missed : ~ (k < n)
  <2>1. Missed \subseteq Nat /\ m \in Missed
    OBVIOUS
  <2> HIDE DEF Missed
  <2>2. PICK n \in Missed : \A k \in Missed : ~ (<<k, n>> \in OpToRel(<, Nat))
    BY <2>1, NatLessThanWellFounded, WFMin
  <2> QED BY <2>1, <2>2 DEF OpToRel
<1>2. n # 0 /\ n - 1 \in 0 .. N /\ n - 1 < N /\ (n - 1) + 1 = n /\ n - 1 < n
  BY <1>1
<1> QED BY <1>1, <1>2

-----------------------------------------------------------------------------
(***************************************************************************)
(* What a chain has made of the context ctx after its first n hooks: the   *)
(* marks begun are in the context unless a hook after theirs misbehaved.   *)
(***************************************************************************)

Link == [ctx : Ctx \cup {NoCtx, Panicked}, begun : SUBSET Mark]

Fired(c, n, scope, ctx) ==
  /\ c \in Link
  /\ c.ctx \in Ctx => IsPrefix(ctx, c.ctx)
  /\ c.begun \subseteq Merged \X {scope}
  /\ \A m \in c.begun :
       m[1] <= n /\ (Spoiled(m[1]) \/ (c.ctx \in Ctx /\ m \in Range(c.ctx)))

HooksTyped == hooks \in Seq(Hook)

LEMMA HookKinds ==
  ASSUME HooksTyped, NEW i \in DOMAIN hooks
  PROVE  /\ i \in Nat \ {0}
         /\ hooks[i].before \in {"absent", "begins", "nil", "panics"}
         /\ hooks[i].after \in {"absent", "ends", "panics"}
<1>1. i \in Nat \ {0} /\ hooks[i] \in Hook
  BY DEF HooksTyped
<1> QED BY <1>1, HookAssumption

LEMMA FirstLink ==
  ASSUME NEW scope \in Scope, NEW ctx \in Ctx
  PROVE  Fired([ctx |-> ctx, begun |-> {}], 0, scope, ctx)
BY PrefixOfItself DEF Fired, Link, Ctx

(* A Before callback that returns nil or panics spoils the spans before it.*)
LEMMA LaterSpoils ==
  ASSUME HooksTyped, NEW i \in DOMAIN hooks, NEW k \in Nat, k < i,
         hooks[i].before \in {"nil", "panics"}
  PROVE  Spoiled(k)
<1>1. i \in k + 1 .. Len(hooks)
  BY DEF HooksTyped
<1> QED BY <1>1 DEF Spoiled

LEMMA NextLink ==
  ASSUME HooksTyped, NEW scope \in Scope, NEW ctx \in Ctx, NEW n \in Nat, NEW c,
         Fired(c, n, scope, ctx), n + 1 \in DOMAIN hooks
  PROVE  Fired(Fire(c, n + 1, scope), n + 1, scope, ctx)
<1> DEFINE i == n + 1
<1>1. /\ c \in Link /\ c.ctx \in Ctx \cup {NoCtx, Panicked} /\ c.begun \in SUBSET Mark
      /\ c.begun \subseteq Merged \X {scope} /\ i \in DOMAIN hooks /\ i \in Nat \ {0}
  BY DEF Fired, Link
<1>2. \A m \in c.begun : m[1] \in Nat /\ m[1] <= n /\ m[1] < i /\ m[1] <= i
  BY <1>1 DEF Fired, Mark
<1>3. ASSUME c.ctx \notin Ctx PROVE \A m \in c.begun : Spoiled(m[1])
  BY <1>3 DEF Fired
<1>4. ASSUME hooks[i].before \in {"nil", "panics"} PROVE \A m \in c.begun : Spoiled(m[1])
  BY <1>1, <1>2, <1>4, LaterSpoils
<1> HIDE DEF i
<1>5. ASSUME NEW x \in {NoCtx, Panicked}, \A m \in c.begun : Spoiled(m[1])
      PROVE  Fired([ctx |-> x, begun |-> c.begun], i, scope, ctx)
  <2> DEFINE d == [ctx |-> x, begun |-> c.begun]
  <2>1. d.ctx = x /\ d.begun = c.begun /\ d \in Link
    BY <1>1 DEF Link
  <2>2. x \notin Ctx
    BY NoContext
  <2> HIDE DEF d
  <2>3. Fired(d, i, scope, ctx)
    <3>1. \A m \in d.begun : m[1] <= i /\ Spoiled(m[1])
      BY <1>2, <1>5, <2>1
    <3>2. d.begun \subseteq Merged \X {scope} /\ d.ctx \notin Ctx
      BY <1>1, <2>1, <2>2
    <3> QED BY ONLY <2>1, <3>1, <3>2 DEF Fired
  <2> QED BY <2>3 DEF d
<1>6. CASE c.ctx = Panicked \/ i \notin Merged \/ hooks[i].before = "absent"
  BY <1>2, <1>6 DEF Fire, Fired, i
<1>7. CASE /\ ~ (c.ctx = Panicked \/ i \notin Merged \/ hooks[i].before = "absent")
           /\ hooks[i].before = "panics" \/ (hooks[i].before = "begins" /\ c.ctx = NoCtx)
  <2>1. Fire(c, i, scope) = [ctx |-> Panicked, begun |-> c.begun]
    BY <1>7 DEF Fire
  <2>2. \A m \in c.begun : Spoiled(m[1])
    BY <1>3, <1>4, <1>7, NoContext
  <2> QED BY <1>5, <2>1, <2>2 DEF i
<1>8. CASE /\ ~ (c.ctx = Panicked \/ i \notin Merged \/ hooks[i].before = "absent")
           /\ hooks[i].before = "nil"
  <2>1. Fire(c, i, scope) = [ctx |-> NoCtx, begun |-> c.begun]
    BY <1>8 DEF Fire
  <2> QED BY <1>4, <1>5, <1>8, <2>1 DEF i
<1>9. CASE /\ ~ (c.ctx = Panicked \/ i \notin Merged \/ hooks[i].before = "absent")
           /\ hooks[i].before = "begins" /\ c.ctx # NoCtx
  <2> DEFINE m == <<i, scope>>
             b == Append(c.ctx, m)
             e == [ctx |-> b, begun |-> c.begun \cup {m}]
  <2>1. Fire(c, i, scope) = e
    BY <1>9 DEF Fire
  <2>2. m \in Mark /\ m \in Merged \X {scope} /\ c.ctx \in Ctx /\ m[1] = i
    BY <1>1, <1>9 DEF Mark
  <2>3. b \in Ctx /\ IsPrefix(ctx, b)
    <3>1. IsPrefix(ctx, c.ctx)
      BY <2>2 DEF Fired
    <3> HIDE DEF m
    <3> QED BY <2>2, <3>1, PrefixAppend DEF Ctx
  <2>4. Range(b) = Range(c.ctx) \cup {m}
    <3>1. /\ c.ctx \in Seq(Mark) /\ b \in Seq(Mark) /\ Len(b) = Len(c.ctx) + 1 /\ b[Len(b)] = m
          /\ \A k \in 1 .. Len(c.ctx) : b[k] = c.ctx[k]
          /\ DOMAIN b = 1 .. Len(c.ctx) + 1 /\ DOMAIN c.ctx = 1 .. Len(c.ctx) /\ Len(c.ctx) \in Nat
      BY <2>2 DEF Ctx
    <3> HIDE DEF b, m
    <3> QED BY <3>1 DEF Range
  <2>5. e.ctx = b /\ e.begun = c.begun \cup {m} /\ e \in Link
    BY <1>1, <2>2, <2>3 DEF Link
  <2>6. i <= i
    BY <1>1
  <2> HIDE DEF e, b, m
  <2>7. Fired(e, i, scope, ctx)
    BY <1>1, <1>2, <2>2, <2>3, <2>4, <2>5, <2>6 DEF Fired
  <2> QED BY <2>1, <2>7 DEF i
<1>10. hooks[i].before \in {"absent", "begins", "nil", "panics"}
  BY <1>1, HookKinds
<1> QED
  BY <1>6, <1>7, <1>8, <1>9, <1>10

(* The function of a chain exists: each link is made from the one before.  *)
Links(f, n, scope, ctx) ==
  f[n] = IF n = 0 THEN [ctx |-> ctx, begun |-> {}] ELSE Fire(f[n - 1], n, scope)

LEMMA LinksExist ==
  ASSUME HooksTyped, NEW scope \in Scope, NEW ctx \in Ctx
  PROVE  \E f \in [0 .. Len(hooks) -> Link] :
           \A n \in 0 .. Len(hooks) : Links(f, n, scope, ctx) /\ Fired(f[n], n, scope, ctx)
<1> DEFINE Good == {k \in 0 .. Len(hooks) : \E f \in [0 .. k -> Link] :
                      \A n \in 0 .. k : Links(f, n, scope, ctx) /\ Fired(f[n], n, scope, ctx)}
           first == [ctx |-> ctx, begun |-> {}]
<1>1. Len(hooks) \in Nat /\ DOMAIN hooks = 1 .. Len(hooks)
  BY DEF HooksTyped
<1>2. 0 \in Good
  <2>1. Fired(first, 0, scope, ctx)
    BY FirstLink
  <2>2. first \in Link
    BY <2>1 DEF Fired
  <2>3. \A n \in 0 .. 0 : Links([k \in 0 .. 0 |-> first], n, scope, ctx)
    BY DEF Links
  <2> HIDE DEF first
  <2>4. [k \in 0 .. 0 |-> first] \in [0 .. 0 -> Link]
    BY <2>2
  <2>5. \A n \in 0 .. 0 : Fired([k \in 0 .. 0 |-> first][n], n, scope, ctx)
    BY <2>1
  <2>6. 0 \in 0 .. Len(hooks)
    BY <1>1
  <2> QED BY <2>3, <2>4, <2>5, <2>6
<1>3. ASSUME NEW k \in 0 .. Len(hooks), k < Len(hooks), k \in Good
      PROVE  k + 1 \in Good
  <2>1. PICK f \in [0 .. k -> Link] :
          \A n \in 0 .. k : Links(f, n, scope, ctx) /\ Fired(f[n], n, scope, ctx)
    BY <1>3
  <2> DEFINE v == Fire(f[k], k + 1, scope)
             h == [n \in 0 .. (k + 1) |-> IF n = k + 1 THEN v ELSE f[n]]
  <2>2. Fired(v, k + 1, scope, ctx)
    <3>1. k \in 0 .. k /\ k + 1 \in DOMAIN hooks /\ k \in Nat
      BY <1>1, <1>3
    <3> QED BY <2>1, <3>1, NextLink
  <2>3. v \in Link
    BY <2>2 DEF Fired
  <2>4. h \in [0 .. (k + 1) -> Link]
    <3> HIDE DEF v
    <3> QED BY <2>1, <2>3
  <2>5. ASSUME NEW n \in 0 .. (k + 1)
        PROVE  Links(h, n, scope, ctx) /\ Fired(h[n], n, scope, ctx)
    <3>1. CASE n = k + 1
      <4>1. h[n] = v /\ n # 0 /\ n - 1 = k /\ h[k] = f[k]
        BY <3>1
      <4>2. Fired(h[n], n, scope, ctx)
        BY <2>2, <3>1, <4>1
      <4>3. v = Fire(h[n - 1], n, scope)
        BY <3>1, <4>1
      <4> HIDE DEF h, v
      <4> QED BY <4>1, <4>2, <4>3 DEF Links
    <3>2. CASE n \in 0 .. k
      <4>1. h[n] = f[n] /\ (n # 0 => h[n - 1] = f[n - 1])
        BY <3>2
      <4>2. Links(f, n, scope, ctx) /\ Fired(f[n], n, scope, ctx)
        BY <2>1, <3>2
      <4> HIDE DEF h
      <4> QED BY <4>1, <4>2 DEF Links
    <3> QED BY <3>1, <3>2
  <2>6. k + 1 \in 0 .. Len(hooks)
    BY <1>1, <1>3
  <2> HIDE DEF h
  <2> QED BY <2>4, <2>5, <2>6
<1>4. Len(hooks) \in Good
  <2> HIDE DEF Good
  <2>1. \A n \in 0 .. Len(hooks) : n \in Good
    BY <1>1, <1>2, <1>3, UpTo
  <2> QED BY <1>1, <2>1
<1> QED BY <1>4

(* What a chain of Before callbacks gives back.                            *)
LEMMA ChainFires ==
  ASSUME HooksTyped, NEW scope \in Scope, NEW ctx \in Ctx
  PROVE  Fired(Chain(scope, ctx), Len(hooks), scope, ctx)
<1> DEFINE Kind(f) == f = [n \in 0 .. Len(hooks) |->
                             IF n = 0 THEN [ctx |-> ctx, begun |-> {}] ELSE Fire(f[n - 1], n, scope)]
           f1 == CHOOSE f : Kind(f)
<1>1. PICK f \in [0 .. Len(hooks) -> Link] :
        \A n \in 0 .. Len(hooks) : Links(f, n, scope, ctx) /\ Fired(f[n], n, scope, ctx)
  BY LinksExist
<1>2. Kind(f)
  BY <1>1 DEF Links
<1>3. Kind(f1)
  BY <1>2
<1>4. Len(hooks) \in Nat
  BY DEF HooksTyped
<1>5. Chain(scope, ctx) = f1[Len(hooks)]
  BY DEF Chain
<1>6. /\ DOMAIN f1 = 0 .. Len(hooks) /\ \A n \in 0 .. Len(hooks) : Links(f1, n, scope, ctx)
  BY <1>3 DEF Links
<1> HIDE DEF f1
<1> DEFINE Same == {n \in 0 .. Len(hooks) : f1[n] = f[n]}
<1>7. 0 \in Same
  <2>1. 0 \in 0 .. Len(hooks)
    BY <1>4
  <2>2. Links(f1, 0, scope, ctx) /\ Links(f, 0, scope, ctx)
    BY <1>1, <1>6, <2>1
  <2> QED BY <2>1, <2>2 DEF Links
<1>8. ASSUME NEW n \in 0 .. Len(hooks), n < Len(hooks), n \in Same PROVE n + 1 \in Same
  <2>1. n + 1 \in 0 .. Len(hooks) /\ n + 1 # 0 /\ (n + 1) - 1 = n
    BY <1>4, <1>8
  <2>2. Links(f1, n + 1, scope, ctx) /\ Links(f, n + 1, scope, ctx)
    BY <1>1, <1>6, <2>1
  <2> QED BY <1>8, <2>1, <2>2 DEF Links
<1>9. Len(hooks) \in Same
  <2> HIDE DEF Same
  <2>1. \A n \in 0 .. Len(hooks) : n \in Same
    BY <1>4, <1>7, <1>8, UpTo
  <2> QED BY <1>4, <2>1
<1> QED BY <1>1, <1>4, <1>5, <1>9

LEMMA BeforeExtends ==
  ASSUME HooksTyped, NEW scope \in Scope, NEW ctx \in Ctx
  PROVE  /\ Before(scope, ctx) \in Ctx /\ IsPrefix(ctx, Before(scope, ctx))
         /\ Chain(scope, ctx).begun \subseteq Merged \X {scope}
         /\ \A m \in Chain(scope, ctx).begun : Spoiled(m[1]) \/ m \in Range(Before(scope, ctx))
<1> DEFINE c == Chain(scope, ctx)
<1>1. Fired(c, Len(hooks), scope, ctx)
  BY ChainFires
<1>2. Before(scope, ctx) = IF c.ctx \in {Panicked, NoCtx} THEN ctx ELSE c.ctx
  BY DEF Before
<1> HIDE DEF c
<1>3. /\ c.ctx \in Ctx \cup {NoCtx, Panicked} /\ c.begun \subseteq Merged \X {scope}
      /\ c.ctx \in Ctx => IsPrefix(ctx, c.ctx)
      /\ \A m \in c.begun : Spoiled(m[1]) \/ (c.ctx \in Ctx /\ m \in Range(c.ctx))
  BY <1>1 DEF Fired, Link
<1>4. Before(scope, ctx) \in Ctx /\ IsPrefix(ctx, Before(scope, ctx))
  <2>1. IsPrefix(ctx, ctx)
    BY PrefixOfItself DEF Ctx
  <2>2. CASE c.ctx \in {Panicked, NoCtx}
    BY <1>2, <2>1, <2>2
  <2>3. CASE c.ctx \in Ctx
    <3>1. Before(scope, ctx) = c.ctx
      BY <1>2, <2>3, NoContext
    <3> QED BY <1>3, <2>3, <3>1
  <2> QED BY <1>3, <2>2, <2>3
<1>5. ASSUME NEW m \in c.begun PROVE Spoiled(m[1]) \/ m \in Range(Before(scope, ctx))
  <2>1. CASE Spoiled(m[1])
    BY <2>1
  <2>2. CASE c.ctx \in Ctx /\ m \in Range(c.ctx)
    <3>1. Before(scope, ctx) = c.ctx
      BY <1>2, <2>2, NoContext
    <3> QED BY <2>2, <3>1
  <2> QED BY <1>3, <2>1, <2>2
<1>6. c.begun \subseteq Merged \X {scope}
  BY <1>3
<1> QED BY <1>4, <1>5, <1>6 DEF c

-----------------------------------------------------------------------------
(***************************************************************************)
(* The marks of the open spans are in the context of whoever will end      *)
(* them, unless a hook has spoiled them; those that nobody ends are left.  *)
(***************************************************************************)
NeverEnds(m) == hooks[m[1]].after # "ends" \/ Spoiled(m[1])

OpenTells ==
  \A m \in open :
    /\ m[1] \in Merged /\ m[2] \in Scope
    /\ m[2] = "run" => (ran = "running" /\ m \in Range(runCtx)) \/ NeverEnds(m)
    /\ m[2] = "node" => (nodeCtx # NoCtx /\ m \in Range(nodeCtx)) \/ NeverEnds(m)

HookInv ==
  /\ HooksTyped /\ runCtx \in Ctx /\ nodeCtx \in Ctx \cup {NoCtx}
  /\ ran \in {"before", "running", "over"}
  /\ ran = "before" => open = {}
  /\ nodeCtx # NoCtx => ran = "running" /\ IsPrefix(runCtx, nodeCtx)
  /\ OpenTells

(* An After callback that nobody panics before ends the span it finds.     *)
LEMMA EndsItsOwn ==
  ASSUME HooksTyped, NEW scope \in Scope, NEW ctx, NEW m \in Range(ctx),
         m[1] \in Merged, m[2] = scope, m \notin Ended(scope, ctx)
  PROVE  NeverEnds(m)
<1>1. CASE hooks[m[1]].after # "ends"
  BY <1>1 DEF NeverEnds
<1>2. CASE hooks[m[1]].after = "ends"
  <2>1. PICK j \in Merged : j < m[1] /\ hooks[j].after = "panics"
    BY <1>2 DEF Ended
  <2>2. j \in 1 .. Len(hooks) /\ m[1] \in Nat
    BY <2>1 DEF Merged, HooksTyped
  <2>3. j \in 1 .. m[1] - 1
    BY <2>1, <2>2
  <2> QED BY <2>1, <2>3 DEF NeverEnds, Spoiled
<1> QED BY <1>1, <1>2

LEMMA RunBeginsKeeps == HookInv /\ RunBegins => HookInv'
<1> SUFFICES ASSUME HookInv, RunBegins PROVE HookInv'
  OBVIOUS
<1> DEFINE c == Before("run", runCtx)
           b == Chain("run", runCtx).begun
<1>1. /\ HooksTyped /\ runCtx \in Ctx /\ nodeCtx = NoCtx
      /\ hooks' = hooks /\ nodeCtx' = nodeCtx /\ ran' = "running" /\ runCtx' = c /\ open' = b
  BY DEF HookInv, RunBegins
<1>2. /\ c \in Ctx /\ b \subseteq Merged \X {"run"}
      /\ \A m \in b : Spoiled(m[1]) \/ m \in Range(c)
  BY <1>1, BeforeExtends DEF Scope
<1> HIDE DEF c, b
<1>3. OpenTells'
  BY <1>1, <1>2 DEF OpenTells, Merged, NeverEnds, Spoiled, Scope
<1> QED BY <1>1, <1>2, <1>3 DEF HookInv, HooksTyped

LEMMA NodeBeginsKeeps == HookInv /\ NodeBegins => HookInv'
<1> SUFFICES ASSUME HookInv, NodeBegins PROVE HookInv'
  OBVIOUS
<1> DEFINE c == Before("node", runCtx)
           b == Chain("node", runCtx).begun
<1>1. /\ HooksTyped /\ runCtx \in Ctx /\ nodeCtx = NoCtx /\ ran = "running" /\ OpenTells
      /\ hooks' = hooks /\ nodeCtx' = c /\ ran' = ran /\ runCtx' = runCtx /\ open' = open \cup b
  BY DEF HookInv, NodeBegins
<1>2. /\ c \in Ctx /\ IsPrefix(runCtx, c) /\ b \subseteq Merged \X {"node"}
      /\ \A m \in b : Spoiled(m[1]) \/ m \in Range(c)
  BY <1>1, BeforeExtends DEF Scope
<1> HIDE DEF c, b
<1>3. c # NoCtx
  BY <1>2, NoContext
<1>4. OpenTells'
  <2> SUFFICES ASSUME NEW m \in open \cup b
               PROVE  /\ m[1] \in Merged /\ m[2] \in Scope
                      /\ m[2] = "run" => m \in Range(runCtx) \/ NeverEnds(m)
                      /\ m[2] = "node" => m \in Range(c) \/ NeverEnds(m)
    BY <1>1, <1>3 DEF OpenTells, Merged, NeverEnds, Spoiled
  <2>1. CASE m \in open
    BY <1>1, <2>1 DEF OpenTells
  <2>2. CASE m \in b
    BY <1>2, <2>2 DEF Scope, NeverEnds
  <2> QED BY <2>1, <2>2
<1> QED BY <1>1, <1>2, <1>4 DEF HookInv, HooksTyped

LEMMA NodeEndsKeeps == HookInv /\ NodeEnds => HookInv'
<1> SUFFICES ASSUME HookInv, NodeEnds PROVE HookInv'
  OBVIOUS
<1> DEFINE e == Ended("node", nodeCtx)
<1>1. /\ HooksTyped /\ runCtx \in Ctx /\ nodeCtx # NoCtx /\ ran = "running" /\ OpenTells
      /\ hooks' = hooks /\ nodeCtx' = NoCtx /\ ran' = ran /\ runCtx' = runCtx /\ open' = open \ e
  BY DEF HookInv, NodeEnds
<1>2. OpenTells'
  <2> SUFFICES ASSUME NEW m \in open, m \notin e
               PROVE  /\ m[1] \in Merged /\ m[2] \in Scope
                      /\ m[2] = "run" => m \in Range(runCtx) \/ NeverEnds(m)
                      /\ m[2] = "node" => NeverEnds(m)
    BY <1>1 DEF OpenTells, Merged, NeverEnds, Spoiled
  <2>1. m[2] = "node" /\ m \in Range(nodeCtx) => NeverEnds(m)
    BY <1>1, EndsItsOwn DEF OpenTells, Scope
  <2> QED BY <1>1, <2>1 DEF OpenTells
<1> QED BY <1>1, <1>2 DEF HookInv, HooksTyped

LEMMA RunEndsKeeps == HookInv /\ RunEnds => HookInv'
<1> SUFFICES ASSUME HookInv, RunEnds PROVE HookInv'
  OBVIOUS
<1> DEFINE e == Ended("run", runCtx)
<1>1. /\ HooksTyped /\ runCtx \in Ctx /\ nodeCtx = NoCtx /\ OpenTells
      /\ hooks' = hooks /\ nodeCtx' = nodeCtx /\ ran' = "over" /\ runCtx' = runCtx /\ open' = open \ e
  BY DEF HookInv, RunEnds
<1>2. OpenTells'
  <2> SUFFICES ASSUME NEW m \in open, m \notin e
               PROVE  /\ m[1] \in Merged /\ m[2] \in Scope
                      /\ NeverEnds(m)
    BY <1>1 DEF OpenTells, Merged, NeverEnds, Spoiled
  <2>1. m[2] = "run" /\ m \in Range(runCtx) => NeverEnds(m)
    BY <1>1, EndsItsOwn DEF OpenTells, Scope
  <2> QED BY <1>1, <2>1 DEF OpenTells, Scope
<1> QED BY <1>1, <1>2 DEF HookInv, HooksTyped

(***************************************************************************)
(* Whatever the merged hooks do -- panic, return nil, miss a callback -- a *)
(* node runs under a context that extends its run's, and a span is left    *)
(* open only if its own hook does not end it, one merged before it panics  *)
(* in After, or one merged after it loses the context in Before: for every *)
(* list of hooks that MergeHooks is given.                                 *)
(***************************************************************************)
THEOREM BrokenHooksAreContained ==
  ASSUME NEW lists, lists \subseteq Seq(Hook)
  PROVE  HooksSpec(lists) => []HooksAreContained
<1>1. HooksInit(lists) => HookInv
  <2> SUFFICES ASSUME HooksInit(lists) PROVE HookInv
    OBVIOUS
  <2>1. << >> \in Ctx
    BY DEF Ctx
  <2> QED BY <2>1 DEF HooksInit, HookInv, HooksTyped, OpenTells
<1>2. HookInv /\ [HooksNext]_hookVars => HookInv'
  <2>1. HookInv /\ UNCHANGED hookVars => HookInv'
    BY DEF HookInv, hookVars, HooksTyped, OpenTells, Merged, NeverEnds, Spoiled
  <2> QED
    BY <2>1, RunBeginsKeeps, NodeBeginsKeeps, NodeEndsKeeps, RunEndsKeeps DEF HooksNext
<1>3. HookInv => HooksAreContained
  <2> SUFFICES ASSUME HookInv PROVE HooksAreContained
    OBVIOUS
  <2>1. NoCtx # runCtx /\ (ran = "running" /\ nodeCtx # NoCtx => IsPrefix(runCtx, nodeCtx))
    BY NoContext DEF HookInv
  <2>2. ASSUME ran = "over", NEW m \in open
        PROVE  hooks[m[1]].after # "ends" \/ Spoiled(m[1])
    BY <2>2 DEF HookInv, OpenTells, NeverEnds, Scope
  <2> QED BY <2>1, <2>2 DEF HooksAreContained
<1> QED BY <1>1, <1>2, <1>3, PTL DEF HooksSpec

=============================================================================
