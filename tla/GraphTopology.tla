--------------------------- MODULE GraphTopology ---------------------------
(***************************************************************************)
(* The graphs of pkg/graph: what the builder records, when Compile accepts *)
(* it, and how the compiled Runnable resolves the edge out of a node.      *)
(*                                                                         *)
(* A graph is a record                                                     *)
(*   nodes    the registered node names                                    *)
(*   static   from-name -> to-name        (staticEdges)                    *)
(*   routers  the from-names with a router (conditionalEdges)              *)
(*   branch   from-name -> (label -> to-name)          (branchMaps)        *)
(*   gated    the interrupt-gated names   (interruptBefore)                *)
(*   errs     whether the builder recorded a problem                       *)
(* A compiled Runnable is such a record with its entry.                    *)
(***************************************************************************)

CONSTANTS Name,     \* the ordinary names a caller writes
          Label,    \* the labels a branch-map router returns
          START,    \* the reserved source
          END,      \* the reserved sink
          Empty     \* the empty string

ASSUME NamesDistinct ==
  /\ START # END /\ START # Empty /\ END # Empty
  /\ {START, END, Empty} \cap Name = {}
  /\ {START, END, Empty} \cap Label = {}

(* The partial functions from S to T: Go's maps. *)
Maps(S, T) == UNION {[D -> T] : D \in SUBSET S}

(* m with key k set to v. *)
Put(m, k, v) == [x \in DOMAIN m \cup {k} |-> IF x = k THEN v ELSE m[x]]

NoMap == [x \in {} |-> Empty]

NewGraph ==
  [nodes |-> {}, static |-> NoMap, routers |-> {}, branch |-> NoMap,
   gated |-> {}, errs |-> FALSE]

Problem(g) == [g EXCEPT !.errs = TRUE]

(***************************************************************************)
(* The chainable builder calls. A rejected call records a problem and      *)
(* changes nothing else. isNil says that the func argument is nil.         *)
(***************************************************************************)
AddNode(g, name, isNil) ==
  IF name \in {Empty, START, END} \cup g.nodes \/ isNil
  THEN Problem(g)
  ELSE [g EXCEPT !.nodes = @ \cup {name}]

HasEdge(g, from) == from \in DOMAIN g.static \cup g.routers

(* Slip: an edge wants its source registered first. *)
AddEdgeNodesFirst(g, from, to) ==
  IF from \notin g.nodes \cup {START} \/ to \in {Empty, START} \/ HasEdge(g, from)
  THEN Problem(g)
  ELSE [g EXCEPT !.static = Put(@, from, to)]

AddEdge(g, from, to) ==
  IF from \in {Empty, END} \/ to \in {Empty, START} \/ HasEdge(g, from)
  THEN Problem(g)
  ELSE [g EXCEPT !.static = Put(@, from, to)]

AddConditionalEdge(g, from, isNil) ==
  IF from \in {Empty, END} \/ isNil \/ HasEdge(g, from)
  THEN Problem(g)
  ELSE [g EXCEPT !.routers = @ \cup {from}]

AddConditionalEdges(g, from, isNil, branchMap) ==
  IF from \in {Empty, END} \/ isNil \/ DOMAIN branchMap = {} \/ HasEdge(g, from)
  THEN Problem(g)
  ELSE [g EXCEPT !.routers = @ \cup {from}, !.branch = Put(@, from, branchMap)]

InterruptBefore(g, name) ==
  IF name \in {Empty, START, END}
  THEN Problem(g)
  ELSE [g EXCEPT !.gated = @ \cup {name}]

(* Slip: the targets of branch maps are not looked up. *)
AcceptedAnyBranch(g) ==
  /\ ~g.errs
  /\ START \in DOMAIN g.static
  /\ g.static[START] \in g.nodes \cup {END}
  /\ \A from \in DOMAIN g.static \ {START} :
        from \in g.nodes /\ g.static[from] \in g.nodes \cup {END}
  /\ g.routers \ {START} \subseteq g.nodes
  /\ \A name \in g.nodes : (name \in DOMAIN g.static) # (name \in g.routers)
  /\ g.gated \subseteq g.nodes

(***************************************************************************)
(* Compile: the problems it looks for, and the Runnable it returns.        *)
(***************************************************************************)
Accepted(g) ==
  /\ ~g.errs
  /\ START \in DOMAIN g.static
  /\ g.static[START] \in g.nodes \cup {END}
  /\ \A from \in DOMAIN g.static \ {START} :
        from \in g.nodes /\ g.static[from] \in g.nodes \cup {END}
  /\ g.routers \ {START} \subseteq g.nodes
  /\ \A from \in DOMAIN g.branch : \A label \in DOMAIN g.branch[from] :
        g.branch[from][label] \in g.nodes \cup {END}
  /\ \A name \in g.nodes : (name \in DOMAIN g.static) # (name \in g.routers)
  /\ g.gated \subseteq g.nodes

Runnable(g) ==
  [nodes |-> g.nodes, static |-> g.static, routers |-> g.routers,
   branch |-> g.branch, gated |-> g.gated, entry |-> g.static[START]]

(***************************************************************************)
(* What Compile guarantees of a Runnable: every edge, branch target and    *)
(* entry leads to a node of it, or to END (see CompileCloses of            *)
(* GraphBuilderProofs).                                                    *)
(***************************************************************************)
Closed(r) ==
  /\ END \notin r.nodes /\ Empty \notin r.nodes
  /\ r.entry \in r.nodes \cup {END}
  /\ r.gated \subseteq r.nodes
  /\ \A n \in DOMAIN r.static : r.static[n] \in r.nodes \cup {END}
  /\ \A n \in DOMAIN r.branch : \A l \in DOMAIN r.branch[n] :
        r.branch[n][l] \in r.nodes \cup {END}
  /\ DOMAIN r.branch \subseteq r.routers

(***************************************************************************)
(* resolveNext. out is what the router of n returned; it is ignored when n *)
(* has a static edge. A failed resolution names the error of errors.go.    *)
(***************************************************************************)
To(n) == [ok |-> TRUE, next |-> n]
Failed(e) == [ok |-> FALSE, err |-> e]

RouterPanics == "router panics"

ResolveNext(r, n, out) ==
  IF n \in DOMAIN r.static                 THEN To(r.static[n])
  ELSE IF n \notin r.routers               THEN Failed("NoOutgoingEdge")
  ELSE IF out = RouterPanics               THEN Failed("RouterPanic")
  ELSE IF out = Empty                      THEN Failed("EmptyRouterResult")
  ELSE IF n \notin DOMAIN r.branch
       THEN IF out \in r.nodes \cup {END}
            THEN To(out) ELSE Failed("UnknownNode")
       ELSE IF out \in DOMAIN r.branch[n]
            THEN To(r.branch[n][out]) ELSE Failed("UnknownBranchLabel")

(* What the edge out of n may resolve to when its router returns one of    *)
(* outs[n].                                                                *)
Resolutions(r, outs, n) ==
  IF n \in r.routers
  THEN {ResolveNext(r, n, out) : out \in outs[n]}
  ELSE {ResolveNext(r, n, Empty)}

Succ(r, outs, n) == {res.next : res \in {x \in Resolutions(r, outs, n) : x.ok}}

=============================================================================
