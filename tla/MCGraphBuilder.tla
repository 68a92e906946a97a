--------------------------- MODULE MCGraphBuilder ---------------------------
(***************************************************************************)
(* The parts of pkg/graph around the runtime, for TLC: the builder with    *)
(* two node names, one label, and branch maps that are empty, good, or     *)
(* point at END, at nothing or at a name that may not be registered; the   *)
(* layout of a compiled graph and of every Spec over two nodes, made by a  *)
(* caller or read from JSON; the in-memory checkpointer under two          *)
(* goroutines and two runs; merged hooks of every kind. part tells which   *)
(* of them a behaviour is about.                                           *)
(***************************************************************************)
EXTENDS GraphBuilder, GraphLayout, GraphOptions

CONSTANTS a, b, ok, p1, p2, r1, r2

MCName == {a, b}
MCLabel == {ok}
MCBranchMap == {NoMap, [l \in {ok} |-> b], [l \in {ok} |-> Empty]}
MCProc == {p1, p2}
MCRunID == {r1, r2}
MCCell == 1 .. 8
MCHook ==
  [before : {"absent", "begins", "nil", "panics"}, after : {"absent", "ends", "panics"}]

VARIABLE part

mcVars == <<part, vars, layout, ckVars, hookVars>>

Specs ==
  {[nodes |-> Name, interrupt |-> {}, static |-> edges, conditional |-> NoMap] :
     edges \in SUBSET (({START} \cup Name) \X (Name \cup {END}))}

MCInit ==
  /\ part \in {"builder", "layout", "checkpointer", "hooks"}
  /\ IF part = "builder" THEN Init ELSE g = Problem(NewGraph) /\ runnable = NotCompiled
  /\ IF part = "layout" THEN \E spec \in Specs : layout = StartLayout(spec) ELSE layout = NotLaid
  /\ CheckpointerInit /\ (part = "checkpointer" \/ copies = "gob")
  /\ HooksInit(IF part = "hooks" THEN SeqOf(Hook, 3) ELSE {<< >>})

(* A compiled graph is inspected and drawn. *)
Render ==
  /\ runnable # NotCompiled /\ layout = NotLaid
  /\ layout' = StartLayout(Inspect(runnable))
  /\ UNCHANGED vars

MCNext ==
  \/ part = "builder" /\ Next /\ UNCHANGED <<part, layout, ckVars, hookVars>>
  \/ part = "builder" /\ Render /\ UNCHANGED <<part, ckVars, hookVars>>
  \/ LayoutNext /\ UNCHANGED <<part, vars, ckVars, hookVars>>
  \/ part = "checkpointer" /\ CheckpointerNext /\ UNCHANGED <<part, vars, layout, hookVars>>
  \/ part = "hooks" /\ HooksNext /\ UNCHANGED <<part, vars, layout, ckVars>>

(* RenderSVG is one call: it goes on. *)
MCSpec ==
  MCInit /\ [][MCNext]_mcVars /\ WF_mcVars(LayoutNext /\ UNCHANGED <<part, vars, ckVars, hookVars>>)

=============================================================================
