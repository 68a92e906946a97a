------------------------------ MODULE AgentRun ------------------------------
(***************************************************************************)
(* What the agents of pkg/agent and the councils of pkg/council share: the *)
(* graph runtime around their nodes, and the concurrent executor of tool   *)
(* calls (pkg/tool).                                                       *)
(*                                                                         *)
(* A user message is its text; an assistant message is the tool calls it   *)
(* makes; a tool message is the id of the call it answers, whatever the    *)
(* result or error. A call has an id and the tool it names.                *)
(***************************************************************************)
EXTENDS GraphTopology, Naturals, Sequences, FiniteSets

CONSTANT MaxCalls   \* bound: tool calls in one assistant message

VARIABLES
  cfg,      \* the Config, with the compiled graph and its MaxSteps
  s,        \* the state that flows through the graph
  pc,       \* "idle", "top" of runLoop, or inside a node: "agent", "calling"
  next,     \* the node about to run
  step,     \* the runtime's step counter
  pending,  \* the tool calls in flight
  out,      \* their result slots
  ret,      \* what the last run returned; "edited" when the state is the caller's
  asked,    \* history: the last model request
  turns,    \* history: model turns made, which number the call ids
  runs      \* history: Invoke calls

graphVars == <<pc, next, step, ret>>
executor == <<pending, out>>
history == <<asked, turns, runs>>
agentVars == <<cfg, s, graphVars, executor, history>>

User(t) == [role |-> "user", text |-> t]
Assistant(calls) == [role |-> "assistant", calls |-> calls]
ToolResult(id) == [role |-> "tool", answers |-> id]

CallsOf(message) == IF message.role = "assistant" THEN message.calls ELSE << >>

(* The message that ends a conversation.                                   *)
LastOf(messages) == messages[Len(messages)]

(* The ids of a turn's calls are fresh.                                    *)
CallIds(n) == [i \in 1 .. n |-> <<turns, i>>]

NoResult == << >>

-----------------------------------------------------------------------------
(* The runtime around the nodes.                                           *)

(* The run ends; a failed node leaves the state it was given.              *)
Return(err) ==
  /\ pc' = "idle"
  /\ ret' = err
  /\ UNCHANGED <<next, step>>

(* A node returns one of errs.                                             *)
NodeFails(errs) ==
  /\ \E err \in errs : Return(err)
  /\ UNCHANGED s

(* The loop is about to run node n.                                        *)
At(n) == pc = "top" /\ next = n /\ step < cfg.maxSteps

(* The edge out of a node, whose router returned to.                       *)
Follow(node, to) ==
  LET res == ResolveNext(cfg.graph, node, to) IN
  IF res.ok
  THEN pc' = "top" /\ next' = res.next /\ step' = step + 1 /\ UNCHANGED ret
  ELSE Return(res.err)

Begin ==
  /\ pc = "idle"
  /\ runs < cfg.maxRuns
  /\ runs' = runs + 1
  /\ pc' = "top" /\ next' = cfg.graph.entry /\ step' = 0
  /\ UNCHANGED <<cfg, s, executor, ret, asked, turns>>

ReachEnd ==
  /\ pc = "top"
  /\ next = END
  /\ Return("nil")
  /\ UNCHANGED <<cfg, s, executor, asked, turns, runs>>

(* The context is done, or the step limit is reached.                      *)
Stopped ==
  /\ pc = "top"
  /\ \E err \in {"cancelled"} \cup
                (IF next # END /\ step >= cfg.maxSteps THEN {"max steps"} ELSE {}) :
       Return(err)
  /\ UNCHANGED <<cfg, s, executor, asked, turns, runs>>

-----------------------------------------------------------------------------
(* ExecuteCalls: one goroutine per call, each writing its own slot.        *)

StartCalls(calls) ==
  /\ pc' = "calling"
  /\ pending' = calls
  /\ out' = [i \in DOMAIN calls |-> NoResult]

(* The tool returns, fails, panics, is unknown or cancelled: a result      *)
(* under the id of its call.                                               *)
CallReturns(i) ==
  /\ pc = "calling"
  /\ out[i] = NoResult
  /\ out' = [out EXCEPT ![i] = pending[i].id]
  /\ UNCHANGED <<cfg, s, graphVars, pending, asked, turns, runs>>

(* wg.Wait.                                                                *)
AllReturned == pc = "calling" /\ \A i \in DOMAIN out : out[i] # NoResult

Results == [i \in DOMAIN out |-> ToolResult(out[i])]

Collected == pending' = << >> /\ out' = << >>

Loop == ReachEnd \/ Stopped \/ \E i \in DOMAIN out : CallReturns(i)

=============================================================================
