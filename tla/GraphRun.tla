------------------------------ MODULE GraphRun ------------------------------
(***************************************************************************)
(* The synchronous runtime of pkg/graph: InvokeWith and Resume calls of    *)
(* one RunID, one at a time, over runLoop, with a durable Checkpointer and *)
(* a process that may die between any two steps.                           *)
(*                                                                         *)
(* The user's state is abstracted to what the properties tell apart: the   *)
(* sequence of nodes whose effects it contains, and how many human edits   *)
(* (OverrideState) it went through.                                        *)
(***************************************************************************)
EXTENDS GraphTopology, Integers, Sequences

CONSTANTS
  R,                 \* the compiled Runnable
  RouterOut,         \* what the router of each node may return
  Retired,           \* nodes an earlier version of the graph had
  Options,           \* the RunOptions callers pass
  RunnableMaxSteps,  \* Runnable.MaxSteps, 0 for the package default
  DefaultMaxSteps,   \* defaultMaxSteps
  MaxCalls           \* bound: InvokeWith and Resume calls

ASSUME RIsCompiled == Closed(R)

ASSUME RetiredNodes ==
  Retired \cap (R.nodes \cup {END, Empty}) = {}

ASSUME OptionsType ==
  Options \subseteq [checkpointer : BOOLEAN, runID : BOOLEAN,
                     timeout : BOOLEAN, maxSteps : Nat]

ASSUME Bounds ==
  /\ RunnableMaxSteps \in Nat
  /\ DefaultMaxSteps \in Nat \ {0}
  /\ MaxCalls \in Nat

VARIABLES
  pc,       \* where the call is, "idle" when there is none
  opts,     \* its RunOptions
  ctx,      \* its context
  state,    \* the loop's state
  next,     \* the node about to run
  step,     \* the loop's step counter
  bypass,   \* bypassInterrupt
  ret,      \* what the last call returned
  store,    \* the latest checkpoint of the RunID (what Load returns)
  calls,    \* history: calls made
  fresh,    \* history: this run has stored nothing yet
  held,     \* history: <<step, node>> of the interrupt checkpoints stored
  late      \* history: node bodies begun after ctx was done, in this call

call == <<opts, next, step, bypass>>
history == <<calls, fresh, held, late>>
vars == <<pc, opts, ctx, state, next, step, bypass, ret, store, history>>

Initial == [trace |-> << >>, edits |-> 0]

NoCheckpoint == [node |-> Empty]

Checkpoint(n, s, k, why) == [node |-> n, state |-> s, step |-> k, reason |-> why]

NoError == "nil"

(* Runnable.maxStepsOrDefault and the per-call override. *)
Limit(o) ==
  IF o.maxSteps > 0 THEN o.maxSteps
  ELSE IF RunnableMaxSteps > 0 THEN RunnableMaxSteps ELSE DefaultMaxSteps

(* The run-level deadline is wrapped; what the caller's context says is    *)
(* returned as it is, unless a Timeout is set and it too is a deadline.    *)
CtxError ==
  IF opts.timeout /\ ctx \in {"callerDeadline", "runTimeout"}
  THEN "TimedOut" ELSE ctx

Init ==
  /\ pc = "idle"
  /\ opts \in Options
  /\ ctx = "live"
  /\ state = Initial
  /\ next = R.entry
  /\ step = 0
  /\ bypass = FALSE
  /\ ret = [err |-> NoError, state |-> Initial]
  /\ \/ store = NoCheckpoint
     \/ \E n \in Retired : store = Checkpoint(n, Initial, 1, "step")
  /\ calls = 0
  /\ fresh = FALSE
  /\ held = {}
  /\ late = 0

-----------------------------------------------------------------------------
(* Ways out of a call. Return runs the deferred AfterRun.                  *)

Finish(err, s) ==
  /\ pc' = "returning"
  /\ ret' = [err |-> err, state |-> s]

Refuse(err) ==
  /\ ret' = [err |-> err, state |-> Initial]
  /\ UNCHANGED <<pc, call, ctx, state, store, fresh, held, late>>

RunLoop(o, s, n, k, b) ==
  /\ pc' = "top"
  /\ opts' = o
  /\ ctx' = "live"
  /\ state' = s
  /\ next' = n
  /\ step' = k
  /\ bypass' = b
  /\ late' = 0
  /\ UNCHANGED <<ret, store, held>>

InvokeWith ==
  /\ pc = "idle"
  /\ calls < MaxCalls
  /\ calls' = calls + 1
  /\ \E o \in Options :
       IF o.checkpointer /\ ~o.runID
       THEN Refuse("CheckpointerMissingRunID")
       ELSE /\ RunLoop(o, Initial, R.entry, 0, FALSE)
            /\ fresh' = TRUE

(* The state Resume continues with: the saved one or the caller's edit.    *)
ResumeState(ck) == {ck.state, [ck.state EXCEPT !.edits = @ + 1]}

(* Slip: the loop continues after the checkpointed step, not at it. *)
ResumeOneLater ==
  /\ pc = "idle" /\ calls < MaxCalls /\ store # NoCheckpoint
  /\ calls' = calls + 1
  /\ \E o \in Options, s \in ResumeState(store) :
       o.checkpointer /\ RunLoop(o, s, store.node, store.step, TRUE)
  /\ fresh' = FALSE

Resume ==
  /\ pc = "idle"
  /\ calls < MaxCalls
  /\ calls' = calls + 1
  /\ \E o \in Options :
       \/ ~o.checkpointer /\ Refuse("ResumeMissingCheckpointer")
       \/ o.checkpointer /\ ~o.runID /\ Refuse("ResumeMissingRunID")
       \/ /\ o.checkpointer /\ o.runID
          /\ \/ Refuse("LoadFailed")
             \/ store = NoCheckpoint /\ Refuse("CheckpointNotFound")
             \/ /\ store # NoCheckpoint
                /\ \E s \in ResumeState(store) :
                     RunLoop(o, s, store.node, store.step - 1, TRUE)
                /\ fresh' = FALSE

-----------------------------------------------------------------------------
(* saveCheckpoint: nothing without a Checkpointer; otherwise Save stores   *)
(* the checkpoint and succeeds, or fails, in which case a remote store may *)
(* or may not have written it. A new run's first write replaces the        *)
(* history of the run before it.                                           *)

Write(ck) ==
  /\ store' = ck
  /\ fresh' = FALSE
  /\ held' = (IF fresh THEN {} ELSE held)
             \cup (IF ck.reason = "interrupt" THEN {<<ck.step, ck.node>>} ELSE {})

NotWritten == UNCHANGED <<store, fresh, held>>

Saved(ck) == IF opts.checkpointer THEN Write(ck) ELSE NotWritten

SaveFails(ck) ==
  /\ opts.checkpointer
  /\ Write(ck) \/ NotWritten
  /\ Finish("SaveFailed", state)

-----------------------------------------------------------------------------
(* runLoop, from the top of the loop.                                      *)

Top == pc = "top"
Running == Top /\ ctx = "live"

LoopCancelled ==
  /\ Top
  /\ ctx # "live"
  /\ Finish(CtxError, state)
  /\ UNCHANGED <<call, ctx, state, store, history>>

(* Slip: a failed terminal save is logged and forgotten. *)
ReachEndBestEffort ==
  /\ Running
  /\ next = END
  /\ Saved(Checkpoint(END, state, step, "end")) \/ NotWritten
  /\ Finish(NoError, state)
  /\ UNCHANGED <<call, ctx, state, calls, late>>

ReachEnd ==
  /\ Running
  /\ next = END
  /\ LET ck == Checkpoint(END, state, step, "end") IN
       \/ Saved(ck) /\ Finish(NoError, state)
       \/ SaveFails(ck)
  /\ UNCHANGED <<call, ctx, state, calls, late>>

MaxStepsExceeded ==
  /\ Running
  /\ next # END
  /\ step >= Limit(opts)
  /\ Finish("MaxSteps", state)
  /\ UNCHANGED <<call, ctx, state, store, history>>

MayStep == Running /\ next # END /\ step < Limit(opts)

Gated == next \in R.gated /\ ~bypass

Interrupt ==
  /\ MayStep
  /\ Gated
  /\ LET ck == Checkpoint(next, state, step + 1, "interrupt") IN
       \/ Saved(ck) /\ Finish("Interrupted", state)
       \/ SaveFails(ck)
  /\ UNCHANGED <<call, ctx, state, calls, late>>

UnknownNode ==
  /\ MayStep
  /\ ~Gated
  /\ next \notin R.nodes
  /\ bypass' = FALSE
  /\ Finish("UnknownNode", state)
  /\ UNCHANGED <<opts, next, step, ctx, state, store, history>>

(* Slip: a failed save does not stop the run. *)
CheckpointStepBestEffort ==
  /\ MayStep
  /\ ~Gated
  /\ next \in R.nodes
  /\ bypass' = FALSE
  /\ Saved(Checkpoint(next, state, step + 1, "step")) \/ NotWritten
  /\ pc' = "ready"
  /\ UNCHANGED <<opts, next, step, ctx, state, ret, calls, late>>

(* Slip: the bypass of a Resume is never taken back. *)
CheckpointStepKeepsBypass ==
  /\ MayStep
  /\ ~Gated
  /\ next \in R.nodes
  /\ Saved(Checkpoint(next, state, step + 1, "step"))
  /\ pc' = "ready"
  /\ UNCHANGED <<call, ctx, state, ret, calls, late>>

CheckpointStep ==
  /\ MayStep
  /\ ~Gated
  /\ next \in R.nodes
  /\ bypass' = FALSE
  /\ LET ck == Checkpoint(next, state, step + 1, "step") IN
       \/ /\ Saved(ck)
          /\ pc' = "ready"
          /\ UNCHANGED ret
       \/ SaveFails(ck)
  /\ UNCHANGED <<opts, next, step, ctx, state, calls, late>>

(* BeforeNode has run (its panics are recovered): the body begins.         *)
StartNode ==
  /\ pc = "ready"
  /\ pc' = "node"
  /\ late' = IF ctx = "live" THEN late ELSE late + 1
  /\ UNCHANGED <<call, ctx, state, ret, store, calls, fresh, held>>

(* Slip: a failed node is skipped over. *)
NodeReturnsSkipping ==
  /\ pc = "node"
  /\ state' \in {state, [state EXCEPT !.trace = Append(@, next)]}
  /\ pc' = "route"
  /\ UNCHANGED <<call, ctx, ret, store, history>>

(* Slip: a failed node is tried again without counting the attempt. *)
NodeReturnsRetrying ==
  /\ pc = "node"
  /\ \/ state' = [state EXCEPT !.trace = Append(@, next)] /\ pc' = "route"
     \/ pc' = "top" /\ UNCHANGED state
  /\ UNCHANGED <<call, ctx, ret, store, history>>

(* The body returns a new state; or fails, panics or runs out of its       *)
(* NodeTimeout, and the loop keeps the state it had.                       *)
NodeReturns ==
  /\ pc = "node"
  /\ \/ /\ state' = [state EXCEPT !.trace = Append(@, next)]
        /\ pc' = "route"
        /\ UNCHANGED ret
     \/ /\ \E err \in {"NodeError", "NodePanic"} : Finish(err, state)
        /\ UNCHANGED state
  /\ UNCHANGED <<call, ctx, store, history>>

Route ==
  /\ pc = "route"
  /\ \E res \in Resolutions(R, RouterOut, next) :
       \/ /\ res.ok
          /\ next' = res.next
          /\ step' = step + 1
          /\ pc' = "top"
          /\ UNCHANGED ret
       \/ /\ ~res.ok
          /\ Finish(res.err, state)
          /\ UNCHANGED <<next, step>>
  /\ UNCHANGED <<opts, bypass, ctx, state, store, history>>

(* Between calls the locals of runLoop do not exist.                       *)
LocalsGone ==
  /\ pc' = "idle"
  /\ ctx' = "live"
  /\ state' = Initial
  /\ next' = R.entry
  /\ step' = 0
  /\ bypass' = FALSE
  /\ late' = 0
  /\ UNCHANGED <<opts, store, calls, fresh, held>>

Return ==
  /\ pc = "returning"
  /\ LocalsGone
  /\ UNCHANGED ret

-----------------------------------------------------------------------------
(* The environment.                                                        *)

InCall == pc # "idle"

ContextDone ==
  /\ InCall
  /\ ctx = "live"
  /\ \/ ctx' \in {"cancelled", "callerDeadline"}
     \/ opts.timeout /\ ctx' = "runTimeout"
  /\ UNCHANGED <<pc, call, state, ret, store, history>>

(* The process dies: only the store survives.                              *)
Crash ==
  /\ InCall
  /\ LocalsGone
  /\ ret' = [err |-> "Crashed", state |-> Initial]

Step ==
  \/ LoopCancelled \/ ReachEnd \/ MaxStepsExceeded \/ Interrupt
  \/ UnknownNode \/ CheckpointStep \/ StartNode \/ NodeReturns \/ Route
  \/ Return

Next == InvokeWith \/ Resume \/ Step \/ ContextDone \/ Crash

(* Node bodies, routers and Save return: the loop keeps taking steps.      *)
Spec == Init /\ [][Next]_vars /\ WF_vars(Step)

-----------------------------------------------------------------------------
(* Properties.                                                             *)

Positions == R.nodes \cup Retired \cup {END}

States == [trace : Seq(R.nodes), edits : Nat]

Checkpoints ==
  [node : Positions, state : States, step : Int,
   reason : {"step", "interrupt", "end"}]

(* The type invariant of the run loop and of the store behind it.          *)
TypeOK ==
  /\ pc \in {"idle", "top", "ready", "node", "route", "returning"}
  /\ opts \in Options
  /\ ctx \in {"live", "cancelled", "callerDeadline", "runTimeout"}
  /\ state \in States
  /\ next \in Positions
  /\ step \in Int
  /\ bypass \in BOOLEAN
  /\ ret.state \in States
  /\ store \in {NoCheckpoint} \cup Checkpoints
  /\ calls \in Nat
  /\ fresh \in BOOLEAN
  /\ held \subseteq (Int \X R.gated)
  /\ late \in Nat

(***************************************************************************)
(* At-least-once with durable input: while a node body runs in a           *)
(* checkpointed run, the latest checkpoint is the node's own input, so a   *)
(* crash in the body re-runs it with exactly the state it had.             *)
(***************************************************************************)
InputIsDurable ==
  pc \in {"ready", "node"} /\ opts.checkpointer =>
    store = Checkpoint(next, state, step + 1, "step")

(***************************************************************************)
(* The step counter counts node effects, across resumes of a run that has  *)
(* not ended: with the `ck.Step - 1` of Resume and the `step + 1` of each  *)
(* save, a resumed run can neither repeat nor skip an ordinal.             *)
(***************************************************************************)
StepCountsEffects ==
  pc \in {"ready", "node", "route"} =>
    Len(state.trace) = step + (IF pc = "route" THEN 1 ELSE 0)

(***************************************************************************)
(* MaxSteps bounds the whole run, not each call: no body starts once the   *)
(* state holds as many effects as the limit of the call allows, however    *)
(* many times the run was interrupted, killed and resumed.                 *)
(***************************************************************************)
BudgetSpansResumes ==
  pc = "node" => Len(state.trace) < Limit(opts)

(***************************************************************************)
(* InterruptBefore: a gated node runs only if an interrupt checkpoint was  *)
(* stored for that very step of this run. The bypass of Resume covers one  *)
(* hop and never leaks to a later gate.                                    *)
(***************************************************************************)
GateIsHeld ==
  pc = "node" /\ next \in R.gated => <<step + 1, next>> \in held

(***************************************************************************)
(* Cancellation is checked between steps: a context that is done lets at   *)
(* most one more node body begin.                                          *)
(***************************************************************************)
AtMostOneLateNode == late <= 1

(***************************************************************************)
(* When a body may begin: a gate, the step limit and a context that is     *)
(* done each keep theirs, whatever the other two do.                       *)
(***************************************************************************)
BodiesAreAllowed == GateIsHeld /\ BudgetSpansResumes /\ AtMostOneLateNode

(***************************************************************************)
(* What the caller gets is consistent with what Resume will find. Success  *)
(* means the END checkpoint holds the returned state; ErrInterrupted, that *)
(* the gated node's does; any other error leaves the store at the returned *)
(* state or exactly one node behind it.                                    *)
(***************************************************************************)
ResultMatchesStore ==
  pc = "returning" /\ opts.checkpointer /\ ~fresh =>
    LET now == ret.state.trace
        saved == store.state.trace
    IN /\ ret.err = NoError => store.node = END /\ store.state = ret.state
       /\ ret.err = "Interrupted" =>
            /\ store.reason = "interrupt"
            /\ store.node \in R.gated
            /\ store.state = ret.state
       /\ ret.err \notin {NoError, "Interrupted"} =>
            now = saved \/ now = Append(saved, store.node)

(***************************************************************************)
(* Refinement: the durable position of the run implements GraphWalk.       *)
(***************************************************************************)
durablePos ==
  IF store = NoCheckpoint THEN [trace |-> << >>]
  ELSE [node |-> store.node, trace |-> store.state.trace]

durableHeld == store # NoCheckpoint /\ <<store.step, store.node>> \in held

Walk == INSTANCE GraphWalk WITH pos <- durablePos, held <- durableHeld

DurablePositionWalks == Walk!Spec

(***************************************************************************)
(* Every call returns (or the process dies): MaxSteps bounds the loop even *)
(* when the routers cycle forever.                                         *)
(***************************************************************************)
EveryCallReturns == InCall ~> ~InCall

=============================================================================
