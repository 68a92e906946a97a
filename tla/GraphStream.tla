---------------------------- MODULE GraphStream ----------------------------
(***************************************************************************)
(* The streaming runtime of pkg/graph: the goroutine of runStream, the     *)
(* buffered channel it sends on, and the consumer. Every event is sent by  *)
(* a select between the channel and ctx.Done().                            *)
(***************************************************************************)
EXTENDS GraphTopology, Integers, Sequences

CONSTANTS
  R,          \* the compiled Runnable
  RouterOut,  \* what the router of each node may return
  Options,    \* RunOptions: [valid, checkpointer, timeout, maxSteps]
  Buffer      \* capacity of the channel (16 in StreamWith)

ASSUME RIsCompiled == Closed(R)

ASSUME BufferIsPositive == Buffer \in Nat \ {0}

ASSUME OptionsType ==
  Options \subseteq [valid : BOOLEAN, checkpointer : BOOLEAN, timeout : BOOLEAN,
                     maxSteps : Nat]

VARIABLES
  pc,        \* where the producer goroutine is
  opts,      \* the RunOptions
  ctx,       \* "live", "cancelled", or "released" by the goroutine's own defer
  next,      \* the node about to run
  step,      \* the step counter
  effects,   \* how many node effects the state contains
  runErr,    \* runErr: what the deferred AfterRun will be given
  outcome,   \* history: how the run really ended
  afterRun,  \* history: what AfterRun was given, "not called" before
  chan,      \* the events in the channel
  closed,    \* the channel is closed
  saved,     \* the step of the latest stored checkpoint, 0 before the first
  received,  \* history: what the consumer got
  reading    \* the consumer still reads

run == <<opts, next, step, effects, runErr, outcome>>
consumer == <<received, reading>>
vars == <<pc, ctx, run, afterRun, chan, closed, saved, consumer>>

NoError == "nil"
NotCalled == "not called"
Unfinished == "unfinished"

Event(type, node, k) == [type |-> type, node |-> node, step |-> k, effects |-> effects]

Init ==
  /\ pc = "validate"
  /\ opts \in Options
  /\ ctx = "live"
  /\ next = R.entry
  /\ step = 0
  /\ effects = 0
  /\ runErr = NoError
  /\ outcome = Unfinished
  /\ afterRun = NotCalled
  /\ chan = << >>
  /\ closed = FALSE
  /\ saved = 0
  /\ received = << >>
  /\ reading = TRUE

-----------------------------------------------------------------------------
(* emit: select { case out <- ev: true; case <-ctx.Done(): false }.        *)

Sent(ev) == Len(chan) < Buffer /\ chan' = Append(chan, ev)

Dropped == ctx # "live" /\ UNCHANGED chan

(* Slip: the result of emit is ignored. *)
AnnounceRegardless(ev, at) == (Sent(ev) \/ Dropped) /\ pc' = at

(* An event on the way: when it is dropped the goroutine returns.          *)
Announce(ev, at) ==
  \/ Sent(ev) /\ pc' = at
  \/ Dropped /\ pc' = "return"

(* A terminal event: the goroutine returns whether it was sent or not.     *)
Last(ev) == (Sent(ev) \/ Dropped) /\ pc' = "return"

(* Slip: a failure returns without its event. *)
FailSilently(err) ==
  /\ pc' = "return"
  /\ runErr' = err
  /\ outcome' = err

(* The run fails with err, and the EventError is still to be sent.         *)
Fail(err) ==
  /\ pc' = "emitError"
  /\ runErr' = err
  /\ outcome' = err

(* saveCheckpoint may succeed (write), fail, or panic in user code.        *)
SaveFailsOrPanics ==
  /\ opts.checkpointer
  /\ \/ Fail("SaveFailed")
     \/ /\ pc' = "panicking"
        /\ outcome' = "SavePanic"
        /\ UNCHANGED runErr
  /\ UNCHANGED saved

Written(k) == saved' = IF opts.checkpointer THEN k ELSE saved

Rest == UNCHANGED <<opts, ctx, afterRun, closed, consumer>>

-----------------------------------------------------------------------------
(* The goroutine.                                                          *)

Validate ==
  /\ pc = "validate"
  /\ \/ opts.valid /\ pc' = "start" /\ UNCHANGED <<chan, outcome>>
     \/ /\ ~opts.valid
        /\ outcome' = "CheckpointerMissingRunID"
        /\ Sent(Event("error", Empty, 0)) \/ Dropped
        /\ pc' = "close"
  /\ UNCHANGED <<next, step, effects, runErr, saved>> /\ Rest

EmitRunStart ==
  /\ pc = "start"
  /\ Announce(Event("run_start", R.entry, 0), "top")
  /\ UNCHANGED <<run, saved>> /\ Rest

LoopCancelled ==
  /\ pc = "top"
  /\ ctx # "live"
  /\ Fail("ContextDone")
  /\ UNCHANGED <<next, step, effects, chan, saved>> /\ Rest

ReachEnd ==
  /\ pc = "top" /\ ctx = "live"
  /\ next = END
  /\ \/ /\ Written(step)
        /\ pc' = "emitRunEnd"
        /\ outcome' = NoError
        /\ UNCHANGED runErr
     \/ SaveFailsOrPanics
  /\ UNCHANGED <<next, step, effects, chan>> /\ Rest

EmitRunEnd ==
  /\ pc = "emitRunEnd"
  /\ Last(Event("run_end", END, step))
  /\ UNCHANGED <<run, saved>> /\ Rest

EmitError ==
  /\ pc = "emitError"
  /\ Last(Event("error", Empty, step))
  /\ UNCHANGED <<run, saved>> /\ Rest

MaxStepsExceeded ==
  /\ pc = "top" /\ ctx = "live"
  /\ next # END
  /\ step >= opts.maxSteps
  /\ Fail("MaxSteps")
  /\ UNCHANGED <<next, step, effects, chan, saved>> /\ Rest

MayStep == pc = "top" /\ ctx = "live" /\ next # END /\ step < opts.maxSteps

Interrupt ==
  /\ MayStep
  /\ next \in R.gated
  /\ \/ Written(step + 1) /\ Fail("Interrupted")
     \/ SaveFailsOrPanics
  /\ UNCHANGED <<next, step, effects, chan>> /\ Rest

(* Slip: a failed save does not stop the stream. *)
CheckpointStepBestEffort ==
  /\ MayStep
  /\ next \notin R.gated
  /\ step' = step + 1
  /\ Written(step') \/ UNCHANGED saved
  /\ pc' = "announce"
  /\ UNCHANGED <<runErr, outcome, next, effects, chan>> /\ Rest

(* Compile leaves no unknown node for a run that starts at the entry, so   *)
(* the lookup that follows the gate succeeds.                              *)
CheckpointStep ==
  /\ MayStep
  /\ next \notin R.gated
  /\ step' = step + 1
  /\ \/ /\ Written(step')
        /\ pc' = "announce"
        /\ UNCHANGED <<runErr, outcome>>
     \/ SaveFailsOrPanics
  /\ UNCHANGED <<next, effects, chan>> /\ Rest

EmitNodeStart ==
  /\ pc = "announce"
  /\ Announce(Event("node_start", next, step), "node")
  /\ UNCHANGED <<run, saved>> /\ Rest

NodeReturns ==
  /\ pc = "node"
  /\ \/ /\ effects' = effects + 1
        /\ pc' = "ended"
        /\ UNCHANGED <<runErr, outcome>>
     \/ Fail("NodeFailed") /\ UNCHANGED effects
  /\ UNCHANGED <<next, step, chan, saved>> /\ Rest

EmitNodeEnd ==
  /\ pc = "ended"
  /\ Announce(Event("node_end", next, step), "route")
  /\ UNCHANGED <<run, saved>> /\ Rest

Route ==
  /\ pc = "route"
  /\ \E res \in Resolutions(R, RouterOut, next) :
       \/ /\ res.ok
          /\ next' = res.next
          /\ pc' = "edge"
          /\ UNCHANGED <<runErr, outcome>>
       \/ ~res.ok /\ Fail(res.err) /\ UNCHANGED next
  /\ UNCHANGED <<step, effects, chan, saved>> /\ Rest

EmitEdge ==
  /\ pc = "edge"
  /\ Announce(Event("edge_traversed", next, step), "top")
  /\ UNCHANGED <<run, saved>> /\ Rest

(* The deferred calls: AfterRun with runErr, then the cancel of the        *)
(* run-level timeout, which ends the very context emit selects on, then    *)
(* (after a panic) the backstop's EventError, then close(out).             *)
Deferred(at) ==
  /\ afterRun' = runErr
  /\ ctx' = IF opts.timeout /\ ctx = "live" THEN "released" ELSE ctx
  /\ pc' = at
  /\ UNCHANGED <<run, chan, closed, saved, consumer>>

Return == pc = "return" /\ Deferred("close")

Unwind == pc = "panicking" /\ Deferred("backstop")

Backstop ==
  /\ pc = "backstop"
  /\ Sent(Event("error", Empty, 0)) \/ Dropped
  /\ pc' = "close"
  /\ UNCHANGED <<run, saved>> /\ Rest

Close ==
  /\ pc = "close"
  /\ closed' = TRUE
  /\ pc' = "gone"
  /\ UNCHANGED <<ctx, run, afterRun, chan, saved, consumer>>

Producer ==
  \/ Validate \/ EmitRunStart \/ LoopCancelled \/ ReachEnd \/ EmitRunEnd
  \/ EmitError \/ MaxStepsExceeded \/ Interrupt \/ CheckpointStep
  \/ EmitNodeStart \/ NodeReturns \/ EmitNodeEnd \/ Route \/ EmitEdge
  \/ Return \/ Unwind \/ Backstop \/ Close

-----------------------------------------------------------------------------
(* The consumer drains the channel, or cancels ctx and goes away.          *)

Receive ==
  /\ reading
  /\ chan # << >>
  /\ received' = Append(received, Head(chan))
  /\ chan' = Tail(chan)
  /\ UNCHANGED <<pc, ctx, run, afterRun, closed, saved, reading>>

Leave ==
  /\ reading
  /\ reading' = FALSE
  /\ ctx' = IF ctx = "live" THEN "cancelled" ELSE ctx
  /\ UNCHANGED <<pc, run, afterRun, chan, closed, saved, received>>

(* The caller cancels, its deadline passes, or the run's Timeout fires.    *)
ContextDone ==
  /\ ctx = "live"
  /\ ctx' = "cancelled"
  /\ UNCHANGED <<pc, run, afterRun, chan, closed, saved, consumer>>

Next == Producer \/ Receive \/ Leave \/ ContextDone

Spec == Init /\ [][Next]_vars /\ WF_vars(Producer) /\ WF_vars(Receive)

-----------------------------------------------------------------------------
(* Properties.                                                             *)

Emitted == received \o chan

Types == {"run_start", "node_start", "node_end", "edge_traversed", "run_end",
          "error"}

Events ==
  [type : Types, node : R.nodes \cup {END, Empty}, step : Nat, effects : Nat]

TypeOK ==
  /\ pc \in {"validate", "start", "top", "emitRunEnd", "emitError", "announce",
             "node", "ended", "route", "edge", "return", "panicking",
             "backstop", "close", "gone"}
  /\ opts \in Options
  /\ ctx \in {"live", "cancelled", "released"}
  /\ next \in R.nodes \cup {END}
  /\ step \in Nat /\ effects \in Nat /\ saved \in Nat
  /\ closed \in BOOLEAN /\ reading \in BOOLEAN
  /\ chan \in Seq(Events) /\ Len(chan) <= Buffer
  /\ received \in Seq(Events)

Terminal(ev) == ev.type \in {"run_end", "error"}

(* May event f follow event e?                                             *)
Follows(e, f) ==
  CASE f.type = "error" -> ~Terminal(e)
    [] f.type = "node_start" ->
         \/ e.type = "run_start" /\ f.step = 1 /\ f.node = e.node
         \/ e.type = "edge_traversed" /\ f.step = e.step + 1 /\ f.node = e.node
    [] f.type = "node_end" ->
         /\ e.type = "node_start" /\ f.step = e.step /\ f.node = e.node
         /\ f.effects = e.effects + 1
    [] f.type = "edge_traversed" ->
         /\ e.type = "node_end" /\ f.step = e.step
         /\ f.node \in Succ(R, RouterOut, e.node)
    [] f.type = "run_end" ->
         e.type \in {"run_start", "edge_traversed"} /\ e.node = END
           /\ f.step = e.step
    [] OTHER -> FALSE

(***************************************************************************)
(* The stream tells the run as it happened: events form the protocol       *)
(* run_start (node_start node_end edge_traversed)* and then at most one    *)
(* terminal event, along a walk of the graph, with no event missing in the *)
(* middle even when sends lose the race against ctx.Done().                *)
(***************************************************************************)
StreamIsAWalk ==
  /\ Emitted # << >> => Emitted[1].type \in {"run_start", "error"}
  /\ \A i \in 2 .. Len(Emitted) : Follows(Emitted[i - 1], Emitted[i])

(***************************************************************************)
(* A node is announced only after its checkpoint is stored: a consumer     *)
(* that persists what it saw never runs ahead of what Resume can find. So  *)
(* it is with the end: run_end is sent only for a run whose END checkpoint *)
(* is stored, and an error event never for a run that succeeded.           *)
(***************************************************************************)
AnnouncedIsDurable ==
  \A i \in 1 .. Len(Emitted) :
    /\ opts.checkpointer /\ Emitted[i].type = "node_start" => Emitted[i].step <= saved
    /\ Emitted[i].type = "run_end" => outcome = NoError
    /\ Emitted[i].type = "error" => outcome \notin {NoError, Unfinished}

(***************************************************************************)
(* A channel that closes without a last word was cut short by somebody who *)
(* cancelled (the caller, its deadline, the Timeout), with one exception:  *)
(* the Save of a checkpointer panicked in a run with a Timeout. There the  *)
(* goroutine's own deferred cancel runs before the backstop, whose select  *)
(* may then drop the error although nobody cancelled anything.             *)
(***************************************************************************)
PanicSwallowed == outcome = "SavePanic" /\ ctx = "released"

SaidOrCancelled ==
  \/ Emitted # << >> /\ Terminal(Emitted[Len(Emitted)])
  \/ ctx = "cancelled"
  \/ PanicSwallowed

(***************************************************************************)
(* The goroutine does not leak: the consumer drains until the channel      *)
(* closes or cancels ctx, and then the channel closes. One that reads on   *)
(* is told how the run ended, unless somebody cancelled it before it did   *)
(* or the goroutine swallowed the panic of a Save itself.                  *)
(***************************************************************************)
Told == received # << >> /\ Terminal(received[Len(received)])

StreamCloses ==
  /\ <>closed
  /\ [](closed => SaidOrCancelled)
  /\ <>(~reading \/ (ctx = "cancelled" /\ pc \notin {"close", "gone"}) \/ Told
          \/ PanicSwallowed)

(***************************************************************************)
(* The comment on runStream's backstop: a panic of user code outside the   *)
(* node bodies is converted "into a terminal EventError". So a stream that *)
(* nobody cancelled never closes without one after such a panic.           *)
(***************************************************************************)
PanicsAreTold ==
  closed /\ outcome = "SavePanic" /\ ctx # "cancelled" =>
    Emitted # << >> /\ Terminal(Emitted[Len(Emitted)])

(***************************************************************************)
(* The doc of Hooks.AfterRun: "err is the run error, if any" -- of a run   *)
(* that did not reach END, AfterRun is given an error.                     *)
(***************************************************************************)
AfterRunSeesTheError ==
  afterRun = NoError => outcome = NoError

=============================================================================
