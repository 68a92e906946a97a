--------------------------- MODULE GraphRunProofs ---------------------------
(***************************************************************************)
(* Proofs about GraphRun for every graph, every set of options, every step *)
(* limit and any number of calls: the type invariant, the gate, the        *)
(* durable input, the step count and the budget, and that the durable      *)
(* position implements GraphWalk.                                          *)
(***************************************************************************)
EXTENDS GraphRun, SequenceTheorems, WellFoundedInduction, TLAPS

(***************************************************************************)
(* The inductive invariant. AtTop relates the loop to the store at the     *)
(* head of the loop: a new run has stored nothing, a resumed one stands    *)
(* where the store says, any other is one edge ahead of the store.         *)
(***************************************************************************)
StoredStep ==
  store # NoCheckpoint /\ store.node # END =>
    Len(store.state.trace) = store.step - 1

StoredGateHeld ==
  store # NoCheckpoint /\ store.node \in R.gated =>
    <<store.step, store.node>> \in held

CountsEffects ==
  /\ pc \in {"top", "ready", "node"} /\ next # END => Len(state.trace) = step
  /\ pc = "route" => Len(state.trace) = step + 1

Looping == pc \in {"ready", "node", "route"}

Shape ==
  /\ Looping => next \in R.nodes /\ ~bypass /\ step < Limit(opts)
  /\ pc = "top" /\ next \in Retired => bypass
  /\ bypass => pc \in {"top", "returning"} /\ ~fresh
  /\ fresh /\ pc = "top" /\ opts.checkpointer =>
       next = R.entry /\ state.trace = << >>
  /\ Looping /\ opts.checkpointer => ~fresh

AtTop ==
  pc = "top" /\ opts.checkpointer /\ ~fresh =>
    /\ store # NoCheckpoint
    /\ IF bypass
       THEN /\ store.node = next
            /\ store.step = step + 1
            /\ store.state.trace = state.trace
       ELSE /\ store.node \in R.nodes
            /\ next \in Succ(R, RouterOut, store.node)
            /\ state.trace = Append(store.state.trace, store.node)

BypassNeedsStore == bypass => opts.checkpointer

AtRoute ==
  pc = "route" /\ opts.checkpointer =>
    /\ store # NoCheckpoint
    /\ store.node = next
    /\ state.trace = Append(store.state.trace, next)

GatePassed ==
  pc \in {"ready", "node"} /\ next \in R.gated => <<step + 1, next>> \in held

Lateness ==
  /\ late <= 1
  /\ ctx = "live" \/ pc = "ready" => late = 0

IInv ==
  /\ TypeOK /\ StoredStep /\ StoredGateHeld /\ CountsEffects /\ Shape /\ AtTop
  /\ BypassNeedsStore /\ AtRoute /\ GatePassed /\ InputIsDurable /\ Lateness

-----------------------------------------------------------------------------

(* R is what Compile returned. *)
LEMMA CompiledR ==
  /\ END \notin R.nodes /\ Empty \notin R.nodes
  /\ R.entry \in R.nodes \cup {END}
  /\ R.gated \subseteq R.nodes
  /\ \A n \in DOMAIN R.static : R.static[n] \in R.nodes \cup {END}
  /\ \A n \in DOMAIN R.branch : \A l \in DOMAIN R.branch[n] :
        R.branch[n][l] \in R.nodes \cup {END}
  /\ DOMAIN R.branch \subseteq R.routers
  BY RIsCompiled DEF Closed

(* Whatever a router returns, the edge out of a node leads to a node or to *)
(* END.                                                                    *)
LEMMA ResolvedIsKnown ==
  ASSUME NEW n, NEW res \in Resolutions(R, RouterOut, n), res.ok
  PROVE  res.next \in R.nodes \cup {END} /\ res.next \in Succ(R, RouterOut, n)
<1>1. res.next \in Succ(R, RouterOut, n)
  BY DEF Succ
<1>2. PICK out : res = ResolveNext(R, n, out)
  BY DEF Resolutions
<1>3. res.next \in R.nodes \cup {END}
  BY <1>2, CompiledR DEF ResolveNext, To, Failed
<1>4. QED
  BY <1>1, <1>3


(* A resolution that fails has an error of its own.                        *)
LEMMA FailureIsAnError ==
  ASSUME NEW n, NEW res \in Resolutions(R, RouterOut, n), ~res.ok
  PROVE  res.err \notin {NoError, "Interrupted"}
<1>1. PICK out : res = ResolveNext(R, n, out)
  BY DEF Resolutions
<1>2. QED
  BY <1>1 DEF ResolveNext, To, Failed, NoError

(* NoCheckpoint is told from every checkpoint by its node.                 *)
LEMMA EmptyIsNoPosition == Empty \notin Positions
  BY NamesDistinct, CompiledR, RetiredNodes DEF Positions

LEMMA InitInv == Init => IInv
<1> SUFFICES ASSUME Init PROVE IInv
  OBVIOUS
<1> USE CompiledR, RetiredNodes, NamesDistinct
<1>1. Initial \in States /\ Initial.trace = << >>
  BY DEF Initial, States
<1>2. store \in {NoCheckpoint} \cup Checkpoints
  BY <1>1 DEF Init, Checkpoints, Checkpoint, Positions
<1>3. TypeOK
  <2>1. next \in Positions
    BY CompiledR DEF Init, Positions
  <2>2. ret.state \in States /\ state \in States
    BY <1>1 DEF Init
  <2>3. pc \in {"idle"} /\ opts \in Options /\ ctx = "live" /\ step \in Int
    BY DEF Init
  <2>4. bypass \in BOOLEAN /\ calls \in Nat /\ fresh \in BOOLEAN /\ late \in Nat
    BY DEF Init
  <2>5. held \subseteq (Int \X R.gated)
    BY DEF Init
  <2>6. QED
    BY <1>2, <2>1, <2>2, <2>3, <2>4, <2>5 DEF TypeOK
<1>4. StoredStep /\ StoredGateHeld
  BY <1>1 DEF Init, StoredStep, StoredGateHeld, Checkpoint
<1>5. CountsEffects /\ Shape /\ AtTop /\ BypassNeedsStore /\ AtRoute /\ GatePassed
  BY DEF Init, CountsEffects, Shape, AtTop, BypassNeedsStore, AtRoute,
         GatePassed, Looping
<1>6. InputIsDurable /\ Lateness
  BY DEF Init, InputIsDurable, Lateness
<1>7. QED
  BY <1>3, <1>4, <1>5, <1>6 DEF IInv

(* A new run starts at the entry with an untouched state.                  *)
LEMMA InitialState ==
  Initial \in States /\ Initial.trace = << >> /\ Len(Initial.trace) = 0
<1>1. Initial \in States /\ Initial.trace = << >>
  BY DEF Initial, States
<1>2. QED
  BY <1>1

LEMMA EntryKnown ==
  R.entry \in Positions /\ R.entry \in R.nodes \cup {END} /\ R.entry \notin Retired
  BY CompiledR, RetiredNodes DEF Positions

(* What Save is given is a checkpoint, and not the mark for none.          *)
LEMMA CheckpointTyped ==
  ASSUME NEW n \in Positions, NEW s \in States, NEW k \in Int,
         NEW why \in {"step", "interrupt", "end"}
  PROVE  /\ Checkpoint(n, s, k, why) \in Checkpoints
         /\ Checkpoint(n, s, k, why) # NoCheckpoint
         /\ Checkpoint(n, s, k, why).node = n
         /\ Checkpoint(n, s, k, why).state = s
         /\ Checkpoint(n, s, k, why).step = k
         /\ Checkpoint(n, s, k, why).reason = why
  BY EmptyIsNoPosition DEF Checkpoint, Checkpoints, NoCheckpoint

(* A human edit keeps the effects the state contains.                      *)
LEMMA ResumedState ==
  ASSUME NEW ck \in Checkpoints, NEW s \in ResumeState(ck)
  PROVE  s \in States /\ s.trace = ck.state.trace
  BY DEF ResumeState, Checkpoints, States

LEMMA AppendedEffect ==
  ASSUME NEW s \in States, NEW n \in R.nodes
  PROVE  /\ [s EXCEPT !.trace = Append(@, n)] \in States
         /\ [s EXCEPT !.trace = Append(@, n)].trace = Append(s.trace, n)
         /\ Len([s EXCEPT !.trace = Append(@, n)].trace) = Len(s.trace) + 1
<1>1. s.trace \in Seq(R.nodes)
  BY DEF States
<1>2. /\ Append(s.trace, n) \in Seq(R.nodes)
      /\ Len(Append(s.trace, n)) = Len(s.trace) + 1
  <2> DEFINE t == s.trace
             S == R.nodes
  <2>1. t \in Seq(S) /\ n \in S
    BY <1>1
  <2> HIDE DEF t, S
  <2>2. Append(t, n) \in Seq(S)
    BY <2>1, AppendProperties
  <2>3. Len(Append(t, n)) = Len(t) + 1
    BY <2>1, AppendProperties
  <2>4. QED
    BY <2>2, <2>3 DEF t, S
<1>3. [s EXCEPT !.trace = Append(@, n)].trace = Append(s.trace, n)
  BY DEF States
<1>4. [s EXCEPT !.trace = Append(@, n)] \in States
  BY <1>2 DEF States
<1>5. QED
  BY <1>2, <1>3, <1>4

-----------------------------------------------------------------------------
(* One lemma per action: it preserves the inductive invariant.             *)

LEMMA InvokeWithInv == IInv /\ InvokeWith => IInv'
<1> SUFFICES ASSUME IInv, InvokeWith PROVE IInv'
  OBVIOUS
<1> USE DEF InvokeWith, Refuse, RunLoop, call
<1>1. TypeOK'
  <2>1. /\ pc' \in {"idle", "top", "ready", "node", "route", "returning"}
        /\ ctx' \in {"live", "cancelled", "callerDeadline", "runTimeout"}
    BY DEF IInv, TypeOK
  <2>2. opts' \in Options /\ bypass' \in BOOLEAN /\ fresh' \in BOOLEAN
    BY DEF IInv, TypeOK
  <2>3. step' \in Int /\ calls' \in Nat /\ late' \in Nat
    BY DEF IInv, TypeOK
  <2>4. state' \in States /\ ret'.state \in States
    BY InitialState DEF IInv, TypeOK
  <2>5. next' \in Positions
    BY EntryKnown DEF IInv, TypeOK
  <2>6. /\ store' \in {NoCheckpoint} \cup Checkpoints
        /\ held' \subseteq (Int \X R.gated)
    BY DEF IInv, TypeOK
  <2>7. QED
    BY <2>1, <2>2, <2>3, <2>4, <2>5, <2>6 DEF TypeOK
<1>2. CountsEffects'
  BY InitialState DEF IInv, CountsEffects
<1>3. Shape'
  BY InitialState, EntryKnown DEF IInv, Shape, Looping
<1>4. StoredStep' /\ StoredGateHeld'
  BY DEF IInv, StoredStep, StoredGateHeld
<1>5. BypassNeedsStore' /\ GatePassed' /\ Lateness'
  BY DEF IInv, BypassNeedsStore, GatePassed, Lateness
<1>6. AtTop' /\ AtRoute' /\ InputIsDurable'
  BY DEF IInv, AtTop, AtRoute, InputIsDurable
<1>7. QED
  BY <1>1, <1>2, <1>3, <1>4, <1>5, <1>6 DEF IInv

LEMMA ResumeInv == IInv /\ Resume => IInv'
<1> SUFFICES ASSUME IInv, Resume PROVE IInv'
  OBVIOUS
<1>st. store # NoCheckpoint =>
         /\ store \in Checkpoints /\ store.node \in Positions
         /\ store.step \in Int /\ store.state \in States
  BY DEF IInv, TypeOK, Checkpoints
<1> USE DEF Resume, Refuse, RunLoop, call
<1>1. TypeOK'
  <2>1. /\ pc' \in {"idle", "top", "ready", "node", "route", "returning"}
        /\ ctx' \in {"live", "cancelled", "callerDeadline", "runTimeout"}
    BY DEF IInv, TypeOK
  <2>2. opts' \in Options /\ bypass' \in BOOLEAN /\ fresh' \in BOOLEAN
    BY DEF IInv, TypeOK
  <2>3. step' \in Int /\ calls' \in Nat /\ late' \in Nat
    BY <1>st DEF IInv, TypeOK
  <2>4. state' \in States /\ ret'.state \in States
    BY <1>st, InitialState, ResumedState DEF IInv, TypeOK
  <2>5. next' \in Positions
    BY <1>st DEF IInv, TypeOK
  <2>6. /\ store' \in {NoCheckpoint} \cup Checkpoints
        /\ held' \subseteq (Int \X R.gated)
    BY DEF IInv, TypeOK
  <2>7. QED
    BY <2>1, <2>2, <2>3, <2>4, <2>5, <2>6 DEF TypeOK
<1>2. CountsEffects'
  <2>1. CASE UNCHANGED <<pc, next, step, state>>
    BY <2>1 DEF IInv, CountsEffects
  <2>2. CASE \E s \in ResumeState(store) :
               /\ store # NoCheckpoint /\ pc' = "top" /\ state' = s
               /\ next' = store.node /\ step' = store.step - 1
    <3>1. next' # END => Len(store.state.trace) = step'
      BY <2>2 DEF IInv, StoredStep
    <3>2. state'.trace = store.state.trace
      BY <2>2, <1>st, ResumedState
    <3>3. QED
      BY <2>2, <3>1, <3>2 DEF CountsEffects
  <2>3. QED
    BY <2>1, <2>2
<1>3. AtTop'
  BY <1>st, ResumedState DEF IInv, AtTop
<1>4. StoredStep' /\ StoredGateHeld'
  BY DEF IInv, StoredStep, StoredGateHeld
<1>5. Shape' /\ BypassNeedsStore' /\ GatePassed' /\ Lateness'
  BY DEF IInv, Shape, BypassNeedsStore, GatePassed, Lateness, Looping
<1>6. AtRoute' /\ InputIsDurable'
  BY DEF IInv, AtRoute, InputIsDurable
<1>7. QED
  BY <1>1, <1>2, <1>3, <1>4, <1>5, <1>6 DEF IInv

LEMMA LoopCancelledInv == IInv /\ LoopCancelled => IInv'
<1> SUFFICES ASSUME IInv, LoopCancelled PROVE IInv'
  OBVIOUS
<1> USE DEF LoopCancelled, Top, Finish, call, history
<1>1. TypeOK'
  BY DEF IInv, TypeOK
<1>2. StoredStep' /\ StoredGateHeld' /\ CountsEffects'
  BY DEF IInv, StoredStep, StoredGateHeld, CountsEffects
<1>3. Shape' /\ BypassNeedsStore' /\ GatePassed' /\ Lateness'
  BY DEF IInv, Shape, BypassNeedsStore, GatePassed, Lateness, Looping
<1>4. AtTop' /\ AtRoute' /\ InputIsDurable'
  BY DEF IInv, AtTop, AtRoute, InputIsDurable
<1>5. QED
  BY <1>1, <1>2, <1>3, <1>4 DEF IInv

LEMMA ReachEndInv == IInv /\ ReachEnd => IInv'
<1> SUFFICES ASSUME IInv, ReachEnd PROVE IInv'
  OBVIOUS
<1> DEFINE ck == Checkpoint(END, state, step, "end")
<1>ck. /\ ck \in Checkpoints /\ ck # NoCheckpoint /\ ck.reason = "end"
       /\ ck.node = END /\ ck.step = step /\ ck.state = state
  <2>1. END \in Positions
    BY DEF Positions
  <2>2. QED
    BY <2>1, CheckpointTyped DEF IInv, TypeOK
<1>node. END \notin R.gated
  BY CompiledR
<1> USE DEF ReachEnd, Running, Top, Saved, SaveFails, Write, NotWritten,
           Finish, call
<1>1. TypeOK'
  <2>1. /\ pc' \in {"idle", "top", "ready", "node", "route", "returning"}
        /\ opts' \in Options /\ bypass' \in BOOLEAN /\ fresh' \in BOOLEAN
        /\ ctx' \in {"live", "cancelled", "callerDeadline", "runTimeout"}
        /\ step' \in Int /\ calls' \in Nat /\ late' \in Nat
    BY DEF IInv, TypeOK
  <2>2. state' \in States /\ ret'.state \in States /\ next' \in Positions
    BY DEF IInv, TypeOK
  <2>3. /\ store' \in {NoCheckpoint} \cup Checkpoints
        /\ held' \subseteq (Int \X R.gated)
    BY <1>ck DEF IInv, TypeOK
  <2>4. QED
    BY <2>1, <2>2, <2>3 DEF TypeOK
<1>2. StoredStep'
  BY <1>ck DEF IInv, StoredStep
<1>3. StoredGateHeld'
  BY <1>ck, <1>node DEF IInv, StoredGateHeld
<1>4. InputIsDurable'
  BY DEF ck, IInv, InputIsDurable
<1>5. CountsEffects'
  BY DEF IInv, CountsEffects
<1>6. Shape' /\ BypassNeedsStore' /\ GatePassed' /\ Lateness'
  BY DEF IInv, Shape, BypassNeedsStore, GatePassed, Lateness, Looping
<1>7. AtTop' /\ AtRoute'
  BY DEF IInv, AtTop, AtRoute
<1>8. QED
  BY <1>1, <1>2, <1>3, <1>4, <1>5, <1>6, <1>7 DEF IInv

LEMMA MaxStepsExceededInv == IInv /\ MaxStepsExceeded => IInv'
<1> SUFFICES ASSUME IInv, MaxStepsExceeded PROVE IInv'
  OBVIOUS
<1> USE DEF MaxStepsExceeded, Running, Top, Finish, call, history
<1>1. TypeOK'
  BY DEF IInv, TypeOK
<1>2. StoredStep' /\ StoredGateHeld' /\ CountsEffects'
  BY DEF IInv, StoredStep, StoredGateHeld, CountsEffects
<1>3. Shape' /\ BypassNeedsStore' /\ GatePassed' /\ Lateness'
  BY DEF IInv, Shape, BypassNeedsStore, GatePassed, Lateness, Looping
<1>4. AtTop' /\ AtRoute' /\ InputIsDurable'
  BY DEF IInv, AtTop, AtRoute, InputIsDurable
<1>5. QED
  BY <1>1, <1>2, <1>3, <1>4 DEF IInv

LEMMA InterruptInv == IInv /\ Interrupt => IInv'
<1> SUFFICES ASSUME IInv, Interrupt PROVE IInv'
  OBVIOUS
<1> DEFINE ck == Checkpoint(next, state, step + 1, "interrupt")
<1>ck. /\ ck \in Checkpoints /\ ck # NoCheckpoint /\ ck.reason = "interrupt"
       /\ ck.node = next /\ ck.step = step + 1 /\ ck.state = state
  BY CheckpointTyped DEF IInv, TypeOK
<1>count. next # END /\ Len(state.trace) = step
  BY DEF Interrupt, MayStep, Running, Top, IInv, CountsEffects
<1> USE DEF Interrupt, MayStep, Running, Top, Gated, Saved, SaveFails, Write,
           NotWritten, Finish, call
<1>1. TypeOK'
  <2>1. /\ pc' \in {"idle", "top", "ready", "node", "route", "returning"}
        /\ opts' \in Options /\ bypass' \in BOOLEAN /\ fresh' \in BOOLEAN
        /\ ctx' \in {"live", "cancelled", "callerDeadline", "runTimeout"}
        /\ step' \in Int /\ calls' \in Nat /\ late' \in Nat
    BY DEF IInv, TypeOK
  <2>2. state' \in States /\ ret'.state \in States /\ next' \in Positions
    BY DEF IInv, TypeOK
  <2>3. /\ store' \in {NoCheckpoint} \cup Checkpoints
        /\ held' \subseteq (Int \X R.gated)
    BY <1>ck DEF IInv, TypeOK
  <2>4. QED
    BY <2>1, <2>2, <2>3 DEF TypeOK
<1>2. StoredStep'
  BY <1>ck, <1>count DEF IInv, TypeOK, StoredStep
<1>3. StoredGateHeld'
  BY <1>ck DEF IInv, StoredGateHeld
<1>4. InputIsDurable'
  BY DEF ck, IInv, InputIsDurable
<1>5. CountsEffects'
  BY DEF IInv, CountsEffects
<1>6. Shape' /\ BypassNeedsStore' /\ GatePassed' /\ Lateness'
  BY DEF IInv, Shape, BypassNeedsStore, GatePassed, Lateness, Looping
<1>7. AtTop' /\ AtRoute'
  BY DEF IInv, AtTop, AtRoute
<1>8. QED
  BY <1>1, <1>2, <1>3, <1>4, <1>5, <1>6, <1>7 DEF IInv

LEMMA UnknownNodeInv == IInv /\ UnknownNode => IInv'
<1> SUFFICES ASSUME IInv, UnknownNode PROVE IInv'
  OBVIOUS
<1> USE DEF UnknownNode, MayStep, Running, Top, Gated, Finish, history
<1>1. TypeOK'
  BY DEF IInv, TypeOK
<1>2. StoredStep' /\ StoredGateHeld' /\ CountsEffects'
  BY DEF IInv, StoredStep, StoredGateHeld, CountsEffects
<1>3. Shape' /\ BypassNeedsStore' /\ GatePassed' /\ Lateness'
  BY DEF IInv, Shape, BypassNeedsStore, GatePassed, Lateness, Looping
<1>4. AtTop' /\ AtRoute' /\ InputIsDurable'
  BY DEF IInv, AtTop, AtRoute, InputIsDurable
<1>5. QED
  BY <1>1, <1>2, <1>3, <1>4 DEF IInv

LEMMA CheckpointStepInv == IInv /\ CheckpointStep => IInv'
<1> SUFFICES ASSUME IInv, CheckpointStep PROVE IInv'
  OBVIOUS
<1> DEFINE ck == Checkpoint(next, state, step + 1, "step")
<1>ck. /\ ck \in Checkpoints /\ ck # NoCheckpoint /\ ck.reason = "step"
       /\ ck.node = next /\ ck.step = step + 1 /\ ck.state = state
  BY CheckpointTyped DEF IInv, TypeOK
<1>count. next # END /\ Len(state.trace) = step
  BY DEF CheckpointStep, MayStep, Running, Top, IInv, CountsEffects
<1>gate. next \in R.gated =>
           <<step + 1, next>> \in held /\ opts.checkpointer /\ ~fresh
  <2> SUFFICES ASSUME next \in R.gated
               PROVE  <<step + 1, next>> \in held /\ opts.checkpointer /\ ~fresh
    OBVIOUS
  <2>1. pc = "top" /\ bypass
    BY DEF CheckpointStep, MayStep, Running, Top, Gated
  <2>2. opts.checkpointer /\ ~fresh
    BY <2>1 DEF IInv, BypassNeedsStore, Shape
  <2>3. store # NoCheckpoint /\ store.node = next /\ store.step = step + 1
    BY <2>1, <2>2 DEF IInv, AtTop
  <2>4. QED
    BY <2>2, <2>3 DEF IInv, StoredGateHeld
<1> USE DEF CheckpointStep, MayStep, Running, Top, Gated, Saved, SaveFails,
           Write, NotWritten, Finish
<1>1. TypeOK'
  <2>1. /\ pc' \in {"idle", "top", "ready", "node", "route", "returning"}
        /\ opts' \in Options /\ bypass' \in BOOLEAN /\ fresh' \in BOOLEAN
        /\ ctx' \in {"live", "cancelled", "callerDeadline", "runTimeout"}
        /\ step' \in Int /\ calls' \in Nat /\ late' \in Nat
    BY DEF IInv, TypeOK
  <2>2. state' \in States /\ ret'.state \in States /\ next' \in Positions
    BY DEF IInv, TypeOK
  <2>3. /\ store' \in {NoCheckpoint} \cup Checkpoints
        /\ held' \subseteq (Int \X R.gated)
    BY <1>ck DEF IInv, TypeOK
  <2>4. QED
    BY <2>1, <2>2, <2>3 DEF TypeOK
<1>2. StoredStep'
  BY <1>ck, <1>count DEF IInv, TypeOK, StoredStep
<1>3. StoredGateHeld'
  BY <1>ck, <1>gate DEF IInv, StoredGateHeld
<1>4. GatePassed'
  BY <1>gate DEF GatePassed
<1>5. InputIsDurable'
  BY DEF ck, IInv, InputIsDurable
<1>6. CountsEffects'
  BY DEF IInv, CountsEffects
<1>7. Shape' /\ BypassNeedsStore' /\ Lateness'
  BY DEF IInv, Shape, BypassNeedsStore, Lateness, Looping
<1>8. AtTop' /\ AtRoute'
  BY DEF IInv, AtTop, AtRoute
<1>9. QED
  BY <1>1, <1>2, <1>3, <1>4, <1>5, <1>6, <1>7, <1>8 DEF IInv

LEMMA StartNodeInv == IInv /\ StartNode => IInv'
<1> SUFFICES ASSUME IInv, StartNode PROVE IInv'
  OBVIOUS
<1> USE DEF StartNode, call
<1>1. TypeOK'
  BY DEF IInv, TypeOK
<1>2. StoredStep' /\ StoredGateHeld' /\ CountsEffects'
  BY DEF IInv, StoredStep, StoredGateHeld, CountsEffects
<1>3. Shape' /\ BypassNeedsStore' /\ GatePassed' /\ Lateness'
  BY DEF IInv, Shape, BypassNeedsStore, GatePassed, Lateness, Looping
<1>4. AtTop' /\ AtRoute' /\ InputIsDurable'
  BY DEF IInv, AtTop, AtRoute, InputIsDurable
<1>5. QED
  BY <1>1, <1>2, <1>3, <1>4 DEF IInv

LEMMA NodeReturnsInv == IInv /\ NodeReturns => IInv'
<1> SUFFICES ASSUME IInv, NodeReturns PROVE IInv'
  OBVIOUS
<1>st. opts.checkpointer /\ pc = "node" =>
         store # NoCheckpoint /\ store.node = next /\ store.state = state
  BY CheckpointTyped DEF IInv, TypeOK, InputIsDurable
<1>nd. pc = "node" => next \in R.nodes
  BY DEF IInv, Shape, Looping
<1> USE DEF NodeReturns, Finish, call, history
<1>1. TypeOK'
  <2>1. /\ pc' \in {"idle", "top", "ready", "node", "route", "returning"}
        /\ opts' \in Options /\ bypass' \in BOOLEAN /\ fresh' \in BOOLEAN
        /\ ctx' \in {"live", "cancelled", "callerDeadline", "runTimeout"}
        /\ step' \in Int /\ calls' \in Nat /\ late' \in Nat
    BY DEF IInv, TypeOK
  <2>2. state' \in States /\ ret'.state \in States
    BY <1>nd, AppendedEffect DEF IInv, TypeOK
  <2>3. next' \in Positions /\ store' = store /\ held' = held
    BY DEF IInv, TypeOK
  <2>4. QED
    BY <2>1, <2>2, <2>3 DEF IInv, TypeOK
<1>2. CountsEffects'
  <2>1. CASE pc' = "route"
    <3>1. state \in States /\ Len(state.trace) = step
      BY <2>1, CompiledR, <1>nd DEF IInv, TypeOK, CountsEffects
    <3>2. Len(state'.trace) = Len(state.trace) + 1
      BY <2>1, <3>1, <1>nd, AppendedEffect
    <3>3. QED
      BY <2>1, <3>1, <3>2 DEF CountsEffects
  <2>2. CASE pc' # "route"
    BY <2>2 DEF CountsEffects
  <2>3. QED
    BY <2>1, <2>2
<1>3. AtRoute'
  BY <1>st, <1>nd, AppendedEffect DEF IInv, AtRoute, TypeOK
<1>4. StoredStep' /\ StoredGateHeld'
  BY DEF IInv, StoredStep, StoredGateHeld
<1>5. Shape' /\ BypassNeedsStore' /\ GatePassed' /\ Lateness'
  BY DEF IInv, Shape, BypassNeedsStore, GatePassed, Lateness, Looping
<1>6. AtTop' /\ InputIsDurable'
  BY DEF IInv, AtTop, InputIsDurable
<1>7. QED
  BY <1>1, <1>2, <1>3, <1>4, <1>5, <1>6 DEF IInv

LEMMA RouteInv == IInv /\ Route => IInv'
<1> SUFFICES ASSUME IInv, Route PROVE IInv'
  OBVIOUS
<1>nx. /\ next' \in Positions
       /\ pc' = "top" => next' \notin Retired /\ next' \in Succ(R, RouterOut, next)
  BY ResolvedIsKnown, RetiredNodes DEF IInv, TypeOK, Route, Finish, Positions
<1> USE DEF Route, Finish, history
<1>1. TypeOK'
  <2>1. /\ pc' \in {"idle", "top", "ready", "node", "route", "returning"}
        /\ opts' \in Options /\ bypass' \in BOOLEAN /\ fresh' \in BOOLEAN
        /\ ctx' \in {"live", "cancelled", "callerDeadline", "runTimeout"}
        /\ step' \in Int /\ calls' \in Nat /\ late' \in Nat
    BY DEF IInv, TypeOK
  <2>2. state' \in States /\ ret'.state \in States
    BY DEF IInv, TypeOK
  <2>3. next' \in Positions
    BY <1>nx DEF IInv, TypeOK
  <2>4. /\ store' \in {NoCheckpoint} \cup Checkpoints
        /\ held' \subseteq (Int \X R.gated)
    BY DEF IInv, TypeOK
  <2>5. QED
    BY <2>1, <2>2, <2>3, <2>4 DEF TypeOK
<1>2. Shape'
  BY <1>nx DEF IInv, Shape, Looping
<1>3. AtTop'
  BY <1>nx DEF IInv, AtTop, AtRoute, Shape, Looping
<1>4. StoredStep' /\ StoredGateHeld' /\ CountsEffects'
  BY DEF IInv, StoredStep, StoredGateHeld, CountsEffects
<1>5. BypassNeedsStore' /\ GatePassed' /\ Lateness'
  BY DEF IInv, BypassNeedsStore, GatePassed, Lateness
<1>6. AtRoute' /\ InputIsDurable'
  BY DEF IInv, AtRoute, InputIsDurable
<1>7. QED
  BY <1>1, <1>2, <1>3, <1>4, <1>5, <1>6 DEF IInv

LEMMA ReturnInv == IInv /\ Return => IInv'
<1> SUFFICES ASSUME IInv, Return PROVE IInv'
  OBVIOUS
<1> USE DEF Return, LocalsGone
<1>1. TypeOK'
  <2>1. /\ pc' \in {"idle", "top", "ready", "node", "route", "returning"}
        /\ ctx' \in {"live", "cancelled", "callerDeadline", "runTimeout"}
    BY DEF IInv, TypeOK
  <2>2. opts' \in Options /\ bypass' \in BOOLEAN /\ fresh' \in BOOLEAN
    BY DEF IInv, TypeOK
  <2>3. step' \in Int /\ calls' \in Nat /\ late' \in Nat
    BY DEF IInv, TypeOK
  <2>4. state' \in States /\ ret'.state \in States
    BY InitialState DEF IInv, TypeOK
  <2>5. next' \in Positions
    BY EntryKnown DEF IInv, TypeOK
  <2>6. /\ store' \in {NoCheckpoint} \cup Checkpoints
        /\ held' \subseteq (Int \X R.gated)
    BY DEF IInv, TypeOK
  <2>7. QED
    BY <2>1, <2>2, <2>3, <2>4, <2>5, <2>6 DEF TypeOK
<1>2. StoredStep' /\ StoredGateHeld' /\ CountsEffects'
  BY DEF IInv, StoredStep, StoredGateHeld, CountsEffects
<1>3. Shape' /\ BypassNeedsStore' /\ GatePassed' /\ Lateness'
  BY DEF IInv, Shape, BypassNeedsStore, GatePassed, Lateness, Looping
<1>4. AtTop' /\ AtRoute' /\ InputIsDurable'
  BY DEF IInv, AtTop, AtRoute, InputIsDurable
<1>5. QED
  BY <1>1, <1>2, <1>3, <1>4 DEF IInv

LEMMA CrashInv == IInv /\ Crash => IInv'
<1> SUFFICES ASSUME IInv, Crash PROVE IInv'
  OBVIOUS
<1> USE DEF Crash, LocalsGone, InCall
<1>1. TypeOK'
  <2>1. /\ pc' \in {"idle", "top", "ready", "node", "route", "returning"}
        /\ ctx' \in {"live", "cancelled", "callerDeadline", "runTimeout"}
    BY DEF IInv, TypeOK
  <2>2. opts' \in Options /\ bypass' \in BOOLEAN /\ fresh' \in BOOLEAN
    BY DEF IInv, TypeOK
  <2>3. step' \in Int /\ calls' \in Nat /\ late' \in Nat
    BY DEF IInv, TypeOK
  <2>4. state' \in States /\ ret'.state \in States
    BY InitialState DEF IInv, TypeOK
  <2>5. next' \in Positions
    BY EntryKnown DEF IInv, TypeOK
  <2>6. /\ store' \in {NoCheckpoint} \cup Checkpoints
        /\ held' \subseteq (Int \X R.gated)
    BY DEF IInv, TypeOK
  <2>7. QED
    BY <2>1, <2>2, <2>3, <2>4, <2>5, <2>6 DEF TypeOK
<1>2. StoredStep' /\ StoredGateHeld' /\ CountsEffects'
  BY DEF IInv, StoredStep, StoredGateHeld, CountsEffects
<1>3. Shape' /\ BypassNeedsStore' /\ GatePassed' /\ Lateness'
  BY DEF IInv, Shape, BypassNeedsStore, GatePassed, Lateness, Looping
<1>4. AtTop' /\ AtRoute' /\ InputIsDurable'
  BY DEF IInv, AtTop, AtRoute, InputIsDurable
<1>5. QED
  BY <1>1, <1>2, <1>3, <1>4 DEF IInv

LEMMA ContextDoneInv == IInv /\ ContextDone => IInv'
<1> SUFFICES ASSUME IInv, ContextDone PROVE IInv'
  OBVIOUS
<1> USE DEF ContextDone, InCall, call, history
<1>1. TypeOK'
  BY DEF IInv, TypeOK
<1>2. StoredStep' /\ StoredGateHeld' /\ CountsEffects'
  BY DEF IInv, StoredStep, StoredGateHeld, CountsEffects
<1>3. Shape' /\ BypassNeedsStore' /\ GatePassed' /\ Lateness'
  BY DEF IInv, Shape, BypassNeedsStore, GatePassed, Lateness, Looping
<1>4. AtTop' /\ AtRoute' /\ InputIsDurable'
  BY DEF IInv, AtTop, AtRoute, InputIsDurable
<1>5. QED
  BY <1>1, <1>2, <1>3, <1>4 DEF IInv

LEMMA StutterInv == IInv /\ UNCHANGED vars => IInv'
<1> SUFFICES ASSUME IInv, UNCHANGED vars PROVE IInv'
  OBVIOUS
<1> USE DEF vars, call, history
<1>1. TypeOK'
  BY DEF IInv, TypeOK
<1>2. StoredStep' /\ StoredGateHeld' /\ CountsEffects' /\ Shape'
  BY DEF IInv, StoredStep, StoredGateHeld, CountsEffects, Shape, Looping
<1>3. AtTop' /\ BypassNeedsStore' /\ AtRoute' /\ GatePassed'
  BY DEF IInv, AtTop, BypassNeedsStore, AtRoute, GatePassed
<1>4. InputIsDurable' /\ Lateness'
  BY DEF IInv, InputIsDurable, Lateness
<1>5. QED
  BY <1>1, <1>2, <1>3, <1>4 DEF IInv

LEMMA NextInv == IInv /\ [Next]_vars => IInv'
<1> SUFFICES ASSUME IInv, [Next]_vars PROVE IInv'
  OBVIOUS
<1>1. CASE InvokeWith
  BY <1>1, InvokeWithInv
<1>2. CASE Resume
  BY <1>2, ResumeInv
<1>3. CASE Step
  BY <1>3, LoopCancelledInv, ReachEndInv, MaxStepsExceededInv, InterruptInv,
     UnknownNodeInv, CheckpointStepInv, StartNodeInv, NodeReturnsInv, RouteInv,
     ReturnInv DEF Step
<1>4. CASE ContextDone
  BY <1>4, ContextDoneInv
<1>5. CASE Crash
  BY <1>5, CrashInv
<1>6. CASE UNCHANGED vars
  BY <1>6, StutterInv
<1>7. QED
  BY <1>1, <1>2, <1>3, <1>4, <1>5, <1>6 DEF Next

LEMMA Inductive == Spec => []IInv
  BY InitInv, NextInv, PTL DEF Spec

(* The variables of the run loop and of the store keep their types.        *)
THEOREM TypeCorrect == Spec => []TypeOK
<1>1. IInv => TypeOK
  BY DEF IInv
<1>2. QED
  BY <1>1, Inductive, PTL

(* A body that is about to run or running has its own input in the store,  *)
(* so a crash re-runs it with the state it had.                            *)
THEOREM InputDurability == Spec => []InputIsDurable
<1>1. IInv => InputIsDurable
  BY DEF IInv
<1>2. QED
  BY <1>1, Inductive, PTL

(* No gated node runs that was not held: the bypass of Resume is spent on  *)
(* the node the store names, and the store only names a held gated node.   *)
THEOREM GateSafety == Spec => []GateIsHeld
<1>1. IInv => GateIsHeld
  BY DEF IInv, GatePassed, GateIsHeld
<1>2. QED
  BY <1>1, Inductive, PTL

(* The step counter counts effects, through crashes and resumes.           *)
THEOREM StepCount == Spec => []StepCountsEffects
<1>1. IInv => StepCountsEffects
  BY CompiledR DEF IInv, CountsEffects, StepCountsEffects, Shape, Looping, TypeOK
<1>2. QED
  BY <1>1, Inductive, PTL

(* The step limit bounds the run, not the call.                            *)
THEOREM Budget == Spec => []BudgetSpansResumes
<1>1. IInv => BudgetSpansResumes
  BY CompiledR DEF IInv, CountsEffects, Shape, Looping, BudgetSpansResumes
<1>2. QED
  BY <1>1, Inductive, PTL

(* At most one body begins after the context is done.                      *)
THEOREM Cancellation == Spec => []AtMostOneLateNode
<1>1. IInv => AtMostOneLateNode
  BY DEF IInv, Lateness, AtMostOneLateNode
<1>2. QED
  BY <1>1, Inductive, PTL

(* The three together: gate, limit and cancellation hold at every body.    *)
THEOREM BodiesAllowed == Spec => []BodiesAreAllowed
<1>1. GateIsHeld /\ BudgetSpansResumes /\ AtMostOneLateNode => BodiesAreAllowed
  BY DEF BodiesAreAllowed
<1>2. QED
  BY <1>1, GateSafety, Budget, Cancellation, PTL

-----------------------------------------------------------------------------
(* What a call returns against what the store holds. The invariant follows *)
(* from the position of the loop when the call finished.                   *)

LEMMA ResultStep ==
  IInv /\ ResultMatchesStore /\ [Next]_vars => ResultMatchesStore'
<1> SUFFICES ASSUME IInv, ResultMatchesStore, [Next]_vars,
                    pc' = "returning", opts'.checkpointer, ~fresh'
             PROVE  ResultMatchesStore'
  BY DEF ResultMatchesStore
<1>1. CASE InvokeWith \/ Resume
  BY <1>1 DEF InvokeWith, Resume, Refuse, RunLoop
<1>2. CASE LoopCancelled \/ MaxStepsExceeded \/ UnknownNode
  BY <1>2 DEF LoopCancelled, MaxStepsExceeded, UnknownNode, MayStep, Running, Top,
     CtxError, Finish, call, history, NoError, ResultMatchesStore, IInv, AtTop, TypeOK
<1>3. CASE ReachEnd
  BY <1>3 DEF ReachEnd, Running, Top, Saved, SaveFails, Write, NotWritten, Finish,
     call, Checkpoint, NoError, ResultMatchesStore, IInv, AtTop
<1>4. CASE Interrupt
  BY <1>4 DEF Interrupt, MayStep, Running, Top, Gated, Saved, SaveFails, Write,
     NotWritten, Finish, call, Checkpoint, NoError, ResultMatchesStore, IInv, AtTop
<1>5. CASE CheckpointStep
  BY <1>5 DEF CheckpointStep, MayStep, Running, Top, Gated, Saved, SaveFails, Write,
     NotWritten, Finish, Checkpoint, NoError, ResultMatchesStore, IInv, AtTop
<1>6. CASE StartNode
  BY <1>6 DEF StartNode
<1>7. CASE NodeReturns
  BY <1>7 DEF NodeReturns, Finish, call, history, Checkpoint, NoError,
     ResultMatchesStore, IInv, InputIsDurable
<1>8. CASE Route
  <2>1. PICK res \in Resolutions(R, RouterOut, next) : ~res.ok /\ Finish(res.err, state)
    BY <1>8 DEF Route
  <2>2. res.err \notin {NoError, "Interrupted"}
    BY <2>1, FailureIsAnError
  <2>3. QED
    BY <1>8, <2>1, <2>2 DEF Route, Finish, history, ResultMatchesStore, IInv, AtRoute
<1>9. CASE Return \/ Crash
  BY <1>9 DEF Return, Crash, LocalsGone
<1>10. CASE ContextDone \/ UNCHANGED vars
  BY <1>10 DEF ContextDone, vars, call, history, ResultMatchesStore
<1>11. QED
  BY <1>1, <1>2, <1>3, <1>4, <1>5, <1>6, <1>7, <1>8, <1>9, <1>10 DEF Next, Step

(* Success, an interrupt and every failure tell the caller where the store *)
(* is: at the returned state, or one node behind it.                       *)
THEOREM ResultAgreesWithStore == Spec => []ResultMatchesStore
<1>1. Init => ResultMatchesStore
  BY DEF Init, ResultMatchesStore
<1>2. QED
  BY <1>1, ResultStep, Inductive, PTL DEF Spec

-----------------------------------------------------------------------------
(* Refinement: every write of the store is a step of GraphWalk or keeps    *)
(* the durable position, and nothing else moves it.                        *)

LEMMA SameTopology ==
  ASSUME NEW n
  PROVE  Walk!Succ(R, RouterOut, n) = Succ(R, RouterOut, n)
<1>1. ASSUME NEW out PROVE Walk!ResolveNext(R, n, out) = ResolveNext(R, n, out)
  BY DEF Walk!ResolveNext, ResolveNext, Walk!To, To, Walk!Failed, Failed,
     Walk!RouterPanics, RouterPanics
<1>2. Walk!Resolutions(R, RouterOut, n) = Resolutions(R, RouterOut, n)
  BY <1>1 DEF Walk!Resolutions, Resolutions
<1>3. QED
  BY <1>2 DEF Walk!Succ, Succ

LEMMA WalkStarts == Init => Walk!Init
<1> SUFFICES ASSUME Init PROVE Walk!Init
  OBVIOUS
<1>1. CASE store = NoCheckpoint
  BY <1>1 DEF Walk!Init, durablePos, durableHeld, Walk!Nowhere
<1>2. CASE \E n \in Retired : store = Checkpoint(n, Initial, 1, "step")
  <2>1. PICK n \in Retired : store = Checkpoint(n, Initial, 1, "step")
    BY <1>2
  <2>2. store # NoCheckpoint /\ store.node = n /\ store.state = Initial
    BY <2>1, CheckpointTyped, InitialState DEF Positions
  <2>3. durablePos = Walk!At(n, << >>) /\ ~durableHeld
    BY <2>2, InitialState DEF Init, durablePos, durableHeld, Walk!At
  <2>4. QED
    BY <2>3 DEF Walk!Init
<1>3. QED
  BY <1>1, <1>2 DEF Init

(* A checkpoint written at the head of the loop, for the node about to run *)
(* or for END, by a call that has not stored anything (Begin), that was    *)
(* resumed (the same position again) or that has just crossed an edge      *)
(* (Advance).                                                              *)
LEMMA WriteWalks ==
  ASSUME IInv, TypeOK', pc = "top", opts.checkpointer,
         NEW k \in Int, NEW why \in {"step", "interrupt", "end"},
         k = step + 1 \/ next = END,
         why = "interrupt" => next \in R.gated /\ ~bypass,
         Write(Checkpoint(next, state, k, why))
  PROVE  [Walk!Next]_(Walk!walk)
<1> DEFINE ck == Checkpoint(next, state, k, why)
<1>ck. /\ ck \in Checkpoints /\ ck # NoCheckpoint /\ ck.reason = why
       /\ ck.node = next /\ ck.step = k /\ ck.state = state
  BY CheckpointTyped DEF IInv, TypeOK
<1>pos. durablePos' = Walk!At(next, state.trace)
  BY <1>ck DEF Write, durablePos, Walk!At
<1>held. durableHeld' \in BOOLEAN /\ (durableHeld' => next \in R.gated)
  BY <1>ck DEF Write, durableHeld, TypeOK
<1>1. CASE fresh
  <2>1. next = R.entry /\ state.trace = << >>
    BY <1>1 DEF IInv, Shape
  <2>2. Walk!Begin
    BY <2>1, <1>pos, <1>held DEF Walk!Begin, Walk!HoldsAt
  <2>3. QED
    BY <2>2 DEF Walk!Next
<1>2. CASE ~fresh /\ bypass
  <2>1. /\ store # NoCheckpoint /\ store.node = next /\ store.step = step + 1
        /\ store.state.trace = state.trace
    BY <1>2 DEF IInv, AtTop
  <2>2. durablePos' = durablePos
    BY <2>1, <1>pos DEF durablePos, Walk!At
  <2>3. held' = held
    BY <1>2, <1>ck DEF Write
  <2>4. next = END => ~durableHeld /\ ~durableHeld'
    BY <2>1, <1>held, CompiledR DEF durableHeld, IInv, TypeOK
  <2>5. next # END => durableHeld' = durableHeld
    BY <2>1, <2>3, <1>ck DEF Write, durableHeld
  <2>6. QED
    BY <2>2, <2>4, <2>5 DEF Walk!walk, durableHeld
<1>3. CASE ~fresh /\ ~bypass
  <2>1. /\ store # NoCheckpoint /\ store.node \in R.nodes
        /\ next \in Succ(R, RouterOut, store.node)
        /\ state.trace = Append(store.state.trace, store.node)
    BY <1>3 DEF IInv, AtTop
  <2>2. durablePos # Walk!Nowhere
    BY <2>1 DEF durablePos, Walk!Nowhere
  <2>3. durablePos.node \in R.nodes /\ (durablePos.node \in R.gated => durableHeld)
    BY <2>1 DEF durablePos, durableHeld, IInv, StoredGateHeld
  <2>4. durablePos' = Walk!At(next, Append(durablePos.trace, durablePos.node))
    BY <2>1, <1>pos DEF durablePos
  <2>5. next \in Walk!Succ(R, RouterOut, durablePos.node)
    BY <2>1, SameTopology DEF durablePos
  <2>6. Walk!Advance
    BY <2>2, <2>3, <2>4, <2>5, <1>held DEF Walk!Advance, Walk!HoldsAt
  <2>7. QED
    BY <2>6 DEF Walk!Next
<1>4. QED
  BY <1>1, <1>2, <1>3

LEMMA StepWalks == IInv /\ TypeOK' /\ [Next]_vars => [Walk!Next]_(Walk!walk)
<1> SUFFICES ASSUME IInv, TypeOK', [Next]_vars PROVE [Walk!Next]_(Walk!walk)
  OBVIOUS
<1> DEFINE Still == UNCHANGED <<store, held>>
<1>still. Still => [Walk!Next]_(Walk!walk)
  BY DEF Walk!walk, durablePos, durableHeld
<1>int. step \in Int /\ step + 1 \in Int
  BY DEF IInv, TypeOK
<1>1. CASE InvokeWith \/ Resume
  BY <1>1, <1>still DEF InvokeWith, Resume, Refuse, RunLoop
<1>2. CASE LoopCancelled \/ MaxStepsExceeded \/ UnknownNode \/ StartNode
  BY <1>2, <1>still DEF LoopCancelled, MaxStepsExceeded, UnknownNode, StartNode, history
<1>3. CASE NodeReturns \/ Route \/ ContextDone \/ UNCHANGED vars
  BY <1>3, <1>still DEF NodeReturns, Route, ContextDone, vars, history
<1>4. CASE Return \/ Crash
  BY <1>4, <1>still DEF Return, Crash, LocalsGone
<1>5. CASE ReachEnd
  <2>1. Still \/ (opts.checkpointer /\ Write(Checkpoint(next, state, step, "end")))
    BY <1>5 DEF ReachEnd, Saved, SaveFails, NotWritten
  <2>2. pc = "top" /\ next = END
    BY <1>5 DEF ReachEnd, Running, Top
  <2>3. QED
    BY <2>1, <2>2, <1>int, <1>still, WriteWalks
<1>6. CASE Interrupt
  <2>1. \/ Still
        \/ opts.checkpointer /\ Write(Checkpoint(next, state, step + 1, "interrupt"))
    BY <1>6 DEF Interrupt, Saved, SaveFails, NotWritten
  <2>2. pc = "top" /\ next \in R.gated /\ ~bypass
    BY <1>6 DEF Interrupt, MayStep, Running, Top, Gated
  <2>3. QED
    BY <2>1, <2>2, <1>int, <1>still, WriteWalks
<1>7. CASE CheckpointStep
  <2>1. \/ Still
        \/ opts.checkpointer /\ Write(Checkpoint(next, state, step + 1, "step"))
    BY <1>7 DEF CheckpointStep, Saved, SaveFails, NotWritten
  <2>2. pc = "top"
    BY <1>7 DEF CheckpointStep, MayStep, Running, Top
  <2>3. QED
    BY <2>1, <2>2, <1>int, <1>still, WriteWalks
<1>8. QED
  BY <1>1, <1>2, <1>3, <1>4, <1>5, <1>6, <1>7 DEF Next, Step

(* GraphRun implements GraphWalk: whatever crashes, failed saves, resumes  *)
(* and cancellations happen, the durable position is a walk of the graph   *)
(* that leaves a gated node only after it was held there.                  *)
THEOREM WalkRefinement == Spec => DurablePositionWalks
<1>1. IInv /\ IInv' => TypeOK'
  BY DEF IInv
<1>2. IInv /\ IInv' /\ [Next]_vars => [Walk!Next]_(Walk!walk)
  BY <1>1, StepWalks
<1>3. QED
  BY <1>2, WalkStarts, Inductive, PTL DEF Spec, DurablePositionWalks, Walk!Spec

=============================================================================
