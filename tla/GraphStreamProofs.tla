------------------------- MODULE GraphStreamProofs -------------------------
(***************************************************************************)
(* Proofs about GraphStream for every compiled graph, router, set of       *)
(* options and size of the buffer: what the consumer gets is a walk of the *)
(* graph, never ahead of the store, and no silence without a cancellation. *)
(***************************************************************************)
EXTENDS GraphStream, SequenceTheorems, TLAPS

(***************************************************************************)
(* The properties as predicates of a sequence of events, so that one lemma *)
(* says what sending an event does to them.                                *)
(***************************************************************************)
IsWalk(e) ==
  /\ e # << >> => e[1].type \in {"run_start", "error"}
  /\ \A i \in 2 .. Len(e) : Follows(e[i - 1], e[i])

Durable(e, ck, k, out) ==
  \A i \in 1 .. Len(e) :
    /\ ck /\ e[i].type = "node_start" => e[i].step <= k
    /\ e[i].type = "run_end" => out = NoError
    /\ e[i].type = "error" => out \notin {NoError, Unfinished}

Lasts(e) == e[Len(e)]

(***************************************************************************)
(* The inductive invariant. Where the goroutine is tells the last event it *)
(* sent, for a goroutine that goes on has lost none; no terminal event was *)
(* sent before the goroutine is on its way out; and the store is where the *)
(* step counter is once a node is announced, at most there at the top.     *)
(***************************************************************************)
Leaving == {"return", "close", "gone"}

LastTells ==
  /\ pc \in {"validate", "start"} => Emitted = << >> /\ step = 0 /\ next = R.entry
  /\ pc \notin {"validate", "start"} \cup Leaving =>
       Emitted # << >> /\ ~Terminal(Lasts(Emitted))
  /\ Emitted # << >> /\ Lasts(Emitted).type = "run_start" => Lasts(Emitted).step = 0
  /\ pc \in {"top", "emitRunEnd"} =>
       /\ Lasts(Emitted).type \in {"run_start", "edge_traversed"}
       /\ Lasts(Emitted).step = step /\ Lasts(Emitted).node = next
  /\ pc = "emitRunEnd" => next = END
  /\ pc = "announce" =>
       /\ Lasts(Emitted).type \in {"run_start", "edge_traversed"}
       /\ step = Lasts(Emitted).step + 1 /\ Lasts(Emitted).node = next
  /\ pc \in {"node", "ended"} =>
       /\ Lasts(Emitted).type = "node_start"
       /\ Lasts(Emitted).step = step /\ Lasts(Emitted).node = next
       /\ effects = Lasts(Emitted).effects + (IF pc = "ended" THEN 1 ELSE 0)
  /\ pc \in {"route", "edge"} =>
       /\ Lasts(Emitted).type = "node_end" /\ Lasts(Emitted).step = step
  /\ pc = "route" => Lasts(Emitted).node = next
  /\ pc = "edge" => next \in Succ(R, RouterOut, Lasts(Emitted).node)

StoreTells ==
  /\ ~opts.checkpointer => saved = 0
  /\ pc \in {"validate", "start", "top"} => saved <= step
  /\ opts.checkpointer /\ pc \in {"announce", "node", "ended", "route", "edge"} => saved = step

OutcomeTells ==
  /\ pc \in {"emitError", "panicking", "backstop"} => outcome \notin {NoError, Unfinished}
  /\ pc = "emitRunEnd" => outcome = NoError
  /\ pc = "panicking" => outcome = "SavePanic"
  /\ ctx = "released" /\ pc \notin Leaving => pc = "backstop" /\ outcome = "SavePanic"

Silence ==
  /\ pc \in Leaving =>
       \/ Emitted # << >> /\ Terminal(Lasts(Emitted))
       \/ ctx = "cancelled"
       \/ PanicSwallowed
  /\ closed => pc = "gone"

IInv ==
  /\ TypeOK /\ LastTells /\ StoreTells /\ OutcomeTells /\ Silence
  /\ IsWalk(Emitted) /\ Durable(Emitted, opts.checkpointer, saved, outcome)
  /\ pc \notin Leaving => \A i \in 1 .. Len(Emitted) : ~Terminal(Emitted[i])

-----------------------------------------------------------------------------
(* Whatever a router returns, the edge out of a node leads to a node or to *)
(* END, and a resolution that fails has an error of its own.               *)
LEMMA ResolvedIsKnown ==
  ASSUME NEW n, NEW res \in Resolutions(R, RouterOut, n)
  PROVE  /\ res.ok => res.next \in R.nodes \cup {END} /\ res.next \in Succ(R, RouterOut, n)
         /\ ~res.ok => res.err \notin {NoError, Unfinished}
<1>1. PICK out : res = ResolveNext(R, n, out)
  BY DEF Resolutions
<1>2. res.ok => res.next \in R.nodes \cup {END}
  BY <1>1, RIsCompiled DEF ResolveNext, To, Failed, Closed
<1>3. ~res.ok => res.err \notin {NoError, Unfinished}
  BY <1>1 DEF ResolveNext, To, Failed, NoError, Unfinished
<1>4. QED
  BY <1>2, <1>3 DEF Succ

LEMMA EventTyped ==
  ASSUME effects \in Nat, NEW t \in Types, NEW n \in R.nodes \cup {END, Empty}, NEW k \in Nat
  PROVE  /\ Event(t, n, k) \in Events /\ Event(t, n, k).type = t
         /\ Event(t, n, k).node = n /\ Event(t, n, k).step = k
         /\ Event(t, n, k).effects = effects
  BY DEF Event, Events

(* The events of a run are a sequence, and one that is sent comes last.    *)
LEMMA EmittedTyped == TypeOK => Emitted \in Seq(Events)
  BY ConcatProperties DEF TypeOK, Emitted

LEMMA LastTyped ==
  ASSUME TypeOK, Emitted # << >>
  PROVE  /\ Lasts(Emitted) \in Events
         /\ Lasts(Emitted).step \in Nat /\ Lasts(Emitted).effects \in Nat
<1>1. Emitted \in Seq(Events) /\ Len(Emitted) \in 1 .. Len(Emitted)
  BY EmittedTyped, EmptySeq
<1>2. Lasts(Emitted) \in Events
  BY <1>1, ElementOfSeq DEF Lasts
<1>3. QED
  BY <1>2 DEF Events

LEMMA Sending ==
  ASSUME TypeOK, NEW ev \in Events, Sent(ev), received' = received
  PROVE  /\ Emitted' = Append(Emitted, ev)
         /\ chan' \in Seq(Events) /\ Len(chan') <= Buffer
<1>1. chan' = Append(chan, ev) /\ chan \in Seq(Events) /\ received \in Seq(Events)
  BY DEF Sent, TypeOK
<1>2. Len(chan') <= Buffer /\ chan' \in Seq(Events)
  BY <1>1, BufferIsPositive DEF Sent, TypeOK
<1>3. received \o Append(chan, ev) = Append(received \o chan, ev)
  BY <1>1
<1>4. QED
  BY <1>1, <1>2, <1>3 DEF Emitted

(* Receiving moves an event from the channel to the consumer.              *)
LEMMA Receiving == TypeOK /\ Receive => Emitted' = Emitted
<1> SUFFICES ASSUME TypeOK, Receive PROVE Emitted' = Emitted
  OBVIOUS
<1>1. chan \in Seq(Events) /\ chan # << >> /\ received \in Seq(Events)
  BY DEF TypeOK, Receive
<1>2. Append(received, Head(chan)) \o Tail(chan) = received \o chan
  BY <1>1
<1>3. QED
  BY <1>1, <1>2 DEF Receive, Emitted

LEMMA WalkGrows ==
  ASSUME NEW e \in Seq(Events), NEW ev \in Events, IsWalk(e),
         e = << >> => ev.type \in {"run_start", "error"},
         e # << >> => Follows(Lasts(e), ev)
  PROVE  IsWalk(Append(e, ev))
<1> DEFINE f == Append(e, ev)
<1>1. /\ Len(f) = Len(e) + 1 /\ Len(e) \in Nat /\ f[Len(f)] = ev
      /\ \A i \in 1 .. Len(e) : f[i] = e[i]
  OBVIOUS
<1>2. f[1].type \in {"run_start", "error"}
  BY <1>1, EmptySeq DEF IsWalk
<1>3. ASSUME NEW i \in 2 .. Len(f) PROVE Follows(f[i - 1], f[i])
  <2>1. CASE i <= Len(e)
    BY <1>1, <2>1 DEF IsWalk
  <2>2. CASE i = Len(f)
    BY <1>1, <2>2 DEF Lasts
  <2>3. QED
    BY <1>1, <2>1, <2>2
<1>4. QED
  BY <1>2, <1>3 DEF IsWalk

LEMMA DurableGrows ==
  ASSUME NEW e \in Seq(Events), NEW ev \in Events, NEW ck, NEW k, NEW out,
         Durable(e, ck, k, out),
         ck /\ ev.type = "node_start" => ev.step <= k,
         ev.type = "run_end" => out = NoError,
         ev.type = "error" => out \notin {NoError, Unfinished}
  PROVE  Durable(Append(e, ev), ck, k, out)
  BY DEF Durable

-----------------------------------------------------------------------------
(* What the steps have in common. Before the goroutine is on its way out a *)
(* step that sends nothing may move the store and set the outcome.         *)
LEMMA StillStep ==
  ASSUME IInv, pc \notin Leaving, Emitted' = Emitted, opts' = opts,
         saved' \in Nat, saved <= saved'
  PROVE  /\ IsWalk(Emitted') /\ Durable(Emitted', opts'.checkpointer, saved', outcome')
         /\ \A i \in 1 .. Len(Emitted') : ~Terminal(Emitted'[i])
<1>1. Emitted \in Seq(Events) /\ saved \in Nat
  BY EmittedTyped DEF IInv, TypeOK
<1>2. ASSUME NEW i \in 1 .. Len(Emitted) PROVE Emitted[i].step \in Nat
  <2>1. Emitted[i] \in Events
    BY <1>1, ElementOfSeq
  <2>2. QED
    BY <2>1 DEF Events
<1>3. QED
  BY <1>1, <1>2 DEF IInv, Durable, Terminal

(* A step that sends an event extends the walk by it.                      *)
LEMMA SendStep ==
  ASSUME IInv, pc \notin Leaving, NEW ev \in Events, Sent(ev), received' = received,
         opts' = opts, saved' = saved,
         Emitted = << >> => ev.type \in {"run_start", "error"},
         Emitted # << >> => Follows(Lasts(Emitted), ev),
         opts.checkpointer /\ ev.type = "node_start" => ev.step <= saved,
         ev.type = "run_end" => outcome' = NoError,
         ev.type = "error" => outcome' \notin {NoError, Unfinished}
  PROVE  /\ IsWalk(Emitted') /\ Durable(Emitted', opts'.checkpointer, saved', outcome')
         /\ Emitted' # << >> /\ Lasts(Emitted') = ev
         /\ chan' \in Seq(Events) /\ Len(chan') <= Buffer
         /\ ~Terminal(ev) => \A i \in 1 .. Len(Emitted') : ~Terminal(Emitted'[i])
<1>1. Emitted \in Seq(Events)
  BY EmittedTyped DEF IInv
<1>2. /\ Emitted' = Append(Emitted, ev)
      /\ chan' \in Seq(Events) /\ Len(chan') <= Buffer
  BY Sending DEF IInv
<1>3. /\ Len(Emitted') = Len(Emitted) + 1 /\ Emitted'[Len(Emitted')] = ev
      /\ \A i \in 1 .. Len(Emitted) : Emitted'[i] = Emitted[i]
      /\ Len(Emitted) \in Nat /\ Emitted' # << >>
  BY <1>1, <1>2
<1>4. IsWalk(Emitted')
  BY <1>1, <1>2, WalkGrows DEF IInv
<1>5. Durable(Emitted, opts.checkpointer, saved, outcome')
  BY <1>1 DEF IInv, Durable, Terminal
<1>6. Durable(Emitted', opts'.checkpointer, saved', outcome')
  BY <1>1, <1>2, <1>5, DurableGrows
<1>7. \A i \in 1 .. Len(Emitted) : ~Terminal(Emitted[i])
  BY DEF IInv
<1>8. ~Terminal(ev) => \A i \in 1 .. Len(Emitted') : ~Terminal(Emitted'[i])
  BY <1>3, <1>7
<1>9. QED
  BY <1>2, <1>3, <1>4, <1>6, <1>8 DEF Lasts

(* A lost event, or a last one, sends the goroutine on its way out.        *)
Unmoved == UNCHANGED <<ctx, run, afterRun, closed, saved, consumer>>

LEMMA DropStep ==
  ASSUME IInv, pc \notin Leaving, Dropped, pc' \in {"return", "close"}, Unmoved
  PROVE  IInv'
<1>0. ctx = "cancelled" \/ PanicSwallowed
  BY DEF Dropped, PanicSwallowed, IInv, TypeOK, OutcomeTells
<1> USE DEF Unmoved, run, consumer
<1>1. Emitted' = Emitted
  BY DEF Emitted, Dropped
<1>2. TypeOK'
  BY DEF IInv, TypeOK, Dropped
<1>3. LastTells' /\ StoreTells' /\ OutcomeTells' /\ Silence'
  BY <1>0, <1>1 DEF IInv, LastTells, StoreTells, OutcomeTells, Silence, Leaving,
                    PanicSwallowed, Dropped
<1>4. IsWalk(Emitted') /\ Durable(Emitted', opts'.checkpointer, saved', outcome')
  BY <1>1 DEF IInv
<1>5. QED
  BY <1>2, <1>3, <1>4 DEF IInv, Leaving

LEMMA LastStep ==
  ASSUME IInv, pc \notin Leaving, NEW ev \in Events, Terminal(ev), Sent(ev),
         pc' \in {"return", "close"}, Unmoved,
         Emitted # << >>, Follows(Lasts(Emitted), ev),
         ev.type = "run_end" => outcome = NoError,
         ev.type = "error" => outcome \notin {NoError, Unfinished}
  PROVE  IInv'
<1> USE DEF Unmoved, run, consumer
<1>1. /\ IsWalk(Emitted') /\ Durable(Emitted', opts'.checkpointer, saved', outcome')
      /\ Emitted' # << >> /\ Lasts(Emitted') = ev
      /\ chan' \in Seq(Events) /\ Len(chan') <= Buffer
  BY SendStep DEF Terminal
<1>2. TypeOK'
  BY <1>1 DEF IInv, TypeOK
<1>3. LastTells' /\ StoreTells' /\ OutcomeTells' /\ Silence'
  BY <1>1 DEF IInv, LastTells, StoreTells, OutcomeTells, Silence, Leaving, Terminal
<1>4. QED
  BY <1>1, <1>2, <1>3 DEF IInv, Leaving

LEMMA InitInv == Init => IInv
<1> SUFFICES ASSUME Init PROVE IInv
  OBVIOUS
<1>1. Emitted = << >>
  BY DEF Init, Emitted
<1>2. TypeOK
  <2>1. next \in R.nodes \cup {END}
    BY RIsCompiled DEF Init, Closed
  <2>2. chan \in Seq(Events) /\ Len(chan) <= Buffer /\ received \in Seq(Events)
    BY BufferIsPositive DEF Init
  <2>3. QED
    BY <2>1, <2>2 DEF Init, TypeOK
<1>3. LastTells /\ StoreTells /\ OutcomeTells /\ Silence
  BY <1>1 DEF Init, LastTells, StoreTells, OutcomeTells, Silence, Leaving
<1>4. IsWalk(Emitted) /\ Durable(Emitted, opts.checkpointer, saved, outcome)
  BY <1>1 DEF IsWalk, Durable
<1>5. QED
  BY <1>1, <1>2, <1>3, <1>4 DEF IInv

-----------------------------------------------------------------------------
(* The steps of the goroutine, one lemma for those of a kind.              *)

LEMMA ValidateInv == IInv /\ Validate => IInv'
<1> SUFFICES ASSUME IInv, Validate PROVE IInv'
  OBVIOUS
<1> USE DEF Validate, Rest, consumer
<1> DEFINE ev == Event("error", Empty, 0)
<1>ty. effects \in Nat /\ step \in Nat /\ saved \in Nat /\ next \in R.nodes \cup {END, Empty}
  BY DEF IInv, TypeOK
<1>ev. ev \in Events /\ ev.type = "error" /\ Terminal(ev)
  BY <1>ty, EventTyped DEF Types, Terminal
<1>0. ev \in Events /\ ev.type = "error" /\ Emitted = << >> /\ Terminal(ev)
  BY <1>ev DEF IInv, LastTells
<1>1. CASE opts.valid /\ pc' = "start" /\ UNCHANGED <<chan, outcome>>
  <2>1. Emitted' = Emitted
    BY <1>1 DEF Emitted
  <2>2. TypeOK'
    BY <1>1 DEF IInv, TypeOK
  <2>3. LastTells' /\ StoreTells' /\ OutcomeTells' /\ Silence'
    BY <1>0, <1>1, <2>1 DEF IInv, LastTells, StoreTells, OutcomeTells, Silence, Leaving
  <2>4. QED
    BY <1>0, <1>1, <2>1, <2>2, <2>3, StillStep DEF IInv, TypeOK, Leaving
<1>2. CASE Sent(ev) /\ pc' = "close" /\ outcome' = "CheckpointerMissingRunID"
  <2>1. /\ IsWalk(Emitted') /\ Durable(Emitted', opts'.checkpointer, saved', outcome')
        /\ Emitted' # << >> /\ Lasts(Emitted') = ev
        /\ chan' \in Seq(Events) /\ Len(chan') <= Buffer
    BY <1>0, <1>2, SendStep DEF Leaving, NoError, Unfinished
  <2>2. TypeOK'
    BY <1>2, <2>1 DEF IInv, TypeOK
  <2>3. LastTells' /\ StoreTells' /\ OutcomeTells' /\ Silence'
    BY <1>0, <1>2, <2>1 DEF IInv, LastTells, StoreTells, OutcomeTells, Silence, Leaving
  <2>4. QED
    BY <1>2, <2>1, <2>2, <2>3 DEF IInv, Leaving
<1>3. CASE Dropped /\ pc' = "close" /\ outcome' = "CheckpointerMissingRunID"
  <2>1. Emitted' = Emitted
    BY <1>3 DEF Emitted, Dropped
  <2>2. TypeOK'
    BY <1>3 DEF IInv, TypeOK, Dropped
  <2>3. LastTells' /\ StoreTells' /\ OutcomeTells' /\ Silence'
    BY <1>0, <1>3, <2>1 DEF IInv, TypeOK, LastTells, StoreTells, OutcomeTells, Silence, Leaving,
                            Dropped
  <2>4. QED
    BY <1>0, <1>3, <2>1, <2>2, <2>3, StillStep DEF IInv, TypeOK, Leaving
<1>4. QED
  BY <1>1, <1>2, <1>3

LEMMA EmitRunStartInv == IInv /\ EmitRunStart => IInv'
<1> SUFFICES ASSUME IInv, EmitRunStart PROVE IInv'
  OBVIOUS
<1> USE DEF EmitRunStart, Rest, run, consumer
<1> DEFINE ev == Event("run_start", R.entry, 0)
<1>ty. effects \in Nat /\ step \in Nat /\ saved \in Nat /\ next \in R.nodes \cup {END, Empty}
  BY DEF IInv, TypeOK
<1>0. /\ ev \in Events /\ ev.type = "run_start" /\ ev.node = R.entry /\ ev.step = 0
      /\ ev.effects = effects /\ ~Terminal(ev)
  BY <1>ty, EventTyped, RIsCompiled DEF Types, Terminal, Closed
<1>1. CASE Dropped /\ pc' = "return"
  BY <1>1, DropStep DEF Unmoved, Leaving
<1>2. CASE Sent(ev) /\ pc' = "top"
  <2>1. /\ IsWalk(Emitted') /\ Durable(Emitted', opts'.checkpointer, saved', outcome')
        /\ Emitted' # << >> /\ Lasts(Emitted') = ev
        /\ chan' \in Seq(Events) /\ Len(chan') <= Buffer
        /\ \A i \in 1 .. Len(Emitted') : ~Terminal(Emitted'[i])
    <3>1. Emitted = << >>
      BY DEF IInv, LastTells
    <3>2. opts.checkpointer /\ ev.type = "node_start" => ev.step <= saved
      BY <1>0, <1>ty DEF IInv, StoreTells
    <3>3. QED
      BY <1>0, <1>2, <3>1, <3>2, SendStep DEF Terminal, Leaving
  <2>2. TypeOK'
    BY <1>2, <2>1 DEF IInv, TypeOK
  <2>3. LastTells' /\ StoreTells' /\ OutcomeTells' /\ Silence'
    BY <1>0, <1>2, <2>1, RIsCompiled
       DEF IInv, TypeOK, LastTells, StoreTells, OutcomeTells, Silence, Leaving
  <2>4. QED
    BY <1>2, <2>1, <2>2, <2>3 DEF IInv, Leaving
<1>3. QED
  BY <1>1, <1>2 DEF Announce

LEMMA EmitNodeStartInv == IInv /\ EmitNodeStart => IInv'
<1> SUFFICES ASSUME IInv, EmitNodeStart PROVE IInv'
  OBVIOUS
<1> USE DEF EmitNodeStart, Rest, run, consumer
<1> DEFINE ev == Event("node_start", next, step)
<1>ty. effects \in Nat /\ step \in Nat /\ saved \in Nat /\ next \in R.nodes \cup {END, Empty}
  BY DEF IInv, TypeOK
<1>0. /\ ev \in Events /\ ev.type = "node_start" /\ ev.node = next /\ ev.step = step
      /\ ev.effects = effects /\ ~Terminal(ev)
  BY <1>ty, EventTyped DEF Types, Terminal
<1>1. CASE Dropped /\ pc' = "return"
  BY <1>1, DropStep DEF Unmoved, Leaving
<1>2. CASE Sent(ev) /\ pc' = "node"
  <2>1. /\ IsWalk(Emitted') /\ Durable(Emitted', opts'.checkpointer, saved', outcome')
        /\ Emitted' # << >> /\ Lasts(Emitted') = ev
        /\ chan' \in Seq(Events) /\ Len(chan') <= Buffer
        /\ \A i \in 1 .. Len(Emitted') : ~Terminal(Emitted'[i])
    <3>1. Emitted # << >> /\ Lasts(Emitted).step \in Nat /\ Lasts(Emitted).effects \in Nat
      BY LastTyped DEF IInv, LastTells, Leaving
    <3>2. Follows(Lasts(Emitted), ev)
      BY <1>0, <1>ty, <3>1 DEF IInv, LastTells, Follows
    <3>3. opts.checkpointer /\ ev.type = "node_start" => ev.step <= saved
      BY <1>0, <1>ty DEF IInv, StoreTells
    <3>4. QED
      BY <1>0, <1>2, <3>1, <3>2, <3>3, SendStep DEF Terminal, Leaving
  <2>2. TypeOK'
    BY <1>2, <2>1 DEF IInv, TypeOK
  <2>3. LastTells' /\ StoreTells' /\ OutcomeTells' /\ Silence'
    BY <1>0, <1>2, <2>1, RIsCompiled
       DEF IInv, TypeOK, LastTells, StoreTells, OutcomeTells, Silence, Leaving
  <2>4. QED
    BY <1>2, <2>1, <2>2, <2>3 DEF IInv, Leaving
<1>3. QED
  BY <1>1, <1>2 DEF Announce

LEMMA EmitNodeEndInv == IInv /\ EmitNodeEnd => IInv'
<1> SUFFICES ASSUME IInv, EmitNodeEnd PROVE IInv'
  OBVIOUS
<1> USE DEF EmitNodeEnd, Rest, run, consumer
<1> DEFINE ev == Event("node_end", next, step)
<1>ty. effects \in Nat /\ step \in Nat /\ saved \in Nat /\ next \in R.nodes \cup {END, Empty}
  BY DEF IInv, TypeOK
<1>0. /\ ev \in Events /\ ev.type = "node_end" /\ ev.node = next /\ ev.step = step
      /\ ev.effects = effects /\ ~Terminal(ev)
  BY <1>ty, EventTyped DEF Types, Terminal
<1>1. CASE Dropped /\ pc' = "return"
  BY <1>1, DropStep DEF Unmoved, Leaving
<1>2. CASE Sent(ev) /\ pc' = "route"
  <2>1. /\ IsWalk(Emitted') /\ Durable(Emitted', opts'.checkpointer, saved', outcome')
        /\ Emitted' # << >> /\ Lasts(Emitted') = ev
        /\ chan' \in Seq(Events) /\ Len(chan') <= Buffer
        /\ \A i \in 1 .. Len(Emitted') : ~Terminal(Emitted'[i])
    <3>1. Emitted # << >> /\ Lasts(Emitted).step \in Nat /\ Lasts(Emitted).effects \in Nat
      BY LastTyped DEF IInv, LastTells, Leaving
    <3>2. Follows(Lasts(Emitted), ev)
      BY <1>0, <1>ty, <3>1 DEF IInv, LastTells, Follows
    <3>3. opts.checkpointer /\ ev.type = "node_start" => ev.step <= saved
      BY <1>0, <1>ty DEF IInv, StoreTells
    <3>4. QED
      BY <1>0, <1>2, <3>1, <3>2, <3>3, SendStep DEF Terminal, Leaving
  <2>2. TypeOK'
    BY <1>2, <2>1 DEF IInv, TypeOK
  <2>3. LastTells' /\ StoreTells' /\ OutcomeTells' /\ Silence'
    BY <1>0, <1>2, <2>1, RIsCompiled
       DEF IInv, TypeOK, LastTells, StoreTells, OutcomeTells, Silence, Leaving
  <2>4. QED
    BY <1>2, <2>1, <2>2, <2>3 DEF IInv, Leaving
<1>3. QED
  BY <1>1, <1>2 DEF Announce

LEMMA EmitEdgeInv == IInv /\ EmitEdge => IInv'
<1> SUFFICES ASSUME IInv, EmitEdge PROVE IInv'
  OBVIOUS
<1> USE DEF EmitEdge, Rest, run, consumer
<1> DEFINE ev == Event("edge_traversed", next, step)
<1>ty. effects \in Nat /\ step \in Nat /\ saved \in Nat /\ next \in R.nodes \cup {END, Empty}
  BY DEF IInv, TypeOK
<1>0. /\ ev \in Events /\ ev.type = "edge_traversed" /\ ev.node = next /\ ev.step = step
      /\ ev.effects = effects /\ ~Terminal(ev)
  BY <1>ty, EventTyped DEF Types, Terminal
<1>1. CASE Dropped /\ pc' = "return"
  BY <1>1, DropStep DEF Unmoved, Leaving
<1>2. CASE Sent(ev) /\ pc' = "top"
  <2>1. /\ IsWalk(Emitted') /\ Durable(Emitted', opts'.checkpointer, saved', outcome')
        /\ Emitted' # << >> /\ Lasts(Emitted') = ev
        /\ chan' \in Seq(Events) /\ Len(chan') <= Buffer
        /\ \A i \in 1 .. Len(Emitted') : ~Terminal(Emitted'[i])
    <3>1. Emitted # << >> /\ Lasts(Emitted).step \in Nat /\ Lasts(Emitted).effects \in Nat
      BY LastTyped DEF IInv, LastTells, Leaving
    <3>2. Follows(Lasts(Emitted), ev)
      BY <1>0, <1>ty, <3>1 DEF IInv, LastTells, Follows
    <3>3. opts.checkpointer /\ ev.type = "node_start" => ev.step <= saved
      BY <1>0, <1>ty DEF IInv, StoreTells
    <3>4. QED
      BY <1>0, <1>2, <3>1, <3>2, <3>3, SendStep DEF Terminal, Leaving
  <2>2. TypeOK'
    BY <1>2, <2>1 DEF IInv, TypeOK
  <2>3. LastTells' /\ StoreTells' /\ OutcomeTells' /\ Silence'
    BY <1>0, <1>2, <2>1, RIsCompiled
       DEF IInv, TypeOK, LastTells, StoreTells, OutcomeTells, Silence, Leaving
  <2>4. QED
    BY <1>2, <2>1, <2>2, <2>3 DEF IInv, Leaving
<1>3. QED
  BY <1>1, <1>2 DEF Announce

LEMMA EmitRunEndInv == IInv /\ EmitRunEnd => IInv'
<1> SUFFICES ASSUME IInv, EmitRunEnd PROVE IInv'
  OBVIOUS
<1> DEFINE ev == Event("run_end", END, step)
<1>ty. effects \in Nat /\ step \in Nat /\ saved \in Nat /\ next \in R.nodes \cup {END, Empty}
  BY DEF IInv, TypeOK
<1>0. /\ ev \in Events /\ ev.type = "run_end" /\ ev.node = END /\ ev.step = step
      /\ Terminal(ev)
  <2>1. "run_end" \in Types
    BY DEF Types
  <2>2. END \in R.nodes \cup {END, Empty}
    OBVIOUS
  <2>3. ev \in Events /\ ev.type = "run_end" /\ ev.node = END /\ ev.step = step
    BY <1>ty, <2>1, <2>2, EventTyped
  <2>4. QED
    BY <2>3 DEF Terminal
<1>1. pc \notin Leaving /\ Unmoved /\ pc' \in {"return", "close"}
  BY DEF EmitRunEnd, Last, Rest, run, Unmoved, consumer, Leaving
<1>2. Emitted # << >> /\ Follows(Lasts(Emitted), ev)
  BY <1>0 DEF EmitRunEnd, IInv, LastTells, Leaving, Follows
<1>3. /\ ev.type = "run_end" => outcome = NoError
      /\ ev.type = "error" => outcome \notin {NoError, Unfinished}
  BY <1>0 DEF EmitRunEnd, IInv, OutcomeTells
<1>4. Sent(ev) \/ Dropped
  BY DEF EmitRunEnd, Last
<1>5. QED
  BY <1>0, <1>1, <1>2, <1>3, <1>4, DropStep, LastStep

LEMMA EmitErrorInv == IInv /\ EmitError => IInv'
<1> SUFFICES ASSUME IInv, EmitError PROVE IInv'
  OBVIOUS
<1> DEFINE ev == Event("error", Empty, step)
<1>ty. effects \in Nat /\ step \in Nat /\ saved \in Nat /\ next \in R.nodes \cup {END, Empty}
  BY DEF IInv, TypeOK
<1>0. /\ ev \in Events /\ ev.type = "error" /\ ev.node = Empty /\ ev.step = step
      /\ Terminal(ev)
  BY <1>ty, EventTyped DEF Types, Terminal
<1>1. pc \notin Leaving /\ Unmoved /\ pc' \in {"return", "close"}
  BY DEF EmitError, Last, Rest, run, Unmoved, consumer, Leaving
<1>2. Emitted # << >> /\ Follows(Lasts(Emitted), ev)
  BY <1>0 DEF EmitError, IInv, LastTells, Leaving, Follows
<1>3. /\ ev.type = "run_end" => outcome = NoError
      /\ ev.type = "error" => outcome \notin {NoError, Unfinished}
  BY <1>0 DEF EmitError, IInv, OutcomeTells
<1>4. Sent(ev) \/ Dropped
  BY DEF EmitError, Last
<1>5. QED
  BY <1>0, <1>1, <1>2, <1>3, <1>4, DropStep, LastStep

LEMMA BackstopInv == IInv /\ Backstop => IInv'
<1> SUFFICES ASSUME IInv, Backstop PROVE IInv'
  OBVIOUS
<1> DEFINE ev == Event("error", Empty, 0)
<1>ty. effects \in Nat /\ step \in Nat /\ saved \in Nat /\ next \in R.nodes \cup {END, Empty}
  BY DEF IInv, TypeOK
<1>0. /\ ev \in Events /\ ev.type = "error" /\ ev.node = Empty /\ ev.step = 0
      /\ Terminal(ev)
  BY <1>ty, EventTyped DEF Types, Terminal
<1>1. pc \notin Leaving /\ Unmoved /\ pc' \in {"return", "close"}
  BY DEF Backstop, Last, Rest, run, Unmoved, consumer, Leaving
<1>2. Emitted # << >> /\ Follows(Lasts(Emitted), ev)
  BY <1>0 DEF Backstop, IInv, LastTells, Leaving, Follows
<1>3. /\ ev.type = "run_end" => outcome = NoError
      /\ ev.type = "error" => outcome \notin {NoError, Unfinished}
  BY <1>0 DEF Backstop, IInv, OutcomeTells
<1>4. Sent(ev) \/ Dropped
  BY DEF Backstop, Last
<1>5. QED
  BY <1>0, <1>1, <1>2, <1>3, <1>4, DropStep, LastStep

-----------------------------------------------------------------------------
(* The steps that send nothing. Those of the loop that may fail or panic.  *)

LEMMA SilentStep ==
  ASSUME IInv, pc \notin Leaving, pc' \notin Leaving, TypeOK', LastTells', StoreTells', OutcomeTells',
         opts' = opts, saved <= saved', UNCHANGED <<chan, received, closed>>
  PROVE  IInv'
<1>1. Emitted' = Emitted
  BY DEF Emitted
<1>2. saved' \in Nat
  BY DEF TypeOK
<1>3. Silence'
  BY DEF IInv, Silence, Leaving
<1>4. QED
  BY <1>1, <1>2, <1>3, StillStep DEF IInv

(* A run that fails, by its own doing or in saveCheckpoint.                *)
LEMMA FailStep ==
  ASSUME IInv, pc \notin {"validate", "start", "backstop"} \cup Leaving,
         pc' \in {"emitError", "panicking"},
         outcome' \notin {NoError, Unfinished},
         pc' = "panicking" => outcome' = "SavePanic",
         saved' \in Nat, saved <= saved', ~opts.checkpointer => saved' = saved,
         UNCHANGED <<next, step, effects, chan>>, Rest
  PROVE  IInv'
<1> USE DEF Rest, consumer
<1>1. Emitted' = Emitted
  BY DEF Emitted
<1>2. TypeOK'
  BY DEF IInv, TypeOK
<1>3. LastTells' /\ StoreTells' /\ OutcomeTells'
  BY <1>1 DEF IInv, LastTells, StoreTells, OutcomeTells, Leaving
<1>4. QED
  BY <1>2, <1>3, SilentStep DEF Leaving

LEMMA SaveFailure ==
  ASSUME IInv, pc = "top", SaveFailsOrPanics, UNCHANGED <<next, step, effects, chan>>, Rest
  PROVE  IInv'
<1>1. saved' = saved /\ pc' \in {"emitError", "panicking"} /\ saved \in Nat
  BY DEF SaveFailsOrPanics, Fail, IInv, TypeOK
<1>2. outcome' \notin {NoError, Unfinished} /\ (pc' = "panicking" => outcome' = "SavePanic")
  BY DEF SaveFailsOrPanics, Fail, NoError, Unfinished
<1>3. QED
  BY <1>1, <1>2, FailStep DEF Leaving

LEMMA LoopFailsInv == IInv /\ (LoopCancelled \/ MaxStepsExceeded) => IInv'
<1> SUFFICES ASSUME IInv, LoopCancelled \/ MaxStepsExceeded PROVE IInv'
  OBVIOUS
<1>1. /\ pc = "top" /\ pc' = "emitError" /\ saved' = saved /\ saved \in Nat
      /\ UNCHANGED <<next, step, effects, chan>> /\ Rest
      /\ outcome' \notin {NoError, Unfinished}
  BY DEF LoopCancelled, MaxStepsExceeded, Fail, NoError, Unfinished, IInv, TypeOK
<1>2. QED
  BY <1>1, FailStep DEF Leaving

LEMMA ReachEndInv == IInv /\ ReachEnd => IInv'
<1> SUFFICES ASSUME IInv, ReachEnd PROVE IInv'
  OBVIOUS
<1>0. pc = "top" /\ next = END /\ UNCHANGED <<next, step, effects, chan>> /\ Rest
  BY DEF ReachEnd
<1>1. CASE SaveFailsOrPanics
  BY <1>0, <1>1, SaveFailure
<1>2. CASE Written(step) /\ pc' = "emitRunEnd" /\ outcome' = NoError
  <2> USE DEF Rest, consumer
  <2>1. saved' \in Nat /\ saved <= saved' /\ (~opts.checkpointer => saved' = saved)
    BY <1>0, <1>2 DEF Written, IInv, TypeOK, StoreTells
  <2>2. TypeOK'
    BY <1>0, <1>2, <2>1 DEF IInv, TypeOK
  <2>3. Emitted' = Emitted
    BY <1>0 DEF Emitted
  <2>4. LastTells' /\ StoreTells' /\ OutcomeTells'
    BY <1>0, <1>2, <2>1, <2>3 DEF IInv, LastTells, StoreTells, OutcomeTells, Leaving
  <2>5. QED
    BY <1>0, <1>2, <2>1, <2>2, <2>4, SilentStep DEF Leaving
<1>3. QED
  BY <1>1, <1>2 DEF ReachEnd

LEMMA InterruptInv == IInv /\ Interrupt => IInv'
<1> SUFFICES ASSUME IInv, Interrupt PROVE IInv'
  OBVIOUS
<1>0. pc = "top" /\ UNCHANGED <<next, step, effects, chan>> /\ Rest
  BY DEF Interrupt, MayStep
<1>1. CASE SaveFailsOrPanics
  BY <1>0, <1>1, SaveFailure
<1>2. CASE Written(step + 1) /\ Fail("Interrupted")
  <2>1. saved' \in Nat /\ saved <= saved' /\ (~opts.checkpointer => saved' = saved)
    BY <1>0, <1>2 DEF Written, IInv, TypeOK, StoreTells
  <2>2. QED
    BY <1>0, <1>2, <2>1, FailStep DEF Fail, NoError, Unfinished, Leaving
<1>3. QED
  BY <1>1, <1>2 DEF Interrupt

(* The step's checkpoint is stored before the node is announced.           *)
LEMMA CheckpointStepInv == IInv /\ CheckpointStep => IInv'
<1> SUFFICES ASSUME IInv, CheckpointStep PROVE IInv'
  OBVIOUS
<1>0. /\ pc = "top" /\ UNCHANGED <<next, effects, chan>> /\ Rest
      /\ step' = step + 1 /\ step \in Nat /\ saved \in Nat
  BY DEF CheckpointStep, MayStep, IInv, TypeOK
<1> USE DEF Rest, consumer
<1>1. /\ saved' \in Nat /\ saved <= saved' /\ (~opts.checkpointer => saved' = saved)
      /\ pc' = "announce" => (opts.checkpointer => saved' = step')
      /\ pc' \in {"announce", "emitError", "panicking"}
      /\ pc' # "announce" => outcome' \notin {NoError, Unfinished}
      /\ pc' = "panicking" => outcome' = "SavePanic"
  BY <1>0 DEF CheckpointStep, SaveFailsOrPanics, Fail, Written, IInv, StoreTells,
              NoError, Unfinished
<1>2. TypeOK'
  BY <1>0, <1>1 DEF IInv, TypeOK
<1>3. Emitted' = Emitted
  BY <1>0 DEF Emitted
<1>4. LastTells' /\ StoreTells' /\ OutcomeTells'
  BY <1>0, <1>1, <1>3 DEF IInv, LastTells, StoreTells, OutcomeTells, Leaving
<1>5. QED
  BY <1>0, <1>1, <1>2, <1>4, SilentStep DEF Leaving

LEMMA NodeReturnsInv == IInv /\ NodeReturns => IInv'
<1> SUFFICES ASSUME IInv, NodeReturns PROVE IInv'
  OBVIOUS
<1>0. /\ pc = "node" /\ UNCHANGED <<next, step, chan, saved>> /\ Rest
      /\ effects \in Nat /\ saved \in Nat
  BY DEF NodeReturns, IInv, TypeOK
<1>1. CASE Fail("NodeFailed") /\ UNCHANGED effects
  BY <1>0, <1>1, FailStep DEF Fail, NoError, Unfinished, Leaving
<1>2. CASE effects' = effects + 1 /\ pc' = "ended"
  <2> USE DEF Rest, consumer
  <2>1. TypeOK'
    BY <1>0, <1>2 DEF IInv, TypeOK
  <2>2. Emitted' = Emitted /\ Emitted # << >>
    BY <1>0 DEF Emitted, IInv, LastTells, Leaving
  <2>3. LastTells' /\ StoreTells' /\ OutcomeTells'
    <3>1. Lasts(Emitted).effects \in Nat
      BY <2>2, LastTyped DEF IInv
    <3>2. QED
      BY <1>0, <1>2, <2>2, <3>1 DEF IInv, LastTells, StoreTells, OutcomeTells, Leaving
  <2>4. QED
    BY <1>0, <1>2, <2>1, <2>3, SilentStep DEF Leaving
<1>3. QED
  BY <1>1, <1>2 DEF NodeReturns

LEMMA RouteInv == IInv /\ Route => IInv'
<1> SUFFICES ASSUME IInv, Route PROVE IInv'
  OBVIOUS
<1>0. /\ pc = "route" /\ UNCHANGED <<step, effects, chan, saved>> /\ Rest
      /\ saved \in Nat
  BY DEF Route, IInv, TypeOK
<1>1. PICK res \in Resolutions(R, RouterOut, next) :
        \/ res.ok /\ next' = res.next /\ pc' = "edge" /\ UNCHANGED <<runErr, outcome>>
        \/ ~res.ok /\ Fail(res.err) /\ UNCHANGED next
  BY DEF Route
<1>2. CASE ~res.ok
  BY <1>0, <1>1, <1>2, FailStep, ResolvedIsKnown DEF Fail, Leaving
<1>3. CASE res.ok
  <2> USE DEF Rest, consumer
  <2>1. next' \in R.nodes \cup {END} /\ next' \in Succ(R, RouterOut, next)
    BY <1>1, <1>3, ResolvedIsKnown
  <2>2. TypeOK'
    BY <1>0, <1>1, <1>3, <2>1 DEF IInv, TypeOK
  <2>3. Emitted' = Emitted
    BY <1>0 DEF Emitted
  <2>4. LastTells' /\ StoreTells' /\ OutcomeTells'
    BY <1>0, <1>1, <1>3, <2>1, <2>3
       DEF IInv, LastTells, StoreTells, OutcomeTells, Leaving
  <2>5. QED
    BY <1>0, <1>1, <1>3, <2>2, <2>4, SilentStep DEF Leaving
<1>4. QED
  BY <1>2, <1>3

(* After a panic the goroutine has its backstop's event still to send.     *)
LEMMA UnwindInv == IInv /\ Unwind => IInv'
<1> SUFFICES ASSUME IInv, Unwind PROVE IInv'
  OBVIOUS
<1> USE DEF Unwind, Deferred, run, consumer
<1>1. TypeOK'
  BY DEF IInv, TypeOK
<1>2. Emitted' = Emitted
  BY DEF Emitted
<1>3. LastTells' /\ StoreTells' /\ OutcomeTells'
  BY <1>2 DEF IInv, LastTells, StoreTells, OutcomeTells, Leaving
<1>4. QED
  BY <1>1, <1>3, SilentStep DEF IInv, TypeOK, Leaving

-----------------------------------------------------------------------------
(* On the way out, and outside the goroutine, nothing is sent: contexts    *)
(* only ever end, and what was sent moves to the consumer at most.         *)
LEMMA QuietStep ==
  ASSUME IInv, TypeOK', Emitted' = Emitted, UNCHANGED <<run, saved>>,
         pc' = pc \/ (pc \in Leaving /\ pc' \in Leaving),
         ctx' = "released" => ctx = "released" \/ pc \in Leaving,
         ctx = "released" => ctx' = "released",
         ctx = "cancelled" => ctx' = "cancelled", closed' => pc' = "gone"
  PROVE  IInv'
<1> USE DEF run
<1>1. LastTells' /\ StoreTells' /\ OutcomeTells' /\ Silence'
  BY DEF IInv, LastTells, StoreTells, OutcomeTells, Silence, Leaving, PanicSwallowed
<1>2. QED
  BY <1>1 DEF IInv

LEMMA QuietInv ==
  IInv /\ (Return \/ Close \/ Receive \/ Leave \/ ContextDone \/ UNCHANGED vars) => IInv'
<1> SUFFICES ASSUME IInv, Return \/ Close \/ Receive \/ Leave \/ ContextDone \/ UNCHANGED vars
             PROVE  IInv'
  OBVIOUS
<1> USE DEF run, consumer
<1>1. CASE Return
  <2>1. Emitted' = Emitted /\ TypeOK'
    BY <1>1 DEF Return, Deferred, Emitted, IInv, TypeOK
  <2>2. ~closed
    BY <1>1 DEF Return, IInv, Silence
  <2>3. QED
    BY <1>1, <2>1, <2>2, QuietStep DEF Return, Deferred, Leaving
<1>2. CASE Close
  <2>1. Emitted' = Emitted /\ TypeOK'
    BY <1>2 DEF Close, Emitted, IInv, TypeOK
  <2>2. QED
    BY <1>2, <2>1, QuietStep DEF Close, Leaving
<1>3. CASE Receive
  <2>1. Emitted' = Emitted
    BY <1>3, Receiving DEF IInv
  <2>2. chan \in Seq(Events) /\ chan # << >> /\ received \in Seq(Events) /\ Len(chan) <= Buffer
    BY <1>3 DEF Receive, IInv, TypeOK
  <2>3. /\ Tail(chan) \in Seq(Events) /\ Len(Tail(chan)) <= Buffer
        /\ Append(received, Head(chan)) \in Seq(Events)
    BY <2>2, BufferIsPositive
  <2>4. TypeOK'
    BY <1>3, <2>3 DEF Receive, IInv, TypeOK
  <2>5. closed' => pc' = "gone"
    BY <1>3 DEF Receive, IInv, Silence
  <2>6. QED
    BY <1>3, <2>1, <2>4, <2>5, QuietStep DEF Receive
<1>4. CASE Leave \/ ContextDone
  <2>1. Emitted' = Emitted
    BY <1>4 DEF Leave, ContextDone, Emitted
  <2>2. TypeOK'
    BY <1>4 DEF Leave, ContextDone, IInv, TypeOK
  <2>3. closed' => pc' = "gone"
    BY <1>4 DEF Leave, ContextDone, IInv, Silence
  <2>4. QED
    BY <1>4, <2>1, <2>2, <2>3, QuietStep DEF Leave, ContextDone
<1>5. CASE UNCHANGED vars
  <2>1. Emitted' = Emitted /\ TypeOK'
    BY <1>5 DEF vars, Emitted, IInv, TypeOK
  <2>2. closed' => pc' = "gone"
    BY <1>5 DEF vars, IInv, Silence
  <2>3. QED
    BY <1>5, <2>1, <2>2, QuietStep DEF vars
<1>6. QED
  BY <1>1, <1>2, <1>3, <1>4, <1>5

LEMMA StepInv == IInv /\ [Next]_vars => IInv'
  BY ValidateInv, EmitRunStartInv, EmitNodeStartInv, EmitNodeEndInv, EmitEdgeInv,
     EmitRunEndInv, EmitErrorInv, BackstopInv, LoopFailsInv, ReachEndInv, InterruptInv,
     CheckpointStepInv, NodeReturnsInv, RouteInv, UnwindInv, QuietInv
     DEF Next, Producer

THEOREM Inductive == Spec => []IInv
  BY InitInv, StepInv, PTL DEF Spec

-----------------------------------------------------------------------------
(* The producer, the channel and the consumer keep their types, and the    *)
(* channel its bound.                                                      *)
THEOREM TypeCorrect == Spec => []TypeOK
<1>1. IInv => TypeOK
  BY DEF IInv
<1>2. QED
  BY <1>1, Inductive, PTL

(* The events emitted are a walk of the graph in the order of the protocol *)
(* of Stream, with none missing before the last, however sends race with   *)
(* the end of the context and whatever the buffer's size.                  *)
THEOREM StreamWalks == Spec => []StreamIsAWalk
<1>1. IInv => StreamIsAWalk
  BY DEF IInv, IsWalk, StreamIsAWalk
<1>2. QED
  BY <1>1, Inductive, PTL

(* A node is announced only after its checkpoint is stored, the end of a   *)
(* run only after its END checkpoint, an error only for a run that failed. *)
THEOREM AnnouncementsAreDurable == Spec => []AnnouncedIsDurable
<1>1. IInv => AnnouncedIsDurable
  BY DEF IInv, Durable, AnnouncedIsDurable
<1>2. QED
  BY <1>1, Inductive, PTL

(* A channel that closes without a terminal event was cancelled from       *)
(* outside the goroutine, or it is that of a run with a Timeout in which a *)
(* Save panicked and whose error the goroutine's own cancel swallowed.     *)
THEOREM SilenceIsExplained == Spec => [](closed => SaidOrCancelled)
<1>1. IInv => (closed => SaidOrCancelled)
  BY DEF IInv, TypeOK, Silence, SaidOrCancelled, Leaving, Lasts
<1>2. QED
  BY <1>1, Inductive, PTL

=============================================================================
