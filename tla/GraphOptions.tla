---------------------------- MODULE GraphOptions ----------------------------
(***************************************************************************)
(* What a caller of pkg/graph hands to a run beside its input: the         *)
(* in-memory checkpointer and the merged hooks.                            *)
(*                                                                         *)
(* The state type of a run may hold maps and slices, so a state is a cell: *)
(* two holders of one cell see each other's writes. heap tells how often a *)
(* cell was written in place: in its plain part, or in the part that lies  *)
(* in unexported, func or channel fields of nested values, which gob drops *)
(* without an error.                                                       *)
(***************************************************************************)
EXTENDS Integers, Sequences, SequencesExt, FiniteSets

CONSTANTS Proc,       \* the goroutines that drive runs
          RunID,
          Cell,       \* enough cells for every holder
          Limit,      \* of the history kept per run, 0 for none
          MaxWrites,  \* bound: in-place writes to one state
          MaxSaves,   \* bound: saves and loads of a behaviour
          Hook        \* the hooks that callers write

ASSUME LimitAssumption == Limit \in Nat /\ MaxWrites \in Nat /\ MaxSaves \in Nat

(* Memory does not run out: a cell for each goroutine and for each copy.   *)
ASSUME CellAssumption ==
  /\ IsFiniteSet(Proc) /\ IsFiniteSet(Cell)
  /\ Cardinality(Proc) + MaxSaves <= Cardinality(Cell)

ASSUME HookAssumption ==
  Hook \subseteq [before : {"absent", "begins", "nil", "panics"}, after : {"absent", "ends", "panics"}]

VARIABLES copies,    \* what the state type is to cloneState, see TypesToCopy
          heap,      \* cell -> the writes its two parts have seen
          history,   \* run -> its checkpoints, a sequence of [step, cell]
          holds,     \* goroutine -> the cell of its state
          saving,    \* goroutine -> the checkpoint between the copy and the lock
          saved,     \* ghost: run -> what each Save since the last Reset was given
          lent,      \* ghost: the stored cells that Load or History gave away
          calls      \* the calls made, for MaxSaves

ckVars == <<copies, heap, history, holds, saving, saved, lent, calls>>

Idle == [run |-> "none"]

Untouched == [plain |-> 0, nested |-> 0]

(***************************************************************************)
(* A type has Clone; or gob copies it whole; or gob refuses it, or it has  *)
(* unexported, func or channel fields of its own; or only the structs in   *)
(* its fields, slices and maps have: hasGobUnsafeFields looks no deeper    *)
(* than the fields of the struct itself.                                   *)
(***************************************************************************)
TypesToCopy == {"clone", "gob", "unsafe", "nested"}

CheckpointerInit ==
  /\ copies \in TypesToCopy
  /\ heap = [c \in Cell |-> Untouched]
  /\ history = [r \in RunID |-> << >>]
  /\ saved = [r \in RunID |-> << >>]
  /\ holds = CHOOSE h \in [Proc -> Cell] : IsInjective(h)
  /\ saving = [p \in Proc |-> Idle]
  /\ lent = {} /\ calls = 0

InUse ==
  (UNION {{history[r][i].cell : i \in DOMAIN history[r]} : r \in RunID})
    \cup {holds[p] : p \in Proc}
    \cup {saving[p].cell : p \in {q \in Proc : saving[q] # Idle}}

Called == calls < MaxSaves /\ calls' = calls + 1

(* A node writes into the state it was given, in either part of it. *)
NodeWrites(p) ==
  /\ saving[p] = Idle /\ heap[holds[p]].plain + heap[holds[p]].nested < MaxWrites
  /\ \/ heap' = [heap EXCEPT ![holds[p]].plain = @ + 1]
     \/ heap' = [heap EXCEPT ![holds[p]].nested = @ + 1]
  /\ UNCHANGED <<copies, history, holds, saving, saved, lent, calls>>

(* Slip: the state is stored as it is. *)
CloneStateByValue(p) == holds[p]

(* The cell of a copy: Clone or a round trip through gob. *)
CloneState(p) == CHOOSE c \in Cell : c \notin InUse

(* What is in the copy: gob leaves the nested fields at their zero value.  *)
Copied(v) == IF copies = "nested" THEN [v EXCEPT !.nested = 0] ELSE v

(***************************************************************************)
(* Save: the copy is made first, the lock taken after it. A type with      *)
(* fields of its own that gob would lose is refused, nothing is stored.    *)
(***************************************************************************)
SaveCopies(p, r) ==
  /\ saving[p] = Idle /\ copies # "unsafe" /\ Called
  /\ LET c == CloneState(p) IN
     /\ heap' = [heap EXCEPT ![c] = Copied(heap[holds[p]])]
     /\ saving' = [saving EXCEPT ![p] = [run |-> r, step |-> calls, cell |-> c, writes |-> heap[holds[p]]]]
     /\ lent' = lent \ {c}
  /\ UNCHANGED <<copies, history, holds, saved>>

SaveRefused(p) ==
  /\ saving[p] = Idle /\ copies = "unsafe" /\ Called
  /\ UNCHANGED <<copies, heap, history, holds, saving, saved, lent>>

(* The most recent limit checkpoints, in an array of their own.            *)
Trimmed(h) == IF Limit > 0 /\ Len(h) > Limit THEN SubSeq(h, Len(h) - Limit + 1, Len(h)) ELSE h

SaveAppends(p) ==
  /\ saving[p] # Idle
  /\ LET s == saving[p] IN
     /\ history' = [history EXCEPT ![s.run] = Trimmed(Append(@, [step |-> s.step, cell |-> s.cell]))]
     /\ saved' = [saved EXCEPT ![s.run] = Append(@, [step |-> s.step, writes |-> s.writes])]
  /\ saving' = [saving EXCEPT ![p] = Idle]
  /\ UNCHANGED <<copies, heap, holds, lent, calls>>

(* Load gives the latest checkpoint and its state as stored, not a copy;   *)
(* History the whole slice, its states likewise.                           *)
Gives(p, r, i) ==
  /\ holds' = [holds EXCEPT ![p] = history[r][i].cell]
  /\ lent' = lent \cup {history[r][i].cell}

Load(p, r) ==
  /\ saving[p] = Idle /\ Called /\ history[r] # << >>
  /\ Gives(p, r, Len(history[r]))
  /\ UNCHANGED <<copies, heap, history, saving, saved>>

History(p, r) ==
  /\ saving[p] = Idle /\ Called /\ \E i \in DOMAIN history[r] : Gives(p, r, i)
  /\ UNCHANGED <<copies, heap, history, saving, saved>>

Reset(r) ==
  /\ Called
  /\ history' = [history EXCEPT ![r] = << >>]
  /\ saved' = [saved EXCEPT ![r] = << >>]
  /\ UNCHANGED <<copies, heap, holds, saving, lent>>

CheckpointerNext ==
  \/ \E p \in Proc : NodeWrites(p) \/ SaveRefused(p) \/ SaveAppends(p)
  \/ \E p \in Proc, r \in RunID : SaveCopies(p, r) \/ Load(p, r) \/ History(p, r)
  \/ \E r \in RunID : Reset(r)

CheckpointerSpec == CheckpointerInit /\ [][CheckpointerNext]_ckVars

-----------------------------------------------------------------------------
(***************************************************************************)
(* Hooks. A hook's Before callback adds its mark to the context (the span  *)
(* it began), returns nil or panics; its After callback ends the span it   *)
(* finds in the context, or panics. "absent" is a nil callback.            *)
(***************************************************************************)
VARIABLES hooks,     \* what the caller merged
          runCtx,    \* the context the loop runs under, a sequence of marks
          nodeCtx,   \* the context of the node that runs, NoCtx between nodes
          open,      \* the spans that were begun and not ended
          ran        \* "before", "running" or "over"

hookVars == <<hooks, runCtx, nodeCtx, open, ran>>

(* What is no context: nil, and what a chain that panicked returns.        *)
NoCtx == <<<<0, "nil">>>>
Panicked == <<<<0, "panic">>>>

HooksInit(lists) ==
  /\ hooks \in lists
  /\ runCtx = << >> /\ nodeCtx = NoCtx /\ open = {} /\ ran = "before"

(* MergeHooks leaves the zero hooks out and chains the others in order.    *)
Merged == {i \in DOMAIN hooks : hooks[i].before # "absent" \/ hooks[i].after # "absent"}

(* One Before callback of a chain, after those that made c: the context so *)
(* far and the marks begun. A context is built on another, never on nil.   *)
Fire(c, i, scope) ==
  IF c.ctx = Panicked \/ i \notin Merged \/ hooks[i].before = "absent" THEN c
  ELSE IF hooks[i].before = "panics" \/ (hooks[i].before = "begins" /\ c.ctx = NoCtx)
       THEN [ctx |-> Panicked, begun |-> c.begun]
  ELSE IF hooks[i].before = "nil" THEN [ctx |-> NoCtx, begun |-> c.begun]
  ELSE [ctx |-> Append(c.ctx, <<i, scope>>), begun |-> c.begun \cup {<<i, scope>>}]

Chain(scope, ctx) ==
  LET fired[n \in 0 .. Len(hooks)] ==
        IF n = 0 THEN [ctx |-> ctx, begun |-> {}] ELSE Fire(fired[n - 1], n, scope)
  IN fired[Len(hooks)]

(* Slip: a nil context is passed on. *)
BeforeUnchecked(scope, ctx) == IF Chain(scope, ctx).ctx = Panicked THEN ctx ELSE Chain(scope, ctx).ctx

(* runBefore and nodeBefore: a panic or a nil result keeps the context.    *)
Before(scope, ctx) ==
  IF Chain(scope, ctx).ctx \in {Panicked, NoCtx} THEN ctx ELSE Chain(scope, ctx).ctx

(* A chain of After callbacks stops at the one that panics.                *)
Ended(scope, ctx) ==
  {m \in Range(ctx) :
     /\ m[2] = scope
     /\ m[1] \in Merged /\ hooks[m[1]].after = "ends"
     /\ \A j \in Merged : j < m[1] => hooks[j].after # "panics"}

RunBegins ==
  /\ ran = "before" /\ ran' = "running"
  /\ runCtx' = Before("run", runCtx)
  /\ open' = Chain("run", runCtx).begun
  /\ UNCHANGED <<hooks, nodeCtx>>

NodeBegins ==
  /\ ran = "running" /\ nodeCtx = NoCtx
  /\ nodeCtx' = Before("node", runCtx)
  /\ open' = open \cup Chain("node", runCtx).begun
  /\ UNCHANGED <<hooks, runCtx, ran>>

NodeEnds ==
  /\ nodeCtx # NoCtx /\ nodeCtx' = NoCtx
  /\ open' = open \ Ended("node", nodeCtx)
  /\ UNCHANGED <<hooks, runCtx, ran>>

(* The loop returns, for any reason, between two nodes.                    *)
RunEnds ==
  /\ ran = "running" /\ nodeCtx = NoCtx /\ ran' = "over"
  /\ open' = open \ Ended("run", runCtx)
  /\ UNCHANGED <<hooks, runCtx, nodeCtx>>

HooksNext == RunBegins \/ NodeBegins \/ NodeEnds \/ RunEnds

HooksSpec(lists) == HooksInit(lists) /\ [][HooksNext]_hookVars

-----------------------------------------------------------------------------
(***************************************************************************)
(* The checkpointer keeps, of every run, the most recent states it was     *)
(* given, as they were when Save was called: nothing a node does to the    *)
(* state it goes on with, another run or another goroutine reaches them.   *)
(* Of a type that has Clone, or that gob copies whole, that is the whole   *)
(* state. Of one whose nested values have fields gob cannot see it is the  *)
(* rest: those come back empty and Save does not say so. A state that Load *)
(* or History gave away is not part of this: see CheckpointsAreSnapshots.  *)
(***************************************************************************)
Faithful(stored, given) ==
  /\ stored.plain = given.plain
  /\ IF copies = "nested" THEN stored.nested = 0 ELSE stored.nested = given.nested

Kept(r, given) ==
  LET h == history[r]
      lost == Len(saved[r]) - Len(h)
  IN /\ Len(h) = IF Limit > 0 /\ Len(saved[r]) > Limit THEN Limit ELSE Len(saved[r])
     /\ \A i \in DOMAIN h :
          /\ h[i].step = saved[r][lost + i].step
          /\ h[i].cell \in given \/ Faithful(heap[h[i].cell], saved[r][lost + i].writes)

CheckpointsAreKept == \A r \in RunID : Kept(r, lent)

(* Save's doc: "a later node mutating shared slices or maps cannot corrupt *)
(* this already-saved checkpoint" -- nor a node of the run resumed from it.*)
CheckpointsAreSnapshots == \A r \in RunID : Kept(r, {})

(***************************************************************************)
(* Broken instrumentation does not break a run: a node runs under a        *)
(* context that extends its run's, whatever the hooks did. And a span is   *)
(* left open only by its own hook, which never ends what it begins, by a   *)
(* hook merged before it whose After panics (the chain stops there), or by *)
(* one merged after it whose Before returns nil or panics (the context     *)
(* with the span is lost): any other hook misbehaves without harm to it.   *)
(***************************************************************************)
Spoiled(i) ==
  \/ \E j \in 1 .. i - 1 : hooks[j].after = "panics"
  \/ \E j \in i + 1 .. Len(hooks) : hooks[j].before \in {"nil", "panics"}

HooksAreContained ==
  /\ NoCtx # runCtx
  /\ ran = "running" /\ nodeCtx # NoCtx => IsPrefix(runCtx, nodeCtx)
  /\ ran = "over" => \A m \in open : hooks[m[1]].after # "ends" \/ Spoiled(m[1])

=============================================================================
