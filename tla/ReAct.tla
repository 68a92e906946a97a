------------------------------- MODULE ReAct -------------------------------
(***************************************************************************)
(* The ReAct agent of pkg/agent/react.go on the graph runtime, with the    *)
(* concurrent tool executor, and a caller that carries the State of one    *)
(* run over to the next, edited as it likes. A digest is the messages it   *)
(* was taken of.                                                           *)
(***************************************************************************)
EXTENDS AgentRun

CONSTANTS
  Text,           \* what users write
  Seed,           \* the first of them
  MaxIterations,  \* Config.MaxIterations
  MaxRuns,        \* bound: Invoke calls
  MaxEdits        \* bound: edits of the carried-over State

ASSUME ReActConstants ==
  /\ Seed \in Text
  /\ MaxIterations \in Nat \ {0}
  /\ {"model", "tools"} \subseteq Name
  /\ MaxCalls \in Nat /\ MaxRuns \in Nat /\ MaxEdits \in Nat

VARIABLES
  started,  \* history: the State the run was given
  vetted,   \* history: the texts that the guards let pass
  ran,      \* history: model turns of this run
  edits     \* history: edits

reactVars == <<started, vetted, ran, edits>>

NoDigest == << >>

SeedState ==
  [messages |-> <<User(Seed)>>, iterations |-> 0, guarded |-> 0,
   digest |-> NoDigest, capped |-> FALSE]

(* The graph NewReAct builds.                                              *)
Built(tools) ==
  LET model == AddConditionalEdge(AddEdge(AddNode(NewGraph, "model", FALSE),
                                          START, "model"), "model", FALSE)
  IN IF tools THEN AddEdge(AddNode(model, "tools", FALSE), "tools", "model")
     ELSE model

ReActConfigs ==
  {[kind |-> "react", graph |-> Runnable(Built(t)), guards |-> g,
    maxSteps |-> MaxIterations * 3 + 4, maxRuns |-> MaxRuns] : t, g \in BOOLEAN}

-----------------------------------------------------------------------------
(* The caller: edits the State it got back, and invokes.                   *)

Newest(k) == SubSeq(s.messages, Len(s.messages) - k + 1, Len(s.messages))

(* A turn is appended, after the history was trimmed to a window or not;   *)
(* or a message is rewritten.                                              *)
Edit ==
  /\ pc = "idle"
  /\ edits < MaxEdits
  /\ edits' = edits + 1
  /\ ret' = "edited"
  /\ \E t \in Text :
       \/ \E k \in 0 .. Len(s.messages) :
            s' = [s EXCEPT !.messages = Append(Newest(k), User(t))]
       \/ \E i \in DOMAIN s.messages :
            s' = [s EXCEPT !.messages[i] = User(t)]
  /\ UNCHANGED <<cfg, pc, next, step, executor, history, started, vetted, ran>>

Invoke ==
  /\ Begin
  /\ started' = s
  /\ ran' = 0
  /\ UNCHANGED <<vetted, edits>>

-----------------------------------------------------------------------------
(* The model node.                                                         *)

(* Slip: the watermark alone says what was vetted. *)
UnvettedByPosition ==
  LET from == IF s.guarded > Len(s.messages) THEN Len(s.messages) ELSE s.guarded
  IN {i \in DOMAIN s.messages : i > from /\ s.messages[i].role = "user"}

(* The user messages above the watermark, or all of them when the messages *)
(* below it are not the ones that were vetted.                             *)
Unvetted ==
  LET min  == IF s.guarded > Len(s.messages) THEN Len(s.messages) ELSE s.guarded
      from == IF s.digest # NoDigest /\ s.digest # SubSeq(s.messages, 1, min)
              THEN 0 ELSE min
  IN {i \in DOMAIN s.messages : i > from /\ s.messages[i].role = "user"}

TextsAt(I) == {s.messages[i].text : i \in I}

(* A guard blocks message i; the ones before it passed.                    *)
InputBlocked ==
  /\ cfg.guards
  /\ \E i \in Unvetted : vetted' = vetted \cup TextsAt({j \in Unvetted : j < i})
  /\ NodeFails({"blocked"})
  /\ UNCHANGED <<asked, turns, ran>>

Vet == vetted' = IF cfg.guards THEN vetted \cup TextsAt(Unvetted) ELSE vetted

(* Generate fails, or an output guard blocks its message.                  *)
ModelFails ==
  /\ Vet
  /\ asked' = s.messages
  /\ NodeFails({"model", "blocked"})
  /\ UNCHANGED <<turns, ran>>

Router(state) ==
  LET last == LastOf(state.messages) IN
  IF state.iterations >= MaxIterations \/ CallsOf(last) = << >> THEN END ELSE "tools"

ToolCalls(n) == [i \in 1 .. n |-> [id |-> CallIds(n)[i]]]

ModelAnswers ==
  /\ Vet
  /\ asked' = s.messages
  /\ turns' = turns + 1 /\ ran' = ran + 1
  /\ \E n \in 0 .. MaxCalls :
       /\ s' = [messages   |-> Append(s.messages, Assistant(ToolCalls(n))),
                iterations |-> s.iterations + 1,
                guarded    |-> Len(s.messages),
                digest     |-> IF cfg.guards THEN s.messages ELSE s.digest,
                capped     |-> s.capped \/ (n > 0 /\ s.iterations + 1 >= MaxIterations)]
       /\ Follow("model", Router(s'))

ModelNode ==
  /\ At("model")
  /\ InputBlocked \/ ModelFails \/ ModelAnswers
  /\ UNCHANGED <<cfg, executor, runs, started, edits>>

-----------------------------------------------------------------------------
(* The tools node, only reached behind an assistant message with calls.    *)

StartTools ==
  /\ At("tools")
  /\ StartCalls(CallsOf(LastOf(s.messages)))
  /\ UNCHANGED <<cfg, s, next, step, ret, history, reactVars>>

ToolsNode ==
  /\ AllReturned
  /\ s' = [s EXCEPT !.messages = @ \o Results]
  /\ Collected
  /\ Follow("tools", Empty)
  /\ UNCHANGED <<cfg, history, reactVars>>

ReActNext == Edit \/ Invoke \/ ModelNode \/ StartTools \/ ToolsNode

-----------------------------------------------------------------------------
(* Properties.                                                             *)

(***************************************************************************)
(* No user message reaches the model before the input guards let it pass,  *)
(* however the caller trims, rewrites or extends the history between runs, *)
(* and wherever a run failed.                                              *)
(***************************************************************************)
UserMessagesAreVetted ==
  cfg.kind = "react" /\ cfg.guards =>
    \A i \in DOMAIN asked : asked[i].role = "user" => asked[i].text \in vetted

(***************************************************************************)
(* MaxIterations bounds the model turns of a run, and a run that starts    *)
(* with its budget spent takes one; StoppedAtIterationCap says so exactly. *)
(***************************************************************************)
CapEndsTheRun ==
  cfg.kind = "react" =>
  /\ started.iterations < MaxIterations => started.iterations + ran <= MaxIterations
  /\ ran > 1 => started.iterations + ran <= MaxIterations
  /\ pc = "idle" /\ ret = "nil" /\ ~started.capped =>
       (s.capped <=> ran + started.iterations >= MaxIterations
                     /\ CallsOf(LastOf(s.messages)) # << >>)

=============================================================================
