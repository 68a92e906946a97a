--------------------------- MODULE StreamAdapters ---------------------------
(***************************************************************************)
(* The streamReader of the four adapters: how the frames of a service      *)
(* become events. A frame is what the service sends in one piece (a        *)
(* server-sent event, or a member of Bedrock's channel); reading one       *)
(* updates the reader and queues the events Recv will return.              *)
(*                                                                         *)
(* Anthropic's reader has no queue: an event is returned at once.          *)
(***************************************************************************)
EXTENDS Turns

NoUsage == [in |-> 0, out |-> 0]

Frame(type) ==
  [type |-> type, idx |-> 0, id |-> "", name |-> "", text |-> << >>, sig |-> "",
   reason |-> "", usage |-> NoUsage]

Event(type) ==
  [type |-> type, text |-> << >>, id |-> "", name |-> "", sig |-> "", reason |-> "",
   usage |-> NoUsage, thinking |-> << >>]

TextEvent(text) == [Event("content") EXCEPT !.text = text]
ToolEvent(id, name, args, sig) ==
  [Event("tool") EXCEPT !.id = id, !.name = name, !.text = args, !.sig = sig]

(* ids: the id known for each block index; names: the functions called.    *)
NewReader ==
  [frames |-> 0, started |-> FALSE, stopped |-> FALSE, usage |-> NoUsage, reason |-> "",
   ids |-> << >>, names |-> << >>, reasoning |-> << >>, signature |-> "",
   held |-> << >>, pending |-> << >>, fail |-> ""]

StopMessage(r) ==
  IF r.reasoning = << >> THEN << >> ELSE <<Part("thinking", r.reasoning, r.signature)>>

StopEvent(r) ==
  [Event("stop") EXCEPT !.reason = r.reason, !.usage = r.usage, !.thinking = StopMessage(r)]

Queue(r, events) == [r EXCEPT !.pending = @ \o events]
Stopped(r, reason) == Queue([r EXCEPT !.stopped = TRUE], <<[StopEvent(r) EXCEPT !.reason = reason]>>)
Fail(r, why) == [r EXCEPT !.fail = why]
Reason(r, f) == [r EXCEPT !.reasoning = @ \o f.text]

(* usageFromWire of a later frame: what it does not tell stays.            *)
MergeUsage(u, v) ==
  [in |-> IF v.in > 0 THEN v.in ELSE u.in, out |-> IF v.out > 0 THEN v.out ELSE u.out]

IdAt(r, idx) == IF idx \in DOMAIN r.ids THEN r.ids[idx] ELSE ""

-----------------------------------------------------------------------------
(* handleEvent of providers/anthropic.                                     *)
AnthropicEvent(r, f) ==
  CASE f.type = "message_start" ->
         Queue([r EXCEPT !.usage = f.usage], <<[Event("start") EXCEPT !.usage = f.usage]>>)
    [] f.type = "block_start" /\ f.name # "" ->
         Queue([r EXCEPT !.ids = (f.idx :> f.id) @@ @], <<ToolEvent(f.id, f.name, << >>, "")>>)
    [] f.type = "text"      -> Queue(r, <<TextEvent(f.text)>>)
    [] f.type = "thinking"  -> Reason(r, f)
    [] f.type = "signature" -> [r EXCEPT !.signature = @ \o f.sig]
    [] f.type = "args"      -> IF f.idx \in DOMAIN r.ids
                               THEN Queue(r, <<ToolEvent(r.ids[f.idx], "", f.text, "")>>) ELSE r
    [] f.type = "message_delta" ->
         LET s == [r EXCEPT !.usage = MergeUsage(@, f.usage)]
         IN IF s.stopped \/ f.reason = "" THEN s ELSE Stopped(s, f.reason)
    [] f.type = "message_stop" -> IF r.stopped THEN r ELSE Stopped(r, "")
    [] f.type \in {"error", "garbage"} -> Fail(r, "service")
    [] OTHER                   -> r

(* handleChunk and touchToolState of providers/openai.                     *)
Started(r) == IF r.started THEN r ELSE Queue([r EXCEPT !.started = TRUE], <<Event("start")>>)

(* Slip: a call without an id is left without.                         *)
TouchToolBare(r, f) ==
  [r EXCEPT !.ids = (f.idx :> IF f.id # "" THEN f.id ELSE IdAt(r, f.idx)) @@ @]

TouchTool(r, f) ==
  LET id == IF f.id # "" THEN f.id ELSE IF IdAt(r, f.idx) # "" THEN IdAt(r, f.idx)
            ELSE "call_" \o ToString(f.idx)
  IN [r EXCEPT !.ids = (f.idx :> id) @@ @]

OpenAIChunk(r, f) ==
  LET s == Started(IF f.usage = NoUsage THEN r ELSE [r EXCEPT !.usage = f.usage])
  IN CASE f.type = "thinking" -> Reason(s, f)
       [] f.type = "text"     -> Queue(s, <<TextEvent(f.text)>>)
       [] f.type \in {"block_start", "args"} ->
            LET t == TouchTool(s, f) IN Queue(t, <<ToolEvent(t.ids[f.idx], f.name, f.text, "")>>)
       [] f.type = "finish"   -> [s EXCEPT !.reason = f.reason]
       [] f.type = "done"     -> IF r.stopped THEN Fail(r, "eof") ELSE Stopped(r, r.reason)
       [] f.type = "error"    -> Fail(r, "service")
       [] f.type = "garbage"  -> r
       [] OTHER               -> s

(* handleFrame of providers/google: a call comes whole, its id is its      *)
(* function's name and how often that was called before.                   *)
GoogleFrame(r, f) ==
  LET s == Started(IF f.usage = NoUsage THEN r ELSE [r EXCEPT !.usage = f.usage])
      earlier == Len(SelectSeq(s.names, LAMBDA n : n = f.name))
  IN CASE f.type = "thinking" -> Reason(s, f)
       [] f.type = "text"     -> Queue(s, <<TextEvent(f.text)>>)
       [] f.type = "call"     -> Queue([s EXCEPT !.names = Append(@, f.name)],
                                       <<ToolEvent(SynthToolId(f.name, earlier), f.name, f.text, f.sig)>>)
       [] f.type = "finish"   -> [s EXCEPT !.reason = f.reason]
       [] f.type \in {"error", "blocked"} -> Fail(r, "service")
       [] f.type = "garbage"  -> r
       [] OTHER               -> s

(* handleEvent of providers/bedrock: the stop waits for the usage.         *)
BedrockEvent(r, f) ==
  LET s == IF f.type = "metadata" THEN r ELSE Started(r)
  IN CASE f.type = "block_start" /\ f.name # "" ->
            Queue([s EXCEPT !.ids = (f.idx :> f.id) @@ @, !.names = Append(@, f.name)],
                  <<ToolEvent(f.id, f.name, << >>, "")>>)
       [] f.type = "text"      -> Queue(s, <<TextEvent(f.text)>>)
       [] f.type = "thinking"  -> Reason(s, f)
       [] f.type = "signature" -> [s EXCEPT !.signature = @ \o f.sig]
       [] f.type = "args"      -> Queue(s, <<ToolEvent(IdAt(s, f.idx), "", f.text, "")>>)
       [] f.type = "message_stop" ->
            LET t == [s EXCEPT !.reason = f.reason] IN [t EXCEPT !.held = <<StopEvent(t)>>]
       [] f.type = "metadata"  ->
            [s EXCEPT !.usage = f.usage,
                      !.held = [i \in DOMAIN @ |-> [@[i] EXCEPT !.usage = f.usage]]]
       [] OTHER                -> s

Handle(a, r, f) ==
  LET s == [r EXCEPT !.frames = 1]
  IN CASE a = "anthropic" -> AnthropicEvent(s, f)
       [] a = "openai"    -> OpenAIChunk(s, f)
       [] a = "google"    -> GoogleFrame(s, f)
       [] a = "bedrock"   -> BedrockEvent(s, f)

(***************************************************************************)
(* Recv at the end of the body. broken: Bedrock's stream ended with an     *)
(* error. A body without a frame is no stream, one that ends early is      *)
(* given the stop it lacks.                                                *)
(***************************************************************************)
AtEnd(a, r, broken) ==
  IF a # "bedrock" /\ r.frames = 0 /\ ~r.stopped THEN Fail([r EXCEPT !.stopped = TRUE], "no stream")
  ELSE IF r.held # << >> /\ ~r.stopped THEN Queue([r EXCEPT !.stopped = TRUE, !.held = << >>], r.held)
  ELSE IF broken THEN Fail(r, "service")
  ELSE IF ~r.stopped THEN Stopped(r, r.reason)
  ELSE Fail(r, "eof")

-----------------------------------------------------------------------------
(***************************************************************************)
(* The services (external): the frames of an answer, one at a time. at is  *)
(* [block, off, phase]; a block is sent in pieces of any length, cut       *)
(* between characters.                                                     *)
(***************************************************************************)
Beginning == [block |-> 1, off |-> 0, phase |-> "open"]

Closing(a, reason, usage) ==
  CASE a = "anthropic" -> <<[Frame("message_delta") EXCEPT !.reason = reason, !.usage = [usage EXCEPT !.in = 0]],
                            Frame("message_stop")>>
    [] a = "openai"    -> <<[Frame("finish") EXCEPT !.reason = reason],
                            [Frame("usage") EXCEPT !.usage = usage], Frame("done")>>
    [] a = "google"    -> <<[Frame("finish") EXCEPT !.reason = reason, !.usage = usage]>>
    [] a = "bedrock"   -> <<[Frame("message_stop") EXCEPT !.reason = reason],
                            [Frame("metadata") EXCEPT !.usage = usage]>>

Opening(a, usage) ==
  [Frame("message_start") EXCEPT !.usage = IF a = "anthropic" THEN [usage EXCEPT !.out = 0] ELSE NoUsage]

Begins(a, b) == b.type = "tool" \/ (a \in {"anthropic", "bedrock"} /\ b.type = "redacted")
DeltaType(b) == IF b.type = "tool" THEN "args" ELSE b.type

(* The next frame and where the service is after it, in every way.         *)
NextFrames(a, blocks, at, reason, usage) ==
  LET b     == blocks[at.block]
      next  == [block |-> at.block + 1, off |-> 0, phase |-> "block"]
      piece == {[to |-> [at EXCEPT !.off = n, !.phase = "delta"],
                 frame |-> [Frame(DeltaType(b)) EXCEPT !.idx = at.block,
                                                       !.text = SubSeq(b.text, at.off + 1, n)]]
                  : n \in {m \in at.off + 1 .. Len(b.text) : m < Len(b.text) => b.text[m + 1] # Trail}}
  IN IF at.phase = "open"
     THEN {[to |-> [at EXCEPT !.phase = "block"], frame |-> Opening(a, usage)]}
     ELSE IF at.block > Len(blocks)
     THEN {[to |-> [at EXCEPT !.off = i], frame |-> Closing(a, reason, usage)[i]]
           : i \in {at.off + 1} \cap DOMAIN Closing(a, reason, usage)}
     ELSE IF at.phase = "block" /\ a = "google" /\ b.type = "tool"
     THEN {[to |-> next, frame |-> [Frame("call") EXCEPT !.name = b.name, !.text = b.text, !.sig = b.sig]]}
     ELSE IF at.phase = "block" /\ Begins(a, b)
     THEN {[to |-> IF b.text = << >> THEN next ELSE [at EXCEPT !.phase = "delta"],
            frame |-> [Frame("block_start") EXCEPT !.idx = at.block, !.id = b.id, !.name = b.name,
                                                   !.sig = b.sig]]}
     ELSE IF at.off < Len(b.text)
     THEN IF b.type # "thinking" \/ b.sig = "" \/ a \notin {"anthropic", "bedrock"}
          THEN {[p EXCEPT !.to = IF p.to.off = Len(b.text) THEN next ELSE @] : p \in piece}
          ELSE piece
     ELSE {[to |-> next, frame |-> [Frame("signature") EXCEPT !.idx = at.block, !.sig = b.sig]]}

=============================================================================
