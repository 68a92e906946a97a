-------------------------------- MODULE Turns --------------------------------
(***************************************************************************)
(* Messages of a conversation, and what the four adapters of providers/*   *)
(* make of them: buildRequest (buildConverseInput) turns messages into the *)
(* request of the service, responseFromWire (responseFromConverse) turns a *)
(* service's answer into a message.                                        *)
(*                                                                         *)
(* A text is a sequence of bytes; "_" is white space, a character that is  *)
(* not ASCII is two bytes, a lead and Trail. One record stands for a       *)
(* content part, for a block of a request and for a block of an answer:    *)
(* sig holds the signature of a thinking part, the blob of a redacted one, *)
(* and tells an inline image from a URL.                                   *)
(***************************************************************************)
EXTENDS Naturals, Sequences, SequencesExt, FiniteSets, TLC

Adapters == {"anthropic", "openai", "google", "bedrock"}

Part(type, text, sig) == [type |-> type, text |-> text, sig |-> sig, id |-> "", name |-> ""]
ToolUse(id, name, args, sig) == [type |-> "tool", text |-> args, sig |-> sig, id |-> id, name |-> name]
ToolResult(id, name, text) == [type |-> "result", text |-> text, sig |-> "", id |-> id, name |-> name]

Message(role, parts, calls, answers) ==
  [role |-> role, parts |-> parts, calls |-> calls, answers |-> answers]

Trail == "v"

Texts(parts) == FlattenSeq([i \in DOMAIN parts |-> IF parts[i].type = "text" THEN parts[i].text ELSE << >>])
IsBlank(text) == ToSet(text) \subseteq {"_"}
Of(type, parts) == SelectSeq(parts, LAMBDA p : p.type = type)

-----------------------------------------------------------------------------
(* Requests: [ok, system, turns], a turn being [role, blocks].             *)

(* What partsToWire (partsToBlocks) makes of one part.                     *)
Vacant(a, text) ==
  CASE a = "anthropic" -> IsBlank(text) [] a = "openai" -> FALSE
    [] a \in {"google", "bedrock"} -> text = << >>

Fate(a, p) ==
  CASE p.type = "text"     -> IF Vacant(a, p.text) THEN "skip" ELSE "send"
    [] p.type = "image"    -> IF a \in {"google", "bedrock"} /\ p.sig = "url" THEN "reject" ELSE "send"
    [] p.type = "thinking" -> IF a \in {"openai", "google"} \/ p.sig = "" THEN "skip" ELSE "send"
    [] p.type = "redacted" -> IF a # "anthropic" THEN "reject" ELSE IF p.sig = "" THEN "skip" ELSE "send"

PartsToWire(a, parts) ==
  [ok |-> \A i \in DOMAIN parts : Fate(a, parts[i]) # "reject",
   blocks |-> SelectSeq(parts, LAMBDA p : Fate(a, p) = "send")]

(* The name a tool result is filed under: Gemini matches results by name.  *)
ResultName(a, msgs, id) ==
  LET named == {c \in UNION {ToSet(msgs[i].calls) : i \in DOMAIN msgs} : c.id = id /\ id # ""}
  IN IF a # "google" THEN "" ELSE IF named = {} THEN id ELSE (CHOOSE c \in named : TRUE).name

AddTurn(req, ok, role, blocks) ==
  [req EXCEPT !.ok = @ /\ ok, !.turns = Append(@, [role |-> role, blocks |-> blocks])]

(* Slip: each result is a user turn of its own.                        *)
AddResultAlone(a, req, block) ==
  AddTurn(req, TRUE, IF a = "openai" THEN "tool" ELSE "user", <<block>>)

(* A result joins the user turn it follows, except with OpenAI.            *)
AddResult(a, req, block) ==
  IF a # "openai" /\ req.turns # << >> /\ req.turns[Len(req.turns)].role = "user"
  THEN [req EXCEPT !.turns[Len(req.turns)].blocks = Append(@, block)]
  ELSE AddTurn(req, TRUE, IF a = "openai" THEN "tool" ELSE "user", <<block>>)

(* Arguments that are not JSON: decodeToolArgs of bedrock fails, so does   *)
(* json.Marshal of a RawMessage (anthropic, google); openai sends a string.*)
(* A result that looks like a JSON object goes to Gemini as it is.         *)
Inked(text) == SelectSeq(text, LAMBDA c : c # "_")
IsJson(text) == Inked(text) = <<"{", "}">>
LooksLikeJson(text) == LET ink == Inked(text) IN ink # << >> /\ ink[1] = "{" /\ ink[Len(ink)] = "}"

ArgumentsFit(a, calls) == a = "openai" \/ \A c \in ToSet(calls) : c.text = << >> \/ IsJson(c.text)
ResultFits(a, text) == a = "google" /\ LooksLikeJson(text) => IsJson(text)

Blocks(a, m) == PartsToWire(a, m.parts).blocks \o m.calls

AddMessage(a, msgs, req, m) ==
  LET wire   == PartsToWire(a, m.parts)
      blocks == Blocks(a, m)
      text   == Texts(m.parts)
  IN CASE m.role = "system" ->
            IF a = "openai" THEN AddTurn(req, wire.ok, "system", blocks)
            ELSE IF a = "anthropic" /\ IsBlank(text) THEN req
            ELSE [req EXCEPT !.system = Append(@, text)]
       [] m.role \in {"user", "assistant"} ->
            AddTurn(req, wire.ok /\ ArgumentsFit(a, m.calls) /\ (a = "anthropic" => blocks # << >>),
                    m.role, blocks)
       [] m.role = "tool" ->
            AddResult(a, [req EXCEPT !.ok = @ /\ ResultFits(a, text)],
                      ToolResult(m.answers, ResultName(a, msgs, m.answers),
                                 IF a = "anthropic" /\ IsBlank(text) THEN << >> ELSE text))

Request(a, msgs) ==
  FoldLeft(LAMBDA req, m : AddMessage(a, msgs, req, m), [ok |-> TRUE, system |-> << >>, turns |-> << >>], msgs)

-----------------------------------------------------------------------------
(* Answers.                                                                *)

SynthToolId(name, i) == "gfc_" \o ToString(i) \o "_" \o name

(* What responseFromWire keeps of the blocks of an answer.                 *)
Kept(a, b) ==
  CASE b.type = "text" -> b.text # << >>
    [] b.type = "thinking" -> b.text # << >>
    [] b.type = "redacted" -> a = "anthropic" /\ b.sig # ""
    [] b.type = "tool" -> FALSE

(* Chat completions have one string of reasoning and one of content.       *)
Joined(type, blocks) ==
  LET all == FlattenSeq([i \in DOMAIN blocks |-> IF blocks[i].type = type THEN blocks[i].text ELSE << >>])
  IN IF all = << >> THEN << >> ELSE <<Part(type, all, "")>>

CallsOf(a, blocks) ==
  Of("tool", [i \in DOMAIN blocks |->
                IF a = "google" /\ blocks[i].type = "tool"
                THEN [blocks[i] EXCEPT !.id = SynthToolId(blocks[i].name, i - 1)] ELSE blocks[i]])

Response(a, blocks) ==
  Message("assistant",
          IF a = "openai" THEN Joined("thinking", blocks) \o Joined("text", blocks)
          ELSE SelectSeq(blocks, LAMBDA b : Kept(a, b)),
          CallsOf(a, blocks), "")

-----------------------------------------------------------------------------
(***************************************************************************)
(* A conversation survives its way to the service: what has content is in  *)
(* the request once and in order, each tool result is in the turn after    *)
(* its call's and names that call, and what the service signed goes back   *)
(* as it came. The messages must be the ones an agent keeps: a tool call   *)
(* is answered by the messages after it.                                   *)
(***************************************************************************)
Said(msgs) == FlattenSeq([i \in DOMAIN msgs |-> IF msgs[i].role = "system" THEN << >> ELSE msgs[i].parts \o msgs[i].calls])
Sent(req) == FlattenSeq([i \in DOMAIN req.turns |-> IF req.turns[i].role = "system" THEN << >> ELSE req.turns[i].blocks])
Worded(parts) == SelectSeq(parts, LAMBDA p : p.type = "image" \/ (p.type = "text" /\ ~IsBlank(p.text)))

ResultsFollowTheirCalls(a, req) ==
  \A i \in DOMAIN req.turns :
    LET calls == Of("tool", req.turns[i].blocks)
        after == IF a = "openai" THEN i + 1 .. i + Len(calls) ELSE {i + 1}
    IN \A n \in DOMAIN calls :
         \E j \in after \cap DOMAIN req.turns : \E r \in ToSet(req.turns[j].blocks) :
           /\ r.type = "result"
           /\ IF a = "google" THEN r.name = calls[n].name ELSE r.id = calls[n].id

ConversationIsCarried(a, msgs) ==
  LET req == Request(a, msgs)
      spoken == SelectSeq(msgs, LAMBDA m : m.role # "tool")
  IN req.ok =>
       /\ Worded(Sent(req)) = Worded(Said(spoken))
       /\ Of("tool", Sent(req)) = Of("tool", Said(msgs))
       /\ Len(Of("result", Sent(req))) = Len(SelectSeq(msgs, LAMBDA m : m.role = "tool"))
       /\ ResultsFollowTheirCalls(a, req)
       /\ a \in {"anthropic", "bedrock"} =>
            Of("thinking", Sent(req)) = SelectSeq(Of("thinking", Said(msgs)), LAMBDA p : p.sig # "")
       /\ a = "anthropic" => Of("redacted", Sent(req)) = Of("redacted", Said(msgs))

=============================================================================
