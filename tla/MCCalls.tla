------------------------------ MODULE MCCalls ------------------------------
(***************************************************************************)
(* The way of a model call, for TLC: a conversation made into a request,   *)
(* one call through the middleware (ProviderCall), the spans of calls on   *)
(* their way to the store and the dashboard (Traces). part tells which of  *)
(* the three a behaviour is about. Short answers of each shape for the     *)
(* four adapters, texts with blocks to strip, two exporters and three      *)
(* traces, the conversations of an agent.                                  *)
(***************************************************************************)
EXTENDS ProviderCall, Traces

CONSTANT Conversations   \* the conversations an agent may keep

VARIABLES part, conversation

callsVars == <<part, conversation, callVars, exporterVars>>

Init ==
  /\ part \in {"call", "trace", "conversation"}
  /\ CallInit /\ (part = "call" \/ call = CHOOSE c \in Calls : TRUE)
  /\ ExporterInit /\ (part = "trace" \/ todo = CHOOSE w \in Workloads : TRUE)
  /\ conversation \in IF part = "conversation" THEN Conversations ELSE {<< >>}

Next ==
  \/ part = "call" /\ CallNext /\ UNCHANGED <<part, conversation, exporterVars>>
  \/ part = "trace" /\ ExporterNext /\ UNCHANGED <<part, conversation, callVars>>

(* The caller's own code and the goroutine of a stream run on.             *)
Fairness ==
  /\ WF_callsVars(part = "call" /\ (GiveUp \/ EndsSpan) /\ UNCHANGED <<part, conversation, exporterVars>>)
  /\ WF_callsVars(part = "call" /\ (WatcherTakes \/ WatcherEnds) /\ UNCHANGED <<part, conversation, exporterVars>>)

Spec == Init /\ [][Next]_callsVars /\ Fairness

-----------------------------------------------------------------------------
(***************************************************************************)
(* A stream that is collected is the answer Generate gives: its text, its  *)
(* calls joined under unique ids, its reasoning with the signature, its    *)
(* reason and usage. A frame that is an error never passes for an end, and *)
(* a stream that was cut shows: unless the whole answer had arrived, the   *)
(* stop has no reason, and what was collected is a beginning of it. A      *)
(* frame that arrives garbled is an error with anthropic and bedrock;      *)
(* openai and google skip it, without a sign, and what it held is missing. *)
(* (What a filter that panics answers is up to StrippingIgnoresTheSplit.)  *)
(* (And a redacted block is lost in the stream of anthropic.)              *)
(***************************************************************************)
Whole == call.streaming /\ phase = "done" /\ result.error = ""

SameCalls(made, wanted) ==
  /\ Len(made) = Len(wanted)
  /\ IsInjective([i \in DOMAIN made |-> made[i].id])
  /\ \A i \in DOMAIN made :
       /\ made[i].id # "" /\ made[i].name = wanted[i].name
       /\ made[i].text = wanted[i].text /\ made[i].sig = wanted[i].sig
       /\ call.adapter # "google" /\ wanted[i].id # "" => made[i].id = wanted[i].id

SameAnswer ==
  LET m == Response(call.adapter, call.blocks) IN
  /\ call.filter = "off" => Texts(result.message.parts) = Texts(m.parts)
  /\ SameCalls(result.message.calls, m.calls)
  /\ Of("thinking", result.message.parts) = Of("thinking", m.parts)

(* What can be left of a text some frames of which are skipped.            *)
Leavings(text) ==
  {FlattenSeq([i \in DOMAIN text |-> IF i \in places THEN <<text[i]>> ELSE << >>]) : places \in SUBSET DOMAIN text}

Skips == call.fault = "garbage" /\ call.adapter \in {"openai", "google"}

StreamAgreesWithGenerate ==
  /\ Whole /\ call.fault \in {"none", "refused", "error", "garbage"} /\ ~Skips =>
       SameAnswer /\ result.reason = call.reason /\ result.usage = call.usage
  /\ Whole /\ Skips =>
       LET m == Response(call.adapter, call.blocks) IN
       /\ call.filter = "off" => Texts(result.message.parts) \in Leavings(Texts(m.parts))
       /\ Len(result.message.calls) <= Len(m.calls)
       /\ result.reason \in {"", call.reason} /\ result.usage \in {NoUsage, call.usage}
  /\ call.streaming /\ phase = "done" /\ result # NoResult /\ ~cancelled =>
       /\ call.fault = "none" => result.error \in {"", "panic"}
       /\ Skips => result.error \in {"", "no stream"}
       /\ call.fault = "empty" /\ call.adapter # "bedrock" => result.error # ""
  /\ Whole /\ call.fault = "cut" =>
       LET m == Response(call.adapter, call.blocks) IN
       /\ result.reason = "" \/ (SameAnswer /\ result.reason = call.reason)
       /\ call.filter = "off" => IsPrefix(Texts(result.message.parts), Texts(m.parts))
       /\ Len(result.message.calls) <= Len(m.calls)

(***************************************************************************)
(* Stripping does not depend on how a text is cut into pieces: what is     *)
(* streamed is what is left of the whole, white space aside, up to a block *)
(* that is never closed. Extracting leaves the same text and keeps what    *)
(* was thought. The stream needs a text that is as long in lower case and  *)
(* that the tail of a block does not cut inside a character; a text of     *)
(* another kind may lose what follows the block, or panic: see             *)
(* StrippingSuitsEveryText.                                                *)
(***************************************************************************)
Printed(text) == SelectSeq(text, LAMBDA c : c # "_")
Open(text) == Starts(text) # {} /\ ~Blocked(text)
Visible(text) == IF Open(Unblocked(text)) THEN Before(Unblocked(text)) ELSE Unblocked(text)

Simple(text) ==
  /\ ToSet(text) \cap {"n", "w"} = {}
  /\ \A thought \in ToSet(Thoughts(text)) :
       Trail \in ToSet(thought) => Len(thought) + Len(CloseTag) - 1 <= MaxTail

StrippedLikeTheWhole ==
  /\ result.error # "panic"
  /\ Whole /\ call.filter # "off" /\ call.fault = "none" =>
       Printed(Texts(result.message.parts))
         = Printed(Visible(Texts(Response(call.adapter, call.blocks).parts)))

StrippingIgnoresTheSplit ==
  LET whole == Texts(Response(call.adapter, call.blocks).parts) IN
  /\ Simple(whole) => StrippedLikeTheWhole
  /\ ~call.streaming /\ phase = "done" /\ result.error = "" /\ call.filter # "off" =>
       /\ Printed(Texts(result.message.parts)) = Printed(Unblocked(whole))
       /\ call.filter = "extract" =>
            Printed(FlattenSeq(Thoughts(whole)))
              = Printed(FlattenSeq([i \in DOMAIN Of("thinking", result.message.parts) |->
                                      Of("thinking", result.message.parts)[i].text]))

(* The doc of ExtractThinkingBlocks: "live content deltas are stripped      *)
(* exactly as StripThinkingBlocks does" -- whatever language a model       *)
(* reasons in.                                                             *)
StrippingSuitsEveryText == StrippedLikeTheWhole

(***************************************************************************)
(* A conversation reaches the service whole (ConversationIsCarried of      *)
(* Turns): the ones agents keep, and the one that goes on after this call  *)
(* with a result for each of its tool calls. A conversation of words and   *)
(* calls is never refused, and neither is one that goes on after a whole   *)
(* answer; the arguments of a call that was cut short may be.              *)
(***************************************************************************)
Asking(text) == Message("user", <<Part("text", text, "")>>, << >>, "")
FollowUp(m) ==
  <<Asking(<<"a">>), m>>
    \o [i \in DOMAIN m.calls |-> Message("tool", <<Part("text", <<"a">>, "")>>, << >>, m.calls[i].id)]
    \o <<Asking(<<"a">>)>>

Wordy(msgs) ==
  \A i \in DOMAIN msgs : \A p \in ToSet(msgs[i].parts) : p.type \in {"text", "thinking"} /\ ResultFits("google", p.text)

ConversationsAreCarried ==
  /\ part = "conversation" =>
       \A a \in Adapters :
         /\ ConversationIsCarried(a, conversation)
         /\ Wordy(conversation) => Request(a, conversation).ok
  /\ phase = "done" /\ result.error = "" =>
       /\ ConversationIsCarried(call.adapter, FollowUp(result.message))
       /\ call.fault = "none" => Request(call.adapter, FollowUp(result.message)).ok

(* The span of a call that is over, or cancelled, ends.                    *)
EverySpanEnds ==
  (part = "call" /\ (phase = "done" \/ cancelled)) ~> (span.ends = 1 \/ part # "call")

(* What the exporter, the store and the dashboard promise: exports that    *)
(* returned are in the table, the feed catches up with it, and the views   *)
(* of it agree (ExportsAreStored, FeedCatchesUp and ViewsAgree of Traces). *)
TracesAreTold == ExportsAreStored /\ FeedCatchesUp /\ ViewsAgree(table)

-----------------------------------------------------------------------------

Text(t) == Part("text", t, "")
MCUsage == [in |-> 7, out |-> 3]

Tool(a, id, name) == ToolUse(id, name, <<"{", "}">>, IF a = "google" THEN "s" ELSE "")
Thinking(a) == Part("thinking", <<"h", "m">>, IF a \in {"anthropic", "bedrock"} THEN "s" ELSE "")

Turns4(a) ==
  {<<Text(<<"a", "_", "b">>)>>,
   <<Thinking(a), Text(<<"a">>), Tool(a, "i", "f")>>,
   <<Tool(a, "i", "f"), Tool(a, "j", "g"), Tool(a, "k", "f")>>}
  \cup (IF a = "openai" THEN {<<Tool(a, "", "f"), Tool(a, "", "f")>>} ELSE {})
  \cup (IF a = "anthropic" THEN {<<Part("redacted", << >>, "blob"), Text(<<"a">>)>>} ELSE {})

Call(a, streaming, stripping, blocks, fault) ==
  [adapter |-> a, streaming |-> streaming, filter |-> stripping, blocks |-> blocks,
   reason |-> "end", usage |-> MCUsage, fault |-> fault]

Faults == {"none", "cut", "error", "garbage", "empty"}

Block(inner) == <<"<", "t", "h", ">">> \o inner \o CloseTag
Stripped ==
  {<<"a", "_">> \o Block(<<"t">>) \o <<"_", "b">>,
   Block(<<"h">>) \o Block(<< >>) \o <<"a">>,
   <<"a", "<", "t">>,
   <<"<", "<", "t", "h", "_", "x", ">">> \o <<"t">> \o CloseTag \o <<"<">>,
   <<"<", "t", "h", "a", ">", "a", "b", "c">> \o Block(<<"a">>),
   <<"a", "<", "t", "h", ">", "t", "<", "/", "t">>,
   Block(<<"u", "v">>) \o <<"u", "v">>,
   Block(<<"u", "v", "u", "v", "u", "v">>) \o <<"a", "b">>}

MCCallSet ==
  UNION {{Call(a, TRUE, "off", b, f) : b \in Turns4(a), f \in Faults} : a \in Adapters}
  \cup UNION {{Call(a, FALSE, "off", b, "none") : b \in Turns4(a)} : a \in Adapters}
  \cup {Call(a, s, "off", <<Text(<<"a">>)>>, "refused") : a \in Adapters, s \in BOOLEAN}
  \cup {Call("openai", s, f, <<Text(t)>>, "none") : s \in BOOLEAN, f \in {"strip", "extract"}, t \in Stripped}

MCFailures ==
  [cause : Causes, after : {0}, named : {TRUE}] \cup [cause : {"throttled"}, after : {4, 9}, named : {TRUE}]
    \cup [cause : {"auth", "failure"}, after : {0}, named : {FALSE}]

-----------------------------------------------------------------------------
Span(id, trace, parent, name, start, end) ==
  [id |-> id, trace |-> trace, parent |-> parent, name |-> name, start |-> start, end |-> end,
   status |-> "ok", run |-> "", provider |-> "", in |-> 0, out |-> 0]

Root == [Span("root", "t", "", "galdor.graph.run", 1, 9) EXCEPT !.run = "r"]
Node == [Span("node", "t", "root", "galdor.graph.node", 1, 8) EXCEPT !.run = "r"]
Model == [Span("model", "t", "node", "galdor.provider.generate", 2, 5) EXCEPT !.provider = "p", !.in = 2, !.out = 1]
ToolRun == [Span("tool", "t", "node", "galdor.tool.execute", 5, 5) EXCEPT !.status = "error"]
Again == [Span("again", "u", "", "galdor.graph.run", 3, 12) EXCEPT !.run = "r"]
Stream == [Span("stream", "v", "", "galdor.provider.stream", 4, 6) EXCEPT !.provider = "q", !.in = 1]

MCWorkloads ==
  {[e \in Exporters |-> IF e = CHOOSE x \in Exporters : TRUE THEN w[1] ELSE w[2]] :
     w \in {<<<<<<Model, ToolRun>>, <<Node, Root>>>>, <<<<Again, Model, Stream>>>>>>,
            <<<<<<Model, Node>>, <<Root>>>>, <<<<Stream>>, <<Again>>>>>>}}

-----------------------------------------------------------------------------
Says(role, parts) == Message(role, parts, << >>, "")
MCCall(id, name) == ToolUse(id, name, <<"{", "}">>, "s")
Reply(calls) == Message("assistant", <<Part("thinking", <<"h">>, "s"), Text(<<"a">>)>>, calls, "")
Result(id, text) == Message("tool", <<Text(text)>>, << >>, id)

MCConversations ==
  {system \o <<Says("user", asked)>> \o answered \o <<Says("user", <<Text(<<"z">>)>>)>> :
     system \in {<< >>, <<Says("system", <<Text(<<"s">>)>>)>>, <<Says("system", <<Text(<<"_">>)>>)>>},
     asked \in {<<Text(<<"a">>)>>, <<Text(<<"_">>), Text(<<"a">>)>>,
                <<Text(<<"a">>), Part("image", << >>, "data")>>, <<Text(<<"a">>), Part("image", << >>, "url")>>},
     answered \in {<<Reply(<< >>)>>,
                   <<Says("assistant", <<Part("redacted", << >>, "blob"), Text(<<"a">>)>>)>>,
                   <<Reply(<<MCCall("i", "f")>>), Result("i", <<"o">>)>>,
                   <<Reply(<<MCCall("i", "f")>>), Result("i", <<"{", "o", "}">>)>>,
                   <<Reply(<<MCCall("i", "f"), MCCall("j", "f")>>), Result("i", <<"_">>), Result("j", << >>)>>,
                   <<Reply(<<MCCall("i", "f")>>), Result("i", <<"o">>),
                     Reply(<<MCCall("k", "g")>>), Result("k", <<"o">>), Reply(<< >>)>>}}

=============================================================================
