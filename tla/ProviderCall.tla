---------------------------- MODULE ProviderCall ----------------------------
(***************************************************************************)
(* One call of a model through the middleware of the repository:           *)
(*   InstrumentProvider(StripThinkingBlocks?(Retry(adapter)))              *)
(* The attempts of Retry, then the answer of Generate, or the stream: the  *)
(* service sends frames, the adapter makes events of them, the filter      *)
(* strips them, the traced reader notes them, CollectStream folds them.    *)
(*                                                                         *)
(* Concurrent with it: the context can be cancelled at any time, and the   *)
(* goroutine of watchAbandon ends the span of a stream nobody reads.       *)
(***************************************************************************)
EXTENDS StreamAdapters, Middleware

CONSTANT
  Calls,      \* [adapter, streaming, filter, blocks, reason, usage, fault]
  Failures,   \* [cause, after, named]
  Nothing

(* A sequence, of whatever it consists.                                    *)
IsSequence(s) == s \in Seq(ToSet(s))

Usages == [in : Nat, out : Nat]
BlockTypes == {"text", "thinking", "redacted", "tool", "image"}

ASSUME CallAssumption ==
  \A c \in Calls :
    /\ c.adapter \in Adapters /\ c.streaming \in BOOLEAN
    /\ c.filter \in {"off", "strip", "extract"}
    /\ c.fault \in {"none", "cut", "error", "garbage", "empty", "refused"}
    /\ c.usage \in Usages
    /\ IsSequence(c.blocks)
    /\ \A b \in ToSet(c.blocks) : b.type \in BlockTypes /\ IsSequence(b.text)

ASSUME FailureAssumption ==
  /\ Failures \subseteq [cause : Causes, after : Nat, named : BOOLEAN]
  /\ Nothing \notin Failures
  /\ Nothing \notin {"caller", "watcher"}
  /\ Nothing \notin [reason : STRING, usage : Usages]

VARIABLES
  call, phase,               \* what is called, where the caller is
  attempts, delay,           \* the attempts made; how long the next one waits
  cancelled,
  at, reader, filter, kept,  \* the service, the adapter, the filter, CollectStream
  span, result

streamVars == <<at, reader, filter, kept>>
callVars == <<call, phase, attempts, delay, cancelled, streamVars, span, result>>

NothingKept == [text |-> << >>, calls |-> << >>, reason |-> "", usage |-> NoUsage, thinking |-> << >>]

(* The traced reader: final and text are what it saw, ended guards the     *)
(* span, by ended it; ends counts span.End.                                *)
NewSpan == [ended |-> FALSE, by |-> Nothing, ends |-> 0, error |-> "",
            final |-> Nothing, text |-> << >>, attributes |-> Nothing]

Failed(error) == [error |-> error, message |-> Nothing, reason |-> "", usage |-> NoUsage]
Answer(message, reason, usage) == [error |-> "", message |-> message, reason |-> reason, usage |-> usage]
NoResult == Failed("none yet")

CallInit ==
  /\ call \in Calls
  /\ phase = "calling" /\ attempts = << >> /\ delay = 0 /\ cancelled = FALSE
  /\ at = Beginning /\ reader = NewReader /\ filter = NewFilter /\ kept = NothingKept
  /\ span = NewSpan /\ result = NoResult


-----------------------------------------------------------------------------
(* Attempts: the loop of Retry, around Generate or the opening of a stream.*)

Generated ==
  LET m == Response(call.adapter, call.blocks) IN
  CASE call.filter = "off"     -> m
    [] call.filter = "strip"   -> [m EXCEPT !.parts = StripParts(@)]
    [] call.filter = "extract" -> [m EXCEPT !.parts = ExtractParts(@)]

(* The defer of the instrumented Generate, the failed opening of a stream. *)
EndAtOnce(r) ==
  [span EXCEPT !.ended = TRUE, !.by = "caller", !.ends = @ + 1, !.error = r.error,
               !.attributes = IF r.error = "" THEN [reason |-> r.reason, usage |-> r.usage] ELSE Nothing,
               !.text = IF r.error = "" THEN Texts(r.message.parts) ELSE << >>]

Return(r) ==
  /\ result' = r /\ span' = EndAtOnce(r) /\ phase' = "done"
  /\ UNCHANGED streamVars

Attempted(failure) ==
  attempts' = Append(attempts, [failure |-> failure, waited |-> delay, cancelled |-> cancelled])

(* What the adapter's Stream and Generate return.                          *)
Opens == call.streaming /\ phase' = "open" /\ UNCHANGED <<span, result, streamVars>>
Generates == ~call.streaming /\ Return(Answer(Generated, call.reason, call.usage))

Succeeds ==
  /\ phase = "calling" /\ ~cancelled
  /\ Attempted(Nothing) /\ delay' = 0
  /\ Opens \/ Generates
  /\ UNCHANGED <<call, cancelled>>

Fails(failure) ==
  /\ phase = "calling" /\ ~cancelled /\ call.fault = "refused"
  /\ Attempted(failure)
  /\ LET kind == Kind(call.adapter, failure)
         n == Len(attempts) + 1
         delays == IF IsRetryable(kind) /\ n < MaxAttempts THEN NextDelays(n, failure) ELSE {}
     IN IF delays = {} THEN Return(Failed(kind)) /\ delay' = 0
        ELSE /\ delay' \in delays /\ phase' = "sleeping"
             /\ UNCHANGED <<result, span, streamVars>>
  /\ UNCHANGED <<call, cancelled>>

Wake ==
  /\ phase = "sleeping"
  /\ phase' = "calling"
  /\ UNCHANGED <<call, attempts, delay, cancelled, streamVars, span, result>>

(* ctx.Err before an attempt, or sleepCtx cut short.                       *)
GiveUp ==
  /\ phase \in {"calling", "sleeping"} /\ cancelled
  /\ Return(Failed("cancelled"))
  /\ UNCHANGED <<call, attempts, delay, cancelled>>

Cancel ==
  /\ ~cancelled /\ phase # "done"
  /\ cancelled' = TRUE
  /\ UNCHANGED <<call, phase, attempts, delay, streamVars, span, result>>

-----------------------------------------------------------------------------
(* The stream.                                                             *)

(* The body goes on, or meets the fault of the call: a frame that is an    *)
(* error, or a frame of the answer that arrives garbled (Bedrock's stream  *)
(* breaks with it).                                                        *)
Reads ==
  /\ phase = "open" /\ ~cancelled /\ reader.pending = << >> /\ reader.fail = ""
  /\ \/ \E next \in IF at.phase = "over" \/ call.fault = "empty" THEN {}
                    ELSE NextFrames(call.adapter, call.blocks, at, call.reason, call.usage) :
          at' = next.to /\ reader' = Handle(call.adapter, reader, next.frame)
     \/ /\ call.fault \in {"error", "garbage"} /\ call.adapter = "bedrock" /\ at.phase # "over"
        /\ at' = [at EXCEPT !.phase = "over"] /\ reader' = AtEnd("bedrock", reader, TRUE)
     \/ /\ call.fault = "error" /\ call.adapter # "bedrock" /\ at.phase # "over"
        /\ at' = at /\ reader' = Handle(call.adapter, reader, Frame("error"))
     \/ /\ call.fault = "garbage" /\ call.adapter # "bedrock" /\ at.phase # "over"
        /\ \E next \in NextFrames(call.adapter, call.blocks, at, call.reason, call.usage) : at' = next.to
        /\ reader' = Handle(call.adapter, reader, Frame("garbage"))
     \/ /\ \/ call.fault \in {"cut", "empty"} \/ at.phase = "over"
           \/ NextFrames(call.adapter, call.blocks, at, call.reason, call.usage) = {}
        /\ at' = [at EXCEPT !.phase = "over"]
        /\ reader' = AtEnd(call.adapter, reader, call.adapter = "bedrock" /\ call.fault \in {"error", "garbage"})
  /\ UNCHANGED <<call, phase, attempts, delay, cancelled, filter, kept, span, result>>

(* Recv of the traced reader and one turn of CollectStream's loop.         *)
Collect(k, e) ==
  LET i == {n \in DOMAIN k.calls : k.calls[n].id = e.id}
      extended(c) == [c EXCEPT !.name = IF e.name # "" THEN e.name ELSE @, !.text = @ \o e.text,
                               !.sig = IF e.sig # "" THEN e.sig ELSE @]
      usage == IF e.usage # NoUsage THEN e.usage ELSE k.usage
  IN CASE e.type = "start"   -> [k EXCEPT !.usage = usage]
       [] e.type = "content" -> [k EXCEPT !.text = @ \o e.text]
       [] e.type = "tool"    ->
            IF e.id = "" THEN k
            ELSE IF i = {} THEN [k EXCEPT !.calls = Append(@, ToolUse(e.id, e.name, e.text, e.sig))]
            ELSE [k EXCEPT !.calls = [n \in DOMAIN @ |-> IF n \in i THEN extended(@[n]) ELSE @[n]]]
       [] e.type = "stop"    -> [k EXCEPT !.reason = e.reason, !.usage = usage, !.thinking = @ \o e.thinking]

Trace(s, e) ==
  CASE e.type = "content" -> [s EXCEPT !.text = @ \o e.text]
    [] e.type = "stop"    -> [s EXCEPT !.final = [reason |-> e.reason, usage |-> e.usage]]
    [] OTHER              -> s

CollectAll(k, events) ==
  LET after[n \in 0 .. Len(events)] == IF n = 0 THEN k ELSE Collect(after[n - 1], events[n])
  IN after[Len(events)]

TraceAll(s, events) ==
  LET after[n \in 0 .. Len(events)] == IF n = 0 THEN s ELSE Trace(after[n - 1], events[n])
  IN after[Len(events)]

(* What the filter makes of an event: at the stop, held text goes first.   *)
Filtered(e) ==
  LET fed == Feed(filter, e.text)
      held == Flush(filter)
      stop == IF call.filter = "extract" THEN [e EXCEPT !.thinking = ExtractParts(@)]
              ELSE [e EXCEPT !.thinking = StripParts(@)]
  IN IF call.filter = "off" THEN <<filter, <<e>>>> ELSE
     CASE e.type = "content"  ->
            <<[buf |-> fed.buf, inThink |-> fed.inThink], IF fed.out = << >> THEN << >> ELSE <<TextEvent(fed.out)>>>>
       [] e.type = "stop"     -> <<NewFilter, (IF held = << >> THEN << >> ELSE <<TextEvent(held)>>) \o <<stop>>>>
       [] OTHER               -> <<filter, <<e>>>>

Panicking(e) == call.filter # "off" /\ e.type = "content" /\ Feed(filter, e.text).panics

(* A reader looks at the context before it hands out what it queued; the   *)
(* stop is never queued, and neither is anything of Anthropic's reader.    *)
InHand == reader.pending # << >> /\ (call.adapter = "anthropic" \/ Head(reader.pending).type = "stop")

Delivers ==
  /\ phase = "open" /\ reader.pending # << >>
  /\ cancelled => InHand
  /\ ~Panicking(Head(reader.pending))
  /\ LET out == Filtered(Head(reader.pending)) IN
     /\ filter' = out[1]
     /\ kept' = CollectAll(kept, out[2])
     /\ span' = TraceAll(span, out[2])
  /\ reader' = [reader EXCEPT !.pending = Tail(@)]
  /\ UNCHANGED <<call, phase, attempts, delay, cancelled, at, result>>

-----------------------------------------------------------------------------
(***************************************************************************)
(* The end: endSpan takes the span under its lock, then writes and ends    *)
(* it. The caller goes on when it has; the watcher may be in between.      *)
(***************************************************************************)
Take(who) == [span EXCEPT !.ended = TRUE, !.by = who]
Written(error, final) == [span EXCEPT !.ends = @ + 1, !.error = error, !.attributes = final]

Collected ==
  Answer(Message("assistant",
                 kept.thinking \o (IF kept.text = << >> THEN << >> ELSE <<Part("text", kept.text, "")>>),
                 kept.calls, ""),
         kept.reason, kept.usage)

(* Recv returns an error or io.EOF: CollectStream returns and closes.      *)
Finishes ==
  /\ phase = "open"
  /\ reader.fail # "" \/ (cancelled /\ ~InHand)
  /\ result' = IF reader.fail = "eof" THEN Collected
               ELSE IF reader.fail # "" THEN Failed(reader.fail) ELSE Failed("cancelled")
  /\ IF span.ended THEN phase' = "done" /\ UNCHANGED span
     ELSE phase' = "ending" /\ span' = Take("caller")
  /\ UNCHANGED <<call, attempts, delay, cancelled, streamVars>>

(* The filter panics: the deferred Close of CollectStream ends the span,   *)
(* without an error, on the way up.                                        *)
Panics ==
  /\ phase = "open" /\ reader.pending # << >>
  /\ cancelled => InHand
  /\ Panicking(Head(reader.pending))
  /\ result' = Failed("panic")
  /\ IF span.ended THEN phase' = "done" /\ UNCHANGED span
     ELSE phase' = "ending" /\ span' = Take("caller")
  /\ UNCHANGED <<call, attempts, delay, cancelled, streamVars>>

(* Slip: closing ends the span, ended or not.                          *)
ConsumerClosesAgain ==
  /\ phase \in {"open", "left"}
  /\ phase' = "ending" /\ span' = Take("caller")
  /\ UNCHANGED <<call, attempts, delay, cancelled, streamVars, result>>

(* The consumer closes a stream it has not read to the end.                *)
ConsumerCloses ==
  /\ phase \in {"open", "left"}
  /\ IF span.ended THEN phase' = "done" /\ UNCHANGED span
     ELSE phase' = "ending" /\ span' = Take("caller")
  /\ UNCHANGED <<call, attempts, delay, cancelled, streamVars, result>>

(* The error a span is given: none when the caller closes, or panics.      *)
ErrorTold(r) == IF r = NoResult \/ r.error = "panic" THEN "" ELSE r.error

EndsSpan ==
  /\ phase = "ending"
  /\ span' = Written(ErrorTold(result), span.final)
  /\ phase' = "done"
  /\ UNCHANGED <<call, attempts, delay, cancelled, streamVars, result>>

(* The consumer stops reading and does not close.                          *)
WalksAway ==
  /\ phase = "open"
  /\ phase' = "left"
  /\ UNCHANGED <<call, attempts, delay, cancelled, streamVars, span, result>>

(* Slip: the watcher ends with the caller's interest.                  *)
WatcherTakesOpen ==
  /\ phase = "open" /\ cancelled /\ ~span.ended
  /\ span' = Take("watcher")
  /\ UNCHANGED <<call, phase, attempts, delay, cancelled, streamVars, result>>

WatcherTakes ==
  /\ phase \in {"open", "left"} /\ cancelled /\ ~span.ended
  /\ span' = Take("watcher")
  /\ UNCHANGED <<call, phase, attempts, delay, cancelled, streamVars, result>>

WatcherEnds ==
  /\ span.by = "watcher" /\ span.ends = 0
  /\ span' = Written("cancelled", Nothing)
  /\ UNCHANGED <<call, phase, attempts, delay, cancelled, streamVars, result>>

-----------------------------------------------------------------------------
CallNext ==
  \/ Succeeds \/ (\E f \in Failures : Fails(f)) \/ Wake \/ GiveUp \/ Cancel
  \/ Reads \/ Delivers \/ Panics \/ Finishes \/ ConsumerCloses \/ EndsSpan \/ WalksAway
  \/ WatcherTakes \/ WatcherEnds

CallSpec == CallInit /\ [][CallNext]_callVars

-----------------------------------------------------------------------------
(***************************************************************************)
(* Retry keeps its distance: no more attempts than allowed, none for an    *)
(* error that will not pass, none earlier than the service said, none      *)
(* after a cancellation and none without a pause; and a transient error    *)
(* is only returned when the attempts are used up or the service asks for  *)
(* more than MaxDelay.                                                     *)
(***************************************************************************)
Transient == {"throttled", "overloaded", "failure"}

RetryKeepsItsDistance ==
  /\ Len(attempts) <= MaxAttempts
  /\ \A i \in 2 .. Len(attempts) :
       LET f == attempts[i - 1].failure IN
       /\ f # Nothing /\ ~attempts[i].cancelled
       /\ f.named => f.cause \in Transient
       /\ attempts[i].waited >= f.after
       /\ attempts[i].waited \in 1 .. MaxDelay
  /\ LET f == attempts[Len(attempts)].failure IN
     phase = "done" /\ attempts # << >> /\ ~cancelled /\ f # Nothing =>
       /\ result.error # ""
       /\ f.named /\ f.cause \in Transient => Len(attempts) = MaxAttempts \/ f.after > MaxDelay

(***************************************************************************)
(* The span of a call ends once and tells what became of it: ended by the  *)
(* caller it has the caller's error (but a panic has none), and the        *)
(* reason, the usage and the text of the answer; ended by the watcher it   *)
(* was cancelled. No call is over with its span untouched.                 *)
(***************************************************************************)
SpanTellsTheOutcome ==
  /\ span.ends <= 1 /\ (phase = "done" => span.ended)
  /\ span.by = "watcher" => cancelled
  /\ phase = "done" /\ span.by = "caller" =>
       /\ span.ends = 1
       /\ span.error = ErrorTold(result)
       /\ result.error = "" =>
            /\ span.attributes = [reason |-> result.reason, usage |-> result.usage]
            /\ span.text = Texts(result.message.parts)

=============================================================================
