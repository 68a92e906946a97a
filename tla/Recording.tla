------------------------------ MODULE Recording ------------------------------
(***************************************************************************)
(* pkg/replay: a run whose provider calls are captured in spans, the       *)
(* recording loaded from the trace store or from a fixture file, and the   *)
(* replay provider that answers the same run again.                        *)
(*                                                                         *)
(* The agents of a run are threads that send their whole conversation with *)
(* every call and stop at the answer that asks for no tool (an agent that  *)
(* is not in the run opens with it, and makes no call). A message is       *)
(* [says, thinks, text]: all that everybody sees of it, whether it has     *)
(* reasoning parts, and the text a stream of it delivers, which is less    *)
(* when it calls tools, and may be some when the call fails. A request is  *)
(* [with, messages], with for the model, the tools and the tool choice;    *)
(* the fingerprint is a hash of just that, here the request itself.        *)
(***************************************************************************)
EXTENDS Integers, Sequences, SequencesExt, FiniteSets

CONSTANTS Thread, Works,      \* the agents; the runs they may make
          Fixtures,           \* recordings written by hand
          Rounds              \* bound: replays of one recording

Failed(why) == [says |-> "", thinks |-> FALSE, error |-> why, text |-> ""]
Answer(says, thinks) == [says |-> says, thinks |-> thinks, error |-> "", text |-> says]

(* A message, and what is sent to be answered.                             *)
Texts == STRING \cup {"", "no content"}
Message == [says : Texts, thinks : BOOLEAN, error : Texts, text : Texts]
Requests == [with : STRING \cup {"recorded"}, messages : Seq(Message)]

ASSUME RecordingAssumption ==
  /\ Thread # {} /\ IsFiniteSet(Thread)
  /\ Works \subseteq [asks : [Thread -> STRING], answers : [Thread -> Seq(Message)],
                      with : STRING, mode : {"strict", "lenient"}, streams : BOOLEAN]
  /\ Fixtures \subseteq [version : Nat, calls : Seq([request : Requests, response : Message])]

VARIABLES
  work,        \* [asks, answers, with, mode, streams]: the run, and how it is replayed
  stage,       \* "live", "loaded", "replay" or "over"
  talk,        \* thread -> its conversation so far
  open,        \* thread -> when its open span started, 0 when none is open
  started,     \* the clock: spans started
  at,          \* thread -> the answers of the service it has used
  spans,       \* of the store, as they ended: [start, request, completion]
  tape,        \* the recorded calls: [request, response]
  provider,    \* [idx, cursors] of the replay provider
  stopped,     \* thread -> the error its run ended with, "" before
  heard,       \* ghost: thread -> its conversation in the live run
  served,      \* ghost: the answers of this replay, [request, response, call]
  round

recordingVars ==
  <<work, stage, talk, open, started, at, spans, tape, provider, stopped, heard, served, round>>

Opening(w) == [t \in Thread |-> <<Answer(w.asks[t], FALSE)>>]
Fresh == [idx |-> 0, cursors |-> [r \in {} |-> 0]]

RecordingInit ==
  /\ work \in Works
  /\ stage = "live" /\ talk = Opening(work)
  /\ open = [t \in Thread |-> 0] /\ started = 0 /\ at = [t \in Thread |-> 0]
  /\ spans = << >> /\ tape = << >> /\ provider = Fresh
  /\ stopped = [t \in Thread |-> ""] /\ heard = talk /\ served = << >> /\ round = 0

Request(t, with) == [with |-> with, messages |-> talk[t]]

(* What asks for no tool, the words said beside a call without it too.     *)
Finals == {"final", "said", "part", ""}
Final(m) == m.says \in Finals
Going(t) == ~Final(Last(talk[t])) /\ stopped[t] = ""

-----------------------------------------------------------------------------
(***************************************************************************)
(* The live run. A span starts with the request and ends with the answer,  *)
(* without its reasoning parts, and a failed call has no completion. The   *)
(* span of a stream has for a completion whatever text was delivered, also *)
(* when the stream broke after it, and no tool call (the adapters' last    *)
(* event brings only reasoning, which counts as content and is dropped).   *)
(* The agent tries a failed call again while the service has an answer.    *)
(***************************************************************************)
CallService(t) ==
  /\ stage = "live" /\ Going(t) /\ open[t] = 0 /\ at[t] < Len(work.answers[t])
  /\ started' = started + 1 /\ open' = [open EXCEPT ![t] = started']
  /\ UNCHANGED <<work, stage, talk, at, spans, tape, provider, stopped, heard, served, round>>

Captured(answer) == [answer EXCEPT !.thinks = FALSE]

Completion(answer) ==
  IF ~work.streams THEN Captured(answer)
  ELSE IF answer.text = "" /\ ~answer.thinks THEN Failed("no content")
  ELSE Answer(answer.text, FALSE)

ServiceAnswers(t) ==
  /\ stage = "live" /\ open[t] # 0
  /\ LET answer == work.answers[t][at[t] + 1] IN
     /\ at' = [at EXCEPT ![t] = @ + 1]
     /\ spans' = Append(spans, [start |-> open[t], request |-> Request(t, "recorded"),
                                completion |-> Completion(answer)])
     /\ talk' = IF answer.error = "" THEN [talk EXCEPT ![t] = Append(@, answer)] ELSE talk
  /\ open' = [open EXCEPT ![t] = 0]
  /\ UNCHANGED <<work, stage, started, tape, provider, stopped, heard, served, round>>

-----------------------------------------------------------------------------
(* The numbers of a set, the least first.                                  *)
InOrder(S) ==
  [k \in 1 .. Cardinality(S) |-> CHOOSE n \in S : Cardinality({m \in S : m <= n}) = k]

(* LoadFromStore: the spans with content, by start time, of a call or a    *)
(* stream, whatever became of it.                                          *)
CallsOfSpans(ss) ==
  LET kept   == {i \in DOMAIN ss : ss[i].completion.error = ""}
      starts == InOrder({ss[i].start : i \in kept})
  IN [k \in DOMAIN starts |-> ss[CHOOSE i \in kept : ss[i].start = starts[k]]]

Recorded(ss) ==
  LET calls == CallsOfSpans(ss) IN
  [k \in DOMAIN calls |-> [request |-> calls[k].request, response |-> calls[k].completion]]

(* SaveToFile stamps a recording without a version; LoadFromFile refuses   *)
(* another version than its own and a call without a response.             *)
Saved(f) == [f EXCEPT !.version = IF @ = 0 THEN 2 ELSE @]
Readable(f) == f.version = 2 /\ \A i \in DOMAIN f.calls : f.calls[i].response.error = ""

Load ==
  /\ stage = "live" /\ \A t \in Thread : open[t] = 0 /\ (Going(t) => at[t] = Len(work.answers[t]))
  /\ heard' = talk
  /\ \/ tape' = Recorded(spans)
     \/ \E f \in Fixtures :
          \/ tape' = f.calls
          \/ tape' = IF Readable(Saved(f)) THEN f.calls ELSE << >>
  /\ stage' = IF tape' = << >> THEN "over" ELSE "loaded"
  /\ UNCHANGED <<work, talk, open, started, at, spans, provider, stopped, served, round>>

-----------------------------------------------------------------------------
(* NewProvider's index of a lenient recording: the calls with a request.   *)
Queue(request) == InOrder({i \in DOMAIN tape : tape[i].request = request})

Cursor(request) == IF request \in DOMAIN provider.cursors THEN provider.cursors[request] ELSE 0

(* Slip: the counter moves, and whatever is recorded there is the answer.  *)
StrictByPosition(request) == provider.idx < Len(tape)

(* generateStrict takes the next index whether or not it will match.       *)
Strict(request) == provider.idx < Len(tape) /\ tape[provider.idx + 1].request = request

GenerateStrict(request) ==
  [provider |-> [provider EXCEPT !.idx = @ + 1],
   call     |-> IF Strict(request) THEN provider.idx + 1 ELSE 0,
   error    |-> IF provider.idx >= Len(tape) THEN "exhausted" ELSE "mismatch"]

(* generateLenient serves equal requests in recorded order, the last one   *)
(* again and again.                                                        *)
GenerateLenient(request) ==
  LET q == Queue(request)
      c == Cursor(request)
  IN [provider |-> IF c < Len(q)
                   THEN [provider EXCEPT !.cursors =
                           [r \in DOMAIN provider.cursors \cup {request} |->
                              IF r = request THEN c + 1 ELSE provider.cursors[r]]]
                   ELSE provider,
      call     |-> IF q = << >> THEN 0 ELSE q[IF c < Len(q) THEN c + 1 ELSE Len(q)],
      error    |-> "unknown prompt"]

Generate(request) ==
  IF work.mode = "lenient" THEN GenerateLenient(request) ELSE GenerateStrict(request)

Replay ==
  /\ stage = "loaded" /\ round < Rounds
  /\ stage' = "replay" /\ round' = round + 1
  /\ talk' = Opening(work) /\ stopped' = [t \in Thread |-> ""] /\ served' = << >>
  /\ UNCHANGED <<work, open, started, at, spans, tape, provider, heard>>

ReplayCall(t) ==
  /\ stage = "replay" /\ Going(t)
  /\ LET request == Request(t, work.with)
         g == Generate(request)
     IN /\ provider' = g.provider
        /\ IF g.call # 0 /\ tape[g.call].response.error = ""
           THEN /\ talk' = [talk EXCEPT ![t] = Append(@, tape[g.call].response)]
                /\ served' = Append(served, [request |-> request, response |-> Last(talk'[t]), call |-> g.call])
                /\ UNCHANGED stopped
           ELSE /\ stopped' = [stopped EXCEPT ![t] =
                     IF g.call = 0 THEN g.error ELSE tape[g.call].response.error]
                /\ UNCHANGED <<talk, served>>
  /\ UNCHANGED <<work, stage, open, started, at, spans, tape, heard, round>>

(* Reset rewinds the strict counter and nothing else. *)
Reset ==
  /\ stage = "replay" /\ \A t \in Thread : ~Going(t)
  /\ stage' = "loaded" /\ provider' = [provider EXCEPT !.idx = 0]
  /\ UNCHANGED <<work, talk, open, started, at, spans, tape, stopped, heard, served, round>>

Remaining == IF provider.idx >= Len(tape) THEN 0 ELSE Len(tape) - provider.idx

RecordingNext ==
  \/ Load \/ Replay \/ Reset
  \/ \E t \in Thread : CallService(t) \/ ServiceAnswers(t) \/ ReplayCall(t)

RecordingSpec == RecordingInit /\ [][RecordingNext]_recordingVars

-----------------------------------------------------------------------------
(***************************************************************************)
(* A replay never makes an answer up: what a thread is told was recorded   *)
(* for that very request, no missing response is handed out, and a strict  *)
(* replay serves no recorded call twice. Of a run recorded faithfully,     *)
(* every answer served is one that the service gave to that request, never *)
(* what was left of a failed call.                                         *)
(* A replay repeats the run: captured from the store, whatever failed and  *)
(* was tried again, and in whatever order the threads come now, lenient    *)
(* threads end with the conversations of the live run between them, and a  *)
(* strict replay of a run with one thread does so every time and has no    *)
(* call left. (Runs with reasoning: see ThinkingRunsReplay.)               *)
(*                                                                         *)
(* Not every stream is recorded faithfully. One that breaks after some     *)
(* text leaves that text as its completion, and is served as an answer,    *)
(* though the loader means to skip a call that errored; one that calls     *)
(* tools is recorded without the calls, as a last answer or as no call at  *)
(* all. See Captures.                                                      *)
(***************************************************************************)
Captures(answer) ==
  work.streams =>
    IF answer.error = "" THEN answer.text = answer.says /\ answer.text # ""
    ELSE answer.text = "" /\ ~answer.thinks

Faithful == \A t \in Thread : \A k \in DOMAIN work.answers[t] : Captures(work.answers[t][k])

Times(conversations, c) == Cardinality({t \in Thread : conversations[t] = c})

Repeats ==
  /\ \A t \in Thread : Times(talk, talk[t]) = Times(heard, talk[t])
  /\ work.mode = "strict" => Remaining = 0

Ended == stage = "replay" /\ \A t \in Thread : ~Going(t)
Finished(conversations) == \A t \in Thread : Final(Last(conversations[t]))
Alone == Cardinality({t \in Thread : work.asks[t] \notin Finals}) <= 1

Repeatable ==
  /\ Ended /\ tape = Recorded(spans) /\ work.with = "recorded"
  /\ Faithful /\ Finished(heard)
  /\ IF work.mode = "strict" THEN Alone ELSE round = 1

Thinks == \E t \in Thread : \E i \in DOMAIN heard[t] : heard[t][i].thinks

(* The service gave this answer to that request in the live run.           *)
Heard(request, response) ==
  \E t \in Thread : \E k \in 1 .. Len(heard[t]) - 1 :
    request.messages = SubSeq(heard[t], 1, k) /\ response = Captured(heard[t][k + 1])

ReplayRepeatsTheRun ==
  /\ \A i \in DOMAIN served :
       /\ served[i].response.error = ""
       /\ \E c \in DOMAIN tape : tape[c].request = served[i].request /\ tape[c].response = served[i].response
       /\ tape = Recorded(spans) /\ Faithful => Heard(served[i].request, served[i].response)
  /\ work.mode = "strict" => IsInjective([i \in DOMAIN served |-> served[i].call])
  /\ Repeatable /\ ~Thinks => Repeats

(* "A call that errored has no captured completion; skip it": whatever is  *)
(* replayed from the store is an answer of the live run.                   *)
ReplaysWhatWasHeard ==
  tape = Recorded(spans) =>
    \A i \in DOMAIN served : Heard(served[i].request, served[i].response)

(* The package's doc: "the system behaves exactly as before" -- also when  *)
(* the model reasons, reasoning aside.                                     *)
ThinkingRunsReplay == Repeatable => stopped = [t \in Thread |-> ""]

=============================================================================
