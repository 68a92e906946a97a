----------------------------- MODULE Middleware -----------------------------
(***************************************************************************)
(* The middleware of pkg/provider.                                         *)
(***************************************************************************)
EXTENDS Turns

(***************************************************************************)
(* The errors of the services and the Retry wrapper of pkg/provider.       *)
(*                                                                         *)
(* A service fails for a cause it puts into a status and an error type;    *)
(* the adapter (errors.go of each provider) makes a kind of the two, and   *)
(* Retry decides by the kind. Times are whole units, and the delays are    *)
(* all those the jitter (a quarter) can give.                              *)
(***************************************************************************)

CONSTANTS MaxAttempts, InitialDelay, MaxDelay, Multiplier

(* withDefaults: no field is 0, and a backoff does not shrink.             *)
ASSUME RetryAssumption ==
  /\ MaxAttempts \in Nat \ {0} /\ InitialDelay \in Nat \ {0}
  /\ MaxDelay \in Nat \ {0} /\ Multiplier \in Nat \ {0}

Causes == {"auth", "throttled", "overloaded", "invalid", "too long", "failure"}

(* The services (external): status and error type for a cause.             *)
StatusOf(cause) ==
  CASE cause = "auth" -> 401 [] cause = "throttled" -> 429 [] cause = "overloaded" -> 529
    [] cause = "invalid" -> 400 [] cause = "too long" -> 400 [] cause = "failure" -> 500

KindForStatus(code) ==
  CASE code \in {401, 403} -> "auth" [] code = 429 -> "rate limited" [] code >= 500 -> "server"
    [] code \in 400 .. 499 \ {401, 403, 429} -> "invalid request"

(* The documented error types, named by the cause they stand for. The SDK  *)
(* of Bedrock gives types alone; what it cannot name is a server error.    *)
KindForType(a, cause) ==
  CASE cause = "auth"       -> "auth"
    [] cause = "throttled"  -> "rate limited"
    [] cause = "overloaded" -> IF a = "anthropic" THEN "rate limited" ELSE "server"
    [] cause = "invalid"    -> "invalid request"
    [] cause = "too long"   -> IF a = "openai" THEN "context window" ELSE "invalid request"
    [] cause = "failure"    -> "server"

(* named: the body of the error could be read.                             *)
Kind(a, failure) ==
  IF failure.named THEN KindForType(a, failure.cause)
  ELSE IF a = "bedrock" THEN "server"
  ELSE KindForStatus(StatusOf(failure.cause))

IsRetryable(kind) == kind \in {"rate limited", "server"}

-----------------------------------------------------------------------------
Least(m, n) == IF m < n THEN m ELSE n
(* Slip: jitter either way, below what the service asked for.          *)
JitterUpAndDown(d) == {Least(n, MaxDelay) : n \in d - d \div 4 .. d + d \div 4}

JitterUp(d) == {Least(n, MaxDelay) : n \in d .. d + d \div 4}
Jitter(d) == {Least(n, MaxDelay) : n \in d - d \div 4 .. d + d \div 4}

Climb(delay, steps) ==
  LET after[n \in 0 .. steps] ==
        IF n = 0 THEN delay ELSE Least(after[n - 1] * Multiplier, MaxDelay)
  IN after[steps]

(* nextDelay: none when the server asks for more than MaxDelay.            *)
NextDelays(attempt, failure) ==
  IF failure.after > MaxDelay THEN {}
  ELSE IF failure.after > 0 THEN JitterUp(failure.after)
  ELSE Jitter(Climb(InitialDelay, attempt - 1))

-----------------------------------------------------------------------------
(***************************************************************************)
(* StripThinkingBlocks and ExtractThinkingBlocks of pkg/provider: inline   *)
(* <think>...</think> blocks leave the text of an answer, at once          *)
(* (stripText, extractText) or while it streams in pieces of any length    *)
(* (stripThinkingStream).                                                  *)
(*                                                                         *)
(* A text is a sequence of bytes. The tag's name is "t" "h", "a" is a      *)
(* letter and "_" white space. A character that is not ASCII is a lead and *)
(* Trail: "u" and Trail is two bytes in lower case too, "n" and Trail one  *)
(* byte, "w" and Trail three.                                              *)
(***************************************************************************)

CONSTANT MaxTail   \* maxOpenTagLen

ASSUME TailAssumption == MaxTail \in Nat \ {0}

OpenName == <<"<", "t", "h">>
CloseTag == <<"<", "/", "t", "h", ">">>

(* <(?:think|thinking)\b[^>]*> : where it can start, and the first match.   *)
TagEnds(s, i) == {j \in i + Len(OpenName) .. Len(s) : s[j] = ">"}
Starts(s) ==
  {i \in DOMAIN s : /\ IsPrefix(OpenName, SubSeq(s, i, Len(s)))
                    /\ TagEnds(s, i) # {}
                    /\ s[i + Len(OpenName)] \notin {"a", "t", "h"}}
Before(s) == SubSeq(s, 1, Min(Starts(s)) - 1)
Inside(s) == SubSeq(s, Min(TagEnds(s, Min(Starts(s)))) + 1, Len(s))

(* A closing tag.                                                          *)
Closes(s) == {i \in 1 .. Len(s) : IsPrefix(CloseTag, SubSeq(s, i, Len(s)))}
After(s) == SubSeq(s, Min(Closes(s)) + Len(CloseTag), Len(s))

Solid(s) == {i \in DOMAIN s : s[i] # "_"}
TrimLeft(s) == IF Solid(s) = {} THEN << >> ELSE SubSeq(s, Min(Solid(s)), Len(s))
TrimSpace(s) == IF Solid(s) = {} THEN << >> ELSE SubSeq(s, Min(Solid(s)), Max(Solid(s)))

-----------------------------------------------------------------------------
(* The whole text at once.                                                 *)
Blocked(s) == Starts(s) # {} /\ Closes(Inside(s)) # {}

LastOf(s, n) == SubSeq(s, Len(s) - n + 1, Len(s))

Unblocked(s) ==
  LET left[n \in 0 .. Len(s)] ==
        LET rest == LastOf(s, n) IN
        IF Blocked(rest) THEN Before(rest) \o left[Len(After(Inside(rest)))] ELSE rest
  IN left[Len(s)]

Thoughts(s) ==
  LET thoughts[n \in 0 .. Len(s)] ==
        LET rest == LastOf(s, n) IN
        IF Blocked(rest)
        THEN <<SubSeq(Inside(rest), 1, Min(Closes(Inside(rest))) - 1)>> \o thoughts[Len(After(Inside(rest)))]
        ELSE << >>
  IN thoughts[Len(s)]

StripText(s) == IF Blocked(s) THEN TrimSpace(Unblocked(s)) ELSE s

StripParts(parts) ==
  [i \in DOMAIN parts |-> IF parts[i].type = "text" THEN [parts[i] EXCEPT !.text = StripText(@)] ELSE parts[i]]

ExtractParts(parts) ==
  LET thoughts == FlattenSeq([i \in DOMAIN parts |->
                    IF parts[i].type = "text" THEN Thoughts(parts[i].text) ELSE << >>])
  IN StripParts(parts) \o FlattenSeq([i \in DOMAIN thoughts |->
       IF IsBlank(thoughts[i]) THEN << >> ELSE <<Part("thinking", TrimSpace(thoughts[i]), "")>>])

-----------------------------------------------------------------------------
(* strings.ToLower, byte by byte: what is not a whole character becomes    *)
(* U+FFFD, which is three bytes.                                           *)
Leads == {"u", "n", "w"}

Lower(s) ==
  LET led(i)   == i > 1 /\ s[i - 1] \in Leads /\ s[i] = Trail
      whole(i) == i < Len(s) /\ s[i] \in Leads /\ s[i + 1] = Trail
      lower(i) == IF led(i) THEN << >>
                  ELSE IF whole(i)
                  THEN CASE s[i] = "u" -> <<"u", Trail>> [] s[i] = "n" -> <<"a">> [] s[i] = "w" -> <<"w", Trail, Trail>>
                  ELSE IF s[i] \in Leads \cup {Trail} THEN <<"?", "?", "?">> ELSE <<s[i]>>
  IN FlattenSeq([i \in DOMAIN s |-> lower(i)])

(* findClose: the tag is found in the text in lower case, and its end is   *)
(* used in the text itself.                                                *)
FoundClose(s) == Closes(Lower(s)) # {}
CloseEnd(s) == Min(Closes(Lower(s))) + Len(CloseTag) - 1

-----------------------------------------------------------------------------
(* The stream: buf is held back, inThink tells whether a block is open.    *)
NewFilter == [buf |-> << >>, inThink |-> FALSE]

(* Slip: only what is shorter than a tag's name is held back.          *)
SafeByName(work) ==
  LET angles == {i \in DOMAIN work : work[i] = "<"}
  IN IF angles # {} /\ IsPrefix(SubSeq(work, Max(angles), Len(work)), OpenName)
     THEN Max(angles) - 1 ELSE Len(work)

(* How many characters splitSafePrefix lets go.                            *)
Safe(work) ==
  LET angles == {i \in DOMAIN work : work[i] = "<"}
      tail   == SubSeq(work, Max(angles), Len(work))
  IN IF \/ angles = {}
        \/ ~IsPrefix(tail, OpenName) /\ ~IsPrefix(OpenName, tail)
        \/ (Len(tail) > MaxTail /\ (~IsPrefix(OpenName, tail) \/ TagEnds(tail, 1) # {}))
     THEN Len(work)
     ELSE Max(angles) - 1

(* One turn of feed's loop. A turn that is not the last drops a tag, so    *)
(* that there are at most as many as bytes, and one. The tail that is kept *)
(* of a block may begin inside a character. An end beyond the text is a    *)
(* slice out of range.                                                     *)
Turn(f) ==
  IF f.done THEN f
  ELSE IF f.inThink
  THEN IF ~FoundClose(f.buf)
       THEN [f EXCEPT !.buf = SubSeq(@, Max({1, Len(@) - MaxTail + 1}), Len(@)), !.done = TRUE]
       ELSE IF CloseEnd(f.buf) > Len(f.buf) THEN [f EXCEPT !.panics = TRUE, !.done = TRUE]
       ELSE [f EXCEPT !.buf = TrimLeft(SubSeq(@, CloseEnd(@) + 1, Len(@))), !.inThink = FALSE]
  ELSE IF Starts(f.buf) = {}
       THEN [f EXCEPT !.buf = SubSeq(@, Safe(@) + 1, Len(@)), !.done = TRUE,
                      !.out = @ \o SubSeq(f.buf, 1, Safe(f.buf))]
       ELSE [f EXCEPT !.buf = Inside(@), !.inThink = TRUE, !.out = @ \o Before(f.buf)]

Feed(filter, chunk) ==
  LET work == filter.buf \o chunk
      after[n \in 0 .. Len(work) + 1] ==
        IF n = 0 THEN [buf |-> work, inThink |-> filter.inThink, out |-> << >>, done |-> FALSE, panics |-> FALSE]
        ELSE Turn(after[n - 1])
  IN after[Len(work) + 1]

(* What is left when the message stops: a held-back "<" was just text.     *)
Flush(filter) == IF filter.inThink THEN << >> ELSE filter.buf

=============================================================================
