------------------------- MODULE ProviderCallProofs -------------------------
(***************************************************************************)
(* Proofs about ProviderCall, for every configuration of Retry, every set  *)
(* of failures and of calls, and texts of any length: attempts keep their  *)
(* distance, and the span of a call tells what became of it. And about the *)
(* exporter of Traces, for any exports and shutdowns: what it let in is    *)
(* stored.                                                                 *)
(***************************************************************************)
EXTENDS ProviderCall, Traces, SequenceTheorems, WellFoundedInduction, TLAPS

Attempt == [failure : Failures \cup {Nothing}, waited : Nat, cancelled : BOOLEAN]

(* An attempt after which another one may come, no sooner than pause.      *)
MayRepeat(f, pause) ==
  /\ f # Nothing
  /\ f.named => f.cause \in Transient
  /\ pause >= f.after /\ pause \in 1 .. MaxDelay

LastFailure == attempts[Len(attempts)].failure

(***************************************************************************)
(* The attempts made, and what the last of them says of the caller.        *)
(***************************************************************************)
RetryInv ==
  /\ call \in Calls /\ cancelled \in BOOLEAN
  /\ phase \in {"calling", "sleeping", "open", "left", "ending", "done"}
  /\ attempts \in Seq(Attempt) /\ delay \in Nat /\ Len(attempts) <= MaxAttempts
  /\ \A i \in 2 .. Len(attempts) :
       ~attempts[i].cancelled /\ MayRepeat(attempts[i - 1].failure, attempts[i].waited)
  /\ phase \in {"calling", "sleeping"} =>
       /\ Len(attempts) < MaxAttempts
       /\ attempts # << >> => MayRepeat(LastFailure, delay)
  /\ phase \in {"open", "left", "ending"} => attempts # << >> /\ LastFailure = Nothing
  /\ phase = "done" /\ attempts # << >> /\ ~cancelled /\ LastFailure # Nothing =>
       /\ result.error # ""
       /\ LastFailure.named /\ LastFailure.cause \in Transient =>
            Len(attempts) = MaxAttempts \/ LastFailure.after > MaxDelay

-----------------------------------------------------------------------------
(* A message's reasoning: none, or one part of it.                         *)
Thought(parts) ==
  \/ parts = << >>
  \/ Len(parts) = 1 /\ parts = <<Part("thinking", parts[1].text, parts[1].sig)>>

AnEvent(e) ==
  /\ DOMAIN e = {"type", "text", "id", "name", "sig", "reason", "usage", "thinking"}
  /\ e.type \in {"start", "content", "tool", "stop"}
  /\ IsSequence(e.text) /\ e.usage \in Usages /\ Thought(e.thinking)

AReader(r) ==
  /\ DOMAIN r = {"frames", "started", "stopped", "usage", "reason", "ids", "names", "reasoning",
                 "signature", "held", "pending", "fail"}
  /\ r.stopped \in BOOLEAN /\ r.usage \in Usages
  /\ r.fail # "" => r.pending = << >>
  /\ r.fail = "eof" => r.stopped
  /\ r.held = << >> \/ (r.held = <<r.held[1]>> /\ AnEvent(r.held[1]) /\ r.held[1].type = "stop")

(* What a reader has read and not handed out: the stop by itself, or other *)
(* events, of which only a start of anthropic's knows usage.               *)
OneStop(r) == Len(r.pending) = 1 /\ r.pending = <<r.pending[1]>> /\ AnEvent(r.pending[1]) /\ r.pending[1].type = "stop"
NoStop(a, r) ==
  /\ IsSequence(r.pending)
  /\ \A i \in DOMAIN r.pending :
       /\ AnEvent(r.pending[i]) /\ r.pending[i].type # "stop"
       /\ r.pending[i].type = "start" /\ r.pending[i].usage # NoUsage =>
            a = "anthropic" /\ ~r.stopped /\ r.usage # NoUsage

(***************************************************************************)
(* How far a stream has come. Before the stop is handed out, nothing that  *)
(* was kept has its reason or its reasoning, and usage is known only from  *)
(* anthropic's start; the stop comes once, and then the span and           *)
(* CollectStream agree.                                                    *)
(***************************************************************************)
StreamTyped ==
  /\ at \in [block : Nat \ {0}, off : Nat, phase : {"open", "block", "delta", "over"}]
  /\ IsSequence(filter.buf) /\ filter.inThink \in BOOLEAN
  /\ DOMAIN kept = {"text", "calls", "reason", "usage", "thinking"}
  /\ IsSequence(kept.text) /\ Thought(kept.thinking)
  /\ DOMAIN span = {"ended", "by", "ends", "error", "final", "text", "attributes"}

Untold ==
  /\ span.final = Nothing /\ kept.thinking = << >>
  /\ kept.usage # NoUsage => call.adapter = "anthropic" /\ reader.usage # NoUsage

Told == span.final = [reason |-> kept.reason, usage |-> kept.usage] /\ reader.stopped

StreamInv ==
  /\ StreamTyped /\ AReader(reader)
  /\ call.adapter = "anthropic" =>
       /\ reader.held = << >>
       /\ at.phase = "open" => ~reader.stopped /\ reader.pending = << >> /\ kept.usage = NoUsage
  /\ Untold \/ Told
  /\ \/ OneStop(reader) /\ reader.stopped /\ Untold
        /\ (reader.pending[1].usage = NoUsage => kept.usage = NoUsage)
     \/ /\ NoStop(call.adapter, reader)
        /\ reader.stopped /\ reader.fail # "no stream" => Told

(* Who has the span, and what it will say.                                 *)
SpanInv ==
  /\ span.by \in {Nothing, "caller", "watcher"} /\ span.ended = (span.by # Nothing)
  /\ span.ends \in {0, 1} /\ (~span.ended => span.ends = 0)
  /\ span.by = "watcher" => cancelled
  /\ phase \in {"calling", "sleeping"} => span.by = Nothing
  /\ phase \in {"calling", "sleeping", "open", "left"} => result = NoResult /\ span.by # "caller"
  /\ phase # "done" => span.text = kept.text
  /\ phase = "ending" =>
       /\ span.by = "caller" /\ span.ends = 0
       /\ result.error = "" => result = Collected /\ Told
  /\ phase = "done" /\ span.by = "caller" => SpanTellsTheOutcome
  /\ phase = "done" => span.ended

IInv == RetryInv /\ StreamInv /\ SpanInv

-----------------------------------------------------------------------------
(* Induction up to N.                                                      *)
LEMMA UpTo ==
  ASSUME NEW N \in Nat, NEW T, 0 \in T, \A n \in 0 .. N : n < N /\ n \in T => n + 1 \in T
  PROVE  \A n \in 0 .. N : n \in T
<1> SUFFICES ASSUME NEW m \in 0 .. N, m \notin T PROVE FALSE
  OBVIOUS
<1> DEFINE Missed == {n \in 0 .. N : n \notin T}
<1>1. PICK n \in Missed : \A k \in Missed : ~ (k < n)
  <2>1. Missed \subseteq Nat /\ m \in Missed
    OBVIOUS
  <2> HIDE DEF Missed
  <2>2. PICK n \in Missed : \A k \in Missed : ~ (<<k, n>> \in OpToRel(<, Nat))
    BY <2>1, NatLessThanWellFounded, WFMin
  <2> QED BY <2>1, <2>2 DEF OpToRel
<1>2. n # 0 /\ n - 1 \in 0 .. N /\ n - 1 < N /\ (n - 1) + 1 = n /\ n - 1 < n
  BY <1>1
<1> QED BY <1>1, <1>2

(***************************************************************************)
(* A step that leads from T to T can be taken N times: what a recursive    *)
(* function over the turns of a loop needs to exist.                       *)
(***************************************************************************)
Loops(f, N, base, step) ==
  \A n \in 0 .. N : f[n] = IF n = 0 THEN base ELSE step[f[n - 1]]

LEMMA LoopExists ==
  ASSUME NEW N \in Nat, NEW T, NEW base \in T, NEW step \in [T -> T]
  PROVE  \E f \in [0 .. N -> T] : Loops(f, N, base, step)
<1> DEFINE Good == {k \in 0 .. N : \E f \in [0 .. k -> T] : Loops(f, k, base, step)}
<1>1. 0 \in Good
  <2>1. [n \in 0 .. 0 |-> base] \in [0 .. 0 -> T] /\ Loops([n \in 0 .. 0 |-> base], 0, base, step)
    BY DEF Loops
  <2> QED BY <2>1
<1>2. ASSUME NEW k \in 0 .. N, k < N, k \in Good
      PROVE  k + 1 \in Good
  <2>1. PICK f \in [0 .. k -> T] : Loops(f, k, base, step)
    BY <1>2
  <2> DEFINE h == [n \in 0 .. k + 1 |-> IF n = k + 1 THEN step[f[k]] ELSE f[n]]
  <2>2. f[k] \in T
    BY <2>1
  <2>3. h \in [0 .. k + 1 -> T]
    BY <2>1, <2>2
  <2>4. ASSUME NEW n \in 0 .. k + 1
        PROVE  h[n] = IF n = 0 THEN base ELSE step[h[n - 1]]
    <3>1. CASE n = k + 1
      <4>1. h[n] = step[f[k]] /\ n # 0 /\ h[n - 1] = f[k]
        BY <3>1
      <4> HIDE DEF h
      <4> QED BY <4>1
    <3>2. CASE n \in 0 .. k
      <4>1. h[n] = f[n] /\ (n # 0 => h[n - 1] = f[n - 1])
        BY <3>2
      <4> HIDE DEF h
      <4> QED BY <2>1, <3>2, <4>1 DEF Loops
    <3> QED BY <3>1, <3>2
  <2>5. k + 1 \in 0 .. N
    BY <1>2
  <2> HIDE DEF h
  <2>6. Loops(h, k + 1, base, step)
    BY <2>4 DEF Loops
  <2> QED BY <2>3, <2>5, <2>6
<1>3. N \in Good
  <2> HIDE DEF Good
  <2>1. \A n \in 0 .. N : n \in Good
    BY <1>1, <1>2, UpTo
  <2> QED BY <2>1
<1> QED BY <1>3

-----------------------------------------------------------------------------
(* Retry.                                                                  *)

LEMMA LeastType ==
  ASSUME NEW m \in Nat, NEW n \in Nat
  PROVE  Least(m, n) \in {m, n} /\ Least(m, n) <= m /\ Least(m, n) <= n
BY DEF Least

LEMMA ClimbType ==
  ASSUME NEW delay0 \in Nat \ {0}, NEW N \in Nat
  PROVE  Climb(delay0, N) \in Nat \ {0}
<1> DEFINE T == Nat \ {0}
           Up(d) == Least(d * Multiplier, MaxDelay)
           step == [d \in T |-> Up(d)]
           Is(f) == f = [n \in 0 .. N |-> IF n = 0 THEN delay0 ELSE Up(f[n - 1])]
           c == CHOOSE f : Is(f)
<1>1. \A d \in T : Up(d) \in T
  <2> TAKE d \in T
  <2>1. d * Multiplier \in Nat \ {0} /\ MaxDelay \in Nat \ {0}
    BY RetryAssumption
  <2> QED BY <2>1, LeastType
<1> HIDE DEF Up
<1>2. PICK f \in [0 .. N -> T] : Loops(f, N, delay0, step)
  <2>1. step \in [T -> T] /\ delay0 \in T
    BY <1>1
  <2> HIDE DEF step, T, Is, c
  <2> QED BY <2>1, LoopExists
<1>3. Is(f)
  <2>1. \A n \in 0 .. N : n # 0 => step[f[n - 1]] = Up(f[n - 1])
    <3> TAKE n \in 0 .. N
    <3> HAVE n # 0
    <3>1. n - 1 \in 0 .. N
      OBVIOUS
    <3>2. f[n - 1] \in T
      BY <1>2, <3>1
    <3> QED BY <3>2
  <2> HIDE DEF step
  <2> QED BY <1>2, <2>1 DEF Loops
<1>4. Is(c)
  <2> HIDE DEF Is
  <2> QED BY <1>3
<1>5. \A n \in 0 .. N : c[n] = IF n = 0 THEN delay0 ELSE Up(c[n - 1])
  <2> HIDE DEF c
  <2> QED BY <1>4
<1> HIDE DEF c
<1>6. c[N] \in T
  <2> DEFINE Typed == {n \in 0 .. N : c[n] \in T}
  <2>1. 0 \in Typed
    BY <1>5
  <2>2. \A n \in 0 .. N : n < N /\ n \in Typed => n + 1 \in Typed
    <3> TAKE n \in 0 .. N
    <3> HAVE n < N /\ n \in Typed
    <3>1. n + 1 \in 0 .. N /\ n + 1 # 0 /\ (n + 1) - 1 = n /\ c[n] \in T
      OBVIOUS
    <3>2. c[n + 1] = Up(c[n])
      BY <1>5, <3>1
    <3> QED BY <1>1, <3>1, <3>2
  <2> HIDE DEF Typed
  <2>3. N \in Typed
    <3>1. \A n \in 0 .. N : n \in Typed
      BY <2>1, <2>2, UpTo
    <3> QED BY <3>1
  <2> QED BY <2>3 DEF Typed
<1> QED BY <1>6 DEF Climb, c, Up

(* Whatever the jitter, a delay is a pause within the cap, and none sooner *)
(* than the service said.                                                  *)
LEMMA DelaysPause ==
  ASSUME NEW f \in Failures, NEW n \in Nat \ {0}
  PROVE  /\ \A d \in NextDelays(n, f) : d \in 1 .. MaxDelay /\ d >= f.after
         /\ NextDelays(n, f) = {} => f.after > MaxDelay
<1> USE RetryAssumption
<1>1. f.after \in Nat
  BY FailureAssumption
<1>2. CASE f.after > MaxDelay
  BY <1>2 DEF NextDelays
<1>3. CASE f.after <= MaxDelay /\ f.after > 0
  <2>1. NextDelays(n, f) = JitterUp(f.after)
    BY <1>1, <1>3 DEF NextDelays
  <2>2. f.after \div 4 \in Nat
    BY <1>1
  <2>3. ASSUME NEW m \in f.after .. f.after + f.after \div 4
        PROVE  Least(m, MaxDelay) \in 1 .. MaxDelay /\ Least(m, MaxDelay) >= f.after
    BY <1>1, <1>3, <2>2 DEF Least
  <2>4. Least(f.after, MaxDelay) \in JitterUp(f.after)
    BY <1>1, <2>2 DEF JitterUp
  <2> QED BY <1>3, <2>1, <2>3, <2>4 DEF JitterUp
<1>4. CASE f.after = 0
  <2> DEFINE d == Climb(InitialDelay, n - 1)
  <2>1. d \in Nat \ {0}
    BY ClimbType
  <2>2. NextDelays(n, f) = Jitter(d)
    BY <1>4 DEF NextDelays
  <2> HIDE DEF d
  <2>3. d \div 4 \in Nat /\ d \div 4 < d
    BY <2>1
  <2>4. ASSUME NEW m \in d - d \div 4 .. d + d \div 4
        PROVE  Least(m, MaxDelay) \in 1 .. MaxDelay
    BY <2>1, <2>3 DEF Least
  <2>5. Least(d, MaxDelay) \in Jitter(d)
    BY <2>1, <2>3 DEF Jitter
  <2> QED BY <1>4, <2>2, <2>4, <2>5 DEF Jitter
<1> QED BY <1>1, <1>2, <1>3, <1>4

(* What the adapters make of a failure, and what Retry makes of that.      *)
LEMMA Kinds ==
  ASSUME NEW a \in Adapters, NEW f \in Failures
  PROVE  /\ Kind(a, f) \notin {"", "none yet", "panic"}
         /\ f.named => (IsRetryable(Kind(a, f)) <=> f.cause \in Transient)
<1>1. f.cause \in Causes /\ f.named \in BOOLEAN
  BY FailureAssumption
<1>2. CASE f.cause = "auth"
  BY <1>1, <1>2 DEF Kind, KindForType, KindForStatus, StatusOf, IsRetryable, Transient, Adapters
<1>3. CASE f.cause = "throttled"
  BY <1>1, <1>3 DEF Kind, KindForType, KindForStatus, StatusOf, IsRetryable, Transient, Adapters
<1>4. CASE f.cause = "overloaded"
  BY <1>1, <1>4 DEF Kind, KindForType, KindForStatus, StatusOf, IsRetryable, Transient, Adapters
<1>5. CASE f.cause = "invalid"
  BY <1>1, <1>5 DEF Kind, KindForType, KindForStatus, StatusOf, IsRetryable, Transient, Adapters
<1>6. CASE f.cause = "too long"
  <2>1. StatusOf(f.cause) = 400
    BY <1>6 DEF StatusOf
  <2>2. KindForStatus(400) = "invalid request"
    BY DEF KindForStatus
  <2>3. KindForType(a, f.cause) \in {"context window", "invalid request"}
    BY <1>6 DEF KindForType
  <2> QED BY <1>1, <1>6, <2>1, <2>2, <2>3 DEF Kind, IsRetryable, Transient
<1>7. CASE f.cause = "failure"
  BY <1>1, <1>7 DEF Kind, KindForType, KindForStatus, StatusOf, IsRetryable, Transient, Adapters
<1> QED BY <1>1, <1>2, <1>3, <1>4, <1>5, <1>6, <1>7 DEF Causes

(* Another attempt, which comes after a failure that may be repeated.      *)
LEMMA AttemptKeeps ==
  ASSUME RetryInv, phase = "calling", ~cancelled, NEW f \in Failures \cup {Nothing}, Attempted(f)
  PROVE  /\ attempts' \in Seq(Attempt) /\ attempts' # << >> /\ Len(attempts') = Len(attempts) + 1
         /\ Len(attempts) < MaxAttempts /\ Len(attempts) \in Nat
         /\ attempts'[Len(attempts')].failure = f
         /\ \A i \in 2 .. Len(attempts') :
              ~attempts'[i].cancelled /\ MayRepeat(attempts'[i - 1].failure, attempts'[i].waited)
<1> DEFINE new == [failure |-> f, waited |-> delay, cancelled |-> cancelled]
<1>1. new \in Attempt /\ attempts' = Append(attempts, new)
  BY DEF RetryInv, Attempted, Attempt
<1>2. attempts \in Seq(Attempt) /\ Len(attempts) \in Nat /\ Len(attempts) < MaxAttempts
  BY DEF RetryInv
<1>3. /\ attempts' \in Seq(Attempt) /\ Len(attempts') = Len(attempts) + 1
      /\ attempts'[Len(attempts) + 1] = new
      /\ \A i \in 1 .. Len(attempts) : attempts'[i] = attempts[i]
  <2> HIDE DEF new
  <2> QED BY <1>1, <1>2
<1>4. attempts' # << >>
  BY <1>2, <1>3
<1>5. ASSUME NEW i \in 2 .. Len(attempts')
      PROVE  ~attempts'[i].cancelled /\ MayRepeat(attempts'[i - 1].failure, attempts'[i].waited)
  <2>1. CASE i \in 2 .. Len(attempts)
    <3>1. attempts'[i] = attempts[i] /\ attempts'[i - 1] = attempts[i - 1]
      BY <1>2, <1>3, <2>1
    <3> QED BY <2>1, <3>1 DEF RetryInv
  <2>2. CASE i = Len(attempts) + 1
    <3>1. attempts'[i] = new /\ attempts'[i - 1] = attempts[Len(attempts)] /\ attempts # << >>
      BY <1>2, <1>3, <2>2
    <3>2. MayRepeat(LastFailure, delay)
      BY <3>1 DEF RetryInv
    <3> QED BY <3>1, <3>2 DEF LastFailure
  <2> QED BY <1>2, <1>3, <2>1, <2>2
<1> QED BY <1>2, <1>3, <1>4, <1>5

LEMMA RetryInit == CallInit => RetryInv
<1> SUFFICES ASSUME CallInit PROVE RetryInv
  OBVIOUS
<1>1. call \in Calls /\ phase = "calling" /\ attempts = << >> /\ delay = 0 /\ cancelled = FALSE
  BY DEF CallInit
<1>2. attempts \in Seq(Attempt) /\ Len(attempts) = 0 /\ MaxAttempts \in Nat /\ MaxAttempts > 0
  BY <1>1, RetryAssumption
<1>3. 2 .. Len(attempts) = {}
  BY <1>2
<1>4. Len(attempts) <= MaxAttempts /\ Len(attempts) < MaxAttempts /\ delay \in Nat
  BY <1>1, <1>2
<1> QED BY <1>1, <1>2, <1>3, <1>4 DEF RetryInv

LEMMA SucceedsKeepsRetry == RetryInv /\ Succeeds => RetryInv'
<1> SUFFICES ASSUME RetryInv, Succeeds PROVE RetryInv'
  OBVIOUS
<1>1. phase = "calling" /\ ~cancelled /\ Attempted(Nothing) /\ delay' = 0
      /\ phase' \in {"open", "done"} /\ call' = call /\ cancelled' = cancelled
  BY DEF Succeeds, Opens, Generates, Return
<1>2. MaxAttempts \in Nat
  BY RetryAssumption
<1>3. /\ attempts' \in Seq(Attempt) /\ attempts' # << >> /\ Len(attempts') = Len(attempts) + 1
      /\ Len(attempts) < MaxAttempts /\ Len(attempts) \in Nat
      /\ attempts'[Len(attempts')].failure = Nothing
      /\ \A i \in 2 .. Len(attempts') :
            ~attempts'[i].cancelled /\ MayRepeat(attempts'[i - 1].failure, attempts'[i].waited)
  <2> Nothing \in Failures \cup {Nothing}
    OBVIOUS
  <2> QED BY <1>1, AttemptKeeps
<1>4. Len(attempts') <= MaxAttempts /\ LastFailure' = Nothing
  BY <1>2, <1>3 DEF LastFailure
<1>5. call \in Calls /\ cancelled \in BOOLEAN
  BY DEF RetryInv
<1> QED BY <1>1, <1>3, <1>4, <1>5 DEF RetryInv

LEMMA FailsKeepsRetry == \A f \in Failures : RetryInv /\ Fails(f) => RetryInv'
<1> SUFFICES ASSUME NEW f \in Failures, RetryInv, Fails(f) PROVE RetryInv'
  OBVIOUS
<1> DEFINE kind == Kind(call.adapter, f)
           n == Len(attempts) + 1
           delays == IF IsRetryable(kind) /\ n < MaxAttempts THEN NextDelays(n, f) ELSE {}
<1>1. phase = "calling" /\ ~cancelled /\ Attempted(f) /\ call' = call /\ cancelled' = cancelled
  BY DEF Fails
<1>2. \/ delays = {} /\ Return(Failed(kind)) /\ delay' = 0
      \/ delays # {} /\ delay' \in delays /\ phase' = "sleeping"
  BY DEF Fails
<1>3. f # Nothing /\ call.adapter \in Adapters /\ MaxAttempts \in Nat
  BY FailureAssumption, CallAssumption, RetryAssumption DEF RetryInv
<1>4. kind # "" /\ (f.named => (IsRetryable(kind) <=> f.cause \in Transient))
  BY <1>3, Kinds
<1>5. /\ \A d \in NextDelays(n, f) : d \in 1 .. MaxDelay /\ d >= f.after
      /\ NextDelays(n, f) = {} => f.after > MaxDelay
  <2>1. attempts \in Seq(Attempt)
    BY DEF RetryInv
  <2>2. n \in Nat \ {0}
    BY <2>1
  <2> HIDE DEF n
  <2> QED BY <2>2, DelaysPause
<1>6. /\ attempts' \in Seq(Attempt) /\ attempts' # << >> /\ Len(attempts') = n
      /\ n <= MaxAttempts /\ n \in Nat /\ LastFailure' = f
      /\ \A i \in 2 .. Len(attempts') :
           ~attempts'[i].cancelled /\ MayRepeat(attempts'[i - 1].failure, attempts'[i].waited)
  <2>1. /\ attempts' \in Seq(Attempt) /\ attempts' # << >> /\ Len(attempts') = Len(attempts) + 1
        /\ Len(attempts) < MaxAttempts /\ Len(attempts) \in Nat
        /\ attempts'[Len(attempts')].failure = f
        /\ \A i \in 2 .. Len(attempts') :
              ~attempts'[i].cancelled /\ MayRepeat(attempts'[i - 1].failure, attempts'[i].waited)
    BY <1>1, AttemptKeeps
  <2> QED BY <1>3, <2>1 DEF LastFailure
<1> HIDE DEF kind, n
<1>7. CASE delays = {} /\ Return(Failed(kind)) /\ delay' = 0
  <2>1. phase' = "done" /\ result'.error = kind
    BY <1>7 DEF Return, Failed
  <2>2. f.named /\ f.cause \in Transient => n = MaxAttempts \/ f.after > MaxDelay
    <3>1. n < MaxAttempts \/ n = MaxAttempts
      BY <1>3, <1>6
    <3>2. IsRetryable(kind) /\ n < MaxAttempts => NextDelays(n, f) = {}
      BY <1>7
    <3> QED BY <1>4, <1>5, <3>1, <3>2
  <2> QED BY <1>1, <1>4, <1>6, <1>7, <2>1, <2>2 DEF RetryInv
<1>8. CASE delays # {} /\ delay' \in delays /\ phase' = "sleeping"
  <2>1. IsRetryable(kind) /\ n < MaxAttempts /\ delay' \in NextDelays(n, f)
    BY <1>8
  <2>2. MayRepeat(f, delay') /\ delay' \in Nat
    <3>1. delay' \in 1 .. MaxDelay /\ delay' >= f.after /\ MaxDelay \in Nat
      BY <1>5, <2>1, RetryAssumption
    <3>2. f # Nothing /\ (f.named => f.cause \in Transient)
      BY <1>3, <1>4, <2>1
    <3> QED BY <3>1, <3>2 DEF MayRepeat
  <2> QED BY <1>1, <1>6, <1>8, <2>1, <2>2 DEF RetryInv
<1> QED BY <1>2, <1>7, <1>8

(* No other action makes an attempt, and none begins to wait for one.      *)
LEMMA OthersKeepRetry ==
  ASSUME RetryInv, attempts' = attempts, delay' = delay, call' = call, cancelled' \in {cancelled, TRUE},
         \/ phase = "sleeping" /\ phase' = "calling"
         \/ cancelled /\ phase' = "done"
         \/ phase \in {"open", "left", "ending"} /\ phase' \in {"open", "left", "ending", "done"}
         \/ phase' = phase /\ phase # "done"
         \/ phase' = phase /\ result' = result
  PROVE  RetryInv'
<1>1. LastFailure' = LastFailure
  BY DEF LastFailure
<1> QED BY <1>1 DEF RetryInv

LEMMA NextKeepsRetry == RetryInv /\ [CallNext]_callVars => RetryInv'
<1> SUFFICES ASSUME RetryInv, [CallNext]_callVars PROVE RetryInv'
  OBVIOUS
<1>1. CASE Succeeds
  BY <1>1, SucceedsKeepsRetry
<1>2. ASSUME NEW f \in Failures, Fails(f) PROVE RetryInv'
  BY <1>2, FailsKeepsRetry
<1>3. CASE Wake
  BY <1>3, OthersKeepRetry DEF Wake
<1>4. CASE GiveUp
  BY <1>4, OthersKeepRetry DEF GiveUp, Return
<1>5. CASE Cancel
  BY <1>5, OthersKeepRetry DEF Cancel
<1>6. CASE Reads
  BY <1>6, OthersKeepRetry DEF Reads
<1>7. CASE Delivers
  BY <1>7, OthersKeepRetry DEF Delivers
<1>8. CASE Finishes
  BY <1>8, OthersKeepRetry DEF Finishes
<1>9. CASE ConsumerCloses
  BY <1>9, OthersKeepRetry DEF ConsumerCloses
<1>10. CASE EndsSpan
  BY <1>10, OthersKeepRetry DEF EndsSpan
<1>11. CASE WalksAway
  BY <1>11, OthersKeepRetry DEF WalksAway
<1>12. CASE WatcherTakes
  BY <1>12, OthersKeepRetry DEF WatcherTakes
<1>13. CASE WatcherEnds
  BY <1>13, OthersKeepRetry DEF WatcherEnds
<1>14. CASE Panics
  BY <1>14, OthersKeepRetry DEF Panics
<1>15. CASE UNCHANGED callVars
  BY <1>15, OthersKeepRetry DEF callVars, streamVars
<1> QED
  BY <1>1, <1>2, <1>3, <1>4, <1>5, <1>6, <1>7, <1>8, <1>9, <1>10, <1>11, <1>12, <1>13, <1>14, <1>15 DEF CallNext

(***************************************************************************)
(* Retry keeps its distance: no attempt too many, too early, after an      *)
(* error that will not pass or after a cancellation; and a transient error *)
(* is returned only when no further attempt is allowed.                    *)
(***************************************************************************)
THEOREM RetriesKeepTheirDistance == CallSpec => []RetryKeepsItsDistance
<1>1. RetryInv => RetryKeepsItsDistance
  BY DEF RetryInv, RetryKeepsItsDistance, MayRepeat, LastFailure
<1> QED BY <1>1, RetryInit, NextKeepsRetry, PTL DEF CallSpec

-----------------------------------------------------------------------------
(* Sequences, and the greatest and least of positions.                     *)

LEMMA Sequences ==
  ASSUME NEW S, NEW s \in Seq(S)
  PROVE  IsSequence(s) /\ ToSet(s) \subseteq S
<1>1. DOMAIN s = 1 .. Len(s) /\ Len(s) \in Nat /\ s \in [1 .. Len(s) -> S]
  OBVIOUS
<1>2. s \in [1 .. Len(s) -> ToSet(s)]
  BY <1>1 DEF ToSet
<1>3. s \in Seq(ToSet(s))
  BY <1>1, <1>2
<1> QED BY <1>1, <1>3 DEF IsSequence, ToSet

LEMMA Joined2 ==
  ASSUME NEW s, NEW t, IsSequence(s), IsSequence(t)
  PROVE  /\ IsSequence(s \o t)
         /\ s \o << >> = s /\ << >> \o s = s
<1> DEFINE S == ToSet(s) \cup ToSet(t)
<1>1. s \in Seq(S) /\ t \in Seq(S)
  BY DEF IsSequence
<1> HIDE DEF S
<1>2. s \o t \in Seq(S)
  BY <1>1
<1> QED BY <1>1, <1>2, Sequences, ConcatEmptySeq

LEMMA EmptyBefore == \A s : IsSequence(s) => << >> \o s = s
BY Joined2

LEMMA PairOf == \A p, q : <<p>> \o <<q>> = <<p, q>>
<1> TAKE p, q
<1> DEFINE S == {p, q}
           one == <<p>>
           two == <<q>>
           both == <<p, q>>
<1>1. /\ one \in Seq(S) /\ two \in Seq(S) /\ both \in Seq(S)
      /\ Len(one) = 1 /\ Len(two) = 1 /\ Len(both) = 2
      /\ one[1] = p /\ two[1] = q /\ both[1] = p /\ both[2] = q
  OBVIOUS
<1> HIDE DEF one, two, both, S
<1>2. /\ one \o two \in Seq(S) /\ Len(one \o two) = Len(one) + Len(two)
      /\ \A i \in 1 .. Len(one) + Len(two) :
            (one \o two)[i] = IF i <= Len(one) THEN one[i] ELSE two[i - Len(one)]
  BY <1>1, ConcatProperties
<1>3. Len(one \o two) = 2 /\ (one \o two)[1] = p /\ (one \o two)[2] = q
  BY <1>1, <1>2
<1>4. \A i \in 1 .. 2 : (one \o two)[i] = both[i]
  BY <1>1, <1>3
<1>5. one \o two = both
  BY <1>1, <1>2, <1>3, <1>4, SeqEqual
<1> QED BY <1>5 DEF one, two, both

LEMMA Subsequence ==
  ASSUME NEW S, NEW s \in Seq(S), NEW m \in Nat \ {0}, NEW n \in Int, n <= Len(s)
  PROVE  SubSeq(s, m, n) \in Seq(S)
BY SubSeqProperties

LEMMA LeastOf ==
  ASSUME NEW S, S \subseteq Nat, S # {}
  PROVE  Min(S) \in S
<1>1. PICK x \in S : \A y \in S : ~ (<<y, x>> \in OpToRel(<, Nat))
  BY NatLessThanWellFounded, WFMin
<1>2. \A y \in S : x <= y
  <2> TAKE y \in S
  <2>1. x \in Nat /\ y \in Nat /\ ~ (y < x)
    BY <1>1 DEF OpToRel
  <2> QED BY <2>1
<1> QED BY <1>2 DEF Min

LEMMA GreatestOf ==
  ASSUME NEW N \in Nat, NEW S, S \subseteq 0 .. N, S # {}
  PROVE  Max(S) \in S
<1> DEFINE U == {u \in Nat : \A y \in S : y <= u}
           least == Min(U)
<1>1. N \in U /\ U \subseteq Nat
  OBVIOUS
<1>2. least \in U
  <2> HIDE DEF U
  <2> QED BY <1>1, LeastOf
<1>3. \A u \in U : least <= u
  <2>1. PICK x \in U : \A y \in U : ~ (<<y, x>> \in OpToRel(<, Nat))
    <3> HIDE DEF U
    <3> QED BY <1>1, NatLessThanWellFounded, WFMin
  <2>2. \A y \in U : x <= y
    <3> TAKE y \in U
    <3>1. x \in Nat /\ y \in Nat /\ ~ (y < x)
      BY <2>1 DEF OpToRel
    <3> QED BY <3>1
  <2> HIDE DEF U
  <2> QED BY <2>2 DEF Min
<1> HIDE DEF least
<1>4. least \in S
  <2> SUFFICES ASSUME least \notin S PROVE FALSE
    OBVIOUS
  <2>1. least \in Nat /\ \A y \in S : y \in Nat /\ y <= least /\ y # least
    BY <1>2
  <2>2. least - 1 \in Nat /\ \A y \in S : y <= least - 1
    <3>1. PICK x \in S : TRUE
      OBVIOUS
    <3>2. x \in Nat /\ x <= least /\ x # least
      BY <2>1
    <3> QED BY <2>1, <3>2
  <2>3. least - 1 \in U
    BY <2>2
  <2> QED BY <1>3, <2>1, <2>3
<1>5. \A y \in S : least >= y
  BY <1>2
<1> QED BY <1>4, <1>5 DEF Max

-----------------------------------------------------------------------------
(***************************************************************************)
(* The filter's texts are made of the characters it is given.              *)
(***************************************************************************)
FilterState(C) == [buf : Seq(C), inThink : BOOLEAN, out : Seq(C), done : BOOLEAN, panics : BOOLEAN]

LEMMA TagsInside ==
  ASSUME NEW C, NEW s \in Seq(C)
  PROVE  /\ Starts(s) # {} => Inside(s) \in Seq(C) /\ Before(s) \in Seq(C)
         /\ Closes(s) # {} => After(s) \in Seq(C)
         /\ TrimLeft(s) \in Seq(C)
<1>1. Len(s) \in Nat /\ DOMAIN s = 1 .. Len(s)
  OBVIOUS
<1>2. ASSUME Starts(s) # {} PROVE Inside(s) \in Seq(C) /\ Before(s) \in Seq(C)
  <2>1. Starts(s) \subseteq 1 .. Len(s)
    BY <1>1 DEF Starts
  <2>2. Min(Starts(s)) \in Starts(s) /\ Min(Starts(s)) \in 1 .. Len(s)
    BY <1>1, <1>2, <2>1, LeastOf
  <2> DEFINE E == TagEnds(s, Min(Starts(s)))
  <2>3. E # {}
    BY <2>2 DEF Starts
  <2>4. E \subseteq 1 .. Len(s)
    BY <1>1, <2>2 DEF TagEnds, OpenName
  <2>5. Min(E) \in 1 .. Len(s)
    <3> HIDE DEF E
    <3>1. E \subseteq Nat
      BY <1>1, <2>4
    <3> QED BY <2>3, <2>4, <3>1, LeastOf
  <2> HIDE DEF E
  <2>6. SubSeq(s, Min(E) + 1, Len(s)) \in Seq(C)
    <3>1. Min(E) + 1 \in Nat \ {0}
      BY <2>5
    <3> QED BY <1>1, <3>1, Subsequence
  <2>7. SubSeq(s, 1, Min(Starts(s)) - 1) \in Seq(C)
    <3>1. Min(Starts(s)) - 1 \in Int /\ Min(Starts(s)) - 1 <= Len(s)
      BY <1>1, <2>2
    <3> QED BY <3>1, Subsequence
  <2> QED BY <2>6, <2>7 DEF Inside, Before, E
<1>3. ASSUME Closes(s) # {} PROVE After(s) \in Seq(C)
  <2>1. Closes(s) \subseteq 1 .. Len(s)
    BY <1>1 DEF Closes
  <2>2. Min(Closes(s)) \in 1 .. Len(s)
    BY <1>1, <1>3, <2>1, LeastOf
  <2>3. Min(Closes(s)) + Len(CloseTag) \in Nat \ {0}
    BY <2>2 DEF CloseTag
  <2> QED BY <1>1, <2>3, Subsequence DEF After
<1>4. TrimLeft(s) \in Seq(C)
  <2>1. Solid(s) \subseteq 1 .. Len(s)
    BY <1>1 DEF Solid
  <2>2. Solid(s) # {} => Min(Solid(s)) \in Nat \ {0}
    BY <1>1, <2>1, LeastOf
  <2> QED BY <1>1, <2>2, Subsequence DEF TrimLeft
<1> QED BY <1>2, <1>3, <1>4

(* Whatever lower case makes of a text, a tag found in it is somewhere.    *)
LEMMA ClosesPositive ==
  ASSUME NEW s, Closes(s) # {}
  PROVE  Min(Closes(s)) + Len(CloseTag) - 1 + 1 \in Nat \ {0}
<1>1. Closes(s) \subseteq Nat
  BY DEF Closes
<1>2. Min(Closes(s)) \in Nat
  BY <1>1, LeastOf
<1>3. Len(CloseTag) = 5
  BY DEF CloseTag
<1> QED BY <1>2, <1>3

LEMMA SafeIs ==
  ASSUME NEW C, NEW s \in Seq(C)
  PROVE  Safe(s) \in 0 .. Len(s)
<1> DEFINE angles == {i \in DOMAIN s : s[i] = "<"}
<1>1. Len(s) \in Nat /\ angles \subseteq 0 .. Len(s) /\ 0 \notin angles
  OBVIOUS
<1>2. angles # {} => Max(angles) - 1 \in 0 .. Len(s)
  <2>1. angles # {} => Max(angles) \in angles
    <3> HIDE DEF angles
    <3> QED BY <1>1, GreatestOf
  <2>2. \A x \in angles : x - 1 \in 0 .. Len(s)
    BY <1>1
  <2> HIDE DEF angles
  <2> QED BY <2>1, <2>2
<1>3. Safe(s) = Len(s) \/ (angles # {} /\ Safe(s) = Max(angles) - 1)
  BY DEF Safe
<1> QED BY <1>1, <1>2, <1>3

LEMMA TurnTyped ==
  ASSUME NEW C, NEW f \in FilterState(C)
  PROVE  Turn(f) \in FilterState(C)
<1> USE DEF FilterState
<1>1. f.buf \in Seq(C) /\ f.out \in Seq(C) /\ f.inThink \in BOOLEAN /\ f.done \in BOOLEAN /\ Len(f.buf) \in Nat
  OBVIOUS
<1>2. CASE f.done
  BY <1>2 DEF Turn
<1>3. CASE ~f.done /\ f.inThink /\ ~FoundClose(f.buf)
  <2> DEFINE from == Max({1, Len(f.buf) - MaxTail + 1})
  <2>1. from \in Nat \ {0}
    <3>1. Len(f.buf) - MaxTail + 1 \in Int
      BY <1>1, TailAssumption
    <3>2. \A x \in Int : Max({1, x}) \in Nat \ {0}
      <4> TAKE x \in Int
      <4>1. \E m \in {1, x} : \A y \in {1, x} : m >= y
        BY 1 >= x \/ x >= 1
      <4>2. Max({1, x}) \in {1, x} /\ Max({1, x}) >= 1
        BY <4>1 DEF Max
      <4> QED BY <4>2
    <3> QED BY <3>1, <3>2
  <2> HIDE DEF from
  <2>2. SubSeq(f.buf, from, Len(f.buf)) \in Seq(C)
    BY <1>1, <2>1, Subsequence
  <2>3. Turn(f) = [f EXCEPT !.buf = SubSeq(f.buf, from, Len(f.buf)), !.done = TRUE]
    BY <1>3 DEF Turn, from
  <2> QED BY <2>2, <2>3
<1>4. CASE ~f.done /\ f.inThink /\ FoundClose(f.buf)
  <2> DEFINE end == CloseEnd(f.buf)
  <2>1. CASE end > Len(f.buf)
    <3>1. Turn(f) = [f EXCEPT !.panics = TRUE, !.done = TRUE]
      BY <1>4, <2>1 DEF Turn
    <3> QED BY <3>1
  <2>2. CASE ~ (end > Len(f.buf))
    <3>1. end + 1 \in Nat \ {0}
      <4>1. Closes(Lower(f.buf)) # {}
        BY <1>4 DEF FoundClose
      <4> QED BY <4>1, ClosesPositive DEF CloseEnd
    <3> HIDE DEF end
    <3>2. SubSeq(f.buf, end + 1, Len(f.buf)) \in Seq(C)
      BY <1>1, <3>1, Subsequence
    <3>3. TrimLeft(SubSeq(f.buf, end + 1, Len(f.buf))) \in Seq(C)
      BY <3>2, TagsInside
    <3>4. Turn(f) = [f EXCEPT !.buf = TrimLeft(SubSeq(f.buf, end + 1, Len(f.buf))), !.inThink = FALSE]
      BY <1>4, <2>2 DEF Turn, end
    <3> QED BY <3>3, <3>4
  <2> QED BY <2>1, <2>2
<1>5. CASE ~f.done /\ ~f.inThink /\ Starts(f.buf) = {}
  <2> DEFINE n == Safe(f.buf)
  <2>1. n \in 0 .. Len(f.buf)
    BY <1>1, SafeIs
  <2> HIDE DEF n
  <2>2. SubSeq(f.buf, n + 1, Len(f.buf)) \in Seq(C) /\ SubSeq(f.buf, 1, n) \in Seq(C)
    <3>1. n + 1 \in Nat \ {0} /\ n \in Int /\ n <= Len(f.buf)
      BY <1>1, <2>1
    <3> QED BY <1>1, <3>1, Subsequence
  <2>3. f.out \o SubSeq(f.buf, 1, n) \in Seq(C)
    BY <1>1, <2>2
  <2>4. Turn(f) = [f EXCEPT !.buf = SubSeq(f.buf, n + 1, Len(f.buf)), !.done = TRUE,
                            !.out = f.out \o SubSeq(f.buf, 1, n)]
    BY <1>5 DEF Turn, n
  <2> QED BY <2>2, <2>3, <2>4
<1>6. CASE ~f.done /\ ~f.inThink /\ Starts(f.buf) # {}
  <2>1. Inside(f.buf) \in Seq(C) /\ Before(f.buf) \in Seq(C)
    BY <1>1, <1>6, TagsInside
  <2>2. f.out \o Before(f.buf) \in Seq(C)
    BY <1>1, <2>1
  <2>3. Turn(f) = [f EXCEPT !.buf = Inside(f.buf), !.inThink = TRUE, !.out = f.out \o Before(f.buf)]
    BY <1>6 DEF Turn
  <2> QED BY <2>1, <2>2, <2>3
<1> QED BY <1>2, <1>3, <1>4, <1>5, <1>6

LEMMA FeedTyped ==
  ASSUME NEW h, IsSequence(h.buf), h.inThink \in BOOLEAN, NEW chunk, IsSequence(chunk)
  PROVE  /\ IsSequence(Feed(h, chunk).buf) /\ IsSequence(Feed(h, chunk).out)
         /\ Feed(h, chunk).inThink \in BOOLEAN
<1> DEFINE work == h.buf \o chunk
           N == Len(work) + 1
           C == ToSet(work)
           T == FilterState(C)
           base == [buf |-> work, inThink |-> h.inThink, out |-> << >>, done |-> FALSE, panics |-> FALSE]
           step == [f \in T |-> Turn(f)]
           Is(f) == f = [n \in 0 .. N |-> IF n = 0 THEN base ELSE Turn(f[n - 1])]
           c == CHOOSE f : Is(f)
<1>1. work \in Seq(C) /\ N \in Nat
  <2>1. IsSequence(work)
    BY Joined2
  <2> HIDE DEF work
  <2> QED BY <2>1 DEF IsSequence
<1>2. base \in T
  <2> HIDE DEF work, C
  <2> QED BY <1>1 DEF FilterState
<1>3. \A f \in T : Turn(f) \in T
  <2> HIDE DEF C
  <2> QED BY TurnTyped
<1> HIDE DEF work, C, base, T, N
<1>4. PICK f \in [0 .. N -> T] : Loops(f, N, base, step)
  <2>1. step \in [T -> T]
    BY <1>3
  <2> HIDE DEF step, Is, c
  <2> QED BY <1>1, <1>2, <2>1, LoopExists
<1>5. Is(f)
  <2>1. \A n \in 0 .. N : n # 0 => step[f[n - 1]] = Turn(f[n - 1])
    <3> TAKE n \in 0 .. N
    <3> HAVE n # 0
    <3>1. n - 1 \in 0 .. N
      BY <1>1
    <3>2. f[n - 1] \in T
      BY <1>4, <3>1
    <3> QED BY <3>2
  <2> HIDE DEF step
  <2> QED BY <1>4, <2>1 DEF Loops
<1>6. Is(c)
  <2> HIDE DEF Is
  <2> QED BY <1>5
<1>7. \A n \in 0 .. N : c[n] = IF n = 0 THEN base ELSE Turn(c[n - 1])
  <2> HIDE DEF c
  <2> QED BY <1>6
<1>8. Feed(h, chunk) = c[N]
  BY DEF Feed, work, N, base
<1> HIDE DEF c
<1>9. c[N] \in T
  <2> DEFINE Typed == {n \in 0 .. N : c[n] \in T}
  <2>1. 0 \in Typed
    BY <1>1, <1>2, <1>7
  <2>2. \A n \in 0 .. N : n < N /\ n \in Typed => n + 1 \in Typed
    <3> TAKE n \in 0 .. N
    <3> HAVE n < N /\ n \in Typed
    <3>1. n + 1 \in 0 .. N /\ n + 1 # 0 /\ (n + 1) - 1 = n /\ c[n] \in T
      BY <1>1
    <3>2. c[n + 1] = Turn(c[n])
      BY <1>7, <3>1
    <3> QED BY <1>3, <3>1, <3>2
  <2>3. 0 \in Typed /\ \A n \in 0 .. N : n < N /\ n \in Typed => n + 1 \in Typed
    BY <2>1, <2>2
  <2>4. N \in 0 .. N
    BY <1>1
  <2> HIDE DEF Typed
  <2>5. N \in Typed
    <3>1. \A n \in 0 .. N : n \in Typed
      BY <1>1, <2>3, UpTo
    <3> QED BY <2>4, <3>1
  <2> QED BY <2>5 DEF Typed
<1>10. c[N].buf \in Seq(C) /\ c[N].out \in Seq(C) /\ c[N].inThink \in BOOLEAN
  BY <1>9 DEF T, FilterState
<1> QED BY <1>8, <1>10, Sequences

-----------------------------------------------------------------------------
(* CollectStream and the span take the events of one Recv in order.        *)

LEMMA CollectsInOrder ==
  /\ \A k : CollectAll(k, << >>) = k
  /\ \A k, e : CollectAll(k, <<e>>) = Collect(k, e)
  /\ \A k, d, e : CollectAll(k, <<d, e>>) = Collect(Collect(k, d), e)
<1> DEFINE Is(f, k, es) == f = [n \in 0 .. Len(es) |-> IF n = 0 THEN k ELSE Collect(f[n - 1], es[n])]
           all(k, es) == CHOOSE f : Is(f, k, es)
<1>1. ASSUME NEW k PROVE CollectAll(k, << >>) = k
  <2>1. Is([n \in 0 .. 0 |-> k], k, << >>)
    OBVIOUS
  <2>2. Is(all(k, << >>), k, << >>)
    <3> HIDE DEF Is
    <3> QED BY <2>1
  <2>5. CollectAll(k, << >>) = all(k, << >>)[0]
    <3>1. Len(<< >>) = 0
      OBVIOUS
    <3> QED BY <3>1 DEF CollectAll
  <2> HIDE DEF all
  <2> QED BY <2>2, <2>5
<1>2. ASSUME NEW k, NEW e PROVE CollectAll(k, <<e>>) = Collect(k, e)
  <2>1. Is([n \in 0 .. 1 |-> IF n = 0 THEN k ELSE Collect(k, e)], k, <<e>>)
    OBVIOUS
  <2>2. Is(all(k, <<e>>), k, <<e>>)
    <3> HIDE DEF Is
    <3> QED BY <2>1
  <2>5. CollectAll(k, <<e>>) = all(k, <<e>>)[1]
    <3>1. Len(<<e>>) = 1
      OBVIOUS
    <3> QED BY <3>1 DEF CollectAll
  <2> HIDE DEF all
  <2>3. all(k, <<e>>)[0] = k
    BY <2>2
  <2> QED BY <2>2, <2>3, <2>5
<1>3. ASSUME NEW k, NEW d, NEW e PROVE CollectAll(k, <<d, e>>) = Collect(Collect(k, d), e)
  <2>1. Is([n \in 0 .. 2 |-> IF n = 0 THEN k ELSE IF n = 1 THEN Collect(k, d)
                             ELSE Collect(Collect(k, d), e)], k, <<d, e>>)
    OBVIOUS
  <2>2. Is(all(k, <<d, e>>), k, <<d, e>>)
    <3> HIDE DEF Is
    <3> QED BY <2>1
  <2>5. CollectAll(k, <<d, e>>) = all(k, <<d, e>>)[2]
    <3>1. Len(<<d, e>>) = 2
      OBVIOUS
    <3> QED BY <3>1 DEF CollectAll
  <2> HIDE DEF all
  <2>3. all(k, <<d, e>>)[0] = k
    BY <2>2
  <2>4. all(k, <<d, e>>)[1] = Collect(k, d)
    BY <2>2, <2>3
  <2> QED BY <2>2, <2>4, <2>5
<1> QED BY <1>1, <1>2, <1>3

LEMMA TracesInOrder ==
  /\ \A s : TraceAll(s, << >>) = s
  /\ \A s, e : TraceAll(s, <<e>>) = Trace(s, e)
  /\ \A s, d, e : TraceAll(s, <<d, e>>) = Trace(Trace(s, d), e)
<1> DEFINE Is(f, s, es) == f = [n \in 0 .. Len(es) |-> IF n = 0 THEN s ELSE Trace(f[n - 1], es[n])]
           all(s, es) == CHOOSE f : Is(f, s, es)
<1>1. ASSUME NEW s PROVE TraceAll(s, << >>) = s
  <2>1. Is([n \in 0 .. 0 |-> s], s, << >>)
    OBVIOUS
  <2>2. Is(all(s, << >>), s, << >>)
    <3> HIDE DEF Is
    <3> QED BY <2>1
  <2>5. TraceAll(s, << >>) = all(s, << >>)[0]
    <3>1. Len(<< >>) = 0
      OBVIOUS
    <3> QED BY <3>1 DEF TraceAll
  <2> HIDE DEF all
  <2> QED BY <2>2, <2>5
<1>2. ASSUME NEW s, NEW e PROVE TraceAll(s, <<e>>) = Trace(s, e)
  <2>1. Is([n \in 0 .. 1 |-> IF n = 0 THEN s ELSE Trace(s, e)], s, <<e>>)
    OBVIOUS
  <2>2. Is(all(s, <<e>>), s, <<e>>)
    <3> HIDE DEF Is
    <3> QED BY <2>1
  <2>5. TraceAll(s, <<e>>) = all(s, <<e>>)[1]
    <3>1. Len(<<e>>) = 1
      OBVIOUS
    <3> QED BY <3>1 DEF TraceAll
  <2> HIDE DEF all
  <2>3. all(s, <<e>>)[0] = s
    BY <2>2
  <2> QED BY <2>2, <2>3, <2>5
<1>3. ASSUME NEW s, NEW d, NEW e PROVE TraceAll(s, <<d, e>>) = Trace(Trace(s, d), e)
  <2>1. Is([n \in 0 .. 2 |-> IF n = 0 THEN s ELSE IF n = 1 THEN Trace(s, d)
                             ELSE Trace(Trace(s, d), e)], s, <<d, e>>)
    OBVIOUS
  <2>2. Is(all(s, <<d, e>>), s, <<d, e>>)
    <3> HIDE DEF Is
    <3> QED BY <2>1
  <2>5. TraceAll(s, <<d, e>>) = all(s, <<d, e>>)[2]
    <3>1. Len(<<d, e>>) = 2
      OBVIOUS
    <3> QED BY <3>1 DEF TraceAll
  <2> HIDE DEF all
  <2>3. all(s, <<d, e>>)[0] = s
    BY <2>2
  <2>4. all(s, <<d, e>>)[1] = Trace(s, d)
    BY <2>2, <2>3
  <2> QED BY <2>2, <2>4, <2>5
<1> QED BY <1>1, <1>2, <1>3

-----------------------------------------------------------------------------
(* The text of an answer that has reasoning and text, or lacks either.     *)

LEMMA FlatShort ==
  /\ FlattenSeq(<< >>) = << >>
  /\ \A x : FlattenSeq(<<x>>) = x
  /\ \A x, y : FlattenSeq(<<x, y>>) = x \o y
<1> DEFINE Is(f, ss) == f = [i \in 1 .. Len(ss) |-> IF i = 1 THEN ss[i] ELSE f[i - 1] \o ss[i]]
           flat(ss) == CHOOSE f : Is(f, ss)
<1>1. FlattenSeq(<< >>) = << >>
  BY DEF FlattenSeq
<1>2. ASSUME NEW x PROVE FlattenSeq(<<x>>) = x
  <2>1. Is([i \in 1 .. 1 |-> x], <<x>>)
    OBVIOUS
  <2>2. Is(flat(<<x>>), <<x>>)
    <3> HIDE DEF Is
    <3> QED BY <2>1
  <2>3. Len(<<x>>) = 1
    OBVIOUS
  <2>4. FlattenSeq(<<x>>) = flat(<<x>>)[1]
    BY <2>3 DEF FlattenSeq
  <2> HIDE DEF flat
  <2> QED BY <2>2, <2>4
<1>3. ASSUME NEW x, NEW y PROVE FlattenSeq(<<x, y>>) = x \o y
  <2>1. Is([i \in 1 .. 2 |-> IF i = 1 THEN x ELSE x \o y], <<x, y>>)
    OBVIOUS
  <2>2. Is(flat(<<x, y>>), <<x, y>>)
    <3> HIDE DEF Is
    <3> QED BY <2>1
  <2>3. Len(<<x, y>>) = 2
    OBVIOUS
  <2>4. FlattenSeq(<<x, y>>) = flat(<<x, y>>)[2]
    BY <2>3 DEF FlattenSeq
  <2> HIDE DEF flat
  <2>5. \A i \in 1 .. 2 : flat(<<x, y>>)[i] = IF i = 1 THEN x ELSE flat(<<x, y>>)[i - 1] \o y
    <3>1. flat(<<x, y>>) = [i \in 1 .. 2 |-> IF i = 1 THEN <<x, y>>[i] ELSE flat(<<x, y>>)[i - 1] \o <<x, y>>[i]]
      BY <2>2, <2>3
    <3>2. \A i \in 1 .. 2 : <<x, y>>[i] = IF i = 1 THEN x ELSE y
      OBVIOUS
    <3>3. \A i \in 1 .. 2 : flat(<<x, y>>)[i] = IF i = 1 THEN <<x, y>>[i] ELSE flat(<<x, y>>)[i - 1] \o <<x, y>>[i]
      BY <3>1, Zenon
    <3> QED BY <3>2, <3>3, Zenon
  <2>6. flat(<<x, y>>)[2] = flat(<<x, y>>)[1] \o y /\ flat(<<x, y>>)[1] = x
    <3> DEFINE one == flat(<<x, y>>)[1]
               two == flat(<<x, y>>)[2]
    <3>1. one = x
      BY <2>5
    <3>2. two = one \o y
      <4>1. 2 \in 1 .. 2 /\ 2 # 1 /\ 2 - 1 = 1
        OBVIOUS
      <4> QED BY ONLY <2>5, <4>1, Zenon
    <3> QED BY <3>1, <3>2
  <2> QED BY <2>4, <2>6
<1> QED BY <1>1, <1>2, <1>3

LEMMA TextOfAnswer ==
  ASSUME NEW thinking, Thought(thinking), NEW text, IsSequence(text)
  PROVE  Texts(thinking \o (IF text = << >> THEN << >> ELSE <<Part("text", text, "")>>)) = text
<1> DEFINE p == thinking[1]
           q == Part("text", text, "")
           TextOf(parts) == [i \in DOMAIN parts |-> IF parts[i].type = "text" THEN parts[i].text ELSE << >>]
<1>1. q.type = "text" /\ q.text = text
  BY DEF Part
<1>2. thinking = << >> \/ (thinking = <<p>> /\ p.type = "thinking")
  <2>1. ASSUME NEW x, NEW y PROVE Part("thinking", x, y).type = "thinking"
    BY DEF Part
  <2>2. ASSUME thinking = <<Part("thinking", p.text, p.sig)>>
        PROVE  thinking = <<p>> /\ p = Part("thinking", p.text, p.sig)
    BY <2>2
  <2> QED BY <2>1, <2>2 DEF Thought
<1> HIDE DEF p, q
<1>3. CASE thinking = << >> /\ text = << >>
  <2>1. thinking \o << >> = << >>
    BY <1>3
  <2>2. TextOf(<< >>) = << >>
    OBVIOUS
  <2> QED BY <1>3, <2>1, <2>2, FlatShort DEF Texts
<1>4. CASE thinking = << >> /\ text # << >>
  <2>1. thinking \o <<q>> = <<q>>
    BY <1>4
  <2>2. TextOf(<<q>>) = <<text>>
    BY <1>1
  <2> QED BY <1>4, <2>1, <2>2, FlatShort DEF Texts, q
<1>5. CASE thinking = <<p>> /\ p.type = "thinking" /\ text = << >>
  <2>1. thinking \o << >> = <<p>>
    BY <1>5
  <2>2. TextOf(<<p>>) = << << >> >>
    BY <1>5
  <2> QED BY <1>5, <2>1, <2>2, FlatShort DEF Texts
<1>6. CASE thinking = <<p>> /\ p.type = "thinking" /\ text # << >>
  <2>1. thinking \o <<q>> = <<p, q>>
    <3>1. <<p>> \o <<q>> = <<p, q>>
      BY PairOf
    <3> QED BY <1>6, <3>1
  <2>2. TextOf(<<p, q>>) = << << >>, text>>
    BY <1>1, <1>6
  <2>3. << >> \o text = text
    BY EmptyBefore
  <2>4. Texts(<<p, q>>) = FlattenSeq(<< << >>, text>>)
    BY <2>2 DEF Texts
  <2>5. FlattenSeq(<< << >>, text>>) = << >> \o text
    BY FlatShort
  <2> QED BY <1>6, <2>1, <2>3, <2>4, <2>5 DEF q
<1> QED BY <1>2, <1>3, <1>4, <1>5, <1>6

(* A filter leaves reasoning alone.                                        *)
LEMMA ThoughtsPass ==
  ASSUME NEW parts, Thought(parts)
  PROVE  StripParts(parts) = parts /\ ExtractParts(parts) = parts
<1> DEFINE p == parts[1]
           thoughts(ps) == [i \in DOMAIN ps |-> IF ps[i].type = "text" THEN Thoughts(ps[i].text) ELSE << >>]
           said(ts) == [i \in DOMAIN ts |->
                          IF IsBlank(ts[i]) THEN << >> ELSE <<Part("thinking", TrimSpace(ts[i]), "")>>]
<1>1. parts = << >> \/ (parts = <<p>> /\ p.type = "thinking")
  <2>1. ASSUME NEW x, NEW y PROVE Part("thinking", x, y).type = "thinking"
    BY DEF Part
  <2>2. ASSUME parts = <<Part("thinking", p.text, p.sig)>>
        PROVE  parts = <<p>> /\ p = Part("thinking", p.text, p.sig)
    BY <2>2
  <2> QED BY <2>1, <2>2 DEF Thought
<1> HIDE DEF p
<1>2. StripParts(parts) = parts /\ FlattenSeq(thoughts(parts)) = << >> /\ IsSequence(parts)
  <2>1. CASE parts = << >>
    <3>1. parts \in Seq({}) /\ thoughts(parts) = << >> /\ StripParts(parts) = parts
      BY <2>1 DEF StripParts
    <3> QED BY <3>1, FlatShort, Sequences
  <2>2. CASE parts = <<p>> /\ p.type = "thinking"
    <3>1. parts \in Seq({p}) /\ thoughts(parts) = << << >> >> /\ DOMAIN parts = 1 .. 1 /\ parts[1] = p
      BY <2>2
    <3>2. StripParts(parts) = [i \in 1 .. 1 |-> p]
      BY <2>2, <3>1 DEF StripParts
    <3>3. [i \in 1 .. 1 |-> p] = <<p>>
      OBVIOUS
    <3> QED BY <2>2, <3>1, <3>2, <3>3, FlatShort, Sequences
  <2> QED BY <1>1, <2>1, <2>2
<1>3. said(<< >>) = << >>
  OBVIOUS
<1>4. ExtractParts(parts) = StripParts(parts) \o FlattenSeq(said(FlattenSeq(thoughts(parts))))
  BY DEF ExtractParts
<1> HIDE DEF said, thoughts
<1> QED BY <1>2, <1>3, <1>4, FlatShort, Joined2

-----------------------------------------------------------------------------
(***************************************************************************)
(* Readers. Plain: nothing ended yet in what was read of this frame; an    *)
(* event that is plain is no stop and knows no usage.                      *)
(***************************************************************************)
PlainEvent(e) == AnEvent(e) /\ e.type # "stop" /\ (e.type = "start" => e.usage = NoUsage)

Plain(r) ==
  /\ AReader(r) /\ r.fail = ""
  /\ IsSequence(r.pending) /\ \A i \in DOMAIN r.pending : PlainEvent(r.pending[i])

Like(r, s) == Plain(s) /\ s.stopped = r.stopped /\ s.held = r.held /\ s.usage = r.usage

LEMMA Events ==
  /\ \A u \in Usages : AnEvent([Event("start") EXCEPT !.usage = u])
  /\ PlainEvent(Event("start"))
  /\ \A text : IsSequence(text) => PlainEvent(TextEvent(text))
  /\ \A id, name, text, sig : IsSequence(text) => PlainEvent(ToolEvent(id, name, text, sig))
  /\ NoUsage \in Usages /\ IsSequence(<< >>)
<1>1. NoUsage \in Usages
  BY DEF NoUsage, Usages
<1>2. IsSequence(<< >>)
  BY << >> \in Seq({}), Sequences
<1>3. Thought(<< >>)
  BY DEF Thought
<1> QED BY <1>1, <1>2, <1>3 DEF AnEvent, PlainEvent, Event, TextEvent, ToolEvent

LEMMA StopIs ==
  ASSUME NEW r, AReader(r), NEW reason
  PROVE  LET e == [StopEvent(r) EXCEPT !.reason = reason]
         IN /\ AnEvent(e) /\ e.type = "stop" /\ e.usage = r.usage /\ e.reason = reason
            /\ AnEvent(StopEvent(r)) /\ StopEvent(r).type = "stop"
<1>1. Thought(StopMessage(r))
  <2> DEFINE p == Part("thinking", r.reasoning, r.signature)
  <2>1. p = Part("thinking", p.text, p.sig)
    BY DEF Part
  <2>2. Len(<<p>>) = 1 /\ <<p>>[1] = p
    OBVIOUS
  <2> HIDE DEF p
  <2>3. Thought(<< >>) /\ Thought(<<p>>)
    BY <2>1, <2>2 DEF Thought
  <2> QED BY <2>3 DEF StopMessage, p
<1>2. r.usage \in Usages
  BY DEF AReader
<1> QED BY <1>1, <1>2, Events DEF StopEvent, Event, AnEvent

LEMMA QueuesPlain ==
  ASSUME NEW r, Plain(r), NEW e, PlainEvent(e)
  PROVE  Like(r, Queue(r, <<e>>))
<1> DEFINE S == ToSet(r.pending) \cup {e}
           both == r.pending \o <<e>>
<1>1. r.pending \in Seq(S) /\ <<e>> \in Seq(S)
  <2>1. r.pending \in Seq(ToSet(r.pending))
    BY DEF Plain, IsSequence
  <2>2. \A T : Seq(T) \subseteq Seq(T \cup {e})
    OBVIOUS
  <2> QED BY <2>1, <2>2
<1>2. \A x \in S : PlainEvent(x)
  BY DEF Plain, ToSet
<1>3. both \in Seq(S)
  BY <1>1
<1> HIDE DEF S
<1>4. IsSequence(both) /\ \A i \in DOMAIN both : PlainEvent(both[i])
  <2>1. \A i \in DOMAIN both : both[i] \in S
    BY <1>3
  <2> HIDE DEF both
  <2> QED BY <1>2, <1>3, <2>1, Sequences
<1> HIDE DEF both
<1>5. Queue(r, <<e>>) = [r EXCEPT !.pending = both]
  BY DEF Queue, both
<1> QED BY <1>4, <1>5 DEF Plain, AReader, Like

LEMMA Unrelated ==
  ASSUME NEW r, Plain(r), NEW x
  PROVE  /\ Like(r, [r EXCEPT !.frames = x]) /\ Like(r, [r EXCEPT !.started = x])
         /\ Like(r, [r EXCEPT !.reason = x]) /\ Like(r, [r EXCEPT !.ids = x])
         /\ Like(r, [r EXCEPT !.names = x]) /\ Like(r, [r EXCEPT !.reasoning = x])
         /\ Like(r, [r EXCEPT !.signature = x])
BY DEF Plain, AReader, Like

LEMMA LearnsUsage ==
  ASSUME NEW r, Plain(r), NEW u \in Usages
  PROVE  LET s == [r EXCEPT !.usage = u]
         IN Plain(s) /\ s.stopped = r.stopped /\ s.held = r.held /\ s.usage = u
BY DEF Plain, AReader

LEMMA StopsPlain ==
  ASSUME NEW r, Plain(r), r.pending = << >>, NEW reason
  PROVE  LET s == Stopped(r, reason)
         IN AReader(s) /\ OneStop(s) /\ s.stopped /\ s.held = r.held /\ s.usage = r.usage
            /\ s.pending[1].usage = r.usage /\ s.fail = ""
<1> DEFINE q == [r EXCEPT !.stopped = TRUE]
           e == [StopEvent(q) EXCEPT !.reason = reason]
<1>1. AReader(q) /\ q.pending = << >> /\ q.usage = r.usage /\ q.held = r.held /\ q.stopped /\ q.fail = ""
  BY DEF Plain, AReader
<1> HIDE DEF q
<1>2. AnEvent(e) /\ e.type = "stop" /\ e.usage = r.usage
  <2>1. \A t : AReader(t) => LET x == [StopEvent(t) EXCEPT !.reason = reason]
                             IN AnEvent(x) /\ x.type = "stop" /\ x.usage = t.usage
    BY StopIs
  <2> HIDE DEF e
  <2>2. AnEvent(e) /\ e.type = "stop" /\ e.usage = q.usage
    BY <1>1, <2>1, Zenon DEF e
  <2> QED BY <1>1, <2>2
<1>3. << >> \o <<e>> = <<e>> /\ Len(<<e>>) = 1 /\ <<e>>[1] = e
  <2> HIDE DEF e
  <2> QED OBVIOUS
<1>4. Stopped(r, reason) = [q EXCEPT !.pending = <<e>>]
  <2>1. Stopped(r, reason) = Queue(q, <<[StopEvent(r) EXCEPT !.reason = reason]>>)
    BY DEF Stopped, q
  <2>2. StopEvent(q) = StopEvent(r)
    BY DEF StopEvent, StopMessage, q, Plain, AReader
  <2> HIDE DEF e
  <2>3. Queue(q, <<e>>) = [q EXCEPT !.pending = <<e>>]
    BY <1>1, <1>3 DEF Queue
  <2> QED BY <2>1, <2>2, <2>3 DEF e
<1> HIDE DEF e
<1> DEFINE s == [q EXCEPT !.pending = <<e>>]
<1>5. /\ DOMAIN s = DOMAIN q /\ s.pending = <<e>> /\ s.stopped = q.stopped /\ s.held = q.held
      /\ s.usage = q.usage /\ s.fail = q.fail
  BY <1>1 DEF AReader
<1> HIDE DEF s
<1>6. AReader(s)
  BY <1>1, <1>5 DEF AReader
<1>7. OneStop(s) /\ s.pending[1].usage = r.usage
  BY <1>2, <1>3, <1>5 DEF OneStop
<1> QED BY <1>1, <1>4, <1>5, <1>6, <1>7 DEF s

LEMMA FailsPlain ==
  ASSUME NEW r, Plain(r), r.pending = << >>, NEW why, why = "eof" => r.stopped
  PROVE  LET s == Fail(r, why)
         IN AReader(s) /\ s.pending = << >> /\ s.stopped = r.stopped /\ s.held = r.held
            /\ s.usage = r.usage /\ s.fail = why
BY DEF Plain, AReader, Fail

(***************************************************************************)
(* What a frame, or the end of the body, does to a reader that has nothing *)
(* to hand out: the stop comes alone and once, other events come before    *)
(* it. Of anthropic's usage nothing is forgotten.                          *)
(***************************************************************************)
Advances(a, r, s) ==
  /\ AReader(s) /\ (r.stopped => s.stopped)
  /\ \/ OneStop(s) /\ ~r.stopped /\ s.stopped
     \/ NoStop(a, s) /\ (s.stopped => r.stopped \/ s.fail = "no stream")

Informed(r, s) ==
  r.usage # NoUsage =>
    s.usage # NoUsage /\ (OneStop(s) /\ s.stopped /\ ~r.stopped => s.pending[1].usage # NoUsage)

Alike(r, s) == Plain(s) /\ s.stopped = r.stopped

AFrame(f) == IsSequence(f.text) /\ f.usage \in Usages

LEMMA AlikeAdvances ==
  ASSUME NEW a, NEW r, NEW s, Alike(r, s)
  PROVE  Advances(a, r, s)
BY DEF Alike, Plain, PlainEvent, NoStop, Advances

LEMMA LikeInforms ==
  ASSUME NEW r, NEW s, Like(r, s)
  PROVE  Advances("anthropic", r, s) /\ Informed(r, s) /\ s.held = r.held
<1>1. Alike(r, s)
  BY DEF Like, Alike
<1> QED BY <1>1, AlikeAdvances DEF Like, Informed

LEMMA StopAdvances ==
  ASSUME NEW a, NEW r, NEW q, Alike(r, q), q.pending = << >>, ~r.stopped, NEW reason
  PROVE  /\ Advances(a, r, Stopped(q, reason)) /\ Stopped(q, reason).held = q.held
         /\ q.usage # NoUsage \/ r.usage = NoUsage => Informed(r, Stopped(q, reason))
<1> DEFINE s == Stopped(q, reason)
<1>1. AReader(s) /\ OneStop(s) /\ s.stopped /\ s.held = q.held /\ s.usage = q.usage /\ s.pending[1].usage = q.usage
  BY StopsPlain DEF Alike
<1> HIDE DEF s
<1>2. Advances(a, r, s) /\ (q.usage # NoUsage \/ r.usage = NoUsage => Informed(r, s))
  BY <1>1 DEF Advances, Informed
<1> QED BY <1>1, <1>2 DEF s

LEMMA NothingPending ==
  ASSUME NEW a, NEW s, s.pending = << >>
  PROVE  NoStop(a, s) /\ ~OneStop(s)
<1>1. IsSequence(<< >>) /\ DOMAIN << >> = {} /\ Len(<< >>) # 1
  BY Events
<1> QED BY <1>1 DEF NoStop, OneStop

LEMMA FailAdvances ==
  ASSUME NEW a, NEW r, NEW q, Alike(r, q), q.pending = << >>, NEW why, why = "eof" => r.stopped
  PROVE  /\ Advances(a, r, Fail(q, why)) /\ Fail(q, why).held = q.held /\ Fail(q, why).fail = why
         /\ q.usage # NoUsage \/ r.usage = NoUsage => Informed(r, Fail(q, why))
<1> DEFINE s == Fail(q, why)
<1>1. /\ AReader(s) /\ s.pending = << >> /\ s.stopped = q.stopped /\ s.held = q.held /\ s.usage = q.usage
      /\ s.fail = why
  BY FailsPlain DEF Alike
<1> HIDE DEF s
<1>2. NoStop(a, s) /\ ~OneStop(s)
  BY <1>1, NothingPending
<1>3. Advances(a, r, s) /\ (q.usage # NoUsage \/ r.usage = NoUsage => Informed(r, s))
  BY <1>1, <1>2 DEF Advances, Informed, Alike
<1> QED BY <1>1, <1>3 DEF s

LEMMA Merges ==
  ASSUME NEW u \in Usages, NEW v \in Usages
  PROVE  MergeUsage(u, v) \in Usages /\ (u # NoUsage => MergeUsage(u, v) # NoUsage)
<1>1. u = [in |-> u.in, out |-> u.out] /\ u.in \in Nat /\ u.out \in Nat /\ v.in \in Nat /\ v.out \in Nat
  BY DEF Usages
<1>2. u # NoUsage => u.in > 0 \/ u.out > 0
  BY <1>1 DEF NoUsage
<1>3. u.in > 0 => MergeUsage(u, v).in > 0
  BY <1>1 DEF MergeUsage
<1>4. u.out > 0 => MergeUsage(u, v).out > 0
  BY <1>1 DEF MergeUsage
<1>5. MergeUsage(u, v) \in Usages
  BY <1>1 DEF MergeUsage, Usages
<1>6. NoUsage.in = 0 /\ NoUsage.out = 0
  BY DEF NoUsage
<1> QED BY <1>2, <1>3, <1>4, <1>5, <1>6

LEMMA AnthropicAdvances ==
  ASSUME NEW r, Plain(r), r.pending = << >>, NEW f, AFrame(f), f.type = "message_start" => ~r.stopped
  PROVE  LET s == AnthropicEvent(r, f)
         IN /\ Advances("anthropic", r, s) /\ s.held = r.held
            /\ f.type # "message_start" => Informed(r, s)
            /\ f.type \in {"error", "garbage"} => s.fail = "service"
<1> DEFINE s == AnthropicEvent(r, f)
<1>1. Like(r, r)
  BY DEF Like
<1>2. f.usage \in Usages /\ IsSequence(f.text)
  BY DEF AFrame
<1>3. CASE f.type = "message_start"
  <2> DEFINE q == [r EXCEPT !.usage = f.usage]
             e == [Event("start") EXCEPT !.usage = f.usage]
  <2>1. Plain(q) /\ q.stopped = r.stopped /\ q.held = r.held /\ q.usage = f.usage /\ q.pending = << >>
    BY <1>2, LearnsUsage DEF Plain, AReader
  <2>2. AnEvent(e) /\ e.type = "start" /\ e.usage = f.usage
    BY <1>2, Events DEF Event
  <2>3. s = Queue(q, <<e>>)
    BY <1>3 DEF AnthropicEvent
  <2> HIDE DEF q, e, s
  <2>4. << >> \o <<e>> = <<e>> /\ Len(<<e>>) = 1 /\ <<e>>[1] = e /\ DOMAIN <<e>> = {1} /\ <<e>> \in Seq({e})
    OBVIOUS
  <2>5. s = [q EXCEPT !.pending = <<e>>]
    BY <2>1, <2>3, <2>4 DEF Queue
  <2>6. /\ DOMAIN s = DOMAIN q /\ s.pending = <<e>> /\ s.stopped = q.stopped /\ s.held = q.held
        /\ s.usage = q.usage /\ s.fail = q.fail
    BY <2>1, <2>5 DEF Plain, AReader
  <2>7. AReader(s) /\ s.fail = ""
    BY <2>1, <2>6 DEF Plain, AReader
  <2>8. IsSequence(<<e>>)
    BY <2>4, Sequences
  <2>9. NoStop("anthropic", s)
    <3>1. \A i \in DOMAIN s.pending : s.pending[i] = e
      BY <2>4, <2>6
    <3> QED BY <1>3, <2>1, <2>2, <2>6, <2>8, <3>1 DEF NoStop
  <2> QED BY <1>3, <2>1, <2>6, <2>7, <2>9 DEF Advances, s
<1>4. CASE f.type = "block_start" /\ f.name # ""
  <2> DEFINE q == [r EXCEPT !.ids = (f.idx :> f.id) @@ @]
             e == ToolEvent(f.id, f.name, << >>, "")
  <2>1. Like(r, q) /\ PlainEvent(e)
    BY Unrelated, Events
  <2>2. s = Queue(q, <<e>>)
    BY <1>4 DEF AnthropicEvent
  <2> HIDE DEF q, e, s
  <2>3. Like(q, s)
    BY <2>1, <2>2, QueuesPlain DEF Like
  <2>4. Like(r, s)
    BY <2>1, <2>3 DEF Like
  <2> QED BY <1>4, <2>4, LikeInforms DEF s
<1>5. CASE f.type = "text"
  <2>1. s = Queue(r, <<TextEvent(f.text)>>)
    BY <1>5 DEF AnthropicEvent
  <2>2. Like(r, s)
    BY <1>2, <2>1, QueuesPlain, Events
  <2> HIDE DEF s
  <2> QED BY <1>5, <2>2, LikeInforms DEF s
<1>6. CASE f.type = "thinking"
  <2>1. Like(r, s)
    BY <1>6, Unrelated DEF AnthropicEvent, Reason
  <2> HIDE DEF s
  <2> QED BY <1>6, <2>1, LikeInforms DEF s
<1>7. CASE f.type = "signature"
  <2>1. Like(r, s)
    BY <1>7, Unrelated DEF AnthropicEvent
  <2> HIDE DEF s
  <2> QED BY <1>7, <2>1, LikeInforms DEF s
<1>8. CASE f.type = "args"
  <2>1. s = Queue(r, <<ToolEvent(r.ids[f.idx], "", f.text, "")>>) \/ s = r
    BY <1>8 DEF AnthropicEvent
  <2> HIDE DEF s
  <2>2. Like(r, s)
    BY <1>1, <1>2, <2>1, QueuesPlain, Events
  <2> QED BY <1>8, <2>2, LikeInforms DEF s
<1>9. CASE f.type = "message_delta"
  <2> DEFINE u == MergeUsage(r.usage, f.usage)
             q == [r EXCEPT !.usage = u]
  <2>1. u \in Usages /\ (r.usage # NoUsage => u # NoUsage)
    BY <1>2, Merges DEF Plain, AReader
  <2>2. s = IF q.stopped \/ f.reason = "" THEN q ELSE Stopped(q, f.reason)
    BY <1>9 DEF AnthropicEvent
  <2> HIDE DEF u
  <2>3. Alike(r, q) /\ q.held = r.held /\ q.usage = u /\ q.pending = << >>
    BY <2>1, LearnsUsage DEF Plain, AReader, Alike
  <2> HIDE DEF q, s
  <2>4. CASE s = q
    <3>1. Advances("anthropic", r, s) /\ Informed(r, s)
      BY <2>1, <2>3, <2>4, AlikeAdvances DEF Informed, Alike
    <3> QED BY <1>9, <2>3, <2>4, <3>1 DEF s
  <2>5. CASE s = Stopped(q, f.reason) /\ ~q.stopped
    <3>1. ~r.stopped
      BY <2>3, <2>5 DEF Alike
    <3>2. Advances("anthropic", r, s) /\ Informed(r, s) /\ s.held = q.held
      BY <2>1, <2>3, <2>5, <3>1, StopAdvances
    <3> QED BY <1>9, <2>3, <3>2 DEF s
  <2> QED BY <2>2, <2>4, <2>5
<1>10. CASE f.type = "message_stop"
  <2>1. s = IF r.stopped THEN r ELSE Stopped(r, "")
    BY <1>10 DEF AnthropicEvent
  <2>2. Alike(r, r)
    BY DEF Alike
  <2> HIDE DEF s
  <2>3. CASE s = r
    BY <1>1, <1>10, <2>3, LikeInforms DEF s
  <2>4. CASE s = Stopped(r, "") /\ ~r.stopped
    <3>1. Advances("anthropic", r, s) /\ Informed(r, s) /\ s.held = r.held
      BY <2>2, <2>4, StopAdvances
    <3> QED BY <1>10, <3>1 DEF s
  <2> QED BY <2>1, <2>3, <2>4
<1>11. CASE f.type \in {"error", "garbage"}
  <2>1. s = Fail(r, "service")
    BY <1>11 DEF AnthropicEvent
  <2>2. Alike(r, r)
    BY DEF Alike
  <2> HIDE DEF s
  <2> QED BY <1>11, <2>1, <2>2, FailAdvances DEF s
<1>12. CASE /\ f.type \notin {"message_start", "text", "thinking", "signature", "args", "message_delta",
                             "message_stop", "error", "garbage"}
            /\ ~ (f.type = "block_start" /\ f.name # "")
  <2>1. s = r
    BY <1>12 DEF AnthropicEvent
  <2> HIDE DEF s
  <2> QED BY <1>1, <1>12, <2>1, LikeInforms DEF s
<1> HIDE DEF s
<1>13. /\ Advances("anthropic", r, s) /\ s.held = r.held
       /\ f.type # "message_start" => Informed(r, s)
       /\ f.type \in {"error", "garbage"} => s.fail = "service"
  BY <1>3, <1>4, <1>5, <1>6, <1>7, <1>8, <1>9, <1>10, <1>11, <1>12 DEF s
<1> QED BY <1>13 DEF s

LEMMA StartsPlain ==
  ASSUME NEW r, Plain(r)
  PROVE  Like(r, Started(r))
<1> DEFINE q == [r EXCEPT !.started = TRUE]
<1>1. Like(r, r) /\ Like(r, q)
  BY Unrelated DEF Like
<1>2. Started(r) = IF r.started THEN r ELSE Queue(q, <<Event("start")>>)
  BY DEF Started
<1> HIDE DEF q
<1>3. Like(q, Queue(q, <<Event("start")>>))
  BY <1>1, QueuesPlain, Events DEF Like
<1> QED BY <1>1, <1>2, <1>3 DEF Like

(* A chunk of openai and a frame of google may bring usage and start.      *)
LEMMA StartsInformed ==
  ASSUME NEW r, Plain(r), NEW f, AFrame(f)
  PROVE  Alike(r, Started(IF f.usage = NoUsage THEN r ELSE [r EXCEPT !.usage = f.usage]))
<1> DEFINE q == IF f.usage = NoUsage THEN r ELSE [r EXCEPT !.usage = f.usage]
<1>1. Alike(r, q)
  BY LearnsUsage DEF AFrame, Alike
<1> HIDE DEF q
<1>2. Like(q, Started(q))
  BY <1>1, StartsPlain DEF Alike
<1> QED BY <1>1, <1>2 DEF Alike, Like, q

LEMMA QueuesAlike ==
  ASSUME NEW r, NEW s, Alike(r, s), NEW e, PlainEvent(e)
  PROVE  Alike(r, Queue(s, <<e>>))
BY QueuesPlain DEF Alike, Like

LEMMA UnrelatedAlike ==
  ASSUME NEW r, NEW s, Alike(r, s), NEW x
  PROVE  /\ Alike(r, [s EXCEPT !.reason = x]) /\ Alike(r, [s EXCEPT !.ids = x])
         /\ Alike(r, [s EXCEPT !.names = x]) /\ Alike(r, [s EXCEPT !.reasoning = x])
         /\ Alike(r, [s EXCEPT !.signature = x])
<1>1. Plain(s) /\ s.stopped = r.stopped
  BY DEF Alike
<1>2. /\ Like(s, [s EXCEPT !.reason = x]) /\ Like(s, [s EXCEPT !.ids = x])
      /\ Like(s, [s EXCEPT !.names = x]) /\ Like(s, [s EXCEPT !.reasoning = x])
      /\ Like(s, [s EXCEPT !.signature = x])
  BY <1>1, Unrelated
<1>3. \A t : Like(s, t) => Alike(r, t)
  BY <1>1 DEF Alike, Like
<1> QED BY <1>2, <1>3

LEMMA OpenAIAdvances ==
  ASSUME NEW r, Plain(r), r.pending = << >>, NEW f, AFrame(f)
  PROVE  Advances("openai", r, OpenAIChunk(r, f))
<1> DEFINE q == Started(IF f.usage = NoUsage THEN r ELSE [r EXCEPT !.usage = f.usage])
           s == OpenAIChunk(r, f)
<1>1. Alike(r, q) /\ Alike(r, r) /\ IsSequence(f.text)
  BY StartsInformed DEF Alike, AFrame
<1>2. CASE f.type = "thinking"
  <2>1. s = Reason(q, f)
    BY <1>2 DEF OpenAIChunk
  <2> HIDE DEF q, s
  <2>2. Alike(r, s)
    BY <1>1, <2>1, UnrelatedAlike DEF Reason
  <2> QED BY <2>2, AlikeAdvances DEF s
<1>3. CASE f.type = "text"
  <2>1. s = Queue(q, <<TextEvent(f.text)>>)
    BY <1>3 DEF OpenAIChunk
  <2> HIDE DEF q, s
  <2>2. Alike(r, s)
    BY <1>1, <2>1, QueuesAlike, Events
  <2> QED BY <2>2, AlikeAdvances DEF s
<1>4. CASE f.type \in {"block_start", "args"}
  <2> DEFINE t == TouchTool(q, f)
  <2>1. s = Queue(t, <<ToolEvent(t.ids[f.idx], f.name, f.text, "")>>)
    BY <1>4 DEF OpenAIChunk
  <2> HIDE DEF q, s
  <2>2. Alike(r, t)
    BY <1>1, UnrelatedAlike DEF TouchTool
  <2> HIDE DEF t
  <2>3. Alike(r, s)
    BY <1>1, <2>1, <2>2, QueuesAlike, Events
  <2> QED BY <2>3, AlikeAdvances DEF s
<1>5. CASE f.type = "finish"
  <2>1. s = [q EXCEPT !.reason = f.reason]
    BY <1>5 DEF OpenAIChunk
  <2> HIDE DEF q, s
  <2>2. Alike(r, s)
    BY <1>1, <2>1, UnrelatedAlike
  <2> QED BY <2>2, AlikeAdvances DEF s
<1>6. CASE f.type = "done"
  <2>1. s = IF r.stopped THEN Fail(r, "eof") ELSE Stopped(r, r.reason)
    BY <1>6 DEF OpenAIChunk
  <2> HIDE DEF q, s
  <2>2. CASE r.stopped
    BY <1>1, <2>1, <2>2, FailAdvances DEF s
  <2>3. CASE ~r.stopped
    BY <1>1, <2>1, <2>3, StopAdvances DEF s
  <2> QED BY <2>2, <2>3
<1>7. CASE f.type = "error"
  <2>1. s = Fail(r, "service")
    BY <1>7 DEF OpenAIChunk
  <2> HIDE DEF q, s
  <2> QED BY <1>1, <2>1, FailAdvances DEF s
<1>8. CASE f.type = "garbage"
  <2>1. s = r
    BY <1>8 DEF OpenAIChunk
  <2> HIDE DEF q, s
  <2> QED BY <1>1, <2>1, AlikeAdvances DEF s
<1>9. CASE f.type \notin {"thinking", "text", "block_start", "args", "finish", "done", "error", "garbage"}
  <2>1. s = q
    BY <1>9 DEF OpenAIChunk
  <2> HIDE DEF q, s
  <2> QED BY <1>1, <2>1, AlikeAdvances DEF s
<1> HIDE DEF q
<1> QED BY <1>2, <1>3, <1>4, <1>5, <1>6, <1>7, <1>8, <1>9

LEMMA GoogleAdvances ==
  ASSUME NEW r, Plain(r), r.pending = << >>, NEW f, AFrame(f)
  PROVE  Advances("google", r, GoogleFrame(r, f))
<1> DEFINE q == Started(IF f.usage = NoUsage THEN r ELSE [r EXCEPT !.usage = f.usage])
           s == GoogleFrame(r, f)
<1>1. Alike(r, q) /\ Alike(r, r) /\ IsSequence(f.text)
  BY StartsInformed DEF Alike, AFrame
<1>2. CASE f.type = "thinking"
  <2>1. s = Reason(q, f)
    BY <1>2 DEF GoogleFrame
  <2> HIDE DEF q, s
  <2>2. Alike(r, s)
    BY <1>1, <2>1, UnrelatedAlike DEF Reason
  <2> QED BY <2>2, AlikeAdvances DEF s
<1>3. CASE f.type = "text"
  <2>1. s = Queue(q, <<TextEvent(f.text)>>)
    BY <1>3 DEF GoogleFrame
  <2> HIDE DEF q, s
  <2>2. Alike(r, s)
    BY <1>1, <2>1, QueuesAlike, Events
  <2> QED BY <2>2, AlikeAdvances DEF s
<1>4. CASE f.type = "call"
  <2> DEFINE t == [q EXCEPT !.names = Append(@, f.name)]
             earlier == Len(SelectSeq(q.names, LAMBDA n : n = f.name))
  <2>1. s = Queue(t, <<ToolEvent(SynthToolId(f.name, earlier), f.name, f.text, f.sig)>>)
    BY <1>4 DEF GoogleFrame
  <2> HIDE DEF q, s, earlier
  <2>2. Alike(r, t)
    BY <1>1, UnrelatedAlike
  <2> HIDE DEF t
  <2>3. Alike(r, s)
    BY <1>1, <2>1, <2>2, QueuesAlike, Events
  <2> QED BY <2>3, AlikeAdvances DEF s
<1>5. CASE f.type = "finish"
  <2>1. s = [q EXCEPT !.reason = f.reason]
    BY <1>5 DEF GoogleFrame
  <2> HIDE DEF q, s
  <2>2. Alike(r, s)
    BY <1>1, <2>1, UnrelatedAlike
  <2> QED BY <2>2, AlikeAdvances DEF s
<1>6. CASE f.type \in {"error", "blocked"}
  <2>1. s = Fail(r, "service")
    BY <1>6 DEF GoogleFrame
  <2> HIDE DEF q, s
  <2> QED BY <1>1, <2>1, FailAdvances DEF s
<1>7. CASE f.type = "garbage"
  <2>1. s = r
    BY <1>7 DEF GoogleFrame
  <2> HIDE DEF q, s
  <2> QED BY <1>1, <2>1, AlikeAdvances DEF s
<1>8. CASE f.type \notin {"thinking", "text", "call", "finish", "error", "blocked", "garbage"}
  <2>1. s = q
    BY <1>8 DEF GoogleFrame
  <2> HIDE DEF q, s
  <2> QED BY <1>1, <2>1, AlikeAdvances DEF s
<1> HIDE DEF q
<1> QED BY <1>2, <1>3, <1>4, <1>5, <1>6, <1>7, <1>8

LEMMA BedrockAdvances ==
  ASSUME NEW r, Plain(r), r.pending = << >>, NEW f, AFrame(f)
  PROVE  Advances("bedrock", r, BedrockEvent(r, f))
<1> DEFINE q == IF f.type = "metadata" THEN r ELSE Started(r)
           s == BedrockEvent(r, f)
<1>1. Alike(r, q) /\ IsSequence(f.text)
  BY StartsPlain DEF Alike, Like, AFrame
<1>2. CASE f.type = "block_start" /\ f.name # ""
  <2> DEFINE t == [q EXCEPT !.ids = (f.idx :> f.id) @@ @]
             u == [t EXCEPT !.names = Append(q.names, f.name)]
  <2>1. s = Queue(u, <<ToolEvent(f.id, f.name, << >>, "")>>)
    BY <1>2 DEF BedrockEvent
  <2> HIDE DEF q, s
  <2>2. Alike(r, t)
    BY <1>1, UnrelatedAlike
  <2> HIDE DEF t
  <2>3. Alike(r, u)
    BY <2>2, UnrelatedAlike
  <2> HIDE DEF u
  <2>4. Alike(r, s)
    BY <2>1, <2>3, QueuesAlike, Events
  <2> QED BY <2>4, AlikeAdvances DEF s
<1>3. CASE f.type = "text"
  <2>1. s = Queue(q, <<TextEvent(f.text)>>)
    BY <1>3 DEF BedrockEvent
  <2> HIDE DEF q, s
  <2>2. Alike(r, s)
    BY <1>1, <2>1, QueuesAlike, Events
  <2> QED BY <2>2, AlikeAdvances DEF s
<1>4. CASE f.type \in {"thinking", "signature"}
  <2>1. s = Reason(q, f) \/ s = [q EXCEPT !.signature = q.signature \o f.sig]
    BY <1>4 DEF BedrockEvent
  <2> HIDE DEF q, s
  <2>2. Alike(r, s)
    <3>1. Alike(r, Reason(q, f)) /\ Alike(r, [q EXCEPT !.signature = q.signature \o f.sig])
      BY <1>1, UnrelatedAlike DEF Reason
    <3> QED BY <2>1, <3>1
  <2> QED BY <2>2, AlikeAdvances DEF s
<1>5. CASE f.type = "args"
  <2>1. s = Queue(q, <<ToolEvent(IdAt(q, f.idx), "", f.text, "")>>)
    BY <1>5 DEF BedrockEvent
  <2> HIDE DEF q, s
  <2>2. Alike(r, s)
    BY <1>1, <2>1, QueuesAlike, Events
  <2> QED BY <2>2, AlikeAdvances DEF s
<1>6. CASE f.type = "message_stop"
  <2> DEFINE t == [q EXCEPT !.reason = f.reason]
             e == StopEvent(t)
  <2>1. s = [t EXCEPT !.held = <<e>>]
    BY <1>6 DEF BedrockEvent
  <2> HIDE DEF q, s
  <2>2. Alike(r, t)
    BY <1>1, UnrelatedAlike
  <2> HIDE DEF t
  <2>3. AnEvent(e) /\ e.type = "stop"
    BY <2>2, StopIs DEF Alike, Plain
  <2> HIDE DEF e
  <2>4. <<e>>[1] = e
    OBVIOUS
  <2>5. Alike(r, s)
    BY <2>1, <2>2, <2>3, <2>4 DEF Alike, Plain, AReader
  <2> QED BY <2>5, AlikeAdvances DEF s
<1>7. CASE f.type = "metadata"
  <2> DEFINE t == [r EXCEPT !.usage = f.usage]
             h == [i \in DOMAIN r.held |-> [r.held[i] EXCEPT !.usage = f.usage]]
  <2>1. s = [t EXCEPT !.held = h]
    BY <1>7 DEF BedrockEvent, Plain, AReader
  <2>2. Alike(r, t) /\ f.usage \in Usages
    BY LearnsUsage DEF Alike, AFrame
  <2>3. h = << >> \/ (h = <<h[1]>> /\ AnEvent(h[1]) /\ h[1].type = "stop")
    <3>1. CASE r.held = << >>
      BY <3>1
    <3>2. CASE r.held = <<r.held[1]>> /\ AnEvent(r.held[1]) /\ r.held[1].type = "stop"
      <4> DEFINE d == r.held[1]
                 e == [d EXCEPT !.usage = f.usage]
      <4>1. AnEvent(e) /\ e.type = "stop"
        BY <2>2, <3>2 DEF AnEvent
      <4> HIDE DEF e
      <4>2. DOMAIN r.held = 1 .. 1
        BY <3>2
      <4>3. h = [i \in 1 .. 1 |-> e]
        BY <4>2 DEF e
      <4>4. [i \in 1 .. 1 |-> e] = <<e>> /\ <<e>>[1] = e
        OBVIOUS
      <4> HIDE DEF h
      <4> QED BY <4>1, <4>3, <4>4
    <3> QED BY <3>1, <3>2 DEF Plain, AReader
  <2> HIDE DEF q, s, t, h
  <2>4. Alike(r, s)
    BY <2>1, <2>2, <2>3 DEF Alike, Plain, AReader
  <2> QED BY <2>4, AlikeAdvances DEF s
<1>8. CASE /\ f.type \notin {"text", "thinking", "signature", "args", "message_stop", "metadata"}
           /\ ~ (f.type = "block_start" /\ f.name # "")
  <2>1. s = q
    BY <1>8 DEF BedrockEvent
  <2> HIDE DEF q, s
  <2> QED BY <1>1, <2>1, AlikeAdvances DEF s
<1> HIDE DEF q
<1> QED BY <1>2, <1>3, <1>4, <1>5, <1>6, <1>7, <1>8

LEMMA HandleAdvances ==
  ASSUME NEW a \in Adapters, NEW r, Plain(r), r.pending = << >>, NEW f, AFrame(f),
         a = "anthropic" /\ f.type = "message_start" => ~r.stopped
  PROVE  LET s == Handle(a, r, f)
         IN /\ Advances(a, r, s)
            /\ a = "anthropic" =>
                 /\ s.held = r.held /\ (f.type # "message_start" => Informed(r, s))
                 /\ f.type \in {"error", "garbage"} => s.fail = "service"
<1> DEFINE q == [r EXCEPT !.frames = 1]
           s == Handle(a, r, f)
<1>1. Like(r, q)
  BY Unrelated
<1>2. q.pending = << >> /\ Plain(q) /\ q.stopped = r.stopped
  BY <1>1 DEF Like, Plain, AReader
<1>3. /\ a = "anthropic" => s = AnthropicEvent(q, f)
      /\ a = "openai" => s = OpenAIChunk(q, f)
      /\ a = "google" => s = GoogleFrame(q, f)
      /\ a = "bedrock" => s = BedrockEvent(q, f)
  BY DEF Handle
<1> HIDE DEF q, s
<1>4. Advances(a, q, s) => Advances(a, r, s)
  BY <1>2 DEF Advances
<1>5. Informed(q, s) => Informed(r, s)
  BY <1>1 DEF Informed, Like
<1>6. CASE a = "anthropic"
  <2> DEFINE t == AnthropicEvent(q, f)
  <2>1. /\ Advances("anthropic", q, t) /\ t.held = q.held
        /\ f.type # "message_start" => Informed(q, t)
        /\ f.type \in {"error", "garbage"} => t.fail = "service"
    BY <1>2, <1>6, AnthropicAdvances
  <2>2. t = s /\ q.held = r.held
    BY <1>1, <1>3, <1>6 DEF Like
  <2> HIDE DEF t
  <2> QED BY <1>4, <1>5, <1>6, <2>1, <2>2 DEF s
<1>7. CASE a = "openai"
  BY <1>2, <1>3, <1>4, <1>7, OpenAIAdvances DEF s
<1>8. CASE a = "google"
  BY <1>2, <1>3, <1>4, <1>8, GoogleAdvances DEF s
<1>9. CASE a = "bedrock"
  BY <1>2, <1>3, <1>4, <1>9, BedrockAdvances DEF s
<1> QED BY <1>6, <1>7, <1>8, <1>9 DEF Adapters

LEMMA EndAdvances ==
  ASSUME NEW a \in Adapters, NEW r, Plain(r), r.pending = << >>, NEW broken
  PROVE  LET s == AtEnd(a, r, broken)
         IN Advances(a, r, s) /\ (a = "anthropic" /\ r.held = << >> => s.held = << >> /\ Informed(r, s))
<1> DEFINE s == AtEnd(a, r, broken)
<1>1. Alike(r, r)
  BY DEF Alike
<1>2. CASE a # "bedrock" /\ r.frames = 0 /\ ~r.stopped
  <2> DEFINE q == [r EXCEPT !.stopped = TRUE]
  <2>1. s = Fail(q, "no stream")
    BY <1>2 DEF AtEnd
  <2>2. Plain(q) /\ q.pending = << >> /\ q.held = r.held /\ q.usage = r.usage
    BY DEF Plain, AReader
  <2> HIDE DEF q, s
  <2>3. /\ AReader(s) /\ s.pending = << >> /\ s.held = r.held /\ s.usage = r.usage /\ s.fail = "no stream"
    BY <2>1, <2>2 DEF Fail, Plain, AReader
  <2>4. NoStop(a, s) /\ ~OneStop(s)
    BY <2>3, NothingPending
  <2>5. s.stopped
    BY <2>1 DEF q, Fail, Plain, AReader
  <2>6. Advances(a, r, s) /\ Informed(r, s)
    BY <2>3, <2>4, <2>5 DEF Advances, Informed
  <2> QED BY <2>3, <2>6 DEF s
<1>3. CASE ~(a # "bedrock" /\ r.frames = 0 /\ ~r.stopped) /\ r.held # << >> /\ ~r.stopped
  <2> DEFINE e == r.held[1]
             q == [[r EXCEPT !.stopped = TRUE] EXCEPT !.held = << >>]
  <2>1. s = Queue([r EXCEPT !.stopped = TRUE, !.held = << >>], r.held)
    BY <1>3 DEF AtEnd
  <2>2. r.held = <<e>> /\ AnEvent(e) /\ e.type = "stop"
    BY <1>3 DEF Plain, AReader
  <2>3. AReader(q) /\ q.pending = << >> /\ q.stopped /\ q.held = << >> /\ q.fail = ""
    BY DEF Plain, AReader
  <2> HIDE DEF q, e
  <2>4. << >> \o <<e>> = <<e>> /\ Len(<<e>>) = 1 /\ <<e>>[1] = e
    OBVIOUS
  <2>5. s = [q EXCEPT !.pending = <<e>>]
    BY <2>1, <2>2, <2>3, <2>4 DEF Queue, q
  <2> HIDE DEF s
  <2>6. /\ DOMAIN s = DOMAIN q /\ s.pending = <<e>> /\ s.stopped = q.stopped /\ s.held = q.held
        /\ s.usage = q.usage /\ s.fail = q.fail
    BY <2>3, <2>5 DEF AReader
  <2>7. AReader(s) /\ OneStop(s) /\ s.stopped
    BY <2>2, <2>3, <2>4, <2>6 DEF AReader, OneStop
  <2> QED BY <1>3, <2>7 DEF s, Advances
<1>4. CASE ~(a # "bedrock" /\ r.frames = 0 /\ ~r.stopped) /\ (r.held = << >> \/ r.stopped)
  <2>1. \/ s = Fail(r, "service")
        \/ ~r.stopped /\ s = Stopped(r, r.reason)
        \/ r.stopped /\ s = Fail(r, "eof")
    BY <1>4 DEF AtEnd
  <2> HIDE DEF s
  <2>2. CASE s = Fail(r, "service")
    <3>1. Advances(a, r, s) /\ s.held = r.held /\ Informed(r, s)
      BY <1>1, <2>2, FailAdvances
    <3> QED BY <3>1 DEF s
  <2>3. CASE ~r.stopped /\ s = Stopped(r, r.reason)
    <3>1. Advances(a, r, s) /\ s.held = r.held /\ Informed(r, s)
      BY <1>1, <2>3, StopAdvances
    <3> QED BY <3>1 DEF s
  <2>4. CASE r.stopped /\ s = Fail(r, "eof")
    <3>1. Advances(a, r, s) /\ s.held = r.held /\ Informed(r, s)
      BY <1>1, <2>4, FailAdvances
    <3> QED BY <3>1 DEF s
  <2> QED BY <2>1, <2>2, <2>3, <2>4
<1> HIDE DEF s
<1> QED BY <1>2, <1>3, <1>4

-----------------------------------------------------------------------------
(* The frames of a service.                                                *)

Place == [block : Nat \ {0}, off : Nat, phase : {"open", "block", "delta", "over"}]

LEMMA PlainFrames ==
  ASSUME NEW type
  PROVE  /\ AFrame(Frame(type)) /\ Frame(type).type = type
         /\ \A u \in Usages : AFrame([Frame(type) EXCEPT !.usage = u])
<1>1. IsSequence(<< >>) /\ NoUsage \in Usages
  BY Events
<1> QED BY <1>1 DEF AFrame, Frame

LEMMA ClosingFrames ==
  ASSUME NEW a \in Adapters, NEW reason, NEW usage \in Usages, NEW i \in DOMAIN Closing(a, reason, usage)
  PROVE  AFrame(Closing(a, reason, usage)[i]) /\ Closing(a, reason, usage)[i].type # "message_start"
<1> DEFINE Fits(f) == AFrame(f) /\ f.type # "message_start"
<1>1. IsSequence(<< >>) /\ NoUsage \in Usages /\ [usage EXCEPT !.in = 0] \in Usages
  BY Events DEF Usages
<1>2. CASE a = "anthropic"
  <2> DEFINE f == [Frame("message_delta") EXCEPT !.reason = reason, !.usage = [usage EXCEPT !.in = 0]]
             g == Frame("message_stop")
  <2>1. Fits(f) /\ Fits(g)
    BY <1>1 DEF AFrame, Frame
  <2>2. Closing(a, reason, usage) = <<f, g>>
    BY <1>2 DEF Closing
  <2> HIDE DEF f, g
  <2> QED BY <2>1, <2>2
<1>3. CASE a = "openai"
  <2> DEFINE f == [Frame("finish") EXCEPT !.reason = reason]
             g == [Frame("usage") EXCEPT !.usage = usage]
             h == Frame("done")
  <2>1. Fits(f) /\ Fits(g) /\ Fits(h)
    BY <1>1 DEF AFrame, Frame
  <2>2. Closing(a, reason, usage) = <<f, g, h>>
    BY <1>3 DEF Closing
  <2> HIDE DEF f, g, h
  <2> QED BY <2>1, <2>2
<1>4. CASE a = "google"
  <2> DEFINE f == [Frame("finish") EXCEPT !.reason = reason, !.usage = usage]
  <2>1. Fits(f)
    BY <1>1 DEF AFrame, Frame
  <2>2. Closing(a, reason, usage) = <<f>>
    BY <1>4 DEF Closing
  <2> HIDE DEF f
  <2> QED BY <2>1, <2>2
<1>5. CASE a = "bedrock"
  <2> DEFINE f == [Frame("message_stop") EXCEPT !.reason = reason]
             g == [Frame("metadata") EXCEPT !.usage = usage]
  <2>1. Fits(f) /\ Fits(g)
    BY <1>1 DEF AFrame, Frame
  <2>2. Closing(a, reason, usage) = <<f, g>>
    BY <1>5 DEF Closing
  <2> HIDE DEF f, g
  <2> QED BY <2>1, <2>2
<1> QED BY <1>2, <1>3, <1>4, <1>5 DEF Adapters

LEMMA FramesTyped ==
  ASSUME NEW a \in Adapters, NEW blocks, IsSequence(blocks),
         \A b \in ToSet(blocks) : b.type \in BlockTypes /\ IsSequence(b.text),
         NEW place \in Place, NEW reason, NEW usage \in Usages,
         NEW n \in NextFrames(a, blocks, place, reason, usage)
  PROVE  /\ n.to \in Place /\ n.to.phase # "open" /\ AFrame(n.frame)
         /\ n.frame.type = "message_start" => place.phase = "open"
<1> DEFINE b == blocks[place.block]
           next == [block |-> place.block + 1, off |-> 0, phase |-> "block"]
           frame(k) == [Frame(DeltaType(b)) EXCEPT !.idx = place.block,
                                                  !.text = SubSeq(b.text, place.off + 1, k)]
           p(k) == [to |-> [place EXCEPT !.off = k, !.phase = "delta"], frame |-> frame(k)]
           q(k) == [p(k) EXCEPT !.to = IF k = Len(b.text) THEN next ELSE p(k).to]
           cuts == {m \in place.off + 1 .. Len(b.text) : m < Len(b.text) => b.text[m + 1] # Trail}
<1>1. IsSequence(<< >>) /\ NoUsage \in Usages
  BY Events
<1>2. place.block \in Nat \ {0} /\ place.off \in Nat /\ next \in Place /\ next.phase # "open"
  BY DEF Place
<1>3. CASE place.phase = "open"
  <2>1. n = [to |-> [place EXCEPT !.phase = "block"], frame |-> Opening(a, usage)]
    BY <1>3 DEF NextFrames
  <2>2. AFrame(Opening(a, usage))
    <3>1. [usage EXCEPT !.out = 0] \in Usages
      BY DEF Usages
    <3> QED BY <1>1, <3>1, PlainFrames DEF Opening
  <2> QED BY <1>3, <2>1, <2>2 DEF Place
<1>4. CASE place.phase # "open" /\ place.block > Len(blocks)
  <2>1. PICK i \in {place.off + 1} \cap DOMAIN Closing(a, reason, usage) :
          n = [to |-> [place EXCEPT !.off = i], frame |-> Closing(a, reason, usage)[i]]
    BY <1>4 DEF NextFrames
  <2>2. AFrame(n.frame) /\ n.frame.type # "message_start"
    BY <2>1, ClosingFrames
  <2>3. n.to = [place EXCEPT !.off = i] /\ i \in Nat
    BY <1>2, <2>1
  <2> QED BY <1>4, <2>2, <2>3 DEF Place
<1>5. CASE place.phase # "open" /\ ~ (place.block > Len(blocks))
  <2>1. b.type \in BlockTypes /\ IsSequence(b.text)
    <3>1. blocks \in Seq(ToSet(blocks))
      BY DEF IsSequence
    <3>2. place.block \in 1 .. Len(blocks)
      BY <1>2, <1>5, <3>1
    <3>3. b \in ToSet(blocks)
      BY <3>1, <3>2
    <3> QED BY <3>3
  <2>2. CASE n = [to |-> next, frame |-> [Frame("call") EXCEPT !.name = b.name, !.text = b.text, !.sig = b.sig]]
    <3>1. n.to = next /\ AFrame(n.frame) /\ n.frame.type = "call"
      BY <1>1, <2>1, <2>2 DEF AFrame, Frame
    <3> QED BY <1>2, <3>1
  <2>3. CASE n = [to |-> IF b.text = << >> THEN next ELSE [place EXCEPT !.phase = "delta"],
                  frame |-> [Frame("block_start") EXCEPT !.idx = place.block, !.id = b.id, !.name = b.name,
                                                         !.sig = b.sig]]
    <3>1. AFrame(n.frame) /\ n.frame.type = "block_start"
      BY <1>1, <2>3 DEF AFrame, Frame
    <3>2. n.to = next \/ n.to = [place EXCEPT !.phase = "delta"]
      BY <2>3
    <3>3. n.to \in Place /\ n.to.phase # "open"
      BY <1>2, <3>2 DEF Place
    <3> QED BY <3>1, <3>3
  <2>4. CASE \E k \in cuts : n = p(k) \/ n = q(k)
    <3>1. PICK k \in place.off + 1 .. Len(b.text) : n = p(k) \/ n = q(k)
      BY <2>4
    <3>2. n.frame = frame(k)
      BY <3>1
    <3>3. n.to = next \/ n.to = [place EXCEPT !.off = k, !.phase = "delta"]
      BY <3>1
    <3>4. b.text \in Seq(ToSet(b.text)) /\ k \in Nat /\ k <= Len(b.text) /\ place.off + 1 \in Nat \ {0}
      BY <1>2, <2>1 DEF IsSequence
    <3>5. SubSeq(b.text, place.off + 1, k) \in Seq(ToSet(b.text))
      BY <3>4, Subsequence
    <3>6. IsSequence(SubSeq(b.text, place.off + 1, k))
      BY <3>5, Sequences
    <3>7. DeltaType(b) # "message_start"
      BY <2>1 DEF DeltaType, BlockTypes
    <3>8. AFrame(n.frame) /\ n.frame.type # "message_start"
      BY <1>1, <3>2, <3>6, <3>7 DEF AFrame, Frame
    <3>9. n.to \in Place /\ n.to.phase # "open"
      BY <1>2, <3>3, <3>4 DEF Place
    <3> QED BY <3>8, <3>9
  <2>5. CASE n = [to |-> next, frame |-> [Frame("signature") EXCEPT !.idx = place.block, !.sig = b.sig]]
    <3>1. n.to = next /\ AFrame(n.frame) /\ n.frame.type = "signature"
      BY <1>1, <2>5 DEF AFrame, Frame
    <3> QED BY <1>2, <3>1
  <2>6. ASSUME NEW k \in cuts
        PROVE  p(k).to.off = k
    BY DEF Place
  <2>7. ASSUME n \in {[x EXCEPT !.to = IF x.to.off = Len(b.text) THEN next ELSE @]
                       : x \in {p(k) : k \in cuts}}
        PROVE  \E k \in cuts : n = q(k)
    <3>1. PICK x \in {p(k) : k \in cuts} :
            n = [x EXCEPT !.to = IF x.to.off = Len(b.text) THEN next ELSE x.to]
      BY <2>7
    <3>2. PICK k \in cuts : x = p(k)
      OBVIOUS
    <3>3. p(k).to.off = k
      BY <2>6
    <3> HIDE DEF p, next
    <3>4. n = [p(k) EXCEPT !.to = IF p(k).to.off = Len(b.text) THEN next ELSE p(k).to]
      BY ONLY <3>1, <3>2
    <3>5. n = q(k)
      BY ONLY <3>3, <3>4
    <3> QED BY <3>5
  <2>8. ASSUME n \in {p(k) : k \in cuts}
        PROVE  \E k \in cuts : n = p(k)
    BY <2>8
  <2> DEFINE piece == {p(k) : k \in cuts}
             called == [to |-> next, frame |-> [Frame("call") EXCEPT !.name = b.name, !.text = b.text, !.sig = b.sig]]
             begun == [to |-> IF b.text = << >> THEN next ELSE [place EXCEPT !.phase = "delta"],
                       frame |-> [Frame("block_start") EXCEPT !.idx = place.block, !.id = b.id, !.name = b.name,
                                                              !.sig = b.sig]]
             signed == [to |-> next, frame |-> [Frame("signature") EXCEPT !.idx = place.block, !.sig = b.sig]]
             moved == {[x EXCEPT !.to = IF x.to.off = Len(b.text) THEN next ELSE @] : x \in piece}
  <2>9. NextFrames(a, blocks, place, reason, usage) \in {{called}, {begun}, {signed}, piece, moved}
    BY <1>5 DEF NextFrames
  <2>10. n = called \/ n = begun \/ n = signed \/ n \in piece \/ n \in moved
    <3> HIDE DEF called, begun, signed, piece, moved
    <3> QED BY <2>9
  <2> QED BY <2>2, <2>3, <2>4, <2>5, <2>7, <2>8, <2>10
<1> QED BY <1>3, <1>4, <1>5

-----------------------------------------------------------------------------
(* The stream, action by action.                                           *)

LEMMA StreamInit == CallInit => StreamInv
<1> SUFFICES ASSUME CallInit PROVE StreamInv
  OBVIOUS
<1>1. at = Beginning /\ reader = NewReader /\ filter = NewFilter /\ kept = NothingKept /\ span = NewSpan
  BY DEF CallInit
<1>2. IsSequence(<< >>) /\ NoUsage \in Usages /\ Thought(<< >>)
  BY Events DEF Thought
<1>3. StreamTyped
  <2>1. at \in Place
    BY <1>1 DEF Place, Beginning
  <2>2. filter.buf = << >> /\ filter.inThink = FALSE
    BY <1>1 DEF NewFilter
  <2>3. /\ kept.text = << >> /\ kept.thinking = << >>
        /\ DOMAIN kept = {"text", "calls", "reason", "usage", "thinking"}
    BY <1>1 DEF NothingKept
  <2>4. DOMAIN span = {"ended", "by", "ends", "error", "final", "text", "attributes"}
    BY <1>1 DEF NewSpan
  <2> QED BY <1>2, <2>1, <2>2, <2>3, <2>4 DEF StreamTyped, Place
<1>4. AReader(reader) /\ reader.pending = << >> /\ reader.held = << >> /\ ~reader.stopped
  BY <1>1, <1>2 DEF AReader, NewReader
<1>5. NoStop(call.adapter, reader)
  BY <1>4, NothingPending
<1>6. Untold /\ kept.usage = NoUsage
  BY <1>1 DEF Untold, NewSpan, NothingKept
<1> QED BY <1>3, <1>4, <1>5, <1>6 DEF StreamInv

(* What is not part of the stream is not heard of by it.                   *)
LEMMA OthersKeepStream ==
  ASSUME StreamInv, call' = call, streamVars' = streamVars, DOMAIN span' = DOMAIN span, span'.final = span.final
  PROVE  StreamInv'
<1>1. at' = at /\ reader' = reader /\ filter' = filter /\ kept' = kept
  BY DEF streamVars
<1>2. StreamTyped'
  BY <1>1 DEF StreamInv, StreamTyped
<1>3. (Untold <=> Untold') /\ (Told <=> Told')
  BY <1>1 DEF Untold, Told
<1> QED BY <1>1, <1>2, <1>3 DEF StreamInv

LEMMA ReaderKeepsStream ==
  ASSUME StreamInv, reader.pending = << >>, reader.fail = "", Advances(call.adapter, reader, reader'),
         at' \in Place, call' = call, filter' = filter, kept' = kept, span' = span,
         call.adapter = "anthropic" =>
           /\ reader'.held = << >> /\ (Informed(reader, reader') \/ at.phase = "open")
           /\ at'.phase = "open" => at.phase = "open" /\ reader'.fail = "service"
  PROVE  StreamInv'
<1> DEFINE a == call.adapter
           s == reader'
<1>1. StreamTyped'
  BY DEF StreamInv, StreamTyped, Place
<1>2. AReader(s) /\ (reader.stopped => s.stopped)
  BY DEF Advances
<1>3. reader.stopped => Told
  <2>1. ~OneStop(reader)
    BY NothingPending
  <2> QED BY <2>1 DEF StreamInv
<1>4. ~reader.stopped => Untold
  BY DEF StreamInv, Told
<1>5. kept.usage # NoUsage /\ Untold => a = "anthropic" /\ at.phase # "open" /\ reader.usage # NoUsage
  BY DEF StreamInv, Untold
<1>6. kept.usage # NoUsage /\ Untold => Informed(reader, s) /\ reader.usage # NoUsage
  BY <1>5
<1>7. (Told => Told') /\ (Untold => Untold')
  <2>1. Told => Told'
    BY <1>2 DEF Told
  <2>2. kept.usage # NoUsage /\ Untold => s.usage # NoUsage
    BY <1>6 DEF Informed
  <2>3. Untold => Untold'
    BY <1>5, <2>2 DEF Untold
  <2> QED BY <2>1, <2>3
<1>8. Untold' \/ Told'
  BY <1>7 DEF StreamInv
<1>9. ASSUME a = "anthropic"
      PROVE  s.held = << >> /\ (at'.phase = "open" => ~s.stopped /\ s.pending = << >> /\ kept'.usage = NoUsage)
  <2>1. ASSUME at'.phase = "open" PROVE ~s.stopped /\ s.pending = << >> /\ kept'.usage = NoUsage
    <3>1. at.phase = "open" /\ s.fail = "service"
      BY <1>9, <2>1
    <3>2. ~reader.stopped /\ kept.usage = NoUsage
      BY <1>9, <3>1 DEF StreamInv
    <3>3. s.pending = << >>
      BY <1>2, <3>1 DEF AReader
    <3>4. ~OneStop(s)
      BY <3>3, NothingPending
    <3> QED BY <3>1, <3>2, <3>3, <3>4 DEF Advances
  <2> QED BY <1>9, <2>1
<1>10. CASE OneStop(s) /\ ~reader.stopped /\ s.stopped
  <2>1. Untold'
    BY <1>4, <1>7, <1>10
  <2>2. s.pending[1].usage = NoUsage => kept'.usage = NoUsage
    BY <1>4, <1>6, <1>10 DEF Informed
  <2> QED BY <1>1, <1>2, <1>8, <1>9, <1>10, <2>1, <2>2 DEF StreamInv
<1>11. CASE NoStop(a, s) /\ (s.stopped => reader.stopped \/ s.fail = "no stream")
  BY <1>1, <1>2, <1>3, <1>7, <1>8, <1>9, <1>11 DEF StreamInv
<1> QED BY <1>10, <1>11 DEF Advances

LEMMA ReadsKeepsStream == RetryInv /\ StreamInv /\ Reads => StreamInv'
<1> SUFFICES ASSUME RetryInv, StreamInv, Reads PROVE StreamInv'
  OBVIOUS
<1> DEFINE a == call.adapter
           frames == NextFrames(a, call.blocks, at, call.reason, call.usage)
<1>1. /\ reader.pending = << >> /\ reader.fail = "" /\ call' = call /\ filter' = filter /\ kept' = kept
      /\ span' = span
  BY DEF Reads
<1>2. /\ a \in Adapters /\ IsSequence(call.blocks) /\ call.usage \in Usages
      /\ \A b \in ToSet(call.blocks) : b.type \in BlockTypes /\ IsSequence(b.text)
  <2>1. call \in Calls
    BY DEF RetryInv
  <2> QED BY <2>1, CallAssumption
<1>3. at \in Place /\ [at EXCEPT !.phase = "over"] \in Place /\ [at EXCEPT !.phase = "over"].phase = "over"
  BY DEF StreamInv, StreamTyped, Place
<1>4. Plain(reader)
  <2>1. IsSequence(<< >>) /\ DOMAIN << >> = {}
    BY Events
  <2> QED BY <1>1, <2>1 DEF StreamInv, Plain
<1>5. a = "anthropic" => reader.held = << >> /\ (at.phase = "open" => ~reader.stopped)
  BY DEF StreamInv
<1>6. ASSUME NEW n \in frames, at' = n.to, reader' = Handle(a, reader, n.frame)
      PROVE  StreamInv'
  <2>1. /\ n.to \in Place /\ n.to.phase # "open" /\ AFrame(n.frame)
        /\ n.frame.type = "message_start" => at.phase = "open"
    <3> HIDE DEF a
    <3> QED BY <1>2, <1>3, FramesTyped
  <2>2. /\ Advances(a, reader, reader')
        /\ a = "anthropic" =>
             reader'.held = reader.held /\ (n.frame.type # "message_start" => Informed(reader, reader'))
    <3>1. a = "anthropic" /\ n.frame.type = "message_start" => ~reader.stopped
      BY <1>5, <2>1
    <3> HIDE DEF a, frames
    <3> QED BY <1>1, <1>2, <1>4, <1>6, <2>1, <3>1, HandleAdvances
  <2> QED BY <1>1, <1>5, <1>6, <2>1, <2>2, ReaderKeepsStream
<1>7. ASSUME NEW type \in {"error", "garbage"}, reader' = Handle(a, reader, Frame(type)),
             at' = at \/ \E n \in frames : at' = n.to
      PROVE  StreamInv'
  <2>1. AFrame(Frame(type)) /\ Frame(type).type = type
    BY PlainFrames
  <2>2. /\ Advances(a, reader, reader')
        /\ a = "anthropic" =>
             reader'.held = reader.held /\ Informed(reader, reader') /\ reader'.fail = "service"
    <3> HIDE DEF a, frames
    <3> QED BY <1>1, <1>2, <1>4, <1>7, <2>1, HandleAdvances
  <2>3. at' \in Place /\ (at'.phase = "open" => at.phase = "open")
    <3>1. CASE at' = at
      BY <1>3, <3>1
    <3>2. CASE \E n \in frames : at' = n.to
      <4>1. PICK n \in frames : at' = n.to
        BY <3>2
      <4>2. n.to \in Place /\ n.to.phase # "open"
        <5> HIDE DEF a
        <5> QED BY <1>2, <1>3, FramesTyped
      <4> QED BY <4>1, <4>2
    <3> QED BY <1>7, <3>1, <3>2
  <2> QED BY <1>1, <1>5, <1>7, <2>2, <2>3, ReaderKeepsStream
<1>8. ASSUME NEW broken, at' = [at EXCEPT !.phase = "over"], reader' = AtEnd(a, reader, broken)
      PROVE  StreamInv'
  <2>1. Advances(a, reader, reader') /\ (a = "anthropic" => reader'.held = << >> /\ Informed(reader, reader'))
    <3> HIDE DEF a, frames
    <3> QED BY <1>1, <1>2, <1>4, <1>5, <1>8, EndAdvances
  <2> QED BY <1>1, <1>3, <1>8, <2>1, ReaderKeepsStream
<1>9. \/ \E n \in frames : at' = n.to /\ reader' = Handle(a, reader, n.frame)
      \/ at' = at /\ reader' = Handle(a, reader, Frame("error"))
      \/ \E n \in frames : at' = n.to /\ reader' = Handle(a, reader, Frame("garbage"))
      \/ \E broken : at' = [at EXCEPT !.phase = "over"] /\ reader' = AtEnd(a, reader, broken)
  BY DEF Reads
<1> QED BY <1>6, <1>7, <1>8, <1>9

(***************************************************************************)
(* What an event makes of k and s, which are what CollectStream and the    *)
(* span have: the same text, and reason, usage and reasoning of a stop.    *)
(***************************************************************************)
Match(k, s) ==
  /\ DOMAIN k = {"text", "calls", "reason", "usage", "thinking"} /\ IsSequence(k.text)
  /\ DOMAIN s = {"ended", "by", "ends", "error", "final", "text", "attributes"} /\ s.text = k.text

Tells(e, k, s, l, t) ==
  /\ Match(l, t) /\ t.ended = s.ended /\ t.by = s.by /\ t.ends = s.ends
  /\ e.type = "stop" =>
       /\ t.final = [reason |-> e.reason, usage |-> e.usage] /\ l.reason = e.reason
       /\ l.usage = (IF e.usage # NoUsage THEN e.usage ELSE k.usage) /\ l.thinking = k.thinking \o e.thinking
  /\ e.type # "stop" =>
       /\ t.final = s.final /\ l.reason = k.reason /\ l.thinking = k.thinking
       /\ l.usage = (IF e.type = "start" /\ e.usage # NoUsage THEN e.usage ELSE k.usage)

LEMMA EventTells ==
  ASSUME NEW k, NEW s, Match(k, s), NEW e, AnEvent(e)
  PROVE  Tells(e, k, s, Collect(k, e), Trace(s, e))
<1> DEFINE l == Collect(k, e)
           t == Trace(s, e)
           usage == IF e.usage # NoUsage THEN e.usage ELSE k.usage
<1>1. CASE e.type = "start"
  <2>1. l = [k EXCEPT !.usage = usage] /\ t = s
    BY <1>1 DEF Collect, Trace
  <2> HIDE DEF l, t
  <2>2. Tells(e, k, s, l, t)
    BY <1>1, <2>1 DEF Match, Tells
  <2> QED BY <2>2 DEF l, t
<1>2. CASE e.type = "content"
  <2> DEFINE text == k.text \o e.text
  <2>1. l = [k EXCEPT !.text = text] /\ t = [s EXCEPT !.text = text]
    BY <1>2 DEF Collect, Trace, Match
  <2>2. IsSequence(text)
    BY Joined2 DEF Match, AnEvent
  <2> HIDE DEF l, t, text
  <2>3. Tells(e, k, s, l, t)
    BY <1>2, <2>1, <2>2 DEF Match, Tells
  <2> QED BY <2>3 DEF l, t
<1>3. CASE e.type = "tool"
  <2>1. t = s
    BY <1>3 DEF Trace
  <2>2. l = k \/ \E x : l = [k EXCEPT !.calls = x]
    BY <1>3 DEF Collect
  <2> HIDE DEF l, t
  <2>3. Tells(e, k, s, l, t)
    BY <1>3, <2>1, <2>2 DEF Match, Tells
  <2> QED BY <2>3 DEF l, t
<1>4. CASE e.type = "stop"
  <2> DEFINE thinking == k.thinking \o e.thinking
             final == [reason |-> e.reason, usage |-> e.usage]
  <2>1. l = [k EXCEPT !.reason = e.reason, !.usage = usage, !.thinking = thinking]
        /\ t = [s EXCEPT !.final = final]
    BY <1>4 DEF Collect, Trace
  <2> HIDE DEF l, t, thinking, final
  <2>2. /\ DOMAIN l = DOMAIN k /\ l.text = k.text /\ l.reason = e.reason /\ l.usage = usage
        /\ l.thinking = thinking
    BY <2>1 DEF Match
  <2>3. /\ DOMAIN t = DOMAIN s /\ t.text = s.text /\ t.final = final /\ t.ended = s.ended /\ t.by = s.by
        /\ t.ends = s.ends
    BY <2>1 DEF Match
  <2>4. Match(l, t)
    BY <2>2, <2>3 DEF Match
  <2>5. Tells(e, k, s, l, t)
    BY <1>4, <2>2, <2>3, <2>4 DEF Tells, thinking, final
  <2> QED BY <2>5 DEF l, t
<1> QED BY <1>1, <1>2, <1>3, <1>4 DEF AnEvent

LEMMA FilteredTells ==
  ASSUME Match(kept, span), IsSequence(filter.buf), filter.inThink \in BOOLEAN, NEW e, AnEvent(e)
  PROVE  LET out == Filtered(e)
         IN /\ IsSequence(out[1].buf) /\ out[1].inThink \in BOOLEAN
            /\ Tells(e, kept, span, CollectAll(kept, out[2]), TraceAll(span, out[2]))
<1> DEFINE out == Filtered(e)
           fed == Feed(filter, e.text)
           held == Flush(filter)
           stop == IF call.filter = "extract" THEN [e EXCEPT !.thinking = ExtractParts(@)]
                   ELSE [e EXCEPT !.thinking = StripParts(@)]
           Good(o) == /\ IsSequence(o[1].buf) /\ o[1].inThink \in BOOLEAN
                      /\ Tells(e, kept, span, CollectAll(kept, o[2]), TraceAll(span, o[2]))
<1>1. IsSequence(e.text) /\ Thought(e.thinking)
  BY DEF AnEvent
<1>2. Good(<<filter, <<e>>>>)
  <2>1. Tells(e, kept, span, Collect(kept, e), Trace(span, e))
    BY EventTells
  <2>2. CollectAll(kept, <<e>>) = Collect(kept, e) /\ TraceAll(span, <<e>>) = Trace(span, e)
    BY CollectsInOrder, TracesInOrder
  <2> QED BY <2>1, <2>2
<1>3. CASE call.filter # "off" /\ e.type = "content"
  <2> DEFINE next == [buf |-> fed.buf, inThink |-> fed.inThink]
             d == TextEvent(fed.out)
  <2>1. IsSequence(fed.buf) /\ fed.inThink \in BOOLEAN /\ IsSequence(fed.out)
    BY <1>1, FeedTyped
  <2>2. out = <<next, IF fed.out = << >> THEN << >> ELSE <<d>>>>
    BY <1>3 DEF Filtered
  <2>3. IsSequence(next.buf) /\ next.inThink \in BOOLEAN
    BY <2>1
  <2> HIDE DEF fed, next, d, out
  <2>4. CASE out = <<next, << >>>>
    <3>1. CollectAll(kept, << >>) = kept /\ TraceAll(span, << >>) = span
      BY CollectsInOrder, TracesInOrder
    <3>2. Tells(e, kept, span, kept, span)
      BY <1>3 DEF Tells
    <3>3. out[1] = next /\ out[2] = << >>
      BY <2>4
    <3> QED BY <2>3, <3>1, <3>2, <3>3 DEF out
  <2>5. CASE out = <<next, <<d>>>>
    <3>1. AnEvent(d) /\ d.type = "content"
      BY <2>1, Events DEF PlainEvent, TextEvent, Event, d
    <3>2. Tells(d, kept, span, Collect(kept, d), Trace(span, d))
      BY <3>1, EventTells
    <3>3. Tells(e, kept, span, Collect(kept, d), Trace(span, d))
      BY <1>3, <3>1, <3>2 DEF Tells
    <3>4. CollectAll(kept, <<d>>) = Collect(kept, d) /\ TraceAll(span, <<d>>) = Trace(span, d)
      BY CollectsInOrder, TracesInOrder
    <3>5. out[1] = next /\ out[2] = <<d>>
      BY <2>5
    <3> QED BY <2>3, <3>3, <3>4, <3>5 DEF out
  <2> QED BY <2>2, <2>4, <2>5
<1>4. CASE call.filter # "off" /\ e.type = "stop"
  <2> DEFINE d == TextEvent(held)
  <2>1. AnEvent(stop) /\ stop.type = "stop" /\ stop.reason = e.reason /\ stop.usage = e.usage
        /\ stop.thinking = e.thinking
    <3>1. StripParts(e.thinking) = e.thinking /\ ExtractParts(e.thinking) = e.thinking
      BY <1>1, ThoughtsPass
    <3> QED BY <1>4, <3>1 DEF AnEvent
  <2>2. out = <<NewFilter, (IF held = << >> THEN << >> ELSE <<d>>) \o <<stop>>>>
    BY <1>4 DEF Filtered
  <2>3. IsSequence(held)
    BY Events DEF Flush
  <2>4. IsSequence(NewFilter.buf) /\ NewFilter.inThink \in BOOLEAN
    BY Events DEF NewFilter
  <2> HIDE DEF stop, held, out
  <2>5. CASE held = << >>
    <3>1. << >> \o <<stop>> = <<stop>>
      OBVIOUS
    <3>2. out[1] = NewFilter /\ out[2] = <<stop>>
      BY <2>2, <2>5, <3>1
    <3>3. Tells(stop, kept, span, Collect(kept, stop), Trace(span, stop))
      BY <2>1, EventTells
    <3>4. Tells(e, kept, span, Collect(kept, stop), Trace(span, stop))
      BY <1>4, <2>1, <3>3 DEF Tells
    <3>5. CollectAll(kept, <<stop>>) = Collect(kept, stop) /\ TraceAll(span, <<stop>>) = Trace(span, stop)
      BY CollectsInOrder, TracesInOrder
    <3> QED BY <2>4, <3>2, <3>4, <3>5 DEF out
  <2>6. CASE held # << >>
    <3> DEFINE k == Collect(kept, d)
               s == Trace(span, d)
    <3>1. AnEvent(d) /\ d.type = "content"
      BY <2>3, Events DEF PlainEvent, TextEvent, Event
    <3> HIDE DEF d
    <3>2. out[1] = NewFilter /\ out[2] = <<d, stop>>
      BY <2>2, <2>6, PairOf
    <3>3. Tells(d, kept, span, k, s)
      BY <3>1, EventTells
    <3> HIDE DEF k, s
    <3>4. Tells(stop, k, s, Collect(k, stop), Trace(s, stop))
      BY <2>1, <3>3, EventTells DEF Tells
    <3>5. Tells(e, kept, span, Collect(k, stop), Trace(s, stop))
      BY <1>4, <2>1, <3>1, <3>3, <3>4 DEF Tells
    <3>6. /\ CollectAll(kept, <<d, stop>>) = Collect(k, stop)
          /\ TraceAll(span, <<d, stop>>) = Trace(s, stop)
      BY CollectsInOrder, TracesInOrder DEF k, s
    <3> QED BY <2>4, <3>2, <3>5, <3>6 DEF out
  <2> QED BY <2>5, <2>6
<1>5. CASE call.filter = "off" \/ e.type \notin {"content", "stop"}
  <2>1. out = <<filter, <<e>>>>
    BY <1>5 DEF Filtered
  <2> HIDE DEF out
  <2>2. Good(out)
    BY <1>2, <2>1
  <2> QED BY <2>2 DEF out
<1> QED BY <1>3, <1>4, <1>5

(* The tail of what is pending, and what it means for a reader.            *)
LEMMA TailKeeps ==
  ASSUME AReader(reader), reader.pending # << >>, NEW a, NoStop(a, reader), NEW s,
         s = [reader EXCEPT !.pending = Tail(@)]
  PROVE  AReader(s) /\ NoStop(a, s)
<1> DEFINE p == reader.pending
           q == Tail(p)
           C == ToSet(p)
<1>1. p \in Seq(C) /\ p # << >>
  BY DEF NoStop, IsSequence
<1> HIDE DEF p, C
<1>2. q \in Seq(C) /\ Len(q) = Len(p) - 1 /\ \A i \in 1 .. Len(q) : q[i] = p[i + 1]
  BY <1>1, HeadTailProperties
<1>3. IsSequence(q) /\ \A i \in DOMAIN q : i + 1 \in DOMAIN p /\ q[i] = p[i + 1]
  <2>1. DOMAIN q = 1 .. Len(q) /\ DOMAIN p = 1 .. Len(p) /\ Len(p) \in Nat /\ Len(q) \in Nat
    BY <1>1, <1>2
  <2> HIDE DEF q
  <2>2. IsSequence(q)
    BY <1>2, Sequences
  <2> QED BY <1>2, <2>1, <2>2
<1> HIDE DEF q
<1>4. s = [reader EXCEPT !.pending = q]
  BY DEF p, q
<1>5. /\ DOMAIN s = DOMAIN reader /\ s.pending = q /\ s.stopped = reader.stopped /\ s.held = reader.held
      /\ s.usage = reader.usage /\ s.fail = reader.fail /\ reader.fail = ""
  BY <1>4 DEF AReader
<1>6. AReader(s)
  BY <1>5 DEF AReader
<1>7. ASSUME NEW i \in DOMAIN s.pending
      PROVE  s.pending[i] = p[i + 1] /\ i + 1 \in DOMAIN p
  BY <1>3, <1>5
<1>8. NoStop(a, s)
  <2>1. ASSUME NEW j \in DOMAIN p
        PROVE  /\ AnEvent(p[j]) /\ p[j].type # "stop"
               /\ p[j].type = "start" /\ p[j].usage # NoUsage =>
                    a = "anthropic" /\ ~reader.stopped /\ reader.usage # NoUsage
    BY DEF NoStop, p
  <2>2. IsSequence(s.pending)
    BY <1>3, <1>5
  <2>3. ASSUME NEW i \in DOMAIN s.pending
        PROVE  /\ AnEvent(s.pending[i]) /\ s.pending[i].type # "stop"
               /\ s.pending[i].type = "start" /\ s.pending[i].usage # NoUsage =>
                    a = "anthropic" /\ ~s.stopped /\ s.usage # NoUsage
    BY <1>5, <1>7, <2>1
  <2> QED BY <2>2, <2>3 DEF NoStop
<1> QED BY <1>6, <1>8

SpanKept == span'.ended = span.ended /\ span'.by = span.by /\ span'.ends = span.ends

LEMMA DeliversKeepsStream ==
  StreamInv /\ SpanInv /\ Delivers => StreamInv' /\ Match(kept', span') /\ SpanKept
<1> SUFFICES ASSUME StreamInv, SpanInv, Delivers PROVE StreamInv' /\ Match(kept', span') /\ SpanKept
  OBVIOUS
<1> DEFINE e == Head(reader.pending)
           out == Filtered(e)
           a == call.adapter
<1>1. /\ phase = "open" /\ reader.pending # << >> /\ filter' = out[1] /\ kept' = CollectAll(kept, out[2])
      /\ span' = TraceAll(span, out[2]) /\ reader' = [reader EXCEPT !.pending = Tail(@)]
      /\ call' = call /\ at' = at
  BY DEF Delivers
<1>2. OneStop(reader) => e = reader.pending[1] /\ AnEvent(e) /\ e.type = "stop"
  BY DEF OneStop
<1>3. NoStop(a, reader) =>
        /\ AnEvent(e) /\ e.type # "stop"
        /\ e.type = "start" /\ e.usage # NoUsage => a = "anthropic" /\ ~reader.stopped /\ reader.usage # NoUsage
  <2> SUFFICES ASSUME NoStop(a, reader)
               PROVE  /\ AnEvent(e) /\ e.type # "stop"
                      /\ e.type = "start" /\ e.usage # NoUsage =>
                           a = "anthropic" /\ ~reader.stopped /\ reader.usage # NoUsage
    OBVIOUS
  <2>1. reader.pending \in Seq(ToSet(reader.pending))
    BY DEF NoStop, IsSequence
  <2>2. e = reader.pending[1] /\ 1 \in DOMAIN reader.pending
    BY <1>1, <2>1
  <2> HIDE DEF e
  <2> QED BY <2>2 DEF NoStop
<1>4. AnEvent(e) /\ (OneStop(reader) <=> e.type = "stop")
  BY <1>2, <1>3 DEF StreamInv
<1>5. Match(kept, span) /\ IsSequence(filter.buf) /\ filter.inThink \in BOOLEAN
  BY <1>1 DEF StreamInv, StreamTyped, SpanInv, Match
<1>6. /\ IsSequence(filter'.buf) /\ filter'.inThink \in BOOLEAN
      /\ Tells(e, kept, span, kept', span')
  <2> HIDE DEF e
  <2> QED BY <1>1, <1>4, <1>5, FilteredTells
<1> HIDE DEF out
<1>7. Match(kept', span') /\ SpanKept
  BY <1>6 DEF Tells, SpanKept
<1>8. /\ AReader(reader) /\ reader.fail = "" /\ reader'.stopped = reader.stopped /\ reader'.held = reader.held
      /\ reader'.usage = reader.usage /\ reader'.fail = "" /\ reader'.pending = Tail(reader.pending)
  BY <1>1 DEF StreamInv, AReader
<1>9. a = "anthropic" => at'.phase # "open" /\ reader'.held = << >>
  BY <1>1, <1>8 DEF StreamInv
<1>10. CASE OneStop(reader)
  <2>1. /\ reader.stopped /\ Untold /\ (e.usage = NoUsage => kept.usage = NoUsage)
    <3>1. ~NoStop(a, reader)
      BY <1>2, <1>3, <1>10
    <3> QED BY <1>2, <1>10, <3>1 DEF StreamInv
  <2>2. /\ e.type = "stop" /\ Thought(e.thinking) /\ IsSequence(e.thinking)
    <3>1. Thought(e.thinking) /\ e.type = "stop"
      BY <1>4, <1>10 DEF AnEvent
    <3>2. IsSequence(e.thinking)
      <4> DEFINE p == Part("thinking", e.thinking[1].text, e.thinking[1].sig)
      <4>1. e.thinking = << >> \/ e.thinking = <<p>>
        BY <3>1 DEF Thought
      <4> HIDE DEF p, e
      <4>2. << >> \in Seq({p}) /\ <<p>> \in Seq({p})
        OBVIOUS
      <4>3. e.thinking \in Seq({p})
        BY <4>1, <4>2
      <4> QED BY <4>3, Sequences
    <3> QED BY <3>1, <3>2
  <2>3. /\ span'.final = [reason |-> e.reason, usage |-> e.usage] /\ kept'.reason = e.reason
        /\ kept'.usage = e.usage /\ kept'.thinking = e.thinking
    <3>1. << >> \o e.thinking = e.thinking /\ kept.thinking = << >>
      BY <2>1, <2>2, EmptyBefore DEF Untold
    <3> HIDE DEF e
    <3> QED BY <1>6, <2>1, <2>2, <3>1 DEF Tells
  <2>4. Told'
    BY <1>8, <2>1, <2>3 DEF Told
  <2>5. StreamTyped'
    BY <1>1, <1>6, <1>7, <2>2, <2>3 DEF StreamInv, StreamTyped, Match
  <2>6. reader'.pending = << >>
    <3>1. \A x : Tail(<<x>>) = << >>
      OBVIOUS
    <3> QED BY <1>8, <1>10, <3>1 DEF OneStop
  <2>7. AReader(reader')
    BY <1>1, <1>8 DEF AReader
  <2>8. NoStop(a, reader')
    BY <2>6, NothingPending
  <2> QED BY <1>1, <1>7, <1>9, <2>4, <2>5, <2>7, <2>8 DEF StreamInv
<1>11. CASE ~OneStop(reader)
  <2>1. NoStop(a, reader) /\ (reader.stopped => Told)
    BY <1>8, <1>11 DEF StreamInv
  <2>2. /\ e.type # "stop"
        /\ e.type = "start" /\ e.usage # NoUsage => a = "anthropic" /\ ~reader.stopped /\ reader.usage # NoUsage
    BY <1>3, <2>1
  <2>3. /\ span'.final = span.final /\ kept'.reason = kept.reason /\ kept'.thinking = kept.thinking
        /\ kept'.usage = (IF e.type = "start" /\ e.usage # NoUsage THEN e.usage ELSE kept.usage)
    <3> HIDE DEF e
    <3> QED BY <1>6, <2>2 DEF Tells
  <2>4. AReader(reader') /\ NoStop(a, reader')
    BY <1>1, <1>8, <2>1, TailKeeps
  <2>5. StreamTyped'
    BY <1>1, <1>6, <1>7, <2>3 DEF StreamInv, StreamTyped, Match
  <2> HIDE DEF e
  <2>6. Told => Told'
    BY <1>8, <2>2, <2>3 DEF Told
  <2>7. Untold => Untold'
    BY <1>1, <1>8, <2>2, <2>3 DEF Untold
  <2>8. Untold' \/ Told'
    BY <2>6, <2>7 DEF StreamInv
  <2> QED BY <1>1, <1>7, <1>8, <1>9, <2>1, <2>4, <2>5, <2>6, <2>8 DEF StreamInv
<1> QED BY <1>10, <1>11

-----------------------------------------------------------------------------
(* The span.                                                               *)

LEMMA SpanInit == CallInit => SpanInv
<1> SUFFICES ASSUME CallInit PROVE SpanInv
  OBVIOUS
<1>1. phase = "calling" /\ span = NewSpan /\ kept = NothingKept /\ result = NoResult
  BY DEF CallInit
<1>2. Nothing \notin {"caller", "watcher"}
  BY FailureAssumption
<1>3. span.by = Nothing /\ ~span.ended /\ span.ends = 0 /\ span.text = << >> /\ kept.text = << >>
  BY <1>1 DEF NewSpan, NothingKept
<1>4. span.ended = FALSE
  BY <1>1 DEF NewSpan
<1> QED BY <1>1, <1>2, <1>3, <1>4 DEF SpanInv

(* A call that returns ends its span at once.                              *)
LEMMA ReturnKeeps ==
  ASSUME StreamInv, SpanInv, phase \in {"calling", "sleeping"}, call' = call, NEW r, Return(r), r # NoResult, r.error # "panic"
  PROVE  StreamInv' /\ SpanInv'
<1> DEFINE s == EndAtOnce(r)
<1>1. result' = r /\ span' = s /\ phase' = "done" /\ streamVars' = streamVars
  BY DEF Return
<1>2. DOMAIN span = {"ended", "by", "ends", "error", "final", "text", "attributes"}
  BY DEF StreamInv, StreamTyped
<1>3. span.by = Nothing /\ span.ends = 0 /\ ~span.ended
  BY FailureAssumption DEF SpanInv
<1>4. /\ DOMAIN s = DOMAIN span /\ s.final = span.final /\ s.ended = TRUE /\ s.by = "caller" /\ s.ends = 1
      /\ s.error = r.error
      /\ r.error = "" => /\ s.attributes = [reason |-> r.reason, usage |-> r.usage]
                         /\ s.text = Texts(r.message.parts)
  <2> DEFINE attributes == IF r.error = "" THEN [reason |-> r.reason, usage |-> r.usage] ELSE Nothing
             text == IF r.error = "" THEN Texts(r.message.parts) ELSE << >>
  <2>1. s = [span EXCEPT !.ended = TRUE, !.by = "caller", !.ends = span.ends + 1, !.error = r.error,
                         !.attributes = attributes, !.text = text]
    BY DEF EndAtOnce
  <2> HIDE DEF s, attributes, text
  <2>2. /\ DOMAIN s = DOMAIN span /\ s.final = span.final /\ s.ended = TRUE /\ s.by = "caller"
        /\ s.ends = span.ends + 1 /\ s.error = r.error /\ s.attributes = attributes /\ s.text = text
    BY <1>2, <2>1
  <2>3. r.error = "" => attributes = [reason |-> r.reason, usage |-> r.usage] /\ text = Texts(r.message.parts)
    BY DEF attributes, text
  <2>4. s.ends = 1
    BY <1>3, <2>2
  <2>5. r.error = "" => /\ s.attributes = [reason |-> r.reason, usage |-> r.usage]
                       /\ s.text = Texts(r.message.parts)
    BY <2>2, <2>3, Zenon
  <2> QED BY <2>2, <2>4, <2>5, Zenon
<1> HIDE DEF s
<1>5. StreamInv'
  BY <1>1, <1>4, OthersKeepStream
<1>6. SpanTellsTheOutcome'
  <2>1. /\ span'.ends = 1 /\ span'.ended /\ span'.by = "caller" /\ span'.error = result'.error
        /\ result' # NoResult
    BY <1>1, <1>4
  <2>4. span'.error = ErrorTold(result')
    BY <1>1, <2>1 DEF ErrorTold
  <2>2. result'.error = "" => /\ span'.attributes = [reason |-> result'.reason, usage |-> result'.usage]
                             /\ span'.text = Texts(result'.message.parts)
    BY <1>1, <1>4
  <2>3. span'.ends <= 1 /\ span'.by # "watcher"
    BY <2>1
  <2> QED BY <2>1, <2>2, <2>3, <2>4, Zenon DEF SpanTellsTheOutcome
<1>7. SpanInv'
  BY <1>1, <1>4, <1>6, FailureAssumption DEF SpanInv
<1> QED BY <1>5, <1>7

LEMMA SucceedsKeepsSpan == RetryInv /\ StreamInv /\ SpanInv /\ Succeeds => StreamInv' /\ SpanInv'
<1> SUFFICES ASSUME RetryInv, StreamInv, SpanInv, Succeeds PROVE StreamInv' /\ SpanInv'
  OBVIOUS
<1>1. phase = "calling" /\ call' = call /\ cancelled' = cancelled /\ (Opens \/ Generates)
  BY DEF Succeeds
<1>2. CASE Opens
  <2>1. phase' = "open" /\ span' = span /\ result' = result /\ streamVars' = streamVars
    BY <1>2 DEF Opens
  <2>2. StreamInv'
    BY <1>1, <2>1, OthersKeepStream
  <2> QED BY <1>1, <2>1, <2>2, FailureAssumption DEF SpanInv, streamVars
<1>3. CASE Generates
  <2> DEFINE r == Answer(Generated, call.reason, call.usage)
  <2>1. r.error = "" /\ r.error # "panic" /\ NoResult.error = "none yet"
    BY DEF Answer, NoResult, Failed
  <2>2. Return(r)
    BY <1>3 DEF Generates
  <2> HIDE DEF r
  <2> QED BY <1>1, <2>1, <2>2, ReturnKeeps
<1> QED BY <1>1, <1>2, <1>3

LEMMA FailsKeepsSpan == \A f \in Failures : RetryInv /\ StreamInv /\ SpanInv /\ Fails(f) => StreamInv' /\ SpanInv'
<1> SUFFICES ASSUME NEW f \in Failures, RetryInv, StreamInv, SpanInv, Fails(f) PROVE StreamInv' /\ SpanInv'
  OBVIOUS
<1> DEFINE kind == Kind(call.adapter, f)
<1>1. phase = "calling" /\ call' = call /\ cancelled' = cancelled
  BY DEF Fails
<1>2. Return(Failed(kind)) \/ (phase' = "sleeping" /\ UNCHANGED <<result, span, streamVars>>)
  BY DEF Fails
<1>3. kind \notin {"none yet", "panic"}
  BY Kinds, CallAssumption DEF RetryInv
<1> HIDE DEF kind
<1>4. Failed(kind) # NoResult /\ Failed(kind).error # "panic"
  BY <1>3 DEF Failed, NoResult
<1>5. CASE Return(Failed(kind))
  BY <1>1, <1>4, <1>5, ReturnKeeps
<1>6. CASE phase' = "sleeping" /\ UNCHANGED <<result, span, streamVars>>
  <2>1. StreamInv'
    BY <1>1, <1>6, OthersKeepStream
  <2> QED BY <1>1, <1>6, <2>1, FailureAssumption DEF SpanInv, streamVars
<1> QED BY <1>2, <1>5, <1>6

(* What leaves result and span alone, and neither ends nor returns.        *)
LEMMA OthersKeepSpan ==
  ASSUME SpanInv, span' = span, kept' = kept, call' = call, reader'.stopped = reader.stopped,
         result' = result, cancelled' \in {cancelled, TRUE},
         \/ phase' = phase
         \/ phase = "sleeping" /\ phase' = "calling"
         \/ phase = "open" /\ phase' = "left"
  PROVE  SpanInv'
<1>1. (Told <=> Told') /\ (Collected = Collected')
  BY DEF Told, Collected
<1>2. phase' = "done" /\ span.by = "caller" /\ SpanTellsTheOutcome => SpanTellsTheOutcome'
  BY FailureAssumption DEF SpanTellsTheOutcome, SpanInv
<1> QED BY <1>1, <1>2, FailureAssumption DEF SpanInv

(* Somebody takes the span that nobody has.                                *)
LEMMA TakeIs ==
  ASSUME StreamInv, NEW who
  PROVE  /\ DOMAIN Take(who) = DOMAIN span /\ Take(who).by = who /\ Take(who).ended = TRUE
         /\ Take(who).ends = span.ends /\ Take(who).final = span.final /\ Take(who).text = span.text
BY DEF StreamInv, StreamTyped, Take

LEMMA WrittenIs ==
  ASSUME StreamInv, span.ends = 0, NEW error, NEW attributes, NEW s, s = Written(error, attributes)
  PROVE  /\ DOMAIN s = DOMAIN span /\ s.by = span.by /\ s.ended = span.ended /\ s.ends = 1
         /\ s.final = span.final /\ s.text = span.text /\ s.error = error /\ s.attributes = attributes
<1>1. DOMAIN span = {"ended", "by", "ends", "error", "final", "text", "attributes"}
  BY DEF StreamInv, StreamTyped
<1>2. s = [span EXCEPT !.ends = span.ends + 1, !.error = error, !.attributes = attributes]
  BY DEF Written
<1>3. /\ DOMAIN s = DOMAIN span /\ s.by = span.by /\ s.ended = span.ended /\ s.ends = span.ends + 1
      /\ s.final = span.final /\ s.text = span.text /\ s.error = error /\ s.attributes = attributes
  BY <1>1, <1>2
<1> QED BY <1>3

LEMMA DeliversKeepsSpan == StreamInv /\ SpanInv /\ Delivers => SpanInv'
<1> SUFFICES ASSUME StreamInv, SpanInv, Delivers PROVE SpanInv'
  OBVIOUS
<1>1. phase = "open" /\ phase' = phase /\ result' = result /\ cancelled' = cancelled
  BY DEF Delivers
<1>2. kept'.text = span'.text /\ span'.ended = span.ended /\ span'.by = span.by /\ span'.ends = span.ends
  BY DeliversKeepsStream DEF Match, SpanKept
<1> QED BY <1>1, <1>2, FailureAssumption DEF SpanInv

(* The stream is read to its end, fails, or is given up.                   *)
LEMMA FinishesKeeps == StreamInv /\ SpanInv /\ Finishes => StreamInv' /\ SpanInv'
<1> SUFFICES ASSUME StreamInv, SpanInv, Finishes PROVE StreamInv' /\ SpanInv'
  OBVIOUS
<1>1. /\ phase = "open" /\ call' = call /\ cancelled' = cancelled /\ streamVars' = streamVars
      /\ result' = IF reader.fail = "eof" THEN Collected
                   ELSE IF reader.fail # "" THEN Failed(reader.fail) ELSE Failed("cancelled")
  BY DEF Finishes
<1>2. reader' = reader /\ kept' = kept
  BY <1>1 DEF streamVars
<1>3. result'.error = "" => result' = Collected /\ Told
  <2>1. \A why : why # "" => Failed(why).error # ""
    BY DEF Failed
  <2>2. result'.error = "" => reader.fail = "eof" /\ result' = Collected
    BY <1>1, <2>1
  <2>3. ASSUME reader.fail = "eof" PROVE Told
    <3>1. reader.stopped /\ reader.pending = << >>
      BY <2>3 DEF StreamInv, AReader
    <3>2. ~OneStop(reader)
      BY <3>1, NothingPending
    <3> QED BY <2>3, <3>1, <3>2 DEF StreamInv
  <2> QED BY <2>2, <2>3
<1>4. CASE span.ended /\ phase' = "done" /\ span' = span
  <2>1. StreamInv'
    BY <1>1, <1>4, OthersKeepStream
  <2>2. span'.by = "watcher"
    BY <1>1, <1>4, FailureAssumption DEF SpanInv
  <2> QED BY <1>1, <1>4, <2>1, <2>2, FailureAssumption DEF SpanInv
<1>5. CASE ~span.ended /\ phase' = "ending" /\ span' = Take("caller")
  <2>1. /\ DOMAIN span' = DOMAIN span /\ span'.by = "caller" /\ span'.ended = TRUE
        /\ span'.ends = span.ends /\ span'.final = span.final /\ span'.text = span.text
    BY <1>5, TakeIs
  <2>2. StreamInv'
    BY <1>1, <2>1, OthersKeepStream
  <2>3. result'.error = "" => result' = Collected' /\ Told'
    BY <1>2, <1>3, <2>1 DEF Told, Collected
  <2>4. span.ends = 0 /\ span'.text = kept'.text
    BY <1>1, <1>2, <1>5, <2>1 DEF SpanInv
  <2> QED BY <1>1, <1>5, <2>1, <2>2, <2>3, <2>4, FailureAssumption DEF SpanInv
<1> QED BY <1>4, <1>5 DEF Finishes

(* The filter panics, and the span is closed on the way up.                *)
LEMMA PanicsKeeps == StreamInv /\ SpanInv /\ Panics => StreamInv' /\ SpanInv'
<1> SUFFICES ASSUME StreamInv, SpanInv, Panics PROVE StreamInv' /\ SpanInv'
  OBVIOUS
<1>1. /\ phase = "open" /\ call' = call /\ cancelled' = cancelled /\ streamVars' = streamVars
      /\ result'.error # "" /\ kept' = kept
  BY DEF Panics, streamVars, Failed
<1>2. CASE span.ended /\ phase' = "done" /\ span' = span
  <2>1. StreamInv'
    BY <1>1, <1>2, OthersKeepStream
  <2>2. span'.by = "watcher"
    BY <1>1, <1>2, FailureAssumption DEF SpanInv
  <2> QED BY <1>1, <1>2, <2>1, <2>2, FailureAssumption DEF SpanInv
<1>3. CASE ~span.ended /\ phase' = "ending" /\ span' = Take("caller")
  <2>1. /\ DOMAIN span' = DOMAIN span /\ span'.by = "caller" /\ span'.ended = TRUE
        /\ span'.ends = span.ends /\ span'.final = span.final /\ span'.text = span.text
    BY <1>3, TakeIs
  <2>2. StreamInv'
    BY <1>1, <2>1, OthersKeepStream
  <2>3. span.ends = 0 /\ span'.text = kept'.text
    BY <1>1, <1>3, <2>1 DEF SpanInv
  <2> QED BY <1>1, <1>3, <2>1, <2>2, <2>3, FailureAssumption DEF SpanInv
<1> QED BY <1>2, <1>3 DEF Panics

LEMMA ConsumerClosesKeeps == StreamInv /\ SpanInv /\ ConsumerCloses => StreamInv' /\ SpanInv'
<1> SUFFICES ASSUME StreamInv, SpanInv, ConsumerCloses PROVE StreamInv' /\ SpanInv'
  OBVIOUS
<1>1. /\ phase \in {"open", "left"} /\ call' = call /\ cancelled' = cancelled /\ streamVars' = streamVars
      /\ result' = result /\ kept' = kept
  BY DEF ConsumerCloses, streamVars
<1>2. CASE span.ended /\ phase' = "done" /\ span' = span
  <2>1. StreamInv'
    BY <1>1, <1>2, OthersKeepStream
  <2>2. span'.by = "watcher"
    BY <1>1, <1>2, FailureAssumption DEF SpanInv
  <2> QED BY <1>1, <1>2, <2>1, <2>2, FailureAssumption DEF SpanInv
<1>3. CASE ~span.ended /\ phase' = "ending" /\ span' = Take("caller")
  <2>1. /\ DOMAIN span' = DOMAIN span /\ span'.by = "caller" /\ span'.ended = TRUE
        /\ span'.ends = span.ends /\ span'.final = span.final /\ span'.text = span.text
    BY <1>3, TakeIs
  <2>2. StreamInv'
    BY <1>1, <2>1, OthersKeepStream
  <2>3. result'.error # ""
    <3>1. result' = NoResult
      BY <1>1 DEF SpanInv
    <3>2. NoResult.error = "none yet"
      BY DEF NoResult, Failed
    <3> QED BY <3>1, <3>2
  <2>4. span.ends = 0 /\ span'.text = kept'.text
    BY <1>1, <1>3, <2>1 DEF SpanInv
  <2> QED BY <1>1, <1>3, <2>1, <2>2, <2>3, <2>4, FailureAssumption DEF SpanInv
<1> QED BY <1>2, <1>3 DEF ConsumerCloses

(* The caller writes the span: what it collected is what the span saw.     *)
LEMMA EndsSpanKeeps == StreamInv /\ SpanInv /\ EndsSpan => StreamInv' /\ SpanInv'
<1> SUFFICES ASSUME StreamInv, SpanInv, EndsSpan PROVE StreamInv' /\ SpanInv'
  OBVIOUS
<1> DEFINE error == ErrorTold(result)
<1>1. /\ phase = "ending" /\ phase' = "done" /\ call' = call /\ cancelled' = cancelled /\ result' = result
      /\ streamVars' = streamVars /\ kept' = kept /\ span' = Written(error, span.final)
  BY DEF EndsSpan, streamVars
<1>2. span.by = "caller" /\ span.ends = 0 /\ span.ended /\ span.text = kept.text
  BY <1>1, FailureAssumption DEF SpanInv
<1>3. /\ DOMAIN span' = DOMAIN span /\ span'.by = "caller" /\ span'.ended /\ span'.ends = 1
      /\ span'.final = span.final /\ span'.text = span.text /\ span'.error = error
      /\ span'.attributes = span.final
  <2> HIDE DEF error
  <2>1. span' = [span EXCEPT !.ends = span.ends + 1, !.error = error, !.attributes = span.final]
    BY <1>1 DEF Written
  <2>2. DOMAIN span = {"ended", "by", "ends", "error", "final", "text", "attributes"}
    BY DEF StreamInv, StreamTyped
  <2>3. /\ DOMAIN span' = DOMAIN span /\ span'.by = span.by /\ span'.ended = span.ended
        /\ span'.ends = span.ends + 1 /\ span'.final = span.final /\ span'.text = span.text
        /\ span'.error = error /\ span'.attributes = span.final
    BY <2>1, <2>2
  <2>4. span'.ends = 1
    BY <1>2, <2>3
  <2> QED BY <1>2, <2>3, <2>4, Zenon
<1>4. StreamInv'
  BY <1>1, <1>3, OthersKeepStream
<1>5. ASSUME result.error = ""
      PROVE  /\ span'.attributes = [reason |-> result.reason, usage |-> result.usage]
             /\ span'.text = Texts(result.message.parts)
  <2> DEFINE parts == kept.thinking \o (IF kept.text = << >> THEN << >> ELSE <<Part("text", kept.text, "")>>)
  <2>1. result = Collected /\ Told
    BY <1>1, <1>5 DEF SpanInv
  <2>2. result.reason = kept.reason /\ result.usage = kept.usage /\ result.message.parts = parts
    BY <2>1 DEF Collected, Answer, Message
  <2>3. Texts(parts) = kept.text
    <3>1. Thought(kept.thinking) /\ IsSequence(kept.text)
      BY DEF StreamInv, StreamTyped
    <3> QED BY <3>1, TextOfAnswer
  <2> HIDE DEF parts
  <2>4. span'.text = Texts(result.message.parts)
    BY <1>2, <1>3, <2>2, <2>3
  <2>5. span'.attributes = [reason |-> result.reason, usage |-> result.usage]
    BY <1>3, <2>1, <2>2 DEF Told
  <2> QED BY <2>4, <2>5
<1>6. SpanTellsTheOutcome'
  <2>1. span'.ends <= 1 /\ span'.by # "watcher"
    <3>1. span'.ends = 1 /\ span'.by = "caller"
      BY <1>3, Zenon
    <3> QED BY <3>1
  <2>2. span'.error = ErrorTold(result')
    BY <1>1, <1>3
  <2>3. result'.error = "" => /\ span'.attributes = [reason |-> result'.reason, usage |-> result'.usage]
                             /\ span'.text = Texts(result'.message.parts)
    BY <1>1, <1>5
  <2> QED BY <1>3, <2>1, <2>2, <2>3, Zenon DEF SpanTellsTheOutcome
<1>7. SpanInv'
  BY <1>1, <1>3, <1>6, FailureAssumption DEF SpanInv
<1> QED BY <1>4, <1>7

LEMMA WatcherTakesKeeps == StreamInv /\ SpanInv /\ WatcherTakes => StreamInv' /\ SpanInv'
<1> SUFFICES ASSUME StreamInv, SpanInv, WatcherTakes PROVE StreamInv' /\ SpanInv'
  OBVIOUS
<1>1. /\ phase \in {"open", "left"} /\ cancelled /\ ~span.ended /\ phase' = phase /\ call' = call
      /\ cancelled' = cancelled /\ streamVars' = streamVars /\ result' = result /\ kept' = kept
      /\ span' = Take("watcher")
  BY DEF WatcherTakes, streamVars
<1>2. /\ DOMAIN span' = DOMAIN span /\ span'.by = "watcher" /\ span'.ended = TRUE
      /\ span'.ends = span.ends /\ span'.final = span.final /\ span'.text = span.text
  BY <1>1, TakeIs
<1>3. StreamInv'
  BY <1>1, <1>2, OthersKeepStream
<1> QED BY <1>1, <1>2, <1>3, FailureAssumption DEF SpanInv

LEMMA WatcherEndsKeeps == StreamInv /\ SpanInv /\ WatcherEnds => StreamInv' /\ SpanInv'
<1> SUFFICES ASSUME StreamInv, SpanInv, WatcherEnds PROVE StreamInv' /\ SpanInv'
  OBVIOUS
<1>1. /\ span.by = "watcher" /\ span.ends = 0 /\ phase' = phase /\ call' = call
      /\ cancelled' = cancelled /\ streamVars' = streamVars /\ result' = result /\ kept' = kept
      /\ span' = Written("cancelled", Nothing)
  BY DEF WatcherEnds, streamVars
<1>2. /\ DOMAIN span' = DOMAIN span /\ span'.by = "watcher" /\ span'.ended = span.ended /\ span'.ends = 1
      /\ span'.final = span.final /\ span'.text = span.text
  BY <1>1, WrittenIs
<1>3. StreamInv'
  BY <1>1, <1>2, OthersKeepStream
<1>4. span.ended /\ phase \in {"open", "left", "done", phase} /\ phase # "ending" /\ phase \notin {"calling", "sleeping"}
  BY <1>1, FailureAssumption DEF SpanInv
<1> QED BY <1>1, <1>2, <1>3, <1>4, FailureAssumption DEF SpanInv

LEMMA NextKeeps == IInv /\ [CallNext]_callVars => IInv'
<1> SUFFICES ASSUME IInv, [CallNext]_callVars PROVE StreamInv' /\ SpanInv'
  BY NextKeepsRetry DEF IInv
<1> USE DEF IInv
<1>1. CASE Succeeds
  BY <1>1, SucceedsKeepsSpan
<1>2. ASSUME NEW f \in Failures, Fails(f) PROVE StreamInv' /\ SpanInv'
  BY <1>2, FailsKeepsSpan
<1>3. CASE Wake
  BY <1>3, OthersKeepStream, OthersKeepSpan DEF Wake, streamVars
<1>4. CASE GiveUp
  <2>1. Failed("cancelled") # NoResult /\ Failed("cancelled").error # "panic"
    BY DEF Failed, NoResult
  <2> QED BY <1>4, <2>1, ReturnKeeps DEF GiveUp
<1>5. CASE Cancel
  BY <1>5, OthersKeepStream, OthersKeepSpan DEF Cancel, streamVars
<1>6. CASE Reads
  <2>1. StreamInv'
    BY <1>6, ReadsKeepsStream
  <2>2. /\ phase = "open" /\ phase' = phase /\ result' = result /\ cancelled' = cancelled
        /\ span' = span /\ kept' = kept
    BY <1>6 DEF Reads
  <2> QED BY <2>1, <2>2, FailureAssumption DEF SpanInv
<1>7. CASE Delivers
  BY <1>7, DeliversKeepsStream, DeliversKeepsSpan
<1>8. CASE Finishes
  BY <1>8, FinishesKeeps
<1>9. CASE ConsumerCloses
  BY <1>9, ConsumerClosesKeeps
<1>10. CASE EndsSpan
  BY <1>10, EndsSpanKeeps
<1>11. CASE WalksAway
  BY <1>11, OthersKeepStream, OthersKeepSpan DEF WalksAway, streamVars
<1>12. CASE WatcherTakes
  BY <1>12, WatcherTakesKeeps
<1>13. CASE WatcherEnds
  BY <1>13, WatcherEndsKeeps
<1>14. CASE Panics
  BY <1>14, PanicsKeeps
<1>15. CASE UNCHANGED callVars
  BY <1>15, OthersKeepStream, OthersKeepSpan DEF callVars, streamVars
<1> QED
  BY <1>1, <1>2, <1>3, <1>4, <1>5, <1>6, <1>7, <1>8, <1>9, <1>10, <1>11, <1>12, <1>13, <1>14, <1>15 DEF CallNext

(***************************************************************************)
(* The span of a call ends once and tells what became of it: the error the *)
(* caller got, or the reason, the usage and the text of its answer, which  *)
(* the traced reader and CollectStream gather apart from each other.       *)
(***************************************************************************)
THEOREM SpansTellTheOutcome == CallSpec => []SpanTellsTheOutcome
<1>1. CallInit => IInv
  BY RetryInit, StreamInit, SpanInit DEF IInv
<1>2. IInv => SpanTellsTheOutcome
  <2> SUFFICES ASSUME IInv PROVE SpanTellsTheOutcome
    OBVIOUS
  <2>1. CASE phase = "done" /\ span.by = "caller"
    BY <2>1 DEF IInv, SpanInv
  <2>2. CASE ~ (phase = "done" /\ span.by = "caller")
    <3>1. span.ends \in {0, 1} /\ (phase = "done" => span.ended) /\ (span.by = "watcher" => cancelled)
      BY DEF IInv, SpanInv
    <3>2. span.ends <= 1
      BY <3>1
    <3> QED BY <2>2, <3>1, <3>2, Zenon DEF SpanTellsTheOutcome
  <2> QED BY <2>1, <2>2
<1> QED BY <1>1, <1>2, NextKeeps, PTL DEF CallSpec

-----------------------------------------------------------------------------
(***************************************************************************)
(* The exporter. Over a batch, a function that goes on from a row to the   *)
(* next; Inserted is one.                                                  *)
(***************************************************************************)
Folds(f, N, base, step, s) ==
  \A n \in 0 .. N : f[n] = IF n = 0 THEN base ELSE step[<<f[n - 1], s[n]>>]

LEMMA FoldExists ==
  ASSUME NEW T, NEW C, NEW base \in T, NEW step \in [T \X C -> T], NEW s \in Seq(C)
  PROVE  \E f \in [0 .. Len(s) -> T] : Folds(f, Len(s), base, step, s)
<1> DEFINE N == Len(s)
           Good == {k \in 0 .. N : \E f \in [0 .. k -> T] : Folds(f, k, base, step, s)}
<1>0. N \in Nat /\ \A k \in 1 .. N : s[k] \in C
  OBVIOUS
<1>1. 0 \in Good
  <2>1. [n \in 0 .. 0 |-> base] \in [0 .. 0 -> T] /\ Folds([n \in 0 .. 0 |-> base], 0, base, step, s)
    BY DEF Folds
  <2> QED BY <1>0, <2>1
<1> HIDE DEF N
<1>2. ASSUME NEW k \in 0 .. N, k < N, k \in Good
      PROVE  k + 1 \in Good
  <2>1. PICK f \in [0 .. k -> T] : Folds(f, k, base, step, s)
    BY <1>2
  <2> DEFINE h == [n \in 0 .. k + 1 |-> IF n = k + 1 THEN step[<<f[k], s[k + 1]>>] ELSE f[n]]
  <2>2. f[k] \in T /\ s[k + 1] \in C /\ step[<<f[k], s[k + 1]>>] \in T
    BY <1>0, <1>2, <2>1
  <2>3. h \in [0 .. k + 1 -> T]
    BY <2>1, <2>2
  <2>4. ASSUME NEW n \in 0 .. k + 1
        PROVE  h[n] = IF n = 0 THEN base ELSE step[<<h[n - 1], s[n]>>]
    <3>1. CASE n = k + 1
      <4>1. h[n] = step[<<f[k], s[k + 1]>>] /\ n # 0 /\ h[n - 1] = f[k]
        BY <3>1
      <4> HIDE DEF h
      <4> QED BY <3>1, <4>1
    <3>2. CASE n \in 0 .. k
      <4>1. h[n] = f[n] /\ (n # 0 => h[n - 1] = f[n - 1])
        BY <3>2
      <4> HIDE DEF h
      <4> QED BY <2>1, <3>2, <4>1 DEF Folds
    <3> QED BY <3>1, <3>2
  <2>5. k + 1 \in 0 .. N
    BY <1>0, <1>2
  <2>6. Folds(h, k + 1, base, step, s)
    BY <2>4 DEF Folds
  <2> HIDE DEF h
  <2> QED BY <2>3, <2>5, <2>6
<1> HIDE DEF Good
<1>3. N \in Nat /\ \A k \in 0 .. N : k \in Good
  BY <1>0, <1>1, <1>2, UpTo
<1>4. N \in Good
  BY <1>3
<1> QED BY <1>4 DEF Good, N

(* Rows with an id of their own each.                                      *)
IdsApart(rows) == \A i, j \in DOMAIN rows : rows[i].id = rows[j].id => i = j
Tables == {rows \in Seq(SpanRow) : IdsApart(rows)}

(* A row is put behind the others, unless its id is there.                 *)
LEMMA InsertKeeps ==
  ASSUME NEW rows \in Tables, NEW row \in SpanRow
  PROVE  Insert(rows, row) \in Tables /\ Ids(Insert(rows, row)) = Ids(rows) \cup {row.id}
<1>1. CASE row.id \in Ids(rows)
  BY <1>1 DEF Insert
<1>2. CASE row.id \notin Ids(rows)
  <2> DEFINE next == Append(rows, row)
             n == Len(rows)
  <2>1. rows \in Seq(SpanRow) /\ n \in Nat /\ DOMAIN rows = 1 .. n /\ IdsApart(rows)
    BY DEF Tables
  <2>2. next \in Seq(SpanRow) /\ DOMAIN next = 1 .. n + 1 /\ next[n + 1] = row /\ \A i \in 1 .. n : next[i] = rows[i]
    BY <2>1
  <2>3. \A i \in 1 .. n + 1 : i \in 1 .. n \/ i = n + 1
    BY <2>1
  <2>4. 1 .. n \subseteq 1 .. n + 1 /\ n + 1 \in 1 .. n + 1
    BY <2>1
  <2> HIDE DEF next, n
  <2>5. \A i \in 1 .. n : rows[i].id # row.id
    BY <1>2, <2>1 DEF Ids
  <2>6. IdsApart(next)
    BY <2>1, <2>2, <2>3, <2>5 DEF IdsApart
  <2>7. Ids(next) = Ids(rows) \cup {row.id}
    BY <2>1, <2>2, <2>3, <2>4 DEF Ids
  <2>8. Insert(rows, row) = next
    BY <1>2 DEF Insert, next
  <2> QED BY <2>2, <2>6, <2>7, <2>8 DEF Tables
<1> QED BY <1>1, <1>2

(* A batch adds its ids, and none twice.                                   *)
LEMMA InsertedHas ==
  ASSUME NEW rows \in Tables, NEW spans \in Seq(SpanRow)
  PROVE  Inserted(rows, spans) \in Tables /\ Ids(Inserted(rows, spans)) = Ids(rows) \cup Ids(spans)
<1> DEFINE N == Len(spans)
           step == [x \in Tables \X SpanRow |-> Insert(x[1], x[2])]
           body(g) == [n \in 0 .. N |-> IF n = 0 THEN rows ELSE Insert(g[n - 1], spans[n])]
           after == CHOOSE g : g = body(g)
<1>1. N \in Nat /\ DOMAIN spans = 1 .. N /\ \A k \in 1 .. N : spans[k] \in SpanRow
  OBVIOUS
<1>2. step \in [Tables \X SpanRow -> Tables]
  BY InsertKeeps
<1>3. \A x \in Tables, y \in SpanRow : step[<<x, y>>] = Insert(x, y)
  OBVIOUS
<1> HIDE DEF N, step
<1>4. PICK f \in [0 .. N -> Tables] : Folds(f, N, rows, step, spans)
  BY <1>2, FoldExists DEF N
<1>5. f = body(f)
  <2>1. ASSUME NEW n \in 0 .. N PROVE f[n] = IF n = 0 THEN rows ELSE Insert(f[n - 1], spans[n])
    <3>1. CASE n = 0
      BY <1>4, <3>1 DEF Folds
    <3>2. CASE n # 0
      <4>1. n - 1 \in 0 .. N /\ n \in 1 .. N
        BY <1>1, <3>2
      <4> QED BY <1>1, <1>3, <1>4, <3>2, <4>1 DEF Folds
    <3> QED BY <3>1, <3>2
  <2> QED BY <1>4, <2>1
<1>6. after = body(after)
  BY <1>5
<1> HIDE DEF after
<1>7. \A n \in 0 .. N : after[n] = IF n = 0 THEN rows ELSE Insert(after[n - 1], spans[n])
  BY <1>6
<1> HIDE DEF body
<1> DEFINE Good == {n \in 0 .. N : after[n] \in Tables /\ Ids(after[n]) = Ids(rows) \cup {spans[i].id : i \in 1 .. n}}
<1>8. 0 \in Good
  <2>1. 0 \in 0 .. N /\ after[0] = rows
    BY <1>1, <1>7
  <2>2. {spans[i].id : i \in 1 .. 0} = {}
    OBVIOUS
  <2> QED BY <2>1, <2>2
<1>9. ASSUME NEW n \in 0 .. N, n < N, n \in Good PROVE n + 1 \in Good
  <2>1. n + 1 \in 0 .. N /\ n + 1 \in 1 .. N /\ n + 1 # 0 /\ (n + 1) - 1 = n
    BY <1>1, <1>9
  <2>2. after[n + 1] = Insert(after[n], spans[n + 1])
    BY <1>7, <2>1
  <2>3. after[n + 1] \in Tables /\ Ids(after[n + 1]) = Ids(after[n]) \cup {spans[n + 1].id}
    BY <1>1, <1>9, <2>1, <2>2, InsertKeeps
  <2>4. 1 .. n + 1 = 1 .. n \cup {n + 1}
    BY <1>1
  <2>5. {spans[i].id : i \in 1 .. n + 1} = {spans[i].id : i \in 1 .. n} \cup {spans[n + 1].id}
    BY <2>4
  <2> QED BY <1>9, <2>1, <2>3, <2>5
<1> HIDE DEF Good
<1>10. \A n \in 0 .. N : n \in Good
  BY <1>1, <1>8, <1>9, UpTo
<1>11. N \in Good
  BY <1>1, <1>10
<1>12. after[N] \in Tables /\ Ids(after[N]) = Ids(rows) \cup {spans[i].id : i \in 1 .. N}
  BY <1>11 DEF Good
<1>13. Inserted(rows, spans) = after[N]
  BY DEF Inserted, after, body, N
<1> QED BY <1>1, <1>12, <1>13 DEF Ids

(***************************************************************************)
(* Once a caller of Shutdown has drained the exports there are none under  *)
(* way, and none is let in any more; the store is closed when, besides,    *)
(* the checkpointer has stopped.                                           *)
(***************************************************************************)
Drains(s) == stopping[s] \in {"stops checkpointer", "closed"}

ExporterInv ==
  /\ todo \in [Exporters -> Seq(Seq(SpanRow))] /\ batch \in [Exporters -> Seq(SpanRow)]
  /\ table \in Tables /\ stored \subseteq Ids(table)
  /\ stopping \in [Stoppers -> {"idle", "returned", "drains exports", "stops checkpointer", "closed"}]
  /\ closed \in BOOLEAN /\ shutdown \in BOOLEAN /\ misused = FALSE
  /\ \A s \in Stoppers : stopping[s] # "idle" => shutdown
  /\ \A s \in Stoppers : Drains(s) => \A e \in Exporters : batch[e] = << >>
  /\ closed => checkpointer = "stopped" /\ \E s \in Stoppers : Drains(s)

LEMMA ExporterStarts == ASSUME ExporterInit PROVE ExporterInv
<1>1. todo \in [Exporters -> Seq(Seq(SpanRow))]
  BY TraceAssumption DEF ExporterInit
<1>2. << >> \in Seq(SpanRow) /\ DOMAIN << >> = {}
  OBVIOUS
<1>3. << >> \in Tables
  BY <1>2 DEF Tables, IdsApart
<1> QED BY <1>1, <1>2, <1>3 DEF ExporterInit, ExporterInv, Drains

LEMMA NoRows == << >> \in Seq(SpanRow)
OBVIOUS

LEMMA ExporterSteps == ASSUME ExporterInv, [ExporterNext]_exporterVars PROVE ExporterInv'
<1> USE DEF ExporterInv
<1>1. CASE UNCHANGED exporterVars
  BY <1>1 DEF exporterVars, Drains
<1>2. ASSUME NEW e \in Exporters, StartExport(e) PROVE ExporterInv'
  <2>0. StartExport(e)
    BY <1>2
  <2>1. todo[e] \in Seq(Seq(SpanRow)) /\ todo[e] # << >>
    BY <2>0 DEF StartExport
  <2>2. Head(todo[e]) \in Seq(SpanRow) /\ Tail(todo[e]) \in Seq(Seq(SpanRow))
    BY <2>1, HeadTailProperties
  <2>3. todo' \in [Exporters -> Seq(Seq(SpanRow))]
    BY <2>0, <2>2 DEF StartExport
  <2>4. batch' \in [Exporters -> Seq(SpanRow)] /\ (batch' # batch => ~shutdown)
    BY <2>0, <2>2 DEF StartExport
  <2>5. UNCHANGED <<stored, table, closed, shutdown, stopping, checkpointer, misused>>
    BY <2>0 DEF StartExport
  <2>6. \A s \in Stoppers : Drains(s) => shutdown
    BY DEF Drains
  <2>7. \A s \in Stoppers : Drains(s)' <=> Drains(s)
    BY <2>5 DEF Drains
  <2> QED BY <2>3, <2>4, <2>5, <2>6, <2>7
<1>3. ASSUME NEW e \in Exporters, EndExport(e) PROVE ExporterInv'
  <2>0. EndExport(e)
    BY <1>3
  <2>1. ~closed /\ UNCHANGED <<todo, closed, shutdown, stopping, checkpointer>>
    BY <2>0 DEF EndExport
  <2>2. misused' = FALSE
    BY <2>0, <2>1 DEF EndExport
  <2>3. batch' = [batch EXCEPT ![e] = << >>]
    BY <2>0 DEF EndExport
  <2>4. batch' \in [Exporters -> Seq(SpanRow)] /\ \A x \in Exporters : batch[x] = << >> => batch'[x] = << >>
    <3>1. << >> \in Seq(SpanRow)
      BY NoRows
    <3>2. ASSUME NEW none \in Seq(SpanRow), batch' = [batch EXCEPT ![e] = none]
          PROVE  /\ batch' \in [Exporters -> Seq(SpanRow)]
                 /\ \A x \in Exporters : batch'[x] = IF x = e THEN none ELSE batch[x]
      BY <3>2
    <3>3. /\ batch' \in [Exporters -> Seq(SpanRow)]
          /\ \A x \in Exporters : batch'[x] = IF x = e THEN << >> ELSE batch[x]
      BY <2>3, <3>1, <3>2
    <3> QED BY <3>3
  <2>5. \A s \in Stoppers : Drains(s)' <=> Drains(s)
    BY <2>1 DEF Drains
  <2>6. table' \in Tables /\ stored' \subseteq Ids(table')
    <3>1. CASE UNCHANGED <<table, stored>>
      BY <3>1
    <3>2. CASE table' = Inserted(table, batch[e]) /\ stored' = stored \cup Ids(batch[e])
      BY <3>2, InsertedHas
    <3> QED BY <2>0, <3>1, <3>2 DEF EndExport
  <2> QED BY <2>1, <2>2, <2>4, <2>5, <2>6
<1>4. CASE Tick \/ CheckpointerStops
  <2>1. /\ UNCHANGED <<todo, batch, stored, table, closed, shutdown, stopping, misused>>
        /\ checkpointer = "waiting"
    BY <1>4 DEF Tick, CheckpointerStops
  <2> QED BY <2>1 DEF Drains
<1>5. CASE Checkpoint
  <2>1. /\ UNCHANGED <<todo, batch, stored, table, closed, shutdown, stopping>>
        /\ checkpointer = "writing" /\ misused' = (misused \/ closed)
    BY <1>5 DEF Checkpoint
  <2>2. ~closed
    BY <2>1
  <2> QED BY <2>1, <2>2 DEF Drains
<1>6. ASSUME NEW s \in Stoppers, CallShutdown(s) \/ Drained(s) \/ CloseStore(s) PROVE ExporterInv'
  <2>1. UNCHANGED <<todo, batch, stored, table, checkpointer, misused>> /\ shutdown' \in BOOLEAN /\ closed' \in BOOLEAN
    BY <1>6 DEF CallShutdown, Drained, CloseStore
  <2>2. CASE CallShutdown(s)
    BY <2>1, <2>2 DEF CallShutdown, Drains
  <2>3. CASE Drained(s)
    BY <2>1, <2>3 DEF Drained, Drains
  <2>4. CASE CloseStore(s)
    BY <2>1, <2>4 DEF CloseStore, Drains
  <2> QED BY <1>6, <2>2, <2>3, <2>4
<1>7. CASE Connect \/ Poll \/ SendRuns
  <2>1. UNCHANGED <<todo, batch, stored, table, closed, shutdown, stopping, checkpointer, misused>>
    BY <1>7 DEF Connect, Poll, SendRuns
  <2> QED BY <2>1 DEF Drains
<1> QED BY <1>1, <1>2, <1>3, <1>4, <1>5, <1>6, <1>7 DEF ExporterNext

LEMMA ExporterSafe == ASSUME ExporterInv PROVE ExportsAreStored
<1>1. table \in Seq(SpanRow) /\ IdsApart(table)
  BY DEF ExporterInv, Tables
<1>2. IsInjective([i \in DOMAIN table |-> table[i].id])
  BY <1>1 DEF IsInjective, IdsApart
<1> QED BY <1>2 DEF ExporterInv, ExportsAreStored

(***************************************************************************)
(* Exports against Shutdown (ExportSpans, Shutdown and the checkpointer of *)
(* SQLiteExporter): a span whose export returned nil is in the table, once *)
(* by its id; nobody uses the store once it is closed, and no export is    *)
(* then under way, however many export and shut down at once.              *)
(***************************************************************************)
THEOREM ExportsAreKept == ExporterSpec => []ExportsAreStored
<1>1. ExporterInv /\ [ExporterNext]_exporterVars => ExporterInv'
  BY ExporterSteps
<1> QED BY <1>1, ExporterStarts, ExporterSafe, PTL DEF ExporterSpec

=============================================================================
