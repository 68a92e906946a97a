---------------------------- MODULE RecordsProofs ----------------------------
(***************************************************************************)
(* Proofs about Recording and Evaluation: a replay repeats the run it was  *)
(* recorded from, the judges read their replies on the safe side, and the  *)
(* report of an evaluation is true.                                        *)
(***************************************************************************)
EXTENDS MCEvals, FiniteSetTheorems, SequenceTheorems, WellFoundedInduction, TLAPS

LEMMA LeastOf ==
  ASSUME NEW S, S \subseteq Nat, NEW m \in S
  PROVE  \E x \in S : \A y \in S : x <= y
<1>1. PICK x \in S : \A y \in S : ~ (<<y, x>> \in OpToRel(<, Nat))
  BY NatLessThanWellFounded, WFMin
<1>2. ASSUME NEW y \in S PROVE x <= y
  <2>1. x \in Nat /\ y \in Nat /\ ~ (y < x)
    BY <1>1 DEF OpToRel
  <2> QED BY <2>1
<1> QED BY <1>2

(* Sets that are counted alike.                                            *)
LEMMA SameCount ==
  ASSUME NEW S, NEW T, IsFiniteSet(S), NEW f \in [S -> T],
         \A x, y \in S : f[x] = f[y] => x = y,
         \A z \in T : \E x \in S : f[x] = z
  PROVE  IsFiniteSet(T) /\ Cardinality(T) = Cardinality(S)
<1>1. f \in Bijection(S, T)
  BY DEF Bijection, Injection, Surjection, IsInjective
<1> QED BY <1>1, FS_Bijection DEF ExistsBijection

(* An order of numbers that leaves none out.                               *)
LEMMA InOrderIs ==
  ASSUME NEW S \in SUBSET Int, IsFiniteSet(S)
  PROVE  LET order == InOrder(S)
             n     == Cardinality(S)
         IN /\ n \in Nat /\ order \in [1 .. n -> S]
            /\ \A x \in S : \E k \in 1 .. n : order[k] = x
            /\ \A j, k \in 1 .. n : j < k => order[j] < order[k]
<1> DEFINE n == Cardinality(S)
           upto(x) == {m \in S : m <= x}
           rank(x) == Cardinality(upto(x))
           order == InOrder(S)
<1>1. n \in Nat
  BY FS_CardinalityType
<1>2. \A x \in S : IsFiniteSet(upto(x)) /\ upto(x) \subseteq S
  <2> TAKE x \in S
  <2>1. upto(x) \in SUBSET S
    OBVIOUS
  <2> QED BY <2>1, FS_Subset
<1>3. ASSUME NEW x \in S PROVE rank(x) \in 1 .. n
  <2>1. rank(x) \in Nat /\ rank(x) <= n
    BY <1>2, FS_Subset, FS_CardinalityType
  <2>2. x \in upto(x)
    OBVIOUS
  <2>3. rank(x) # 0
    BY <1>2, <2>2, FS_EmptySet
  <2> QED BY <1>1, <2>1, <2>3
<1>4. ASSUME NEW x \in S, NEW y \in S, x < y PROVE rank(x) < rank(y)
  <2>1. upto(x) \in SUBSET upto(y)
    <3>1. ASSUME NEW m \in upto(x) PROVE m \in upto(y)
      <4>1. m \in Int /\ x \in Int /\ y \in Int /\ m <= x
        OBVIOUS
      <4>2. m <= y
        BY <1>4, <4>1
      <4> QED BY <4>2
    <3> QED BY <3>1
  <2>2. y \in upto(y) /\ y \notin upto(x)
    BY <1>4
  <2>3. rank(x) <= rank(y) /\ rank(x) # rank(y)
    BY <1>2, <2>1, <2>2, FS_Subset
  <2> QED BY <1>3, <2>3
<1> DEFINE r == [x \in S |-> rank(x)]
<1>5. r \in [S -> 1 .. n]
  BY <1>3
<1>6. \A x, y \in S : r[x] = r[y] => x = y
  <2> SUFFICES ASSUME NEW x \in S, NEW y \in S, x # y PROVE rank(x) # rank(y)
    OBVIOUS
  <2>1. x < y \/ y < x
    OBVIOUS
  <2> HIDE DEF rank
  <2> QED BY <1>3, <1>4, <2>1
<1>7. r \in Injection(S, 1 .. n)
  BY <1>5, <1>6 DEF Injection, IsInjective
<1>8. IsFiniteSet(1 .. n) /\ Cardinality(1 .. n) = n
  BY <1>1, FS_Interval
<1>9. r \in Surjection(S, 1 .. n)
  BY <1>7, <1>8, FS_Injection
<1>10. ASSUME NEW k \in 1 .. n PROVE order[k] \in S /\ rank(order[k]) = k
  <2>1. \E x \in S : rank(x) = k
    BY <1>9 DEF Surjection
  <2>2. order[k] = CHOOSE x \in S : rank(x) = k
    BY DEF InOrder
  <2> QED BY <2>1, <2>2
<1>11. order \in [1 .. n -> S]
  <2> DEFINE pick(k) == CHOOSE x \in S : Cardinality({m \in S : m <= x}) = k
  <2>1. order = [k \in 1 .. n |-> pick(k)]
    BY DEF InOrder
  <2> HIDE DEF pick, order
  <2> QED BY <1>10, <2>1
<1>12. ASSUME NEW x \in S PROVE \E k \in 1 .. n : order[k] = x
  <2>1. rank(x) \in 1 .. n
    BY <1>3
  <2>2. order[rank(x)] \in S /\ rank(order[rank(x)]) = rank(x)
    BY <1>10, <2>1
  <2>3. order[rank(x)] = x
    <3> HIDE DEF rank, order
    <3> QED BY <1>6, <2>2
  <2> QED BY <2>1, <2>3
<1>13. ASSUME NEW j \in 1 .. n, NEW k \in 1 .. n, j < k PROVE order[j] < order[k]
  <2>1. order[j] \in S /\ order[k] \in S /\ rank(order[j]) = j /\ rank(order[k]) = k
    BY <1>10
  <2> HIDE DEF rank, order
  <2>2. ~(order[k] < order[j])
    <3>1. SUFFICES ASSUME order[k] < order[j] PROVE FALSE
      OBVIOUS
    <3>2. rank(order[k]) < rank(order[j])
      BY <1>4, <2>1, <3>1
    <3> QED BY <1>13, <2>1, <3>2
  <2>3. order[j] # order[k]
    BY <1>13, <2>1
  <2>4. order[j] \in Int /\ order[k] \in Int
    BY <2>1
  <2> QED BY <2>2, <2>3, <2>4
<1> HIDE DEF order, n
<1> QED BY <1>1, <1>11, <1>12, <1>13 DEF order, n

(* There is one such order.                                                *)
LEMMA InOrderOnly ==
  ASSUME NEW n \in Nat, NEW f \in [1 .. n -> Int], \A j, k \in 1 .. n : j < k => f[j] < f[k]
  PROVE  LET S == {f[k] : k \in 1 .. n} IN
         IsFiniteSet(S) /\ Cardinality(S) = n /\ InOrder(S) = f
<1> DEFINE S == {f[k] : k \in 1 .. n}
<1>1. \A j, k \in 1 .. n : f[j] = f[k] => j = k
  <2> SUFFICES ASSUME NEW j \in 1 .. n, NEW k \in 1 .. n, j # k PROVE f[j] # f[k]
    OBVIOUS
  <2>1. j < k \/ k < j
    OBVIOUS
  <2>2. f[j] \in Int /\ f[k] \in Int
    OBVIOUS
  <2> QED BY <2>1, <2>2
<1>2. f \in [1 .. n -> S] /\ \A z \in S : \E k \in 1 .. n : f[k] = z
  OBVIOUS
<1>3. IsFiniteSet(1 .. n) /\ Cardinality(1 .. n) = n
  BY FS_Interval
<1>4. IsFiniteSet(S) /\ Cardinality(S) = n
  <2> HIDE DEF S
  <2> QED BY <1>1, <1>2, <1>3, SameCount
<1>5. ASSUME NEW k \in 1 .. n PROVE Cardinality({m \in S : m <= f[k]}) = k
  <2> DEFINE g == [j \in 1 .. k |-> f[j]]
             U == {m \in S : m <= f[k]}
  <2>1. g \in [1 .. k -> U]
    <3>1. ASSUME NEW j \in 1 .. k PROVE f[j] \in S /\ f[j] <= f[k]
      <4>1. j \in 1 .. n /\ (j < k \/ j = k)
        OBVIOUS
      <4>2. f[j] \in Int /\ f[k] \in Int
        BY <4>1
      <4> QED BY <4>1, <4>2
    <3> QED BY <3>1
  <2>2. \A i, j \in 1 .. k : g[i] = g[j] => i = j
    <3> TAKE i, j \in 1 .. k
    <3>1. i \in 1 .. n /\ j \in 1 .. n
      OBVIOUS
    <3> QED BY <1>1, <3>1
  <2>3. \A z \in U : \E j \in 1 .. k : g[j] = z
    <3> TAKE z \in U
    <3>1. PICK j \in 1 .. n : z = f[j]
      OBVIOUS
    <3>2. ~(k < j)
      <4>1. f[j] \in Int /\ f[k] \in Int /\ f[j] <= f[k]
        BY <3>1
      <4> QED BY <4>1
    <3>3. j \in 1 .. k
      BY <3>2
    <3> QED BY <3>1, <3>3
  <2>4. IsFiniteSet(1 .. k) /\ Cardinality(1 .. k) = k
    BY FS_Interval
  <2> HIDE DEF g, U
  <2>5. Cardinality(U) = k
    BY <2>1, <2>2, <2>3, <2>4, SameCount
  <2> QED BY <2>5 DEF U
<1>6. ASSUME NEW k \in 1 .. n PROVE InOrder(S)[k] = f[k]
  <2>1. InOrder(S)[k] = CHOOSE x \in S : Cardinality({m \in S : m <= x}) = k
    BY <1>4 DEF InOrder
  <2>2. \E x \in S : Cardinality({m \in S : m <= x}) = k
    <3>1. f[k] \in S
      OBVIOUS
    <3> HIDE DEF S
    <3> QED BY <1>5, <3>1
  <2>3. PICK j \in 1 .. n : InOrder(S)[k] = f[j] /\ Cardinality({m \in S : m <= f[j]}) = k
    <3> HIDE DEF S
    <3>1. InOrder(S)[k] \in S /\ Cardinality({m \in S : m <= InOrder(S)[k]}) = k
      BY <2>1, <2>2
    <3> QED BY <1>2, <3>1
  <2>4. j = k
    <3> HIDE DEF S
    <3> QED BY <1>5, <2>3
  <2> QED BY <2>3, <2>4
<1>7. InOrder(S) = f
  <2> DEFINE pick(k) == CHOOSE x \in S : Cardinality({m \in S : m <= x}) = k
  <2>1. InOrder(S) = [k \in 1 .. n |-> pick(k)]
    <3> HIDE DEF S
    <3> QED BY <1>4 DEF InOrder
  <2> HIDE DEF pick, S
  <2>2. \A k \in 1 .. n : pick(k) = f[k]
    BY <1>6, <2>1
  <2> QED BY <2>1, <2>2
<1> QED BY <1>4, <1>7

-----------------------------------------------------------------------------
(***************************************************************************)
(* The state: conversations open with what their thread asks, and nothing  *)
(* follows a final message. A span holds a request of the run.             *)
(***************************************************************************)
Sent(h) == [with |-> "recorded", messages |-> h]

Histories == Seq(Message) \ {<< >>}
Span == [start : Nat, request : {Sent(h) : h \in Histories}, completion : Message]
Call == [request : Requests, response : Message]
Errors == STRING \cup {"", "no content", "exhausted", "mismatch", "unknown prompt"}

Shaped(c, ask) ==
  /\ c \in Seq(Message) /\ Len(c) >= 1 /\ c[1] = Answer(ask, FALSE)
  /\ \A k \in 1 .. Len(c) - 1 : ~Final(c[k])

Conversations(conv) ==
  conv \in [Thread -> Seq(Message)] /\ \A t \in Thread : Shaped(conv[t], work.asks[t])

RecordingTypes ==
  /\ work \in Works /\ stage \in {"live", "loaded", "replay", "over"}
  /\ Conversations(talk) /\ Conversations(heard)
  /\ open \in [Thread -> Nat] /\ started \in Nat /\ at \in [Thread -> Nat]
  /\ \A t \in Thread : open[t] # 0 =>
       stage = "live" /\ ~Final(Last(talk[t])) /\ at[t] < Len(work.answers[t])
  /\ spans \in Seq(Span) /\ tape \in Seq(Call) /\ stopped \in [Thread -> Errors]
  /\ provider = [idx |-> provider.idx, cursors |-> provider.cursors] /\ provider.idx \in Nat
  /\ \A r \in DOMAIN provider.cursors : provider.cursors[r] \in Nat
  /\ round \in Nat

LEMMA WorkType ==
  ASSUME work \in Works
  PROVE  /\ work.asks \in [Thread -> STRING] /\ work.answers \in [Thread -> Seq(Message)]
         /\ work.mode \in {"strict", "lenient"}
<1>1. Works \subseteq [asks : [Thread -> STRING], answers : [Thread -> Seq(Message)],
                       with : STRING, mode : {"strict", "lenient"}, streams : BOOLEAN]
  BY Zenon, RecordingAssumption
<1>2. work \in [asks : [Thread -> STRING], answers : [Thread -> Seq(Message)],
                with : STRING, mode : {"strict", "lenient"}, streams : BOOLEAN]
  BY Zenon, <1>1
<1> QED BY <1>2

LEMMA Lengths ==
  ASSUME NEW T, NEW s \in Seq(T)
  PROVE  /\ Len(s) \in Nat /\ DOMAIN s = 1 .. Len(s)
         /\ s # << >> => Len(s) >= 1
         /\ s = << >> => Len(s) = 0
         /\ \A k \in 1 .. Len(s) : s[k] \in T
BY EmptySeq, LenProperties

LEMMA Appended ==
  ASSUME NEW T, NEW s \in Seq(T), NEW x \in T
  PROVE  /\ Append(s, x) \in Seq(T) /\ Len(Append(s, x)) = Len(s) + 1
         /\ \A k \in 1 .. Len(s) : Append(s, x)[k] = s[k]
         /\ Append(s, x)[Len(s) + 1] = x
BY AppendProperties, LenProperties

LEMMA LastIs ==
  ASSUME NEW T, NEW s \in Seq(T)
  PROVE  Last(s) = s[Len(s)]
BY DEF Last

(* A conversation that goes on keeps its shape.                            *)
LEMMA ShapeGoesOn ==
  ASSUME NEW ask, NEW c, Shaped(c, ask), ~Final(Last(c)), NEW m \in Message
  PROVE  Shaped(Append(c, m), ask)
<1>1. c \in Seq(Message) /\ Len(c) \in Nat /\ Len(c) >= 1 /\ c[1] = Answer(ask, FALSE)
  BY Lengths DEF Shaped
<1>2. /\ Append(c, m) \in Seq(Message) /\ Len(Append(c, m)) = Len(c) + 1
      /\ \A k \in 1 .. Len(c) : Append(c, m)[k] = c[k]
  BY <1>1, Appended
<1>3. \A k \in 1 .. Len(c) : ~Final(c[k])
  <2> TAKE k \in 1 .. Len(c)
  <2>1. CASE k = Len(c)
    BY <1>1, <2>1, LastIs
  <2>2. CASE k # Len(c)
    BY <1>1, <2>2 DEF Shaped
  <2> QED BY <2>1, <2>2
<1> HIDE DEF Final, Answer
<1> DEFINE d == Append(c, m)
<1>4. Len(d) - 1 = Len(c) /\ 1 \in 1 .. Len(c) /\ Len(d) >= 1
  BY <1>1, <1>2
<1> HIDE DEF d
<1>5. \A k \in 1 .. Len(d) - 1 : ~Final(d[k])
  BY <1>2, <1>3, <1>4 DEF d
<1>6. d[1] = Answer(ask, FALSE)
  BY <1>1, <1>2, <1>4 DEF d
<1> QED BY <1>2, <1>4, <1>5, <1>6 DEF Shaped, d

LEMMA ConversationsGoOn ==
  ASSUME NEW conv, Conversations(conv), NEW t \in Thread, ~Final(Last(conv[t])), NEW m \in Message
  PROVE  Conversations([conv EXCEPT ![t] = Append(conv[t], m)])
<1>1. Shaped(Append(conv[t], m), work.asks[t])
  BY ShapeGoesOn DEF Conversations
<1>2. Append(conv[t], m) \in Seq(Message)
  BY <1>1 DEF Shaped
<1> QED BY <1>1, <1>2 DEF Conversations

LEMMA OneMessage ==
  ASSUME NEW m \in Message
  PROVE  <<m>> \in Seq(Message) /\ Len(<<m>>) = 1 /\ <<m>>[1] = m
OBVIOUS

LEMMA OpeningsAreShaped ==
  ASSUME work \in Works
  PROVE  /\ Conversations(Opening(work))
         /\ \A t \in Thread : Len(Opening(work)[t]) = 1
<1>1. ASSUME NEW t \in Thread
      PROVE  Shaped(Opening(work)[t], work.asks[t]) /\ Len(Opening(work)[t]) = 1
  <2>1. Answer(work.asks[t], FALSE) \in Message
    BY WorkType DEF Answer, Message, Texts
  <2>2. Opening(work)[t] = <<Answer(work.asks[t], FALSE)>>
    BY DEF Opening
  <2> HIDE DEF Answer
  <2> DEFINE m == Answer(work.asks[t], FALSE)
             c == <<m>>
  <2>3. c \in Seq(Message) /\ Len(c) = 1 /\ c[1] = m
    BY <2>1, OneMessage
  <2>4. Opening(work)[t] = c
    BY <2>2
  <2> HIDE DEF c
  <2>5. \A k \in 1 .. Len(c) - 1 : FALSE
    BY <2>3
  <2>6. Shaped(c, work.asks[t])
    BY <2>3, <2>5 DEF Shaped
  <2> QED BY <2>3, <2>4, <2>6
<1>2. Opening(work) = [t \in Thread |-> Opening(work)[t]]
  BY DEF Opening
<1> QED BY <1>1, <1>2 DEF Conversations, Shaped

LEMMA ConversationsAreHistories ==
  ASSUME NEW conv, Conversations(conv)
  PROVE  conv \in [Thread -> Histories]
<1>1. ASSUME NEW t \in Thread PROVE conv[t] # << >>
  <2>1. conv[t] \in Seq(Message) /\ Len(conv[t]) >= 1
    BY DEF Conversations, Shaped
  <2>2. conv[t] = << >> => Len(conv[t]) = 0
    BY <2>1, Lengths
  <2> QED BY <2>1, <2>2
<1> QED BY <1>1 DEF Conversations, Histories

LEMMA TypesInit == RecordingInit => RecordingTypes
<1> SUFFICES ASSUME RecordingInit PROVE RecordingTypes
  OBVIOUS
<1>1. work \in Works /\ talk = Opening(work) /\ heard = Opening(work)
  BY DEF RecordingInit
<1>2. Conversations(talk) /\ Conversations(heard)
  BY <1>1, OpeningsAreShaped
<1>3. /\ stage = "live" /\ open = [t \in Thread |-> 0] /\ started = 0 /\ at = [t \in Thread |-> 0]
      /\ stopped = [t \in Thread |-> ""] /\ round = 0
  BY DEF RecordingInit
<1>4. spans \in Seq(Span) /\ tape \in Seq(Call)
  BY EmptySeq DEF RecordingInit
<1>5. /\ provider = [idx |-> provider.idx, cursors |-> provider.cursors] /\ provider.idx \in Nat
      /\ \A r \in DOMAIN provider.cursors : provider.cursors[r] \in Nat
  BY DEF RecordingInit, Fresh
<1>6. stopped \in [Thread -> Errors]
  BY <1>3 DEF Errors
<1> QED BY <1>1, <1>2, <1>3, <1>4, <1>5, <1>6 DEF RecordingTypes

(***************************************************************************)
(* LoadFromStore keeps the spans with a completion, each at one place.     *)
(***************************************************************************)
KeptSpans(ss) == {i \in DOMAIN ss : ss[i].completion.error = ""}

LEMMA RecordedFrom ==
  ASSUME NEW ss \in Seq(Span)
  PROVE  LET starts == InOrder({ss[i].start : i \in KeptSpans(ss)})
             n      == Cardinality({ss[i].start : i \in KeptSpans(ss)})
             pick(k) == CHOOSE i \in KeptSpans(ss) : ss[i].start = starts[k]
         IN /\ n \in Nat /\ Recorded(ss) \in Seq(Call) /\ Len(Recorded(ss)) = n
            /\ \A k \in 1 .. n :
                 /\ pick(k) \in KeptSpans(ss) /\ ss[pick(k)].start = starts[k]
                 /\ Recorded(ss)[k] = [request |-> ss[pick(k)].request, response |-> ss[pick(k)].completion]
            /\ \A j, k \in 1 .. n : j < k => starts[j] < starts[k]
            /\ \A i \in KeptSpans(ss) : \E k \in 1 .. n : starts[k] = ss[i].start
<1> DEFINE Starts == {ss[i].start : i \in KeptSpans(ss)}
           starts == InOrder(Starts)
           n == Cardinality(Starts)
           pick(k) == CHOOSE i \in KeptSpans(ss) : ss[i].start = starts[k]
<1>1. \A i \in DOMAIN ss : ss[i] \in Span
  BY Lengths
<1>2. Starts \in SUBSET Int
  <2>1. \A i \in KeptSpans(ss) : ss[i].start \in Nat
    BY <1>1 DEF KeptSpans, Span
  <2> QED BY <2>1
<1>3. IsFiniteSet(Starts)
  <2>1. IsFiniteSet(DOMAIN ss)
    <3>1. DOMAIN ss = 1 .. Len(ss) /\ Len(ss) \in Nat
      BY Lengths
    <3> QED BY <3>1, FS_Interval
  <2>2. KeptSpans(ss) \in SUBSET DOMAIN ss
    BY DEF KeptSpans
  <2>3. IsFiniteSet(KeptSpans(ss))
    BY <2>1, <2>2, FS_Subset
  <2>4. [i \in KeptSpans(ss) |-> ss[i].start] \in Surjection(KeptSpans(ss), Starts)
    BY DEF Surjection
  <2> HIDE DEF Starts
  <2> QED BY <2>3, <2>4, FS_Surjection
<1>4. /\ n \in Nat /\ starts \in [1 .. n -> Starts]
      /\ \A x \in Starts : \E k \in 1 .. n : starts[k] = x
      /\ \A j, k \in 1 .. n : j < k => starts[j] < starts[k]
  <2> HIDE DEF Starts
  <2> QED BY <1>2, <1>3, InOrderIs
<1> HIDE DEF n, starts
<1>5. ASSUME NEW k \in 1 .. n PROVE pick(k) \in KeptSpans(ss) /\ ss[pick(k)].start = starts[k]
  <2>1. starts[k] \in Starts
    BY <1>4
  <2>2. \E i \in KeptSpans(ss) : ss[i].start = starts[k]
    BY <2>1
  <2> QED BY <2>2
<1>6. CallsOfSpans(ss) = [k \in 1 .. n |-> ss[pick(k)]]
  <2>1. DOMAIN starts = 1 .. n
    BY <1>4
  <2>2. CallsOfSpans(ss) = [k \in DOMAIN starts |-> ss[pick(k)]]
    BY DEF CallsOfSpans, KeptSpans, starts
  <2> QED BY <2>1, <2>2
<1> DEFINE call(k) == [request |-> ss[pick(k)].request, response |-> ss[pick(k)].completion]
<1>7. Recorded(ss) = [k \in 1 .. n |-> call(k)]
  <2> HIDE DEF pick
  <2> QED BY <1>6 DEF Recorded
<1>8. ASSUME NEW k \in 1 .. n PROVE call(k) \in Call
  <2> DEFINE i == pick(k)
  <2>1. i \in DOMAIN ss
    BY <1>5 DEF KeptSpans
  <2> HIDE DEF i
  <2>2. ss[i] \in Span
    BY <1>1, <2>1
  <2>3. ss[i].request \in Requests /\ ss[i].completion \in Message
    BY <2>2 DEF Span, Sent, Requests, Histories
  <2> QED BY <2>3 DEF Call, i
<1> HIDE DEF call
<1>9. Recorded(ss) \in Seq(Call) /\ Len(Recorded(ss)) = n
  BY <1>4, <1>7, <1>8
<1>10. \A k \in 1 .. n : Recorded(ss)[k] = call(k)
  BY <1>7
<1>11. \A i \in KeptSpans(ss) : \E k \in 1 .. n : starts[k] = ss[i].start
  BY <1>4
<1> HIDE DEF pick, Starts
<1> QED BY <1>4, <1>5, <1>9, <1>10, <1>11 DEF pick, Starts, starts, n, call

(* What the replay provider serves was recorded for that request.          *)
LEMMA QueueIs ==
  ASSUME tape \in Seq(Call), NEW r
  PROVE  /\ Len(Queue(r)) \in Nat /\ Queue(r) \in Seq(DOMAIN tape)
         /\ \A k \in 1 .. Len(Queue(r)) : Queue(r)[k] \in 1 .. Len(tape) /\ tape[Queue(r)[k]].request = r
         /\ \A i \in 1 .. Len(tape) : tape[i].request = r => \E k \in 1 .. Len(Queue(r)) : Queue(r)[k] = i
         /\ \A j, k \in 1 .. Len(Queue(r)) : j < k => Queue(r)[j] < Queue(r)[k]
<1> DEFINE S == {i \in DOMAIN tape : tape[i].request = r}
<1>1. DOMAIN tape = 1 .. Len(tape) /\ Len(tape) \in Nat
  BY Lengths
<1>2. S \in SUBSET Int /\ IsFiniteSet(S)
  <2>1. IsFiniteSet(1 .. Len(tape)) /\ S \in SUBSET (1 .. Len(tape))
    BY <1>1, FS_Interval
  <2> QED BY <2>1, FS_Subset
<1>3. Queue(r) = InOrder(S)
  BY DEF Queue
<1>4. \A i \in S : i \in 1 .. Len(tape) /\ tape[i].request = r
  BY <1>1
<1>5. \A i \in 1 .. Len(tape) : tape[i].request = r => i \in S
  BY <1>1
<1> HIDE DEF S
<1> DEFINE n == Cardinality(S)
           q == Queue(r)
<1>6. /\ n \in Nat /\ q \in [1 .. n -> S]
      /\ \A x \in S : \E k \in 1 .. n : q[k] = x
      /\ \A j, k \in 1 .. n : j < k => q[j] < q[k]
  BY <1>2, <1>3, InOrderIs
<1> HIDE DEF n, q
<1>7. q \in Seq(S) /\ Len(q) = n
  BY <1>6
<1>8. q \in Seq(DOMAIN tape)
  BY <1>1, <1>4, <1>6
<1>9. \A k \in 1 .. n : q[k] \in S
  BY <1>6
<1> QED BY <1>4, <1>5, <1>6, <1>7, <1>8, <1>9 DEF q

LEMMA GenerateIs ==
  ASSUME RecordingTypes, NEW r
  PROVE  LET g == Generate(r) IN
         /\ g.call # 0 => g.call \in 1 .. Len(tape) /\ tape[g.call].request = r
         /\ g.error \in Errors
         /\ g.provider = [idx |-> g.provider.idx, cursors |-> g.provider.cursors]
         /\ g.provider.idx \in Nat
         /\ \A x \in DOMAIN g.provider.cursors : g.provider.cursors[x] \in Nat
<1> USE DEF RecordingTypes
<1>1. CASE work.mode = "lenient"
  <2> DEFINE q == Queue(r)
             c == Cursor(r)
             g == GenerateLenient(r)
  <2>1. Generate(r) = g
    BY <1>1 DEF Generate
  <2>2. c \in Nat
    BY DEF Cursor
  <2>3. /\ Len(q) \in Nat /\ q \in Seq(DOMAIN tape)
        /\ \A k \in 1 .. Len(q) : q[k] \in 1 .. Len(tape) /\ tape[q[k]].request = r
    BY QueueIs
  <2>4. /\ g.call = (IF q = << >> THEN 0 ELSE q[IF c < Len(q) THEN c + 1 ELSE Len(q)])
        /\ g.error = "unknown prompt"
        /\ g.provider = IF c < Len(q)
                        THEN [provider EXCEPT !.cursors = [x \in DOMAIN provider.cursors \cup {r} |->
                                IF x = r THEN c + 1 ELSE provider.cursors[x]]]
                        ELSE provider
    BY DEF GenerateLenient
  <2> HIDE DEF q, c, g
  <2>5. ASSUME g.call # 0 PROVE g.call \in 1 .. Len(tape) /\ tape[g.call].request = r
    <3> DEFINE k == IF c < Len(q) THEN c + 1 ELSE Len(q)
    <3>1. q # << >>
      BY <2>4, <2>5
    <3>2. Len(q) >= 1
      BY <2>3, <3>1, Lengths
    <3>3. k \in 1 .. Len(q)
      BY <2>2, <2>3, <3>2
    <3>4. g.call = q[k]
      BY <2>4, <3>1
    <3> HIDE DEF k
    <3> QED BY <2>3, <3>3, <3>4
  <2>6. /\ g.provider = [idx |-> g.provider.idx, cursors |-> g.provider.cursors]
        /\ g.provider.idx \in Nat
        /\ \A x \in DOMAIN g.provider.cursors : g.provider.cursors[x] \in Nat
    <3>1. CASE c < Len(q)
      <4> DEFINE new == [x \in DOMAIN provider.cursors \cup {r} |-> IF x = r THEN c + 1 ELSE provider.cursors[x]]
      <4>1. \A x \in DOMAIN new : new[x] \in Nat
        BY <2>2
      <4>2. g.provider = [provider EXCEPT !.cursors = new]
        BY <2>4, <3>1
      <4> HIDE DEF new
      <4>3. g.provider = [idx |-> provider.idx, cursors |-> new]
        BY <4>2
      <4> QED BY <4>1, <4>3
    <3>2. CASE ~(c < Len(q))
      BY <2>4, <3>2
    <3> QED BY <3>1, <3>2
  <2>7. g.error \in Errors
    BY <2>4 DEF Errors
  <2> QED BY <2>1, <2>5, <2>6, <2>7
<1>2. CASE work.mode # "lenient"
  <2> DEFINE g == GenerateStrict(r)
  <2>1. Generate(r) = g
    BY <1>2 DEF Generate
  <2>2. /\ g.provider = [provider EXCEPT !.idx = @ + 1]
        /\ g.call = (IF Strict(r) THEN provider.idx + 1 ELSE 0)
        /\ g.error = (IF provider.idx >= Len(tape) THEN "exhausted" ELSE "mismatch")
    BY DEF GenerateStrict
  <2> HIDE DEF g
  <2>3. g.provider = [idx |-> provider.idx + 1, cursors |-> provider.cursors]
    BY <2>2
  <2>4. g.error \in Errors
    BY <2>2 DEF Errors
  <2>5. g.call # 0 => g.call \in 1 .. Len(tape) /\ tape[g.call].request = r
    <3>1. Len(tape) \in Nat
      BY Lengths
    <3> QED BY <2>2, <3>1 DEF Strict
  <2> QED BY <2>1, <2>3, <2>4, <2>5
<1> QED BY <1>1, <1>2

(* Each step keeps the types.                                              *)
LEMMA CompletionIs ==
  ASSUME NEW answer \in Message
  PROVE  /\ Completion(answer) \in Message /\ Completion(answer).thinks = FALSE
         /\ Captures(answer) =>
              /\ answer.error = "" => Completion(answer) = Captured(answer)
              /\ Completion(answer).error = "" <=> answer.error = ""
<1>1. /\ Captured(answer) \in Message /\ Captured(answer).thinks = FALSE
      /\ Captured(answer).error = answer.error
  BY DEF Captured, Message
<1>2. CASE ~work.streams
  BY <1>1, <1>2 DEF Completion
<1>3. CASE work.streams
  <2>1. CASE answer.text = "" /\ ~answer.thinks
    <3>1. Completion(answer) = Failed("no content")
      BY <1>3, <2>1 DEF Completion
    <3>2. Failed("no content") \in Message /\ Failed("no content").thinks = FALSE
          /\ Failed("no content").error # ""
      BY DEF Failed, Message, Texts
    <3> QED BY <1>3, <2>1, <3>1, <3>2 DEF Captures
  <2>2. CASE ~(answer.text = "" /\ ~answer.thinks)
    <3>1. Completion(answer) = Answer(answer.text, FALSE)
      BY <1>3, <2>2 DEF Completion
    <3>2. /\ Answer(answer.text, FALSE) \in Message /\ Answer(answer.text, FALSE).thinks = FALSE
          /\ Answer(answer.text, FALSE).error = ""
      BY DEF Answer, Message, Texts
    <3>3. ASSUME Captures(answer) PROVE answer.error = "" /\ answer.text = answer.says
      BY <1>3, <2>2, <3>3 DEF Captures
    <3>4. ASSUME Captures(answer) PROVE Captured(answer) = Answer(answer.text, FALSE)
      <4> DEFINE a == Captured(answer)
                 b == Answer(answer.text, FALSE)
      <4>1. a \in Message /\ a.says = answer.says /\ a.thinks = FALSE /\ a.error = answer.error /\ a.text = answer.text
        BY DEF Captured, Message
      <4>2. b \in Message /\ b.says = answer.text /\ b.thinks = FALSE /\ b.error = "" /\ b.text = answer.text
        BY <3>2 DEF Answer
      <4>3. a.says = b.says /\ a.thinks = b.thinks /\ a.error = b.error /\ a.text = b.text
        BY <3>3, <3>4, <4>1, <4>2
      <4> HIDE DEF a, b
      <4>4. \A r \in Message : r = [says |-> r.says, thinks |-> r.thinks, error |-> r.error, text |-> r.text]
        BY DEF Message
      <4>5. a = b
        BY Zenon, <4>1, <4>2, <4>3, <4>4
      <4> QED BY <4>5 DEF a, b
    <3> QED BY <3>1, <3>2, <3>3, <3>4
  <2> QED BY <2>1, <2>2
<1> QED BY <1>2, <1>3

LEMMA TypesNext == RecordingTypes /\ [RecordingNext]_recordingVars => RecordingTypes'
<1> SUFFICES ASSUME RecordingTypes, [RecordingNext]_recordingVars PROVE RecordingTypes'
  OBVIOUS
<1>0. /\ work \in Works /\ work.answers \in [Thread -> Seq(Message)] /\ Conversations(talk) /\ Conversations(heard)
      /\ open \in [Thread -> Nat] /\ started \in Nat /\ at \in [Thread -> Nat] /\ tape \in Seq(Call)
      /\ spans \in Seq(Span)
  BY WorkType DEF RecordingTypes
<1>1. ASSUME NEW t \in Thread, CallService(t) PROVE RecordingTypes'
  <2>1. /\ started' = started + 1 /\ open' = [open EXCEPT ![t] = started + 1]
        /\ UNCHANGED <<work, stage, talk, at, spans, tape, provider, stopped, heard, served, round>>
        /\ stage = "live" /\ ~Final(Last(talk[t])) /\ at[t] < Len(work.answers[t])
    BY <1>1 DEF CallService, Going
  <2>2. open' \in [Thread -> Nat] /\ started' \in Nat
    BY <1>0, <2>1
  <2>3. Conversations(talk)' /\ Conversations(heard)'
    BY <1>0, <2>1 DEF Conversations
  <2>4. ASSUME NEW u \in Thread, open'[u] # 0
        PROVE  stage' = "live" /\ ~Final(Last(talk'[u])) /\ at'[u] < Len(work'.answers[u])
    <3>1. CASE u = t
      BY <2>1, <3>1
    <3>2. CASE u # t
      <4>1. open[u] # 0
        BY <1>0, <2>1, <2>4, <3>2
      <4> QED BY <2>1, <4>1 DEF RecordingTypes
    <3> QED BY <3>1, <3>2
  <2> QED BY <2>1, <2>2, <2>3, <2>4 DEF RecordingTypes
<1>2. ASSUME NEW t \in Thread, ServiceAnswers(t) PROVE RecordingTypes'
  <2> DEFINE answer == work.answers[t][at[t] + 1]
             span == [start |-> open[t], request |-> Request(t, "recorded"), completion |-> Completion(answer)]
  <2>1. /\ at' = [at EXCEPT ![t] = @ + 1] /\ spans' = Append(spans, span)
        /\ talk' = IF answer.error = "" THEN [talk EXCEPT ![t] = Append(@, answer)] ELSE talk
        /\ open' = [open EXCEPT ![t] = 0]
        /\ UNCHANGED <<work, stage, started, tape, provider, stopped, heard, served, round>>
        /\ stage = "live" /\ open[t] # 0
    BY <1>2 DEF ServiceAnswers
  <2>2. ~Final(Last(talk[t])) /\ at[t] < Len(work.answers[t])
    BY <2>1 DEF RecordingTypes
  <2>3. answer \in Message
    <3>1. work.answers[t] \in Seq(Message) /\ Len(work.answers[t]) \in Nat /\ at[t] \in Nat
      BY <1>0, Lengths
    <3>2. at[t] + 1 \in 1 .. Len(work.answers[t])
      BY <2>2, <3>1
    <3> QED BY <3>1, <3>2, Lengths
  <2> HIDE DEF answer
  <2>4. span \in Span
    <3>1. Completion(answer) \in Message
      BY <2>3, CompletionIs
    <3>2. Request(t, "recorded") = Sent(talk[t]) /\ talk[t] \in Histories
      BY <1>0, ConversationsAreHistories DEF Request, Sent
    <3>3. open[t] \in Nat
      BY <1>0
    <3> QED BY <3>1, <3>2, <3>3 DEF Span
  <2> HIDE DEF span
  <2>5. spans' \in Seq(Span) /\ at' \in [Thread -> Nat] /\ open' \in [Thread -> Nat]
    <3>1. Append(spans, span) \in Seq(Span)
      BY <1>0, <2>4, Appended
    <3>2. at[t] + 1 \in Nat
      <4>1. at[t] \in Nat
        BY <1>0
      <4> QED BY <4>1
    <3>3. at' \in [Thread -> Nat]
      BY <1>0, <2>1, <3>2
    <3>4. open' \in [Thread -> Nat]
      BY <1>0, <2>1
    <3> QED BY <2>1, <3>1, <3>3, <3>4
  <2>6. Conversations(talk') /\ \A u \in Thread \ {t} : talk'[u] = talk[u]
    <3>1. CASE answer.error = ""
      BY <1>0, <2>1, <2>2, <2>3, <3>1, ConversationsGoOn DEF Conversations
    <3>2. CASE answer.error # ""
      BY <1>0, <2>1, <3>2
    <3> QED BY <3>1, <3>2
  <2>7. Conversations(talk)' /\ Conversations(heard)'
    BY <1>0, <2>1, <2>6 DEF Conversations
  <2>8. ASSUME NEW u \in Thread, open'[u] # 0
        PROVE  stage' = "live" /\ ~Final(Last(talk'[u])) /\ at'[u] < Len(work'.answers[u])
    <3>1. u # t /\ open[u] # 0
      BY <1>0, <2>1, <2>8
    <3>2. talk'[u] = talk[u] /\ at'[u] = at[u]
      BY <1>0, <2>1, <2>6, <3>1
    <3> QED BY <2>1, <3>1, <3>2 DEF RecordingTypes
  <2> QED BY <2>1, <2>5, <2>7, <2>8 DEF RecordingTypes
<1>3. ASSUME Load PROVE RecordingTypes'
  <2>1. /\ heard' = talk /\ \A t \in Thread : open[t] = 0
        /\ UNCHANGED <<work, talk, open, started, at, spans, provider, stopped, served, round>>
        /\ stage' \in {"loaded", "over"}
    BY <1>3 DEF Load
  <2>2. tape' \in Seq(Call)
    <3>1. CASE tape' = Recorded(spans)
      BY <1>0, <3>1, RecordedFrom
    <3>2. ASSUME NEW f \in Fixtures PROVE f.calls \in Seq(Call)
      <4>1. Fixtures \subseteq [version : Nat, calls : Seq([request : Requests, response : Message])]
        BY Zenon, RecordingAssumption
      <4>2. Fixtures \subseteq [version : Nat, calls : Seq(Call)]
        BY Zenon, <4>1 DEF Call
      <4>3. f \in [version : Nat, calls : Seq(Call)]
        BY Zenon, <4>2
      <4> QED BY <4>3
    <3>3. << >> \in Seq(Call)
      BY EmptySeq
    <3>4. \/ tape' = Recorded(spans)
          \/ \E f \in Fixtures : tape' = f.calls \/ tape' = << >>
      BY <1>3 DEF Load
    <3> QED BY <3>1, <3>2, <3>3, <3>4
  <2>3. Conversations(talk)' /\ Conversations(heard)'
    BY <1>0, <2>1 DEF Conversations
  <2> QED BY <2>1, <2>2, <2>3 DEF RecordingTypes
<1>4. ASSUME Replay PROVE RecordingTypes'
  <2>1. /\ stage = "loaded" /\ stage' = "replay" /\ round' = round + 1
        /\ talk' = Opening(work) /\ stopped' = [t \in Thread |-> ""]
        /\ UNCHANGED <<work, open, started, at, spans, tape, provider, heard>>
    BY <1>4 DEF Replay
  <2>2. Conversations(talk)' /\ Conversations(heard)'
    <3>1. Conversations(Opening(work))
      BY <1>0, OpeningsAreShaped
    <3> QED BY <1>0, <2>1, <3>1 DEF Conversations
  <2>3. stopped' \in [Thread -> Errors]
    BY <2>1 DEF Errors
  <2>4. \A t \in Thread : open'[t] = 0
    BY <2>1 DEF RecordingTypes
  <2>5. round' \in Nat
    <3>1. round \in Nat
      BY DEF RecordingTypes
    <3>2. round + 1 \in Nat
      BY <3>1
    <3>3. round' = round + 1
      BY <1>4 DEF Replay
    <3> QED BY <3>2, <3>3
  <2>6. /\ provider' = [idx |-> provider'.idx, cursors |-> provider'.cursors] /\ provider'.idx \in Nat
        /\ \A r \in DOMAIN provider'.cursors : provider'.cursors[r] \in Nat
    BY <2>1 DEF RecordingTypes
  <2> QED BY <1>0, <2>1, <2>2, <2>3, <2>4, <2>5, <2>6 DEF RecordingTypes
<1>5. ASSUME NEW t \in Thread, ReplayCall(t) PROVE RecordingTypes'
  <2> DEFINE g == Generate(Request(t, work.with))
  <2>1. /\ stage = "replay" /\ ~Final(Last(talk[t])) /\ provider' = g.provider
        /\ UNCHANGED <<work, stage, open, started, at, spans, tape, heard, round>>
        /\ IF g.call # 0 /\ tape[g.call].response.error = ""
           THEN talk' = [talk EXCEPT ![t] = Append(@, tape[g.call].response)] /\ UNCHANGED stopped
           ELSE /\ stopped' = [stopped EXCEPT ![t] = IF g.call = 0 THEN g.error ELSE tape[g.call].response.error]
                /\ UNCHANGED talk
    BY <1>5 DEF ReplayCall, Going
  <2>2. /\ g.call # 0 => g.call \in 1 .. Len(tape)
        /\ g.error \in Errors
        /\ g.provider = [idx |-> g.provider.idx, cursors |-> g.provider.cursors]
        /\ g.provider.idx \in Nat
        /\ \A x \in DOMAIN g.provider.cursors : g.provider.cursors[x] \in Nat
    BY GenerateIs
  <2> HIDE DEF g
  <2>3. g.call # 0 => tape[g.call].response \in Message
    <3>1. g.call # 0 => tape[g.call] \in Call
      BY <1>0, <2>2, Lengths
    <3> QED BY <3>1 DEF Call
  <2>4. Conversations(talk') /\ stopped' \in [Thread -> Errors]
    <3>1. CASE g.call # 0 /\ tape[g.call].response.error = ""
      <4>1. talk' = [talk EXCEPT ![t] = Append(talk[t], tape[g.call].response)] /\ stopped' = stopped
        BY <2>1, <3>1
      <4> QED BY <1>0, <2>1, <2>3, <3>1, <4>1, ConversationsGoOn DEF RecordingTypes
    <3>2. CASE ~(g.call # 0 /\ tape[g.call].response.error = "")
      <4>1. (IF g.call = 0 THEN g.error ELSE tape[g.call].response.error) \in Errors
        BY <2>2, <2>3 DEF Errors, Message, Texts
      <4> QED BY <1>0, <2>1, <3>2, <4>1 DEF RecordingTypes
    <3> QED BY <3>1, <3>2
  <2>5. Conversations(talk)' /\ Conversations(heard)'
    BY <1>0, <2>1, <2>4 DEF Conversations
  <2>6. \A u \in Thread : open'[u] = 0
    BY <2>1 DEF RecordingTypes
  <2> QED BY <2>1, <2>2, <2>4, <2>5, <2>6 DEF RecordingTypes
<1>6. ASSUME Reset PROVE RecordingTypes'
  <2>1. /\ stage = "replay" /\ stage' = "loaded" /\ provider' = [provider EXCEPT !.idx = 0]
        /\ UNCHANGED <<work, talk, open, started, at, spans, tape, stopped, heard, served, round>>
    BY <1>6 DEF Reset
  <2>2. provider' = [idx |-> 0, cursors |-> provider.cursors]
    BY <2>1 DEF RecordingTypes
  <2>3. Conversations(talk)' /\ Conversations(heard)' /\ \A u \in Thread : open'[u] = 0
    BY <1>0, <2>1 DEF Conversations, RecordingTypes
  <2> QED BY <2>1, <2>2, <2>3 DEF RecordingTypes
<1>7. CASE UNCHANGED recordingVars
  BY <1>7 DEF recordingVars, RecordingTypes, Conversations
<1> QED BY <1>1, <1>2, <1>3, <1>4, <1>5, <1>6, <1>7 DEF RecordingNext

-----------------------------------------------------------------------------
(***************************************************************************)
(* Spans and conversations. As often as a message of M was kept for the    *)
(* request h, it follows h in a conversation of the live run.              *)
(***************************************************************************)
Starts(c, h) == Len(h) <= Len(c) /\ \A k \in 1 .. Len(h) : c[k] = h[k]
Beyond(c, h) == Len(h) < Len(c) /\ \A k \in 1 .. Len(h) : c[k] = h[k]

Followers(conv, h, M) == {t \in Thread : Beyond(conv[t], h) /\ Captured(conv[t][Len(h) + 1]) \in M}
KeptOf(ss, h, M) == {i \in KeptSpans(ss) : ss[i].request = Sent(h) /\ ss[i].completion \in M}

Live == IF stage = "live" THEN talk ELSE heard

SpansCount(ss, conv) ==
  \A h \in Histories, M \in SUBSET Message :
    Cardinality(KeptOf(ss, h, M)) = Cardinality(Followers(conv, h, M))

(* Spans that may still end start apart from those that did.               *)
StartsApart ==
  /\ \A i \in DOMAIN spans : spans[i].start \in 1 .. started /\ spans[i].completion.thinks = FALSE
  /\ \A i, j \in DOMAIN spans : spans[i].start = spans[j].start => i = j
  /\ \A t \in Thread : open[t] # 0 =>
       /\ open[t] \in 1 .. started
       /\ \A i \in DOMAIN spans : spans[i].start # open[t]
       /\ \A u \in Thread : open[u] = open[t] => u = t

(* What follows another history than its own is what followed before.      *)
LEMMA BeyondGrown ==
  ASSUME NEW c \in Histories, NEW h \in Histories, NEW m \in Message
  PROVE  /\ Starts(Append(c, m), h) /\ Len(h) <= Len(c) => Starts(c, h)
         /\ h # c => (Beyond(Append(c, m), h) <=> Beyond(c, h))
         /\ h # c /\ Beyond(c, h) => Append(c, m)[Len(h) + 1] = c[Len(h) + 1]
         /\ ~Beyond(c, c) /\ Beyond(Append(c, m), c) /\ Append(c, m)[Len(c) + 1] = m
<1> DEFINE d == Append(c, m)
<1>1. /\ Len(c) \in Nat /\ Len(h) \in Nat /\ Len(d) = Len(c) + 1
      /\ \A k \in 1 .. Len(c) : d[k] = c[k]
      /\ d[Len(c) + 1] = m
  BY Lengths, Appended DEF Histories
<1> HIDE DEF d
<1>2. Starts(d, h) /\ Len(h) <= Len(c) => Starts(c, h)
  BY <1>1 DEF Starts
<1>3. ASSUME h # c, Beyond(d, h) PROVE Beyond(c, h)
  <2>1. Len(h) <= Len(c) /\ \A k \in 1 .. Len(h) : d[k] = h[k]
    BY <1>1, <1>3 DEF Beyond
  <2>2. Len(h) # Len(c)
    <3>1. SUFFICES ASSUME Len(h) = Len(c) PROVE h = c
      BY <1>3
    <3>2. \A k \in 1 .. Len(c) : c[k] = h[k]
      BY <1>1, <2>1, <3>1
    <3> QED BY <3>1, <3>2, SeqEqual DEF Histories
  <2>3. Len(h) < Len(c)
    BY <1>1, <2>1, <2>2
  <2>4. \A k \in 1 .. Len(h) : c[k] = h[k]
    BY <1>1, <2>1, <2>3
  <2> QED BY <2>3, <2>4 DEF Beyond
<1>4. Beyond(c, h) => Beyond(d, h) /\ d[Len(h) + 1] = c[Len(h) + 1]
  BY <1>1 DEF Beyond
<1>5. ~Beyond(c, c) /\ Beyond(d, c)
  BY <1>1 DEF Beyond
<1> QED BY <1>1, <1>2, <1>3, <1>4, <1>5 DEF d

(* One conversation grows by m, and so does what follows its history.      *)
LEMMA FollowersGrow ==
  ASSUME NEW conv \in [Thread -> Histories], NEW t \in Thread, NEW m \in Message,
         NEW h \in Histories, NEW M \in SUBSET Message, NEW grown,
         grown[t] = Append(conv[t], m), \A u \in Thread \ {t} : grown[u] = conv[u]
  PROVE  /\ IsFiniteSet(Followers(conv, h, M)) /\ IsFiniteSet(Followers(grown, h, M))
         /\ Cardinality(Followers(grown, h, M)) =
              Cardinality(Followers(conv, h, M)) + IF h = conv[t] /\ Captured(m) \in M THEN 1 ELSE 0
<1> DEFINE F == Followers(conv, h, M)
           G == Followers(grown, h, M)
<1>1. IsFiniteSet(F) /\ IsFiniteSet(G)
  <2>1. IsFiniteSet(Thread)
    BY RecordingAssumption
  <2>2. F \in SUBSET Thread /\ G \in SUBSET Thread
    BY DEF Followers
  <2> QED BY <2>1, <2>2, FS_Subset
<1>2. Cardinality(F) \in Nat
  BY <1>1, FS_CardinalityType
<1>3. conv[t] \in Histories
  OBVIOUS
<1>4. /\ h # conv[t] => (Beyond(Append(conv[t], m), h) <=> Beyond(conv[t], h))
      /\ h # conv[t] /\ Beyond(conv[t], h) => Append(conv[t], m)[Len(h) + 1] = conv[t][Len(h) + 1]
      /\ ~Beyond(conv[t], conv[t]) /\ Beyond(Append(conv[t], m), conv[t])
      /\ Append(conv[t], m)[Len(conv[t]) + 1] = m
  BY <1>3, BeyondGrown, Zenon
<1>5. /\ h # conv[t] => (Beyond(grown[t], h) <=> Beyond(conv[t], h))
      /\ h # conv[t] /\ Beyond(conv[t], h) => grown[t][Len(h) + 1] = conv[t][Len(h) + 1]
      /\ ~Beyond(conv[t], conv[t]) /\ Beyond(grown[t], conv[t]) /\ grown[t][Len(conv[t]) + 1] = m
  BY <1>4, Zenon
<1>6. \A u \in Thread \ {t} : u \in G <=> u \in F
  BY DEF Followers
<1>7. G \subseteq Thread /\ F \subseteq Thread
  BY DEF Followers
<1>8. CASE h = conv[t] /\ Captured(m) \in M
  <2>1. t \notin F
    BY <1>5, <1>8 DEF Followers
  <2>2. t \in G
    BY <1>5, <1>8 DEF Followers
  <2> HIDE DEF F, G
  <2>3. \A u : u \in G <=> u \in F \cup {t}
    BY <1>6, <1>7, <2>1, <2>2
  <2>4. G = F \cup {t}
    BY <2>3
  <2> QED BY <1>1, <1>2, <1>8, <2>1, <2>4, FS_AddElement DEF F, G
<1>9. CASE ~(h = conv[t] /\ Captured(m) \in M)
  <2>1. t \in G <=> t \in F
    <3>1. CASE h = conv[t]
      BY <1>5, <1>9, <3>1 DEF Followers
    <3>2. CASE h # conv[t]
      BY <1>5, <3>2 DEF Followers
    <3> QED BY <3>1, <3>2
  <2> HIDE DEF F, G
  <2>2. \A u : u \in G <=> u \in F
    BY <1>6, <1>7, <2>1
  <2>3. G = F
    BY <2>2
  <2> QED BY <1>1, <1>2, <1>9, <2>3 DEF F, G
<1> QED BY <1>8, <1>9

LEMMA SentOnce == \A g, h : Sent(g) = Sent(h) => g = h
<1> TAKE g, h
<1>1. Sent(g).messages = g /\ Sent(h).messages = h
  BY DEF Sent
<1> QED BY <1>1

LEMMA KeptGrow ==
  ASSUME NEW ss \in Seq(Span), NEW s \in Span, NEW h \in Histories, NEW M \in SUBSET Message
  PROVE  /\ IsFiniteSet(KeptOf(ss, h, M)) /\ IsFiniteSet(KeptOf(Append(ss, s), h, M))
         /\ Cardinality(KeptOf(Append(ss, s), h, M)) =
              Cardinality(KeptOf(ss, h, M)) +
                IF s.completion.error = "" /\ s.request = Sent(h) /\ s.completion \in M THEN 1 ELSE 0
<1> DEFINE more == Append(ss, s)
           n == Len(ss)
           K == KeptOf(ss, h, M)
           L == KeptOf(more, h, M)
           counts == s.completion.error = "" /\ s.request = Sent(h) /\ s.completion \in M
<1>1. n \in Nat /\ DOMAIN ss = 1 .. n /\ DOMAIN more = 1 .. n + 1
      /\ (\A k \in 1 .. n : more[k] = ss[k]) /\ more[n + 1] = s
  <2>1. more \in Seq(Span) /\ Len(more) = n + 1 /\ (\A k \in 1 .. n : more[k] = ss[k]) /\ more[n + 1] = s
    BY Appended
  <2> HIDE DEF more
  <2> QED BY <2>1, Lengths
<1> HIDE DEF more, n
<1>2. /\ K = {i \in 1 .. n : ss[i].completion.error = "" /\ ss[i].request = Sent(h) /\ ss[i].completion \in M}
      /\ L = {i \in 1 .. n + 1 : more[i].completion.error = "" /\ more[i].request = Sent(h) /\ more[i].completion \in M}
  BY <1>1 DEF KeptOf, KeptSpans
<1> HIDE DEF K, L
<1>3. IsFiniteSet(K) /\ IsFiniteSet(L)
  <2>1. IsFiniteSet(1 .. n) /\ IsFiniteSet(1 .. n + 1)
    BY <1>1, FS_Interval
  <2>2. K \in SUBSET (1 .. n) /\ L \in SUBSET (1 .. n + 1)
    BY <1>2
  <2> QED BY <2>1, <2>2, FS_Subset
<1>4. \A i \in 1 .. n : i \in L <=> i \in K
  <2>1. \A i \in 1 .. n : i \in 1 .. n + 1
    BY <1>1
  <2> QED BY <1>1, <1>2, <2>1
<1>5. n + 1 \in L <=> counts
  <2>1. n + 1 \in 1 .. n + 1
    BY <1>1
  <2> QED BY <1>1, <1>2, <2>1
<1>6. n + 1 \notin K /\ L \subseteq (1 .. n) \cup {n + 1} /\ K \subseteq 1 .. n
  <2>1. n + 1 \notin 1 .. n /\ \A i \in 1 .. n + 1 : i \in 1 .. n \/ i = n + 1
    BY <1>1
  <2> QED BY <1>2, <2>1
<1>7. Cardinality(K) \in Nat
  BY <1>3, FS_CardinalityType
<1> HIDE DEF counts
<1>8. CASE counts
  <2>1. L = K \cup {n + 1}
    BY <1>4, <1>5, <1>6, <1>8
  <2>2. Cardinality(L) = Cardinality(K) + 1
    BY <1>3, <1>6, <2>1, FS_AddElement
  <2> QED BY <1>3, <1>8, <2>2 DEF K, L, more, counts
<1>9. CASE ~counts
  <2>1. L = K
    BY <1>4, <1>5, <1>6, <1>9
  <2>2. Cardinality(L) = Cardinality(K) + 0
    BY <1>7, <2>1
  <2> QED BY <1>3, <1>9, <2>2 DEF K, L, more, counts
<1> QED BY <1>8, <1>9

(* Of a run that is recorded faithfully.                                   *)
SpansTally == Faithful => SpansCount(spans, Live)

RunInv == RecordingTypes /\ StartsApart /\ SpansTally

(* With no span and openings only, nothing follows anything.               *)
LEMMA NothingFollows ==
  ASSUME NEW conv, \A t \in Thread : Len(conv[t]) = 1, NEW h \in Histories, NEW M
  PROVE  Followers(conv, h, M) = {}
<1>1. h \in Seq(Message) /\ h # << >>
  BY DEF Histories
<1>2. Len(h) \in Nat /\ Len(h) >= 1
  BY <1>1, Lengths
<1>3. ASSUME NEW t \in Thread PROVE ~Beyond(conv[t], h)
  <2>1. Len(conv[t]) = 1
    OBVIOUS
  <2>2. ~(Len(h) < Len(conv[t]))
    BY <1>2, <2>1
  <2> QED BY <2>2 DEF Beyond
<1> QED BY <1>3 DEF Followers

LEMMA RunInit == RecordingInit => RunInv
<1> SUFFICES ASSUME RecordingInit PROVE RunInv
  OBVIOUS
<1>1. RecordingTypes
  BY TypesInit
<1>2. stage = "live" /\ talk = Opening(work) /\ spans = << >> /\ \A t \in Thread : open[t] = 0
  BY DEF RecordingInit
<1>3. DOMAIN spans = {}
  <2>1. << >> \in Seq(Span)
    BY EmptySeq
  <2>2. DOMAIN << >> = 1 .. 0
    BY <2>1, Lengths
  <2> QED BY <1>2, <2>2
<1>4. StartsApart
  BY <1>2, <1>3 DEF StartsApart
<1>5. ASSUME NEW h \in Histories, NEW M \in SUBSET Message
      PROVE  Cardinality(KeptOf(spans, h, M)) = Cardinality(Followers(talk, h, M))
  <2>1. KeptOf(spans, h, M) = {}
    BY <1>3 DEF KeptOf, KeptSpans
  <2>2. \A t \in Thread : Len(talk[t]) = 1
    BY <1>1, <1>2, OpeningsAreShaped DEF RecordingTypes
  <2>3. Followers(talk, h, M) = {}
    BY <2>2, NothingFollows
  <2> QED BY <2>1, <2>3
<1> QED BY <1>1, <1>2, <1>4, <1>5 DEF RunInv, SpansTally, SpansCount, Live

LEMMA RunNext == RunInv /\ [RecordingNext]_recordingVars => RunInv'
<1> SUFFICES ASSUME RunInv, [RecordingNext]_recordingVars PROVE RunInv'
  OBVIOUS
<1>0. /\ RecordingTypes /\ RecordingTypes' /\ StartsApart /\ SpansTally
      /\ open \in [Thread -> Nat] /\ started \in Nat /\ spans \in Seq(Span)
      /\ DOMAIN spans = 1 .. Len(spans) /\ Len(spans) \in Nat
  <2>1. RecordingTypes /\ spans \in Seq(Span)
    BY DEF RunInv, RecordingTypes
  <2> QED BY <2>1, TypesNext, Lengths DEF RunInv, RecordingTypes
<1>1. ASSUME NEW t \in Thread, CallService(t) PROVE StartsApart' /\ SpansTally'
  <2>1. /\ started' = started + 1 /\ open' = [open EXCEPT ![t] = started + 1]
        /\ stage' = stage /\ talk' = talk /\ spans' = spans /\ heard' = heard
    BY <1>1 DEF CallService
  <2>2. SpansTally'
    <3>1. Live' = Live /\ spans' = spans /\ work' = work
      BY <1>1, <2>1 DEF Live, CallService
    <3> QED BY <1>0, <3>1 DEF SpansTally, SpansCount, Faithful, Captures
  <2>3. /\ open'[t] = started + 1 /\ started + 1 \in 1 .. started'
        /\ \A u \in Thread \ {t} : open'[u] = open[u]
        /\ \A k \in 1 .. started : k \in 1 .. started' /\ k # started + 1
    BY <1>0, <2>1
  <2>4. ASSUME NEW u \in Thread, open'[u] # 0
        PROVE  /\ open'[u] \in 1 .. started'
               /\ \A i \in DOMAIN spans : spans[i].start # open'[u]
               /\ \A v \in Thread : open'[v] = open'[u] => v = u
    <3>1. \A v \in Thread : open[v] # 0 => open[v] \in 1 .. started
      BY <1>0 DEF StartsApart
    <3>2. \A i \in DOMAIN spans : spans[i].start \in 1 .. started
      BY <1>0 DEF StartsApart
    <3>3. CASE u = t
      <4>1. started + 1 # 0
        BY <1>0
      <4> QED BY <2>3, <3>1, <3>2, <3>3, <4>1
    <3>4. CASE u # t
      <4>1. open[u] # 0 /\ open[u] \in 1 .. started /\ open'[u] = open[u]
        BY <2>3, <2>4, <3>1, <3>4
      <4>2. \A i \in DOMAIN spans : spans[i].start # open[u]
        BY <1>0, <4>1 DEF StartsApart
      <4>3. \A v \in Thread : open[v] = open[u] => v = u
        BY <1>0, <4>1 DEF StartsApart
      <4> QED BY <2>3, <4>1, <4>2, <4>3
    <3> QED BY <3>3, <3>4
  <2>5. /\ \A i \in DOMAIN spans : spans[i].start \in 1 .. started' /\ spans[i].completion.thinks = FALSE
        /\ \A i, j \in DOMAIN spans : spans[i].start = spans[j].start => i = j
    BY <1>0, <2>3 DEF StartsApart
  <2> QED BY <2>1, <2>2, <2>4, <2>5 DEF StartsApart
<1>2. ASSUME NEW t \in Thread, ServiceAnswers(t) PROVE StartsApart' /\ SpansTally'
  <2> DEFINE answer == work.answers[t][at[t] + 1]
             span == [start |-> open[t], request |-> Sent(talk[t]), completion |-> Completion(answer)]
             n == Len(spans)
  <2>1. /\ spans' = Append(spans, span)
        /\ talk' = IF answer.error = "" THEN [talk EXCEPT ![t] = Append(talk[t], answer)] ELSE talk
        /\ open' = [open EXCEPT ![t] = 0]
        /\ stage' = "live" /\ stage = "live" /\ started' = started /\ open[t] # 0 /\ work' = work
    BY <1>2 DEF ServiceAnswers, Request, Sent
  <2>2. answer \in Message /\ (Faithful => Captures(answer))
    <3>1. at[t] < Len(work.answers[t]) /\ work.answers[t] \in Seq(Message) /\ at[t] \in Nat
      BY <1>0, <2>1, WorkType DEF RecordingTypes
    <3>2. Len(work.answers[t]) \in Nat
      BY <3>1, Lengths
    <3>3. at[t] + 1 \in 1 .. Len(work.answers[t])
      BY <3>1, <3>2
    <3> QED BY <3>1, <3>3, Lengths DEF Faithful
  <2> HIDE DEF answer
  <2>3. /\ Completion(answer) \in Message /\ Completion(answer).thinks = FALSE
        /\ Faithful => /\ answer.error = "" => Completion(answer) = Captured(answer)
                       /\ Completion(answer).error = "" <=> answer.error = ""
    BY <2>2, CompletionIs
  <2>4. talk \in [Thread -> Histories]
    BY <1>0, ConversationsAreHistories DEF RecordingTypes
  <2>5. span \in Span
    <3>1. talk[t] \in Histories /\ open[t] \in Nat
      BY <1>0, <2>4
    <3> QED BY <2>3, <3>1 DEF Span
  <2>6. span.start = open[t] /\ span.request = Sent(talk[t]) /\ span.completion = Completion(answer)
    OBVIOUS
  <2> HIDE DEF span
  <2>7. ASSUME Faithful, NEW h \in Histories, NEW M \in SUBSET Message
        PROVE  Cardinality(KeptOf(spans', h, M)) = Cardinality(Followers(talk', h, M))
    <3> DEFINE K == Cardinality(KeptOf(spans, h, M))
               F == Cardinality(Followers(talk, h, M))
    <3>1. Cardinality(KeptOf(spans', h, M)) =
            K + IF answer.error = "" /\ Sent(talk[t]) = Sent(h) /\ Captured(answer) \in M THEN 1 ELSE 0
      <4>1. Cardinality(KeptOf(Append(spans, span), h, M)) =
              K + IF span.completion.error = "" /\ span.request = Sent(h) /\ span.completion \in M
                  THEN 1 ELSE 0
        <5>1. spans \in Seq(Span) /\ span \in Span
          BY <1>0, <2>5
        <5> QED BY <5>1, KeptGrow, Zenon
      <4> HIDE DEF K
      <4> QED BY <2>1, <2>3, <2>6, <2>7, <4>1
    <3>2. Sent(talk[t]) = Sent(h) <=> h = talk[t]
      BY SentOnce
    <3>3. K = F
      BY <1>0, <2>1, <2>7 DEF SpansTally, SpansCount, Live
    <3>4. K \in Nat
      BY <1>0, <2>5, KeptGrow, FS_CardinalityType
    <3> HIDE DEF K, F
    <3>5. CASE answer.error = ""
      <4>1. Cardinality(Followers(talk', h, M)) = F + IF h = talk[t] /\ Captured(answer) \in M THEN 1 ELSE 0
        <5>1. talk'[t] = Append(talk[t], answer) /\ \A u \in Thread \ {t} : talk'[u] = talk[u]
          BY <2>1, <2>4, <3>5
        <5> DEFINE grown == talk'
        <5>2. grown[t] = Append(talk[t], answer) /\ \A u \in Thread \ {t} : grown[u] = talk[u]
          BY <5>1, Zenon
        <5>3. h \in Histories /\ M \in SUBSET Message /\ talk \in [Thread -> Histories] /\ answer \in Message
          BY <2>2, <2>4
        <5> HIDE DEF grown
        <5>4. Cardinality(Followers(grown, h, M)) =
                Cardinality(Followers(talk, h, M)) + IF h = talk[t] /\ Captured(answer) \in M THEN 1 ELSE 0
          BY <5>2, <5>3, FollowersGrow
        <5> QED BY <5>4, Zenon DEF F, grown
      <4> QED BY <3>1, <3>2, <3>3, <3>5, <4>1
    <3>6. CASE answer.error # ""
      <4>1. Cardinality(Followers(talk', h, M)) = F
        <5>1. talk' = talk
          BY <2>1, <3>6
        <5> QED BY <5>1, Zenon DEF F
      <4>2. Cardinality(KeptOf(spans', h, M)) = K + 0
        BY <3>1, <3>6
      <4> QED BY <3>3, <3>4, <4>1, <4>2
    <3> QED BY <3>5, <3>6
  <2>8. SpansTally'
    <3>1. Faithful' <=> Faithful
      BY <2>1 DEF Faithful, Captures
    <3> QED BY <2>1, <2>7, <3>1 DEF SpansTally, SpansCount, Live
  <2>9. /\ DOMAIN spans' = 1 .. n + 1 /\ \A i \in 1 .. n : spans'[i] = spans[i]
        /\ spans'[n + 1] = span
    <3>1. /\ Append(spans, span) \in Seq(Span) /\ Len(Append(spans, span)) = n + 1
          /\ \A i \in 1 .. n : Append(spans, span)[i] = spans[i]
          /\ Append(spans, span)[n + 1] = span
      BY <1>0, <2>5, Appended
    <3> QED BY <2>1, <3>1, Lengths
  <2>10. \A i \in 1 .. n + 1 : i \in 1 .. n \/ i = n + 1
    BY <1>0
  <2> HIDE DEF n
  <2>11. /\ \A i \in 1 .. n : spans[i].start \in 1 .. started /\ spans[i].completion.thinks = FALSE
         /\ \A i, j \in 1 .. n : spans[i].start = spans[j].start => i = j
         /\ \A i \in 1 .. n : spans[i].start # open[t]
         /\ open[t] \in 1 .. started
         /\ \A u \in Thread : open[u] # 0 =>
              /\ open[u] \in 1 .. started
              /\ \A i \in 1 .. n : spans[i].start # open[u]
              /\ \A v \in Thread : open[v] = open[u] => v = u
    BY <1>0, <2>1 DEF StartsApart, n
  <2>12. \A i \in DOMAIN spans' : spans'[i].start \in 1 .. started /\ spans'[i].completion.thinks = FALSE
    BY <2>3, <2>6, <2>9, <2>10, <2>11
  <2>13. \A i, j \in DOMAIN spans' : spans'[i].start = spans'[j].start => i = j
    BY <2>6, <2>9, <2>10, <2>11
  <2>14. ASSUME NEW u \in Thread, open'[u] # 0
         PROVE  /\ open'[u] \in 1 .. started
                /\ \A i \in DOMAIN spans' : spans'[i].start # open'[u]
                /\ \A v \in Thread : open'[v] = open'[u] => v = u
    <3>1. u # t /\ open'[u] = open[u] /\ open[u] # 0
      BY <1>0, <2>1, <2>14
    <3>2. open[u] # open[t]
      BY <2>11, <3>1
    <3>3. \A i \in DOMAIN spans' : spans'[i].start # open[u]
      BY <2>6, <2>9, <2>10, <2>11, <3>1, <3>2
    <3>4. \A v \in Thread : open'[v] = 0 \/ open'[v] = open[v]
      BY <1>0, <2>1
    <3> QED BY <2>11, <3>1, <3>3, <3>4
  <2> QED BY <2>1, <2>8, <2>12, <2>13, <2>14 DEF StartsApart
<1>3. ASSUME Load PROVE StartsApart' /\ SpansTally'
  <2>1. /\ heard' = talk /\ stage = "live" /\ stage' # "live"
        /\ UNCHANGED <<open, started, spans, work>>
    BY <1>3 DEF Load
  <2> QED BY <1>0, <2>1 DEF StartsApart, SpansTally, SpansCount, Live, Faithful, Captures
<1>4. ASSUME UNCHANGED <<open, started, spans, heard, work>>, stage # "live", stage' # "live"
      PROVE  StartsApart' /\ SpansTally'
  BY <1>0, <1>4 DEF StartsApart, SpansTally, SpansCount, Live, Faithful, Captures
<1>5. ASSUME Replay \/ Reset \/ \E t \in Thread : ReplayCall(t) PROVE StartsApart' /\ SpansTally'
  BY <1>4, <1>5 DEF Replay, Reset, ReplayCall
<1>6. CASE UNCHANGED recordingVars
  <2>1. UNCHANGED <<open, started, spans, heard, stage, talk, work>>
    BY <1>6 DEF recordingVars
  <2> QED BY <1>0, <2>1 DEF StartsApart, SpansTally, SpansCount, Live, RunInv, Faithful, Captures
<1> QED BY <1>0, <1>1, <1>2, <1>3, <1>5, <1>6 DEF RecordingNext, RunInv

-----------------------------------------------------------------------------
(***************************************************************************)
(* The recording. What was recorded for a history is what follows it in    *)
(* the live run, as often.                                                 *)
(***************************************************************************)
LEMMA RecordedRequests ==
  ASSUME spans \in Seq(Span), tape = Recorded(spans), NEW c \in DOMAIN tape
  PROVE  \E h \in Histories : tape[c].request = Sent(h)
<1> DEFINE starts == InOrder({spans[i].start : i \in KeptSpans(spans)})
           n == Cardinality({spans[i].start : i \in KeptSpans(spans)})
           pick(k) == CHOOSE i \in KeptSpans(spans) : spans[i].start = starts[k]
           rec(i) == [request |-> spans[i].request, response |-> spans[i].completion]
<1>1. /\ n \in Nat /\ tape \in Seq(Call) /\ Len(tape) = n
      /\ \A k \in 1 .. n : pick(k) \in KeptSpans(spans) /\ tape[k] = rec(pick(k))
  BY RecordedFrom
<1> HIDE DEF pick, n
<1>2. c \in 1 .. n
  BY <1>1, Lengths
<1>3. PICK i \in KeptSpans(spans) : tape[c] = rec(i)
  BY <1>1, <1>2
<1>4. spans[i] \in Span
  BY Lengths DEF KeptSpans
<1>5. tape[c].request = spans[i].request
  <2>1. rec(i).request = spans[i].request
    OBVIOUS
  <2> HIDE DEF rec
  <2> QED BY <1>3, <2>1
<1> QED BY <1>4, <1>5 DEF Span

CallsOf(h, M) == {k \in DOMAIN tape : tape[k].request = Sent(h) /\ tape[k].response \in M}

LEMMA CallsAreKept ==
  ASSUME RunInv, tape = Recorded(spans), NEW h \in Histories, NEW M \in SUBSET Message
  PROVE  /\ IsFiniteSet(CallsOf(h, M)) /\ Cardinality(CallsOf(h, M)) = Cardinality(KeptOf(spans, h, M))
         /\ \A k \in DOMAIN tape : tape[k].response.error = "" /\ tape[k].response.thinks = FALSE
<1> DEFINE starts == InOrder({spans[i].start : i \in KeptSpans(spans)})
           n == Cardinality({spans[i].start : i \in KeptSpans(spans)})
           pick(k) == CHOOSE i \in KeptSpans(spans) : spans[i].start = starts[k]
<1>1. spans \in Seq(Span) /\ tape \in Seq(Call) /\ StartsApart
  BY DEF RunInv, RecordingTypes
<1>2. /\ n \in Nat /\ Len(tape) = n
      /\ \A k \in 1 .. n :
           /\ pick(k) \in KeptSpans(spans) /\ spans[pick(k)].start = starts[k]
           /\ tape[k] = [request |-> spans[pick(k)].request, response |-> spans[pick(k)].completion]
      /\ \A j, k \in 1 .. n : j < k => starts[j] < starts[k]
      /\ \A i \in KeptSpans(spans) : \E k \in 1 .. n : starts[k] = spans[i].start
  BY <1>1, RecordedFrom
<1>3. DOMAIN tape = 1 .. n
  BY <1>1, <1>2, Lengths
<1> HIDE DEF pick, n
<1>4. \A k \in 1 .. n : tape[k].request = spans[pick(k)].request /\ tape[k].response = spans[pick(k)].completion
  <2> DEFINE rec(i) == [request |-> spans[i].request, response |-> spans[i].completion]
  <2>1. \A i : rec(i).request = spans[i].request /\ rec(i).response = spans[i].completion
    OBVIOUS
  <2>2. \A k \in 1 .. n : tape[k] = rec(pick(k))
    BY <1>2
  <2> HIDE DEF rec
  <2> QED BY <2>1, <2>2
<1>5. \A i \in KeptSpans(spans) : spans[i].completion.error = "" /\ spans[i].completion.thinks = FALSE
  BY <1>1 DEF StartsApart, KeptSpans
<1>6. \A k \in 1 .. n : starts[k] \in Nat
  <2>1. \A i \in KeptSpans(spans) : spans[i].start \in Nat
    <3>1. \A i \in DOMAIN spans : spans[i] \in Span
      BY <1>1, Lengths
    <3> QED BY <3>1 DEF Span, KeptSpans
  <2> QED BY <1>2, <2>1
<1> HIDE DEF starts
<1>7. \A j, k \in 1 .. n : pick(j) = pick(k) => j = k
  <2> SUFFICES ASSUME NEW j \in 1 .. n, NEW k \in 1 .. n, pick(j) = pick(k) PROVE j = k
    OBVIOUS
  <2>1. starts[j] = starts[k]
    BY <1>2
  <2>2. ~(j < k) /\ ~(k < j)
    BY <1>2, <1>6, <2>1
  <2> QED BY <2>2
<1>8. \A i \in KeptSpans(spans) : \E k \in 1 .. n : pick(k) = i
  <2> TAKE i \in KeptSpans(spans)
  <2>1. PICK k \in 1 .. n : starts[k] = spans[i].start
    BY <1>2
  <2>2. pick(k) \in DOMAIN spans /\ i \in DOMAIN spans /\ spans[pick(k)].start = spans[i].start
    BY <1>2, <2>1 DEF KeptSpans
  <2> QED BY <1>1, <2>2 DEF StartsApart
<1> DEFINE A == CallsOf(h, M)
           B == KeptOf(spans, h, M)
           f == [k \in A |-> pick(k)]
<1>9. A = {k \in 1 .. n : spans[pick(k)].request = Sent(h) /\ spans[pick(k)].completion \in M}
  BY <1>3, <1>4 DEF CallsOf
<1>10. f \in [A -> B]
  <2>1. \A k \in A : pick(k) \in B
    BY <1>2, <1>9 DEF KeptOf
  <2> HIDE DEF A, B
  <2> QED BY <2>1
<1>11. A \in SUBSET (1 .. n)
  BY <1>9
<1>12. IsFiniteSet(A)
  BY <1>2, <1>11, FS_Interval, FS_Subset
<1>13. \A z \in B : \E k \in A : f[k] = z
  <2> TAKE z \in B
  <2>1. PICK k \in 1 .. n : pick(k) = z
    BY <1>8 DEF KeptOf
  <2>2. k \in A
    BY <1>9, <2>1 DEF KeptOf
  <2> QED BY <2>1, <2>2
<1>14. \A j, k \in A : f[j] = f[k] => j = k
  BY <1>7, <1>11
<1> HIDE DEF A, B, f
<1>15. Cardinality(A) = Cardinality(B)
  BY <1>10, <1>12, <1>13, <1>14, SameCount
<1>16. \A k \in DOMAIN tape : tape[k].response.error = "" /\ tape[k].response.thinks = FALSE
  <2>1. \A k \in 1 .. n : pick(k) \in KeptSpans(spans)
    BY <1>2
  <2>2. \A k \in DOMAIN tape : k \in 1 .. n
    BY <1>3
  <2> TAKE k \in DOMAIN tape
  <2>3. tape[k].response = spans[pick(k)].completion
    BY <1>4, <2>2
  <2>4. spans[pick(k)].completion.error = "" /\ spans[pick(k)].completion.thinks = FALSE
    BY <1>5, <2>1, <2>2
  <2> QED BY <2>3, <2>4
<1> QED BY <1>12, <1>15, <1>16 DEF A, B

(* So is what is queued for it.                                            *)
Queued(h, c, M) == {j \in 1 .. c : tape[Queue(Sent(h))[j]].response \in M}

LEMMA QueueServesTheRun ==
  ASSUME RunInv, Faithful, stage # "live", tape = Recorded(spans), NEW h \in Histories, NEW M \in SUBSET Message
  PROVE  /\ Len(Queue(Sent(h))) \in Nat
         /\ Cardinality(Queued(h, Len(Queue(Sent(h))), M)) = Cardinality(Followers(heard, h, M))
<1> DEFINE q == Queue(Sent(h))
           A == Queued(h, Len(q), M)
           B == CallsOf(h, M)
           f == [j \in A |-> q[j]]
<1>1. tape \in Seq(Call) /\ SpansCount(spans, heard)
  BY DEF RunInv, SpansTally, RecordingTypes, Live
<1>2. DOMAIN tape = 1 .. Len(tape) /\ Len(tape) \in Nat
  BY <1>1, Lengths
<1>3. /\ Len(q) \in Nat
      /\ \A k \in 1 .. Len(q) : q[k] \in 1 .. Len(tape) /\ tape[q[k]].request = Sent(h)
      /\ \A i \in 1 .. Len(tape) : tape[i].request = Sent(h) => \E k \in 1 .. Len(q) : q[k] = i
      /\ \A j, k \in 1 .. Len(q) : j < k => q[j] < q[k]
  BY <1>1, QueueIs
<1>4. A = {j \in 1 .. Len(q) : tape[q[j]].response \in M}
  BY DEF Queued
<1> HIDE DEF q, A
<1>5. A \in SUBSET (1 .. Len(q)) /\ IsFiniteSet(A)
  <2>1. A \in SUBSET (1 .. Len(q))
    BY <1>4
  <2>2. IsFiniteSet(1 .. Len(q))
    BY <1>3, FS_Interval
  <2> QED BY <2>1, <2>2, FS_Subset
<1>6. f \in [A -> B]
  <2>1. \A j \in A : q[j] \in B
    BY <1>2, <1>3, <1>4 DEF CallsOf
  <2> HIDE DEF B
  <2> QED BY <2>1
<1>7. \A i, j \in A : f[i] = f[j] => i = j
  <2> SUFFICES ASSUME NEW i \in A, NEW j \in A, q[i] = q[j] PROVE i = j
    OBVIOUS
  <2>1. i \in 1 .. Len(q) /\ j \in 1 .. Len(q)
    BY <1>5
  <2>2. q[i] \in 1 .. Len(tape) /\ (i < j => q[i] < q[j]) /\ (j < i => q[j] < q[i])
    BY <1>3, <2>1
  <2>3. ~(i < j) /\ ~(j < i)
    BY <2>2
  <2> QED BY <2>1, <2>3
<1>8. \A z \in B : \E j \in A : f[j] = z
  <2> TAKE z \in B
  <2>1. z \in 1 .. Len(tape) /\ tape[z].request = Sent(h) /\ tape[z].response \in M
    BY <1>2 DEF CallsOf
  <2>2. PICK j \in 1 .. Len(q) : q[j] = z
    BY <1>3, <2>1
  <2>3. j \in A
    BY <1>4, <2>1, <2>2
  <2> QED BY <2>2, <2>3
<1> HIDE DEF f, B
<1>9. Cardinality(B) = Cardinality(A)
  BY <1>5, <1>6, <1>7, <1>8, SameCount
<1>10. Cardinality(B) = Cardinality(KeptOf(spans, h, M))
  BY CallsAreKept DEF B
<1>11. Cardinality(KeptOf(spans, h, M)) = Cardinality(Followers(heard, h, M))
  BY <1>1 DEF SpansCount
<1> QED BY <1>3, <1>9, <1>10, <1>11 DEF A, q

-----------------------------------------------------------------------------
(***************************************************************************)
(* The threads that came as far as a history, in a run without reasoning.  *)
(***************************************************************************)
Reached(conv, h) == {u \in Thread : Starts(conv[u], h)}
Plain(conv) == \A t \in Thread : \A k \in 1 .. Len(conv[t]) : conv[t][k].thinks = FALSE

LEMMA HistoryIs ==
  ASSUME NEW h \in Histories
  PROVE  /\ h \in Seq(Message) /\ Len(h) \in Nat /\ Len(h) >= 1 /\ Last(h) = h[Len(h)]
         /\ \A k \in 1 .. Len(h) : h[k] \in Message
BY Lengths, LastIs DEF Histories

LEMMA PrefixIs ==
  ASSUME NEW h \in Histories, NEW n \in 1 .. Len(h)
  PROVE  \E g \in Histories : Len(g) = n /\ \A k \in 1 .. n : g[k] = h[k]
<1> DEFINE g == [k \in 1 .. n |-> h[k]]
<1>1. Len(h) \in Nat /\ \A k \in 1 .. Len(h) : h[k] \in Message
  BY HistoryIs
<1>2. \A k \in 1 .. n : h[k] \in Message
  BY <1>1
<1>3. n \in Nat /\ n >= 1
  BY <1>1
<1>4. g \in Seq(Message) /\ Len(g) = n /\ \A k \in 1 .. n : g[k] = h[k]
  BY <1>2, <1>3
<1> HIDE DEF g
<1>5. g # << >>
  BY <1>3, <1>4, Lengths
<1> QED BY <1>4, <1>5 DEF Histories

LEMMA SameHistory ==
  ASSUME NEW g \in Histories, NEW h \in Histories, Len(g) = Len(h), \A k \in 1 .. Len(h) : g[k] = h[k]
  PROVE  g = h
BY SeqEqual DEF Histories

LEMMA CapturedPlain ==
  ASSUME NEW m \in Message, m.thinks = FALSE
  PROVE  Captured(m) = m
BY DEF Captured, Message

LEMMA ReachedFinite ==
  ASSUME NEW conv, NEW h, NEW M
  PROVE  IsFiniteSet(Reached(conv, h)) /\ IsFiniteSet(Followers(conv, h, M))
<1>1. IsFiniteSet(Thread)
  BY RecordingAssumption
<1>2. Reached(conv, h) \in SUBSET Thread /\ Followers(conv, h, M) \in SUBSET Thread
  BY DEF Reached, Followers
<1> QED BY <1>1, <1>2, FS_Subset

(* Whoever came as far as h followed what is before its last message.      *)
LEMMA ReachedFollows ==
  ASSUME NEW conv \in [Thread -> Histories], Plain(conv), NEW g \in Histories, NEW h \in Histories,
         Len(h) = Len(g) + 1, \A k \in 1 .. Len(g) : h[k] = g[k]
  PROVE  Reached(conv, h) = Followers(conv, g, {h[Len(h)]})
<1> DEFINE n == Len(g)
<1>1. n \in Nat /\ Len(h) = n + 1
  BY HistoryIs
<1> HIDE DEF n
<1>2. ASSUME NEW u \in Thread
      PROVE  Starts(conv[u], h) <=> Beyond(conv[u], g) /\ Captured(conv[u][n + 1]) \in {h[n + 1]}
  <2> DEFINE c == conv[u]
  <2>1. Len(c) \in Nat /\ \A k \in 1 .. Len(c) : c[k] \in Message /\ c[k].thinks = FALSE
    BY HistoryIs DEF Plain
  <2> HIDE DEF c
  <2>2. ASSUME n + 1 <= Len(c) PROVE Captured(c[n + 1]) = c[n + 1]
    <3>1. n + 1 \in 1 .. Len(c)
      BY <1>1, <2>1, <2>2
    <3> QED BY <2>1, <3>1, CapturedPlain
  <2>3. n < Len(c) <=> n + 1 <= Len(c)
    BY <1>1, <2>1
  <2>4. (\A k \in 1 .. n + 1 : c[k] = h[k]) <=> (\A k \in 1 .. n : c[k] = g[k]) /\ c[n + 1] = h[n + 1]
    <3>1. \A k \in 1 .. n + 1 : k \in 1 .. n \/ k = n + 1
      BY <1>1
    <3>2. n + 1 \in 1 .. n + 1 /\ \A k \in 1 .. n : k \in 1 .. n + 1 /\ h[k] = g[k]
      BY <1>1 DEF n
    <3> QED BY <3>1, <3>2
  <2>5. Starts(c, h) <=> n + 1 <= Len(c) /\ \A k \in 1 .. n + 1 : c[k] = h[k]
    BY <1>1 DEF Starts
  <2>6. Beyond(c, g) <=> n < Len(c) /\ \A k \in 1 .. n : c[k] = g[k]
    BY DEF Beyond, n
  <2>7. Starts(c, h) <=> Beyond(c, g) /\ Captured(c[n + 1]) \in {h[n + 1]}
    BY <2>2, <2>3, <2>4, <2>5, <2>6
  <2> QED BY <2>7 DEF c
<1> QED BY <1>1, <1>2 DEF Reached, Followers, n

(* Conversations of one run and of another open alike.                     *)
LEMMA OpenAlike ==
  ASSUME Conversations(talk), Conversations(heard), NEW h \in Histories, Len(h) = 1
  PROVE  Reached(talk, h) = Reached(heard, h)
<1>1. ASSUME NEW u \in Thread PROVE Starts(talk[u], h) <=> Starts(heard[u], h)
  <2>1. Len(talk[u]) >= 1 /\ Len(heard[u]) >= 1 /\ talk[u][1] = heard[u][1]
    <3>1. Shaped(talk[u], work.asks[u]) /\ Shaped(heard[u], work.asks[u])
      BY DEF Conversations
    <3> HIDE DEF Answer
    <3>2. talk[u][1] = Answer(work.asks[u], FALSE) /\ heard[u][1] = Answer(work.asks[u], FALSE)
      BY Zenon, <3>1 DEF Shaped
    <3> QED BY <3>1, <3>2 DEF Shaped
  <2>2. \A k : k \in 1 .. Len(h) <=> k = 1
    OBVIOUS
  <2> QED BY <2>1, <2>2 DEF Starts
<1> QED BY <1>1 DEF Reached

(* Whoever finished went beyond what is not final, and not beyond what is. *)
LEMMA ReachedGoesOn ==
  ASSUME NEW conv, Conversations(conv), Finished(conv), NEW h \in Histories, ~Final(Last(h))
  PROVE  Reached(conv, h) = Followers(conv, h, Message)
<1> USE ConversationsAreHistories
<1>1. ASSUME NEW u \in Thread
      PROVE  Starts(conv[u], h) <=> Beyond(conv[u], h) /\ Captured(conv[u][Len(h) + 1]) \in Message
  <2> DEFINE c == conv[u]
  <2>1. c \in Histories
    OBVIOUS
  <2>2. Final(Last(c))
    BY DEF Finished
  <2> HIDE DEF c
  <2>3. Len(c) \in Nat /\ Len(h) \in Nat /\ \A k \in 1 .. Len(c) : c[k] \in Message
    BY <2>1, HistoryIs
  <2>4. ASSUME Starts(c, h) PROVE Beyond(c, h)
    <3>1. Len(h) <= Len(c) /\ \A k \in 1 .. Len(h) : c[k] = h[k]
      BY <2>4 DEF Starts
    <3>2. ASSUME Len(h) = Len(c) PROVE FALSE
      <4>1. c = h
        BY <2>1, <3>1, <3>2, SameHistory
      <4> QED BY <2>2, <4>1
    <3> QED BY <2>3, <3>1, <3>2 DEF Beyond
  <2>5. ASSUME Beyond(c, h) PROVE Starts(c, h) /\ Captured(c[Len(h) + 1]) \in Message
    <3>1. Len(h) < Len(c) /\ \A k \in 1 .. Len(h) : c[k] = h[k]
      BY <2>5 DEF Beyond
    <3>2. Len(h) + 1 \in 1 .. Len(c)
      BY <2>3, <3>1
    <3>3. c[Len(h) + 1] \in Message
      BY <2>3, <3>2
    <3>4. Captured(c[Len(h) + 1]) \in Message
      BY <3>3 DEF Captured, Message
    <3>5. Starts(c, h)
      BY <2>3, <3>1 DEF Starts
    <3> QED BY <3>4, <3>5
  <2> QED BY <2>4, <2>5 DEF c
<1> QED BY <1>1 DEF Reached, Followers

LEMMA ReachedEnds ==
  ASSUME NEW conv, Conversations(conv), NEW h \in Histories, Final(Last(h))
  PROVE  Reached(conv, h) = {u \in Thread : conv[u] = h}
<1>1. ASSUME NEW u \in Thread PROVE Starts(conv[u], h) <=> conv[u] = h
  <2> DEFINE c == conv[u]
  <2>1. c \in Histories
    BY ConversationsAreHistories
  <2>2. \A k \in 1 .. Len(c) - 1 : ~Final(c[k])
    BY DEF Conversations, Shaped
  <2> HIDE DEF c
  <2>3. Len(c) \in Nat /\ Len(h) \in Nat /\ Len(h) >= 1 /\ Final(h[Len(h)])
    BY <2>1, HistoryIs
  <2>4. ASSUME Starts(c, h) PROVE c = h
    <3>1. Len(h) <= Len(c) /\ \A k \in 1 .. Len(h) : c[k] = h[k]
      BY <2>4 DEF Starts
    <3>2. ASSUME Len(h) # Len(c) PROVE FALSE
      <4>1. Len(h) \in 1 .. Len(c) - 1 /\ Len(h) \in 1 .. Len(h)
        BY <2>3, <3>1, <3>2
      <4>2. c[Len(h)] = h[Len(h)]
        BY <3>1, <4>1
      <4> QED BY <2>2, <2>3, <4>1, <4>2
    <3> QED BY <2>1, <3>1, <3>2, SameHistory
  <2>5. c = h => Starts(c, h)
    BY <2>3 DEF Starts
  <2> QED BY <2>4, <2>5 DEF c
<1> QED BY <1>1 DEF Reached

-----------------------------------------------------------------------------
(***************************************************************************)
(* A lenient replay. The cursor of a request counts who was answered, and  *)
(* the answers served so far follow its history as often.                  *)
(***************************************************************************)
Good == tape = Recorded(spans) /\ work.with = "recorded" /\ Faithful /\ Finished(heard) /\ ~Thinks

ServedAlike ==
  \A h \in Histories :
    /\ Cursor(Sent(h)) \in 0 .. Len(Queue(Sent(h)))
    /\ \A M \in SUBSET Message :
         Cardinality(Followers(talk, h, M)) = Cardinality(Queued(h, Cursor(Sent(h)), M))

Replaying == RunInv /\ stage = "replay" /\ Good /\ Plain(talk) /\ ServedAlike

LEMMA QueuedUpTo ==
  ASSUME NEW h, NEW M, NEW n \in Nat, NEW c \in 0 .. n
  PROVE  /\ IsFiniteSet(Queued(h, c, M)) /\ Cardinality(Queued(h, c, M)) \in Nat
         /\ Cardinality(Queued(h, c, M)) <= Cardinality(Queued(h, n, M))
<1>1. IsFiniteSet(1 .. c) /\ IsFiniteSet(1 .. n)
  BY FS_Interval
<1>2. Queued(h, c, M) \in SUBSET (1 .. c) /\ Queued(h, n, M) \in SUBSET (1 .. n)
  BY DEF Queued
<1>3. Queued(h, c, M) \in SUBSET Queued(h, n, M)
  <2>1. \A j \in 1 .. c : j \in 1 .. n
    OBVIOUS
  <2> QED BY <2>1 DEF Queued
<1>4. IsFiniteSet(Queued(h, c, M)) /\ IsFiniteSet(Queued(h, n, M))
  BY <1>1, <1>2, FS_Subset
<1>5. Cardinality(Queued(h, c, M)) \in Nat
  BY <1>4, FS_CardinalityType
<1>6. Cardinality(Queued(h, c, M)) <= Cardinality(Queued(h, n, M))
  BY <1>3, <1>4, FS_Subset
<1> QED BY <1>4, <1>5, <1>6

LEMMA QueuedGrows ==
  ASSUME NEW h, NEW M, NEW c \in Nat
  PROVE  Cardinality(Queued(h, c + 1, M)) =
           Cardinality(Queued(h, c, M)) + IF tape[Queue(Sent(h))[c + 1]].response \in M THEN 1 ELSE 0
<1> DEFINE counts == tape[Queue(Sent(h))[c + 1]].response \in M
           A == Queued(h, c, M)
           B == Queued(h, c + 1, M)
<1>1. IsFiniteSet(A) /\ Cardinality(A) \in Nat
  BY QueuedUpTo
<1>2. \A j : j \in 1 .. c + 1 <=> j \in 1 .. c \/ j = c + 1
  OBVIOUS
<1>3. c + 1 \notin A
  BY DEF Queued
<1>4. CASE counts
  <2>1. B = A \cup {c + 1}
    BY <1>2, <1>4 DEF Queued
  <2> HIDE DEF A, B
  <2>2. Cardinality(B) = Cardinality(A) + 1
    BY <1>1, <1>3, <2>1, FS_AddElement
  <2> QED BY <1>4, <2>2 DEF A, B
<1>5. CASE ~counts
  <2>1. B = A
    BY <1>2, <1>5 DEF Queued
  <2>2. Cardinality(B) = Cardinality(A) + 0
    BY <1>1, <2>1
  <2> QED BY <1>5, <2>2
<1> QED BY <1>4, <1>5

LEMMA QueuedAll ==
  ASSUME RunInv, NEW h \in Histories, NEW c \in 0 .. Len(Queue(Sent(h)))
  PROVE  Cardinality(Queued(h, c, Message)) = c
<1>1. tape \in Seq(Call)
  BY DEF RunInv, RecordingTypes
<1>2. /\ Len(Queue(Sent(h))) \in Nat
      /\ \A k \in 1 .. Len(Queue(Sent(h))) : Queue(Sent(h))[k] \in 1 .. Len(tape)
  BY <1>1, QueueIs
<1>3. \A k \in 1 .. c : Queue(Sent(h))[k] \in 1 .. Len(tape)
  BY <1>2
<1>4. \A i \in 1 .. Len(tape) : tape[i].response \in Message
  <2>1. \A i \in 1 .. Len(tape) : tape[i] \in Call
    BY <1>1, Lengths
  <2> QED BY <2>1 DEF Call
<1>5. Queued(h, c, Message) = 1 .. c
  BY <1>3, <1>4 DEF Queued
<1> QED BY <1>2, <1>5, FS_Interval

LEMMA PlainlyHeard ==
  ASSUME RunInv, ~Thinks
  PROVE  Plain(heard)
<1>1. ASSUME NEW t \in Thread, NEW k \in 1 .. Len(heard[t]) PROVE heard[t][k].thinks = FALSE
  <2>1. heard[t] \in Seq(Message)
    BY DEF RunInv, RecordingTypes, Conversations
  <2>2. DOMAIN heard[t] = 1 .. Len(heard[t]) /\ heard[t][k] \in Message
    BY <2>1, Lengths
  <2>3. heard[t][k].thinks \in BOOLEAN
    BY <2>2 DEF Message
  <2> QED BY <2>2, <2>3 DEF Thinks
<1> QED BY <1>1 DEF Plain

(* Who was answered in the replay is not more than in the live run.        *)
LEMMA FewerFollow ==
  ASSUME Replaying, NEW h \in Histories, NEW M \in SUBSET Message
  PROVE  Cardinality(Followers(talk, h, M)) <= Cardinality(Followers(heard, h, M))
<1> DEFINE n == Len(Queue(Sent(h)))
           c == Cursor(Sent(h))
<1>1. n \in Nat /\ Cardinality(Queued(h, n, M)) = Cardinality(Followers(heard, h, M))
  BY QueueServesTheRun DEF Replaying, Good
<1>2. c \in 0 .. n /\ Cardinality(Followers(talk, h, M)) = Cardinality(Queued(h, c, M))
  BY DEF Replaying, ServedAlike
<1> HIDE DEF n, c
<1>3. Cardinality(Queued(h, c, M)) <= Cardinality(Queued(h, n, M))
  BY <1>1, <1>2, QueuedUpTo
<1> QED BY <1>1, <1>2, <1>3

LEMMA BothConversations ==
  ASSUME Replaying
  PROVE  /\ Conversations(talk) /\ Conversations(heard) /\ Plain(talk) /\ Plain(heard)
         /\ talk \in [Thread -> Histories] /\ heard \in [Thread -> Histories] /\ Finished(heard)
<1>1. Conversations(talk) /\ Conversations(heard) /\ Plain(heard)
  BY PlainlyHeard DEF Replaying, RunInv, RecordingTypes, Good
<1> QED BY <1>1, ConversationsAreHistories DEF Replaying, Good

LEMMA FewerReached ==
  ASSUME Replaying, NEW h \in Histories
  PROVE  Cardinality(Reached(talk, h)) <= Cardinality(Reached(heard, h))
<1>1. Cardinality(Reached(heard, h)) \in Nat
  BY ReachedFinite, FS_CardinalityType
<1>2. CASE Len(h) = 1
  BY <1>1, <1>2, OpenAlike, BothConversations
<1>3. CASE Len(h) # 1
  <2>1. Len(h) \in Nat /\ Len(h) >= 1 /\ h[Len(h)] \in Message
    BY HistoryIs
  <2>2. Len(h) - 1 \in 1 .. Len(h)
    <3>1. \A n \in Nat : n >= 1 /\ n # 1 => n - 1 \in 1 .. n
      OBVIOUS
    <3> QED BY <1>3, <2>1, <3>1
  <2>3. PICK g \in Histories : Len(g) = Len(h) - 1 /\ \A k \in 1 .. Len(h) - 1 : g[k] = h[k]
    BY <2>2, PrefixIs
  <2>4. Len(h) = Len(g) + 1 /\ \A k \in 1 .. Len(g) : h[k] = g[k]
    BY <2>1, <2>3
  <2>5. /\ Reached(talk, h) = Followers(talk, g, {h[Len(h)]})
        /\ Reached(heard, h) = Followers(heard, g, {h[Len(h)]})
    BY <2>4, BothConversations, ReachedFollows
  <2>6. {h[Len(h)]} \in SUBSET Message
    BY <2>1
  <2> QED BY <2>5, <2>6, FewerFollow
<1> QED BY <1>2, <1>3

(* A thread that asks goes where the recording has an answer left.         *)
LEMMA MoreToServe ==
  ASSUME Replaying, NEW t \in Thread, ~Final(Last(talk[t]))
  PROVE  Cursor(Sent(talk[t])) < Len(Queue(Sent(talk[t])))
<1> DEFINE h == talk[t]
           c == Cursor(Sent(h))
           n == Len(Queue(Sent(h)))
<1>1. h \in Histories
  BY BothConversations
<1>2. Starts(talk[t], h) /\ ~Beyond(talk[t], h)
  BY <1>1, HistoryIs DEF Starts, Beyond
<1>3. ~Final(Last(h))
  OBVIOUS
<1> HIDE DEF h
<1>4. t \in Reached(talk, h) /\ t \notin Followers(talk, h, Message)
  BY <1>2 DEF Reached, Followers
<1>5. Followers(talk, h, Message) \in SUBSET Reached(talk, h)
  <2>1. Len(h) \in Nat
    BY <1>1, HistoryIs
  <2>2. ASSUME NEW u \in Thread, Beyond(talk[u], h) PROVE Starts(talk[u], h)
    <3>1. Len(talk[u]) \in Nat
      BY BothConversations, HistoryIs
    <3> QED BY <2>1, <2>2, <3>1 DEF Starts, Beyond
  <2> QED BY <2>2 DEF Reached, Followers
<1>6. Cardinality(Followers(talk, h, Message)) < Cardinality(Reached(talk, h))
  <2>1. IsFiniteSet(Reached(talk, h)) /\ IsFiniteSet(Followers(talk, h, Message))
    BY ReachedFinite
  <2>2. /\ Cardinality(Followers(talk, h, Message)) <= Cardinality(Reached(talk, h))
        /\ Cardinality(Followers(talk, h, Message)) # Cardinality(Reached(talk, h))
    BY <1>4, <1>5, <2>1, FS_Subset
  <2>3. Cardinality(Followers(talk, h, Message)) \in Nat /\ Cardinality(Reached(talk, h)) \in Nat
    BY <2>1, FS_CardinalityType
  <2> QED BY <2>2, <2>3
<1>7. Cardinality(Reached(talk, h)) <= Cardinality(Reached(heard, h))
  BY <1>1, FewerReached
<1>8. Reached(heard, h) = Followers(heard, h, Message)
  BY <1>1, <1>3, BothConversations, ReachedGoesOn
<1>9. n \in Nat /\ Cardinality(Queued(h, n, Message)) = Cardinality(Followers(heard, h, Message))
  BY <1>1, QueueServesTheRun DEF Replaying, Good
<1>10. c \in 0 .. n /\ Cardinality(Followers(talk, h, Message)) = Cardinality(Queued(h, c, Message))
  BY <1>1 DEF Replaying, ServedAlike
<1>11. Cardinality(Queued(h, n, Message)) = n /\ Cardinality(Queued(h, c, Message)) = c
  <2>1. n \in 0 .. n
    BY <1>9
  <2> HIDE DEF n, c
  <2> QED BY <1>1, <1>10, <2>1, QueuedAll DEF Replaying, n
<1>12. Cardinality(Reached(talk, h)) \in Nat
  BY ReachedFinite, FS_CardinalityType
<1> HIDE DEF n, c
<1>13. c < n
  BY <1>6, <1>7, <1>8, <1>9, <1>10, <1>11, <1>12
<1> QED BY <1>13 DEF n, c, h

(* When all have finished, as many came as far as in the live run.         *)
LEMMA ReachedAlike ==
  ASSUME Replaying, Finished(talk), NEW c \in Histories, \A k \in 1 .. Len(c) - 1 : ~Final(c[k])
  PROVE  Cardinality(Reached(talk, c)) = Cardinality(Reached(heard, c))
<1> DEFINE Alike(h) == Cardinality(Reached(talk, h)) = Cardinality(Reached(heard, h))
           Of(h, k) == Len(h) = k /\ \A j \in 1 .. k : h[j] = c[j]
           Bad == {k \in 1 .. Len(c) : \E h \in Histories : Of(h, k) /\ ~Alike(h)}
<1>1. Len(c) \in Nat /\ Len(c) >= 1
  BY HistoryIs
<1> HIDE DEF Alike
<1>2. Bad \subseteq Nat
  BY <1>1
<1>3. ~Alike(c) => Len(c) \in Bad
  BY <1>1
<1>4. ASSUME NEW k \in Bad, \A j \in Bad : k <= j PROVE FALSE
  <2>1. k \in 1 .. Len(c)
    OBVIOUS
  <2>2. PICK h \in Histories : Of(h, k) /\ ~Alike(h)
    OBVIOUS
  <2>3. k # 1
    <3>1. ASSUME k = 1 PROVE FALSE
      <4>1. Reached(talk, h) = Reached(heard, h)
        BY <2>2, <3>1, OpenAlike, BothConversations
      <4> QED BY <2>2, <4>1 DEF Alike
    <3> QED BY <3>1
  <2>4. k - 1 \in 1 .. Len(c) /\ k - 1 \in 1 .. Len(c) - 1 /\ k - 1 \in 1 .. k /\ k \in Nat
    BY <1>1, <2>1, <2>3
  <2>5. PICK g \in Histories : Len(g) = k - 1 /\ \A j \in 1 .. k - 1 : g[j] = h[j]
    <3>1. k - 1 \in 1 .. Len(h)
      BY <2>2, <2>4
    <3> QED BY <3>1, PrefixIs
  <2>6. Of(g, k - 1)
    <3>1. \A j \in 1 .. k - 1 : j \in 1 .. k
      BY <2>4
    <3> QED BY <2>2, <2>5, <3>1
  <2>7. Alike(g)
    <3>1. ASSUME ~Alike(g) PROVE FALSE
      <4>1. k - 1 \in Bad
        BY <2>4, <2>6, <3>1
      <4>2. k <= k - 1
        BY <1>4, <4>1
      <4> QED BY <2>4, <4>2
    <3> QED BY <3>1
  <2>8. ~Final(Last(g))
    <3>1. Last(g) = g[k - 1] /\ g[k - 1] = c[k - 1]
      <4>1. k - 1 \in 1 .. k - 1
        BY <2>4
      <4> QED BY <2>5, <2>6, <4>1, HistoryIs
    <3>2. ~Final(c[k - 1])
      BY <2>4
    <3> QED BY <3>1, <3>2
  <2>9. Reached(talk, g) = Followers(talk, g, Message) /\ Reached(heard, g) = Followers(heard, g, Message)
    BY <2>8, BothConversations, ReachedGoesOn
  <2> DEFINE n == Len(Queue(Sent(g)))
             at_g == Cursor(Sent(g))
  <2>10. /\ n \in Nat
         /\ \A M \in SUBSET Message : Cardinality(Queued(g, n, M)) = Cardinality(Followers(heard, g, M))
    BY QueueServesTheRun DEF Replaying, Good
  <2>11. /\ at_g \in 0 .. n
         /\ \A M \in SUBSET Message : Cardinality(Followers(talk, g, M)) = Cardinality(Queued(g, at_g, M))
    BY DEF Replaying, ServedAlike
  <2>12. n \in 0 .. n
    BY <2>10
  <2>13. Cardinality(Queued(g, n, Message)) = n /\ Cardinality(Queued(g, at_g, Message)) = at_g
    <3> HIDE DEF at_g
    <3> QED BY <2>11, <2>12, QueuedAll DEF Replaying
  <2> HIDE DEF n, at_g
  <2>14. at_g = n
    <3>1. Message \in SUBSET Message
      OBVIOUS
    <3> QED BY <2>7, <2>9, <2>10, <2>11, <2>13, <3>1 DEF Alike
  <2>15. h[k] \in Message /\ Len(h) = Len(g) + 1 /\ \A j \in 1 .. Len(g) : h[j] = g[j]
    <3>1. Len(h) = k /\ Len(g) = k - 1 /\ \A j \in 1 .. k - 1 : g[j] = h[j]
      BY <2>2, <2>5
    <3>2. k \in 1 .. Len(h)
      BY <2>1, <2>4, <3>1
    <3>3. h[k] \in Message
      BY <3>2, HistoryIs
    <3>4. Len(h) = Len(g) + 1
      BY <2>4, <3>1
    <3>5. \A j \in 1 .. Len(g) : h[j] = g[j]
      BY <3>1
    <3> QED BY <3>3, <3>4, <3>5
  <2>16. Reached(talk, h) = Followers(talk, g, {h[k]}) /\ Reached(heard, h) = Followers(heard, g, {h[k]})
    <3>1. Len(h) = k
      BY <2>2
    <3>2. \A conv \in [Thread -> Histories] : Plain(conv) => Reached(conv, h) = Followers(conv, g, {h[Len(h)]})
      BY <2>15, ReachedFollows
    <3> QED BY <3>1, <3>2, BothConversations
  <2>17. {h[k]} \in SUBSET Message
    BY <2>15
  <2>18. Alike(h)
    BY <2>10, <2>11, <2>14, <2>16, <2>17 DEF Alike
  <2> QED BY <2>2, <2>18
<1>5. Bad = {}
  <2> HIDE DEF Bad
  <2>1. ASSUME NEW m \in Bad PROVE FALSE
    <3>1. \E k \in Bad : \A j \in Bad : k <= j
      BY <1>2, LeastOf
    <3> QED BY <1>4, <3>1
  <2> QED BY <2>1
<1> HIDE DEF Bad
<1> QED BY <1>3, <1>5 DEF Alike

LEMMA LenientRepeats ==
  ASSUME Replaying, Finished(talk), NEW t \in Thread
  PROVE  Times(talk, talk[t]) = Times(heard, talk[t])
<1> DEFINE c == talk[t]
<1>1. c \in Histories /\ Final(Last(c)) /\ \A k \in 1 .. Len(c) - 1 : ~Final(c[k])
  BY BothConversations DEF Finished, Conversations, Shaped
<1> HIDE DEF c
<1>2. Reached(talk, c) = {u \in Thread : talk[u] = c} /\ Reached(heard, c) = {u \in Thread : heard[u] = c}
  BY <1>1, BothConversations, ReachedEnds
<1>3. Cardinality(Reached(talk, c)) = Cardinality(Reached(heard, c))
  BY <1>1, ReachedAlike
<1> QED BY <1>2, <1>3 DEF Times, c

(* A call in a lenient replay gets the next answer for its history.        *)
LEMMA LenientCall ==
  ASSUME Replaying, work.mode = "lenient", NEW t \in Thread, ReplayCall(t)
  PROVE  LET q == Queue(Sent(talk[t]))
             c == Cursor(Sent(talk[t]))
             answer == tape[q[c + 1]].response
         IN /\ answer \in Message /\ answer.thinks = FALSE
            /\ talk' = [talk EXCEPT ![t] = Append(talk[t], answer)]
            /\ stopped' = stopped
            /\ c \in Nat /\ c + 1 <= Len(q)
            /\ \A r : Cursor(r)' = IF r = Sent(talk[t]) THEN c + 1 ELSE Cursor(r)
<1> DEFINE h == talk[t]
           q == Queue(Sent(h))
           c == Cursor(Sent(h))
           answer == tape[q[c + 1]].response
           new == [r \in DOMAIN provider.cursors \cup {Sent(h)} |->
                     IF r = Sent(h) THEN c + 1 ELSE provider.cursors[r]]
           g == Generate(Sent(h))
<1>1. tape \in Seq(Call) /\ h \in Histories
  BY BothConversations DEF Replaying, RunInv, RecordingTypes
<1>2. Request(t, work.with) = Sent(h) /\ ~Final(Last(h))
  BY DEF Replaying, Good, Request, Sent, ReplayCall, Going
<1>3. Len(q) \in Nat /\ \A k \in 1 .. Len(q) : q[k] \in 1 .. Len(tape)
  BY <1>1, QueueIs
<1>4. c < Len(q)
  BY <1>2, MoreToServe
<1>5. c \in 0 .. Len(q)
  BY <1>1 DEF Replaying, ServedAlike
<1>6. q # << >>
  <2>1. ASSUME q = << >> PROVE FALSE
    <3>1. Len(q) = 0
      BY <2>1
    <3> HIDE DEF q, c
    <3> QED BY <1>3, <1>4, <1>5, <3>1
  <2> QED BY <2>1
<1>7. q[c + 1] \in 1 .. Len(tape) /\ c \in Nat /\ c + 1 <= Len(q)
  <2> HIDE DEF q, c
  <2>1. c + 1 \in 1 .. Len(q)
    BY <1>3, <1>4, <1>5
  <2> QED BY <1>3, <1>5, <2>1
<1>8. g.call = q[c + 1] /\ g.provider = [provider EXCEPT !.cursors = new]
  <2>1. Generate(Sent(h)) = GenerateLenient(Sent(h))
    BY DEF Generate
  <2>2. /\ GenerateLenient(Sent(h)).call = (IF q = << >> THEN 0 ELSE q[IF c < Len(q) THEN c + 1 ELSE Len(q)])
        /\ GenerateLenient(Sent(h)).provider =
             IF c < Len(q) THEN [provider EXCEPT !.cursors = new] ELSE provider
    BY DEF GenerateLenient
  <2> HIDE DEF q, c, new
  <2> QED BY <1>4, <1>6, <2>1, <2>2
<1> HIDE DEF g
<1>9. answer \in Message /\ answer.error = "" /\ answer.thinks = FALSE
  <2> DEFINE i == q[c + 1]
  <2>1. i \in DOMAIN tape
    BY <1>1, <1>7, Lengths
  <2> HIDE DEF i, q, c
  <2>2. tape[i] \in Call
    BY <1>1, <2>1
  <2>3. tape[i].response.error = "" /\ tape[i].response.thinks = FALSE
    <3>1. RunInv /\ tape = Recorded(spans)
      BY DEF Replaying, Good
    <3>2. \A k \in DOMAIN tape : tape[k].response.error = "" /\ tape[k].response.thinks = FALSE
      BY <1>1, <3>1, CallsAreKept
    <3> QED BY <2>1, <3>2
  <2> QED BY <2>2, <2>3 DEF Call, i
<1>10. /\ provider' = g.provider /\ tape' = tape
       /\ IF g.call # 0 /\ tape[g.call].response.error = ""
          THEN talk' = [talk EXCEPT ![t] = Append(talk[t], tape[g.call].response)] /\ stopped' = stopped
          ELSE TRUE
  BY <1>2 DEF ReplayCall, g
<1>11. g.call # 0 /\ tape[g.call].response.error = ""
  <2>1. g.call # 0
    <3> HIDE DEF q, c
    <3> QED BY <1>7, <1>8
  <2>2. tape[g.call].response = answer
    BY <1>8
  <2> HIDE DEF answer
  <2> QED BY <1>9, <2>1, <2>2
<1>12. talk' = [talk EXCEPT ![t] = Append(talk[t], answer)] /\ stopped' = stopped
  <2> HIDE DEF q, c, h
  <2> QED BY <1>8, <1>10, <1>11
<1>13. provider'.cursors = new
  <2>1. provider = [idx |-> provider.idx, cursors |-> provider.cursors]
    BY DEF Replaying, RunInv, RecordingTypes
  <2> HIDE DEF new
  <2> QED BY <1>8, <1>10, <2>1
<1>14. ASSUME NEW r PROVE Cursor(r)' = IF r = Sent(h) THEN c + 1 ELSE Cursor(r)
  <2>1. Cursor(r)' = IF r \in DOMAIN new THEN new[r] ELSE 0
    <3> HIDE DEF new
    <3> QED BY <1>13 DEF Cursor
  <2>2. CASE r = Sent(h)
    <3> HIDE DEF c
    <3> QED BY <2>1, <2>2
  <2>3. CASE r # Sent(h)
    <3>1. r \in DOMAIN new <=> r \in DOMAIN provider.cursors
      BY <2>3
    <3>2. r \in DOMAIN provider.cursors => new[r] = provider.cursors[r]
      BY <2>3
    <3> HIDE DEF new
    <3> QED BY <2>1, <2>3, <3>1, <3>2 DEF Cursor
  <2> QED BY <2>2, <2>3
<1> HIDE DEF c, q, answer
<1> QED BY <1>7, <1>9, <1>12, <1>14 DEF c, q, answer, h

LEMMA LenientStep ==
  ASSUME Replaying, work.mode = "lenient", NEW t \in Thread, ReplayCall(t)
  PROVE  Plain(talk)' /\ ServedAlike' /\ stopped' = stopped
<1> DEFINE h == talk[t]
           q == Queue(Sent(h))
           c == Cursor(Sent(h))
           answer == tape[q[c + 1]].response
           grown == talk'
<1>1. /\ answer \in Message /\ answer.thinks = FALSE
      /\ talk' = [talk EXCEPT ![t] = Append(talk[t], answer)]
      /\ stopped' = stopped
      /\ c \in Nat /\ c + 1 <= Len(q)
      /\ \A r : Cursor(r)' = IF r = Sent(h) THEN c + 1 ELSE Cursor(r)
  BY LenientCall
<1>2. talk \in [Thread -> Histories] /\ Plain(talk) /\ h \in Histories /\ h \in Seq(Message)
  BY BothConversations DEF Histories
<1>3. tape' = tape
  BY DEF ReplayCall
<1>4. \A r : Queue(r)' = Queue(r)
  BY <1>3 DEF Queue
<1>5. grown[t] = Append(talk[t], answer) /\ \A u \in Thread \ {t} : grown[u] = talk[u]
  <2> HIDE DEF answer
  <2> QED BY <1>1, <1>2
<1>6. Plain(talk)'
  <2>1. ASSUME NEW u \in Thread, NEW k \in 1 .. Len(grown[u]) PROVE grown[u][k].thinks = FALSE
    <3>1. CASE u = t
      <4>1. /\ Len(grown[t]) = Len(h) + 1 /\ \A j \in 1 .. Len(h) : grown[t][j] = h[j]
            /\ grown[t][Len(h) + 1] = answer /\ Len(h) \in Nat
        <5> HIDE DEF answer, h, grown
        <5> QED BY <1>1, <1>2, <1>5, Appended, Lengths DEF h
      <4>2. k \in 1 .. Len(h) \/ k = Len(h) + 1
        BY <3>1, <4>1
      <4>3. \A j \in 1 .. Len(h) : h[j].thinks = FALSE
        BY <1>2 DEF Plain
      <4> HIDE DEF answer, h, grown
      <4> QED BY <1>1, <3>1, <4>1, <4>2, <4>3
    <3>2. CASE u # t
      BY <1>2, <1>5, <3>2 DEF Plain
    <3> QED BY <3>1, <3>2
  <2> QED BY <2>1 DEF Plain
<1>7. ASSUME NEW g \in Histories
      PROVE  /\ Cursor(Sent(g))' \in 0 .. Len(Queue(Sent(g)))
             /\ \A M \in SUBSET Message :
                  Cardinality(Followers(grown, g, M)) = Cardinality(Queued(g, Cursor(Sent(g))', M))
  <2> DEFINE b == Cursor(Sent(g))
             n == Len(Queue(Sent(g)))
  <2>1. /\ b \in 0 .. n
        /\ \A M \in SUBSET Message : Cardinality(Followers(talk, g, M)) = Cardinality(Queued(g, b, M))
    BY DEF Replaying, ServedAlike
  <2>2. \A M \in SUBSET Message :
          Cardinality(Followers(grown, g, M)) =
            Cardinality(Followers(talk, g, M)) + IF g = talk[t] /\ Captured(answer) \in M THEN 1 ELSE 0
    <3>1. answer \in Message
      BY <1>1
    <3> HIDE DEF grown, answer
    <3>2. ASSUME NEW M \in SUBSET Message
          PROVE  Cardinality(Followers(grown, g, M)) =
                   Cardinality(Followers(talk, g, M)) + IF g = talk[t] /\ Captured(answer) \in M THEN 1 ELSE 0
      BY <1>2, <1>5, <3>1, FollowersGrow
    <3> QED BY <3>2
  <2>3. Captured(answer) = answer
    <3> HIDE DEF answer
    <3> QED BY <1>1, CapturedPlain
  <2>4. CASE g = h
    <3>1. Cursor(Sent(g))' = c + 1 /\ b = c /\ n = Len(q)
      BY <1>1, <2>4
    <3>2. \A M : Cardinality(Queued(g, c + 1, M)) =
                   Cardinality(Queued(g, c, M)) + IF answer \in M THEN 1 ELSE 0
      <4>1. \A M : Cardinality(Queued(g, c + 1, M)) =
                   Cardinality(Queued(g, c, M)) + IF tape[Queue(Sent(g))[c + 1]].response \in M THEN 1 ELSE 0
        <5> HIDE DEF c
        <5> QED BY <1>1, QueuedGrows
      <4> QED BY <2>4, <4>1
    <3>3. n \in Nat
      BY QueueServesTheRun DEF Replaying, Good
    <3> HIDE DEF b, c, n, q, grown, answer
    <3>4. c + 1 \in 0 .. n
      BY <1>1, <3>1, <3>3
    <3>5. \A M \in SUBSET Message : Cardinality(Followers(grown, g, M)) = Cardinality(Queued(g, c + 1, M))
      BY <2>1, <2>2, <2>3, <2>4, <3>1, <3>2
    <3> QED BY <3>1, <3>4, <3>5 DEF n
  <2>5. CASE g # h
    <3>1. Cursor(Sent(g))' = b
      BY <1>1, <2>5, SentOnce
    <3>2. \A M \in SUBSET Message :
            Cardinality(Followers(grown, g, M)) = Cardinality(Followers(talk, g, M)) + 0
      <4> HIDE DEF grown
      <4> QED BY <2>2, <2>5
    <3>3. \A M \in SUBSET Message : Cardinality(Followers(talk, g, M)) \in Nat
      BY ReachedFinite, FS_CardinalityType
    <3> HIDE DEF b, grown, n
    <3>4. \A M \in SUBSET Message : Cardinality(Followers(grown, g, M)) = Cardinality(Queued(g, b, M))
      BY <2>1, <3>2, <3>3
    <3> QED BY <2>1, <3>1, <3>4 DEF n
  <2> QED BY <2>4, <2>5
<1>8. ServedAlike'
  BY <1>3, <1>4, <1>7 DEF ServedAlike, Queued
<1> QED BY <1>1, <1>6, <1>8

-----------------------------------------------------------------------------
(***************************************************************************)
(* A run with one thread that calls. Its spans start in the order of its   *)
(* conversation, and so the recording is the conversation, call by call.   *)
(***************************************************************************)
Calls(t) == work.asks[t] \notin Finals

LEMMA OnlyCaller ==
  ASSUME Alone, NEW t \in Thread, Calls(t), NEW u \in Thread, Calls(u)
  PROVE  u = t
<1> DEFINE S == {v \in Thread : work.asks[v] \notin Finals}
<1>1. IsFiniteSet(S) /\ Cardinality(S) <= 1
  <2>1. IsFiniteSet(Thread) /\ S \in SUBSET Thread
    BY RecordingAssumption
  <2> QED BY <2>1, FS_Subset DEF Alone
<1>2. t \in S /\ u \in S
  BY DEF Calls
<1> HIDE DEF S
<1>3. Cardinality(S) \in Nat /\ Cardinality(S) # 0
  BY <1>1, <1>2, FS_CardinalityType, FS_EmptySet
<1>4. Cardinality(S) = 1
  BY <1>1, <1>3
<1>5. PICK x : S = {x}
  BY <1>1, <1>4, FS_Singleton
<1> QED BY <1>2, <1>5

LEMMA SilentStays ==
  ASSUME NEW conv, Conversations(conv), NEW t \in Thread, ~Calls(t)
  PROVE  Len(conv[t]) = 1 /\ Final(Last(conv[t])) /\ conv[t][1] = Answer(work.asks[t], FALSE)
<1>1. Shaped(conv[t], work.asks[t])
  BY DEF Conversations
<1>2. conv[t] \in Seq(Message) /\ Len(conv[t]) \in Nat
  BY <1>1, Lengths DEF Shaped
<1> HIDE DEF Answer, Final
<1>3. Len(conv[t]) >= 1 /\ conv[t][1] = Answer(work.asks[t], FALSE) /\ \A k \in 1 .. Len(conv[t]) - 1 : ~Final(conv[t][k])
  BY <1>1 DEF Shaped
<1>4. Final(Answer(work.asks[t], FALSE))
  BY DEF Final, Answer, Calls
<1>5. ASSUME Len(conv[t]) # 1 PROVE FALSE
  <2>1. 1 \in 1 .. Len(conv[t]) - 1
    <3>1. \A n \in Nat : n >= 1 /\ n # 1 => 1 \in 1 .. n - 1
      OBVIOUS
    <3> QED BY <1>2, <1>3, <1>5, <3>1
  <2> QED BY <1>3, <1>4, <2>1
<1>6. Last(conv[t]) = conv[t][1]
  BY <1>2, <1>5, LastIs
<1> QED BY <1>3, <1>4, <1>5, <1>6

Before(ss) ==
  \A i, j \in KeptSpans(ss) :
    ss[i].start < ss[j].start => Len(ss[i].request.messages) < Len(ss[j].request.messages)

AloneInv ==
  Faithful /\ Alone => \A t \in Thread : Calls(t) =>
    /\ \A i \in KeptSpans(spans) : Len(spans[i].request.messages) < Len(Live[t])
    /\ open[t] # 0 => \A i \in DOMAIN spans : spans[i].start < open[t]
    /\ Before(spans)

LEMMA AloneInit == RecordingInit => AloneInv
<1> SUFFICES ASSUME RecordingInit PROVE AloneInv
  OBVIOUS
<1>1. spans = << >> /\ \A t \in Thread : open[t] = 0
  BY DEF RecordingInit
<1>2. DOMAIN spans = {}
  <2>1. << >> \in Seq(Span)
    BY EmptySeq
  <2>2. DOMAIN << >> = 1 .. 0
    BY <2>1, Lengths
  <2> QED BY <1>1, <2>2
<1> QED BY <1>1, <1>2 DEF AloneInv, KeptSpans, Before

LEMMA AloneNext == RunInv /\ AloneInv /\ [RecordingNext]_recordingVars => AloneInv'
<1> SUFFICES ASSUME RunInv, AloneInv, [RecordingNext]_recordingVars, Faithful', Alone',
                    NEW t \in Thread, Calls(t)'
             PROVE  /\ \A i \in KeptSpans(spans') : Len(spans'[i].request.messages) < Len(Live'[t])
                    /\ open'[t] # 0 => \A i \in DOMAIN spans' : spans'[i].start < open'[t]
                    /\ Before(spans')
  BY DEF AloneInv, KeptSpans, Before
<1> DEFINE Goal == /\ \A i \in KeptSpans(spans') : Len(spans'[i].request.messages) < Len(Live'[t])
                   /\ open'[t] # 0 => \A i \in DOMAIN spans' : spans'[i].start < open'[t]
                   /\ Before(spans')
<1>1. work' = work
  BY DEF RecordingNext, Load, Replay, Reset, CallService, ServiceAnswers, ReplayCall, recordingVars
<1>2. Faithful /\ Alone /\ Calls(t)
  BY <1>1 DEF Faithful, Captures, Alone, Calls
<1>3. /\ \A i \in KeptSpans(spans) : Len(spans[i].request.messages) < Len(Live[t])
      /\ open[t] # 0 => \A i \in DOMAIN spans : spans[i].start < open[t]
      /\ Before(spans)
  BY <1>2 DEF AloneInv
<1>4. /\ spans \in Seq(Span) /\ open \in [Thread -> Nat] /\ started \in Nat
      /\ Conversations(talk) /\ StartsApart
  BY DEF RunInv, RecordingTypes
<1>5. ASSUME NEW u \in Thread, ~Final(Last(talk[u])) PROVE u = t
  <2>1. Calls(u)
    BY <1>4, <1>5, SilentStays
  <2> QED BY <1>2, <2>1, OnlyCaller
<1>6. ASSUME NEW u \in Thread, CallService(u) PROVE Goal
  <2>1. /\ spans' = spans /\ stage' = stage /\ talk' = talk /\ heard' = heard
        /\ started' = started + 1 /\ open' = [open EXCEPT ![u] = started + 1] /\ ~Final(Last(talk[u]))
    BY <1>6 DEF CallService, Going
  <2>2. u = t /\ Live' = Live
    BY <1>5, <2>1 DEF Live
  <2>3. open'[t] = started + 1
    BY <1>4, <2>1, <2>2
  <2>4. \A i \in DOMAIN spans : spans[i].start < started + 1
    BY <1>4 DEF StartsApart
  <2> QED BY <1>3, <2>1, <2>2, <2>3, <2>4
<1>7. ASSUME NEW u \in Thread, ServiceAnswers(u) PROVE Goal
  <2> DEFINE answer == work.answers[u][at[u] + 1]
             span == [start |-> open[u], request |-> Sent(talk[u]), completion |-> Completion(answer)]
             n == Len(spans)
  <2>1. /\ spans' = Append(spans, span)
        /\ talk' = IF answer.error = "" THEN [talk EXCEPT ![u] = Append(talk[u], answer)] ELSE talk
        /\ open' = [open EXCEPT ![u] = 0]
        /\ stage' = "live" /\ stage = "live" /\ open[u] # 0
    BY <1>7 DEF ServiceAnswers, Request, Sent
  <2>2. ~Final(Last(talk[u])) /\ at[u] < Len(work.answers[u])
    BY <2>1 DEF RunInv, RecordingTypes
  <2>3. u = t
    BY <1>5, <2>2
  <2>4. answer \in Message /\ Captures(answer)
    <3>1. work.answers[u] \in Seq(Message) /\ at[u] \in Nat
      BY WorkType DEF RunInv, RecordingTypes
    <3>2. Len(work.answers[u]) \in Nat
      BY <3>1, Lengths
    <3>3. at[u] + 1 \in 1 .. Len(work.answers[u])
      BY <2>2, <3>1, <3>2
    <3> QED BY <1>2, <3>1, <3>3, Lengths DEF Faithful
  <2> HIDE DEF answer
  <2>5. talk[t] \in Histories /\ Len(talk[t]) \in Nat
    BY <1>4, ConversationsAreHistories, HistoryIs
  <2>6. span \in Span
    <3>1. Completion(answer) \in Message
      BY <2>4, CompletionIs
    <3> QED BY <1>4, <2>3, <2>5, <3>1 DEF Span
  <2>7. /\ span.start = open[t] /\ span.request.messages = talk[t]
        /\ span.completion.error = "" <=> answer.error = ""
    <3>1. Completion(answer).error = "" <=> answer.error = ""
      BY <2>4, CompletionIs
    <3> QED BY <2>3, <3>1 DEF Sent
  <2> HIDE DEF span
  <2>8. /\ n \in Nat /\ DOMAIN spans = 1 .. n /\ DOMAIN spans' = 1 .. n + 1
        /\ \A i \in 1 .. n : spans'[i] = spans[i]
        /\ spans'[n + 1] = span
    <3>1. /\ Append(spans, span) \in Seq(Span) /\ Len(Append(spans, span)) = n + 1
          /\ \A i \in 1 .. n : Append(spans, span)[i] = spans[i]
          /\ Append(spans, span)[n + 1] = span
      BY <1>4, <2>6, Appended
    <3> QED BY <1>4, <2>1, <3>1, Lengths
  <2> HIDE DEF n
  <2>9. \A i : i \in 1 .. n + 1 <=> i \in 1 .. n \/ i = n + 1
    BY <2>8
  <2>10. \A i \in 1 .. n : i \in KeptSpans(spans') <=> i \in KeptSpans(spans)
    BY <2>8, <2>9 DEF KeptSpans
  <2>11. n + 1 \in KeptSpans(spans') <=> answer.error = ""
    BY <2>7, <2>8, <2>9 DEF KeptSpans
  <2>12. open'[t] = 0
    BY <1>4, <2>1, <2>3
  <2>13. \A i \in KeptSpans(spans') : i \in KeptSpans(spans) \/ (i = n + 1 /\ answer.error = "")
    BY <2>8, <2>9, <2>10, <2>11 DEF KeptSpans
  <2>14. \A i \in KeptSpans(spans) : i \in 1 .. n /\ spans'[i] = spans[i]
    BY <2>8 DEF KeptSpans
  <2>15. Live[t] = talk[t] /\ Live' = talk'
    BY <2>1 DEF Live
  <2>16. Len(talk'[t]) = IF answer.error = "" THEN Len(talk[t]) + 1 ELSE Len(talk[t])
    <3>1. CASE answer.error = ""
      <4>1. talk'[t] = Append(talk[t], answer)
        BY <1>4, <2>1, <2>3, <3>1 DEF Conversations
      <4>2. Len(Append(talk[t], answer)) = Len(talk[t]) + 1
        BY <2>4, <2>5, Appended DEF Histories
      <4> QED BY <3>1, <4>1, <4>2
    <3>2. CASE answer.error # ""
      BY <2>1, <3>2
    <3> QED BY <3>1, <3>2
  <2>21. /\ \A l \in Nat : l < Len(talk[t]) => l < Len(talk'[t])
         /\ answer.error = "" => Len(talk[t]) < Len(talk'[t])
    <3>1. \A l, m \in Nat : (l < m => l < m + 1) /\ m < m + 1
      OBVIOUS
    <3> QED BY <2>5, <2>16, <3>1
  <2>17. \A i \in KeptSpans(spans) : Len(spans[i].request.messages) \in Nat
    <3> TAKE i \in KeptSpans(spans)
    <3>1. spans[i] \in Span
      BY <1>4, Lengths DEF KeptSpans
    <3>2. PICK h \in Histories : spans[i].request = Sent(h)
      BY <3>1 DEF Span
    <3>3. spans[i].request.messages = h
      BY <3>2 DEF Sent
    <3> QED BY <3>3, HistoryIs
  <2>18. \A i \in KeptSpans(spans') : Len(spans'[i].request.messages) < Len(talk'[t])
    <3> TAKE i \in KeptSpans(spans')
    <3>1. CASE i \in KeptSpans(spans)
      <4>1. Len(spans[i].request.messages) < Len(talk[t]) /\ spans'[i] = spans[i]
        BY <1>3, <2>14, <2>15, <3>1
      <4>2. Len(spans[i].request.messages) \in Nat
        BY <2>17, <3>1
      <4> QED BY <2>21, <4>1, <4>2
    <3>2. CASE i = n + 1 /\ answer.error = ""
      BY <2>7, <2>8, <2>21, <3>2
    <3> QED BY <2>13, <3>1, <3>2
  <2>19. \A i \in KeptSpans(spans) : spans[i].start < open[t] /\ spans[i].start \in Nat /\ open[t] \in Nat
    <3>1. open[t] # 0
      BY <2>1, <2>3
    <3>2. \A i \in DOMAIN spans : spans[i].start < open[t]
      BY <1>3, <3>1
    <3>3. \A i \in DOMAIN spans : spans[i].start \in Nat
      BY <1>4 DEF StartsApart
    <3> QED BY <1>4, <3>2, <3>3 DEF KeptSpans
  <2>20. Before(spans')
    <3>1. ASSUME NEW i \in KeptSpans(spans'), NEW j \in KeptSpans(spans'), spans'[i].start < spans'[j].start
          PROVE  Len(spans'[i].request.messages) < Len(spans'[j].request.messages)
      <4>1. CASE i \in KeptSpans(spans) /\ j \in KeptSpans(spans)
        BY <1>3, <2>14, <3>1, <4>1 DEF Before
      <4>2. CASE i \in KeptSpans(spans) /\ j = n + 1
        BY <1>3, <2>7, <2>8, <2>14, <2>15, <4>2
      <4>3. CASE i = n + 1
        <5>1. spans'[i].start = open[t]
          BY <2>7, <2>8, <4>3
        <5>2. j \notin KeptSpans(spans)
          BY <2>14, <2>19, <3>1, <5>1
        <5>3. spans'[j].start = open[t]
          BY <2>7, <2>8, <2>13, <5>2
        <5> QED BY <1>4, <3>1, <5>1, <5>3
      <4> QED BY <2>13, <4>1, <4>2, <4>3
    <3> QED BY <3>1 DEF Before
  <2> QED BY <2>12, <2>15, <2>18, <2>20
<1>8. ASSUME UNCHANGED <<open, spans>>, Live' = Live PROVE Goal
  BY <1>3, <1>8
<1>9. ASSUME Load \/ Replay \/ Reset \/ \E u \in Thread : ReplayCall(u) PROVE Goal
  <2>1. UNCHANGED <<open, spans>> /\ Live' = Live
    BY <1>9 DEF Load, Replay, Reset, ReplayCall, Live
  <2> QED BY <1>8, <2>1
<1>10. CASE UNCHANGED recordingVars
  <2>1. UNCHANGED <<open, spans, talk, heard, stage>>
    BY <1>10 DEF recordingVars
  <2>2. UNCHANGED <<open, spans>> /\ Live' = Live
    BY <2>1 DEF Live
  <2> QED BY <1>8, <2>2
<1> QED BY <1>6, <1>7, <1>9, <1>10 DEF RecordingNext

(* Increasing numbers that leave none out of 1 .. m count up to it.        *)
Climbs(f, n) == \A j, k \in 1 .. n : j < k => f[j] < f[k]
Meets(f, n, m) == \A x \in 1 .. m : \E k \in 1 .. n : f[k] = x

LEMMA CountsUp ==
  ASSUME NEW n \in Nat, NEW m \in Nat, NEW f \in [1 .. n -> 1 .. m], Climbs(f, n), Meets(f, n, m)
  PROVE  n = m /\ \A k \in 1 .. n : f[k] = k
<1>0. /\ \A j, k \in 1 .. n : j < k => f[j] < f[k]
      /\ \A x \in 1 .. m : \E k \in 1 .. n : f[k] = x
  BY DEF Climbs, Meets
<1> DEFINE id == [k \in 1 .. m |-> k]
           S == {f[k] : k \in 1 .. n}
<1>1. S = 1 .. m
  BY <1>0
<1>2. Cardinality(S) = n /\ InOrder(S) = f
  <2>1. f \in [1 .. n -> Int]
    OBVIOUS
  <2> QED BY <1>0, <2>1, InOrderOnly
<1>3. {id[k] : k \in 1 .. m} = 1 .. m
  OBVIOUS
<1>4. Cardinality(1 .. m) = m /\ InOrder(1 .. m) = id
  <2>1. id \in [1 .. m -> Int] /\ \A j, k \in 1 .. m : j < k => id[j] < id[k]
    OBVIOUS
  <2> HIDE DEF id
  <2> QED BY <1>3, <2>1, InOrderOnly
<1>5. n = m /\ f = id
  <2> HIDE DEF S, id
  <2> QED BY <1>1, <1>2, <1>4
<1> QED BY <1>5

LEMMA SomeAreCounted ==
  ASSUME NEW S, NEW T, IsFiniteSet(S), IsFiniteSet(T), Cardinality(S) = Cardinality(T), NEW x \in S
  PROVE  \E y : y \in T
BY FS_EmptySet

(* One call of the recording for each answer of the one thread, in order.  *)
LEMMA StrictTape ==
  ASSUME RunInv, Faithful, AloneInv, Alone, stage # "live", tape = Recorded(spans), ~Thinks, NEW t \in Thread, Calls(t)
  PROVE  /\ Len(tape) = Len(heard[t]) - 1
         /\ \A k \in 1 .. Len(tape) :
              \E h \in Histories : /\ tape[k].request = Sent(h) /\ Len(h) = k
                                   /\ \A j \in 1 .. k : heard[t][j] = h[j]
                                   /\ tape[k].response = heard[t][k + 1]
<1> DEFINE c == heard[t]
           n == Len(tape)
           starts == InOrder({spans[i].start : i \in KeptSpans(spans)})
           pick(k) == CHOOSE i \in KeptSpans(spans) : spans[i].start = starts[k]
           len(k) == Len(tape[k].request.messages)
<1>1. /\ Conversations(heard) /\ Plain(heard) /\ heard \in [Thread -> Histories]
      /\ tape \in Seq(Call) /\ spans \in Seq(Span) /\ SpansCount(spans, heard)
  BY PlainlyHeard, ConversationsAreHistories DEF RunInv, SpansTally, RecordingTypes, Live
<1>2. c \in Histories /\ Len(c) \in Nat /\ Len(c) >= 1 /\ \A k \in 1 .. Len(c) : c[k] \in Message /\ c[k].thinks = FALSE
  BY <1>1, HistoryIs DEF Plain
<1>3. n \in Nat /\ DOMAIN tape = 1 .. n
  BY <1>1, Lengths
<1>4. \A h \in Histories, M \in SUBSET Message :
        /\ IsFiniteSet(CallsOf(h, M)) /\ IsFiniteSet(Followers(heard, h, M))
        /\ Cardinality(CallsOf(h, M)) = Cardinality(Followers(heard, h, M))
  BY <1>1, CallsAreKept, ReachedFinite DEF SpansCount
<1>5. ASSUME NEW h \in Histories, NEW u \in Thread, Beyond(heard[u], h) PROVE u = t
  <2>1. Len(heard[u]) # 1
    <3>1. Len(h) \in Nat /\ Len(h) >= 1 /\ Len(h) < Len(heard[u])
      BY <1>5, HistoryIs DEF Beyond
    <3>2. \A x \in Nat : x >= 1 => ~(x < 1)
      OBVIOUS
    <3> QED BY <3>1, <3>2
  <2>2. Calls(u)
    BY <1>1, <2>1, SilentStays
  <2> QED BY <2>2, OnlyCaller
<1>6. ASSUME NEW k \in 1 .. n
      PROVE  \E h \in Histories : /\ tape[k].request = Sent(h) /\ Beyond(c, h) /\ len(k) = Len(h)
                                  /\ tape[k].response = c[Len(h) + 1]
  <2>1. PICK i \in KeptSpans(spans) : tape[k].request = spans[i].request
    <3> DEFINE rec(i) == [request |-> spans[i].request, response |-> spans[i].completion]
    <3>1. pick(k) \in KeptSpans(spans) /\ tape[k] = rec(pick(k))
      BY <1>1, <1>3, RecordedFrom
    <3> HIDE DEF pick
    <3>2. tape[k] = rec(pick(k))
      BY <3>1
    <3>3. rec(pick(k)).request = spans[pick(k)].request
      OBVIOUS
    <3> HIDE DEF rec
    <3> QED BY <3>1, <3>2, <3>3
  <2>2. spans[i] \in Span
    BY <1>1, Lengths DEF KeptSpans
  <2>3. PICK h \in Histories : tape[k].request = Sent(h)
    BY <2>1, <2>2 DEF Span
  <2> DEFINE m == tape[k].response
  <2>4. m \in Message
    <3>1. tape[k] \in Call
      BY <1>1, <1>3, Lengths
    <3> QED BY <3>1 DEF Call
  <2>5. k \in CallsOf(h, {m})
    BY <1>3, <2>3 DEF CallsOf
  <2> HIDE DEF m
  <2>6. PICK u : u \in Followers(heard, h, {m})
    <3>1. {m} \in SUBSET Message
      BY <2>4
    <3> QED BY <1>4, <2>5, <3>1, SomeAreCounted
  <2>7. u \in Thread /\ Beyond(heard[u], h) /\ Captured(heard[u][Len(h) + 1]) = m
    BY <2>6 DEF Followers
  <2>8. u = t
    BY <1>5, <2>7
  <2>9. Captured(c[Len(h) + 1]) = c[Len(h) + 1]
    <3>1. Len(h) \in Nat /\ Len(h) < Len(c)
      BY <2>7, <2>8, HistoryIs DEF Beyond
    <3>2. Len(h) + 1 \in 1 .. Len(c)
      BY <1>2, <3>1
    <3> QED BY <1>2, <3>2, CapturedPlain
  <2>10. len(k) = Len(h)
    BY <2>3 DEF Sent
  <2> QED BY <2>3, <2>7, <2>8, <2>9, <2>10 DEF m
<1>7. ASSUME NEW j \in 1 .. n, NEW k \in 1 .. n, j < k PROVE len(j) < len(k)
  <2> DEFINE rec(i) == [request |-> spans[i].request, response |-> spans[i].completion]
  <2>1. /\ pick(j) \in KeptSpans(spans) /\ spans[pick(j)].start = starts[j] /\ tape[j] = rec(pick(j))
        /\ pick(k) \in KeptSpans(spans) /\ spans[pick(k)].start = starts[k] /\ tape[k] = rec(pick(k))
        /\ starts[j] < starts[k]
    BY <1>1, <1>3, <1>7, RecordedFrom
  <2> HIDE DEF pick, starts
  <2>2. \A i : rec(i).request = spans[i].request
    OBVIOUS
  <2> HIDE DEF rec
  <2>3. Before(spans)
    BY DEF AloneInv
  <2>4. Len(spans[pick(j)].request.messages) < Len(spans[pick(k)].request.messages)
    BY <2>1, <2>3 DEF Before
  <2> QED BY <2>1, <2>2, <2>4
<1> HIDE DEF starts, pick
<1> DEFINE m == Len(c) - 1
           f == [k \in 1 .. n |-> len(k)]
<1>8. ASSUME NEW x \in 1 .. m PROVE \E k \in 1 .. n : len(k) = x
  <2>1. x \in 1 .. Len(c) /\ x + 1 \in 1 .. Len(c) /\ x < Len(c)
    BY <1>2
  <2>2. PICK h \in Histories : Len(h) = x /\ \A j \in 1 .. x : h[j] = c[j]
    BY <1>2, <2>1, PrefixIs
  <2>3. t \in Followers(heard, h, Message)
    <3>1. Beyond(c, h)
      BY <2>1, <2>2 DEF Beyond
    <3>2. Captured(c[Len(h) + 1]) \in Message
      BY <1>2, <2>1, <2>2, CapturedPlain
    <3> QED BY <3>1, <3>2 DEF Followers
  <2>4. PICK k : k \in CallsOf(h, Message)
    <3>1. Message \in SUBSET Message
      OBVIOUS
    <3> QED BY <1>4, <2>3, <3>1, SomeAreCounted
  <2>5. k \in 1 .. n /\ tape[k].request = Sent(h)
    BY <1>3, <2>4 DEF CallsOf
  <2>6. len(k) = x
    BY <2>2, <2>5 DEF Sent
  <2> QED BY <2>5, <2>6
<1>9. m \in Nat /\ \A k \in 1 .. n : len(k) \in 1 .. m
  <2>1. m \in Nat
    BY <1>2
  <2>2. ASSUME NEW k \in 1 .. n PROVE len(k) \in 1 .. m
    <3>1. PICK h \in Histories : Beyond(c, h) /\ len(k) = Len(h)
      BY <1>6
    <3>2. Len(h) \in Nat /\ Len(h) >= 1 /\ Len(h) < Len(c)
      BY <3>1, HistoryIs DEF Beyond
    <3> HIDE DEF len
    <3> QED BY <1>2, <3>1, <3>2
  <2> QED BY <2>1, <2>2
<1> HIDE DEF m, n, len, c
<1>10. f \in [1 .. n -> 1 .. m] /\ \A j, k \in 1 .. n : j < k => f[j] < f[k]
  BY <1>7, <1>9
<1>11. \A x \in 1 .. m : \E k \in 1 .. n : f[k] = x
  BY <1>8
<1> HIDE DEF f
<1>12. n = m /\ \A k \in 1 .. n : f[k] = k
  <2>1. n \in Nat /\ m \in Nat
    BY <1>3, <1>9
  <2>2. f \in [1 .. n -> 1 .. m]
    BY <1>10
  <2>3. \A j, k \in 1 .. n : j < k => f[j] < f[k]
    BY <1>10
  <2>4. Climbs(f, n) /\ Meets(f, n, m)
    BY <1>11, <2>3 DEF Climbs, Meets
  <2> QED BY <2>1, <2>2, <2>4, CountsUp
<1>13. ASSUME NEW k \in 1 .. n
       PROVE  \E h \in Histories : /\ tape[k].request = Sent(h) /\ Len(h) = k
                                   /\ \A j \in 1 .. k : c[j] = h[j]
                                   /\ tape[k].response = c[k + 1]
  <2>1. PICK h \in Histories : /\ tape[k].request = Sent(h) /\ Beyond(c, h) /\ len(k) = Len(h)
                               /\ tape[k].response = c[Len(h) + 1]
    BY <1>6
  <2>2. Len(h) = k
    BY <1>12, <2>1 DEF f
  <2> QED BY <2>1, <2>2 DEF Beyond
<1> QED BY <1>12, <1>13 DEF n, m, c

(* A strict replay of such a run is at the answer the thread waits for.    *)
Along ==
  \A t \in Thread : /\ Starts(heard[t], talk[t]) /\ stopped[t] = ""
                    /\ Calls(t) => provider.idx = Len(talk[t]) - 1

LEMMA StrictStep ==
  ASSUME RunInv, AloneInv, Alone, Good, Along, work.mode = "strict", NEW u \in Thread, ReplayCall(u)
  PROVE  Along'
<1> DEFINE h == talk[u]
           n == Len(h)
           grown == talk'
           c == heard[u]
           g == Generate(Sent(h))
           answer == tape[provider.idx + 1].response
<1>1. /\ Conversations(talk) /\ Conversations(heard) /\ talk \in [Thread -> Histories] /\ heard \in [Thread -> Histories]
      /\ tape \in Seq(Call) /\ stopped \in [Thread -> Errors]
  BY ConversationsAreHistories DEF RunInv, RecordingTypes
<1>2. /\ stage = "replay" /\ ~Final(Last(h)) /\ Request(u, work.with) = Sent(h)
  BY DEF ReplayCall, Going, Request, Sent, Good
<1>3. Calls(u)
  BY <1>1, <1>2, SilentStays
<1>4. /\ h \in Histories /\ c \in Histories /\ n \in Nat /\ n >= 1 /\ Len(c) \in Nat
      /\ \A k \in 1 .. Len(c) : c[k] \in Message
  BY <1>1, HistoryIs
<1>5. n < Len(c) /\ \A k \in 1 .. n : c[k] = h[k]
  <2>1. Len(h) <= Len(c) /\ \A k \in 1 .. Len(h) : c[k] = h[k]
    BY DEF Along, Starts
  <2>2. ASSUME Len(h) = Len(c) PROVE FALSE
    <3>1. c = h
      BY <1>4, <2>1, <2>2, SameHistory
    <3>2. Final(Last(c))
      BY DEF Good, Finished
    <3> QED BY <1>2, <3>1, <3>2
  <2> QED BY <1>4, <2>1, <2>2
<1>6. provider.idx = n - 1
  BY <1>3 DEF Along
<1>7. /\ Len(tape) = Len(c) - 1
      /\ \A k \in 1 .. Len(tape) :
           \E p \in Histories : /\ tape[k].request = Sent(p) /\ Len(p) = k
                                /\ \A j \in 1 .. k : c[j] = p[j]
                                /\ tape[k].response = c[k + 1]
  BY <1>2, <1>3, StrictTape DEF Good
<1> HIDE DEF h, n, c
<1>8. n \in 1 .. Len(tape) /\ provider.idx < Len(tape) /\ provider.idx + 1 = n
  BY <1>4, <1>5, <1>6, <1>7
<1>9. tape[n].request = Sent(h) /\ tape[n].response = c[n + 1]
  <2>1. PICK p \in Histories : /\ tape[n].request = Sent(p) /\ Len(p) = n
                               /\ \A j \in 1 .. n : c[j] = p[j]
                               /\ tape[n].response = c[n + 1]
    BY <1>7, <1>8
  <2>2. p = h
    BY <1>4, <1>5, <2>1, SameHistory DEF n
  <2> QED BY <2>1, <2>2
<1>10. answer = c[n + 1] /\ answer \in Message /\ answer.error = ""
  <2>1. n + 1 \in 1 .. Len(c)
    BY <1>4, <1>5
  <2>2. tape[n].response.error = ""
    <3>1. n \in DOMAIN tape
      BY <1>1, <1>8, Lengths
    <3> QED BY <1>1, <3>1, CallsAreKept DEF Good, Histories
  <2> QED BY <1>4, <1>8, <1>9, <2>1, <2>2
<1>11. g.call = n /\ g.provider = [provider EXCEPT !.idx = provider.idx + 1]
  <2>1. g = GenerateStrict(Sent(h))
    BY DEF Generate
  <2>2. Strict(Sent(h))
    BY <1>8, <1>9 DEF Strict
  <2>3. /\ g.call = IF Strict(Sent(h)) THEN provider.idx + 1 ELSE 0
        /\ g.provider = [provider EXCEPT !.idx = provider.idx + 1]
    BY <2>1 DEF GenerateStrict
  <2> QED BY <1>8, <2>2, <2>3
<1> HIDE DEF g
<1>12. /\ provider' = g.provider /\ heard' = heard /\ work' = work
       /\ IF g.call # 0 /\ tape[g.call].response.error = ""
          THEN talk' = [talk EXCEPT ![u] = Append(talk[u], tape[g.call].response)] /\ stopped' = stopped
          ELSE TRUE
  BY <1>2 DEF ReplayCall, g, h
<1>13. talk' = [talk EXCEPT ![u] = Append(h, answer)] /\ stopped' = stopped
  <2>1. g.call # 0 /\ tape[g.call].response = answer
    BY <1>4, <1>8, <1>11
  <2> HIDE DEF answer
  <2> QED BY <1>10, <1>12, <2>1 DEF h
<1>14. provider'.idx = n
  <2>1. provider = [idx |-> provider.idx, cursors |-> provider.cursors]
    BY DEF RunInv, RecordingTypes
  <2> QED BY <1>8, <1>11, <1>12, <2>1
<1> HIDE DEF answer
<1>15. /\ grown[u] = Append(h, answer) /\ \A t \in Thread \ {u} : grown[t] = talk[t]
  BY <1>1, <1>13
<1>16. /\ Len(Append(h, answer)) = n + 1 /\ Append(h, answer)[n + 1] = answer
       /\ \A k \in 1 .. n : Append(h, answer)[k] = h[k]
  <2>1. h \in Seq(Message) /\ answer \in Message
    BY <1>4, <1>10 DEF Histories
  <2> QED BY <2>1, Appended DEF n
<1>17. Starts(c, Append(h, answer))
  <2>1. \A k \in 1 .. n + 1 : k \in 1 .. n \/ k = n + 1
    BY <1>4
  <2>2. n + 1 <= Len(c)
    BY <1>4, <1>5
  <2> QED BY <1>5, <1>10, <1>16, <2>1, <2>2 DEF Starts
<1> HIDE DEF grown
<1>18. ASSUME NEW t \in Thread
       PROVE  /\ Starts(heard[t], grown[t]) /\ stopped'[t] = ""
              /\ Calls(t) => provider'.idx = Len(grown[t]) - 1
  <2>1. CASE t = u
    <3>1. Len(grown[t]) - 1 = n
      BY <1>4, <1>15, <1>16, <2>1
    <3> QED BY <1>13, <1>14, <1>15, <1>17, <2>1, <3>1 DEF Along, c
  <2>2. CASE t # u
    <3>1. ~Calls(t)
      BY <1>3, <2>2, OnlyCaller
    <3>2. grown[t] = talk[t]
      BY <1>15, <2>2
    <3> QED BY <1>13, <3>1, <3>2 DEF Along
  <2> QED BY <2>1, <2>2
<1>19. \A t \in Thread : Calls(t)' <=> Calls(t)
  BY <1>12 DEF Calls
<1> QED BY <1>12, <1>18, <1>19 DEF Along, grown

LEMMA StrictRepeats ==
  ASSUME RunInv, AloneInv, Alone, Good, Along, stage = "replay", Finished(talk)
  PROVE  talk = heard /\ Remaining = 0
<1>1. /\ Conversations(talk) /\ Conversations(heard) /\ talk \in [Thread -> Histories] /\ heard \in [Thread -> Histories]
      /\ tape \in Seq(Call) /\ provider.idx \in Nat
  BY ConversationsAreHistories DEF RunInv, RecordingTypes
<1>2. ASSUME NEW t \in Thread PROVE talk[t] = heard[t]
  <2> DEFINE h == talk[t]
             c == heard[t]
  <2>1. /\ h \in Histories /\ c \in Histories /\ Len(h) \in Nat /\ Len(h) >= 1 /\ Len(c) \in Nat
        /\ Final(h[Len(h)])
    BY <1>1, HistoryIs DEF Finished
  <2>2. Len(h) <= Len(c) /\ \A k \in 1 .. Len(h) : c[k] = h[k]
    BY DEF Along, Starts
  <2>3. \A k \in 1 .. Len(c) - 1 : ~Final(c[k])
    BY <1>1 DEF Conversations, Shaped
  <2> HIDE DEF h, c
  <2>4. ASSUME Len(h) # Len(c) PROVE FALSE
    <3>1. Len(h) \in 1 .. Len(c) - 1 /\ Len(h) \in 1 .. Len(h)
      BY <2>1, <2>2, <2>4
    <3> QED BY <2>1, <2>2, <2>3, <3>1
  <2>5. h = c
    BY <2>1, <2>2, <2>4, SameHistory
  <2> QED BY <2>5 DEF h, c
<1>3. talk = heard
  BY <1>1, <1>2
<1>4. Len(tape) \in Nat
  BY <1>1, Lengths
<1>5. CASE \E t \in Thread : Calls(t)
  <2>1. PICK t \in Thread : Calls(t)
    BY <1>5
  <2>2. Len(tape) = Len(heard[t]) - 1
    BY <2>1, StrictTape DEF Good
  <2>3. provider.idx = Len(talk[t]) - 1
    BY <2>1 DEF Along
  <2>4. provider.idx = Len(tape)
    BY <1>3, <2>2, <2>3
  <2> QED BY <1>1, <1>3, <2>4 DEF Remaining
<1>6. CASE ~ \E t \in Thread : Calls(t)
  <2>1. ASSUME NEW k \in 1 .. Len(tape) PROVE FALSE
    <3>1. spans \in Seq(Span) /\ SpansCount(spans, heard)
      BY DEF Good, RunInv, SpansTally, RecordingTypes, Live
    <3>2. tape = Recorded(spans)
      BY DEF Good
    <3>3. \E i : i \in KeptSpans(spans)
      BY <3>1, <3>2, RecordedFrom
    <3>4. PICK i \in KeptSpans(spans) : spans[i] \in Span
      BY <3>1, <3>3, Lengths DEF KeptSpans
    <3>5. PICK h \in Histories : spans[i].request = Sent(h)
      BY <3>4 DEF Span
    <3>6. spans[i].completion \in Message
      BY <3>4 DEF Span
    <3>7. i \in KeptOf(spans, h, Message)
      BY <3>5, <3>6 DEF KeptOf
    <3>8. Message \in SUBSET Message
      OBVIOUS
    <3>9. IsFiniteSet(KeptOf(spans, h, Message)) /\ IsFiniteSet(Followers(heard, h, Message))
      BY <3>1, <3>4, <3>8, KeptGrow, ReachedFinite
    <3>10. Cardinality(KeptOf(spans, h, Message)) = Cardinality(Followers(heard, h, Message))
      BY <3>1, <3>8 DEF SpansCount
    <3>11. Followers(heard, h, Message) = {}
      <4>1. \A t \in Thread : Len(heard[t]) = 1
        BY <1>1, <1>6, SilentStays
      <4> QED BY <4>1, NothingFollows
    <3> QED BY <3>7, <3>9, <3>10, <3>11, SomeAreCounted
  <2>2. Len(tape) = 0
    BY <1>4, <2>1
  <2> QED BY <1>1, <1>3, <2>2 DEF Remaining
<1> QED BY <1>5, <1>6

-----------------------------------------------------------------------------
(* What was served was recorded, and a strict replay moves on.             *)
Serving == [request : Requests, response : Message, call : Nat]

ServedInv ==
  /\ served \in Seq(Serving)
  /\ \A i \in DOMAIN served :
       /\ served[i].response.error = "" /\ served[i].call \in DOMAIN tape
       /\ tape[served[i].call].request = served[i].request
       /\ tape[served[i].call].response = served[i].response
  /\ work.mode = "strict" =>
       /\ \A i, j \in DOMAIN served : i < j => served[i].call < served[j].call
       /\ stage = "replay" => \A i \in DOMAIN served : served[i].call <= provider.idx

(* A new provider, a rewound one.                                          *)
Rewound ==
  /\ stage = "live" => round = 0 /\ served = << >>
  /\ stage \in {"live", "loaded"} => provider.idx = 0 /\ (round = 0 => provider = Fresh)
  /\ stage = "replay" => round >= 1

LenientReplay ==
  stage = "replay" /\ round = 1 /\ work.mode = "lenient" /\ Good =>
    Plain(talk) /\ ServedAlike /\ \A t \in Thread : stopped[t] = ""

StrictReplay == stage = "replay" /\ work.mode = "strict" /\ Good /\ Alone => Along

ReplayInv == RunInv /\ AloneInv /\ ServedInv /\ Rewound /\ LenientReplay /\ StrictReplay

LEMMA ReplayInit == RecordingInit => ReplayInv
<1> SUFFICES ASSUME RecordingInit PROVE ReplayInv
  OBVIOUS
<1>1. stage = "live" /\ served = << >> /\ round = 0 /\ provider = Fresh
  BY DEF RecordingInit
<1>2. RunInv /\ AloneInv
  BY RunInit, AloneInit
<1>3. provider.idx = 0
  BY <1>1 DEF Fresh
<1>4. Rewound
  BY <1>1, <1>3 DEF Rewound
<1>5. served \in Seq(Serving) /\ DOMAIN served = {}
  <2>1. << >> \in Seq(Serving)
    BY EmptySeq
  <2>2. DOMAIN << >> = 1 .. 0
    BY <2>1, Lengths
  <2> QED BY <1>1, <2>1, <2>2
<1>6. ServedInv
  BY <1>5 DEF ServedInv
<1> QED BY <1>1, <1>2, <1>4, <1>6 DEF ReplayInv, LenientReplay, StrictReplay

LEMMA RewoundNext == ReplayInv /\ [RecordingNext]_recordingVars => Rewound'
<1> SUFFICES ASSUME ReplayInv, [RecordingNext]_recordingVars PROVE Rewound'
  OBVIOUS
<1>1. RecordingTypes /\ Rewound
  BY DEF ReplayInv, RunInv
<1>2. provider = [idx |-> provider.idx, cursors |-> provider.cursors] /\ round \in Nat
  BY <1>1 DEF RecordingTypes
<1>3. ASSUME Reset PROVE Rewound'
  <2>1. stage = "replay" /\ stage' = "loaded" /\ provider' = [provider EXCEPT !.idx = 0] /\ round' = round
    BY <1>3 DEF Reset
  <2>2. provider'.idx = 0
    BY <1>2, <2>1
  <2>3. round # 0
    BY <1>1, <1>2, <2>1 DEF Rewound
  <2> QED BY <2>1, <2>2, <2>3 DEF Rewound
<1>4. ASSUME Replay PROVE Rewound'
  <2>1. stage' = "replay" /\ round' = round + 1
    BY <1>4 DEF Replay
  <2>2. round' >= 1
    BY <1>2, <2>1
  <2> QED BY <2>1, <2>2 DEF Rewound
<1>5. ASSUME Load PROVE Rewound'
  <2>1. stage = "live" /\ stage' \in {"loaded", "over"} /\ UNCHANGED <<provider, round, served>>
    BY <1>5 DEF Load
  <2> QED BY <1>1, <2>1 DEF Rewound
<1>6. ASSUME NEW t \in Thread, ReplayCall(t) PROVE Rewound'
  <2>1. stage = "replay" /\ stage' = "replay" /\ round' = round
    BY <1>6 DEF ReplayCall
  <2> QED BY <1>1, <2>1 DEF Rewound
<1>7. ASSUME NEW t \in Thread, CallService(t) \/ ServiceAnswers(t) PROVE Rewound'
  <2>1. UNCHANGED <<stage, provider, round, served>>
    BY <1>7 DEF CallService, ServiceAnswers
  <2> QED BY <1>1, <2>1 DEF Rewound
<1>8. CASE UNCHANGED recordingVars
  BY <1>1, <1>8 DEF Rewound, recordingVars
<1> QED BY <1>3, <1>4, <1>5, <1>6, <1>7, <1>8 DEF RecordingNext

LEMMA ServedNext == ReplayInv /\ [RecordingNext]_recordingVars => ServedInv'
<1> SUFFICES ASSUME ReplayInv, [RecordingNext]_recordingVars PROVE ServedInv'
  OBVIOUS
<1>1. RecordingTypes /\ ServedInv /\ Rewound /\ served \in Seq(Serving)
  BY DEF ReplayInv, RunInv, ServedInv
<1>2. << >> \in Seq(Serving) /\ DOMAIN << >> = {}
  <2>1. << >> \in Seq(Serving)
    BY EmptySeq
  <2>2. DOMAIN << >> = 1 .. 0
    BY <2>1, Lengths
  <2> QED BY <2>1, <2>2
<1>3. ASSUME served' = << >> PROVE ServedInv'
  BY <1>2, <1>3 DEF ServedInv
<1>4. ASSUME UNCHANGED <<served, tape, work>>, stage' = "replay" => stage = "replay" /\ provider' = provider
      PROVE  ServedInv'
  BY <1>1, <1>4 DEF ServedInv
<1>5. ASSUME NEW t \in Thread, ReplayCall(t) PROVE ServedInv'
  <2> DEFINE r == Request(t, work.with)
             g == Generate(r)
             new == [request |-> r, response |-> Last(talk'[t]), call |-> g.call]
             n == Len(served)
  <2>1. /\ stage = "replay" /\ stage' = "replay" /\ provider' = g.provider /\ tape' = tape /\ work' = work
        /\ IF g.call # 0 /\ tape[g.call].response.error = ""
           THEN /\ talk' = [talk EXCEPT ![t] = Append(talk[t], tape[g.call].response)]
                /\ served' = Append(served, new)
           ELSE served' = served
    BY <1>5 DEF ReplayCall
  <2>2. g.call # 0 => g.call \in 1 .. Len(tape) /\ tape[g.call].request = r
    BY <1>1, GenerateIs
  <2>3. work.mode = "strict" => g.provider.idx = provider.idx + 1 /\ (g.call # 0 => g.call = provider.idx + 1)
    <3>1. ASSUME work.mode = "strict" PROVE g.provider = [provider EXCEPT !.idx = provider.idx + 1]
      BY <3>1 DEF Generate, GenerateStrict
    <3>2. provider = [idx |-> provider.idx, cursors |-> provider.cursors]
      BY <1>1 DEF RecordingTypes
    <3>3. ASSUME work.mode = "strict", g.call # 0 PROVE g.call = provider.idx + 1
      BY <3>3 DEF Generate, GenerateStrict
    <3> HIDE DEF g
    <3> QED BY <3>1, <3>2, <3>3
  <2>4. tape \in Seq(Call) /\ provider.idx \in Nat /\ Conversations(talk) /\ work \in Works
    BY <1>1 DEF RecordingTypes
  <2>5. r \in Requests
    <3>1. Works \subseteq [asks : [Thread -> STRING], answers : [Thread -> Seq(Message)],
                           with : STRING, mode : {"strict", "lenient"}, streams : BOOLEAN]
      BY Zenon, RecordingAssumption
    <3>2. work \in [asks : [Thread -> STRING], answers : [Thread -> Seq(Message)],
                    with : STRING, mode : {"strict", "lenient"}, streams : BOOLEAN]
      BY Zenon, <2>4, <3>1
    <3>3. work.with \in STRING
      BY <3>2
    <3>4. talk[t] \in Seq(Message)
      BY <2>4 DEF Conversations
    <3> QED BY <3>3, <3>4 DEF Requests, Request
  <2> HIDE DEF r, g
  <2>6. n \in Nat /\ DOMAIN served = 1 .. n
    BY <1>1, Lengths
  <2>7. CASE g.call # 0 /\ tape[g.call].response.error = ""
    <3> DEFINE answer == tape[g.call].response
    <3>1. answer \in Message /\ g.call \in DOMAIN tape
      <4>1. g.call \in DOMAIN tape /\ tape[g.call] \in Call
        BY <2>2, <2>4, <2>7, Lengths
      <4> QED BY <4>1 DEF Call
    <3>2. Last(talk'[t]) = answer
      <4>1. talk'[t] = Append(talk[t], answer) /\ talk[t] \in Seq(Message)
        BY <2>1, <2>4, <2>7 DEF Conversations
      <4>2. /\ Append(talk[t], answer) \in Seq(Message) /\ Len(Append(talk[t], answer)) = Len(talk[t]) + 1
            /\ Append(talk[t], answer)[Len(talk[t]) + 1] = answer
        BY <3>1, <4>1, Appended
      <4>3. Last(Append(talk[t], answer)) = Append(talk[t], answer)[Len(Append(talk[t], answer))]
        BY <4>2, LastIs
      <4> HIDE DEF answer
      <4> QED BY <4>1, <4>2, <4>3
    <3>3. /\ new.request = r /\ new.response = answer /\ new.call = g.call
          /\ new \in Serving
      <4>1. g.call \in Nat
        <5>1. Len(tape) \in Nat /\ g.call \in 1 .. Len(tape)
          BY <2>2, <2>4, <2>7, Lengths
        <5> QED BY <5>1
      <4> HIDE DEF answer
      <4> QED BY <2>5, <3>1, <3>2, <4>1 DEF Serving
    <3> HIDE DEF new
    <3>4. /\ served' \in Seq(Serving) /\ DOMAIN served' = 1 .. n + 1
          /\ \A i \in 1 .. n : served'[i] = served[i]
          /\ served'[n + 1] = new
      <4>1. served' = Append(served, new)
        BY <2>1, <2>7
      <4>2. /\ Append(served, new) \in Seq(Serving) /\ Len(Append(served, new)) = n + 1
            /\ \A i \in 1 .. n : Append(served, new)[i] = served[i]
            /\ Append(served, new)[n + 1] = new
        BY <1>1, <3>3, Appended
      <4> QED BY <4>1, <4>2, Lengths
    <3>5. \A i : i \in 1 .. n + 1 <=> i \in 1 .. n \/ i = n + 1
      BY <2>6
    <3> HIDE DEF n
    <3>6. ASSUME NEW i \in DOMAIN served'
          PROVE  /\ served'[i].response.error = "" /\ served'[i].call \in DOMAIN tape
                 /\ tape[served'[i].call].request = served'[i].request
                 /\ tape[served'[i].call].response = served'[i].response
      <4>1. CASE i \in 1 .. n
        BY <1>1, <2>6, <3>4, <4>1 DEF ServedInv
      <4>2. CASE i = n + 1
        BY <2>2, <2>7, <3>1, <3>3, <3>4, <4>2
      <4> QED BY <3>4, <3>5, <4>1, <4>2
    <3>7. ASSUME work.mode = "strict"
          PROVE  /\ \A i, j \in DOMAIN served' : i < j => served'[i].call < served'[j].call
                 /\ \A i \in DOMAIN served' : served'[i].call <= provider'.idx
      <4>1. /\ \A i, j \in 1 .. n : i < j => served[i].call < served[j].call
            /\ \A i \in 1 .. n : served[i].call <= provider.idx
        BY <1>1, <2>1, <2>6, <3>7 DEF ServedInv
      <4>2. \A i \in 1 .. n : served[i].call \in Nat
        <5>1. \A i \in 1 .. n : served[i] \in Serving
          BY <1>1, <2>6, Lengths
        <5> QED BY <5>1 DEF Serving
      <4>3. new.call = provider.idx + 1 /\ provider'.idx = provider.idx + 1
        BY <2>1, <2>3, <2>7, <3>3, <3>7
      <4>4. \A i \in 1 .. n : served[i].call < new.call /\ served[i].call <= provider'.idx
        BY <2>4, <4>1, <4>2, <4>3
      <4>5. ASSUME NEW i \in DOMAIN served', NEW j \in DOMAIN served', i < j PROVE served'[i].call < served'[j].call
        <5>1. i \in 1 .. n /\ (j \in 1 .. n \/ j = n + 1)
          BY <2>6, <3>4, <3>5, <4>5
        <5> QED BY <3>4, <4>1, <4>4, <4>5, <5>1
      <4>6. ASSUME NEW i \in DOMAIN served' PROVE served'[i].call <= provider'.idx
        <5>1. CASE i \in 1 .. n
          BY <3>4, <4>4, <5>1
        <5>2. CASE i = n + 1
          BY <2>4, <3>4, <4>3, <5>2
        <5> QED BY <3>4, <3>5, <5>1, <5>2
      <4> QED BY <4>5, <4>6
    <3> QED BY <2>1, <3>4, <3>6, <3>7 DEF ServedInv
  <2>8. CASE ~(g.call # 0 /\ tape[g.call].response.error = "")
    <3>1. served' = served
      BY <2>1, <2>8
    <3>2. ASSUME work.mode = "strict" PROVE \A i \in DOMAIN served : served[i].call <= provider'.idx
      <4>1. \A i \in DOMAIN served : served[i].call <= provider.idx /\ served[i].call \in Nat
        <5>1. \A i \in DOMAIN served : served[i] \in Serving
          BY <1>1, Lengths
        <5> QED BY <1>1, <2>1, <3>2, <5>1 DEF ServedInv, Serving
      <4>2. provider'.idx = provider.idx + 1
        BY <2>1, <2>3, <3>2
      <4>3. \A x, y \in Nat : x <= y => x <= y + 1
        OBVIOUS
      <4> QED BY <2>4, <4>1, <4>2, <4>3
    <3> QED BY <1>1, <2>1, <3>1, <3>2 DEF ServedInv
  <2> QED BY <2>7, <2>8
<1>6. CASE Replay
  BY <1>3, <1>6 DEF Replay
<1>7. CASE Load
  <2>1. stage = "live" /\ served' = served
    BY <1>7 DEF Load
  <2> QED BY <1>1, <1>3, <2>1 DEF Rewound
<1>8. CASE Reset
  <2>1. UNCHANGED <<served, tape, work>> /\ stage' # "replay"
    BY <1>8 DEF Reset
  <2> QED BY <1>4, <2>1
<1>9. ASSUME NEW t \in Thread, CallService(t) \/ ServiceAnswers(t) PROVE ServedInv'
  <2>1. UNCHANGED <<served, tape, work, provider, stage>>
    BY <1>9 DEF CallService, ServiceAnswers
  <2> QED BY <1>4, <2>1
<1>10. CASE UNCHANGED recordingVars
  <2>1. UNCHANGED <<served, tape, work, provider, stage>>
    BY <1>10 DEF recordingVars
  <2> QED BY <1>4, <2>1
<1> QED BY <1>5, <1>6, <1>7, <1>8, <1>9, <1>10 DEF RecordingNext

(* A replay starts with the openings, and a new provider serves the first. *)
LEMMA LenientStart ==
  ASSUME RunInv, Rewound, Replay, round = 0
  PROVE  Plain(talk)' /\ ServedAlike' /\ \A t \in Thread : stopped'[t] = ""
<1>1. /\ talk' = Opening(work) /\ stopped' = [t \in Thread |-> ""] /\ provider' = provider /\ tape' = tape
      /\ provider = Fresh
  BY DEF Replay, Rewound
<1>2. work \in Works /\ tape \in Seq(Call)
  BY DEF RunInv, RecordingTypes
<1>3. Conversations(Opening(work)) /\ \A t \in Thread : Len(Opening(work)[t]) = 1
  BY <1>2, OpeningsAreShaped
<1>4. ASSUME NEW t \in Thread PROVE Opening(work)[t][1].thinks = FALSE
  <2>1. Opening(work)[t][1] = Answer(work.asks[t], FALSE)
    BY <1>3 DEF Conversations, Shaped
  <2>2. Answer(work.asks[t], FALSE).thinks = FALSE
    BY DEF Answer
  <2> QED BY <2>1, <2>2
<1>5. Plain(Opening(work))
  <2>1. \A k : k \in 1 .. 1 <=> k = 1
    OBVIOUS
  <2> QED BY <1>3, <1>4, <2>1 DEF Plain
<1>6. \A r : Cursor(r)' = 0 /\ Queue(r)' = Queue(r)
  <2>1. DOMAIN Fresh.cursors = {}
    BY DEF Fresh
  <2> QED BY <1>1, <2>1 DEF Cursor, Queue
<1>7. ASSUME NEW h \in Histories
      PROVE  /\ 0 \in 0 .. Len(Queue(Sent(h)))
             /\ \A M \in SUBSET Message : Cardinality(Followers(Opening(work), h, M)) = Cardinality({j \in 1 .. 0 : FALSE})
  <2>1. Len(Queue(Sent(h))) \in Nat
    BY <1>2, QueueIs
  <2>2. \A M : Followers(Opening(work), h, M) = {}
    BY <1>3, NothingFollows
  <2>3. {j \in 1 .. 0 : FALSE} = {}
    OBVIOUS
  <2> QED BY <2>1, <2>2, <2>3
<1>8. \A h, M : Queued(h, 0, M)' = {j \in 1 .. 0 : FALSE}
  BY DEF Queued
<1>9. ServedAlike'
  <2>1. ASSUME NEW h \in Histories
        PROVE  /\ Cursor(Sent(h))' \in 0 .. Len(Queue(Sent(h))')
               /\ \A M \in SUBSET Message :
                    Cardinality(Followers(talk', h, M)) = Cardinality(Queued(h, Cursor(Sent(h)), M)')
    <3>1. Cursor(Sent(h))' = 0 /\ Queue(Sent(h))' = Queue(Sent(h))
      BY <1>6
    <3>2. \A M : Queued(h, Cursor(Sent(h)), M)' = {j \in 1 .. 0 : FALSE}
      BY <3>1 DEF Queued
    <3> QED BY <1>1, <1>7, <3>1, <3>2
  <2> QED BY <2>1 DEF ServedAlike, Queued, Followers
<1> QED BY <1>1, <1>5, <1>9 DEF Plain

LEMMA StrictStart ==
  ASSUME RunInv, Rewound, Replay
  PROVE  Along'
<1>1. /\ talk' = Opening(work) /\ stopped' = [t \in Thread |-> ""] /\ provider' = provider
      /\ work' = work /\ heard' = heard /\ provider.idx = 0
  BY DEF Replay, Rewound
<1>2. work \in Works /\ Conversations(heard)
  BY DEF RunInv, RecordingTypes
<1>3. Conversations(Opening(work)) /\ \A t \in Thread : Len(Opening(work)[t]) = 1
  BY <1>2, OpeningsAreShaped
<1>4. ASSUME NEW t \in Thread PROVE Starts(heard[t], Opening(work)[t])
  <2>1. Len(Opening(work)[t]) = 1
    BY <1>3
  <2> HIDE DEF Answer
  <2>2. Len(heard[t]) >= 1 /\ heard[t][1] = Answer(work.asks[t], FALSE)
    BY <1>2 DEF Conversations, Shaped
  <2>3. Opening(work)[t][1] = Answer(work.asks[t], FALSE)
    BY <1>3 DEF Conversations, Shaped
  <2>4. \A k : k \in 1 .. 1 <=> k = 1
    OBVIOUS
  <2> QED BY <2>1, <2>2, <2>3, <2>4 DEF Starts
<1>5. ASSUME NEW t \in Thread
      PROVE  Starts(heard'[t], talk'[t]) /\ stopped'[t] = "" /\ provider'.idx = Len(talk'[t]) - 1
  <2>1. Len(talk'[t]) - 1 = 0 /\ provider'.idx = 0 /\ stopped'[t] = ""
    <3>1. Len(talk'[t]) = 1 /\ provider'.idx = 0 /\ stopped'[t] = ""
      BY <1>1, <1>3
    <3>2. \A n : n = 1 => n - 1 = 0
      OBVIOUS
    <3> QED BY <3>1, <3>2, Zenon
  <2>2. Starts(heard'[t], talk'[t])
    <3>1. heard'[t] = heard[t] /\ talk'[t] = Opening(work)[t]
      BY <1>1
    <3> QED BY <1>4, <3>1
  <2> QED BY <2>1, <2>2
<1> QED BY <1>5 DEF Along

LEMMA ReplayNext == ReplayInv /\ [RecordingNext]_recordingVars => ReplayInv'
<1> SUFFICES ASSUME ReplayInv, [RecordingNext]_recordingVars PROVE ReplayInv'
  OBVIOUS
<1>1. RunInv /\ AloneInv /\ Rewound /\ LenientReplay /\ StrictReplay
  BY DEF ReplayInv
<1>2. RunInv' /\ AloneInv' /\ ServedInv' /\ Rewound'
  BY <1>1, RunNext, AloneNext, ServedNext, RewoundNext
<1>3. ASSUME stage' # "replay" PROVE LenientReplay' /\ StrictReplay'
  BY <1>3 DEF LenientReplay, StrictReplay
<1>4. ASSUME Replay PROVE LenientReplay' /\ StrictReplay'
  <2>1. StrictReplay'
    BY <1>1, <1>4, StrictStart DEF StrictReplay
  <2>2. LenientReplay'
    <3>1. round' = round + 1 /\ round \in Nat
      BY <1>1, <1>4 DEF Replay, RunInv, RecordingTypes
    <3>2. round' = 1 => round = 0
      BY <3>1
    <3> QED BY <1>1, <1>4, <3>2, LenientStart DEF LenientReplay
  <2> QED BY <2>1, <2>2
<1>5. ASSUME NEW t \in Thread, ReplayCall(t) PROVE LenientReplay' /\ StrictReplay'
  <2>1. stage = "replay" /\ UNCHANGED <<work, tape, spans, heard, round>>
    BY <1>5 DEF ReplayCall
  <2>2. (Good' <=> Good) /\ (Alone' <=> Alone)
    BY <2>1 DEF Good, Faithful, Captures, Alone, Finished, Thinks
  <2>3. ASSUME round' = 1, work'.mode = "lenient", Good' PROVE Plain(talk)' /\ ServedAlike' /\ \A u \in Thread : stopped'[u] = ""
    <3>1. Plain(talk) /\ ServedAlike /\ \A u \in Thread : stopped[u] = ""
      BY <1>1, <2>1, <2>2, <2>3 DEF LenientReplay
    <3>2. Replaying
      BY <1>1, <2>1, <2>2, <2>3, <3>1 DEF Replaying
    <3> QED BY <1>5, <2>1, <2>3, <3>1, <3>2, LenientStep
  <2>4. ASSUME work'.mode = "strict", Good', Alone' PROVE Along'
    <3>1. Along
      BY <1>1, <2>1, <2>2, <2>4 DEF StrictReplay
    <3> QED BY <1>1, <1>5, <2>1, <2>2, <2>4, <3>1, StrictStep
  <2> QED BY <2>3, <2>4 DEF LenientReplay, StrictReplay
<1>6. ASSUME Load \/ Reset \/ \E t \in Thread : CallService(t) \/ ServiceAnswers(t) PROVE stage' # "replay"
  BY <1>6 DEF Load, Reset, CallService, ServiceAnswers
<1>7. CASE UNCHANGED recordingVars
  <2>1. UNCHANGED <<work, stage, talk, spans, tape, provider, stopped, heard, round>>
    BY <1>7 DEF recordingVars
  <2>2. (Good' <=> Good) /\ (Alone' <=> Alone) /\ (Along' <=> Along) /\ (Plain(talk)' <=> Plain(talk))
    BY <2>1 DEF Good, Faithful, Captures, Alone, Finished, Thinks, Along, Calls, Plain
  <2>3. \A r : Cursor(r)' = Cursor(r) /\ Queue(r)' = Queue(r)
    BY <2>1 DEF Cursor, Queue
  <2>4. ServedAlike' <=> ServedAlike
    <3>1. \A h : Cursor(Sent(h))' = Cursor(Sent(h)) /\ Queue(Sent(h))' = Queue(Sent(h))
      BY <2>3
    <3>2. \A h, M : Queued(h, Cursor(Sent(h)), M)' = Queued(h, Cursor(Sent(h)), M)
      BY <2>1, <3>1 DEF Queued
    <3>3. \A h, M : Followers(talk, h, M)' = Followers(talk, h, M)
      BY <2>1 DEF Followers
    <3> QED BY <3>1, <3>2, <3>3 DEF ServedAlike
  <2>5. LenientReplay'
    BY <1>1, <2>1, <2>2, <2>4 DEF LenientReplay
  <2>6. StrictReplay'
    <3>1. stage' = "replay" => stage = "replay"
      BY <2>1
    <3>2. work'.mode = "strict" => work.mode = "strict"
      BY <2>1
    <3> QED BY <1>1, <2>2, <3>1, <3>2 DEF StrictReplay
  <2> QED BY <1>2, <2>5, <2>6 DEF ReplayInv
<1> QED BY <1>2, <1>3, <1>4, <1>5, <1>6, <1>7 DEF RecordingNext, ReplayInv

(* What a faithful recording holds was heard in the live run.              *)
LEMMA RecordedIsHeard ==
  ASSUME RunInv, Faithful, stage # "live", tape = Recorded(spans), NEW c \in DOMAIN tape
  PROVE  Heard(tape[c].request, tape[c].response)
<1> DEFINE m == tape[c].response
<1>1. /\ spans \in Seq(Span) /\ tape \in Seq(Call) /\ SpansCount(spans, heard)
      /\ heard \in [Thread -> Histories]
  BY ConversationsAreHistories DEF RunInv, SpansTally, RecordingTypes, Live
<1>2. m \in Message
  <2>1. tape[c] \in Call
    BY <1>1, Lengths
  <2> QED BY <2>1 DEF Call
<1>3. PICK h \in Histories : tape[c].request = Sent(h)
  BY <1>1, RecordedRequests
<1>4. PICK t : t \in Followers(heard, h, {m})
  <2>1. {m} \in SUBSET Message
    BY <1>2
  <2>2. /\ IsFiniteSet(CallsOf(h, {m})) /\ IsFiniteSet(Followers(heard, h, {m}))
        /\ Cardinality(CallsOf(h, {m})) = Cardinality(Followers(heard, h, {m}))
    BY <1>1, <2>1, CallsAreKept, ReachedFinite DEF SpansCount
  <2>3. c \in CallsOf(h, {m})
    BY <1>3 DEF CallsOf
  <2> HIDE DEF m
  <2> QED BY <2>2, <2>3, SomeAreCounted
<1> DEFINE k == Len(h)
<1>5. t \in Thread /\ Beyond(heard[t], h) /\ m = Captured(heard[t][k + 1])
  BY <1>4 DEF Followers
<1>6. /\ k \in Nat /\ k >= 1 /\ Len(heard[t]) \in Nat /\ k < Len(heard[t]) /\ \A j \in 1 .. k : heard[t][j] = h[j]
      /\ h \in Seq(Message) /\ heard[t] \in Seq(Message)
  BY <1>1, <1>5, HistoryIs DEF Beyond, Histories
<1>7. SubSeq(heard[t], 1, k) = h
  <2> DEFINE p == SubSeq(heard[t], 1, k)
  <2>1. p \in Seq(Message) /\ Len(p) = k /\ \A j \in 1 .. k : p[j] = heard[t][j]
    BY <1>6, SubSeqProperties
  <2> HIDE DEF p, k
  <2>2. Len(p) = Len(h) /\ \A j \in 1 .. Len(p) : p[j] = h[j]
    BY <1>6, <2>1 DEF k
  <2> QED BY <1>6, <2>1, <2>2, SeqEqual DEF p
<1>8. k \in 1 .. Len(heard[t]) - 1 /\ tape[c].request.messages = h
  BY <1>3, <1>6 DEF Sent
<1> HIDE DEF k, m
<1> QED BY <1>5, <1>7, <1>8 DEF Heard, m

(* The invariant says that a replay repeats the run.                       *)
LEMMA ReplayRepeats == ReplayInv => ReplayRepeatsTheRun
<1> SUFFICES ASSUME ReplayInv PROVE ReplayRepeatsTheRun
  OBVIOUS
<1>1. RunInv /\ AloneInv /\ LenientReplay /\ StrictReplay /\ ServedInv
  BY DEF ReplayInv
<1>5. DOMAIN << >> = {}
  <2>1. << >> \in Seq(Serving)
    BY EmptySeq
  <2>2. DOMAIN << >> = 1 .. 0
    BY <2>1, Lengths
  <2> QED BY <2>2
<1>2. ASSUME NEW i \in DOMAIN served
      PROVE  /\ served[i].response.error = ""
             /\ \E c \in DOMAIN tape : tape[c].request = served[i].request /\ tape[c].response = served[i].response
             /\ tape = Recorded(spans) /\ Faithful => Heard(served[i].request, served[i].response)
  <2>1. PICK c \in DOMAIN tape : tape[c].request = served[i].request /\ tape[c].response = served[i].response
    BY <1>1 DEF ServedInv
  <2>2. ASSUME tape = Recorded(spans), Faithful PROVE Heard(served[i].request, served[i].response)
    <3>1. stage # "live"
      BY <1>5 DEF ReplayInv, Rewound
    <3>2. Heard(tape[c].request, tape[c].response)
      BY <1>1, <2>2, <3>1, RecordedIsHeard
    <3> QED BY <2>1, <3>2
  <2> QED BY <1>1, <2>1, <2>2 DEF ServedInv
<1>3. ASSUME work.mode = "strict" PROVE IsInjective([i \in DOMAIN served |-> served[i].call])
  <2>1. DOMAIN served \subseteq Nat /\ \A i \in DOMAIN served : served[i].call \in Nat
    <3>1. served \in Seq(Serving)
      BY <1>1 DEF ServedInv
    <3>2. Len(served) \in Nat /\ DOMAIN served = 1 .. Len(served) /\ \A i \in 1 .. Len(served) : served[i] \in Serving
      BY <3>1, Lengths
    <3> QED BY <3>2 DEF Serving
  <2>2. \A i, j \in DOMAIN served : i < j => served[i].call < served[j].call
    BY <1>1, <1>3 DEF ServedInv
  <2>3. \A i, j \in DOMAIN served : served[i].call = served[j].call => i = j
    <3> SUFFICES ASSUME NEW i \in DOMAIN served, NEW j \in DOMAIN served, i # j
                 PROVE  served[i].call # served[j].call
      OBVIOUS
    <3>1. i < j \/ j < i
      BY <2>1
    <3> QED BY <2>1, <2>2, <3>1
  <2> QED BY <2>3 DEF IsInjective
<1>4. ASSUME Repeatable, ~Thinks PROVE Repeats
  <2>1. stage = "replay" /\ Good /\ \A t \in Thread : ~Going(t)
    BY <1>4 DEF Repeatable, Ended, Good
  <2>2. CASE work.mode = "strict"
    <3>1. Alone /\ Along
      BY <1>1, <1>4, <2>1, <2>2 DEF Repeatable, StrictReplay
    <3>2. Finished(talk)
      BY <2>1, <3>1 DEF Finished, Going, Along
    <3>3. talk = heard /\ Remaining = 0
      BY <1>1, <2>1, <3>1, <3>2, StrictRepeats
    <3> QED BY <3>3 DEF Repeats
  <2>3. CASE work.mode # "strict"
    <3>1. round = 1
      BY <1>4, <2>3 DEF Repeatable
    <3>2. work.mode = "lenient"
      BY <1>1, <2>3, WorkType DEF RunInv, RecordingTypes
    <3>3. Replaying /\ \A t \in Thread : stopped[t] = ""
      BY <1>1, <2>1, <3>1, <3>2 DEF LenientReplay, Replaying
    <3>4. Finished(talk)
      BY <2>1, <3>3 DEF Finished, Going
    <3> QED BY <2>3, <3>3, <3>4, LenientRepeats DEF Repeats
  <2> QED BY <2>2, <2>3
<1> QED BY <1>2, <1>3, <1>4 DEF ReplayRepeatsTheRun

(***************************************************************************)
(* pkg/replay: nothing is made up, a strict replay serves no call twice,   *)
(* and a replay of a run without reasoning, lenient with any threads or    *)
(* strict with one that calls, ends with the conversations of that run.    *)
(***************************************************************************)
THEOREM ReplaysRepeat == RecordingSpec => []ReplayRepeatsTheRun
<1>1. RecordingInit => ReplayInv
  BY ReplayInit
<1>2. ReplayInv /\ [RecordingNext]_recordingVars => ReplayInv'
  BY ReplayNext
<1>3. ReplayInv => ReplayRepeatsTheRun
  BY ReplayRepeats
<1> QED BY <1>1, <1>2, <1>3, PTL DEF RecordingSpec

-----------------------------------------------------------------------------
(***************************************************************************)
(* The judges' replies. Only which words and numbers there are counts.     *)
(***************************************************************************)
Tokens == [form : STRING, n : Nat]

LEMMA SaysAsMuch ==
  ASSUME NEW s \in Seq(Tokens), NEW r \in Seq(Tokens),
         \A i \in 1 .. Len(s) : \E j \in 1 .. Len(r) : r[j] = s[i]
  PROVE  Words(s) \subseteq Words(r) /\ \A form : Numbers(s, form) \subseteq Numbers(r, form)
<1>1. DOMAIN s = 1 .. Len(s) /\ DOMAIN r = 1 .. Len(r)
  BY Lengths
<1> QED BY <1>1 DEF Words, Numbers

LEMMA Joined ==
  ASSUME NEW s \in Seq(Tokens), NEW r \in Seq(Tokens)
  PROVE  /\ s \o r \in Seq(Tokens) /\ Len(s \o r) >= Len(s) /\ Len(s \o r) \in Nat
         /\ Words(s) \subseteq Words(s \o r) /\ \A form : Numbers(s, form) \subseteq Numbers(s \o r, form)
<1>1. /\ s \o r \in Seq(Tokens) /\ Len(s \o r) = Len(s) + Len(r) /\ Len(s) \in Nat /\ Len(r) \in Nat
      /\ \A i \in 1 .. Len(s) + Len(r) : (s \o r)[i] = IF i <= Len(s) THEN s[i] ELSE r[i - Len(s)]
  BY ConcatProperties, Lengths
<1> DEFINE j == s \o r
<1> HIDE DEF j
<1>2. \A i \in 1 .. Len(s) : i \in 1 .. Len(j) /\ j[i] = s[i]
  BY <1>1 DEF j
<1>3. Words(s) \subseteq Words(j) /\ \A form : Numbers(s, form) \subseteq Numbers(j, form)
  <2>1. j \in Seq(Tokens)
    BY <1>1 DEF j
  <2> QED BY <1>2, <2>1, SaysAsMuch
<1> QED BY <1>1, <1>3 DEF j

LEMMA NumbersAreFinite ==
  ASSUME NEW s \in Seq(Tokens), NEW form
  PROVE  IsFiniteSet(Numbers(s, form)) /\ (Len(s) <= 1 => Cardinality(Numbers(s, form)) <= 1)
<1> DEFINE D == {j \in DOMAIN s : s[j].form = form}
           f == [i \in D |-> s[i].n]
<1>1. Len(s) \in Nat /\ DOMAIN s = 1 .. Len(s)
  BY Lengths
<1>2. D \in SUBSET (1 .. Len(s))
  BY <1>1
<1>3. IsFiniteSet(1 .. Len(s)) /\ Cardinality(1 .. Len(s)) = Len(s)
  BY <1>1, FS_Interval
<1>4. IsFiniteSet(D) /\ Cardinality(D) <= Len(s) /\ Cardinality(D) \in Nat
  <2> HIDE DEF D
  <2> QED BY <1>2, <1>3, FS_Subset, FS_CardinalityType
<1>5. f \in Surjection(D, Numbers(s, form))
  BY DEF Surjection, Numbers
<1>6. IsFiniteSet(Numbers(s, form)) /\ Cardinality(Numbers(s, form)) <= Cardinality(D)
  <2> HIDE DEF D, f
  <2> QED BY <1>4, <1>5, FS_Surjection
<1>7. Cardinality(Numbers(s, form)) \in Nat
  BY <1>6, FS_CardinalityType
<1> HIDE DEF D
<1> QED BY <1>1, <1>4, <1>6, <1>7

LEMMA Reversed ==
  ASSUME NEW s \in Seq(Tokens)
  PROVE  /\ Words(Reverse(s)) = Words(s) /\ \A form : Numbers(Reverse(s), form) = Numbers(s, form)
         /\ Len(Reverse(s)) = Len(s) /\ (Len(s) = 1 => Reverse(s)[1] = s[1])
<1> DEFINE r == Reverse(s)
           n == Len(s)
<1>1. n \in Nat /\ \A i \in 1 .. n : s[i] \in Tokens /\ (n - i) + 1 \in 1 .. n /\ (n - ((n - i) + 1)) + 1 = i
  BY Lengths
<1>2. r = [i \in 1 .. n |-> s[(n - i) + 1]]
  BY DEF Reverse
<1> HIDE DEF r, n
<1>3. \A i \in 1 .. n : s[(n - i) + 1] \in Tokens
  BY <1>1
<1>4. r \in Seq(Tokens) /\ Len(r) = n /\ \A i \in 1 .. n : r[i] = s[(n - i) + 1]
  BY <1>1, <1>2, <1>3
<1>5. \A i \in 1 .. n : r[(n - i) + 1] = s[i]
  BY <1>1, <1>4
<1>6. Words(r) \subseteq Words(s) /\ \A form : Numbers(r, form) \subseteq Numbers(s, form)
  <2>1. \A i \in 1 .. Len(r) : \E j \in 1 .. Len(s) : s[j] = r[i]
    BY <1>1, <1>4 DEF n
  <2> QED BY <1>4, <2>1, SaysAsMuch
<1>7. Words(s) \subseteq Words(r) /\ \A form : Numbers(s, form) \subseteq Numbers(r, form)
  <2>1. \A i \in 1 .. Len(s) : \E j \in 1 .. Len(r) : r[j] = s[i]
    BY <1>1, <1>4, <1>5 DEF n
  <2> QED BY <1>4, <2>1, SaysAsMuch
<1>8. n = 1 => r[1] = s[1]
  BY <1>4
<1> QED BY <1>4, <1>6, <1>7, <1>8 DEF r, n

LEMMA RepliesAreReadSafely ==
  ASSUME NEW s \in Seq(Tokens)
  PROVE  ReadSafely(s)
<1>1. ASSUME NEW more \in Reply, Classify(s \o more) = "ALLOW"
      PROVE  "NOT" \notin Words(s) /\ Classify(s) # "BLOCK"
  <2>1. more \in Seq(Tokens)
    BY EvalAssumption DEF Tokens
  <2>2. Words(s) \subseteq Words(s \o more)
    BY <2>1, Joined
  <2>3. Words(s \o more) \cap {"BLOCK", "NOT"} = {}
    BY <1>1 DEF Classify
  <2>4. "BLOCK" \notin Words(s) /\ "NOT" \notin Words(s)
    BY <2>2, <2>3
  <2> QED BY <2>4 DEF Classify
<1>2. ASSUME NEW more \in Reply, Cardinality(Numbers(s, "number")) > 1, ParseScore(s \o more) # NoScore
      PROVE  Numbers(s \o more, "outof") # {}
  <2> DEFINE longer == s \o more
             bare == Numbers(longer, "number")
  <2>1. more \in Seq(Tokens)
    BY EvalAssumption DEF Tokens
  <2>2. /\ longer \in Seq(Tokens) /\ Len(longer) >= Len(s) /\ Len(longer) \in Nat
        /\ Numbers(s, "number") \subseteq bare
    BY <2>1, Joined
  <2> HIDE DEF longer
  <2>3. IsFiniteSet(bare) /\ (Len(longer) <= 1 => Cardinality(bare) <= 1)
    BY <2>2, NumbersAreFinite
  <2>4. Cardinality(bare) \in Nat /\ Cardinality(Numbers(s, "number")) \in Nat
        /\ Cardinality(Numbers(s, "number")) <= Cardinality(bare)
    <3>1. IsFiniteSet(Numbers(s, "number")) /\ Numbers(s, "number") \in SUBSET bare
      BY <2>2, NumbersAreFinite
    <3> HIDE DEF bare
    <3> QED BY <2>3, <3>1, FS_Subset, FS_CardinalityType
  <2>5. Cardinality(bare) # 1 /\ Len(longer) # 1
    <3>1. Cardinality(bare) > 1
      BY <1>2, <2>4
    <3>2. \A c, l \in Nat : c > 1 /\ (l <= 1 => c <= 1) => c # 1 /\ l # 1
      OBVIOUS
    <3> HIDE DEF bare
    <3> QED BY <2>2, <2>3, <2>4, <3>1, <3>2
  <2>6. SUFFICES ASSUME Numbers(longer, "outof") = {} PROVE ParseScore(longer) = NoScore
    BY <1>2 DEF longer
  <2> QED BY <2>5, <2>6 DEF ParseScore
<1>3. Classify(Reverse(s)) = Classify(s)
  BY Reversed DEF Classify
<1>4. ParseScore(Reverse(s)) = ParseScore(s)
  <2> DEFINE r == Reverse(s)
  <2>1. /\ \A form : Numbers(r, form) = Numbers(s, form)
        /\ Len(r) = Len(s) /\ (Len(s) = 1 => r[1] = s[1])
    BY Reversed
  <2> SUFFICES ParseScore(r) = ParseScore(s)
    OBVIOUS
  <2> HIDE DEF r
  <2>2. CASE Len(s) = 1 /\ s[1].form = "number"
    <3>1. r[1] = s[1] /\ Len(r) = 1
      BY <2>1, <2>2
    <3>2. ParseScore(s) = Clamped(s[1].n)
      BY <2>2 DEF ParseScore
    <3>3. r[1].form = "number" /\ r[1].n = s[1].n
      BY <2>2, <3>1
    <3>4. ParseScore(r) = Clamped(r[1].n)
      BY <3>1, <3>3 DEF ParseScore
    <3> QED BY <3>2, <3>3, <3>4
  <2>3. CASE ~(Len(s) = 1 /\ s[1].form = "number")
    <3> DEFINE Read(x, y) == LET said == IF x # {} THEN x ELSE y
                             IN  IF Cardinality(said) = 1 THEN Clamped(CHOOSE n \in said : TRUE) ELSE NoScore
    <3>1. ~(Len(r) = 1 /\ r[1].form = "number")
      BY <2>1, <2>3
    <3>2. ParseScore(s) = Read(Numbers(s, "outof"), Numbers(s, "number"))
      BY <2>3 DEF ParseScore
    <3>3. ParseScore(r) = Read(Numbers(r, "outof"), Numbers(r, "number"))
      BY <3>1 DEF ParseScore
    <3>4. Numbers(r, "outof") = Numbers(s, "outof") /\ Numbers(r, "number") = Numbers(s, "number")
      BY <2>1
    <3> HIDE DEF Read
    <3> QED BY <3>2, <3>3, <3>4
  <2> QED BY <2>2, <2>3
<1> QED BY <1>1, <1>2, <1>3, <1>4 DEF ReadSafely

(* A judge that hedges waves nothing through, in whatever order it hedges. *)
THEOREM JudgesAreSafe == MCSpec => []JudgesAreReadSafely
<1>1. MCInit => reply \in Reply \cup {<< >>}
  BY DEF MCInit
<1>2. reply \in Reply \cup {<< >>} /\ [MCNext]_evalsVars => (reply \in Reply \cup {<< >>})'
  BY DEF MCNext, Records, Evaluates, evalsVars
<1>3. reply \in Reply \cup {<< >>} => JudgesAreReadSafely
  <2>1. Reply \cup {<< >>} \subseteq Seq(Tokens)
    BY EvalAssumption, EmptySeq DEF Tokens
  <2> QED BY <2>1, RepliesAreReadSafely DEF JudgesAreReadSafely
<1> QED BY <1>1, <1>2, <1>3, PTL DEF MCSpec

-----------------------------------------------------------------------------
(***************************************************************************)
(* The pool of an evaluation: what its workers hold, what the slots hold,  *)
(* and that a case handed out is in one or the other.                      *)
(***************************************************************************)
Score == [value : Int, pass : BOOLEAN]
Actual == [input : Case, right : BOOLEAN]

Job ==
  {Free} \cup [at : {"begin", "subject"}, case : Case]
  \cup [at : {"scoring"}, case : Case, scores : Seq(Score), actual : Actual]

Result ==
  {NotRun} \cup [state : {"errored"}, scores : {<< >>}, err : {"context", "subject"}]
  \cup [state : {"passed", "failed"}, actual : Actual, scores : Seq(Score), err : {""}]

PoolTypes ==
  /\ minPass \in Thresholds /\ done \in BOOLEAN
  /\ queued \in 0 .. Len(ID) /\ late \subseteq 1 .. queued
  /\ does \in [Worker -> Job] /\ results \in [Case -> Result]

Busy(w) == does[w] # Free

(* A worker's case is its own, its slot is empty, and past the look at the *)
(* context it is none of the late.                                         *)
JobHolds(w) ==
  /\ does[w].case \in 1 .. queued /\ results[does[w].case] = NotRun
  /\ does[w].at # "begin" => does[w].case \notin late
  /\ does[w].at = "scoring" => Len(does[w].scores) <= Len(Scorers) /\ does[w].actual.input = does[w].case

Apart == \A v, w \in Worker : Busy(v) /\ Busy(w) /\ v # w => does[v].case # does[w].case

(* A slot that is filled tells of its case.                                *)
Filled(r, c) ==
  r.state \in {"passed", "failed"} =>
    /\ r.actual.input = c /\ Len(r.scores) = Len(Scorers)
    /\ r.state = "passed" => c \notin late /\ \A i \in DOMAIN r.scores : r.scores[i].pass

SlotHolds(c) ==
  /\ Filled(results[c], c)
  /\ queued < c => results[c] = NotRun
  /\ c <= queued /\ results[c] = NotRun => \E w \in Worker : Busy(w) /\ does[w].case = c

PoolInv ==
  /\ PoolTypes /\ Apart
  /\ \A w \in Worker : Busy(w) => JobHolds(w)
  /\ \A c \in Case : SlotHolds(c)
  /\ late # {} => done

EvalInv ==
  /\ PoolInv
  /\ report # NotRun => Told /\ \A w \in Worker : ~Busy(w)

-----------------------------------------------------------------------------
LEMMA ScoresAreTyped ==
  ASSUME NEW kind, NEW actual \in Actual
  PROVE  ScoresOf(kind, actual) \subseteq Score
<1>1. ASSUME NEW r \in Reply PROVE JudgeScore(r) \in Score
  <2>1. r \in Seq([form : STRING, n : Nat])
    BY EvalAssumption
  <2>2. DOMAIN r = 1 .. Len(r) /\ \A i \in DOMAIN r : r[i].n \in Nat
    <3>1. r \in Seq(Tokens) /\ \A x \in Tokens : x.n \in Nat
      BY <2>1 DEF Tokens
    <3>2. DOMAIN r = 1 .. Len(r) /\ \A i \in 1 .. Len(r) : r[i] \in Tokens
      BY <3>1, ElementOfSeq
    <3> QED BY <3>1, <3>2
  <2>3. \A form : Numbers(r, form) \subseteq Nat
    BY <2>2 DEF Numbers
  <2>4. \A n \in Nat : Clamped(n) \in Nat
    BY DEF Clamped
  <2>5. ParseScore(r) \in Int
    <3>1. CASE Len(r) = 1 /\ r[1].form = "number"
      <4>1. r[1].n \in Nat
        BY <2>2, <3>1
      <4> QED BY <2>4, <3>1, <4>1 DEF ParseScore
    <3>2. CASE ~(Len(r) = 1 /\ r[1].form = "number")
      <4> DEFINE said == IF Numbers(r, "outof") # {} THEN Numbers(r, "outof") ELSE Numbers(r, "number")
      <4>1. said \subseteq Nat
        BY <2>3 DEF said
      <4>2. ParseScore(r) = IF Cardinality(said) = 1 THEN Clamped(CHOOSE n \in said : TRUE) ELSE NoScore
        BY <3>2 DEF ParseScore
      <4> HIDE DEF said
      <4>3. CASE Cardinality(said) = 1
        <5>1. said # {}
          BY <4>3, FS_EmptySet
        <5>2. (CHOOSE n \in said : TRUE) \in Nat
          BY <4>1, <5>1
        <5> QED BY <2>4, <4>2, <4>3, <5>2
      <4>4. CASE Cardinality(said) # 1
        BY <4>2, <4>4 DEF NoScore
      <4> QED BY <4>3, <4>4
    <3> QED BY <3>1, <3>2
  <2>6. PassThreshold \in Nat
    BY EvalAssumption
  <2> DEFINE n == ParseScore(r)
  <2>7. JudgeScore(r) = IF n = NoScore THEN [value |-> 0, pass |-> FALSE]
                        ELSE [value |-> n, pass |-> n >= PassThreshold]
    BY DEF JudgeScore
  <2> HIDE DEF n
  <2> QED BY <2>5, <2>6, <2>7 DEF Score, n
<1>2. Compared(actual) \in Score
  BY DEF Compared, Score
<1>3. JudgeScores \subseteq Score
  BY <1>1 DEF JudgeScores
<1>4. [value |-> 0, pass |-> FALSE] \in Score
  BY DEF Score
<1> QED BY <1>2, <1>3, <1>4 DEF ScoresOf

(* A job by where it is.                                                   *)
LEMMA JobShapes ==
  ASSUME NEW j \in Job, j # Free
  PROVE  /\ j.case \in Case /\ j.at \in {"begin", "subject", "scoring"}
         /\ j.at \in {"begin", "subject"} => j = [at |-> j.at, case |-> j.case]
         /\ j.at = "scoring" =>
              /\ j \in [at : {"scoring"}, case : Case, scores : Seq(Score), actual : Actual]
              /\ j.scores \in Seq(Score) /\ j.actual \in Actual
BY DEF Job, Free

LEMMA FreeIsIdle == Free.at = "idle" /\ NotRun.state = "not run"
BY DEF Free, NotRun

LEMMA EvalStarts == EvalInit => EvalInv
<1> SUFFICES ASSUME EvalInit PROVE EvalInv
  OBVIOUS
<1>1. Len(ID) \in Nat /\ Case = 1 .. Len(ID)
  BY EvalAssumption DEF Case
<1>2. \A w \in Worker : ~Busy(w)
  BY DEF EvalInit, Busy
<1>3. \A c \in Case : results[c] = NotRun
  BY DEF EvalInit
<1>4. PoolTypes
  <2>1. Free \in Job /\ NotRun \in Result
    BY DEF Job, Result
  <2>2. does \in [Worker -> Job] /\ results \in [Case -> Result]
    BY <2>1 DEF EvalInit
  <2>3. minPass \in Thresholds /\ done = FALSE /\ queued = 0 /\ late = {}
    BY DEF EvalInit
  <2>4. queued \in 0 .. Len(ID)
    BY <1>1, <2>3
  <2> QED BY <2>2, <2>3, <2>4 DEF PoolTypes
<1>5. \A c \in Case : SlotHolds(c)
  <2>1. NotRun.state = "not run"
    BY DEF NotRun
  <2>2. \A c \in Case : Filled(results[c], c)
    BY <1>3, <2>1 DEF Filled
  <2>3. \A c \in Case : ~(c <= queued)
    BY <1>1 DEF EvalInit
  <2> QED BY <1>3, <2>2, <2>3 DEF SlotHolds
<1>6. report # NotRun => Told
  <2>1. ASSUME SetupError(minPass) PROVE Told
    <3>1. report = [state |-> "reported", exit |-> 2]
      BY <2>1 DEF EvalInit
    <3>2. report.exit = 2
      BY <3>1
    <3> QED BY <3>2 DEF Told
  <2> QED BY <2>1 DEF EvalInit
<1>7. Apart /\ late = {}
  BY <1>2 DEF Apart, EvalInit
<1> QED BY <1>2, <1>4, <1>5, <1>6, <1>7 DEF EvalInv, PoolInv

(* A worker goes on with its case.                                         *)
LEMMA JobGoesOn ==
  ASSUME PoolInv, NEW w \in Worker, Busy(w), NEW j \in Job, j # Free, j.case = does[w].case,
         does' = [does EXCEPT ![w] = j], UNCHANGED <<minPass, done, queued, results, late>>,
         j.at # "begin" => j.case \notin late,
         j.at = "scoring" => Len(j.scores) <= Len(Scorers) /\ j.actual.input = j.case
  PROVE  PoolInv'
<1>1. PoolTypes /\ Apart /\ JobHolds(w)
  BY DEF PoolInv
<1>2. does \in [Worker -> Job] /\ does'[w] = j /\ \A v \in Worker : v # w => does'[v] = does[v]
  BY <1>1 DEF PoolTypes
<1>3. PoolTypes'
  BY <1>1, <1>2 DEF PoolTypes
<1>4. \A v \in Worker : Busy(v)' = Busy(v) /\ does'[v].case = does[v].case
  BY <1>2 DEF Busy
<1>5. ASSUME NEW v \in Worker, Busy(v)' PROVE JobHolds(v)'
  <2>1. CASE v = w
    <3>1. does'[v] = j
      BY <1>2, <2>1
    <3>2. j.case \in 1 .. queued' /\ results'[j.case] = NotRun
      BY <1>1 DEF JobHolds
    <3> QED BY <3>1, <3>2 DEF JobHolds
  <2>2. CASE v # w
    <3>1. does'[v] = does[v] /\ JobHolds(v)
      BY <1>2, <1>4, <1>5, <2>2 DEF PoolInv
    <3> QED BY <3>1 DEF JobHolds
  <2> QED BY <2>1, <2>2
<1>6. Apart'
  BY <1>1, <1>4 DEF Apart
<1>7. ASSUME NEW c \in Case PROVE SlotHolds(c)'
  <2>1. SlotHolds(c)
    BY DEF PoolInv
  <2>2. Filled(results[c], c)'
    BY <2>1 DEF SlotHolds, Filled
  <2>3. c <= queued /\ results[c] = NotRun => \E v \in Worker : Busy(v)' /\ does'[v].case = c
    BY <1>4, <2>1 DEF SlotHolds
  <2>4. queued < c => results[c] = NotRun
    BY <2>1 DEF SlotHolds
  <2> QED BY <2>2, <2>3, <2>4 DEF SlotHolds
<1>8. late' # {} => done'
  BY DEF PoolInv
<1> QED BY <1>3, <1>5, <1>6, <1>7, <1>8 DEF PoolInv

(* A worker fills the slot of its case.                                    *)
LEMMA JobEnds ==
  ASSUME PoolInv, NEW w \in Worker, Busy(w), NEW r \in Result, r # NotRun, Filled(r, does[w].case),
         Reports(w, r), UNCHANGED <<minPass, done, queued, late>>
  PROVE  PoolInv'
<1> DEFINE case == does[w].case
<1>1. PoolTypes /\ Apart /\ JobHolds(w)
  BY DEF PoolInv
<1>2. does \in [Worker -> Job] /\ ~Busy(w)' /\ \A v \in Worker : v # w => does'[v] = does[v]
  BY <1>1 DEF PoolTypes, Reports, Busy
<1>3. case \in Case
  BY <1>1, JobShapes DEF PoolTypes, Busy
<1>4. results'[case] = r /\ \A c \in Case : c # case => results'[c] = results[c]
  BY <1>1, <1>3 DEF PoolTypes, Reports
<1>5. PoolTypes'
  <2>1. does' \in [Worker -> Job]
    BY <1>1 DEF PoolTypes, Reports, Job
  <2>2. results' \in [Case -> Result]
    BY <1>1, <1>3 DEF PoolTypes, Reports
  <2> QED BY <1>1, <2>1, <2>2 DEF PoolTypes
<1>6. \A v \in Worker : Busy(v)' => v # w /\ Busy(v) /\ does'[v] = does[v] /\ does[v].case # case
  <2> TAKE v \in Worker
  <2>1. v # w => Busy(v)' = Busy(v) /\ does'[v] = does[v]
    BY <1>2 DEF Busy
  <2>2. v # w /\ Busy(v) => does[v].case # case
    BY <1>1 DEF Apart
  <2> QED BY <1>2, <2>1, <2>2
<1>7. ASSUME NEW v \in Worker, Busy(v)' PROVE JobHolds(v)'
  <2>1. JobHolds(v) /\ does'[v] = does[v] /\ does[v].case # case
    BY <1>6, <1>7 DEF PoolInv
  <2>2. does[v].case \in Case
    BY <1>1, <1>6, <1>7, JobShapes DEF PoolTypes, Busy
  <2>3. results'[does[v].case] = NotRun
    BY <1>4, <2>1, <2>2 DEF JobHolds
  <2> HIDE DEF case
  <2> QED BY <2>1, <2>3 DEF JobHolds
<1>8. Apart'
  BY <1>1, <1>6 DEF Apart
<1>9. ASSUME NEW c \in Case PROVE SlotHolds(c)'
  <2>1. SlotHolds(c)
    BY DEF PoolInv
  <2>2. CASE c = case
    <3>1. ~(queued < case)
      BY <1>1 DEF JobHolds, PoolTypes
    <3>2. Filled(r, c)'
      BY <2>2 DEF Filled
    <3> HIDE DEF case
    <3> QED BY <1>4, <2>2, <3>1, <3>2 DEF SlotHolds
  <2>3. CASE c # case
    <3>1. results'[c] = results[c]
      BY <1>4, <2>3
    <3>2. Filled(results[c], c)'
      BY <2>1, <3>1 DEF SlotHolds, Filled
    <3>3. ASSUME c <= queued, results[c] = NotRun
          PROVE \E v \in Worker : Busy(v)' /\ does'[v].case = c
      <4>1. PICK v \in Worker : Busy(v) /\ does[v].case = c
        BY <2>1, <3>3 DEF SlotHolds
      <4>2. v # w
        BY <2>3, <4>1
      <4>3. does'[v] = does[v]
        BY <1>2, <4>2
      <4> QED BY <4>1, <4>3 DEF Busy
    <3>4. queued < c => results[c] = NotRun
      BY <2>1 DEF SlotHolds
    <3> QED BY <3>1, <3>2, <3>3, <3>4 DEF SlotHolds
  <2> QED BY <2>2, <2>3
<1>10. late' # {} => done'
  BY DEF PoolInv
<1> QED BY <1>5, <1>7, <1>8, <1>9, <1>10 DEF PoolInv

-----------------------------------------------------------------------------
LEMMA HandOutKeeps ==
  ASSUME EvalInv, NEW w \in Worker, HandOut(w)
  PROVE  PoolInv'
<1> DEFINE n == queued + 1
           j == [at |-> "begin", case |-> n]
<1>0. NotRun.state = "not run"
  BY DEF NotRun
<1>1. PoolInv /\ PoolTypes /\ Apart /\ ~Busy(w)
  BY DEF EvalInv, PoolInv, HandOut, Busy
<1>2. Len(ID) \in Nat /\ Case = 1 .. Len(ID)
  BY EvalAssumption DEF Case
<1>3. Cardinality(Case) = Len(ID)
  <2>1. \A m \in Nat : Cardinality(1 .. m) = m
    BY FS_Interval
  <2> QED BY <1>2, <2>1
<1>4. queued \in Nat /\ queued < Len(ID)
  BY <1>1, <1>2, <1>3 DEF PoolTypes, HandOut
<1>5. n \in Case /\ queued' = n /\ n \in 1 .. n /\ results' = results /\ done' = done
  BY <1>2, <1>4 DEF HandOut
<1>6. j \in Job /\ j # Free /\ j.case = n /\ j.at = "begin"
  BY <1>5 DEF Job, Free
<1>7. does'[w] = j /\ \A v \in Worker : v # w => does'[v] = does[v]
  BY <1>1 DEF PoolTypes, HandOut
<1>8. late' \subseteq 1 .. queued' /\ late \subseteq late' /\ late' \subseteq late \cup {n}
  BY <1>1, <1>4, <1>5 DEF PoolTypes, HandOut
<1>9. PoolTypes'
  <2>1. does' \in [Worker -> Job]
    BY <1>1, <1>6 DEF PoolTypes, HandOut
  <2>2. queued' \in 0 .. Len(ID)
    BY <1>4, <1>5, <1>2
  <2> QED BY <1>1, <1>8, <2>1, <2>2 DEF PoolTypes, HandOut
<1>10. \A v \in Worker : v # w /\ Busy(v)' => Busy(v) /\ does'[v] = does[v] /\ does[v].case # n
  <2> TAKE v \in Worker
  <2>1. v # w => Busy(v)' = Busy(v) /\ does'[v] = does[v]
    BY <1>7 DEF Busy
  <2>2. Busy(v) => does[v].case \in 1 .. queued
    BY <1>1 DEF PoolInv, JobHolds
  <2>3. n \notin 1 .. queued
    BY <1>4
  <2> QED BY <2>1, <2>2, <2>3
<1>11. results[n] = NotRun
  <2>1. queued < n
    BY <1>4
  <2> QED BY <1>1, <1>5, <2>1 DEF PoolInv, SlotHolds
<1> HIDE DEF j
<1>12. ASSUME NEW v \in Worker, Busy(v)' PROVE JobHolds(v)'
  <2>1. CASE v = w
    BY <1>5, <1>6, <1>7, <1>11, <2>1 DEF JobHolds
  <2>2. CASE v # w
    <3>1. does'[v] = does[v] /\ JobHolds(v) /\ does[v].case # n
      BY <1>1, <1>10, <1>12, <2>2 DEF PoolInv
    <3>2. does[v].case \in 1 .. queued'
      BY <1>4, <1>5, <3>1 DEF JobHolds
    <3>3. does[v].case \notin late => does[v].case \notin late'
      BY <1>8, <3>1
    <3> HIDE DEF n
    <3> QED BY <1>5, <3>1, <3>2, <3>3 DEF JobHolds
  <2> QED BY <2>1, <2>2
<1>13. Apart'
  <2>1. Busy(w)' /\ does'[w].case = n
    BY <1>6, <1>7 DEF Busy
  <2> HIDE DEF n
  <2>2. ASSUME NEW u \in Worker, NEW v \in Worker, Busy(u)', Busy(v)', u # v
        PROVE  does'[u].case # does'[v].case
    <3>1. CASE u = w
      <4>1. does'[v].case # n
        BY <1>10, <2>2, <3>1
      <4> QED BY <2>1, <3>1, <4>1
    <3>2. CASE v = w
      <4>1. does'[u].case # n
        BY <1>10, <2>2, <3>2
      <4> QED BY <2>1, <3>2, <4>1
    <3>3. CASE u # w /\ v # w
      BY <1>1, <1>10, <2>2, <3>3 DEF Apart
    <3> QED BY <3>1, <3>2, <3>3
  <2> QED BY <2>2 DEF Apart
<1>14. ASSUME NEW c \in Case PROVE SlotHolds(c)'
  <2>1. SlotHolds(c)
    BY <1>1 DEF PoolInv
  <2>2. c \in Nat
    BY <1>2
  <2>3. Filled(results[c], c)'
    <3>1. CASE c = n
      <4>1. results'[c] = NotRun
        BY <1>5, <1>11, <3>1
      <4>2. results'[c].state = "not run"
        BY <1>0, <4>1
      <4> QED BY <4>2 DEF Filled
    <3>2. CASE c # n
      <4>1. c \notin late => c \notin late'
        BY <1>8, <3>2
      <4> QED BY <1>5, <2>1, <4>1 DEF SlotHolds, Filled
    <3> QED BY <3>1, <3>2
  <2>4. queued' < c => results'[c] = NotRun
    BY <1>4, <1>5, <2>1, <2>2 DEF SlotHolds
  <2>5. ASSUME c <= queued', results'[c] = NotRun
        PROVE  \E v \in Worker : Busy(v)' /\ does'[v].case = c
    <3>1. CASE c = n
      <4>1. Busy(w)' /\ does'[w].case = n
        BY <1>6, <1>7 DEF Busy
      <4> HIDE DEF n
      <4> QED BY <3>1, <4>1
    <3>2. CASE c # n
      <4>1. c <= queued
        BY <1>4, <1>5, <2>2, <2>5, <3>2
      <4>2. PICK v \in Worker : Busy(v) /\ does[v].case = c
        BY <1>5, <2>1, <2>5, <4>1 DEF SlotHolds
      <4>3. v # w
        BY <1>1, <4>2
      <4>4. does'[v] = does[v]
        BY <1>7, <4>3
      <4> QED BY <4>2, <4>4 DEF Busy
    <3> QED BY <3>1, <3>2
  <2> QED BY <2>3, <2>4, <2>5 DEF SlotHolds
<1>15. late' # {} => done'
  BY <1>1 DEF PoolInv, HandOut
<1> QED BY <1>9, <1>12, <1>13, <1>14, <1>15 DEF PoolInv

LEMMA CancelKeeps ==
  ASSUME PoolInv, done' \in BOOLEAN, done => done', UNCHANGED <<minPass, queued, does, results, late>>
  PROVE  PoolInv'
<1>1. PoolTypes' /\ Apart' /\ (late' # {} => done')
  BY DEF PoolInv, PoolTypes, Apart, Busy
<1>2. ASSUME NEW w \in Worker, Busy(w)' PROVE JobHolds(w)'
  <2>1. JobHolds(w)
    BY <1>2 DEF PoolInv, Busy
  <2> QED BY <2>1 DEF JobHolds
<1>3. ASSUME NEW c \in Case PROVE SlotHolds(c)'
  <2>1. SlotHolds(c)
    BY DEF PoolInv
  <2>2. \A w \in Worker : Busy(w)' = Busy(w)
    BY DEF Busy
  <2> QED BY <2>1, <2>2 DEF SlotHolds, Filled
<1> QED BY <1>1, <1>2, <1>3 DEF PoolInv

-----------------------------------------------------------------------------
(* The report has each case once, in the order of the ids.                 *)
UpTo(c) == {d \in Case : Precedes(d, c)}
Rank(c) == Cardinality(UpTo(c))

LEMMA RanksAreCases ==
  /\ Len(ID) \in Nat /\ Case = 1 .. Len(ID) /\ IsFiniteSet(Case) /\ Cardinality(Case) = Len(ID)
  /\ \A c \in Case : Rank(c) \in Case
  /\ \A c, d \in Case : c # d /\ Precedes(c, d) => Rank(c) < Rank(d)
  /\ \A c, d \in Case : Precedes(c, d) \/ Precedes(d, c)
  /\ \A k \in Case : \E c \in Case : Rank(c) = k
<1>1. Len(ID) \in Nat /\ Case = 1 .. Len(ID) /\ \A c \in Case : ID[c] \in Int
  BY EvalAssumption DEF Case
<1>2. IsFiniteSet(Case) /\ Cardinality(Case) = Len(ID)
  <2>1. \A m \in Nat : IsFiniteSet(1 .. m) /\ Cardinality(1 .. m) = m
    BY FS_Interval
  <2> QED BY <1>1, <2>1
<1>3. ASSUME NEW c \in Case
      PROVE  IsFiniteSet(UpTo(c)) /\ UpTo(c) \subseteq Case /\ c \in UpTo(c) /\ Rank(c) \in Case
  <2>1. UpTo(c) \subseteq Case /\ c \in UpTo(c)
    BY <1>1 DEF UpTo, Precedes
  <2>2. IsFiniteSet(UpTo(c)) /\ Rank(c) <= Cardinality(Case) /\ Rank(c) \in Nat
    BY <1>2, <2>1, FS_Subset, FS_CardinalityType DEF Rank
  <2>3. Rank(c) # 0
    BY <2>1, <2>2, FS_EmptySet DEF Rank
  <2> QED BY <1>1, <1>2, <2>1, <2>2, <2>3
<1>4. ASSUME NEW c \in Case, NEW d \in Case, c # d, Precedes(c, d)
      PROVE  Rank(c) < Rank(d)
  <2>1. UpTo(c) \subseteq UpTo(d)
    <3>1. ASSUME NEW e \in Case, Precedes(e, c) PROVE Precedes(e, d)
      <4>1. ID[c] \in Int /\ ID[d] \in Int /\ ID[e] \in Int /\ c \in Int /\ d \in Int /\ e \in Int
        BY <1>1
      <4> QED BY <1>4, <3>1, <4>1 DEF Precedes
    <3> QED BY <3>1 DEF UpTo
  <2>2. d \in UpTo(d) /\ d \notin UpTo(c)
    <3>1. ID[c] \in Int /\ ID[d] \in Int /\ c \in Int /\ d \in Int
      BY <1>1
    <3> QED BY <1>3, <1>4, <3>1 DEF UpTo, Precedes
  <2>3. Rank(c) <= Rank(d) /\ Rank(c) # Rank(d)
    BY <1>3, <2>1, <2>2, FS_Subset DEF Rank
  <2>4. Rank(c) \in Int /\ Rank(d) \in Int
    BY <1>1, <1>3
  <2> QED BY <2>3, <2>4
<1>5. \A c, d \in Case : Precedes(c, d) \/ Precedes(d, c)
  BY <1>1 DEF Precedes
<1>6. \A k \in Case : \E c \in Case : Rank(c) = k
  <2> DEFINE r == [c \in Case |-> Rank(c)]
  <2>1. r \in [Case -> Case]
    BY <1>3
  <2>2. \A c, d \in Case : r[c] = r[d] => c = d
    <3> SUFFICES ASSUME NEW c \in Case, NEW d \in Case, c # d PROVE Rank(c) # Rank(d)
      OBVIOUS
    <3>1. Rank(c) < Rank(d) \/ Rank(d) < Rank(c)
      BY <1>4, <1>5
    <3>2. Rank(c) \in Int /\ Rank(d) \in Int
      BY <1>1, <1>3
    <3> QED BY <3>1, <3>2
  <2>3. r \in Injection(Case, Case)
    BY <2>1, <2>2 DEF Injection, IsInjective
  <2>4. r \in Surjection(Case, Case)
    <3> HIDE DEF r
    <3> QED BY <1>2, <2>3, FS_Injection
  <2> QED BY <2>4 DEF Surjection
<1> QED BY <1>1, <1>2, <1>3, <1>4, <1>5, <1>6

LEMMA ByIdIs ==
  ASSUME NEW rs, DOMAIN rs = Case
  PROVE  LET cases == ById(rs) IN
         /\ DOMAIN cases = Case /\ Len(cases) = Cardinality(Case)
         /\ \A i \in Case : /\ cases[i].case \in Case /\ cases[i].id = ID[cases[i].case]
                            /\ cases[i].result = rs[cases[i].case]
         /\ {cases[i].case : i \in Case} = Case
         /\ \A i, j \in Case : i < j => cases[i].id <= cases[j].id
<1> DEFINE nth(k) == CHOOSE c \in Case : Rank(c) = k
           row(k) == [id |-> ID[nth(k)], case |-> nth(k), result |-> rs[nth(k)]]
           cases == ById(rs)
<1>1. cases = [k \in Case |-> row(k)]
  BY DEF ById, Rank, UpTo
<1>2. \A k \in Case : nth(k) \in Case /\ Rank(nth(k)) = k
  BY RanksAreCases
<1> HIDE DEF nth
<1>3. \A k \in Case : row(k).id = ID[nth(k)] /\ row(k).case = nth(k) /\ row(k).result = rs[nth(k)]
  OBVIOUS
<1> HIDE DEF row, cases
<1>4. DOMAIN cases = Case /\ \A k \in Case : cases[k] = row(k)
  BY <1>1
<1>5. Len(cases) = Cardinality(Case)
  <2> DEFINE Rows == {row(k) : k \in Case}
  <2>1. cases \in [Case -> Rows]
    BY <1>1
  <2> HIDE DEF Rows
  <2>2. cases \in Seq(Rows)
    BY <2>1, RanksAreCases, SeqDef
  <2>3. DOMAIN cases = 1 .. Len(cases) /\ Len(cases) \in Nat
    BY <2>2, LenProperties
  <2>4. \A m, n \in Nat : 1 .. m = 1 .. n => m = n
    <3>1. \A m \in Nat : Cardinality(1 .. m) = m
      BY FS_Interval
    <3> QED BY <3>1
  <2> QED BY <1>4, <2>3, <2>4, RanksAreCases
<1>6. ASSUME NEW c \in Case PROVE \E k \in Case : nth(k) = c
  <2>1. Rank(c) \in Case
    BY RanksAreCases
  <2>2. nth(Rank(c)) \in Case /\ Rank(nth(Rank(c))) = Rank(c)
    BY <1>2, <2>1
  <2>3. \A d \in Case : Rank(d) = Rank(c) => d = c
    <3> SUFFICES ASSUME NEW d \in Case, d # c PROVE Rank(d) # Rank(c)
      OBVIOUS
    <3>1. Rank(c) < Rank(d) \/ Rank(d) < Rank(c)
      BY RanksAreCases
    <3>2. Rank(c) \in Int /\ Rank(d) \in Int
      BY RanksAreCases
    <3> QED BY <3>1, <3>2
  <2> QED BY <2>1, <2>2, <2>3
<1>7. {cases[i].case : i \in Case} = Case
  BY <1>2, <1>3, <1>4, <1>6
<1>8. ASSUME NEW i \in Case, NEW j \in Case, i < j PROVE cases[i].id <= cases[j].id
  <2>1. nth(i) \in Case /\ nth(j) \in Case /\ Rank(nth(i)) = i /\ Rank(nth(j)) = j
    BY <1>2
  <2>2. i \in Int /\ j \in Int
    BY RanksAreCases
  <2>3. ASSUME NEW c \in Case, NEW d \in Case, Rank(c) < Rank(d) PROVE Precedes(c, d)
    <3>1. Rank(c) \in Int /\ Rank(d) \in Int
      BY RanksAreCases
    <3>2. c # d /\ ~(Rank(d) < Rank(c))
      BY <2>3, <3>1
    <3> QED BY <3>2, RanksAreCases
  <2>4. Precedes(nth(i), nth(j))
    BY <1>8, <2>1, <2>3
  <2>5. ID[nth(i)] \in Int /\ ID[nth(j)] \in Int
    BY <2>1, EvalAssumption DEF Case
  <2>6. ID[nth(i)] <= ID[nth(j)]
    BY <2>4, <2>5 DEF Precedes
  <2> QED BY <1>3, <1>4, <2>6
<1>9. \A i \in Case : /\ cases[i].case \in Case /\ cases[i].id = ID[cases[i].case]
                       /\ cases[i].result = rs[cases[i].case]
  <2> TAKE i \in Case
  <2>1. cases[i].case = nth(i) /\ cases[i].id = ID[nth(i)] /\ cases[i].result = rs[nth(i)]
    BY <1>3, <1>4
  <2> QED BY <1>2, <2>1
<1> QED BY <1>4, <1>5, <1>7, <1>8, <1>9 DEF cases

-----------------------------------------------------------------------------
(* A case that was worked on: its state, and its scores.                   *)
LEMMA FilledShapes ==
  ASSUME NEW r \in Result, r # NotRun
  PROVE  /\ r.state \in {"errored", "passed", "failed"}
         /\ r.state = "errored" => r.scores = << >>
         /\ r.state # "errored" => r.scores \in Seq(Score)
BY DEF Result

LEMMA Counted ==
  ASSUME NEW A, NEW B, IsFiniteSet(A), IsFiniteSet(B), A \cap B = {}
  PROVE  /\ IsFiniteSet(A \cup B) /\ Cardinality(A) \in Nat /\ Cardinality(B) \in Nat
         /\ Cardinality(A \cup B) = Cardinality(A) + Cardinality(B)
<1>1. IsFiniteSet(A \cup B) /\ Cardinality(A \cup B) = Cardinality(A) + Cardinality(B) - Cardinality(A \cap B)
  BY FS_Union
<1>2. Cardinality(A \cap B) = 0
  BY FS_EmptySet
<1>3. Cardinality(A) \in Nat /\ Cardinality(B) \in Nat
  BY FS_CardinalityType
<1> QED BY <1>1, <1>2, <1>3

LEMMA TallyTells ==
  ASSUME EvalInv, Tally
  PROVE  Told'
<1> DEFINE N == Cardinality(Case)
           With(state) == {c \in Case : results[c].state = state}
           cases == ById(results)
           passed == Cardinality(With("passed"))
           failed == Cardinality(With("failed"))
           errored == Cardinality(With("errored"))
<1>1. PoolInv /\ PoolTypes /\ queued = N /\ \A w \in Worker : ~Busy(w)
  BY DEF EvalInv, PoolInv, Tally, Busy
<1>2. N \in Nat /\ N = Len(ID) /\ Case = 1 .. N /\ IsFiniteSet(Case)
  BY RanksAreCases
<1>3. DOMAIN results = Case /\ \A c \in Case : results[c] \in Result
  BY <1>1 DEF PoolTypes
<1>4. ASSUME NEW c \in Case
      PROVE  /\ results[c] # NotRun /\ Filled(results[c], c)
             /\ results[c].state \in {"errored", "passed", "failed"}
             /\ results[c].state = "errored" => results[c].scores = << >>
             /\ results[c].state # "errored" =>
                  results[c].scores \in Seq(Score) /\ Len(results[c].scores) = Len(Scorers)
  <2>1. SlotHolds(c)
    BY <1>1 DEF PoolInv
  <2>2. results[c] # NotRun
    BY <1>1, <1>2, <2>1 DEF SlotHolds
  <2>3. Filled(results[c], c)
    BY <2>1 DEF SlotHolds
  <2>4. /\ results[c].state \in {"errored", "passed", "failed"}
        /\ results[c].state = "errored" => results[c].scores = << >>
        /\ results[c].state # "errored" => results[c].scores \in Seq(Score)
    BY <1>3, <2>2, FilledShapes
  <2>5. results[c].state # "errored" => Len(results[c].scores) = Len(Scorers)
    BY <2>3, <2>4 DEF Filled
  <2> QED BY <2>2, <2>3, <2>4, <2>5
<1>5. /\ report'.cases = cases
      /\ report'.passed = passed /\ report'.failed = failed /\ report'.errored = errored
      /\ report'.aggregates = [i \in DOMAIN Scorers |-> Aggregate(results, i)]
      /\ report'.exit = ExitCode(passed, N)
      /\ late' = late /\ minPass' = minPass
  BY <1>3 DEF Tally, Count
<1>6. /\ DOMAIN cases = Case /\ Len(cases) = N
      /\ \A i \in Case : cases[i].case \in Case /\ cases[i].result = results[cases[i].case]
      /\ {cases[i].case : i \in Case} = Case
      /\ \A i, j \in Case : i < j => cases[i].id <= cases[j].id
  BY <1>3, ByIdIs
<1> HIDE DEF cases, N
<1>7. \A i \in 2 .. N : cases[i - 1].id <= cases[i].id
  <2> TAKE i \in 2 .. N
  <2>1. i - 1 \in Case /\ i \in Case /\ i - 1 < i
    BY <1>2
  <2> QED BY <1>6, <2>1
<1>8. /\ passed \in Nat /\ failed \in Nat /\ errored \in Nat
      /\ Cardinality(With("passed") \cup With("failed")) = passed + failed
      /\ passed + failed + errored = N
  <2>1. \A s : IsFiniteSet(With(s))
    <3> TAKE s
    <3>1. With(s) \in SUBSET Case
      OBVIOUS
    <3> HIDE DEF With
    <3> QED BY <1>2, <3>1, FS_Subset
  <2>2. With("passed") \cap With("failed") = {} /\ (With("passed") \cup With("failed")) \cap With("errored") = {}
    OBVIOUS
  <2>3. (With("passed") \cup With("failed")) \cup With("errored") = Case
    BY <1>4
  <2> HIDE DEF With
  <2>4. IsFiniteSet(With("passed")) /\ IsFiniteSet(With("failed")) /\ IsFiniteSet(With("errored"))
    BY <2>1
  <2>5. /\ passed \in Nat /\ failed \in Nat /\ IsFiniteSet(With("passed") \cup With("failed"))
        /\ Cardinality(With("passed") \cup With("failed")) = passed + failed
    BY <2>2, <2>4, Counted
  <2>6. errored \in Nat /\ Cardinality(Case) = Cardinality(With("passed") \cup With("failed")) + errored
    BY <2>2, <2>3, <2>4, <2>5, Counted
  <2> QED BY <2>5, <2>6 DEF N
<1>9. ASSUME NEW j \in DOMAIN Scorers
      PROVE  report'.aggregates[j].pass + report'.aggregates[j].fail = passed + failed
  <2> DEFINE marked == {c \in Scored(results, j) : results[c].scores[j].pass}
             missed == {c \in Scored(results, j) : ~results[c].scores[j].pass}
  <2>1. Len(Scorers) \in Nat /\ Len(Scorers) # 0
    BY EvalAssumption
  <2>2. Scored(results, j) = With("passed") \cup With("failed")
    <3>1. ASSUME NEW c \in Case
          PROVE  results[c].scores # << >> <=> results[c].state \in {"passed", "failed"}
      <4>1. CASE results[c].state = "errored"
        BY <1>4, <4>1
      <4>2. CASE results[c].state # "errored"
        <5>1. Len(results[c].scores) # 0
          BY <1>4, <2>1, <4>2
        <5>2. results[c].scores # << >>
          BY <5>1
        <5> QED BY <1>4, <4>2, <5>2
      <4> QED BY <4>1, <4>2
    <3> QED BY <1>3, <3>1 DEF Scored
  <2>3. marked \cap missed = {} /\ marked \cup missed = Scored(results, j)
    OBVIOUS
  <2>4. IsFiniteSet(marked) /\ IsFiniteSet(missed)
    <3>1. Scored(results, j) \subseteq Case
      BY <1>3 DEF Scored
    <3>2. marked \in SUBSET Case /\ missed \in SUBSET Case
      BY <3>1
    <3> HIDE DEF marked, missed
    <3> QED BY <1>2, <3>2, FS_Subset
  <2>5. report'.aggregates[j].pass = Cardinality(marked) /\ report'.aggregates[j].fail = Cardinality(missed)
    <3>1. report'.aggregates[j] = Aggregate(results, j)
      BY <1>5
    <3> QED BY <3>1 DEF Aggregate
  <2> HIDE DEF marked, missed, With
  <2>6. Cardinality(marked) + Cardinality(missed) = Cardinality(Scored(results, j))
    BY <2>3, <2>4, Counted
  <2> QED BY <1>8, <2>2, <2>5, <2>6
<1>10. ASSUME NEW i \in Case
       PROVE  LET r == cases[i].result IN
              /\ r.state # "errored" => r.actual.input = cases[i].case
              /\ r.state = "passed" =>
                   /\ Len(r.scores) = Len(Scorers) /\ \A j \in DOMAIN r.scores : r.scores[j].pass
                   /\ cases[i].case \notin late
  <2> DEFINE c == cases[i].case
  <2>1. c \in Case /\ cases[i].result = results[c]
    BY <1>6
  <2> HIDE DEF c
  <2>2. Filled(results[c], c) /\ results[c].state \in {"errored", "passed", "failed"}
    BY <1>4, <2>1
  <2> QED BY <2>1, <2>2 DEF Filled, c
<1> HIDE DEF passed, failed, errored
<1>11. ExitCode(passed, N) = 0 =>
         IF minPass = Unset THEN passed = N ELSE passed * 100 >= minPass * N
  <2>1. SUFFICES ASSUME ExitCode(passed, N) = 0
                 PROVE  IF minPass = Unset THEN passed = N ELSE passed * 100 >= minPass * N
    OBVIOUS
  <2>2. passed * 100 >= N * (IF minPass = Unset THEN 100 ELSE minPass)
    BY <2>1 DEF ExitCode
  <2>3. CASE minPass = Unset
    <3>1. passed * 100 >= N * 100
      BY <2>2, <2>3
    <3> QED BY <1>2, <1>8, <2>3, <3>1
  <2>4. CASE minPass # Unset
    <3>1. minPass \in Int
      BY <1>1, <2>4, EvalAssumption DEF PoolTypes
    <3>2. passed * 100 >= N * minPass
      BY <2>2, <2>4
    <3>3. \A m \in Int, n \in Nat : n * m = m * n
      OBVIOUS
    <3> QED BY <1>2, <2>4, <3>1, <3>2, <3>3
  <2> QED BY <2>3, <2>4
<1> QED
  <2>1. report'.exit # 2 =>
         /\ {report'.cases[i].case : i \in DOMAIN report'.cases} = Case /\ Len(report'.cases) = N
         /\ \A i \in 2 .. N : report'.cases[i - 1].id <= report'.cases[i].id
         /\ report'.passed + report'.failed + report'.errored = N
    BY <1>5, <1>6, <1>7, <1>8
  <2>2. \A j \in DOMAIN Scorers :
          report'.aggregates[j].pass + report'.aggregates[j].fail = report'.passed + report'.failed
    BY <1>5, <1>9
  <2>3. report'.exit = 0 =>
          IF minPass' = Unset THEN report'.passed = N ELSE report'.passed * 100 >= minPass' * N
    BY <1>5, <1>11
  <2>4. \A i \in DOMAIN report'.cases :
          LET r == report'.cases[i].result IN
          /\ r.state # "errored" => r.actual.input = report'.cases[i].case
          /\ r.state = "passed" =>
               /\ Len(r.scores) = Len(Scorers) /\ \A j \in DOMAIN r.scores : r.scores[j].pass
               /\ report'.cases[i].case \notin late'
    BY <1>5, <1>6, <1>10
  <2> QED BY <2>1, <2>2, <2>3, <2>4 DEF Told, N

-----------------------------------------------------------------------------
(* evalOne begins: the context is looked at.                               *)
LEMMA EvalOneKeeps ==
  ASSUME EvalInv, NEW w \in Worker, EvalOne(w)
  PROVE  PoolInv'
<1>1. PoolInv /\ PoolTypes /\ does[w] \in Job
  BY DEF EvalInv, PoolInv, PoolTypes
<1>2. Busy(w) /\ does[w].at = "begin"
  BY FreeIsIdle DEF EvalOne, Busy
<1>3. JobHolds(w) /\ does[w].case \in Case /\ does[w] = [at |-> "begin", case |-> does[w].case]
  BY <1>1, <1>2, JobShapes DEF PoolInv, Busy
<1>4. CASE done
  <2> DEFINE r == Errored("context")
  <2>1. Reports(w, r) /\ UNCHANGED <<minPass, done, queued, late>>
    BY <1>4 DEF EvalOne
  <2>2. r \in Result /\ r.state = "errored"
    BY DEF Errored, Result
  <2>3. r # NotRun /\ Filled(r, does[w].case)
    BY <2>2, FreeIsIdle DEF Filled
  <2> HIDE DEF r
  <2> QED BY <1>1, <1>2, <2>1, <2>2, <2>3, JobEnds
<1>5. CASE ~done
  <2> DEFINE j == [at |-> "subject", case |-> does[w].case]
  <2>1. j \in Job /\ j.case = does[w].case /\ j.at = "subject"
    BY <1>3 DEF Job
  <2>2. j # Free
    BY <2>1, FreeIsIdle
  <2>3. does' = [does EXCEPT ![w] = j] /\ UNCHANGED <<minPass, done, queued, results, late>>
    <3>1. does' = [does EXCEPT ![w].at = "subject"] /\ UNCHANGED <<minPass, done, queued, results, late>>
      BY <1>5 DEF EvalOne
    <3>2. [does[w] EXCEPT !.at = "subject"] = j
      BY <1>3
    <3> HIDE DEF j
    <3> QED BY <3>1, <3>2
  <2>4. does[w].case \notin late
    BY <1>1, <1>5 DEF PoolInv
  <2> HIDE DEF j
  <2> QED BY <1>1, <1>2, <2>1, <2>2, <2>3, <2>4, JobGoesOn
<1> QED BY <1>4, <1>5

LEMMA CallSubjectKeeps ==
  ASSUME EvalInv, NEW w \in Worker, CallSubject(w)
  PROVE  PoolInv'
<1>1. PoolInv /\ PoolTypes /\ does[w] \in Job
  BY DEF EvalInv, PoolInv, PoolTypes
<1>2. Busy(w) /\ does[w].at = "subject"
  BY FreeIsIdle DEF CallSubject, Busy
<1>3. JobHolds(w) /\ does[w].case \in Case /\ UNCHANGED <<minPass, done, queued, late>>
  BY <1>1, <1>2, JobShapes DEF PoolInv, Busy, CallSubject
<1>4. ASSUME NEW right \in BOOLEAN, UNCHANGED results,
             does' = [does EXCEPT ![w] = [at |-> "scoring", case |-> @.case, scores |-> << >>,
                                          actual |-> [input |-> @.case, right |-> right]]]
      PROVE  PoolInv'
  <2> DEFINE a == [input |-> does[w].case, right |-> right]
             j == [at |-> "scoring", case |-> does[w].case, scores |-> << >>, actual |-> a]
  <2>1. does' = [does EXCEPT ![w] = j]
    BY <1>1, <1>4 DEF PoolTypes
  <2>2. a \in Actual /\ a.input = does[w].case
    BY <1>3 DEF Actual
  <2> HIDE DEF a
  <2>3. /\ j \in Job /\ j.case = does[w].case /\ j.at = "scoring" /\ j.actual = a
        /\ j.scores = << >>
    <3>1. << >> \in Seq(Score)
      OBVIOUS
    <3> QED BY <1>3, <2>2, <3>1 DEF Job
  <2>4. j # Free
    BY <2>3, FreeIsIdle
  <2>5. does[w].case \notin late
    BY <1>2, <1>3 DEF JobHolds
  <2>6. Len(j.scores) <= Len(Scorers)
    <3>1. Len(Scorers) \in Nat /\ Len(j.scores) = 0
      BY <2>3, EvalAssumption
    <3> QED BY <3>1
  <2> HIDE DEF j
  <2>7. /\ j.actual.input = j.case /\ j.case \notin late
        /\ UNCHANGED <<minPass, done, queued, results, late>>
    BY <1>3, <1>4, <2>2, <2>3, <2>5
  <2> QED BY <1>1, <1>2, <2>1, <2>3, <2>4, <2>6, <2>7, JobGoesOn
<1>5. ASSUME Reports(w, Errored("subject")) PROVE PoolInv'
  <2> DEFINE r == Errored("subject")
  <2>1. r \in Result /\ r.state = "errored"
    BY DEF Errored, Result
  <2>2. r # NotRun /\ Filled(r, does[w].case)
    BY <2>1, FreeIsIdle DEF Filled
  <2>3. Reports(w, r)
    BY <1>5
  <2> HIDE DEF r
  <2> QED BY <1>1, <1>2, <1>3, <2>1, <2>2, <2>3, JobEnds
<1> QED BY <1>4, <1>5 DEF CallSubject

LEMMA CallScorerKeeps ==
  ASSUME EvalInv, NEW w \in Worker, CallScorer(w)
  PROVE  PoolInv'
<1>1. PoolInv /\ PoolTypes /\ does[w] \in Job
  BY DEF EvalInv, PoolInv, PoolTypes
<1>2. Busy(w) /\ does[w].at = "scoring" /\ Len(does[w].scores) < Len(Scorers)
  BY FreeIsIdle DEF CallScorer, Busy
<1>3. /\ does[w] \in [at : {"scoring"}, case : Case, scores : Seq(Score), actual : Actual]
      /\ does[w].scores \in Seq(Score) /\ does[w].actual \in Actual /\ JobHolds(w)
  BY <1>1, <1>2, JobShapes DEF PoolInv, Busy
<1>4. PICK sc \in ScoresOf(Scorers[Len(does[w].scores) + 1], does[w].actual) :
        does' = [does EXCEPT ![w].scores = Append(@, sc)]
  BY DEF CallScorer
<1>5. sc \in Score
  BY <1>3, ScoresAreTyped
<1> DEFINE s == Append(does[w].scores, sc)
           j == [does[w] EXCEPT !.scores = s]
<1>6. s \in Seq(Score) /\ Len(s) <= Len(Scorers)
  <2>1. Len(Scorers) \in Nat
    BY EvalAssumption
  <2>2. s \in Seq(Score) /\ Len(s) = Len(does[w].scores) + 1 /\ Len(does[w].scores) \in Nat
    BY <1>3, <1>5
  <2> QED BY <1>2, <2>1, <2>2
<1>7. does' = [does EXCEPT ![w] = j]
  BY <1>1, <1>4 DEF PoolTypes
<1> HIDE DEF s
<1>8. /\ j \in [at : {"scoring"}, case : Case, scores : Seq(Score), actual : Actual]
      /\ j.case = does[w].case /\ j.at = "scoring" /\ j.scores = s /\ j.actual = does[w].actual
  BY <1>3, <1>6
<1>9. j \in Job /\ j # Free
  BY <1>8, FreeIsIdle DEF Job
<1>10. does[w].case \notin late /\ does[w].actual.input = does[w].case
  BY <1>2, <1>3 DEF JobHolds
<1>11. UNCHANGED <<minPass, done, queued, results, late>>
  BY DEF CallScorer
<1> HIDE DEF j
<1> QED BY <1>1, <1>2, <1>6, <1>7, <1>8, <1>9, <1>10, <1>11, JobGoesOn

LEMMA EndCaseKeeps ==
  ASSUME EvalInv, NEW w \in Worker, EndCase(w)
  PROVE  PoolInv'
<1>1. PoolInv /\ PoolTypes /\ does[w] \in Job
  BY DEF EvalInv, PoolInv, PoolTypes
<1>2. Busy(w) /\ does[w].at = "scoring" /\ Len(does[w].scores) = Len(Scorers)
  BY FreeIsIdle DEF EndCase, Busy
<1>3. does[w].scores \in Seq(Score) /\ does[w].actual \in Actual /\ JobHolds(w)
  BY <1>1, <1>2, JobShapes DEF PoolInv, Busy
<1> DEFINE r == [state |-> Judged(does[w].scores), actual |-> does[w].actual,
                 scores |-> does[w].scores, err |-> ""]
<1>4. /\ Judged(does[w].scores) \in {"passed", "failed"}
      /\ Judged(does[w].scores) = "passed" => \A i \in DOMAIN does[w].scores : does[w].scores[i].pass
  BY DEF Judged
<1>5. /\ r \in Result /\ r.state = Judged(does[w].scores)
      /\ r.actual = does[w].actual /\ r.scores = does[w].scores
  BY <1>3, <1>4 DEF Result
<1>6. Reports(w, r) /\ UNCHANGED <<minPass, done, queued, late>>
  BY DEF EndCase
<1> HIDE DEF r
<1>7. r # NotRun
  BY <1>4, <1>5, FreeIsIdle
<1>8. Filled(r, does[w].case)
  BY <1>2, <1>3, <1>4, <1>5 DEF Filled, JobHolds
<1> QED BY <1>1, <1>2, <1>5, <1>6, <1>7, <1>8, JobEnds

LEMMA EvalGoesOn == EvalInv /\ [EvalNext]_evalVars => EvalInv'
<1> SUFFICES ASSUME EvalInv, [EvalNext]_evalVars PROVE EvalInv'
  OBVIOUS
<1>1. ASSUME UNCHANGED evalVars PROVE EvalInv'
  <2>1. PoolInv'
    <3>1. done' \in BOOLEAN /\ (done => done')
      BY <1>1 DEF EvalInv, PoolInv, PoolTypes, evalVars
    <3> QED BY <1>1, <3>1, CancelKeeps DEF EvalInv, evalVars
  <2> QED BY <1>1, <2>1 DEF EvalInv, Told, Busy, evalVars
<1>2. ASSUME Cancel PROVE EvalInv'
  <2>1. PoolInv'
    BY <1>2, CancelKeeps DEF EvalInv, Cancel
  <2> QED BY <1>2, <2>1 DEF EvalInv, Cancel
<1>3. ASSUME Tally PROVE EvalInv'
  <2>1. Told'
    BY <1>3, TallyTells
  <2>2. PoolInv'
    <3>1. done' \in BOOLEAN /\ (done => done')
      BY <1>3 DEF EvalInv, PoolInv, PoolTypes, Tally
    <3> QED BY <1>3, <3>1, CancelKeeps DEF EvalInv, Tally
  <2>3. \A w \in Worker : ~Busy(w)'
    BY <1>3 DEF Tally, Busy
  <2> QED BY <2>1, <2>2, <2>3 DEF EvalInv
<1>4. ASSUME NEW w \in Worker, HandOut(w) PROVE EvalInv'
  <2>1. PoolInv' /\ report' = NotRun
    BY <1>4, HandOutKeeps DEF HandOut
  <2> QED BY <2>1 DEF EvalInv
<1>5. ASSUME NEW w \in Worker, EvalOne(w) \/ CallSubject(w) \/ CallScorer(w) \/ EndCase(w)
      PROVE  EvalInv'
  <2>1. Busy(w) /\ report' = report
    BY <1>5, FreeIsIdle DEF EvalOne, CallSubject, CallScorer, EndCase, Busy
  <2>2. report = NotRun
    BY <2>1 DEF EvalInv
  <2>3. PoolInv'
    BY <1>5, EvalOneKeeps, CallSubjectKeeps, CallScorerKeeps, EndCaseKeeps
  <2> QED BY <2>1, <2>2, <2>3 DEF EvalInv
<1> QED BY <1>1, <1>2, <1>3, <1>4, <1>5 DEF EvalNext

(***************************************************************************)
(* Run and RunAndExit: the report, once there is one, is true: each case   *)
(* once and in order, passed only by what every scorer said of its own     *)
(* answer in time, and exit code 0 only if enough of all the cases passed. *)
(***************************************************************************)
THEOREM ReportsAreTrue == EvalSpec => [](report # NotRun => Told)
<1>1. EvalInit => EvalInv
  BY EvalStarts
<1>2. EvalInv /\ [EvalNext]_evalVars => EvalInv'
  BY EvalGoesOn
<1>3. EvalInv => (report # NotRun => Told)
  BY DEF EvalInv
<1> QED BY <1>1, <1>2, <1>3, PTL DEF EvalSpec

=============================================================================
