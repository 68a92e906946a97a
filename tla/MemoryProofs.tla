---------------------------- MODULE MemoryProofs ----------------------------
(***************************************************************************)
(* Proofs about the parts of the memory that calls share. Window, for any  *)
(* number of goroutines that append and take snapshots, any costs and any  *)
(* number of messages: the conversation is kept, and a snapshot that could *)
(* be made to fit fits. Embeddings, for any callers, texts and batches:    *)
(* vectors follow their texts. StoreBackends, for any documents, batches   *)
(* and lists of keys: every backend implements MemoryStore.                *)
(* Chunking, for any text and sizes: FixedSize keeps the text.             *)
(***************************************************************************)
EXTENDS Window, Embeddings, StoreBackends, Chunking, FiniteSetTheorems, SequenceTheorems, WellFoundedInduction, TLAPS

Message == [role : {"system", "user"}, n : Nat, cost : Nat]

-----------------------------------------------------------------------------
(* A set of naturals with a member has a least one.                        *)
LEMMA LeastOf ==
  ASSUME NEW S, S \subseteq Nat, NEW m \in S
  PROVE  Min(S) \in S /\ \A y \in S : Min(S) <= y
<1>1. PICK x \in S : \A y \in S : ~ (<<y, x>> \in OpToRel(<, Nat))
  BY NatLessThanWellFounded, WFMin
<1>2. ASSUME NEW y \in S PROVE x <= y
  <2>1. x \in Nat /\ y \in Nat /\ ~ (y < x)
    BY <1>1 DEF OpToRel
  <2> QED BY <2>1
<1> QED BY <1>2 DEF Min

(* Induction over the positions of a sequence.                             *)
LEMMA UpTo ==
  ASSUME NEW N \in Nat, NEW T, 0 \in T, \A n \in 0 .. N : n < N /\ n \in T => n + 1 \in T
  PROVE  \A n \in 0 .. N : n \in T
<1> SUFFICES ASSUME NEW m \in 0 .. N, m \notin T PROVE FALSE
  OBVIOUS
<1> DEFINE Missed == {n \in 0 .. N : n \notin T}
           n == Min(Missed)
<1>1. n \in Missed /\ \A k \in Missed : n <= k
  <2>1. Missed \subseteq Nat /\ m \in Missed
    OBVIOUS
  <2> HIDE DEF Missed
  <2> QED BY <2>1, LeastOf
<1> HIDE DEF n
<1>2. n # 0 /\ n - 1 \in 0 .. N /\ n - 1 < N /\ (n - 1) + 1 = n /\ n - 1 < n /\ n \in Nat
  BY <1>1
<1>3. n - 1 \notin Missed
  BY <1>1, <1>2
<1> QED BY <1>1, <1>2, <1>3

-----------------------------------------------------------------------------
(***************************************************************************)
(* Tokens, which is a recursive function, adds up from the front as well.  *)
(***************************************************************************)
Adds(f, s, n) == f[n] = IF n = 0 THEN 0 ELSE f[n - 1] + s[n].cost

LEMMA CostOf ==
  ASSUME NEW s \in Seq(Message), NEW i \in 1 .. Len(s)
  PROVE  s[i].cost \in Nat
<1>1. s[i] \in Message
  OBVIOUS
<1> QED BY <1>1 DEF Message

LEMMA SumsExist ==
  ASSUME NEW s \in Seq(Message)
  PROVE  \E f \in [0 .. Len(s) -> Nat] : \A n \in 0 .. Len(s) : Adds(f, s, n)
<1> DEFINE Good == {k \in 0 .. Len(s) :
                      \E f \in [0 .. k -> Nat] : \A n \in 0 .. k : Adds(f, s, n)}
<1>1. Len(s) \in Nat
  OBVIOUS
<1>2. 0 \in Good
  <2>1. /\ [k \in 0 .. 0 |-> 0] \in [0 .. 0 -> Nat]
        /\ \A n \in 0 .. 0 : Adds([k \in 0 .. 0 |-> 0], s, n)
    BY DEF Adds
  <2>2. 0 \in 0 .. Len(s)
    BY <1>1
  <2> QED BY <2>1, <2>2
<1>3. ASSUME NEW k \in 0 .. Len(s), k < Len(s), k \in Good PROVE k + 1 \in Good
  <2>1. PICK f \in [0 .. k -> Nat] : \A n \in 0 .. k : Adds(f, s, n)
    BY <1>3
  <2> DEFINE v == f[k] + s[k + 1].cost
             h == [n \in 0 .. (k + 1) |-> IF n = k + 1 THEN v ELSE f[n]]
  <2>2. v \in Nat
    <3>1. k + 1 \in 1 .. Len(s) /\ k \in 0 .. k
      BY <1>1, <1>3
    <3>2. s[k + 1].cost \in Nat /\ f[k] \in Nat
      BY <2>1, <3>1, CostOf
    <3> QED BY <3>2
  <2>3. h \in [0 .. (k + 1) -> Nat]
    <3> HIDE DEF v
    <3> QED BY <2>1, <2>2
  <2>4. ASSUME NEW n \in 0 .. (k + 1) PROVE Adds(h, s, n)
    <3>1. CASE n = k + 1
      <4>1. h[n] = v /\ n # 0 /\ n - 1 = k /\ h[k] = f[k]
        BY <3>1
      <4>2. v = h[n - 1] + s[n].cost
        BY <3>1, <4>1
      <4> HIDE DEF h, v
      <4> QED BY <4>1, <4>2 DEF Adds
    <3>2. CASE n \in 0 .. k
      <4>1. h[n] = f[n] /\ (n # 0 => h[n - 1] = f[n - 1])
        BY <3>2
      <4>2. Adds(f, s, n)
        BY <2>1, <3>2
      <4> HIDE DEF h
      <4> QED BY <4>1, <4>2 DEF Adds
    <3> QED BY <3>1, <3>2
  <2>5. k + 1 \in 0 .. Len(s)
    BY <1>1, <1>3
  <2> HIDE DEF h
  <2> QED BY <2>3, <2>4, <2>5
<1>4. Len(s) \in Good
  <2> HIDE DEF Good
  <2>1. \A k \in 0 .. Len(s) : k \in Good
    BY <1>1, <1>2, <1>3, UpTo
  <2> QED BY <1>1, <2>1
<1> QED BY <1>4

LEMMA TokensAdd ==
  ASSUME NEW s \in Seq(Message)
  PROVE  \E f \in [0 .. Len(s) -> Nat] :
           Tokens(s) = f[Len(s)] /\ \A n \in 0 .. Len(s) : Adds(f, s, n)
<1> DEFINE Kind(f) == f = [n \in 0 .. Len(s) |-> IF n = 0 THEN 0 ELSE f[n - 1] + s[n].cost]
           t == CHOOSE f : Kind(f)
<1>1. PICK f \in [0 .. Len(s) -> Nat] : \A n \in 0 .. Len(s) : Adds(f, s, n)
  BY SumsExist
<1>2. Kind(f)
  BY <1>1 DEF Adds
<1>3. Kind(t)
  BY <1>2
<1>4. Tokens(s) = t[Len(s)]
  BY DEF Tokens
<1>5. DOMAIN t = 0 .. Len(s) /\ \A n \in 0 .. Len(s) : Adds(t, s, n)
  BY <1>3 DEF Adds
<1>6. Len(s) \in Nat
  OBVIOUS
<1> HIDE DEF t
<1> DEFINE Same == {n \in 0 .. Len(s) : t[n] = f[n]}
<1>7. 0 \in Same
  <2>1. 0 \in 0 .. Len(s)
    BY <1>6
  <2>2. Adds(t, s, 0) /\ Adds(f, s, 0)
    BY <1>1, <1>5, <2>1
  <2> QED BY <2>1, <2>2 DEF Adds
<1>8. ASSUME NEW n \in 0 .. Len(s), n < Len(s), n \in Same PROVE n + 1 \in Same
  <2>1. n + 1 \in 0 .. Len(s) /\ n + 1 # 0 /\ (n + 1) - 1 = n
    BY <1>6, <1>8
  <2>2. Adds(t, s, n + 1) /\ Adds(f, s, n + 1)
    BY <1>1, <1>5, <2>1
  <2> QED BY <1>8, <2>1, <2>2 DEF Adds
<1>9. Len(s) \in Same
  <2> HIDE DEF Same
  <2>1. \A n \in 0 .. Len(s) : n \in Same
    BY <1>6, <1>7, <1>8, UpTo
  <2> QED BY <1>6, <2>1
<1> QED BY <1>1, <1>4, <1>9

LEMMA TokensOfNone == Tokens(<< >>) = 0
<1>1. << >> \in Seq(Message) /\ Len(<< >>) = 0
  OBVIOUS
<1>2. PICK f : /\ Tokens(<< >>) = f[Len(<< >>)]
               /\ \A n \in 0 .. Len(<< >>) : Adds(f, << >>, n)
  BY <1>1, TokensAdd
<1>3. Tokens(<< >>) = f[0] /\ Adds(f, << >>, 0)
  BY <1>1, <1>2
<1> QED BY <1>3 DEF Adds

LEMMA Regrouped ==
  ASSUME NEW a \in Nat, NEW b \in Nat, NEW c \in Nat
  PROVE  (a + b) + c = a + (b + c)
OBVIOUS

LEMMA TokensFromTheFront ==
  ASSUME NEW s \in Seq(Message), s # << >>
  PROVE  Tokens(s) = Tokens(<<Head(s)>>) + Tokens(Tail(s))
<1> DEFINE r == Tail(s)
           o == <<Head(s)>>
<1>1. /\ r \in Seq(Message) /\ Len(r) = Len(s) - 1 /\ Len(s) \in Nat /\ Len(s) >= 1 /\ Len(r) \in Nat
      /\ \A i \in 1 .. Len(r) : r[i] = s[i + 1]
      /\ o \in Seq(Message) /\ Len(o) = 1 /\ o[1] = s[1] /\ s[1].cost \in Nat
  <2>1. s[1] \in Message
    OBVIOUS
  <2> QED BY <2>1 DEF Message
<1> HIDE DEF r, o
<1>2. PICK f \in [0 .. Len(s) -> Nat] :
        Tokens(s) = f[Len(s)] /\ \A n \in 0 .. Len(s) : Adds(f, s, n)
  BY TokensAdd
<1>3. PICK g \in [0 .. Len(r) -> Nat] :
        Tokens(r) = g[Len(r)] /\ \A n \in 0 .. Len(r) : Adds(g, r, n)
  BY <1>1, TokensAdd
<1>4. PICK h \in [0 .. Len(o) -> Nat] :
        Tokens(o) = h[Len(o)] /\ \A n \in 0 .. Len(o) : Adds(h, o, n)
  BY <1>1, TokensAdd
<1>5. Tokens(o) = s[1].cost
  <2>1. Adds(h, o, 0) /\ Adds(h, o, 1) /\ Tokens(o) = h[1]
    BY <1>1, <1>4
  <2> QED BY <1>1, <2>1 DEF Adds
<1> DEFINE Same == {n \in 0 .. Len(r) : f[n + 1] = s[1].cost + g[n]}
<1>6. 0 \in Same
  <2>1. 0 \in 0 .. Len(s) /\ 1 \in 0 .. Len(s) /\ 0 \in 0 .. Len(r)
    BY <1>1
  <2>2. Adds(f, s, 0) /\ Adds(f, s, 1) /\ Adds(g, r, 0)
    BY <1>2, <1>3, <2>1
  <2> QED BY <1>1, <2>1, <2>2 DEF Adds
<1>7. ASSUME NEW n \in 0 .. Len(r), n < Len(r), n \in Same PROVE n + 1 \in Same
  <2>1. /\ n + 1 \in 0 .. Len(r) /\ n + 1 # 0 /\ (n + 1) - 1 = n /\ n + 1 \in 1 .. Len(r)
        /\ (n + 1) + 1 \in 0 .. Len(s) /\ (n + 1) + 1 # 0 /\ ((n + 1) + 1) - 1 = n + 1
        /\ (n + 1) + 1 \in 1 .. Len(s)
    BY <1>1, <1>7
  <2>2. Adds(f, s, (n + 1) + 1) /\ Adds(g, r, n + 1)
    BY <1>2, <1>3, <2>1
  <2>3. f[(n + 1) + 1] = f[n + 1] + s[(n + 1) + 1].cost /\ g[n + 1] = g[n] + r[n + 1].cost
    BY <2>1, <2>2 DEF Adds
  <2>4. r[n + 1] = s[(n + 1) + 1] /\ s[(n + 1) + 1].cost \in Nat /\ g[n] \in Nat
    BY <1>1, <1>3, <2>1, CostOf
  <2>5. f[n + 1] = s[1].cost + g[n]
    BY <1>7
  <2>6. f[(n + 1) + 1] = s[1].cost + g[n + 1]
    <3>1. s[1].cost \in Nat
      BY <1>1
    <3>2. (s[1].cost + g[n]) + s[(n + 1) + 1].cost = s[1].cost + (g[n] + s[(n + 1) + 1].cost)
      BY ONLY <2>4, <3>1, Regrouped
    <3>3. g[n + 1] = g[n] + s[(n + 1) + 1].cost
      BY <2>3, <2>4
    <3> QED BY <2>3, <2>5, <3>2, <3>3, Zenon
  <2> QED BY <2>1, <2>6
<1>8. Len(r) \in Same
  <2> HIDE DEF Same
  <2>1. \A n \in 0 .. Len(r) : n \in Same
    BY <1>1, <1>6, <1>7, UpTo
  <2> QED BY <1>1, <2>1
<1>9. Len(s) = Len(r) + 1
  BY <1>1
<1>10. f[Len(r) + 1] = s[1].cost + g[Len(r)]
  BY <1>8
<1> QED BY <1>2, <1>3, <1>5, <1>9, <1>10 DEF r, o

-----------------------------------------------------------------------------
(* FlattenSeq, a recursive function too, is joined at the end.             *)
Joins(f, ss, i) == f[i] = IF i = 1 THEN ss[i] ELSE f[i - 1] \o ss[i]

LEMMA JoinsExist ==
  ASSUME NEW S, NEW ss \in Seq(Seq(S))
  PROVE  \E f \in [1 .. Len(ss) -> Seq(S)] : \A i \in 1 .. Len(ss) : Joins(f, ss, i)
<1> DEFINE Good == {k \in 0 .. Len(ss) :
                      \E f \in [1 .. k -> Seq(S)] : \A i \in 1 .. k : Joins(f, ss, i)}
<1>1. Len(ss) \in Nat
  OBVIOUS
<1>2. 0 \in Good
  <2>1. 1 .. 0 = {} /\ 0 \in 0 .. Len(ss)
    BY <1>1
  <2>2. [i \in {} |-> << >>] \in [{} -> Seq(S)]
    OBVIOUS
  <2> QED BY <2>1, <2>2
<1>3. ASSUME NEW k \in 0 .. Len(ss), k < Len(ss), k \in Good PROVE k + 1 \in Good
  <2>1. PICK f \in [1 .. k -> Seq(S)] : \A i \in 1 .. k : Joins(f, ss, i)
    BY <1>3
  <2> DEFINE v == IF k = 0 THEN ss[k + 1] ELSE f[k] \o ss[k + 1]
             h == [i \in 1 .. (k + 1) |-> IF i = k + 1 THEN v ELSE f[i]]
  <2>2. v \in Seq(S)
    <3>1. k + 1 \in 1 .. Len(ss) /\ (k # 0 => k \in 1 .. k)
      BY <1>1, <1>3
    <3>2. ss[k + 1] \in Seq(S) /\ (k # 0 => f[k] \in Seq(S))
      BY <2>1, <3>1
    <3> QED BY <3>2
  <2>3. h \in [1 .. (k + 1) -> Seq(S)]
    <3> HIDE DEF v
    <3> QED BY <2>1, <2>2
  <2>4. ASSUME NEW i \in 1 .. (k + 1) PROVE Joins(h, ss, i)
    <3>1. CASE i = k + 1
      <4>1. h[i] = v /\ i - 1 = k /\ (k # 0 => h[k] = f[k]) /\ (i = 1 <=> k = 0)
        BY <3>1
      <4>2. v = IF i = 1 THEN ss[i] ELSE h[i - 1] \o ss[i]
        BY <3>1, <4>1
      <4> HIDE DEF h, v
      <4> QED BY <4>1, <4>2 DEF Joins
    <3>2. CASE i \in 1 .. k
      <4>1. k \in Nat /\ i # k + 1 /\ i - 1 # k + 1 /\ (i # 1 => i - 1 \in 1 .. (k + 1))
        BY <1>1, <3>2
      <4>2. h[i] = f[i] /\ (i # 1 => h[i - 1] = f[i - 1])
        <5> HIDE DEF v
        <5> QED BY <4>1
      <4>3. Joins(f, ss, i)
        BY <2>1, <3>2
      <4> HIDE DEF h
      <4> QED BY <4>2, <4>3 DEF Joins
    <3> QED BY <3>1, <3>2
  <2>5. k + 1 \in 0 .. Len(ss)
    BY <1>1, <1>3
  <2> HIDE DEF h
  <2> QED BY <2>3, <2>4, <2>5
<1>4. Len(ss) \in Good
  <2> HIDE DEF Good
  <2>1. \A k \in 0 .. Len(ss) : k \in Good
    BY <1>1, <1>2, <1>3, UpTo
  <2> QED BY <1>1, <2>1
<1> QED BY <1>4

BothJoin(f, ss, g, tt, N) ==
  \A i \in 1 .. N : ss[i] = tt[i] /\ Joins(f, ss, i) /\ Joins(g, tt, i)

LEMMA JoinsAgree ==
  ASSUME NEW ss, NEW tt, NEW f, NEW g, NEW N \in Nat,
         BothJoin(f, ss, g, tt, N)
  PROVE  \A i \in 1 .. N : f[i] = g[i]
<1> DEFINE Same == {k \in 0 .. N : k = 0 \/ f[k] = g[k]}
<1>1. 0 \in Same
  OBVIOUS
<1>2. ASSUME NEW k \in 0 .. N, k < N, k \in Same PROVE k + 1 \in Same
  <2>1. k + 1 \in 1 .. N /\ k + 1 \in 0 .. N /\ (k + 1) - 1 = k /\ (k + 1 = 1 <=> k = 0)
    BY <1>2
  <2>2. Joins(f, ss, k + 1) /\ Joins(g, tt, k + 1) /\ ss[k + 1] = tt[k + 1]
    BY <2>1 DEF BothJoin
  <2>3. k = 0 \/ f[k] = g[k]
    BY <1>2
  <2>4. f[k + 1] = g[k + 1]
    BY <2>1, <2>2, <2>3 DEF Joins
  <2> QED BY <2>1, <2>4
<1>3. \A k \in 0 .. N : k \in Same
  <2> HIDE DEF Same
  <2> QED BY <1>1, <1>2, UpTo
<1>4. \A i \in 1 .. N : i \in 0 .. N /\ i # 0
  OBVIOUS
<1> QED BY <1>3, <1>4

LEMMA FlatJoins ==
  ASSUME NEW S, NEW ss \in Seq(Seq(S)), ss # << >>
  PROVE  \E f \in [1 .. Len(ss) -> Seq(S)] :
           FlattenSeq(ss) = f[Len(ss)] /\ \A i \in 1 .. Len(ss) : Joins(f, ss, i)
<1> DEFINE Kind(f) == f = [i \in 1 .. Len(ss) |-> IF i = 1 THEN ss[i] ELSE f[i - 1] \o ss[i]]
           t == CHOOSE f : Kind(f)
<1>1. PICK f \in [1 .. Len(ss) -> Seq(S)] : \A i \in 1 .. Len(ss) : Joins(f, ss, i)
  BY JoinsExist
<1>2. Kind(f)
  BY <1>1 DEF Joins
<1>3. Kind(t)
  BY <1>2
<1>4. Len(ss) \in Nat /\ Len(ss) # 0 /\ Len(ss) \in 1 .. Len(ss)
  OBVIOUS
<1>5. FlattenSeq(ss) = t[Len(ss)]
  BY <1>4 DEF FlattenSeq
<1>6. \A i \in 1 .. Len(ss) : Joins(t, ss, i)
  BY <1>3 DEF Joins
<1> HIDE DEF t
<1>7. \A i \in 1 .. Len(ss) : t[i] = f[i]
  <2>1. BothJoin(t, ss, f, ss, Len(ss))
    BY <1>1, <1>6 DEF BothJoin
  <2> QED BY <1>4, <2>1, JoinsAgree
<1> QED BY <1>1, <1>4, <1>5, <1>7

LEMMA FlatType ==
  ASSUME NEW S, NEW ss \in Seq(Seq(S))
  PROVE  FlattenSeq(ss) \in Seq(S)
<1>1. CASE ss = << >>
  <2>1. FlattenSeq(ss) = << >>
    BY <1>1 DEF FlattenSeq
  <2> QED BY <2>1
<1>2. CASE ss # << >>
  <2>1. Len(ss) \in 1 .. Len(ss)
    BY <1>2
  <2> QED BY <1>2, <2>1, FlatJoins
<1> QED BY <1>1, <1>2

LEMMA FlatAppend ==
  ASSUME NEW S, NEW ss \in Seq(Seq(S)), NEW x \in Seq(S)
  PROVE  FlattenSeq(Append(ss, x)) = FlattenSeq(ss) \o x
<1> DEFINE tt == Append(ss, x)
           N == Len(ss)
<1>1. /\ tt \in Seq(Seq(S)) /\ Len(tt) = N + 1 /\ tt[N + 1] = x /\ N \in Nat /\ tt # << >>
      /\ \A i \in 1 .. N : tt[i] = ss[i]
  <2> DEFINE T == Seq(S)
  <2>1. ss \in Seq(T) /\ x \in T
    OBVIOUS
  <2> HIDE DEF T
  <2>2. /\ tt \in Seq(T) /\ Len(tt) = N + 1 /\ tt[N + 1] = x /\ N \in Nat
        /\ \A i \in 1 .. N : tt[i] = ss[i]
    BY <2>1
  <2>3. tt # << >>
    BY <2>2
  <2> QED BY <2>2, <2>3 DEF T
<1> HIDE DEF tt
<1>2. PICK g \in [1 .. Len(tt) -> Seq(S)] :
        FlattenSeq(tt) = g[Len(tt)] /\ \A i \in 1 .. Len(tt) : Joins(g, tt, i)
  BY <1>1, FlatJoins
<1>3. Joins(g, tt, N + 1) /\ FlattenSeq(tt) = g[N + 1]
  BY <1>1, <1>2
<1>4. CASE ss = << >>
  <2>1. N = 0 /\ FlattenSeq(ss) = << >>
    BY <1>4 DEF FlattenSeq
  <2>2. FlattenSeq(tt) = x
    BY <1>1, <1>3, <2>1 DEF Joins
  <2> QED BY <2>1, <2>2 DEF tt
<1>5. CASE ss # << >>
  <2>1. N \in 1 .. N /\ N + 1 # 1 /\ (N + 1) - 1 = N
    BY <1>5
  <2>2. PICK f \in [1 .. N -> Seq(S)] :
          FlattenSeq(ss) = f[N] /\ \A i \in 1 .. N : Joins(f, ss, i)
    BY <1>5, FlatJoins
  <2>3. \A i \in 1 .. N : i \in 1 .. Len(tt)
    BY <1>1
  <2>4. BothJoin(f, ss, g, tt, N)
    BY <1>1, <1>2, <2>2, <2>3 DEF BothJoin
  <2>5. f[N] = g[N]
    <3>1. N \in Nat
      BY <1>1
    <3> HIDE DEF N
    <3>2. \A i \in 1 .. N : f[i] = g[i]
      BY ONLY <3>1, <2>4, JoinsAgree
    <3> QED BY <2>1, <3>2
  <2>6. g[N + 1] = g[N] \o tt[N + 1]
    <3> HIDE DEF N
    <3> QED BY <1>3, <2>1 DEF Joins
  <2> QED BY <1>1, <1>3, <2>2, <2>5, <2>6 DEF tt
<1> QED BY <1>4, <1>5

-----------------------------------------------------------------------------
(***************************************************************************)
(* Messages in the order in which they were appended, and all of one       *)
(* sequence before all of another.                                         *)
(***************************************************************************)
Inc(s) == \A i, j \in 1 .. Len(s) : i < j => s[i].n < s[j].n
Ahead(s, t) == \A x \in ToSet(s), y \in ToSet(t) : x.n < y.n

LEMMA Members ==
  ASSUME NEW s \in Seq(Message)
  PROVE  /\ ToSet(s) = {s[i] : i \in 1 .. Len(s)} /\ ToSet(s) \subseteq Message
         /\ \A x \in ToSet(s) : x.n \in Nat
<1>1. DOMAIN s = 1 .. Len(s) /\ \A i \in 1 .. Len(s) : s[i] \in Message
  OBVIOUS
<1> QED BY <1>1 DEF ToSet, Message

LEMMA IncJoined ==
  ASSUME NEW s \in Seq(Message), NEW t \in Seq(Message), Inc(s), Inc(t), Ahead(s, t)
  PROVE  Inc(s \o t)
<1>1. /\ s \o t \in Seq(Message) /\ Len(s \o t) = Len(s) + Len(t)
      /\ Len(s) \in Nat /\ Len(t) \in Nat
      /\ \A i \in 1 .. Len(s) : (s \o t)[i] = s[i]
      /\ \A i \in (Len(s) + 1) .. (Len(s) + Len(t)) : (s \o t)[i] = t[i - Len(s)]
  OBVIOUS
<1> SUFFICES ASSUME NEW i \in 1 .. Len(s \o t), NEW j \in 1 .. Len(s \o t), i < j
             PROVE  (s \o t)[i].n < (s \o t)[j].n
  BY DEF Inc
<1>2. CASE j \in 1 .. Len(s)
  <2>1. i \in 1 .. Len(s)
    BY <1>1, <1>2
  <2> QED BY <1>1, <1>2, <2>1 DEF Inc
<1>3. CASE j \notin 1 .. Len(s) /\ i \in 1 .. Len(s)
  <2>1. j \in (Len(s) + 1) .. (Len(s) + Len(t)) /\ j - Len(s) \in 1 .. Len(t)
    BY <1>1, <1>3
  <2>2. (s \o t)[i] = s[i] /\ (s \o t)[j] = t[j - Len(s)]
    BY <1>1, <1>3, <2>1
  <2>3. s[i] \in ToSet(s) /\ t[j - Len(s)] \in ToSet(t)
    BY <1>3, <2>1, Members
  <2> QED BY <2>2, <2>3 DEF Ahead
<1>4. CASE i \notin 1 .. Len(s)
  <2>1. /\ i \in (Len(s) + 1) .. (Len(s) + Len(t)) /\ i - Len(s) \in 1 .. Len(t)
        /\ j \in (Len(s) + 1) .. (Len(s) + Len(t)) /\ j - Len(s) \in 1 .. Len(t)
        /\ i - Len(s) < j - Len(s)
    BY <1>1, <1>4
  <2>2. (s \o t)[i] = t[i - Len(s)] /\ (s \o t)[j] = t[j - Len(s)]
    BY <1>1, <2>1
  <2> QED BY <2>1, <2>2 DEF Inc
<1> QED BY <1>2, <1>3, <1>4

LEMMA SetJoined ==
  ASSUME NEW s \in Seq(Message), NEW t \in Seq(Message)
  PROVE  s \o t \in Seq(Message) /\ ToSet(s \o t) = ToSet(s) \cup ToSet(t)
<1>1. /\ s \o t \in Seq(Message) /\ Len(s \o t) = Len(s) + Len(t)
      /\ Len(s) \in Nat /\ Len(t) \in Nat
      /\ \A i \in 1 .. Len(s) : (s \o t)[i] = s[i]
      /\ \A i \in 1 .. Len(t) : (s \o t)[i + Len(s)] = t[i]
  OBVIOUS
<1> DEFINE u == s \o t
<1>2. ASSUME NEW x \in ToSet(u) PROVE x \in ToSet(s) \cup ToSet(t)
  <2>1. PICK i \in 1 .. Len(u) : x = u[i]
    BY <1>1, <1>2, Members
  <2>2. CASE i \in 1 .. Len(s)
    BY <1>1, <2>1, <2>2, Members
  <2>3. CASE i \notin 1 .. Len(s)
    <3>1. i - Len(s) \in 1 .. Len(t) /\ (i - Len(s)) + Len(s) = i
      BY <1>1, <2>1, <2>3
    <3>2. u[i] = t[i - Len(s)]
      BY <1>1, <3>1
    <3> QED BY <2>1, <3>1, <3>2, Members
  <2> QED BY <2>2, <2>3
<1>3. ASSUME NEW x \in ToSet(s) PROVE x \in ToSet(u)
  <2>1. PICK i \in 1 .. Len(s) : x = s[i]
    BY <1>3, Members
  <2>2. i \in 1 .. Len(u) /\ u[i] = x
    BY <1>1, <2>1
  <2> QED BY <1>1, <2>2, Members
<1>4. ASSUME NEW x \in ToSet(t) PROVE x \in ToSet(u)
  <2>1. PICK i \in 1 .. Len(t) : x = t[i]
    BY <1>4, Members
  <2>2. i + Len(s) \in 1 .. Len(u) /\ u[i + Len(s)] = x
    BY <1>1, <2>1
  <2> QED BY <1>1, <2>2, Members
<1> QED BY <1>1, <1>2, <1>3, <1>4

LEMMA IncSplit ==
  ASSUME NEW s \in Seq(Message), Inc(s), NEW k \in 0 .. Len(s)
  PROVE  LET a == SubSeq(s, 1, k)
             b == SubSeq(s, k + 1, Len(s))
         IN /\ a \in Seq(Message) /\ b \in Seq(Message)
            /\ Inc(a) /\ Inc(b) /\ Ahead(a, b)
            /\ ToSet(s) = ToSet(a) \cup ToSet(b)
<1> DEFINE a == SubSeq(s, 1, k)
           b == SubSeq(s, k + 1, Len(s))
<1>1. Len(s) \in Nat /\ k \in Nat /\ k <= Len(s)
  OBVIOUS
<1>2. /\ a \in Seq(Message) /\ Len(a) = k
      /\ \A i \in 1 .. k : a[i] = s[i]
  BY <1>1
<1>3. b \in Seq(Message) /\ Len(b) = Len(s) - k
  BY <1>1
<1>4. \A i \in 1 .. Len(s) - k : b[i] = s[i + k]
  BY <1>1
<1> HIDE DEF a, b
<1>5. Inc(a)
  BY <1>1, <1>2 DEF Inc
<1>6. Inc(b)
  <2> SUFFICES ASSUME NEW i \in 1 .. Len(b), NEW j \in 1 .. Len(b), i < j PROVE b[i].n < b[j].n
    BY DEF Inc
  <2>1. i + k \in 1 .. Len(s) /\ j + k \in 1 .. Len(s) /\ i + k < j + k
    BY <1>1, <1>3
  <2>2. b[i] = s[i + k] /\ b[j] = s[j + k]
    BY <1>3, <1>4
  <2> QED BY <2>1, <2>2 DEF Inc
<1>7. Ahead(a, b)
  <2> SUFFICES ASSUME NEW x \in ToSet(a), NEW y \in ToSet(b) PROVE x.n < y.n
    BY DEF Ahead
  <2>1. PICK i \in 1 .. k : x = s[i]
    BY <1>2, Members
  <2>2. PICK j \in 1 .. Len(s) - k : y = s[j + k]
    BY <1>3, <1>4, Members
  <2>3. i \in 1 .. Len(s) /\ j + k \in 1 .. Len(s) /\ i < j + k
    BY <1>1, <2>1, <2>2
  <2> QED BY <2>1, <2>2, <2>3 DEF Inc
<1>8. ToSet(s) = ToSet(a) \cup ToSet(b)
  <2>1. ASSUME NEW x \in ToSet(s) PROVE x \in ToSet(a) \cup ToSet(b)
    <3>1. PICK i \in 1 .. Len(s) : x = s[i]
      BY <2>1, Members
    <3>2. CASE i <= k
      <4>1. i \in 1 .. Len(a) /\ a[i] = x
        BY <1>1, <1>2, <3>1, <3>2
      <4> QED BY <1>2, <4>1, Members
    <3>3. CASE ~ (i <= k)
      <4>1. i - k \in 1 .. Len(b) /\ i - k \in 1 .. Len(s) - k /\ (i - k) + k = i
        BY <1>1, <1>3, <3>1, <3>3
      <4>2. b[i - k] = x
        BY <1>4, <3>1, <4>1
      <4> QED BY <1>3, <4>1, <4>2, Members
    <3> QED BY <3>2, <3>3
  <2>2. ASSUME NEW x \in ToSet(a) PROVE x \in ToSet(s)
    <3>1. PICK i \in 1 .. k : x = s[i]
      BY <1>2, <2>2, Members
    <3>2. i \in 1 .. Len(s)
      BY <1>1, <3>1
    <3> QED BY <3>1, <3>2, Members
  <2>3. ASSUME NEW x \in ToSet(b) PROVE x \in ToSet(s)
    <3>1. PICK j \in 1 .. Len(s) - k : x = s[j + k]
      BY <1>3, <1>4, <2>3, Members
    <3>2. j + k \in 1 .. Len(s)
      BY <1>1, <3>1
    <3> QED BY <3>1, <3>2, Members
  <2> QED BY <2>1, <2>2, <2>3
<1> QED BY <1>2, <1>3, <1>5, <1>6, <1>7, <1>8 DEF a, b

LEMMA IncTail ==
  ASSUME NEW s \in Seq(Message), s # << >>, Inc(s)
  PROVE  /\ Tail(s) \in Seq(Message) /\ Inc(Tail(s))
         /\ ToSet(s) = ToSet(<<Head(s)>>) \cup ToSet(Tail(s))
<1>1. /\ Tail(s) \in Seq(Message) /\ Len(Tail(s)) = Len(s) - 1 /\ Len(s) \in Nat /\ Len(s) >= 1
      /\ \A i \in 1 .. Len(s) - 1 : Tail(s)[i] = s[i + 1]
      /\ <<Head(s)>> \in Seq(Message) /\ s = <<Head(s)>> \o Tail(s)
  OBVIOUS
<1>2. Inc(Tail(s))
  <2> SUFFICES ASSUME NEW i \in 1 .. Len(Tail(s)), NEW j \in 1 .. Len(Tail(s)), i < j
               PROVE  Tail(s)[i].n < Tail(s)[j].n
    BY DEF Inc
  <2>1. i + 1 \in 1 .. Len(s) /\ j + 1 \in 1 .. Len(s) /\ i + 1 < j + 1
    BY <1>1
  <2>2. Tail(s)[i] = s[i + 1] /\ Tail(s)[j] = s[j + 1]
    BY <1>1
  <2> QED BY <2>1, <2>2 DEF Inc
<1>3. ToSet(s) = ToSet(<<Head(s)>>) \cup ToSet(Tail(s))
  BY <1>1, SetJoined
<1> QED BY <1>1, <1>2, <1>3

-----------------------------------------------------------------------------
(* What eviction leaves: a later part of the body. Its first message, if a *)
(* system message, becomes the window's system message.                    *)
LEMMA SystemAndBody ==
  ASSUME NEW ms \in Seq(Message)
  PROVE  SystemOf(ms) \in Seq(Message) /\ BodyOf(ms) \in Seq(Message)
BY DEF SystemOf, BodyOf, IsSystem

LEMMA WithoutIs ==
  ASSUME NEW ms \in Seq(Message), NEW k \in 0 .. Len(BodyOf(ms)),
         NEW b, b = SubSeq(BodyOf(ms), k + 1, Len(BodyOf(ms)))
  PROVE  /\ Without(ms, k) \in Seq(Message) /\ b \in Seq(Message)
         /\ \/ SystemOf(Without(ms, k)) = SystemOf(ms) /\ BodyOf(Without(ms, k)) = b
            \/ /\ b # << >> /\ SystemOf(ms) = << >>
               /\ SystemOf(Without(ms, k)) = <<Head(b)>> /\ BodyOf(Without(ms, k)) = Tail(b)
<1>1. b \in Seq(Message)
  <2>1. BodyOf(ms) \in Seq(Message) /\ Len(BodyOf(ms)) \in Nat /\ k \in Nat
    BY SystemAndBody
  <2> QED BY <2>1
<1>2. Without(ms, k) = SystemOf(ms) \o b
  BY DEF Without
<1>3. CASE IsSystem(ms)
  <2>1. SystemOf(ms) = <<Head(ms)>> /\ Head(ms) \in Message /\ Head(ms).role = "system"
    BY <1>3 DEF SystemOf, IsSystem
  <2> DEFINE w == <<Head(ms)>> \o b
  <2>2. w \in Seq(Message) /\ w # << >> /\ Head(w) = Head(ms) /\ Tail(w) = b
    BY <1>1, <2>1
  <2> HIDE DEF w
  <2>3. SystemOf(w) = <<Head(ms)>> /\ BodyOf(w) = b
    BY <2>1, <2>2 DEF SystemOf, BodyOf, IsSystem
  <2> QED BY <1>1, <1>2, <2>1, <2>2, <2>3 DEF w
<1>4. CASE ~ IsSystem(ms)
  <2>1. SystemOf(ms) = << >> /\ Without(ms, k) = b
    <3>1. SystemOf(ms) = << >>
      BY <1>4 DEF SystemOf
    <3>2. << >> \o b = b
      BY <1>1
    <3> QED BY <1>2, <3>1, <3>2
  <2>2. CASE IsSystem(b)
    <3>1. b # << >> /\ SystemOf(b) = <<Head(b)>> /\ BodyOf(b) = Tail(b)
      BY <2>2 DEF IsSystem, SystemOf, BodyOf
    <3> QED BY <1>1, <2>1, <3>1
  <2>3. CASE ~ IsSystem(b)
    <3>1. SystemOf(b) = << >> /\ BodyOf(b) = b
      BY <2>3 DEF SystemOf, BodyOf
    <3> QED BY <1>1, <2>1, <3>1
  <2> QED BY <2>2, <2>3
<1> QED BY <1>3, <1>4

(***************************************************************************)
(* The conversation all, as F, which is summarised, the window ms and what *)
(* was lost: each message in one of them, F and then the body in order.    *)
(***************************************************************************)
Parted(F, ms, gone, all) ==
  /\ F \in Seq(Message) /\ ms \in Seq(Message)
  /\ Inc(F) /\ Inc(BodyOf(ms)) /\ Ahead(F, BodyOf(ms))
  /\ (ToSet(F) \cup ToSet(BodyOf(ms))) \cap gone = {}
  /\ ToSet(F) \cup ToSet(BodyOf(ms)) \cup ToSet(SystemOf(ms)) \cup gone = all

Shrunk(ms, a, w) ==
  /\ a \in Seq(Message) /\ w \in Seq(Message)
  /\ BodyOf(w) \in Seq(Message) /\ Inc(a) /\ Inc(BodyOf(w)) /\ Ahead(a, BodyOf(w))
  /\ ToSet(a) \subseteq ToSet(BodyOf(ms)) /\ ToSet(BodyOf(w)) \subseteq ToSet(BodyOf(ms))
  /\ ToSet(a) \cup ToSet(BodyOf(w)) \cup ToSet(SystemOf(w))
       = ToSet(BodyOf(ms)) \cup ToSet(SystemOf(ms))

LEMMA BodyShrinks ==
  ASSUME NEW ms \in Seq(Message), Inc(BodyOf(ms)), NEW k \in 0 .. Len(BodyOf(ms)),
         NEW a, a = SubSeq(BodyOf(ms), 1, k), NEW w, w = Without(ms, k)
  PROVE  Shrunk(ms, a, w)
<1> DEFINE b == SubSeq(BodyOf(ms), k + 1, Len(BodyOf(ms)))
           body == BodyOf(ms)
<1>1. /\ body \in Seq(Message) /\ a \in Seq(Message) /\ b \in Seq(Message)
      /\ Inc(a) /\ Inc(b) /\ Ahead(a, b) /\ ToSet(body) = ToSet(a) \cup ToSet(b)
  <2>1. body \in Seq(Message)
    BY SystemAndBody
  <2> HIDE DEF body
  <2>2. k \in 0 .. Len(body) /\ Inc(body)
    BY DEF body
  <2>3. LET x == SubSeq(body, 1, k)
            y == SubSeq(body, k + 1, Len(body))
        IN /\ x \in Seq(Message) /\ y \in Seq(Message)
           /\ Inc(x) /\ Inc(y) /\ Ahead(x, y)
           /\ ToSet(body) = ToSet(x) \cup ToSet(y)
    BY ONLY <2>1, <2>2, IncSplit
  <2> QED BY <2>1, <2>3 DEF body
<1> HIDE DEF b
<1>2. /\ w \in Seq(Message)
      /\ \/ SystemOf(w) = SystemOf(ms) /\ BodyOf(w) = b
         \/ /\ b # << >> /\ SystemOf(ms) = << >>
            /\ SystemOf(w) = <<Head(b)>> /\ BodyOf(w) = Tail(b)
  <2>1. b = SubSeq(BodyOf(ms), k + 1, Len(BodyOf(ms)))
    BY DEF b
  <2> QED BY <2>1, WithoutIs
<1> HIDE DEF body
<1>3. CASE SystemOf(w) = SystemOf(ms) /\ BodyOf(w) = b
  BY <1>1, <1>2, <1>3 DEF body, Shrunk
<1>4. CASE /\ b # << >> /\ SystemOf(ms) = << >>
           /\ SystemOf(w) = <<Head(b)>> /\ BodyOf(w) = Tail(b)
  <2>1. /\ Tail(b) \in Seq(Message) /\ Inc(Tail(b))
        /\ ToSet(b) = ToSet(<<Head(b)>>) \cup ToSet(Tail(b))
    BY <1>1, <1>4, IncTail
  <2>2. ToSet(SystemOf(ms)) = {}
    BY <1>4 DEF ToSet
  <2>3. Ahead(a, Tail(b))
    BY <1>1, <2>1 DEF Ahead
  <2> QED BY <1>1, <1>2, <1>4, <2>1, <2>2, <2>3 DEF body, Shrunk
<1> QED BY <1>2, <1>3, <1>4

(* No message is in two sequences of which one is ahead of the other.      *)
LEMMA Apart ==
  ASSUME NEW s \in Seq(Message), NEW t \in Seq(Message), Ahead(s, t)
  PROVE  ToSet(s) \cap ToSet(t) = {}
<1> SUFFICES ASSUME NEW x \in ToSet(s), x \in ToSet(t) PROVE FALSE
  OBVIOUS
<1>1. x.n \in Nat
  BY Members
<1>2. x.n < x.n
  BY DEF Ahead
<1> QED BY <1>1, <1>2

(* Evicted messages are lost, or summarised behind the summary there is.   *)
LEMMA EvictionParts ==
  ASSUME NEW F, NEW ms, NEW gone, NEW all, Parted(F, ms, gone, all),
         NEW k \in 0 .. Len(BodyOf(ms)), NEW a, a = SubSeq(BodyOf(ms), 1, k)
  PROVE  /\ Parted(F, Without(ms, k), gone \cup ToSet(a), all)
         /\ Parted(F \o a, Without(ms, k), gone, all)
<1> DEFINE w == Without(ms, k)
<1>1. /\ F \in Seq(Message) /\ ms \in Seq(Message)
      /\ Inc(F) /\ Inc(BodyOf(ms)) /\ Ahead(F, BodyOf(ms))
      /\ (ToSet(F) \cup ToSet(BodyOf(ms))) \cap gone = {}
      /\ ToSet(F) \cup ToSet(BodyOf(ms)) \cup ToSet(SystemOf(ms)) \cup gone = all
  BY DEF Parted
<1>2. /\ a \in Seq(Message) /\ w \in Seq(Message)
      /\ BodyOf(w) \in Seq(Message) /\ Inc(a) /\ Inc(BodyOf(w)) /\ Ahead(a, BodyOf(w))
      /\ ToSet(a) \subseteq ToSet(BodyOf(ms)) /\ ToSet(BodyOf(w)) \subseteq ToSet(BodyOf(ms))
      /\ ToSet(a) \cup ToSet(BodyOf(w)) \cup ToSet(SystemOf(w))
           = ToSet(BodyOf(ms)) \cup ToSet(SystemOf(ms))
  <2>1. w = Without(ms, k)
    OBVIOUS
  <2>2. /\ ms \in Seq(Message) /\ Inc(BodyOf(ms)) /\ k \in 0 .. Len(BodyOf(ms))
        /\ a = SubSeq(BodyOf(ms), 1, k)
    BY <1>1
  <2> HIDE DEF w
  <2>3. Shrunk(ms, a, w)
    BY ONLY <2>1, <2>2, BodyShrinks
  <2> QED BY <2>3 DEF Shrunk
<1> HIDE DEF w
<1>3. Ahead(F, a) /\ Ahead(F, BodyOf(w))
  BY <1>1, <1>2 DEF Ahead
<1>4. ToSet(F) \cap ToSet(a) = {} /\ ToSet(a) \cap ToSet(BodyOf(w)) = {}
  BY <1>1, <1>2, <1>3, Apart
<1>5. Parted(F, w, gone \cup ToSet(a), all)
  <2>1. (ToSet(F) \cup ToSet(BodyOf(w))) \cap (gone \cup ToSet(a)) = {}
    BY <1>1, <1>2, <1>4
  <2>2. ToSet(F) \cup ToSet(BodyOf(w)) \cup ToSet(SystemOf(w)) \cup (gone \cup ToSet(a)) = all
    BY <1>1, <1>2
  <2> QED BY <1>1, <1>2, <1>3, <2>1, <2>2 DEF Parted
<1>6. Parted(F \o a, w, gone, all)
  <2>1. F \o a \in Seq(Message) /\ ToSet(F \o a) = ToSet(F) \cup ToSet(a) /\ Inc(F \o a)
    BY <1>1, <1>2, <1>3, SetJoined, IncJoined
  <2> DEFINE e == F \o a
  <2> HIDE DEF e
  <2>2. e \in Seq(Message) /\ ToSet(e) = ToSet(F) \cup ToSet(a) /\ Inc(e)
    BY <2>1 DEF e
  <2>3. Ahead(e, BodyOf(w))
    BY <1>2, <1>3, <2>2 DEF Ahead
  <2>4. (ToSet(e) \cup ToSet(BodyOf(w))) \cap gone = {}
    BY <1>1, <1>2, <2>2
  <2>5. ToSet(e) \cup ToSet(BodyOf(w)) \cup ToSet(SystemOf(w)) \cup gone = all
    BY <1>1, <1>2, <2>2
  <2>6. Parted(e, w, gone, all)
    BY <1>2, <2>2, <2>3, <2>4, <2>5 DEF Parted
  <2> QED BY <2>6 DEF e
<1> QED BY <1>5, <1>6 DEF w

(* A message that is appended is the last.                                 *)
LEMMA AppendParts ==
  ASSUME NEW F, NEW ms, NEW gone, NEW all, NEW m \in Message, Parted(F, ms, gone, all),
         \A x \in all : x.n < m.n
  PROVE  Parted(F, Append(ms, m), gone, all \cup {m})
<1> DEFINE w == Append(ms, m)
           o == <<m>>
<1>1. /\ F \in Seq(Message) /\ ms \in Seq(Message)
      /\ Inc(F) /\ Inc(BodyOf(ms)) /\ Ahead(F, BodyOf(ms))
      /\ (ToSet(F) \cup ToSet(BodyOf(ms))) \cap gone = {}
      /\ ToSet(F) \cup ToSet(BodyOf(ms)) \cup ToSet(SystemOf(ms)) \cup gone = all
  BY DEF Parted
<1>2. /\ BodyOf(ms) \in Seq(Message) /\ w \in Seq(Message)
      /\ o \in Seq(Message) /\ ToSet(o) = {m} /\ Inc(o) /\ m.n \in Nat
  <2>1. BodyOf(ms) \in Seq(Message) /\ w \in Seq(Message) /\ o \in Seq(Message)
    BY <1>1, SystemAndBody
  <2>2. Len(o) = 1 /\ o[1] = m /\ DOMAIN o = {1}
    OBVIOUS
  <2>3. m.n \in Nat
    BY DEF Message
  <2> HIDE DEF o
  <2>4. Inc(o) /\ ToSet(o) = {m}
    BY <2>2 DEF Inc, ToSet
  <2> QED BY <2>1, <2>3, <2>4
<1>3. m \notin all
  <2>1. m \in all => m.n < m.n
    OBVIOUS
  <2> QED BY <1>2, <2>1
<1>4. \/ ms = << >> /\ SystemOf(w) = o /\ BodyOf(w) = << >>
      \/ SystemOf(w) = SystemOf(ms) /\ BodyOf(w) = BodyOf(ms) \o o
  <2>1. CASE ms = << >>
    <3>1. w = o /\ o # << >> /\ Head(o) = m /\ Tail(o) = << >> /\ ~ IsSystem(ms)
      BY <2>1 DEF IsSystem
    <3>2. SystemOf(ms) = << >> /\ BodyOf(ms) = << >>
      BY <2>1, <3>1 DEF SystemOf, BodyOf
    <3>3. << >> \o o = o
      BY <1>2
    <3>4. CASE IsSystem(o)
      BY <2>1, <3>1, <3>4 DEF SystemOf, BodyOf
    <3>5. CASE ~ IsSystem(o)
      BY <3>1, <3>2, <3>3, <3>5 DEF SystemOf, BodyOf
    <3> QED BY <3>4, <3>5
  <2>2. CASE ms # << >>
    <3>1. /\ w # << >> /\ Head(w) = Head(ms) /\ w = ms \o o
          /\ Tail(w) = Tail(ms) \o o
      BY <1>1, <2>2
    <3>2. IsSystem(w) <=> IsSystem(ms)
      BY <2>2, <3>1 DEF IsSystem
    <3> HIDE DEF w, o
    <3> QED BY <3>1, <3>2 DEF SystemOf, BodyOf
  <2> QED BY <2>1, <2>2
<1> HIDE DEF w, o
<1>5. CASE ms = << >> /\ SystemOf(w) = o /\ BodyOf(w) = << >>
  <2>1. BodyOf(ms) = << >> /\ SystemOf(ms) = << >>
    BY <1>5 DEF BodyOf, SystemOf, IsSystem
  <2>2. ToSet(<< >>) = {}
    BY DEF ToSet
  <2>3. ToSet(F) \cup ToSet(BodyOf(w)) \cup ToSet(SystemOf(w)) \cup gone = all \cup {m}
    BY <1>1, <1>2, <1>5, <2>1, <2>2
  <2>4. Inc(BodyOf(w)) /\ Ahead(F, BodyOf(w)) /\ (ToSet(F) \cup ToSet(BodyOf(w))) \cap gone = {}
    BY <1>1, <1>5, <2>1
  <2>5. Parted(F, w, gone, all \cup {m})
    BY <1>1, <1>2, <2>3, <2>4 DEF Parted
  <2> QED BY <2>5 DEF w
<1>6. CASE SystemOf(w) = SystemOf(ms) /\ BodyOf(w) = BodyOf(ms) \o o
  <2> DEFINE b == BodyOf(ms) \o o
  <2>1. Ahead(BodyOf(ms), o) /\ Ahead(F, o)
    BY <1>1, <1>2 DEF Ahead
  <2>2. Inc(b) /\ ToSet(b) = ToSet(BodyOf(ms)) \cup {m}
    BY <1>1, <1>2, <2>1, IncJoined, SetJoined
  <2>0. BodyOf(w) = b
    BY <1>6
  <2> HIDE DEF b
  <2>3. Ahead(F, b)
    BY <1>1, <1>2, <2>1, <2>2 DEF Ahead
  <2>4. (ToSet(F) \cup ToSet(b)) \cap gone = {}
    BY <1>1, <1>3, <2>2
  <2>5. ToSet(F) \cup ToSet(b) \cup ToSet(SystemOf(ms)) \cup gone = all \cup {m}
    BY <1>1, <2>2
  <2>6. /\ Inc(BodyOf(w)) /\ Ahead(F, BodyOf(w)) /\ (ToSet(F) \cup ToSet(BodyOf(w))) \cap gone = {}
        /\ ToSet(F) \cup ToSet(BodyOf(w)) \cup ToSet(SystemOf(w)) \cup gone = all \cup {m}
    BY <1>6, <2>0, <2>2, <2>3, <2>4, <2>5
  <2>7. Parted(F, w, gone, all \cup {m})
    BY <1>1, <1>2, <2>6 DEF Parted
  <2> QED BY <2>7 DEF w
<1> QED BY <1>4, <1>5, <1>6 DEF w

-----------------------------------------------------------------------------
(* The plan evicts nothing that is not there, and as much as it takes.     *)
LEMMA PlanFits ==
  ASSUME NEW ms \in Seq(Message), NEW summed
  PROVE  /\ Plan(ms, summed) \in 0 .. Len(BodyOf(ms))
         /\ \/ Plan(ms, summed) = Len(BodyOf(ms))
            \/ Fits(SystemOf(ms), SubSeq(BodyOf(ms), Plan(ms, summed) + 1, Len(BodyOf(ms))), summed)
<1> DEFINE body == BodyOf(ms)
           Ok(n) == n = Len(body) \/ Fits(SystemOf(ms), SubSeq(body, n + 1, Len(body)), summed)
           S == {n \in 0 .. Len(body) : Ok(n)}
<1>1. Len(body) \in Nat
  BY SystemAndBody
<1>2. S \subseteq Nat /\ Len(body) \in S
  BY <1>1
<1>3. Plan(ms, summed) = Min(S)
  BY DEF Plan
<1>4. Min(S) \in S
  <2> HIDE DEF S
  <2> QED BY <1>2, LeastOf
<1>5. Plan(ms, summed) \in 0 .. Len(body) /\ Ok(Plan(ms, summed))
  <2> HIDE DEF Ok
  <2> QED BY <1>3, <1>4
<1> QED BY <1>5

LEMMA EvictedIs ==
  ASSUME NEW ms \in Seq(Message), NEW k \in 0 .. Len(BodyOf(ms))
  PROVE  Evicted(ms, k) = ToSet(SubSeq(BodyOf(ms), 1, k))
<1>1. Len(BodyOf(ms)) \in Nat /\ k \in Nat /\ k <= Len(BodyOf(ms))
  BY SystemAndBody
<1> DEFINE S == {k, Len(BodyOf(ms))}
           m == Min(S)
<1>2. m \in S /\ \A y \in S : m <= y
  <2>1. S \subseteq Nat /\ k \in S
    BY <1>1
  <2> HIDE DEF S
  <2> QED BY <2>1, LeastOf
<1>3. Evicted(ms, k) = ToSet(SubSeq(BodyOf(ms), 1, m))
  BY DEF Evicted
<1> HIDE DEF m
<1>4. m = k
  <2>1. (m = k \/ m = Len(BodyOf(ms))) /\ m <= k
    BY <1>2
  <2> QED BY <1>1, <2>1
<1> QED BY <1>3, <1>4

LEMMA TokensType ==
  ASSUME NEW s \in Seq(Message)
  PROVE  Tokens(s) \in Nat
<1>1. Len(s) \in 0 .. Len(s)
  OBVIOUS
<1> QED BY <1>1, TokensAdd

(* A system message counts the same in its place as in the body.           *)
LEMMA FitsMoved ==
  ASSUME NEW b \in Seq(Message), b # << >>, NEW S, NEW summed \in Seq(S), Fits(<< >>, b, summed)
  PROVE  Fits(<<Head(b)>>, Tail(b), summed)
<1> DEFINE o == <<Head(b)>>
           r == Tail(b)
           slot == IF summed # << >> \/ caps.summarizer THEN 1 ELSE 0
           weight == SummaryCost * Len(summed)
<1>1. /\ r \in Seq(Message) /\ o \in Seq(Message) /\ Len(o) = 1 /\ Len(r) = Len(b) - 1
      /\ Len(b) \in Nat /\ Len(r) \in Nat /\ Len(<< >>) = 0
  OBVIOUS
<1>2. Tokens(b) = Tokens(o) + Tokens(r) /\ Tokens(<< >>) = 0
  BY TokensFromTheFront, TokensOfNone
<1>3. Tokens(o) \in Nat /\ Tokens(r) \in Nat /\ Tokens(b) \in Nat
  BY <1>1, TokensType
<1>4. slot \in Nat /\ weight \in Nat
  <2>1. Len(summed) \in Nat
    OBVIOUS
  <2> QED BY <2>1, WindowAssumption
<1>5. /\ caps.messages = 0 \/ Len(<< >>) + slot + Len(b) <= caps.messages
      /\ caps.tokens = 0 \/ Tokens(<< >>) + weight + Tokens(b) <= caps.tokens
  BY DEF Fits
<1> HIDE DEF slot, weight, o, r
<1>6. Len(<< >>) + slot + Len(b) = Len(o) + slot + Len(r)
  BY <1>1, <1>4
<1>7. Tokens(<< >>) + weight + Tokens(b) = Tokens(o) + weight + Tokens(r)
  BY <1>2, <1>3, <1>4
<1>8. /\ caps.messages = 0 \/ Len(o) + slot + Len(r) <= caps.messages
      /\ caps.tokens = 0 \/ Tokens(o) + weight + Tokens(r) <= caps.tokens
  BY <1>5, <1>6, <1>7
<1> QED BY <1>8 DEF Fits, slot, weight, o, r

(* What is left after the planned eviction fits, or nothing is left.       *)
LEMMA LeftFits ==
  ASSUME NEW ms \in Seq(Message), NEW S, NEW summed \in Seq(S),
         NEW w, w = Without(ms, Plan(ms, summed))
  PROVE  BodyOf(w) # << >> => Fits(SystemOf(w), BodyOf(w), summed)
<1> DEFINE k == Plan(ms, summed)
           body == BodyOf(ms)
           b == SubSeq(body, k + 1, Len(body))
<1>1. k \in 0 .. Len(body) /\ (k = Len(body) \/ Fits(SystemOf(ms), b, summed))
  BY PlanFits
<1>2. body \in Seq(Message) /\ Len(body) \in Nat
  BY SystemAndBody
<1>3. w = Without(ms, k)
  OBVIOUS
<1> HIDE DEF k
<1>4. /\ b \in Seq(Message)
      /\ \/ SystemOf(w) = SystemOf(ms) /\ BodyOf(w) = b
         \/ /\ b # << >> /\ SystemOf(ms) = << >>
            /\ SystemOf(w) = <<Head(b)>> /\ BodyOf(w) = Tail(b)
  <2>1. b = SubSeq(BodyOf(ms), k + 1, Len(BodyOf(ms))) /\ k \in 0 .. Len(BodyOf(ms))
    BY <1>1
  <2>2. ms \in Seq(Message)
    OBVIOUS
  <2> HIDE DEF b
  <2>3. /\ b \in Seq(Message)
        /\ \/ SystemOf(Without(ms, k)) = SystemOf(ms) /\ BodyOf(Without(ms, k)) = b
           \/ /\ b # << >> /\ SystemOf(ms) = << >>
              /\ SystemOf(Without(ms, k)) = <<Head(b)>> /\ BodyOf(Without(ms, k)) = Tail(b)
    BY ONLY <2>1, <2>2, WithoutIs
  <2> QED BY <1>3, <2>3
<1>5. k = Len(body) => b = << >>
  BY <1>2
<1> HIDE DEF b, body
<1>6. CASE SystemOf(w) = SystemOf(ms) /\ BodyOf(w) = b
  BY <1>1, <1>5, <1>6
<1>7. CASE /\ b # << >> /\ SystemOf(ms) = << >>
           /\ SystemOf(w) = <<Head(b)>> /\ BodyOf(w) = Tail(b)
  <2>1. Fits(<< >>, b, summed)
    BY <1>1, <1>5, <1>7
  <2> QED BY <1>4, <1>7, <2>1, FitsMoved
<1> QED BY <1>4, <1>6, <1>7

-----------------------------------------------------------------------------
(***************************************************************************)
(* The invariant. A snapshot under way has snapMu, and what it planned to  *)
(* evict is still the front of the body: appends only reach its end.       *)
(***************************************************************************)
Step == [at : {"idle", "planned", "summarized"}, start : Nat,
         evicted : Seq(Message), text : Seq(Seq(Message))]

TypeOK ==
  /\ messages \in Seq(Message) /\ appended \in Seq(Message)
  /\ summary \in Seq(Seq(Message))
  /\ snap \in [Snapper -> Step]
  /\ caps \in [messages : Nat, tokens : Nat, summarizer : BOOLEAN]

Numbered == \A i \in 1 .. Len(appended) : appended[i].n = i

Planned(s, body) ==
  /\ s.start \in 0 .. Len(body)
  /\ s.evicted = << >> \/ s.evicted = SubSeq(body, 1, s.start)
  /\ s.text = << >> \/ (s.evicted # << >> /\ s.text = <<s.evicted>>)

OneAtATime ==
  \A t \in Snapper : snap[t].at # "idle" => snapMu = t /\ Planned(snap[t], BodyOf(messages))

SnapshotFits ==
  /\ snapshot.sys \in Seq(Message) /\ snapshot.body \in Seq(Message)
  /\ snapshot.summary \in Seq(Seq(Message))
  /\ snapshot.header = IF snapshot.summary = << >> THEN 0 ELSE HeaderCost
  /\ snapshot.body # << >> => Fits(snapshot.sys, snapshot.body, snapshot.summary)

(* While the Summarizer gives its text, a snapshot that evicts has it, and *)
(* nothing but the second look at the caps loses a message.                *)
Summarized ==
  caps.summarizer /\ ~failed =>
    /\ lost = squeezed
    /\ \A t \in Snapper :
         /\ snap[t].at = "planned" /\ snap[t].evicted = << >> => snap[t].start = 0
         /\ snap[t].at = "summarized" /\ snap[t].text = << >> => snap[t].start = 0

WindowInv ==
  /\ TypeOK /\ Numbered /\ OneAtATime /\ SnapshotFits /\ Summarized
  /\ Parted(FlattenSeq(summary), messages, lost, ToSet(appended))

LEMMA InitHolds == WindowInit => WindowInv
<1> SUFFICES ASSUME WindowInit PROVE WindowInv
  OBVIOUS
<1>1. /\ messages = << >> /\ summary = << >> /\ appended = << >> /\ lost = {} /\ squeezed = {}
      /\ snap = [t \in Snapper |-> Idle] /\ snapshot.body = BodyOf(<< >>)
      /\ snapshot.sys = SystemOf(<< >>) /\ snapshot.summary = << >> /\ snapshot.header = 0
  BY DEF WindowInit, Snapshot
<1>2. BodyOf(<< >>) = << >> /\ SystemOf(<< >>) = << >> /\ FlattenSeq(<< >>) = << >> /\ ToSet(<< >>) = {}
  BY DEF BodyOf, SystemOf, IsSystem, FlattenSeq, ToSet
<1>3. Idle \in Step /\ Idle.at = "idle"
  BY DEF Idle, Step
<1>4. TypeOK
  <2>1. caps \in [messages : Nat, tokens : Nat, summarizer : BOOLEAN]
    BY DEF WindowInit
  <2> QED BY <1>1, <1>3, <2>1 DEF TypeOK
<1>5. Numbered /\ OneAtATime /\ SnapshotFits /\ Summarized
  <2>1. Numbered /\ OneAtATime /\ Summarized
    BY <1>1, <1>2, <1>3 DEF Numbered, OneAtATime, Summarized
  <2>2. SnapshotFits
    <3>1. << >> \in Seq(Message) /\ << >> \in Seq(Seq(Message))
      OBVIOUS
    <3> QED BY <1>1, <1>2, <3>1 DEF SnapshotFits
  <2> QED BY <2>1, <2>2
<1>6. Parted(<< >>, << >>, {}, {})
  <2>1. Inc(<< >>) /\ Ahead(<< >>, << >>)
    BY <1>2 DEF Inc, Ahead
  <2> QED BY <1>2, <2>1 DEF Parted
<1> QED BY <1>1, <1>2, <1>4, <1>5, <1>6 DEF WindowInv

LEMMA AppendKeeps == WindowInv /\ AppendMessage => WindowInv'
<1> SUFFICES ASSUME WindowInv, AppendMessage PROVE WindowInv'
  OBVIOUS
<1>1. PICK role \in {"system", "user"}, cost \in Costs :
        LET m == [role |-> role, n |-> Len(appended) + 1, cost |-> cost]
        IN messages' = Append(messages, m) /\ appended' = Append(appended, m)
  BY DEF AppendMessage
<1> DEFINE m == [role |-> role, n |-> Len(appended) + 1, cost |-> cost]
<1>2. /\ messages' = Append(messages, m) /\ appended' = Append(appended, m)
      /\ UNCHANGED <<caps, summary, snapMu, snap, snapshot, lost, squeezed, failed>>
  BY <1>1 DEF AppendMessage
<1>3. /\ messages \in Seq(Message) /\ appended \in Seq(Message) /\ Len(appended) \in Nat
      /\ TypeOK /\ Numbered /\ OneAtATime /\ SnapshotFits
      /\ Parted(FlattenSeq(summary), messages, lost, ToSet(appended))
  BY DEF WindowInv, TypeOK
<1>4. m \in Message /\ m.n = Len(appended) + 1
  BY <1>3, WindowAssumption DEF Message
<1> HIDE DEF m
<1>5. TypeOK'
  <2>1. messages' \in Seq(Message) /\ appended' \in Seq(Message)
    BY <1>2, <1>3, <1>4
  <2> QED BY <1>2, <1>3, <2>1 DEF TypeOK
<1>6. Numbered'
  <2>1. /\ Len(appended') = Len(appended) + 1 /\ appended'[Len(appended) + 1] = m
        /\ \A i \in 1 .. Len(appended) : appended'[i] = appended[i]
    BY <1>2, <1>3, <1>4
  <2> SUFFICES ASSUME NEW i \in 1 .. Len(appended') PROVE appended'[i].n = i
    BY DEF Numbered
  <2>2. i \in 1 .. Len(appended) \/ i = Len(appended) + 1
    BY <1>3, <2>1
  <2> QED BY <1>3, <1>4, <2>1, <2>2 DEF Numbered
<1>7. SnapshotFits' /\ Summarized'
  BY <1>2, <1>3 DEF SnapshotFits, Fits, Summarized, WindowInv
<1>8. Parted(FlattenSeq(summary), messages, lost, ToSet(appended))'
  <2>1. \A x \in ToSet(appended) : x.n < m.n
    <3> SUFFICES ASSUME NEW x \in ToSet(appended) PROVE x.n < m.n
      OBVIOUS
    <3>1. PICK i \in 1 .. Len(appended) : x = appended[i]
      BY <1>3, Members
    <3>2. x.n = i
      BY <1>3, <3>1 DEF Numbered
    <3> QED BY <1>3, <1>4, <3>2
  <2>2. Parted(FlattenSeq(summary), Append(messages, m), lost, ToSet(appended) \cup {m})
    BY <1>3, <1>4, <2>1, AppendParts
  <2>3. ToSet(appended') = ToSet(appended) \cup {m}
    <3>1. Append(appended, m) = appended \o <<m>> /\ <<m>> \in Seq(Message)
      BY <1>3, <1>4
    <3>2. ToSet(<<m>>) = {m}
      BY DEF ToSet
    <3> QED BY <1>2, <1>3, <3>1, <3>2, SetJoined
  <2> QED BY <1>2, <2>2, <2>3
<1>9. OneAtATime'
  <2> SUFFICES ASSUME NEW t \in Snapper, snap[t].at # "idle"
               PROVE  snapMu = t /\ Planned(snap[t], BodyOf(messages'))
    BY <1>2 DEF OneAtATime
  <2> DEFINE s == snap[t]
             b == BodyOf(messages)
             c == BodyOf(messages')
  <2>1. snapMu = t /\ Planned(s, b) /\ s.start \in Nat
    BY <1>3 DEF OneAtATime, TypeOK, Step
  <2>2. b \in Seq(Message) /\ (b = << >> \/ c = Append(b, m)) /\ c \in Seq(Message)
    <3>1. b \in Seq(Message) /\ c \in Seq(Message)
      BY <1>3, <1>5, SystemAndBody DEF TypeOK
    <3>2. CASE messages = << >>
      BY <3>1, <3>2 DEF BodyOf, IsSystem
    <3>3. CASE messages # << >>
      <4>1. /\ messages' # << >> /\ Head(messages') = Head(messages)
            /\ Tail(messages') = Append(Tail(messages), m)
        BY <1>2, <1>3, <1>4, <3>3
      <4> QED BY <1>2, <3>1, <3>3, <4>1 DEF BodyOf, IsSystem
    <3> QED BY <3>1, <3>2, <3>3
  <2> HIDE DEF s, b, c
  <2>3. s.start \in 0 .. Len(c) /\ (SubSeq(c, 1, s.start) = SubSeq(b, 1, s.start))
    <3>1. s.start \in 0 .. Len(b) /\ Len(b) \in Nat /\ Len(c) \in Nat
      BY <2>1, <2>2 DEF Planned
    <3>2. CASE b = << >>
      <4>1. s.start = 0
        BY <3>1, <3>2
      <4>2. SubSeq(c, 1, 0) = << >> /\ SubSeq(b, 1, 0) = << >>
        BY <2>2
      <4> QED BY <3>1, <4>1, <4>2
    <3>3. CASE c = Append(b, m)
      BY <1>4, <2>2, <3>1, <3>3
    <3> QED BY <2>2, <3>2, <3>3
  <2>4. Planned(s, c)
    BY <2>1, <2>3 DEF Planned
  <2> QED BY <2>1, <2>4 DEF s, c
<1> QED BY <1>5, <1>6, <1>7, <1>8, <1>9 DEF WindowInv

(* The plan is made under snapMu, which nobody else has.                   *)
LEMMA PlanKeeps == \A t \in Snapper : WindowInv /\ PlanEviction(t) => WindowInv'
<1> SUFFICES ASSUME NEW t \in Snapper, WindowInv, PlanEviction(t) PROVE WindowInv'
  OBVIOUS
<1> DEFINE k == Plan(messages, summary)
           e == IF caps.summarizer THEN SubSeq(BodyOf(messages), 1, k) ELSE << >>
           y == [at |-> "planned", start |-> k, text |-> << >>, evicted |-> e]
<1>1. /\ UNCHANGED <<caps, messages, summary, snapshot, appended, lost, squeezed, failed>>
      /\ snapMu = Nobody /\ snapMu' = t /\ snap' = [snap EXCEPT ![t] = y]
  BY DEF PlanEviction
<1>2. /\ TypeOK /\ Numbered /\ OneAtATime /\ SnapshotFits /\ Summarized
      /\ Parted(FlattenSeq(summary), messages, lost, ToSet(appended))
  BY DEF WindowInv
<1>3. k \in 0 .. Len(BodyOf(messages)) /\ BodyOf(messages) \in Seq(Message)
  BY <1>2, PlanFits, SystemAndBody DEF TypeOK
<1> HIDE DEF k
<1>4. /\ e \in Seq(Message) /\ (e = << >> \/ e = SubSeq(BodyOf(messages), 1, k)) /\ k \in Nat
      /\ caps.summarizer /\ e = << >> => k = 0
  BY <1>3
<1> HIDE DEF e
<1>5. /\ y \in Step /\ y.at = "planned" /\ y.start = k /\ y.text = << >> /\ y.evicted = e
  BY <1>4 DEF Step
<1> HIDE DEF y
<1>6. /\ snap' \in [Snapper -> Step] /\ snap'[t] = y
      /\ \A u \in Snapper : u # t => snap'[u] = snap[u]
  BY <1>1, <1>2, <1>5 DEF TypeOK
<1>7. TypeOK' /\ Numbered'
  BY <1>1, <1>2, <1>6 DEF TypeOK, Numbered
<1>8. OneAtATime'
  <2> SUFFICES ASSUME NEW u \in Snapper, snap'[u].at # "idle"
               PROVE  snapMu' = u /\ Planned(snap'[u], BodyOf(messages'))
    BY DEF OneAtATime
  <2>1. u = t
    BY <1>1, <1>2, <1>6, WindowAssumption DEF OneAtATime
  <2> QED BY <1>1, <1>3, <1>4, <1>5, <1>6, <2>1 DEF Planned
<1>9. SnapshotFits' /\ Summarized'
  <2>1. SnapshotFits'
    BY <1>1, <1>2 DEF SnapshotFits, Fits
  <2>2. ASSUME caps.summarizer, ~failed, NEW u \in Snapper
        PROVE  /\ snap'[u].at = "planned" /\ snap'[u].evicted = << >> => snap'[u].start = 0
               /\ snap'[u].at = "summarized" /\ snap'[u].text = << >> => snap'[u].start = 0
    <3>1. CASE u = t
      BY <1>4, <1>5, <1>6, <2>2, <3>1
    <3>2. CASE u # t
      BY <1>2, <1>6, <2>2, <3>2 DEF Summarized
    <3> QED BY <3>1, <3>2
  <2> QED BY <1>1, <1>2, <2>1, <2>2 DEF Summarized
<1>10. Parted(FlattenSeq(summary), messages, lost, ToSet(appended))'
  BY <1>1, <1>2
<1> QED BY <1>7, <1>8, <1>9, <1>10 DEF WindowInv

(* The Summarizer's text is about what was planned, or there is none.      *)
LEMMA SummarizeKeeps == \A t \in Snapper : WindowInv /\ Summarize(t) => WindowInv'
<1> SUFFICES ASSUME NEW t \in Snapper, WindowInv, Summarize(t) PROVE WindowInv'
  OBVIOUS
<1>1. PICK ok \in IF snap[t].evicted = << >> THEN {FALSE} ELSE BOOLEAN :
        /\ snap' = [snap EXCEPT ![t].at = "summarized",
                                ![t].text = IF ok THEN <<snap[t].evicted>> ELSE << >>]
        /\ failed' = (failed \/ (~ok /\ snap[t].evicted # << >>))
  BY DEF Summarize
<1>2. /\ TypeOK /\ Numbered /\ OneAtATime /\ SnapshotFits /\ Summarized
      /\ Parted(FlattenSeq(summary), messages, lost, ToSet(appended))
      /\ UNCHANGED <<caps, messages, summary, snapMu, snapshot, appended, lost, squeezed>>
      /\ snap[t].at = "planned"
  BY DEF WindowInv, Summarize
<1>3. /\ snap[t] \in Step /\ snap[t].start \in Nat /\ snap[t].evicted \in Seq(Message)
  BY <1>2 DEF TypeOK, Step
<1>4. PICK text \in Seq(Seq(Message)) :
        /\ text = << >> \/ (snap[t].evicted # << >> /\ text = <<snap[t].evicted>>)
        /\ ~failed' => ~failed /\ (text = << >> => snap[t].evicted = << >>)
        /\ snap' = [snap EXCEPT ![t] = [snap[t] EXCEPT !.at = "summarized", !.text = text]]
  <2> DEFINE text == IF ok THEN <<snap[t].evicted>> ELSE << >>
  <2>1. text = << >> \/ (snap[t].evicted # << >> /\ text = <<snap[t].evicted>>)
    BY <1>1, Zenon
  <2>4. ~failed' => ~failed /\ (text = << >> => snap[t].evicted = << >>)
    <3>1. <<snap[t].evicted>> # << >>
      OBVIOUS
    <3> QED BY <1>1, <3>1, Zenon
  <2>2. text \in Seq(Seq(Message))
    <3> DEFINE T == Seq(Message)
    <3>1. snap[t].evicted \in T
      BY <1>3
    <3> HIDE DEF T
    <3>2. <<snap[t].evicted>> \in Seq(T) /\ << >> \in Seq(T)
      BY <3>1
    <3> HIDE DEF text
    <3> QED BY <2>1, <3>2 DEF T
  <2>3. snap' = [snap EXCEPT ![t] = [snap[t] EXCEPT !.at = "summarized", !.text = text]]
    <3>1. snap' = [snap EXCEPT ![t].at = "summarized", ![t].text = text]
      BY <1>1
    <3> HIDE DEF text
    <3> QED BY <1>2, <3>1 DEF TypeOK
  <2> HIDE DEF text
  <2> QED BY <2>1, <2>2, <2>3, <2>4
<1> DEFINE y == [snap[t] EXCEPT !.at = "summarized", !.text = text]
<1>5. /\ y \in Step /\ y.start = snap[t].start /\ y.evicted = snap[t].evicted /\ y.text = text
      /\ y.at = "summarized"
  BY <1>3, <1>4 DEF Step
<1>6. snap' = [snap EXCEPT ![t] = y]
  BY <1>4
<1> HIDE DEF y
<1>7. /\ snap' \in [Snapper -> Step] /\ snap'[t] = y
      /\ \A u \in Snapper : u # t => snap'[u] = snap[u]
  BY <1>2, <1>5, <1>6 DEF TypeOK
<1>8. TypeOK' /\ Numbered'
  BY <1>2, <1>7 DEF TypeOK, Numbered
<1>9. OneAtATime'
  <2> SUFFICES ASSUME NEW u \in Snapper, snap'[u].at # "idle"
               PROVE  snapMu = u /\ Planned(snap'[u], BodyOf(messages))
    BY <1>2 DEF OneAtATime
  <2>1. CASE u = t
    <3>1. snapMu = t /\ Planned(snap[t], BodyOf(messages))
      BY <1>2 DEF OneAtATime
    <3> QED BY <1>4, <1>5, <1>7, <2>1, <3>1 DEF Planned
  <2>2. CASE u # t
    BY <1>2, <1>7, <2>2 DEF OneAtATime
  <2> QED BY <2>1, <2>2
<1>10. SnapshotFits' /\ Summarized'
  <2>1. SnapshotFits'
    BY <1>2 DEF SnapshotFits, Fits
  <2>2. ASSUME caps.summarizer, ~failed', NEW u \in Snapper
        PROVE  /\ snap'[u].at = "planned" /\ snap'[u].evicted = << >> => snap'[u].start = 0
               /\ snap'[u].at = "summarized" /\ snap'[u].text = << >> => snap'[u].start = 0
    <3>1. ~failed
      BY <1>4, <2>2
    <3>2. CASE u = t
      BY <1>2, <1>4, <1>5, <1>7, <2>2, <3>1, <3>2 DEF Summarized
    <3>3. CASE u # t
      BY <1>2, <1>7, <2>2, <3>1, <3>3 DEF Summarized
    <3> QED BY <3>2, <3>3
  <2> QED BY <1>2, <1>4, <2>1, <2>2 DEF Summarized
<1>11. Parted(FlattenSeq(summary), messages, lost, ToSet(appended))'
  BY <1>2
<1> QED BY <1>8, <1>9, <1>10, <1>11 DEF WindowInv

(***************************************************************************)
(* Phase 3 evicts twice: what was planned, into the summary if there is a  *)
(* text; and what is still too much, which is lost.                        *)
(***************************************************************************)
LEMMA FoldKeeps == \A t \in Snapper : WindowInv /\ Fold(t) => WindowInv'
<1> SUFFICES ASSUME NEW t \in Snapper, WindowInv, Fold(t) PROVE WindowInv'
  OBVIOUS
<1> DEFINE start == snap[t].start
           text == snap[t].text
           summed == summary \o text
           ms == IF start > 0 THEN Without(messages, start) ELSE messages
           more == Plan(ms, summed)
           final == Without(ms, more)
           gone == IF text = << >> THEN Evicted(messages, start) ELSE {}
           all == ToSet(appended)
           front == SubSeq(BodyOf(messages), 1, start)
<1>1. /\ summary' = summed /\ messages' = final
      /\ lost' = lost \cup Evicted(ms, more) \cup gone
      /\ squeezed' = squeezed \cup Evicted(ms, more)
      /\ snapshot' = Snapshot(final, summed)
      /\ snap' = [snap EXCEPT ![t] = Idle] /\ snapMu' = Nobody
      /\ UNCHANGED <<caps, appended, failed>> /\ snap[t].at = "summarized"
  BY DEF Fold
<1>2. /\ TypeOK /\ Numbered /\ OneAtATime /\ Summarized
      /\ Parted(FlattenSeq(summary), messages, lost, all)
      /\ messages \in Seq(Message) /\ summary \in Seq(Seq(Message)) /\ appended \in Seq(Message)
  BY DEF WindowInv, TypeOK
<1>3. /\ start \in 0 .. Len(BodyOf(messages)) /\ start \in Nat
      /\ text = << >> \/ (front # << >> /\ text = <<front>>)
      /\ text \in Seq(Seq(Message)) /\ snapMu = t
      /\ caps.summarizer /\ ~failed /\ text = << >> => start = 0
  <2>1. snapMu = t /\ Planned(snap[t], BodyOf(messages))
    BY <1>1, <1>2 DEF OneAtATime
  <2>2. text \in Seq(Seq(Message)) /\ start \in Nat
    BY <1>2 DEF TypeOK, Step
  <2>3. caps.summarizer /\ ~failed /\ text = << >> => start = 0
    BY <1>1, <1>2 DEF Summarized
  <2> QED BY <2>1, <2>2, <2>3 DEF Planned
<1> HIDE DEF start, text
<1>4. front \in Seq(Message) /\ (start = 0 => front = << >>)
  BY <1>2, <1>3, SystemAndBody
<1>5. /\ Parted(FlattenSeq(summary), Without(messages, start), lost \cup ToSet(front), all)
      /\ Parted(FlattenSeq(summary) \o front, Without(messages, start), lost, all)
  <2>1. front = SubSeq(BodyOf(messages), 1, start)
    OBVIOUS
  <2> HIDE DEF front
  <2> QED BY <1>2, <1>3, <2>1, EvictionParts
<1>6. Evicted(messages, start) = ToSet(front)
  BY <1>2, <1>3, EvictedIs
<1>kept. caps.summarizer /\ ~failed => gone = {}
  <2> HIDE DEF front
  <2> QED BY <1>3, <1>4, <1>6 DEF ToSet
<1>7. summed \in Seq(Seq(Message)) /\ Parted(FlattenSeq(summed), ms, lost \cup gone, all)
  <2> HIDE DEF front
  <2>1. CASE text = << >>
    <3>1. summed = summary /\ gone = ToSet(front)
      BY <1>2, <1>6, <2>1
    <3>2. CASE start > 0
      BY <1>2, <1>5, <3>1, <3>2
    <3>3. CASE ~ (start > 0)
      <4>1. front = << >> /\ ms = messages
        BY <1>3, <1>4, <3>3
      <4>2. lost \cup gone = lost
        BY <3>1, <4>1 DEF ToSet
      <4> HIDE DEF ms, gone, summed
      <4> QED BY <1>2, <3>1, <4>1, <4>2
    <3> QED BY <3>2, <3>3
  <2>2. CASE front # << >> /\ text = <<front>>
    <3>1. summed = Append(summary, front) /\ text # << >> /\ gone = {} /\ lost \cup gone = lost
      BY <1>2, <1>4, <2>2
    <3>2. ms = Without(messages, start)
      BY <1>3, <1>4, <2>2
    <3>3. FlattenSeq(Append(summary, front)) = FlattenSeq(summary) \o front
      BY <1>2, <1>4, FlatAppend
    <3>4. Append(summary, front) \in Seq(Seq(Message))
      BY <1>2, <1>4
    <3> HIDE DEF ms, gone, summed
    <3> QED BY <1>5, <3>1, <3>2, <3>3, <3>4
  <2> QED BY <1>3, <2>1, <2>2
<1> HIDE DEF summed, ms, gone, front
<1>8. ms \in Seq(Message)
  BY <1>7 DEF Parted
<1>9. more \in 0 .. Len(BodyOf(ms))
  BY <1>8, PlanFits
<1>10. BodyOf(final) # << >> => Fits(SystemOf(final), BodyOf(final), summed)
  <2> HIDE DEF more
  <2>1. final = Without(ms, more) /\ more = Plan(ms, summed)
    BY DEF more
  <2> HIDE DEF final
  <2> QED BY <1>7, <1>8, <2>1, LeftFits
<1> HIDE DEF more
<1>11. Parted(FlattenSeq(summed), final, lost', all)
  <2> DEFINE a == SubSeq(BodyOf(ms), 1, more)
  <2>1. a = SubSeq(BodyOf(ms), 1, more)
    OBVIOUS
  <2>2. Evicted(ms, more) = ToSet(a)
    BY <1>8, <1>9, EvictedIs
  <2> HIDE DEF a
  <2>3. Parted(FlattenSeq(summed), Without(ms, more), (lost \cup gone) \cup ToSet(a), all)
    BY <1>7, <1>9, <2>1, EvictionParts
  <2>4. lost' = (lost \cup gone) \cup ToSet(a)
    BY <1>1, <2>2
  <2> QED BY <2>3, <2>4
<1>12. final \in Seq(Message)
  BY <1>11 DEF Parted
<1> HIDE DEF final
<1>13. Idle \in Step /\ Idle.at = "idle"
  BY DEF Idle, Step
<1>14. /\ snap' \in [Snapper -> Step] /\ snap'[t] = Idle
       /\ \A u \in Snapper : u # t => snap'[u] = snap[u]
  BY <1>1, <1>2, <1>13 DEF TypeOK
<1>15. TypeOK' /\ Numbered'
  BY <1>1, <1>2, <1>7, <1>12, <1>14 DEF TypeOK, Numbered
<1>16. OneAtATime'
  <2>1. \A u \in Snapper : snap'[u].at = "idle"
    BY <1>2, <1>3, <1>13, <1>14 DEF OneAtATime
  <2> QED BY <2>1 DEF OneAtATime
<1>17. SnapshotFits' /\ Summarized'
  <2>1. /\ snapshot'.sys = SystemOf(final) /\ snapshot'.body = BodyOf(final)
        /\ snapshot'.summary = summed /\ caps' = caps
        /\ snapshot'.header = IF summed = << >> THEN 0 ELSE HeaderCost
    BY <1>1 DEF Snapshot
  <2>2. SystemOf(final) \in Seq(Message) /\ BodyOf(final) \in Seq(Message)
    BY <1>12, SystemAndBody
  <2>3. SnapshotFits'
    BY <1>7, <1>10, <2>1, <2>2 DEF SnapshotFits, Fits
  <2>4. \A u \in Snapper : snap'[u].at = "idle"
    BY <1>2, <1>3, <1>13, <1>14 DEF OneAtATime
  <2>5. caps.summarizer /\ ~failed => lost' = squeezed'
    BY <1>1, <1>2, <1>kept DEF Summarized
  <2> QED BY <1>1, <2>3, <2>4, <2>5 DEF Summarized
<1>18. Parted(FlattenSeq(summary), messages, lost, ToSet(appended))'
  BY <1>1, <1>11 DEF all
<1> QED BY <1>15, <1>16, <1>17, <1>18 DEF WindowInv

-----------------------------------------------------------------------------
(* The invariant of the window, under any interleaving of its callers.     *)
THEOREM WindowInductive == WindowSpec => []WindowInv
<1>1. WindowInit => WindowInv
  BY InitHolds
<1>2. WindowInv /\ [WindowNext]_windowVars => WindowInv'
  <2>1. WindowInv /\ UNCHANGED windowVars => WindowInv'
    <3> SUFFICES ASSUME WindowInv, UNCHANGED windowVars PROVE WindowInv'
      OBVIOUS
    <3> USE DEF windowVars
    <3>1. TypeOK'
      BY DEF WindowInv, TypeOK
    <3>2. Numbered' /\ OneAtATime' /\ Summarized'
      BY DEF WindowInv, Numbered, OneAtATime, Summarized
    <3>3. SnapshotFits'
      BY DEF WindowInv, SnapshotFits, Fits
    <3>4. Parted(FlattenSeq(summary), messages, lost, ToSet(appended))'
      BY DEF WindowInv
    <3> QED BY <3>1, <3>2, <3>3, <3>4 DEF WindowInv
  <2> QED BY <2>1, AppendKeeps, PlanKeeps, SummarizeKeeps, FoldKeeps DEF WindowNext
<1> QED BY <1>1, <1>2, PTL DEF WindowSpec

(***************************************************************************)
(* memory.Window keeps the conversation: however Append and Snapshot       *)
(* interleave around the Summarizer, every message is kept, summarised or  *)
(* evicted, once and in order; only what the second look at the caps drops *)
(* escapes a Summarizer that always gives its text; and while a message is *)
(* left to evict a snapshot has no more than MaxMessages messages, and of  *)
(* MaxTokens exceeds at most the tokens of the header over its summary.    *)
(***************************************************************************)
THEOREM ConversationsAreKept == WindowSpec => []ConversationIsKept
<1>1. WindowInv => ConversationIsKept
  <2> SUFFICES ASSUME WindowInv PROVE ConversationIsKept
    OBVIOUS
  <2> DEFINE F == FlattenSeq(summary)
             b == BodyOf(messages)
             told == F \o b
  <2>1. /\ F \in Seq(Message) /\ messages \in Seq(Message) /\ Inc(F) /\ Inc(b) /\ Ahead(F, b)
        /\ (ToSet(F) \cup ToSet(b)) \cap lost = {}
        /\ ToSet(F) \cup ToSet(b) \cup ToSet(SystemOf(messages)) \cup lost = ToSet(appended)
        /\ SnapshotFits
    BY DEF WindowInv, Parted
  <2>caps. caps.messages \in Nat /\ caps.tokens \in Nat
    BY DEF WindowInv, TypeOK
  <2>2. b \in Seq(Message)
    BY <2>1, SystemAndBody
  <2> HIDE DEF F, b
  <2>3. /\ told \in Seq(Message) /\ ToSet(told) = ToSet(F) \cup ToSet(b) /\ Inc(told)
    BY <2>1, <2>2, SetJoined, IncJoined
  <2>4. DOMAIN told = 1 .. Len(told)
    BY <2>3
  <2> HIDE DEF told
  <2>5. \A i, j \in DOMAIN told : i < j => told[i].n < told[j].n
    BY <2>3, <2>4 DEF Inc
  <2>6. ToSet(told) \cap lost = {}
    BY <2>1, <2>3
  <2>7. ToSet(told) \cup ToSet(SystemOf(messages)) \cup lost = ToSet(appended)
    BY <2>1, <2>3
  <2>8. snapshot.body # << >> => Honors(snapshot, HeaderCost)
    <3> DEFINE sn == snapshot
               weight == SummaryCost * Len(sn.summary)
    <3>1. /\ Tokens(sn.sys) \in Nat /\ Tokens(sn.body) \in Nat
          /\ Len(sn.sys) \in Nat /\ Len(sn.body) \in Nat /\ Len(sn.summary) \in Nat
      BY <2>1, TokensType DEF SnapshotFits
    <3>2. weight \in Nat /\ sn.header \in Nat /\ sn.header <= HeaderCost
      BY <2>1, <3>1, WindowAssumption DEF SnapshotFits
    <3> HIDE DEF weight
    <3> SUFFICES ASSUME sn.body # << >> PROVE Honors(sn, HeaderCost)
      OBVIOUS
    <3>3. Fits(sn.sys, sn.body, sn.summary)
      BY <2>1 DEF SnapshotFits
    <3>4. caps.messages = 0 \/ CountOf(sn) <= caps.messages
      <4> DEFINE slot == IF sn.summary # << >> \/ caps.summarizer THEN 1 ELSE 0
                 one == IF sn.summary = << >> THEN 0 ELSE 1
      <4>1. caps.messages = 0 \/ Len(sn.sys) + slot + Len(sn.body) <= caps.messages
        BY <3>3 DEF Fits
      <4>2. slot \in Nat /\ one \in Nat /\ one <= slot
        OBVIOUS
      <4>3. CountOf(sn) = Len(sn.sys) + one + Len(sn.body)
        BY DEF CountOf
      <4> DEFINE x == Len(sn.sys)
                 y == Len(sn.body)
      <4>4. x \in Nat /\ y \in Nat
        BY <3>1
      <4>5. caps.messages = 0 \/ x + slot + y <= caps.messages
        BY <4>1
      <4>6. CountOf(sn) = x + one + y
        BY <4>3
      <4> HIDE DEF slot, one, x, y, sn
      <4> QED BY <4>2, <4>4, <4>5, <4>6, <2>caps
    <3>5. caps.tokens = 0 \/ TokensOf(sn) <= caps.tokens + HeaderCost
      <4>1. caps.tokens = 0 \/ Tokens(sn.sys) + weight + Tokens(sn.body) <= caps.tokens
        BY <3>3 DEF Fits, weight
      <4>2. TokensOf(sn) = Tokens(sn.sys) + sn.header + weight + Tokens(sn.body)
        BY DEF TokensOf, weight
      <4> DEFINE x == Tokens(sn.sys)
                 y == Tokens(sn.body)
                 h == sn.header
      <4>3. x \in Nat /\ y \in Nat /\ h \in Nat /\ h <= HeaderCost /\ weight \in Nat
        BY <3>1, <3>2
      <4>4. caps.tokens = 0 \/ x + weight + y <= caps.tokens
        BY <4>1
      <4>5. TokensOf(sn) = x + h + weight + y
        BY <4>2
      <4> HIDE DEF x, y, h, sn
      <4> QED BY <4>3, <4>4, <4>5, <2>caps, WindowAssumption
    <3> QED BY <3>4, <3>5 DEF Honors
  <2>9. caps.summarizer /\ ~failed => lost = squeezed
    BY DEF WindowInv, Summarized
  <2> QED BY <2>5, <2>6, <2>7, <2>8, <2>9 DEF ConversationIsKept, told, F, b
<1> QED BY <1>1, WindowInductive, PTL


-----------------------------------------------------------------------------
(***************************************************************************)
(* Embedders. A vector has a text and a size; a hole has none.             *)
(***************************************************************************)
Vector == [of : STRING \cup {"nothing"}, size : Nat]
AskedOf ==
  [at : {"batch", "asked", "sleep", "returned"}, asked : Nat, attempt : Nat, vecs : Seq(Vector),
   error : {"", "answer", "refused", "down", "context"}]

Told(a, asked) == IF a.honours /\ asked > 0 THEN asked ELSE Native
TextsCount(a) == a.adapter # "openai" \/ a.service \notin {"unlabelled", "doubled"}

(* A sequence has a length, and that of some elements or none.              *)
LEMMA Lengths ==
  ASSUME NEW T, NEW s \in Seq(T)
  PROVE  /\ Len(s) \in Nat /\ DOMAIN s = 1 .. Len(s)
         /\ s # << >> => Len(s) >= 1
         /\ s = << >> => Len(s) = 0
BY EmptySeq, LenProperties

LEMMA NothingThere ==
  ASSUME NEW s, s = << >>
  PROVE  (\A i \in DOMAIN s : FALSE) /\ Len(s) = 0
<1>1. << >> \in Seq(Nat)
  BY EmptySeq
<1> QED BY <1>1, Lengths

LEMMA Lengthened ==
  ASSUME NEW T, NEW s \in Seq(T), NEW t \in Seq(T)
  PROVE  LET both == s \o t IN
         /\ both \in Seq(T) /\ Len(both) = Len(s) + Len(t) /\ DOMAIN both = 1 .. Len(s) + Len(t)
         /\ \A i \in 1 .. Len(s) : both[i] = s[i]
         /\ \A i \in 1 .. Len(t) : both[Len(s) + i] = t[i]
BY ConcatProperties, LenProperties

(* The last of a set of positions.                                         *)
LEMMA GreatestOf ==
  ASSUME NEW N \in Nat, NEW S, S \subseteq 1 .. N, NEW m \in S
  PROVE  Max(S) \in S
<1> DEFINE Back == {N - y : y \in S}
<1>1. Back \subseteq Nat /\ N - m \in Back
  OBVIOUS
<1>2. Min(Back) \in Back /\ \A y \in Back : Min(Back) <= y
  <2> HIDE DEF Back
  <2> QED BY <1>1, LeastOf
<1>3. PICK x \in S : Min(Back) = N - x
  BY <1>2
<1>4. \A y \in S : x >= y
  <2> TAKE y \in S
  <2>1. N - y \in Back /\ x \in Nat /\ y \in Nat
    OBVIOUS
  <2>2. N - x <= N - y
    BY <1>2, <1>3, <2>1
  <2> QED BY <2>1, <2>2
<1> QED BY <1>4 DEF Max

(* An order names every position.                                          *)
LEMMA OrdersAreOnto ==
  ASSUME NEW n \in Nat, NEW p \in Orders(n)
  PROVE  p \in [1 .. n -> 1 .. n] /\ \A k \in 1 .. n : \E i \in 1 .. n : p[i] = k
<1>1. CASE p = [i \in 1 .. n |-> i]
  BY <1>1
<1>2. CASE p \in [1 .. n -> 1 .. n] /\ Cardinality({p[i] : i \in 1 .. n}) = n
  <2>1. IsFiniteSet(1 .. n) /\ Cardinality(1 .. n) = n
    BY FS_Interval
  <2>2. {p[i] : i \in 1 .. n} \in SUBSET (1 .. n)
    BY <1>2
  <2>3. {p[i] : i \in 1 .. n} = 1 .. n
    BY <1>2, <2>1, <2>2, FS_Subset
  <2> QED BY <1>2, <2>3
<1> QED BY <1>1, <1>2 DEF Orders

LEMMA HoleIsAVector == Hole \in Vector
BY DEF Hole, Vector

(* The index of the i-th vector, by the service.                           *)
LEMMA IndexIs ==
  ASSUME NEW i \in Nat, NEW n \in Nat
  PROVE  /\ asks.service = "unlabelled" => Index(i, n) = 0
         /\ asks.service = "from one" => Index(i, n) = i
         /\ asks.service = "doubled" => Index(i, n) = IF i = n /\ n > 1 THEN n - 2 ELSE i - 1
         /\ asks.service \in {"labelled", "short"} => Index(i, n) = i - 1
BY DEF Index

(***************************************************************************)
(* What an answer that misses nothing puts into the places of a batch: its *)
(* own vectors, of the size the service gives, and one in the first place. *)
(***************************************************************************)
LEMMA AnswerFits ==
  ASSUME asks \in Embeds, NEW batch \in Seq(STRING), batch # << >>, NEW asked \in Nat,
         NEW data \in Answers(batch, asked), ~Misses(data, Len(batch))
  PROVE  LET got == Placed(data, Len(batch)) IN
         /\ got \in Seq(Vector) /\ Len(got) = Len(batch) /\ got[1] # Hole
         /\ \A k \in DOMAIN got : got[k] = Hole \/ got[k].size = Told(asks, asked)
         /\ TextsCount(asks) => \A k \in DOMAIN got : got[k].of = batch[k]
<1> DEFINE n == Len(batch)
           got == Placed(data, n)
           size == Told(asks, asked)
           sent == IF asks.service = "short" THEN n - 1 ELSE n
           to(i) == Slot(data, n, i)
<1>1. n \in Nat /\ n >= 1 /\ batch \in [1 .. n -> STRING]
  BY EmptySeq, LenProperties
<1>2. sent \in Nat /\ sent <= n
  BY <1>1
<1>3. size \in Nat /\ size >= 1
  <2>0. Native \in Nat \ {0}
    BY Zenon, EmbedAssumption
  <2>1. Native \in Nat /\ Native >= 1
    BY <2>0
  <2>2. (Told(asks, asked) = asked /\ asked > 0) \/ Told(asks, asked) = Native
    BY Zenon DEF Told
  <2> QED BY <2>1, <2>2
<1>4. /\ asks.adapter \in {"http", "tei", "openai", "google", "titan", "cohere"}
      /\ asks.service \in {"labelled", "unlabelled", "from one", "short", "doubled"}
  BY EmbedAssumption
<1>5. PICK p \in Orders(n) :
        data = [i \in 1 .. sent |-> [index |-> Index(p[i], n), vec |-> [of |-> batch[p[i]], size |-> size]]]
  BY DEF Answers, Told
<1>6. p \in [1 .. n -> 1 .. n] /\ \A k \in 1 .. n : \E i \in 1 .. n : p[i] = k
  BY <1>1, OrdersAreOnto
<1>7. asks.adapter \notin Labels \/ asks.service # "labelled" => \A i \in 1 .. n : p[i] = i
  BY <1>5 DEF Orders
<1>8. Misses(data, n) = FALSE
  OBVIOUS
<1> HIDE DEF n, sent, size
<1>9. DOMAIN data = 1 .. sent /\ Len(data) = sent
  BY <1>2, <1>5
<1>10. \A i \in 1 .. sent : /\ data[i].index = Index(p[i], n)
                          /\ data[i].vec = [of |-> batch[p[i]], size |-> size]
  BY <1>5
<1>11. \A i \in 1 .. sent : /\ data[i].vec \in Vector /\ data[i].vec # Hole
                          /\ data[i].vec.size = size /\ data[i].vec.of = batch[p[i]]
  <2> TAKE i \in 1 .. sent
  <2>1. batch[p[i]] \in STRING
    <3>1. i \in 1 .. n
      BY <1>1, <1>2
    <3> QED BY <1>1, <1>6, <3>1
  <2>2. data[i].vec = [of |-> batch[p[i]], size |-> size]
    BY <1>10
  <2> QED BY <1>3, <2>1, <2>2 DEF Vector, Hole
(* A place has the last vector that was sent to it, or none was.           *)
<1>12. ASSUME NEW k \in 1 .. n
       PROVE  \/ \E i \in 1 .. sent : to(i) = k /\ got[k] = data[i].vec
              \/ got[k] = Hole /\ \A i \in 1 .. sent : to(i) # k
  <2> DEFINE there == {i \in DOMAIN data : to(i) = k}
  <2>1. got[k] = IF there = {} THEN Hole ELSE data[Max(there)].vec
    BY DEF Placed
  <2>2. there \subseteq 1 .. sent /\ \A i \in there : to(i) = k
    BY <1>9
  <2>3. there = {} => \A i \in 1 .. sent : to(i) # k
    BY <1>9
  <2> HIDE DEF there, to, got
  <2>4. CASE there = {}
    BY <2>1, <2>3, <2>4
  <2>5. ASSUME NEW m \in there PROVE Max(there) \in there
    BY <1>2, <2>2, GreatestOf
  <2>6. CASE there # {}
    <3>1. Max(there) \in there
      BY <2>5, <2>6
    <3> QED BY <2>1, <2>2, <2>6, <3>1
  <2> QED BY <2>4, <2>6
<1>13. DOMAIN got = 1 .. n
  BY DEF Placed
<1>14. \A k \in 1 .. n : got[k] = Hole \/ (got[k] \in Vector /\ got[k].size = size)
  <2> HIDE DEF got, to
  <2> QED BY <1>11, <1>12
<1>15. got \in Seq(Vector) /\ Len(got) = n
  <2>2. Hole \in Vector
    BY HoleIsAVector
  <2>3. got = [k \in 1 .. n |-> got[k]]
    BY DEF Placed
  <2> HIDE DEF got
  <2>4. got \in [1 .. n -> Vector]
    BY <1>14, <2>2, <2>3
  <2> QED BY <1>1, <2>4
<1>16. /\ asks.adapter # "http" => sent = n
       /\ \A i \in 1 .. sent : to(i) \in 1 .. n
       /\ asks.adapter = "http" => \A k \in 1 .. n : got[k] # Hole
  BY <1>8, <1>9 DEF Misses
<1>17. \A i \in 1 .. sent :
         to(i) = IF asks.adapter \notin Labels \/ (asks.adapter = "http" /\ data[i].index \notin 0 .. n - 1)
                 THEN i ELSE data[i].index + 1
  BY DEF Slot
<1> HIDE DEF got, to
(* Every text has its vector, or the answer would have been refused.       *)
<1>18. ASSUME TextsCount(asks), NEW k \in 1 .. n
       PROVE  got[k] # Hole /\ got[k].of = batch[k]
  <2>0. ASSUME NEW j \in 1 .. sent, to(j) = k PROVE \E i \in 1 .. sent : to(i) = k /\ got[k] = data[i].vec
    BY <1>12, <2>0
  <2>1. CASE asks.adapter \notin Labels
    <3>1. \A i \in 1 .. n : to(i) = i /\ p[i] = i /\ sent = n
      BY <1>7, <1>16, <1>17, <2>1 DEF Labels
    <3>2. PICK i \in 1 .. sent : to(i) = k /\ got[k] = data[i].vec
      BY <2>0, <3>1
    <3>3. p[i] = k
      BY <1>1, <1>2, <3>1, <3>2
    <3> QED BY <1>10, <1>11, <3>2, <3>3
  <2>2. CASE asks.adapter \in Labels /\ asks.service = "labelled"
    <3>1. sent = n
      BY <2>2 DEF sent
    <3>2. \A i \in 1 .. n : p[i] \in 1 .. n /\ data[i].index = p[i] - 1
      BY <1>6, <1>10, <2>2, <3>1 DEF Index
    <3>3. \A i \in 1 .. n : to(i) = p[i]
      <4> TAKE i \in 1 .. n
      <4>1. p[i] \in Nat /\ p[i] - 1 \in 0 .. n - 1 /\ (p[i] - 1) + 1 = p[i]
        BY <1>1, <3>2
      <4> QED BY <1>17, <2>2, <3>1, <3>2, <4>1
    <3>4. PICK j \in 1 .. n : p[j] = k
      BY <1>6
    <3>5. PICK i \in 1 .. sent : to(i) = k /\ got[k] = data[i].vec
      BY <2>0, <3>1, <3>3, <3>4
    <3>6. p[i] = k
      BY <3>1, <3>3, <3>5
    <3> QED BY <1>10, <1>11, <3>5, <3>6
  <2>3. CASE asks.adapter \in Labels /\ asks.service # "labelled"
    <3>1. \A i \in 1 .. n : p[i] = i
      BY <1>7, <2>3
    <3>2. asks.adapter = "http" \/ (asks.adapter = "openai" /\ sent = n /\ EachIndexOnce)
      BY <1>16, <1>18, <2>3 DEF TextsCount, Labels, EachIndexOnce
    <3>3. asks.adapter = "http" => \A j \in 1 .. n : \E i \in 1 .. sent : to(i) = j /\ got[j] = data[i].vec
      BY <1>12, <1>16
    <3>4. CASE asks.service = "short"
      <4>1. asks.adapter = "http" /\ sent = n - 1
        BY <1>1, <3>2, <3>4 DEF sent
      <4>2. \A i \in 1 .. sent : data[i].index = i - 1
        <5> TAKE i \in 1 .. sent
        <5>1. p[i] = i /\ i \in Nat
          BY <1>1, <3>1, <4>1
        <5> QED BY <1>1, <1>10, <3>4, <5>1, IndexIs
      <4>3. \A i \in 1 .. sent : to(i) = i
        <5> TAKE i \in 1 .. sent
        <5>1. i \in Nat /\ i >= 1 /\ data[i].index = i - 1 /\ (i - 1) + 1 = i
          BY <1>2, <4>2
        <5> QED BY <1>17, <5>1
      <4> QED BY <1>1, <3>3, <4>1, <4>3
    <3>5. CASE asks.service = "unlabelled"
      <4>1. asks.adapter = "http" /\ sent = n
        BY <3>2, <3>5 DEF EachIndexOnce, sent
      <4>2. \A i \in 1 .. sent : data[i].index = 0
        BY <1>10, <3>1, <3>5, <4>1 DEF Index
      <4>3. \A i \in 1 .. sent : to(i) = 1
        BY <1>1, <1>17, <2>3, <4>2
      <4>4. n = 1
        <5>1. n \in 1 .. n
          BY <1>1
        <5>2. PICK i \in 1 .. sent : to(i) = n
          BY <3>3, <4>1, <5>1
        <5>3. to(i) = 1
          BY <4>3
        <5> QED BY <5>2, <5>3
      <4> QED BY <1>10, <1>11, <3>1, <3>3, <4>1, <4>4
    <3>6. CASE asks.service = "from one"
      <4>1. \A i \in 1 .. n : data[i].index = i /\ sent = n
        BY <1>1, <1>10, <3>1, <3>6 DEF Index, sent
      <4>2. asks.adapter = "http"
        <5>1. SUFFICES ASSUME asks.adapter = "openai" PROVE FALSE
          BY <3>2
        <5>2. n \in 1 .. n /\ n \in 1 .. sent /\ data[n].index = n
          BY <1>1, <4>1
        <5>3. to(n) = n + 1
          BY <1>17, <2>3, <5>1, <5>2
        <5> QED BY <1>1, <1>16, <5>2, <5>3
      <4>3. \A i \in 1 .. n : to(i) # 1 \/ i = n
        BY <1>1, <1>17, <2>3, <4>1
      <4>4. n = 1 /\ sent = n
        <5>0. 1 \in 1 .. n
          BY <1>1
        <5>1. PICK i \in 1 .. sent : to(i) = 1
          BY <3>3, <4>2, <5>0
        <5>2. i = n /\ sent = n
          BY <1>1, <4>1, <4>3, <5>1, <1>2
        <5>3. to(n) = n
          BY <1>1, <1>17, <2>3, <4>1, <4>2, <5>2
        <5> QED BY <5>1, <5>2, <5>3
      <4> QED BY <1>10, <1>11, <3>1, <3>3, <4>2, <4>4
    <3>7. CASE asks.service = "doubled"
      <4>1. asks.adapter = "http" /\ sent = n
        BY <3>2, <3>7 DEF EachIndexOnce, sent
      <4>2. \A i \in 1 .. n : data[i].index = IF i = n /\ n > 1 THEN n - 2 ELSE i - 1
        BY <1>1, <1>10, <3>1, <3>7, <4>1 DEF Index
      <4>3. \A i \in 1 .. n : to(i) = IF i = n /\ n > 1 THEN n - 1 ELSE i
        <5> TAKE i \in 1 .. n
        <5>1. data[i].index \in 0 .. n - 1
          BY <1>1, <4>2
        <5> QED BY <1>1, <1>17, <2>3, <4>1, <4>2, <5>1
      <4>4. n = 1
        <5>1. PICK i \in 1 .. n : to(i) = n
          BY <1>1, <3>3, <4>1
        <5> QED BY <1>1, <4>3, <5>1
      <4> QED BY <1>10, <1>11, <3>1, <3>3, <4>1, <4>4
    <3> QED BY <1>4, <2>3, <3>4, <3>5, <3>6, <3>7
  <2> QED BY <2>1, <2>2, <2>3
(* openai's embedder leaves holes, but never the first.                    *)
<1>19. got[1] # Hole
  <2>1. CASE TextsCount(asks)
    BY <1>1, <1>18, <2>1
  <2>2. CASE ~TextsCount(asks)
    <3>1. asks.adapter = "openai" /\ asks.service \in {"unlabelled", "doubled"}
      BY <2>2 DEF TextsCount, EachIndexOnce
    <3>2. sent = n /\ 1 \in 1 .. n
      BY <1>1, <3>1 DEF sent
    <3>3. p[1] = 1
      BY <1>7, <3>1, <3>2
    <3>4. data[1].index = 0
      <4>1. CASE asks.service = "unlabelled"
        BY <1>10, <3>2, <3>3, <4>1 DEF Index
      <4>2. CASE asks.service = "doubled"
        <5>1. Index(1, n) = 0
          BY <1>1, <4>2 DEF Index
        <5> QED BY <1>10, <3>2, <3>3, <5>1
      <4> QED BY <3>1, <4>1, <4>2
    <3>5. to(1) = 1
      BY <1>17, <3>1, <3>2, <3>4 DEF Labels
    <3> QED BY <1>11, <1>12, <3>2, <3>5
  <2> QED BY <2>1, <2>2
<1>20. \A k \in DOMAIN got : got[k] = Hole \/ got[k].size = size
  BY <1>13, <1>14
<1>21. TextsCount(asks) => \A k \in DOMAIN got : got[k].of = batch[k]
  BY <1>13, <1>18
<1> QED BY <1>15, <1>19, <1>20, <1>21 DEF n, got, size


(* The texts of a request: the next ones, one at least.                    *)
LEMMA BatchIs ==
  ASSUME asks \in Embeds, NEW c \in Caller, embed[c].vecs \in Seq(Vector),
         Len(embed[c].vecs) < Len(asks.texts[c])
  PROVE  LET vecs  == embed[c].vecs
             texts == asks.texts[c]
             batch == NextBatch(c)
         IN /\ texts \in Seq(STRING)
            /\ batch \in Seq(STRING) /\ batch # << >> /\ Len(vecs) + Len(batch) <= Len(texts)
            /\ \A k \in 1 .. Len(batch) : batch[k] = texts[Len(vecs) + k]
<1> DEFINE texts == asks.texts[c]
           start == Len(embed[c].vecs)
           size  == CASE asks.adapter = "titan" -> 1
                      [] asks.adapter \in {"http", "tei", "cohere"} -> BatchLimit
                      [] OTHER -> Len(texts)
           last  == Min({start + size, Len(texts)})
<1>1. texts \in Seq(STRING) /\ start \in Nat /\ Len(texts) \in Nat /\ start < Len(texts)
  <2>1. asks.texts \in [Caller -> Seq(STRING)]
    BY Zenon, EmbedAssumption
  <2>2. texts \in Seq(STRING)
    BY <2>1
  <2> QED BY <2>2, LenProperties
<1>2. BatchLimit \in Nat \ {0}
  BY Zenon, EmbedAssumption
<1>3. size \in Nat /\ size >= 1
  <2>1. size = 1 \/ size = BatchLimit \/ size = Len(texts)
    OBVIOUS
  <2> HIDE DEF size, texts
  <2> QED BY <1>1, <1>2, <2>1
<1>4. NextBatch(c) = SubSeq(texts, start + 1, last)
  BY DEF NextBatch
<1> HIDE DEF texts, start, size
<1>5. last \in start + 1 .. Len(texts)
  <2>1. {start + size, Len(texts)} \subseteq Nat
    BY <1>1, <1>3
  <2>2. last \in {start + size, Len(texts)} /\ last <= Len(texts)
    BY <2>1, LeastOf
  <2> HIDE DEF last
  <2> QED BY <1>1, <1>3, <2>2
<1> HIDE DEF last
<1>6. /\ NextBatch(c) \in Seq(STRING) /\ Len(NextBatch(c)) = last - start
      /\ \A k \in 1 .. last - start : NextBatch(c)[k] = texts[start + k]
  <2>1. NextBatch(c) = [k \in 1 .. last - start |-> texts[start + k]]
    BY <1>1, <1>4, <1>5
  <2>2. \A k \in 1 .. last - start : texts[start + k] \in STRING
    BY <1>1, <1>5
  <2>3. last - start \in Nat
    BY <1>1, <1>5
  <2> QED BY <2>1, <2>2, <2>3
<1> QED BY <1>1, <1>5, <1>6 DEF texts, start

(***************************************************************************)
(* The size every vector of the embedder has: the configured one, if it is *)
(* sent and heeded. dim is not known yet, or it is that of the vectors or  *)
(* the configured one.                                                     *)
(***************************************************************************)
SizeOf(a) ==
  IF a.dim > 0 /\ a.honours /\ a.adapter \notin {"tei", "cohere"} THEN a.dim ELSE Native

CallFits(one, texts, a, d) ==
  LET vecs == one.vecs IN
  /\ one.at # "returned" => one.error = "" /\ Len(vecs) < Len(texts)
  /\ one.at = "returned" => IF one.error # "" THEN vecs = << >> ELSE Len(vecs) = Len(texts)
  /\ one.at \in {"asked", "sleep"} => Told(a, one.asked) = SizeOf(a)
  /\ \A i \in DOMAIN vecs : vecs[i] = Hole \/ vecs[i].size = SizeOf(a)
  /\ TextsCount(a) => \A i \in DOMAIN vecs : vecs[i].of = texts[i]
  /\ vecs # << >> => vecs[1] # Hole
  /\ one.at = "returned" /\ vecs # << >> => d # 0

(* A call with no vectors fits once it failed, and until it is returned.   *)
LEMMA EmptyFits ==
  ASSUME NEW one, NEW texts, NEW a, NEW d, one.vecs = << >>,
         \/ one.at = "returned" /\ (one.error # "" \/ Len(texts) = 0)
         \/ one.at = "batch" /\ one.error = "" /\ 0 < Len(texts)
  PROVE  CallFits(one, texts, a, d)
<1>3. (\A i \in DOMAIN one.vecs : FALSE) /\ Len(one.vecs) = 0
  BY NothingThere
<1>4. CASE one.at = "returned"
  BY <1>3, <1>4 DEF CallFits
<1>5. CASE one.at = "batch"
  <2>1. one.error = "" /\ Len(one.vecs) < Len(texts)
    <3>1. one.error = "" /\ 0 < Len(texts)
      BY <1>5
    <3> QED BY <1>3, <3>1, Zenon
  <2> QED BY <1>3, <1>5, <2>1 DEF CallFits
<1> QED BY <1>4, <1>5

LEMMA AskedFields ==
  ASSUME NEW one \in AskedOf
  PROVE  /\ one.at \in {"batch", "asked", "sleep", "returned"}
         /\ one.asked \in Nat /\ one.attempt \in Nat /\ one.vecs \in Seq(Vector)
BY DEF AskedOf

(* What a call that succeeded gives.                                       *)
LEMMA FitsSays ==
  ASSUME NEW T, NEW one \in AskedOf, NEW texts \in Seq(T), NEW a, NEW d,
         CallFits(one, texts, a, d), one.at = "returned"
  PROVE  IF one.error # "" THEN one.vecs = << >>
         ELSE /\ Len(one.vecs) = Len(texts)
              /\ TextsCount(a) => \A i \in DOMAIN texts : one.vecs[i].of = texts[i]
              /\ \A i \in DOMAIN texts :
                   /\ d # 0
                   /\ one.vecs[i] = Hole \/ one.vecs[i].size = SizeOf(a)
<1>1. CASE one.error # ""
  BY <1>1 DEF CallFits
<1>2. CASE one.error = ""
  <2>1. Len(one.vecs) = Len(texts)
    BY <1>2 DEF CallFits
  <2>2. DOMAIN one.vecs = DOMAIN texts
    BY <2>1, AskedFields, Lengths
  <2>3. ASSUME NEW i \in DOMAIN texts
        PROVE  d # 0 /\ (one.vecs[i] = Hole \/ one.vecs[i].size = SizeOf(a))
    <3>1. one.vecs # << >>
      <4>1. SUFFICES ASSUME one.vecs = << >> PROVE FALSE
        OBVIOUS
      <4>2. DOMAIN one.vecs = 1 .. 0
        BY <4>1, AskedFields, Lengths
      <4> QED BY <2>2, <2>3, <4>2
    <3> QED BY <2>2, <3>1 DEF CallFits
  <2>4. TextsCount(a) => \A i \in DOMAIN texts : one.vecs[i].of = texts[i]
    BY <2>2 DEF CallFits
  <2> QED BY <1>2, <2>1, <2>3, <2>4
<1> QED BY <1>1, <1>2

CallInv(c) == CallFits(embed[c], asks.texts[c], asks, dim)

EmbedInv ==
  /\ asks \in Embeds
  /\ dim \in IF asks.dim > 0 THEN {asks.dim} ELSE {0, Native}
  /\ embed \in [Caller -> AskedOf]
  /\ \A c \in Caller : CallInv(c)

(* What the assumption says of the ask there is.                           *)
LEMMA AsksType ==
  ASSUME asks \in Embeds
  PROVE  /\ asks.dim \in Nat /\ Native \in Nat /\ Native >= 1 /\ asks.honours \in BOOLEAN
         /\ asks.texts \in [Caller -> Seq(STRING)]
<1>1. Native \in Nat \ {0}
  BY Zenon, EmbedAssumption
<1>2. asks.dim \in Nat /\ asks.honours \in BOOLEAN /\ asks.texts \in [Caller -> Seq(STRING)]
  BY Zenon, EmbedAssumption
<1> QED BY <1>1, <1>2

(* A call moves; the others see a dim that is not unlearned.               *)
LEMMA OneCallMoves ==
  ASSUME EmbedInv, NEW c \in Caller, NEW rec \in AskedOf,
         asks' = asks, dim' \in IF asks.dim > 0 THEN {asks.dim} ELSE {0, Native}, dim # 0 => dim' # 0,
         embed' = [embed EXCEPT ![c] = rec], CallInv(c)'
  PROVE  EmbedInv'
<1>1. \A d \in Caller \ {c} : embed'[d] = embed[d]
  BY DEF EmbedInv
<1>2. ASSUME NEW d \in Caller \ {c} PROVE CallInv(d)'
  <2>1. CallInv(d) /\ embed'[d] = embed[d] /\ asks' = asks
    BY <1>1 DEF EmbedInv
  <2>2. CallFits(embed[d], asks.texts[d], asks, dim)
    BY <2>1 DEF CallInv
  <2>3. CallFits(embed[d], asks.texts[d], asks, dim')
    BY <2>2 DEF CallFits
  <2> QED BY <2>1, <2>3 DEF CallInv
<1>3. embed' \in [Caller -> AskedOf] /\ asks' \in Embeds
  BY DEF EmbedInv
<1> QED BY <1>2, <1>3 DEF EmbedInv

LEMMA EmbedInitHolds == EmbedInit => EmbedInv
<1> SUFFICES ASSUME EmbedInit PROVE EmbedInv
  OBVIOUS
<1>1. asks \in Embeds
  BY DEF EmbedInit
<1>2. dim = asks.dim \/ (asks.dim = 0 /\ dim = Native)
  BY DEF EmbedInit, FirstDim
<1>3. dim \in IF asks.dim > 0 THEN {asks.dim} ELSE {0, Native}
  BY <1>1, <1>2, AsksType
<1>4. ASSUME NEW c \in Caller PROVE embed[c] \in AskedOf /\ CallInv(c)
  <2> DEFINE at  == IF asks.texts[c] = << >> THEN "returned" ELSE "batch"
             rec == [at |-> at, asked |-> 0, attempt |-> 0, vecs |-> << >>, error |-> ""]
  <2>1. asks.texts[c] \in Seq(STRING)
    BY <1>1, AsksType
  <2>2. embed[c] = rec
    BY DEF EmbedInit
  <2>3. rec.vecs = << >> /\ rec.error = "" /\ rec.at = at
    OBVIOUS
  <2>4. at \in {"returned", "batch"}
    OBVIOUS
  <2>5. rec \in AskedOf
    <3> HIDE DEF at
    <3>1. << >> \in Seq(Vector)
      OBVIOUS
    <3> QED BY <2>4, <3>1 DEF AskedOf
  <2>6. CASE asks.texts[c] = << >>
    <3>1. Len(asks.texts[c]) = 0 /\ at = "returned"
      BY <2>1, <2>6, Lengths
    <3> HIDE DEF rec, at
    <3>2. CallFits(rec, asks.texts[c], asks, dim)
      BY <2>1, <2>3, <3>1, EmptyFits, Lengths
    <3> QED BY <2>2, <2>5, <3>2 DEF CallInv
  <2>7. CASE asks.texts[c] # << >>
    <3>1. Len(asks.texts[c]) >= 1 /\ at = "batch"
      BY <2>1, <2>7, Lengths
    <3> HIDE DEF rec, at
    <3>2. 0 < Len(asks.texts[c])
      BY <2>1, <3>1, Lengths
    <3>3. CallFits(rec, asks.texts[c], asks, dim)
      BY <2>3, <3>1, <3>2, EmptyFits
    <3> QED BY <2>2, <2>5, <3>3 DEF CallInv
  <2> QED BY <2>6, <2>7
<1>5. embed \in [Caller -> AskedOf]
  BY <1>4 DEF EmbedInit
<1> QED BY <1>1, <1>3, <1>4, <1>5 DEF EmbedInv

LEMMA FailsKeeps ==
  ASSUME EmbedInv, NEW c \in Caller, NEW why \in {"answer", "refused", "down", "context"},
         Fails(c, why), UNCHANGED <<asks, dim>>
  PROVE  EmbedInv'
<1> DEFINE rec == [embed[c] EXCEPT !.at = "returned", !.vecs = << >>, !.error = why]
<1>1. embed' = [embed EXCEPT ![c] = rec] /\ embed[c] \in AskedOf
  BY DEF Fails, EmbedInv
<1>2. rec \in AskedOf
  <2>1. << >> \in Seq(Vector)
    OBVIOUS
  <2>2. rec = [embed[c] EXCEPT !.at = "returned", !.vecs = << >>, !.error = why]
    OBVIOUS
  <2> QED BY <1>1, <2>1, <2>2 DEF AskedOf
<1>3. rec.at = "returned" /\ rec.vecs = << >> /\ rec.error = why
  BY <1>1 DEF AskedOf
<1>4. embed'[c] = rec
  BY <1>1 DEF EmbedInv
<1> HIDE DEF rec
<1>5. CallInv(c)'
  <2>1. CallFits(rec, asks.texts[c], asks, dim)
    BY <1>3, EmptyFits
  <2> QED BY <1>4, <2>1 DEF CallInv
<1> QED BY <1>1, <1>2, <1>5, OneCallMoves DEF EmbedInv

LEMMA AskKeeps ==
  ASSUME EmbedInv, NEW c \in Caller, AskVectors(c)
  PROVE  EmbedInv'
<1> DEFINE much == IF asks.adapter \in {"tei", "cohere"} THEN 0 ELSE dim
           rec == [embed[c] EXCEPT !.at = "asked", !.attempt = 1, !.asked = much]
<1>0. /\ CallInv(c) /\ embed[c] \in AskedOf /\ embed[c].at = "batch"
      /\ asks' = asks /\ dim' = dim /\ asks \in Embeds
  BY DEF EmbedInv, AskVectors
<1>1. embed' = [embed EXCEPT ![c] = rec]
  BY DEF AskVectors, EmbedInv
<1>2. much \in Nat
  BY <1>0, AsksType DEF EmbedInv
<1>3. Told(asks, much) = SizeOf(asks)
  BY <1>0, AsksType DEF EmbedInv, Told, SizeOf
<1> HIDE DEF much
<1>4. /\ rec \in AskedOf /\ rec.at = "asked" /\ rec.asked = much
      /\ rec.vecs = embed[c].vecs /\ rec.error = embed[c].error
  BY <1>0, <1>2 DEF AskedOf
<1>5. embed'[c] = rec
  BY <1>1 DEF EmbedInv
<1> HIDE DEF rec
<1>6. CallInv(c)'
  BY <1>0, <1>3, <1>4, <1>5 DEF CallInv, CallFits
<1> QED BY <1>0, <1>1, <1>4, <1>6, OneCallMoves DEF EmbedInv

(* Only where the call is and which attempt it is on.                      *)
LEMMA AttemptKeeps ==
  ASSUME EmbedInv, NEW c \in Caller, embed[c].at \in {"asked", "sleep"}, NEW at \in {"asked", "sleep"},
         NEW attempt \in Nat, UNCHANGED <<asks, dim>>,
         embed' = [embed EXCEPT ![c] = [embed[c] EXCEPT !.at = at, !.attempt = attempt]]
  PROVE  EmbedInv'
<1> DEFINE rec == [embed[c] EXCEPT !.at = at, !.attempt = attempt]
<1>0. CallInv(c) /\ embed[c] \in AskedOf
  BY DEF EmbedInv
<1>1. /\ rec \in AskedOf /\ rec.at = at /\ rec.asked = embed[c].asked /\ rec.vecs = embed[c].vecs
      /\ rec.error = embed[c].error
  BY <1>0 DEF AskedOf
<1>2. embed'[c] = rec
  BY DEF EmbedInv
<1>3. embed' = [embed EXCEPT ![c] = rec]
  OBVIOUS
<1> HIDE DEF rec
<1>4. CallInv(c)'
  BY <1>0, <1>1, <1>2 DEF CallInv, CallFits
<1> QED BY <1>1, <1>3, <1>4, OneCallMoves DEF EmbedInv

LEMMA RefusedKeeps ==
  ASSUME EmbedInv, NEW c \in Caller, GetRefused(c) \/ Sleep(c)
  PROVE  EmbedInv'
<1>0. embed[c] \in AskedOf /\ UNCHANGED <<asks, dim>> /\ embed[c].at \in {"asked", "sleep"}
  BY DEF EmbedInv, GetRefused, Sleep
<1>1. CASE \E why \in {"refused", "down", "context"} : Fails(c, why)
  BY <1>0, <1>1, FailsKeeps
<1>2. CASE embed' = [embed EXCEPT ![c].at = "sleep"]
  <2>1. embed' = [embed EXCEPT ![c] = [embed[c] EXCEPT !.at = "sleep", !.attempt = embed[c].attempt]]
    BY <1>0, <1>2 DEF EmbedInv, AskedOf
  <2> QED BY <1>0, <2>1, AttemptKeeps DEF AskedOf
<1>3. CASE embed' = [embed EXCEPT ![c].at = "asked", ![c].attempt = @ + 1]
  <2>1. embed' = [embed EXCEPT ![c] = [embed[c] EXCEPT !.at = "asked", !.attempt = embed[c].attempt + 1]]
    BY <1>0, <1>3 DEF EmbedInv, AskedOf
  <2>2. embed[c].attempt \in Nat
    BY <1>0, AskedFields
  <2>3. embed[c].attempt + 1 \in Nat
    BY <2>2
  <2> QED BY <1>0, <2>1, <2>3, AttemptKeeps
<1> QED BY <1>1, <1>2, <1>3 DEF GetRefused, Sleep

LEMMA VectorsKeep ==
  ASSUME EmbedInv, NEW c \in Caller, GetVectors(c)
  PROVE  EmbedInv'
<1> DEFINE batch == NextBatch(c)
           texts == asks.texts[c]
           old   == embed[c].vecs
<1>0. /\ CallInv(c) /\ embed[c] \in AskedOf /\ embed[c].at = "asked" /\ asks' = asks /\ asks \in Embeds
      /\ old \in Seq(Vector) /\ embed[c].asked \in Nat /\ embed[c].error = "" /\ Len(old) < Len(texts)
  <2>1. CallInv(c) /\ embed[c] \in AskedOf /\ embed[c].at = "asked" /\ asks' = asks /\ asks \in Embeds
    BY DEF EmbedInv, GetVectors
  <2>2. embed[c].error = "" /\ Len(old) < Len(texts)
    BY <2>1 DEF CallInv, CallFits
  <2> QED BY <2>1, <2>2, AskedFields
<1>1. PICK data \in Answers(batch, embed[c].asked) :
        IF Misses(data, Len(batch)) THEN Fails(c, "answer") /\ UNCHANGED dim
        ELSE LET vecs == old \o Placed(data, Len(batch))
                 all  == Len(vecs) = Len(texts)
             IN /\ embed' = [embed EXCEPT ![c].vecs = vecs, ![c].at = IF all THEN "returned" ELSE "batch"]
                /\ dim' = IF all THEN Learned(vecs) ELSE dim
  BY DEF GetVectors
<1>2. CASE Misses(data, Len(batch))
  BY <1>0, <1>1, <1>2, FailsKeeps
<1>3. CASE ~Misses(data, Len(batch))
  <2> DEFINE got  == Placed(data, Len(batch))
             vecs == old \o got
             all  == Len(vecs) = Len(texts)
             at   == IF all THEN "returned" ELSE "batch"
             rec  == [embed[c] EXCEPT !.vecs = vecs, !.at = at]
  <2>1. /\ texts \in Seq(STRING) /\ batch \in Seq(STRING) /\ batch # << >>
        /\ Len(old) + Len(batch) <= Len(texts)
        /\ \A k \in 1 .. Len(batch) : batch[k] = texts[Len(old) + k]
    BY <1>0, BatchIs
  <2>2. /\ got \in Seq(Vector) /\ Len(got) = Len(batch) /\ got[1] # Hole
        /\ \A k \in DOMAIN got : got[k] = Hole \/ got[k].size = Told(asks, embed[c].asked)
        /\ TextsCount(asks) => \A k \in DOMAIN got : got[k].of = batch[k]
    BY <1>0, <1>3, <2>1, AnswerFits
  <2>3. Told(asks, embed[c].asked) = SizeOf(asks)
    BY <1>0 DEF CallInv, CallFits
  <2>4. embed' = [embed EXCEPT ![c] = rec] /\ dim' = IF all THEN Learned(vecs) ELSE dim
    BY <1>1, <1>3
  <2>5. /\ \A i \in DOMAIN old : old[i] = Hole \/ old[i].size = SizeOf(asks)
        /\ TextsCount(asks) => \A i \in DOMAIN old : old[i].of = texts[i]
        /\ old # << >> => old[1] # Hole
    BY <1>0 DEF CallInv, CallFits
  <2> HIDE DEF got, batch
  <2>6. /\ Len(batch) \in Nat /\ Len(batch) >= 1 /\ Len(old) \in Nat /\ Len(texts) \in Nat
        /\ DOMAIN old = 1 .. Len(old)
    <3> HIDE DEF old, texts
    <3> QED BY <1>0, <2>1, Lengths
  <2>7. /\ vecs \in Seq(Vector) /\ Len(vecs) = Len(old) + Len(batch) /\ DOMAIN vecs = 1 .. Len(old) + Len(batch)
        /\ \A i \in 1 .. Len(old) : vecs[i] = old[i]
        /\ \A i \in 1 .. Len(batch) : vecs[Len(old) + i] = got[i]
    <3>1. LET both == old \o got IN
          /\ both \in Seq(Vector) /\ Len(both) = Len(old) + Len(got) /\ DOMAIN both = 1 .. Len(old) + Len(got)
          /\ \A i \in 1 .. Len(old) : both[i] = old[i]
          /\ \A i \in 1 .. Len(got) : both[Len(old) + i] = got[i]
      <4> HIDE DEF old
      <4>1. old \in Seq(Vector) /\ got \in Seq(Vector)
        BY <1>0, <2>2
      <4> QED BY <4>1, Lengthened
    <3> HIDE DEF old
    <3> QED BY <2>2, <3>1
  <2> HIDE DEF old, vecs, texts
  <2>8. ASSUME NEW i \in DOMAIN vecs
        PROVE  /\ vecs[i] = Hole \/ vecs[i].size = SizeOf(asks)
               /\ TextsCount(asks) => vecs[i].of = texts[i]
    <3>1. CASE i <= Len(old)
      <4>1. i \in 1 .. Len(old) /\ i \in DOMAIN old /\ vecs[i] = old[i]
        BY <2>6, <2>7, <2>8, <3>1
      <4> QED BY <2>5, <4>1
    <3>2. CASE ~(i <= Len(old))
      <4> DEFINE k == i - Len(old)
      <4>1. k \in 1 .. Len(batch) /\ i = Len(old) + k
        BY <2>6, <2>7, <2>8, <3>2
      <4>2. k \in DOMAIN got /\ vecs[i] = got[k] /\ texts[i] = batch[k]
        BY <2>1, <2>2, <2>7, <4>1
      <4> HIDE DEF k
      <4> QED BY <2>2, <2>3, <4>2
    <3> QED BY <3>1, <3>2
  <2>9. vecs[1] # Hole
    <3>1. CASE old = << >>
      <4>1. Len(old) = 0 /\ vecs[1] = got[1]
        BY <2>6, <2>7, <3>1
      <4> QED BY <2>2, <4>1
    <3>2. CASE old # << >>
      <4>1. Len(old) >= 1
        <5> HIDE DEF old
        <5> QED BY <1>0, <3>2, Lengths
      <4> QED BY <2>5, <2>6, <2>7, <3>2, <4>1
    <3> QED BY <3>1, <3>2
  <2>10. /\ dim' \in IF asks.dim > 0 THEN {asks.dim} ELSE {0, Native}
         /\ dim # 0 => dim' # 0
         /\ all => dim' # 0
    <3>1. Learned(vecs) = IF dim = 0 THEN vecs[1].size ELSE dim
      BY <2>9 DEF Learned
    <3>2. vecs[1].size = SizeOf(asks)
      <4>1. 1 \in DOMAIN vecs
        BY <2>6, <2>7
      <4> QED BY <2>8, <2>9, <4>1
    <3>3. dim \in IF asks.dim > 0 THEN {asks.dim} ELSE {0, Native}
      BY DEF EmbedInv
    <3>4. asks.dim \in Nat /\ Native \in Nat /\ Native >= 1
      BY <1>0, AsksType
    <3>5. dim = 0 => SizeOf(asks) = Native /\ ~(asks.dim > 0)
      BY <3>3, <3>4 DEF SizeOf
    <3> HIDE DEF vecs, all
    <3> QED BY <2>4, <3>1, <3>2, <3>3, <3>4, <3>5
  <2>11. all \/ Len(vecs) < Len(texts)
    BY <2>1, <2>6, <2>7
  <2> HIDE DEF vecs, all
  <2>12. /\ rec \in AskedOf /\ rec.vecs = vecs /\ rec.at = at /\ rec.error = ""
         /\ rec.asked = embed[c].asked
    BY <1>0, <2>7 DEF AskedOf
  <2>13. embed'[c] = rec
    BY <2>4 DEF EmbedInv
  <2>14. at = "returned" => all
    OBVIOUS
  <2>15. at # "returned" => Len(vecs) < Len(texts)
    BY <2>11
  <2>16. at \notin {"asked", "sleep"} /\ (all => Len(vecs) = Len(texts))
    BY DEF all
  <2> HIDE DEF rec, at
  <2>17. CallFits(rec, texts, asks, dim')
    BY <2>8, <2>9, <2>10, <2>12, <2>14, <2>15, <2>16 DEF CallFits
  <2>18. CallInv(c)'
    BY <1>0, <2>13, <2>17 DEF CallInv, texts
  <2> QED BY <1>0, <2>4, <2>10, <2>12, <2>18, OneCallMoves
<1> QED BY <1>2, <1>3

(* The invariant is inductive.                                             *)
THEOREM EmbedInductive == EmbedSpec => []EmbedInv
<1>1. EmbedInv /\ [EmbedNext]_embedVars => EmbedInv'
  <2> SUFFICES ASSUME EmbedInv, [EmbedNext]_embedVars PROVE EmbedInv'
    OBVIOUS
  <2>1. CASE EmbedNext
    BY <2>1, AskKeeps, VectorsKeep, RefusedKeeps DEF EmbedNext
  <2>2. CASE UNCHANGED embedVars
    BY <2>2 DEF embedVars, EmbedInv, CallInv
  <2> QED BY <2>1, <2>2
<1> QED BY <1>1, EmbedInitHolds, PTL DEF EmbedSpec

LEMMA EmbedInvImplies == EmbedInv => VectorsFollowTheirTexts
<1> SUFFICES ASSUME EmbedInv PROVE VectorsFollowTheirTexts
  OBVIOUS
<1>1. /\ asks.dim \in Nat /\ Native \in Nat /\ Native >= 1
      /\ dim \in IF asks.dim > 0 THEN {asks.dim} ELSE {0, Native}
  BY AsksType DEF EmbedInv
<1>2. asks.dim > 0 => dim = asks.dim
  BY <1>1
<1>3. ASSUME NEW c \in Caller, Returned(c), embed[c].error = ""
      PROVE  LET vecs  == embed[c].vecs
                 texts == asks.texts[c]
             IN /\ Len(vecs) = Len(texts)
                /\ TextsCount(asks) => \A i \in DOMAIN texts : vecs[i].of = texts[i]
                /\ asks.honours /\ (asks.adapter \in {"tei", "cohere"} => asks.dim \in {0, Native}) =>
                     \A i \in DOMAIN texts : vecs[i] = Hole \/ vecs[i].size = dim
  <2> DEFINE vecs == embed[c].vecs
             texts == asks.texts[c]
  <2>1. /\ CallFits(embed[c], texts, asks, dim) /\ embed[c] \in AskedOf
        /\ texts \in Seq(STRING) /\ embed[c].at = "returned"
    BY <1>3, AsksType DEF EmbedInv, CallInv, Returned
  <2>2. /\ Len(vecs) = Len(texts)
        /\ TextsCount(asks) => \A i \in DOMAIN texts : vecs[i].of = texts[i]
        /\ \A i \in DOMAIN texts : dim # 0 /\ (vecs[i] = Hole \/ vecs[i].size = SizeOf(asks))
    BY <1>3, <2>1, FitsSays
  <2>3. asks.honours /\ (asks.adapter \in {"tei", "cohere"} => asks.dim \in {0, Native}) /\ dim # 0
           => SizeOf(asks) = dim
    BY <1>1 DEF SizeOf
  <2>4. ASSUME asks.honours, asks.adapter \in {"tei", "cohere"} => asks.dim \in {0, Native},
               NEW i \in DOMAIN texts
        PROVE  vecs[i] = Hole \/ vecs[i].size = dim
    <3> HIDE DEF vecs, texts
    <3>1. dim # 0 /\ (vecs[i] = Hole \/ vecs[i].size = SizeOf(asks))
      BY <2>2, <2>4
    <3>2. SizeOf(asks) = dim
      BY <2>3, <2>4, <3>1
    <3> QED BY <3>1, <3>2
  <2> QED BY <2>2, <2>4
<1>4. ASSUME NEW c \in Caller, Returned(c), embed[c].error # "" PROVE embed[c].vecs = << >>
  <2>1. /\ CallFits(embed[c], asks.texts[c], asks, dim) /\ embed[c] \in AskedOf
        /\ asks.texts[c] \in Seq(STRING) /\ embed[c].at = "returned"
    BY <1>4, AsksType DEF EmbedInv, CallInv, Returned
  <2> QED BY <1>4, <2>1, FitsSays
<1>5. TextsCount(asks) <=> asks.adapter # "openai" \/ EachIndexOnce
  BY DEF TextsCount, EachIndexOnce
<1> QED BY <1>2, <1>3, <1>4, <1>5 DEF VectorsFollowTheirTexts

(***************************************************************************)
(* Whatever the adapter, the service, the sizes of batches and the callers *)
(* that share the embedder: what Embed returns follows its texts, and      *)
(* Dimensions tells the size of the vectors.                               *)
(***************************************************************************)
THEOREM VectorsKeepToTheirTexts == EmbedSpec => []VectorsFollowTheirTexts
BY EmbedInductive, EmbedInvImplies, PTL

-----------------------------------------------------------------------------
(* An order of numbers that leaves none out.                               *)
LEMMA InOrderIs ==
  ASSUME NEW S \in SUBSET Int, IsFiniteSet(S)
  PROVE  LET order == Ascending(S)
             n     == Cardinality(S)
         IN /\ n \in Nat /\ order \in [1 .. n -> S]
            /\ \A x \in S : \E k \in 1 .. n : order[k] = x
            /\ \A j, k \in 1 .. n : j < k => order[j] < order[k]
<1> DEFINE n == Cardinality(S)
           upto(x) == {m \in S : m <= x}
           rank(x) == Cardinality(upto(x))
           order == Ascending(S)
<1>1. n \in Nat
  BY FS_CardinalityType
<1>2. \A x \in S : IsFiniteSet(upto(x)) /\ upto(x) \subseteq S
  <2> TAKE x \in S
  <2>1. upto(x) \in SUBSET S
    OBVIOUS
  <2> QED BY <2>1, FS_Subset
<1>3. ASSUME NEW x \in S PROVE rank(x) \in 1 .. n
  <2>1. rank(x) \in Nat /\ rank(x) <= n
    BY <1>2, FS_Subset, FS_CardinalityType
  <2>2. x \in upto(x)
    OBVIOUS
  <2>3. rank(x) # 0
    BY <1>2, <2>2, FS_EmptySet
  <2> QED BY <1>1, <2>1, <2>3
<1>4. ASSUME NEW x \in S, NEW y \in S, x < y PROVE rank(x) < rank(y)
  <2>1. upto(x) \in SUBSET upto(y)
    <3>1. ASSUME NEW m \in upto(x) PROVE m \in upto(y)
      <4>1. m \in Int /\ x \in Int /\ y \in Int /\ m <= x
        OBVIOUS
      <4>2. m <= y
        BY <1>4, <4>1
      <4> QED BY <4>2
    <3> QED BY <3>1
  <2>2. y \in upto(y) /\ y \notin upto(x)
    BY <1>4
  <2>3. rank(x) <= rank(y) /\ rank(x) # rank(y)
    BY <1>2, <2>1, <2>2, FS_Subset
  <2> QED BY <1>3, <2>3
<1> DEFINE r == [x \in S |-> rank(x)]
<1>5. r \in [S -> 1 .. n]
  BY <1>3
<1>6. \A x, y \in S : r[x] = r[y] => x = y
  <2> SUFFICES ASSUME NEW x \in S, NEW y \in S, x # y PROVE rank(x) # rank(y)
    OBVIOUS
  <2>1. x < y \/ y < x
    OBVIOUS
  <2> HIDE DEF rank
  <2> QED BY <1>3, <1>4, <2>1
<1>7. r \in Injection(S, 1 .. n)
  BY <1>5, <1>6 DEF Injection, IsInjective
<1>8. IsFiniteSet(1 .. n) /\ Cardinality(1 .. n) = n
  BY <1>1, FS_Interval
<1>9. r \in Surjection(S, 1 .. n)
  BY <1>7, <1>8, FS_Injection
<1>10. ASSUME NEW k \in 1 .. n PROVE order[k] \in S /\ rank(order[k]) = k
  <2>1. \E x \in S : rank(x) = k
    BY <1>9 DEF Surjection
  <2>2. order[k] = CHOOSE x \in S : rank(x) = k
    BY DEF Ascending
  <2> QED BY <2>1, <2>2
<1>11. order \in [1 .. n -> S]
  <2> DEFINE pick(k) == CHOOSE x \in S : Cardinality({m \in S : m <= x}) = k
  <2>1. order = [k \in 1 .. n |-> pick(k)]
    BY DEF Ascending
  <2> HIDE DEF pick, order
  <2> QED BY <1>10, <2>1
<1>12. ASSUME NEW x \in S PROVE \E k \in 1 .. n : order[k] = x
  <2>1. rank(x) \in 1 .. n
    BY <1>3
  <2>2. order[rank(x)] \in S /\ rank(order[rank(x)]) = rank(x)
    BY <1>10, <2>1
  <2>3. order[rank(x)] = x
    <3> HIDE DEF rank, order
    <3> QED BY <1>6, <2>2
  <2> QED BY <2>1, <2>3
<1>13. ASSUME NEW j \in 1 .. n, NEW k \in 1 .. n, j < k PROVE order[j] < order[k]
  <2>1. order[j] \in S /\ order[k] \in S /\ rank(order[j]) = j /\ rank(order[k]) = k
    BY <1>10
  <2> HIDE DEF rank, order
  <2>2. ~(order[k] < order[j])
    <3>1. SUFFICES ASSUME order[k] < order[j] PROVE FALSE
      OBVIOUS
    <3>2. rank(order[k]) < rank(order[j])
      BY <1>4, <2>1, <3>1
    <3> QED BY <1>13, <2>1, <3>2
  <2>3. order[j] # order[k]
    BY <1>13, <2>1
  <2>4. order[j] \in Int /\ order[k] \in Int
    BY <2>1
  <2> QED BY <2>2, <2>3, <2>4
<1> HIDE DEF order, n
<1> QED BY <1>1, <1>11, <1>12, <1>13 DEF order, n

-----------------------------------------------------------------------------
(***************************************************************************)
(* Stores. What a sequence puts, up to its n-th chunk.                     *)
(***************************************************************************)
Put(H, added) == {c \in H : \A new \in added : c.id # new.id} \cup added
Latest(s) == {s[i] : i \in {j \in DOMAIN s : \A k \in DOMAIN s : j < k => s[k].id # s[j].id}}
LatestTo(s, n) == {s[i] : i \in {j \in 1 .. n : \A k \in 1 .. n : j < k => s[k].id # s[j].id}}

LEMMA PutNone ==
  ASSUME NEW H, NEW s
  PROVE  Put(H, LatestTo(s, 0)) = H
<1>1. LatestTo(s, 0) = {}
  BY DEF LatestTo
<1> QED BY <1>1 DEF Put

LEMMA PutNext ==
  ASSUME NEW H, NEW s, NEW n \in Nat
  PROVE  Put(Put(H, LatestTo(s, n)), {s[n + 1]}) = Put(H, LatestTo(s, n + 1))
<1> DEFINE c == s[n + 1]
           L == LatestTo(s, n)
           M == LatestTo(s, n + 1)
<1>1. \A x \in L : x.id # c.id => x \in M
  <2> TAKE x \in L
  <2>1. PICK j \in 1 .. n : x = s[j] /\ \A k \in 1 .. n : j < k => s[k].id # s[j].id
    BY DEF LatestTo
  <2>2. SUFFICES ASSUME x.id # c.id PROVE x \in M
    OBVIOUS
  <2>3. \A k \in 1 .. n + 1 : k \in 1 .. n \/ k = n + 1
    OBVIOUS
  <2>4. j \in 1 .. n + 1 /\ \A k \in 1 .. n + 1 : j < k => s[k].id # s[j].id
    BY <2>1, <2>2, <2>3
  <2> QED BY <2>1, <2>4 DEF LatestTo
<1>2. c \in M
  <2>1. n + 1 \in 1 .. n + 1 /\ \A k \in 1 .. n + 1 : ~(n + 1 < k)
    OBVIOUS
  <2> QED BY <2>1 DEF LatestTo
<1>3. \A x \in M : x = c \/ (x \in L /\ x.id # c.id)
  <2> TAKE x \in M
  <2>1. PICK j \in 1 .. n + 1 : x = s[j] /\ \A k \in 1 .. n + 1 : j < k => s[k].id # s[j].id
    BY DEF LatestTo
  <2>2. CASE j = n + 1
    BY <2>1, <2>2
  <2>3. CASE j # n + 1
    <3>1. j \in 1 .. n /\ j < n + 1 /\ n + 1 \in 1 .. n + 1 /\ \A k \in 1 .. n : k \in 1 .. n + 1
      BY <2>3
    <3>2. s[n + 1].id # s[j].id /\ \A k \in 1 .. n : j < k => s[k].id # s[j].id
      BY <2>1, <3>1
    <3>3. x \in L
      BY <2>1, <3>1, <3>2 DEF LatestTo
    <3> QED BY <2>1, <3>2, <3>3
  <2> QED BY <2>2, <2>3
<1> HIDE DEF c, L, M
<1>4. M = {x \in L : x.id # c.id} \cup {c}
  BY <1>1, <1>2, <1>3
<1>5. \A X : Put(X, {c}) = {x \in X : x.id # c.id} \cup {c}
  BY DEF Put
<1>6. Put(H, L) = {x \in H : \A y \in L : x.id # y.id} \cup L
  BY DEF Put
<1>7. Put(H, M) = {x \in H : \A y \in M : x.id # y.id} \cup M
  BY DEF Put
<1>8. {x \in {z \in H : \A y \in L : z.id # y.id} \cup L : x.id # c.id} \cup {c}
        = {x \in H : \A y \in M : x.id # y.id} \cup M
  BY <1>4
<1> QED BY <1>5, <1>6, <1>7, <1>8 DEF c, L, M

LEMMA LatestIsAll ==
  ASSUME NEW S, NEW s \in Seq(S)
  PROVE  Latest(s) = LatestTo(s, Len(s))
<1>1. DOMAIN s = 1 .. Len(s)
  OBVIOUS
<1> QED BY <1>1 DEF Latest, LatestTo

(* A loop over a sequence.                                                 *)
Follows(f, N, base, step, s) ==
  \A n \in 0 .. N : f[n] = IF n = 0 THEN base ELSE step[<<f[n - 1], s[n]>>]

LEMMA LoopExists ==
  ASSUME NEW T, NEW C, NEW base \in T, NEW step \in [T \X C -> T], NEW s \in Seq(C)
  PROVE  \E f \in [0 .. Len(s) -> T] : Follows(f, Len(s), base, step, s)
<1> DEFINE N == Len(s)
           Good == {k \in 0 .. N : \E f \in [0 .. k -> T] : Follows(f, k, base, step, s)}
<1>0. N \in Nat /\ \A k \in 1 .. N : s[k] \in C
  OBVIOUS
<1>1. 0 \in Good
  <2>1. [n \in 0 .. 0 |-> base] \in [0 .. 0 -> T] /\ Follows([n \in 0 .. 0 |-> base], 0, base, step, s)
    BY DEF Follows
  <2> QED BY <1>0, <2>1
<1> HIDE DEF N
<1>2. ASSUME NEW k \in 0 .. N, k < N, k \in Good
      PROVE  k + 1 \in Good
  <2>1. PICK f \in [0 .. k -> T] : Follows(f, k, base, step, s)
    BY <1>2
  <2> DEFINE h == [n \in 0 .. k + 1 |-> IF n = k + 1 THEN step[<<f[k], s[k + 1]>>] ELSE f[n]]
  <2>2. f[k] \in T /\ s[k + 1] \in C /\ step[<<f[k], s[k + 1]>>] \in T
    BY <1>0, <1>2, <2>1
  <2>3. h \in [0 .. k + 1 -> T]
    BY <2>1, <2>2
  <2>4. ASSUME NEW n \in 0 .. k + 1
        PROVE  h[n] = IF n = 0 THEN base ELSE step[<<h[n - 1], s[n]>>]
    <3>1. CASE n = k + 1
      <4>1. h[n] = step[<<f[k], s[k + 1]>>] /\ n # 0 /\ h[n - 1] = f[k]
        BY <3>1
      <4> HIDE DEF h
      <4> QED BY <3>1, <4>1
    <3>2. CASE n \in 0 .. k
      <4>1. h[n] = f[n] /\ (n # 0 => h[n - 1] = f[n - 1])
        BY <3>2
      <4> HIDE DEF h
      <4> QED BY <2>1, <3>2, <4>1 DEF Follows
    <3> QED BY <3>1, <3>2
  <2>5. k + 1 \in 0 .. N
    BY <1>0, <1>2
  <2> HIDE DEF h
  <2>6. Follows(h, k + 1, base, step, s)
    BY <2>4 DEF Follows
  <2> QED BY <2>3, <2>5, <2>6
<1>3. N \in Good
  <2> HIDE DEF Good
  <2>1. \A n \in 0 .. N : n \in Good
    BY <1>0, <1>1, <1>2, UpTo
  <2> QED BY <1>0, <2>1
<1> QED BY <1>3 DEF N

(* What a loop keeps, and what it puts.                                    *)
Puts(content, T, C, step) == \A x \in T, c \in C : content[step[<<x, c>>]] = Put(content[x], {c})

Ends(f, N, content, base, s, T) == f[N] \in T /\ content[f[N]] = Put(content[base], Latest(s))

LEMMA LoopPuts ==
  ASSUME NEW T, NEW C, NEW base \in T, NEW step \in [T \X C -> T], NEW s \in Seq(C), NEW content,
         Puts(content, T, C, step), NEW f, Follows(f, Len(s), base, step, s)
  PROVE  Ends(f, Len(s), content, base, s, T)
<1> DEFINE N == Len(s)
           Good == {n \in 0 .. N : f[n] \in T /\ content[f[n]] = Put(content[base], LatestTo(s, n))}
<1>0. N \in Nat /\ \A k \in 1 .. N : s[k] \in C
  OBVIOUS
<1> HIDE DEF N
<1>1. 0 \in Good
  <2>0. 0 \in 0 .. Len(s)
    BY <1>0 DEF N
  <2>1. f[0] = base
    BY <2>0 DEF Follows
  <2> QED BY <1>0, <2>1, PutNone
<1>2. ASSUME NEW n \in 0 .. N, n < N, n \in Good PROVE n + 1 \in Good
  <2>1. n + 1 \in 1 .. N /\ n + 1 \in 0 .. N /\ n + 1 # 0 /\ (n + 1) - 1 = n /\ n \in Nat
    BY <1>0, <1>2
  <2>2. f[n + 1] = step[<<f[n], s[n + 1]>>]
    BY <2>1 DEF Follows, N
  <2>3. f[n] \in T /\ s[n + 1] \in C /\ content[f[n]] = Put(content[base], LatestTo(s, n))
    BY <1>0, <1>2, <2>1
  <2>4. f[n + 1] \in T /\ content[f[n + 1]] = Put(content[f[n]], {s[n + 1]})
    BY <2>2, <2>3 DEF Puts
  <2>5. content[f[n + 1]] = Put(content[base], LatestTo(s, n + 1))
    BY <2>1, <2>3, <2>4, PutNext
  <2> QED BY <2>1, <2>4, <2>5
<1>3. \A n \in 0 .. N : n \in Good
  <2> HIDE DEF Good
  <2> QED BY <1>0, <1>1, <1>2, UpTo
<1>4. Latest(s) = LatestTo(s, N)
  BY LatestIsAll DEF N
<1> QED BY <1>0, <1>3, <1>4 DEF N, Ends

LEMMA ContractPuts ==
  /\ \A H, A : Contract!Put(H, A) = Put(H, A)
  /\ \A s : Contract!Latest(s) = Latest(s)
BY DEF Contract!Put, Contract!Latest, Put, Latest

-----------------------------------------------------------------------------
(* In process. The slice holds one chunk per id, where the map says.       *)
ByKey == UNION {[K -> Nat] : K \in SUBSET Key}
Indexes ==
  {ix \in [list : Seq(Chunk), byID : ByKey] :
     /\ \A id \in DOMAIN ix.byID : ix.byID[id] \in DOMAIN ix.list /\ ix.list[ix.byID[id]].id = id
     /\ \A i \in DOMAIN ix.list : ix.list[i].id \in DOMAIN ix.byID /\ ix.byID[ix.list[i].id] = i}

HeldIn(ix) == {ix.list[ix.byID[id]] : id \in DOMAIN ix.byID}

LEMMA IndexHolds ==
  ASSUME NEW list \in Seq(Chunk), NEW K \in SUBSET Key, NEW byID \in [K -> Nat],
         \A id \in K : byID[id] \in DOMAIN list /\ list[byID[id]].id = id,
         \A i \in DOMAIN list : list[i].id \in K /\ byID[list[i].id] = i
  PROVE  /\ [list |-> list, byID |-> byID] \in Indexes
         /\ HeldIn([list |-> list, byID |-> byID]) = {list[i] : i \in DOMAIN list}
<1> DEFINE ix == [list |-> list, byID |-> byID]
<1>1. ix.list = list /\ ix.byID = byID /\ DOMAIN byID = K /\ byID \in ByKey
  BY DEF ByKey
<1>2. ix \in [list : Seq(Chunk), byID : ByKey]
  BY <1>1
<1> HIDE DEF ix
<1>3. ix \in Indexes
  BY <1>1, <1>2 DEF Indexes
<1>4. HeldIn(ix) = {list[byID[id]] : id \in K}
  BY <1>1 DEF HeldIn
<1>5. \A i \in DOMAIN list : list[i] = list[byID[list[i].id]]
  OBVIOUS
<1>6. {list[byID[id]] : id \in K} = {list[i] : i \in DOMAIN list}
  BY <1>5
<1> QED BY <1>3, <1>4, <1>6 DEF ix

LEMMA IndexHas ==
  ASSUME NEW ix \in Indexes
  PROVE  /\ ix.list \in Seq(Chunk) /\ ix.byID \in [DOMAIN ix.byID -> Nat] /\ DOMAIN ix.byID \in SUBSET Key
         /\ \A id \in DOMAIN ix.byID : ix.byID[id] \in DOMAIN ix.list /\ ix.list[ix.byID[id]].id = id
         /\ \A i \in DOMAIN ix.list : ix.list[i].id \in DOMAIN ix.byID /\ ix.byID[ix.list[i].id] = i
         /\ ix = [list |-> ix.list, byID |-> ix.byID]
         /\ HeldIn(ix) = {ix.list[i] : i \in DOMAIN ix.list}
<1>1. /\ ix \in [list : Seq(Chunk), byID : ByKey]
      /\ \A id \in DOMAIN ix.byID : ix.byID[id] \in DOMAIN ix.list /\ ix.list[ix.byID[id]].id = id
      /\ \A i \in DOMAIN ix.list : ix.list[i].id \in DOMAIN ix.byID /\ ix.byID[ix.list[i].id] = i
  BY DEF Indexes
<1>2. PICK K \in SUBSET Key : ix.byID \in [K -> Nat]
  BY <1>1 DEF ByKey
<1>3. DOMAIN ix.byID = K
  BY <1>2
<1>4. ix.list \in Seq(Chunk) /\ ix = [list |-> ix.list, byID |-> ix.byID]
  BY <1>1
<1>5. HeldIn([list |-> ix.list, byID |-> ix.byID]) = {ix.list[i] : i \in DOMAIN ix.list}
  BY <1>1, <1>2, <1>3, <1>4, IndexHolds
<1> QED BY <1>1, <1>2, <1>3, <1>4, <1>5

LEMMA InsertIs ==
  ASSUME NEW ix \in Indexes, NEW c \in Chunk
  PROVE  Insert(ix, c) \in Indexes /\ HeldIn(Insert(ix, c)) = Put(HeldIn(ix), {c})
<1> DEFINE list == ix.list
           byID == ix.byID
           K == DOMAIN byID
           n == Len(list)
<1>1. /\ list \in Seq(Chunk) /\ byID \in [K -> Nat] /\ K \in SUBSET Key
      /\ \A id \in K : byID[id] \in DOMAIN list /\ list[byID[id]].id = id
      /\ \A i \in DOMAIN list : list[i].id \in K /\ byID[list[i].id] = i
      /\ ix = [list |-> list, byID |-> byID]
      /\ HeldIn(ix) = {list[i] : i \in DOMAIN list}
  BY IndexHas
<1>2. n \in Nat /\ DOMAIN list = 1 .. n /\ c.id \in Key
  BY <1>1 DEF Chunk
<1>3. Put(HeldIn(ix), {c}) = {x \in {list[i] : i \in 1 .. n} : x.id # c.id} \cup {c}
  BY <1>1, <1>2 DEF Put
<1>4. CASE c.id \in K
  <2> DEFINE p == byID[c.id]
             next == [list EXCEPT ![p] = c]
  <2>1. p \in 1 .. n /\ list[p].id = c.id
    BY <1>1, <1>2, <1>4
  <2>2. next \in Seq(Chunk) /\ DOMAIN next = 1 .. n /\ next[p] = c /\ \A i \in 1 .. n : i # p => next[i] = list[i]
    BY <1>1, <1>2, <2>1
  <2>3. Insert(ix, c) = [list |-> next, byID |-> byID]
    BY <1>1, <1>4 DEF Insert
  <2> HIDE DEF p, next, list, byID, K, n
  <2>4. \A i \in 1 .. n : next[i].id = list[i].id
    BY <2>1, <2>2
  <2>8. \A id \in K : byID[id] \in DOMAIN next /\ next[byID[id]].id = id
    BY <1>1, <1>2, <2>2, <2>4
  <2>9. \A i \in DOMAIN next : next[i].id \in K /\ byID[next[i].id] = i
    BY <1>1, <1>2, <2>2, <2>4
  <2>10. /\ [list |-> next, byID |-> byID] \in Indexes
         /\ HeldIn([list |-> next, byID |-> byID]) = {next[i] : i \in DOMAIN next}
    <3>1. K \in SUBSET Key /\ byID \in [K -> Nat] /\ next \in Seq(Chunk)
      BY <1>1, <2>2
    <3> QED BY <2>8, <2>9, <3>1, IndexHolds
  <2>5. /\ [list |-> next, byID |-> byID] \in Indexes
        /\ HeldIn([list |-> next, byID |-> byID]) = {next[i] : i \in 1 .. n}
    BY <2>2, <2>10
  <2>6. \A i \in 1 .. n : i # p => list[i].id # c.id
    BY <1>1, <1>2, <2>1
  <2>7. {next[i] : i \in 1 .. n} = {x \in {list[i] : i \in 1 .. n} : x.id # c.id} \cup {c}
    BY <2>1, <2>2, <2>6
  <2> QED BY <1>3, <2>3, <2>5, <2>7
<1>5. CASE c.id \notin K
  <2> DEFINE next == Append(list, c)
             J == K \cup {c.id}
             map == [id \in J |-> IF id = c.id THEN n + 1 ELSE byID[id]]
  <2>1. next \in Seq(Chunk) /\ DOMAIN next = 1 .. n + 1 /\ next[n + 1] = c /\ \A i \in 1 .. n : next[i] = list[i]
    BY <1>1, <1>2
  <2>2. Insert(ix, c) = [list |-> next, byID |-> map]
    BY <1>5 DEF Insert
  <2>3. J \in SUBSET Key /\ map \in [J -> Nat] /\ map[c.id] = n + 1 /\ \A id \in K : id # c.id /\ map[id] = byID[id]
    BY <1>1, <1>2, <1>5
  <2>4. \A i \in 1 .. n + 1 : i \in 1 .. n \/ i = n + 1
    BY <1>2
  <2>5. J = K \cup {c.id} /\ \A i \in 1 .. n : i \in 1 .. n + 1
    BY <1>2
  <2>9. n + 1 \in 1 .. n + 1
    BY <1>2
  <2> HIDE DEF next, map, list, byID, K, n, J
  <2>6. \A id \in J : map[id] \in DOMAIN next /\ next[map[id]].id = id
    BY <1>1, <1>2, <2>1, <2>3, <2>5, <2>9
  <2>7. \A i \in DOMAIN next : next[i].id \in J /\ map[next[i].id] = i
    BY <1>1, <1>2, <2>1, <2>3, <2>4, <2>5
  <2>12. /\ [list |-> next, byID |-> map] \in Indexes
         /\ HeldIn([list |-> next, byID |-> map]) = {next[i] : i \in DOMAIN next}
    BY <2>1, <2>3, <2>6, <2>7, IndexHolds
  <2>8. /\ [list |-> next, byID |-> map] \in Indexes
        /\ HeldIn([list |-> next, byID |-> map]) = {next[i] : i \in 1 .. n + 1}
    BY <2>1, <2>12
  <2>10. \A i \in 1 .. n : list[i].id # c.id
    BY <1>1, <1>2, <1>5
  <2>11. {next[i] : i \in 1 .. n + 1} = {x \in {list[i] : i \in 1 .. n} : x.id # c.id} \cup {c}
    BY <2>1, <2>4, <2>5, <2>9, <2>10
  <2> QED BY <1>3, <2>2, <2>8, <2>11
<1> QED BY <1>4, <1>5

LEMMA InsertedIs ==
  ASSUME index \in Indexes, NEW s \in Seq(Chunk)
  PROVE  Inserted(s) \in Indexes /\ HeldIn(Inserted(s)) = Put(HeldIn(index), Latest(s))
<1> DEFINE N == Len(s)
           step == [p \in Indexes \X Chunk |-> Insert(p[1], p[2])]
           content == [ix \in Indexes |-> HeldIn(ix)]
           body(f) == [n \in 0 .. N |-> IF n = 0 THEN index ELSE Insert(f[n - 1], s[n])]
           after == CHOOSE f : f = body(f)
<1>1. \A p \in Indexes \X Chunk : p[1] \in Indexes /\ p[2] \in Chunk
  OBVIOUS
<1>2. step \in [Indexes \X Chunk -> Indexes]
  BY <1>1, InsertIs
<1>3. \A x \in Indexes, c \in Chunk : step[<<x, c>>] = Insert(x, c)
  OBVIOUS
<1>4. \A x \in Indexes : content[x] = HeldIn(x)
  OBVIOUS
<1>5. N \in Nat /\ \A n \in 1 .. N : s[n] \in Chunk
  OBVIOUS
<1>6. Inserted(s) = after[N]
  BY DEF Inserted
<1> HIDE DEF step, content
<1>7. PICK f \in [0 .. N -> Indexes] : Follows(f, N, index, step, s)
  BY <1>2, LoopExists
<1>8. f = body(f)
  <2>1. \A n \in 0 .. N : f[n] = IF n = 0 THEN index ELSE Insert(f[n - 1], s[n])
    <3> TAKE n \in 0 .. N
    <3>1. f[n] = IF n = 0 THEN index ELSE step[<<f[n - 1], s[n]>>]
      BY <1>7 DEF Follows
    <3>2. n # 0 => n - 1 \in 0 .. N /\ n \in 1 .. N
      BY <1>5
    <3>3. n # 0 => step[<<f[n - 1], s[n]>>] = Insert(f[n - 1], s[n])
      BY <1>3, <1>5, <1>7, <3>2
    <3> QED BY <3>1, <3>3
  <2> HIDE DEF N
  <2> QED BY <1>7, <2>1
<1>9. after = body(after)
  BY <1>8
<1> HIDE DEF after
<1>10. \A n \in 0 .. N : after[n] = IF n = 0 THEN index ELSE Insert(after[n - 1], s[n])
  <2> TAKE n \in 0 .. N
  <2> DEFINE b == body(after)
  <2>1. b[n] = IF n = 0 THEN index ELSE Insert(after[n - 1], s[n])
    OBVIOUS
  <2>2. after[n] = b[n]
    BY <1>9
  <2> QED BY <2>1, <2>2
<1>11. \A n \in 0 .. N : after[n] \in Indexes
  <2> DEFINE Good == {n \in 0 .. N : after[n] \in Indexes}
  <2>1. 0 \in Good
    BY <1>5, <1>10
  <2>2. ASSUME NEW n \in 0 .. N, n < N, n \in Good PROVE n + 1 \in Good
    <3>1. n + 1 \in 0 .. N /\ n + 1 \in 1 .. N /\ n + 1 # 0 /\ (n + 1) - 1 = n
      BY <1>5, <2>2
    <3>2. after[n + 1] = Insert(after[n], s[n + 1])
      BY <1>10, <3>1
    <3> QED BY <1>5, <2>2, <3>1, <3>2, InsertIs
  <2> HIDE DEF Good, N
  <2>3. \A n \in 0 .. N : n \in Good
    BY <1>5, <2>1, <2>2, UpTo
  <2> QED BY <2>3 DEF Good
<1>12. Follows(after, N, index, step, s)
  <2> SUFFICES ASSUME NEW n \in 0 .. N
               PROVE  after[n] = IF n = 0 THEN index ELSE step[<<after[n - 1], s[n]>>]
    BY DEF Follows
  <2>1. n # 0 => n - 1 \in 0 .. N /\ n \in 1 .. N
    BY <1>5
  <2>2. n # 0 => step[<<after[n - 1], s[n]>>] = Insert(after[n - 1], s[n])
    BY <1>3, <1>5, <1>11, <2>1
  <2>3. after[n] = IF n = 0 THEN index ELSE Insert(after[n - 1], s[n])
    BY <1>10
  <2> QED BY <2>2, <2>3
<1>13. \A x \in Indexes, c \in Chunk : content[step[<<x, c>>]] = Put(content[x], {c})
  <2> TAKE x \in Indexes, c \in Chunk
  <2>1. Insert(x, c) \in Indexes /\ HeldIn(Insert(x, c)) = Put(HeldIn(x), {c})
    BY InsertIs
  <2>2. step[<<x, c>>] = Insert(x, c) /\ content[x] = HeldIn(x)
    BY <1>3, <1>4
  <2>3. content[Insert(x, c)] = HeldIn(Insert(x, c))
    BY <1>4, <2>1
  <2> QED BY <2>1, <2>2, <2>3
<1>14. after[Len(s)] \in Indexes /\ content[after[Len(s)]] = Put(content[index], Latest(s))
  <2> HIDE DEF N
  <2>1. Follows(after, Len(s), index, step, s)
    BY <1>12 DEF N
  <2>2. index \in Indexes /\ step \in [Indexes \X Chunk -> Indexes] /\ s \in Seq(Chunk)
    BY <1>2
  <2>3. Puts(content, Indexes, Chunk, step)
    BY <1>13 DEF Puts
  <2>4. Ends(after, Len(s), content, index, s, Indexes)
    BY <2>1, <2>2, <2>3, LoopPuts
  <2> QED BY <2>4 DEF Ends
<1> QED BY <1>4, <1>6, <1>14

LEMMA CompactedIs ==
  ASSUME index \in Indexes, NEW d
  PROVE  /\ Compacted(d) \in Indexes
         /\ HeldIn(Compacted(d)) = {c \in HeldIn(index) : c.id[1] # d}
<1> DEFINE list == index.list
           S == {i \in DOMAIN list : list[i].id[1] # d}
           n == Cardinality(S)
           order == Ascending(S)
           kept == [k \in DOMAIN order |-> list[order[k]]]
           K == {kept[k].id : k \in DOMAIN kept}
           byID == [id \in K |-> CHOOSE k \in DOMAIN kept : kept[k].id = id]
<1>1. /\ list \in Seq(Chunk)
      /\ \A i \in DOMAIN list : index.byID[list[i].id] = i
      /\ HeldIn(index) = {list[i] : i \in DOMAIN list}
  BY IndexHas
<1>2. DOMAIN list = 1 .. Len(list) /\ Len(list) \in Nat /\ \A i \in DOMAIN list : list[i] \in Chunk
  BY <1>1
<1>3. Compacted(d) = [list |-> kept, byID |-> byID]
  BY DEF Compacted
<1> HIDE DEF list
<1>4. S \in SUBSET Int /\ IsFiniteSet(S)
  <2>1. IsFiniteSet(1 .. Len(list)) /\ S \in SUBSET (1 .. Len(list))
    BY <1>2, FS_Interval
  <2> QED BY <1>2, <2>1, FS_Subset
<1>5. /\ n \in Nat /\ order \in [1 .. n -> S]
      /\ \A x \in S : \E k \in 1 .. n : order[k] = x
      /\ \A j, k \in 1 .. n : j < k => order[j] < order[k]
  BY <1>4, InOrderIs
<1>6. DOMAIN order = 1 .. n /\ \A k \in 1 .. n : order[k] \in DOMAIN list /\ list[order[k]].id[1] # d
  BY <1>5
<1>7. \A i, j \in DOMAIN list : list[i].id = list[j].id => i = j
  BY <1>1
<1>8. \A x \in DOMAIN list : list[x].id[1] # d => \E k \in 1 .. n : order[k] = x
  BY <1>5
<1> HIDE DEF order, n, S
<1>9. \A k \in 1 .. n : kept[k] = list[order[k]] /\ kept[k] \in Chunk
  BY <1>2, <1>6
<1>10. DOMAIN kept = 1 .. n /\ kept \in Seq(Chunk)
  <2>1. DOMAIN kept = 1 .. n /\ kept = [k \in 1 .. n |-> list[order[k]]]
    BY <1>6
  <2>2. kept \in [1 .. n -> Chunk]
    BY <1>2, <1>6, <2>1
  <2> HIDE DEF kept
  <2> QED BY <1>5, <2>1, <2>2, SeqDef
<1> HIDE DEF kept
<1>11. \A j, k \in 1 .. n : kept[j].id = kept[k].id => j = k
  <2> SUFFICES ASSUME NEW j \in 1 .. n, NEW k \in 1 .. n, kept[j].id = kept[k].id PROVE j = k
    OBVIOUS
  <2>1. order[j] = order[k] /\ order[j] \in Int
    BY <1>2, <1>6, <1>7, <1>9
  <2>2. j < k \/ k < j \/ j = k
    OBVIOUS
  <2> QED BY <1>5, <2>1, <2>2
<1>12. K \in SUBSET Key /\ \A k \in 1 .. n : kept[k].id \in K
  BY <1>9, <1>10 DEF Chunk
<1>13. \A id \in K : byID[id] \in 1 .. n /\ kept[byID[id]].id = id
  <2> TAKE id \in K
  <2>1. \E k \in DOMAIN kept : kept[k].id = id
    OBVIOUS
  <2>2. byID[id] = CHOOSE k \in DOMAIN kept : kept[k].id = id
    OBVIOUS
  <2> HIDE DEF byID, K
  <2> QED BY <1>10, <2>1, <2>2
<1>14. DOMAIN byID = K
  OBVIOUS
<1>15. byID \in [K -> Nat]
  <2>1. byID = [id \in K |-> byID[id]]
    OBVIOUS
  <2> HIDE DEF byID, K
  <2> QED BY <1>5, <1>13, <2>1
<1> HIDE DEF byID, K
<1>16. \A i \in DOMAIN kept : kept[i].id \in K /\ byID[kept[i].id] = i
  BY <1>10, <1>11, <1>12, <1>13
<1>17. \A id \in K : byID[id] \in DOMAIN kept /\ kept[byID[id]].id = id
  BY <1>10, <1>13
<1>18. /\ [list |-> kept, byID |-> byID] \in Indexes
       /\ HeldIn([list |-> kept, byID |-> byID]) = {kept[i] : i \in DOMAIN kept}
  BY <1>10, <1>12, <1>15, <1>16, <1>17, IndexHolds
<1>19. {kept[i] : i \in 1 .. n} = {c \in {list[i] : i \in DOMAIN list} : c.id[1] # d}
  BY <1>6, <1>8, <1>9
<1> QED BY <1>1, <1>3, <1>10, <1>18, <1>19

-----------------------------------------------------------------------------
(* Tables. Rows have a chunk of their own id each.                         *)
Texts == UNION {[R -> SUBSET STRING] : R \in SUBSET Nat}
SqlTables ==
  {db \in [rows : UNION {[R -> Chunk] : R \in SUBSET Nat}, text : Texts] :
     /\ IsFiniteSet(DOMAIN db.rows)
     /\ \A r, q \in DOMAIN db.rows : db.rows[r].id = db.rows[q].id => r = q}
KeyTables ==
  {db \in [rows : UNION {[K -> Chunk] : K \in SUBSET Key}, text : Texts] :
     \A id \in DOMAIN db.rows : db.rows[id].id = id}
TablesOf(b) == IF b = "sqlite" THEN SqlTables ELSE KeyTables

LEMMA SqlIs ==
  ASSUME NEW R \in SUBSET Nat, NEW rows \in [R -> Chunk], NEW text \in Texts, IsFiniteSet(R),
         \A r, q \in R : rows[r].id = rows[q].id => r = q
  PROVE  /\ [rows |-> rows, text |-> text] \in SqlTables
         /\ Range(rows) = {rows[r] : r \in R}
<1>1. DOMAIN rows = R /\ rows \in UNION {[Q -> Chunk] : Q \in SUBSET Nat}
  OBVIOUS
<1>2. [rows |-> rows, text |-> text] \in [rows : UNION {[Q -> Chunk] : Q \in SUBSET Nat}, text : Texts]
  BY <1>1
<1>3. [rows |-> rows, text |-> text].rows = rows
  OBVIOUS
<1> QED BY <1>1, <1>2, <1>3 DEF SqlTables, Range

LEMMA SqlHas ==
  ASSUME NEW db \in SqlTables
  PROVE  /\ DOMAIN db.rows \in SUBSET Nat /\ db.rows \in [DOMAIN db.rows -> Chunk] /\ db.text \in Texts
         /\ IsFiniteSet(DOMAIN db.rows)
         /\ \A r, q \in DOMAIN db.rows : db.rows[r].id = db.rows[q].id => r = q
<1>1. PICK R \in SUBSET Nat : db.rows \in [R -> Chunk]
  BY DEF SqlTables
<1>2. DOMAIN db.rows = R
  BY <1>1
<1> QED BY <1>1, <1>2 DEF SqlTables

LEMMA KeyIs ==
  ASSUME NEW K \in SUBSET Key, NEW rows \in [K -> Chunk], NEW text \in Texts,
         \A id \in K : rows[id].id = id
  PROVE  /\ [rows |-> rows, text |-> text] \in KeyTables
         /\ Range(rows) = {rows[id] : id \in K}
<1>1. DOMAIN rows = K /\ rows \in UNION {[Q -> Chunk] : Q \in SUBSET Key}
  OBVIOUS
<1>2. [rows |-> rows, text |-> text] \in [rows : UNION {[Q -> Chunk] : Q \in SUBSET Key}, text : Texts]
  BY <1>1
<1>3. [rows |-> rows, text |-> text].rows = rows
  OBVIOUS
<1> QED BY <1>1, <1>2, <1>3 DEF KeyTables, Range

LEMMA KeyHas ==
  ASSUME NEW db \in KeyTables
  PROVE  /\ DOMAIN db.rows \in SUBSET Key /\ db.rows \in [DOMAIN db.rows -> Chunk] /\ db.text \in Texts
         /\ \A id \in DOMAIN db.rows : db.rows[id].id = id
<1>1. PICK K \in SUBSET Key : db.rows \in [K -> Chunk]
  BY DEF KeyTables
<1>2. DOMAIN db.rows = K
  BY <1>1
<1> QED BY <1>1, <1>2 DEF KeyTables

LEMMA TextIs ==
  ASSUME NEW text \in Texts
  PROVE  /\ DOMAIN text \in SUBSET Nat /\ text \in [DOMAIN text -> SUBSET STRING]
         /\ \A X : Restrict(text, DOMAIN text \ X) \in Texts
<1>1. PICK R \in SUBSET Nat : text \in [R -> SUBSET STRING]
  BY DEF Texts
<1>2. DOMAIN text = R
  BY <1>1
<1>3. ASSUME NEW X PROVE Restrict(text, DOMAIN text \ X) \in Texts
  <2>1. Restrict(text, DOMAIN text \ X) \in [R \ X -> SUBSET STRING] /\ R \ X \in SUBSET Nat
    BY <1>1, <1>2 DEF Restrict
  <2> QED BY <2>1 DEF Texts
<1> QED BY <1>1, <1>2, <1>3

LEMMA DroppedIs ==
  ASSUME NEW b, NEW db \in TablesOf(b), NEW X
  PROVE  /\ Dropped(db, X) \in TablesOf(b)
         /\ Range(Dropped(db, X).rows) = {db.rows[r] : r \in DOMAIN db.rows \ X}
         /\ DOMAIN Dropped(db, X).rows = DOMAIN db.rows \ X
         /\ \A r \in DOMAIN db.rows \ X : Dropped(db, X).rows[r] = db.rows[r]
         /\ Dropped(db, X).text \in Texts
<1> DEFINE D == DOMAIN db.rows
           E == D \ X
           rows == Restrict(db.rows, E)
           text == Restrict(db.text, DOMAIN db.text \ X)
<1>1. Dropped(db, X) = [rows |-> rows, text |-> text]
  BY DEF Dropped
<1>2. Dropped(db, X).rows = rows /\ Dropped(db, X).text = text
  BY <1>1
<1>3. DOMAIN rows = E /\ \A r \in E : rows[r] = db.rows[r]
  BY DEF Restrict
<1>4. CASE b = "sqlite"
  <2>1. D \in SUBSET Nat /\ db.rows \in [D -> Chunk] /\ db.text \in Texts /\ IsFiniteSet(D)
        /\ \A r, q \in D : db.rows[r].id = db.rows[q].id => r = q
    BY <1>4, SqlHas DEF TablesOf
  <2>2. text \in Texts
    BY <2>1, TextIs
  <2>3. rows \in [E -> Chunk] /\ E \in SUBSET Nat /\ E \in SUBSET D
    BY <2>1 DEF Restrict
  <2>4. IsFiniteSet(E)
    BY <2>1, <2>3, FS_Subset
  <2> HIDE DEF rows, text, E, D
  <2>5. \A r, q \in E : rows[r].id = rows[q].id => r = q
    BY <1>3, <2>1, <2>3
  <2>6. [rows |-> rows, text |-> text] \in SqlTables /\ Range(rows) = {rows[r] : r \in E}
    BY <2>2, <2>3, <2>4, <2>5, SqlIs
  <2>7. Range(rows) = {db.rows[r] : r \in E}
    BY <1>3, <2>6
  <2> QED BY <1>1, <1>2, <1>3, <1>4, <2>2, <2>6, <2>7 DEF TablesOf, E, D
<1>5. CASE b # "sqlite"
  <2>1. D \in SUBSET Key /\ db.rows \in [D -> Chunk] /\ db.text \in Texts
        /\ \A id \in D : db.rows[id].id = id
    BY <1>5, KeyHas DEF TablesOf
  <2>2. text \in Texts
    BY <2>1, TextIs
  <2>3. rows \in [E -> Chunk] /\ E \in SUBSET Key /\ E \in SUBSET D
    BY <2>1 DEF Restrict
  <2> HIDE DEF rows, text, E, D
  <2>5. \A id \in E : rows[id].id = id
    BY <1>3, <2>1, <2>3
  <2>6. [rows |-> rows, text |-> text] \in KeyTables /\ Range(rows) = {rows[r] : r \in E}
    BY <2>2, <2>3, <2>5, KeyIs
  <2>7. Range(rows) = {db.rows[r] : r \in E}
    BY <1>3, <2>6
  <2> QED BY <1>1, <1>2, <1>3, <1>5, <2>2, <2>6, <2>7 DEF TablesOf, E, D
<1> QED BY <1>4, <1>5

(* A finite set of naturals has a greatest.                                *)
LEMMA GreatestIn ==
  ASSUME NEW S \in SUBSET Nat, IsFiniteSet(S), NEW m \in S
  PROVE  Max(S) \in S /\ \A y \in S : Max(S) >= y
<1> DEFINE order == Ascending(S)
           n == Cardinality(S)
<1>1. S \in SUBSET Int
  OBVIOUS
<1>2. /\ n \in Nat /\ order \in [1 .. n -> S]
      /\ \A x \in S : \E k \in 1 .. n : order[k] = x
      /\ \A j, k \in 1 .. n : j < k => order[j] < order[k]
  BY <1>1, InOrderIs
<1> HIDE DEF order, n
<1>3. n \in 1 .. n
  BY <1>2
<1>4. \A y \in S : order[n] >= y
  <2> TAKE y \in S
  <2>1. PICK k \in 1 .. n : order[k] = y
    BY <1>2
  <2>2. k = n \/ k < n
    BY <1>2
  <2>3. order[n] \in Nat /\ order[k] \in Nat
    BY <1>2, <1>3
  <2> QED BY <1>2, <1>3, <2>1, <2>2, <2>3
<1>5. order[n] \in S
  BY <1>2, <1>3
<1> QED BY <1>4, <1>5 DEF Max

LEMMA SqliteInsertIs ==
  ASSUME NEW db \in SqlTables, NEW c \in Chunk
  PROVE  /\ SqliteInsert(db, c) \in SqlTables
         /\ Range(SqliteInsert(db, c).rows) = Put(Range(db.rows), {c})
<1> DEFINE X == {r \in DOMAIN db.rows : db.rows[r].id = c.id}
           kept == Dropped(db, X)
           D == DOMAIN kept.rows
           row == Max({0} \cup D) + 1
           R == D \cup {row}
           rows == [r \in R |-> IF r = row THEN c ELSE kept.rows[r]]
           B == DOMAIN kept.text
           text == [r \in B \cup {row} |-> IF r = row THEN c.terms ELSE kept.text[r]]
<1>1. SqliteInsert(db, c) = [rows |-> rows, text |-> text]
  BY DEF SqliteInsert
<1>2. /\ kept \in SqlTables /\ D = DOMAIN db.rows \ X /\ kept.text \in Texts
      /\ \A r \in D : kept.rows[r] = db.rows[r]
  BY DroppedIs DEF TablesOf
<1>3. \A r \in DOMAIN db.rows : r \in D <=> db.rows[r].id # c.id
  BY <1>2
<1>4. DOMAIN db.rows \in SUBSET Nat /\ D \in SUBSET (DOMAIN db.rows)
  BY <1>2, SqlHas
<1> HIDE DEF kept, X
<1>5. /\ D \in SUBSET Nat /\ kept.rows \in [D -> Chunk] /\ IsFiniteSet(D)
      /\ \A r, q \in D : kept.rows[r].id = kept.rows[q].id => r = q
  BY <1>2, SqlHas
<1>6. B \in SUBSET Nat /\ kept.text \in [B -> SUBSET STRING]
  BY <1>2, TextIs
<1> HIDE DEF D, B
<1>7. row \in Nat /\ row \notin D
  <2>1. {0} \cup D \in SUBSET Nat /\ IsFiniteSet({0} \cup D) /\ 0 \in {0} \cup D
    BY <1>5, FS_AddElement
  <2>2. Max({0} \cup D) \in {0} \cup D /\ \A y \in {0} \cup D : Max({0} \cup D) >= y
    BY <2>1, GreatestIn
  <2> DEFINE m == Max({0} \cup D)
  <2>5. m \in {0} \cup D /\ \A y \in {0} \cup D : m >= y
    BY <2>2
  <2> HIDE DEF m
  <2>3. m \in Nat /\ \A y \in D : m >= y
    BY <2>1, <2>5
  <2>4. m + 1 \in Nat /\ m + 1 \notin D
    BY <1>5, <2>3
  <2> QED BY <2>4 DEF m
<1> HIDE DEF row
<1>8. text \in Texts
  <2>1. c.terms \in SUBSET STRING
    BY DEF Chunk
  <2>2. text \in [B \cup {row} -> SUBSET STRING] /\ B \cup {row} \in SUBSET Nat
    BY <1>6, <1>7, <2>1
  <2> HIDE DEF text
  <2> QED BY <2>2 DEF Texts
<1>9. /\ R \in SUBSET Nat /\ IsFiniteSet(R) /\ rows \in [R -> Chunk]
      /\ rows[row] = c /\ \A r \in D : r \in R /\ r # row /\ rows[r] = db.rows[r]
  BY <1>2, <1>5, <1>7, FS_AddElement
<1>10. R = D \cup {row}
  OBVIOUS
<1>12. \A r \in D : rows[r].id # c.id
  BY <1>3, <1>4, <1>9
<1> HIDE DEF rows, text, R
<1>13. \A r, q \in R : rows[r].id = rows[q].id => r = q
  <2> TAKE r, q \in R
  <2>1. CASE r \in D /\ q \in D
    BY <1>2, <1>5, <1>9, <2>1
  <2>2. CASE r = row \/ q = row
    BY <1>9, <1>10, <1>12, <2>2
  <2> QED BY <1>10, <2>1, <2>2
<1>14. [rows |-> rows, text |-> text] \in SqlTables /\ Range(rows) = {rows[r] : r \in R}
  BY <1>8, <1>9, <1>13, SqlIs
<1>15. {rows[r] : r \in R} = {x \in {db.rows[r] : r \in DOMAIN db.rows} : x.id # c.id} \cup {c}
  BY <1>3, <1>4, <1>9, <1>10
<1>16. Put(Range(db.rows), {c}) = {x \in {db.rows[r] : r \in DOMAIN db.rows} : x.id # c.id} \cup {c}
  BY DEF Put, Range
<1>17. [rows |-> rows, text |-> text].rows = rows
  OBVIOUS
<1> QED BY <1>1, <1>14, <1>15, <1>16, <1>17

LEMMA UpsertedIs ==
  ASSUME NEW db \in TablesOf(backend), NEW c \in Chunk
  PROVE  /\ Upserted(db, c) \in TablesOf(backend)
         /\ Range(Upserted(db, c).rows) = Put(Range(db.rows), {c})
<1>1. CASE backend = "sqlite"
  BY <1>1, SqliteInsertIs DEF TablesOf, Upserted
<1>2. CASE backend # "sqlite"
  <2> DEFINE D == DOMAIN db.rows
             K == D \cup {c.id}
             rows == [id \in K |-> IF id = c.id THEN c ELSE db.rows[id]]
  <2>1. D \in SUBSET Key /\ db.rows \in [D -> Chunk] /\ db.text \in Texts
        /\ \A id \in D : db.rows[id].id = id
    BY <1>2, KeyHas DEF TablesOf
  <2>2. db \in [rows : UNION {[Q -> Chunk] : Q \in SUBSET Key}, text : Texts]
    BY <1>2 DEF TablesOf, KeyTables
  <2>3. Upserted(db, c) = [rows |-> rows, text |-> db.text]
    BY <1>2, <2>2 DEF Upserted
  <2>4. /\ K \in SUBSET Key /\ rows \in [K -> Chunk] /\ rows[c.id] = c /\ c.id \in K
        /\ \A id \in D : id \in K /\ (id # c.id => rows[id] = db.rows[id])
    BY <2>1 DEF Chunk
  <2>5. \A id \in K : id \in D \/ id = c.id
    OBVIOUS
  <2> HIDE DEF rows, K
  <2>6. \A id \in K : rows[id].id = id
    BY <2>1, <2>4, <2>5
  <2>7. [rows |-> rows, text |-> db.text] \in KeyTables /\ Range(rows) = {rows[id] : id \in K}
    BY <2>1, <2>4, <2>6, KeyIs
  <2>8. {rows[id] : id \in K} = {x \in {db.rows[id] : id \in D} : x.id # c.id} \cup {c}
    BY <2>1, <2>4, <2>5
  <2>9. Put(Range(db.rows), {c}) = {x \in {db.rows[id] : id \in D} : x.id # c.id} \cup {c}
    BY DEF Put, Range
  <2>10. [rows |-> rows, text |-> db.text].rows = rows
    OBVIOUS
  <2> QED BY <1>2, <2>3, <2>7, <2>8, <2>9, <2>10 DEF TablesOf
<1> QED BY <1>1, <1>2

LEMMA WrittenIs ==
  ASSUME Tables \in TablesOf(backend), NEW s \in Seq(Chunk)
  PROVE  /\ Written(s) \in TablesOf(backend)
         /\ Range(Written(s).rows) = Put(Range(table), Latest(s))
<1> DEFINE N == Len(s)
           T == TablesOf(backend)
           step == [p \in T \X Chunk |-> Upserted(p[1], p[2])]
           content == [db \in T |-> Range(db.rows)]
           body(f) == [n \in 0 .. N |-> IF n = 0 THEN Tables ELSE Upserted(f[n - 1], s[n])]
           after == CHOOSE f : f = body(f)
<1>1. \A p \in T \X Chunk : p[1] \in T /\ p[2] \in Chunk
  OBVIOUS
<1>2. step \in [T \X Chunk -> T]
  BY <1>1, UpsertedIs
<1>3. \A x \in T, c \in Chunk : step[<<x, c>>] = Upserted(x, c)
  OBVIOUS
<1>4. \A x \in T : content[x] = Range(x.rows)
  OBVIOUS
<1>5. N \in Nat /\ \A n \in 1 .. N : s[n] \in Chunk
  OBVIOUS
<1>6. Written(s) = after[N]
  BY DEF Written
<1>15. Tables \in T
  OBVIOUS
<1>16. \A x \in T, c \in Chunk : Upserted(x, c) \in T /\ Range(Upserted(x, c).rows) = Put(Range(x.rows), {c})
  BY UpsertedIs
<1> HIDE DEF step, content, T
<1>7. PICK f \in [0 .. N -> T] : Follows(f, N, Tables, step, s)
  BY <1>2, <1>15, LoopExists
<1>8. f = body(f)
  <2>1. \A n \in 0 .. N : f[n] = IF n = 0 THEN Tables ELSE Upserted(f[n - 1], s[n])
    <3> TAKE n \in 0 .. N
    <3>1. f[n] = IF n = 0 THEN Tables ELSE step[<<f[n - 1], s[n]>>]
      BY <1>7 DEF Follows
    <3>2. n # 0 => n - 1 \in 0 .. N /\ n \in 1 .. N
      BY <1>5
    <3>3. n # 0 => step[<<f[n - 1], s[n]>>] = Upserted(f[n - 1], s[n])
      BY <1>3, <1>5, <1>7, <3>2
    <3> QED BY <3>1, <3>3
  <2> HIDE DEF N
  <2> QED BY <1>7, <2>1
<1>9. after = body(after)
  BY <1>8
<1> HIDE DEF after
<1>10. \A n \in 0 .. N : after[n] = IF n = 0 THEN Tables ELSE Upserted(after[n - 1], s[n])
  <2> TAKE n \in 0 .. N
  <2> DEFINE b == body(after)
  <2>1. b[n] = IF n = 0 THEN Tables ELSE Upserted(after[n - 1], s[n])
    OBVIOUS
  <2>2. after[n] = b[n]
    BY <1>9
  <2> QED BY <2>1, <2>2
<1>11. \A n \in 0 .. N : after[n] \in T
  <2> DEFINE Good == {n \in 0 .. N : after[n] \in T}
  <2>1. 0 \in Good
    BY <1>5, <1>10, <1>15
  <2>2. ASSUME NEW n \in 0 .. N, n < N, n \in Good PROVE n + 1 \in Good
    <3>1. n + 1 \in 0 .. N /\ n + 1 \in 1 .. N /\ n + 1 # 0 /\ (n + 1) - 1 = n
      BY <1>5, <2>2
    <3>2. after[n + 1] = Upserted(after[n], s[n + 1])
      BY <1>10, <3>1
    <3> QED BY <1>5, <1>16, <2>2, <3>1, <3>2
  <2> HIDE DEF Good, N
  <2>3. \A n \in 0 .. N : n \in Good
    BY <1>5, <2>1, <2>2, UpTo
  <2> QED BY <2>3 DEF Good
<1>12. Follows(after, N, Tables, step, s)
  <2> SUFFICES ASSUME NEW n \in 0 .. N
               PROVE  after[n] = IF n = 0 THEN Tables ELSE step[<<after[n - 1], s[n]>>]
    BY DEF Follows
  <2>1. n # 0 => n - 1 \in 0 .. N /\ n \in 1 .. N
    BY <1>5
  <2>2. n # 0 => step[<<after[n - 1], s[n]>>] = Upserted(after[n - 1], s[n])
    BY <1>3, <1>5, <1>11, <2>1
  <2>3. after[n] = IF n = 0 THEN Tables ELSE Upserted(after[n - 1], s[n])
    BY <1>10
  <2> QED BY <2>2, <2>3
<1>13. Puts(content, T, Chunk, step)
  <2> SUFFICES ASSUME NEW x \in T, NEW c \in Chunk
               PROVE  content[step[<<x, c>>]] = Put(content[x], {c})
    BY DEF Puts
  <2>1. Upserted(x, c) \in T /\ Range(Upserted(x, c).rows) = Put(Range(x.rows), {c})
    BY <1>16
  <2>2. step[<<x, c>>] = Upserted(x, c) /\ content[x] = Range(x.rows)
    BY <1>3, <1>4
  <2>3. content[Upserted(x, c)] = Range(Upserted(x, c).rows)
    BY <1>4, <2>1
  <2> QED BY <2>1, <2>2, <2>3
<1>14. Ends(after, Len(s), content, Tables, s, T)
  BY <1>2, <1>12, <1>13, <1>15, LoopPuts
<1>17. after[N] \in T /\ content[after[N]] = Put(content[Tables], Latest(s))
  BY <1>14 DEF Ends
<1>18. content[after[N]] = Range(after[N].rows) /\ content[Tables] = Range(table)
  <2>1. Tables.rows = table
    BY DEF Tables
  <2> QED BY <1>4, <1>15, <1>17, <2>1
<1> QED BY <1>6, <1>17, <1>18 DEF T

-----------------------------------------------------------------------------
(***************************************************************************)
(* Where a call to the store stands: rows, of which H is the set of        *)
(* chunks.                                                                 *)
(***************************************************************************)
Calls ==
  [op : {"add", "delete"}, batch : Seq(Chunk), at : {"start", "put", "scan", "delete"},
   todo : Seq(Chunk) \cup Seq(Key), last : Nat]

Asked(d, c) ==
  \A i \in DOMAIN c.batch : c.batch[i].id[1] = d /\ (NoId(c.batch[i]) \/ Listed(c.batch[i].id))

(* The first n chunks have been put.                                       *)
PutSoFar(c, n, H) ==
  /\ n + Len(c.todo) = Len(c.batch)
  /\ \A k \in 1 .. Len(c.todo) : c.todo[k] = c.batch[n + k]
  /\ LatestTo(c.batch, n) \subseteq H
Putting(c, H) ==
  /\ c.at = "put" /\ c.op = "add" /\ c.todo \in Seq(Chunk) /\ ~ Rejected(c.batch)
  /\ \E n \in 0 .. Len(c.batch) : PutSoFar(c, n, H)

(* The keys noted are the document's; none that was listed is left out.    *)
Noted(d, todo) == todo \in Seq(Key) /\ \A k \in DOMAIN todo : todo[k][1] = d
Scanning(d, c, H) ==
  /\ c.at = "scan" /\ c.op = "delete" /\ Noted(d, c.todo)
  /\ \A i \in DOMAIN KeyOrder : i <= c.last =>
       \A x \in H : x.id = KeyOrder[i] /\ x.id[1] = d => x.id \in ToSet(c.todo)
Deleting(d, c, H) ==
  /\ c.at = "delete" /\ c.op = "delete" /\ Noted(d, c.todo)
  /\ \A x \in H : x.id[1] = d => x.id \in ToSet(c.todo)

WriterInv(d, c, H) ==
  /\ c \in Calls /\ Asked(d, c)
  /\ \/ c.at = "start" /\ c.last = 0
     \/ Putting(c, H) \/ Scanning(d, c, H) \/ Deleting(d, c, H)

StoreTypes ==
  /\ backend \in {"inmem", "bm25", "okf", "sqlite", "pgvector", "qdrant", "s3vectors"}
  /\ index \in Indexes /\ Tables \in TablesOf(backend)
  /\ backend = "s3vectors" => \A x \in Range(table) : Listed(x.id)
  /\ call \in [Doc -> Calls \cup {None}]

StoreInv ==
  /\ StoreTypes
  /\ \A d \in Doc : call[d] # None =>
       WriterInv(d, call[d], Range(table)) /\ (backend # "s3vectors" => call[d].at = "start")

(* A step of d's writer leaves the other documents alone.                  *)
Spares(d, H, G) == \A x : x.id[1] # d => (x \in H <=> x \in G)

LEMMA OthersKeep ==
  ASSUME NEW d, NEW e, e # d, NEW c, NEW H, NEW G, WriterInv(e, c, H), Spares(d, H, G)
  PROVE  WriterInv(e, c, G)
<1>1. c \in Calls /\ Asked(e, c)
  BY DEF WriterInv
<1>2. CASE c.at = "start" /\ c.last = 0
  BY <1>1, <1>2 DEF WriterInv
<1>3. CASE Putting(c, H)
  <2>1. PICK n \in 0 .. Len(c.batch) : PutSoFar(c, n, H)
    BY <1>3 DEF Putting
  <2>2. c.batch \in Seq(Chunk)
    BY <1>1 DEF Calls
  <2>3. \A x \in LatestTo(c.batch, n) : x.id[1] = e
    <3> TAKE x \in LatestTo(c.batch, n)
    <3>1. PICK j \in 1 .. n : x = c.batch[j]
      BY DEF LatestTo
    <3>2. j \in DOMAIN c.batch
      BY <2>2
    <3> QED BY <1>1, <3>1, <3>2 DEF Asked
  <2>4. \A x \in LatestTo(c.batch, n) : x \in G
    BY <2>1, <2>3 DEF PutSoFar, Spares
  <2>5. PutSoFar(c, n, G)
    BY <2>1, <2>4 DEF PutSoFar
  <2> QED BY <1>1, <1>3, <2>5 DEF WriterInv, Putting
<1>4. CASE Scanning(e, c, H)
  <2>1. \A x \in G : x.id[1] = e => x \in H
    BY DEF Spares
  <2> QED BY <1>1, <1>4, <2>1 DEF WriterInv, Scanning
<1>5. CASE Deleting(e, c, H)
  <2>1. \A x \in G : x.id[1] = e => x \in H
    BY DEF Spares
  <2> QED BY <1>1, <1>5, <2>1 DEF WriterInv, Deleting
<1> QED BY <1>2, <1>3, <1>4, <1>5 DEF WriterInv

LEMMA StepKeeps ==
  ASSUME StoreInv, NEW d \in Doc, NEW c, UNCHANGED backend, call' = [call EXCEPT ![d] = c],
         c # None => WriterInv(d, c, Range(table')) /\ (backend # "s3vectors" => c.at = "start"),
         index' \in Indexes, Tables' \in TablesOf(backend), Spares(d, Range(table), Range(table')),
         backend = "s3vectors" => \A x \in Range(table') : Listed(x.id)
  PROVE  StoreInv'
<1>1. c \in Calls \cup {None}
  BY DEF WriterInv
<1>2. call \in [Doc -> Calls \cup {None}]
  BY DEF StoreInv, StoreTypes
<1>3. call' \in [Doc -> Calls \cup {None}] /\ call'[d] = c /\ \A e \in Doc : e # d => call'[e] = call[e]
  BY <1>1, <1>2
<1>4. StoreTypes'
  BY <1>3 DEF StoreInv, StoreTypes
<1>5. ASSUME NEW e \in Doc, call'[e] # None
      PROVE  WriterInv(e, call'[e], Range(table')) /\ (backend' # "s3vectors" => call'[e].at = "start")
  <2>1. CASE e = d
    BY <1>3, <1>5, <2>1
  <2>2. CASE e # d
    <3>1. call'[e] = call[e] /\ WriterInv(e, call[e], Range(table)) /\ (backend # "s3vectors" => call[e].at = "start")
      BY <1>3, <1>5, <2>2 DEF StoreInv
    <3> QED BY <2>2, <3>1, OthersKeep
  <2> QED BY <2>1, <2>2
<1> QED BY <1>4, <1>5 DEF StoreInv

LEMMA EmptyStore ==
  /\ [list |-> << >>, byID |-> << >>] \in Indexes
  /\ \A b : [rows |-> << >>, text |-> << >>] \in TablesOf(b)
  /\ Range(<< >>) = {} /\ HeldIn([list |-> << >>, byID |-> << >>]) = {}
<1>1. << >> \in [{} -> Nat] /\ << >> \in [{} -> Chunk] /\ << >> \in [{} -> SUBSET STRING] /\ << >> \in Seq(Chunk)
  OBVIOUS
<1>2. {} \in SUBSET Key /\ {} \in SUBSET Nat /\ DOMAIN << >> = {} /\ IsFiniteSet({})
  BY FS_EmptySet
<1>3. << >> \in Texts
  BY <1>1, <1>2 DEF Texts
<1>4. /\ [list |-> << >>, byID |-> << >>] \in Indexes
      /\ HeldIn([list |-> << >>, byID |-> << >>]) = {}
  BY <1>1, <1>2, IndexHolds
<1>5. [rows |-> << >>, text |-> << >>] \in SqlTables /\ Range(<< >>) = {}
  BY <1>1, <1>2, <1>3, SqlIs
<1>6. [rows |-> << >>, text |-> << >>] \in KeyTables
  BY <1>1, <1>2, <1>3, KeyIs
<1> QED BY <1>4, <1>5, <1>6 DEF TablesOf

-----------------------------------------------------------------------------
(* What the contract sees of a call.                                       *)
Seen == [d \in Doc |-> IF call[d] = None THEN None ELSE [op |-> call[d].op, batch |-> call[d].batch]]

LEMMA CallHas ==
  ASSUME StoreInv, NEW d \in Doc, call[d] # None
  PROVE  /\ call[d] \in Calls /\ WriterInv(d, call[d], Range(table)) /\ Asked(d, call[d])
         /\ call[d].op \in {"add", "delete"} /\ call[d].batch \in Seq(Chunk)
         /\ call[d] = [op |-> call[d].op, batch |-> call[d].batch, at |-> call[d].at,
                       todo |-> call[d].todo, last |-> call[d].last]
         /\ Seen[d].op = call[d].op /\ Seen[d].batch = call[d].batch /\ Seen[d] # None
<1>1. call[d] \in Calls /\ WriterInv(d, call[d], Range(table)) /\ Asked(d, call[d])
  BY DEF StoreInv, WriterInv
<1>2. call[d].op \in {"add", "delete"} /\ call[d].batch \in Seq(Chunk)
  BY <1>1 DEF Calls
<1>3. call[d] = [op |-> call[d].op, batch |-> call[d].batch, at |-> call[d].at,
                 todo |-> call[d].todo, last |-> call[d].last]
  BY <1>1 DEF Calls
<1>4. Seen[d] = [op |-> call[d].op, batch |-> call[d].batch]
  BY DEF Seen
<1>5. [op |-> call[d].op, batch |-> call[d].batch] # None
  BY <1>2, BackendAssumption
<1>6. Seen[d].op = call[d].op /\ Seen[d].batch = call[d].batch
  BY <1>4
<1> QED BY <1>1, <1>2, <1>3, <1>4, <1>5, <1>6

LEMMA ReturnsMaps ==
  ASSUME StoreInv, NEW d \in Doc, NEW err, Returns(d, err)
  PROVE  Seen' = [Seen EXCEPT ![d] = None] /\ ret' = [ret EXCEPT ![d] = err]
<1>1. call \in [Doc -> Calls \cup {None}] /\ call' = [call EXCEPT ![d] = None] /\ ret' = [ret EXCEPT ![d] = err]
  BY DEF StoreInv, StoreTypes, Returns
<1>2. \A e \in Doc : call'[e] = IF e = d THEN None ELSE call[e]
  BY <1>1
<1>3. \A e \in Doc : Seen'[e] = IF e = d THEN None ELSE Seen[e]
  BY <1>2 DEF Seen
<1>4. Seen' = [e \in Doc |-> Seen'[e]] /\ [Seen EXCEPT ![d] = None] = [e \in Doc |-> IF e = d THEN None ELSE Seen[e]]
  BY DEF Seen
<1> QED BY <1>1, <1>3, <1>4

LEMMA GoesMaps ==
  ASSUME StoreInv, NEW d \in Doc, call[d] # None, NEW c \in Calls, call' = [call EXCEPT ![d] = c],
         c.op = call[d].op, c.batch = call[d].batch
  PROVE  Seen' = Seen
<1>1. call \in [Doc -> Calls \cup {None}] /\ c # None
  BY BackendAssumption DEF StoreInv, StoreTypes, Calls
<1>2. \A e \in Doc : call'[e] = IF e = d THEN c ELSE call[e]
  BY <1>1
<1>3. \A e \in Doc : Seen'[e] = Seen[e]
  BY <1>1, <1>2 DEF Seen
<1>4. Seen' = [e \in Doc |-> Seen'[e]] /\ Seen = [e \in Doc |-> Seen[e]]
  BY DEF Seen
<1> QED BY <1>3, <1>4

LEMMA DoneMaps ==
  ASSUME StoreInv, NEW d \in Doc, call[d] # None, UNCHANGED backend,
         Held' \in Contract!Wholes(d), Returns(d, "nil")
  PROVE  Contract!Work(d)
<1>1. Seen' = [Seen EXCEPT ![d] = None] /\ ret' = [ret EXCEPT ![d] = "nil"] /\ Seen[d] # None
  BY ReturnsMaps, CallHas
<1>2. Contract!Returns(d, "nil")
  BY <1>1 DEF Contract!Returns, Seen
<1> QED BY <1>1, <1>2 DEF Contract!Work, Seen

LEMMA FailedMaps ==
  ASSUME StoreInv, NEW d \in Doc, call[d] # None, UNCHANGED backend,
         Held' = Held \/ Held' \in (IF backend # "s3vectors" THEN Contract!Wholes(d) ELSE Contract!Parts(d)),
         Returns(d, "error")
  PROVE  Contract!Work(d)
<1>1. Seen' = [Seen EXCEPT ![d] = None] /\ ret' = [ret EXCEPT ![d] = "error"] /\ Seen[d] # None
  BY ReturnsMaps, CallHas
<1>2. Contract!Returns(d, "error")
  BY <1>1 DEF Contract!Returns, Seen
<1> QED BY <1>1, <1>2 DEF Contract!Work, Seen

LEMMA PartMaps ==
  ASSUME StoreInv, NEW d \in Doc, call[d] # None, UNCHANGED <<backend, ret>>, Seen' = Seen,
         Held' = Held \/ Held' \in (IF backend # "s3vectors" THEN Contract!Wholes(d) ELSE Contract!Parts(d))
  PROVE  Contract!Work(d)
<1>1. Seen[d] # None
  BY CallHas
<1> QED BY <1>1 DEF Contract!Work, Seen

LEMMA DeletionMaps ==
  ASSUME StoreInv, NEW d \in Doc, call[d] # None, call[d].op = "delete"
  PROVE  /\ {x \in Held : x.id[1] # d} \in Contract!Wholes(d)
         /\ \A P \in SUBSET {x \in Held : x.id[1] = d} : Held \ P \in Contract!Parts(d)
<1>1. Seen[d].op = "delete"
  BY CallHas
<1>2. Contract!OfDocument(Held, d) = {x \in Held : x.id[1] = d}
  BY DEF Contract!OfDocument
<1>3. Contract!Wholes(d) = {Held \ Contract!OfDocument(Held, d)}
  BY <1>1 DEF Contract!Wholes, Seen
<1>4. Contract!Parts(d) = {Held \ P : P \in SUBSET Contract!OfDocument(Held, d)}
  BY <1>1 DEF Contract!Parts, Seen
<1>5. Held \ {x \in Held : x.id[1] = d} = {x \in Held : x.id[1] # d}
  OBVIOUS
<1> QED BY <1>2, <1>3, <1>4, <1>5

(* A batch whose ids the caller chose.                                     *)
LEMMA AdditionMaps ==
  ASSUME StoreInv, NEW d \in Doc, call[d] # None, call[d].op = "add", ~ Rejected(call[d].batch)
  PROVE  /\ Put(Held, Latest(call[d].batch)) \in Contract!Wholes(d)
         /\ \A P \in SUBSET ToSet(call[d].batch) :
              (\A x, y \in P : x.id = y.id => x = y) => Put(Held, P) \in Contract!Parts(d)
<1> DEFINE batch == call[d].batch
           none == [i \in {} |-> 0]
           U == {i \in DOMAIN batch : batch[i].id[2] = 0}
<1>1. Seen[d].op = "add" /\ Seen[d].batch = batch /\ batch \in Seq(Chunk)
  BY CallHas
<1>2. U = {}
  BY DEF Rejected, NoId
<1>3. none \in [U -> Contract!Fresh(d)] /\ Contract!IsInjective(none) /\ DOMAIN none = {}
  BY <1>2 DEF Contract!IsInjective
<1> HIDE DEF none, batch
<1>4. none \in Contract!Namings(d)
  <2>1. Contract!Namings(d) =
          {names \in [{i \in DOMAIN Seen[d].batch : Seen[d].batch[i].id[2] = 0} -> Contract!Fresh(d)] :
             Contract!IsInjective(names)}
    BY DEF Contract!Namings, Seen
  <2> QED BY <1>1, <1>3, <2>1 DEF U
<1>5. Contract!Named(batch, none) = batch
  <2>1. Contract!Named(batch, none) = [i \in DOMAIN batch |-> batch[i]]
    BY <1>3 DEF Contract!Named
  <2> QED BY <1>1, <2>1
<1>6. Contract!Wholes(d) = {Contract!Put(Held, Contract!Latest(Contract!Named(batch, names))) : names \in Contract!Namings(d)}
  BY <1>1 DEF Contract!Wholes, Seen
<1>7. Contract!Parts(d) = UNION {{Contract!Put(Held, part) : part \in Contract!PartsOf(Contract!Named(batch, names))} : names \in Contract!Namings(d)}
  BY <1>1 DEF Contract!Parts, Seen
<1>8. Put(Held, Latest(batch)) \in Contract!Wholes(d)
  <2>1. Contract!Put(Held, Contract!Latest(Contract!Named(batch, none))) \in Contract!Wholes(d)
    BY <1>4, <1>6
  <2> QED BY <1>5, <2>1, ContractPuts
<1>9. ASSUME NEW P \in SUBSET ToSet(batch), \A x, y \in P : x.id = y.id => x = y
      PROVE  Put(Held, P) \in Contract!Parts(d)
  <2>1. P \in Contract!PartsOf(Contract!Named(batch, none))
    BY <1>5, <1>9 DEF Contract!PartsOf, Contract!ToSet, ToSet
  <2>2. Contract!Put(Held, P) \in Contract!Parts(d)
    BY <1>4, <1>7, <2>1
  <2> QED BY <2>2, ContractPuts
<1> QED BY <1>8, <1>9 DEF batch

LEMMA NamingMaps ==
  ASSUME StoreInv, NEW d \in Doc, call[d] # None, call[d].op = "add",
         NEW new \in [{i \in DOMAIN call[d].batch : NoId(call[d].batch[i])} -> NewIds(d)], IsInjective(new)
  PROVE  Put(Held, Latest(WithIds(call[d].batch, new))) \in Contract!Wholes(d)
<1> DEFINE batch == call[d].batch
           U == {i \in DOMAIN batch : batch[i].id[2] = 0}
<1>1. Seen[d].op = "add" /\ Seen[d].batch = batch /\ batch \in Seq(Chunk)
  BY CallHas
<1>2. Contract!Fresh(d) = NewIds(d)
  <2>1. Contract!Fresh(d) = {n \in Number : \A c \in Held \cup Contract!ToSet(Seen[d].batch) : c.id # <<d, n>>}
    BY DEF Contract!Fresh, Seen
  <2>2. Contract!ToSet(batch) = ToSet(batch)
    BY DEF Contract!ToSet, ToSet
  <2> QED BY <1>1, <2>1, <2>2 DEF NewIds
<1>3. new \in [U -> Contract!Fresh(d)] /\ DOMAIN new = U
  BY <1>2 DEF NoId
<1> HIDE DEF batch
<1>4. new \in Contract!Namings(d)
  <2>1. Contract!Namings(d) =
          {names \in [{i \in DOMAIN Seen[d].batch : Seen[d].batch[i].id[2] = 0} -> Contract!Fresh(d)] :
             Contract!IsInjective(names)}
    BY DEF Contract!Namings, Seen
  <2>2. Contract!IsInjective(new)
    BY DEF Contract!IsInjective, IsInjective
  <2> QED BY <1>1, <1>3, <2>1, <2>2 DEF U
<1>5. Contract!Named(batch, new) = WithIds(batch, new)
  BY <1>3 DEF Contract!Named, WithIds, NoId, U
<1>6. Contract!Wholes(d) = {Contract!Put(Held, Contract!Latest(Contract!Named(batch, names))) : names \in Contract!Namings(d)}
  BY <1>1 DEF Contract!Wholes, Seen
<1>7. Contract!Put(Held, Contract!Latest(Contract!Named(batch, new))) \in Contract!Wholes(d)
  BY <1>4, <1>6
<1> QED BY <1>5, <1>7, ContractPuts DEF batch

-----------------------------------------------------------------------------
(* Each action keeps the invariant, and is a step of the contract or none. *)
Implements(d) == StoreInv' /\ (Contract!Ask(d) \/ Contract!Work(d) \/ UNCHANGED Contract!storeVars)

LEMMA Stays ==
  ASSUME StoreInv, UNCHANGED <<backend, index, table, fts>>
  PROVE  /\ index' \in Indexes /\ Tables' \in TablesOf(backend) /\ Held' = Held
         /\ \A d : Spares(d, Range(table), Range(table'))
         /\ backend = "s3vectors" => \A x \in Range(table') : Listed(x.id)
BY DEF StoreInv, StoreTypes, Tables, Held, InProcess, Spares

LEMMA TablesBecome ==
  ASSUME NEW db \in TablesOf(backend), Becomes(db), UNCHANGED backend
  PROVE  Tables' \in TablesOf(backend) /\ table' = db.rows
<1>1. db = [rows |-> db.rows, text |-> db.text]
  BY DEF TablesOf, SqlTables, KeyTables
<1>2. Tables' = [rows |-> table', text |-> fts'] /\ table' = db.rows /\ fts' = db.text
  BY DEF Tables, Becomes
<1> QED BY <1>1, <1>2

LEMMA PutSpares ==
  ASSUME NEW d, NEW H, NEW P, \A x \in P : x.id[1] = d
  PROVE  Spares(d, H, Put(H, P))
BY DEF Spares, Put

LEMMA LatestHas ==
  ASSUME NEW s
  PROVE  /\ Latest(s) \in SUBSET ToSet(s)
         /\ \A x, y \in Latest(s) : x.id = y.id => (x = y \/ ~ (\A i, j \in DOMAIN s : i < j \/ j < i \/ i = j))
BY DEF Latest, ToSet

LEMMA LatestDiffer ==
  ASSUME NEW S, NEW s \in Seq(S)
  PROVE  \A x, y \in Latest(s) : x.id = y.id => x = y
<1>1. \A i, j \in DOMAIN s : i < j \/ j < i \/ i = j
  OBVIOUS
<1> QED BY <1>1, LatestHas

LEMMA ChunksAre ==
  ASSUME NEW d \in Doc, NEW b \in Batch
  PROVE  /\ Chunks(d, b) \in Seq(Chunk)
         /\ \A i \in DOMAIN Chunks(d, b) : LET c == Chunks(d, b)[i] IN c.id[1] = d /\ (NoId(c) \/ Listed(c.id))
<1> DEFINE s == Chunks(d, b)
           Given == [n : Nat, terms : SUBSET STRING]
<1>1. b \in Seq(Given)
  BY BackendAssumption
<1>2. DOMAIN s = DOMAIN b /\ DOMAIN b = 1 .. Len(b) /\ Len(b) \in Nat
  BY <1>1 DEF Chunks
<1>3. \A i \in DOMAIN b : b[i].n \in Nat /\ b[i].terms \in SUBSET STRING
  <2>1. \A g \in Given : g.n \in Nat /\ g.terms \in SUBSET STRING
    OBVIOUS
  <2> HIDE DEF Given
  <2> QED BY <1>1, <2>1
<1>4. \A i \in DOMAIN b : s[i] = [id |-> <<d, b[i].n>>, terms |-> b[i].terms]
  BY DEF Chunks
<1> HIDE DEF Given
<1>5. ASSUME NEW i \in DOMAIN b
      PROVE  s[i] \in Chunk /\ s[i].id = <<d, b[i].n>> /\ s[i].id[1] = d /\ s[i].id[2] = b[i].n
  <2> DEFINE key == <<d, b[i].n>>
  <2>1. key \in Key /\ key[1] = d /\ key[2] = b[i].n
    BY <1>3 DEF Key
  <2>2. s[i] = [id |-> key, terms |-> b[i].terms]
    BY <1>4
  <2> HIDE DEF key, s
  <2>3. s[i].id = key /\ s[i] \in Chunk
    BY <1>3, <2>1, <2>2 DEF Chunk
  <2> QED BY <2>1, <2>3 DEF key
<1>6. \A i \in DOMAIN b : b[i].n # 0 => Listed(<<d, b[i].n>>)
  BY BackendAssumption
<1>7. s \in Seq(Chunk)
  <2>1. s = [i \in 1 .. Len(b) |-> s[i]]
    BY <1>2 DEF Chunks
  <2> HIDE DEF s
  <2>3. \A i \in 1 .. Len(b) : s[i] \in Chunk
    BY <1>2, <1>5
  <2>2. s \in [1 .. Len(b) -> Chunk]
    BY <2>1, <2>3
  <2> QED BY <1>2, <2>2, SeqDef
<1> HIDE DEF s
<1>8. \A i \in DOMAIN s : s[i].id[1] = d /\ (NoId(s[i]) \/ Listed(s[i].id))
  BY <1>2, <1>5, <1>6 DEF NoId
<1> QED BY <1>7, <1>8 DEF s

LEMMA AskImplements ==
  ASSUME StoreInv, NEW d \in Doc, Ask(d)
  PROVE  Implements(d)
<1>1. PICK c \in {[op |-> "add", batch |-> Chunks(d, b), at |-> "start", todo |-> << >>, last |-> 0] : b \in Batch}
                 \cup {[op |-> "delete", batch |-> << >>, at |-> "start", todo |-> << >>, last |-> 0]} :
        call' = [call EXCEPT ![d] = c]
  BY DEF Ask
<1>2. UNCHANGED <<backend, index, table, fts, ret>> /\ call[d] = None
  BY DEF Ask
<1>3. /\ c.op \in {"add", "delete"} /\ c.at = "start" /\ c.last = 0 /\ c.todo = << >> /\ c.batch \in Seq(Chunk)
      /\ c = [op |-> c.op, batch |-> c.batch, at |-> c.at, todo |-> c.todo, last |-> c.last]
      /\ Asked(d, c)
  <2>1. CASE c = [op |-> "delete", batch |-> << >>, at |-> "start", todo |-> << >>, last |-> 0]
    <3>1. << >> \in Seq(Chunk) /\ c.batch = << >> /\ DOMAIN c.batch = {}
      BY <2>1
    <3> QED BY <2>1, <3>1 DEF Asked
  <2>2. ASSUME NEW b \in Batch, c = [op |-> "add", batch |-> Chunks(d, b), at |-> "start", todo |-> << >>, last |-> 0]
        PROVE  /\ c.op \in {"add", "delete"} /\ c.at = "start" /\ c.last = 0 /\ c.todo = << >> /\ c.batch \in Seq(Chunk)
               /\ c = [op |-> c.op, batch |-> c.batch, at |-> c.at, todo |-> c.todo, last |-> c.last]
               /\ Asked(d, c)
    <3>1. c.batch = Chunks(d, b)
      BY <2>2
    <3>2. Asked(d, c) /\ c.batch \in Seq(Chunk)
      BY <3>1, ChunksAre DEF Asked
    <3> QED BY <2>2, <3>2
  <2> QED BY <1>1, <2>1, <2>2
<1>4. c \in Calls
  <2>1. << >> \in Seq(Chunk)
    OBVIOUS
  <2>2. c.todo = << >> /\ c.at = "start" /\ c.last = 0
    BY <1>3
  <2>3. c.at \in {"start", "put", "scan", "delete"}
    BY <2>2
  <2>4. c.last \in Nat
    BY <2>2
  <2>5. c.todo \in Seq(Chunk) \cup Seq(Key)
    BY <2>1, <2>2
  <2> QED BY <1>3, <2>3, <2>4, <2>5 DEF Calls
<1>5. WriterInv(d, c, Range(table'))
  BY <1>3, <1>4 DEF WriterInv
<1>6. StoreInv'
  BY <1>1, <1>2, <1>3, <1>5, Stays, StepKeeps
<1>7. Contract!Ask(d)
  <2>1. call \in [Doc -> Calls \cup {None}]
    BY DEF StoreInv, StoreTypes
  <2>2. \A e \in Doc : call'[e] = IF e = d THEN c ELSE call[e]
    BY <1>1, <2>1
  <2>3. Seen[d] = None /\ \A e \in Doc : e # d => Seen'[e] = Seen[e]
    BY <1>2, <2>2 DEF Seen
  <2>4. Seen'[d] # None
    <3>1. call'[d] = c /\ c # None
      BY <1>4, <2>2, BackendAssumption DEF Calls
    <3>2. Seen'[d] = [op |-> c.op, batch |-> c.batch]
      BY <3>1 DEF Seen
    <3> QED BY <1>3, <3>2, BackendAssumption
  <2>5. Seen' = [Seen EXCEPT ![d] = Seen'[d]]
    <3>1. Seen' = [e \in Doc |-> Seen'[e]] /\ [Seen EXCEPT ![d] = Seen'[d]] = [e \in Doc |-> IF e = d THEN Seen'[d] ELSE Seen[e]]
      BY DEF Seen
    <3> QED BY <2>3, <3>1
  <2> QED BY <1>2, <2>3, <2>4, <2>5, Stays DEF Contract!Ask, Seen
<1> QED BY <1>6, <1>7 DEF Implements

LEMMA BatchHas ==
  ASSUME StoreInv, NEW d \in Doc, call[d] # None
  PROVE  /\ \A x \in ToSet(call[d].batch) : x \in Chunk /\ x.id[1] = d
         /\ ~ Rejected(call[d].batch) => \A x \in ToSet(call[d].batch) : Listed(x.id)
<1>1. call[d].batch \in Seq(Chunk) /\ Asked(d, call[d])
  BY CallHas
<1>2. \A i \in DOMAIN call[d].batch : call[d].batch[i] \in Chunk
  BY <1>1
<1> QED BY <1>1, <1>2 DEF ToSet, Asked, Rejected

LEMMA NamesAreIds ==
  ASSUME StoreInv, NEW d \in Doc, call[d] # None,
         NEW new \in [{i \in DOMAIN call[d].batch : NoId(call[d].batch[i])} -> NewIds(d)]
  PROVE  WithIds(call[d].batch, new) \in Seq(Chunk)
<1> DEFINE batch == call[d].batch
           s == WithIds(batch, new)
<1>1. batch \in Seq(Chunk) /\ Asked(d, call[d])
  BY CallHas
<1>2. DOMAIN batch = 1 .. Len(batch) /\ Len(batch) \in Nat /\ \A i \in DOMAIN batch : batch[i] \in Chunk /\ batch[i].id[1] = d
  BY <1>1 DEF Asked
<1>3. s = [i \in DOMAIN batch |-> IF NoId(batch[i]) THEN [batch[i] EXCEPT !.id = <<@[1], new[i]>>] ELSE batch[i]]
  BY DEF WithIds
<1>4. \A i \in DOMAIN batch : NoId(batch[i]) => new[i] \in Nat
  BY BackendAssumption DEF NewIds
<1> HIDE DEF batch
<1>5. ASSUME NEW i \in DOMAIN batch PROVE s[i] \in Chunk
  <2>1. CASE NoId(batch[i])
    <3>1. s[i] = [batch[i] EXCEPT !.id = <<d, new[i]>>]
      BY <1>2, <1>3, <2>1
    <3> DEFINE key == <<d, new[i]>>
    <3>2. key \in Key
      BY <1>4, <2>1 DEF Key
    <3>3. batch[i] \in [id : Key, terms : SUBSET STRING] /\ s[i] = [batch[i] EXCEPT !.id = key]
      BY <1>2, <3>1 DEF Chunk
    <3> HIDE DEF key, s
    <3> QED BY <3>2, <3>3 DEF Chunk
  <2>2. CASE ~ NoId(batch[i])
    BY <1>2, <1>3, <2>2
  <2> QED BY <2>1, <2>2
<1>6. s = [i \in 1 .. Len(batch) |-> s[i]]
  BY <1>2, <1>3
<1> HIDE DEF s
<1>7. s \in [1 .. Len(batch) -> Chunk]
  BY <1>2, <1>5, <1>6
<1>8. s \in Seq(Chunk)
  BY <1>2, <1>7, SeqDef
<1> QED BY <1>8 DEF s, batch

(* What returns, in process or not.                                        *)
LEMMA ReturnKeeps ==
  ASSUME StoreInv, NEW d \in Doc, NEW err, UNCHANGED backend, Returns(d, err),
         index' \in Indexes, Tables' \in TablesOf(backend), Spares(d, Range(table), Range(table')),
         backend = "s3vectors" => \A x \in Range(table') : Listed(x.id)
  PROVE  StoreInv'
<1>1. call' = [call EXCEPT ![d] = None]
  BY DEF Returns
<1> QED BY <1>1, StepKeeps

LEMMA InProcessHeld ==
  ASSUME InProcess, UNCHANGED backend
  PROVE  Held = HeldIn(index) /\ Held' = HeldIn(index')
BY DEF InProcess, Held, HeldIn

LEMMA AddInProcessImplements ==
  ASSUME StoreInv, NEW d \in Doc, AddInProcess(d)
  PROVE  Implements(d)
<1>1. PICK new \in [{i \in DOMAIN call[d].batch : NoId(call[d].batch[i])} -> NewIds(d)] :
        IsInjective(new) /\ index' = Inserted(WithIds(call[d].batch, new))
  BY DEF AddInProcess
<1>2. /\ InProcess /\ call[d] # None /\ call[d].op = "add" /\ Returns(d, "nil")
      /\ UNCHANGED <<backend, table, fts>> /\ backend # "s3vectors"
  BY DEF AddInProcess, Starts, InProcess
<1> DEFINE s == WithIds(call[d].batch, new)
<1>3. s \in Seq(Chunk)
  BY <1>2, NamesAreIds
<1>4. index \in Indexes
  BY DEF StoreInv, StoreTypes
<1>5. Put(Held, Latest(s)) \in Contract!Wholes(d)
  BY <1>1, <1>2, NamingMaps
<1> HIDE DEF s
<1>6. index' \in Indexes /\ HeldIn(index') = Put(HeldIn(index), Latest(s))
  BY <1>1, <1>3, <1>4, InsertedIs DEF s
<1>7. Tables' \in TablesOf(backend) /\ Spares(d, Range(table), Range(table'))
  BY <1>2 DEF StoreInv, StoreTypes, Tables, Spares
<1>8. StoreInv'
  BY <1>2, <1>6, <1>7, ReturnKeeps
<1>9. Held' \in Contract!Wholes(d)
  BY <1>2, <1>5, <1>6, InProcessHeld
<1> QED BY <1>2, <1>8, <1>9, DoneMaps DEF Implements

LEMMA DeleteInProcessImplements ==
  ASSUME StoreInv, NEW d \in Doc, DeleteInProcess(d)
  PROVE  Implements(d)
<1>2. /\ InProcess /\ call[d] # None /\ call[d].op = "delete" /\ Returns(d, "nil")
      /\ UNCHANGED <<backend, table, fts>> /\ backend # "s3vectors" /\ index' = Compacted(d)
  BY DEF DeleteInProcess, Starts, InProcess
<1>4. index \in Indexes
  BY DEF StoreInv, StoreTypes
<1>6. index' \in Indexes /\ HeldIn(index') = {c \in HeldIn(index) : c.id[1] # d}
  BY <1>2, <1>4, CompactedIs
<1>7. Tables' \in TablesOf(backend) /\ Spares(d, Range(table), Range(table'))
  BY <1>2 DEF StoreInv, StoreTypes, Tables, Spares
<1>8. StoreInv'
  BY <1>2, <1>6, <1>7, ReturnKeeps
<1>9. Held' \in Contract!Wholes(d)
  <2>1. {x \in Held : x.id[1] # d} \in Contract!Wholes(d)
    BY <1>2, DeletionMaps
  <2> QED BY <1>2, <1>6, <2>1, InProcessHeld
<1> QED BY <1>2, <1>8, <1>9, DoneMaps DEF Implements

LEMMA TableHeld ==
  ASSUME backend \in {"sqlite", "pgvector", "qdrant", "s3vectors"}, UNCHANGED backend
  PROVE  Held = Range(table) /\ Held' = Range(table')
<1>1. ~ InProcess /\ ~ InProcess'
  BY DEF InProcess
<1> QED BY <1>1 DEF Held

(* A transaction or a request, with its answer.                            *)
LEMMA AttemptImplements ==
  ASSUME StoreInv, NEW d \in Doc, call[d] # None, backend \in {"sqlite", "pgvector", "qdrant"},
         NEW db \in TablesOf(backend), Attempt(d, db), UNCHANGED <<backend, index>>,
         Spares(d, Range(table), Range(db.rows)), Range(db.rows) \in Contract!Wholes(d)
  PROVE  Implements(d)
<1>1. backend # "s3vectors" /\ Held = Range(table) /\ Held' = Range(table')
  BY TableHeld
<1>2. Tables \in TablesOf(backend) /\ index' \in Indexes /\ Tables.rows = table
  BY DEF StoreInv, StoreTypes, Tables
<1>3. Spares(d, Range(table), Range(table))
  BY DEF Spares
<1>4. \/ Becomes(db) /\ (Returns(d, "nil") \/ Returns(d, "error"))
      \/ Becomes(Tables) /\ Returns(d, "error")
  BY DEF Attempt
<1>5. CASE Becomes(db) /\ (Returns(d, "nil") \/ Returns(d, "error"))
  <2>1. Tables' \in TablesOf(backend) /\ table' = db.rows
    BY <1>5, TablesBecome
  <2>2. StoreInv'
    BY <1>1, <1>2, <1>5, <2>1, ReturnKeeps
  <2>3. Contract!Work(d)
    BY <1>1, <1>5, <2>1, DoneMaps, FailedMaps
  <2> QED BY <2>2, <2>3 DEF Implements
<1>6. CASE Becomes(Tables) /\ Returns(d, "error")
  <2>1. Tables' \in TablesOf(backend) /\ table' = table
    BY <1>2, <1>6, TablesBecome
  <2>2. StoreInv'
    BY <1>1, <1>2, <1>3, <1>6, <2>1, ReturnKeeps
  <2>3. Contract!Work(d)
    BY <1>1, <1>6, <2>1, FailedMaps
  <2> QED BY <2>2, <2>3 DEF Implements
<1> QED BY <1>4, <1>5, <1>6

LEMMA AddToImplements ==
  ASSUME StoreInv, NEW d \in Doc, NEW b \in {"sqlite", "pgvector", "qdrant"}, AddTo(b, d)
  PROVE  Implements(d)
<1>1. /\ backend = b /\ call[d] # None /\ call[d].op = "add" /\ UNCHANGED <<backend, index>>
      /\ backend \in {"sqlite", "pgvector", "qdrant"} /\ backend # "s3vectors"
  BY DEF AddTo, Starts
<1>2. Tables \in TablesOf(backend) /\ index' \in Indexes /\ Tables.rows = table
  BY <1>1 DEF StoreInv, StoreTypes, Tables
<1>3. CASE Rejected(call[d].batch)
  <2>1. Becomes(Tables) /\ Returns(d, "error")
    BY <1>3 DEF AddTo
  <2>2. Tables' \in TablesOf(backend) /\ table' = table
    BY <1>1, <1>2, <2>1, TablesBecome
  <2>3. Spares(d, Range(table), Range(table'))
    BY <2>2 DEF Spares
  <2>4. StoreInv'
    BY <1>1, <1>2, <2>1, <2>2, <2>3, ReturnKeeps
  <2>5. Held' = Held
    BY <1>1, <2>2, TableHeld
  <2>6. Contract!Work(d)
    BY <1>1, <2>1, <2>5, FailedMaps
  <2> QED BY <2>4, <2>6 DEF Implements
<1>4. CASE ~ Rejected(call[d].batch)
  <2> DEFINE db == Written(call[d].batch)
  <2>1. Attempt(d, db)
    BY <1>4 DEF AddTo
  <2>2. call[d].batch \in Seq(Chunk)
    BY <1>1, CallHas
  <2>3. db \in TablesOf(backend) /\ Range(db.rows) = Put(Range(table), Latest(call[d].batch))
    BY <1>2, <2>2, WrittenIs
  <2> HIDE DEF db
  <2>4. Spares(d, Range(table), Range(db.rows))
    <3>1. \A x \in Latest(call[d].batch) : x.id[1] = d
      BY <1>1, BatchHas, LatestHas
    <3> QED BY <2>3, <3>1, PutSpares
  <2>5. Range(db.rows) \in Contract!Wholes(d)
    BY <1>1, <1>4, <2>3, AdditionMaps, TableHeld
  <2> QED BY <1>1, <2>1, <2>3, <2>4, <2>5, AttemptImplements
<1> QED BY <1>3, <1>4

LEMMA DeleteFromImplements ==
  ASSUME StoreInv, NEW d \in Doc, NEW b \in {"sqlite", "pgvector", "qdrant"}, DeleteFrom(b, d)
  PROVE  Implements(d)
<1>1. /\ backend = b /\ call[d] # None /\ call[d].op = "delete" /\ UNCHANGED <<backend, index>>
      /\ backend \in {"sqlite", "pgvector", "qdrant"} /\ Attempt(d, Cleared(d))
  BY DEF DeleteFrom, Starts
<1>2. Tables \in TablesOf(backend) /\ Tables.rows = table
  BY DEF StoreInv, StoreTypes, Tables
<1> DEFINE X == {r \in DOMAIN table : table[r].id[1] = d}
           db == Dropped(Tables, X)
<1>3. Cleared(d) = db
  BY DEF Cleared
<1>5. {table[r] : r \in DOMAIN table \ X} = {x \in Range(table) : x.id[1] # d}
  BY DEF Range
<1> HIDE DEF X
<1>4. db \in TablesOf(backend) /\ Range(db.rows) = {table[r] : r \in DOMAIN table \ X}
  <2>1. /\ db \in TablesOf(backend)
        /\ Range(db.rows) = {Tables.rows[r] : r \in DOMAIN Tables.rows \ X}
    BY <1>2, DroppedIs
  <2> HIDE DEF db
  <2> QED BY <1>2, <2>1
<1> HIDE DEF db
<1>6. Spares(d, Range(table), Range(db.rows))
  BY <1>4, <1>5 DEF Spares
<1>7. Range(db.rows) \in Contract!Wholes(d)
  BY <1>1, <1>4, <1>5, DeletionMaps, TableHeld
<1> QED BY <1>1, <1>3, <1>4, <1>6, <1>7, AttemptImplements

-----------------------------------------------------------------------------
(* S3 Vectors. A call goes on.                                             *)
LEMMA MoveImplements ==
  ASSUME StoreInv, NEW d \in Doc, call[d] # None, backend = "s3vectors", UNCHANGED <<backend, index, ret>>,
         NEW c \in Calls, c.op = call[d].op, c.batch = call[d].batch, call' = [call EXCEPT ![d] = c],
         Putting(c, Range(table')) \/ Scanning(d, c, Range(table')) \/ Deleting(d, c, Range(table')),
         Tables' \in TablesOf(backend), Spares(d, Range(table), Range(table')),
         \A x \in Range(table') : Listed(x.id),
         Range(table') = Range(table) \/ Range(table') \in Contract!Parts(d)
  PROVE  Implements(d)
<1>1. Asked(d, c)
  <2>1. Asked(d, call[d])
    BY CallHas
  <2> QED BY <2>1 DEF Asked
<1>2. WriterInv(d, c, Range(table'))
  BY <1>1 DEF WriterInv
<1>3. index' \in Indexes
  BY DEF StoreInv, StoreTypes
<1>4. StoreInv'
  BY <1>2, <1>3, StepKeeps
<1>5. Held' = Held \/ Held' \in Contract!Parts(d)
  BY TableHeld
<1>6. Contract!Work(d)
  BY <1>5, GoesMaps, PartMaps
<1> QED BY <1>4, <1>6 DEF Implements

LEMMA GoesIs ==
  ASSUME StoreInv, NEW d \in Doc, call[d] # None, NEW where \in {"start", "put", "scan", "delete"},
         NEW todo \in Seq(Chunk) \cup Seq(Key), Goes(d, where, todo)
  PROVE  \E c \in Calls :
           /\ c.op = call[d].op /\ c.batch = call[d].batch /\ c.at = where /\ c.todo = todo /\ c.last = call[d].last
           /\ call' = [call EXCEPT ![d] = c] /\ UNCHANGED ret
<1> DEFINE c == [call[d] EXCEPT !.at = where, !.todo = todo]
<1>1. call[d] \in Calls /\ call \in [Doc -> Calls \cup {None}]
  BY CallHas DEF StoreInv, StoreTypes
<1>2. c \in Calls /\ c.op = call[d].op /\ c.batch = call[d].batch /\ c.at = where /\ c.todo = todo /\ c.last = call[d].last
  BY <1>1 DEF Calls
<1>3. call' = [call EXCEPT ![d] = c] /\ UNCHANGED ret
  BY <1>1 DEF Goes
<1> HIDE DEF c
<1> QED BY <1>2, <1>3

LEMMA S3Has ==
  ASSUME StoreInv, backend = "s3vectors"
  PROVE  /\ Tables \in KeyTables /\ table \in [DOMAIN table -> Chunk] /\ DOMAIN table \in SUBSET Key
         /\ fts \in Texts /\ \A id \in DOMAIN table : table[id].id = id
         /\ \A x \in Range(table) : x \in Chunk /\ Listed(x.id) /\ x.id \in DOMAIN table /\ table[x.id] = x
<1>1. Tables \in KeyTables /\ Tables.rows = table /\ Tables.text = fts
  BY DEF StoreInv, StoreTypes, TablesOf, Tables
<1>2. /\ DOMAIN Tables.rows \in SUBSET Key /\ Tables.rows \in [DOMAIN Tables.rows -> Chunk] /\ Tables.text \in Texts
      /\ \A id \in DOMAIN Tables.rows : Tables.rows[id].id = id
  BY <1>1, KeyHas
<1>3. /\ DOMAIN table \in SUBSET Key /\ table \in [DOMAIN table -> Chunk] /\ fts \in Texts
      /\ \A id \in DOMAIN table : table[id].id = id
  BY <1>1, <1>2
<1>4. \A x \in Range(table) : Listed(x.id)
  BY DEF StoreInv, StoreTypes
<1>5. \A x \in Range(table) : x \in Chunk /\ x.id \in DOMAIN table /\ table[x.id] = x
  BY <1>3 DEF Range
<1> QED BY <1>1, <1>3, <1>4, <1>5

LEMMA S3Fails ==
  ASSUME StoreInv, NEW d \in Doc, call[d] # None, backend = "s3vectors", UNCHANGED <<backend, index, table, fts>>,
         Returns(d, "error")
  PROVE  Implements(d)
<1>1. StoreInv' /\ Held' = Held
  BY Stays, ReturnKeeps
<1> QED BY <1>1, FailedMaps DEF Implements

LEMMA S3StartImplements ==
  ASSUME StoreInv, NEW d \in Doc, S3Start(d)
  PROVE  Implements(d)
<1>1. /\ backend = "s3vectors" /\ call[d] # None /\ call[d].at = "start" /\ UNCHANGED <<backend, index, table, fts>>
  BY DEF S3Start
<1>2. /\ call[d].op \in {"add", "delete"} /\ call[d].batch \in Seq(Chunk) /\ Asked(d, call[d])
      /\ WriterInv(d, call[d], Range(table))
  BY <1>1, CallHas
<1>3. /\ Tables' \in TablesOf(backend) /\ Spares(d, Range(table), Range(table')) /\ Range(table') = Range(table)
      /\ \A x \in Range(table') : Listed(x.id)
  BY <1>1, Stays
<1>4. CASE call[d].op = "delete"
  <2>1. << >> \in Seq(Key) /\ DOMAIN << >> = {}
    OBVIOUS
  <2>7. << >> \in Seq(Chunk) \cup Seq(Key) /\ Goes(d, "scan", << >>)
    BY <1>4, <2>1 DEF S3Start
  <2>2. PICK c \in Calls :
          /\ c.op = call[d].op /\ c.batch = call[d].batch /\ c.at = "scan" /\ c.todo = << >> /\ c.last = call[d].last
          /\ call' = [call EXCEPT ![d] = c] /\ UNCHANGED ret
    <3> DEFINE nothing == << >>
    <3>1. nothing \in Seq(Chunk) \cup Seq(Key) /\ Goes(d, "scan", nothing)
      BY <2>7
    <3> HIDE DEF nothing
    <3>2. \E c \in Calls :
            /\ c.op = call[d].op /\ c.batch = call[d].batch /\ c.at = "scan" /\ c.todo = nothing /\ c.last = call[d].last
            /\ call' = [call EXCEPT ![d] = c] /\ UNCHANGED ret
      BY <1>1, <3>1, GoesIs
    <3> QED BY <3>2 DEF nothing
  <2>3. call[d].last = 0
    BY <1>1, <1>2 DEF WriterInv, Putting, Scanning, Deleting
  <2>4. Noted(d, c.todo)
    BY <2>1, <2>2 DEF Noted
  <2>5. \A i \in DOMAIN KeyOrder : ~ (i <= c.last)
    <3>1. KeyOrder \in Seq(Key) /\ c.last = 0
      BY <2>2, <2>3, BackendAssumption
    <3> QED BY <3>1
  <2>6. Scanning(d, c, Range(table'))
    BY <1>4, <2>2, <2>4, <2>5 DEF Scanning
  <2> QED BY <1>1, <1>3, <2>2, <2>6, MoveImplements
<1>5. CASE call[d].op # "delete" /\ Rejected(call[d].batch)
  <2>1. Returns(d, "error")
    BY <1>5 DEF S3Start
  <2> QED BY <1>1, <2>1, S3Fails
<1>6. CASE call[d].op # "delete" /\ ~ Rejected(call[d].batch)
  <2>1. Goes(d, "put", call[d].batch)
    BY <1>6 DEF S3Start
  <2>2. PICK c \in Calls :
          /\ c.op = call[d].op /\ c.batch = call[d].batch /\ c.at = "put" /\ c.todo = call[d].batch /\ c.last = call[d].last
          /\ call' = [call EXCEPT ![d] = c] /\ UNCHANGED ret
    BY <1>1, <1>2, <2>1, GoesIs
  <2>3. PutSoFar(c, 0, Range(table'))
    <3>1. LatestTo(c.batch, 0) = {}
      BY DEF LatestTo
    <3>2. Len(c.batch) \in Nat /\ \A k \in 1 .. Len(c.todo) : 0 + k = k
      BY <1>2, <2>2
    <3> QED BY <2>2, <3>1, <3>2 DEF PutSoFar
  <2>4. 0 \in 0 .. Len(c.batch)
    BY <1>2, <2>2
  <2>5. Putting(c, Range(table'))
    BY <1>2, <1>6, <2>2, <2>3, <2>4 DEF Putting
  <2> QED BY <1>1, <1>3, <2>2, <2>5, MoveImplements
<1> QED BY <1>4, <1>5, <1>6

(* The first batch of a sequence, and what is left of it.                  *)
Splits(s, m, first, rest) ==
  /\ Len(first) = m /\ \A k \in 1 .. m : first[k] = s[k]
  /\ Len(rest) = Len(s) - m /\ \A k \in 1 .. Len(s) - m : rest[k] = s[m + k]

LEMMA BatchesIs ==
  ASSUME NEW S, NEW s \in Seq(S)
  PROVE  /\ FirstBatch(s) \in Seq(S) /\ Rest(s) \in Seq(S)
         /\ \E m \in 0 .. Len(s) : Splits(s, m, FirstBatch(s), Rest(s))
<1>1. PageSize \in Nat /\ PageSize > 0 /\ Len(s) \in Nat
  BY BackendAssumption
<1>2. CASE PageSize < Len(s)
  <2>1. FirstBatch(s) = SubSeq(s, 1, PageSize) /\ Rest(s) = SubSeq(s, PageSize + 1, Len(s))
    BY <1>2 DEF FirstBatch, Rest
  <2>2. /\ SubSeq(s, 1, PageSize) \in Seq(S) /\ Len(SubSeq(s, 1, PageSize)) = PageSize
        /\ \A k \in 1 .. PageSize : SubSeq(s, 1, PageSize)[k] = s[k]
    BY <1>1, <1>2
  <2>3. /\ SubSeq(s, PageSize + 1, Len(s)) \in Seq(S) /\ Len(SubSeq(s, PageSize + 1, Len(s))) = Len(s) - PageSize
        /\ \A k \in 1 .. Len(s) - PageSize : SubSeq(s, PageSize + 1, Len(s))[k] = s[PageSize + k]
    BY <1>1, <1>2
  <2>4. PageSize \in 0 .. Len(s)
    BY <1>1, <1>2
  <2>5. Splits(s, PageSize, FirstBatch(s), Rest(s))
    BY <2>1, <2>2, <2>3 DEF Splits
  <2> QED BY <2>1, <2>2, <2>3, <2>4, <2>5
<1>3. CASE ~ (PageSize < Len(s))
  <2>1. FirstBatch(s) = SubSeq(s, 1, Len(s)) /\ Rest(s) = SubSeq(s, PageSize + 1, Len(s))
    BY <1>3 DEF FirstBatch, Rest
  <2>2. /\ SubSeq(s, 1, Len(s)) \in Seq(S) /\ Len(SubSeq(s, 1, Len(s))) = Len(s)
        /\ \A k \in 1 .. Len(s) : SubSeq(s, 1, Len(s))[k] = s[k]
    BY <1>1
  <2>3. SubSeq(s, PageSize + 1, Len(s)) \in Seq(S) /\ Len(SubSeq(s, PageSize + 1, Len(s))) = 0
    BY <1>1, <1>3
  <2>4. Len(s) \in 0 .. Len(s) /\ Len(s) - Len(s) = 0 /\ 1 .. 0 = {}
    BY <1>1
  <2> QED BY <2>1, <2>2, <2>3, <2>4 DEF Splits
<1> QED BY <1>2, <1>3

LEMMA RequestImplements ==
  ASSUME StoreInv, NEW d \in Doc, call[d] # None, backend = "s3vectors", UNCHANGED <<backend, index, fts>>,
         NEW where \in {"start", "put", "scan", "delete"},
         NEW K \in SUBSET Key, NEW effect \in [K -> Chunk], \A id \in K : effect[id].id = id,
         Spares(d, Range(table), Range(effect)), \A x \in Range(effect) : Listed(x.id),
         Range(effect) \in Contract!Parts(d), S3Request(d, where, effect),
         Rest(call[d].todo) \in Seq(Chunk) \cup Seq(Key),
         \A c \in Calls :
           c.op = call[d].op /\ c.batch = call[d].batch /\ c.at = where /\ c.todo = Rest(call[d].todo)
           => Putting(c, Range(effect)) \/ Deleting(d, c, Range(effect))
  PROVE  Implements(d)
<1>1. ASSUME table' = effect
      PROVE  /\ Tables' \in TablesOf(backend) /\ Spares(d, Range(table), Range(table'))
             /\ \A x \in Range(table') : Listed(x.id)
  <2>1. [rows |-> effect, text |-> fts] \in KeyTables
    BY S3Has, KeyIs
  <2>2. Tables' = [rows |-> effect, text |-> fts]
    BY <1>1 DEF Tables
  <2> QED BY <1>1, <2>1, <2>2 DEF TablesOf
<1>2. CASE table' = effect /\ Goes(d, where, Rest(call[d].todo))
  <2>1. PICK c \in Calls :
          /\ c.op = call[d].op /\ c.batch = call[d].batch /\ c.at = where /\ c.todo = Rest(call[d].todo)
          /\ call' = [call EXCEPT ![d] = c] /\ UNCHANGED ret
    BY <1>2, GoesIs
  <2>2. Putting(c, Range(table')) \/ Deleting(d, c, Range(table'))
    BY <1>2, <2>1
  <2> QED BY <1>1, <1>2, <2>1, <2>2, MoveImplements
<1>3. CASE table' = effect /\ Returns(d, "error")
  <2>1. index' \in Indexes
    BY DEF StoreInv, StoreTypes
  <2>2. StoreInv'
    BY <1>1, <1>3, <2>1, ReturnKeeps
  <2>3. Held' \in Contract!Parts(d)
    BY <1>3, TableHeld
  <2>4. Contract!Work(d)
    BY <1>3, <2>3, FailedMaps
  <2> QED BY <2>2, <2>4 DEF Implements
<1>4. CASE table' = table /\ Returns(d, "error")
  BY <1>4, S3Fails
<1> QED BY <1>2, <1>3, <1>4 DEF S3Request

LEMMA PutAdvances ==
  ASSUME NEW c \in Calls, NEW H, Putting(c, H), NEW e, e.op = c.op, e.batch = c.batch, e.at = "put",
         e.todo = Rest(c.todo)
  PROVE  Putting(e, Put(H, Latest(FirstBatch(c.todo))))
<1> DEFINE batch == c.batch
           todo == c.todo
           first == FirstBatch(todo)
           G == Put(H, Latest(first))
<1>1. /\ batch \in Seq(Chunk) /\ todo \in Seq(Chunk) /\ ~ Rejected(batch) /\ c.op = "add"
  BY DEF Calls, Putting
<1>2. PICK n \in 0 .. Len(batch) :
        /\ n + Len(todo) = Len(batch) /\ \A k \in 1 .. Len(todo) : todo[k] = batch[n + k]
        /\ LatestTo(batch, n) \subseteq H
  BY DEF Putting, PutSoFar
<1>11. PICK m \in 0 .. Len(todo) : Splits(todo, m, first, Rest(todo))
  BY <1>1, BatchesIs
<1>3. /\ first \in Seq(Chunk) /\ Len(first) = m /\ \A k \in 1 .. m : first[k] = todo[k]
      /\ Rest(todo) \in Seq(Chunk) /\ Len(Rest(todo)) = Len(todo) - m
      /\ \A k \in 1 .. Len(todo) - m : Rest(todo)[k] = todo[m + k]
  BY <1>1, <1>11, BatchesIs DEF Splits
<1> HIDE DEF batch, todo, first
<1>4. /\ n \in Nat /\ m \in Nat /\ Len(batch) \in Nat /\ Len(todo) \in Nat /\ m <= Len(todo)
      /\ n + m \in 0 .. Len(batch) /\ n + m + (Len(todo) - m) = Len(batch)
  <2>1. \A B, T \in Nat : \A i \in 0 .. B, j \in 0 .. T :
          i + T = B => i \in Nat /\ j \in Nat /\ j <= T /\ i + j \in 0 .. B /\ i + j + (T - j) = B
    OBVIOUS
  <2>2. Len(batch) \in Nat /\ Len(todo) \in Nat
    BY <1>1
  <2>3. n + Len(todo) = Len(batch)
    BY <1>2
  <2> QED BY <2>1, <2>2, <2>3
<1>5. \A k \in 1 .. m : k \in 1 .. Len(todo) /\ first[k] = batch[n + k]
  BY <1>2, <1>3, <1>4
<1>6. ASSUME NEW k \in 1 .. Len(todo) - m PROVE Rest(todo)[k] = batch[n + m + k]
  <2>1. m + k \in 1 .. Len(todo) /\ n + (m + k) = n + m + k
    BY <1>4
  <2> QED BY <1>2, <1>3, <2>1
<1>7. ASSUME NEW x \in LatestTo(batch, n + m) PROVE x \in G
  <2>1. PICK j \in 1 .. n + m : x = batch[j] /\ \A k \in 1 .. n + m : j < k => batch[k].id # batch[j].id
    BY DEF LatestTo
  <2>2. Latest(first) = LatestTo(first, m)
    BY <1>3, LatestIsAll
  <2>3. CASE j <= n
    <3>1. j \in 1 .. n /\ \A k \in 1 .. n : k \in 1 .. n + m
      BY <1>4, <2>3
    <3>2. x \in LatestTo(batch, n)
      BY <2>1, <3>1 DEF LatestTo
    <3>3. ASSUME NEW y \in LatestTo(first, m) PROVE x.id # y.id
      <4>1. PICK k \in 1 .. m : y = first[k]
        BY DEF LatestTo
      <4>2. n + k \in 1 .. n + m /\ j < n + k
        BY <1>4, <2>3
      <4> QED BY <1>5, <2>1, <4>1, <4>2
    <3> QED BY <1>2, <2>2, <3>2, <3>3 DEF Put
  <2>4. CASE j > n
    <3>1. j - n \in 1 .. m /\ n + (j - n) = j
      BY <1>4, <2>4
    <3>2. first[j - n] = batch[j]
      BY <1>5, <3>1
    <3>3. ASSUME NEW k \in 1 .. m, j - n < k PROVE first[k].id # first[j - n].id
      <4>1. n + k \in 1 .. n + m /\ j < n + k
        BY <1>4, <3>3
      <4> QED BY <1>5, <2>1, <3>2, <4>1
    <3>4. x \in LatestTo(first, m)
      BY <2>1, <3>1, <3>2, <3>3 DEF LatestTo
    <3> QED BY <2>2, <3>4 DEF Put
  <2> QED BY <1>4, <2>3, <2>4
<1> HIDE DEF G
<1>8. e.todo = Rest(todo) /\ e.batch = batch
  BY DEF todo, batch
<1>9. PutSoFar(e, n + m, G)
  BY <1>3, <1>4, <1>6, <1>7, <1>8 DEF PutSoFar
<1>10. Putting(e, G)
  BY <1>1, <1>3, <1>4, <1>8, <1>9 DEF Putting
<1> QED BY <1>10 DEF G, first, todo

LEMMA S3PutImplements ==
  ASSUME StoreInv, NEW d \in Doc, S3Put(d)
  PROVE  Implements(d)
<1> DEFINE first == FirstBatch(call[d].todo)
           db == Written(first)
           H == Range(table)
<1>1. /\ backend = "s3vectors" /\ call[d] # None /\ call[d].at = "put" /\ UNCHANGED <<backend, index, fts>>
      /\ S3Request(d, "put", db.rows)
  BY DEF S3Put, At
<1>2. /\ call[d] \in Calls /\ Asked(d, call[d]) /\ call[d].batch \in Seq(Chunk)
      /\ WriterInv(d, call[d], H)
  BY <1>1, CallHas
<1>3. Putting(call[d], H)
  BY <1>1, <1>2 DEF WriterInv, Scanning, Deleting
<1>4. call[d].op = "add" /\ call[d].todo \in Seq(Chunk) /\ ~ Rejected(call[d].batch)
  BY <1>3 DEF Putting
<1>5. first \in Seq(Chunk) /\ Rest(call[d].todo) \in Seq(Chunk)
  BY <1>4, BatchesIs
<1>6. \A x \in ToSet(first) : x \in ToSet(call[d].batch)
  <2>1. PICK n \in 0 .. Len(call[d].batch) :
          /\ n + Len(call[d].todo) = Len(call[d].batch)
          /\ \A k \in 1 .. Len(call[d].todo) : call[d].todo[k] = call[d].batch[n + k]
    BY <1>3 DEF Putting, PutSoFar
  <2>2. PICK m \in 0 .. Len(call[d].todo) : Splits(call[d].todo, m, first, Rest(call[d].todo))
    BY <1>4, BatchesIs
  <2> DEFINE B == Len(call[d].batch)
             T == Len(call[d].todo)
  <2>3. B \in Nat /\ T \in Nat /\ n + T = B
    BY <1>2, <1>4, <2>1
  <2>4. DOMAIN first = 1 .. m /\ DOMAIN call[d].batch = 1 .. B
    BY <1>2, <1>5, <2>2 DEF Splits
  <2> HIDE DEF first, B, T
  <2>5. ASSUME NEW k \in 1 .. m PROVE first[k] \in ToSet(call[d].batch)
    <3>1. k \in 1 .. T /\ n + k \in 1 .. B
      BY <2>1, <2>2, <2>3 DEF B, T
    <3>2. first[k] = call[d].batch[n + k]
      BY <2>1, <2>2, <3>1 DEF Splits, T
    <3> QED BY <2>4, <3>1, <3>2 DEF ToSet
  <2> QED BY <2>4, <2>5 DEF ToSet
<1>7. Tables \in TablesOf(backend) /\ Tables.rows = table
  BY DEF StoreInv, StoreTypes, Tables
<1>8. db \in KeyTables /\ Range(db.rows) = Put(H, Latest(first))
  BY <1>1, <1>5, <1>7, WrittenIs DEF TablesOf
<1>9. /\ DOMAIN db.rows \in SUBSET Key /\ db.rows \in [DOMAIN db.rows -> Chunk]
      /\ \A id \in DOMAIN db.rows : db.rows[id].id = id
  BY <1>8, KeyHas
<1> HIDE DEF db, first
<1>10. \A x \in Latest(first) : x \in ToSet(call[d].batch) /\ x.id[1] = d /\ Listed(x.id)
  BY <1>1, <1>4, <1>6, BatchHas, LatestHas
<1>11. Spares(d, H, Range(db.rows))
  BY <1>8, <1>10, PutSpares
<1>12. \A x \in Range(db.rows) : Listed(x.id)
  BY <1>1, <1>8, <1>10, S3Has DEF Put
<1>13. Range(db.rows) \in Contract!Parts(d)
  <2>1. Latest(first) \in SUBSET ToSet(call[d].batch) /\ \A x, y \in Latest(first) : x.id = y.id => x = y
    BY <1>5, <1>10, LatestDiffer
  <2>2. Put(Held, Latest(first)) \in Contract!Parts(d)
    BY <1>1, <1>4, <2>1, AdditionMaps
  <2> QED BY <1>1, <1>8, <2>2, TableHeld
<1>14. ASSUME NEW c \in Calls, c.op = call[d].op, c.batch = call[d].batch, c.at = "put", c.todo = Rest(call[d].todo)
       PROVE  Putting(c, Range(db.rows))
  <2>1. Putting(c, Put(H, Latest(FirstBatch(call[d].todo))))
    BY <1>2, <1>3, <1>14, PutAdvances
  <2> QED BY <1>8, <2>1 DEF first
<1> HIDE DEF H
<1>15. Spares(d, Range(table), Range(db.rows))
  BY <1>11 DEF H
<1>16. "put" \in {"start", "put", "scan", "delete"}
  OBVIOUS
<1> QED BY <1>1, <1>5, <1>9, <1>12, <1>13, <1>14, <1>15, <1>16, RequestImplements

LEMMA S3DeleteImplements ==
  ASSUME StoreInv, NEW d \in Doc, S3Delete(d)
  PROVE  Implements(d)
<1> DEFINE first == FirstBatch(call[d].todo)
           K == DOMAIN table \ ToSet(first)
           effect == Restrict(table, K)
<1>1. /\ backend = "s3vectors" /\ call[d] # None /\ call[d].at = "delete" /\ UNCHANGED <<backend, index, fts>>
      /\ S3Request(d, "delete", effect)
  BY DEF S3Delete, At
<1>2. call[d] \in Calls /\ WriterInv(d, call[d], Range(table))
  BY <1>1, CallHas
<1>3. Deleting(d, call[d], Range(table))
  BY <1>1, <1>2 DEF WriterInv, Scanning, Putting
<1>4. /\ call[d].op = "delete" /\ call[d].todo \in Seq(Key) /\ \A k \in DOMAIN call[d].todo : call[d].todo[k][1] = d
      /\ \A x \in Range(table) : x.id[1] = d => x.id \in ToSet(call[d].todo)
  BY <1>3 DEF Deleting, Noted
<1>5. first \in Seq(Key) /\ Rest(call[d].todo) \in Seq(Key)
  BY <1>4, BatchesIs
<1>6. PICK m \in 0 .. Len(call[d].todo) : Splits(call[d].todo, m, first, Rest(call[d].todo))
  BY <1>4, BatchesIs
<1> DEFINE T == Len(call[d].todo)
           rest == Rest(call[d].todo)
<1>7. /\ T \in Nat /\ DOMAIN first = 1 .. m /\ DOMAIN rest = 1 .. T - m /\ DOMAIN call[d].todo = 1 .. T
  BY <1>4, <1>5, <1>6 DEF Splits
<1>8. /\ \A k \in 1 .. m : first[k] = call[d].todo[k]
      /\ \A k \in 1 .. T - m : rest[k] = call[d].todo[m + k]
  BY <1>6 DEF Splits
<1>9. /\ table \in [DOMAIN table -> Chunk] /\ DOMAIN table \in SUBSET Key
      /\ \A id \in DOMAIN table : table[id].id = id
      /\ \A x \in Range(table) : Listed(x.id) /\ x.id \in DOMAIN table /\ table[x.id] = x
  BY <1>1, S3Has
<1>10. /\ K \in SUBSET Key /\ effect \in [K -> Chunk] /\ \A id \in K : effect[id].id = id
       /\ Range(effect) = {x \in Range(table) : x.id \notin ToSet(first)}
  <2>1. effect = [id \in K |-> table[id]] /\ K \in SUBSET (DOMAIN table)
    BY DEF Restrict
  <2>2. \A id \in K : id \notin ToSet(first) /\ table[id].id = id
    BY <1>9
  <2>3. \A id \in DOMAIN table : id \notin ToSet(first) => id \in K
    OBVIOUS
  <2> HIDE DEF K, effect, first
  <2>4. K \in SUBSET Key /\ effect \in [K -> Chunk] /\ \A id \in K : effect[id].id = id
    BY <1>9, <2>1
  <2>5. Range(effect) = {table[id] : id \in K}
    BY <2>1 DEF Range
  <2>6. {table[id] : id \in K} = {x \in Range(table) : x.id \notin ToSet(first)}
    BY <1>9, <2>1, <2>2, <2>3 DEF Range
  <2> QED BY <2>4, <2>5, <2>6
<1> HIDE DEF effect, K, first, rest, T
<1>11. \A k \in ToSet(first) : k[1] = d
  <2>1. \A k \in 1 .. m : first[k][1] = d
    <3> TAKE k \in 1 .. m
    <3>1. k \in 1 .. T
      BY <1>6, <1>7 DEF T
    <3> QED BY <1>4, <1>7, <1>8, <3>1
  <2> QED BY <1>7, <2>1 DEF ToSet
<1>12. Spares(d, Range(table), Range(effect))
  BY <1>10, <1>11 DEF Spares
<1>13. \A x \in Range(effect) : Listed(x.id)
  BY <1>9, <1>10
<1>14. Range(effect) \in Contract!Parts(d)
  <2> DEFINE P == {x \in Range(table) : x.id \in ToSet(first)}
  <2>1. Held = Range(table)
    BY <1>1, TableHeld
  <2>2. P \in SUBSET {x \in Held : x.id[1] = d} /\ Range(effect) = Held \ P
    BY <1>10, <1>11, <2>1
  <2> HIDE DEF P
  <2> QED BY <1>1, <1>4, <2>2, DeletionMaps
<1>15. Noted(d, rest)
  <2>1. \A k \in 1 .. T - m : rest[k][1] = d
    <3> TAKE k \in 1 .. T - m
    <3>1. m + k \in 1 .. T
      BY <1>6, <1>7 DEF T
    <3>2. call[d].todo[m + k][1] = d
      BY <1>4, <1>7, <3>1
    <3>3. rest[k] = call[d].todo[m + k]
      BY <1>8
    <3> QED BY <3>2, <3>3
  <2> QED BY <1>5, <1>7, <2>1 DEF Noted, rest
<1>16. ASSUME NEW x \in Range(effect), x.id[1] = d PROVE x.id \in ToSet(rest)
  <2>1. x \in Range(table) /\ x.id \notin ToSet(first)
    BY <1>10
  <2>2. PICK k \in 1 .. T : x.id = call[d].todo[k]
    BY <1>4, <1>7, <1>16, <2>1 DEF ToSet
  <2>3. k \notin 1 .. m
    BY <1>7, <1>8, <2>1, <2>2 DEF ToSet
  <2>4. k - m \in 1 .. T - m /\ m + (k - m) = k
    BY <1>6, <1>7, <2>3 DEF T
  <2>5. rest[k - m] = x.id
    BY <1>8, <2>2, <2>4
  <2> QED BY <1>7, <2>4, <2>5 DEF ToSet
<1>17. ASSUME NEW c \in Calls, c.op = call[d].op, c.batch = call[d].batch, c.at = "delete", c.todo = Rest(call[d].todo)
       PROVE  Deleting(d, c, Range(effect))
  BY <1>4, <1>15, <1>16, <1>17 DEF Deleting, rest
<1>18. "delete" \in {"start", "put", "scan", "delete"} /\ Rest(call[d].todo) \in Seq(Chunk) \cup Seq(Key)
  BY <1>5
<1> QED BY <1>1, <1>10, <1>12, <1>13, <1>14, <1>17, <1>18, RequestImplements

LEMMA S3DoneImplements ==
  ASSUME StoreInv, NEW d \in Doc, S3Done(d)
  PROVE  Implements(d)
<1>1. /\ backend = "s3vectors" /\ call[d] # None /\ call[d].at \in {"put", "delete"} /\ call[d].todo = << >>
      /\ Returns(d, "nil") /\ UNCHANGED <<backend, index, table, fts>>
  BY DEF S3Done
<1>2. call[d].batch \in Seq(Chunk) /\ WriterInv(d, call[d], Range(table)) /\ Held = Range(table)
  BY <1>1, CallHas, TableHeld
<1>3. StoreInv' /\ Held' = Held
  BY <1>1, Stays, ReturnKeeps
<1>4. CASE call[d].at = "put"
  <2>1. Putting(call[d], Range(table))
    BY <1>2, <1>4 DEF WriterInv, Scanning, Deleting
  <2>2. call[d].op = "add" /\ ~ Rejected(call[d].batch)
    BY <2>1 DEF Putting
  <2>3. PICK n \in 0 .. Len(call[d].batch) :
          n + Len(call[d].todo) = Len(call[d].batch) /\ LatestTo(call[d].batch, n) \subseteq Range(table)
    BY <2>1 DEF Putting, PutSoFar
  <2>4. n = Len(call[d].batch)
    <3>1. Len(call[d].todo) = 0
      BY <1>1
    <3> QED BY <2>3, <3>1
  <2>5. Latest(call[d].batch) \subseteq Held
    BY <1>2, <2>3, <2>4, LatestIsAll
  <2>6. Put(Held, Latest(call[d].batch)) = Held
    <3>1. \A x, y \in Held : x.id = y.id => x = y
      BY <1>1, <1>2, S3Has
    <3> QED BY <2>5, <3>1 DEF Put
  <2>7. Held' \in Contract!Wholes(d)
    BY <1>1, <1>3, <2>2, <2>6, AdditionMaps
  <2> QED BY <1>1, <1>3, <2>7, DoneMaps DEF Implements
<1>5. CASE call[d].at = "delete"
  <2>1. Deleting(d, call[d], Range(table))
    BY <1>2, <1>5 DEF WriterInv, Scanning, Putting
  <2>2. call[d].op = "delete" /\ \A x \in Range(table) : x.id[1] = d => x.id \in ToSet(call[d].todo)
    BY <2>1 DEF Deleting
  <2>3. ToSet(call[d].todo) = {}
    BY <1>1 DEF ToSet
  <2>4. {x \in Held : x.id[1] # d} = Held
    BY <1>2, <2>2, <2>3
  <2>5. Held' \in Contract!Wholes(d)
    BY <1>1, <1>3, <2>2, <2>4, DeletionMaps
  <2> QED BY <1>1, <1>3, <2>5, DoneMaps DEF Implements
<1> QED BY <1>1, <1>4, <1>5

LEMMA S3ScanImplements ==
  ASSUME StoreInv, NEW d \in Doc, S3Scan(d)
  PROVE  Implements(d)
<1>1. backend = "s3vectors" /\ call[d] # None /\ call[d].at = "scan" /\ UNCHANGED <<backend, index, table, fts>>
  BY DEF S3Scan, At
<1>2. CASE Returns(d, "error")
  BY <1>1, <1>2, S3Fails
<1>3. ASSUME ~ Returns(d, "error") PROVE Implements(d)
  <2> DEFINE c == call[d]
             H == Range(table)
             N == Len(KeyOrder)
             Listing(upto) == {i \in c.last + 1 .. upto : KeyOrder[i] \in DOMAIN table}
             Own(upto) == {i \in Listing(upto) : table[KeyOrder[i]].id[1] = d}
             Found(upto) == [k \in DOMAIN Ascending(Own(upto)) |-> KeyOrder[Ascending(Own(upto))[k]]]
  <2>1. PICK upto \in c.last .. N :
          IF upto = N THEN Goes(d, "delete", c.todo \o Found(upto))
          ELSE call' = [call EXCEPT ![d].todo = c.todo \o Found(upto), ![d].last = upto] /\ UNCHANGED ret
    BY <1>3 DEF S3Scan
  <2> DEFINE S == Own(upto)
             order == Ascending(S)
             n == Cardinality(S)
             found == Found(upto)
             todo == c.todo \o found
  <2>2. c \in Calls /\ WriterInv(d, c, H) /\ call \in [Doc -> Calls \cup {None}]
    BY <1>1, CallHas DEF StoreInv, StoreTypes
  <2>3. Scanning(d, c, H)
    BY <1>1, <2>2 DEF WriterInv, Putting, Deleting
  <2>4. /\ c.op = "delete" /\ c.todo \in Seq(Key) /\ \A k \in DOMAIN c.todo : c.todo[k][1] = d
        /\ \A i \in DOMAIN KeyOrder : i <= c.last =>
             \A x \in H : x.id = KeyOrder[i] /\ x.id[1] = d => x.id \in ToSet(c.todo)
    BY <2>3 DEF Scanning, Noted
  <2>5. KeyOrder \in Seq(Key) /\ N \in Nat /\ DOMAIN KeyOrder = 1 .. N
    BY BackendAssumption
  <2>6. c.last \in Nat /\ upto \in Nat /\ upto <= N /\ c.last <= upto
    <3>1. c.last \in Nat
      <4> HIDE DEF c, H
      <4> QED BY <2>2 DEF Calls
    <3>2. upto \in c.last .. N
      OBVIOUS
    <3> HIDE DEF c, N
    <3> QED BY <2>5, <3>1, <3>2
  <2>7. /\ \A id \in DOMAIN table : table[id].id = id
        /\ \A x \in H : Listed(x.id) /\ x.id \in DOMAIN table /\ table[x.id] = x
    BY <1>1, S3Has
  <2>8. \A i \in S : i \in 1 .. N /\ KeyOrder[i] \in DOMAIN table /\ KeyOrder[i][1] = d
    BY <2>5, <2>6, <2>7
  <2>9. \A i \in c.last + 1 .. upto : KeyOrder[i] \in DOMAIN table /\ KeyOrder[i][1] = d => i \in S
    BY <2>7
  <2> HIDE DEF S, c, H, N
  <2>10. S \in SUBSET Int /\ IsFiniteSet(S)
    <3>1. 1 \in Int /\ N \in Int
      BY <2>5
    <3>2. IsFiniteSet(1 .. N)
      BY <3>1, FS_Interval
    <3>3. S \subseteq 1 .. N
      BY <2>8
    <3>4. IsFiniteSet(S)
      BY <3>2, <3>3, FS_Subset
    <3> QED BY <2>5, <3>3, <3>4
  <2>11. n \in Nat /\ order \in [1 .. n -> S] /\ \A x \in S : \E k \in 1 .. n : order[k] = x
    BY <2>10, InOrderIs
  <2>12. found = [k \in DOMAIN order |-> KeyOrder[order[k]]]
    BY DEF S
  <2> HIDE DEF found, order, n, Found
  <2>13. DOMAIN found = 1 .. n /\ \A k \in 1 .. n : found[k] = KeyOrder[order[k]] /\ order[k] \in S
    BY <2>11, <2>12
  <2>14. \A k \in 1 .. n : found[k] \in Key /\ found[k][1] = d
    BY <2>5, <2>8, <2>13
  <2>15. found \in Seq(Key)
    <3>1. found \in [1 .. n -> Key]
      BY <2>11, <2>12, <2>13, <2>14
    <3> QED BY <2>11, <3>1, SeqDef
  <2>16. /\ todo \in Seq(Key)
         /\ \A k \in DOMAIN c.todo : k \in DOMAIN todo /\ todo[k] = c.todo[k]
         /\ \A k \in 1 .. n : Len(c.todo) + k \in DOMAIN todo /\ todo[Len(c.todo) + k] = found[k]
         /\ \A k \in DOMAIN todo : k \in DOMAIN c.todo \/ \E j \in 1 .. n : todo[k] = found[j]
    <3> DEFINE T == Len(c.todo)
    <3>1. Len(found) = n /\ T \in Nat /\ DOMAIN c.todo = 1 .. T
      BY <2>4, <2>11, <2>13, <2>15
    <3>2. /\ todo \in Seq(Key) /\ Len(todo) = T + n
          /\ \A k \in 1 .. T + n : todo[k] = IF k <= T THEN c.todo[k] ELSE found[k - T]
      BY <2>4, <2>15, <3>1, ConcatProperties
    <3>6. DOMAIN todo = 1 .. T + n
      <4> HIDE DEF todo, T
      <4> QED BY <3>2, LenProperties
    <3> HIDE DEF todo, T
    <3>3. \A k \in 1 .. T : k \in 1 .. T + n /\ k <= T
      BY <2>11, <3>1
    <3>4. \A k \in 1 .. n : T + k \in 1 .. T + n /\ ~ (T + k <= T) /\ (T + k) - T = k
      BY <2>11, <3>1
    <3>5. \A k \in 1 .. T + n : k \in 1 .. T \/ (~ (k <= T) /\ k - T \in 1 .. n)
      BY <2>11, <3>1
    <3>7. /\ \A k \in 1 .. T : k \in DOMAIN todo /\ todo[k] = c.todo[k]
          /\ \A k \in 1 .. n : T + k \in DOMAIN todo /\ todo[T + k] = found[k]
      BY <3>2, <3>3, <3>4, <3>6
    <3>8. ASSUME NEW k \in DOMAIN todo
          PROVE  k \in 1 .. T \/ \E j \in 1 .. n : todo[k] = found[j]
      BY <3>2, <3>5, <3>6, <3>8
    <3> QED BY <3>1, <3>2, <3>7, <3>8 DEF T
  <2> HIDE DEF todo
  <2>17. Noted(d, todo)
    <3>1. \A k \in DOMAIN todo : todo[k][1] = d
      <4> TAKE k \in DOMAIN todo
      <4>1. CASE k \in DOMAIN c.todo
        BY <2>4, <2>16, <4>1
      <4>2. CASE \E j \in 1 .. n : todo[k] = found[j]
        BY <2>14, <4>2
      <4> QED BY <2>16, <4>1, <4>2
    <3> QED BY <2>16, <3>1 DEF Noted
  <2>18. ASSUME NEW i \in DOMAIN KeyOrder, i <= upto, NEW x \in H, x.id = KeyOrder[i], x.id[1] = d
         PROVE  x.id \in ToSet(todo)
    <3>1. CASE i <= c.last
      <4>1. x.id \in ToSet(c.todo)
        BY <2>4, <2>18, <3>1
      <4> QED BY <2>16, <4>1 DEF ToSet
    <3>2. CASE ~ (i <= c.last)
      <4>1. i \in c.last + 1 .. upto
        BY <2>5, <2>6, <2>18, <3>2
      <4>2. i \in S
        BY <2>7, <2>9, <2>18, <4>1
      <4>3. PICK k \in 1 .. n : order[k] = i
        BY <2>11, <4>2
      <4>4. found[k] = x.id
        BY <2>13, <2>18, <4>3
      <4> QED BY <2>16, <4>4 DEF ToSet
    <3> QED BY <3>1, <3>2
  <2>19. /\ Tables' \in TablesOf(backend) /\ Spares(d, Range(table), Range(table')) /\ Range(table') = H
         /\ \A x \in Range(table') : Listed(x.id)
    BY <1>1, Stays DEF H
  <2>20. c # None
    BY <1>1 DEF c
  <2>21. CASE upto = N
    <3>1. Goes(d, "delete", todo)
      BY <2>1, <2>21 DEF todo, found, c, N
    <3>2. PICK e \in Calls :
            /\ e.op = c.op /\ e.batch = c.batch /\ e.at = "delete" /\ e.todo = todo
            /\ call' = [call EXCEPT ![d] = e] /\ UNCHANGED ret
      BY <1>1, <2>16, <3>1, GoesIs DEF c
    <3>3. \A x \in H : x.id[1] = d => x.id \in ToSet(todo)
      <4> SUFFICES ASSUME NEW x \in H, x.id[1] = d PROVE x.id \in ToSet(todo)
        OBVIOUS
      <4>1. PICK i \in DOMAIN KeyOrder : KeyOrder[i] = x.id
        BY <2>7 DEF Listed
      <4>2. i <= upto
        BY <2>5, <2>21
      <4> QED BY <2>18, <4>1, <4>2
    <3>4. Deleting(d, e, Range(table'))
      BY <2>4, <2>17, <2>19, <3>2, <3>3 DEF Deleting
    <3> QED BY <1>1, <2>19, <3>2, <3>4, MoveImplements DEF c, H
  <2>22. CASE upto # N
    <3> DEFINE e == [c EXCEPT !.todo = todo, !.last = upto]
    <3>1. /\ e \in Calls /\ e.op = c.op /\ e.batch = c.batch /\ e.at = c.at /\ e.todo = todo /\ e.last = upto
      BY <2>2, <2>6, <2>16 DEF Calls
    <3>2. call' = [call EXCEPT ![d].todo = todo, ![d].last = upto] /\ UNCHANGED ret
      BY <2>1, <2>22 DEF todo, found, c, N
    <3>3. call' = [call EXCEPT ![d] = e]
      BY <2>2, <3>2 DEF c
    <3> HIDE DEF e
    <3>4. Scanning(d, e, Range(table'))
      BY <1>1, <2>4, <2>17, <2>18, <2>19, <3>1 DEF Scanning, c
    <3> QED BY <1>1, <2>19, <3>1, <3>2, <3>3, <3>4, MoveImplements DEF c, H
  <2> QED BY <2>21, <2>22
<1> QED BY <1>2, <1>3

-----------------------------------------------------------------------------
LEMMA StoreNextImplements ==
  ASSUME StoreInv, StoreNext
  PROVE  StoreInv' /\ [Contract!Next]_(Contract!storeVars)
<1>1. PICK d \in Doc :
        \/ Ask(d)
        \/ AddInProcess(d) \/ DeleteInProcess(d)
        \/ SqliteAdd(d) \/ SqliteDelete(d)
        \/ PgvectorAdd(d) \/ PgvectorDelete(d)
        \/ QdrantAdd(d) \/ QdrantDelete(d)
        \/ S3Start(d) \/ S3Put(d) \/ S3Scan(d) \/ S3Delete(d) \/ S3Done(d)
  BY DEF StoreNext
<1>2. Implements(d)
  <2>1. CASE Ask(d) \/ AddInProcess(d) \/ DeleteInProcess(d)
    BY <2>1, AskImplements, AddInProcessImplements, DeleteInProcessImplements
  <2>2. CASE SqliteAdd(d) \/ PgvectorAdd(d) \/ QdrantAdd(d)
    BY <2>2, AddToImplements DEF SqliteAdd, PgvectorAdd, QdrantAdd
  <2>3. CASE SqliteDelete(d) \/ PgvectorDelete(d) \/ QdrantDelete(d)
    BY <2>3, DeleteFromImplements DEF SqliteDelete, PgvectorDelete, QdrantDelete
  <2>4. CASE S3Start(d) \/ S3Put(d) \/ S3Scan(d) \/ S3Delete(d) \/ S3Done(d)
    BY <2>4, S3StartImplements, S3PutImplements, S3ScanImplements, S3DeleteImplements, S3DoneImplements
  <2> QED BY <1>1, <2>1, <2>2, <2>3, <2>4
<1> QED BY <1>2 DEF Implements, Contract!Next

LEMMA StoreInitImplements ==
  ASSUME StoreInit
  PROVE  StoreInv /\ Contract!Init
<1>1. /\ backend \in {"inmem", "bm25", "okf", "sqlite", "pgvector", "qdrant", "s3vectors"}
      /\ index = [list |-> << >>, byID |-> << >>] /\ table = << >> /\ fts = << >>
      /\ call = [d \in Doc |-> None] /\ ret = [d \in Doc |-> None]
  BY DEF StoreInit
<1>2. index \in Indexes /\ Tables \in TablesOf(backend) /\ Range(table) = {} /\ HeldIn(index) = {}
  BY <1>1, EmptyStore DEF Tables
<1>3. StoreInv
  BY <1>1, <1>2 DEF StoreInv, StoreTypes
<1>4. Held = {}
  BY <1>2 DEF Held, HeldIn
<1>5. Seen = [d \in Doc |-> None]
  BY <1>1 DEF Seen
<1> QED BY <1>1, <1>3, <1>4, <1>5 DEF Contract!Init, Seen

(***************************************************************************)
(* Every backend keeps the promise of memory.Store: whatever its           *)
(* statements, requests, batches and pages, however the calls of any       *)
(* number of writers interleave and fail, Add and Delete have done what    *)
(* they were asked when they return nil; when they fail, a transactional   *)
(* backend has done all or nothing and the S3 one a part; and no call      *)
(* touches another document.                                               *)
(***************************************************************************)
THEOREM StoresKeepTheirPromise == StoreSpec => StoreKeepsItsPromise
<1>1. StoreInit => StoreInv /\ Contract!Init
  BY StoreInitImplements
<1>2. StoreInv /\ [StoreNext]_backendVars => StoreInv' /\ [Contract!Next]_(Contract!storeVars)
  <2>1. ASSUME StoreInv, UNCHANGED backendVars
        PROVE  StoreInv' /\ UNCHANGED Contract!storeVars
    <3>1. /\ backend' = backend /\ index' = index /\ table' = table /\ fts' = fts /\ call' = call /\ ret' = ret
      BY <2>1 DEF backendVars
    <3>2. StoreInv'
      BY <2>1, <3>1 DEF StoreInv, StoreTypes, Tables
    <3>3. Held' = Held
      BY <3>1 DEF Held, InProcess
    <3> QED BY <3>1, <3>2, <3>3 DEF Contract!storeVars
  <2> QED BY <2>1, StoreNextImplements
<1> QED BY <1>1, <1>2, PTL DEF StoreSpec, StoreKeepsItsPromise, Contract!Spec

-----------------------------------------------------------------------------
(***************************************************************************)
(* FixedSize. Window i has the runes from b[i] + 1 to e[i].                *)
(***************************************************************************)
LEMMA Multiples ==
  ASSUME NEW step \in Nat \ {0}, NEW i \in Nat \ {0}
  PROVE  /\ (i - 1) * step \in Nat /\ (i - 1) * step >= i - 1
         /\ ((i + 1) - 1) * step = (i - 1) * step + step
<1> DEFINE k == i - 1
<1>1. k \in Nat /\ i = k + 1 /\ (i + 1) - 1 = k + 1
  OBVIOUS
<1> HIDE DEF k
<1>2. k * step \in Nat /\ (k + 1) * step = k * step + step
  BY <1>1
<1>3. PICK s \in Nat : step = s + 1
  <2>1. step - 1 \in Nat /\ step = (step - 1) + 1
    OBVIOUS
  <2> QED BY <2>1
<1>4. k * step = k * s + k /\ k * s \in Nat
  BY <1>1, <1>3
<1> QED BY <1>1, <1>2, <1>4 DEF k

LEMMA LastWindow ==
  ASSUME NEW n \in Nat \ {0}, NEW size \in Nat \ {0}, NEW step \in Nat \ {0}
  PROVE  LET last == IF n <= size THEN 1 ELSE Min({i \in 1 .. n : (i - 1) * step + size >= n})
         IN /\ last \in 1 .. n /\ (last - 1) * step + size >= n
            /\ \A i \in 1 .. last - 1 : (i - 1) * step + size < n
<1> DEFINE b(i) == (i - 1) * step
           Reaching == {i \in 1 .. n : b(i) + size >= n}
           last == IF n <= size THEN 1 ELSE Min(Reaching)
<1>1. \A i \in 1 .. n : b(i) \in Nat /\ b(i) >= i - 1
  BY Multiples
<1>2. b(1) = 0
  OBVIOUS
<1> HIDE DEF b
<1>3. CASE n <= size
  <2>1. last = 1 /\ 1 \in 1 .. n /\ b(last) = 0
    BY <1>2, <1>3
  <2>2. 1 .. last - 1 = {}
    BY <2>1
  <2> QED BY <1>3, <2>1, <2>2 DEF b
<1>4. CASE ~ (n <= size)
  <2>1. n \in Reaching /\ Reaching \subseteq Nat
    BY <1>1
  <2>2. Min(Reaching) \in Reaching /\ \A y \in Reaching : Min(Reaching) <= y
    <3> HIDE DEF Reaching
    <3> QED BY <2>1, LeastOf
  <2>3. last = Min(Reaching)
    BY <1>4
  <2>4. last \in 1 .. n /\ b(last) + size >= n
    BY <2>2, <2>3
  <2> HIDE DEF last
  <2>5. ASSUME NEW i \in 1 .. last - 1 PROVE b(i) + size < n
    <3>1. i \in 1 .. n /\ i < last
      BY <2>4
    <3>2. i \notin Reaching
      <4> HIDE DEF Reaching
      <4>1. \A y \in Reaching : last <= y
        BY <2>2, <2>3
      <4>2. i \in Nat /\ last \in Nat
        BY <2>4
      <4> QED BY <3>1, <4>1, <4>2
    <3> QED BY <1>1, <3>1, <3>2
  <2> QED BY <2>4, <2>5 DEF b, last, Reaching
<1> QED BY <1>3, <1>4

Windows(text, size, overlap, out, L, b, e) ==
  /\ L \in 1 .. Len(text) /\ out = [i \in 1 .. L |-> out[i]]
  /\ b \in [1 .. L -> Nat] /\ e \in [1 .. L -> 1 .. Len(text)]
  /\ \A i \in 1 .. L : out[i] = SubSeq(text, b[i] + 1, e[i]) /\ b[i] < e[i] /\ e[i] <= b[i] + size
  /\ b[1] = 0 /\ e[L] = Len(text)
  /\ \A i \in 2 .. L : e[i - 1] = b[i] + overlap /\ e[i - 1] = b[i - 1] + size /\ e[i - 1] < e[i]

LEMMA FixedSizeWindows ==
  ASSUME NEW Rune, NEW text \in Seq(Rune), text # << >>, NEW size \in Nat \ {0}, NEW overlap \in 0 .. size - 1
  PROVE  \E L, b, e : Windows(text, size, overlap, FixedSize(text, size, overlap), L, b, e)
<1> DEFINE n == Len(text)
           step == size - overlap
           begin(i) == (i - 1) * step
           L == IF n <= size THEN 1 ELSE Min({i \in 1 .. n : begin(i) + size >= n})
           b == [i \in 1 .. L |-> begin(i)]
           e == [i \in 1 .. L |-> Smaller(begin(i) + size, n)]
           out == FixedSize(text, size, overlap)
<1>1. n \in Nat \ {0} /\ step \in Nat \ {0} /\ size \in Nat /\ overlap \in Nat /\ step + overlap = size
  OBVIOUS
<1>2. out = [i \in 1 .. L |-> SubSeq(text, begin(i) + 1, Smaller(begin(i) + size, n))]
  BY DEF FixedSize
<1> HIDE DEF n, step, out
<1>3. L \in 1 .. n /\ begin(L) + size >= n /\ \A i \in 1 .. L - 1 : begin(i) + size < n
  BY <1>1, LastWindow
<1> HIDE DEF L
<1>4. \A i \in 1 .. L : begin(i) \in Nat /\ begin(i + 1) = begin(i) + step
  BY <1>1, <1>3, Multiples
<1>5. begin(1) = 0
  BY <1>1
<1> HIDE DEF begin
<1>6. ASSUME NEW i \in 1 .. L, i # L
      PROVE  begin(i) + size < n /\ Smaller(begin(i) + size, n) = begin(i) + size
  <2>1. i \in 1 .. L - 1
    BY <1>3, <1>6
  <2>2. begin(i) + size < n
    BY <1>3, <2>1
  <2> QED BY <2>2 DEF Smaller
<1>7. Smaller(begin(L) + size, n) = n
  <2>1. begin(L) \in Nat
    BY <1>3, <1>4
  <2> QED BY <1>1, <1>3, <2>1 DEF Smaller
<1>8. ASSUME NEW i \in 2 .. L
      PROVE  /\ i - 1 \in 1 .. L /\ i - 1 # L /\ begin(i) = begin(i - 1) + step /\ begin(i - 1) + size < n
             /\ begin(i - 1) \in Nat /\ begin(i) < n /\ begin(i) + overlap = begin(i - 1) + size
  <2>1. i - 1 \in 1 .. L /\ i - 1 # L /\ (i - 1) + 1 = i
    BY <1>3
  <2>2. begin(i) = begin(i - 1) + step /\ begin(i - 1) \in Nat
    BY <1>4, <2>1
  <2>3. begin(i - 1) + size < n
    BY <1>6, <2>1
  <2> QED BY <1>1, <2>1, <2>2, <2>3
<1>9. ASSUME NEW i \in 1 .. L
      PROVE  begin(i) < n /\ begin(i) \in Nat
  <2>1. CASE i = 1
    BY <1>1, <1>5, <2>1
  <2>2. CASE i # 1
    <3>1. i \in 2 .. L
      BY <1>3, <2>2
    <3> QED BY <1>4, <1>8, <3>1
  <2> QED BY <2>1, <2>2
<1>10. ASSUME NEW i \in 1 .. L
       PROVE  LET x == Smaller(begin(i) + size, n)
              IN x \in 1 .. n /\ begin(i) < x /\ x <= begin(i) + size
  BY <1>1, <1>9 DEF Smaller
<1>11. DOMAIN out = 1 .. L /\ 1 \in 1 .. L /\ L \in 1 .. L
  BY <1>2, <1>3
<1>12. b \in [1 .. L -> Nat] /\ e \in [1 .. L -> 1 .. n]
  BY <1>4, <1>10
<1>13. \A i \in 1 .. L : out[i] = SubSeq(text, b[i] + 1, e[i]) /\ b[i] < e[i] /\ e[i] <= b[i] + size
  BY <1>2, <1>10
<1>14. b[1] = 0 /\ e[L] = n
  BY <1>5, <1>7, <1>11
<1>15. ASSUME NEW i \in 2 .. L
       PROVE  e[i - 1] = b[i] + overlap /\ e[i - 1] = b[i - 1] + size /\ e[i - 1] < e[i]
  <2>1. i \in 1 .. L /\ e[i - 1] = begin(i - 1) + size /\ b[i] = begin(i) /\ b[i - 1] = begin(i - 1)
    BY <1>3, <1>6, <1>8
  <2>2. e[i] = begin(i) + size \/ e[i] = n
    BY <2>1 DEF Smaller
  <2>3. begin(i - 1) + size < begin(i) + size
    BY <1>1, <1>8
  <2> QED BY <1>1, <1>8, <2>1, <2>2, <2>3
<1>16. out = [i \in 1 .. L |-> out[i]]
  BY <1>2
<1> HIDE DEF b, e
<1>17. Windows(text, size, overlap, out, L, b, e)
  BY <1>3, <1>12, <1>13, <1>14, <1>15, <1>16 DEF Windows, n
<1> QED BY <1>17 DEF out

(* The runes from x + 1 to y are l many.                                   *)
LEMMA Stretch ==
  ASSUME NEW x \in Nat, NEW y \in Nat, x < y, NEW l, l = y - x
  PROVE  /\ l \in Nat /\ l >= 1 /\ l \in 1 .. l /\ 1 \in 1 .. l /\ x + l = y
         /\ x + 1 <= y /\ y - (x + 1) + 1 = l
         /\ \A k \in 1 .. l : k \in Nat /\ (x + 1) + k - 1 = x + k
         /\ \A k \in Nat : x + k < y => k + 1 \in 1 .. l /\ (k # 0 => k \in 1 .. l)
OBVIOUS

LEMMA PartOfPart ==
  ASSUME NEW S, NEW s \in Seq(S), NEW i \in 1 .. Len(s), NEW j \in 1 .. Len(s),
         NEW m \in 1 .. j - i + 1, NEW n \in 1 .. j - i + 1
  PROVE  SubSeq(SubSeq(s, i, j), m, n) = SubSeq(s, i + m - 1, i + n - 1)
BY SubSeqOfSubSeq

(* What the windows of a text are joined to, without what overlaps.        *)
LEMMA WindowsJoin ==
  ASSUME NEW Rune, NEW text \in Seq(Rune), NEW size \in Nat \ {0}, NEW overlap \in 0 .. size - 1,
         NEW out, NEW L, NEW b, NEW e, Windows(text, size, overlap, out, L, b, e)
  PROVE  LET tail(i) == IF i = 1 THEN 0 ELSE Smaller(overlap, Len(out[i - 1]))
             bare == [i \in DOMAIN out |-> SubSeq(out[i], tail(i) + 1, Len(out[i]))]
         IN /\ FlattenSeq(bare) = text
            /\ \A i \in DOMAIN out :
                 /\ Len(out[i]) <= size
                 /\ i > 1 => SubSeq(out[i], 1, tail(i)) = Suffix(out[i - 1], tail(i))
<1> DEFINE n == Len(text)
           tail(i) == IF i = 1 THEN 0 ELSE Smaller(overlap, Len(out[i - 1]))
           bare == [i \in DOMAIN out |-> SubSeq(out[i], tail(i) + 1, Len(out[i]))]
<1>1. /\ n \in Nat /\ L \in 1 .. n /\ DOMAIN out = 1 .. L /\ size \in Nat /\ overlap \in Nat /\ overlap < size
      /\ b \in [1 .. L -> Nat] /\ e \in [1 .. L -> 1 .. n] /\ b[1] = 0 /\ e[L] = n
  BY DEF Windows
<1>2. \A i \in 1 .. L : out[i] = SubSeq(text, b[i] + 1, e[i]) /\ b[i] < e[i] /\ e[i] <= b[i] + size
  BY DEF Windows
<1>3. \A i \in 2 .. L : e[i - 1] = b[i] + overlap /\ e[i - 1] = b[i - 1] + size /\ e[i - 1] < e[i]
  BY DEF Windows
<1> HIDE DEF n
<1>4. ASSUME NEW i \in 1 .. L
      PROVE  b[i] \in Nat /\ e[i] \in Nat /\ e[i] <= n /\ b[i] + 1 \in 1 .. n /\ e[i] \in 1 .. n
  <2>1. b[i] \in Nat /\ e[i] \in 1 .. n /\ b[i] < e[i]
    BY <1>1, <1>2
  <2> QED BY <1>1, <2>1
<1>5. ASSUME NEW i \in 1 .. L
      PROVE  out[i] \in Seq(Rune) /\ Len(out[i]) = e[i] - b[i] /\ Len(out[i]) <= size /\ Len(out[i]) >= 1
  <2>1. b[i] \in Nat /\ e[i] \in Nat /\ b[i] + 1 \in 1 .. n /\ e[i] <= n /\ b[i] < e[i] /\ e[i] <= b[i] + size
    BY <1>2, <1>4
  <2>2. \A k \in b[i] + 1 .. e[i] : text[k] \in Rune
    <3>1. \A k \in 1 .. n : text[k] \in Rune
      BY DEF n
    <3> QED BY <1>1, <2>1, <3>1
  <2>3. SubSeq(text, b[i] + 1, e[i]) \in Seq(Rune)
    BY <2>1, <2>2, SubSeqProperties
  <2>4. Len(SubSeq(text, b[i] + 1, e[i])) = IF b[i] + 1 <= e[i] THEN e[i] - (b[i] + 1) + 1 ELSE 0
    BY <2>1, <2>2, SubSeqProperties
  <2>5. b[i] + 1 <= e[i] /\ e[i] - (b[i] + 1) + 1 = e[i] - b[i] /\ e[i] - b[i] >= 1 /\ e[i] - b[i] <= size
    <3>1. \A x, y, z \in Nat : x < y /\ y <= x + z =>
            x + 1 <= y /\ y - (x + 1) + 1 = y - x /\ y - x >= 1 /\ y - x <= z
      OBVIOUS
    <3> QED BY <1>1, <2>1, <3>1
  <2>6. Len(out[i]) = e[i] - b[i] /\ out[i] \in Seq(Rune)
    BY <1>2, <2>3, <2>4, <2>5
  <2> QED BY <2>5, <2>6
<1>6. ASSUME NEW i \in 2 .. L
      PROVE  /\ i \in 1 .. L /\ i - 1 \in 1 .. L /\ Len(out[i - 1]) = size /\ tail(i) = overlap
             /\ b[i] + overlap = e[i - 1] /\ b[i] + overlap < e[i] /\ e[i - 1] \in Nat
             /\ b[i] = b[i - 1] + (size - overlap)
  <2>1. i \in 1 .. L /\ i - 1 \in 1 .. L /\ i # 1
    BY <1>1
  <2>2. b[i] \in Nat /\ b[i - 1] \in Nat /\ e[i] \in Nat /\ e[i - 1] \in Nat
    BY <1>4, <2>1
  <2>3. Len(out[i - 1]) = size
    <3> DEFINE x == b[i - 1]
               y == e[i - 1]
    <3>1. Len(out[i - 1]) = y - x /\ y = x + size /\ x \in Nat
      BY <1>3, <1>5, <2>1, <2>2
    <3> HIDE DEF x, y
    <3>2. y - x = size
      BY <1>1, <3>1
    <3> QED BY <3>1, <3>2
  <2>4. tail(i) = overlap
    <3>1. tail(i) = Smaller(overlap, Len(out[i - 1]))
      BY <2>1
    <3>2. Smaller(overlap, size) = overlap
      BY <1>1 DEF Smaller
    <3> HIDE DEF tail
    <3> QED BY <2>3, <3>1, <3>2
  <2>5. b[i] = b[i - 1] + (size - overlap)
    <3> DEFINE x == b[i]
               y == b[i - 1]
    <3>1. x + overlap = y + size /\ x \in Nat /\ y \in Nat
      BY <1>3, <2>2
    <3> HIDE DEF x, y
    <3>2. x = y + (size - overlap)
      BY <1>1, <3>1
    <3> QED BY <3>2 DEF x, y
  <2> HIDE DEF tail
  <2> QED BY <1>3, <2>1, <2>2, <2>3, <2>4, <2>5
<1>7. tail(1) = 0
  OBVIOUS
<1> HIDE DEF tail
<1>8. \A i, k, m \in Nat : i + k - 1 = i - 1 + k
  OBVIOUS
(* A window inside the text.                                               *)
<1>9. ASSUME NEW i \in 1 .. L, NEW k \in 1 .. Len(out[i]), NEW m \in 1 .. Len(out[i])
      PROVE  SubSeq(out[i], k, m) = SubSeq(text, b[i] + k, b[i] + m)
  <2>1. b[i] + 1 \in 1 .. Len(text) /\ e[i] \in 1 .. Len(text) /\ b[i] \in Nat /\ e[i] \in Nat
    BY <1>4 DEF n
  <2>2. /\ e[i] - (b[i] + 1) + 1 = Len(out[i])
        /\ (b[i] + 1) + k - 1 = b[i] + k /\ (b[i] + 1) + m - 1 = b[i] + m
    <3> DEFINE x == b[i]
               y == e[i]
               l == Len(out[i])
    <3>1. x \in Nat /\ y \in Nat /\ x < y /\ l = y - x /\ k \in 1 .. l /\ m \in 1 .. l
      BY <1>2, <1>5, <2>1
    <3> HIDE DEF x, y, l
    <3>2. y - (x + 1) + 1 = l /\ (x + 1) + k - 1 = x + k /\ (x + 1) + m - 1 = x + m
      BY <3>1
    <3> QED BY <3>2 DEF x, y, l
  <2>3. k \in 1 .. e[i] - (b[i] + 1) + 1 /\ m \in 1 .. e[i] - (b[i] + 1) + 1
    BY <2>2
  <2>4. SubSeq(SubSeq(text, b[i] + 1, e[i]), k, m) = SubSeq(text, (b[i] + 1) + k - 1, (b[i] + 1) + m - 1)
    <3> DEFINE x == b[i] + 1
               y == e[i]
    <3>1. x \in 1 .. Len(text) /\ y \in 1 .. Len(text) /\ k \in 1 .. y - x + 1 /\ m \in 1 .. y - x + 1
      BY <2>1, <2>3
    <3> HIDE DEF x, y
    <3>2. SubSeq(SubSeq(text, x, y), k, m) = SubSeq(text, x + k - 1, x + m - 1)
      BY <3>1, PartOfPart
    <3> QED BY <3>2 DEF x, y
  <2> QED BY <1>2, <2>2, <2>4
<1>10. DOMAIN bare = 1 .. L /\ \A i \in 1 .. L : bare[i] = SubSeq(out[i], tail(i) + 1, Len(out[i]))
  BY <1>1
<1>11. bare[1] = SubSeq(text, 1, e[1]) /\ \A i \in 2 .. L : bare[i] = SubSeq(text, e[i - 1] + 1, e[i])
  <2>1. bare[1] = SubSeq(text, 1, e[1])
    <3>1. 1 \in 1 .. L
      BY <1>1
    <3>2. bare[1] = SubSeq(out[1], 1, Len(out[1])) /\ Len(out[1]) = e[1] /\ Len(out[1]) \in Nat /\ Len(out[1]) >= 1
      <4>1. b[1] = 0 /\ e[1] \in Nat /\ Len(out[1]) = e[1] - b[1] /\ Len(out[1]) >= 1
        BY <1>1, <1>4, <1>5, <3>1
      <4>2. bare[1] = SubSeq(out[1], 0 + 1, Len(out[1]))
        BY <1>7, <1>10, <3>1
      <4> HIDE DEF bare
      <4> QED BY <4>1, <4>2
    <3>3. 1 \in 1 .. Len(out[1]) /\ Len(out[1]) \in 1 .. Len(out[1])
      BY <3>2
    <3>4. SubSeq(out[1], 1, Len(out[1])) = SubSeq(text, b[1] + 1, b[1] + Len(out[1]))
      BY <1>9, <3>1, <3>3
    <3>5. b[1] + 1 = 1 /\ b[1] + Len(out[1]) = e[1]
      BY <1>1, <3>2
    <3> HIDE DEF bare
    <3> QED BY <3>2, <3>4, <3>5
  <2>2. ASSUME NEW i \in 2 .. L PROVE bare[i] = SubSeq(text, e[i - 1] + 1, e[i])
    <3>1. i \in 1 .. L /\ b[i] \in Nat /\ e[i] \in Nat /\ Len(out[i]) = e[i] - b[i]
      BY <1>4, <1>5, <1>6
    <3>2. bare[i] = SubSeq(out[i], overlap + 1, Len(out[i]))
      BY <1>6, <1>10, <3>1
    <3>3. /\ overlap + 1 \in 1 .. Len(out[i]) /\ Len(out[i]) \in 1 .. Len(out[i])
          /\ b[i] + Len(out[i]) = e[i]
      <4>1. overlap \in Nat /\ b[i] < e[i] /\ b[i] + overlap < e[i]
        BY <1>1, <1>2, <1>6, <3>1
      <4> DEFINE x == b[i]
                 y == e[i]
                 l == Len(out[i])
      <4>2. x \in Nat /\ y \in Nat /\ x < y /\ l = y - x /\ x + overlap < y
        BY <3>1, <4>1
      <4> HIDE DEF x, y, l
      <4>3. overlap + 1 \in 1 .. l /\ l \in 1 .. l /\ x + l = y
        BY <4>1, <4>2
      <4> QED BY <4>3 DEF x, y, l
    <3>4. SubSeq(out[i], overlap + 1, Len(out[i])) = SubSeq(text, b[i] + (overlap + 1), b[i] + Len(out[i]))
      BY <1>9, <3>1, <3>3
    <3>5. b[i] + (overlap + 1) = e[i - 1] + 1 /\ b[i] + Len(out[i]) = e[i]
      <4>1. \A x, y, z \in Nat : x + y = z => x + (y + 1) = z + 1
        OBVIOUS
      <4>2. b[i] + overlap = e[i - 1] /\ e[i - 1] \in Nat
        BY <1>6
      <4> QED BY <1>1, <3>1, <3>3, <4>1, <4>2
    <3> HIDE DEF bare
    <3> QED BY <3>2, <3>4, <3>5
  <2> QED BY <2>1, <2>2
<1>12. ASSUME NEW i \in DOMAIN out
       PROVE  /\ Len(out[i]) <= size
              /\ i > 1 => SubSeq(out[i], 1, tail(i)) = Suffix(out[i - 1], tail(i))
  <2>1. i \in 1 .. L /\ Len(out[i]) <= size
    BY <1>1, <1>5
  <2>2. ASSUME i > 1 PROVE SubSeq(out[i], 1, tail(i)) = Suffix(out[i - 1], tail(i))
    <3>1. i \in 2 .. L
      BY <1>1, <2>1, <2>2
    <3>2. /\ i - 1 \in 1 .. L /\ Len(out[i - 1]) = size /\ tail(i) = overlap /\ b[i] \in Nat /\ b[i - 1] \in Nat
          /\ Len(out[i]) = e[i] - b[i] /\ e[i] \in Nat /\ b[i] + overlap < e[i] /\ b[i] = b[i - 1] + (size - overlap)
      BY <1>4, <1>5, <1>6, <3>1
    <3>3. Suffix(out[i - 1], tail(i)) = SubSeq(out[i - 1], size - overlap + 1, size)
      <4>1. ~ (overlap >= size)
        BY <1>1
      <4> QED BY <3>2, <4>1 DEF Suffix
    <3>4. CASE overlap = 0
      <4>1. \A x \in Seq(Rune) : SubSeq(x, 1, 0) = << >>
        BY SubSeqEmpty
      <4>2. SubSeq(out[i], 1, tail(i)) = << >>
        BY <1>5, <2>1, <3>2, <3>4, <4>1
      <4>3. size + 1 \in Int /\ size \in Int /\ size < size + 1 /\ size - overlap + 1 = size + 1
        BY <1>1, <3>4
      <4>4. SubSeq(out[i - 1], size - overlap + 1, size) = << >>
        BY <4>3, SubSeqEmpty
      <4> QED BY <3>3, <4>2, <4>4
    <3>5. CASE overlap # 0
      <4>1. 1 \in 1 .. Len(out[i]) /\ overlap \in 1 .. Len(out[i])
        <5>1. overlap \in Nat /\ b[i] < e[i]
          BY <1>1, <1>2, <2>1
        <5> QED BY <3>2, <3>5, <5>1, Stretch
      <4>2. SubSeq(out[i], 1, overlap) = SubSeq(text, b[i] + 1, b[i] + overlap)
        BY <1>9, <2>1, <4>1
      <4>3. size - overlap + 1 \in 1 .. Len(out[i - 1]) /\ size \in 1 .. Len(out[i - 1])
        BY <1>1, <3>2, <3>5
      <4>4. SubSeq(out[i - 1], size - overlap + 1, size)
              = SubSeq(text, b[i - 1] + (size - overlap + 1), b[i - 1] + size)
        BY <1>9, <3>2, <4>3
      <4>5. b[i - 1] + (size - overlap + 1) = b[i] + 1 /\ b[i - 1] + size = b[i] + overlap
        <5> DEFINE x == b[i - 1]
                   y == b[i]
        <5>1. x \in Nat /\ y \in Nat /\ y = x + (size - overlap)
          BY <3>2
        <5> HIDE DEF x, y
        <5>2. x + (size - overlap + 1) = y + 1 /\ x + size = y + overlap
          BY <1>1, <5>1
        <5> QED BY <5>2 DEF x, y
      <4> QED BY <3>2, <3>3, <4>2, <4>4, <4>5
    <3> QED BY <3>4, <3>5
  <2> QED BY <2>1, <2>2
<1> HIDE DEF bare
<1>13. bare \in Seq(Seq(Rune)) /\ Len(bare) = L /\ bare # << >>
  <2>1. ASSUME NEW i \in 1 .. L PROVE bare[i] \in Seq(Rune)
    <3>1. out[i] \in Seq(Rune) /\ Len(out[i]) \in Nat /\ tail(i) \in Nat
      <4>1. CASE i = 1
        BY <1>5, <1>7, <4>1
      <4>2. CASE i # 1
        <5>1. i \in 2 .. L
          BY <1>1, <4>2
        <5>2. tail(i) = overlap /\ out[i] \in Seq(Rune)
          BY <1>5, <1>6, <5>1
        <5> QED BY <1>1, <5>2
      <4> QED BY <4>1, <4>2
    <3>2. \A k \in tail(i) + 1 .. Len(out[i]) : out[i][k] \in Rune
      BY <3>1
    <3>3. SubSeq(out[i], tail(i) + 1, Len(out[i])) \in Seq(Rune)
      BY <3>1, <3>2, SubSeqProperties
    <3> QED BY <1>10, <3>3
  <2>2. bare = [i \in 1 .. L |-> bare[i]]
    BY <1>1, <1>10 DEF bare
  <2>3. bare \in [1 .. L -> Seq(Rune)] /\ L \in Nat /\ L >= 1
    BY <1>1, <2>1, <2>2
  <2> QED BY <2>3
<1>14. PICK f \in [1 .. L -> Seq(Rune)] : FlattenSeq(bare) = f[L] /\ \A i \in 1 .. L : Joins(f, bare, i)
  BY <1>13, FlatJoins
<1> DEFINE Good == {k \in 0 .. L : k = 0 \/ f[k] = SubSeq(text, 1, e[k])}
<1>15. 0 \in Good
  BY <1>1
<1>16. ASSUME NEW k \in 0 .. L, k < L, k \in Good PROVE k + 1 \in Good
  <2>1. k + 1 \in 1 .. L /\ k + 1 \in 0 .. L /\ k \in Nat /\ (k + 1) - 1 = k /\ k + 1 # 0
    BY <1>1, <1>16
  <2>2. CASE k = 0
    <3>1. f[1] = bare[1]
      <4>1. Joins(f, bare, 1)
        BY <1>14, <2>1, <2>2
      <4> QED BY <4>1 DEF Joins
    <3> QED BY <1>11, <2>1, <2>2, <3>1
  <2>3. CASE k # 0
    <3>1. k + 1 \in 2 .. L /\ k \in 1 .. L /\ k + 1 # 1
      BY <1>1, <2>1, <2>3
    <3>2. f[k] = SubSeq(text, 1, e[k])
      BY <1>16, <2>3
    <3>3. f[k + 1] = f[k] \o bare[k + 1]
      <4>1. Joins(f, bare, k + 1)
        BY <1>14, <2>1
      <4> QED BY <2>1, <3>1, <4>1 DEF Joins
    <3>4. bare[k + 1] = SubSeq(text, e[k] + 1, e[k + 1])
      BY <1>11, <2>1, <3>1
    <3>5. e[k] \in Nat /\ e[k + 1] \in Nat /\ e[k + 1] <= n /\ e[k] < e[k + 1]
      BY <1>3, <1>4, <2>1, <3>1
    <3>6. 1 \in 1 .. Len(text) + 1 /\ e[k] \in 1 - 1 .. Len(text) /\ e[k + 1] \in e[k] .. Len(text)
      <4> DEFINE x == e[k]
                 y == e[k + 1]
      <4>1. x \in Nat /\ y \in Nat /\ y <= n /\ x < y
        BY <3>5
      <4> HIDE DEF x, y
      <4>2. 1 \in 1 .. n + 1 /\ x \in 1 - 1 .. n /\ y \in x .. n
        BY <1>1, <4>1
      <4> QED BY <4>2 DEF n, x, y
    <3>7. SubSeq(text, 1, e[k]) \o SubSeq(text, e[k] + 1, e[k + 1]) = SubSeq(text, 1, e[k + 1])
      BY <3>6, ConcatAdjacentSubSeq
    <3> QED BY <2>1, <3>2, <3>3, <3>4, <3>7
  <2> QED BY <2>2, <2>3
<1> HIDE DEF Good
<1>17. L \in Nat /\ \A k \in 0 .. L : k \in Good
  <2>1. L \in Nat
    BY <1>1
  <2> QED BY <1>15, <1>16, <2>1, UpTo
<1>18. f[L] = SubSeq(text, 1, Len(text))
  <2>1. L \in Good /\ L # 0
    BY <1>1, <1>17
  <2> QED BY <1>1, <2>1 DEF Good, n
<1>19. FlattenSeq(bare) = text
  BY <1>14, <1>18, SubSeqFull
<1> QED BY <1>12, <1>19 DEF bare, tail

(***************************************************************************)
(* FixedSize of pkg/memory/chunk loses, repeats and reorders no rune of a  *)
(* document: without the overlaps its chunks are the text, none is longer  *)
(* than size, and each begins with the end of the one before.              *)
(***************************************************************************)
THEOREM FixedSizeKeepsTheText ==
  ASSUME NEW Rune, NEW text \in Seq(Rune), NEW size \in Nat \ {0}, NEW overlap \in 0 .. size - 1, NEW seps
  PROVE  ChunksAreTheText([chunker |-> "fixed", text |-> text, size |-> size, overlap |-> overlap, seps |-> seps])
<1> DEFINE j == [chunker |-> "fixed", text |-> text, size |-> size, overlap |-> overlap, seps |-> seps]
           out == FixedSize(text, size, overlap)
           tail(i) == IF i = 1 THEN 0 ELSE Smaller(overlap, Len(out[i - 1]))
           bare == [i \in DOMAIN out |-> SubSeq(out[i], tail(i) + 1, Len(out[i]))]
<1>1. j.chunker = "fixed" /\ j.text = text /\ j.size = size /\ j.overlap = overlap
  OBVIOUS
<1> HIDE DEF j
<1>2. Chunked(j) = out
  BY <1>1 DEF Chunked
<1> HIDE DEF out
<1>3. FlattenSeq(bare) = text /\ \A i \in DOMAIN out :
        /\ Len(out[i]) <= size
        /\ i > 1 => SubSeq(out[i], 1, tail(i)) = Suffix(out[i - 1], tail(i))
  <2>1. CASE text = << >>
    <3>1. out = << >> /\ DOMAIN out = {}
      BY <2>1 DEF out, FixedSize
    <3>2. bare = << >>
      BY <3>1
    <3>3. FlattenSeq(<< >>) = << >>
      BY DEF FlattenSeq
    <3> HIDE DEF bare
    <3> QED BY <2>1, <3>1, <3>2, <3>3
  <2>2. CASE text # << >>
    <3>1. PICK L, b, e : Windows(text, size, overlap, out, L, b, e)
      BY <2>2, FixedSizeWindows DEF out
    <3> QED BY <3>1, WindowsJoin
  <2> QED BY <2>1, <2>2
<1>4. \A i \in DOMAIN out : Len(out[i]) <= size + 0
  BY <1>3, LenProperties
<1> QED BY <1>1, <1>2, <1>3, <1>4 DEF ChunksAreTheText, j

=============================================================================
