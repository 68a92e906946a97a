----------------------------- MODULE Embeddings -----------------------------
(***************************************************************************)
(* The embedders behind a store: pkg/embedder (shapes "http" for OpenAI's  *)
(* envelope and "tei"), and those of providers/openai, google and bedrock  *)
(* (titan, one text a request, and cohere). An embedder may be shared: its *)
(* callers have the size of its vectors, dim, in common.                   *)
(*                                                                         *)
(* A vector is [of, size]: the text it was computed from, and its size.    *)
(***************************************************************************)
EXTENDS Integers, Sequences, FiniteSets, FiniteSetsExt

CONSTANTS Caller,
          Embeds,       \* what they ask for: [adapter, dim, service, honours, texts]
          BatchLimit,   \* BatchSize of pkg/embedder, maxCohereBatch
          Native        \* the size a model's vectors have when none is asked for

ASSUME EmbedAssumption ==
  /\ BatchLimit \in Nat \ {0} /\ Native \in Nat \ {0}
  /\ Embeds \subseteq
       [adapter : {"http", "tei", "openai", "google", "titan", "cohere"}, dim : Nat, honours : BOOLEAN,
        service : {"labelled", "unlabelled", "from one", "short", "doubled"},
        texts : [Caller -> Seq(STRING)]]

VARIABLES
  asks,    \* of Embeds
  dim,     \* of the embedder, 0 for not known
  embed    \* caller -> its call of Embed

embedVars == <<asks, dim, embed>>

Hole == [of |-> "nothing", size |-> 0]

Labels == {"http", "openai"}   \* their answers name the index of the text
Fixed == {"titan", "cohere"}   \* they never learn dim

(* NewEmbedder, NewHTTPEmbedder: bedrock's have a size from the start.     *)
FirstDim(e) == IF e.adapter \in Fixed /\ e.dim = 0 THEN Native ELSE e.dim

EmbedInit ==
  /\ asks \in Embeds /\ dim = FirstDim(asks)
  /\ embed = [c \in Caller |-> [at |-> IF asks.texts[c] = << >> THEN "returned" ELSE "batch",
                                asked |-> 0, attempt |-> 0, vecs |-> << >>, error |-> ""]]

Returned(c) == embed[c].at = "returned"

(* The texts of the next request; all that are left for openai and google. *)
NextBatch(c) ==
  LET texts == asks.texts[c]
      start == Len(embed[c].vecs)
      size  == CASE asks.adapter = "titan" -> 1
                 [] asks.adapter \in {"http", "tei", "cohere"} -> BatchLimit
                 [] OTHER -> Len(texts)
  IN SubSeq(texts, start + 1, Min({start + size, Len(texts)}))

Attempts == IF asks.adapter \in {"http", "tei"} THEN 3 ELSE 1

-----------------------------------------------------------------------------
(***************************************************************************)
(* What a service may answer: the vectors of the texts, in their order or, *)
(* "labelled", in any order under the index of the text. Other services    *)
(* send no index, count from one, leave the last vector out or name an     *)
(* index twice. honours: they heed the size they are asked for.            *)
(***************************************************************************)
Index(i, n) ==
  CASE asks.service = "unlabelled" -> 0
    [] asks.service = "from one" -> i
    [] asks.service = "doubled" -> IF i = n /\ n > 1 THEN n - 2 ELSE i - 1
    [] OTHER -> i - 1

Orders(n) ==
  IF asks.adapter \in Labels /\ asks.service = "labelled"
  THEN {p \in [1 .. n -> 1 .. n] : Cardinality({p[i] : i \in 1 .. n}) = n}
  ELSE {[i \in 1 .. n |-> i]}

Answers(batch, asked) ==
  LET n    == Len(batch)
      size == IF asks.honours /\ asked > 0 THEN asked ELSE Native
      sent == IF asks.service = "short" THEN n - 1 ELSE n
  IN {[i \in 1 .. sent |-> [index |-> Index(p[i], n), vec |-> [of |-> batch[p[i]], size |-> size]]] :
        p \in Orders(n)}

-----------------------------------------------------------------------------
(* Slip: the index of an answer is not looked at. *)
SlotInOrder(data, n, i) == i

(* Where the i-th vector goes: pkg/embedder falls back on its position.    *)
Slot(data, n, i) ==
  IF asks.adapter \notin Labels \/ (asks.adapter = "http" /\ data[i].index \notin 0 .. n - 1) THEN i
  ELSE data[i].index + 1

Placed(data, n) ==
  [k \in 1 .. n |->
     LET there == {i \in DOMAIN data : Slot(data, n, i) = k} IN
     IF there = {} THEN Hole ELSE data[Max(there)].vec]

(* A vector of titan has to have the size it was asked for.                *)
WrongSize(data) == asks.adapter = "titan" /\ data[1].vec.size # dim

(* What is wrong with an answer. Only pkg/embedder looks for holes.        *)
Misses(data, n) ==
  \/ asks.adapter # "http" /\ Len(data) # n
  \/ \E i \in DOMAIN data : Slot(data, n, i) \notin 1 .. n
  \/ asks.adapter = "http" /\ \E k \in 1 .. n : Placed(data, n)[k] = Hole
  \/ WrongSize(data)

(* The size is learned once, from a first vector that is there.            *)
Learned(vecs) == IF dim = 0 /\ vecs[1] # Hole THEN vecs[1].size ELSE dim

Fails(c, why) == embed' = [embed EXCEPT ![c].at = "returned", ![c].vecs = << >>, ![c].error = why]

(* The body is made once for a batch, with the size known by then.         *)
AskVectors(c) ==
  /\ embed[c].at = "batch"
  /\ embed' = [embed EXCEPT ![c].at = "asked", ![c].attempt = 1,
                            ![c].asked = IF asks.adapter \in {"tei", "cohere"} THEN 0 ELSE dim]
  /\ UNCHANGED <<asks, dim>>

GetVectors(c) ==
  LET batch == NextBatch(c) IN
  /\ embed[c].at = "asked"
  /\ \E data \in Answers(batch, embed[c].asked) :
       IF Misses(data, Len(batch)) THEN Fails(c, "answer") /\ UNCHANGED dim
       ELSE LET vecs == embed[c].vecs \o Placed(data, Len(batch))
                all  == Len(vecs) = Len(asks.texts[c])
            IN /\ embed' = [embed EXCEPT ![c].vecs = vecs, ![c].at = IF all THEN "returned" ELSE "batch"]
               /\ dim' = IF all THEN Learned(vecs) ELSE dim
  /\ UNCHANGED asks

(* 5xx, 429 and lost answers are tried again by pkg/embedder; 4xx is not.  *)
GetRefused(c) ==
  /\ embed[c].at = "asked"
  /\ \/ Fails(c, "refused")
     \/ IF embed[c].attempt < Attempts THEN embed' = [embed EXCEPT ![c].at = "sleep"]
        ELSE Fails(c, "down")
  /\ UNCHANGED <<asks, dim>>

Sleep(c) ==
  /\ embed[c].at = "sleep"
  /\ \/ embed' = [embed EXCEPT ![c].at = "asked", ![c].attempt = @ + 1]
     \/ Fails(c, "context")
  /\ UNCHANGED <<asks, dim>>

EmbedNext == \E c \in Caller : AskVectors(c) \/ GetVectors(c) \/ GetRefused(c) \/ Sleep(c)

EmbedSpec == EmbedInit /\ [][EmbedNext]_embedVars

-----------------------------------------------------------------------------
(***************************************************************************)
(* A call that succeeds has a vector for every text, its own, in the order *)
(* of the texts, however they were batched, tried again and labelled, and  *)
(* never a hole; a failed call has none. (openai's embedder does not look  *)
(* for holes: it has to be sent each index once.) And Dimensions tells the *)
(* truth: a configured size is never given up, and where sizes are heeded  *)
(* all callers ever get vectors of the one size it tells.                  *)
(***************************************************************************)
EachIndexOnce == asks.service \notin {"unlabelled", "doubled"}

VectorsFollowTheirTexts ==
  /\ asks.dim > 0 => dim = asks.dim
  /\ \A c \in {c \in Caller : Returned(c)} :
       LET vecs == embed[c].vecs
           texts == asks.texts[c]
       IN IF embed[c].error # "" THEN vecs = << >>
          ELSE /\ Len(vecs) = Len(texts)
               /\ asks.adapter # "openai" \/ EachIndexOnce =>
                    \A i \in DOMAIN texts : vecs[i].of = texts[i]
               /\ asks.honours /\ (asks.adapter \in {"tei", "cohere"} => asks.dim \in {0, Native}) =>
                    \A i \in DOMAIN texts : vecs[i] = Hole \/ vecs[i].size = dim

=============================================================================
