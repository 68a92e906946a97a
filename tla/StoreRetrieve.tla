---------------------------- MODULE StoreRetrieve ---------------------------
(***************************************************************************)
(* Retrieve, of every backend, over the state its calls left behind.       *)
(*                                                                         *)
(* A query is [mode, terms, filter, tag, k]: mode "text" or "vector", the  *)
(* terms that stand for either, a document the metadata filter asks for    *)
(* (or None), a term that stands for the OKF tag filter (or None), and K.  *)
(***************************************************************************)
EXTENDS StoreBackends

CONSTANT Query

DefaultK == 5
K(q) == IF q.k <= 0 THEN DefaultK ELSE q.k

(* The modes a backend has; any other query is an error.                   *)
Modes ==
  CASE backend \in {"inmem", "sqlite"}                -> {"text", "vector"}
    [] backend \in {"bm25", "okf"}                    -> {"text"}
    [] backend \in {"pgvector", "qdrant", "s3vectors"} -> {"vector"}

Matches(q, c) == q.filter = None \/ c.id[1] = q.filter

-----------------------------------------------------------------------------
(* Scores. A vector's terms are its directions: equal sets are closest,    *)
(* disjoint ones point apart. BM25 weighs a term by how rare it is.        *)
Cosine(q, c) ==
  2 * Cardinality(q.terms \cap c.terms)
    - Cardinality((q.terms \ c.terms) \cup (c.terms \ q.terms))

LexicalScore(q, c) == Cardinality(q.terms \cap c.terms)

BM25Score(q, c, n, st) ==
  LET idf == MapThenSumSet(LAMBDA t : n + 1 - st.df[t],
                           q.terms \cap c.terms \cap DOMAIN st.df)
  IN IF idf = 0 THEN 0
     ELSE (60 * st.total * idf) \div (n * Cardinality(c.terms) + st.total)

Score(q, c, n, st) ==
  CASE q.mode = "vector" -> Cosine(q, c)
    [] HasStats          -> BM25Score(q, c, n, st)
    [] OTHER             -> LexicalScore(q, c)

Relevant(q, score) == IF q.mode = "vector" THEN score >= 0 ELSE score > 0

-----------------------------------------------------------------------------
(* A stable sort by descending score: of rows, records [c, s].             *)
Ranked(rows) ==
  LET at == [i \in DOMAIN rows |-> [row |-> rows[i], i |-> i]]
      before(a, b) == a.row.s > b.row.s \/ (a.row.s = b.row.s /\ a.i < b.i)
      sorted == SortSeq(at, before)
  IN [i \in DOMAIN sorted |-> sorted[i].row]

Cut(rows, k) == SubSeq(rows, 1, IF k < Len(rows) THEN k ELSE Len(rows))

Scoring(q, chunks) ==
  [i \in DOMAIN chunks |-> [c |-> chunks[i], s |-> Score(q, chunks[i], Len(chunks), stats)]]

Hits(q, rows) == SelectSeq(rows, LAMBDA r : Matches(q, r.c) /\ Relevant(q, r.s))

(* okf: the tag is looked at after the cut, so fewer than K may be left.   *)
Tagged(q, rows) ==
  IF backend = "okf" /\ q.tag # None
  THEN SelectSeq(rows, LAMBDA r : q.tag \in r.c.terms) ELSE rows

InMemoryRetrieve(q) == Tagged(q, Cut(Ranked(Hits(q, Scoring(q, index.list))), K(q)))

(* sqlite reads the rows in rowid order, the text ones through the join of *)
(* the full-text index with the table.                                     *)
SqliteRetrieve(q) ==
  LET rowids == SetToSortSeq(IF q.mode = "text" THEN DOMAIN fts \cap DOMAIN table
                             ELSE DOMAIN table, <)
      text(r) == IF q.mode = "text" THEN fts[r] ELSE table[r].terms
      rows == [i \in DOMAIN rowids |->
                 [c |-> table[rowids[i]],
                  s |-> Score(q, [terms |-> text(rowids[i])], 0, NoStats)]]
  IN Cut(Ranked(Hits(q, rows)), K(q))

(* What the search of a service may come across: pgvector's HNSW index is  *)
(* approximate, and the filter is applied to the rows it gives.            *)
Visits == IF backend = "pgvector" THEN SUBSET Held ELSE {Held}

(* The service answers with its K nearest chunks of those it visits, the   *)
(* far ones included.                                                      *)
Nearest(q, visited) ==
  LET keys == SelectSeq(KeyOrder, LAMBDA id : id \in DOMAIN table /\ table[id] \in visited
                                                /\ Matches(q, table[id]))
  IN Cut(Ranked([i \in DOMAIN keys |-> [c |-> table[keys[i]], s |-> Cosine(q, table[keys[i]])]]), K(q))

Similar(rows) == SelectSeq(rows, LAMBDA r : r.s >= 0)

(* Slip: only the first page is read. *)
FirstPage(q, visited) == Cut(Similar(Cut(Nearest(q, visited), PageSize)), K(q))

(* s3vectors pages through the answer until it has K chunks or no more come.*)
PagedRetrieve(q, visited) ==
  LET answer == Nearest(q, visited)
      after[p \in 0 .. Len(answer)] ==
        IF p = 0 THEN << >>
        ELSE IF p > 1 /\ Len(after[p - 1]) >= K(q) THEN after[p - 1]
        ELSE after[p - 1] \o Similar(SubSeq(answer, (p - 1) * PageSize + 1,
                                       IF p * PageSize < Len(answer) THEN p * PageSize ELSE Len(answer)))
  IN Cut(after[Len(answer)], K(q))

Retrieve(q, visited) ==
  CASE InProcess                          -> InMemoryRetrieve(q)
    [] backend = "sqlite"                 -> SqliteRetrieve(q)
    [] backend \in {"pgvector", "qdrant"} -> Similar(Nearest(q, visited))
    [] backend = "s3vectors"              -> PagedRetrieve(q, visited)

-----------------------------------------------------------------------------
(***************************************************************************)
(* After any calls, a query finds the K best of the chunks that are held,  *)
(* each once, best first: the frequencies, the full-text index and the     *)
(* position map never drift from the chunks, and pages lose nothing. With  *)
(* an OKF tag it finds those of the K best that carry it. pgvector finds   *)
(* the best of what its index visits: never a wrong chunk, but perhaps     *)
(* fewer, or worse ones, than are held.                                    *)
(***************************************************************************)
RetrieveIsTopK ==
  \A q \in Query, visited \in Visits : q.mode \in Modes =>
    LET n == Cardinality(Held)
        truth == StatsOf(SetToSeq(Held))
        score(c) == Score(q, c, n, truth)
        match == {c \in visited : Matches(q, c) /\ Relevant(q, score(c))}
        res == Retrieve(q, visited)
        found == {res[i].c : i \in DOMAIN res}
    IN /\ Cardinality(found) = Len(res) /\ found \subseteq match
       /\ \A i, j \in DOMAIN res : i < j => score(res[i].c) >= score(res[j].c)
       /\ IF backend = "okf" /\ q.tag # None
          THEN \A c \in match :
                 /\ q.tag \in c.terms
                 /\ Cardinality({x \in match : score(x) >= score(c)}) <= K(q)
                 => c \in found
          ELSE /\ Len(res) = IF K(q) < Cardinality(match) THEN K(q) ELSE Cardinality(match)
               /\ \A c \in match \ found : \A r \in found : score(c) <= score(r)

-----------------------------------------------------------------------------
(***************************************************************************)
(* memory.HybridRetriever: reciprocal rank fusion of the rankings of       *)
(* several sources. A ranking is a sequence of chunk ids, or FailedSource. *)
(***************************************************************************)

CONSTANT FailedSource

HybridK(k, own) == IF k > 0 THEN k ELSE IF own > 0 THEN own ELSE 5
Pool(pool, k) == IF pool > 0 THEN pool ELSE IF 4 * k < 20 THEN 20 ELSE 4 * k

FirstOf(s, n) == SubSeq(s, 1, IF n < Len(s) THEN n ELSE Len(s))

RankIn(ranking, id) == CHOOSE i \in DOMAIN ranking : ranking[i] = id

(* 1 / (rrfK + rank), times a common multiple of the denominators.         *)
Contribution(ranking, id, rrfK, longest) ==
  IF id \notin ToSet(ranking) THEN 0
  ELSE ProductSet((rrfK + 1 .. rrfK + longest) \ {rrfK + RankIn(ranking, id)})

(* A job is [sources, k, own, pool, rrfK]: q.K, K, Pool and RRFK.          *)
Fused(job) ==
  LET k       == HybridK(job.k, job.own)
      results == [i \in DOMAIN job.sources |-> FirstOf(job.sources[i], Pool(job.pool, k))]
      longest == Max({0} \cup {Len(results[i]) : i \in DOMAIN results})
      seen    == FlattenSeq(results)
      ids     == ToSet(seen)
      score   == [id \in ids |->
                    FoldLeft(LAMBDA n, r : n + Contribution(r, id, job.rrfK, longest), 0, results)]
      order   == [id \in ids |-> Min({i \in DOMAIN seen : seen[i] = id})]
      before(a, b) == score[a] > score[b] \/ (score[a] = score[b] /\ order[a] < order[b])
  IN IF \E i \in DOMAIN job.sources : job.sources[i] = FailedSource THEN FailedSource
     ELSE FirstOf(SetToSortSeq(ids, before), k)

(* Every source that shows q at all shows p above it.                      *)
Dominates(job, p, q) ==
  /\ p # q
  /\ \A i \in DOMAIN job.sources :
       q \in ToSet(job.sources[i]) =>
         p \in ToSet(job.sources[i]) /\ RankIn(job.sources[i], p) < RankIn(job.sources[i], q)

(***************************************************************************)
(* The fused ranking shows each chunk once, as many as asked for, never    *)
(* puts a chunk below one that every source ranks lower, keeps the order   *)
(* of sources that agree, and is an error, not a degraded ranking, when a  *)
(* source fails.                                                           *)
(***************************************************************************)
FusionRespectsSources(job) ==
  IF \E i \in DOMAIN job.sources : job.sources[i] = FailedSource THEN Fused(job) = FailedSource
  ELSE
    LET out == Fused(job)
        ids == UNION {ToSet(job.sources[i]) : i \in DOMAIN job.sources}
    IN /\ IsInjective(out)
       /\ Len(out) = Min({HybridK(job.k, job.own), Cardinality(ids)})
       /\ \A p \in ids, q \in ToSet(out) :
            Dominates(job, p, q) => p \in ToSet(out) /\ RankIn(out, p) < RankIn(out, q)

=============================================================================
