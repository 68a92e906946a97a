---------------------------- MODULE StoreBackends ----------------------------
(***************************************************************************)
(* The implementations of memory.Store: InMemoryStore and the BM25 index   *)
(* under their mutex, the SQLite and pgvector tables behind transactions,  *)
(* a Qdrant collection, an S3 Vectors index that is written, scanned and   *)
(* deleted in batches, and the OKF store over BM25.                        *)
(*                                                                         *)
(* A chunk is its id, <<document, number>>, and the set of terms of its    *)
(* text, which stand for its embedding as well. Scores are integers that   *)
(* rank as the code's floats do.                                           *)
(***************************************************************************)
EXTENDS Naturals, Integers, Sequences, FiniteSets, SequencesExt, FiniteSetsExt, Functions, TLC

CONSTANTS
  Doc, None,
  Batch,     \* batches a writer adds: sequences of [n, terms], n = 0 for no ID
  Number,    \* bound: of the ids that uuid makes up
  KeyOrder,  \* the ids in the order in which S3 lists its keys
  MaxOps,    \* bound: calls per writer
  PageSize   \* maxPutBatch, maxDeleteBatch, listPageSize, results per query page

Key == Doc \X Nat
Chunk == [id : Key, terms : SUBSET STRING]
Listed(key) == \E k \in DOMAIN KeyOrder : KeyOrder[k] = key

(* No call is None; a listing shows every key; a page holds something.     *)
ASSUME BackendAssumption ==
  /\ None \notin [op : {"add", "delete"}, batch : Seq(Chunk)]
  /\ None \notin [op : {"add", "delete"}, batch : Seq(Chunk), at : {"start", "put", "scan", "delete"},
                  todo : Seq(Chunk) \cup Seq(Key), last : Nat]
  /\ Batch \subseteq Seq([n : Nat, terms : SUBSET STRING])
  /\ Number \subseteq Nat \ {0} /\ PageSize \in Nat \ {0} /\ KeyOrder \in Seq(Key)
  /\ \A b \in Batch, d \in Doc : \A i \in DOMAIN b : b[i].n # 0 => Listed(<<d, b[i].n>>)

VARIABLES
  backend,
  index,    \* in process: [list, byID], the slice of chunks and the map into it
  stats,    \* bm25, okf: [df, total], document frequencies and number of terms
  table,    \* the rows, by rowid (sqlite) or by id
  fts,      \* sqlite: the full-text index, text by rowid
  call,     \* what each document's writer is doing, or None
  ret,
  ops       \* calls made

backendVars == <<backend, index, stats, table, fts, call, ret, ops>>

InProcess == backend \in {"inmem", "bm25", "okf"}
HasStats == backend \in {"bm25", "okf"}

NoStats == [df |-> << >>, total |-> 0]
StatsOf(list) ==
  [df |-> [t \in UNION {list[i].terms : i \in DOMAIN list} |->
             Cardinality({i \in DOMAIN list : t \in list[i].terms})],
   total |-> FoldLeft(LAMBDA n, c : n + Cardinality(c.terms), 0, list)]

Held == IF InProcess THEN {index.list[index.byID[id]] : id \in DOMAIN index.byID}
        ELSE Range(table)

(* The numbers of a set, the least first.                                  *)
Ascending(S) ==
  [k \in 1 .. Cardinality(S) |-> CHOOSE n \in S : Cardinality({m \in S : m <= n}) = k]

-----------------------------------------------------------------------------
(* The writer's side of a call.                                            *)

Chunks(d, batch) == [i \in DOMAIN batch |-> [id |-> <<d, batch[i].n>>, terms |-> batch[i].terms]]

Ask(d) ==
  /\ call[d] = None
  /\ ops[d] < MaxOps
  /\ ops' = [ops EXCEPT ![d] = @ + 1]
  /\ \E c \in {[op |-> "add", batch |-> Chunks(d, b), at |-> "start", todo |-> << >>, last |-> 0] : b \in Batch}
              \cup {[op |-> "delete", batch |-> << >>, at |-> "start", todo |-> << >>, last |-> 0]} :
       call' = [call EXCEPT ![d] = c]
  /\ UNCHANGED <<backend, index, stats, table, fts, ret>>

Returns(d, err) ==
  /\ call' = [call EXCEPT ![d] = None]
  /\ ret' = [ret EXCEPT ![d] = err]

(* The call d's writer has just made.                                      *)
Starts(d, op) == call[d] # None /\ call[d].op = op /\ call[d].at = "start"

NoId(c) == c.id[2] = 0
Rejected(batch) == \E i \in DOMAIN batch : NoId(batch[i])

-----------------------------------------------------------------------------
(* inmem, bm25, okf: a slice and an index into it, under a mutex.          *)

Insert(ix, c) ==
  IF c.id \in DOMAIN ix.byID
  THEN [ix EXCEPT !.list = [@ EXCEPT ![ix.byID[c.id]] = c]]
  ELSE [list |-> Append(ix.list, c),
        byID |-> [id \in DOMAIN ix.byID \cup {c.id} |->
                    IF id = c.id THEN Len(ix.list) + 1 ELSE ix.byID[id]]]

Inserted(chunks) ==
  LET after[n \in 0 .. Len(chunks)] == IF n = 0 THEN index ELSE Insert(after[n - 1], chunks[n])
  IN after[Len(chunks)]

Rebuilt(list) == IF HasStats THEN StatsOf(list) ELSE NoStats

(* uuid.NewString: an id that no chunk has.                                *)
NewIds(d) == {n \in Number : \A c \in Held \cup ToSet(call[d].batch) : c.id # <<d, n>>}

WithIds(batch, new) ==
  [i \in DOMAIN batch |-> IF NoId(batch[i]) THEN [batch[i] EXCEPT !.id = <<@[1], new[i]>>] ELSE batch[i]]

AddInProcess(d) ==
  /\ InProcess /\ Starts(d, "add")
  /\ \E new \in [{i \in DOMAIN call[d].batch : NoId(call[d].batch[i])} -> NewIds(d)] :
       IsInjective(new) /\ index' = Inserted(WithIds(call[d].batch, new))
  /\ stats' = Rebuilt(index'.list)
  /\ Returns(d, "nil")
  /\ UNCHANGED <<backend, table, fts, ops>>

(* The slice is compacted and the map rebuilt.                             *)
Compacted(d) ==
  LET order == Ascending({i \in DOMAIN index.list : index.list[i].id[1] # d})
      kept  == [k \in DOMAIN order |-> index.list[order[k]]]
  IN [list |-> kept,
      byID |-> [id \in {kept[k].id : k \in DOMAIN kept} |-> CHOOSE k \in DOMAIN kept : kept[k].id = id]]

DeleteInProcess(d) ==
  /\ InProcess /\ Starts(d, "delete")
  /\ index' = Compacted(d)
  /\ stats' = Rebuilt(index'.list)
  /\ Returns(d, "nil")
  /\ UNCHANGED <<backend, table, fts, ops>>

-----------------------------------------------------------------------------
(* sqlite, pgvector: statements in a transaction, the triggers of sqlite   *)
(* with them. qdrant: one request.                                         *)

Dropped(db, rows) ==
  [rows |-> Restrict(db.rows, DOMAIN db.rows \ rows),
   text |-> Restrict(db.text, DOMAIN db.text \ rows)]

(* deleteChunkSQL and insertChunkSQL; the new rowid is the highest plus 1. *)
SqliteInsert(db, c) ==
  LET kept == Dropped(db, {r \in DOMAIN db.rows : db.rows[r].id = c.id})
      row  == Max({0} \cup DOMAIN kept.rows) + 1
  IN [rows |-> [r \in DOMAIN kept.rows \cup {row} |-> IF r = row THEN c ELSE kept.rows[r]],
      text |-> [r \in DOMAIN kept.text \cup {row} |-> IF r = row THEN c.terms ELSE kept.text[r]]]

Upserted(db, c) ==
  IF backend = "sqlite" THEN SqliteInsert(db, c)
  ELSE [db EXCEPT !.rows = [id \in DOMAIN @ \cup {c.id} |-> IF id = c.id THEN c ELSE @[id]]]

Tables == [rows |-> table, text |-> fts]
Becomes(db) == table' = db.rows /\ fts' = db.text

(* The statement ran or not; pgvector and qdrant may have run it although  *)
(* their answer is lost.                                                   *)
Attempt(d, db) ==
  \/ Becomes(db) /\ Returns(d, "nil")
  \/ /\ Becomes(IF backend = "sqlite" THEN Tables ELSE db)
     /\ Returns(d, "error")
  \/ Becomes(Tables) /\ Returns(d, "error")

(* The statements or the points of one transaction or request.             *)
Written(chunks) ==
  LET after[n \in 0 .. Len(chunks)] == IF n = 0 THEN Tables ELSE Upserted(after[n - 1], chunks[n])
  IN after[Len(chunks)]

Cleared(d) == Dropped(Tables, {r \in DOMAIN table : table[r].id[1] = d})

AddTo(b, d) ==
  /\ backend = b /\ Starts(d, "add")
  /\ IF Rejected(call[d].batch)
     THEN Becomes(Tables) /\ Returns(d, "error")
     ELSE Attempt(d, Written(call[d].batch))
  /\ UNCHANGED <<backend, index, stats, ops>>

DeleteFrom(b, d) ==
  /\ backend = b /\ Starts(d, "delete")
  /\ Attempt(d, Cleared(d))
  /\ UNCHANGED <<backend, index, stats, ops>>

SqliteAdd(d)      == AddTo("sqlite", d)
SqliteDelete(d)   == DeleteFrom("sqlite", d)
PgvectorAdd(d)    == AddTo("pgvector", d)
PgvectorDelete(d) == DeleteFrom("pgvector", d)
QdrantAdd(d)      == AddTo("qdrant", d)
QdrantDelete(d)   == DeleteFrom("qdrant", d)

-----------------------------------------------------------------------------
(* s3vectors: batches of PutVectors; a scan, then batches of DeleteVectors.*)

At(d, where) == backend = "s3vectors" /\ call[d] # None /\ call[d].at = where
Goes(d, where, todo) ==
  /\ call' = [call EXCEPT ![d].at = where, ![d].todo = todo]
  /\ UNCHANGED ret

FirstBatch(s) == SubSeq(s, 1, IF PageSize < Len(s) THEN PageSize ELSE Len(s))

(* Slip: the next batch starts one chunk too late. *)
RestSkipsOne(s) == SubSeq(s, PageSize + 2, Len(s))
Rest(s) == SubSeq(s, PageSize + 1, Len(s))

S3Start(d) ==
  /\ backend = "s3vectors" /\ call[d] # None /\ call[d].at = "start"
  /\ IF call[d].op = "delete" THEN Goes(d, "scan", << >>)
     ELSE IF Rejected(call[d].batch) THEN Returns(d, "error")
     ELSE Goes(d, "put", call[d].batch)
  /\ UNCHANGED <<backend, index, stats, table, fts, ops>>

(* A request for one batch fails, applied or not, or the loop goes on.     *)
S3Request(d, where, effect) ==
  \/ table' = effect /\ Goes(d, where, Rest(call[d].todo))
  \/ table' \in {table, effect} /\ Returns(d, "error")

S3Put(d) ==
  /\ At(d, "put") /\ call[d].todo # << >>
  /\ S3Request(d, "put", Written(FirstBatch(call[d].todo)).rows)
  /\ UNCHANGED <<backend, index, stats, fts, ops>>

(* ListVectors, page by page: a page lists some keys after those of the    *)
(* pages before. The scan notes the document's keys.                       *)
S3Scan(d) ==
  /\ At(d, "scan")
  /\ \/ Returns(d, "error")
     \/ \E upto \in call[d].last .. Len(KeyOrder) :
          LET listed == {i \in call[d].last + 1 .. upto : KeyOrder[i] \in DOMAIN table}
              own    == Ascending({i \in listed : table[KeyOrder[i]].id[1] = d})
              todo   == call[d].todo \o [k \in DOMAIN own |-> KeyOrder[own[k]]]
          IN /\ Cardinality(listed) <= PageSize
             /\ IF upto = Len(KeyOrder) THEN Goes(d, "delete", todo)
                ELSE call' = [call EXCEPT ![d].todo = todo, ![d].last = upto] /\ UNCHANGED ret
  /\ UNCHANGED <<backend, index, stats, table, fts, ops>>

S3Delete(d) ==
  /\ At(d, "delete") /\ call[d].todo # << >>
  /\ S3Request(d, "delete", Restrict(table, DOMAIN table \ ToSet(FirstBatch(call[d].todo))))
  /\ UNCHANGED <<backend, index, stats, fts, ops>>

S3Done(d) ==
  /\ backend = "s3vectors" /\ call[d] # None
  /\ call[d].at \in {"put", "delete"} /\ call[d].todo = << >>
  /\ Returns(d, "nil")
  /\ UNCHANGED <<backend, index, stats, table, fts, ops>>

-----------------------------------------------------------------------------
StoreInit ==
  /\ backend \in {"inmem", "bm25", "okf", "sqlite", "pgvector", "qdrant", "s3vectors"}
  /\ index = [list |-> << >>, byID |-> << >>]
  /\ stats = NoStats
  /\ table = << >> /\ fts = << >>
  /\ call = [d \in Doc |-> None]
  /\ ret = [d \in Doc |-> None]
  /\ ops = [d \in Doc |-> 0]

StoreNext ==
  \E d \in Doc :
    \/ Ask(d)
    \/ AddInProcess(d) \/ DeleteInProcess(d)
    \/ SqliteAdd(d) \/ SqliteDelete(d)
    \/ PgvectorAdd(d) \/ PgvectorDelete(d)
    \/ QdrantAdd(d) \/ QdrantDelete(d)
    \/ S3Start(d) \/ S3Put(d) \/ S3Scan(d) \/ S3Delete(d) \/ S3Done(d)

StoreSpec == StoreInit /\ [][StoreNext]_backendVars

(***************************************************************************)
(* Every backend implements the contract of MemoryStore, the S3 one the    *)
(* weaker contract of a backend without transactions: Add and Delete do    *)
(* what they were asked when they return nil, and never touch another      *)
(* document, in whatever order the calls of the writers, their batches and *)
(* their pages interleave and fail.                                        *)
(***************************************************************************)
Contract ==
  INSTANCE MemoryStore WITH
    held <- Held,
    transactional <- (backend # "s3vectors"),
    call <- [d \in Doc |-> IF call[d] = None THEN None ELSE [op |-> call[d].op, batch |-> call[d].batch]]

StoreKeepsItsPromise == Contract!Spec

=============================================================================
