------------------------------- MODULE Traces -------------------------------
(***************************************************************************)
(* The trace store: what is read from it, and how spans get there.         *)
(***************************************************************************)
EXTENDS Naturals, Sequences, FiniteSets, SequencesExt

(***************************************************************************)
(* What the dashboard and the command line read from the table of spans:   *)
(* the queries of internal/store (store.go, metrics.go) and the steps of a *)
(* run (internal/ui/steps.go). A table is the sequence of its rows by      *)
(* rowid; a row is a span                                                  *)
(*   [id, trace, parent, name, start, end, status, run, provider, in, out] *)
(* where run, parent and provider may be "".                               *)
(***************************************************************************)

Rows(table, test(_)) == {i \in DOMAIN table : test(table[i])}
Total(table, rows, f(_)) == FoldLeft(LAMBDA sum, i : sum + f(table[i]), 0, SetToSeq(rows))

TracesWithRun(table) == {table[i].trace : i \in Rows(table, LAMBDA s : s.run # "")}
OfTrace(table, t) == Rows(table, LAMBDA s : s.trace = t)
Ends(table, t) == Max({table[i].end : i \in OfTrace(table, t)})

Summary(table, t) ==
  [run    |-> table[Min({i \in OfTrace(table, t) : table[i].run # ""})].run,
   trace  |-> t,
   start  |-> Min({table[i].start : i \in OfTrace(table, t)}),
   end    |-> Ends(table, t),
   count  |-> Cardinality(OfTrace(table, t)),
   errors |-> Cardinality({i \in OfTrace(table, t) : table[i].status = "error"})]

Top(seq, limit) == SubSeq(seq, 1, IF limit < Len(seq) THEN limit ELSE Len(seq))

ListRuns(table, limit) ==
  Top(SetToSortSeq({Summary(table, t) : t \in TracesWithRun(table)}, LAMBDA r, s : r.start > s.start), limit)

OrphanSpanCount(table) == Cardinality(Rows(table, LAMBDA s : s.trace \notin TracesWithRun(table)))

(* By start, the root first, then the longer one.                          *)
Precedes(s, t) ==
  \/ s.start < t.start
  \/ s.start = t.start /\ s.parent = "" /\ t.parent # ""
  \/ s.start = t.start /\ (s.parent = "") = (t.parent = "") /\ s.end > t.end

SpansForRun(table, run) ==
  LET own == Rows(table, LAMBDA s : s.run = run)
      latest == CHOOSE i \in own : \A j \in own : table[j].start <= table[i].start
  IN IF own = {} THEN << >>
     ELSE SetToSortSeq({table[i] : i \in OfTrace(table, table[latest].trace)}, Precedes)

(* SpansSince: the rows after the cursor and the cursor after them.        *)
SpansSince(table, cursor, limit) ==
  LET last == IF cursor + limit < Len(table) THEN cursor + limit ELSE Len(table)
  IN [spans |-> SubSeq(table, cursor + 1, last), cursor |-> last]

-----------------------------------------------------------------------------
(* Slip: the index (n - 1) * p, truncated.                             *)
PercentileTruncated(sorted, p) ==
  LET n == Len(sorted) IN IF n = 0 THEN 0 ELSE sorted[1 + (p * (n - 1)) \div 100]

(* Nearest rank: the value at ceil(p * n); p is in hundredths.             *)
Percentile(sorted, p) ==
  LET n == Len(sorted)
      rank == (p * n + 99) \div 100
  IN IF n = 0 THEN 0 ELSE sorted[IF rank < 1 THEN 1 ELSE IF rank > n THEN n ELSE rank]

StatsOf(key, table, rows) ==
  LET timed == {i \in rows : table[i].end > table[i].start}
      took(i) == table[i].end - table[i].start
      order == SetToSortSeq(timed, LAMBDA i, j : took(i) < took(j))
      sorted == [n \in DOMAIN order |-> took(order[n])]
  IN [key |-> key, count |-> Cardinality(rows),
      errors |-> Cardinality({i \in rows : table[i].status = "error"}),
      in |-> Total(table, rows, LAMBDA s : s.in), out |-> Total(table, rows, LAMBDA s : s.out),
      p50 |-> Percentile(sorted, 50), p95 |-> Percentile(sorted, 95), p99 |-> Percentile(sorted, 99),
      max |-> Percentile(sorted, 100)]

OverallStats(table) == StatsOf("", table, DOMAIN table)

ProviderSpans(table) ==
  Rows(table, LAMBDA s : s.name \in {"galdor.provider.generate", "galdor.provider.stream"} /\ s.provider # "")
StatsByProvider(table) ==
  {StatsOf(p, table, {i \in ProviderSpans(table) : table[i].provider = p}) :
     p \in {table[i].provider : i \in ProviderSpans(table)}}

-----------------------------------------------------------------------------
(* The steps of a run: its node spans, each with all that is below it.     *)
Below(spans, id) ==
  LET kids(ids) == {i \in DOMAIN spans : spans[i].parent \in ids}
      walk[n \in 0 .. Len(spans)] ==
        IF n = 0 THEN {} ELSE kids({id} \cup {spans[i].id : i \in walk[n - 1]})
  IN walk[Len(spans)]

StepsView(spans) ==
  LET nodes == SetToSortSeq(Rows(spans, LAMBDA s : s.name = "galdor.graph.node"), LAMBDA i, j :
                 spans[i].start < spans[j].start \/ (spans[i].start = spans[j].start /\ i < j))
  IN [n \in DOMAIN nodes |->
        [node  |-> spans[nodes[n]].id,
         calls |-> {spans[i].id : i \in {j \in Below(spans, spans[nodes[n]].id) :
                      spans[j].name \in {"galdor.provider.generate", "galdor.tool.execute"}}}]]

-----------------------------------------------------------------------------
(***************************************************************************)
(* The views agree about what is stored. Each span is in one run of the    *)
(* list or among the orphans; a run that is listed opens, as one whole     *)
(* trace, parents first; the groups of the statistics add up to the        *)
(* overall numbers, and a percentile is the least duration that so many    *)
(* of the spans do not exceed; a step shows the calls made below its node. *)
(***************************************************************************)
RunsPartitionTheSpans(table) ==
  LET runs == ListRuns(table, Len(table) + 1)
      opened(r) == SpansForRun(table, r.run)
      newer(r) == {s \in ToSet(runs) : s.run = r.run /\ s.start > r.start}
  IN /\ FoldLeft(LAMBDA n, r : n + r.count, OrphanSpanCount(table), runs) = Len(table)
     /\ \A i, j \in DOMAIN runs : i < j => runs[i].start >= runs[j].start
     /\ \A r \in ToSet(runs) :
          /\ opened(r) # << >>
          /\ newer(r) = {} =>
               /\ {s.id : s \in ToSet(opened(r))} = {table[i].id : i \in OfTrace(table, r.trace)}
               /\ r.errors > 0 <=> \E s \in ToSet(opened(r)) : s.status = "error"
          /\ \A i, j \in DOMAIN opened(r) : opened(r)[i].parent = opened(r)[j].id => j < i

LeastReaching(durations, p) ==
  {d \in {durations[i] : i \in DOMAIN durations} :
     LET share(S) == Cardinality({i \in DOMAIN durations : durations[i] \in S}) * 100
     IN /\ share(0 .. d) >= p * Cardinality(DOMAIN durations)
        /\ share(0 .. d - 1) < p * Cardinality(DOMAIN durations)}

StatsAddUp(table) ==
  LET all == OverallStats(table)
      groups == StatsByProvider(table)
      timed == {i \in DOMAIN table : table[i].end > table[i].start}
      durations == [i \in timed |-> table[i].end - table[i].start]
      sum(f(_)) == FoldLeft(LAMBDA n, g : n + f(g), 0, SetToSeq(groups))
  IN /\ all.count = Len(table)
     /\ sum(LAMBDA g : g.in) = all.in /\ sum(LAMBDA g : g.out) = all.out
     /\ timed # {} => \A q \in {<<50, all.p50>>, <<95, all.p95>>, <<99, all.p99>>, <<100, all.max>>} :
                        LeastReaching(durations, q[1]) = {q[2]}

StepsShowTheCalls(table, run) ==
  LET spans == SpansForRun(table, run)
      steps == StepsView(spans)
      closest(i, n) == \E j \in DOMAIN spans : spans[j].id = n /\ spans[i].parent = n
  IN \A i \in DOMAIN spans :
       (spans[i].name \in {"galdor.provider.generate", "galdor.tool.execute"}) =>
         \A n \in {spans[j].id : j \in {k \in DOMAIN spans : spans[k].name = "galdor.graph.node"}} :
           closest(i, n) => \E s \in ToSet(steps) : s.node = n /\ spans[i].id \in s.calls

ViewsAgree(table) ==
  /\ RunsPartitionTheSpans(table)
  /\ StatsAddUp(table)
  /\ \A t \in TracesWithRun(table) : StepsShowTheCalls(table, Summary(table, t).run)

-----------------------------------------------------------------------------
(***************************************************************************)
(* The SQLite exporter of pkg/observability, its store, and the live feed  *)
(* of the dashboard (internal/ui/stream.go).                               *)
(*                                                                         *)
(* Exporting goroutines write their batches, each in one transaction;      *)
(* the checkpointer runs on a timer; Shutdown may be called by several,    *)
(* and drains the exports, stops the checkpointer and closes the store. A  *)
(* feed polls the table behind a cursor, in two queries a tick.            *)
(***************************************************************************)

CONSTANTS
  Exporters, Stoppers,
  Workloads,    \* what is exported: [Exporters -> Seq(Seq(span))]
  FeedLimit,    \* the limit of SpansSince (500)
  MaxTicks      \* bound: ticks of the checkpointer

SpanRow ==
  [id : STRING, trace : STRING, parent : STRING, name : STRING, start : Nat, end : Nat,
   status : STRING, run : STRING, provider : STRING, in : Nat, out : Nat]

ASSUME TraceAssumption == Workloads \subseteq [Exporters -> Seq(Seq(SpanRow))]

VARIABLES
  todo,         \* the batches each goroutine has yet to export
  batch,        \* the one it is exporting (it is in exportWG), or << >>
  stored, lost, \* spans whose export returned nil, or an error
  table, closed, shutdown,
  stopping,     \* where each caller of Shutdown is
  checkpointer, ticks,
  misused,      \* the store was used after it was closed
  feed          \* [on, since, cursor, touched, emitted, shown]

exporterVars == <<todo, batch, stored, lost, table, closed, shutdown, stopping, checkpointer, ticks, misused, feed>>

NoFeed == [on |-> FALSE, since |-> 0, cursor |-> 0, touched |-> {}, emitted |-> << >>, shown |-> {}]

ExporterInit ==
  /\ todo \in Workloads /\ batch = [e \in Exporters |-> << >>]
  /\ stored = {} /\ lost = {} /\ table = << >> /\ closed = FALSE /\ shutdown = FALSE
  /\ stopping = [s \in Stoppers |-> "idle"]
  /\ checkpointer = "waiting" /\ ticks = 0 /\ misused = FALSE
  /\ feed = NoFeed

Ids(spans) == {spans[i].id : i \in DOMAIN spans}

-----------------------------------------------------------------------------
(* ExportSpans: let in under the lock, unless Shutdown was there before.   *)
StartExport(e) ==
  /\ batch[e] = << >> /\ todo[e] # << >>
  /\ todo' = [todo EXCEPT ![e] = Tail(@)]
  /\ IF shutdown THEN lost' = lost \cup Ids(Head(todo[e])) /\ UNCHANGED batch
     ELSE batch' = [batch EXCEPT ![e] = Head(todo[e])] /\ UNCHANGED lost
  /\ UNCHANGED <<stored, table, closed, shutdown, stopping, checkpointer, ticks, misused, feed>>

(* INSERT OR IGNORE of each span.                                          *)
Insert(rows, span) == IF span.id \in Ids(rows) THEN rows ELSE Append(rows, span)
Inserted(rows, spans) ==
  LET after[n \in 0 .. Len(spans)] == IF n = 0 THEN rows ELSE Insert(after[n - 1], spans[n])
  IN after[Len(spans)]

(* InsertSpans commits the batch, or rolls it back and returns the error.  *)
EndExport(e) ==
  /\ batch[e] # << >>
  /\ batch' = [batch EXCEPT ![e] = << >>]
  /\ misused' = (misused \/ closed)
  /\ \/ ~closed /\ table' = Inserted(table, batch[e]) /\ stored' = stored \cup Ids(batch[e]) /\ UNCHANGED lost
     \/ lost' = lost \cup Ids(batch[e]) /\ UNCHANGED <<table, stored>>
  /\ UNCHANGED <<todo, closed, shutdown, stopping, checkpointer, ticks, feed>>

-----------------------------------------------------------------------------
(* runCheckpointer                                                         *)
Tick ==
  /\ checkpointer = "waiting" /\ ticks < MaxTicks
  /\ checkpointer' = "writing" /\ ticks' = ticks + 1
  /\ UNCHANGED <<todo, batch, stored, lost, table, closed, shutdown, stopping, misused, feed>>

Checkpoint ==
  /\ checkpointer = "writing"
  /\ checkpointer' = "waiting" /\ misused' = (misused \/ closed)
  /\ UNCHANGED <<todo, batch, stored, lost, table, closed, shutdown, stopping, ticks, feed>>

CheckpointerStops ==
  /\ checkpointer = "waiting" /\ \E s \in Stoppers : stopping[s] = "stops checkpointer"
  /\ checkpointer' = "stopped"
  /\ UNCHANGED <<todo, batch, stored, lost, table, closed, shutdown, stopping, ticks, misused, feed>>

-----------------------------------------------------------------------------
(* Shutdown: the first caller does the work, any other returns at once.    *)
CallShutdown(s) ==
  /\ stopping[s] = "idle"
  /\ shutdown' = TRUE
  /\ stopping' = [stopping EXCEPT ![s] = IF shutdown THEN "returned" ELSE "drains exports"]
  /\ UNCHANGED <<todo, batch, stored, lost, table, closed, checkpointer, ticks, misused, feed>>

(* Slip: the exports that were let in are not waited for.              *)
DrainedAtOnce(s) ==
  /\ stopping[s] = "drains exports"
  /\ stopping' = [stopping EXCEPT ![s] = "stops checkpointer"]
  /\ UNCHANGED <<todo, batch, stored, lost, table, closed, shutdown, checkpointer, ticks, misused, feed>>

Drained(s) ==
  /\ stopping[s] = "drains exports" /\ \A e \in Exporters : batch[e] = << >>
  /\ stopping' = [stopping EXCEPT ![s] = "stops checkpointer"]
  /\ UNCHANGED <<todo, batch, stored, lost, table, closed, shutdown, checkpointer, ticks, misused, feed>>

CloseStore(s) ==
  /\ stopping[s] = "stops checkpointer" /\ checkpointer = "stopped"
  /\ closed' = TRUE
  /\ stopping' = [stopping EXCEPT ![s] = "closed"]
  /\ UNCHANGED <<todo, batch, stored, lost, table, shutdown, checkpointer, ticks, misused, feed>>

-----------------------------------------------------------------------------
(* handleStreamRuns, over a handle of its own: it starts behind what the   *)
(* page has shown, and a tick asks for the new spans, then for the runs.   *)
Connect ==
  /\ ~feed.on
  /\ feed' = [feed EXCEPT !.on = TRUE, !.since = Len(table), !.cursor = Len(table)]
  /\ UNCHANGED <<todo, batch, stored, lost, table, closed, shutdown, stopping, checkpointer, ticks, misused>>

Poll ==
  /\ feed.on /\ feed.touched = {} /\ feed.cursor < Len(table)
  /\ LET new == SpansSince(table, feed.cursor, FeedLimit) IN
     feed' = [feed EXCEPT !.cursor = new.cursor,
                          !.touched = {new.spans[i].trace : i \in DOMAIN new.spans}]
  /\ UNCHANGED <<todo, batch, stored, lost, table, closed, shutdown, stopping, checkpointer, ticks, misused>>

(* A run is sent again when its end has moved.                             *)
Send(f, r) ==
  IF r.trace \notin f.touched \/ (r.run \in DOMAIN f.emitted /\ f.emitted[r.run] = r.end) THEN f
  ELSE [f EXCEPT !.emitted = [x \in DOMAIN @ \cup {r.run} |-> IF x = r.run THEN r.end ELSE @[x]],
                 !.shown = @ \cup {<<r.trace, r.end>>}]

SendRuns ==
  /\ feed.touched # {}
  /\ feed' = [FoldLeft(Send, feed, ListRuns(table, 500)) EXCEPT !.touched = {}]
  /\ UNCHANGED <<todo, batch, stored, lost, table, closed, shutdown, stopping, checkpointer, ticks, misused>>

-----------------------------------------------------------------------------
ExporterNext ==
  \/ \E e \in Exporters : StartExport(e) \/ EndExport(e)
  \/ Tick \/ Checkpoint \/ CheckpointerStops
  \/ \E s \in Stoppers : CallShutdown(s) \/ Drained(s) \/ CloseStore(s)
  \/ Connect \/ Poll \/ SendRuns

ExporterSpec == ExporterInit /\ [][ExporterNext]_exporterVars

-----------------------------------------------------------------------------
(***************************************************************************)
(* Nothing that was let in is lost to a shutdown: an export that returned  *)
(* nil is in the table, nobody uses the store after it was closed, and     *)
(* when Shutdown has closed it, every span handed over is stored or was    *)
(* refused with an error.                                                  *)
(***************************************************************************)
ExportsAreStored ==
  /\ stored \subseteq Ids(table) /\ IsInjective([i \in DOMAIN table |-> table[i].id])
  /\ ~misused
  /\ closed => \A e \in Exporters : batch[e] = << >>

(***************************************************************************)
(* The feed misses nothing: once it has caught up, each run that got a     *)
(* span since the client came has been sent with the end it has now.       *)
(***************************************************************************)
FeedCatchesUp ==
  feed.on /\ feed.touched = {} /\ feed.cursor = Len(table) =>
    \A i \in feed.since + 1 .. Len(table) :
      table[i].trace \in TracesWithRun(table) => <<table[i].trace, Ends(table, table[i].trace)>> \in feed.shown

=============================================================================
