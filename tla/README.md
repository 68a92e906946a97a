# galdor in TLA+

galdor is a Go framework for LLM agents: a typed graph runtime with checkpoints, interrupts and resumes;
agents and councils built on it; tools, guardrails and provider middleware; the MCP and A2A protocols; memory,
observability, replay, evaluation and a dashboard. This directory holds TLA+ modules of it, the TLC
configurations that check them, and proofs: of the graph runtime's safety for every graph, and of the safety
of the agents, protocols, provider calls, memory, replay and evaluation. `PROJECT.json` maps each definition
to the lines of source it models, and lists the hazards of the code with the properties that watch each.

    tlc -config GraphRun.cfg MCGraphRun      model-check one configuration
    tlapm GraphRunProofs.tla                 check the proofs

## The system

| Component | State it keeps | Operations | What is hard | What makes it correct |
|---|---|---|---|---|
| Graph builder (`pkg/graph/graph.go`, `Compile`) | nodes, static and conditional edges, branch maps, gates, problems met | `AddNode`, `AddEdge`, `AddConditionalEdge(s)`, `InterruptBefore`, `Compile` | calls in any order, reserved names, routers that return anything | a compiled graph is closed: a run can only fail for what a router does |
| Graph runtime (`runnable.go`) | loop locals; the checkpoint store behind it | `Invoke(With)`, `Resume`, the steps of `runLoop` | crashes and failed saves between two steps, chains of interrupts and resumes, two notions of deadline | durable input of every body, no lost or repeated effect, gates held, limits that span resumes, result and store agree |
| Graph streaming (`runStream`) | the producer goroutine, a buffered channel | `Stream(With)`, the consumer's receive and cancel | send against `ctx.Done()`, slow or vanished consumers, panics in deferred order | events tell one walk, silence has a cause, the channel closes |
| Checkpointing (`checkpoint.go`) | checkpoints per RunID | `Save`, `Load`, `History`, `Reset` | aliasing of states, copies that gob makes incomplete, remote writes that fail after writing | what is stored is what was given, as far as its copy goes, until it is trimmed |
| Hooks (`hooks.go`) | the context chain of a run | `BeforeRun`/`AfterRun`, `BeforeNode`/`AfterNode`, `MergeHooks` | panicking hooks, nil contexts, chains of them | instrumentation never breaks a run, and a span left open has a culprit |
| Inspection (`spec.go`, `svg.go`) | – | `Inspect`, `RenderSVG` | cycles under a longest-path layering | it ends, and draws a flow |
| ReAct (`pkg/agent/react.go`) | `State`: messages, iterations, guard watermark and digest | model and tools nodes, router; a caller that re-invokes with an edited `State` | stale watermark, the cap in the middle of tool calls | no unvetted user message reaches the model, every call answered, the cap ends the run |
| Plan-and-Execute (`planexecute.go`) | plan, past steps | plan, execute, replan | caps, malformed plans, replanning from a stale remainder | each step of the plan in force executed once, in order; steps are left over only at the cap |
| Councils (`pkg/council`) | messages, hops, active agent | route, work, hand off, trap | hop caps, several tool calls in a turn of which one hands off | every tool call acknowledged once, truncation is told |
| Tools (`pkg/tool`) | result slots of one batch | `ExecuteCalls` | concurrency, panics, cancellation | result i answers call i |
| Guardrails (`pkg/guardrail`) | none | `CheckInput`, `CheckOutput`, judges | replies that hedge | the first veto wins; a hedging judge does not wave anything through |
| Provider middleware (`pkg/provider`) | attempts, tag-stripper buffer, collected answer | retry, stream wrap, collect | Retry-After against cancellation, tags cut by chunks, lower case of another length | attempts bounded and spaced, no text lost to the split |
| Provider adapters (`providers/*`) | the accumulators of one stream | request, response, frames to events | frames that are cut, garbled, interleaved; ids that are missing | a collected stream is the generated answer; a conversation reaches the service whole |
| MCP client (`pkg/mcp/client.go`, HTTP and SSE transports) | ids, pending calls, reply queue, session | `call`, `dispatchLoop`, `Close` | reply against timeout against Close, full queue, broken streams | a call returns its own answer or an error (over SSE with one exception), and returns |
| MCP server (`server.go`, HTTP and SSE transports) | pending slots, sessions, semaphore, handshake | `handlePost`, `Serve`, `dispatch`, `Send`, DELETE, `Close` | handlers and loop meet at a channel; sessions replaced in mid-reply | slots neither lost nor leaked, no write to a stream that is gone |
| A2A server (`pkg/a2a/server.go`) | task store, a lock per task | `tasks/send`, `tasks/get`, eviction | eviction between the phases of a send, queues on a lock, panics | work reachable, history kept, terminal is final |
| Observability (`pkg/observability`) | open spans, exports under way | start/end span, export, `Shutdown` | watcher against Recv against Close; Shutdown against exports | a span ends once and tells the truth; what was let in is stored |
| Trace store and dashboard (`internal/store`, `internal/ui`) | one table, cursors of live feeds | insert, runs, spans, metrics, steps, live feed | late spans behind a cursor, nested and parallel spans | views of one table agree; a feed catches up |
| Memory (`pkg/memory`) | window of messages and a summary; chunks and indexes | `Append`, `Snapshot`, `Add`, `Delete`, `Retrieve`, chunkers, fusion | the summariser runs without the data lock, its text costs tokens too; ids that come again | what is evicted was summarised, rankings and texts are kept |
| Memory backends (`memory/*`) | tables, collections, buckets, a bundle of files | the same, in transactions or batches that fail in the middle | two writers, pages that change while they are listed | all or none where promised, and never another document |
| Embedders (`pkg/embedder`, providers) | the dimension learned | `Embed`, `Dimensions` | batches, retries, answers shuffled or holed | vector i belongs to text i |
| Replay (`pkg/replay`) | recorded calls, cursors | load, `Generate`, `Stream` | failed calls, streams that broke, several threads, fingerprints | a replay repeats the run and makes nothing up |
| Evaluation (`pkg/eval`) | a pool and its results | `Run`, scorers, judges, gate | panics, timeouts, cancellation in a pool | every case once in the report, and the gate counts all |
| Built-in tools, data types, schemas, CLI | none | – | – | see *Not modelled* |

How they interact. An agent or a council *is* a graph: `NewReAct` builds one with the
builder, compiles it and sets `MaxSteps`; its nodes call a provider, the guards and the
tool executor. A provider is an adapter inside middleware inside an instrument; spans go
to an exporter, the exporter's table is what the dashboard reads and what a replay is
loaded from. MCP's `AsRegistry` makes remote tools look local; an A2A handler usually wraps a
runnable. A store embeds what it is given. The graph runtime is the core on which the rest
stands; it is modelled first and proved about.

## Modules

| Module | Models | Rests on |
|---|---|---|
| `GraphTopology` | graph values: builder operations, `Accepted` (Compile), `Runnable`, `ResolveNext` | – |
| `GraphBuilder` | the builder as callers drive it | `GraphTopology` |
| `GraphBuilderProofs` | theorems about the builder and about `GraphOptions` | `GraphBuilder`, `GraphOptions`, TLAPS |
| `GraphLayout` | `Inspect`, and the layering of `RenderSVG` | `GraphTopology` |
| `GraphOptions` | the in-memory checkpointer with aliased states; merged hooks | – |
| `GraphWalk` | abstract: what a durable run promises | `GraphTopology` |
| `GraphRun` | `InvokeWith` and `Resume` over `runLoop`, the store as a contract, contexts, crashes | `GraphTopology`; implements `GraphWalk` |
| `GraphRunProofs` | theorems about `GraphRun` | `GraphRun`, TLAPS |
| `GraphStream` | `runStream`, its channel, deferred calls, the consumer | `GraphTopology` |
| `GraphStreamProofs` | theorems about it | `GraphStream`, TLAPS |
| `AgentRun` | what agents share: the run loop, `ExecuteCalls` | `GraphTopology` |
| `ReAct`, `PlanExecute` | one agent each | `AgentRun` |
| `Councils` | the supervisor and the swarm | `AgentRun` |
| `Agents` | all of them, with what is asked of each | those three |
| `AgentsProofs` | theorems about it | `Agents`, TLAPS |
| `McpServer` | streamable-HTTP server transport and `Serve` | – |
| `McpClient` | client and HTTP client transport, composed with the server | `McpServer` |
| `McpSse` | the SSE server and client transports, composed with clients and a server | – |
| `A2AServer` | the task store | – |
| `MCProtocols` | the protocols in one run, for TLC | `McpClient`, `McpSse`, `A2AServer` |
| `ProtocolProofs` | theorems about both MCP transports and the task store | `MCProtocols`, TLAPS |
| `MemoryStore` | abstract: what a store promises those who ingest | – |
| `StoreBackends` | seven stores as statements, requests and batches | implements `MemoryStore` |
| `StoreRetrieve` | their `Retrieve`, and its reference; hybrid retrieval | `StoreBackends` |
| `Window` | the conversation window | – |
| `Chunking` | chunkers | – |
| `Okf` | links, browsing, logs, scalars, sections; load, validate and write a bundle | – |
| `Embeddings` | batching embedders | – |
| `MemoryProofs` | theorems about the window, the embedders, the stores and a chunker | `Window`, `Embeddings`, `StoreBackends`, `Chunking`, TLAPS |
| `MCMemory` | all of these, and `MCEvals`, for TLC | the rows above that are about memory |
| `Turns` | messages to requests and responses to messages, per adapter | – |
| `StreamAdapters` | frames to events, per adapter; `CollectStream` | `Turns` |
| `Middleware` | stripping of thinking; retry | – |
| `ProviderCall` | one call through all of it, with its span and the watcher | the three rows above |
| `ProviderCallProofs` | theorems about it and about the exporter of `Traces` | `ProviderCall`, `Traces`, TLAPS |
| `Traces` | queries of one table of spans; exporter, `Shutdown`, checkpointer, live feed | – |
| `MCCalls` | calls, conversations and traces together, with what is asked of them, for TLC | `ProviderCall`, `Traces` |
| `Recording` | capture, fixtures, replay | – |
| `Evaluation` | the runner, the gate, the judges' replies | – |
| `MCEvals` | replay, evaluation and judges, for TLC | `Recording`, `Evaluation` |
| `RecordsProofs` | theorems about replay, judges and reports | `MCEvals`, TLAPS |
| `MC*` | constants for TLC; several models in one run, told apart by `part` | the modules named in them |

### Correspondence with the code

*Graph.* A graph is a record with the fields of `Graph[S]`. The builder operators take
and return that record as the chainable methods do; a rejected call only sets `errs`.
`ResolveNext` gives either the next node or the name of the sentinel error.

*GraphRun.* `pc` is where the one call on a RunID is: `top` of the loop, `ready`
(checkpoint written, body not begun), `node`, `route`, `returning`. The user's state
is abstracted to the sequence of nodes whose effects it holds and the number of
`OverrideState` edits, which is what "lost", "repeated" and "reordered" can be said
about. `store` is what `Load` returns. Save may fail with or without having written.
`Crash` may come at any point of a call and leaves only the store.
`Init` allows a checkpoint of a node that an older version of the graph had.
Hooks other than `AfterRun` cannot change what the loop does, because their panics are
recovered and nil contexts ignored (which `GraphOptions` checks); they are not steps here.
History variables (`calls`, `fresh`, `held`, `late`) are read by properties and by the
bound on calls only.

*GraphStream.* Each `emit` is one step that either sends (room in the channel) or,
when the context is done, drops; when both are possible either is taken, as in Go's
`select`. The deferred functions run in Go's order: `AfterRun`, the `cancel` of a run with a
Timeout, backstop, `close`. `ctx` tells a context that somebody cancelled from one that this `cancel` has
released: against either the backstop's emit may drop its event. The state is abstracted to its number of effects.

*GraphOptions.* A state with maps or slices is a heap cell that several may hold. `Save` copies before it
takes the lock, which is two steps. A state type (`TypesToCopy`) has Clone, is copied whole by gob, is
refused, or has unexported, func or channel fields only in nested values, where `hasGobUnsafeFields` does not
look: of those a copy comes back without the nested part (`Copied`). A hook begins a span, returns nil or
panics; a context is the chain of spans on it.

*Agents.* A message is a text (user), the calls made (assistant) or the id answered
(tool); a call is its id and the tool it names. A digest is the messages it was taken of:
SHA-256 without collisions. `Loop` is the runtime: caps, contexts, the step limit that
each constructor derives from its own cap. A ReAct caller may, between runs, trim
the history to any window, rewrite any message and append a turn. `CallReturns(i)` is the end of
one goroutine of `ExecuteCalls`, whatever the tool did. A plan is a sequence of model
values; a worker's output, a prompt and a final answer are only empty or not.

*MCP over HTTP.* One POST is one call, one handler goroutine and at most one dispatch goroutine,
all named by the request. `hp`, `work` and `cp` say where those are; `reply` and `ch`
are buffered channels of one; `replies` is the client's queue of bodies. The
unbuffered hand-off to `Recv` is one joint step. `strict` is fixed at the beginning.
The client's `Send` returns when the handler has: the response is read in one piece.

*MCP over SSE.* Each peer opens one stream. `active` is the server's one session, which a new
stream replaces; a POST is let in only under the active session's id, and `Send` picks whatever stream is
active when the reply is ready. A handler that ends its stream first waits
for a writer that holds the stream (`Locked`), as the code's barrier does. The headers of a new stream are written without
that lock: a `Send` to the session just swapped in races with them, and of a map that is written and read at once
the process may die (`HeadersRace`). Replies are named by the request they
answer, so that a reply that reaches the wrong peer is told from one with the same id.

*A2A.* A task entry is named by the send that created it, so an entry evicted and
another one created under its id are distinct, as the Go pointers are. `store` is the
map ordered by `updated`. The lock is taken in the step that does the first phase,
since nobody else may change the entry in between.

*Stores.* A chunk is its id – document and number – and its set of terms, which stand for
its embedding too; scores are integers that rank as the floats do. The in-process
stores act in one step under their mutex; SQLite and pgvector in one transaction that
commits or not; Qdrant in one request per operation; S3 Vectors lists, writes and deletes page by
page, each of which may fail; a page of a listing may be short. pgvector searches an HNSW index and filters what that gives:
`Visits` lets it come across any part of the table. An id that a store makes up is any fresh number. An OKF
store is BM25 with its documents' files.

*Window.* `Snapshot` takes `snapMu`, plans under the data lock, summarises without it, and
evicts under it again; those are three steps, between which messages arrive. A summary comes under a header whose tokens
(`HeaderCost`) `fits` does not count.

*Chunking, Okf, Turns.* Pure code is written as operators and compared with what it promises, over all inputs
of a small size. A text is a sequence of the few runes that the code tells apart; a score is its numerator
over a common denominator or a rank; a link, a file or a heading is a model value or a short path. A concept
id is the sequence of its pieces between commas, because links are joined and split there (`Graph`); the text
of a log item is a sequence of a time stamp, a kind and words, because it is written bare and parsed again
(`EntryOf`). In `Middleware` and the adapters a text is a sequence of bytes, and a character that is not ASCII
is two of them, which in lower case may be one or three (`Lower`): a closing tag is found in the lower case
and its place used in the text itself.

*Provider calls.* A response is a sequence of blocks; `NextFrames` gives what each service sends of it next on
its stream, and each adapter's part of `Handle` makes events of the frames with the accumulators its code
keeps. Faults are a cut, an error frame, a frame of the answer that arrives garbled (openai and google skip it
with what it carried, anthropic and Bedrock fail), an empty stream, a refusal. The filter may panic
(`Panics`). Times of Retry are small integers, and jitter is any value in its range. The span is the traced
reader's: `ended` is its once-flag, `ends` counts `span.End`.

*Traces.* A table is the sequence of its rows; a query is an operator on it. A feed's tick
is two queries with possible inserts in between.

*Recording, Evaluation.* An agent is a thread that sends its whole conversation and
stops at the answer that calls no tool. A fingerprint is the request itself. An answer has what it says and the text that
a stream of it delivers, which is what the span of a stream keeps (`Completion`): of an answer that calls tools the
text alone, of a stream that broke what had arrived. A
judge's reply is a sequence of tokens: numbers with or without "of 100", words, negations.

Definitions commented `Slip` are not part of any specification. Each is a plausible
bug in the definition that follows it; it documents what the property that catches it
is for, and `PROJECT.json` lists which property fails when it takes the definition's place.

## Runs

Passing:

| Run | Instance | Shows |
|---|---|---|
| `graph_builder` | the builder; every layout of two nodes; two goroutines on two run ids; three hooks | `CompiledGraphIsClosed`: resolving an edge of a compiled graph reaches a node or fails for a reason a router caused. `CallsCommute`: the order of builder calls does not matter. `LayoutIsAFlow`: rendering ends, cyclic graphs included, and edges go right. `CheckpointsAreKept`: what is stored is what `Save` was given, whole for a type with Clone or that gob copies whole, otherwise but for the nested fields gob cannot see. `HooksAreContained`: a node's context extends its run's, and a span left open has a culprit |
| `graph_run` | plan → gated act → review → (act or END), four calls, limit 4 or 3 | durable input, step ordinals, a budget over resumes, held gates and at most one late node (`BodiesAreAllowed`), results against the store, every call returns, and the refinement of `GraphWalk` |
| `graph_stream` | a graph that loops, fails and is gated; buffer of 2 | the stream is a prefix of one walk, silence means cancelled (or a Save panic in a run with a Timeout), announced nodes and ends are durable; the goroutine does not leak and an uncancelled consumer is told how the run ended |
| `agents` | ReAct with and without tools and guards; Plan-and-Execute; a supervisor; a swarm | user messages are vetted whatever the caller does to the history; calls are answered once and in order, across handoffs; caps come before step limits; ReAct and the councils tell of truncation, a plan has steps left only at its cap and then no final answer; plans are followed |
| `protocols` | MCP over HTTP: initialize, its notification and a tool call; over SSE: two peers; A2A: three sends and a get, two chosen ids and server-picked ones, a store of one | over HTTP replies find their calls, over SSE an answer is the request's own or a stray that a replaced session explains (`RepliesAreAccountedFor`); slots and streams live as long as the handlers that own them; every call returns, Serve stops and is drained; unfinished tasks stay reachable and unique; no message lost or doubled, terminal tasks never change; every queued send is answered even behind a panic |
| `memory` | seven stores with two writers; a window; embedders; jobs of every algorithm; a run recorded and replayed; a pool of two workers; judges' replies | the contract of `MemoryStore`; the conversation is kept, and a snapshot exceeds its token cap by no more than the summary's header; vectors follow their texts; chunks are the text; rankings are the best of what a store looks at; links are walked as they stand and a bundle is written as faithfully as its bare text allows; a replay repeats a run that was recorded faithfully and makes nothing up; every evaluation comes to a true report; judges are read on the safe side |
| `calls` | calls of four adapters; conversations; a trace table with an exporter | retries keep their distance; stream and generate agree; a span ends once and tells the outcome, whoever ends it; stripping does not depend on the split (of `Simple` texts); conversations are carried, and refused only for arguments that are not JSON; spans do end; exports are stored, fed to the dashboard, and its views agree |

Disagreements between the code and what it says of itself, each a run that TLC ends with
a counterexample:

| Run | Property | What happens |
|---|---|---|
| `graph_stream_after_run` | `AfterRunSeesTheError` | a stream cancelled in `emit` reports a nil error to `AfterRun` |
| `checkpoint_aliased` | `CheckpointsAreSnapshots` | `Load` hands out the stored state itself, so a resumed node that writes in place changes the saved checkpoint |
| `replay_thinking` | `ThinkingRunsReplay` | captured completions lose their thinking parts, captured prompts keep them: the second call of a reasoning agent never matches |
| `replay_cut_stream` | `ReplaysWhatWasHeard` | a stream that broke after some text leaves that text as its completion; the loader takes it for an answer and the replay hands it out |
| `sse_stray` | `ResponsesStayInTheirSession` | a reply over SSE goes to whatever session is active: a peer that replaced another takes the answer to the other's request of the same id for its own |

### Bounds, and why they are enough

- *GraphBuilder.* Two names and one label reach every branch of the builder and of
  `Accepted`, self loops, edges before nodes and unknown targets included. The number of calls
  is not bounded: the set of graphs is finite. Layouts: every set of edges over the two
  nodes, START and END. Checkpoints: all four kinds of state types; a history `Limit` of 2 is trimmed by the third of four saves
  or loads; one write in place per state is enough to tell that it was aliased. Hooks: chains of
  up to three have a middle one.
- *GraphRun.* `MaxCalls = 4` allows invoke – interrupt – resume – crash – resume, two interrupts in
  one run, and a second run under the same id after an unfinished one. `DefaultMaxSteps = 4`
  (100 in the code) lets the loop act–review turn round once and then meet the limit, on
  the same path as any larger number. The proofs remove both bounds for safety.
- *GraphStream.* `Buffer = 2` (16 in the code): an iteration emits three events, so a slow consumer blocks the
  producer in mid-iteration at every kind of event.
- *Agents.* A cap of 2 has a turn below it and one at it; two calls in a message have an order; two
  runs carry a State over, and two edits can trim and then rewrite it. Plans of up to two
  steps and three iterations have a remainder and meet the cap; three hops
  between two workers or two agents come back to the first; `MaxTurns = 2` is an inner limit that is met.
- *Protocols, MCP.* A single slot and a queue of one are full as soon as one is used. Three POSTs
  are a handshake and a call that may overtake the notification; two
  disturbances combine a timeout with a close, or a DELETE with a cancellation. Over SSE, two
  peers with one request each, of the same id, are what a replaced session can confuse.
- *Protocols, A2A.* A store of one is full after one task; three sends can have one handling, one
  queued on it and one evicting; a fourth repeats one of these roles.
- *Memory.* Two documents with a writer each and two calls per writer: an add and
  a second add or a delete over it, against another document's; `PageSize = 1` makes every batch of
  two cross a page; four made-up ids name the chunks of two such batches apart. Two snapshotters, three messages and three snapshots overlap twice;
  a header of one token (`HeaderCost`) is enough to exceed a cap. Texts
  of up to five runes with sizes up to three hold several chunks and every split point; rankings of three
  ids include every order, tie and failure of two sources; an index that visits any part of what is held; ids of one and of two
  pieces; batches of 2 against texts of 3.
- *Calls.* Three attempts with delays 4 and 6: the second delay is doubled, and capped. Answers with one to
  three blocks of each kind; tags cut at every character; a kept tail `MaxTail = 6` (16 in the code, for longer tags)
  is longer than the opening tag and cuts a longer thought, inside a character too; tables of three spans, in two exports, against two shutdowns.
- *Memory, what a run remembers.* Generated and streamed answers; streams that break before and after the
  first text, once, and are tried again. Two threads with the same first prompt or not, two rounds of replay; three cases on two
  workers, ids out of order; replies of two tokens, since a rule for two is applied pairwise.

### Fairness

- `GraphRun`: weak fairness of the loop's own steps – node bodies, routers and Save
  return. Nothing makes a context end or a caller call.
- `GraphStream`: weak fairness of the producer and of a consumer that reads. The
  documentation tells consumers to drain the channel or cancel; `Leave` is the second.
- `MCGraphBuilder`: weak fairness of the layout, one sequential call. The rest is safety.
- `MCProtocols`: weak fairness of all goroutines of MCP together (`Working`). Each call is made once, so no
  behaviour goes on for ever and this is the same as fairness to each: tools return and
  runnable goroutines are scheduled. No fairness for timeouts, closes and clients. Strong fairness of a send of A2A that waits for
  `procMu`, which Go's mutex gives (a waiter is handed the lock after 1 ms), and handlers return. Readers need none.
- `MCCalls`: weak fairness of what ends a call that is over or cancelled – Retry returns,
  the span is ended – and of the goroutine of `watchAbandon`. Nobody has to read a stream.
- `MCMemory`: weak fairness of an evaluation's producer and of each of its workers, as in `MCEvals`; subjects and scorers return. The rest is safety and a
  refinement, and so are `Agents`.

Deadlock is not checked where a system may really stop: no call under way and the
bound on calls reached, a closed stream, all requests answered, a job looked at.

## Proofs

Eight modules hold theorems. Each is proved for every value of the constants that its named
assumptions allow; none of them bounds the number of steps, calls, tasks, sessions or messages.
Where the model caps a counter (`MaxCalls`, `MaxRuns`, …) the theorem holds for every cap.

| Module | Theorem | States |
|---|---|---|
| `GraphBuilderProofs` | `TypeCorrect`, `CompileCloses` | types; a graph that Compile accepts is `Closed` |
| | `EdgesResolve`, `OrderIsFree` | `CompiledGraphIsClosed`, `CallsCommute` |
| | `SavesAreKept`, `BrokenHooksAreContained` | `CheckpointsAreKept`; `HooksAreContained`, of any list of hooks |
| `GraphRunProofs` | `TypeCorrect`, `InputDurability`, `StepCount` | types; `InputIsDurable`; `StepCountsEffects` |
| | `BodiesAllowed`, `ResultAgreesWithStore` | `BodiesAreAllowed`; `ResultMatchesStore` |
| | `WalkRefinement` | `Spec => Walk!Spec`: the run implements `GraphWalk` |
| `GraphStreamProofs` | `TypeCorrect`, `StreamWalks`, `AnnouncementsAreDurable` | types; `StreamIsAWalk`; `AnnouncedIsDurable` |
| | `SilenceIsExplained` | `closed => SaidOrCancelled`, the safety conjunct of `StreamCloses`: a terminal event, a cancellation, or a Save panic that the goroutine's own `cancel` swallowed |
| `ProtocolProofs` | `TasksAreTyped`, `WorkIsKept`, `HistoriesAreKept` | A2A: types; `WorkIsReachable`; the action property `HistoryIsKept` |
| | `McpInductive`, `OwnersUseWhatTheyHave` | MCP: the invariant; `HandlersOwnWhatTheyUse`, over both transports |
| | `AnswersFindTheirCalls`, `StraysAreExplained` | `AnswersItsOwnCall`, over HTTP; `RepliesAreAccountedFor`, which says what may go astray over SSE |
| `AgentsProofs` | `GuardsSeeFirst`, `PlansAreExecuted`, `EndsAreTold` | `UserMessagesAreVetted`, `PlanIsFollowed`, `TruncationIsTold` |
| | `CallsGetAnswers` | `CallsAreAnswered`, of the ReAct agent and the swarm |
| `MemoryProofs` | `ConversationsAreKept`, `VectorsKeepToTheirTexts` | `ConversationIsKept`, `VectorsFollowTheirTexts` |
| | `StoresKeepTheirPromise` | `StoreSpec => StoreKeepsItsPromise`: each of the seven stores implements `MemoryStore` |
| | `FixedSizeKeepsTheText` | `ChunksAreTheText` of every job of the FixedSize chunker |
| `ProviderCallProofs` | `RetriesKeepTheirDistance`, `SpansTellTheOutcome` | `RetryKeepsItsDistance`, `SpanTellsTheOutcome` |
| | `ExportsAreKept` | `ExporterSpec => []ExportsAreStored`, the first conjunct of `TracesAreTold` |
| `RecordsProofs` | `ReplaysRepeat`, `JudgesAreSafe` | `ReplayRepeatsTheRun`, `JudgesAreReadSafely` |
| | `ReportsAreTrue` | a report that `Run` returns is `Told`: the safety half of `EvaluationReports` |

### Assumptions

- The graph of a run or a stream is `Closed` (`RIsCompiled`): its entry, its static edges and its branch maps
  lead to nodes or END, and its gates are nodes. `CompileCloses` proves this of whatever the builder
  compiles, which joins the three modules. A retired node is none of the graph's (`RetiredNodes`).
- `NamesDistinct`: START, END and the empty name are no names of nodes. The names that the constructors of
  `pkg/agent` and `pkg/council` give their nodes are names (`ReActConstants`, `PlanConstants`,
  `HopsConstant`); the caps are positive, as the constructors make them.
- `CellAssumption`: memory does not run out – there is a cell for each goroutine and one for each call. `HookAssumption` lists what
  a callback may do: be missing, begin or end a span, return nil, panic.
- `WindowAssumption`: `Nobody` is no goroutine, and token estimates, the summary's and its header's among them, are naturals.
- `EmbedAssumption`: a batch limit and the size of a model's own vectors are positive; it lists the adapters and how a service may answer.
- `BackendAssumption`: a batch is a sequence of chunks, a page holds one key at least, and a bucket is listed in an order that has
  every key that a caller names; `None` is no call.
- `TraceAssumption`: what is exported are batches of spans.
- `RecordingAssumption`: the threads of an agent are finitely many and at least one; it says what answers and fixtures are.
- `EvalAssumption`: case ids are integers, scorers and thresholds are what the runner takes them to be, a reply is a sequence of tokens.
- `A2AConstants`: a request is a send or a get, not both; the store holds at least one task.
- `RetryAssumption`, `TailAssumption`: the numbers that `withDefaults` leaves in a `RetryConfig`, and `maxOpenTagLen`, are positive.
  `CallAssumption` says what a call is: one of the four adapters, blocks of the five types, usage in naturals. `FailureAssumption`: a service
  fails for one of `Causes` and may ask for any wait; `Nothing` is no failure, no actor and no attributes.
- `ServerConstants`, `ClientConstants`, `SseConstants`: queues have a positive capacity; a peer numbers its requests
  apart (`By` and `Nth` together are injective), as `nextID` does; requests are finitely many, because the client's numbering
  is a cardinality; and the values that stand for "no answer" or an error are not requests.

### The arguments

None of the properties is inductive. Each module defines an invariant that is, with one lemma per
action and, under it, a step per conjunct that the action can disturb.

*GraphBuilder.* Only calls that succeed change the graph, so whatever was added joins names to names and
a branch map is never without its router; what `Accepted` adds to that is `Closed`. Calls commute because each adds to
one field under a key that it must not find there: two that meet on a key fail in either order.

*GraphRun.* A step reads locals that a previous call's crash left to the store. `IInv` adds what
the store remembers – but for END's, a checkpoint's ordinal is one more than the effects in its
state (`StoredStep`), and a stored gated node was held (`StoredGateHeld`) – how the locals
relate to it at each `pc` (`CountsEffects`, `Shape`, `AtTop`, `AtRoute`, `GatePassed`,
`BypassNeedsStore`) and how lateness follows the context (`Lateness`). For the refinement, a step of
the loop that does not save stutters, the first save of a run is `Begin`, and any later one is
`Advance` or a stutter: `AtTop` says that the node about to be saved is the stored one or a
successor of it, with exactly its effect added.

*GraphStream.* An `emit` that loses against the context ends the loop, so a goroutine that goes on has lost
nothing: `LastTells` says, at each `pc`, which event was sent last and what it says of the locals.
`StoreTells` does the same for the store, `OutcomeTells` for the error, and `Silence` says that a goroutine on
its way out has sent a last word, was cancelled, or is about to lose a panic of Save to the `cancel` that it
deferred itself. What is read and what is buffered are one sequence, `Emitted`, which receiving leaves alone.

*GraphOptions*, in the same module. A write reaches what is stored only through a cell that the store lent: a
goroutine that holds a stored state got it from `Load` or `History` (`HeldAreLent`), and a copy on its way to
the store is nobody else's and still says what `Save` was given (`CopiesAreOwned`), as faithfully as its type
is copied (`Faithful`). A fresh cell for the copy exists because each call puts at most one more cell to use
(`CellsSuffice`). That a trimmed history still agrees with the end of what was saved is arithmetic on
positions (`TrimmedAppend`, `RecentGrows`). For the hooks, the chain is a recursive function; induction over
its links (`LinksExist`, `ChainFires`) gives that its context extends the one it began with, or is none, and
that every mark it began is in it unless another hook spoiled that span (`Fired`, `Spoiled`). `OpenTells` then
keeps each open span's mark in the context of the callback that will end it.

*A2AServer.* `HolderWorks`: a send that handles holds its entry's `procMu`, the entry's task is "working", and the
copy it works on has the accepted messages – so that its commit overwrites nothing. `StoreHolds`: an entry
that was created and is not terminal is in the store, and no two there share an id. Eviction takes terminal tasks only, and
nothing leaves "working" but the holder's commit. Finding the oldest evictable entry needs a least element, which
well-founded induction over positions gives.

*MCP.* Over HTTP, `Numbered` says that requests of one client bear different ids, `Served` where a handler and
its dispatch goroutine may stand together, `Slots` that a slot belongs to the handler that waits at it (or to
a replacement of it: a second POST of the same id), and `Delivered` that what travels back is the request's
own answer. Over SSE, of the streams opened the last is the active one or none is, and every other one is cut
(`StreamsLive`); an answer under way to a peer is that peer's, or one's whose session it replaced (`Routed`),
and an error had a cause (`Causes`). The two transports share no variable, so that a step of either leaves the
other's half alone.

*Agents.* `Agents` runs one agent of four kinds, and `cfg` never changes; the invariant is four implications. For each graph that
a constructor builds, lemmas say where its edges lead (`FollowRoutes`, `ReActGraph`, `PlanEdges`, `SupervisorEdges`,
`SwarmEdges`). A conjunct per node then says what the counters are worth there: a ReAct agent about to ask the model has taken
two steps per turn, an executor's step is `1 + 2 * iter`, a worker's `2 * hops - 1`. Each cap is thereby
met before the step limit, for every cap. `Guarded` says that the digest covers the watermark's many messages and all
of them were vetted, which is why a prefix with the same digest need not be vetted again. For the swarm, `InAgent` relates
the copy an agent works on to the state of the run, and `HandedOver` says that a handoff names an agent in the turn
that ends the conversation. `Kept` filters a sequence by a recursive function; `KeptExists` and `KeptElements` say what it
keeps, by an induction over the prefixes of its argument (`UpTo`, from the well-foundedness of the naturals).

`CallsGetAnswers` rests on a second invariant, `TalksInv`. `Talk` says of a conversation that a turn's calls
are answered right behind it, position by position (`Block`), but for a last turn that is left open;
`AnsweredIsTalk` shows that it says what `Answered` does. Where a conversation may be open depends on the node
about to run, and what the model was asked is a part of the conversation that ends before a turn of the model
(`UpToATurn`), so that its calls are answered too (`TalkUpTo`). A swarm agent executes its real calls and
rejects the rest: `RepliesCover` says that the two lists of answers together cover its calls (`KeptSplits`),
and a handoff's acknowledgements cover all of them. The system message that is put in front is dropped from
the conversation before (`ShownTalks`, `OneSystem`), which moves every answer by the same distance.

*Window.* `Parted` says that the summarised messages, the body and the lost ones are disjoint, that with the
system message they are the conversation, and that the body follows the summarised ones in the order of
appending. `EvictionParts` is the step that all of `Snapshot` is made of: the front of the body goes, into the
summary or away, and `Parted` holds again (even when the first message left is a system message and takes the
window's system slot). `OneAtATime` says that a snapshot under way holds `snapMu` and that what it planned to
evict is still the front of the body, which is why it may drop it by its length alone: appends reach only the
other end. What the second look at the caps drops is noted (`squeezed`), so that of a Summarizer that never
failed nothing else is lost. For the caps, `FitsMoved` needs that tokens add up from either end, by an
induction over the conversation.

*Embeddings.* `EmbedInv` says of each call that it has a vector for each of the texts before the next batch,
that each is the text's own where the service's answer can be put in order (`TextsCount`), and that all have
the size that `SizeOf` gives for the configured dimension; the dimension learned is 0, the configured one or
the model's, so that callers who learn it at the same time learn the same. `AnswerFits` is the step: an answer
in any order that `Placed` does not refuse is put where it belongs.

*Stores.* In process, the list and the map into it agree (`Indexes`); in a database there is one row per id
(`SqlTables`, `KeyTables`). A loop over a batch is a recursive function; after n of its chunks the store holds
what it held, with the latest of those n put over it (`LoopPuts`). That makes each operation of a
transactional store one step of `MemoryStore`. S3 Vectors works page by page, and `StoreInv` says where a call
stands: the chunks put so far are held as they were last given (`Putting`), a listing has noted every chunk of
the document up to its last page (`Scanning`), and what is to be deleted is all that the document has
(`Deleting`). Another document's writer cannot disturb this (`Spares`, `OthersKeep`). Each page is then a part
of the whole, a stutter, or the end of the call with what it promised; an error may leave any part.

*Chunking.* Window i of FixedSize has the runes from `(i - 1) * step + 1`; `LastWindow` says which one reaches
the end of the text first. Without its overlap each window begins where the one before ended (`Windows`), so
that joining the first i gives the text up to there (`WindowsJoin`).

*Recording.* `RunInv` counts, if every answer was recorded for what it was (`Faithful`): for any history, as
many spans with a kept completion follow it as threads went on from it with such a message (`SpansCount`), and
no two spans start at once; so a recorded answer was heard (`RecordedIsHeard`). The tape is the spans by their
start, so the queue of a prompt has an entry for each thread that sent it (`QueueServesTheRun`). In lenient
replay a queue's cursor is the number of threads that were answered (`ServedAlike`), so that it never runs
out; that both runs go through the same histories, as often, is shown by a shortest history at which they
differ. In strict replay of one thread, the position on the tape is the length of the conversation (`Along`),
and the conversation is the recorded one up to there.

*Judges, Evaluation.* Reading a reply uses only the sets of its numbers and words, so that bounds on a score
and the veto of a hedging judge need no induction over tokens. `PoolInv` says that a job, the worker that does
it and the slot it fills belong to one case, and that no two workers share one (`Apart`). The report is sorted
by id, which is shown by ranks: a case's place is the number of cases not after it (`Rank`). Its counts are
cardinalities of disjoint sets of cases.

*ProviderCall.* `IInv` has three parts. `RetryInv` relates the attempts to `phase` and `delay`: while the
caller sleeps or is about to try again, the last attempt failed for a cause that passes, and `delay` is what
the service asked for or a step of the climb, which stays within `1 .. MaxDelay` (`ClimbType`, an induction
over its steps). `StreamInv` is about what is on the way: until the stop is handed out nobody knows the reason
(`Untold`), and afterwards what `CollectStream` kept and what the span saw are the same reason and usage
(`Told`). That needs the stop to come once and behind everything else, in each adapter's reader (`NoStop`,
`OneStop`), and usage to come with the stop or with anthropic's start only: one lemma per adapter for what a
frame queues. Behind the filter a text event is split, held back or dropped, but the collector and the span
are fed the same events (`Filtered` of a well-formed event is a sequence of well-formed ones; the loop of
`feed` is a recursive function, which `LoopExists` and `FeedTyped` bound). `SpanInv` says who has the span:
nobody, the caller, who then is at `"ending"` or gone, or the watcher, and then the call was cancelled; until
the call is over, the text it has is the text kept. An answer that was generated in one piece is filtered in
one piece, and extracting only adds parts that are not text (`ThoughtsPass`, `TextOfAnswer`).

*Exporter.* Whoever is past draining the exports set `shutdown` before, under the lock under which an export
is let in; so none is under way then nor comes later (`ExporterInv`), and the store is closed by one who is
past it, after the checkpointer stopped. Rows have an id each because a row is inserted unless its id is there
(`InsertedHas`, over the batch).

Only model-checked:

- liveness (`EveryCallReturns`, `StreamCloses`, `LayoutIsAFlow`, `CallsReturn`, `EverySendIsAnswered`,
  `EverySpanEnds`, `EvaluationReports`), which is out of the prover's reach;
- what recursive functions and folds compute, which takes induction over data: `ChunkersKeepTheText` (but for FixedSize, proved), `BundleIsKept`,
  `RankingsAreRespected` (also sorting by score), `StreamAgreesWithGenerate`, `StrippingIgnoresTheSplit`, `ConversationsAreCarried`;
- the views of `TracesAreTold`, folds and sorts of rows, and its feed, which depends on the order of the runs it is sent;
- of the five runs that end in a counterexample, nothing is claimed beyond the counterexample.

Of `EvaluationReports`, `ReportsAreTrue` proves the part that is not liveness: a report that comes is true.

## Plan

1. Done: the graph builder, runtime, streaming, options and layout; the agents and councils; MCP over HTTP
   and SSE; A2A; memory, its backends and embedders; calls through adapters and middleware;
   traces; replay; evaluation. Three abstract levels: `GraphWalk`, `MemoryStore`, and reference
   definitions for the pure code.
2. Proved: the graph runtime with its refinement, streaming, the builder, the checkpointer and the hooks; the A2A task store; both MCP
   transports; the agents and councils; the window of a conversation, the embedders and the refinement of the stores; of a
   provider call, the retries and the span; the exporter against its shutdown; the FixedSize chunker; replay, the judges and the reports of an evaluation.
3. Prove next: that Recursive and Sentence keep the text, which needs sorted cuts and the joining of joined pieces; that a stream
   of each adapter collects to what `Generate` gives.
4. Abstract specifications worth stating: a linearizable task store above `A2AServer`;
   a request/response service above `McpClient`.

## Met while modelling

Too local for a run of their own; the models have the code's behaviour in each case. Where the code's own words
can be stated as a property that TLC refutes, the module states it (`PanicsAreTold`, `DropsAreFolded`,
`SnapshotsHonorTheCaps`, `StrippingSuitsEveryText`): put into the configuration of its module's run, it ends in a counterexample.

*Graph.* Resuming a finished run saves its END checkpoint with `step`, not `step + 1`, so the stored ordinal
goes down to 0, which the doc reserves for the initial state. With `Timeout` set, a caller's own deadline is
reported as the run's. The comment on the backstop of `runStream` (runnable.go:533-537) says of a panic
"Convert it into a terminal EventError"; with `Timeout` set the goroutine's own deferred cancel runs before
it, and the select may drop the event after a Save panic though nobody cancelled (`PanicsAreTold` is violated;
`StreamCloses` and `SilenceIsExplained` name the case, `PanicSwallowed`). The doc of `cloneState`
(checkpoint.go:166-173) says that it returns an error when a state cannot be copied faithfully;
`hasGobUnsafeFields` looks at the top-level fields only, so that unexported, func and channel fields of nested
structs, slice elements and map values come back empty without one (`CheckpointsAreKept` says so of such
types). A hook that returns nil or panics in a merged chain loses the contexts of the hooks before it.
`layeredPositions` says that conditional edges are followed; it follows static ones.

*Agents.* `State.Iterations` accumulates over runs that carry a State, though its doc says "in this run". The
comment in `NewReAct` that without a registry the router never returns `tools` is not what the router tests: a
model that calls tools nobody offered ends the run with `ErrUnknownNode`. `parsePlan` calls an empty plan
valid while the execute node refuses it. A Plan-and-Execute run that reaches its cap with steps left ends
without an error (planexecute.go:309-320), and `RunPlanAndExecute` returns `("", nil)` (345-355): unlike the
other agents' caps it is not told, only visible as an empty answer. `TruncationIsTold` states just that
(`PlanEndIsAccounted`). A replanner that gives neither an answer nor a plan ends in the same way.

*MCP.* A second POST with an id in use loses its slot to the first one's deferred delete. What else may happen
to a reply over SSE than in `sse_stray`, `SseStraysAreExplained` rules out. `handleSSE` writes its headers
outside the lock that `Send` takes (transport_sse.go:178-181), a data race. A failed dial of the SSE client
does not close its transport. The HTTP client keeps the first session id it saw.

*Providers.* A redacted thinking block is lost when an Anthropic answer is streamed, and refused by the other
adapters' requests; several streamed thinking blocks are merged under concatenated signatures.
`enforceToolChoiceNone` (bedrock) and `extractStructuredOutput` (anthropic) apply to `Generate` only. openai's
`Generate` passes empty tool ids through while its stream makes ids up, and a real id that comes late splits
the call. A truncated stream may give MessageStop without MessageStart. Stripping a stream treats white space
by the split, and drops an unclosed `<think>` that `Generate` keeps. `findClose` uses places found in the
lower case of a text in the text itself (strip_thinking.go:316-317, 343-357), though lower case may be longer
or shorter: behind such characters text is lost or leaks, or the slice is out of range and `feed` panics. The
tail kept of a block (304-305) may begin inside a character, which lower case makes longer. So "live content
deltas are stripped exactly as StripThinkingBlocks does" (70) is not true of every language:
`StrippingSuitsEveryText` is violated, and `StrippingIgnoresTheSplit` claims it of `Simple` texts only. openai
and google skip a frame that does not parse (openai/stream.go:178-183, google/stream.go:142-146): what it held
is missing from an answer that ends with its reason all the same (`Skips`). Arguments of a call that are not
JSON, which a cut stream may leave, make the next request fail in bedrock (`decodeToolArgs`), anthropic and
google (the encoding of a RawMessage), and a tool result that begins and ends like a JSON object but is none
fails in google. openai's embedder leaves a nil vector for an index that comes twice.

*Traces.* A second, concurrent `Shutdown` returns before the store is closed. The live feed tells a
trace that has grown by its end time only, so span counts stay stale. `SpansForRun` hides the earlier trace of a run id.
`InsertSpans` says duplicates are rejected; it ignores them. The steps view
counts nested nodes twice and leaves `provider.stream` spans out.

*Memory.* The comment on the second look at a window's caps (window.go:150-154) says "so the returned snapshot
honors MaxTokens / MaxMessages" and "the next Snapshot will fold them if a Summarizer is set". Neither holds:
a summary is sent under a header (216) that `fits` (254-256) does not count, so that a snapshot may exceed
MaxTokens by the header with messages left to evict, and messages dropped there are gone from the window when
the next Snapshot plans (`SnapshotsHonorTheCaps`, `DropsAreFolded`: both violated; `ConversationIsKept` says
what does hold). pgvector's index is approximate and filtered after its search, so that it may answer with
fewer or worse chunks than it holds (`RetrieveIsTopK` is about what the index visits). Concept links are
joined with commas and split at them, so a link to an id with a comma is lost in the graph. "Marshal is the
inverse of the loader" (write.go:13, 23-27) but for quotes in scalars, and a log's entries are written bare:
one whose text begins with a time stamp is reloaded under that date, one that begins like a kind gets that
kind, and one with neither kind nor text is dropped (`Sturdy`). A system message that is not the first is
evicted. Chunks merged with an overlap may reach size + overlap, and `Sentence` may give an empty chunk. Two
OKF sections with the same heading get the same chunk id; `yamlScalar` doubles a quote that `coerce` does not
undouble (`ScalarSurvivesWriting`); an OKF filter applies after the cut to K; an undated log entry is dated
anew; an unreadable index or log is rewritten as if empty.

*Replay and evaluation.* A streamed call that calls tools is recorded without them, as the text beside them
or, without any, as no call at all; so a replay repeats a run of streams only if none of them calls tools and
none breaks after some text (`Faithful`). The strict index advances on a mismatch, and strict replay of
concurrent threads depends on the scheduler. `Reset` does nothing for lenient cursors. A subject that ignores
its context may answer after the deadline and pass. A judge's "85/1000" reads as 85 of 100.

## Not modelled

- Text, formatting, logging, JSON encoding, SVG and HTML: no state.
- Concurrent calls of one RunID: the code promises nothing about them.
- NodeTimeout is one of the ways in which a node fails; a body that outlives it goes on
  unobserved, as the runtime discards what it returns.
- MCP: bad frames, foreign origins and other methods are refused before any state
  changes; the stdio transport writes a line per frame under a mutex; `AsRegistry` is wiring.
- A2A: the agent card, malformed requests, metadata, the turns a handler appends, and the client, which makes
  one HTTP call per operation.
- Agents: `FinalText`, sampling options; hash collisions; messages that cannot be encoded (the
  watermark is then trusted, as the code says).
- Adapters: schemas, tool choice, sampling and cache hints, authentication. Backends:
  dialects of SQL and HTTP, float arithmetic of scores. Dashboard: pages, filters, templates.
- Built-in tools, prompts, data types, schema reflection, the scripted provider and the command line: stateless wrappers.
