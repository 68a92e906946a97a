------------------------------ MODULE MCMemory ------------------------------
(***************************************************************************)
(* The memory of pkg/memory and memory/* for TLC: a store and its writers, *)
(* or a conversation window, or the callers of an embedder, or a job for   *)
(* one of the algorithms over them: a document to chunk, rankings to fuse, *)
(* a bundle to load, walk and write. Two documents, terms x and y, and the *)
(* jobs. A behaviour may also be about what MCEvals describes.             *)
(***************************************************************************)
EXTENDS StoreRetrieve, Window, Chunking, Okf, Embeddings, MCEvals

CONSTANT Jobs   \* the jobs of each kind, a function

VARIABLE job

storeVars == <<job, backendVars, windowVars, embedVars>>
memoryVars == <<part, reply, recordingVars, evalVars, storeVars>>

NoJob == << >>

(* "store", "window", "embedder", or the kind of a job. *)
Parts == {"store", "window", "embedder"} \cup DOMAIN Jobs

Init ==
  /\ \/ MCInit
     \/ /\ part \in Parts /\ reply = << >>
        /\ RecordingInit /\ work = CHOOSE w \in Works : TRUE
        /\ EvalInit /\ minPass = Unset
  /\ StoreInit /\ (part = "store" \/ backend = "inmem")
  /\ WindowInit /\ (part = "window" \/ caps = [messages |-> 0, tokens |-> 0, summarizer |-> FALSE])
  /\ EmbedInit /\ (part = "embedder" \/ asks = CHOOSE e \in Embeds : TRUE)
  /\ job \in IF part \in DOMAIN Jobs THEN Jobs[part] ELSE {NoJob}

Remembers ==
  /\ \/ part = "store" /\ StoreNext /\ UNCHANGED <<windowVars, embedVars>>
     \/ part = "window" /\ WindowNext /\ UNCHANGED <<backendVars, embedVars>>
     \/ part = "embedder" /\ EmbedNext /\ UNCHANGED <<backendVars, windowVars>>
  /\ UNCHANGED <<part, reply, recordingVars, evalVars, job>>

Beside(A) == A /\ UNCHANGED storeVars

Next == Remembers \/ Beside(MCNext)

(* See MCSpec: an evaluation runs on. *)
Spec ==
  /\ Init /\ [][Next]_memoryVars
  /\ WF_memoryVars(Beside(Evaluates(Tally)))
  /\ \A w \in Worker : WF_memoryVars(Beside(Evaluates(WorkerRuns(w))))

-----------------------------------------------------------------------------
(* Every chunker keeps the text: see ChunksAreTheText of Chunking.         *)
ChunkersKeepTheText == part = "chunk" => ChunksAreTheText(job)

(***************************************************************************)
(* What is ranked is ranked right: see TopK of StoreRetrieve,              *)
(* FusionRespectsSources there and ExpansionFollowsLinks of Okf.           *)
(***************************************************************************)
RankingsAreRespected ==
  /\ part = "store" => RetrieveIsTopK
  /\ part = "fuse" => FusionRespectsSources(job)
  /\ part = "expand" => ExpansionFollowsLinks(job)

(***************************************************************************)
(* A bundle that is loaded can be browsed and written without loss: see    *)
(* BrowsingReachesAll, LogSurvivesWriting, ScalarSurvivesWriting,          *)
(* SectionsStayRetrievable and WritingKeepsTheBundle of Okf.               *)
(***************************************************************************)
BundleIsKept ==
  /\ part = "browse" => BrowsingReachesAll(job)
  /\ part = "bundle" => WritingKeepsTheBundle(job)
  /\ part = "log" => LogSurvivesWriting(job)
  /\ part = "scalar" => ScalarSurvivesWriting(job)
  /\ part = "section" => SectionsStayRetrievable(job)

-----------------------------------------------------------------------------
MCBatch ==
  {<<[n |-> 1, terms |-> {"x"}]>>,
   <<[n |-> 1, terms |-> {"x", "y"}], [n |-> 2, terms |-> {"y"}]>>,
   <<[n |-> 2, terms |-> {"x"}], [n |-> 0, terms |-> {"y"}]>>}

MCKeyOrder == <<<<"d", 1>>, <<"e", 1>>, <<"d", 2>>, <<"e", 2>>>>

MCQuery == [mode : {"text", "vector"}, terms : {{"x"}, {"x", "y"}},
            filter : {None, "d"}, tag : {None, "y"}, k : {0, 1}]

Strings(alphabet, n) == UNION {[1 .. m -> alphabet] : m \in 0 .. n}

ChunkJobs ==
  LET texts == Strings({"a", ".", " "}, 5) IN
  UNION {[chunker : {"fixed", "recursive"}, text : texts, size : {size},
          overlap : 0 .. size - 1, seps : {<<".", " ", "">>}] : size \in 1 .. 3}
  \cup [chunker : {"sentence"}, text : texts, size : 1 .. 3, overlap : {0}, seps : {<< >>}]

Rankings(ids) == {r \in Strings(ids, Cardinality(ids)) : IsInjective(r)}

FuseJobs ==
  [sources : {<<r, s>> : r, s \in Rankings({"p", "q", "r"}) \cup {FailedSource}},
   k : {0, 1, 2}, own : {0}, pool : {0}, rrfK : {1, 60}]

(* Names without a comma, and a bundle with one: q,r beside p and q.       *)
ExpandJobs ==
  LET p == <<"p">>  q == <<"q">>  r == <<"r">>  qr == <<"q", "r">>  gone == <<"gone">> IN
  [links : [{p, q, r} -> {<< >>, <<q>>, <<r, p>>, <<p, gone, p>>}]
             \cup [{p, q, qr} -> {<< >>, <<q>>, <<qr, p>>}],
   hits : {<<[id |-> p, score |-> 3]>>,
           <<[id |-> q, score |-> 3], [id |-> p, score |-> 1]>>},
   depth : 1 .. 3, inlinks : BOOLEAN, names : {<<p, q, qr, r>>}]

BrowseJobs ==
  LET paths == Strings({"a", "b"}, 3) \ {<< >>} IN
  [concepts : {{p, q} : p, q \in paths}, reserved : {{}} \cup {{<< >>, p} : p \in paths}, depth : {3}]

(* An item without a text, with a kind only, with one word, and one that   *)
(* carries a time stamp, bare or before a second one.                      *)
Heading(d) == [is |-> "heading", date |-> d, text |-> << >>]
BadHeading == [is |-> "bad", date |-> NoDate, text |-> << >>]
Item(text) == [is |-> "item", date |-> NoDate, text |-> text]
Word == [is |-> "word", ts |-> NoDate]
Kind == [is |-> "kind", ts |-> NoDate]
Stamp(ts) == [is |-> "stamp", ts |-> ts]

LogJobs ==
  [lines : Strings({Heading(<<1>>), Heading(<<2>>), BadHeading, Item(<< >>), Item(<<Word>>), Item(<<Kind>>),
                    Item(<<Stamp(<<1, "time">>), Kind, Word>>), Item(<<Stamp(<<1>>), Stamp(<<2>>), Word>>),
                    Item(<<Stamp(<<2>>)>>)}, 4)]

ScalarJobs == [value : Strings({"a", ":", "[", "]", "\"", " ", "'"}, 4) \ {<< >>}]

(* An index or a log may be missing, unreadable or odd, and so may a concept.*)
File(change) == {[p \in DOMAIN Blank |-> IF p \in DOMAIN change THEN change[p] ELSE Blank[p]]}

Indexes ==
  UNION {File([readable |-> r, fm |-> TRUE, version |-> v, items |-> i]) :
           r \in BOOLEAN, v \in {"", "0", "1"}, i \in {<< >>, <<"linked", "bare">>}}
Logs ==
  UNION {File([readable |-> r, lines |-> l]) : r \in BOOLEAN,
           l \in {<<BadHeading, Item(<<Word>>)>>,
                  <<Item(<<Stamp(<<1, "time">>), Word>>), Item(<<Word>>)>>}}
Concepts ==
  UNION {File([readable |-> r, fm |-> f, type |-> t, links |-> l]) :
           r \in BOOLEAN, f \in BOOLEAN, t \in BOOLEAN,
           l \in {<<<<"a">>, <<"d", "b">>>>, <<<<"gone">>, <<"d", "b">>>>}}

BundleJobs ==
  {[files |-> [p \in DOMAIN f \ without |-> f[p]]] :
     f \in {(<<"index">> :> i) @@ (<<"d", "index">> :> j) @@ (<<"d", "log">> :> l)
             @@ (<<"a">> :> a) @@ (<<"d", "b">> :> b) :
               i \in Indexes, j \in {x \in Indexes : x.version = "0" /\ x.items # << >>}, l \in Logs,
               a \in Concepts, b \in {x \in Concepts : x.links = <<<<"gone">>, <<"d", "b">>>>}},
     without \in {{}, {<<"index">>}, {<<"d", "index">>, <<"d", "log">>}}}

SectionJobs ==
  [doc : [id : {"doc"}, large : BOOLEAN,
          sections : Strings([heading : {"", "examples", "body"}, text : {"", "t", "u"}], 2)]]

(* Six embedders, five services, two callers; no batch holds three texts.  *)
MCEmbeds ==
  [adapter : {"http", "tei", "openai", "google", "titan", "cohere"}, dim : {0, 1}, honours : BOOLEAN,
   service : {"labelled", "unlabelled", "from one", "short", "doubled"},
   texts : {[v |-> t, w |-> <<"q", "p">>] : t \in {<< >>, <<"p">>, <<"p", "q", "r">>}}]

MCJobs ==
  [chunk |-> ChunkJobs, fuse |-> FuseJobs, expand |-> ExpandJobs, browse |-> BrowseJobs,
   bundle |-> BundleJobs, log |-> LogJobs, scalar |-> ScalarJobs, section |-> SectionJobs]

=============================================================================
