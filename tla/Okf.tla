--------------------------------- MODULE Okf --------------------------------
(***************************************************************************)
(* memory/okf: what an Open Knowledge Format bundle is loaded into, its    *)
(* link graph and the GraphExpander over a store, its directories, and     *)
(* what is written back.                                                   *)
(*                                                                         *)
(* A concept's links are the resolved targets of its body in order, ids or *)
(* targets that are not in the bundle. Paths are sequences of segments.    *)
(***************************************************************************)
EXTENDS Naturals, Sequences, FiniteSets, SequencesExt, FiniteSetsExt, Functions, TLC

-----------------------------------------------------------------------------
(* The link graph. An id is the sequence of its pieces between commas: one *)
(* piece, unless a file name has a comma in it.                            *)

(* resolveLinks: each known target once, not the concept itself.           *)
Outlinks(links, self) ==
  FoldLeft(LAMBDA out, t : IF t \in DOMAIN links /\ t # self /\ t \notin ToSet(out)
                           THEN Append(out, t) ELSE out,
           << >>, links[self])

(* buildGraph: the outlinks, joined with commas in the metadata and split  *)
(* at commas again.                                                        *)
Graph(links) ==
  [id \in DOMAIN links |->
     [i \in DOMAIN FlattenSeq(Outlinks(links, id)) |-> <<FlattenSeq(Outlinks(links, id))[i]>>]]

Adjacent(adj, id, inlinks) ==
  (IF id \in DOMAIN adj THEN ToSet(adj[id]) ELSE {}) \cup
    IF inlinks THEN {c \in DOMAIN adj : id \in ToSet(adj[c])} ELSE {}

(* expand and Neighborhood: breadth first, each name at its fewest hops.   *)
Expand(adj, seed, depth, inlinks) ==
  LET walk[d \in 0 .. depth] ==
        IF d = 0 THEN [seen |-> {seed}, frontier |-> {seed}, out |-> {}]
        ELSE LET w    == walk[d - 1]
                 next == UNION {Adjacent(adj, id, inlinks) : id \in w.frontier} \ w.seen
             IN [seen |-> w.seen \cup next, frontier |-> next,
                 out |-> w.out \cup {[id |-> id, hops |-> d] : id \in next}]
  IN walk[depth].out

PlaceOf(names, id) == CHOOSE i \in DOMAIN names : names[i] = id

(* GraphExpander.Retrieve: the hits, then their neighbours that are in the *)
(* bundle, the best score first and then by id. A hit is [id, score]; a    *)
(* score halves per hop, so it is kept times 2^depth. names gives the ids  *)
(* in their order.                                                         *)
Expanded(links, hits, depth, inlinks, names) ==
  LET inBase == {hits[i].id : i \in DOMAIN hits}
      reached == {[id |-> n.id, score |-> hits[i].score * 2 ^ (depth - n.hops)] :
                    <<i, n>> \in UNION {{<<j, m>> : m \in Expand(Graph(links), hits[j].id, depth, inlinks)} :
                                          j \in DOMAIN hits}}
      best == {r \in reached : /\ r.id \in DOMAIN links \ inBase
                               /\ \A o \in reached : o.id = r.id => o.score <= r.score}
      before(a, b) == a.score > b.score \/ (a.score = b.score /\ PlaceOf(names, a.id) < PlaceOf(names, b.id))
  IN [i \in DOMAIN hits |-> [hits[i] EXCEPT !.score = @ * 2 ^ depth]] \o SetToSortSeq(best, before)

(* Concepts at the end of a path of n links from seed.                     *)
PathEnds(links, seed, n, inlinks) ==
  LET adj == [id \in DOMAIN links |-> Outlinks(links, id)]
      ends[k \in 0 .. n] ==
        IF k = 0 THEN {seed}
        ELSE UNION {Adjacent(adj, id, inlinks) : id \in ends[k - 1]}
  IN ends[n]

Distance(links, from, to, depth, inlinks) ==
  LET lengths == {n \in 0 .. depth : to \in PathEnds(links, from, n, inlinks)}
  IN IF lengths = {} THEN depth + 1 ELSE Min(lengths)

(***************************************************************************)
(* An expansion leaves the hits as they are and adds, each once and the    *)
(* best first, exactly the concepts of the bundle within depth links of a  *)
(* hit, scored by the hit that gives most: an expansion never outranks its *)
(* hit, and cycles, repeated links and links to oneself change nothing.    *)
(* That much where no id has a comma. A link to an id that has one is lost *)
(* in the metadata (strings.Join, splitCSV): along outlinks such a concept *)
(* is never added.                                                         *)
(***************************************************************************)
ExpansionFollowsLinks(job) ==
  LET out   == Expanded(job.links, job.hits, job.depth, job.inlinks, job.names)
      added == SubSeq(out, Len(job.hits) + 1, Len(out))
      ids   == {added[i].id : i \in DOMAIN added}
      base  == {job.hits[i].id : i \in DOMAIN job.hits}
      dist(i, id) == Distance(job.links, job.hits[i].id, id, job.depth, job.inlinks)
      near  == {id \in DOMAIN job.links : \E i \in DOMAIN job.hits : dist(i, id) <= job.depth}
  IN /\ \A i \in DOMAIN job.hits : out[i].id = job.hits[i].id
     /\ ids \subseteq DOMAIN job.links \ base /\ Len(added) = Cardinality(ids)
     /\ \A i \in DOMAIN added : i > 1 => added[i - 1].score >= added[i].score
     /\ IF \A id \in DOMAIN job.links : Len(id) = 1
        THEN /\ ids = near \ base
             /\ \A i \in DOMAIN added :
                  added[i].score =
                    Max({job.hits[h].score * 2 ^ (job.depth - dist(h, added[i].id)) :
                           h \in {g \in DOMAIN job.hits : dist(g, added[i].id) <= job.depth}})
        ELSE ~job.inlinks => \A id \in ids : Len(id) = 1

-----------------------------------------------------------------------------
(* Directories.                                                            *)
Root == << >>
DirOf(path) == IF path = Root THEN Root ELSE Front(path)

(* Slip: only the directory itself. *)
OwnDirectory(dir) == {dir} \ {Root}

Ancestors(dir) == {SubSeq(dir, 1, n) : n \in 1 .. Len(dir)}

(* allDirs: those above a concept and those of an index.md or log.md.      *)
AllDirs(concepts, reserved) ==
  UNION {Ancestors(DirOf(c)) : c \in concepts} \cup UNION {Ancestors(d) : d \in reserved}

Dirs(concepts, reserved, dir) == {d \in AllDirs(concepts, reserved) : DirOf(d) = dir}
Children(concepts, dir) == {c \in concepts : DirOf(c) = dir}

(* okf_browse walked down from the root.                                   *)
Browsed(concepts, reserved, depth) ==
  LET level[n \in 0 .. depth] ==
        IF n = 0 THEN {Root}
        ELSE UNION {Dirs(concepts, reserved, d) : d \in level[n - 1]}
  IN UNION {level[n] : n \in 0 .. depth}

(***************************************************************************)
(* Browsing down from the root reaches every concept, in one directory     *)
(* only, and every index and log, although the directories are never read: *)
(* they are put together from the ids.                                     *)
(***************************************************************************)
BrowsingReachesAll(job) ==
  LET dirs == Browsed(job.concepts, job.reserved, job.depth) IN
  /\ job.reserved \subseteq dirs
  /\ \A c \in job.concepts :
       \E d \in dirs : {e \in dirs : c \in Children(job.concepts, e)} = {d}

-----------------------------------------------------------------------------
(* log.md. A line is a date heading, a heading that is not a date, or an   *)
(* item: [is, date, text]. The text of an item is a sequence of a time     *)
(* stamp, a kind marker and words: [is, ts]. A full timestamp is           *)
(* <<date, "time">>, no timestamp NoDate. An entry is [ts, kind, text].    *)
NoDate == << >>
DateOf(ts) == IF ts = NoDate THEN NoDate ELSE <<ts[1]>>

Leads(text, what) == text # << >> /\ Head(text).is = what
Past(text, what) == IF Leads(text, what) THEN Tail(text) ELSE text

(* An item's own timestamp first, then its kind; the rest is its text.     *)
EntryOf(text, date) ==
  LET bare == Past(text, "stamp") IN
  [ts   |-> IF Leads(text, "stamp") THEN Head(text).ts ELSE date,
   kind |-> Leads(bare, "kind"), text |-> Past(bare, "kind")]

(* parseLogFile. *)
LoadLog(lines) ==
  FoldLeft(LAMBDA acc, l :
             CASE l.is = "heading" -> [acc EXCEPT !.date = l.date]
               [] l.is = "bad"     -> [acc EXCEPT !.date = NoDate, !.bad = @ + 1]
               [] l.is = "item" /\ l.text = << >> -> acc
               [] OTHER ->
                    LET e == EntryOf(l.text, acc.date)
                    IN [acc EXCEPT !.entries = Append(@, e),
                                   !.undated = @ + (IF e.ts = NoDate THEN 1 ELSE 0)],
           [date |-> NoDate, bad |-> 0, undated |-> 0, entries |-> << >>], lines)

(* marshalLog: the text is written as it is. *)
WriteLog(entries) ==
  FoldLeft(LAMBDA acc, e :
             LET d == DateOf(e.ts)
                 head == IF d # acc.date /\ d # NoDate
                         THEN <<[is |-> "heading", date |-> d, text |-> << >>]>> ELSE << >>
                 mark == IF e.kind THEN <<[is |-> "kind", ts |-> NoDate]>> ELSE << >>
             IN [date  |-> IF d # NoDate THEN d ELSE acc.date,
                 lines |-> acc.lines \o head \o
                             <<[is |-> "item", date |-> NoDate, text |-> mark \o e.text]>>],
           [date |-> NoDate, lines |-> << >>], entries).lines

(* What is written of an entry is not taken for something else: it has a   *)
(* kind, or a text that begins with a word.                                *)
Sturdy(e) == e.kind \/ Leads(e.text, "word")

(***************************************************************************)
(* A log that is loaded, written and loaded again has the same entries in  *)
(* the same order, less those with neither a kind nor a text; a sturdy one *)
(* keeps its kind and its text, and its date if it has one. A log of       *)
(* sturdy entries that was written once is written the same ever after.    *)
(***************************************************************************)
LogSurvivesWriting(job) ==
  LET once  == LoadLog(job.lines).entries
      file  == WriteLog(once)
      twice == LoadLog(file).entries
      said  == SelectSeq(once, LAMBDA e : e.kind \/ e.text # << >>)
  IN /\ Len(twice) = Len(said) /\ LoadLog(file).bad = 0
     /\ \A i \in DOMAIN said :
          Sturdy(said[i]) =>
            /\ [twice[i] EXCEPT !.ts = NoDate] = [said[i] EXCEPT !.ts = NoDate]
            /\ said[i].ts # NoDate => twice[i].ts = DateOf(said[i].ts)
     /\ (\A i \in DOMAIN once : Sturdy(once[i])) => WriteLog(twice) = file

-----------------------------------------------------------------------------
(* A frontmatter scalar, character by character: writeScalar quotes what a *)
(* plain scalar could not carry and doubles the quotes inside; coerce, in  *)
(* the reader, takes the quotes off.                                       *)
Quote == "'"
Special == {":", "[", "]", "\"", Quote}

Doubled(value) == FlattenSeq([i \in DOMAIN value |->
                                IF value[i] = Quote THEN <<Quote, Quote>> ELSE <<value[i]>>])

WriteScalar(value) ==
  IF ToSet(value) \cap Special # {} \/ value[1] = " " \/ value[Len(value)] = " "
  THEN <<Quote>> \o Doubled(value) \o <<Quote>> ELSE value

Trimmed(value) ==
  LET ink == {i \in DOMAIN value : value[i] # " "} IN
  IF ink = {} THEN << >> ELSE SubSeq(value, Min(ink), Max(ink))

ReadScalar(raw) ==
  LET v == Trimmed(raw) IN
  IF Len(v) >= 2 /\ v[1] \in {Quote, "\""} /\ v[Len(v)] = v[1]
  THEN SubSeq(v, 2, Len(v) - 1) ELSE v

(* A scalar is read back as it was written, but for the quotes ' in it:    *)
(* they are doubled and stay doubled.                                      *)
ScalarSurvivesWriting(job) ==
  ReadScalar(WriteScalar(job.value)) = Doubled(job.value)

-----------------------------------------------------------------------------
(* ChunkConcepts: a concept with a large body becomes a chunk for every    *)
(* section of it that is not empty, under the slug of its heading; the     *)
(* store keeps one chunk per id. A section is [heading, text].             *)
Slug(heading) == IF heading = "" THEN "body" ELSE heading

ChunkConcept(doc) ==
  IF doc.large
  THEN LET filled == SelectSeq(doc.sections, LAMBDA s : s.text # "")
       IN [i \in DOMAIN filled |->
             [id |-> <<doc.id, Slug(filled[i].heading)>>, texts |-> {filled[i].text}]]
  ELSE <<[id |-> <<doc.id>>, texts |-> {doc.sections[i].text : i \in DOMAIN doc.sections}]>>

Indexed(chunks) ==
  {chunks[i] : i \in {j \in DOMAIN chunks : \A k \in DOMAIN chunks : k > j => chunks[k].id # chunks[j].id}}

(***************************************************************************)
(* chunkCharThreshold: bodies are split by their headings "so deep         *)
(* sections stay independently retrievable", of a document whose headings  *)
(* have slugs of their own: the second of two equal ones hides the first.  *)
(***************************************************************************)
SectionsStayRetrievable(job) ==
  IsInjective([i \in DOMAIN job.doc.sections |-> Slug(job.doc.sections[i].heading)]) =>
    \A i \in DOMAIN job.doc.sections :
      job.doc.sections[i].text # "" =>
        \E c \in Indexed(ChunkConcept(job.doc)) : job.doc.sections[i].text \in c.texts

-----------------------------------------------------------------------------
(***************************************************************************)
(* memory/okf: a bundle directory is loaded, validated and written back,   *)
(* one file at a time.                                                     *)
(*                                                                         *)
(* A file is at a path, a sequence of segments, and is                     *)
(* [readable, fm, type, version, links, items, lines]: whether it has a    *)
(* frontmatter block and a type in it, an okf_version, the targets of its  *)
(* links, what an index lists ("linked" or "bare" items), the lines of a   *)
(* log. A path that ends in "index" or "log" is reserved.                  *)
(***************************************************************************)

Reserved(p) == Last(p) \in {"index", "log"}
FilesNamed(files, name) == {p \in DOMAIN files : Last(p) = name}

(* buildConcepts, parseIndexFile, parseLogFile, LoadBundleFS.              *)
LoadConcepts(files) ==
  [p \in {q \in DOMAIN files : ~Reserved(q) /\ files[q].readable} |->
     [fm |-> files[p].fm, type |-> files[p].fm /\ files[p].type, links |-> files[p].links]]

(* What cannot be read is there, and empty.                                *)
LoadIndexes(files) ==
  [d \in {DirOf(p) : p \in FilesNamed(files, "index")} |->
     LET f == files[Append(d, "index")] IN
     IF f.readable
     THEN [fm |-> f.fm, version |-> IF f.fm THEN f.version ELSE "", items |-> f.items]
     ELSE [fm |-> FALSE, version |-> "", items |-> << >>]]

LoadLogs(files) ==
  [d \in {DirOf(p) : p \in FilesNamed(files, "log")} |->
     LET f == files[Append(d, "log")] IN LoadLog(IF f.readable THEN f.lines ELSE << >>)]

LoadBundle(files) ==
  [concepts |-> LoadConcepts(files), indexes |-> LoadIndexes(files), logs |-> LoadLogs(files)]

Version(b) == IF Root \in DOMAIN b.indexes THEN b.indexes[Root].version ELSE ""

LinksOf(b) == [p \in DOMAIN b.concepts |-> b.concepts[p].links]
Broken(b, p) == ToSet(b.concepts[p].links) \ DOMAIN b.concepts

-----------------------------------------------------------------------------
(* Validate: problems are <<where, what, target of a link>>.               *)
ConceptProblems(b) ==
  {<<p, "no frontmatter", Root>> : p \in {q \in DOMAIN b.concepts : ~b.concepts[q].fm}}
  \cup {<<p, "no type", Root>> : p \in {q \in DOMAIN b.concepts : ~b.concepts[q].type}}
  \cup UNION {{<<p, "broken link", t>> : t \in Broken(b, p)} : p \in DOMAIN b.concepts}

ReservedProblems(b) ==
  {<<d, "index frontmatter", Root>> : d \in {e \in DOMAIN b.indexes : b.indexes[e].fm /\ e # Root}}
  \cup {<<d, "bare item", Root>> : d \in {e \in DOMAIN b.indexes : "bare" \in ToSet(b.indexes[e].items)}}
  \cup {<<d, "bad date", Root>> : d \in {e \in DOMAIN b.logs : b.logs[e].bad > 0}}
  \cup {<<d, "undated", Root>> : d \in {e \in DOMAIN b.logs : b.logs[e].undated > 0}}

Validate(b) ==
  (IF Version(b) = "0" THEN {} ELSE {<<Root, "version", Root>>})
  \cup ConceptProblems(b) \cup ReservedProblems(b)

-----------------------------------------------------------------------------
(* WriteBundle: Marshal, marshalIndex, marshalLog.                         *)
Blank == [readable |-> TRUE, fm |-> FALSE, type |-> FALSE, version |-> "",
          links |-> << >>, items |-> << >>, lines |-> << >>]

IndexFile(d, idx) ==
  LET fm == d = Root /\ idx.version # "" IN
  [Blank EXCEPT !.fm = fm, !.version = IF fm THEN idx.version ELSE "", !.items = idx.items]

WriteBundle(b) ==
  [p \in DOMAIN b.concepts |->
     [Blank EXCEPT !.fm = TRUE, !.type = b.concepts[p].type, !.links = b.concepts[p].links]]
  @@ [p \in {Append(d, "index") : d \in DOMAIN b.indexes} |-> IndexFile(DirOf(p), b.indexes[DirOf(p)])]
  @@ [p \in {Append(d, "log") : d \in DOMAIN b.logs} |->
        [Blank EXCEPT !.lines = WriteLog(b.logs[DirOf(p)].entries)]]

(***************************************************************************)
(* A bundle written over itself, even if the writing stopped after any of  *)
(* its files, is the same bundle: it loads with the same concepts, types,  *)
(* version and link graph and no new problem, and once it is whole the     *)
(* errors of its form (frontmatter that is missing or misplaced, dates)    *)
(* are gone.                                                               *)
(***************************************************************************)
WritingKeepsTheBundle(job) ==
  LET loaded  == LoadBundle(job.files)
      written == WriteBundle(loaded)
      after(done) == LoadBundle([p \in done |-> written[p]] @@ job.files)
      same(b) == /\ Version(b) = Version(loaded)
                 /\ LinksOf(b) = LinksOf(loaded)
                 /\ \A p \in DOMAIN b.concepts : b.concepts[p].type = loaded.concepts[p].type
                 /\ Validate(b) \subseteq Validate(loaded)
  IN /\ \A done \in SUBSET DOMAIN written : same(after(done))
     /\ \A problem \in Validate(after(DOMAIN written)) :
          problem[2] \notin {"no frontmatter", "index frontmatter", "bad date"}

=============================================================================
