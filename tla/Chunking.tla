------------------------------ MODULE Chunking ------------------------------
(***************************************************************************)
(* The chunkers of pkg/memory/chunk. A text is a sequence of runes: letters*)
(* and the marks "." (ends a sentence) and " " (white space).              *)
(***************************************************************************)
EXTENDS Naturals, Sequences, FiniteSets, SequencesExt, FiniteSetsExt

Smaller(a, b) == IF a < b THEN a ELSE b

-----------------------------------------------------------------------------
(* FixedSize: windows of size runes, each overlap runes into the last; the *)
(* one that reaches the end is the last.                                   *)
FixedSize(text, size, overlap) ==
  LET step  == size - overlap
      begin(i) == (i - 1) * step
      last  == IF Len(text) <= size THEN 1
               ELSE Min({i \in 1 .. Len(text) : begin(i) + size >= Len(text)})
  IN IF text = << >> THEN << >>
     ELSE [i \in 1 .. last |-> SubSeq(text, begin(i) + 1, Smaller(begin(i) + size, Len(text)))]

-----------------------------------------------------------------------------
(* Recursive.                                                              *)
ForceSplit(text, size) ==
  [i \in 1 .. (Len(text) + size - 1) \div size |->
     SubSeq(text, (i - 1) * size + 1, Smaller(i * size, Len(text)))]

(* strings.Split with the separator put back; "" splits by force.          *)
SplitAfter(text, sep) ==
  LET cuts == SetToSortSeq({i \in DOMAIN text : text[i] = sep}, <)
      from(i) == IF i = 1 THEN 1 ELSE cuts[i - 1] + 1
  IN [i \in 1 .. Len(cuts) + 1 |->
        SubSeq(text, from(i), IF i <= Len(cuts) THEN cuts[i] ELSE Len(text))]

(* A part that is still too long is split at the next separator.           *)
RecursiveSplit(text, size, seps) ==
  LET split[n \in 0 .. Len(seps), part \in {SubSeq(text, i, j) : i \in 1 .. Len(text) + 1, j \in 0 .. Len(text)}] ==
        IF Len(part) <= size THEN <<part>>
        ELSE IF n = Len(seps) \/ seps[n + 1] = "" THEN ForceSplit(part, size)
        ELSE FlattenSeq([i \in DOMAIN SplitAfter(part, seps[n + 1]) |->
                           split[n + 1, SplitAfter(part, seps[n + 1])[i]]])
  IN split[0, text]

Suffix(text, n) == IF n >= Len(text) THEN text ELSE SubSeq(text, Len(text) - n + 1, Len(text))

(* Slip: the pieces are cut off at size after an overlap. *)
MergeStepTruncated(acc, piece, size, overlap) ==
  IF Len(acc.cur) + Len(piece) > size /\ acc.cur # << >>
  THEN [out |-> Append(acc.out, acc.cur),
        cur |-> SubSeq(Suffix(acc.cur, overlap) \o piece, 1, Smaller(size, overlap + Len(piece)))]
  ELSE [acc EXCEPT !.cur = @ \o piece]

(* mergePieces: a chunk is closed when the next piece would not fit; the   *)
(* next begins with its tail.                                              *)
MergeStep(acc, piece, size, overlap) ==
  IF Len(acc.cur) + Len(piece) > size /\ acc.cur # << >>
  THEN [out |-> Append(acc.out, acc.cur), cur |-> Suffix(acc.cur, overlap) \o piece]
  ELSE [acc EXCEPT !.cur = @ \o piece]

Closed(acc) == IF acc.cur = << >> THEN acc.out ELSE Append(acc.out, acc.cur)

MergePieces(pieces, size, overlap) ==
  Closed(FoldLeft(LAMBDA acc, p : MergeStep(acc, p, size, overlap),
                  [out |-> << >>, cur |-> << >>], pieces))

Recursive(text, size, overlap, seps) ==
  IF text = << >> THEN << >>
  ELSE MergePieces(RecursiveSplit(text, size, seps), size, overlap)

-----------------------------------------------------------------------------
(* Sentence: whole sentences, packed, trimmed.                             *)
SplitSentences(text) ==
  LET ends == SetToSortSeq({i \in DOMAIN text :
                text[i] = "." /\ (i = Len(text) \/ text[i + 1] = " ")}, <)
      from(i) == IF i = 1 THEN 1 ELSE ends[i - 1] + 1
      parts == [i \in 1 .. Len(ends) + 1 |->
                  SubSeq(text, from(i), IF i <= Len(ends) THEN ends[i] ELSE Len(text))]
  IN SelectSeq(parts, LAMBDA p : p # << >>)

TrimSpace(text) ==
  LET words == {i \in DOMAIN text : text[i] # " "} IN
  IF words = {} THEN << >> ELSE SubSeq(text, Min(words), Max(words))

SentencesPacked(text, size) ==
  Closed(FoldLeft(LAMBDA acc, p : MergeStep(acc, p, size, 0),
                  [out |-> << >>, cur |-> << >>], SplitSentences(text)))

Sentence(text, size) ==
  [i \in DOMAIN SentencesPacked(text, size) |-> TrimSpace(SentencesPacked(text, size)[i])]

-----------------------------------------------------------------------------
(* A job is [chunker, text, size, overlap, seps].                          *)
Chunked(job) ==
  CASE job.chunker = "fixed"     -> FixedSize(job.text, job.size, job.overlap)
    [] job.chunker = "recursive" -> Recursive(job.text, job.size, job.overlap, job.seps)
    [] job.chunker = "sentence"  -> Sentence(job.text, job.size)

NoSpace(text) == SelectSeq(text, LAMBDA r : r # " ")

(***************************************************************************)
(* No chunker loses, repeats or reorders a rune of the document: without   *)
(* the overlaps (and, for sentences, white space) the chunks are the text. *)
(* FixedSize and Recursive stay within size, Recursive with an overlap     *)
(* within size + overlap, and a sentence chunk that is larger is one       *)
(* sentence.                                                               *)
(***************************************************************************)
ChunksAreTheText(job) ==
  LET out == Chunked(job)
      tail(i) == IF i = 1 \/ job.chunker = "sentence" THEN 0
                 ELSE Smaller(job.overlap, Len(out[i - 1]))
      bare == FlattenSeq([i \in DOMAIN out |-> SubSeq(out[i], tail(i) + 1, Len(out[i]))])
  IN /\ IF job.chunker = "sentence" THEN NoSpace(bare) = NoSpace(job.text)
        ELSE bare = job.text
     /\ \A i \in DOMAIN out :
          /\ Len(out[i]) <= job.size + (IF job.chunker = "recursive" THEN job.overlap ELSE 0)
             \/ (job.chunker = "sentence"
                 /\ \E s \in ToSet(SplitSentences(job.text)) : TrimSpace(s) = out[i])
          /\ i > 1 => SubSeq(out[i], 1, tail(i)) = Suffix(out[i - 1], tail(i))

=============================================================================
