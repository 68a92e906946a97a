----------------------------- MODULE MemoryStore -----------------------------
(***************************************************************************)
(* What memory.Store promises the ingestion of documents (store.go, and    *)
(* the comments of the backends): a call adds the chunks of one document,  *)
(* by id, or deletes that document. When it returns nil its effect is      *)
(* whole; when it returns an error a transactional backend has made all of *)
(* it or none, another one a part; and no call ever touches the chunks of  *)
(* another document.                                                       *)
(*                                                                         *)
(* Every document has one writer, which makes one call at a time.          *)
(***************************************************************************)
EXTENDS Naturals, Sequences, FiniteSets, SequencesExt, Functions

CONSTANTS
  Doc, None,
  Number          \* of the ids a backend makes up

VARIABLES
  transactional,  \* the backend makes all of a call or none
  held,           \* the set of chunks, ids distinct
  call,           \* the call each document's writer is in, or None
  ret             \* what its last call returned

storeVars == <<transactional, held, call, ret>>

(* Chunk ids are the document and a number, 0 when the caller gave none.   *)
Put(chunks, added) ==
  {c \in chunks : \A new \in added : c.id # new.id} \cup added

OfDocument(chunks, d) == {c \in chunks : c.id[1] = d}

(* Of the chunks that a sequence has for one id, the last.                 *)
Latest(s) == {s[i] : i \in {j \in DOMAIN s : \A k \in DOMAIN s : j < k => s[k].id # s[j].id}}

(* Fresh ids for the chunks of a batch that have none.                     *)
Fresh(d) == {n \in Number : \A c \in held \cup ToSet(call[d].batch) : c.id # <<d, n>>}

Namings(d) ==
  {names \in [{i \in DOMAIN call[d].batch : call[d].batch[i].id[2] = 0} -> Fresh(d)] : IsInjective(names)}

Named(batch, names) ==
  [i \in DOMAIN batch |->
     IF i \in DOMAIN names THEN [batch[i] EXCEPT !.id = <<@[1], names[i]>>] ELSE batch[i]]

(* A part of a batch has one chunk of an id, perhaps one that the batch    *)
(* itself replaces.                                                        *)
PartsOf(batch) == {part \in SUBSET ToSet(batch) : \A x, y \in part : x.id = y.id => x = y}

Parts(d) ==
  IF call[d].op = "add"
  THEN UNION {{Put(held, part) : part \in PartsOf(Named(call[d].batch, names))} : names \in Namings(d)}
  ELSE {held \ part : part \in SUBSET OfDocument(held, d)}

Wholes(d) ==
  IF call[d].op = "add"
  THEN {Put(held, Latest(Named(call[d].batch, names))) : names \in Namings(d)}
  ELSE {held \ OfDocument(held, d)}

Ask(d) ==
  /\ call[d] = None
  /\ call'[d] # None
  /\ call' = [call EXCEPT ![d] = call'[d]]
  /\ UNCHANGED <<transactional, held, ret>>

Returns(d, err) ==
  /\ call' = [call EXCEPT ![d] = None]
  /\ ret' = [ret EXCEPT ![d] = err]

Work(d) ==
  /\ call[d] # None
  /\ UNCHANGED transactional
  /\ \/ /\ held' \in {held} \cup IF transactional THEN Wholes(d) ELSE Parts(d)
        /\ UNCHANGED <<call, ret>> \/ Returns(d, "error")
     \/ /\ held' \in Wholes(d)
        /\ Returns(d, "nil")

Next == \E d \in Doc : Ask(d) \/ Work(d)

Init ==
  /\ transactional \in BOOLEAN
  /\ held = {}
  /\ call = [d \in Doc |-> None]
  /\ ret = [d \in Doc |-> None]

Spec == Init /\ [][Next]_storeVars

=============================================================================
