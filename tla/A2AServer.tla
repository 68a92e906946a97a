----------------------------- MODULE A2AServer -----------------------------
(***************************************************************************)
(* The task store of pkg/a2a/server.go: tasks/send in its three phases,    *)
(* tasks/get, and eviction when the store is full.                         *)
(*                                                                         *)
(* A taskEntry is named by the send that created it, so that a task        *)
(* created again under the id of an evicted one is another entry. A        *)
(* message is named by its send; the turns the handler appends are left    *)
(* out.                                                                    *)
(***************************************************************************)
EXTENDS Naturals, Sequences, FiniteSets

CONSTANTS
  Sender,       \* the tasks/send requests of a behaviour
  Reader,       \* the tasks/get requests
  TaskId,       \* ids that clients choose
  NoId,         \* no id in the request: the server picks one
  Nobody,       \* no entry, no holder
  MaxTasks      \* maxTasks

ASSUME A2AConstants ==
  /\ NoId \notin TaskId
  /\ Nobody \notin Sender \cup Reader
  /\ Sender \cap Reader = {}
  /\ MaxTasks \in Nat \ {0}

VARIABLES
  pc,           \* where each request is
  entry,        \* the taskEntry it found or created
  copy,         \* the detached copy its handler works on
  answer,       \* what it was answered
  store,        \* tasks: the entries in the map, least recently updated first
  key,          \* the id each entry was created under
  task,         \* e.task of each entry
  procMu,       \* who holds it
  accepted,     \* history: the messages each entry has accepted
  seen          \* history: the messages each reader's task had at its start

taskVars == <<pc, entry, copy, answer, store, key, task, procMu, accepted, seen>>

Request == Sender \cup Reader
Terminal == {"completed", "failed", "canceled"}
State == Terminal \cup {"submitted", "working", "input-required"}
Task(state, history) == [state |-> state, history |-> history]
NewTask == Task("submitted", << >>)
NoAnswer == [kind |-> "none", task |-> NewTask]
TaskAnswer(kind, t) == [kind |-> kind, task |-> t]

InStore(e) == \E i \in DOMAIN store : store[i] = e

(* The store without its entry e. *)
Without(e) ==
  LET at == CHOOSE i \in DOMAIN store : store[i] = e
  IN  [i \in 1 .. Len(store) - 1 |-> store[IF i < at THEN i ELSE i + 1]]

Refresh(e) == store' = IF InStore(e) THEN Append(Without(e), e) ELSE store

TasksInit ==
  /\ pc = [r \in Request |-> "start"]
  /\ entry = [r \in Request |-> Nobody]
  /\ copy = [s \in Sender |-> NewTask]
  /\ answer = [r \in Request |-> NoAnswer]
  /\ store = << >>
  /\ key = [e \in Sender |-> NoId]
  /\ task = [e \in Sender |-> NewTask]
  /\ procMu = [e \in Sender |-> Nobody]
  /\ accepted = [e \in Sender |-> << >>]
  /\ seen = [r \in Reader |-> << >>]

Finish(r, kind, t) ==
  /\ pc' = [pc EXCEPT ![r] = "answered"]
  /\ answer' = [answer EXCEPT ![r] = TaskAnswer(kind, t)]

-----------------------------------------------------------------------------
(* tasks/send: look up or create under the store's lock.                   *)

Found(id) == {e \in Sender : InStore(e) /\ key[e] = id /\ id # NoId}

(* An id the server picks is nobody else's; it is written as NoId here.    *)
Find(s, id) ==
  /\ pc[s] = "start"
  /\ \E e \in Found(id) : entry' = [entry EXCEPT ![s] = e]
  /\ pc' = [pc EXCEPT ![s] = "queued"]
  /\ UNCHANGED <<copy, answer, store, key, task, procMu, accepted, seen>>

(* Slip: at the cap any task goes. *)
EvictableAnyhow == DOMAIN store

(* The positions of the tasks that may be evicted.                         *)
Evictable == {i \in DOMAIN store : task[store[i]].state \in Terminal}

Room ==
  IF Len(store) < MaxTasks THEN store
  ELSE LET oldest == CHOOSE i \in Evictable : \A j \in Evictable : i <= j
       IN  Without(store[oldest])

Create(s, id) ==
  /\ pc[s] = "start"
  /\ Found(id) = {}
  /\ Len(store) < MaxTasks \/ Evictable # {}
  /\ store' = Append(Room, s)
  /\ key' = [key EXCEPT ![s] = id]
  /\ entry' = [entry EXCEPT ![s] = s]
  /\ pc' = [pc EXCEPT ![s] = "queued"]
  /\ UNCHANGED <<copy, answer, task, procMu, accepted, seen>>

StoreIsFull(s, id) ==
  /\ pc[s] = "start"
  /\ Found(id) = {}
  /\ Len(store) >= MaxTasks /\ Evictable = {}
  /\ Finish(s, "full", NewTask)
  /\ UNCHANGED <<entry, copy, store, key, task, procMu, accepted, seen>>

-----------------------------------------------------------------------------
(* The three phases. procMu is taken and the first phase entered in one    *)
(* step: nobody but its holder changes the entry in between.               *)

(* Slip: sends of a task are not serialized. *)
BeginUnserialized(s) ==
  LET e == entry[s]
      t == Task("working", Append(task[e].history, s))
  IN /\ pc[s] = "queued"
     /\ task[e].state \notin Terminal
     /\ task' = [task EXCEPT ![e] = t]
     /\ copy' = [copy EXCEPT ![s] = t]
     /\ accepted' = [accepted EXCEPT ![e] = Append(@, s)]
     /\ pc' = [pc EXCEPT ![s] = "handling"]
     /\ Refresh(e)
     /\ UNCHANGED <<entry, answer, key, procMu, seen>>

Begin(s) ==
  LET e == entry[s]
      t == Task("working", Append(task[e].history, s))
  IN /\ pc[s] = "queued"
     /\ procMu[e] = Nobody
     /\ task[e].state \notin Terminal
     /\ procMu' = [procMu EXCEPT ![e] = s]
     /\ task' = [task EXCEPT ![e] = t]
     /\ copy' = [copy EXCEPT ![s] = t]
     /\ accepted' = [accepted EXCEPT ![e] = Append(@, s)]
     /\ pc' = [pc EXCEPT ![s] = "handling"]
     /\ Refresh(e)
     /\ UNCHANGED <<entry, answer, key, seen>>

RefuseTerminal(s) ==
  /\ pc[s] = "queued"
  /\ procMu[entry[s]] = Nobody
  /\ task[entry[s]].state \in Terminal
  /\ Finish(s, "terminal", NewTask)
  /\ UNCHANGED <<entry, copy, store, key, task, procMu, accepted, seen>>

(* What the handler left in its copy; an error or no final state is        *)
(* made one.                                                               *)
Outcome(left, failed) ==
  IF failed THEN "failed"
  ELSE IF left \in Terminal \cup {"input-required"} THEN left ELSE "completed"

(* Phase 3: commit, snapshot, unlock.                                      *)
Commit(s) ==
  LET e == entry[s] IN
  /\ pc[s] = "handling"
  /\ \E left \in State, failed \in BOOLEAN :
       /\ task' = [task EXCEPT ![e] = Task(Outcome(left, failed), copy[s].history)]
       /\ Finish(s, "task", task'[e])
  /\ procMu' = [procMu EXCEPT ![e] = Nobody]
  /\ Refresh(e)
  /\ UNCHANGED <<entry, copy, key, accepted, seen>>

(* Slip: a panic leaves procMu locked. *)
HandlerPanicsLocked(s) ==
  /\ pc[s] = "handling"
  /\ Finish(s, "aborted", NewTask)
  /\ UNCHANGED <<entry, copy, store, key, task, procMu, accepted, seen>>

(* A panic unwinds to net/http: procMu is released, the task is left as    *)
(* phase 1 stored it.                                                      *)
HandlerPanics(s) ==
  /\ pc[s] = "handling"
  /\ Finish(s, "aborted", NewTask)
  /\ procMu' = [procMu EXCEPT ![entry[s]] = Nobody]
  /\ UNCHANGED <<entry, copy, store, key, task, accepted, seen>>

-----------------------------------------------------------------------------
(* tasks/get: look up under the store's lock, snapshot under the task's.   *)

LookUp(r, id) ==
  /\ pc[r] = "start"
  /\ IF Found(id) = {}
     THEN Finish(r, "not found", NewTask) /\ UNCHANGED <<entry, seen>>
     ELSE /\ \E e \in Found(id) :
               /\ entry' = [entry EXCEPT ![r] = e]
               /\ seen' = [seen EXCEPT ![r] = accepted[e]]
          /\ pc' = [pc EXCEPT ![r] = "snapshot"]
          /\ UNCHANGED answer
  /\ UNCHANGED <<copy, store, key, task, procMu, accepted>>

Snapshot(r) ==
  /\ pc[r] = "snapshot"
  /\ Finish(r, "task", task[entry[r]])
  /\ UNCHANGED <<entry, copy, store, key, task, procMu, accepted, seen>>

Arrive(s) ==
  \E id \in TaskId \cup {NoId} : Find(s, id) \/ Create(s, id) \/ StoreIsFull(s, id)

Proceed(s) == Begin(s) \/ RefuseTerminal(s) \/ Commit(s) \/ HandlerPanics(s)

TasksNext ==
  \/ \E s \in Sender : Arrive(s) \/ Proceed(s)
  \/ \E r \in Reader : Snapshot(r) \/ \E id \in TaskId : LookUp(r, id)

(* Handlers return; a mutex that is free again and again is obtained.      *)
TasksSpec ==
  /\ TasksInit /\ [][TasksNext]_taskVars
  /\ \A s \in Sender : SF_taskVars(Proceed(s))
  /\ \A r \in Reader : WF_taskVars(Snapshot(r))

-----------------------------------------------------------------------------
(* Properties.                                                             *)

TaskType == [state : State, history : Seq(Sender)]

TasksTypeOK ==
  /\ pc \in [Request -> {"start", "queued", "handling", "snapshot", "answered"}]
  /\ entry \in [Request -> Sender \cup {Nobody}]
  /\ copy \in [Sender -> TaskType]
  /\ answer \in [Request -> [kind : {"none", "task", "full", "terminal", "aborted",
                                     "not found"},
                             task : TaskType]]
  /\ store \in Seq(Sender) /\ Len(store) <= MaxTasks
  /\ key \in [Sender -> TaskId \cup {NoId}]
  /\ task \in [Sender -> TaskType]
  /\ procMu \in [Sender -> Sender \cup {Nobody}]
  /\ accepted \in [Sender -> Seq(Sender)]
  /\ seen \in [Reader -> Seq(Sender)]

(***************************************************************************)
(* Work is never dropped: whatever was evicted between the steps of a      *)
(* send, a task with a handler at work, or with more to do, is in the      *)
(* store under its id, and is the only one there. ("rather than dropping   *)
(* in-flight work", evictOneLocked.)                                       *)
(***************************************************************************)
WorkIsReachable ==
  \A e \in Sender :
    /\ entry[e] = e /\ task[e].state \notin Terminal => InStore(e)
    /\ InStore(e) /\ key[e] # NoId => Found(key[e]) = {e}

(***************************************************************************)
(* No message is lost, doubled or overwritten by a commit of a concurrent  *)
(* send: a task holds what it accepted, in order; the answer to a send     *)
(* ends with its own message, and a reader misses nothing that was there   *)
(* when it asked. A terminal task never changes again, in the store or out *)
(* of it.                                                                  *)
(***************************************************************************)
HistoryIsWhole ==
  /\ \A e \in Sender : task[e].history = accepted[e]
  /\ \A r \in Request : answer[r].kind = "task" =>
       LET h == answer[r].task.history IN
         /\ h = SubSeq(accepted[entry[r]], 1, Len(h))
         /\ r \in Sender => h[Len(h)] = r
         /\ r \in Reader => Len(h) >= Len(seen[r])

TerminalIsFinal ==
  \A e \in Sender : task[e].state \in Terminal => task'[e] = task[e]

HistoryIsKept == [][HistoryIsWhole' /\ TerminalIsFinal]_taskVars

(***************************************************************************)
(* Every send that entered a queue is answered, whoever panics.            *)
(***************************************************************************)
EverySendIsAnswered == []<>(\A s \in Sender : pc[s] \in {"start", "answered"})

=============================================================================
