----------------------------- MODULE McpClient -----------------------------
(***************************************************************************)
(* The MCP client of pkg/mcp and its streamable HTTP transport, against    *)
(* McpServer: Initialize, ListTools and CallTool from any number of        *)
(* goroutines, the queue of reply bodies, the dispatch loop that gives     *)
(* each reply to the call with its id, timeouts and Close.                 *)
(*                                                                         *)
(* Each call is one POST, so a call is named by its request.               *)
(***************************************************************************)
EXTENDS McpServer, Sequences

CONSTANTS
  Buffer,       \* maxBufferedReplies
  Impatient,    \* the calls whose context may end
  MaxDisturbances   \* timeouts, cancellations and closes in one behaviour

ASSUME ClientConstants ==
  /\ Buffer \in Nat \ {0}
  /\ Impatient \subseteq Req
  /\ Id = 1 .. Cardinality(Req)
  /\ MaxDisturbances \in Nat
  /\ {"pending", "error"} \cap (Req \cup {NoOne}) = {}

VARIABLES
  cp,           \* where each call is
  result,       \* what it returned: a reply, "error", or nothing yet
  lastId,       \* clientID
  waiting,      \* the calls in the client's pending map
  ch,           \* the buffered channel of each call
  replies,      \* the bodies queued for Recv
  known,        \* the transport's sessionID
  open,         \* neither the client nor its transport is closed
  dispatching,  \* dispatchLoop runs
  disturbances  \* history: how often the environment has intervened

clientVars == <<cp, result, lastId, waiting, ch, replies, known, open, dispatching>>
vars == <<serverVars, clientVars, disturbances>>

Pending == "pending"
Error == "error"

Init ==
  /\ ServerInit
  /\ id = [r \in Req |-> 1]
  /\ cp = [r \in Req |-> "idle"]
  /\ result = [r \in Req |-> Pending]
  /\ lastId = 0
  /\ waiting = {}
  /\ ch = [r \in Req |-> NoOne]
  /\ replies = << >>
  /\ known = 0
  /\ open = TRUE
  /\ dispatching = TRUE
  /\ disturbances = 0

-----------------------------------------------------------------------------
(* call: the id and the slot first, then the transport's Send.             *)

(* A call returns; the deferred Delete gives up its slot.                  *)
Return(r, res) ==
  /\ cp' = [cp EXCEPT ![r] = "returned"]
  /\ result' = [result EXCEPT ![r] = res]
  /\ waiting' = waiting \ {r}

Moves(r, at) ==
  /\ cp' = [cp EXCEPT ![r] = at]
  /\ UNCHANGED <<result, waiting>>

(* Initialize sends its notification only after its call succeeded.        *)
MayCall(r) ==
  Notification(r) =>
    \E i \in Req : Kind[i] = "initialize" /\ result[i] = i

(* A closed transport refuses; a server that is gone refuses the           *)
(* connection. Otherwise the POST is under way.                            *)
Call(r) ==
  /\ cp[r] = "idle"
  /\ MayCall(r)
  /\ IF Notification(r) THEN UNCHANGED <<lastId, id>>
     ELSE lastId' = lastId + 1 /\ id' = [id EXCEPT ![r] = lastId']
  /\ IF ~open \/ closed
     THEN /\ Return(r, Error)
          /\ UNCHANGED <<hp, header, ctxDone, resp>>
     ELSE /\ cp' = [cp EXCEPT ![r] = "posting"]
          /\ waiting' = IF Notification(r) THEN waiting ELSE waiting \cup {r}
          /\ hp' = [hp EXCEPT ![r] = "session"]
          /\ header' = [header EXCEPT ![r] = known]
          /\ UNCHANGED <<result, ctxDone, resp>>
  /\ UNCHANGED <<ch, replies, known, open, dispatching,
                 reply, pending, sessions, closed, loop, answers>>

(* The response is complete: capture the session id, queue the body.       *)
HttpReturns(r) ==
  /\ cp[r] = "posting"
  /\ hp[r] = "gone"
  /\ known' = IF resp[r].session # 0 /\ known = 0 THEN resp[r].session ELSE known
  /\ CASE resp[r].status = 200 -> Moves(r, "queue")
       [] resp[r].status = 202 -> Return(r, r)
       [] OTHER                -> Return(r, Error)
  /\ UNCHANGED <<lastId, ch, replies, open, dispatching, serverVars>>

(* Slip: a full queue drops the body. *)
QueueOrDrop(r) ==
  /\ cp[r] = "queue"
  /\ replies' = IF Len(replies) < Buffer THEN Append(replies, resp[r].body) ELSE replies
  /\ Moves(r, "wait")
  /\ UNCHANGED <<lastId, ch, known, open, dispatching, serverVars>>

(* A full queue blocks the caller. *)
QueueReply(r) ==
  /\ cp[r] = "queue"
  /\ Len(replies) < Buffer
  /\ replies' = Append(replies, resp[r].body)
  /\ Moves(r, "wait")
  /\ UNCHANGED <<lastId, ch, known, open, dispatching, serverVars>>

TakeReply(r) ==
  /\ cp[r] = "wait"
  /\ ch[r] # NoOne
  /\ Return(r, ch[r])
  /\ UNCHANGED <<lastId, ch, replies, known, open, dispatching, serverVars>>

(* The context ends a call wherever it blocks; Close does not interrupt a  *)
(* POST that is under way.                                                 *)
CallEnds(r) ==
  /\ \/ ctxDone[r] /\ cp[r] \in {"posting", "queue", "wait"}
     \/ ~open /\ cp[r] \in {"queue", "wait"}
  /\ Return(r, Error)
  /\ UNCHANGED <<lastId, ch, replies, known, open, dispatching, serverVars>>

-----------------------------------------------------------------------------
(* dispatchLoop.                                                           *)

(* Slip: a reply is given to the oldest waiting call. *)
DispatchInOrder ==
  /\ dispatching
  /\ replies # << >>
  /\ replies' = Tail(replies)
  /\ IF waiting = {} THEN UNCHANGED <<ch, waiting>>
     ELSE LET r == CHOOSE w \in waiting : \A v \in waiting : id[w] <= id[v] IN
            /\ ch' = [ch EXCEPT ![r] = Head(replies)]
            /\ waiting' = waiting \ {r}
  /\ dispatching' = open
  /\ UNCHANGED <<cp, result, lastId, known, open, serverVars>>

(* A reply goes to the call with its id, once; without one it is dropped.  *)
(* After Close the loop handles what it was blocked on and stops.          *)
DispatchReply ==
  /\ dispatching
  /\ replies # << >>
  /\ replies' = Tail(replies)
  /\ LET takers == {r \in waiting : id[r] = id[Head(replies)]} IN
       /\ ch' = [r \in Req |-> IF r \in takers THEN Head(replies) ELSE ch[r]]
       /\ waiting' = waiting \ takers
  /\ dispatching' = open
  /\ UNCHANGED <<cp, result, lastId, known, open, serverVars>>

DispatchStops ==
  /\ dispatching
  /\ ~open
  /\ dispatching' = FALSE
  /\ UNCHANGED <<cp, result, lastId, waiting, ch, replies, known, open, serverVars>>

CloseClient ==
  /\ open
  /\ open' = FALSE
  /\ UNCHANGED <<cp, result, lastId, waiting, ch, replies, known, dispatching,
                 serverVars>>

(* A timeout or a cancellation ends the call's context; the server's       *)
(* handler sees its connection go.                                         *)
ContextEnds(r) ==
  /\ cp[r] \in {"posting", "queue", "wait"}
  /\ ~ctxDone[r]
  /\ ctxDone' = [ctxDone EXCEPT ![r] = TRUE]
  /\ UNCHANGED <<hp, id, header, resp, reply, pending, sessions, closed, loop, answers,
                 clientVars>>

Caller(r) == HttpReturns(r) \/ QueueReply(r) \/ TakeReply(r) \/ CallEnds(r)

Dispatching == DispatchReply \/ DispatchStops

ServerSteps ==
  /\ Serving \/ \E r \in Req : Handler(r) \/ Answer(r)
  /\ UNCHANGED clientVars

Environment ==
  /\ disturbances < MaxDisturbances
  /\ disturbances' = disturbances + 1
  /\ \/ \E r \in Impatient : ContextEnds(r)
     \/ CloseClient
     \/ Host /\ UNCHANGED clientVars

(* Every goroutine that can run is scheduled and tools return; nothing     *)
(* makes a context end, a peer close or a caller call. A call is made      *)
(* once, so no behaviour goes on for ever and fairness to the goroutines   *)
(* together is fairness to each of them.                                   *)
Goroutines ==
  /\ ServerSteps \/ Dispatching \/ \E r \in Req : Caller(r)
  /\ UNCHANGED disturbances

Calls == (\E r \in Req : Call(r)) /\ UNCHANGED disturbances

Next == Calls \/ Goroutines \/ Environment

Fairness == WF_vars(Goroutines)

Spec == Init /\ [][Next]_vars /\ Fairness

-----------------------------------------------------------------------------
(* Properties.                                                             *)

TypeOK ==
  /\ ServerTypeOK
  /\ cp \in [Req -> {"idle", "posting", "queue", "wait", "returned"}]
  /\ result \in [Req -> Req \cup {Pending, Error}]
  /\ lastId \in 0 .. Cardinality(Req)
  /\ waiting \subseteq Req
  /\ ch \in [Req -> Req \cup {NoOne}]
  /\ replies \in Seq(Req) /\ Len(replies) <= Buffer
  /\ known \in 0 .. minted
  /\ open \in BOOLEAN /\ dispatching \in BOOLEAN
  /\ disturbances \in 0 .. MaxDisturbances

(***************************************************************************)
(* Whatever the order in which tools finish, replies travel and calls give *)
(* up, a call returns the answer to its own request or an error, and an    *)
(* error has a cause outside the protocol.                                 *)
(***************************************************************************)
AnswersItsOwnCall ==
  \A r \in Req :
    /\ result[r] \in {Pending, Error, r}
    /\ result[r] = Error =>
         \/ ctxDone[r] \/ ~open \/ closed \/ cancelled
         \/ resp[r].status = 404 /\ header[r] # minted

(***************************************************************************)
(* A call that was sent returns even if no timeout ever fires: the slots,  *)
(* the semaphore, the queue and the two dispatch loops never leave one     *)
(* behind, whoever closes what in the middle. A cancelled or closed server *)
(* stops, and then none of its dispatches is at work (wg.Wait on every     *)
(* return path).                                                           *)
(***************************************************************************)
AtRest ==
  /\ \A r \in Req : cp[r] \in {"idle", "returned"}
  /\ cancelled \/ closed => serve = "stopped" /\ Busy = {}

EveryCallReturns == []<>AtRest

=============================================================================
