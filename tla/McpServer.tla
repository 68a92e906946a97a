------------------------------ MODULE McpServer ------------------------------
(***************************************************************************)
(* The MCP server of pkg/mcp over streamable HTTP: a handlePost goroutine   *)
(* per POST, the Serve loop that receives their bodies, a dispatch         *)
(* goroutine per request, and Send, which finds the waiting handler by the *)
(* JSON-RPC id of the reply.                                               *)
(*                                                                         *)
(* A reply is named by the request it answers.                             *)
(***************************************************************************)
EXTENDS Naturals, FiniteSets

CONSTANTS
  Req,          \* the POSTs of a behaviour
  Kind,         \* their methods: "initialize", "initialized" or "call"
  Id,           \* JSON-RPC ids
  NoOne,        \* no request
  MaxDispatch   \* maxConcurrentDispatch

ASSUME ServerConstants ==
  /\ Kind \in [Req -> {"initialize", "initialized", "call"}]
  /\ NoOne \notin Req /\ IsFiniteSet(Req)
  /\ MaxDispatch \in Nat \ {0}

VARIABLES
  hp,           \* where the handler of each POST is
  id,           \* the id each POST carries
  header,       \* the Mcp-Session-Id it echoes, 0 for none
  ctxDone,      \* r.Context() is done
  resp,         \* the HTTP response
  reply,        \* the buffered reply channel
  pending,      \* id -> the request that waits for its reply
  session,      \* sessionID, 0 before initialize
  minted,       \* history: session ids minted so far
  strict,       \* Server.Strict
  closed,       \* the transport's done channel
  serve,        \* where the Serve loop is
  frame,        \* the request it holds
  initialized,  \* the handshake is complete
  cancelled,    \* Serve's ctx is done
  work,         \* where the answer to each request is
  dest          \* the waiter that Send has taken out of pending

handler == <<hp, id, header, ctxDone, resp>>
sessions == <<session, minted, strict>>
loop == <<serve, frame, initialized, cancelled>>
answers == <<work, dest>>
serverVars == <<handler, reply, pending, sessions, closed, loop, answers>>

NoResponse == [status |-> 0, body |-> NoOne, session |-> 0]
Response(code) == [NoResponse EXCEPT !.status = code]

ServerInit ==
  /\ hp = [r \in Req |-> "none"]
  /\ id \in [Req -> Id]
  /\ header = [r \in Req |-> 0]
  /\ ctxDone = [r \in Req |-> FALSE]
  /\ resp = [r \in Req |-> NoResponse]
  /\ reply = [r \in Req |-> NoOne]
  /\ pending = [i \in Id |-> NoOne]
  /\ session = 0 /\ minted = 0
  /\ strict \in BOOLEAN
  /\ closed = FALSE
  /\ serve = "recv" /\ frame = NoOne
  /\ initialized = FALSE /\ cancelled = FALSE
  /\ work = [r \in Req |-> "none"]
  /\ dest = [r \in Req |-> NoOne]

-----------------------------------------------------------------------------
(* handlePost.                                                             *)

Goto(r, at) == hp' = [hp EXCEPT ![r] = at]

Respond(r, code, at) ==
  /\ resp' = [resp EXCEPT ![r] = Response(code)]
  /\ Goto(r, at)
  /\ UNCHANGED <<id, header, ctxDone>>

Notification(r) == Kind[r] = "initialized"

CheckSession(r) ==
  /\ hp[r] = "session"
  /\ IF session # 0 /\ Kind[r] # "initialize" /\ header[r] # session
     THEN Respond(r, 404, "gone")
     ELSE Goto(r, "register") /\ UNCHANGED <<id, header, ctxDone, resp>>
  /\ UNCHANGED <<reply, pending, sessions, closed, loop, answers>>

(* The id's slot is taken, or the POST is refused.                         *)
Register(r) ==
  /\ hp[r] = "register"
  /\ IF ~Notification(r) /\ pending[id[r]] # NoOne
     THEN Respond(r, 409, "gone") /\ UNCHANGED pending
     ELSE /\ Goto(r, "handoff")
          /\ pending' = IF Notification(r) THEN pending
                        ELSE [pending EXCEPT ![id[r]] = r]
          /\ UNCHANGED <<id, header, ctxDone, resp>>
  /\ UNCHANGED <<reply, sessions, closed, loop, answers>>

(* Waiting for Recv or for the reply, the handler also watches done and    *)
(* its context. A notification registered nothing to clean up.             *)
Waiting(r) == hp[r] \in {"handoff", "await"}

GiveUp(r) ==
  /\ Waiting(r)
  /\ \/ closed /\ Respond(r, 503, IF Notification(r) THEN "gone" ELSE "cleanup")
     \/ ctxDone[r] /\ Respond(r, 408, IF Notification(r) THEN "gone" ELSE "cleanup")
  /\ UNCHANGED <<reply, pending, sessions, closed, loop, answers>>

(* The reply arrives. The answer to initialize carries the session id.     *)
GetReply(r) ==
  /\ hp[r] = "await"
  /\ reply[r] # NoOne
  /\ reply' = [reply EXCEPT ![r] = NoOne]
  /\ IF Kind[r] = "initialize" /\ session = 0
     THEN minted' = minted + 1 /\ session' = minted' /\ UNCHANGED strict
     ELSE UNCHANGED sessions
  /\ resp' = [resp EXCEPT ![r] =
                [status |-> 200, body |-> reply[r],
                 session |-> IF Kind[r] = "initialize" THEN session' ELSE 0]]
  /\ Goto(r, "cleanup")
  /\ UNCHANGED <<id, header, ctxDone, pending, closed, loop, answers>>

(* Slip: a request that gives up keeps its slot. *)
CleanupForgotten(r) ==
  /\ hp[r] = "cleanup"
  /\ Goto(r, "gone")
  /\ UNCHANGED <<id, header, ctxDone, resp, reply, pending, sessions, closed, loop,
                 answers>>

(* The deferred delete; the response is complete when the handler returns. *)
Cleanup(r) ==
  /\ hp[r] = "cleanup"
  /\ pending' = [pending EXCEPT ![id[r]] = NoOne]
  /\ Goto(r, "gone")
  /\ UNCHANGED <<id, header, ctxDone, resp, reply, sessions, closed, loop, answers>>

-----------------------------------------------------------------------------
(* Serve. Its ctx is looked at before each Recv.                           *)

Loop == IF cancelled THEN "draining" ELSE "recv"

(* Recv takes the body of a handler that is handing it off.                *)
Recv(r) ==
  /\ serve = "recv"
  /\ hp[r] = "handoff"
  /\ serve' = "route" /\ frame' = r
  /\ IF Notification(r)
     THEN Respond(r, 202, "gone")
     ELSE Goto(r, "await") /\ UNCHANGED <<id, header, ctxDone, resp>>
  /\ UNCHANGED <<initialized, cancelled, reply, pending, sessions, closed, answers>>

(* Recv reports EOF or the end of ctx; Serve waits for its dispatches.     *)
RecvEnds ==
  /\ serve = "recv"
  /\ closed \/ cancelled
  /\ serve' = "draining"
  /\ UNCHANGED <<frame, initialized, cancelled, handler, reply, pending, sessions,
                 closed, answers>>

(* Notifications are noted; a strict server refuses a request that comes   *)
(* before the handshake, in the loop itself.                               *)
Route ==
  /\ serve = "route"
  /\ \/ /\ Notification(frame)
        /\ initialized' = TRUE
        /\ serve' = Loop
        /\ UNCHANGED work
     \/ /\ ~Notification(frame)
        /\ IF strict /\ ~initialized /\ Kind[frame] # "initialize"
           THEN serve' = "replying" /\ work' = [work EXCEPT ![frame] = "send"]
           ELSE serve' = "slot" /\ UNCHANGED work
        /\ UNCHANGED initialized
  /\ UNCHANGED <<frame, cancelled, dest, handler, reply, pending, sessions, closed>>

Busy == {r \in Req : work[r] \in {"tool", "send", "deliver"}}

(* Acquire a dispatch slot: a full semaphore stops the loop.               *)
AcquireSlot ==
  /\ serve = "slot"
  /\ \/ /\ Cardinality(Busy) < MaxDispatch
        /\ work' = [work EXCEPT ![frame] = "tool"]
        /\ serve' = Loop
     \/ cancelled /\ serve' = "draining" /\ UNCHANGED work
  /\ UNCHANGED <<frame, initialized, cancelled, dest, handler, reply, pending,
                 sessions, closed>>

(* wg.Wait, then the deferred Close of the transport.                      *)
Stop ==
  /\ serve = "draining"
  /\ Busy = {}
  /\ serve' = "stopped"
  /\ closed' = TRUE
  /\ UNCHANGED <<frame, initialized, cancelled, handler, reply, pending, sessions,
                 answers>>

-----------------------------------------------------------------------------
(* Dispatch and Send. A tool's error or panic is a reply like another.     *)

ToolReturns(r) ==
  /\ work[r] = "tool"
  /\ work' = [work EXCEPT ![r] = "send"]
  /\ UNCHANGED <<dest, handler, reply, pending, sessions, closed, loop>>

(* Send is over; if the loop itself was sending, it goes on.               *)
Sent(r) ==
  /\ work' = [work EXCEPT ![r] = "ended"]
  /\ serve' = IF serve = "replying" /\ frame = r THEN Loop ELSE serve

(* Send takes the waiter out of pending; without one the reply is dropped. *)
Send(r) ==
  /\ work[r] = "send"
  /\ LET waiter == pending[id[r]] IN
       IF cancelled \/ closed \/ waiter = NoOne
       THEN Sent(r) /\ UNCHANGED <<pending, dest>>
       ELSE /\ pending' = [pending EXCEPT ![id[r]] = NoOne]
            /\ dest' = [dest EXCEPT ![r] = waiter]
            /\ work' = [work EXCEPT ![r] = "deliver"]
            /\ UNCHANGED serve
  /\ UNCHANGED <<frame, initialized, cancelled, handler, reply, sessions, closed>>

Deliver(r) ==
  /\ work[r] = "deliver"
  /\ \/ reply[dest[r]] = NoOne /\ reply' = [reply EXCEPT ![dest[r]] = r]
     \/ (ctxDone[dest[r]] \/ closed) /\ UNCHANGED reply
  /\ Sent(r)
  /\ UNCHANGED <<dest, frame, initialized, cancelled, handler, pending, sessions,
                 closed>>

-----------------------------------------------------------------------------
(* The environment: a client ends the session, the host cancels Serve or   *)
(* closes the transport.                                                   *)

DeleteSession ==
  /\ session # 0
  /\ session' = 0
  /\ UNCHANGED <<minted, strict, handler, reply, pending, closed, loop, answers>>

CancelServe ==
  /\ ~cancelled
  /\ cancelled' = TRUE
  /\ UNCHANGED <<serve, frame, initialized, handler, reply, pending, sessions, closed,
                 answers>>

CloseTransport ==
  /\ ~closed
  /\ closed' = TRUE
  /\ UNCHANGED <<handler, reply, pending, sessions, loop, answers>>

Handler(r) ==
  CheckSession(r) \/ Register(r) \/ GiveUp(r) \/ GetReply(r) \/ Cleanup(r)

Answer(r) == ToolReturns(r) \/ Send(r) \/ Deliver(r)

Serving == RecvEnds \/ Route \/ AcquireSlot \/ Stop \/ \E r \in Req : Recv(r)

Host == DeleteSession \/ CancelServe \/ CloseTransport

-----------------------------------------------------------------------------
(* Properties.                                                             *)

ServerTypeOK ==
  /\ hp \in [Req -> {"none", "session", "register", "handoff", "await", "cleanup",
                     "gone"}]
  /\ id \in [Req -> Id]
  /\ header \in [Req -> 0 .. Cardinality(Req)]
  /\ ctxDone \in [Req -> BOOLEAN]
  /\ resp \in [Req -> [status : {0, 200, 202, 404, 408, 409, 503},
                       body : Req \cup {NoOne}, session : 0 .. Cardinality(Req)]]
  /\ reply \in [Req -> Req \cup {NoOne}]
  /\ pending \in [Id -> Req \cup {NoOne}]
  /\ session \in 0 .. minted /\ minted \in 0 .. Cardinality(Req)
  /\ strict \in BOOLEAN /\ closed \in BOOLEAN /\ initialized \in BOOLEAN /\ cancelled \in BOOLEAN
  /\ serve \in {"recv", "route", "replying", "slot", "draining", "stopped"}
  /\ frame \in Req \cup {NoOne}
  /\ work \in [Req -> {"none", "tool", "send", "deliver", "ended"}]
  /\ dest \in [Req -> Req \cup {NoOne}]

(***************************************************************************)
(* Slots and handlers belong together, whichever of the reply, a           *)
(* cancellation and Close comes first: no slot outlives its handler, and a *)
(* request that waits for its reply, and that no Send has picked up, owns  *)
(* the slot of its id (of clients that number their requests; a POST that  *)
(* reuses an id may lose its slot to the first one's deferred delete).     *)
(***************************************************************************)
PickedUp(r) ==
  reply[r] # NoOne \/ \E q \in Req : work[q] \in {"deliver", "ended"} /\ dest[q] = r

SlotsBelongToHandlers ==
  /\ \A i \in Id : pending[i] # NoOne =>
       id[pending[i]] = i /\ hp[pending[i]] \in {"handoff", "await", "cleanup"}
  /\ \A r \in Req :
       Waiting(r) /\ ~Notification(r) /\ ~PickedUp(r) => pending[id[r]] = r

=============================================================================
