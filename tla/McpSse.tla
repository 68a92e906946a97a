------------------------------- MODULE McpSse -------------------------------
(***************************************************************************)
(* The HTTP+SSE transports of pkg/mcp, server and client: a stream per     *)
(* client, of which only the newest is the active session, POSTs that are  *)
(* let in under the active session's id, and replies that Send writes on   *)
(* whatever stream is active by then. Each peer is a Client (McpClient)    *)
(* over an SSE client transport, which opens one stream and never a        *)
(* second; a notification is a POST without the reply.                     *)
(*                                                                         *)
(* A reply is named by the request it answers.                             *)
(***************************************************************************)
EXTENDS Naturals, Sequences, FiniteSets

CONSTANTS
  Peer,         \* the clients
  Ask,          \* their requests
  By, Nth,      \* whose each is, and its id: 1, 2, ... of that peer
  NoStream,     \* no session is active; no reply
  Incoming,     \* the server's queue of bodies
  Inbox,        \* maxBufferedReplies
  Hasty,        \* the requests whose context may end
  MaxSseEvents  \* timeouts and closes in one behaviour

ASSUME SseConstants ==
  /\ By \in [Ask -> Peer] /\ Nth \in [Ask -> Nat \ {0}]
  /\ \A r, s \in Ask : By[r] = By[s] /\ Nth[r] = Nth[s] => r = s
  /\ NoStream \notin Peer
  /\ {"nothing", "error", "endpoint"} \cap Ask = {}
  /\ Incoming \in Nat \ {0} /\ Inbox \in Nat \ {0}
  /\ Hasty \subseteq Ask /\ MaxSseEvents \in Nat

VARIABLES
  active,       \* the server's session
  opened,       \* history: the sessions, in the order they were made
  stream,       \* where the handler of each peer's stream is
  cut,          \* the sessions that are closed
  incoming,     \* bodies on their way to Recv
  down,         \* the server transport's done
  sseTask,      \* where the answer to each request is
  target,       \* the stream that Send picked for it
  wire,         \* the events on their way to each peer
  reader,       \* where readStream of each peer is
  endpoint,     \* what each peer knows of the address for its POSTs
  inbox,        \* the messages queued for the peer's Recv
  gone,         \* the peers whose transport is closed
  shut,         \* the peers whose client is closed
  asked,        \* where each call is
  given,        \* what is in its channel
  returned,     \* what it returned
  late,         \* history: the requests whose context ended
  events        \* history: what the environment did

sseServer == <<active, opened, stream, cut, down>>
sseAnswers == <<incoming, sseTask, target, wire>>
sseClient == <<reader, endpoint, inbox, gone, shut>>
sseCalls == <<asked, given, returned, late>>
sseVars == <<sseServer, sseAnswers, sseClient, sseCalls, events>>

Nil == "nothing"
Err == "error"
Announced == "endpoint"

SseInit ==
  /\ active = NoStream /\ opened = << >> /\ cut = {} /\ down = FALSE
  /\ stream = [p \in Peer |-> "none"]
  /\ incoming = << >>
  /\ sseTask = [r \in Ask |-> "none"]
  /\ target = [r \in Ask |-> NoStream]
  /\ wire = [p \in Peer |-> << >>]
  /\ reader = [p \in Peer |-> "dialing"]
  /\ endpoint = [p \in Peer |-> "unknown"]
  /\ inbox = [p \in Peer |-> << >>]
  /\ gone = {} /\ shut = {}
  /\ asked = [r \in Ask |-> "idle"]
  /\ given = [r \in Ask |-> Nil]
  /\ returned = [r \in Ask |-> Nil]
  /\ late = {} /\ events = 0

-----------------------------------------------------------------------------
(* handleSSE. The write of the endpoint and those of Send hold the         *)
(* session's lock; the headers are written without it.                     *)

(* The new stream is the active session; the one before is closed.         *)
OpenStream(p) ==
  /\ reader[p] = "dialing" /\ ~down
  /\ reader' = [reader EXCEPT ![p] = "reading"]
  /\ stream' = [stream EXCEPT ![p] = "opening"]
  /\ active' = p /\ opened' = Append(opened, p)
  /\ cut' = cut \cup ({active} \ {NoStream})
  /\ UNCHANGED <<down, sseAnswers, endpoint, inbox, gone, shut, sseCalls>>

SetHeaders(p) ==
  /\ stream[p] = "opening"
  /\ stream' = [stream EXCEPT ![p] = "announcing"]
  /\ UNCHANGED <<active, opened, cut, down, sseAnswers, sseClient, sseCalls>>

Locked(p) == \E r \in Ask : sseTask[r] = "writing" /\ target[r] = p

Announce(p) ==
  /\ stream[p] = "announcing" /\ ~Locked(p)
  /\ stream' = [stream EXCEPT ![p] = "open"]
  /\ wire' = [wire EXCEPT ![p] = Append(@, Announced)]
  /\ UNCHANGED <<active, opened, cut, down, incoming, sseTask, target, sseClient, sseCalls>>

(* The peer went away, another session took over or the server closes.     *)
LeaveStream(p) ==
  /\ stream[p] = "open"
  /\ p \in gone \cup cut \/ down
  /\ stream' = [stream EXCEPT ![p] = "leaving"]
  /\ active' = IF active = p THEN NoStream ELSE active
  /\ cut' = cut \cup {p}
  /\ UNCHANGED <<opened, down, sseAnswers, sseClient, sseCalls>>

(* The handler waits for a Send that is writing before it returns.         *)
EndStream(p) ==
  /\ stream[p] = "leaving" /\ ~Locked(p)
  /\ stream' = [stream EXCEPT ![p] = "ended"]
  /\ UNCHANGED <<active, opened, cut, down, sseAnswers, sseClient, sseCalls>>

-----------------------------------------------------------------------------
(* A call of a peer: its slot, the wait for the endpoint, the POST, the    *)
(* wait for the reply.                                                     *)

Goes(r, at) == asked' = [asked EXCEPT ![r] = at] /\ UNCHANGED returned

Gets(r, x) ==
  /\ asked' = [asked EXCEPT ![r] = "returned"]
  /\ returned' = [returned EXCEPT ![r] = x]

StartAsk(r) ==
  /\ asked[r] = "idle"
  /\ \A q \in Ask : By[q] = By[r] /\ Nth[q] < Nth[r] => asked[q] # "idle"
  /\ IF By[r] \in gone THEN Gets(r, Err) ELSE Goes(r, "await")
  /\ UNCHANGED <<sseServer, sseAnswers, sseClient, given, late>>

AwaitEndpoint(r) ==
  /\ asked[r] = "await"
  /\ \/ endpoint[By[r]] = "known" /\ Goes(r, "posting")
     \/ endpoint[By[r]] = "failed" /\ Gets(r, Err)
     \/ By[r] \in gone /\ Gets(r, Err)
  /\ UNCHANGED <<sseServer, sseAnswers, sseClient, given, late>>

(* handlePost lets in what echoes the active session's id.                 *)
PostAsk(r) ==
  /\ asked[r] = "posting"
  /\ IF down \/ active # By[r] THEN Gets(r, Err) ELSE Goes(r, "offering")
  /\ UNCHANGED <<sseServer, sseAnswers, sseClient, given, late>>

(* It holds the POST back while the queue is full.                         *)
AcceptAsk(r) ==
  /\ asked[r] = "offering"
  /\ \/ /\ Len(incoming) < Incoming
        /\ incoming' = Append(incoming, r)
        /\ Goes(r, "waiting")
     \/ down /\ Gets(r, Err) /\ UNCHANGED incoming
  /\ UNCHANGED <<sseServer, sseTask, target, wire, sseClient, given, late>>

TakeAnswer(r) ==
  /\ asked[r] = "waiting"
  /\ \/ given[r] # Nil /\ Gets(r, given[r])
     \/ By[r] \in shut /\ Gets(r, Err)
  /\ UNCHANGED <<sseServer, sseAnswers, sseClient, given, late>>

(* The context of a call ends; its POST may be taken all the same.         *)
AskTimesOut(r) ==
  /\ asked[r] \in {"await", "posting", "offering", "waiting"}
  /\ late' = late \cup {r}
  /\ Gets(r, Err)
  /\ \/ UNCHANGED incoming
     \/ /\ asked[r] = "offering" /\ Len(incoming) < Incoming
        /\ incoming' = Append(incoming, r)
  /\ UNCHANGED <<sseServer, sseTask, target, wire, sseClient, given>>

-----------------------------------------------------------------------------
(* Serve over Recv and Send.                                               *)

(* Recv hands out what is queued, after Close too.                         *)
ReceiveAsk ==
  /\ incoming # << >>
  /\ sseTask' = [sseTask EXCEPT ![Head(incoming)] = "answering"]
  /\ incoming' = Tail(incoming)
  /\ UNCHANGED <<sseServer, target, wire, sseClient, sseCalls>>

(* Send takes the session that is active when the answer is ready.         *)
PickStream(r) ==
  /\ sseTask[r] = "answering"
  /\ IF down \/ active = NoStream
     THEN sseTask' = [sseTask EXCEPT ![r] = "lost"] /\ UNCHANGED target
     ELSE sseTask' = [sseTask EXCEPT ![r] = "picked"] /\ target' = [target EXCEPT ![r] = active]
  /\ UNCHANGED <<sseServer, incoming, wire, sseClient, sseCalls>>

LockStream(r) ==
  /\ sseTask[r] = "picked" /\ ~Locked(target[r])
  /\ sseTask' = [sseTask EXCEPT ![r] = IF target[r] \in cut THEN "lost" ELSE "writing"]
  /\ UNCHANGED <<sseServer, incoming, target, wire, sseClient, sseCalls>>

(* What is written to a peer that is gone gets lost.                       *)
WriteAnswer(r) ==
  /\ sseTask[r] = "writing"
  /\ sseTask' = [sseTask EXCEPT ![r] = "sent"]
  /\ wire' = IF target[r] \in gone THEN wire
             ELSE [wire EXCEPT ![target[r]] = Append(@, r)]
  /\ UNCHANGED <<sseServer, incoming, target, sseClient, sseCalls>>

(***************************************************************************)
(* A Send to the session that was just swapped in may write while its      *)
(* handler sets the headers: a data race, of which a map written and read  *)
(* at once ends the process, and with it everything the server was doing.  *)
(***************************************************************************)
HeadersRace(r) ==
  /\ sseTask[r] = "writing" /\ stream[target[r]] = "opening"
  /\ down' = TRUE /\ active' = NoStream /\ incoming' = << >>
  /\ stream' = [p \in Peer |-> IF stream[p] = "none" THEN "none" ELSE "ended"]
  /\ cut' = {p \in Peer : stream[p] # "none"}
  /\ sseTask' = [q \in Ask |-> IF sseTask[q] \in {"answering", "picked", "writing"} THEN "lost" ELSE sseTask[q]]
  /\ UNCHANGED <<opened, target, wire, sseClient, sseCalls>>

CloseServer ==
  /\ ~down /\ down' = TRUE
  /\ active' = NoStream
  /\ cut' = cut \cup ({active} \ {NoStream})
  /\ UNCHANGED <<opened, stream, sseAnswers, sseClient, sseCalls>>

-----------------------------------------------------------------------------
(* readStream and dispatchLoop of a peer.                                  *)

Fails(p) == IF endpoint[p] = "unknown" THEN [endpoint EXCEPT ![p] = "failed"] ELSE endpoint

DialFails(p) ==
  /\ reader[p] = "dialing" /\ (down \/ p \in gone)
  /\ reader' = [reader EXCEPT ![p] = "over"]
  /\ endpoint' = Fails(p)
  /\ UNCHANGED <<sseServer, sseAnswers, inbox, gone, shut, sseCalls>>

(* An event: the endpoint, or a message to queue.                          *)
ReadEvent(p) ==
  /\ reader[p] = "reading" /\ wire[p] # << >>
  /\ wire' = [wire EXCEPT ![p] = Tail(@)]
  /\ IF Head(wire[p]) = Announced
     THEN endpoint' = [endpoint EXCEPT ![p] = "known"] /\ UNCHANGED inbox
     ELSE /\ UNCHANGED endpoint
          /\ \/ p \in gone /\ UNCHANGED inbox
             \/ Len(inbox[p]) < Inbox /\ inbox' = [inbox EXCEPT ![p] = Append(@, Head(wire[p]))]
  /\ UNCHANGED <<sseServer, incoming, sseTask, target, reader, gone, shut, sseCalls>>

(* The stream is over, broken or given up: the transport closes itself.    *)
ReadEnds(p) ==
  /\ reader[p] = "reading"
  /\ (wire[p] = << >> /\ stream[p] = "ended") \/ down \/ p \in gone
  /\ reader' = [reader EXCEPT ![p] = "over"]
  /\ endpoint' = Fails(p)
  /\ gone' = gone \cup {p}
  /\ UNCHANGED <<sseServer, sseAnswers, inbox, shut, sseCalls>>

(* A message goes to the call of its id, once, wherever that call is.      *)
DispatchMessage(p) ==
  /\ p \notin shut /\ inbox[p] # << >>
  /\ inbox' = [inbox EXCEPT ![p] = Tail(@)]
  /\ LET m == Head(inbox[p])
         Takes(r) == /\ By[r] = p /\ Nth[r] = Nth[m] /\ given[r] = Nil
                     /\ asked[r] \notin {"idle", "returned"}
     IN given' = [r \in Ask |-> IF Takes(r) THEN m ELSE given[r]]
  /\ UNCHANGED <<sseServer, sseAnswers, reader, endpoint, gone, shut, asked, returned, late>>

(* Once the queue is drained, Recv reports the end and the client closes.  *)
DispatchEnds(p) ==
  /\ p \in gone \ shut /\ inbox[p] = << >>
  /\ shut' = shut \cup {p}
  /\ UNCHANGED <<sseServer, sseAnswers, reader, endpoint, inbox, gone, sseCalls>>

ClosePeer(p) ==
  /\ p \notin shut
  /\ gone' = gone \cup {p} /\ shut' = shut \cup {p}
  /\ UNCHANGED <<sseServer, sseAnswers, reader, endpoint, inbox, sseCalls>>

-----------------------------------------------------------------------------
StreamServer ==
  \/ \E p \in Peer : SetHeaders(p) \/ Announce(p) \/ LeaveStream(p) \/ EndStream(p)
  \/ ReceiveAsk
  \/ \E r \in Ask : PickStream(r) \/ LockStream(r) \/ WriteAnswer(r) \/ HeadersRace(r)

StreamClient ==
  \/ \E p \in Peer : OpenStream(p) \/ DialFails(p) \/ ReadEvent(p) \/ ReadEnds(p) \/ DispatchMessage(p) \/ DispatchEnds(p)
  \/ \E r \in Ask : AwaitEndpoint(r) \/ PostAsk(r) \/ AcceptAsk(r) \/ TakeAnswer(r)

Streams == (StreamServer \/ StreamClient) /\ UNCHANGED events

Disturbs ==
  /\ events < MaxSseEvents /\ events' = events + 1
  /\ CloseServer \/ (\E p \in Peer : ClosePeer(p)) \/ \E r \in Hasty : AskTimesOut(r)

SseNext ==
  \/ Streams
  \/ (\E r \in Ask : StartAsk(r)) /\ UNCHANGED events
  \/ Disturbs

-----------------------------------------------------------------------------
(* Properties.                                                             *)

(***************************************************************************)
(* Where a peer's answer comes from: it is the reply to its own request,   *)
(* or, since ids are unique for a peer only and Send writes on whatever    *)
(* stream is active, a reply to the request with the same id of a peer     *)
(* whose session it replaced; never one of a session that came after it or *)
(* of another id. An error has a cause. For the strays see                 *)
(* ResponsesStayInTheirSession, which does not hold.                       *)
(***************************************************************************)
Replaced(q, p) ==
  \E i, j \in DOMAIN opened : i < j /\ opened[i] = q /\ opened[j] = p

SseStraysAreExplained ==
  \A r \in Ask :
    /\ returned[r] \notin {Nil, Err, r} =>
         Nth[returned[r]] = Nth[r] /\ Replaced(By[returned[r]], By[r])
    /\ returned[r] = Err => down \/ By[r] \in gone \cup cut \/ r \in late

(* "pushes the response down the SSE stream tagged with the same session   *)
(* id" (NewSSETransport): what a call returns was asked in its session.    *)
ResponsesStayInTheirSession ==
  \A r \in Ask : returned[r] \in Ask => By[returned[r]] = By[r]

(***************************************************************************)
(* net/http takes the ResponseWriter back when a handler returns: no Send  *)
(* is writing on a stream whose handler has, and none starts to.           *)
(***************************************************************************)
StreamsOutliveTheirWriters ==
  /\ \A p \in Peer : stream[p] = "ended" => ~Locked(p) /\ p \in cut
  /\ active # NoStream => active \notin cut /\ stream[active] \in {"opening", "announcing", "open"}

(***************************************************************************)
(* A call returns without any timeout: a peer whose session was replaced,  *)
(* whose reply was lost or whose stream broke sees the end of its stream,  *)
(* and its client wakes whoever waits.                                     *)
(***************************************************************************)
NobodyAsks == \A r \in Ask : asked[r] \in {"idle", "returned"}

SseCallsReturn == []<>NobodyAsks

=============================================================================
