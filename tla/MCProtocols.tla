---------------------------- MODULE MCProtocols ----------------------------
(***************************************************************************)
(* The protocols a run is served over, for TLC. MCP (McpClient, McpServer  *)
(* and McpSse): over streamable HTTP, the handshake and a call that may    *)
(* overtake it or time out; over SSE, two peers with a request each, of    *)
(* the same id. A2A: three senders and a reader over a store of one task.  *)
(* part tells which of the three a behaviour is about.                     *)
(***************************************************************************)
EXTENDS McpClient, McpSse, A2AServer

CONSTANTS init, note, a, p, q, pAsk, qAsk

VARIABLE part

mcVars == <<part, vars, sseVars, taskVars>>

MCKind ==
  [r \in Req |-> IF r = init THEN "initialize"
                 ELSE IF r = note THEN "initialized" ELSE "call"]
MCBy == [r \in Ask |-> IF r = pAsk THEN p ELSE q]
MCNth == [r \in Ask |-> 1]

MCInit ==
  /\ part \in {"http", "sse", "tasks"}
  /\ Init /\ (part = "http" \/ ~strict)
  /\ SseInit /\ TasksInit

MCNext ==
  \/ part = "http" /\ Next /\ UNCHANGED <<part, sseVars, taskVars>>
  \/ part = "sse" /\ SseNext /\ UNCHANGED <<part, vars, taskVars>>
  \/ part = "tasks" /\ TasksNext /\ UNCHANGED <<part, vars, sseVars>>

(* See Goroutines: the same holds of the goroutines of the SSE transports. *)
Working ==
  \/ part = "http" /\ Goroutines /\ UNCHANGED <<part, sseVars, taskVars>>
  \/ part = "sse" /\ Streams /\ UNCHANGED <<part, vars, taskVars>>

(* The senders of A2A as in TasksSpec; they need nothing of the readers.   *)
MCSpec ==
  /\ MCInit /\ [][MCNext]_mcVars /\ WF_mcVars(Working)
  /\ \A s \in Sender : SF_mcVars(part = "tasks" /\ Proceed(s) /\ UNCHANGED <<part, vars, sseVars>>)

-----------------------------------------------------------------------------
(* Over streamable HTTP a reply reaches the call it answers, see           *)
(* AnswersItsOwnCall. Over SSE it may also reach a call of the same id in  *)
(* a session that replaced the caller's, and no other: see                 *)
(* SseStraysAreExplained.                                                  *)
RepliesAreAccountedFor == AnswersItsOwnCall /\ SseStraysAreExplained

(* Slots and streams live exactly as long as the handlers that own them:   *)
(* see SlotsBelongToHandlers and StreamsOutliveTheirWriters.               *)
HandlersOwnWhatTheyUse == SlotsBelongToHandlers /\ StreamsOutliveTheirWriters

(* Nobody waits for ever: see EveryCallReturns and SseCallsReturn.         *)
CallsReturn == []<>(AtRest /\ NobodyAsks)

=============================================================================
