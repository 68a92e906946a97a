--------------------------- MODULE ProtocolProofs ---------------------------
(***************************************************************************)
(* Proofs about the two protocols a run is served over. MCP, for any       *)
(* number of calls, peers and disturbances: over streamable HTTP a reply   *)
(* reaches the call it answers, over SSE it is known which others it may   *)
(* reach, and handlers own the slots and streams they use. A2A, for any    *)
(* number of requests, ids and tasks: no work is evicted, and no message   *)
(* of a task is lost, doubled or overwritten.                              *)
(***************************************************************************)
EXTENDS MCProtocols, SequenceTheorems, FiniteSetTheorems, WellFoundedInduction, TLAPS

(***************************************************************************)
(* The HTTP+SSE transports. Of the streams that were opened the last is    *)
(* the active one, or none is, and every other one is cut. So an answer    *)
(* that is under way to a peer is for that peer, or for one whose session  *)
(* it replaced.                                                            *)
(***************************************************************************)
Opened(x) == \E i \in DOMAIN opened : opened[i] = x

Reaches(m, x) == By[m] = x \/ Replaced(By[m], x)

SseTyped ==
  /\ active \in Peer \cup {NoStream} /\ opened \in Seq(Peer) /\ cut \in SUBSET Peer
  /\ stream \in [Peer -> {"none", "opening", "announcing", "open", "leaving", "ended"}]
  /\ incoming \in Seq(Ask)
  /\ sseTask \in [Ask -> {"none", "answering", "picked", "writing", "sent", "lost"}]
  /\ target \in [Ask -> Peer \cup {NoStream}]
  /\ wire \in [Peer -> Seq(Ask \cup {Announced})] /\ inbox \in [Peer -> Seq(Ask)]
  /\ reader \in [Peer -> {"dialing", "reading", "over"}]
  /\ endpoint \in [Peer -> {"unknown", "known", "failed"}]
  /\ gone \in SUBSET Peer /\ shut \in SUBSET Peer
  /\ asked \in [Ask -> {"idle", "await", "posting", "offering", "waiting", "returned"}]
  /\ given \in [Ask -> Ask \cup {Nil}] /\ returned \in [Ask -> Ask \cup {Nil, Err}]

StreamsLive ==
  /\ \A x \in Peer : reader[x] = "dialing" => stream[x] = "none"
  /\ \A x \in Peer : stream[x] = "none" <=> ~Opened(x)
  /\ \A x \in Peer : stream[x] # "none" => x = active \/ x \in cut
  /\ \A x \in cut : stream[x] # "none"
  /\ active # NoStream =>
       /\ active \notin cut /\ stream[active] \in {"opening", "announcing", "open"}
       /\ opened # << >> /\ opened[Len(opened)] = active
  /\ \A x \in Peer : stream[x] \in {"leaving", "ended"} => x \in cut
  /\ \A x \in Peer : stream[x] = "ended" => ~Locked(x)

Routed ==
  /\ \A r \in Ask : asked[r] = "offering" \/ sseTask[r] # "none" => Opened(By[r])
  /\ \A i \in DOMAIN incoming : Opened(By[incoming[i]])
  /\ \A r \in Ask : sseTask[r] \in {"picked", "writing"} =>
       target[r] \in Peer /\ Opened(target[r]) /\ Reaches(r, target[r])
  /\ \A x \in Peer : \A i \in DOMAIN wire[x] :
       wire[x][i] # Announced => Reaches(wire[x][i], x)
  /\ \A x \in Peer : \A i \in DOMAIN inbox[x] : Reaches(inbox[x][i], x)
  /\ \A r \in Ask : given[r] # Nil => Nth[given[r]] = Nth[r] /\ Reaches(given[r], By[r])
  /\ \A r \in Ask : returned[r] \notin {Nil, Err} =>
       Nth[returned[r]] = Nth[r] /\ Reaches(returned[r], By[r])

Causes ==
  /\ \A x \in Peer : endpoint[x] = "failed" => down \/ x \in gone
  /\ \A x \in Peer : endpoint[x] = "known" \/ wire[x] # << >> => Opened(x)
  /\ \A r \in Ask : asked[r] = "posting" => Opened(By[r])
  /\ shut \subseteq gone
  /\ \A r \in Ask : returned[r] = Err => down \/ By[r] \in gone \cup cut \/ r \in late

SseInv == SseTyped /\ StreamsLive /\ Routed /\ Causes

LEMMA SseInitInv == SseInit => SseInv
<1> SUFFICES ASSUME SseInit PROVE SseInv
  OBVIOUS
<1>1. SseTyped
  BY SseConstants DEF SseInit, SseTyped
<1>2. StreamsLive /\ Routed /\ Causes
  BY SseConstants DEF SseInit, StreamsLive, Routed, Causes, Opened, Locked, Nil, Err
<1>3. QED
  BY <1>1, <1>2 DEF SseInv

(* Sessions are only ever added: whom an answer may reach stays so.        *)
LEMMA SessionsStay ==
  ASSUME SseTyped, opened' = opened \/ \E y \in Peer : opened' = Append(opened, y)
  PROVE  /\ \A x : Opened(x) => Opened(x)'
         /\ \A m, x : Reaches(m, x) => Reaches(m, x)'
         /\ opened' = opened => \A x : Opened(x)' => Opened(x)
<1>1. opened \in Seq(Peer) /\ Len(opened) \in Nat /\ DOMAIN opened = 1 .. Len(opened)
  BY LenProperties DEF SseTyped
<1>2. \A i \in DOMAIN opened : i \in DOMAIN opened' /\ opened'[i] = opened[i]
  BY <1>1, AppendProperties
<1>3. QED
  BY <1>2 DEF Opened, Reaches, Replaced

LEMMA AppendElements ==
  ASSUME NEW S, NEW t \in Seq(S), NEW e \in S
  PROVE  /\ Append(t, e) \in Seq(S)
         /\ \A i \in DOMAIN Append(t, e) :
              Append(t, e)[i] = e \/ (i \in DOMAIN t /\ Append(t, e)[i] = t[i])
  BY AppendProperties, LenProperties

(* A step of a call: it goes on, or returns an answer or an error.         *)
LEMMA AskStep ==
  ASSUME SseInv, NEW r \in Ask, UNCHANGED <<sseServer, sseTask, target, wire, sseClient, given>>,
         incoming' = incoming \/ (incoming' = Append(incoming, r) /\ asked[r] = "offering"),
         late \subseteq late',
         NEW at \in {"await", "posting", "offering", "waiting", "returned"},
         asked' = [asked EXCEPT ![r] = at],
         at \in {"posting", "offering"} => Opened(By[r]),
         \/ returned' = returned
         \/ returned' = [returned EXCEPT ![r] = given[r]] /\ given[r] # Nil
         \/ /\ returned' = [returned EXCEPT ![r] = Err]
            /\ down \/ By[r] \in gone \cup cut \/ r \in late'
  PROVE  SseInv'
<1> USE DEF sseServer, sseClient
<1>1. incoming \in Seq(Ask) /\ incoming' \in Seq(Ask)
      /\ \A i \in DOMAIN incoming' :
           \/ incoming'[i] = incoming[i] /\ i \in DOMAIN incoming
           \/ incoming'[i] = r /\ asked[r] = "offering"
  <2>1. incoming \in Seq(Ask)
    BY DEF SseInv, SseTyped
  <2>2. QED
    BY <2>1, AppendElements
<1>2. SseTyped'
  BY <1>1 DEF SseInv, SseTyped
<1>3. /\ \A x : Opened(x)' <=> Opened(x)
      /\ \A m, x : Reaches(m, x) => Reaches(m, x)'
  BY SessionsStay DEF SseInv
<1>4. StreamsLive'
  <2>1. \A x : Locked(x)' <=> Locked(x)
    BY DEF Locked
  <2>2. QED
    BY <1>3, <2>1 DEF SseInv, StreamsLive
<1>5. /\ asked'[r] = at /\ \A s \in Ask : s # r => asked'[s] = asked[s] /\ returned'[s] = returned[s]
      /\ returned'[r] = returned[r] \/ (returned'[r] = given[r] /\ given[r] # Nil)
           \/ (returned'[r] = Err /\ (down \/ By[r] \in gone \cup cut \/ r \in late'))
  BY DEF SseInv, SseTyped
<1>6. Routed'
  <2>1. \A s \in Ask : asked'[s] = "offering" \/ sseTask[s] # "none" => Opened(By[s])
    BY <1>5 DEF SseInv, Routed
  <2>2. \A i \in DOMAIN incoming' : Opened(By[incoming'[i]])
    BY <1>1 DEF SseInv, Routed
  <2>3. \A s \in Ask : returned'[s] \notin {Nil, Err} =>
          Nth[returned'[s]] = Nth[s] /\ Reaches(returned'[s], By[s])
    BY <1>5 DEF SseInv, Routed
  <2>4. QED
    BY <1>3, <2>1, <2>2, <2>3 DEF SseInv, Routed
<1>7. Causes'
  <2>1. given[r] # Nil => given[r] # Err
    BY SseConstants DEF SseInv, SseTyped, Err
  <2>2. QED
    BY <1>3, <1>5, <2>1 DEF SseInv, Causes
<1>8. QED
  BY <1>2, <1>4, <1>6, <1>7 DEF SseInv

LEMMA CallInv ==
  ASSUME SseInv, NEW r \in Ask,
         \/ StartAsk(r) \/ AwaitEndpoint(r) \/ PostAsk(r) \/ AcceptAsk(r)
         \/ TakeAnswer(r) \/ AskTimesOut(r)
  PROVE  SseInv'
<1> USE DEF Goes, Gets, sseAnswers, sseCalls
<1>0. By[r] \in Peer
  BY SseConstants
<1>1. CASE StartAsk(r)
  BY <1>1, AskStep DEF StartAsk
<1>2. CASE AwaitEndpoint(r)
  BY <1>0, <1>2, AskStep DEF AwaitEndpoint, SseInv, Causes
<1>3. CASE PostAsk(r)
  <2>1. down \/ By[r] \in cut \/ active = By[r]
    BY <1>0, <1>3 DEF PostAsk, SseInv, Causes, StreamsLive
  <2>2. Opened(By[r])
    BY <1>3 DEF PostAsk, SseInv, Causes
  <2>3. QED
    BY <1>3, <2>1, <2>2, AskStep DEF PostAsk
<1>4. CASE AcceptAsk(r)
  BY <1>4, AskStep DEF AcceptAsk
<1>5. CASE TakeAnswer(r)
  BY <1>5, AskStep DEF TakeAnswer, SseInv, Causes
<1>6. CASE AskTimesOut(r)
  BY <1>6, AskStep DEF AskTimesOut
<1>7. QED
  BY <1>1, <1>2, <1>3, <1>4, <1>5, <1>6

LEMMA SetHeadersInv == ASSUME SseInv, NEW x \in Peer, SetHeaders(x) PROVE SseInv'
<1> USE DEF SetHeaders, Fails, sseServer, sseAnswers, sseClient, sseCalls
<1>1. SseTyped'
  BY DEF SseInv, SseTyped
<1>2. StreamsLive'
  BY DEF SseInv, SseTyped, StreamsLive, Locked, Opened
<1>3. Routed'
  <2>1. /\ \A y : Opened(y)' <=> Opened(y)
        /\ \A m, y : Reaches(m, y) => Reaches(m, y)'
    BY SessionsStay DEF SseInv
  <2>2. QED
    BY <2>1 DEF SseInv, Routed
<1>4. Causes'
  BY DEF SseInv, SseTyped, StreamsLive, Causes, Opened
<1>5. QED
  BY <1>1, <1>2, <1>3, <1>4 DEF SseInv

LEMMA AnnounceInv == ASSUME SseInv, NEW x \in Peer, Announce(x) PROVE SseInv'
<1> USE DEF Announce, Fails, sseServer, sseAnswers, sseClient, sseCalls
<1>1. SseTyped'
  BY DEF SseInv, SseTyped
<1>2. StreamsLive'
  BY DEF SseInv, SseTyped, StreamsLive, Locked, Opened
<1>3. Routed'
  <2>1. /\ \A y : Opened(y)' <=> Opened(y)
        /\ \A m, y : Reaches(m, y) => Reaches(m, y)'
    BY SessionsStay DEF SseInv
  <2>2. \A y \in Peer : \A i \in DOMAIN wire'[y] :
          wire'[y][i] = Announced \/ (i \in DOMAIN wire[y] /\ wire'[y][i] = wire[y][i])
    <3>1. wire \in [Peer -> Seq(Ask \cup {Announced})] /\ wire[x] \in Seq(Ask \cup {Announced})
      BY DEF SseInv, SseTyped
    <3>2. wire' = [wire EXCEPT ![x] = Append(wire[x], Announced)]
      OBVIOUS
    <3>3. \A i \in DOMAIN Append(wire[x], Announced) :
            \/ Append(wire[x], Announced)[i] = Announced
            \/ i \in DOMAIN wire[x] /\ Append(wire[x], Announced)[i] = wire[x][i]
      BY <3>1, AppendElements
    <3>4. QED
      BY ONLY <3>1, <3>2, <3>3
  <2>3. QED
    BY <2>1, <2>2 DEF SseInv, Routed
<1>4. Causes'
  BY DEF SseInv, SseTyped, StreamsLive, Causes, Opened
<1>5. QED
  BY <1>1, <1>2, <1>3, <1>4 DEF SseInv

LEMMA LeaveStreamInv == ASSUME SseInv, NEW x \in Peer, LeaveStream(x) PROVE SseInv'
<1> USE DEF LeaveStream, Fails, sseServer, sseAnswers, sseClient, sseCalls
<1>1. SseTyped'
  BY DEF SseInv, SseTyped
<1>2. StreamsLive'
  BY DEF SseInv, SseTyped, StreamsLive, Locked, Opened
<1>3. Routed'
  BY DEF SseInv, SseTyped, Routed, Opened, Reaches, Replaced
<1>4. Causes'
  BY DEF SseInv, SseTyped, StreamsLive, Causes, Opened
<1>5. QED
  BY <1>1, <1>2, <1>3, <1>4 DEF SseInv

LEMMA EndStreamInv == ASSUME SseInv, NEW x \in Peer, EndStream(x) PROVE SseInv'
<1> USE DEF EndStream, Fails, sseServer, sseAnswers, sseClient, sseCalls
<1>1. SseTyped'
  BY DEF SseInv, SseTyped
<1>2. StreamsLive'
  BY DEF SseInv, SseTyped, StreamsLive, Locked, Opened
<1>3. Routed'
  BY DEF SseInv, SseTyped, Routed, Opened, Reaches, Replaced
<1>4. Causes'
  BY DEF SseInv, SseTyped, StreamsLive, Causes, Opened
<1>5. QED
  BY <1>1, <1>2, <1>3, <1>4 DEF SseInv

LEMMA LockStreamInv == ASSUME SseInv, NEW r \in Ask, LockStream(r) PROVE SseInv'
<1> USE DEF LockStream, Fails, sseServer, sseAnswers, sseClient, sseCalls
<1>1. SseTyped'
  BY DEF SseInv, SseTyped
<1>2. StreamsLive'
  BY DEF SseInv, SseTyped, StreamsLive, Locked, Opened
<1>3. Routed'
  BY DEF SseInv, SseTyped, Routed, Opened, Reaches, Replaced
<1>4. Causes'
  BY DEF SseInv, SseTyped, StreamsLive, Causes, Opened
<1>5. QED
  BY <1>1, <1>2, <1>3, <1>4 DEF SseInv

LEMMA CloseServerInv == ASSUME SseInv, CloseServer PROVE SseInv'
<1> USE DEF CloseServer, Fails, sseServer, sseAnswers, sseClient, sseCalls
<1>1. SseTyped'
  BY DEF SseInv, SseTyped
<1>2. StreamsLive'
  BY DEF SseInv, SseTyped, StreamsLive, Locked, Opened
<1>3. Routed'
  BY DEF SseInv, SseTyped, Routed, Opened, Reaches, Replaced
<1>4. Causes'
  BY DEF SseInv, SseTyped, StreamsLive, Causes, Opened
<1>5. QED
  BY <1>1, <1>2, <1>3, <1>4 DEF SseInv

LEMMA DialFailsInv == ASSUME SseInv, NEW x \in Peer, DialFails(x) PROVE SseInv'
<1> USE DEF DialFails, Fails, sseServer, sseAnswers, sseClient, sseCalls
<1>1. SseTyped'
  BY DEF SseInv, SseTyped
<1>2. StreamsLive'
  BY DEF SseInv, SseTyped, StreamsLive, Locked, Opened
<1>3. Routed'
  BY DEF SseInv, SseTyped, Routed, Opened, Reaches, Replaced
<1>4. Causes'
  BY DEF SseInv, SseTyped, StreamsLive, Causes, Opened
<1>5. QED
  BY <1>1, <1>2, <1>3, <1>4 DEF SseInv

LEMMA ReadEndsInv == ASSUME SseInv, NEW x \in Peer, ReadEnds(x) PROVE SseInv'
<1> USE DEF ReadEnds, Fails, sseServer, sseAnswers, sseClient, sseCalls
<1>1. SseTyped'
  BY DEF SseInv, SseTyped
<1>2. StreamsLive'
  BY DEF SseInv, SseTyped, StreamsLive, Locked, Opened
<1>3. Routed'
  BY DEF SseInv, SseTyped, Routed, Opened, Reaches, Replaced
<1>4. Causes'
  BY DEF SseInv, SseTyped, StreamsLive, Causes, Opened
<1>5. QED
  BY <1>1, <1>2, <1>3, <1>4 DEF SseInv

LEMMA DispatchEndsInv == ASSUME SseInv, NEW x \in Peer, DispatchEnds(x) PROVE SseInv'
<1> USE DEF DispatchEnds, Fails, sseServer, sseAnswers, sseClient, sseCalls
<1>1. SseTyped'
  BY DEF SseInv, SseTyped
<1>2. StreamsLive'
  BY DEF SseInv, SseTyped, StreamsLive, Locked, Opened
<1>3. Routed'
  BY DEF SseInv, SseTyped, Routed, Opened, Reaches, Replaced
<1>4. Causes'
  BY DEF SseInv, SseTyped, StreamsLive, Causes, Opened
<1>5. QED
  BY <1>1, <1>2, <1>3, <1>4 DEF SseInv

LEMMA ClosePeerInv == ASSUME SseInv, NEW x \in Peer, ClosePeer(x) PROVE SseInv'
<1> USE DEF ClosePeer, Fails, sseServer, sseAnswers, sseClient, sseCalls
<1>1. SseTyped'
  BY DEF SseInv, SseTyped
<1>2. StreamsLive'
  BY DEF SseInv, SseTyped, StreamsLive, Locked, Opened
<1>3. Routed'
  BY DEF SseInv, SseTyped, Routed, Opened, Reaches, Replaced
<1>4. Causes'
  BY DEF SseInv, SseTyped, StreamsLive, Causes, Opened
<1>5. QED
  BY <1>1, <1>2, <1>3, <1>4 DEF SseInv

LEMMA ReceiveAskInv == ASSUME SseInv, ReceiveAsk PROVE SseInv'
<1> USE DEF ReceiveAsk, sseServer, sseClient, sseCalls
<1>1. SseTyped'
  BY DEF SseInv, SseTyped
<1>2. StreamsLive'
  BY DEF SseInv, SseTyped, StreamsLive, Locked, Opened
<1>3. Routed'
  <2>1. /\ incoming \in Seq(Ask) /\ incoming # << >> /\ Head(incoming) \in Ask
        /\ Head(incoming) = incoming[1] /\ 1 \in DOMAIN incoming
        /\ \A i \in DOMAIN Tail(incoming) : i + 1 \in DOMAIN incoming /\ Tail(incoming)[i] = incoming[i + 1]
    BY DEF SseInv, SseTyped
  <2>2. \A i \in DOMAIN incoming' : Opened(By[incoming'[i]])
    BY <2>1 DEF SseInv, Routed
  <2>3. \A s \in Ask : asked[s] = "offering" \/ sseTask'[s] # "none" => Opened(By[s])
    BY <2>1 DEF SseInv, SseTyped, Routed
  <2>4. \A s \in Ask : sseTask'[s] \in {"picked", "writing"} => sseTask[s] = sseTask'[s]
    BY <2>1 DEF SseInv, SseTyped
  <2>5. /\ \A x : Opened(x)' <=> Opened(x)
        /\ \A m, x : Reaches(m, x) => Reaches(m, x)'
    BY SessionsStay DEF SseInv
  <2>6. QED
    BY <2>2, <2>3, <2>4, <2>5 DEF SseInv, Routed
<1>4. Causes'
  BY DEF SseInv, SseTyped, StreamsLive, Causes, Opened
<1>5. QED
  BY <1>1, <1>2, <1>3, <1>4 DEF SseInv

(* The stream that is picked is the caller's, or one opened after it.      *)
LEMMA PickStreamInv == ASSUME SseInv, NEW r \in Ask, PickStream(r) PROVE SseInv'
<1> USE DEF PickStream, sseServer, sseClient, sseCalls
<1>1. SseTyped'
  BY DEF SseInv, SseTyped
<1>2. /\ \A x : Opened(x)' <=> Opened(x)
      /\ \A m, x : Reaches(m, x) => Reaches(m, x)'
  BY SessionsStay DEF SseInv
<1>3. StreamsLive'
  <2>1. \A x : Locked(x)' => Locked(x)
    BY DEF SseInv, SseTyped, Locked
  <2>2. QED
    BY <1>2, <2>1 DEF SseInv, StreamsLive
<1>4. active # NoStream => active \in Peer /\ Opened(active) /\ Reaches(r, active)
  <2> SUFFICES ASSUME active # NoStream PROVE active \in Peer /\ Opened(active) /\ Reaches(r, active)
    OBVIOUS
  <2>1. active \in Peer /\ opened \in Seq(Peer) /\ opened # << >> /\ opened[Len(opened)] = active
    BY DEF SseInv, SseTyped, StreamsLive
  <2>2. Len(opened) \in DOMAIN opened /\ DOMAIN opened = 1 .. Len(opened) /\ Len(opened) \in Nat
    BY <2>1
  <2>3. PICK i \in DOMAIN opened : opened[i] = By[r]
    BY DEF SseInv, Routed, Opened
  <2>4. CASE i = Len(opened)
    BY <2>1, <2>2, <2>3, <2>4 DEF Opened, Reaches
  <2>5. CASE i < Len(opened)
    BY <2>1, <2>2, <2>3, <2>5 DEF Opened, Reaches, Replaced
  <2>6. QED
    BY <2>2, <2>3, <2>4, <2>5
<1>5. Routed'
  <2>1. \A s \in Ask : sseTask'[s] # "none" => sseTask[s] # "none"
    BY DEF SseInv, SseTyped
  <2>2. \A s \in Ask : sseTask'[s] \in {"picked", "writing"} =>
          target'[s] \in Peer /\ Opened(target'[s]) /\ Reaches(s, target'[s])
    BY <1>4 DEF SseInv, SseTyped, Routed
  <2>3. QED
    BY <1>2, <2>1, <2>2 DEF SseInv, Routed
<1>6. Causes'
  BY <1>2 DEF SseInv, Causes
<1>7. QED
  BY <1>1, <1>3, <1>5, <1>6 DEF SseInv

LEMMA WriteAnswerInv == ASSUME SseInv, NEW r \in Ask, WriteAnswer(r) PROVE SseInv'
<1> USE DEF WriteAnswer, sseServer, sseClient, sseCalls
<1>0. /\ target[r] \in Peer /\ Opened(target[r]) /\ Reaches(r, target[r])
      /\ wire \in [Peer -> Seq(Ask \cup {Announced})] /\ sseTask[r] = "writing"
  BY DEF SseInv, SseTyped, Routed
<1>1. /\ \A x : Opened(x)' <=> Opened(x)
      /\ \A m, x : Reaches(m, x) => Reaches(m, x)'
  BY SessionsStay DEF SseInv
<1>2. /\ wire' \in [Peer -> Seq(Ask \cup {Announced})]
      /\ \A x \in Peer : x # target[r] => wire'[x] = wire[x]
      /\ \A i \in DOMAIN wire'[target[r]] :
           \/ wire'[target[r]][i] = r
           \/ i \in DOMAIN wire[target[r]] /\ wire'[target[r]][i] = wire[target[r]][i]
  <2>1. wire[target[r]] \in Seq(Ask \cup {Announced})
    BY <1>0
  <2>2. /\ Append(wire[target[r]], r) \in Seq(Ask \cup {Announced})
        /\ \A i \in DOMAIN Append(wire[target[r]], r) : 
             \/ Append(wire[target[r]], r)[i] = r
             \/ i \in DOMAIN wire[target[r]] /\ Append(wire[target[r]], r)[i] = wire[target[r]][i]
    BY <2>1, AppendElements
  <2>3. QED
    BY <1>0, <2>2
<1>3. SseTyped'
  BY <1>2 DEF SseInv, SseTyped
<1>4. StreamsLive'
  <2>1. \A x : Locked(x)' => Locked(x)
    BY DEF SseInv, SseTyped, Locked
  <2>2. QED
    BY <1>1, <2>1 DEF SseInv, StreamsLive
<1>5. Routed'
  <2>1. \A s \in Ask : sseTask'[s] = sseTask[s] \/ (s = r /\ sseTask'[s] = "sent")
    <3>1. sseTask \in [Ask -> {"none", "answering", "picked", "writing", "sent", "lost"}]
          /\ sseTask' = [sseTask EXCEPT ![r] = "sent"]
      BY DEF SseInv, SseTyped
    <3>2. QED
      BY ONLY <3>1
  <2>2. \A x \in Peer : \A i \in DOMAIN wire'[x] :
          wire'[x][i] # Announced => Reaches(wire'[x][i], x)
    BY <1>0, <1>2 DEF SseInv, Routed
  <2>3. QED
    BY <1>0, <1>1, <2>1, <2>2 DEF SseInv, Routed
<1>6. Causes'
  BY <1>0, <1>1, <1>2 DEF SseInv, Causes
<1>7. QED
  BY <1>3, <1>4, <1>5, <1>6 DEF SseInv

(* The process dies: no session is active, and none of its handlers writes.*)
LEMMA HeadersRaceInv == ASSUME SseInv, NEW r \in Ask, HeadersRace(r) PROVE SseInv'
<1> USE DEF HeadersRace, sseClient, sseCalls
<1>1. /\ \A x : Opened(x)' <=> Opened(x)
      /\ \A m, x : Reaches(m, x) => Reaches(m, x)'
  BY SessionsStay DEF SseInv
<1>2. /\ active' = NoStream /\ cut' = {x \in Peer : stream[x] # "none"} /\ incoming' = << >>
      /\ \A x \in Peer : stream'[x] = IF stream[x] = "none" THEN "none" ELSE "ended"
      /\ \A s \in Ask : /\ sseTask'[s] \in {"none", "sent", "lost"}
                        /\ sseTask'[s] # "none" => sseTask[s] # "none"
  BY DEF SseInv, SseTyped
<1>3. SseTyped'
  <2>1. /\ stream' \in [Peer -> {"none", "ended"}]
        /\ sseTask' \in [Ask -> {"none", "sent", "lost"}]
    BY <1>2
  <2>2. stream' \in [Peer -> {"none", "opening", "announcing", "open", "leaving", "ended"}]
    BY <1>2, <2>1
  <2>3. sseTask' \in [Ask -> {"none", "answering", "picked", "writing", "sent", "lost"}]
    BY <1>2, <2>1
  <2>4. incoming' \in Seq(Ask)
    BY <1>2
  <2>5. QED
    BY <1>2, <2>2, <2>3, <2>4 DEF SseInv, SseTyped
<1>4. StreamsLive'
  <2>1. \A x : ~Locked(x)'
    BY <1>2 DEF Locked
  <2>2. cut \subseteq cut'
    BY <1>2 DEF SseInv, SseTyped, StreamsLive
  <2>3. QED
    BY <1>1, <1>2, <2>1, <2>2 DEF SseInv, StreamsLive
<1>5. Routed'
  <2>1. \A i \in DOMAIN incoming' : FALSE
    BY <1>2
  <2>2. QED
    BY <1>1, <1>2, <2>1 DEF SseInv, Routed
<1>6. Causes'
  BY <1>1 DEF SseInv, Causes
<1>7. QED
  BY <1>3, <1>4, <1>5, <1>6 DEF SseInv

LEMMA ReadEventInv == ASSUME SseInv, NEW x \in Peer, ReadEvent(x) PROVE SseInv'
<1> USE DEF ReadEvent, sseServer, sseCalls
<1> DEFINE m == Head(wire[x])
<1>0. /\ wire \in [Peer -> Seq(Ask \cup {Announced})] /\ inbox \in [Peer -> Seq(Ask)]
      /\ wire' = [wire EXCEPT ![x] = Tail(wire[x])] /\ wire[x] # << >>
  BY DEF SseInv, SseTyped
<1>1. /\ m \in Ask \cup {Announced} /\ m = wire[x][1] /\ 1 \in DOMAIN wire[x]
      /\ Tail(wire[x]) \in Seq(Ask \cup {Announced})
      /\ \A i \in DOMAIN Tail(wire[x]) : i + 1 \in DOMAIN wire[x] /\ Tail(wire[x])[i] = wire[x][i + 1]
  <2>1. wire[x] \in Seq(Ask \cup {Announced})
    BY <1>0
  <2>2. QED
    BY <1>0, <2>1
<1>2. /\ m # Announced => m \in Ask /\ Reaches(m, x)
      /\ \A y \in Peer : \A i \in DOMAIN wire'[y] : wire'[y][i] # Announced => Reaches(wire'[y][i], y)
      /\ wire' \in [Peer -> Seq(Ask \cup {Announced})]
      /\ \A y \in Peer : wire'[y] # << >> => wire[y] # << >>
  BY <1>0, <1>1 DEF SseInv, Routed
<1> HIDE DEF m
<1>3. /\ inbox' \in [Peer -> Seq(Ask)]
      /\ \A y \in Peer : \A i \in DOMAIN inbox'[y] : Reaches(inbox'[y][i], y)
  <2>1. CASE inbox' = inbox
    BY <1>0, <2>1 DEF SseInv, Routed
  <2>2. CASE m # Announced /\ inbox' = [inbox EXCEPT ![x] = Append(@, m)]
    <3>1. /\ Append(inbox[x], m) \in Seq(Ask)
          /\ \A i \in DOMAIN Append(inbox[x], m) : 
               \/ Append(inbox[x], m)[i] = m
               \/ i \in DOMAIN inbox[x] /\ Append(inbox[x], m)[i] = inbox[x][i]
      <4>1. inbox[x] \in Seq(Ask) /\ m \in Ask
        BY <1>0, <1>2, <2>2
      <4>2. QED
        BY <4>1, AppendElements
    <3>2. QED
      BY <1>0, <1>2, <2>2, <3>1 DEF SseInv, Routed
  <2>3. QED
    BY <2>1, <2>2 DEF m
<1>4. /\ \A y : Opened(y)' <=> Opened(y)
      /\ \A s, y : Reaches(s, y) => Reaches(s, y)'
  BY SessionsStay DEF SseInv
<1>5. SseTyped'
  BY <1>2, <1>3 DEF SseInv, SseTyped
<1>6. StreamsLive'
  <2>1. \A y : Locked(y)' <=> Locked(y)
    BY DEF Locked
  <2>2. QED
    BY <1>4, <2>1 DEF SseInv, StreamsLive
<1>7. Routed'
  BY <1>2, <1>3, <1>4 DEF SseInv, Routed
<1>8. Causes'
  <2>1. \A y \in Peer : endpoint'[y] = endpoint[y] \/ (y = x /\ endpoint'[y] = "known")
    <3>1. /\ endpoint \in [Peer -> {"unknown", "known", "failed"}]
          /\ endpoint' = endpoint \/ endpoint' = [endpoint EXCEPT ![x] = "known"]
      BY DEF SseInv, SseTyped
    <3>2. QED
      BY ONLY <3>1
  <2>2. QED
    BY <1>0, <1>2, <1>4, <2>1 DEF SseInv, Causes
<1>9. QED
  BY <1>5, <1>6, <1>7, <1>8 DEF SseInv

LEMMA DispatchMessageInv == ASSUME SseInv, NEW x \in Peer, DispatchMessage(x) PROVE SseInv'
<1> USE DEF DispatchMessage, sseServer, sseAnswers
<1> DEFINE m == Head(inbox[x])
<1>0. /\ inbox \in [Peer -> Seq(Ask)] /\ given \in [Ask -> Ask \cup {Nil}]
      /\ inbox' = [inbox EXCEPT ![x] = Tail(inbox[x])] /\ inbox[x] # << >>
  BY DEF SseInv, SseTyped
<1>1. /\ m \in Ask /\ m = inbox[x][1] /\ 1 \in DOMAIN inbox[x]
      /\ Tail(inbox[x]) \in Seq(Ask)
      /\ \A i \in DOMAIN Tail(inbox[x]) : i + 1 \in DOMAIN inbox[x] /\ Tail(inbox[x])[i] = inbox[x][i + 1]
  <2>1. inbox[x] \in Seq(Ask)
    BY <1>0
  <2>2. QED
    BY <1>0, <2>1
<1>2. /\ Reaches(m, x)
      /\ \A y \in Peer : \A i \in DOMAIN inbox'[y] : Reaches(inbox'[y][i], y)
      /\ inbox' \in [Peer -> Seq(Ask)]
  BY <1>0, <1>1 DEF SseInv, Routed
<1>3. /\ given' \in [Ask -> Ask \cup {Nil}]
      /\ \A r \in Ask : given'[r] = given[r]
           \/ (given'[r] = m /\ By[r] = x /\ Nth[r] = Nth[m])
  BY <1>0, <1>1
<1> HIDE DEF m
<1>4. /\ \A y : Opened(y)' <=> Opened(y)
      /\ \A s, y : Reaches(s, y) => Reaches(s, y)'
  BY SessionsStay DEF SseInv
<1>5. SseTyped'
  BY <1>2, <1>3 DEF SseInv, SseTyped
<1>6. StreamsLive'
  <2>1. \A y : Locked(y)' <=> Locked(y)
    BY DEF Locked
  <2>2. QED
    BY <1>4, <2>1 DEF SseInv, StreamsLive
<1>7. Routed'
  BY <1>2, <1>3, <1>4 DEF SseInv, Routed
<1>8. Causes'
  BY <1>4 DEF SseInv, Causes
<1>9. QED
  BY <1>5, <1>6, <1>7, <1>8 DEF SseInv

LEMMA OpenStreamInv == ASSUME SseInv, NEW x \in Peer, OpenStream(x) PROVE SseInv'
<1> USE DEF OpenStream, sseAnswers, sseCalls
<1>0. /\ opened \in Seq(Peer) /\ opened' = Append(opened, x) /\ stream[x] = "none"
      /\ x # active /\ x \notin cut
  BY SseConstants DEF SseInv, SseTyped, StreamsLive
<1>1. /\ opened' \in Seq(Peer) /\ opened' # << >> /\ opened'[Len(opened')] = x
      /\ \A y : Opened(y)' <=> Opened(y) \/ y = x
  <2>1. /\ Len(opened') = Len(opened) + 1 /\ Len(opened) \in Nat
        /\ opened'[Len(opened) + 1] = x /\ \A i \in 1 .. Len(opened) : opened'[i] = opened[i]
        /\ DOMAIN opened' = 1 .. Len(opened) + 1 /\ DOMAIN opened = 1 .. Len(opened)
    BY <1>0, AppendProperties, LenProperties
  <2>2. QED
    BY <1>0, <2>1, AppendProperties DEF Opened
<1>2. \A m, y : Reaches(m, y) => Reaches(m, y)'
  BY <1>0, SessionsStay DEF SseInv
<1>3. SseTyped'
  BY <1>1 DEF SseInv, SseTyped
<1>4. StreamsLive'
  <2>1. \A y : Locked(y)' <=> Locked(y)
    BY DEF Locked
  <2>2. /\ stream'[x] = "opening" /\ reader'[x] = "reading" /\ active' = x
        /\ \A y \in Peer : y # x => stream'[y] = stream[y] /\ reader'[y] = reader[y]
        /\ x # NoStream /\ cut' = cut \cup ({active} \ {NoStream}) /\ x \notin cut'
    BY <1>0, SseConstants DEF SseInv, SseTyped
  <2>3. /\ active \in Peer \cup {NoStream} /\ NoStream \notin Peer /\ cut \in SUBSET Peer
    BY SseConstants DEF SseInv, SseTyped
  <2>4. ASSUME NEW y \in Peer
        PROVE  /\ reader'[y] = "dialing" => stream'[y] = "none"
               /\ stream'[y] = "none" <=> ~Opened(y)'
               /\ stream'[y] # "none" => y = active' \/ y \in cut'
               /\ stream'[y] \in {"leaving", "ended"} => y \in cut'
               /\ stream'[y] = "ended" => ~Locked(y)'
    BY <1>0, <1>1, <2>1, <2>2, <2>3 DEF SseInv, StreamsLive
  <2>5. \A y \in cut' : stream'[y] # "none"
    BY <1>0, <2>2, <2>3 DEF SseInv, StreamsLive
  <2>6. QED
    BY <1>1, <2>2, <2>4, <2>5 DEF StreamsLive
<1>5. Routed'
  BY <1>1, <1>2 DEF SseInv, Routed
<1>6. Causes'
  BY <1>1 DEF SseInv, Causes
<1>7. QED
  BY <1>3, <1>4, <1>5, <1>6 DEF SseInv

LEMMA SseStutters == SseInv /\ UNCHANGED <<sseServer, sseAnswers, sseClient, sseCalls>> => SseInv'
<1> SUFFICES ASSUME SseInv, UNCHANGED <<sseServer, sseAnswers, sseClient, sseCalls>> PROVE SseInv'
  OBVIOUS
<1> USE DEF sseServer, sseAnswers, sseClient, sseCalls
<1>1. SseTyped'
  BY DEF SseInv, SseTyped
<1>2. StreamsLive' /\ Causes'
  BY DEF SseInv, StreamsLive, Causes, Opened, Locked
<1>3. Routed'
  BY DEF SseInv, Routed, Opened, Reaches, Replaced
<1>4. QED
  BY <1>1, <1>2, <1>3 DEF SseInv

LEMMA SseStepInv == SseInv /\ SseNext => SseInv'
<1> SUFFICES ASSUME SseInv, SseNext PROVE SseInv'
  OBVIOUS
<1>1. CASE StreamServer
  BY <1>1, SetHeadersInv, AnnounceInv, LeaveStreamInv, EndStreamInv, ReceiveAskInv, PickStreamInv,
     LockStreamInv, WriteAnswerInv, HeadersRaceInv DEF StreamServer
<1>2. CASE StreamClient
  BY <1>2, OpenStreamInv, DialFailsInv, ReadEventInv, ReadEndsInv, DispatchMessageInv,
     DispatchEndsInv, CallInv DEF StreamClient
<1>3. CASE \E r \in Ask : StartAsk(r)
  BY <1>3, CallInv
<1>4. CASE Disturbs
  BY <1>4, CloseServerInv, ClosePeerInv, CallInv, SseConstants DEF Disturbs
<1>5. QED
  BY <1>1, <1>2, <1>3, <1>4 DEF SseNext, Streams

LEMMA SseHolds == SseInv => SseStraysAreExplained /\ StreamsOutliveTheirWriters
<1> SUFFICES ASSUME SseInv PROVE SseStraysAreExplained /\ StreamsOutliveTheirWriters
  OBVIOUS
<1>1. ASSUME NEW r \in Ask, returned[r] \notin {Nil, Err, r}
      PROVE  Nth[returned[r]] = Nth[r] /\ Replaced(By[returned[r]], By[r])
  <2>1. returned[r] \in Ask /\ Nth[returned[r]] = Nth[r] /\ Reaches(returned[r], By[r])
    BY <1>1 DEF SseInv, SseTyped, Routed
  <2>2. By[returned[r]] # By[r]
    BY <1>1, <2>1, SseConstants
  <2>3. QED
    BY <2>1, <2>2 DEF Reaches
<1>2. SseStraysAreExplained
  BY <1>1 DEF SseInv, Causes, SseStraysAreExplained
<1>3. StreamsOutliveTheirWriters
  BY DEF SseInv, StreamsLive, StreamsOutliveTheirWriters
<1>4. QED
  BY <1>2, <1>3

-----------------------------------------------------------------------------
(***************************************************************************)
(* Streamable HTTP. The client numbers its requests, so an id, a slot, a   *)
(* waiter and a reply of the server all belong to one call; a reply takes  *)
(* the waiter out of its slot once, and then the waiter is picked up.      *)
(***************************************************************************)
Called == {r \in Req : cp[r] # "idle" /\ ~Notification(r)}

HttpTyped ==
  /\ hp \in [Req -> {"none", "session", "register", "handoff", "await", "cleanup", "gone"}]
  /\ id \in [Req -> Id] /\ header \in [Req -> Nat] /\ ctxDone \in [Req -> BOOLEAN]
  /\ resp \in [Req -> [status : {0, 200, 202, 404, 408, 409, 503},
                       body : Req \cup {NoOne}, session : Nat]]
  /\ reply \in [Req -> Req \cup {NoOne}] /\ pending \in [Id -> Req \cup {NoOne}]
  /\ session \in Nat /\ minted \in Nat /\ known \in Nat /\ lastId \in Nat
  /\ serve \in {"recv", "route", "replying", "slot", "draining", "stopped"}
  /\ work \in [Req -> {"none", "tool", "send", "deliver", "ended"}]
  /\ dest \in [Req -> Req \cup {NoOne}]
  /\ cp \in [Req -> {"idle", "posting", "queue", "wait", "returned"}]
  /\ result \in [Req -> Req \cup {Pending, Error}]
  /\ ch \in [Req -> Req \cup {NoOne}] /\ replies \in Seq(Req)

Numbered ==
  /\ lastId = Cardinality(Called)
  /\ \A r \in Called : id[r] <= lastId
  /\ \A r, s \in Called : id[r] = id[s] => r = s

Early(r) == hp[r] \in {"none", "session", "register", "handoff"}

InHand(r) == serve \in {"route", "slot"} /\ frame = r

Served ==
  /\ \A r \in Req : hp[r] # "none" => cp[r] # "idle"
  /\ \A r \in Req : hp[r] \in {"await", "cleanup"} => ~Notification(r)
  /\ \A r \in Req : Early(r) => work[r] = "none" /\ ~InHand(r)
  /\ serve \in {"route", "slot"} =>
       frame \in Req /\ work[frame] = "none" /\ cp[frame] # "idle"
  /\ serve = "slot" => ~Notification(frame)
  /\ \A r \in Req : work[r] # "none" => r \in Called
  /\ \A r \in Req : work[r] = "deliver" => dest[r] = r

Slots ==
  /\ \A i \in Id : pending[i] # NoOne =>
       /\ pending[i] \in Called /\ id[pending[i]] = i
       /\ hp[pending[i]] \in {"handoff", "await", "cleanup"}
  /\ \A r \in Req : Waiting(r) /\ ~Notification(r) /\ ~PickedUp(r) => pending[id[r]] = r

Delivered ==
  /\ \A r \in Req : reply[r] \in {NoOne, r} /\ ch[r] \in {NoOne, r}
  /\ \A r \in Req : resp[r].status = 200 => resp[r].body = r /\ ~Notification(r)
  /\ \A r \in Req : cp[r] = "queue" => resp[r].status = 200
  /\ \A i \in DOMAIN replies : replies[i] \in Called
  /\ waiting \subseteq Called
  /\ \A r \in Req : result[r] \in {Pending, Error, r}

Excused ==
  /\ session \in {0, minted} /\ known <= minted
  /\ \A r \in Req : header[r] <= minted /\ resp[r].session <= minted
  /\ \A r \in Req : resp[r].status # 0 <=> hp[r] \in {"cleanup", "gone"}
  /\ \A r \in Req :
       /\ resp[r].status # 409
       /\ resp[r].status = 404 => header[r] < minted
       /\ resp[r].status = 408 => ctxDone[r]
       /\ resp[r].status = 503 => closed
  /\ \A r \in Req : result[r] = Error =>
       \/ ctxDone[r] \/ ~open \/ closed \/ cancelled
       \/ resp[r].status = 404

HttpInv == HttpTyped /\ Numbered /\ Served /\ Slots /\ Delivered /\ Excused

LEMMA HttpInitInv == Init => HttpInv
<1> SUFFICES ASSUME Init PROVE HttpInv
  OBVIOUS
<1> USE DEF Init, ServerInit
<1>1. Called = {}
  BY DEF Called
<1>2. HttpTyped
  BY DEF HttpTyped, NoResponse, Pending
<1>3. Numbered
  BY <1>1, FS_EmptySet DEF Numbered
<1>4. Served /\ Slots
  BY <1>1 DEF Served, Slots, InHand, Waiting
<1>5. Delivered /\ Excused
  BY <1>1, ClientConstants DEF Delivered, Excused, NoResponse, Pending, Error
<1>6. QED
  BY <1>2, <1>3, <1>4, <1>5 DEF HttpInv

LEMMA HttpReturnsInv == ASSUME HttpInv, NEW r \in Req, HttpReturns(r) PROVE HttpInv'
<1> USE DEF handler, sessions, loop, answers, serverVars
<1>0. /\ resp[r].status \in {0, 200, 202, 404, 408, 409, 503} /\ resp[r].session \in Nat
      /\ resp[r].session <= minted
      /\ cp[r] = "posting" /\ hp[r] = "gone"
      /\ known' \in {known, resp[r].session}
      /\ \/ resp[r].status = 200 /\ cp' = [cp EXCEPT ![r] = "queue"] /\ UNCHANGED <<result, waiting>>
         \/ /\ resp[r].status = 202
            /\ cp' = [cp EXCEPT ![r] = "returned"] /\ result' = [result EXCEPT ![r] = r]
            /\ waiting' = waiting \ {r}
         \/ /\ resp[r].status \notin {200, 202}
            /\ cp' = [cp EXCEPT ![r] = "returned"] /\ result' = [result EXCEPT ![r] = Error]
            /\ waiting' = waiting \ {r}
      /\ UNCHANGED <<lastId, ch, replies, open, dispatching, serverVars>>
  <2>1. /\ resp[r].status \in {0, 200, 202, 404, 408, 409, 503} /\ resp[r].session \in Nat
        /\ resp[r].session <= minted
    BY DEF HttpInv, HttpTyped, Excused
  <2>2. QED
    BY <2>1 DEF HttpReturns, Return, Moves
<1>1. HttpTyped'
  <2>1. known' \in Nat
    BY <1>0 DEF HttpInv, HttpTyped
  <2>2. cp' \in [Req -> {"idle", "posting", "queue", "wait", "returned"}]
    <3>1. cp \in [Req -> {"idle", "posting", "queue", "wait", "returned"}]
      BY DEF HttpInv, HttpTyped
    <3>2. QED
      BY <1>0, <3>1
  <2>3. result' \in [Req -> Req \cup {Pending, Error}]
    <3>1. result \in [Req -> Req \cup {Pending, Error}]
      BY DEF HttpInv, HttpTyped
    <3>2. QED
      BY <1>0, <3>1
  <2>4. QED
    BY <1>0, <2>1, <2>2, <2>3 DEF HttpInv, HttpTyped
<1>2. Called' = Called
  BY <1>0 DEF HttpInv, HttpTyped, Called
<1>3. Numbered'
  BY <1>0, <1>2 DEF HttpInv, HttpTyped, Numbered
<1>4. Served'
  BY <1>0, <1>2 DEF HttpInv, HttpTyped, Served, Early, InHand, Called
<1>5. Slots'
  BY <1>0, <1>2 DEF HttpInv, HttpTyped, Slots, Waiting, PickedUp, Called
<1>6. Delivered'
  <2>1. \A s \in Req : cp'[s] = "queue" => resp[s].status = 200
    BY <1>0 DEF HttpInv, HttpTyped, Delivered
  <2>2. \A s \in Req : result'[s] \in {Pending, Error, s}
    <3>1. result \in [Req -> Req \cup {Pending, Error}] /\ \A s \in Req : result[s] \in {Pending, Error, s}
      BY DEF HttpInv, HttpTyped, Delivered
    <3>2. QED
      BY <1>0, <3>1
  <2>3. waiting' \subseteq Called
    BY <1>0 DEF HttpInv, Delivered
  <2>4. QED
    BY <1>0, <1>2, <2>1, <2>2, <2>3 DEF HttpInv, Delivered
<1>7. Excused'
  <2>1. resp[r].status # 0
    BY <1>0 DEF HttpInv, Excused
  <2>2. \A s \in Req : result'[s] = Error => result[s] = Error \/ (s = r /\ resp[r].status \in {404, 408, 503})
    BY <1>0, <2>1, ClientConstants DEF HttpInv, HttpTyped, Excused, Error
  <2>3. known' <= minted
    BY <1>0 DEF HttpInv, Excused
  <2>4. QED
    BY <1>0, <2>2, <2>3 DEF HttpInv, HttpTyped, Excused
<1>8. QED
  BY <1>1, <1>3, <1>4, <1>5, <1>6, <1>7 DEF HttpInv

(* A handler that goes on, or responds with an error and its cause.        *)

LEMMA QueueReplyInv == ASSUME HttpInv, NEW r \in Req, QueueReply(r) PROVE HttpInv'
<1> USE DEF QueueReply, Return, Moves, handler, sessions, loop, answers, serverVars
<1>0. /\ resp[r].body = r /\ replies' = Append(replies, r) /\ r \in Called
      /\ replies \in Seq(Req) /\ replies' \in Seq(Req)
      /\ \A i \in DOMAIN replies' :
           replies'[i] = r \/ (i \in DOMAIN replies /\ replies'[i] = replies[i])
  <2>1. resp[r].body = r /\ replies' = Append(replies, r) /\ r \in Called /\ replies \in Seq(Req)
    BY DEF HttpInv, HttpTyped, Delivered, Called
  <2>2. QED
    BY <2>1, AppendElements
<1>1. HttpTyped'
  BY <1>0 DEF HttpInv, HttpTyped
<1>2. Called' = Called
  BY DEF HttpInv, HttpTyped, Called
<1>3. Numbered'
  BY <1>2 DEF HttpInv, HttpTyped, Numbered
<1>4. Served'
  BY <1>2 DEF HttpInv, HttpTyped, Served, Early, InHand, Called
<1>5. Slots'
  BY <1>2 DEF HttpInv, HttpTyped, Slots, Waiting, PickedUp, Called
<1>6. Delivered'
  BY <1>0, <1>2 DEF HttpInv, HttpTyped, Delivered
<1>7. Excused'
  BY <1>2 DEF HttpInv, HttpTyped, Excused
<1>8. QED
  BY <1>1, <1>3, <1>4, <1>5, <1>6, <1>7 DEF HttpInv

LEMMA TakeReplyInv == ASSUME HttpInv, NEW r \in Req, TakeReply(r) PROVE HttpInv'
<1> USE DEF TakeReply, Return, handler, sessions, loop, answers, serverVars
<1>1. HttpTyped'
  BY DEF HttpInv, HttpTyped, Pending, Error
<1>2. Called' = Called
  BY DEF HttpInv, HttpTyped, Called
<1>3. Numbered'
  BY <1>2 DEF HttpInv, HttpTyped, Numbered
<1>4. Served'
  BY <1>2 DEF HttpInv, HttpTyped, Served, Early, InHand, Called
<1>5. Slots'
  BY <1>2 DEF HttpInv, HttpTyped, Slots, Waiting, PickedUp, Called
<1>6. Delivered'
  BY <1>2 DEF HttpInv, HttpTyped, Delivered
<1>7. Excused'
  <2>1. \A s \in Req : result'[s] = Error => result[s] = Error
    BY ClientConstants DEF HttpInv, HttpTyped, Delivered, Error
  <2>2. QED
    BY <2>1 DEF HttpInv, HttpTyped, Excused
<1>8. QED
  BY <1>1, <1>3, <1>4, <1>5, <1>6, <1>7 DEF HttpInv

LEMMA CallEndsInv == ASSUME HttpInv, NEW r \in Req, CallEnds(r) PROVE HttpInv'
<1> USE DEF CallEnds, Return, Moves, Respond, Goto, Sent, Response, NoResponse, Loop,
        handler, sessions, loop, answers, serverVars, clientVars
<1>1. HttpTyped'
  BY ServerConstants, ClientConstants DEF HttpInv, HttpTyped, Pending, Error
<1>2. Called' = Called
  BY DEF HttpInv, HttpTyped, Called
<1>3. Numbered'
  BY <1>2 DEF HttpInv, HttpTyped, Numbered
<1>4. Served'
  BY <1>2 DEF HttpInv, HttpTyped, Served, Early, InHand, Called
<1>5. Slots'
  BY <1>2 DEF HttpInv, HttpTyped, Slots, Waiting, PickedUp, Called
<1>6. Delivered'
  BY <1>2 DEF HttpInv, HttpTyped, Delivered
<1>7. Excused'
  BY <1>2 DEF HttpInv, HttpTyped, Excused
<1>8. QED
  BY <1>1, <1>3, <1>4, <1>5, <1>6, <1>7 DEF HttpInv

LEMMA DispatchReplyInv == ASSUME HttpInv, DispatchReply PROVE HttpInv'
<1> USE DEF DispatchReply, handler, sessions, loop, answers, serverVars
<1>0. PICK m \in Called :
        /\ m = Head(replies)
        /\ ch' = [r \in Req |-> IF r \in waiting /\ id[r] = id[m] THEN m ELSE ch[r]]
        /\ waiting' = waiting \ {r \in waiting : id[r] = id[m]}
  <2>1. replies # << >> /\ replies \in Seq(Req)
    BY DEF HttpInv, HttpTyped
  <2>2. Head(replies) = replies[1] /\ 1 \in DOMAIN replies
    BY <2>1
  <2>3. Head(replies) \in Called
    BY <2>2 DEF HttpInv, Delivered
  <2>4. QED
    BY <2>3
<1>1. HttpTyped'
  BY DEF HttpInv, HttpTyped
<1>2. Called' = Called
  BY DEF HttpInv, HttpTyped, Called
<1>3. Numbered'
  BY <1>2 DEF HttpInv, HttpTyped, Numbered
<1>4. Served'
  BY <1>2 DEF HttpInv, HttpTyped, Served, Early, InHand, Called
<1>5. Slots'
  BY <1>2 DEF HttpInv, HttpTyped, Slots, Waiting, PickedUp, Called
<1>6. Delivered'
  <2>1. \A r \in waiting : id[r] = id[m] => r = m
    BY DEF HttpInv, Delivered, Numbered
  <2>2. \A r \in Req : ch'[r] \in {NoOne, r}
    BY <1>0, <2>1 DEF HttpInv, HttpTyped, Delivered, Called
  <2>3. \A i \in DOMAIN replies' : replies'[i] \in Called
    <3>1. replies # << >> /\ replies \in Seq(Req)
      BY DEF HttpInv, HttpTyped
    <3>2. \A i \in DOMAIN Tail(replies) : i + 1 \in DOMAIN replies /\ Tail(replies)[i] = replies[i + 1]
      BY <3>1
    <3>3. QED
      BY <3>2 DEF HttpInv, Delivered
  <2>4. waiting' \subseteq Called
    BY <1>0 DEF HttpInv, Delivered
  <2>5. QED
    BY <1>2, <2>2, <2>3, <2>4 DEF HttpInv, Delivered
<1>7. Excused'
  BY <1>2 DEF HttpInv, HttpTyped, Excused
<1>8. QED
  BY <1>1, <1>3, <1>4, <1>5, <1>6, <1>7 DEF HttpInv

LEMMA DispatchStopsInv == ASSUME HttpInv, DispatchStops PROVE HttpInv'
<1> USE DEF DispatchStops, Return, Moves, Respond, Goto, Sent, Response, NoResponse, Loop,
        handler, sessions, loop, answers, serverVars, clientVars
<1>1. HttpTyped'
  BY ServerConstants, ClientConstants DEF HttpInv, HttpTyped, Pending, Error
<1>2. Called' = Called
  BY DEF HttpInv, HttpTyped, Called
<1>3. Numbered'
  BY <1>2 DEF HttpInv, HttpTyped, Numbered
<1>4. Served'
  BY <1>2 DEF HttpInv, HttpTyped, Served, Early, InHand, Called
<1>5. Slots'
  BY <1>2 DEF HttpInv, HttpTyped, Slots, Waiting, PickedUp, Called
<1>6. Delivered'
  BY <1>2 DEF HttpInv, HttpTyped, Delivered
<1>7. Excused'
  BY <1>2 DEF HttpInv, HttpTyped, Excused
<1>8. QED
  BY <1>1, <1>3, <1>4, <1>5, <1>6, <1>7 DEF HttpInv

LEMMA CloseClientInv == ASSUME HttpInv, CloseClient PROVE HttpInv'
<1> USE DEF CloseClient, Return, Moves, Respond, Goto, Sent, Response, NoResponse, Loop,
        handler, sessions, loop, answers, serverVars, clientVars
<1>1. HttpTyped'
  BY ServerConstants, ClientConstants DEF HttpInv, HttpTyped, Pending, Error
<1>2. Called' = Called
  BY DEF HttpInv, HttpTyped, Called
<1>3. Numbered'
  BY <1>2 DEF HttpInv, HttpTyped, Numbered
<1>4. Served'
  BY <1>2 DEF HttpInv, HttpTyped, Served, Early, InHand, Called
<1>5. Slots'
  BY <1>2 DEF HttpInv, HttpTyped, Slots, Waiting, PickedUp, Called
<1>6. Delivered'
  BY <1>2 DEF HttpInv, HttpTyped, Delivered
<1>7. Excused'
  BY <1>2 DEF HttpInv, HttpTyped, Excused
<1>8. QED
  BY <1>1, <1>3, <1>4, <1>5, <1>6, <1>7 DEF HttpInv

LEMMA ContextEndsInv == ASSUME HttpInv, NEW r \in Req, ContextEnds(r) PROVE HttpInv'
<1> USE DEF ContextEnds, Return, Moves, Respond, Goto, Sent, Response, NoResponse, Loop,
        handler, sessions, loop, answers, serverVars, clientVars
<1>1. HttpTyped'
  BY ServerConstants, ClientConstants DEF HttpInv, HttpTyped, Pending, Error
<1>2. Called' = Called
  BY DEF HttpInv, HttpTyped, Called
<1>3. Numbered'
  BY <1>2 DEF HttpInv, HttpTyped, Numbered
<1>4. Served'
  BY <1>2 DEF HttpInv, HttpTyped, Served, Early, InHand, Called
<1>5. Slots'
  BY <1>2 DEF HttpInv, HttpTyped, Slots, Waiting, PickedUp, Called
<1>6. Delivered'
  BY <1>2 DEF HttpInv, HttpTyped, Delivered
<1>7. Excused'
  BY <1>2 DEF HttpInv, HttpTyped, Excused
<1>8. QED
  BY <1>1, <1>3, <1>4, <1>5, <1>6, <1>7 DEF HttpInv

LEMMA Responds ==
  ASSUME HttpTyped, NEW r \in Req, NEW code \in {202, 404, 408, 409, 503},
         NEW at \in {"gone", "cleanup"}, Respond(r, code, at)
  PROVE  /\ resp' \in [Req -> [status : {0, 200, 202, 404, 408, 409, 503},
                               body : Req \cup {NoOne}, session : Nat]]
         /\ resp'[r].status = code /\ resp'[r].session = 0
         /\ \A s \in Req : s # r => resp'[s] = resp[s] /\ hp'[s] = hp[s]
         /\ hp'[r] = at
         /\ hp' \in [Req -> {"none", "session", "register", "handoff", "await", "cleanup",
                             "gone"}]
         /\ UNCHANGED <<id, header, ctxDone>>
<1>1. Response(code) = [status |-> code, body |-> NoOne, session |-> 0]
  BY DEF Response, NoResponse
<1>2. QED
  BY <1>1 DEF Respond, Goto, HttpTyped

LEMMA HandlerGoesOn ==
  ASSUME HttpInv, NEW r \in Req, hp[r] \notin {"cleanup", "gone"},
         UNCHANGED <<header, ctxDone, reply, session, minted, closed, cancelled, clientVars>>,
         \A s \in Req : s # r => resp'[s] = resp[s] /\ hp'[s] = hp[s],
         \/ resp'[r] = resp[r] /\ hp'[r] \notin {"cleanup", "gone"}
         \/ /\ hp'[r] \in {"cleanup", "gone"} /\ resp'[r].session = 0
            /\ \/ resp'[r].status = 202
               \/ resp'[r].status = 404 /\ header[r] < minted
               \/ resp'[r].status = 408 /\ ctxDone[r]
               \/ resp'[r].status = 503 /\ closed
  PROVE  Delivered' /\ Excused'
<1> USE DEF clientVars
<1>1. Called' = Called
  BY DEF Called
<1>2. resp[r].status = 0
  BY DEF HttpInv, Excused
<1>3. Delivered'
  <2>1. \A s \in Req : resp[s].status = 200 => resp'[s] = resp[s]
    BY <1>2
  <2>2. \A s \in Req : resp'[s].status = 200 => resp'[s] = resp[s]
    OBVIOUS
  <2>3. QED
    BY <1>1, <2>1, <2>2 DEF HttpInv, Delivered
<1>4. Excused'
  <2>1. \A s \in Req : resp[s].status = 404 => resp'[s] = resp[s]
    BY <1>2
  <2>2. minted \in Nat
    BY DEF HttpInv, HttpTyped
  <2>3. \A s \in Req : header[s] <= minted /\ resp'[s].session <= minted
    BY <2>2 DEF HttpInv, Excused
  <2>4. \A s \in Req : resp'[s].status # 0 <=> hp'[s] \in {"cleanup", "gone"}
    BY <1>2 DEF HttpInv, Excused
  <2>5. \A s \in Req :
          /\ resp'[s].status # 409
          /\ resp'[s].status = 404 => header[s] < minted
          /\ resp'[s].status = 408 => ctxDone[s]
          /\ resp'[s].status = 503 => closed
    BY <1>2 DEF HttpInv, Excused
  <2>6. QED
    BY <2>1, <2>3, <2>4, <2>5 DEF HttpInv, Excused
<1>5. QED
  BY <1>3, <1>4

LEMMA CheckSessionInv == ASSUME HttpInv, NEW r \in Req, CheckSession(r), UNCHANGED clientVars PROVE HttpInv'
<1> USE DEF sessions, loop, answers, clientVars
<1>0. /\ UNCHANGED <<id, header, ctxDone, reply, pending, session, minted, closed, loop, answers>>
      /\ hp[r] = "session" /\ \A s \in Req : s # r => resp'[s] = resp[s] /\ hp'[s] = hp[s]
      /\ resp' \in [Req -> [status : {0, 200, 202, 404, 408, 409, 503},
                            body : Req \cup {NoOne}, session : Nat]]
      /\ hp' \in [Req -> {"none", "session", "register", "handoff", "await", "cleanup", "gone"}]
      /\ \/ /\ hp'[r] = "gone" /\ resp'[r].status = 404 /\ resp'[r].session = 0
            /\ session # 0 /\ header[r] # session
         \/ hp'[r] = "register" /\ resp'[r] = resp[r]
  <2>1. CASE session # 0 /\ Kind[r] # "initialize" /\ header[r] # session
    <3>1. Respond(r, 404, "gone")
      BY <2>1 DEF CheckSession
    <3>2. QED
      BY <2>1, <3>1, Responds DEF HttpInv, CheckSession
  <2>2. CASE ~(session # 0 /\ Kind[r] # "initialize" /\ header[r] # session)
    <3>1. /\ hp \in [Req -> {"none", "session", "register", "handoff", "await", "cleanup", "gone"}]
          /\ resp \in [Req -> [status : {0, 200, 202, 404, 408, 409, 503},
                               body : Req \cup {NoOne}, session : Nat]]
      BY DEF HttpInv, HttpTyped
    <3>2. /\ hp' = [hp EXCEPT ![r] = "register"] /\ hp[r] = "session"
          /\ UNCHANGED <<resp, id, header, ctxDone, reply, pending, session, minted, closed,
                         loop, answers>>
      BY <2>2 DEF CheckSession, Goto
    <3>3. QED
      BY <3>1, <3>2
  <2>3. QED
    BY <2>1, <2>2
<1>1. HttpTyped'
  BY <1>0 DEF HttpInv, HttpTyped
<1>2. Called' = Called
  BY DEF Called
<1>3. Numbered'
  BY <1>0, <1>2 DEF HttpInv, Numbered
<1>4. Served'
  BY <1>0, <1>2 DEF HttpInv, HttpTyped, Served, Early, InHand
<1>5. Slots'
  <2>1. \A s \in Req : PickedUp(s)' <=> PickedUp(s)
    BY <1>0 DEF PickedUp
  <2>2. \A s \in Req : Waiting(s)' <=> Waiting(s)
    BY <1>0 DEF Waiting
  <2>3. \A s \in Req : hp[s] \in {"handoff", "await", "cleanup"} => hp'[s] = hp[s]
    BY <1>0
  <2>4. QED
    BY <1>0, <1>2, <2>1, <2>2, <2>3 DEF HttpInv, HttpTyped, Slots, Called
<1>6. header[r] < minted \/ hp'[r] = "register"
  BY <1>0 DEF HttpInv, HttpTyped, Excused
<1>7. Delivered' /\ Excused'
  BY <1>0, <1>6, HandlerGoesOn
<1>8. QED
  BY <1>1, <1>3, <1>4, <1>5, <1>7 DEF HttpInv

(* Of the requests of one client none finds its id's slot taken.           *)

LEMMA RegisterInv == ASSUME HttpInv, NEW r \in Req, Register(r), UNCHANGED clientVars PROVE HttpInv'
<1> USE DEF sessions, loop, answers, clientVars
<1>0. hp[r] = "register" /\ (Notification(r) \/ (r \in Called /\ pending[id[r]] = NoOne))
  <2>1. hp[r] = "register"
    BY DEF Register
  <2>2. ASSUME ~Notification(r) PROVE r \in Called /\ pending[id[r]] = NoOne
    <3>1. r \in Called /\ id[r] \in Id
      BY <2>1, <2>2 DEF HttpInv, HttpTyped, Served, Called
    <3>2. pending[id[r]] # r
      BY <2>1, <3>1, ServerConstants DEF HttpInv, Slots
    <3>3. pending[id[r]] # NoOne => pending[id[r]] \in Called /\ id[pending[id[r]]] = id[r]
      BY <3>1 DEF HttpInv, Slots
    <3>4. QED
      BY <3>1, <3>2, <3>3 DEF HttpInv, Numbered
  <2>3. QED
    BY <2>1, <2>2
<1>1. /\ UNCHANGED <<id, header, ctxDone, resp, reply, session, minted, closed, loop, answers>>
      /\ hp' = [hp EXCEPT ![r] = "handoff"]
      /\ pending' = IF Notification(r) THEN pending ELSE [pending EXCEPT ![id[r]] = r]
  BY <1>0 DEF Register, Goto
<1>2. HttpTyped'
  BY <1>1 DEF HttpInv, HttpTyped
<1>3. Called' = Called
  BY DEF Called
<1>4. Numbered'
  BY <1>1, <1>3 DEF HttpInv, Numbered
<1>5. Served'
  BY <1>0, <1>1, <1>3 DEF HttpInv, HttpTyped, Served, Early, InHand
<1>6. Slots'
  <2>1. \A s \in Req : PickedUp(s)' <=> PickedUp(s)
    BY <1>1 DEF PickedUp
  <2>2. hp'[r] = "handoff" /\ \A s \in Req : s # r => hp'[s] = hp[s]
    BY <1>1 DEF HttpInv, HttpTyped
  <2>3. CASE Notification(r)
    <3>1. pending' = pending
      BY <1>1, <2>3
    <3>2. QED
      BY <1>0, <1>1, <1>3, <2>1, <2>2, <2>3, <3>1 DEF HttpInv, Slots, Waiting
  <2>4. CASE ~Notification(r)
    <3>1. /\ r \in Called /\ id[r] \in Id /\ pending'[id[r]] = r /\ r # NoOne
          /\ \A i \in Id : i # id[r] => pending'[i] = pending[i]
      BY <1>0, <1>1, <2>4, ServerConstants DEF HttpInv, HttpTyped
    <3>2. \A i \in Id : pending'[i] # NoOne =>
            /\ pending'[i] \in Called /\ id[pending'[i]] = i
            /\ hp'[pending'[i]] \in {"handoff", "await", "cleanup"}
      <4> TAKE i \in Id
      <4>1. CASE i = id[r]
        BY <2>2, <3>1, <4>1
      <4>2. CASE i # id[r]
        <5>1. pending'[i] = pending[i]
          BY <3>1, <4>2
        <5>2. pending[i] # NoOne =>
                /\ pending[i] \in Called /\ id[pending[i]] = i
                /\ hp[pending[i]] \in {"handoff", "await", "cleanup"}
          BY DEF HttpInv, Slots
        <5>3. \A s \in Called : hp[s] \in {"handoff", "await", "cleanup"} => hp'[s] = hp[s]
          BY <1>0, <2>2 DEF Called
        <5>4. QED
          BY <5>1, <5>2, <5>3
      <4>3. QED
        BY <4>1, <4>2
    <3>3. \A s \in Req : Waiting(s)' /\ ~Notification(s) /\ ~PickedUp(s) => pending'[id[s]] = s
      <4> SUFFICES ASSUME NEW s \in Req, Waiting(s)', ~Notification(s), ~PickedUp(s)
                   PROVE  pending'[id[s]] = s
        OBVIOUS
      <4>1. CASE s = r
        BY <3>1, <4>1
      <4>2. CASE s # r
        <5>1. Waiting(s) /\ hp[s] # "none"
          BY <2>2, <4>2 DEF Waiting
        <5>2. s \in Called /\ id[s] \in Id /\ pending[id[s]] = s
          BY <5>1 DEF HttpInv, HttpTyped, Served, Slots, Called
        <5>3. id[s] # id[r]
          BY <3>1, <4>2, <5>2 DEF HttpInv, Numbered
        <5>4. QED
          BY <3>1, <5>2, <5>3
      <4>3. QED
        BY <4>1, <4>2
    <3>4. QED
      BY <1>1, <1>3, <2>1, <3>2, <3>3 DEF Slots
  <2>5. QED
    BY <2>3, <2>4
<1>7. Delivered' /\ Excused'
  <2>1. hp'[r] = "handoff" /\ \A s \in Req : s # r => hp'[s] = hp[s]
    BY <1>1 DEF HttpInv, HttpTyped
  <2>2. QED
    BY <1>0, <1>1, <2>1, HandlerGoesOn
<1>8. QED
  BY <1>2, <1>4, <1>5, <1>6, <1>7 DEF HttpInv

LEMMA GiveUpInv == ASSUME HttpInv, NEW r \in Req, GiveUp(r), UNCHANGED clientVars PROVE HttpInv'
<1> USE DEF sessions, loop, answers, clientVars
<1>0. /\ hp[r] \in {"handoff", "await"}
      /\ UNCHANGED <<id, header, ctxDone, reply, pending, session, minted, closed, loop, answers>>
      /\ \A s \in Req : s # r => resp'[s] = resp[s] /\ hp'[s] = hp[s]
      /\ resp' \in [Req -> [status : {0, 200, 202, 404, 408, 409, 503},
                            body : Req \cup {NoOne}, session : Nat]]
      /\ hp' \in [Req -> {"none", "session", "register", "handoff", "await", "cleanup", "gone"}]
      /\ hp'[r] = (IF Notification(r) THEN "gone" ELSE "cleanup")
      /\ resp'[r].session = 0
      /\ (resp'[r].status = 503 /\ closed) \/ (resp'[r].status = 408 /\ ctxDone[r])
  <2>1. CASE closed /\ Respond(r, 503, IF Notification(r) THEN "gone" ELSE "cleanup")
    BY <2>1, Responds DEF HttpInv, GiveUp, Waiting
  <2>2. CASE ctxDone[r] /\ Respond(r, 408, IF Notification(r) THEN "gone" ELSE "cleanup")
    BY <2>2, Responds DEF HttpInv, GiveUp, Waiting
  <2>3. QED
    BY <2>1, <2>2 DEF GiveUp
<1>1. HttpTyped'
  BY <1>0 DEF HttpInv, HttpTyped
<1>2. Called' = Called
  BY DEF Called
<1>3. Numbered'
  BY <1>0, <1>2 DEF HttpInv, Numbered
<1>4. Served'
  BY <1>0, <1>2 DEF HttpInv, HttpTyped, Served, Early, InHand
<1>5. Slots'
  <2>1. \A s \in Req : PickedUp(s)' <=> PickedUp(s)
    BY <1>0 DEF PickedUp
  <2>2. \A s \in Req : Waiting(s)' => Waiting(s)
    BY <1>0 DEF Waiting
  <2>3. \A s \in Called : hp[s] \in {"handoff", "await", "cleanup"} =>
          hp'[s] \in {"handoff", "await", "cleanup"}
    BY <1>0 DEF Called
  <2>4. QED
    BY <1>0, <1>2, <2>1, <2>2, <2>3 DEF HttpInv, HttpTyped, Slots, Called
<1>6. Delivered' /\ Excused'
  BY <1>0, HandlerGoesOn
<1>7. QED
  BY <1>1, <1>3, <1>4, <1>5, <1>6 DEF HttpInv

LEMMA GetReplyInv == ASSUME HttpInv, NEW r \in Req, GetReply(r), UNCHANGED clientVars PROVE HttpInv'
<1> USE DEF loop, answers, clientVars
<1>0. /\ hp[r] = "await" /\ reply[r] = r /\ ~Notification(r)
      /\ hp' = [hp EXCEPT ![r] = "cleanup"] /\ reply' = [reply EXCEPT ![r] = NoOne]
      /\ UNCHANGED <<id, header, ctxDone, pending, closed, loop, answers>>
  BY DEF GetReply, Goto, HttpInv, Delivered, Served
<1>1. /\ session' \in Nat /\ minted' \in Nat /\ minted <= minted' /\ session' \in {0, minted'}
      /\ \E n \in {0, session'} : resp' = [resp EXCEPT ![r] = [status |-> 200, body |-> r, session |-> n]]
  <2>1. session \in Nat /\ minted \in Nat /\ session \in {0, minted}
    BY DEF HttpInv, HttpTyped, Excused
  <2>2. session' \in Nat /\ minted' \in Nat /\ minted <= minted' /\ session' \in {0, minted'}
    BY <2>1 DEF GetReply, sessions
  <2>3. QED
    BY <1>0, <2>2 DEF GetReply
<1>2. PICK n \in {0, session'} : resp' = [resp EXCEPT ![r] = [status |-> 200, body |-> r, session |-> n]]
  BY <1>1
<1>3. /\ hp'[r] = "cleanup" /\ reply'[r] = NoOne
      /\ \A s \in Req : s # r => hp'[s] = hp[s] /\ reply'[s] = reply[s] /\ resp'[s] = resp[s]
      /\ resp'[r] = [status |-> 200, body |-> r, session |-> n]
  BY <1>0, <1>2 DEF HttpInv, HttpTyped
<1>4. HttpTyped'
  <2>1. resp' \in [Req -> [status : {0, 200, 202, 404, 408, 409, 503},
                           body : Req \cup {NoOne}, session : Nat]]
    BY <1>1, <1>2 DEF HttpInv, HttpTyped
  <2>2. QED
    BY <1>0, <1>1, <2>1 DEF HttpInv, HttpTyped
<1>5. Called' = Called
  BY DEF Called
<1>6. Numbered'
  BY <1>0, <1>5 DEF HttpInv, Numbered
<1>7. Served'
  BY <1>0, <1>3, <1>5 DEF HttpInv, Served, Early, InHand
<1>8. Slots'
  <2>1. \A s \in Req : Waiting(s)' => s # r /\ Waiting(s)
    BY <1>3 DEF Waiting
  <2>2. \A s \in Req : s # r /\ PickedUp(s) => PickedUp(s)'
    BY <1>0, <1>3 DEF PickedUp
  <2>3. \A s \in Req : hp[s] \in {"handoff", "await", "cleanup"} =>
          hp'[s] \in {"handoff", "await", "cleanup"}
    BY <1>3
  <2>4. QED
    BY <1>0, <1>5, <2>1, <2>2, <2>3 DEF HttpInv, Slots, Called
<1>9. Delivered'
  <2>1. \A s \in Req : reply'[s] \in {NoOne, s} /\ ch'[s] \in {NoOne, s}
    BY <1>3 DEF HttpInv, Delivered
  <2>2. \A s \in Req : resp'[s].status = 200 => resp'[s].body = s /\ ~Notification(s)
    BY <1>0, <1>3 DEF HttpInv, Delivered
  <2>3. \A s \in Req : cp[s] = "queue" => resp'[s].status = 200
    BY <1>3 DEF HttpInv, Delivered
  <2>4. QED
    BY <1>5, <2>1, <2>2, <2>3 DEF HttpInv, Delivered
<1>10. Excused'
  <2>1. /\ resp[r].status = 0 /\ known \in Nat /\ minted \in Nat /\ known <= minted
        /\ \A s \in Req : header[s] \in Nat /\ resp[s].session \in Nat
    <3>1. resp[r].status = 0 /\ known <= minted
      BY <1>0 DEF HttpInv, Excused
    <3>2. /\ known \in Nat /\ minted \in Nat
          /\ \A s \in Req : header[s] \in Nat /\ resp[s].session \in Nat
      BY DEF HttpInv, HttpTyped
    <3>3. QED
      BY <3>1, <3>2
  <2>2. \A s \in Req : header[s] <= minted' /\ resp'[s].session <= minted'
    <3>1. \A s \in Req : header[s] <= minted /\ resp[s].session <= minted
      BY DEF HttpInv, Excused
    <3>2. \A s \in Req : header[s] <= minted' /\ resp[s].session <= minted'
      BY <1>1, <2>1, <3>1
    <3>3. n <= minted'
      BY <1>1
    <3>4. QED
      BY <1>3, <3>2, <3>3
  <2>3. \A s \in Req : resp'[s].status # 0 <=> hp'[s] \in {"cleanup", "gone"}
    BY <1>3 DEF HttpInv, Excused
  <2>4. \A s \in Req :
          /\ resp'[s].status # 409
          /\ resp'[s].status = 404 => resp[s].status = 404 /\ header[s] < minted
          /\ resp'[s].status = 408 => ctxDone[s]
          /\ resp'[s].status = 503 => closed
    BY <1>3 DEF HttpInv, Excused
  <2>5. \A s \in Req : resp'[s].status = 404 => header[s] < minted'
    BY <1>1, <2>1, <2>4
  <2>6. \A s \in Req : result[s] = Error =>
          ctxDone[s] \/ ~open \/ closed \/ cancelled \/ resp'[s].status = 404
    BY <1>3, <2>1 DEF HttpInv, Excused
  <2>7. QED
    BY <1>0, <1>1, <2>1, <2>2, <2>3, <2>4, <2>5, <2>6 DEF HttpInv, Excused
<1>11. QED
  BY <1>4, <1>6, <1>7, <1>8, <1>9, <1>10 DEF HttpInv

LEMMA CleanupInv == ASSUME HttpInv, NEW r \in Req, Cleanup(r), UNCHANGED clientVars PROVE HttpInv'
<1> USE DEF sessions, loop, answers, clientVars
<1>0. /\ hp[r] = "cleanup" /\ r \in Called /\ id[r] \in Id
      /\ hp'[r] = "gone" /\ \A s \in Req : s # r => hp'[s] = hp[s]
      /\ pending'[id[r]] = NoOne /\ \A i \in Id : i # id[r] => pending'[i] = pending[i]
      /\ UNCHANGED <<id, header, ctxDone, resp, reply, session, minted, closed, loop, answers>>
  BY DEF Cleanup, Goto, HttpInv, HttpTyped, Served, Called
<1>1. HttpTyped'
  BY DEF Cleanup, Goto, HttpInv, HttpTyped
<1>2. Called' = Called
  BY DEF Called
<1>3. Numbered'
  BY <1>0, <1>2 DEF HttpInv, Numbered
<1>4. Served'
  BY <1>0, <1>2 DEF HttpInv, Served, Early, InHand
<1>5. Slots'
  <2>1. \A s \in Req : PickedUp(s)' <=> PickedUp(s)
    BY <1>0 DEF PickedUp
  <2>2. ASSUME NEW i \in Id, pending'[i] # NoOne
        PROVE  /\ pending'[i] \in Called /\ id[pending'[i]] = i
               /\ hp'[pending'[i]] \in {"handoff", "await", "cleanup"}
    <3>1. i # id[r] /\ pending'[i] = pending[i]
      BY <1>0, <2>2
    <3>2. /\ pending[i] \in Called /\ id[pending[i]] = i
          /\ hp[pending[i]] \in {"handoff", "await", "cleanup"}
      BY <2>2, <3>1 DEF HttpInv, Slots
    <3>3. pending[i] # r
      BY <3>1, <3>2
    <3>4. QED
      BY <1>0, <3>1, <3>2, <3>3 DEF Called
  <2>3. ASSUME NEW s \in Req, Waiting(s)', ~Notification(s), ~PickedUp(s)
        PROVE  pending'[id[s]] = s
    <3>1. s # r /\ Waiting(s) /\ hp[s] # "none"
      BY <1>0, <2>3 DEF Waiting
    <3>2. s \in Called /\ id[s] \in Id /\ pending[id[s]] = s
      BY <2>3, <3>1 DEF HttpInv, HttpTyped, Served, Slots, Called
    <3>3. id[s] # id[r]
      BY <1>0, <3>1, <3>2 DEF HttpInv, Numbered
    <3>4. QED
      BY <1>0, <3>2, <3>3
  <2>4. QED
    BY <1>0, <1>2, <2>1, <2>2, <2>3 DEF Slots
<1>6. Delivered'
  BY <1>0, <1>2 DEF HttpInv, Delivered
<1>7. Excused'
  BY <1>0 DEF HttpInv, Excused
<1>8. QED
  BY <1>1, <1>3, <1>4, <1>5, <1>6, <1>7 DEF HttpInv

LEMMA RecvInv == ASSUME HttpInv, NEW r \in Req, Recv(r), UNCHANGED clientVars PROVE HttpInv'
<1> USE DEF sessions, answers, clientVars
<1>0. /\ hp[r] = "handoff" /\ serve' = "route" /\ frame' = r
      /\ UNCHANGED <<id, header, ctxDone, reply, pending, session, minted, closed, cancelled, answers>>
      /\ \A s \in Req : s # r => resp'[s] = resp[s] /\ hp'[s] = hp[s]
      /\ resp' \in [Req -> [status : {0, 200, 202, 404, 408, 409, 503},
                            body : Req \cup {NoOne}, session : Nat]]
      /\ hp' \in [Req -> {"none", "session", "register", "handoff", "await", "cleanup", "gone"}]
      /\ \/ Notification(r) /\ hp'[r] = "gone" /\ resp'[r].status = 202 /\ resp'[r].session = 0
         \/ ~Notification(r) /\ hp'[r] = "await" /\ resp'[r] = resp[r]
  <2>1. CASE Notification(r)
    <3>1. Respond(r, 202, "gone")
      BY <2>1 DEF Recv
    <3>2. QED
      BY <2>1, <3>1, Responds DEF HttpInv, Recv
  <2>2. CASE ~Notification(r)
    <3>1. UNCHANGED <<id, header, ctxDone, resp>> /\ hp' = [hp EXCEPT ![r] = "await"]
      BY <2>2 DEF Recv, Goto
    <3>2. QED
      BY <2>2, <3>1 DEF Recv, HttpInv, HttpTyped
  <2>3. QED
    BY <2>1, <2>2
<1>1. HttpTyped'
  BY <1>0 DEF HttpInv, HttpTyped
<1>2. Called' = Called
  BY DEF Called
<1>3. Numbered'
  BY <1>0, <1>2 DEF HttpInv, Numbered
<1>4. Served'
  <2>1. work[r] = "none" /\ cp[r] # "idle"
    BY <1>0 DEF HttpInv, Served, Early
  <2>2. \A s \in Req : Early(s)' => s # r /\ Early(s)
    BY <1>0 DEF Early
  <2>3. QED
    BY <1>0, <1>2, <2>1, <2>2 DEF HttpInv, Served, InHand
<1>5. Slots'
  <2>1. \A s \in Req : PickedUp(s)' <=> PickedUp(s)
    BY <1>0 DEF PickedUp
  <2>2. \A s \in Req : Waiting(s)' => Waiting(s)
    BY <1>0 DEF Waiting
  <2>3. \A s \in Called : hp[s] \in {"handoff", "await", "cleanup"} =>
          hp'[s] \in {"handoff", "await", "cleanup"}
    BY <1>0 DEF Called
  <2>4. QED
    BY <1>0, <1>2, <2>1, <2>2, <2>3 DEF HttpInv, Slots
<1>6. Delivered' /\ Excused'
  BY <1>0, HandlerGoesOn
<1>7. QED
  BY <1>1, <1>3, <1>4, <1>5, <1>6 DEF HttpInv

(* Only the answer to a request that no dispatch has taken yet is new.     *)

LEMMA RecvEndsInv == ASSUME HttpInv, RecvEnds, UNCHANGED clientVars PROVE HttpInv'
<1> USE DEF RecvEnds, Return, Moves, Respond, Goto, Sent, Response, NoResponse, Loop,
        handler, sessions, loop, answers, serverVars, clientVars
<1>1. HttpTyped'
  BY ServerConstants, ClientConstants DEF HttpInv, HttpTyped, Pending, Error
<1>2. Called' = Called
  BY DEF HttpInv, HttpTyped, Called
<1>3. Numbered'
  BY <1>2 DEF HttpInv, HttpTyped, Numbered
<1>4. Served'
  BY <1>2 DEF HttpInv, HttpTyped, Served, Early, InHand, Called
<1>5. Slots'
  BY <1>2 DEF HttpInv, HttpTyped, Slots, Waiting, PickedUp, Called
<1>6. Delivered'
  BY <1>2 DEF HttpInv, HttpTyped, Delivered
<1>7. Excused'
  BY <1>2 DEF HttpInv, HttpTyped, Excused
<1>8. QED
  BY <1>1, <1>3, <1>4, <1>5, <1>6, <1>7 DEF HttpInv

LEMMA RouteInv == ASSUME HttpInv, Route, UNCHANGED clientVars PROVE HttpInv'
<1> USE DEF handler, sessions, clientVars
<1>0. /\ serve = "route" /\ frame \in Req /\ work[frame] = "none" /\ cp[frame] # "idle"
      /\ UNCHANGED <<frame, cancelled, dest, handler, reply, pending, sessions, closed>>
      /\ \/ work' = work /\ serve' \in {"recv", "draining"}
         \/ ~Notification(frame) /\ work' = work /\ serve' = "slot"
         \/ /\ ~Notification(frame) /\ serve' = "replying"
            /\ work' = [work EXCEPT ![frame] = "send"]
  BY DEF Route, Loop, HttpInv, Served
<1>1. HttpTyped'
  <2>1. work' \in [Req -> {"none", "tool", "send", "deliver", "ended"}]
    BY <1>0 DEF HttpInv, HttpTyped
  <2>2. QED
    BY <1>0, <2>1 DEF HttpInv, HttpTyped
<1>2. Called' = Called
  BY DEF Called
<1>3. Numbered'
  BY <1>0, <1>2 DEF HttpInv, Numbered
<1>4. /\ \A s \in Req : s # frame => work'[s] = work[s]
      /\ work'[frame] = "none" \/ (work'[frame] = "send" /\ frame \in Called)
  BY <1>0 DEF HttpInv, HttpTyped, Called
<1>5. Served'
  <2>1. \A s \in Req : Early(s)' => Early(s) /\ s # frame
    BY <1>0 DEF HttpInv, Served, Early, InHand
  <2>2. \A s \in Req : work'[s] # "none" => s \in Called
    BY <1>4 DEF HttpInv, Served
  <2>3. \A s \in Req : work'[s] = "deliver" => dest[s] = s
    BY <1>4 DEF HttpInv, Served
  <2>4. \A s \in Req : Early(s)' => work'[s] = "none" /\ ~InHand(s)'
    BY <1>0, <1>4, <2>1 DEF HttpInv, Served, InHand
  <2>5. QED
    BY <1>0, <1>2, <2>2, <2>3, <2>4 DEF HttpInv, Served
<1>6. Slots'
  <2>1. \A s \in Req : PickedUp(s) => PickedUp(s)'
    BY <1>0, <1>4 DEF PickedUp
  <2>2. \A s \in Req : Waiting(s)' <=> Waiting(s)
    BY <1>0 DEF Waiting
  <2>3. QED
    BY <1>0, <1>2, <2>1, <2>2 DEF HttpInv, Slots
<1>7. Delivered'
  BY <1>0, <1>2 DEF HttpInv, Delivered
<1>8. Excused'
  BY <1>0 DEF HttpInv, Excused
<1>9. QED
  BY <1>1, <1>3, <1>5, <1>6, <1>7, <1>8 DEF HttpInv

LEMMA AcquireSlotInv == ASSUME HttpInv, AcquireSlot, UNCHANGED clientVars PROVE HttpInv'
<1> USE DEF handler, sessions, clientVars
<1>0. /\ serve = "slot" /\ frame \in Called /\ work[frame] = "none"
      /\ UNCHANGED <<frame, cancelled, dest, handler, reply, pending, sessions, closed>>
      /\ serve' \in {"recv", "draining"}
      /\ work' \in {work, [work EXCEPT ![frame] = "tool"]}
  BY DEF AcquireSlot, Loop, HttpInv, Served, Called
<1>1. HttpTyped'
  <2>1. work \in [Req -> {"none", "tool", "send", "deliver", "ended"}]
    BY DEF HttpInv, HttpTyped
  <2>2. work' \in [Req -> {"none", "tool", "send", "deliver", "ended"}]
    BY <1>0, <2>1
  <2>3. QED
    BY <1>0, <2>2 DEF HttpInv, HttpTyped
<1>2. Called' = Called
  BY DEF Called
<1>3. Numbered'
  BY <1>0, <1>2 DEF HttpInv, Numbered
<1>4. \A s \in Req : work'[s] = work[s] \/ (s = frame /\ work'[s] = "tool")
  BY <1>0 DEF HttpInv, HttpTyped, Called
<1>5. Served'
  BY <1>0, <1>2, <1>4 DEF HttpInv, Served, Early, InHand
<1>6. Slots'
  <2>1. \A s \in Req : PickedUp(s) => PickedUp(s)'
    BY <1>0, <1>4 DEF PickedUp
  <2>2. \A s \in Req : Waiting(s)' <=> Waiting(s)
    BY <1>0 DEF Waiting
  <2>3. QED
    BY <1>0, <1>2, <2>1, <2>2 DEF HttpInv, Slots
<1>7. Delivered'
  BY <1>0, <1>2 DEF HttpInv, Delivered
<1>8. Excused'
  BY <1>0 DEF HttpInv, Excused
<1>9. QED
  BY <1>1, <1>3, <1>5, <1>6, <1>7, <1>8 DEF HttpInv

(* Send finds the waiter of its own request, or none.                      *)

LEMMA StopInv == ASSUME HttpInv, Stop, UNCHANGED clientVars PROVE HttpInv'
<1> USE DEF Stop, Return, Moves, Respond, Goto, Sent, Response, NoResponse, Loop,
        handler, sessions, loop, answers, serverVars, clientVars
<1>1. HttpTyped'
  BY ServerConstants, ClientConstants DEF HttpInv, HttpTyped, Pending, Error
<1>2. Called' = Called
  BY DEF HttpInv, HttpTyped, Called
<1>3. Numbered'
  BY <1>2 DEF HttpInv, HttpTyped, Numbered
<1>4. Served'
  BY <1>2 DEF HttpInv, HttpTyped, Served, Early, InHand, Called
<1>5. Slots'
  BY <1>2 DEF HttpInv, HttpTyped, Slots, Waiting, PickedUp, Called
<1>6. Delivered'
  BY <1>2 DEF HttpInv, HttpTyped, Delivered
<1>7. Excused'
  BY <1>2 DEF HttpInv, HttpTyped, Excused
<1>8. QED
  BY <1>1, <1>3, <1>4, <1>5, <1>6, <1>7 DEF HttpInv

LEMMA ToolReturnsInv == ASSUME HttpInv, NEW r \in Req, ToolReturns(r), UNCHANGED clientVars PROVE HttpInv'
<1> USE DEF ToolReturns, Return, Moves, Respond, Goto, Sent, Response, NoResponse, Loop,
        handler, sessions, loop, answers, serverVars, clientVars
<1>1. HttpTyped'
  BY ServerConstants, ClientConstants DEF HttpInv, HttpTyped, Pending, Error
<1>2. Called' = Called
  BY DEF HttpInv, HttpTyped, Called
<1>3. Numbered'
  BY <1>2 DEF HttpInv, HttpTyped, Numbered
<1>4. Served'
  BY <1>2 DEF HttpInv, HttpTyped, Served, Early, InHand, Called
<1>5. Slots'
  BY <1>2 DEF HttpInv, HttpTyped, Slots, Waiting, PickedUp, Called
<1>6. Delivered'
  BY <1>2 DEF HttpInv, HttpTyped, Delivered
<1>7. Excused'
  BY <1>2 DEF HttpInv, HttpTyped, Excused
<1>8. QED
  BY <1>1, <1>3, <1>4, <1>5, <1>6, <1>7 DEF HttpInv

LEMMA SendInv == ASSUME HttpInv, NEW r \in Req, Send(r), UNCHANGED clientVars PROVE HttpInv'
<1> USE DEF handler, sessions, clientVars
<1>0. /\ work[r] = "send" /\ r \in Called /\ id[r] \in Id /\ ~InHand(r)
      /\ pending[id[r]] \in {NoOne, r} /\ r # NoOne
  <2>1. work[r] = "send" /\ r \in Called /\ id[r] \in Id /\ ~InHand(r)
    BY DEF Send, HttpInv, HttpTyped, Served, InHand
  <2>2. pending[id[r]] # NoOne => pending[id[r]] \in Called /\ id[pending[id[r]]] = id[r]
    BY <2>1 DEF HttpInv, Slots
  <2>3. QED
    BY <2>1, <2>2, ServerConstants DEF HttpInv, Numbered
<1>1. /\ UNCHANGED <<frame, cancelled, handler, reply, sessions, closed>>
      /\ serve' = serve \/ (serve = "replying" /\ serve' \in {"recv", "draining"})
      /\ \A s \in Req : s # r => work'[s] = work[s] /\ dest'[s] = dest[s]
      /\ \/ work'[r] = "ended" /\ UNCHANGED <<pending, dest>>
         \/ /\ work'[r] = "deliver" /\ dest'[r] = r
            /\ pending' = [pending EXCEPT ![id[r]] = NoOne]
      /\ work' \in [Req -> {"none", "tool", "send", "deliver", "ended"}]
      /\ dest' \in [Req -> Req \cup {NoOne}]
  <2>1. /\ work \in [Req -> {"none", "tool", "send", "deliver", "ended"}]
        /\ dest \in [Req -> Req \cup {NoOne}]
    BY DEF HttpInv, HttpTyped
  <2>2. UNCHANGED <<frame, cancelled, handler, reply, sessions, closed>>
    BY DEF Send
  <2>3. \/ /\ work' = [work EXCEPT ![r] = "ended"] /\ UNCHANGED <<pending, dest>>
           /\ serve' = IF serve = "replying" /\ frame = r THEN Loop ELSE serve
        \/ /\ work' = [work EXCEPT ![r] = "deliver"] /\ dest' = [dest EXCEPT ![r] = r]
           /\ pending' = [pending EXCEPT ![id[r]] = NoOne] /\ serve' = serve
    BY <1>0 DEF Send, Sent
  <2>4. CASE work' = [work EXCEPT ![r] = "ended"] /\ UNCHANGED <<pending, dest>>
    BY <2>1, <2>2, <2>3, <2>4 DEF Loop
  <2>5. CASE /\ work' = [work EXCEPT ![r] = "deliver"] /\ dest' = [dest EXCEPT ![r] = r]
             /\ pending' = [pending EXCEPT ![id[r]] = NoOne] /\ serve' = serve
    BY <2>1, <2>2, <2>5
  <2>6. QED
    BY <2>3, <2>4, <2>5
<1>2. HttpTyped'
  <2>0. /\ serve \in {"recv", "route", "replying", "slot", "draining", "stopped"}
        /\ pending \in [Id -> Req \cup {NoOne}]
    BY DEF HttpInv, HttpTyped
  <2>1. /\ serve' \in {"recv", "route", "replying", "slot", "draining", "stopped"}
        /\ pending' \in [Id -> Req \cup {NoOne}]
    <3>1. serve' \in {"recv", "route", "replying", "slot", "draining", "stopped"}
      BY <1>1, <2>0
    <3>2. pending' = pending \/ pending' = [pending EXCEPT ![id[r]] = NoOne]
      BY <1>1
    <3>3. QED
      BY <2>0, <3>1, <3>2
  <2>2. /\ work' \in [Req -> {"none", "tool", "send", "deliver", "ended"}]
        /\ dest' \in [Req -> Req \cup {NoOne}]
    BY <1>1
  <2>3. UNCHANGED <<hp, id, header, ctxDone, resp, reply, session, minted, known, lastId,
                    cp, result, ch, replies>>
    BY <1>1 DEF handler, sessions, clientVars
  <2>4. QED
    BY <2>1, <2>2, <2>3 DEF HttpInv, HttpTyped
<1>3. Called' = Called
  BY DEF Called
<1>4. Numbered'
  BY <1>1, <1>3 DEF HttpInv, Numbered
<1>5. Served'
  <2>1. \A s \in Req : Early(s)' <=> Early(s)
    BY <1>1 DEF Early
  <2>2. \A s \in Req : InHand(s)' <=> InHand(s)
    BY <1>1 DEF InHand
  <2>3. \A s \in Req : Early(s) => work'[s] = "none" /\ ~InHand(s)
    BY <1>0, <1>1 DEF HttpInv, Served
  <2>4. serve' \in {"route", "slot"} => serve' = serve /\ frame # r
    BY <1>0, <1>1 DEF InHand
  <2>5. \A s \in Req : work'[s] # "none" => s \in Called
    BY <1>0, <1>1 DEF HttpInv, Served
  <2>6. \A s \in Req : work'[s] = "deliver" => dest'[s] = s
    BY <1>0, <1>1 DEF HttpInv, Served
  <2>7. QED
    BY <1>1, <1>3, <2>1, <2>2, <2>3, <2>4, <2>5, <2>6 DEF HttpInv, Served
<1>6. Slots'
  <2>1. \A s \in Req : PickedUp(s) => PickedUp(s)'
    BY <1>0, <1>1 DEF PickedUp
  <2>2. \A s \in Req : Waiting(s)' <=> Waiting(s)
    BY <1>1 DEF Waiting
  <2>3. CASE UNCHANGED pending
    BY <1>1, <1>3, <2>1, <2>2, <2>3 DEF HttpInv, Slots
  <2>4. CASE work'[r] = "deliver" /\ dest'[r] = r /\ pending' = [pending EXCEPT ![id[r]] = NoOne]
    <3>1. PickedUp(r)'
      BY <2>4 DEF PickedUp
    <3>2. pending'[id[r]] = NoOne /\ \A i \in Id : i # id[r] => pending'[i] = pending[i]
      BY <1>0, <2>4 DEF HttpInv, HttpTyped
    <3>3. ASSUME NEW s \in Req, Waiting(s), ~Notification(s), ~PickedUp(s)'
          PROVE  pending'[id[s]] = s
      <4>1. s # r /\ hp[s] # "none" /\ ~PickedUp(s)
        BY <2>1, <3>1, <3>3 DEF Waiting
      <4>2. s \in Called /\ id[s] \in Id /\ pending[id[s]] = s
        BY <3>3, <4>1 DEF HttpInv, HttpTyped, Served, Slots, Called
      <4>3. id[s] # id[r]
        BY <1>0, <4>1, <4>2 DEF HttpInv, Numbered
      <4>4. QED
        BY <3>2, <4>2, <4>3
    <3>4. \A i \in Id : pending'[i] # NoOne => pending'[i] = pending[i]
      BY <3>2
    <3>5. QED
      BY <1>1, <1>3, <2>2, <3>3, <3>4 DEF HttpInv, Slots
  <2>5. QED
    BY <1>1, <2>3, <2>4
<1>7. Delivered'
  BY <1>1, <1>3 DEF HttpInv, Delivered
<1>8. Excused'
  BY <1>1 DEF HttpInv, Excused
<1>9. QED
  BY <1>2, <1>4, <1>5, <1>6, <1>7, <1>8 DEF HttpInv

LEMMA DeliverInv == ASSUME HttpInv, NEW r \in Req, Deliver(r), UNCHANGED clientVars PROVE HttpInv'
<1> USE DEF handler, sessions, clientVars
<1>0. work[r] = "deliver" /\ dest[r] = r /\ r \in Called /\ ~InHand(r)
  BY DEF Deliver, HttpInv, Served, InHand
<1>1. /\ UNCHANGED <<dest, frame, cancelled, handler, pending, sessions, closed>>
      /\ serve' = serve \/ (serve = "replying" /\ serve' \in {"recv", "draining"})
      /\ work'[r] = "ended" /\ \A s \in Req : s # r => work'[s] = work[s]
      /\ reply' \in {reply, [reply EXCEPT ![r] = r]}
      /\ work' \in [Req -> {"none", "tool", "send", "deliver", "ended"}]
  BY <1>0 DEF Deliver, Sent, Loop, HttpInv, HttpTyped
<1>2. reply' \in [Req -> Req \cup {NoOne}] /\ \A s \in Req : reply'[s] = reply[s] \/ (s = r /\ reply'[s] = r)
  BY <1>1 DEF HttpInv, HttpTyped
<1>3. HttpTyped'
  BY <1>1, <1>2 DEF HttpInv, HttpTyped
<1>4. Called' = Called
  BY DEF Called
<1>5. Numbered'
  BY <1>1, <1>4 DEF HttpInv, Numbered
<1>6. Served'
  <2>1. \A s \in Req : Early(s)' <=> Early(s)
    BY <1>1 DEF Early
  <2>2. \A s \in Req : InHand(s)' <=> InHand(s)
    BY <1>1 DEF InHand
  <2>3. \A s \in Req : Early(s) => work'[s] = "none" /\ ~InHand(s)
    BY <1>0, <1>1 DEF HttpInv, Served
  <2>4. serve' \in {"route", "slot"} => serve' = serve /\ frame # r
    BY <1>0, <1>1 DEF InHand
  <2>5. \A s \in Req : work'[s] # "none" => s \in Called
    BY <1>0, <1>1 DEF HttpInv, Served
  <2>6. \A s \in Req : work'[s] = "deliver" => dest[s] = s
    BY <1>0, <1>1 DEF HttpInv, Served
  <2>7. QED
    BY <1>1, <1>4, <2>1, <2>2, <2>3, <2>4, <2>5, <2>6 DEF HttpInv, Served
<1>7. Slots'
  <2>1. \A s \in Req : PickedUp(s) => PickedUp(s)'
    BY <1>0, <1>1, <1>2, ServerConstants DEF PickedUp
  <2>2. \A s \in Req : Waiting(s)' <=> Waiting(s)
    BY <1>1 DEF Waiting
  <2>3. QED
    BY <1>1, <1>4, <2>1, <2>2 DEF HttpInv, Slots
<1>8. Delivered'
  <2>1. \A s \in Req : reply'[s] \in {NoOne, s}
    BY <1>2 DEF HttpInv, Delivered
  <2>2. QED
    BY <1>1, <1>4, <2>1 DEF HttpInv, Delivered
<1>9. Excused'
  BY <1>1 DEF HttpInv, Excused
<1>10. QED
  BY <1>3, <1>5, <1>6, <1>7, <1>8, <1>9 DEF HttpInv

LEMMA DeleteSessionInv == ASSUME HttpInv, DeleteSession, UNCHANGED clientVars PROVE HttpInv'
<1> USE DEF DeleteSession, Return, Moves, Respond, Goto, Sent, Response, NoResponse, Loop,
        handler, sessions, loop, answers, serverVars, clientVars
<1>1. HttpTyped'
  BY ServerConstants, ClientConstants DEF HttpInv, HttpTyped, Pending, Error
<1>2. Called' = Called
  BY DEF HttpInv, HttpTyped, Called
<1>3. Numbered'
  BY <1>2 DEF HttpInv, HttpTyped, Numbered
<1>4. Served'
  BY <1>2 DEF HttpInv, HttpTyped, Served, Early, InHand, Called
<1>5. Slots'
  BY <1>2 DEF HttpInv, HttpTyped, Slots, Waiting, PickedUp, Called
<1>6. Delivered'
  BY <1>2 DEF HttpInv, HttpTyped, Delivered
<1>7. Excused'
  BY <1>2 DEF HttpInv, HttpTyped, Excused
<1>8. QED
  BY <1>1, <1>3, <1>4, <1>5, <1>6, <1>7 DEF HttpInv

LEMMA CancelServeInv == ASSUME HttpInv, CancelServe, UNCHANGED clientVars PROVE HttpInv'
<1> USE DEF CancelServe, Return, Moves, Respond, Goto, Sent, Response, NoResponse, Loop,
        handler, sessions, loop, answers, serverVars, clientVars
<1>1. HttpTyped'
  BY ServerConstants, ClientConstants DEF HttpInv, HttpTyped, Pending, Error
<1>2. Called' = Called
  BY DEF HttpInv, HttpTyped, Called
<1>3. Numbered'
  BY <1>2 DEF HttpInv, HttpTyped, Numbered
<1>4. Served'
  BY <1>2 DEF HttpInv, HttpTyped, Served, Early, InHand, Called
<1>5. Slots'
  BY <1>2 DEF HttpInv, HttpTyped, Slots, Waiting, PickedUp, Called
<1>6. Delivered'
  BY <1>2 DEF HttpInv, HttpTyped, Delivered
<1>7. Excused'
  BY <1>2 DEF HttpInv, HttpTyped, Excused
<1>8. QED
  BY <1>1, <1>3, <1>4, <1>5, <1>6, <1>7 DEF HttpInv

LEMMA CloseTransportInv == ASSUME HttpInv, CloseTransport, UNCHANGED clientVars PROVE HttpInv'
<1> USE DEF CloseTransport, Return, Moves, Respond, Goto, Sent, Response, NoResponse, Loop,
        handler, sessions, loop, answers, serverVars, clientVars
<1>1. HttpTyped'
  BY ServerConstants, ClientConstants DEF HttpInv, HttpTyped, Pending, Error
<1>2. Called' = Called
  BY DEF HttpInv, HttpTyped, Called
<1>3. Numbered'
  BY <1>2 DEF HttpInv, HttpTyped, Numbered
<1>4. Served'
  BY <1>2 DEF HttpInv, HttpTyped, Served, Early, InHand, Called
<1>5. Slots'
  BY <1>2 DEF HttpInv, HttpTyped, Slots, Waiting, PickedUp, Called
<1>6. Delivered'
  BY <1>2 DEF HttpInv, HttpTyped, Delivered
<1>7. Excused'
  BY <1>2 DEF HttpInv, HttpTyped, Excused
<1>8. QED
  BY <1>1, <1>3, <1>4, <1>5, <1>6, <1>7 DEF HttpInv

LEMMA HttpStutters == ASSUME HttpInv, UNCHANGED vars PROVE HttpInv'
<1> USE DEF vars, serverVars, clientVars, handler, sessions, loop, answers
<1>1. Called' = Called
  BY DEF Called
<1>2. HttpTyped' /\ Numbered'
  BY <1>1 DEF HttpInv, HttpTyped, Numbered
<1>3. Served' /\ Slots'
  BY <1>1 DEF HttpInv, Served, Slots, Early, InHand, Waiting, PickedUp
<1>4. Delivered' /\ Excused'
  BY <1>1 DEF HttpInv, Delivered, Excused
<1>5. QED
  BY <1>2, <1>3, <1>4 DEF HttpInv

(* A call takes the next number: no other request ever carries it.         *)
LEMMA CallsAreNumbered ==
  ASSUME HttpInv, NEW r \in Req, cp[r] = "idle", ~Notification(r),
         lastId' = lastId + 1, id' = [id EXCEPT ![r] = lastId'],
         Called' = Called \cup {r}
  PROVE  Numbered' /\ id' \in [Req -> Id] /\ lastId' \in Nat
<1>1. r \notin Called /\ Called \subseteq Req /\ IsFiniteSet(Req)
  BY ServerConstants DEF Called
<1>2. IsFiniteSet(Called) /\ Cardinality(Called) \in Nat
  BY <1>1, FS_Subset, FS_CardinalityType
<1>3. Cardinality(Called') = Cardinality(Called) + 1 /\ IsFiniteSet(Called')
  BY <1>1, <1>2, FS_AddElement
<1>4. Called' \subseteq Req
  BY <1>1
<1>5. Cardinality(Called') <= Cardinality(Req) /\ Cardinality(Req) \in Nat
  BY <1>1, <1>4, FS_Subset, FS_CardinalityType
<1>6. lastId = Cardinality(Called) /\ \A s \in Called : id[s] <= lastId
  BY DEF HttpInv, Numbered
<1>7. lastId' \in Id /\ lastId' = Cardinality(Called') /\ lastId' \in Nat
  BY <1>2, <1>3, <1>5, <1>6, ClientConstants
<1>8. id \in [Req -> Id] /\ Id \subseteq Nat
  BY ClientConstants DEF HttpInv, HttpTyped
<1>9. id' \in [Req -> Id] /\ id'[r] = lastId' /\ \A s \in Req : s # r => id'[s] = id[s]
  BY <1>7, <1>8
<1>10. \A s \in Called : id'[s] = id[s] /\ id[s] <= lastId /\ id[s] \in Nat
  BY <1>1, <1>6, <1>8, <1>9
<1>11. \A s \in Called : id'[s] < lastId'
  BY <1>2, <1>6, <1>10
<1>12. \A s \in Called' : id'[s] <= lastId'
  BY <1>7, <1>9, <1>10, <1>11
<1>13. \A s, t \in Called' : id'[s] = id'[t] => s = t
  <2>1. \A s, t \in Called : id'[s] = id'[t] => s = t
    BY <1>10 DEF HttpInv, Numbered
  <2>2. \A s \in Called : id'[s] # id'[r]
    BY <1>7, <1>9, <1>10, <1>11
  <2>3. QED
    BY <2>1, <2>2
<1>14. QED
  BY <1>7, <1>9, <1>12, <1>13 DEF Numbered

LEMMA HttpCallInv == ASSUME HttpInv, NEW r \in Req, Call(r) PROVE HttpInv'
<1>0. /\ cp[r] = "idle" /\ hp[r] = "none" /\ work[r] = "none" /\ r \notin Called
      /\ ~InHand(r) /\ resp[r].status = 0 /\ r \notin waiting
  <2>1. cp[r] = "idle" /\ hp[r] = "none"
    BY DEF Call, HttpInv, Served
  <2>2. QED
    BY <2>1 DEF HttpInv, Served, Delivered, Excused, Early, Called
<1>1. UNCHANGED <<ctxDone, resp, ch, replies, known, open, dispatching,
                  reply, pending, sessions, closed, loop, answers>>
  BY DEF Call, Return
<1>2. /\ cp' \in [Req -> {"idle", "posting", "queue", "wait", "returned"}]
      /\ cp'[r] \in {"posting", "returned"} /\ \A s \in Req : s # r => cp'[s] = cp[s]
  <2>1. cp \in [Req -> {"idle", "posting", "queue", "wait", "returned"}]
    BY DEF HttpInv, HttpTyped
  <2>2. cp' = [cp EXCEPT ![r] = "posting"] \/ cp' = [cp EXCEPT ![r] = "returned"]
    BY DEF Call, Return
  <2>3. QED
    BY <2>1, <2>2
<1>3. Called' = IF Notification(r) THEN Called ELSE Called \cup {r}
  BY <1>0, <1>2 DEF Called
<1>4. /\ Numbered' /\ id' \in [Req -> Id] /\ lastId' \in Nat
      /\ \A s \in Called : id'[s] = id[s]
  <2>1. CASE Notification(r)
    <3>1. UNCHANGED <<lastId, id>>
      BY <2>1 DEF Call
    <3>2. QED
      BY <1>3, <2>1, <3>1 DEF HttpInv, HttpTyped, Numbered
  <2>2. CASE ~Notification(r)
    <3>1. lastId' = lastId + 1 /\ id' = [id EXCEPT ![r] = lastId']
      BY <2>2 DEF Call
    <3>2. \A s \in Called : id'[s] = id[s]
      BY <1>0, <3>1 DEF Called, HttpInv, HttpTyped
    <3>3. QED
      BY <1>0, <1>3, <2>2, <3>1, <3>2, CallsAreNumbered
  <2>3. QED
    BY <2>1, <2>2
<1>5. /\ hp' \in [Req -> {"none", "session", "register", "handoff", "await", "cleanup", "gone"}]
      /\ hp'[r] \in {"none", "session"} /\ \A s \in Req : s # r => hp'[s] = hp[s]
      /\ header' \in [Req -> Nat]
      /\ header'[r] \in {header[r], known} /\ \A s \in Req : s # r => header'[s] = header[s]
  <2>1. /\ hp \in [Req -> {"none", "session", "register", "handoff", "await", "cleanup", "gone"}]
        /\ header \in [Req -> Nat] /\ known \in Nat
    BY DEF HttpInv, HttpTyped
  <2>2. \/ hp' = hp /\ header' = header
        \/ hp' = [hp EXCEPT ![r] = "session"] /\ header' = [header EXCEPT ![r] = known]
    BY DEF Call
  <2>3. QED
    BY <1>0, <2>1, <2>2
<1>6. /\ result' \in [Req -> Req \cup {Pending, Error}]
      /\ \A s \in Req : s # r => result'[s] = result[s]
      /\ result'[r] = result[r] \/ (result'[r] = Error /\ (~open \/ closed))
      /\ waiting' \subseteq Called'
  <2>1. result \in [Req -> Req \cup {Pending, Error}] /\ waiting \subseteq Called
    BY DEF HttpInv, HttpTyped, Delivered
  <2>2. \/ result' = result /\ (waiting' = IF Notification(r) THEN waiting ELSE waiting \cup {r})
        \/ result' = [result EXCEPT ![r] = Error] /\ (~open \/ closed) /\ waiting' = waiting \ {r}
    BY DEF Call, Return
  <2>3. QED
    BY <1>3, <2>1, <2>2
<1> USE DEF sessions, loop, answers
<1>7. HttpTyped'
  BY <1>1, <1>2, <1>4, <1>5, <1>6 DEF HttpInv, HttpTyped
<1>8. Served'
  <2>1. \A s \in Req : Early(s)' <=> Early(s)
    BY <1>0, <1>5 DEF Early
  <2>2. \A s \in Req : InHand(s)' <=> InHand(s)
    BY <1>1 DEF InHand
  <2>3. \A s \in Req : cp[s] # "idle" => cp'[s] # "idle"
    BY <1>2
  <2>4. \A s \in Req : hp'[s] # "none" => cp'[s] # "idle"
    BY <1>2, <1>5 DEF HttpInv, Served
  <2>5. \A s \in Req : hp'[s] \in {"await", "cleanup"} => hp[s] = hp'[s]
    BY <1>5
  <2>6. QED
    BY <1>1, <1>3, <2>1, <2>2, <2>3, <2>4, <2>5 DEF HttpInv, Served
<1>9. Slots'
  <2>1. \A s \in Req : PickedUp(s)' <=> PickedUp(s)
    BY <1>1 DEF PickedUp
  <2>2. \A s \in Req : Waiting(s)' => Waiting(s) /\ hp[s] # "none"
    BY <1>5 DEF Waiting
  <2>3. \A s \in Req : hp[s] \in {"handoff", "await", "cleanup"} => hp'[s] = hp[s]
    BY <1>0, <1>5
  <2>4. \A s \in Called : s \in Called' /\ s \in Req
    BY <1>3 DEF Called
  <2>5. \A i \in Id : pending[i] # NoOne =>
          /\ pending[i] \in Called' /\ id'[pending[i]] = i
          /\ hp'[pending[i]] \in {"handoff", "await", "cleanup"}
    BY <1>4, <2>3, <2>4 DEF HttpInv, Slots
  <2>6. ASSUME NEW s \in Req, Waiting(s)', ~Notification(s), ~PickedUp(s)
        PROVE  pending[id'[s]] = s
    <3>1. Waiting(s) /\ s \in Called
      BY <2>2, <2>6 DEF HttpInv, Served, Called
    <3>2. QED
      BY <1>4, <2>6, <3>1 DEF HttpInv, Slots
  <2>7. QED
    BY <1>1, <2>1, <2>5, <2>6 DEF Slots
<1>10. Delivered'
  <2>1. \A s \in Req : cp'[s] = "queue" => cp[s] = "queue"
    BY <1>2
  <2>2. \A s \in Req : result'[s] \in {Pending, Error, s}
    BY <1>6 DEF HttpInv, Delivered
  <2>3. \A s \in Called : s \in Called'
    BY <1>3
  <2>4. QED
    BY <1>1, <1>6, <2>1, <2>2, <2>3 DEF HttpInv, Delivered
<1>11. Excused'
  <2>1. \A s \in Req : header'[s] <= minted
    BY <1>5 DEF HttpInv, Excused
  <2>2. \A s \in Req : resp[s].status = 404 => header'[s] = header[s]
    BY <1>0, <1>5
  <2>3. \A s \in Req : resp[s].status # 0 <=> hp'[s] \in {"cleanup", "gone"}
    BY <1>0, <1>5 DEF HttpInv, Excused
  <2>4. \A s \in Req : result'[s] = Error =>
          ctxDone[s] \/ ~open \/ closed \/ cancelled \/ resp[s].status = 404
    BY <1>6 DEF HttpInv, Excused
  <2>5. QED
    BY <1>1, <2>1, <2>2, <2>3, <2>4 DEF HttpInv, Excused
<1>12. QED
  BY <1>4, <1>7, <1>8, <1>9, <1>10, <1>11 DEF HttpInv

LEMMA HttpStepInv == ASSUME HttpInv, Next PROVE HttpInv'
<1>1. ASSUME ServerSteps PROVE HttpInv'
  BY <1>1, RecvEndsInv, RouteInv, AcquireSlotInv, StopInv, RecvInv, CheckSessionInv,
     RegisterInv, GiveUpInv, GetReplyInv, CleanupInv, ToolReturnsInv, SendInv, DeliverInv
     DEF ServerSteps, Serving, Handler, Answer
<1>2. ASSUME NEW r \in Req, Caller(r) PROVE HttpInv'
  BY <1>2, HttpReturnsInv, QueueReplyInv, TakeReplyInv, CallEndsInv DEF Caller
<1>3. ASSUME Dispatching PROVE HttpInv'
  BY <1>3, DispatchReplyInv, DispatchStopsInv DEF Dispatching
<1>4. ASSUME Environment PROVE HttpInv'
  BY <1>4, ContextEndsInv, CloseClientInv, DeleteSessionInv, CancelServeInv,
     CloseTransportInv, ClientConstants DEF Environment, Host
<1>5. ASSUME Calls PROVE HttpInv'
  BY <1>5, HttpCallInv DEF Calls
<1>6. QED
  BY <1>1, <1>2, <1>3, <1>4, <1>5 DEF Next, Goroutines

LEMMA HttpHolds == HttpInv => AnswersItsOwnCall /\ SlotsBelongToHandlers
<1> SUFFICES ASSUME HttpInv PROVE AnswersItsOwnCall /\ SlotsBelongToHandlers
  OBVIOUS
<1>1. \A r \in Req : header[r] < minted => header[r] # minted
  BY DEF HttpInv, HttpTyped
<1>2. AnswersItsOwnCall
  BY <1>1 DEF HttpInv, Delivered, Excused, AnswersItsOwnCall
<1>3. SlotsBelongToHandlers
  BY DEF HttpInv, Slots, SlotsBelongToHandlers
<1>4. QED
  BY <1>2, <1>3

-----------------------------------------------------------------------------
(***************************************************************************)
(* A behaviour is about one of the two transports, or about the tasks of   *)
(* A2A; what it is not about stands still, and keeps its invariant.        *)
(***************************************************************************)
McpInv == HttpInv /\ SseInv

THEOREM McpInductive == MCSpec => []McpInv
<1>1. MCInit => McpInv
  BY HttpInitInv, SseInitInv DEF MCInit, McpInv
<1>2. McpInv /\ [MCNext]_mcVars => McpInv'
  <2> SUFFICES ASSUME McpInv, [MCNext]_mcVars PROVE McpInv'
    OBVIOUS
  <2>1. CASE Next /\ UNCHANGED sseVars
    BY <2>1, HttpStepInv, SseStutters DEF McpInv, sseVars
  <2>2. CASE SseNext /\ UNCHANGED vars
    BY <2>2, HttpStutters, SseStepInv DEF McpInv
  <2>3. CASE UNCHANGED <<vars, sseVars>>
    BY <2>3, HttpStutters, SseStutters DEF McpInv, sseVars
  <2>4. QED
    BY <2>1, <2>2, <2>3 DEF MCNext, mcVars
<1>3. QED
  BY <1>1, <1>2, PTL DEF MCSpec

(* Over streamable HTTP a call returns the reply to its own request, or an *)
(* error with a cause outside the protocol (pkg/mcp: client.call,          *)
(* dispatchLoop, HTTPServerTransport.Send).                                *)
THEOREM AnswersFindTheirCalls == MCSpec => []AnswersItsOwnCall
<1>1. McpInv => AnswersItsOwnCall
  BY HttpHolds DEF McpInv
<1>2. QED
  BY <1>1, McpInductive, PTL

(* Over SSE that is not so, and this bounds what else a call may return:   *)
(* the reply to the request of the same id of a peer whose session the     *)
(* caller's replaced (pkg/mcp: client.call, SSEServerTransport.Send).      *)
THEOREM StraysAreExplained == MCSpec => []RepliesAreAccountedFor
<1>1. McpInv => RepliesAreAccountedFor
  BY HttpHolds, SseHolds DEF McpInv, RepliesAreAccountedFor
<1>2. QED
  BY <1>1, McpInductive, PTL

(* A request that waits owns the slot of its id and no slot outlives its   *)
(* handler; no Send writes on a stream whose handler has returned          *)
(* (pkg/mcp: handlePost, handleSSE, Send).                                 *)
THEOREM OwnersUseWhatTheyHave == MCSpec => []HandlersOwnWhatTheyUse
<1>1. McpInv => HandlersOwnWhatTheyUse
  BY HttpHolds, SseHolds DEF McpInv, HandlersOwnWhatTheyUse
<1>2. QED
  BY <1>1, McpInductive, PTL

-----------------------------------------------------------------------------
(* The A2A task store: sequences of senders.                               *)
Distinct(u) == \A i \in DOMAIN u : \A j \in DOMAIN u : u[i] = u[j] => i = j

In(e, u) == \E i \in DOMAIN u : u[i] = e

Prefix(h, b) == Len(h) <= Len(b) /\ \A i \in 1 .. Len(h) : h[i] = b[i]

-----------------------------------------------------------------------------
(***************************************************************************)
(* The inductive invariant. A handler at work holds procMu of its entry,   *)
(* whose task is "working" and has the history the handler copied; that is *)
(* why its commit overwrites nothing. An entry is created once, by the     *)
(* send it is named after, and an entry that left the store is terminal.   *)
(***************************************************************************)
Lifecycle ==
  /\ \A s \in Sender : pc[s] # "snapshot"
  /\ \A r \in Reader : pc[r] \notin {"queued", "handling"}
  /\ \A r \in Request : pc[r] = "start" => entry[r] = Nobody
  /\ \A r \in Request : pc[r] \in {"queued", "handling", "snapshot"} => entry[r] # Nobody
  /\ \A r \in Request : entry[r] # Nobody => entry[entry[r]] = entry[r]

StoreHolds ==
  /\ Distinct(store)
  /\ \A e \in Sender : InStore(e) => entry[e] = e
  /\ \A e \in Sender : \A f \in Sender :
       InStore(e) /\ InStore(f) /\ key[e] = key[f] /\ key[e] # NoId => e = f
  /\ \A e \in Sender : entry[e] = e /\ task[e].state \notin Terminal => InStore(e)

HolderWorks ==
  \A s \in Sender : pc[s] = "handling" =>
    /\ procMu[entry[s]] = s
    /\ task[entry[s]].state = "working"
    /\ copy[s].history = accepted[entry[s]]
    /\ Len(copy[s].history) > 0 /\ copy[s].history[Len(copy[s].history)] = s

AnswersTell ==
  \A r \in Request : answer[r].kind = "task" =>
    LET h == answer[r].task.history IN
      /\ pc[r] = "answered" /\ entry[r] # Nobody
      /\ Prefix(h, accepted[entry[r]])
      /\ r \in Sender => h[Len(h)] = r
      /\ r \in Reader => Len(h) >= Len(seen[r])

ReadersWait ==
  \A r \in Reader : pc[r] = "snapshot" => Len(seen[r]) <= Len(accepted[entry[r]])

TasksAreWhole == \A e \in Sender : task[e].history = accepted[e]

IInv ==
  TasksTypeOK /\ Lifecycle /\ StoreHolds /\ HolderWorks /\ AnswersTell /\ ReadersWait /\ TasksAreWhole

-----------------------------------------------------------------------------
(* What the operations on the store do to the set of its entries.          *)
LEMMA WithoutRemoves ==
  ASSUME store \in Seq(Sender), Distinct(store), NEW e, InStore(e)
  PROVE  /\ Without(e) \in Seq(Sender) /\ Len(Without(e)) = Len(store) - 1
         /\ Distinct(Without(e))
         /\ \A f : In(f, Without(e)) <=> InStore(f) /\ f # e
<1> DEFINE at == CHOOSE i \in DOMAIN store : store[i] = e
           w == [i \in 1 .. Len(store) - 1 |-> store[IF i < at THEN i ELSE i + 1]]
<1>1. at \in 1 .. Len(store) /\ store[at] = e /\ Len(store) \in Nat
  BY DEF InStore
<1> HIDE DEF at
<1>2. w \in Seq(Sender) /\ Len(w) = Len(store) - 1 /\ DOMAIN w = 1 .. Len(store) - 1
  <2>1. Len(store) - 1 \in Nat
    BY <1>1
  <2>2. \A i \in 1 .. Len(store) - 1 : store[IF i < at THEN i ELSE i + 1] \in Sender
    BY <1>1, ElementOfSeq
  <2>3. w \in [1 .. Len(store) - 1 -> Sender]
    BY <2>2
  <2>4. w \in Seq(Sender)
    BY <2>1, <2>3, SeqDef
  <2>5. QED
    BY <2>1, <2>3, <2>4, LenProperties
<1>3. Distinct(w)
  BY <1>1, <1>2 DEF Distinct
<1>4. ASSUME NEW f PROVE In(f, w) <=> InStore(f) /\ f # e
  <2>1. ASSUME In(f, w) PROVE InStore(f) /\ f # e
    <3>1. PICK i \in 1 .. Len(store) - 1 : w[i] = f
      BY <1>2, <2>1 DEF In
    <3>2. PICK k \in 1 .. Len(store) : k # at /\ store[k] = f
      BY <1>1, <3>1
    <3>3. QED
      BY <1>1, <3>2 DEF Distinct, InStore
  <2>2. ASSUME InStore(f), f # e PROVE In(f, w)
    <3>1. PICK k \in 1 .. Len(store) : store[k] = f /\ k # at
      BY <1>1, <2>2 DEF InStore
    <3>2. CASE k < at
      <4>1. k \in 1 .. Len(store) - 1 /\ w[k] = f
        BY <1>1, <3>1, <3>2
      <4>2. QED
        BY <1>2, <4>1 DEF In
    <3>3. CASE k > at
      <4>1. k - 1 \in 1 .. Len(store) - 1 /\ w[k - 1] = f
        BY <1>1, <3>1, <3>3
      <4>2. QED
        BY <1>2, <4>1 DEF In
    <3>4. QED
      BY <1>1, <3>1, <3>2, <3>3
  <2>3. QED
    BY <2>1, <2>2
<1>5. Without(e) = w
  BY DEF Without, at
<1>6. QED
  BY <1>2, <1>3, <1>4, <1>5

LEMMA LeastNat ==
  ASSUME NEW S \in SUBSET Nat, S # {}
  PROVE  \E i \in S : \A j \in S : i <= j
<1>1. PICK i \in S : \A j \in S : ~ (<<j, i>> \in OpToRel(<, Nat))
  BY NatLessThanWellFounded, WFMin
<1>2. \A j \in S : ~ (j < i)
  BY <1>1 DEF OpToRel
<1>3. QED
  BY <1>2

LEMMA AppendAdds ==
  ASSUME NEW u \in Seq(Sender), Distinct(u), NEW e \in Sender, ~In(e, u)
  PROVE  /\ Append(u, e) \in Seq(Sender) /\ Len(Append(u, e)) = Len(u) + 1
         /\ Distinct(Append(u, e))
         /\ \A f : In(f, Append(u, e)) <=> In(f, u) \/ f = e
<1>1. /\ Append(u, e) \in Seq(Sender) /\ Len(Append(u, e)) = Len(u) + 1
      /\ DOMAIN Append(u, e) = 1 .. Len(u) + 1 /\ DOMAIN u = 1 .. Len(u) /\ Len(u) \in Nat
      /\ \A i \in 1 .. Len(u) : Append(u, e)[i] = u[i]
      /\ Append(u, e)[Len(u) + 1] = e
  OBVIOUS
<1>2. Distinct(Append(u, e))
  BY <1>1 DEF Distinct, In
<1>3. \A f : In(f, Append(u, e)) <=> In(f, u) \/ f = e
  BY <1>1 DEF In
<1>4. QED
  BY <1>1, <1>2, <1>3

LEMMA RefreshKeeps ==
  ASSUME TasksTypeOK, Distinct(store), NEW e \in Sender, Refresh(e)
  PROVE  /\ store' \in Seq(Sender) /\ Len(store') <= MaxTasks /\ Distinct(store')
         /\ \A f : InStore(f)' <=> InStore(f)
<1>1. store \in Seq(Sender) /\ Len(store) <= MaxTasks /\ Len(store) \in Nat
  <2>1. store \in Seq(Sender) /\ Len(store) <= MaxTasks
    BY DEF TasksTypeOK
  <2>2. QED
    BY <2>1, LenProperties
<1>2. CASE InStore(e)
  <2>1. /\ Without(e) \in Seq(Sender) /\ Len(Without(e)) = Len(store) - 1
        /\ Distinct(Without(e))
        /\ \A f : In(f, Without(e)) <=> InStore(f) /\ f # e
    BY <1>1, <1>2, WithoutRemoves
  <2>2. store' = Append(Without(e), e) /\ ~In(e, Without(e))
    BY <1>2, <2>1 DEF Refresh
  <2>3. /\ store' \in Seq(Sender) /\ Len(store') = Len(store) /\ Distinct(store')
        /\ \A f : In(f, store') <=> In(f, Without(e)) \/ f = e
    BY <1>1, <2>1, <2>2, AppendAdds
  <2>4. \A f : InStore(f)' <=> InStore(f)
    BY <1>2, <2>1, <2>3 DEF InStore, In
  <2>5. QED
    BY <1>1, <2>3, <2>4
<1>3. CASE ~InStore(e)
  BY <1>1, <1>3 DEF Refresh, InStore
<1>4. QED
  BY <1>2, <1>3

-----------------------------------------------------------------------------
(* The initial states, and one lemma for each action.                      *)
LEMMA TypedTasks ==
  ASSUME NEW state \in State, NEW history \in Seq(Sender)
  PROVE  /\ Task(state, history) \in TaskType
         /\ Task(state, history).state = state /\ Task(state, history).history = history
  BY DEF Task, TaskType

LEMMA NewTaskTyped == NewTask \in TaskType /\ NewTask.history = << >>
<1>1. "submitted" \in State /\ << >> \in Seq(Sender)
  BY EmptySeq DEF State
<1>2. QED
  BY <1>1, TypedTasks DEF NewTask

LEMMA InitInv == TasksInit => IInv
<1> SUFFICES ASSUME TasksInit PROVE IInv
  OBVIOUS
<1>1. TasksTypeOK
  <2>1. store \in Seq(Sender) /\ Len(store) <= MaxTasks
    BY A2AConstants DEF TasksInit
  <2>2. accepted \in [Sender -> Seq(Sender)] /\ seen \in [Reader -> Seq(Sender)]
    BY DEF TasksInit
  <2>3. answer \in [Request -> [kind : {"none", "task", "full", "terminal", "aborted",
                                      "not found"}, task : TaskType]]
    BY NewTaskTyped DEF TasksInit, NoAnswer
  <2>4. QED
    BY <2>1, <2>2, <2>3, NewTaskTyped DEF TasksInit, TasksTypeOK, Request
<1>2. Lifecycle /\ HolderWorks /\ ReadersWait
  BY DEF TasksInit, Lifecycle, HolderWorks, ReadersWait, Request
<1>3. StoreHolds
  BY A2AConstants DEF TasksInit, StoreHolds, Distinct, InStore, Request
<1>4. AnswersTell /\ TasksAreWhole
  BY NewTaskTyped DEF TasksInit, AnswersTell, NoAnswer, TasksAreWhole
<1>5. QED
  BY <1>1, <1>2, <1>3, <1>4 DEF IInv

LEMMA AnswerTyped ==
  ASSUME NEW kind \in {"none", "task", "full", "terminal", "aborted", "not found"},
         NEW t \in TaskType
  PROVE  /\ TaskAnswer(kind, t) \in [kind : {"none", "task", "full", "terminal", "aborted",
                                         "not found"}, task : TaskType]
         /\ TaskAnswer(kind, t).kind = kind /\ TaskAnswer(kind, t).task = t
  BY DEF TaskAnswer

(* A step of a request that changes no task: it moves on, finds its entry, *)
(* lets go of procMu or answers.                                           *)
LEMMA QuietStep ==
  ASSUME IInv, TasksTypeOK', NEW r \in Request, UNCHANGED <<copy, store, key, task, accepted>>,
         \A u \in Request : u # r =>
           pc'[u] = pc[u] /\ entry'[u] = entry[u] /\ answer'[u] = answer[u],
         \A u \in Reader : u # r => seen'[u] = seen[u],
         \A e \in Sender : procMu'[e] = procMu[e] \/ procMu[e] = r,
         pc[r] # "answered",
         pc'[r] \in (IF r \in Sender THEN {"queued", "answered"} ELSE {"snapshot", "answered"}),
         pc'[r] # "answered" => entry'[r] \in Sender,
         entry'[r] = entry[r] \/
           (pc[r] = "start" /\ entry'[r] \in Sender /\ entry[entry'[r]] = entry'[r]),
         answer'[r].kind = "task" =>
           /\ r \in Reader /\ entry'[r] \in Sender /\ pc'[r] = "answered"
           /\ answer'[r].task = task[entry'[r]],
         r \in Reader /\ (pc'[r] = "snapshot" \/ answer'[r].kind = "task") =>
           Len(seen'[r]) <= Len(accepted[entry'[r]])
  PROVE  IInv'
<1>0. /\ entry \in [Request -> Sender \cup {Nobody}] /\ r \in Sender \cup Reader
      /\ \A u \in Request : entry[u] # Nobody => entry[u] \in Sender /\ entry[u] \in Request
      /\ Sender \cap Reader = {} /\ Nobody \notin Request /\ Request = Sender \cup Reader
  BY A2AConstants DEF IInv, TasksTypeOK, Request
<1>1. Lifecycle'
  BY <1>0 DEF IInv, Lifecycle
<1>2. StoreHolds'
  <2>1. \A e : InStore(e)' <=> InStore(e)
    BY DEF InStore
  <2>2. \A e \in Sender : entry'[e] = e <=> entry[e] = e
    BY <1>0 DEF IInv, Lifecycle
  <2>3. QED
    BY <2>1, <2>2 DEF IInv, StoreHolds
<1>3. HolderWorks'
  BY <1>0 DEF IInv, HolderWorks, Lifecycle
<1>4. AnswersTell'
  <2>1. ASSUME NEW u \in Request, answer'[u].kind = "task", u # r
        PROVE  /\ answer[u].kind = "task" /\ answer'[u] = answer[u] /\ entry'[u] = entry[u]
               /\ pc'[u] = pc[u] /\ (u \in Reader => seen'[u] = seen[u])
    BY <2>1
  <2>2. ASSUME answer'[r].kind = "task"
        PROVE  Prefix(answer'[r].task.history, accepted[entry'[r]])
               /\ Len(answer'[r].task.history) >= Len(seen'[r])
    <3>1. answer'[r].task.history = accepted[entry'[r]] /\ accepted[entry'[r]] \in Seq(Sender)
      BY <2>2 DEF IInv, TasksTypeOK, TasksAreWhole
    <3>2. seen'[r] \in Seq(Sender) /\ Len(seen'[r]) <= Len(accepted[entry'[r]])
      BY <2>2 DEF TasksTypeOK
    <3>3. QED
      BY <3>1, <3>2, LenProperties DEF Prefix
  <2>3. QED
    BY <1>0, <2>1, <2>2 DEF IInv, AnswersTell
<1>5. ReadersWait'
  BY <1>0 DEF IInv, ReadersWait
<1>6. TasksAreWhole'
  BY DEF IInv, TasksAreWhole
<1>7. QED
  BY <1>1, <1>2, <1>3, <1>4, <1>5, <1>6 DEF IInv


LEMMA FindInv == ASSUME IInv, NEW s \in Sender, NEW tid, Find(s, tid) PROVE IInv'
<1> USE DEF Find, Found
<1>1. PICK e \in Found(tid) : entry' = [entry EXCEPT ![s] = e]
  OBVIOUS
<1>2. e \in Sender /\ entry[e] = e /\ s \in Request /\ s \notin Reader
  BY <1>1, A2AConstants DEF IInv, StoreHolds, Request
<1>3. TasksTypeOK'
  BY <1>1, <1>2 DEF IInv, TasksTypeOK
<1>4. pc[s] = "start" /\ answer'[s].kind # "task"
  BY <1>2 DEF IInv, AnswersTell
<1>5. /\ pc'[s] = "queued" /\ entry'[s] = e
      /\ \A u \in Request : u # s =>
           pc'[u] = pc[u] /\ entry'[u] = entry[u] /\ answer'[u] = answer[u]
  BY <1>1, <1>2 DEF IInv, TasksTypeOK
<1>6. QED
  BY <1>2, <1>3, <1>4, <1>5, QuietStep

LEMMA SenderEnds ==
  ASSUME IInv, NEW s \in Sender, pc[s] \in {"start", "queued", "handling"},
         NEW kind \in {"full", "terminal", "aborted"}, Finish(s, kind, NewTask),
         procMu' \in [Sender -> Sender \cup {Nobody}],
         \A e \in Sender : procMu'[e] = procMu[e] \/ procMu[e] = s,
         UNCHANGED <<entry, copy, store, key, task, accepted, seen>>
  PROVE  IInv'
<1>1. s \in Request /\ s \notin Reader
  BY A2AConstants DEF Request
<1>2. /\ pc' = [pc EXCEPT ![s] = "answered"]
      /\ answer' = [answer EXCEPT ![s] = TaskAnswer(kind, NewTask)]
      /\ TaskAnswer(kind, NewTask).kind = kind
      /\ TaskAnswer(kind, NewTask) \in [kind : {"none", "task", "full", "terminal", "aborted",
                                           "not found"}, task : TaskType]
  <2>1. kind \in {"none", "task", "full", "terminal", "aborted", "not found"}
    OBVIOUS
  <2>2. NewTask \in TaskType
    BY NewTaskTyped
  <2>3. /\ TaskAnswer(kind, NewTask).kind = kind
        /\ TaskAnswer(kind, NewTask) \in [kind : {"none", "task", "full", "terminal", "aborted",
                                             "not found"}, task : TaskType]
    BY ONLY <2>1, <2>2, AnswerTyped
  <2>4. QED
    BY <2>3 DEF Finish
<1>3. TasksTypeOK'
  BY <1>1, <1>2 DEF IInv, TasksTypeOK
<1>4. QED
  BY <1>1, <1>2, <1>3, QuietStep DEF IInv, TasksTypeOK

LEMMA StoreIsFullInv == ASSUME IInv, NEW s \in Sender, NEW tid, StoreIsFull(s, tid) PROVE IInv'
  BY SenderEnds DEF StoreIsFull, IInv, TasksTypeOK

LEMMA RefuseTerminalInv == ASSUME IInv, NEW s \in Sender, RefuseTerminal(s) PROVE IInv'
  BY SenderEnds DEF RefuseTerminal, IInv, TasksTypeOK

LEMMA HandlerPanicsInv == ASSUME IInv, NEW s \in Sender, HandlerPanics(s) PROVE IInv'
<1>1. procMu[entry[s]] = s /\ entry[s] \in Sender
  <2>1. s \in Request /\ pc[s] = "handling"
    BY DEF HandlerPanics, Request
  <2>2. procMu[entry[s]] = s /\ entry[s] # Nobody
    BY <2>1 DEF IInv, HolderWorks, Lifecycle
  <2>3. entry \in [Request -> Sender \cup {Nobody}]
    BY DEF IInv, TasksTypeOK
  <2>4. QED
    BY <2>1, <2>2, <2>3
<1>2. /\ procMu' \in [Sender -> Sender \cup {Nobody}]
      /\ \A e \in Sender : procMu'[e] = procMu[e] \/ procMu[e] = s
  BY <1>1 DEF HandlerPanics, IInv, TasksTypeOK
<1>3. QED
  BY <1>2, SenderEnds DEF HandlerPanics

LEMMA LookUpInv == ASSUME IInv, NEW r \in Reader, NEW tid, LookUp(r, tid) PROVE IInv'
<1> USE DEF LookUp, Found
<1>1. r \in Request /\ r \notin Sender /\ pc[r] = "start"
  BY A2AConstants DEF Request
<1>2. CASE Found(tid) = {}
  <2>1. /\ pc' = [pc EXCEPT ![r] = "answered"]
        /\ answer' = [answer EXCEPT ![r] = TaskAnswer("not found", NewTask)]
        /\ TaskAnswer("not found", NewTask).kind = "not found"
        /\ TaskAnswer("not found", NewTask) \in [kind : {"none", "task", "full", "terminal", "aborted",
                                             "not found"}, task : TaskType]
    BY <1>2, AnswerTyped, NewTaskTyped DEF Finish
  <2>2. TasksTypeOK'
    BY <1>1, <1>2, <2>1 DEF IInv, TasksTypeOK
  <2>3. QED
    BY <1>1, <1>2, <2>1, <2>2, QuietStep DEF IInv, TasksTypeOK
<1>3. CASE Found(tid) # {}
  <2>1. PICK e \in Found(tid) : /\ entry' = [entry EXCEPT ![r] = e]
                               /\ seen' = [seen EXCEPT ![r] = accepted[e]]
    BY <1>3
  <2>2. e \in Sender /\ entry[e] = e /\ accepted[e] \in Seq(Sender)
    BY <2>1 DEF IInv, StoreHolds, TasksTypeOK
  <2>3. /\ pc' = [pc EXCEPT ![r] = "snapshot"] /\ answer[r].kind # "task"
        /\ UNCHANGED <<answer, copy, store, key, task, procMu, accepted>>
    BY <1>1, <1>3 DEF IInv, AnswersTell
  <2>4. TasksTypeOK'
    BY <1>1, <2>1, <2>2, <2>3 DEF IInv, TasksTypeOK
  <2>5. Len(seen'[r]) <= Len(accepted[entry'[r]])
    <3>1. seen'[r] = accepted[e] /\ entry'[r] = e
      BY <1>1, <2>1, <2>2 DEF IInv, TasksTypeOK
    <3>2. Len(accepted[e]) \in Nat
      BY <2>2, LenProperties
    <3>3. QED
      BY ONLY <3>1, <3>2
  <2>6. QED
    BY <1>1, <2>1, <2>2, <2>3, <2>4, <2>5, QuietStep DEF IInv, TasksTypeOK
<1>4. QED
  BY <1>2, <1>3

LEMMA SnapshotInv == ASSUME IInv, NEW r \in Reader, Snapshot(r) PROVE IInv'
<1>1. r \in Request /\ r \notin Sender /\ pc[r] = "snapshot"
  BY A2AConstants DEF Request, Snapshot
<1>2. entry[r] \in Sender /\ task[entry[r]] \in TaskType
  BY <1>1 DEF IInv, Lifecycle, TasksTypeOK
<1>3. /\ pc' = [pc EXCEPT ![r] = "answered"]
      /\ answer' = [answer EXCEPT ![r] = TaskAnswer("task", task[entry[r]])]
      /\ TaskAnswer("task", task[entry[r]]).kind = "task"
      /\ TaskAnswer("task", task[entry[r]]).task = task[entry[r]]
      /\ TaskAnswer("task", task[entry[r]]) \in
           [kind : {"none", "task", "full", "terminal", "aborted", "not found"},
            task : TaskType]
      /\ UNCHANGED <<entry, copy, store, key, task, procMu, accepted, seen>>
  BY <1>2, AnswerTyped DEF Finish, Snapshot
<1>4. TasksTypeOK'
  BY <1>1, <1>3 DEF IInv, TasksTypeOK
<1>5. Len(seen[r]) <= Len(accepted[entry[r]])
  BY <1>1 DEF IInv, ReadersWait
<1>6. answer \in [Request -> [kind : {"none", "task", "full", "terminal", "aborted", "not found"},
                             task : TaskType]]
  BY DEF IInv, TasksTypeOK
<1>7. pc \in [Request -> {"start", "queued", "handling", "snapshot", "answered"}]
  BY DEF IInv, TasksTypeOK
<1>8. \A u \in Request : u # r => pc'[u] = pc[u] /\ entry'[u] = entry[u] /\ answer'[u] = answer[u]
  BY <1>1, <1>3, <1>6, <1>7
<1>9. pc[r] # "answered" /\ pc'[r] = "answered" /\ answer'[r].task = task[entry'[r]]
  BY <1>1, <1>3, <1>6, <1>7
<1>10. Len(seen'[r]) <= Len(accepted[entry'[r]])
  BY <1>3, <1>5
<1>11. r \in Reader /\ \A e \in Sender : procMu'[e] = procMu[e]
  BY <1>3
<1>12. entry'[r] \in Sender /\ entry'[r] = entry[r] /\ UNCHANGED <<copy, store, key, task, accepted, seen>>
  BY <1>2, <1>3
<1> HIDE DEF IInv, TasksTypeOK
<1>13. QED
  BY ONLY IInv, <1>1, <1>4, <1>8, <1>9, <1>10, <1>11, <1>12, QuietStep

(* What a task accepts comes last, and what an answer told stays told.     *)
LEMMA PrefixGrows ==
  ASSUME NEW h \in Seq(Sender), NEW b \in Seq(Sender), NEW s \in Sender, Prefix(h, b)
  PROVE  Prefix(h, Append(b, s))
<1>1. /\ Len(Append(b, s)) = Len(b) + 1 /\ Len(b) \in Nat /\ Len(h) \in Nat
      /\ \A i \in 1 .. Len(b) : Append(b, s)[i] = b[i]
  BY AppendProperties
<1>2. QED
  BY <1>1 DEF Prefix

LEMMA CreateInv ==
  ASSUME IInv, NEW s \in Sender, NEW tid \in TaskId \cup {NoId}, Create(s, tid)
  PROVE  IInv'
<1>0. /\ s \in Request /\ s \notin Reader /\ pc[s] = "start" /\ entry[s] = Nobody /\ s # Nobody
      /\ entry' = [entry EXCEPT ![s] = s] /\ pc' = [pc EXCEPT ![s] = "queued"]
      /\ key' = [key EXCEPT ![s] = tid] /\ store' = Append(Room, s)
      /\ UNCHANGED <<copy, answer, task, procMu, accepted, seen>>
  BY A2AConstants DEF Create, IInv, Lifecycle, Request
<1>1. ~InStore(s) /\ \A e \in Sender : entry[e] = e => e # s
  BY <1>0 DEF IInv, StoreHolds
<1>2. \E passed : /\ Room \in Seq(Sender) /\ Len(Room) + 1 <= MaxTasks /\ Distinct(Room)
                  /\ \A f : In(f, Room) <=> InStore(f) /\ f # passed
                  /\ passed \in Sender => task[passed].state \in Terminal
  <2>1. store \in Seq(Sender) /\ Distinct(store) /\ Len(store) \in Nat /\ Len(store) <= MaxTasks
        /\ MaxTasks \in Nat
    BY LenProperties, A2AConstants DEF IInv, TasksTypeOK, StoreHolds
  <2>2. CASE Len(store) < MaxTasks
    <3>1. Room = store
      BY <2>2 DEF Room
    <3>2. Nobody \notin Sender /\ \A i \in DOMAIN store : store[i] \in Sender
      BY <2>1, ElementOfSeq, A2AConstants
    <3>3. \A f : In(f, Room) <=> InStore(f) /\ f # Nobody
      BY <3>1, <3>2 DEF In, InStore
    <3>4. QED
      BY <2>1, <2>2, <3>1, <3>2, <3>3
  <2>3. CASE Len(store) >= MaxTasks
    <3> DEFINE oldest == CHOOSE i \in Evictable : \A j \in Evictable : i <= j
    <3>1. Evictable # {}
      BY <2>1, <2>3 DEF Create
    <3>2. oldest \in Evictable
      <4>1. Evictable \subseteq Nat
        BY <2>1 DEF Evictable
      <4>2. \E i \in Evictable : \A j \in Evictable : i <= j
        BY <3>1, <4>1, LeastNat
      <4>3. QED
        BY <4>2
    <3>3. InStore(store[oldest]) /\ task[store[oldest]].state \in Terminal
      BY <3>2 DEF Evictable, InStore
    <3>4. Room = Without(store[oldest])
      BY <2>1, <2>3 DEF Room
    <3> HIDE DEF oldest
    <3>5. QED
      BY <2>1, <2>3, <3>3, <3>4, WithoutRemoves
  <2>4. QED
    BY <2>1, <2>2, <2>3
<1>3. PICK passed : /\ Room \in Seq(Sender) /\ Len(Room) + 1 <= MaxTasks /\ Distinct(Room)
                    /\ \A f : In(f, Room) <=> InStore(f) /\ f # passed
                    /\ passed \in Sender => task[passed].state \in Terminal
  BY <1>2
<1>4. /\ store' \in Seq(Sender) /\ Len(store') <= MaxTasks /\ Distinct(store')
      /\ \A f : InStore(f)' <=> (InStore(f) /\ f # passed) \/ f = s
  <2>1. ~In(s, Room)
    BY <1>1, <1>3
  <2>2. /\ Append(Room, s) \in Seq(Sender) /\ Len(Append(Room, s)) = Len(Room) + 1
        /\ Distinct(Append(Room, s))
        /\ \A f : In(f, Append(Room, s)) <=> In(f, Room) \/ f = s
    BY <1>3, <2>1, AppendAdds
  <2>3. \A f : InStore(f)' <=> In(f, store')
    BY DEF InStore, In
  <2>4. QED
    BY <1>0, <1>3, <2>2, <2>3
<1>5. TasksTypeOK'
  BY <1>0, <1>4 DEF IInv, TasksTypeOK
<1>6. /\ pc'[s] = "queued" /\ entry'[s] = s /\ key'[s] = tid
      /\ \A u \in Request : u # s => pc'[u] = pc[u] /\ entry'[u] = entry[u]
      /\ \A e \in Sender : e # s => key'[e] = key[e]
      /\ \A u \in Request : entry[u] # Nobody => entry[u] \in Request
      /\ Sender \subseteq Request /\ Reader \subseteq Request
  BY <1>0 DEF IInv, TasksTypeOK, Request
<1>7. Lifecycle'
  BY <1>0, <1>6 DEF IInv, Lifecycle
<1>8. StoreHolds'
  <2>1. ASSUME NEW e \in Sender, InStore(e), e # s PROVE ~(key[e] = tid /\ tid # NoId)
    BY <2>1 DEF Create, Found
  <2>2. QED
    BY <1>0, <1>1, <1>3, <1>4, <1>6, <2>1 DEF IInv, StoreHolds
<1>9. HolderWorks'
  BY <1>0, <1>6 DEF IInv, HolderWorks
<1>10. AnswersTell'
  BY <1>0, <1>6 DEF IInv, AnswersTell
<1>11. ReadersWait' /\ TasksAreWhole'
  BY <1>0, <1>6 DEF IInv, ReadersWait, TasksAreWhole
<1>12. QED
  BY <1>5, <1>7, <1>8, <1>9, <1>10, <1>11 DEF IInv


(* procMu keeps the phases of two sends of one task apart.                 *)
LEMMA OneHandler ==
  ASSUME IInv, NEW s \in Sender, NEW u \in Sender, entry[u] = entry[s], pc[u] = "handling",
         pc[s] = "handling" \/ procMu[entry[s]] = Nobody
  PROVE  u = s
  BY A2AConstants DEF IInv, HolderWorks

LEMMA BeginInv == ASSUME IInv, NEW s \in Sender, Begin(s) PROVE IInv'
<1> DEFINE e == entry[s]
           t == Task("working", Append(task[e].history, s))
<1>1. /\ pc[s] = "queued" /\ procMu[e] = Nobody /\ task[e].state \notin Terminal
      /\ procMu' = [procMu EXCEPT ![e] = s]
      /\ task' = [task EXCEPT ![e] = t]
      /\ copy' = [copy EXCEPT ![s] = t]
      /\ accepted' = [accepted EXCEPT ![e] = Append(@, s)]
      /\ pc' = [pc EXCEPT ![s] = "handling"]
      /\ Refresh(e)
      /\ UNCHANGED <<entry, answer, key, seen>>
  BY DEF Begin
<1>2. /\ Sender \subseteq Request /\ Reader \subseteq Request /\ s \notin Reader
      /\ entry \in [Request -> Sender \cup {Nobody}]
  BY A2AConstants DEF IInv, TasksTypeOK, Request
<1>3. e \in Sender /\ entry[e] = e
  BY <1>1, <1>2 DEF IInv, Lifecycle
<1>4. accepted[e] \in Seq(Sender) /\ task[e].history = accepted[e]
  BY <1>3 DEF IInv, TasksTypeOK, TasksAreWhole
<1>5. /\ t \in TaskType /\ t.state = "working" /\ t.history = Append(accepted[e], s)
      /\ Append(accepted[e], s) \in Seq(Sender)
  <2>1. "working" \in State /\ Append(accepted[e], s) \in Seq(Sender)
    BY <1>4, AppendProperties DEF State
  <2>2. /\ Task("working", Append(accepted[e], s)) \in TaskType
        /\ Task("working", Append(accepted[e], s)).state = "working"
        /\ Task("working", Append(accepted[e], s)).history = Append(accepted[e], s)
    BY ONLY <2>1, TypedTasks
  <2>3. QED
    BY <1>4, <2>1, <2>2
<1>6. /\ store' \in Seq(Sender) /\ Len(store') <= MaxTasks /\ Distinct(store')
      /\ \A f : InStore(f)' <=> InStore(f)
  BY <1>1, <1>3, RefreshKeeps DEF IInv, StoreHolds
<1> HIDE DEF t
<1>7. TasksTypeOK'
  BY <1>1, <1>2, <1>3, <1>5, <1>6 DEF IInv, TasksTypeOK
<1>8. /\ pc'[s] = "handling" /\ task'[e] = t /\ copy'[s] = t /\ procMu'[e] = s
      /\ accepted'[e] = Append(accepted[e], s)
      /\ \A u \in Request : u # s => pc'[u] = pc[u]
      /\ \A u \in Sender : u # s => copy'[u] = copy[u]
      /\ \A f \in Sender : f # e =>
           task'[f] = task[f] /\ procMu'[f] = procMu[f] /\ accepted'[f] = accepted[f]
  BY <1>1, <1>2, <1>3 DEF IInv, TasksTypeOK
<1>9. Lifecycle'
  BY <1>1, <1>2, <1>8 DEF IInv, Lifecycle
<1>10. StoreHolds'
  BY <1>1, <1>3, <1>6, <1>8 DEF IInv, StoreHolds
<1>11. HolderWorks'
  <2>1. Len(t.history) > 0 /\ t.history[Len(t.history)] = s
    BY <1>4, <1>5, AppendProperties, LenProperties
  <2>2. ASSUME NEW u \in Sender, pc'[u] = "handling", u # s
        PROVE  pc[u] = "handling" /\ entry[u] \in Sender /\ entry[u] # e
    BY <1>1, <1>2, <1>8, <2>2, OneHandler DEF IInv, Lifecycle
  <2>3. entry' = entry /\ entry'[s] = e
    BY <1>1
  <2>4. ASSUME NEW u \in Sender, pc'[u] = "handling"
        PROVE  /\ procMu'[entry[u]] = u /\ task'[entry[u]].state = "working"
               /\ copy'[u].history = accepted'[entry[u]]
               /\ Len(copy'[u].history) > 0 /\ copy'[u].history[Len(copy'[u].history)] = u
    <3>1. CASE u = s
      BY <1>5, <1>8, <2>1, <3>1
    <3>2. CASE u # s
      BY <1>8, <2>2, <2>4, <3>2 DEF IInv, HolderWorks
    <3>3. QED
      BY <3>1, <3>2
  <2>5. QED
    BY <2>3, <2>4 DEF HolderWorks
<1>12. \A f \in Sender : \A h \in Seq(Sender) : Prefix(h, accepted[f]) => Prefix(h, accepted'[f])
  BY <1>4, <1>8, PrefixGrows
<1>13. AnswersTell'
  <2>1. ASSUME NEW u \in Request, answer[u].kind = "task"
        PROVE  /\ u # s /\ entry[u] \in Sender /\ answer[u].task.history \in Seq(Sender)
    <3>1. pc[u] = "answered" /\ entry[u] # Nobody
      BY <2>1 DEF IInv, AnswersTell
    <3>2. answer[u].task \in TaskType
      BY DEF IInv, TasksTypeOK
    <3>3. QED
      BY <1>1, <1>2, <3>1, <3>2 DEF TaskType
  <2>2. ASSUME NEW u \in Request, answer[u].kind = "task"
        PROVE  /\ pc'[u] = "answered" /\ Prefix(answer[u].task.history, accepted'[entry[u]])
    <3>1. pc[u] = "answered" /\ Prefix(answer[u].task.history, accepted[entry[u]])
      BY <2>2 DEF IInv, AnswersTell
    <3>2. u # s /\ entry[u] \in Sender /\ answer[u].task.history \in Seq(Sender)
      BY <2>1, <2>2
    <3>3. QED
      BY <1>8, <1>12, <3>1, <3>2
  <2>3. answer' = answer /\ entry' = entry /\ seen' = seen
    BY <1>1
  <2>4. QED
    BY <2>2, <2>3 DEF IInv, AnswersTell
<1>14. ReadersWait'
  <2>1. ASSUME NEW u \in Reader, pc[u] = "snapshot"
        PROVE  /\ entry[u] \in Sender /\ seen[u] \in Seq(Sender) /\ accepted[entry[u]] \in Seq(Sender)
    BY <1>2, <2>1 DEF IInv, Lifecycle, TasksTypeOK
  <2>2. Len(accepted'[e]) = Len(accepted[e]) + 1 /\ Len(accepted[e]) \in Nat
    BY <1>4, <1>8, AppendProperties, LenProperties
  <2>3. ASSUME NEW u \in Reader, pc'[u] = "snapshot"
        PROVE  Len(seen[u]) <= Len(accepted'[entry[u]])
    <3>1. pc[u] = "snapshot" /\ Len(seen[u]) <= Len(accepted[entry[u]])
      BY <1>2, <1>8, <2>3 DEF IInv, ReadersWait
    <3>2. Len(seen[u]) \in Nat /\ entry[u] \in Sender
      BY <2>1, <3>1, LenProperties
    <3>3. QED
      BY <1>8, <2>2, <3>1, <3>2
  <2>4. entry' = entry /\ seen' = seen
    BY <1>1
  <2>5. QED
    BY <2>3, <2>4 DEF ReadersWait
<1>15. TasksAreWhole'
  BY <1>5, <1>8 DEF IInv, TasksAreWhole
<1>16. QED
  BY <1>7, <1>9, <1>10, <1>11, <1>13, <1>14, <1>15 DEF IInv

LEMMA CommitInv == ASSUME IInv, NEW s \in Sender, Commit(s) PROVE IInv'
<1> DEFINE e == entry[s]
<1>1. PICK left \in State, failed \in BOOLEAN :
        /\ task' = [task EXCEPT ![e] = Task(Outcome(left, failed), copy[s].history)]
        /\ Finish(s, "task", task'[e])
  BY DEF Commit
<1> DEFINE t == Task(Outcome(left, failed), copy[s].history)
<1>2. /\ pc[s] = "handling"
      /\ procMu' = [procMu EXCEPT ![e] = Nobody]
      /\ Refresh(e)
      /\ UNCHANGED <<entry, copy, key, accepted, seen>>
  BY DEF Commit
<1>3. /\ Sender \subseteq Request /\ Reader \subseteq Request /\ s \notin Reader
      /\ entry \in [Request -> Sender \cup {Nobody}]
  BY A2AConstants DEF IInv, TasksTypeOK, Request
<1>4. e \in Sender /\ entry[e] = e
  BY <1>2, <1>3 DEF IInv, Lifecycle
<1>5. /\ copy[s].history = accepted[e] /\ accepted[e] \in Seq(Sender)
      /\ Len(accepted[e]) > 0 /\ accepted[e][Len(accepted[e])] = s
      /\ task[e].state \notin Terminal
  BY <1>2, <1>4 DEF IInv, TasksTypeOK, HolderWorks, Terminal
<1>6. t \in TaskType /\ t.history = accepted[e]
  <2>1. Outcome(left, failed) \in State
    BY DEF Outcome, State, Terminal
  <2>2. QED
    BY <1>5, <2>1, TypedTasks
<1> HIDE DEF t
<1>7. /\ store' \in Seq(Sender) /\ Len(store') <= MaxTasks /\ Distinct(store')
      /\ \A f : InStore(f)' <=> InStore(f)
  BY <1>2, <1>4, RefreshKeeps DEF IInv, StoreHolds
<1>8. /\ task' = [task EXCEPT ![e] = t] /\ task'[e] = t
      /\ \A f \in Sender : f # e => task'[f] = task[f]
  BY <1>1, <1>4 DEF IInv, TasksTypeOK, t
<1>9. /\ pc' = [pc EXCEPT ![s] = "answered"]
      /\ answer' = [answer EXCEPT ![s] = TaskAnswer("task", t)]
      /\ TaskAnswer("task", t).kind = "task" /\ TaskAnswer("task", t).task = t
      /\ TaskAnswer("task", t) \in [kind : {"none", "task", "full", "terminal", "aborted",
                                        "not found"}, task : TaskType]
  <2>1. Finish(s, "task", t)
    BY <1>1, <1>8
  <2>2. QED
    BY <1>6, <2>1, AnswerTyped DEF Finish
<1>10. TasksTypeOK'
  BY <1>2, <1>3, <1>4, <1>6, <1>7, <1>8, <1>9 DEF IInv, TasksTypeOK
<1>11. /\ pc'[s] = "answered" /\ answer'[s] = TaskAnswer("task", t)
       /\ \A u \in Request : u # s => pc'[u] = pc[u] /\ answer'[u] = answer[u]
       /\ \A f \in Sender : f # e => procMu'[f] = procMu[f]
  BY <1>2, <1>3, <1>4, <1>9 DEF IInv, TasksTypeOK
<1>12. Lifecycle'
  BY <1>2, <1>3, <1>11 DEF IInv, Lifecycle
<1>13. StoreHolds'
  BY <1>2, <1>4, <1>5, <1>7, <1>8 DEF IInv, StoreHolds
<1>14. HolderWorks'
  <2>1. ASSUME NEW u \in Sender, pc'[u] = "handling"
        PROVE  pc[u] = "handling" /\ entry[u] \in Sender /\ entry[u] # e
    BY <1>2, <1>3, <1>11, <2>1, OneHandler DEF IInv, Lifecycle
  <2>2. QED
    BY <1>2, <1>8, <1>11, <2>1 DEF IInv, HolderWorks
<1>15. AnswersTell'
  <2>1. Prefix(t.history, accepted[e])
    BY <1>5, <1>6, LenProperties DEF Prefix
  <2>2. t.history[Len(t.history)] = s /\ e # Nobody
    BY <1>4, <1>5, <1>6, A2AConstants
  <2>3. entry' = entry /\ seen' = seen /\ accepted' = accepted /\ s \notin Reader
    BY <1>2, <1>3
  <2>4. ASSUME NEW u \in Request, answer'[u].kind = "task"
        PROVE  LET h == answer'[u].task.history IN
                 /\ pc'[u] = "answered" /\ entry[u] # Nobody
                 /\ Prefix(h, accepted[entry[u]])
                 /\ u \in Sender => h[Len(h)] = u
                 /\ u \in Reader => Len(h) >= Len(seen[u])
    <3>1. CASE u = s
      BY <1>9, <1>11, <2>1, <2>2, <2>3, <3>1
    <3>2. CASE u # s
      BY <1>11, <2>4, <3>2 DEF IInv, AnswersTell
    <3>3. QED
      BY <3>1, <3>2
  <2>5. QED
    BY <2>3, <2>4 DEF AnswersTell
<1>16. ReadersWait' /\ TasksAreWhole'
  BY <1>2, <1>3, <1>6, <1>8, <1>11 DEF IInv, ReadersWait, TasksAreWhole
<1>17. QED
  BY <1>10, <1>12, <1>13, <1>14, <1>15, <1>16 DEF IInv

LEMMA StutterInv == IInv /\ UNCHANGED taskVars => IInv'
<1> SUFFICES ASSUME IInv, UNCHANGED taskVars PROVE IInv'
  OBVIOUS
<1> USE DEF taskVars
<1>1. TasksTypeOK'
  BY DEF IInv, TasksTypeOK
<1>2. Lifecycle' /\ HolderWorks' /\ ReadersWait' /\ TasksAreWhole'
  BY DEF IInv, Lifecycle, HolderWorks, ReadersWait, TasksAreWhole
<1>3. \A e : InStore(e)' <=> InStore(e)
  BY DEF InStore
<1>4. StoreHolds'
  BY <1>3 DEF IInv, StoreHolds
<1>5. AnswersTell'
  BY DEF IInv, AnswersTell
<1>6. QED
  BY <1>1, <1>2, <1>4, <1>5 DEF IInv

LEMMA StepInv == IInv /\ [TasksNext]_taskVars => IInv'
  BY FindInv, CreateInv, StoreIsFullInv, BeginInv, RefuseTerminalInv, CommitInv,
     HandlerPanicsInv, LookUpInv, SnapshotInv, StutterInv DEF TasksNext, Arrive, Proceed

THEOREM Inductive == TasksSpec => []IInv
  BY InitInv, StepInv, PTL DEF TasksSpec

-----------------------------------------------------------------------------
(* Requests, entries and the store keep their types, and the store its     *)
(* bound.                                                                  *)
THEOREM TasksAreTyped == TasksSpec => []TasksTypeOK
<1>1. IInv => TasksTypeOK
  BY DEF IInv
<1>2. QED
  BY <1>1, Inductive, PTL

(* evictOneLocked drops no work in flight, and the id of a task in the     *)
(* store finds it and no other, for any number of sends and any cap.       *)
THEOREM WorkIsKept == TasksSpec => []WorkIsReachable
<1>1. IInv => WorkIsReachable
  BY DEF IInv, StoreHolds, WorkIsReachable, Found
<1>2. QED
  BY <1>1, Inductive, PTL


LEMMA WholeHistory == IInv => HistoryIsWhole
<1> SUFFICES ASSUME IInv, NEW r \in Request, answer[r].kind = "task"
             PROVE  answer[r].task.history
                      = SubSeq(accepted[entry[r]], 1, Len(answer[r].task.history))
  BY DEF IInv, TasksAreWhole, AnswersTell, HistoryIsWhole
<1> DEFINE h == answer[r].task.history
           b == accepted[entry[r]]
<1>1. entry[r] # Nobody /\ Prefix(h, b)
  BY DEF IInv, AnswersTell
<1>2. h \in Seq(Sender) /\ b \in Seq(Sender)
  BY <1>1 DEF IInv, TasksTypeOK, TaskType
<1> HIDE DEF h, b
<1>3. SubSeq(b, 1, Len(h)) \in Seq(Sender) /\ Len(SubSeq(b, 1, Len(h))) = Len(h)
      /\ \A i \in 1 .. Len(h) : SubSeq(b, 1, Len(h))[i] = h[i]
  BY <1>1, <1>2, LenProperties, SubSeqProperties DEF Prefix
<1>4. SubSeq(b, 1, Len(h)) = h
  BY <1>2, <1>3, SeqEqual
<1>5. QED
  BY <1>4 DEF h, b

(* A task that is over is changed by no step: only the holder of procMu    *)
(* writes a task, and it began when the task was not over.                 *)
LEMMA FinalStep == IInv /\ [TasksNext]_taskVars => TerminalIsFinal
<1> SUFFICES ASSUME IInv, [TasksNext]_taskVars, NEW e \in Sender, task[e].state \in Terminal
             PROVE  task'[e] = task[e]
  BY DEF TerminalIsFinal
<1>1. CASE UNCHANGED task
  BY <1>1
<1>2. ASSUME NEW s \in Sender, Begin(s) PROVE task'[e] = task[e]
  BY <1>2 DEF Begin, IInv, TasksTypeOK
<1>3. ASSUME NEW s \in Sender, Commit(s) PROVE task'[e] = task[e]
  <2>1. entry[s] # e
    BY <1>3 DEF Commit, IInv, HolderWorks, Terminal
  <2>2. QED
    BY <1>3, <2>1 DEF Commit, IInv, TasksTypeOK
<1>4. QED
  BY <1>1, <1>2, <1>3 DEF TasksNext, Arrive, Proceed, Find, Create, StoreIsFull, RefuseTerminal,
     HandlerPanics, LookUp, Snapshot, taskVars

(* Whatever sends, reads, evictions and panics interleave: a task holds    *)
(* the messages it accepted and no others, answers are never behind what   *)
(* they answer, and a terminal task never changes.                         *)
THEOREM HistoriesAreKept == TasksSpec => HistoryIsKept
<1>1. IInv /\ [TasksNext]_taskVars => [TerminalIsFinal]_taskVars
  BY FinalStep
<1>2. QED
  BY <1>1, WholeHistory, Inductive, PTL DEF TasksSpec, HistoryIsKept

=============================================================================
