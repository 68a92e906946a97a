------------------------------ MODULE Councils ------------------------------
(***************************************************************************)
(* The councils of pkg/council.                                            *)
(***************************************************************************)
EXTENDS AgentRun, SequencesExt

(***************************************************************************)
(* The supervisor of pkg/council/supervisor.go: a model that sends tasks   *)
(* to workers, one at a time, and reads what they did. A task is the hop   *)
(* that wrote it; a worker's output is left out of its record.             *)
(***************************************************************************)

CONSTANTS
  Worker,   \* the names of the configured workers
  MaxHops   \* MaxHops of both councils

Final == "final"    \* any text that is not empty

ASSUME HopsConstant ==
  /\ MaxHops \in Nat \ {0}
  /\ {"supervisor", "trap"} \subseteq Name
  /\ Final # Empty

(* What NewSupervisor asks of the names; they are distinct in a set.       *)
ValidWorkers ==
  Worker # {} /\ Worker \cap {Empty, START, END, "supervisor", "trap"} = {}

SupervisorSeed ==
  [history |-> << >>, final |-> Empty, hops |-> 0, next |-> Empty, task |-> 0]

SupervisorGraph ==
  LET g == AddConditionalEdge(AddEdge(AddEdge(AddNode(AddNode(NewGraph,
             "supervisor", FALSE), "trap", FALSE), "trap", END),
             START, "supervisor"), "supervisor", FALSE)
  IN Runnable([g EXCEPT !.nodes = @ \cup Worker,
                        !.static = [n \in DOMAIN @ \cup Worker |->
                                      IF n \in Worker THEN "supervisor" ELSE @[n]]])

SupervisorConfigs ==
  {c \in {[kind |-> "supervisor", graph |-> SupervisorGraph,
           maxSteps |-> MaxHops * 3 + 4, maxRuns |-> 1]} : ValidWorkers}

-----------------------------------------------------------------------------
(* Slip: one hop more. *)
SupervisorRouterLate(state) ==
  IF state.final # Empty THEN END
  ELSE IF state.hops > MaxHops THEN "trap"
  ELSE IF state.next = Empty THEN END
  ELSE state.next

SupervisorRouter(state) ==
  IF state.final # Empty THEN END
  ELSE IF state.hops >= MaxHops THEN "trap"
  ELSE IF state.next = Empty THEN END
  ELSE state.next

(* The decision is an answer or a worker and its task; the model fails, or *)
(* its reply is neither, or it names a worker nobody configured.           *)
SupervisorNode ==
  /\ At("supervisor")
  /\ \/ NodeFails({"model", "malformed", "unknown worker"})
     \/ \E worker \in Worker \cup {Empty} :
          /\ s' = IF worker = Empty
                  THEN [s EXCEPT !.hops = @ + 1, !.final = Final,
                                 !.next = Empty, !.task = 0]
                  ELSE [s EXCEPT !.hops = @ + 1,
                                 !.next = worker, !.task = s.hops + 1]
          /\ Follow("supervisor", SupervisorRouter(s'))
  /\ UNCHANGED <<cfg, executor, history>>

WorkerNode(worker) ==
  /\ At(worker)
  /\ \/ NodeFails({"worker"})
     \/ /\ s' = [s EXCEPT
                  !.history = Append(@, [worker |-> worker, task |-> s.task]),
                  !.next = Empty, !.task = 0]
        /\ Follow(worker, Empty)
  /\ UNCHANGED <<cfg, executor, history>>

(* The trap of either council; in a swarm of declared handoffs the agent   *)
(* it was reached for is always a registered one.                          *)
TrapNode ==
  /\ At("trap")
  /\ NodeFails({IF cfg.kind = "swarm" /\ s.active \notin {Empty} \cup cfg.graph.nodes
                THEN "unknown target" ELSE "max hops"})
  /\ UNCHANGED <<cfg, executor, history>>

SupervisorStart == Begin

SupervisorNext ==
  SupervisorStart \/ SupervisorNode \/ TrapNode \/ \E w \in Worker : WorkerNode(w)

-----------------------------------------------------------------------------
(***************************************************************************)
(* The supervisor is asked at most MaxHops times, and a worker runs        *)
(* between two of its turns: at most MaxHops - 1 of them, each with the    *)
(* task of the hop that chose it. A run that is cut short says so; only an *)
(* answer ends one without an error.                                       *)
(***************************************************************************)
HopsAreAccounted ==
  cfg.kind = "supervisor" =>
    /\ s.hops <= MaxHops
    /\ Len(s.history) <= MaxHops - 1
    /\ \A i \in DOMAIN s.history : s.history[i].task = i
    /\ pc = "idle" /\ ret = "nil" => s.final # Empty /\ s.hops = Len(s.history) + 1
    /\ ret = "max hops" =>
         s.hops = MaxHops /\ s.final = Empty /\ Len(s.history) = MaxHops - 1

-----------------------------------------------------------------------------
(***************************************************************************)
(* The swarm of pkg/council/swarm.go: peer agents over one message log,    *)
(* each with an inner loop of model and tools, that hand control over by   *)
(* calling a handoff tool. A call of that tool names the agent; any other  *)
(* call names Tool.                                                        *)
(***************************************************************************)

CONSTANTS
  Agents,           \* name -> [handoffs, tools]: the configured agents
  First,            \* SwarmConfig.Start
  MaxTurns          \* SwarmAgent.MaxIterations

VARIABLES
  w,                \* the copy of the state that an agent node works on
  turn              \* its inner iteration

locals == <<w, turn>>

Tool == "tool"
System == [role |-> "system"]

(* What NewSwarm asks of its Config; the names are distinct in a function. *)
ValidSwarm ==
  LET names == DOMAIN Agents IN
  /\ First \in names
  /\ names \cap {Empty, START, END, "trap"} = {}
  /\ \A a \in names : Agents[a].handoffs \subseteq names \ {a}

(* The caller may have written a system message of its own.                *)
SwarmSeeds ==
  {[messages |-> m, active |-> First, hops |-> 0, final |-> Empty]
     : m \in {<<User("hello")>>, <<System, User("hello")>>}}

SwarmGraph ==
  LET g == AddEdge(AddEdge(AddNode(NewGraph, "trap", FALSE), "trap", END),
                   START, First)
  IN Runnable([g EXCEPT !.nodes = @ \cup DOMAIN Agents, !.routers = DOMAIN Agents])

SwarmConfigs ==
  {c \in {[kind |-> "swarm", graph |-> SwarmGraph,
           maxSteps |-> MaxHops * 4 + 4, maxRuns |-> 1]} : ValidSwarm}

SwarmRouter(state) ==
  IF state.final # Empty THEN END
  ELSE IF state.active = Empty THEN END
  ELSE IF state.active \notin DOMAIN Agents \/ state.hops >= MaxHops THEN "trap"
  ELSE state.active

-----------------------------------------------------------------------------
(* The active agent is next.                                               *)

Activate(a) ==
  /\ At(a)
  /\ pc' = "agent"
  /\ w' = [s EXCEPT !.hops = @ + 1]
  /\ turn' = 0
  /\ UNCHANGED <<cfg, s, next, step, ret, executor, history>>

(* The elements of list at the positions in I, in their order.             *)
Kept(list, I) ==
  LET kept[n \in 0 .. Len(list)] ==
        IF n = 0 THEN << >>
        ELSE IF n \in I THEN Append(kept[n - 1], list[n]) ELSE kept[n - 1]
  IN kept[Len(list)]

(* The conversation as the agent is shown it: its own instructions, and    *)
(* nobody else's.                                                          *)
Shown(messages) ==
  <<System>> \o Kept(messages, {i \in DOMAIN messages : messages[i].role # "system"})

Turns == {[i \in 1 .. n |-> [id |-> CallIds(n)[i], to |-> f[i]]]
            : f \in [1 .. MaxCalls -> {Tool} \cup DOMAIN Agents], n \in 0 .. MaxCalls}

(* The calls of declared handoffs; the first of them is the one followed.  *)
Handoffs(calls) ==
  Kept(calls, {i \in DOMAIN calls : calls[i].to \in Agents[next].handoffs})

(* Slip: a rejected handoff is not answered. *)
RejectedNot(calls) == << >>

RealCalls(calls) == Kept(calls, {i \in DOMAIN calls : calls[i].to = Tool})

Rejected(calls) ==
  LET undeclared == Kept(calls, {i \in DOMAIN calls : calls[i].to # Tool}) IN
  [i \in DOMAIN undeclared |-> ToolResult(undeclared[i].id)]

(* The handoff and the calls dropped beside it.                            *)
Acknowledge(calls) == [i \in DOMAIN calls |-> ToolResult(calls[i].id)]

(* The node returns state.                                                 *)
AgentReturns(state) ==
  /\ s' = state
  /\ Follow(next, SwarmRouter(state))
  /\ UNCHANGED <<executor, locals>>

(* Its message has no call: its text, empty or not, is the answer.         *)
AgentAnswers(messages) ==
  \E final \in {Empty, Final} :
    AgentReturns([w EXCEPT !.messages = messages, !.final = final, !.active = Empty])

AgentHandsOff(messages, calls) ==
  AgentReturns([w EXCEPT !.messages = messages \o Acknowledge(calls),
                         !.active = Handoffs(calls)[1].to])

(* A handoff that was not declared is answered, and not followed.          *)
AgentCalls(messages, calls) ==
  IF RealCalls(calls) # << >> /\ ~Agents[next].tools
  THEN NodeFails({"no tools"}) /\ UNCHANGED <<executor, locals>>
  ELSE /\ w' = [w EXCEPT !.messages = messages]
       /\ StartCalls(RealCalls(calls))
       /\ UNCHANGED <<s, next, step, ret, turn>>

AskAgent ==
  /\ pc = "agent"
  /\ turn < MaxTurns
  /\ asked' = Shown(w.messages)
  /\ \/ /\ NodeFails({"model"})
        /\ UNCHANGED <<turns, executor, locals>>
     \/ /\ turns' = turns + 1
        /\ \E calls \in Turns :
             LET messages == Append(w.messages, Assistant(calls)) IN
             IF calls = << >> THEN AgentAnswers(messages)
             ELSE IF Handoffs(calls) # << >> THEN AgentHandsOff(messages, calls)
             ELSE AgentCalls(messages, calls)
  /\ UNCHANGED <<cfg, runs>>

AgentTools ==
  /\ AllReturned
  /\ pc' = "agent"
  /\ w' = [w EXCEPT !.messages =
             @ \o Results \o Rejected(CallsOf(LastOf(w.messages)))]
  /\ turn' = turn + 1
  /\ Collected
  /\ UNCHANGED <<cfg, s, next, step, ret, history>>

AgentExhausted ==
  /\ pc = "agent"
  /\ turn = MaxTurns
  /\ NodeFails({"exhausted"})
  /\ UNCHANGED <<cfg, executor, locals, history>>

SwarmStart == Begin /\ UNCHANGED locals

SwarmNext ==
  SwarmStart \/ AskAgent \/ AgentTools \/ AgentExhausted \/ (TrapNode /\ UNCHANGED locals)
  \/ \E a \in DOMAIN Agents : Activate(a)

-----------------------------------------------------------------------------
(***************************************************************************)
(* A swarm is silent about nothing: without an error it ends with an       *)
(* answer, or with the empty one that its last model gave; with "max hops" *)
(* at the cap, right behind a handoff to an agent it knows.                *)
(***************************************************************************)
SwarmEndIsTold ==
  cfg.kind = "swarm" =>
    /\ s.hops <= MaxHops
    /\ ret # "unknown target"
    /\ pc = "idle" /\ ret = "nil" =>
         LastOf(s.messages) = Assistant(<< >>) /\ s.active = Empty
    /\ ret = "max hops" =>
         /\ s.hops = MaxHops /\ s.final = Empty
         /\ \E i \in DOMAIN s.messages : \E c \in ToSet(CallsOf(s.messages[i])) :
              /\ i + Len(CallsOf(s.messages[i])) = Len(s.messages)
              /\ c.to = s.active

=============================================================================
