------------------------------- MODULE Agents -------------------------------
(***************************************************************************)
(* The agents and councils together: one of them, built on the runtime and *)
(* the tool executor of AgentRun, with a caller and models, tools, guards  *)
(* and contexts that may fail anywhere.                                    *)
(***************************************************************************)
EXTENDS ReAct, PlanExecute, Councils

Seeds(kind) ==
  CASE kind = "react"      -> {SeedState}
    [] kind = "plan"       -> PlanSeeds
    [] kind = "supervisor" -> {SupervisorSeed}
    [] kind = "swarm"      -> SwarmSeeds

Init ==
  /\ cfg \in ReActConfigs \cup PlanConfigs \cup SupervisorConfigs \cup SwarmConfigs
  /\ s \in Seeds(cfg.kind)
  /\ pc = "idle" /\ next = END /\ step = 0 /\ ret = "edited"
  /\ pending = << >> /\ out = << >>
  /\ asked = << >> /\ turns = 0 /\ runs = 0
  /\ started = SeedState /\ vetted = {} /\ ran = 0 /\ edits = 0
  /\ adopted = << >>
  /\ w = s /\ turn = 0

(* Each kind takes its own steps: names of nodes may coincide.             *)
Next ==
  \/ cfg.kind = "react" /\ ReActNext /\ UNCHANGED <<adopted, locals>>
  \/ cfg.kind = "plan" /\ PlanNext /\ UNCHANGED <<reactVars, locals>>
  \/ cfg.kind = "supervisor" /\ SupervisorNext /\ UNCHANGED <<reactVars, adopted, locals>>
  \/ cfg.kind = "swarm" /\ SwarmNext /\ UNCHANGED <<reactVars, adopted>>
  \/ Loop /\ UNCHANGED <<reactVars, adopted, locals>>

Spec == Init /\ [][Next]_<<agentVars, reactVars, adopted, locals>>

-----------------------------------------------------------------------------
(* Every call of an assistant message is answered right after it, once,    *)
(* and a ReAct agent keeps the order of the calls; with open, the last     *)
(* message may still wait.                                                 *)
Answered(messages, open) ==
  \A i \in DOMAIN messages :
    LET calls   == CallsOf(messages[i])
        answers == SubSeq(messages, i + 1, i + Len(calls))
    IN \/ open /\ i = Len(messages)
       \/ /\ i + Len(calls) <= Len(messages)
          /\ {ToolResult(calls[j].id) : j \in DOMAIN calls} = ToSet(answers)
          /\ cfg.kind = "react" =>
               answers = [j \in DOMAIN calls |-> ToolResult(calls[j].id)]

(***************************************************************************)
(* A run of a ReAct agent or of a swarm that was given a conversation      *)
(* whose calls are all answered sends a model only such conversations,     *)
(* whatever order the tools finish in, whichever calls a handoff drops or  *)
(* an agent may not make, and returns one, unless it was stopped and says  *)
(* so: by an error or by StoppedAtIterationCap.                            *)
(***************************************************************************)
CallsAreAnswered ==
  /\ cfg.kind = "react" /\ edits = 0 /\ Answered(started.messages, FALSE) =>
       /\ Answered(asked, FALSE)
       /\ pc = "idle" /\ ret = "nil" => Answered(s.messages, s.capped)
  /\ cfg.kind = "swarm" => Answered(asked, FALSE) /\ Answered(s.messages, FALSE)

(***************************************************************************)
(* The soft caps of the agents, MaxIterations and MaxHops, end every run   *)
(* before the step limit does that each constructor derives from them. Of  *)
(* a ReAct run, a council and a swarm the result says that it was cut      *)
(* short; a Plan-and-Execute run that was returns an empty text without an *)
(* error, and never an answer. See CapEndsTheRun of ReAct,                 *)
(* PlanEndIsAccounted of PlanExecute, SwarmEndIsTold and HopsAreAccounted  *)
(* of Councils.                                                            *)
(***************************************************************************)
TruncationIsTold ==
  /\ ret # "max steps"
  /\ CapEndsTheRun /\ PlanEndIsAccounted /\ SwarmEndIsTold /\ HopsAreAccounted

=============================================================================
