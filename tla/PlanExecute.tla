---------------------------- MODULE PlanExecute ----------------------------
(***************************************************************************)
(* The Plan-and-Execute agent of pkg/agent/planexecute.go on the graph     *)
(* runtime. The inner ReAct run that executes a step is a result or an     *)
(* error (ReAct models it); the text of a result is left out of its record.*)
(***************************************************************************)
EXTENDS AgentRun, SequencesExt

CONSTANTS
  PlanStep,          \* the steps that models write
  MaxPlan,           \* bound: steps in one plan
  MaxPlanIterations  \* PlanExecuteConfig.MaxIterations

ASSUME PlanConstants ==
  /\ MaxPlan \in Nat /\ MaxPlanIterations \in Nat \ {0}
  /\ {"plan", "execute", "replan"} \subseteq Name

VARIABLE adopted     \* history: the plans that the planner and replanner gave

Answer == "answer"   \* any text that is not empty

PlanSeeds ==
  [input : {Empty, Answer}, plan : {<< >>}, past : {<< >>}, final : {Empty},
   iter : {0}]

(* What parsePlan and parseReplan may make of a reply that is well formed. *)
Plans == BoundedSeq(PlanStep, MaxPlan)

PlanGraph ==
  LET nodes == AddNode(AddNode(AddNode(NewGraph, "plan", FALSE), "execute", FALSE),
                       "replan", FALSE)
  IN Runnable(AddConditionalEdge(
       AddEdge(AddEdge(AddEdge(nodes, START, "plan"), "plan", "execute"),
               "execute", "replan"), "replan", FALSE))

PlanConfigs ==
  {[kind |-> "plan", graph |-> PlanGraph, maxSteps |-> MaxPlanIterations * 4 + 6,
    maxRuns |-> 1]}

-----------------------------------------------------------------------------
PlanNode ==
  /\ At("plan")
  /\ IF s.input = Empty
     THEN NodeFails({"no input"}) /\ UNCHANGED adopted
     ELSE \/ NodeFails({"blocked", "model", "malformed"}) /\ UNCHANGED adopted
          \/ \E plan \in Plans :
               /\ s' = [s EXCEPT !.plan = plan]
               /\ adopted' = Append(adopted, plan)
               /\ Follow("plan", Empty)
  /\ UNCHANGED <<cfg, executor, asked, turns, runs>>

(* Slip: the step stays in the plan. *)
ExecuteNodeKeeps ==
  /\ At("execute")
  /\ IF s.plan = << >>
     THEN NodeFails({"empty plan"})
     ELSE \/ NodeFails({"executor"})
          \/ /\ s' = [s EXCEPT !.past = Append(@, Head(s.plan))]
             /\ Follow("execute", Empty)
  /\ UNCHANGED <<cfg, executor, asked, turns, runs, adopted>>

ExecuteNode ==
  /\ At("execute")
  /\ IF s.plan = << >>
     THEN NodeFails({"empty plan"})
     ELSE \/ NodeFails({"executor"})
          \/ /\ s' = [s EXCEPT !.plan = Tail(@), !.past = Append(@, Head(s.plan))]
             /\ Follow("execute", Empty)
  /\ UNCHANGED <<cfg, executor, asked, turns, runs, adopted>>

PlanRouter(state) ==
  IF state.final # Empty \/ state.iter >= MaxPlanIterations \/ state.plan = << >>
  THEN END ELSE "execute"

(* What the replanner is shown.                                            *)
Payload(state) == [past |-> state.past, plan |-> state.plan]

(* A final answer may be blocked by an output guard; it drops the plan.    *)
ReplanNode ==
  /\ At("replan")
  /\ asked' = Payload(s)
  /\ \/ NodeFails({"blocked", "model", "malformed"}) /\ UNCHANGED adopted
     \/ \E plan \in Plans, final \in {Empty, Answer} :
          /\ s' = [s EXCEPT !.iter = @ + 1, !.final = final,
                            !.plan = IF final = Empty THEN plan ELSE << >>]
          /\ adopted' = IF final = Empty THEN Append(adopted, plan) ELSE adopted
          /\ Follow("replan", PlanRouter(s'))
  /\ UNCHANGED <<cfg, executor, turns, runs>>

PlanStart == Begin /\ UNCHANGED adopted

PlanNext == PlanStart \/ PlanNode \/ ExecuteNode \/ ReplanNode

-----------------------------------------------------------------------------
(***************************************************************************)
(* The steps are executed in the order of the plan in force, one for each  *)
(* plan that a model gave; a replanner is shown every step of that plan    *)
(* once, as the last one completed or as remaining; and at most            *)
(* MaxPlanIterations steps are executed.                                   *)
(***************************************************************************)
PlanIsFollowed ==
  cfg.kind = "plan" =>
    /\ Len(s.past) \in {s.iter, s.iter + 1}
    /\ Len(s.past) <= MaxPlanIterations
    /\ \A i \in DOMAIN s.past : adopted[i] # << >> /\ s.past[i] = Head(adopted[i])
    /\ asked # << >> =>
         <<LastOf(asked.past)>> \o asked.plan = adopted[Len(asked.past)]

(* Nothing sets an error when the loop ends at MaxIterations: the run      *)
(* returns nil whether the replanner answered, gave neither an answer nor  *)
(* a plan, or was cut short with steps remaining. Steps remain only at the *)
(* cap, and then the empty text is all that tells: they never come with a  *)
(* final answer.                                                           *)
CutAtTheCap == s.plan # << >> => s.iter = MaxPlanIterations /\ s.final = Empty

PlanEndIsAccounted == cfg.kind = "plan" /\ pc = "idle" /\ ret = "nil" => CutAtTheCap

=============================================================================
