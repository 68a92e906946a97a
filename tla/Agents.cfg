CONSTANTS
  START = START
  END = END
  Empty = Empty
  Name <- MCName
  Label = {}
  Text = {"hello", "more"}
  Seed = "hello"
  MaxIterations = 2
  MaxCalls = 2
  MaxRuns = 2
  MaxEdits = 2
  PlanStep = {"p", "q"}
  MaxPlan = 2
  MaxPlanIterations = 3
  Worker = {"w1", "w2"}
  MaxHops = 3
  Agents <- MCAgents
  First = "a"
  MaxTurns = 2
SPECIFICATION Spec
INVARIANTS UserMessagesAreVetted CallsAreAnswered TruncationIsTold PlanIsFollowed
CHECK_DEADLOCK FALSE
