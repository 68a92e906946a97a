CONSTANTS
  plan = plan
  act = act
  review = review
  START = START
  END = END
  Empty = Empty
  Name = {plan, act, review}
  Label = {}
  R <- MCGraph
  RouterOut <- MCRouterOut
  Options <- MCOptions
  Buffer = 2
SPECIFICATION Spec
INVARIANT AfterRunSeesTheError
CHECK_DEADLOCK FALSE
