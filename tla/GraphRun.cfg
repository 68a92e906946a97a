CONSTANTS
  plan = plan
  act = act
  review = review
  old = old
  lost = lost
  again = again
  done = done
  START = START
  END = END
  Empty = Empty
  Name <- MCName
  Label <- MCLabel
  R <- MCGraph
  RouterOut <- MCRouterOut
  Retired = {old}
  Options <- MCOptions
  RunnableMaxSteps = 0
  DefaultMaxSteps = 4
  MaxCalls = 4
SPECIFICATION Spec
INVARIANTS InputIsDurable StepCountsEffects BodiesAreAllowed ResultMatchesStore
PROPERTIES DurablePositionWalks EveryCallReturns
CHECK_DEADLOCK FALSE
