CONSTANTS
  Nothing = Nothing
  MaxAttempts = 3
  InitialDelay = 4
  MaxDelay = 6
  Multiplier = 2
  MaxTail = 6
  Calls <- MCCallSet
  Failures <- MCFailures
  Exporters = {e1, e2}
  Stoppers = {s1, s2}
  Workloads <- MCWorkloads
  FeedLimit = 2
  MaxTicks = 1
  Conversations <- MCConversations
SPECIFICATION Spec
INVARIANTS RetryKeepsItsDistance SpanTellsTheOutcome StreamAgreesWithGenerate StrippingIgnoresTheSplit ConversationsAreCarried TracesAreTold
PROPERTIES EverySpanEnds
CHECK_DEADLOCK FALSE
