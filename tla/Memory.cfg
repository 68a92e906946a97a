CONSTANTS
  Doc = {"d", "e"}
  None = None
  Nobody = Nobody
  FailedSource = FailedSource
  Batch <- MCBatch
  Number = {1, 2, 3, 4}
  Query <- MCQuery
  KeyOrder <- MCKeyOrder
  MaxOps = 2
  PageSize = 1
  Snapper = {t1, t2}
  MaxAppends = 3
  MaxSnapshots = 3
  Costs = {1, 2}
  SummaryCost = 1
  HeaderCost = 1
  Jobs <- MCJobs
  Caller = {"v", "w"}
  Embeds <- MCEmbeds
  BatchLimit = 2
  Native = 2
  Thread = {"t", "u"}
  Works <- MCWorks
  Fixtures <- MCFixtures
  Rounds = 2
  ID <- MCID
  Worker = {"v", "w"}
  Scorers <- MCScorers
  Thresholds <- MCThresholds
  Unset = Unset
  Reply <- MCReply
  PassThreshold = 70
SPECIFICATION Spec
INVARIANTS ConversationIsKept ChunkersKeepTheText RankingsAreRespected BundleIsKept VectorsFollowTheirTexts ReplayRepeatsTheRun JudgesAreReadSafely
PROPERTIES StoreKeepsItsPromise EvaluationReports
CHECK_DEADLOCK FALSE
